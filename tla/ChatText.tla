------------------------------ MODULE ChatText ------------------------------
(***************************************************************************)
(* What travels between hw7/chatserver.c and hw7/chatclient.c.             *)
(*                                                                         *)
(* A text is a sequence of units, and a byte stream has no boundaries: two *)
(* texts sent one after the other may be received as one.  A unit stands   *)
(* for a run of bytes that is never split.  What the server sends is kept  *)
(* as one unit per message, a record; `who' names the connection it is     *)
(* about, which the bytes themselves do not: they carry the user name.     *)
(***************************************************************************)
EXTENDS Sequences

CONSTANTS
    Unit,               \* the units of what people type
    Bye                 \* the text "bye"

ASSUME ChatTextAssumption == Bye \in Seq(Unit) \ {<<>>}

Text == Seq(Unit)

Welcome(members) == [kind |-> "welcome", who |-> members]
Joined(c, u)     == [kind |-> "joined", who |-> c, user |-> u]
Left(c, u)       == [kind |-> "left", who |-> c, user |-> u]
Said(c, u, t)    == [kind |-> "said", who |-> c, user |-> u, text |-> t]
Goodbye          == [kind |-> "bye"]

NoticeOf(Who) ==
         [kind : {"welcome"}, who : SUBSET Who]
    \cup [kind : {"joined", "left"}, who : Who, user : Text]
    \cup [kind : {"said"}, who : Who, user : Text, text : Text]
    \cup [kind : {"bye"}]

IsBye(text) == text = Bye
IsGoodbye(notices) == notices = <<Goodbye>>
=============================================================================
