----------------------------- MODULE GetString -----------------------------
(***************************************************************************)
(* get_string of hw7/util.h, called in a loop as the chat client does, and *)
(* a user who types lines or presses CTRL+D.  A read from the terminal     *)
(* returns no more than was typed up to one ENTER or CTRL+D.               *)
(***************************************************************************)
EXTENDS Integers, Sequences

CONSTANTS
    sz,                 \* the size the callers pass
    Typing              \* what the user may type: sequences of [len, enter]

ASSUME GetStringAssumption ==
    /\ sz \in Nat \ {0}
    /\ Typing \subseteq Seq([len : Nat, enter : BOOLEAN])

VARIABLES
    typing,             \* what the user types
    input,              \* what is left of it to read: [id, len, enter] each
    gpc,                \* read or drain
    strings             \* what the calls returned: [result, id, len]

getVars == <<typing, input, gpc, strings>>

GetInit(t) ==
    /\ typing = t
    /\ input = [i \in DOMAIN t |-> [id |-> i, len |-> t[i].len, enter |-> t[i].enter]]
    /\ gpc = "read"
    /\ strings = <<>>

Size(chunk) == chunk.len + IF chunk.enter THEN 1 ELSE 0
Returned(result, id, len) ==
    strings' = Append(strings, [result |-> result, id |-> id, len |-> len])

Rest(n) ==              \* once n characters were read of the first chunk
    IF n = Size(Head(input)) THEN Tail(input) ELSE <<[Head(input) EXCEPT !.len = @ - n]>> \o Tail(input)

ReadSize_OneMore(size) == IF size <= sz + 1 THEN size ELSE sz + 1
ReadSize(size) == IF size <= sz THEN size ELSE sz

\* Lines 82-97 and 104-108.
ReadString ==
    /\ gpc = "read" /\ input # <<>>
    /\ LET chunk == Head(input)
           n == ReadSize(Size(chunk))
       IN  /\ input' = Rest(n)
           /\ IF n = 0 \/ (n = 1 /\ chunk.len = 0)
              THEN Returned("NO_INPUT", chunk.id, 0) /\ UNCHANGED gpc
              ELSE IF n = Size(chunk) /\ chunk.enter
              THEN Returned("OK", chunk.id, n - 1) /\ UNCHANGED gpc
              ELSE gpc' = "drain" /\ UNCHANGED strings
    /\ UNCHANGED typing

AfterDrain_FirstRead(chunk) == "read"
AfterDrain(chunk) == IF chunk.enter \/ chunk.len = 0 THEN "read" ELSE "drain"

\* Line 98, for all characters that are there: up to ENTER, or CTRL+D with
\* nothing typed before it.
Drain ==
    /\ gpc = "drain" /\ input # <<>>
    /\ input' = Tail(input)
    /\ gpc' = AfterDrain(Head(input))
    /\ IF gpc' = "read" THEN Returned("TOO_LONG", Head(input).id, 0) ELSE UNCHANGED strings
    /\ UNCHANGED typing

GetStep == ReadString \/ Drain
=============================================================================
