------------------------------ MODULE ChatProps ------------------------------
(***************************************************************************)
(* What the people in the chat room are promised: the member list they can *)
(* keep from what they are told, and each other's words.                   *)
(***************************************************************************)
EXTENDS Chat, SequencesExt


\* Everything the server ever sent to r that was not lost: shown, or in r's
\* receive queue.
Told(r) == screen[r] \o Own(r).inq

WhoOf(notices, kind) ==
    {m.who : m \in {m \in ToSet(notices) : m.kind = kind}}

Reachable == {c \in Members : net[c]["server"].link = "up"}

\* The member list that a client can keep from the welcome message and the
\* "joined" and "left" notices.
Roster(notices) ==
    ((UNION WhoOf(notices, "welcome")) \cup WhoOf(notices, "joined"))
        \ WhoOf(notices, "left")

\* The member list that a client can keep is the server's table without the
\* client itself.
RosterExact ==
    pc \in Alive => \A r \in Reachable : Roster(Told(r)) = Members \ {r}

\* What s said in the notices, as one stream of bytes.
Speech(s, notices) ==
    FlattenSeq([k \in DOMAIN notices |->
        IF notices[k].kind = "said" /\ notices[k].who = s
        THEN notices[k].text ELSE <<>>])

\* What r was told that s said, and what the server has not read of s yet.
Stream(s, r) == Speech(s, Told(r)) \o net[s]["server"].inq

IsEnd(text, whole) ==
    \E k \in 0 .. Len(whole) : text = SubSeq(whole, k + 1, Len(whole))

\* The user names under which r was told that s joined.
JoinedAs(s, notices) ==
    {m.user : m \in {m \in ToSet(notices) : m.kind = "joined" /\ m.who = s}}

\* However the stream is cut into messages, what r hears of s followed by what
\* the server has not read of s yet is the end of what s sent: no byte is
\* doubled, reordered or credited to somebody else.  When r was there before s,
\* it is all of it but the user name.
ConversationIntact ==
    running /\ pc \in Alive =>
        \A r, s \in Reachable :
            r # s =>
                /\ IsEnd(Stream(s, r), sent[s])
                /\ \A u \in JoinedAs(s, Told(r)) : sent[s] = u \o Stream(s, r)
=============================================================================
