-------------------------------- MODULE Tcp --------------------------------
(***************************************************************************)
(* The kernel's TCP as hw7/chatserver.c and hw7/chatclient.c use it: one   *)
(* listening socket and at most one connection per client process.  None   *)
(* of this is under src/; it is what socket(7) and tcp(7) promise of       *)
(* accept, send, recv, select and close.                                   *)
(*                                                                         *)
(* A connection has two endpoints.  An endpoint is the receive queue `inq' *)
(* (bytes, in units the callers choose) and the state `link' of its        *)
(* descriptor:                                                             *)
(*   closed    no descriptor of this side is open                          *)
(*   up        both sides are open                                         *)
(*   eof       the peer closed: recv returns 0 once inq is empty           *)
(*   probed    eof, and a send since then: the reset it provokes is in     *)
(*             flight                                                      *)
(*   aborting  the peer closed with unread bytes: its reset is in flight   *)
(*   reset     the reset arrived: the next call fails with ECONNRESET      *)
(*   dead      recv returns 0 and send raises SIGPIPE                      *)
(* Receive queues are unbounded: a send never blocks.                      *)
(***************************************************************************)
EXTENDS Integers, Sequences, FiniteSets

CONSTANT Clients        \* the client processes, each with one connection

VARIABLES
    net,                \* net[c][s]: endpoint of c's connection on side s
    backlog,            \* established connections that accept has not returned
    listening           \* the listening socket is open and listening

tcpVars == <<net, backlog, listening>>

Sides == {"client", "server"}
Links == {"closed", "up", "eof", "probed", "aborting", "reset", "dead"}
Peer(s) == IF s = "client" THEN "server" ELSE "client"

Fresh(link) == [inq |-> <<>>, link |-> link]

TcpInit ==
    /\ net = [c \in Clients |-> [s \in Sides |-> Fresh("closed")]]
    /\ backlog = <<>>
    /\ listening = FALSE

(***************************************************************************)
(* What one endpoint may do.                                               *)
(***************************************************************************)
HasData(e) == e.inq # <<>>
AtEof(e)   == e.inq = <<>> /\ e.link \in {"eof", "probed", "dead"}
AtReset(e) == e.inq = <<>> /\ e.link = "reset"
\* select reports the descriptor readable: recv on it would not block.
Readable(e) == HasData(e) \/ AtEof(e) \/ AtReset(e)

(***************************************************************************)
(* What a call does to the connections N.                                  *)
(***************************************************************************)
Opened(N, c) == [N EXCEPT ![c] = [s \in Sides |-> Fresh("up")]]

\* recv returns the first n units that the endpoint holds ...
Took(N, c, s, n) == [N EXCEPT ![c][s].inq = SubSeq(@, n + 1, Len(@))]
\* ... or fails with the pending error, which is reported once.
Reported(N, c, s) == [N EXCEPT ![c][s].link = "dead"]

\* A send of text on side s of one connection n; the caller sees to "dead".
AfterSend(n, s, text) ==
    CASE n[s].link = "up"    -> [n EXCEPT ![Peer(s)].inq = @ \o text]
      [] n[s].link = "eof"   -> [n EXCEPT ![s].link = "probed"]
      [] n[s].link = "reset" -> [n EXCEPT ![s].link = "dead"]
      [] OTHER               -> n

Sent(N, C, s, text) ==
    [c \in Clients |-> IF c \in C THEN AfterSend(N[c], s, text) ELSE N[c]]

\* close on side s, by close() or by the end of the process: bytes left
\* unread turn the orderly close into a reset.
AfterClose(n, s) ==
    [n EXCEPT ![s] = Fresh("closed"),
              ![Peer(s)].link = IF @ # "up" THEN @
                                ELSE IF HasData(n[s]) THEN "aborting"
                                ELSE "eof"]

Closed(N, C, s) ==
    [c \in Clients |-> IF c \in C THEN AfterClose(N[c], s) ELSE N[c]]

\* Closing the listening socket resets the connections in the backlog.
AfterAbort(n) ==
    [n EXCEPT !["server"] = Fresh("closed"),
              !["client"].link = IF @ = "up" THEN "aborting" ELSE @]

Aborted(N, C) ==
    [c \in Clients |-> IF c \in C THEN AfterAbort(N[c]) ELSE N[c]]

Queued == {backlog[k] : k \in DOMAIN backlog}

(***************************************************************************)
(* The network delivers a reset.                                           *)
(***************************************************************************)
AwaitsReset(e) == e.link \in {"aborting", "probed"}

ResetArrives(c, s) ==
    /\ AwaitsReset(net[c][s])
    /\ net' = [net EXCEPT ![c][s].link = IF @ = "aborting" THEN "reset"
                                         ELSE "dead"]
    /\ UNCHANGED <<backlog, listening>>
=============================================================================
