----------------------------- MODULE ChatClient -----------------------------
(***************************************************************************)
(* hw7/chatclient.c: one process per client, one thread.  `cpc' is the     *)
(* next call of that client:                                               *)
(*   prompt    the loop that reads a user name      (main 117-130)         *)
(*   connect   socket, connect                      (main 139-150)         *)
(*   welcome   recv of the welcome message          (159-167)              *)
(*   name      send of the user name                (170-174)              *)
(*   select    select() on stdin and the socket     (188-198)              *)
(*   typed     stdin is ready                       (208-230)              *)
(*   both      stdin is ready, and the socket is    (208-230, then 242)    *)
(*   incoming  the socket is ready                  (242-260)              *)
(*   exit0, exit1, killed  the process is gone: EXIT_SUCCESS,              *)
(*             EXIT_FAILURE, or a signal (CTRL+C, SIGPIPE)                 *)
(***************************************************************************)
EXTENDS Tcp, ChatText

CONSTANTS
    Names,              \* the user names people type
    Lines,              \* the lines people type, besides "bye"
    ClientCap,          \* notices that one recv of BUFLEN bytes can take in
    BacklogLimit,       \* connections the listening socket can hold
    MaxTyped            \* bound: the lines all of them type together

ASSUME ChatClientAssumption ==
    /\ Names \subseteq Text \ {<<>>}
    /\ Lines \subseteq Text \ {<<>>, Bye}
    /\ ClientCap \in Nat \ {0}
    /\ BacklogLimit \in Nat
    /\ MaxTyped \in Nat

VARIABLES
    cpc,                \* client -> its next call
    username,           \* client -> the name typed (line 18)
    typed,              \* how often a client found stdin ready
    sent,               \* history: client -> everything it sent
    screen              \* history: client -> every notice it received

clientVars == <<cpc, username, typed, sent, screen>>

Ended == {"exit0", "exit1", "killed"}
Chatting == {"select", "typed", "both", "incoming"}

ClientInit ==
    /\ cpc = [c \in Clients |-> "prompt"]
    /\ username = [c \in Clients |-> <<>>]
    /\ typed = 0
    /\ sent = [c \in Clients |-> <<>>]
    /\ screen = [c \in Clients |-> <<>>]

Own(c) == net[c]["client"]

Goto(c, where) == cpc' = [cpc EXCEPT ![c] = where]

\* EXIT: the socket is closed and the process returns.
Leave(c, where) ==
    /\ Goto(c, where)
    /\ net' = Closed(net, {c}, "client")

\* get_string, repeated until a name that is neither empty nor too long.
Prompt(c) ==
    /\ cpc[c] = "prompt"
    /\ \E name \in Names : username' = [username EXCEPT ![c] = name]
    /\ Goto(c, "connect")
    /\ UNCHANGED <<tcpVars, typed, sent, screen>>

\* connect succeeds as soon as the kernel queued the connection.
Connect(c) ==
    /\ cpc[c] = "connect"
    /\ IF listening
       THEN /\ Len(backlog) < BacklogLimit
            /\ net' = Opened(net, c)
            /\ backlog' = Append(backlog, c)
            /\ Goto(c, "welcome")
       ELSE /\ Goto(c, "exit1")
            /\ UNCHANGED <<net, backlog>>
    /\ UNCHANGED <<listening, username, typed, sent, screen>>

\* Both recv functions (22-52): up to ClientCap notices come in.
Shown(c, n) == screen' = [screen EXCEPT ![c] = @ \o SubSeq(Own(c).inq, 1, n)]

ReceiveWelcome(c) ==
    /\ cpc[c] = "welcome"
    /\ Readable(Own(c))
    /\ IF HasData(Own(c))
       THEN \E n \in 1 .. ClientCap :
               /\ n <= Len(Own(c).inq)
               /\ Shown(c, n)
               /\ net' = Took(net, c, "client", n)
               /\ Goto(c, "name")
       ELSE /\ Leave(c, "exit1")
            /\ UNCHANGED screen
    /\ UNCHANGED <<backlog, listening, username, typed, sent>>

(***************************************************************************)
(* send on the client's socket, which may fail or raise SIGPIPE.           *)
(***************************************************************************)
Transmit(c, text) ==
    /\ net' = Sent(net, {c}, "client", text)
    /\ sent' = [sent EXCEPT ![c] = @ \o text]

KilledBySend(c) ==
    /\ Own(c).link = "dead"
    /\ Leave(c, "killed")
    /\ UNCHANGED sent

SendFails(c) ==
    /\ Own(c).link = "reset"
    /\ net' = Reported(net, c, "client")
    /\ UNCHANGED sent

CanSend(c) == Own(c).link \notin {"dead", "reset"}

SendName(c) ==
    /\ cpc[c] = "name"
    /\ \/ KilledBySend(c)
       \/ /\ Own(c).link = "reset"
          /\ Leave(c, "exit1")
          /\ UNCHANGED sent
       \/ /\ CanSend(c)
          /\ Transmit(c, username[c])
          /\ Goto(c, "select")
    /\ UNCHANGED <<backlog, listening, username, typed, screen>>

(***************************************************************************)
(* The select loop.  A person may or may not have typed something; the     *)
(* socket counts as ready exactly when it is.                              *)
(***************************************************************************)
SelectTyped(c) ==
    /\ cpc[c] = "select"
    /\ typed < MaxTyped
    /\ typed' = typed + 1
    /\ Goto(c, IF Readable(Own(c)) THEN "both" ELSE "typed")
    /\ UNCHANGED <<tcpVars, username, sent, screen>>

SelectIncoming(c) ==
    /\ cpc[c] = "select"
    /\ Readable(Own(c))
    /\ Goto(c, "incoming")
    /\ UNCHANGED <<tcpVars, username, typed, sent, screen>>

AfterStdin(c) == IF cpc[c] = "both" THEN "incoming" ELSE "select"

\* get_string returned OK: the line is sent, and "bye" ends the program when
\* the send did not fail.
SendLine(c) ==
    /\ cpc[c] \in {"typed", "both"}
    /\ \E line \in Lines \cup {Bye} :
          \/ KilledBySend(c)
          \/ SendFails(c) /\ Goto(c, AfterStdin(c))
          \/ /\ CanSend(c)
             /\ ~ IsBye(line)
             /\ Transmit(c, line)
             /\ Goto(c, AfterStdin(c))
          \/ /\ CanSend(c)
             /\ IsBye(line)
             /\ sent' = [sent EXCEPT ![c] = @ \o Bye]
             /\ net' = Closed(Sent(net, {c}, "client", Bye), {c}, "client")
             /\ Goto(c, "exit0")
    /\ UNCHANGED <<backlog, listening, username, typed, screen>>

\* get_string returned TOO_LONG or NO_INPUT: nothing is sent.
IgnoreLine(c) ==
    /\ cpc[c] \in {"typed", "both"}
    /\ Goto(c, AfterStdin(c))
    /\ UNCHANGED <<tcpVars, username, typed, sent, screen>>

\* recv returned 0.
ConnectionLost_Ignored(c) ==
    /\ AtEof(Own(c))
    /\ Goto(c, "select")
    /\ UNCHANGED <<net, screen>>

ConnectionLost(c) ==
    /\ AtEof(Own(c))
    /\ Leave(c, "exit1")
    /\ UNCHANGED screen

Incoming(c) ==
    /\ cpc[c] = "incoming"
    /\ \/ \E n \in 1 .. ClientCap :
             /\ n <= Len(Own(c).inq)
             /\ Shown(c, n)
             /\ LET N == Took(net, c, "client", n)
                IN  IF IsGoodbye(SubSeq(Own(c).inq, 1, n))
                    THEN net' = Closed(N, {c}, "client") /\ Goto(c, "exit0")
                    ELSE net' = N /\ Goto(c, "select")
       \/ ConnectionLost(c)
       \/ /\ AtReset(Own(c))
          /\ net' = Reported(net, c, "client")
          /\ Goto(c, "select")
          /\ UNCHANGED screen
    /\ UNCHANGED <<backlog, listening, username, typed, sent>>

\* CTRL+C, or any other end of the process: the kernel closes its socket.
Kill(c) ==
    /\ cpc[c] \notin Ended \cup {"prompt"}
    /\ Leave(c, "killed")
    /\ UNCHANGED <<backlog, listening, username, typed, sent, screen>>

\* What the process does by itself, once it has a name.
ClientSteps(c) ==
    \/ Connect(c) \/ ReceiveWelcome(c) \/ SendName(c)
    \/ SelectIncoming(c) \/ SendLine(c) \/ Incoming(c)

\* What the person in front of it does.
UserSteps(c) == Prompt(c) \/ SelectTyped(c) \/ IgnoreLine(c) \/ Kill(c)
=============================================================================
