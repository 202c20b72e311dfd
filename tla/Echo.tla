-------------------------------- MODULE Echo --------------------------------
(***************************************************************************)
(* clientserver/server.c and clientserver/client.c: a server that sends    *)
(* each client what it receives, one client at a time, and clients that    *)
(* send their arguments and print what comes back.                         *)
(***************************************************************************)
EXTENDS Integers, Sequences, FiniteSets

LOCAL INSTANCE Functions

CONSTANTS
    EchoClients,        \* the client processes, numbered from 1
    EchoArguments,      \* their command lines: the lengths of the arguments
    BUFLEN              \* the size of every buffer, 128

ASSUME EchoAssumption ==
    /\ EchoClients \subseteq Nat \ {0} /\ BUFLEN \in Nat \ {0, 1}
    /\ EchoArguments \subseteq Seq(Nat)

VARIABLES
    net, backlog, listening,    \* see Tcp
    server,                     \* the server: [pc, client, buf]
    client                      \* client -> [argv, pc, said]

Net == INSTANCE Tcp WITH Clients <- EchoClients

echoVars == <<net, backlog, listening, server, client>>

NUL == 0
Junk == 1               \* what the server's buf holds at first
Byte(c, i) == BUFLEN * c + i - 1

EchoInit(argvs, pc) ==
    /\ Net!TcpInit
    /\ server = [pc |-> pc, client |-> 0, buf |-> [i \in 1 .. BUFLEN |-> Junk]]
    /\ client = [c \in EchoClients |-> [argv |-> argvs[c], pc |-> pc, said |-> <<>>]]

(***************************************************************************)
(* The client's arguments.                                                 *)
(***************************************************************************)
Total(argv) == FoldFunction(LAMBDA len, sum : sum + len, 0, argv)

\* With a space between two.
msgs_too_long(argv) == Total(argv) + Len(argv) - 1 >= BUFLEN

\* How much of them gets into buf: those from the first that does not leave
\* room for two more characters are left out.
Room(len, arg) == len + arg + 1 < BUFLEN

MessageLen(argv) ==
    LET Before[i \in 0 .. Len(argv)] ==
            IF i = 0 THEN 0 ELSE Before[i - 1] + argv[i] + 1
        fits == {i \in DOMAIN argv : \A j \in 1 .. i : Room(Before[j - 1], argv[j])}
        n == Cardinality(fits)
    IN  IF n > 0 /\ n = Len(argv) THEN Before[n] - 1 ELSE Before[n]

Sent(c) == [i \in 1 .. MessageLen(client[c].argv) |-> Byte(c, i)]

(***************************************************************************)
(* The client.                                                             *)
(***************************************************************************)
ClientGoes(c, pc) == client' = [client EXCEPT ![c].pc = pc]

\* On every way out the kernel or the program closes the socket.
ClientEnds(c, how) ==
    /\ ClientGoes(c, how)
    /\ net' = Net!Closed(net, {c}, "client")

StartClient(c) ==
    /\ client[c].pc = "start"
    /\ LET argv == client[c].argv
       IN  \/ argv # <<>> /\ ~ msgs_too_long(argv) /\ ClientGoes(c, "connect")
           \/ ClientGoes(c, "failed")           \* also when there is no socket
    /\ UNCHANGED <<net, backlog, listening, server>>

Connect(c) ==
    /\ client[c].pc = "connect"
    /\ IF listening
       THEN /\ net' = Net!Opened(net, c)
            /\ backlog' = Append(backlog, c)
            /\ ClientGoes(c, "send")
       ELSE ClientGoes(c, "failed") /\ UNCHANGED <<net, backlog>>
    /\ UNCHANGED <<listening, server>>

\* A send of no bytes sends nothing and is not told of a reset.
SendMessage(c) ==
    /\ client[c].pc = "send"
    /\ LET link == net[c]["client"].link
       IN  \/ Sent(c) = <<>> /\ ClientGoes(c, "recv") /\ UNCHANGED net
           \/ Sent(c) # <<>> /\ link \in {"reset", "dead"} /\ ClientEnds(c, "failed")
           \/ /\ Sent(c) # <<>> /\ link \notin {"reset", "dead"}
              /\ net' = [net EXCEPT ![c] = Net!AfterSend(@, "client", Sent(c))]
              /\ ClientGoes(c, "recv")
    /\ UNCHANGED <<backlog, listening, server>>

\* printf stops at the first NUL.
UpToNul(bytes) ==
    LET printed == {i \in DOMAIN bytes : \A j \in 1 .. i : bytes[j] # NUL}
    IN  SubSeq(bytes, 1, Cardinality(printed))

RecvEcho(c) ==
    /\ client[c].pc = "recv"
    /\ LET e == net[c]["client"]
       IN
       \/ \E n \in 1 .. BUFLEN - 1 :
            /\ n <= Len(e.inq)
            /\ client' = [client EXCEPT ![c].pc = "exited",
                                        ![c].said = UpToNul(SubSeq(e.inq, 1, n))]
            /\ net' = Net!Closed(Net!Took(net, c, "client", n), {c}, "client")
       \/ Net!AtEof(e) /\ ClientEnds(c, "exited")
       \/ Net!AtReset(e) /\ ClientEnds(c, "failed")
    /\ UNCHANGED <<backlog, listening, server>>

(***************************************************************************)
(* The server.                                                             *)
(***************************************************************************)
ServerGoes(pc) == server' = [server EXCEPT !.pc = pc]

\* socket, setsockopt, bind and listen.
StartServer ==
    /\ server.pc = "start"
    /\ \/ listening' = TRUE /\ ServerGoes("accept")
       \/ ServerGoes("no socket") /\ UNCHANGED listening
    /\ UNCHANGED <<net, backlog, client>>

ServerEnds(how) ==
    /\ ServerGoes(how)
    /\ listening' = FALSE
    /\ backlog' = <<>>
    /\ net' = Net!Aborted(Net!Closed(net, {server.client} \ {0}, "server"), Net!Queued)
    /\ UNCHANGED client

Accept ==
    /\ server.pc = "accept" /\ backlog # <<>>
    /\ server' = [server EXCEPT !.pc = "recv", !.client = Head(backlog)]
    /\ backlog' = Tail(backlog)
    /\ UNCHANGED <<net, listening, client>>

\* The n bytes received, the terminator, and what was in buf behind them.
Filled_NoNul(buf, bytes) ==
    [i \in 1 .. BUFLEN |-> IF i <= Len(bytes) THEN bytes[i] ELSE buf[i]]
Filled(buf, bytes) ==
    [i \in 1 .. BUFLEN |-> IF i <= Len(bytes) THEN bytes[i]
                           ELSE IF i = Len(bytes) + 1 THEN NUL ELSE buf[i]]

RecvMessage ==
    /\ server.pc = "recv"
    /\ LET c == server.client
           e == net[c]["server"]
           Fill(n) == server' = [server EXCEPT !.pc = "send", !.buf = Filled(@, SubSeq(e.inq, 1, n))]
       IN  IF Net!AtReset(e) THEN ServerEnds("failed")
           ELSE /\ \/ \E n \in 1 .. BUFLEN - 1 :
                        n <= Len(e.inq) /\ Fill(n) /\ net' = Net!Took(net, c, "server", n)
                   \/ Net!AtEof(e) /\ Fill(0) /\ UNCHANGED net
                /\ UNCHANGED <<backlog, listening, client>>

\* The whole of buf is sent, then it is cleared and the connection closed.
SendEcho ==
    /\ server.pc = "send"
    /\ LET c == server.client
           link == net[c]["server"].link
       IN  IF link \in {"reset", "dead"}
           THEN ServerEnds(IF link = "dead" THEN "killed" ELSE "failed")
           ELSE /\ net' = Net!Closed([net EXCEPT ![c] = Net!AfterSend(@, "server", server.buf)],
                                     {c}, "server")
                /\ server' = [pc |-> "accept", client |-> 0, buf |-> [i \in 1 .. BUFLEN |-> NUL]]
                /\ UNCHANGED <<backlog, listening, client>>

\* A reset on its way arrives.
EchoReset ==
    /\ \E c \in EchoClients, s \in {"client", "server"} : Net!ResetArrives(c, s)
    /\ UNCHANGED <<server, client>>

EchoStep ==
    \/ \E c \in EchoClients : StartClient(c) \/ Connect(c) \/ SendMessage(c) \/ RecvEcho(c)
    \/ StartServer \/ Accept \/ RecvMessage \/ SendEcho \/ EchoReset

\* CTRL+C: nobody handles it.
KillOne ==
    \/ /\ \E c \in EchoClients : client[c].pc \in {"send", "recv"} /\ ClientEnds(c, "killed")
       /\ UNCHANGED <<backlog, listening, server>>
    \/ server.pc \in {"accept", "recv", "send"} /\ ServerEnds("stopped")
=============================================================================
