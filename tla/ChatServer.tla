----------------------------- MODULE ChatServer -----------------------------
(***************************************************************************)
(* hw7/chatserver.c: one process, one thread, a select loop.  `pc' is the  *)
(* next system call:                                                       *)
(*   start    socket, setsockopt, bind, listen      (main 313-357)         *)
(*   loop     while (running), building the fd_set  (main 360-378)         *)
(*   select   select(), entered or about to be      (main 380-388)         *)
(*   accept   the test of the server socket         (main 390-397)         *)
(*   name     recv of the user name, it blocks      (200-224)              *)
(*   clients  the loop over the client sockets      (main 399-406)         *)
(*   cleanup, closing, returning                    (112-131, 409-414)     *)
(*   exited, killed                                 the process is gone    *)
(* A broadcast is one step: the thread is alone and the sends go to        *)
(* different connections.                                                  *)
(***************************************************************************)
EXTENDS Tcp, ChatText

CONSTANTS
    MAX_CONNECTIONS,    \* slots of the client table (line 23)
    MAX_MSG_LEN,        \* util.h line 19, in units
    Fds,                \* descriptors the process may still open: 0 .. n
    NULL,               \* a free entry of usernames
    NoClient            \* a descriptor that is not open

ASSUME ChatServerAssumption ==
    /\ MAX_CONNECTIONS \in Nat \ {0}
    /\ MAX_MSG_LEN \in Nat \ {0}
    /\ Fds \subseteq Nat
    /\ NULL \notin Text
    /\ NoClient \notin Clients

VARIABLES
    pc,
    running,            \* set by the signal handler, read by the loop
    client_sockets,     \* slot -> descriptor or NoFd
    usernames,          \* slot -> text or NULL
    num_connections,
    inbuf,              \* the text last received: it keeps its old contents
    sockset,            \* the fd_set: what select waits for, then what is ready
    slot,               \* the index of the loop over the client sockets
    new_socket,         \* the connection handle_server_socket works on
    fdtab,              \* the process's descriptors -> the client behind each
    retval

serverVars == <<pc, running, client_sockets, usernames, num_connections,
                inbuf, sockset, slot, new_socket, fdtab, retval>>

NoFd     == -1
ListenFd == -2                  \* server_socket, open while `listening'
Slots    == 0 .. MAX_CONNECTIONS - 1
Down     == {"exited", "killed"}
Serving  == {"loop", "select", "accept", "name", "clients"}
Alive    == {"start", "cleanup", "closing"} \cup Serving

\* The length given to recv (201, 251).
RecvCap_TooLong == MAX_MSG_LEN + 2
RecvCap == MAX_MSG_LEN + 1

ServerInit ==
    /\ pc = "start"
    /\ running = TRUE
    /\ client_sockets = [i \in Slots |-> NoFd]
    /\ usernames = [i \in Slots |-> NULL]
    /\ num_connections = 0
    /\ inbuf = <<>>
    /\ sockset = {}
    /\ slot = 0
    /\ new_socket = NoFd
    /\ fdtab = [fd \in Fds |-> NoClient]
    /\ retval = 0

Occupied  == {i \in Slots : client_sockets[i] # NoFd}
FreeSlots == Slots \ Occupied
First(S)  == CHOOSE i \in S : \A j \in S : i <= j
FreeFds   == {fd \in Fds : fdtab[fd] = NoClient}
ConnOf(i) == fdtab[client_sockets[i]]
Members   == {ConnOf(i) : i \in Occupied}
OpenConns == {fdtab[fd] : fd \in Fds} \ {NoClient}

(***************************************************************************)
(* broadcast_buffer: sends in slot order, skipping one slot.  A send that  *)
(* fails is a warning, except that a dead connection raises SIGPIPE, whose *)
(* action is the default one.                                              *)
(***************************************************************************)
Targets_UpToCount(skip) == {i \in Occupied \ {skip} : i < num_connections}
Targets(skip)    == Occupied \ {skip}
Fatal(N, skip)   == {i \in Targets(skip) : N[ConnOf(i)]["server"].link = "dead"}
Reached(N, skip) == {i \in Targets(skip) : \A j \in Fatal(N, skip) : i < j}
Broadcast(N, skip, notice) ==
    Sent(N, {ConnOf(i) : i \in Reached(N, skip)}, "server", <<notice>>)

\* The string in inbuf once n bytes came in and inbuf[n] = 0 is stored.
Received_Unterminated(e, n) == SubSeq(e.inq, 1, n) \o SubSeq(inbuf, n + 1, Len(inbuf))
Received(e, n) == SubSeq(e.inq, 1, n)

\* The end of the process closes every descriptor.
ProcessGone(N) ==
    /\ net' = Aborted(Closed(N, OpenConns, "server"), Queued)
    /\ backlog' = <<>>
    /\ listening' = FALSE
    /\ fdtab' = [fd \in Fds |-> NoClient]

KilledBySigpipe(N) ==
    /\ ProcessGone(N)
    /\ pc' = "killed"
    /\ UNCHANGED <<client_sockets, usernames, num_connections, sockset, slot,
                   new_socket, retval>>

(***************************************************************************)
(* main, up to the loop.                                                   *)
(***************************************************************************)
StartUp ==
    /\ pc = "start"
    /\ \/ /\ pc' = "loop"
          /\ listening' = TRUE
          /\ UNCHANGED retval
       \/ /\ pc' = "cleanup"
          /\ retval' = 1
          /\ UNCHANGED listening
    /\ UNCHANGED <<net, backlog, running, client_sockets, usernames,
                   num_connections, inbuf, sockset, slot, new_socket, fdtab>>

\* while (running): FD_ZERO, then the server socket and the used slots.
LoopTop ==
    /\ pc = "loop"
    /\ IF running
       THEN /\ pc' = "select"
            /\ sockset' = {ListenFd} \cup {client_sockets[i] : i \in Occupied}
       ELSE /\ pc' = "cleanup"
            /\ UNCHANGED sockset
    /\ UNCHANGED <<tcpVars, running, client_sockets, usernames,
                   num_connections, inbuf, slot, new_socket, fdtab, retval>>

ReadyFds ==
    {fd \in sockset : IF fd = ListenFd THEN backlog # <<>>
                      ELSE Readable(net[fdtab[fd]]["server"])}

\* select waits until a descriptor is ready, and leaves the ready ones.
Select ==
    /\ pc = "select"
    /\ ReadyFds # {}
    /\ sockset' = ReadyFds
    /\ pc' = "accept"
    /\ UNCHANGED <<tcpVars, running, client_sockets, usernames,
                   num_connections, inbuf, slot, new_socket, fdtab, retval>>

\* It may fail for want of memory, which is nothing to count on.
SelectFails ==
    /\ pc = "select"
    /\ pc' = "cleanup"
    /\ retval' = 1
    /\ UNCHANGED <<tcpVars, running, client_sockets, usernames,
                   num_connections, inbuf, sockset, slot, new_socket, fdtab>>

(***************************************************************************)
(* handle_server_socket.                                                   *)
(***************************************************************************)
NoConnection ==
    /\ pc = "accept"
    /\ ~ (running /\ ListenFd \in sockset)
    /\ pc' = "clients"
    /\ slot' = 0
    /\ UNCHANGED <<tcpVars, running, client_sockets, usernames,
                   num_connections, inbuf, sockset, new_socket, fdtab, retval>>

Full_OffByOne == num_connections > MAX_CONNECTIONS
Full == num_connections >= MAX_CONNECTIONS

\* accept fails with EMFILE, and the server gives up.
AcceptFails ==
    /\ pc = "accept"
    /\ running /\ ListenFd \in sockset
    /\ FreeFds = {}
    /\ pc' = "cleanup"
    /\ retval' = 1
    /\ UNCHANGED <<tcpVars, running, client_sockets, usernames,
                   num_connections, inbuf, sockset, slot, new_socket, fdtab>>

\* The connection is accepted only to be closed at once.
Hangup_Forgotten == net
Hangup == Closed(net, {Head(backlog)}, "server")

Refuse ==
    /\ pc = "accept"
    /\ running /\ ListenFd \in sockset
    /\ FreeFds # {}
    /\ Full
    /\ net' = Hangup
    /\ backlog' = Tail(backlog)
    /\ pc' = "clients"
    /\ slot' = 0
    /\ UNCHANGED <<listening, running, client_sockets, usernames,
                   num_connections, inbuf, sockset, new_socket, fdtab, retval>>

\* The welcome message is sent; the recv that follows blocks.
Accept ==
    /\ pc = "accept"
    /\ running /\ ListenFd \in sockset
    /\ FreeFds # {}
    /\ ~ Full
    /\ new_socket' = First(FreeFds)
    /\ fdtab' = [fdtab EXCEPT ![First(FreeFds)] = Head(backlog)]
    /\ net' = Sent(net, {Head(backlog)}, "server", <<Welcome(Members)>>)
    /\ backlog' = Tail(backlog)
    /\ pc' = "name"
    /\ UNCHANGED <<listening, running, client_sockets, usernames,
                   num_connections, inbuf, sockset, slot, retval>>

\* Lines 214-224: the first free slot takes the connection and whatever name
\* inbuf holds, and the others are told.
Register(N, name) ==
    LET i == First(FreeSlots)
        N2 == Broadcast(N, i, Joined(fdtab[new_socket], name))
    IN  IF Fatal(N, i) # {}
        THEN KilledBySigpipe(N2)
        ELSE /\ client_sockets' = [client_sockets EXCEPT ![i] = new_socket]
             /\ usernames' = [usernames EXCEPT ![i] = name]
             /\ num_connections' = num_connections + 1
             /\ net' = N2
             /\ new_socket' = NoFd
             /\ pc' = "clients"
             /\ slot' = 0
             /\ UNCHANGED <<backlog, listening, sockset, fdtab, retval>>

NameEndpoint == net[fdtab[new_socket]]["server"]

RecvName ==
    /\ pc = "name"
    /\ UNCHANGED running
    /\ \E n \in 1 .. RecvCap :
          LET name == Received(NameEndpoint, n)
          IN  /\ n <= Len(NameEndpoint.inq)
              /\ inbuf' = name
              /\ Register(Took(net, fdtab[new_socket], "server", n), name)

\* recv fails: the client is registered under the old contents of inbuf.
RecvNameFails ==
    /\ pc = "name"
    /\ AtReset(NameEndpoint)
    /\ UNCHANGED <<running, inbuf>>
    /\ Register(Reported(net, fdtab[new_socket], "server"), inbuf)

\* recv returns 0: the handler returns and nothing closes new_socket.
HungUp ==
    /\ pc = "name"
    /\ AtEof(NameEndpoint)
    /\ pc' = "clients"
    /\ slot' = 0
    /\ new_socket' = NoFd
    /\ UNCHANGED <<tcpVars, running, client_sockets, usernames,
                   num_connections, inbuf, sockset, fdtab, retval>>

(***************************************************************************)
(* The loop over the client sockets, handle_client_socket and              *)
(* disconnect_client.                                                      *)
(***************************************************************************)
\* The slots the loop still has to serve.
Pending_NoFdIsset == {i \in Occupied : i >= slot}
Pending_SkipsFirst == {i \in Occupied : i > slot /\ client_sockets[i] \in sockset}
Pending == {i \in Occupied : i >= slot /\ client_sockets[i] \in sockset}

RoundOver ==
    /\ pc = "clients"
    /\ ~ running \/ Pending = {}
    /\ pc' = "loop"
    /\ slot' = 0
    /\ UNCHANGED <<tcpVars, running, client_sockets, usernames,
                   num_connections, inbuf, sockset, new_socket, fdtab, retval>>

Handled(i) ==
    /\ slot' = i + 1
    /\ UNCHANGED <<pc, sockset, new_socket, retval>>

\* The end of disconnect_client: close, and the slot is free again.
Released_NameKept(i) ==
    /\ fdtab' = [fdtab EXCEPT ![client_sockets[i]] = NoClient]
    /\ client_sockets' = [client_sockets EXCEPT ![i] = NoFd]
    /\ num_connections' = num_connections - 1
    /\ UNCHANGED usernames

Released(i) ==
    /\ fdtab' = [fdtab EXCEPT ![client_sockets[i]] = NoClient]
    /\ client_sockets' = [client_sockets EXCEPT ![i] = NoFd]
    /\ usernames' = [usernames EXCEPT ![i] = NULL]
    /\ num_connections' = num_connections - 1

Disconnect(i, N) ==
    LET N2 == Broadcast(N, i, Left(ConnOf(i), usernames[i]))
    IN  IF Fatal(N, i) # {}
        THEN KilledBySigpipe(N2)
        ELSE /\ net' = Closed(N2, {ConnOf(i)}, "server")
             /\ Released(i)
             /\ UNCHANGED <<backlog, listening>>
             /\ Handled(i)

Relay(i, N, text) ==
    LET N2 == Broadcast(N, i, Said(ConnOf(i), usernames[i], text))
    IN  IF Fatal(N, i) # {}
        THEN KilledBySigpipe(N2)
        ELSE /\ net' = N2
             /\ UNCHANGED <<backlog, listening, fdtab, client_sockets,
                            usernames, num_connections>>
             /\ Handled(i)

SlotEndpoint(i) == net[ConnOf(i)]["server"]

HandleData(i) ==
    \E n \in 1 .. RecvCap :
        LET text == Received(SlotEndpoint(i), n)
            N    == Took(net, ConnOf(i), "server", n)
        IN  /\ n <= Len(SlotEndpoint(i).inq)
            /\ inbuf' = text
            /\ IF IsBye(text) THEN Disconnect(i, N) ELSE Relay(i, N, text)

HandleEof_Ignored(i) ==
    /\ AtEof(SlotEndpoint(i))
    /\ UNCHANGED <<tcpVars, inbuf, fdtab, client_sockets, usernames,
                   num_connections>>
    /\ Handled(i)

HandleEof(i) ==
    /\ AtEof(SlotEndpoint(i))
    /\ UNCHANGED inbuf
    /\ Disconnect(i, net)

HandleReset(i) ==
    /\ AtReset(SlotEndpoint(i))
    /\ net' = Reported(net, ConnOf(i), "server")
    /\ UNCHANGED <<backlog, listening, inbuf, fdtab, client_sockets,
                   usernames, num_connections>>
    /\ Handled(i)

HandleClient ==
    /\ pc = "clients"
    /\ running
    /\ UNCHANGED running
    /\ Pending # {}
    /\ LET i == First(Pending)
       IN  HandleData(i) \/ HandleEof(i) \/ HandleReset(i)

(***************************************************************************)
(* cleanup, and the return from main.                                      *)
(***************************************************************************)
SayGoodbye ==
    /\ pc = "cleanup"
    /\ UNCHANGED <<running, inbuf>>
    /\ LET N == Broadcast(net, NoFd, Goodbye)
       IN  IF Fatal(net, NoFd) # {}
           THEN KilledBySigpipe(N)
           ELSE /\ net' = N
                /\ pc' = "closing"
                /\ UNCHANGED <<backlog, listening, client_sockets, usernames,
                               num_connections, sockset, slot, new_socket,
                               fdtab, retval>>

\* After usleep: the server socket and every slot's socket are closed.  The
\* table itself is left as it is.
CloseSockets ==
    /\ pc = "closing"
    /\ net' = Aborted(Closed(net, Members, "server"), Queued)
    /\ backlog' = <<>>
    /\ listening' = FALSE
    /\ fdtab' = [fd \in Fds |-> IF \E i \in Occupied : client_sockets[i] = fd
                                THEN NoClient ELSE fdtab[fd]]
    /\ pc' = "returning"
    /\ UNCHANGED <<running, client_sockets, usernames, num_connections,
                   inbuf, sockset, slot, new_socket, retval>>

Return ==
    /\ pc = "returning"
    /\ ProcessGone(net)
    /\ pc' = "exited"
    /\ UNCHANGED <<running, client_sockets, usernames, num_connections,
                   inbuf, sockset, slot, new_socket, retval>>

(***************************************************************************)
(* SIGINT.  The handler sets `running'; a system call that is blocked      *)
(* returns EINTR as well.                                                  *)
(***************************************************************************)
SetFlag ==
    /\ pc \notin Down
    /\ running
    /\ running' = FALSE
    /\ UNCHANGED <<tcpVars, pc, client_sockets, usernames, num_connections,
                   inbuf, sockset, slot, new_socket, fdtab, retval>>

\* select returns EINTR with sockset as it was given.
InterruptSelect ==
    /\ pc = "select"
    /\ ReadyFds = {}
    /\ running' = FALSE
    /\ pc' = "accept"
    /\ UNCHANGED <<tcpVars, client_sockets, usernames, num_connections,
                   inbuf, sockset, slot, new_socket, fdtab, retval>>

\* recv of the user name returns -1 with EINTR: as RecvNameFails.
InterruptRecvName ==
    /\ pc = "name"
    /\ ~ Readable(NameEndpoint)
    /\ running' = FALSE
    /\ UNCHANGED inbuf
    /\ Register(net, inbuf)


Sigint == SetFlag \/ InterruptSelect \/ InterruptRecvName

ServerSteps ==
    \/ StartUp \/ LoopTop \/ Select
    \/ NoConnection \/ AcceptFails \/ Refuse \/ Accept
    \/ RecvName \/ RecvNameFails \/ HungUp
    \/ RoundOver \/ HandleClient
    \/ SayGoodbye \/ CloseSockets \/ Return
=============================================================================
