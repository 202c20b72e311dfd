----------------------------- MODULE ChatProofs -----------------------------
(***************************************************************************)
(* Proofs about the chat system, for any number of clients and slots and   *)
(* any texts: first who is in the room and how each is linked to it, then, *)
(* from FlattenSeq on, what the people in it hear, the member list that    *)
(* everybody can keep and each other's words.                              *)
(***************************************************************************)
EXTENDS ChatProps, TLAPS, SumsProofs, FiniteSetTheorems, SequenceTheorems

(***************************************************************************)
(* First(S) is an element of S.                                            *)
(***************************************************************************)
LEMMA FirstInSet ==
    ASSUME NEW S \in SUBSET Nat, S # {}
    PROVE  First(S) \in S
BY LeastIn DEF First

LEMMA SlotsFinite == IsFiniteSet(Slots) /\ Cardinality(Slots) = MAX_CONNECTIONS
BY ChatServerAssumption, FS_Interval DEF Slots

(***************************************************************************)
(* What each network operation does to the types.                          *)
(***************************************************************************)
LEMMA SubSeqType ==
    ASSUME NEW S, NEW q \in Seq(S), NEW m \in Nat, NEW n \in Nat,
           1 <= m, n <= Len(q)
    PROVE  SubSeq(q, m, n) \in Seq(S)
OBVIOUS

LEMMA TookServerType ==
    ASSUME NEW N \in NetType, NEW c \in Clients,
           NEW n \in Nat, n <= Len(N[c]["server"].inq)
    PROVE  Took(N, c, "server", n) \in NetType
<1> DEFINE e == N[c]["server"]
           E == [inq : Text, link : Links]
<1>1. N[c] \in ConnType /\ e \in E BY DEF NetType, ConnType
<1>2. SubSeq(e.inq, n + 1, Len(e.inq)) \in Text
    BY <1>1, SubSeqType DEF Text
<1>3. [e EXCEPT !.inq = SubSeq(@, n + 1, Len(@))] \in E BY <1>1, <1>2
<1>4. [N[c] EXCEPT !["server"].inq = SubSeq(@, n + 1, Len(@))] \in ConnType
    BY <1>1, <1>2, <1>3 DEF ConnType
<1> QED BY <1>4 DEF NetType, Took

LEMMA TookClientType ==
    ASSUME NEW N \in NetType, NEW c \in Clients,
           NEW n \in Nat, n <= Len(N[c]["client"].inq)
    PROVE  Took(N, c, "client", n) \in NetType
<1> DEFINE e == N[c]["client"]
           E == [inq : Seq(Notice), link : Links]
<1>1. N[c] \in ConnType /\ e \in E BY DEF NetType, ConnType
<1>2. SubSeq(e.inq, n + 1, Len(e.inq)) \in Seq(Notice) BY <1>1, SubSeqType
<1>3. [e EXCEPT !.inq = SubSeq(@, n + 1, Len(@))] \in E BY <1>1, <1>2
<1>4. [N[c] EXCEPT !["client"].inq = SubSeq(@, n + 1, Len(@))] \in ConnType
    BY <1>1, <1>2, <1>3 DEF ConnType
<1> QED BY <1>4 DEF NetType, Took

LEMMA ReportedType ==
    ASSUME NEW N \in NetType, NEW c \in Clients, NEW s \in Sides
    PROVE  Reported(N, c, s) \in NetType
BY DEF NetType, ConnType, Reported, Links, Sides

LEMMA SentServerType ==
    ASSUME NEW N \in NetType, NEW C, NEW notices \in Seq(Notice)
    PROVE  Sent(N, C, "server", notices) \in NetType
<1>1. ASSUME NEW n \in ConnType PROVE AfterSend(n, "server", notices) \in ConnType
    <2>1. n.client.inq \o notices \in Seq(Notice) BY DEF ConnType
    <2> QED BY <2>1 DEF ConnType, AfterSend, Sides, Links, Peer
<1> QED BY <1>1 DEF Sent, NetType

LEMMA SentClientType ==
    ASSUME NEW N \in NetType, NEW C, NEW text \in Text
    PROVE  Sent(N, C, "client", text) \in NetType
<1>1. ASSUME NEW n \in ConnType PROVE AfterSend(n, "client", text) \in ConnType
    <2>1. n.server.inq \o text \in Text BY DEF ConnType, Text
    <2> QED BY <2>1 DEF ConnType, AfterSend, Sides, Links, Peer
<1> QED BY <1>1 DEF Sent, NetType

LEMMA FreshType == Fresh("closed") \in [inq : Seq(Notice), link : Links]
                   /\ Fresh("closed") \in [inq : Text, link : Links]
                   /\ Fresh("up") \in [inq : Seq(Notice), link : Links]
                   /\ Fresh("up") \in [inq : Text, link : Links]
BY DEF Fresh, Links, Text

LEMMA ClosedType ==
    ASSUME NEW N \in NetType, NEW C, NEW s \in Sides
    PROVE  Closed(N, C, s) \in NetType
<1>1. ASSUME NEW n \in ConnType PROVE AfterClose(n, s) \in ConnType
    <2>1. CASE s = "client"
        BY <2>1, FreshType DEF ConnType, AfterClose, Links, Peer
    <2>2. CASE s = "server"
        BY <2>2, FreshType DEF ConnType, AfterClose, Links, Peer
    <2> QED BY <2>1, <2>2 DEF Sides
<1> QED BY <1>1 DEF Closed, NetType

LEMMA AbortedType ==
    ASSUME NEW N \in NetType, NEW C
    PROVE  Aborted(N, C) \in NetType
<1>1. ASSUME NEW n \in ConnType PROVE AfterAbort(n) \in ConnType
    BY FreshType DEF ConnType, AfterAbort, Links
<1> QED BY <1>1 DEF Aborted, NetType

LEMMA OpenedType ==
    ASSUME NEW N \in NetType, NEW c \in Clients
    PROVE  Opened(N, c) \in NetType
<1>1. [s \in Sides |-> Fresh("up")] \in ConnType
    BY FreshType DEF ConnType, Sides
<1> QED BY <1>1 DEF Opened, NetType

Delivered(c, s) ==
    [net[c] EXCEPT ![s].link = IF @ = "aborting" THEN "reset" ELSE "dead"]

LEMMA ResetArrivesType ==
    ASSUME net \in NetType, NEW c \in Clients, NEW s \in Sides, ResetArrives(c, s)
    PROVE  net' \in NetType
<1>1. Delivered(c, s) \in ConnType
    <2>1. CASE s = "client" BY <2>1 DEF NetType, ConnType, Delivered, Links
    <2>2. CASE s = "server" BY <2>2 DEF NetType, ConnType, Delivered, Links
    <2> QED BY <2>1, <2>2 DEF Sides
<1> QED BY <1>1 DEF NetType, ResetArrives, Delivered

LEMMA BroadcastType ==
    ASSUME NEW N \in NetType, NEW skip, NEW notice \in Notice
    PROVE  Broadcast(N, skip, notice) \in NetType
<1>1. <<notice>> \in Seq(Notice) OBVIOUS
<1> QED BY <1>1, SentServerType DEF Broadcast

LEMMA ProcessGoneType ==
    ASSUME NEW N \in NetType, ProcessGone(N)
    PROVE  net' \in NetType
BY ClosedType, AbortedType DEF ProcessGone, Sides

LEMMA NoticeType ==
    ASSUME NEW c \in Clients, NEW u \in Text, NEW t \in Text, NEW C \in SUBSET Clients
    PROVE  /\ Welcome(C) \in Notice
           /\ Joined(c, u) \in Notice
           /\ Left(c, u) \in Notice
           /\ Said(c, u, t) \in Notice
           /\ Goodbye \in Notice
BY DEF Welcome, Joined, Left, Said, Goodbye, Notice, NoticeOf

(***************************************************************************)
(* The inductive invariant.  Types and the table are not enough: that a    *)
(* freed descriptor, an accepted one and a newly connected client are new  *)
(* to the table rests on where every client's one connection is.           *)
(***************************************************************************)

\* A connection is behind one descriptor, or once in the backlog, or not yet
\* made.
OneConnection ==
    /\ \A f, g \in Fds : fdtab[f] = fdtab[g] /\ fdtab[f] # NoClient => f = g
    /\ \A f \in Fds : fdtab[f] \notin Queued
    /\ \A k, l \in DOMAIN backlog : backlog[k] = backlog[l] => k = l
    /\ \A c \in Clients : cpc[c] \in {"prompt", "connect"} =>
          c \notin Queued /\ \A f \in Fds : fdtab[f] # c

\* The table, without its count.
Table ==
    /\ \A i \in Slots : client_sockets[i] = NoFd <=> usernames[i] = NULL
    /\ \A i, j \in Occupied : client_sockets[i] = client_sockets[j] => i = j
    /\ pc \in Alive => \A i \in Occupied : fdtab[client_sockets[i]] # NoClient

\* While a user name is awaited.
Awaiting ==
    pc = "name" =>
        /\ new_socket \in Fds
        /\ fdtab[new_socket] # NoClient
        /\ \A i \in Slots : client_sockets[i] # new_socket
        /\ num_connections < MAX_CONNECTIONS

Count == num_connections = Cardinality(Occupied)

\* What select said of the server socket.
Ready ==
    pc = "accept" /\ running /\ ListenFd \in sockset => backlog # <<>>

IInv == TypeOK /\ OneConnection /\ Table /\ Awaiting /\ Ready /\ Count

(***************************************************************************)
(* Pieces that several actions share.                                      *)
(***************************************************************************)
LEMMA SameTable ==
    ASSUME Table, Count, pc' \in Alive => pc \in Alive,
           UNCHANGED <<client_sockets, usernames, num_connections, fdtab>>
    PROVE  Table' /\ Count'
BY DEF Table, Count, Occupied

LEMMA SameConnections ==
    ASSUME OneConnection, UNCHANGED <<fdtab, backlog, cpc>>
    PROVE  OneConnection'
BY DEF OneConnection, Queued

LEMMA SameClientType ==
    ASSUME ClientTypeOK, UNCHANGED clientVars
    PROVE  ClientTypeOK'
BY DEF ClientTypeOK, clientVars

LEMMA NoConnections ==
    ASSUME OneConnection, UNCHANGED cpc,
           fdtab' = [fd \in Fds |-> NoClient], backlog' = <<>>
    PROVE  OneConnection'
BY ChatServerAssumption DEF OneConnection, Queued

LEMMA KilledInv ==
    ASSUME IInv, NEW N \in NetType, KilledBySigpipe(N), running' \in BOOLEAN,
           inbuf' \in Text, Len(inbuf') <= MAX_MSG_LEN + 1, UNCHANGED clientVars
    PROVE  IInv'
<1> USE DEF KilledBySigpipe, ProcessGone
<1>1. TypeOK'
    <2>1. net' \in NetType BY ProcessGoneType DEF IInv, TypeOK
    <2>2. ServerTypeOK' BY DEF IInv, TypeOK, ServerTypeOK, Down
    <2>3. ClientTypeOK' BY SameClientType DEF IInv, TypeOK
    <2>4. backlog' = <<>> /\ listening' = FALSE OBVIOUS
    <2>5. <<>> \in Seq(Clients) OBVIOUS
    <2> QED BY <2>1, <2>2, <2>3, <2>4, <2>5 DEF TypeOK
<1>2. OneConnection' BY NoConnections DEF IInv, clientVars
<1>3. Table' /\ Count'
    BY DEF IInv, Table, Count, Occupied, Alive, Serving
<1>4. Awaiting' BY DEF Awaiting
<1>5. Ready' BY DEF Ready
<1> QED BY <1>1, <1>2, <1>3, <1>4, <1>5 DEF IInv

LEMMA CountBound == ASSUME IInv PROVE num_connections \in 0 .. MAX_CONNECTIONS
BY DEF IInv, TypeOK, ServerTypeOK

\* Members are clients, the text of a user name is a text.
LEMMA TableTypes ==
    ASSUME IInv, pc \in Alive, NEW i \in Occupied
    PROVE  /\ client_sockets[i] \in Fds
           /\ ConnOf(i) \in Clients
           /\ usernames[i] \in Text
BY DEF IInv, TypeOK, ServerTypeOK, Table, Occupied, ConnOf

LEMMA MembersType == ASSUME IInv, pc \in Alive PROVE Members \in SUBSET Clients
BY TableTypes DEF Members

(***************************************************************************)
(* One lemma per action of the server.                                     *)
(***************************************************************************)
LEMMA InitInv == Init => IInv
<1> SUFFICES ASSUME Init PROVE IInv OBVIOUS
<1> USE DEF Init, TcpInit, ServerInit, ClientInit
<1>1. Occupied = {} BY DEF Occupied, Slots, NoFd
<1>2. Cardinality({}) = 0 BY FS_EmptySet
<1>3. net \in NetType
    BY FreshType DEF NetType, ConnType, Sides
<1>4. <<>> \in Text /\ <<>> \in Seq(Notice) /\ <<>> \in Seq(Clients) BY DEF Text
<1>5. TypeOK
    <2>1. ServerTypeOK
        BY <1>4, ChatServerAssumption DEF ServerTypeOK, Alive, NoFd
    <2>2. ClientTypeOK BY <1>4, ChatClientAssumption DEF ClientTypeOK
    <2> QED BY <1>3, <1>4, <2>1, <2>2 DEF TypeOK
<1>6. OneConnection
    BY ChatServerAssumption DEF OneConnection, Queued
<1>7. Table BY <1>1 DEF Table
<1>8. Awaiting BY DEF Awaiting
<1>9. Count BY <1>1, <1>2 DEF Count
<1>10. Ready BY DEF Ready
<1> QED BY <1>5, <1>6, <1>7, <1>8, <1>9, <1>10 DEF IInv

LEMMA StartUpInv == ASSUME IInv, StartUp, UNCHANGED clientVars PROVE IInv'
<1> USE DEF StartUp
<1>1. TypeOK'
    BY SameClientType DEF IInv, TypeOK, ServerTypeOK, Alive, Serving
<1>2. OneConnection' BY SameConnections DEF IInv, clientVars
<1>3. Table' /\ Count' BY SameTable DEF IInv, Alive
<1>4. Awaiting' BY DEF Awaiting
<1>5. Ready' BY DEF Ready
<1> QED BY <1>1, <1>2, <1>3, <1>4, <1>5 DEF IInv

LEMMA LoopTopInv == ASSUME IInv, LoopTop, UNCHANGED clientVars PROVE IInv'
<1> USE DEF LoopTop, tcpVars
<1>1. TypeOK'
    <2>1. sockset' \subseteq Fds \cup {ListenFd}
        BY DEF IInv, TypeOK, ServerTypeOK, Occupied
    <2> QED
        BY <2>1, SameClientType DEF IInv, TypeOK, ServerTypeOK, Alive, Serving
<1>2. OneConnection' BY SameConnections DEF IInv, clientVars
<1>3. Table' /\ Count' BY SameTable DEF IInv, Alive, Serving
<1>4. Awaiting' BY DEF Awaiting
<1>5. Ready' BY DEF Ready
<1> QED BY <1>1, <1>2, <1>3, <1>4, <1>5 DEF IInv

LEMMA SelectInv ==
    ASSUME IInv, Select \/ SelectFails, UNCHANGED clientVars
    PROVE  IInv'
<1> USE DEF Select, SelectFails, tcpVars
<1>1. TypeOK'
    <2>1. ReadyFds \subseteq sockset BY DEF ReadyFds
    <2>2. sockset' \subseteq Fds \cup {ListenFd}
        BY <2>1 DEF IInv, TypeOK, ServerTypeOK
    <2> QED
        BY <2>2, SameClientType DEF IInv, TypeOK, ServerTypeOK, Alive, Serving
<1>2. OneConnection' BY SameConnections DEF IInv, clientVars
<1>3. Table' /\ Count' BY SameTable DEF IInv, Alive, Serving
<1>4. Awaiting' BY DEF Awaiting
<1>5. Ready' BY DEF Ready, ReadyFds
<1> QED BY <1>1, <1>2, <1>3, <1>4, <1>5 DEF IInv

\* The steps that change neither the table nor a connection.
LEMMA QuietInv ==
    ASSUME IInv, NoConnection \/ AcceptFails \/ HungUp \/ RoundOver,
           UNCHANGED clientVars
    PROVE  IInv'
<1> USE DEF NoConnection, AcceptFails, HungUp, RoundOver, tcpVars
<1>1. TypeOK'
    <2>1. ServerTypeOK'
        <3>1. 0 \in 0 .. MAX_CONNECTIONS BY ChatServerAssumption
        <3>2. CASE NoConnection
            BY <3>1, <3>2 DEF IInv, TypeOK, ServerTypeOK, Alive, Serving
        <3>3. CASE AcceptFails
            BY <3>3 DEF IInv, TypeOK, ServerTypeOK, Alive, Serving
        <3>4. CASE HungUp
            BY <3>1, <3>4 DEF IInv, TypeOK, ServerTypeOK, Alive, Serving
        <3>5. CASE RoundOver
            BY <3>1, <3>5 DEF IInv, TypeOK, ServerTypeOK, Alive, Serving
        <3> QED BY <3>2, <3>3, <3>4, <3>5
    <2> QED BY <2>1, SameClientType DEF IInv, TypeOK
<1>2. OneConnection' BY SameConnections DEF IInv, clientVars
<1>3. Table' /\ Count' BY SameTable DEF IInv, Alive, Serving
<1>4. Awaiting' BY DEF Awaiting
<1>5. Ready' BY DEF Ready
<1> QED BY <1>1, <1>2, <1>3, <1>4, <1>5 DEF IInv

LEMMA SignalInv ==
    ASSUME IInv, SetFlag \/ InterruptSelect, UNCHANGED clientVars
    PROVE  IInv'
<1> USE DEF SetFlag, InterruptSelect, tcpVars
<1>1. TypeOK'
    BY SameClientType DEF IInv, TypeOK, ServerTypeOK, Alive, Serving
<1>2. OneConnection' BY SameConnections DEF IInv, clientVars
<1>3. Table' /\ Count' BY SameTable DEF IInv, Alive, Serving
<1>4. Awaiting' BY DEF IInv, Awaiting
<1>5. Ready' BY DEF IInv, Ready
<1> QED BY <1>1, <1>2, <1>3, <1>4, <1>5 DEF IInv

LEMMA BacklogHead ==
    ASSUME TypeOK, backlog # <<>>
    PROVE  /\ Head(backlog) \in Clients
           /\ Head(backlog) \in Queued
           /\ Tail(backlog) \in Seq(Clients)
           /\ DOMAIN Tail(backlog) = 1 .. Len(backlog) - 1
           /\ \A k \in DOMAIN Tail(backlog) :
                 k + 1 \in DOMAIN backlog /\ Tail(backlog)[k] = backlog[k + 1]
BY DEF TypeOK, Queued

\* The connection that accept returned is no longer in the backlog.
LEMMA HeadLeaves ==
    ASSUME TypeOK, OneConnection, backlog # <<>>
    PROVE  /\ Head(backlog) \notin {Tail(backlog)[k] : k \in DOMAIN Tail(backlog)}
           /\ {Tail(backlog)[k] : k \in DOMAIN Tail(backlog)} \subseteq Queued
           /\ \A k, l \in DOMAIN Tail(backlog) :
                 Tail(backlog)[k] = Tail(backlog)[l] => k = l
<1> USE BacklogHead DEF OneConnection, Queued
<1>1. 1 \in DOMAIN backlog /\ Head(backlog) = backlog[1] BY DEF TypeOK
<1>2. \A k \in DOMAIN Tail(backlog) : k \in Nat /\ k + 1 # 1
    BY DEF TypeOK
<1>3. \A k \in DOMAIN Tail(backlog) : Tail(backlog)[k] # Head(backlog)
    BY <1>1, <1>2
<1>4. \A k, l \in DOMAIN Tail(backlog) : Tail(backlog)[k] = Tail(backlog)[l] => k = l
    <2> SUFFICES ASSUME NEW k \in DOMAIN Tail(backlog), NEW l \in DOMAIN Tail(backlog),
                        Tail(backlog)[k] = Tail(backlog)[l]
                 PROVE  k = l
        OBVIOUS
    <2>1. k + 1 = l + 1 OBVIOUS
    <2> QED BY <2>1, <1>2
<1> QED BY <1>3, <1>4

LEMMA RefuseInv == ASSUME IInv, Refuse, UNCHANGED clientVars PROVE IInv'
<1> USE DEF Refuse
<1>1. backlog # <<>> BY DEF IInv, Ready
<1>2. TypeOK'
    <2>1. net' \in NetType BY ClosedType DEF IInv, TypeOK, Hangup, Sides
    <2>2. backlog' \in Seq(Clients) BY <1>1, BacklogHead DEF IInv
    <2>3. 0 \in 0 .. MAX_CONNECTIONS BY ChatServerAssumption
    <2>4. ServerTypeOK'
        BY <2>3 DEF IInv, TypeOK, ServerTypeOK, Alive, Serving
    <2> QED BY <2>1, <2>2, <2>4, SameClientType DEF IInv, TypeOK
<1>3. OneConnection'
    <2> DEFINE Q == {Tail(backlog)[k] : k \in DOMAIN Tail(backlog)}
    <2>1. Queued' = Q BY DEF Queued
    <2>2. Q \subseteq Queued BY <1>1, HeadLeaves DEF IInv
    <2>3. \A k, l \in DOMAIN backlog' : backlog'[k] = backlog'[l] => k = l
        BY <1>1, HeadLeaves DEF IInv
    <2> QED BY <2>1, <2>2, <2>3 DEF IInv, OneConnection, clientVars
<1>4. Table' /\ Count' BY SameTable DEF IInv, Alive, Serving
<1>5. Awaiting' BY DEF Awaiting
<1>6. Ready' BY DEF Ready
<1> QED BY <1>2, <1>3, <1>4, <1>5, <1>6 DEF IInv

LEMMA AcceptInv == ASSUME IInv, Accept, UNCHANGED clientVars PROVE IInv'
<1> USE DEF Accept
<1> DEFINE fd == First(FreeFds)
           c  == Head(backlog)
<1>1. backlog # <<>> BY DEF IInv, Ready
<1>2. fd \in FreeFds
    <2>1. FreeFds \in SUBSET Nat BY ChatServerAssumption DEF FreeFds
    <2> QED BY <2>1, FirstInSet
<1>3. fd \in Fds /\ fdtab[fd] = NoClient BY <1>2 DEF FreeFds
<1>4. c \in Clients /\ c \in Queued BY <1>1, BacklogHead DEF IInv
<1>5. \A i \in Occupied : client_sockets[i] # fd
    BY <1>3 DEF IInv, Table, Alive, Serving
<1>6. fd # NoFd BY <1>3, ChatServerAssumption DEF NoFd
<1>7. TypeOK'
    <2>1. net' \in NetType
        <3>1. Members \in SUBSET Clients BY MembersType DEF Alive, Serving
        <3>2. <<Welcome(Members)>> \in Seq(Notice)
            BY <3>1 DEF Welcome, Notice, NoticeOf
        <3> QED BY <3>2, SentServerType DEF IInv, TypeOK
    <2>2. backlog' \in Seq(Clients) BY <1>1, BacklogHead DEF IInv
    <2>3. ServerTypeOK'
        BY <1>3, <1>4 DEF IInv, TypeOK, ServerTypeOK, Alive, Serving
    <2> QED BY <2>1, <2>2, <2>3, SameClientType DEF IInv, TypeOK
<1>8. OneConnection'
    <2> DEFINE Q == {Tail(backlog)[k] : k \in DOMAIN Tail(backlog)}
    <2>1. Queued' = Q BY DEF Queued
    <2>2. c \notin Q /\ Q \subseteq Queued BY <1>1, HeadLeaves DEF IInv
    <2>3. fdtab' = [fdtab EXCEPT ![fd] = c] /\ fdtab \in [Fds -> Clients \cup {NoClient}]
        BY DEF IInv, TypeOK, ServerTypeOK
    <2>4. \A f, g \in Fds : fdtab'[f] = fdtab'[g] /\ fdtab'[f] # NoClient => f = g
        BY <2>3, <1>3, <1>4 DEF IInv, OneConnection
    <2>5. \A f \in Fds : fdtab'[f] \notin Queued'
        BY <2>1, <2>2, <2>3, <1>3, <1>4 DEF IInv, OneConnection
    <2>6. \A k, l \in DOMAIN backlog' : backlog'[k] = backlog'[l] => k = l
        BY <1>1, HeadLeaves DEF IInv
    <2>7. \A d \in Clients : cpc'[d] \in {"prompt", "connect"} =>
             d \notin Queued' /\ \A f \in Fds : fdtab'[f] # d
        BY <2>1, <2>2, <2>3, <1>3, <1>4 DEF IInv, OneConnection, clientVars
    <2> QED BY <2>4, <2>5, <2>6, <2>7 DEF OneConnection
<1>9. Table'
    <2>1. fdtab' = [fdtab EXCEPT ![fd] = c] /\ fdtab \in [Fds -> Clients \cup {NoClient}]
        BY DEF IInv, TypeOK, ServerTypeOK
    <2>2. \A i \in Occupied : client_sockets[i] \in Fds
        BY TableTypes DEF Alive, Serving
    <2>3. \A i \in Occupied : fdtab'[client_sockets[i]] # NoClient
        BY <2>1, <2>2, <1>5 DEF IInv, Table, Alive, Serving
    <2> QED BY <2>3 DEF IInv, Table, Occupied
<1>10. Count' BY DEF IInv, Count, Occupied
<1>11. Awaiting'
    <2>1. fdtab'[fd] = c
        BY <1>3 DEF IInv, TypeOK, ServerTypeOK
    <2>2. c # NoClient BY <1>4, ChatServerAssumption
    <2>3. num_connections < MAX_CONNECTIONS
        BY CountBound, ChatServerAssumption DEF Full
    <2>4. \A i \in Slots : client_sockets[i] # fd BY <1>5, <1>6 DEF Occupied
    <2> QED BY <1>3, <2>1, <2>2, <2>3, <2>4 DEF Awaiting
<1>12. Ready' BY DEF Ready
<1> QED BY <1>7, <1>8, <1>9, <1>10, <1>11, <1>12 DEF IInv

(***************************************************************************)
(* Registration: the three actions that end in lines 214-224.              *)
(***************************************************************************)
LEMMA FreeSlotExists ==
    ASSUME IInv, num_connections < MAX_CONNECTIONS
    PROVE  FreeSlots # {} /\ First(FreeSlots) \in FreeSlots
<1>1. FreeSlots # {}
    <2> SUFFICES ASSUME FreeSlots = {} PROVE FALSE OBVIOUS
    <2>1. Occupied = Slots BY DEF FreeSlots, Occupied
    <2> QED BY <2>1, SlotsFinite, ChatServerAssumption DEF IInv, Count
<1>2. FreeSlots \in SUBSET Nat BY DEF FreeSlots, Slots
<1> QED BY <1>1, <1>2, FirstInSet

LEMMA RegisterInv ==
    ASSUME IInv, pc = "name", NEW N \in NetType, NEW name \in Text,
           Register(N, name), running' \in BOOLEAN,
           inbuf' \in Text, Len(inbuf') <= MAX_MSG_LEN + 1, UNCHANGED clientVars
    PROVE  IInv'
<1> DEFINE i  == First(FreeSlots)
           c  == fdtab[new_socket]
           N2 == Broadcast(N, i, Joined(c, name))
<1>1. i \in Slots /\ i \notin Occupied /\ client_sockets[i] = NoFd
    BY FreeSlotExists DEF IInv, Awaiting, FreeSlots, Occupied
<1>2. new_socket \in Fds /\ c \in Clients
    BY DEF IInv, Awaiting, TypeOK, ServerTypeOK
<1>3. new_socket # NoFd BY <1>2, ChatServerAssumption DEF NoFd
<1>4. N2 \in NetType
    <2>1. Joined(c, name) \in Notice BY <1>2 DEF Joined, Notice, NoticeOf
    <2> QED BY <2>1, BroadcastType
<1>5. CASE Fatal(N, i) # {}
    <2>1. KilledBySigpipe(N2) BY <1>5 DEF Register
    <2> QED BY <2>1, <1>4, KilledInv
<1>6. CASE Fatal(N, i) = {}
    <2>1. /\ client_sockets' = [client_sockets EXCEPT ![i] = new_socket]
          /\ usernames' = [usernames EXCEPT ![i] = name]
          /\ num_connections' = num_connections + 1
          /\ net' = N2
          /\ new_socket' = NoFd
          /\ pc' = "clients"
          /\ slot' = 0
          /\ UNCHANGED <<backlog, listening, sockset, fdtab, retval>>
        BY <1>6 DEF Register
    <2>2. num_connections < MAX_CONNECTIONS BY DEF IInv, Awaiting
    <2>3. TypeOK'
        <3>1. ServerTypeOK'
            <4>1. num_connections' \in 0 .. MAX_CONNECTIONS /\ slot' \in 0 .. MAX_CONNECTIONS
                BY <2>1, <2>2, CountBound, ChatServerAssumption
            <4>2. client_sockets' \in [Slots -> Fds \cup {NoFd}]
                BY <2>1, <1>2 DEF IInv, TypeOK, ServerTypeOK
            <4>3. usernames' \in [Slots -> Text \cup {NULL}]
                BY <2>1 DEF IInv, TypeOK, ServerTypeOK
            <4> QED BY <2>1, <4>1, <4>2, <4>3
                    DEF IInv, TypeOK, ServerTypeOK, Alive, Serving
        <3> QED BY <3>1, <2>1, <1>4, SameClientType DEF IInv, TypeOK
    <2>4. OneConnection' BY <2>1, SameConnections DEF IInv, clientVars
    <2>5. Occupied' = Occupied \cup {i}
        BY <2>1, <1>1, <1>3 DEF Occupied, IInv, TypeOK, ServerTypeOK
    <2>6. Table'
        <3>1. \A j \in Slots : client_sockets'[j] = NoFd <=> usernames'[j] = NULL
            BY <2>1, <1>1, <1>3, ChatServerAssumption
            DEF IInv, TypeOK, ServerTypeOK, Table
        <3>2. \A j, l \in Occupied' : client_sockets'[j] = client_sockets'[l] => j = l
            <4>1. \A j \in Slots : client_sockets[j] # new_socket
                BY DEF IInv, Awaiting
            <4> QED BY <4>1, <2>1, <2>5, <1>1
                    DEF IInv, TypeOK, ServerTypeOK, Table, Occupied
        <3>3. \A j \in Occupied' : fdtab'[client_sockets'[j]] # NoClient
            BY <2>1, <2>5, <1>1, <1>2, ChatServerAssumption
            DEF IInv, TypeOK, ServerTypeOK, Table, Occupied, Alive, Serving
        <3> QED BY <3>1, <3>2, <3>3 DEF Table
    <2>7. Count'
        <3>1. Occupied \subseteq Slots BY DEF Occupied
        <3>2. IsFiniteSet(Occupied) BY <3>1, SlotsFinite, FS_Subset
        <3>3. Cardinality(Occupied \cup {i}) = Cardinality(Occupied) + 1
            BY <3>2, <1>1, FS_AddElement
        <3> QED BY <3>3, <2>1, <2>5 DEF IInv, Count
    <2>8. Awaiting' /\ Ready' BY <2>1 DEF Awaiting, Ready
    <2> QED BY <2>3, <2>4, <2>6, <2>7, <2>8 DEF IInv
<1> QED BY <1>5, <1>6

\* What recv puts into inbuf.
LEMMA ReceivedType ==
    ASSUME NEW N \in NetType, NEW c \in Clients, NEW n \in 1 .. RecvCap,
           n <= Len(N[c]["server"].inq)
    PROVE  /\ Received(N[c]["server"], n) \in Text
           /\ Len(Received(N[c]["server"], n)) <= MAX_MSG_LEN + 1
<1>1. N[c]["server"].inq \in Text BY DEF NetType, ConnType
<1>2. n \in Nat /\ 1 <= n /\ n <= MAX_MSG_LEN + 1
    BY ChatServerAssumption DEF RecvCap
<1> QED BY <1>1, <1>2 DEF Received, Text

LEMMA RecvNameInv ==
    ASSUME IInv, RecvName \/ RecvNameFails \/ InterruptRecvName,
           UNCHANGED clientVars
    PROVE  IInv'
<1> DEFINE c == fdtab[new_socket]
<1>1. pc = "name" BY DEF RecvName, RecvNameFails, InterruptRecvName
<1>2. c \in Clients
    BY <1>1 DEF IInv, Awaiting, TypeOK, ServerTypeOK
<1>3. net \in NetType BY DEF IInv, TypeOK
<1>4. inbuf \in Text /\ Len(inbuf) <= MAX_MSG_LEN + 1 /\ running \in BOOLEAN
    BY DEF IInv, TypeOK, ServerTypeOK
<1>5. CASE RecvName
    <2>1. PICK n \in 1 .. RecvCap :
             /\ n <= Len(NameEndpoint.inq)
             /\ inbuf' = Received(NameEndpoint, n)
             /\ Register(Took(net, c, "server", n), Received(NameEndpoint, n))
        BY <1>5 DEF RecvName
    <2>2. n \in Nat BY ChatServerAssumption DEF RecvCap
    <2>3. Took(net, c, "server", n) \in NetType
        BY <2>1, <2>2, <1>2, <1>3, TookServerType DEF NameEndpoint
    <2>4. inbuf' \in Text /\ Len(inbuf') <= MAX_MSG_LEN + 1
        BY <2>1, <1>2, <1>3, ReceivedType DEF NameEndpoint
    <2>5. running' \in BOOLEAN BY <1>4, <1>5 DEF RecvName
    <2> QED BY <2>1, <2>3, <2>4, <2>5, <1>1, RegisterInv
<1>6. CASE RecvNameFails
    <2>1. Reported(net, c, "server") \in NetType
        BY <1>2, <1>3, ReportedType DEF Sides
    <2> QED BY <1>1, <1>4, <1>6, <2>1, RegisterInv DEF RecvNameFails
<1>7. CASE InterruptRecvName
    BY <1>1, <1>3, <1>4, <1>7, RegisterInv DEF InterruptRecvName
<1> QED BY <1>5, <1>6, <1>7

(***************************************************************************)
(* The loop over the client sockets.                                       *)
(***************************************************************************)
LEMMA DisconnectInv ==
    ASSUME IInv, pc = "clients", NEW i \in Occupied, NEW N \in NetType,
           Disconnect(i, N), UNCHANGED running,
           inbuf' \in Text, Len(inbuf') <= MAX_MSG_LEN + 1, UNCHANGED clientVars
    PROVE  IInv'
<1> DEFINE fd == client_sockets[i]
           c  == ConnOf(i)
           N2 == Broadcast(N, i, Left(c, usernames[i]))
<1>1. fd \in Fds /\ c \in Clients /\ usernames[i] \in Text
    BY TableTypes DEF Alive, Serving
<1>2. i \in Slots /\ fd # NoFd BY DEF Occupied
<1>3. N2 \in NetType
    <2>1. Left(c, usernames[i]) \in Notice BY <1>1 DEF Left, Notice, NoticeOf
    <2> QED BY <2>1, BroadcastType
<1>4. running' \in BOOLEAN BY DEF IInv, TypeOK, ServerTypeOK
<1>5. CASE Fatal(N, i) # {}
    <2>1. KilledBySigpipe(N2) BY <1>5 DEF Disconnect
    <2> QED BY <2>1, <1>3, <1>4, KilledInv
<1>6. CASE Fatal(N, i) = {}
    <2>1. /\ net' = Closed(N2, {c}, "server")
          /\ fdtab' = [fdtab EXCEPT ![fd] = NoClient]
          /\ client_sockets' = [client_sockets EXCEPT ![i] = NoFd]
          /\ usernames' = [usernames EXCEPT ![i] = NULL]
          /\ num_connections' = num_connections - 1
          /\ slot' = i + 1
          /\ UNCHANGED <<backlog, listening, pc, sockset, new_socket, retval>>
        BY <1>6 DEF Disconnect, Released, Handled
    <2>2. Occupied' = Occupied \ {i}
        BY <2>1, <1>2 DEF Occupied, IInv, TypeOK, ServerTypeOK
    <2>3. Count' /\ num_connections' \in 0 .. MAX_CONNECTIONS
        <3>1. Occupied \subseteq Slots BY DEF Occupied
        <3>2. IsFiniteSet(Occupied) BY <3>1, SlotsFinite, FS_Subset
        <3>3. Cardinality(Occupied \ {i}) = Cardinality(Occupied) - 1
            BY <3>2, FS_RemoveElement
        <3>4. Cardinality(Occupied \ {i}) \in Nat
            BY <3>2, FS_RemoveElement, FS_CardinalityType
        <3>5. Count' BY <3>3, <2>1, <2>2 DEF IInv, Count
        <3> QED BY <3>3, <3>4, <3>5, <2>1, <2>2, CountBound, ChatServerAssumption
                DEF IInv, Count
    <2>4. TypeOK'
        <3>1. ServerTypeOK'
            <4>1. slot' \in 0 .. MAX_CONNECTIONS
                BY <2>1, <1>2, ChatServerAssumption DEF Slots
            <4>2. client_sockets' \in [Slots -> Fds \cup {NoFd}]
                BY <2>1 DEF IInv, TypeOK, ServerTypeOK
            <4>3. usernames' \in [Slots -> Text \cup {NULL}]
                BY <2>1 DEF IInv, TypeOK, ServerTypeOK
            <4>4. fdtab' \in [Fds -> Clients \cup {NoClient}]
                BY <2>1 DEF IInv, TypeOK, ServerTypeOK
            <4> QED BY <2>1, <2>3, <1>4, <4>1, <4>2, <4>3, <4>4
                    DEF IInv, TypeOK, ServerTypeOK
        <3>2. net' \in NetType BY <2>1, <1>3, ClosedType DEF Sides
        <3> QED BY <3>1, <3>2, <2>1, SameClientType DEF IInv, TypeOK
    <2>5. OneConnection'
        <3>1. \A f \in Fds : fdtab'[f] = fdtab[f] \/ fdtab'[f] = NoClient
            BY <2>1 DEF IInv, TypeOK, ServerTypeOK
        <3>2. Queued' = Queued BY <2>1 DEF Queued
        <3>3. NoClient \notin Queued
            BY ChatServerAssumption DEF IInv, TypeOK, Queued
        <3> QED BY <3>1, <3>2, <3>3, <2>1, ChatServerAssumption
                DEF IInv, OneConnection, clientVars
    <2>6. Table'
        <3>1. \A j \in Slots : client_sockets'[j] = NoFd <=> usernames'[j] = NULL
            BY <2>1, <1>2 DEF IInv, TypeOK, ServerTypeOK, Table
        <3>2. \A j \in Occupied' : j \in Occupied /\ j # i
                                  /\ client_sockets'[j] = client_sockets[j]
            BY <2>1, <2>2 DEF IInv, TypeOK, ServerTypeOK, Occupied
        <3>3. \A j \in Occupied' : client_sockets[j] # fd
            BY <3>2 DEF IInv, Table
        <3>4. \A j \in Occupied' : fdtab'[client_sockets'[j]] # NoClient
            <4> SUFFICES ASSUME NEW j \in Occupied'
                         PROVE  fdtab'[client_sockets'[j]] # NoClient
                OBVIOUS
            <4>1. client_sockets[j] \in Fds /\ fdtab[client_sockets[j]] # NoClient
                BY <3>2, TableTypes DEF IInv, Table, Alive, Serving
            <4> QED BY <4>1, <3>2, <3>3, <2>1 DEF IInv, TypeOK, ServerTypeOK
        <3> QED BY <3>1, <3>2, <3>4 DEF IInv, Table
    <2>7. Awaiting' /\ Ready' BY <2>1 DEF Awaiting, Ready
    <2> QED BY <2>3, <2>4, <2>5, <2>6, <2>7 DEF IInv
<1> QED BY <1>5, <1>6

\* Steps on slot i that leave the table as it is.
LEMMA SlotStepInv ==
    ASSUME IInv, pc = "clients", NEW i \in Occupied, net' \in NetType, Handled(i),
           UNCHANGED <<running, backlog, listening, fdtab, client_sockets,
                       usernames, num_connections>>,
           inbuf' \in Text, Len(inbuf') <= MAX_MSG_LEN + 1, UNCHANGED clientVars
    PROVE  IInv'
<1> USE DEF Handled
<1>1. TypeOK'
    <2>1. slot' \in 0 .. MAX_CONNECTIONS
        BY ChatServerAssumption DEF Slots, Occupied
    <2>2. ServerTypeOK' BY <2>1 DEF IInv, TypeOK, ServerTypeOK
    <2> QED BY <2>2, SameClientType DEF IInv, TypeOK
<1>2. OneConnection' BY SameConnections DEF IInv, clientVars
<1>3. Table' /\ Count' BY SameTable DEF IInv
<1>4. Awaiting' /\ Ready' BY DEF Awaiting, Ready
<1> QED BY <1>1, <1>2, <1>3, <1>4 DEF IInv

LEMMA RelayInv ==
    ASSUME IInv, pc = "clients", NEW i \in Occupied, NEW N \in NetType,
           NEW text \in Text, Relay(i, N, text), UNCHANGED running,
           inbuf' \in Text, Len(inbuf') <= MAX_MSG_LEN + 1, UNCHANGED clientVars
    PROVE  IInv'
<1> DEFINE N2 == Broadcast(N, i, Said(ConnOf(i), usernames[i], text))
<1>1. N2 \in NetType
    <2>1. ConnOf(i) \in Clients /\ usernames[i] \in Text
        BY TableTypes DEF Alive, Serving
    <2>2. Said(ConnOf(i), usernames[i], text) \in Notice
        BY <2>1 DEF Said, Notice, NoticeOf
    <2> QED BY <2>2, BroadcastType
<1>2. running' \in BOOLEAN BY DEF IInv, TypeOK, ServerTypeOK
<1>3. CASE Fatal(N, i) # {}
    <2>1. KilledBySigpipe(N2) BY <1>3 DEF Relay
    <2> QED BY <2>1, <1>1, <1>2, KilledInv
<1>4. CASE Fatal(N, i) = {}
    BY <1>1, <1>4, SlotStepInv DEF Relay
<1> QED BY <1>3, <1>4

LEMMA HandleClientInv ==
    ASSUME IInv, HandleClient, UNCHANGED clientVars
    PROVE  IInv'
<1> DEFINE i == First(Pending)
           c == ConnOf(i)
<1>1. pc = "clients" /\ UNCHANGED running BY DEF HandleClient
<1>2. i \in Occupied
    <2>1. Pending \in SUBSET Nat BY DEF Pending, Occupied, Slots
    <2>2. i \in Pending BY <2>1, FirstInSet DEF HandleClient
    <2> QED BY <2>2 DEF Pending
<1>3. c \in Clients BY <1>1, <1>2, TableTypes DEF Alive, Serving
<1>4. net \in NetType BY DEF IInv, TypeOK
<1>5. inbuf \in Text /\ Len(inbuf) <= MAX_MSG_LEN + 1
    BY DEF IInv, TypeOK, ServerTypeOK
<1>6. CASE HandleData(i)
    <2>1. PICK n \in 1 .. RecvCap :
             LET text == Received(SlotEndpoint(i), n)
                 N    == Took(net, ConnOf(i), "server", n)
             IN  /\ n <= Len(SlotEndpoint(i).inq)
                 /\ inbuf' = text
                 /\ IF IsBye(text) THEN Disconnect(i, N) ELSE Relay(i, N, text)
        BY <1>6 DEF HandleData
    <2>2. n \in Nat BY ChatServerAssumption DEF RecvCap
    <2>3. Took(net, c, "server", n) \in NetType
        BY <2>1, <2>2, <1>3, <1>4, TookServerType DEF SlotEndpoint
    <2>4. inbuf' \in Text /\ Len(inbuf') <= MAX_MSG_LEN + 1
        BY <2>1, <1>3, <1>4, ReceivedType DEF SlotEndpoint
    <2> QED BY <2>1, <2>3, <2>4, <1>1, <1>2, DisconnectInv, RelayInv
<1>7. CASE HandleEof(i)
    BY <1>1, <1>2, <1>4, <1>5, <1>7, DisconnectInv DEF HandleEof
<1>8. CASE HandleReset(i)
    <2>1. Reported(net, c, "server") \in NetType
        BY <1>3, <1>4, ReportedType DEF Sides
    <2> QED BY <2>1, <1>1, <1>2, <1>5, <1>8, SlotStepInv DEF HandleReset
<1> QED BY <1>6, <1>7, <1>8 DEF HandleClient

(***************************************************************************)
(* The end of the server.                                                  *)
(***************************************************************************)
LEMMA SayGoodbyeInv == ASSUME IInv, SayGoodbye, UNCHANGED clientVars PROVE IInv'
<1> DEFINE N == Broadcast(net, NoFd, Goodbye)
<1>1. N \in NetType
    <2>1. Goodbye \in Notice BY DEF Goodbye, Notice, NoticeOf
    <2> QED BY <2>1, BroadcastType DEF IInv, TypeOK
<1>2. /\ running' \in BOOLEAN
      /\ inbuf' \in Text /\ Len(inbuf') <= MAX_MSG_LEN + 1
    BY DEF SayGoodbye, IInv, TypeOK, ServerTypeOK
<1>3. CASE Fatal(net, NoFd) # {}
    <2>1. KilledBySigpipe(N) BY <1>3 DEF SayGoodbye
    <2> QED BY <2>1, <1>1, <1>2, KilledInv
<1>4. CASE Fatal(net, NoFd) = {}
    <2>1. /\ net' = N /\ pc = "cleanup" /\ pc' = "closing"
          /\ UNCHANGED <<running, inbuf, backlog, listening, client_sockets,
                         usernames, num_connections, sockset, slot, new_socket,
                         fdtab, retval>>
        BY <1>4 DEF SayGoodbye
    <2>2. ServerTypeOK' BY <2>1 DEF IInv, TypeOK, ServerTypeOK, Alive
    <2>3. TypeOK' BY <1>1, <2>1, <2>2, SameClientType DEF IInv, TypeOK
    <2>4. OneConnection' BY <2>1, SameConnections DEF IInv, clientVars
    <2>5. Table' /\ Count' BY <2>1, SameTable DEF IInv, Alive
    <2>6. Awaiting' /\ Ready' BY <2>1 DEF Awaiting, Ready
    <2> QED BY <2>3, <2>4, <2>5, <2>6 DEF IInv
<1> QED BY <1>3, <1>4

LEMMA ClosingInv ==
    ASSUME IInv, CloseSockets \/ Return, UNCHANGED clientVars
    PROVE  IInv'
<1> USE DEF CloseSockets, Return, ProcessGone
<1>1. TypeOK'
    <2>1. net' \in NetType
        BY ClosedType, AbortedType DEF IInv, TypeOK, Sides
    <2>2. fdtab' \in [Fds -> Clients \cup {NoClient}]
        BY DEF IInv, TypeOK, ServerTypeOK
    <2>3. ServerTypeOK' BY <2>2 DEF IInv, TypeOK, ServerTypeOK, Down
    <2>4. backlog' = <<>> /\ listening' = FALSE OBVIOUS
    <2>5. <<>> \in Seq(Clients) OBVIOUS
    <2> QED BY <2>1, <2>3, <2>4, <2>5, SameClientType DEF IInv, TypeOK
<1>2. OneConnection'
    <2>1. \A f \in Fds : fdtab'[f] = fdtab[f] \/ fdtab'[f] = NoClient OBVIOUS
    <2>2. backlog' = <<>> OBVIOUS
    <2> QED BY <2>1, <2>2, ChatServerAssumption
            DEF IInv, OneConnection, Queued, clientVars
<1>3. Table' /\ Count' BY DEF IInv, Table, Count, Occupied, Alive, Serving
<1>4. Awaiting' /\ Ready' BY DEF Awaiting, Ready
<1> QED BY <1>1, <1>2, <1>3, <1>4 DEF IInv

(***************************************************************************)
(* The clients and the network.                                            *)
(***************************************************************************)

\* No step but Connect makes a connection, and nobody goes back before it.
LEMMA ElsewhereInv ==
    ASSUME IInv, UNCHANGED <<serverVars, backlog, listening>>,
           net' \in NetType, ClientTypeOK',
           \A c \in Clients : cpc'[c] \in {"prompt", "connect"} =>
                cpc[c] \in {"prompt", "connect"}
    PROVE  IInv'
<1> USE DEF serverVars
<1>1. TypeOK' BY DEF IInv, TypeOK, ServerTypeOK
<1>2. OneConnection' BY DEF IInv, OneConnection, Queued
<1>3. Table' /\ Count' BY SameTable DEF IInv
<1>4. Awaiting' /\ Ready' BY DEF IInv, Awaiting, Ready
<1> QED BY <1>1, <1>2, <1>3, <1>4 DEF IInv

LEMMA ResetInv ==
    ASSUME IInv, NEW c \in Clients, NEW s \in Sides, ResetAt(c, s)
    PROVE  IInv'
<1>1. net' \in NetType BY ResetArrivesType DEF IInv, TypeOK, ResetAt
<1>2. ClientTypeOK' BY SameClientType DEF IInv, TypeOK, ResetAt
<1> QED BY <1>1, <1>2, ElsewhereInv DEF ResetAt, ResetArrives, clientVars

LEMMA ConnectInv ==
    ASSUME IInv, NEW c \in Clients, Connect(c), UNCHANGED serverVars
    PROVE  IInv'
<1> USE DEF Connect, Goto
<1>1. ClientTypeOK'
    BY DEF IInv, TypeOK, ClientTypeOK, Ended
<1>2. CASE listening
    <2>1. /\ net' = Opened(net, c) /\ backlog' = Append(backlog, c)
          /\ cpc' = [cpc EXCEPT ![c] = "welcome"] /\ cpc[c] = "connect"
          /\ UNCHANGED <<listening, serverVars>>
        BY <1>2
    <2>2. net' \in NetType BY <2>1, OpenedType DEF IInv, TypeOK
    <2>3. /\ backlog' \in Seq(Clients)
          /\ DOMAIN backlog' = 1 .. Len(backlog) + 1
          /\ backlog'[Len(backlog) + 1] = c
          /\ \A k \in DOMAIN backlog : backlog'[k] = backlog[k]
          /\ DOMAIN backlog = 1 .. Len(backlog) /\ Len(backlog) \in Nat
        BY <2>1 DEF IInv, TypeOK
    <2>4. TypeOK'
        BY <1>1, <2>1, <2>2, <2>3 DEF IInv, TypeOK, ServerTypeOK, serverVars
    <2>5. Queued' = Queued \cup {c} BY <2>3 DEF Queued
    <2>6. c \notin Queued /\ \A f \in Fds : fdtab[f] # c
        BY <2>1 DEF IInv, OneConnection
    <2>7. OneConnection'
        <3>1. \A f \in Fds : fdtab'[f] \notin Queued'
            BY <2>1, <2>5, <2>6 DEF IInv, OneConnection, serverVars
        <3>2. \A k, l \in DOMAIN backlog' : backlog'[k] = backlog'[l] => k = l
            <4> SUFFICES ASSUME NEW k \in DOMAIN backlog', NEW l \in DOMAIN backlog',
                                backlog'[k] = backlog'[l]
                         PROVE  k = l
                OBVIOUS
            <4>1. \A m \in DOMAIN backlog : backlog'[m] # c
                BY <2>3, <2>6 DEF Queued
            <4>2. CASE k \in DOMAIN backlog /\ l \in DOMAIN backlog
                BY <4>2, <2>3 DEF IInv, OneConnection
            <4>3. CASE k \notin DOMAIN backlog \/ l \notin DOMAIN backlog
                BY <4>1, <4>3, <2>3
            <4> QED BY <4>2, <4>3
        <3>3. \A d \in Clients : cpc'[d] \in {"prompt", "connect"} =>
                 d # c /\ cpc[d] \in {"prompt", "connect"}
            BY <2>1 DEF IInv, TypeOK, ClientTypeOK
        <3> QED BY <3>1, <3>2, <3>3, <2>1, <2>5
                DEF IInv, OneConnection, serverVars
    <2>8. Table' /\ Count' BY <2>1, SameTable DEF IInv, serverVars
    <2>9. Awaiting' BY <2>1 DEF IInv, Awaiting, serverVars
    <2>10. Ready'
        <3>1. backlog' # <<>> BY <2>3
        <3> QED BY <3>1 DEF Ready
    <2> QED BY <2>4, <2>7, <2>8, <2>9, <2>10 DEF IInv
<1>3. CASE ~ listening
    <2>1. /\ cpc' = [cpc EXCEPT ![c] = "exit1"]
          /\ UNCHANGED <<net, backlog, listening>>
        BY <1>3
    <2>2. \A d \in Clients : cpc'[d] \in {"prompt", "connect"} =>
             cpc[d] \in {"prompt", "connect"}
        BY <2>1 DEF IInv, TypeOK, ClientTypeOK
    <2> QED BY <1>1, <2>1, <2>2, ElsewhereInv DEF IInv, TypeOK
<1> QED BY <1>2, <1>3

\* The steps of client c after connect.
LEMMA MovesOn ==
    ASSUME IInv, NEW c \in Clients, NEW where, Goto(c, where),
           where \notin {"prompt", "connect"}
    PROVE  \A d \in Clients : cpc'[d] \in {"prompt", "connect"} =>
              cpc[d] \in {"prompt", "connect"}
BY DEF Goto, IInv, TypeOK, ClientTypeOK

LEMMA LeaveType ==
    ASSUME IInv, NEW c \in Clients, NEW where, Leave(c, where)
    PROVE  net' \in NetType /\ Goto(c, where)
BY ClosedType DEF Leave, IInv, TypeOK, Sides

LEMMA ShownType ==
    ASSUME IInv, NEW c \in Clients, NEW n \in 1 .. ClientCap,
           n <= Len(Own(c).inq), Shown(c, n)
    PROVE  /\ screen' \in [Clients -> Seq(Notice)]
           /\ Took(net, c, "client", n) \in NetType
<1>1. n \in Nat /\ 1 <= n BY ChatClientAssumption
<1>2. Own(c).inq \in Seq(Notice)
    BY DEF Own, IInv, TypeOK, NetType, ConnType
<1>3. SubSeq(Own(c).inq, 1, n) \in Seq(Notice) BY <1>1, <1>2, SubSeqType
<1>4. screen[c] \in Seq(Notice) BY DEF IInv, TypeOK, ClientTypeOK
<1>5. screen[c] \o SubSeq(Own(c).inq, 1, n) \in Seq(Notice) BY <1>3, <1>4
<1>6. screen' \in [Clients -> Seq(Notice)]
    BY <1>5 DEF Shown, IInv, TypeOK, ClientTypeOK
<1>7. Took(net, c, "client", n) \in NetType
    BY <1>1, TookClientType DEF Own, IInv, TypeOK
<1> QED BY <1>6, <1>7

LEMMA TransmitType ==
    ASSUME IInv, NEW c \in Clients, NEW text \in Text
    PROVE  /\ Sent(net, {c}, "client", text) \in NetType
           /\ [sent EXCEPT ![c] = @ \o text] \in [Clients -> Text]
<1>1. sent[c] \o text \in Text BY DEF Text, IInv, TypeOK, ClientTypeOK
<1> QED BY <1>1, SentClientType DEF IInv, TypeOK, ClientTypeOK

LEMMA QuietClientInv ==
    ASSUME IInv, NEW c \in Clients, UNCHANGED serverVars,
           Prompt(c) \/ SelectTyped(c) \/ SelectIncoming(c)
    PROVE  IInv'
<1> USE DEF Prompt, SelectTyped, SelectIncoming, Goto, tcpVars
<1>1. ClientTypeOK'
    <2>1. CASE Prompt(c)
        BY <2>1, ChatClientAssumption DEF IInv, TypeOK, ClientTypeOK, Chatting
    <2>2. CASE SelectTyped(c)
        <3>1. typed \in 0 .. MaxTyped /\ typed + 1 \in 0 .. MaxTyped
            BY <2>2, ChatClientAssumption DEF IInv, TypeOK, ClientTypeOK
        <3>2. typed' \in 0 .. MaxTyped BY <2>2, <3>1
        <3> QED BY <2>2, <3>2 DEF IInv, TypeOK, ClientTypeOK, Chatting
    <2>3. CASE SelectIncoming(c)
        BY <2>3 DEF IInv, TypeOK, ClientTypeOK, Chatting
    <2> QED BY <2>1, <2>2, <2>3
<1>2. \A d \in Clients : cpc'[d] \in {"prompt", "connect"} =>
         cpc[d] \in {"prompt", "connect"}
    BY DEF IInv, TypeOK, ClientTypeOK
<1> QED BY <1>1, <1>2, ElsewhereInv DEF IInv, TypeOK

LEMMA WelcomeInv ==
    ASSUME IInv, NEW c \in Clients, UNCHANGED serverVars, ReceiveWelcome(c)
    PROVE  IInv'
<1>1. CASE HasData(Own(c))
    <2>1. PICK n \in 1 .. ClientCap :
             /\ n <= Len(Own(c).inq) /\ Shown(c, n)
             /\ net' = Took(net, c, "client", n)
             /\ Goto(c, "name")
        BY <1>1 DEF ReceiveWelcome
    <2>2. ClientTypeOK'
        BY <2>1, ShownType DEF ReceiveWelcome, IInv, TypeOK, ClientTypeOK, Goto
    <2> QED BY <2>1, <2>2, ShownType, MovesOn, ElsewhereInv DEF ReceiveWelcome
<1>2. CASE ~ HasData(Own(c))
    <2>1. Leave(c, "exit1") /\ UNCHANGED screen BY <1>2 DEF ReceiveWelcome
    <2>2. ClientTypeOK'
        BY <2>1 DEF ReceiveWelcome, IInv, TypeOK, ClientTypeOK, Leave, Goto, Ended
    <2> QED BY <2>1, <2>2, LeaveType, MovesOn, ElsewhereInv DEF ReceiveWelcome
<1> QED BY <1>1, <1>2

LEMMA SendNameInv ==
    ASSUME IInv, NEW c \in Clients, UNCHANGED serverVars, SendName(c)
    PROVE  IInv'
<1> USE DEF SendName
<1>1. ASSUME Leave(c, "killed") \/ Leave(c, "exit1"), UNCHANGED sent PROVE IInv'
    <2>1. ClientTypeOK'
        BY <1>1 DEF IInv, TypeOK, ClientTypeOK, Leave, Goto, Ended
    <2> QED BY <1>1, <2>1, LeaveType, MovesOn, ElsewhereInv
<1>2. ASSUME Transmit(c, username[c]), Goto(c, "select") PROVE IInv'
    <2>1. username[c] \in Text BY DEF IInv, TypeOK, ClientTypeOK
    <2>2. ClientTypeOK'
        BY <1>2, <2>1, TransmitType
        DEF Transmit, IInv, TypeOK, ClientTypeOK, Goto, Chatting
    <2> QED BY <1>2, <2>1, <2>2, TransmitType, MovesOn, ElsewhereInv DEF Transmit
<1> QED BY <1>1, <1>2 DEF KilledBySend

LEMMA StdinInv ==
    ASSUME IInv, NEW c \in Clients, UNCHANGED serverVars,
           SendLine(c) \/ IgnoreLine(c)
    PROVE  IInv'
<1>1. AfterStdin(c) \in Chatting /\ AfterStdin(c) \notin {"prompt", "connect"}
    BY DEF AfterStdin, Chatting
<1>2. ASSUME UNCHANGED <<net, backlog, listening, username, typed, screen, sent>>,
             Goto(c, AfterStdin(c))
      PROVE  IInv'
    <2>1. ClientTypeOK'
        BY <1>1, <1>2 DEF IInv, TypeOK, ClientTypeOK, Goto
    <2> QED BY <1>1, <1>2, <2>1, MovesOn, ElsewhereInv DEF IInv, TypeOK
<1>3. ASSUME SendFails(c), Goto(c, AfterStdin(c)),
             UNCHANGED <<backlog, listening, username, typed, screen>>
      PROVE  IInv'
    <2>1. ClientTypeOK'
        BY <1>1, <1>3 DEF SendFails, IInv, TypeOK, ClientTypeOK, Goto
    <2>2. net' \in NetType
        BY <1>3, ReportedType DEF SendFails, IInv, TypeOK, Sides
    <2> QED BY <1>1, <1>3, <2>1, <2>2, MovesOn, ElsewhereInv
<1>4. ASSUME KilledBySend(c),
             UNCHANGED <<backlog, listening, username, typed, screen>>
      PROVE  IInv'
    <2>1. ClientTypeOK'
        BY <1>4 DEF KilledBySend, IInv, TypeOK, ClientTypeOK, Leave, Goto, Ended
    <2> QED BY <1>4, <2>1, LeaveType, MovesOn, ElsewhereInv DEF KilledBySend
<1>5. ASSUME NEW line \in Lines, Transmit(c, line), Goto(c, AfterStdin(c)),
             UNCHANGED <<backlog, listening, username, typed, screen>>
      PROVE  IInv'
    <2>1. line \in Text BY ChatClientAssumption
    <2>2. net' \in NetType /\ sent' \in [Clients -> Text]
        BY <1>5, <2>1, TransmitType DEF Transmit
    <2>3. ClientTypeOK'
        BY <1>1, <1>5, <2>2 DEF IInv, TypeOK, ClientTypeOK, Goto
    <2> QED BY <1>1, <1>5, <2>2, <2>3, MovesOn, ElsewhereInv
<1>6. ASSUME sent' = [sent EXCEPT ![c] = @ \o Bye],
             net' = Closed(Sent(net, {c}, "client", Bye), {c}, "client"),
             Goto(c, "exit0"),
             UNCHANGED <<backlog, listening, username, typed, screen>>
      PROVE  IInv'
    <2>1. Bye \in Text BY ChatTextAssumption DEF Text
    <2>2. net' \in NetType /\ sent' \in [Clients -> Text]
        BY <1>6, <2>1, TransmitType, ClosedType DEF Sides
    <2>3. ClientTypeOK'
        BY <1>6, <2>2 DEF IInv, TypeOK, ClientTypeOK, Goto, Ended
    <2> QED BY <1>6, <2>2, <2>3, MovesOn, ElsewhereInv
<1>7. CASE IgnoreLine(c) BY <1>2, <1>7 DEF IgnoreLine, tcpVars
<1>8. CASE SendLine(c)
    <2>1. UNCHANGED <<backlog, listening, username, typed, screen>>
        BY <1>8 DEF SendLine
    <2>2. PICK line \in Lines \cup {Bye} :
             \/ KilledBySend(c)
             \/ SendFails(c) /\ Goto(c, AfterStdin(c))
             \/ line \in Lines /\ Transmit(c, line) /\ Goto(c, AfterStdin(c))
             \/ /\ sent' = [sent EXCEPT ![c] = @ \o Bye]
                /\ net' = Closed(Sent(net, {c}, "client", Bye), {c}, "client")
                /\ Goto(c, "exit0")
        BY <1>8 DEF SendLine, IsBye
    <2> QED BY <2>1, <2>2, <1>3, <1>4, <1>5, <1>6
<1> QED BY <1>7, <1>8

LEMMA IncomingInv ==
    ASSUME IInv, NEW c \in Clients, UNCHANGED serverVars, Incoming(c)
    PROVE  IInv'
<1>1. UNCHANGED <<backlog, listening, username, typed, sent>> BY DEF Incoming
<1>2. ASSUME NEW n \in 1 .. ClientCap, n <= Len(Own(c).inq), Shown(c, n),
             NEW where \in {"exit0", "select"}, Goto(c, where),
             net' = Took(net, c, "client", n)
                \/ net' = Closed(Took(net, c, "client", n), {c}, "client")
      PROVE  IInv'
    <2>1. net' \in NetType BY <1>2, ShownType, ClosedType DEF Sides
    <2>2. ClientTypeOK'
        BY <1>1, <1>2, ShownType DEF IInv, TypeOK, ClientTypeOK, Goto, Ended, Chatting
    <2> QED BY <1>1, <1>2, <2>1, <2>2, MovesOn, ElsewhereInv
<1>3. CASE ConnectionLost(c)
    <2>1. ClientTypeOK'
        BY <1>1, <1>3 DEF ConnectionLost, IInv, TypeOK, ClientTypeOK, Leave, Goto, Ended
    <2> QED BY <1>1, <1>3, <2>1, LeaveType, MovesOn, ElsewhereInv DEF ConnectionLost
<1>4. ASSUME net' = Reported(net, c, "client"), Goto(c, "select"), UNCHANGED screen
      PROVE  IInv'
    <2>1. net' \in NetType BY <1>4, ReportedType DEF IInv, TypeOK, Sides
    <2>2. ClientTypeOK'
        BY <1>1, <1>4 DEF IInv, TypeOK, ClientTypeOK, Goto, Chatting
    <2> QED BY <1>1, <1>4, <2>1, <2>2, MovesOn, ElsewhereInv
<1> QED BY <1>2, <1>3, <1>4 DEF Incoming

LEMMA KillInv ==
    ASSUME IInv, NEW c \in Clients, UNCHANGED serverVars, Kill(c)
    PROVE  IInv'
<1> USE DEF Kill
<1>1. ClientTypeOK'
    BY DEF IInv, TypeOK, ClientTypeOK, Leave, Goto, Ended
<1> QED BY <1>1, LeaveType, MovesOn, ElsewhereInv

(***************************************************************************)
(* The theorems.                                                           *)
(***************************************************************************)
LEMMA StutterInv == ASSUME IInv, UNCHANGED vars PROVE IInv'
<1> USE DEF vars, tcpVars, serverVars, clientVars
<1>1. TypeOK' BY DEF IInv, TypeOK, ServerTypeOK, ClientTypeOK
<1>2. OneConnection' BY SameConnections DEF IInv
<1>3. Table' /\ Count' BY SameTable DEF IInv
<1>4. Awaiting' /\ Ready' BY DEF IInv, Awaiting, Ready
<1> QED BY <1>1, <1>2, <1>3, <1>4 DEF IInv

\* The inductive invariant holds in every reachable state, for any number of
\* clients, slots and descriptors.
THEOREM Invariance == Spec => []IInv
<1>1. Init => IInv BY InitInv
<1>2. IInv /\ [Next]_vars => IInv'
    <2> SUFFICES ASSUME IInv, [Next]_vars PROVE IInv' OBVIOUS
    <2>1. CASE ServerStep
        BY <2>1, StartUpInv, LoopTopInv, SelectInv, QuietInv, RefuseInv, AcceptInv,
           RecvNameInv, HandleClientInv, SayGoodbyeInv, ClosingInv
        DEF ServerStep, ServerSteps
    <2>2. CASE Signal
        BY <2>2, SignalInv, RecvNameInv DEF Signal, Sigint
    <2>3. CASE Fault
        BY <2>3, SelectInv DEF Fault
    <2>4. ASSUME NEW c \in Clients, ClientStep(c) PROVE IInv'
        BY <2>4, ConnectInv, WelcomeInv, SendNameInv, QuietClientInv, StdinInv,
           IncomingInv
        DEF ClientStep, ClientSteps
    <2>5. ASSUME NEW c \in Clients, UserStep(c) PROVE IInv'
        BY <2>5, QuietClientInv, StdinInv, KillInv DEF UserStep, UserSteps
    <2>6. ASSUME NEW c \in Clients, NEW s \in Sides, ResetAt(c, s) PROVE IInv'
        BY <2>6, ResetInv
    <2>7. CASE UNCHANGED vars BY <2>7, StutterInv
    <2> QED BY <2>1, <2>2, <2>3, <2>4, <2>5, <2>6, <2>7 DEF Next
<1> QED BY <1>1, <1>2, PTL DEF Spec

\* Type correctness: in particular the table never counts more connections
\* than it has slots, and no recv overfills inbuf.
THEOREM TypeCorrect == Spec => []TypeOK
<1>1. IInv => TypeOK BY DEF IInv
<1> QED BY <1>1, Invariance, PTL

\* Sockets, user names and the counter of the server's table always agree.
THEOREM TableCorrect == Spec => []SlotTable
<1>1. IInv => SlotTable
    <2> SUFFICES ASSUME IInv PROVE SlotTable OBVIOUS
    <2>1. pc \in Alive => Members \subseteq Clients BY MembersType
    <2>2. ASSUME pc \in Alive, NEW i \in Occupied, NEW j \in Occupied,
                 ConnOf(i) = ConnOf(j)
          PROVE  i = j
        <3>1. client_sockets[i] \in Fds /\ client_sockets[j] \in Fds
            BY <2>2, TableTypes
        <3>2. fdtab[client_sockets[i]] # NoClient
            BY <2>2 DEF IInv, Table
        <3>3. client_sockets[i] = client_sockets[j]
            BY <2>2, <3>1, <3>2 DEF IInv, OneConnection, ConnOf
        <3> QED BY <3>3 DEF IInv, Table
    <2> QED BY <2>1, <2>2 DEF SlotTable, IInv, Table, Count
<1> QED BY <1>1, Invariance, PTL

\* Whenever a user name is awaited there is a slot for its connection.
THEOREM SlotForAccepted == Spec => []FreeSlotForAccepted
<1>1. IInv => FreeSlotForAccepted
    BY FreeSlotExists DEF FreeSlotForAccepted, IInv, Awaiting
<1> QED BY <1>1, Invariance, PTL

(***************************************************************************)
(* Where open connections are, and what is ready.                          *)
(*                                                                         *)
(* The two ends of a connection are up together; nobody connects to a      *)
(* server that is not listening yet.                                       *)
(***************************************************************************)
Linked(n) == n["client"].link = "up" <=> n["server"].link = "up"
Pairs     == \A c \in Clients : Linked(net[c])
Early     == pc = "start" => ~ listening /\ \A c \in Clients : Own(c).link # "up"

LinkInv == Pairs /\ Early /\ NobodyForgotten

\* From select until the loop over the slots gets there, what was reported
\* readable stays readable; a descriptor that is opened in between was not
\* reported.
Polled(i) == client_sockets[i] \in sockset /\ (pc = "clients" => i >= slot)

RoundInv ==
    /\ pc \in {"select", "accept"} =>
          sockset \subseteq {ListenFd} \cup {client_sockets[i] : i \in Occupied}
    /\ pc = "name" => new_socket \notin sockset
    /\ pc \in {"accept", "name", "clients"} /\ running =>
          \A i \in Occupied : Polled(i) => Readable(SlotEndpoint(i))

\* What no call does to a connection: bring an end up, or one end alone down.
Fits(n, m) == /\ m["client"].link = "up" => n["client"].link = "up"
              /\ Linked(n) => Linked(m)
\* The server's end stays readable.
Calm(n, m) == Readable(n["server"]) => Readable(m["server"])

LEMMA SendKeeps ==
    ASSUME NEW n \in ConnType, NEW s \in Sides,
           NEW text, text \in IF s = "server" THEN Seq(Notice) ELSE Text
    PROVE  Fits(n, AfterSend(n, s, text)) /\ Calm(n, AfterSend(n, s, text))
<1> DEFINE m == AfterSend(n, s, text)
<1>1. CASE s = "server"
    <2>1. /\ m["server"].inq = n["server"].inq
          /\ m["client"].link = n["client"].link
          /\ m["server"].link = CASE n["server"].link = "eof"   -> "probed"
                                  [] n["server"].link = "reset" -> "dead"
                                  [] OTHER                      -> n["server"].link
        BY <1>1 DEF AfterSend, ConnType, Peer, Links
    <2> HIDE DEF m
    <2>2. Fits(n, m) /\ Calm(n, m)
        BY <2>1 DEF Fits, Linked, Calm, Readable, HasData, AtEof, AtReset
    <2> QED BY <2>2 DEF m
<1>2. CASE s = "client"
    <2>1. /\ m["server"].link = n["server"].link
          /\ m["server"].inq \in {n["server"].inq, n["server"].inq \o text}
          /\ m["client"].link = CASE n["client"].link = "eof"   -> "probed"
                                  [] n["client"].link = "reset" -> "dead"
                                  [] OTHER                      -> n["client"].link
        BY <1>2 DEF AfterSend, ConnType, Peer, Links
    <2>2. n["server"].inq \in Text /\ text \in Text BY <1>2 DEF ConnType
    <2>3. n["server"].inq # <<>> => n["server"].inq \o text # <<>> BY <2>2 DEF Text
    <2> HIDE DEF m
    <2>4. Fits(n, m) BY <2>1 DEF Fits, Linked
    <2>5. m["server"].inq = <<>> => n["server"].inq = <<>> BY <2>1, <2>3
    <2>6. Calm(n, m) BY <2>1, <2>5 DEF Calm, Readable, HasData, AtEof, AtReset
    <2> QED BY <2>4, <2>6 DEF m
<1> QED BY <1>1, <1>2 DEF Sides

LEMMA CloseKeeps ==
    ASSUME NEW n \in ConnType, NEW s \in Sides
    PROVE  /\ Fits(n, AfterClose(n, s))
           /\ AfterClose(n, s)["client"].link # "up"
           /\ AfterClose(n, s)["server"].link # "up"
           /\ s = "client" => Calm(n, AfterClose(n, s))
<1> DEFINE m == AfterClose(n, s)
<1>1. m["client"].link # "up" /\ m["server"].link # "up"
    <2>1. CASE s = "server" BY <2>1 DEF AfterClose, ConnType, Peer, Fresh
    <2>2. CASE s = "client" BY <2>2 DEF AfterClose, ConnType, Peer, Fresh
    <2> QED BY <2>1, <2>2 DEF Sides
<1>2. s = "client" => Calm(n, m)
    <2> SUFFICES ASSUME s = "client" PROVE Calm(n, m) OBVIOUS
    <2>1. /\ m["server"].inq = n["server"].inq
          /\ n["server"].link # "up" => m["server"].link = n["server"].link
        BY DEF AfterClose, ConnType, Peer
    <2> HIDE DEF m
    <2> QED BY <2>1 DEF Calm, Readable, HasData, AtEof, AtReset
<1> HIDE DEF m
<1>3. Fits(n, m) BY <1>1 DEF Fits, Linked
<1> QED BY <1>1, <1>2, <1>3 DEF m

LEMMA AbortKeeps ==
    ASSUME NEW n \in ConnType PROVE Fits(n, AfterAbort(n))
<1> DEFINE m == AfterAbort(n)
<1>1. m["client"].link # "up" /\ m["server"].link # "up" BY DEF AfterAbort, ConnType, Fresh
<1> HIDE DEF m
<1> QED BY <1>1 DEF Fits, Linked, m

LEMMA FitsTwice ==
    ASSUME NEW n, NEW m, NEW k, Fits(n, m), Fits(m, k) PROVE Fits(n, k)
BY DEF Fits

LEMMA CalmTwice ==
    ASSUME NEW n, NEW m, NEW k, Calm(n, m), Calm(m, k) PROVE Calm(n, k)
BY DEF Calm

\* The same of all connections.
NetFits(N, M)    == \A c \in Clients : Fits(N[c], M[c])
NetCalm(N, M, C) == \A c \in C : Calm(N[c], M[c])

LEMMA NetTwice ==
    ASSUME NEW N, NEW M, NEW K, NEW C
    PROVE  /\ NetFits(N, M) /\ NetFits(M, K) => NetFits(N, K)
           /\ NetCalm(N, M, C) /\ NetCalm(M, K, C) => NetCalm(N, K, C)
BY FitsTwice, CalmTwice DEF NetFits, NetCalm

LEMMA NetSame == ASSUME NEW N, NEW C PROVE NetFits(N, N) /\ NetCalm(N, N, C)
BY DEF NetFits, NetCalm, Fits, Calm

LEMMA SentKeeps ==
    ASSUME NEW N \in NetType, NEW C, NEW s \in Sides,
           NEW text, text \in IF s = "server" THEN Seq(Notice) ELSE Text
    PROVE  NetFits(N, Sent(N, C, s, text)) /\ NetCalm(N, Sent(N, C, s, text), Clients)
<1> SUFFICES ASSUME NEW c \in Clients
             PROVE  Fits(N[c], Sent(N, C, s, text)[c]) /\ Calm(N[c], Sent(N, C, s, text)[c])
    BY DEF NetFits, NetCalm
<1>1. N[c] \in ConnType BY DEF NetType
<1>2. CASE c \in C
    <2>1. Sent(N, C, s, text)[c] = AfterSend(N[c], s, text) BY <1>2 DEF Sent
    <2> QED BY <1>1, <2>1, SendKeeps
<1>3. CASE c \notin C
    <2>1. Sent(N, C, s, text)[c] = N[c] BY <1>3 DEF Sent
    <2> QED BY <2>1 DEF Fits, Calm
<1> QED BY <1>2, <1>3

LEMMA BroadcastKeeps ==
    ASSUME NEW N \in NetType, NEW skip, NEW notice \in Notice
    PROVE  /\ NetFits(N, Broadcast(N, skip, notice))
           /\ NetCalm(N, Broadcast(N, skip, notice), Clients)
<1>1. "server" \in Sides /\ <<notice>> \in Seq(Notice) BY DEF Sides
<1> QED BY <1>1, SentKeeps DEF Broadcast

LEMMA ClosedKeeps ==
    ASSUME NEW N \in NetType, NEW C, NEW s \in Sides
    PROVE  /\ NetFits(N, Closed(N, C, s))
           /\ NetCalm(N, Closed(N, C, s), Clients \ C)
           /\ s = "client" => NetCalm(N, Closed(N, C, s), Clients)
           /\ \A c \in C \cap Clients : Closed(N, C, s)[c]["client"].link # "up"
<1>1. \A c \in Clients : N[c] \in ConnType BY DEF NetType
<1>2. \A c \in Clients \cap C : Closed(N, C, s)[c] = AfterClose(N[c], s) BY DEF Closed
<1>3. \A c \in Clients \ C : Closed(N, C, s)[c] = N[c] BY DEF Closed
<1>4. NetFits(N, Closed(N, C, s))
    <2> SUFFICES ASSUME NEW c \in Clients PROVE Fits(N[c], Closed(N, C, s)[c]) BY DEF NetFits
    <2>1. CASE c \in C BY <1>1, <1>2, <2>1, CloseKeeps
    <2>2. CASE c \notin C BY <1>3, <2>2 DEF Fits
    <2> QED BY <2>1, <2>2
<1>5. NetCalm(N, Closed(N, C, s), Clients \ C) BY <1>3 DEF NetCalm, Calm
<1>6. s = "client" => NetCalm(N, Closed(N, C, s), Clients)
    <2> SUFFICES ASSUME s = "client", NEW c \in Clients PROVE Calm(N[c], Closed(N, C, s)[c])
        BY DEF NetCalm
    <2>1. CASE c \in C BY <1>1, <1>2, <2>1, CloseKeeps
    <2>2. CASE c \notin C BY <1>3, <2>2 DEF Calm
    <2> QED BY <2>1, <2>2
<1>7. \A c \in C \cap Clients : Closed(N, C, s)[c]["client"].link # "up"
    BY <1>1, <1>2, CloseKeeps
<1> QED BY <1>4, <1>5, <1>6, <1>7

LEMMA AbortedKeeps ==
    ASSUME NEW N \in NetType, NEW C PROVE NetFits(N, Aborted(N, C))
<1> SUFFICES ASSUME NEW c \in Clients PROVE Fits(N[c], Aborted(N, C)[c]) BY DEF NetFits
<1>1. N[c] \in ConnType BY DEF NetType
<1>2. Aborted(N, C)[c] \in {N[c], AfterAbort(N[c])} BY DEF Aborted
<1> QED BY <1>1, <1>2, AbortKeeps DEF Fits

\* recv on one end, whether it takes something in or reports a reset.
LEMMA TookKeeps ==
    ASSUME NEW N \in NetType, NEW c \in Clients, NEW s \in Sides, NEW n
    PROVE  /\ NetFits(N, Took(N, c, s, n))
           /\ NetCalm(N, Took(N, c, s, n), Clients \ {c})
           /\ s = "client" => NetCalm(N, Took(N, c, s, n), Clients)
<1> DEFINE M == Took(N, c, s, n)
<1>1. \A d \in Clients \ {c} : M[d] = N[d] BY DEF Took, NetType
<1>2. /\ M[c]["client"].link = N[c]["client"].link /\ M[c]["server"].link = N[c]["server"].link
      /\ s = "client" => M[c]["server"] = N[c]["server"]
    <2>1. N[c] \in ConnType BY DEF NetType
    <2>2. CASE s = "client" BY <2>1, <2>2 DEF Took, NetType, ConnType
    <2>3. CASE s = "server" BY <2>1, <2>3 DEF Took, NetType, ConnType
    <2> QED BY <2>2, <2>3 DEF Sides
<1> HIDE DEF M
<1>3. NetFits(N, M) BY <1>1, <1>2 DEF NetFits, Fits, Linked
<1>4. NetCalm(N, M, Clients \ {c}) BY <1>1 DEF NetCalm, Calm
<1>5. s = "client" => NetCalm(N, M, Clients) BY <1>1, <1>2 DEF NetCalm, Calm
<1> QED BY <1>3, <1>4, <1>5 DEF M

LEMMA ReportedKeeps ==
    ASSUME NEW N \in NetType, NEW c \in Clients, NEW s \in Sides, N[c][s].link = "reset"
    PROVE  /\ NetFits(N, Reported(N, c, s))
           /\ NetCalm(N, Reported(N, c, s), Clients)
<1> DEFINE M == Reported(N, c, s)
<1>1. \A d \in Clients \ {c} : M[d] = N[d] BY DEF Reported, NetType
<1>2. /\ M[c]["server"].inq = N[c]["server"].inq
      /\ \A t \in Sides : M[c][t].link = IF t = s THEN "dead" ELSE N[c][t].link
    <2>1. N[c] \in ConnType BY DEF NetType
    <2>2. CASE s = "client" BY <2>1, <2>2 DEF Reported, NetType, ConnType, Sides
    <2>3. CASE s = "server" BY <2>1, <2>3 DEF Reported, NetType, ConnType, Sides
    <2> QED BY <2>2, <2>3 DEF Sides
<1> HIDE DEF M
<1>3. Fits(N[c], M[c]) /\ Calm(N[c], M[c])
    BY <1>2 DEF Fits, Linked, Calm, Readable, HasData, AtEof, AtReset, Sides
<1>4. NetFits(N, M) BY <1>1, <1>3 DEF NetFits, Fits
<1>5. NetCalm(N, M, Clients) BY <1>1, <1>3 DEF NetCalm, Calm
<1> QED BY <1>4, <1>5 DEF M

(***************************************************************************)
(* The steps.                                                              *)
(***************************************************************************)
Known(c) == c \in Queued \cup Members \/ (pc = "name" /\ c = fdtab[new_socket])

\* A step that brings no connection up, by a server that was serving.
LEMMA LinkKept ==
    ASSUME LinkInv, NetFits(net, net'),
           pc' = "start" => pc = "start" /\ UNCHANGED listening,
           pc' \in Serving => pc \in Serving,
           ASSUME NEW c \in Clients, pc' \in Serving, Known(c), Own(c).link = "up", Own(c)'.link = "up"
           PROVE  Known(c)'
    PROVE  LinkInv'
<1>1. \A c \in Clients : /\ Own(c)'.link = "up" => Own(c).link = "up"
                         /\ Linked(net[c]) => Linked(net'[c])
    BY DEF NetFits, Fits, Own
<1>2. Pairs' BY <1>1 DEF LinkInv, Pairs, Linked
<1>3. Early' BY <1>1 DEF LinkInv, Early
<1>4. NobodyForgotten'
    <2> SUFFICES ASSUME pc' \in Serving, NEW c \in Clients, Own(c)'.link = "up" PROVE Known(c)'
        BY DEF NobodyForgotten, Known
    <2>1. Own(c).link = "up" /\ pc \in Serving BY <1>1
    <2>2. Known(c) BY <2>1 DEF LinkInv, NobodyForgotten, Known
    <2> QED BY <2>1, <2>2
<1> QED BY <1>2, <1>3, <1>4 DEF LinkInv

LEMMA MembersKept ==
    ASSUME UNCHANGED <<client_sockets, fdtab>>
    PROVE  Members' = Members /\ Occupied' = Occupied /\ \A i \in Slots : ConnOf(i)' = ConnOf(i)
BY DEF Members, Occupied, ConnOf

LEMMA ConnsDiffer ==
    ASSUME IInv, pc \in Alive, NEW i \in Occupied, NEW j \in Occupied, ConnOf(i) = ConnOf(j)
    PROVE  i = j
<1>1. client_sockets[i] \in Fds /\ client_sockets[j] \in Fds BY TableTypes
<1>2. fdtab[client_sockets[i]] # NoClient BY DEF IInv, Table
<1>3. client_sockets[i] = client_sockets[j] BY <1>1, <1>2 DEF IInv, OneConnection, ConnOf
<1> QED BY <1>3 DEF IInv, Table

LEMMA ServingAlive == \A p \in Serving : p \in Alive /\ p # "start"
BY DEF Serving, Alive

\* The steps that touch no connection.
LEMMA QuietLinks ==
    ASSUME IInv, LinkInv, RoundInv,
           \/ StartUp \/ LoopTop \/ Select \/ SelectFails \/ NoConnection \/ AcceptFails
           \/ HungUp \/ RoundOver \/ SetFlag \/ InterruptSelect
    PROVE  LinkInv' /\ RoundInv'
<1>1. UNCHANGED <<net, backlog, client_sockets, fdtab>> /\ Queued' = Queued
    BY DEF StartUp, LoopTop, Select, SelectFails, NoConnection, AcceptFails, HungUp, RoundOver,
           SetFlag, InterruptSelect, tcpVars, Queued
<1>2. Members' = Members /\ Occupied' = Occupied /\ \A i \in Slots : ConnOf(i)' = ConnOf(i)
    BY <1>1, MembersKept
<1>3. NetFits(net, net') BY <1>1, NetSame
<1>4. LinkInv'
    <2>1. CASE StartUp
        <3>1. \A c \in Clients : Own(c)'.link # "up" BY <1>1, <2>1 DEF StartUp, LinkInv, Early, Own
        <3>2. pc' # "start" BY <2>1 DEF StartUp
        <3>3. Pairs' BY <1>1 DEF LinkInv, Pairs, Linked
        <3> QED BY <3>1, <3>2, <3>3 DEF LinkInv, Early, NobodyForgotten
    <2>2. CASE \/ LoopTop \/ Select \/ SelectFails \/ NoConnection \/ AcceptFails
               \/ RoundOver \/ SetFlag \/ InterruptSelect
        <3>1. /\ pc' = "start" => pc = "start" /\ UNCHANGED listening
              /\ pc' \in Serving => pc \in Serving
              /\ pc = "name" => pc' = "name" /\ UNCHANGED new_socket
            BY <2>2 DEF LoopTop, Select, SelectFails, NoConnection, AcceptFails, RoundOver, SetFlag,
                        InterruptSelect, tcpVars, Serving
        <3>2. \A c \in Clients : Known(c) => Known(c)' BY <1>1, <1>2, <3>1 DEF Known
        <3> QED BY <1>3, <3>1, <3>2, LinkKept
    <2>3. CASE HungUp
        <3>1. pc = "name" /\ pc' = "clients" /\ "name" \in Serving BY <2>3 DEF HungUp, Serving
        <3>2. fdtab[new_socket] \in Clients
            BY <3>1 DEF IInv, Awaiting, TypeOK, ServerTypeOK
        <3>3. net[fdtab[new_socket]]["client"].link # "up"
            <4>1. net[fdtab[new_socket]]["server"].link # "up"
                BY <2>3 DEF HungUp, AtEof, NameEndpoint
            <4> QED BY <3>2, <4>1 DEF LinkInv, Pairs, Linked
        <3>4. \A c \in Clients : Own(c).link = "up" /\ Known(c) => Known(c)'
            BY <1>1, <1>2, <3>3 DEF Known, Own
        <3> QED BY <1>3, <3>1, <3>4, LinkKept
    <2> QED BY <2>1, <2>2, <2>3
<1>5. \A i \in Occupied : SlotEndpoint(i)' = SlotEndpoint(i) /\ i \in Slots
    BY <1>1, <1>2 DEF SlotEndpoint, Occupied
<1>6. RoundInv'
    <2>1. CASE StartUp \/ SelectFails \/ AcceptFails \/ RoundOver
        BY <2>1 DEF StartUp, SelectFails, AcceptFails, RoundOver, RoundInv
    <2>2. CASE LoopTop BY <1>1, <1>2, <2>2 DEF LoopTop, RoundInv
    <2>3. CASE Select
        <3>1. pc = "select" /\ pc' = "accept" /\ sockset' = ReadyFds /\ ReadyFds \subseteq sockset
            BY <2>3 DEF Select, ReadyFds
        <3>2. ASSUME NEW i \in Occupied, client_sockets[i] \in ReadyFds PROVE Readable(SlotEndpoint(i))
            <4>1. pc \in Alive BY <3>1 DEF Alive, Serving
            <4>2. client_sockets[i] \in Fds BY <4>1, TableTypes
            <4>3. client_sockets[i] # ListenFd BY <4>2, ChatServerAssumption DEF ListenFd
            <4> QED BY <3>2, <4>3 DEF ReadyFds, SlotEndpoint, ConnOf
        <3> QED BY <1>1, <1>2, <1>5, <3>1, <3>2 DEF RoundInv, Polled
    <2>4. CASE NoConnection \/ HungUp
        <3>1. /\ pc \in {"accept", "name"} /\ pc' = "clients" /\ UNCHANGED <<running, sockset>>
            BY <2>4 DEF NoConnection, HungUp
        <3> QED BY <1>1, <1>2, <1>5, <3>1 DEF RoundInv, Polled
    <2>5. CASE SetFlag
        <3>1. UNCHANGED <<pc, new_socket, sockset>> /\ running' = FALSE BY <2>5 DEF SetFlag
        <3> QED BY <1>1, <1>2, <3>1 DEF RoundInv
    <2>6. CASE InterruptSelect
        <3>1. pc = "select" /\ pc' = "accept" /\ UNCHANGED sockset /\ running' = FALSE
            BY <2>6 DEF InterruptSelect
        <3> QED BY <1>1, <1>2, <3>1 DEF RoundInv
    <2> QED BY <2>1, <2>2, <2>3, <2>4, <2>5, <2>6
<1> QED BY <1>4, <1>6

LEMMA QueuedSplits ==
    ASSUME TypeOK, backlog # <<>>, backlog' = Tail(backlog)
    PROVE  Queued \subseteq {Head(backlog)} \cup Queued'
<1> SUFFICES ASSUME NEW k \in DOMAIN backlog
             PROVE  backlog[k] = Head(backlog) \/ backlog[k] \in Queued'
    BY DEF Queued
<1>1. backlog \in Seq(Clients) BY DEF TypeOK
<1>2. CASE k = 1 BY <1>1, <1>2
<1>3. CASE k # 1
    <2>1. k - 1 \in DOMAIN Tail(backlog) /\ Tail(backlog)[k - 1] = backlog[k] BY <1>1, <1>3
    <2> QED BY <2>1 DEF Queued
<1> QED BY <1>2, <1>3

LEMMA RefuseLinks ==
    ASSUME IInv, LinkInv, RoundInv, Refuse PROVE LinkInv' /\ RoundInv'
<1> DEFINE c == Head(backlog)
<1>1. /\ pc = "accept" /\ pc' = "clients" /\ slot' = 0 /\ backlog' = Tail(backlog)
      /\ net' = Closed(net, {c}, "server")
      /\ UNCHANGED <<running, client_sockets, fdtab, sockset>>
    BY DEF Refuse, Hangup
<1>2. TypeOK /\ net \in NetType /\ backlog # <<>> BY DEF Refuse, IInv, Ready, TypeOK
<1>3. c \in Clients /\ c \in Queued BY <1>2, BacklogHead
<1>4. /\ NetFits(net, net') /\ net'[c]["client"].link # "up"
      /\ NetCalm(net, net', Clients \ {c})
    BY <1>1, <1>2, <1>3, ClosedKeeps DEF Sides
<1>5. Members' = Members /\ Occupied' = Occupied /\ \A i \in Slots : ConnOf(i)' = ConnOf(i)
    BY <1>1, MembersKept
<1>6. LinkInv'
    <2>1. \A d \in Clients : Known(d) /\ Own(d)'.link = "up" => Known(d)'
        BY <1>1, <1>2, <1>4, <1>5, QueuedSplits DEF Known, Own
    <2>2. pc \in Serving /\ pc' # "start" BY <1>1 DEF Serving
    <2> QED BY <1>4, <2>1, <2>2, LinkKept
<1>7. RoundInv'
    <2> SUFFICES ASSUME running, NEW i \in Occupied, client_sockets[i] \in sockset
                 PROVE  Readable(SlotEndpoint(i)')
        BY <1>1, <1>5 DEF RoundInv, Polled
    <2>1. ConnOf(i) \in Clients /\ client_sockets[i] \in Fds /\ i \in Slots
        BY <1>1, TableTypes DEF Alive, Serving, Occupied
    <2>2. ConnOf(i) # c BY <1>3, <2>1 DEF IInv, OneConnection, ConnOf
    <2>3. Readable(SlotEndpoint(i)) BY <1>1 DEF RoundInv, Polled
    <2>4. Calm(net[ConnOf(i)], net'[ConnOf(i)]) BY <1>4, <2>1, <2>2 DEF NetCalm
    <2> QED BY <1>5, <2>1, <2>3, <2>4 DEF Calm, SlotEndpoint
<1> QED BY <1>6, <1>7

LEMMA AcceptLinks ==
    ASSUME IInv, LinkInv, RoundInv, Accept PROVE LinkInv' /\ RoundInv'
<1> DEFINE fd == First(FreeFds)
           c  == Head(backlog)
<1>1. /\ pc = "accept" /\ pc' = "name" /\ backlog' = Tail(backlog)
      /\ new_socket' = fd /\ fdtab' = [fdtab EXCEPT ![fd] = c]
      /\ net' = Sent(net, {c}, "server", <<Welcome(Members)>>)
      /\ UNCHANGED <<running, client_sockets, sockset>>
    BY DEF Accept
<1>2. /\ TypeOK /\ net \in NetType /\ backlog # <<>> /\ pc \in Alive
      /\ fdtab \in [Fds -> Clients \cup {NoClient}]
    BY <1>1 DEF Accept, IInv, Ready, TypeOK, ServerTypeOK, Alive, Serving
<1>3. fd \in Fds /\ fdtab[fd] = NoClient
    <2>1. FreeFds \in SUBSET Nat /\ FreeFds # {} BY ChatServerAssumption DEF Accept, FreeFds
    <2>2. fd \in FreeFds BY <2>1, FirstInSet
    <2> QED BY <2>2 DEF FreeFds
<1> HIDE DEF fd, c
<1>4. \A i \in Occupied : client_sockets[i] # fd BY <1>2, <1>3 DEF IInv, Table
<1>5. Occupied' = Occupied /\ \A i \in Occupied : ConnOf(i)' = ConnOf(i)
    <2>1. Occupied' = Occupied BY <1>1 DEF Occupied
    <2>2. \A i \in Occupied : client_sockets[i] \in Fds BY <1>2, TableTypes
    <2> QED BY <1>1, <1>2, <1>4, <2>1, <2>2 DEF ConnOf
<1>6. Members' = Members BY <1>5 DEF Members
<1>7. NetFits(net, net') /\ NetCalm(net, net', Clients)
    <2>1. Welcome(Members) \in Notice
        BY <1>2, MembersType DEF Welcome, Notice, NoticeOf
    <2>2. "server" \in Sides /\ <<Welcome(Members)>> \in Seq(Notice) BY <2>1 DEF Sides
    <2> QED BY <1>1, <1>2, <2>2, SentKeeps
<1>8. LinkInv'
    <2>1. c = fdtab'[new_socket'] BY <1>1, <1>2, <1>3
    <2>2. Queued \subseteq {c} \cup Queued' BY <1>1, <1>2, QueuedSplits DEF c
    <2>3. \A d \in Clients : Known(d) => Known(d)' BY <1>1, <1>6, <2>1, <2>2 DEF Known
    <2>4. pc \in Serving /\ pc' # "start" BY <1>1 DEF Serving
    <2> QED BY <1>7, <2>3, <2>4, LinkKept
<1>9. RoundInv'
    <2>1. new_socket' \notin sockset'
        <3>1. fd # ListenFd BY <1>3, ChatServerAssumption DEF ListenFd
        <3> QED BY <1>1, <1>4, <3>1 DEF RoundInv
    <2>2. ASSUME running, NEW i \in Occupied, client_sockets[i] \in sockset
          PROVE  Readable(SlotEndpoint(i)')
        <3>1. ConnOf(i) \in Clients BY <1>2, TableTypes
        <3>2. Readable(SlotEndpoint(i)) BY <1>1, <2>2 DEF RoundInv, Polled
        <3>3. Calm(net[ConnOf(i)], net'[ConnOf(i)]) BY <1>7, <3>1 DEF NetCalm
        <3> QED BY <1>5, <3>2, <3>3 DEF Calm, SlotEndpoint
    <2> QED BY <1>1, <1>5, <2>1, <2>2 DEF RoundInv, Polled
<1> QED BY <1>8, <1>9

\* A broadcast that kills the server, or its orderly end.
LEMMA GoneKeeps ==
    ASSUME NEW N \in NetType, NEW C, NEW D PROVE NetFits(N, Aborted(Closed(N, C, "server"), D))
<1>1. "server" \in Sides BY DEF Sides
<1>2. Closed(N, C, "server") \in NetType /\ NetFits(N, Closed(N, C, "server"))
    BY <1>1, ClosedType, ClosedKeeps
<1>3. NetFits(Closed(N, C, "server"), Aborted(Closed(N, C, "server"), D)) BY <1>2, AbortedKeeps
<1> QED BY <1>2, <1>3, NetTwice

LEMMA EndLinks ==
    ASSUME LinkInv, NetFits(net, net'), pc' \notin Serving \cup {"start"}
    PROVE  LinkInv' /\ RoundInv'
<1>1. LinkInv' BY LinkKept DEF Serving
<1>2. RoundInv' BY DEF RoundInv, Serving
<1> QED BY <1>1, <1>2

LEMMA KilledLinks ==
    ASSUME LinkInv, NEW N \in NetType, NetFits(net, N), KilledBySigpipe(N)
    PROVE  LinkInv' /\ RoundInv'
<1>1. NetFits(net, net')
    <2>1. NetFits(N, net') BY GoneKeeps DEF KilledBySigpipe, ProcessGone
    <2> QED BY <2>1, NetTwice
<1> QED BY <1>1, EndLinks DEF KilledBySigpipe, Serving

LEMMA RegisterLinks ==
    ASSUME IInv, LinkInv, RoundInv, pc = "name", NEW N \in NetType, NEW name \in Text,
           NetFits(net, N), NetCalm(net, N, Clients \ {fdtab[new_socket]}),
           Register(N, name), running' => running
    PROVE  LinkInv' /\ RoundInv'
<1> DEFINE i  == First(FreeSlots)
           c  == fdtab[new_socket]
           N2 == Broadcast(N, i, Joined(c, name))
<1>1. i \in Slots /\ i \notin Occupied BY FreeSlotExists DEF IInv, Awaiting, FreeSlots
<1>2. new_socket \in Fds /\ c \in Clients /\ pc \in Alive
    BY DEF IInv, Awaiting, TypeOK, ServerTypeOK, Alive, Serving
<1>3. new_socket # NoFd BY <1>2, ChatServerAssumption DEF NoFd
<1>4. N2 \in NetType /\ NetFits(net, N2) /\ NetCalm(net, N2, Clients \ {c})
    <2>1. Joined(c, name) \in Notice BY <1>2 DEF Joined, Notice, NoticeOf
    <2>2. N2 \in NetType /\ NetFits(N, N2) /\ NetCalm(N, N2, Clients)
        BY <2>1, BroadcastType, BroadcastKeeps
    <2>3. NetCalm(N, N2, Clients \ {c}) BY <2>2 DEF NetCalm
    <2> QED BY <2>2, <2>3, NetTwice
<1>5. CASE Fatal(N, i) # {}
    <2>1. KilledBySigpipe(N2) BY <1>5 DEF Register
    <2> QED BY <1>4, <2>1, KilledLinks
<1>6. CASE Fatal(N, i) = {}
    <2>1. /\ client_sockets' = [client_sockets EXCEPT ![i] = new_socket]
          /\ net' = N2 /\ pc' = "clients" /\ slot' = 0
          /\ UNCHANGED <<backlog, sockset, fdtab>>
        BY <1>6 DEF Register
    <2> HIDE DEF i, c, N2
    <2>2. client_sockets \in [Slots -> Fds \cup {NoFd}] BY DEF IInv, TypeOK, ServerTypeOK
    <2>3. /\ Occupied' = Occupied \cup {i} /\ fdtab'[client_sockets'[i]] = c
          /\ \A j \in Occupied : ConnOf(j)' = ConnOf(j) /\ client_sockets'[j] = client_sockets[j]
          /\ client_sockets'[i] = new_socket
        BY <1>1, <1>3, <2>1, <2>2 DEF Occupied, ConnOf, c
    <2>4. Members \cup {c} \subseteq Members' BY <2>3 DEF Members, ConnOf
    <2>5. LinkInv'
        <3>1. Queued' = Queued BY <2>1 DEF Queued
        <3>2. \A d \in Clients : Known(d) => Known(d)' BY <2>4, <3>1 DEF Known, c
        <3>3. pc \in Serving /\ pc' # "start" BY <2>1 DEF Serving
        <3>4. NetFits(net, net') BY <1>4, <2>1
        <3> QED BY <3>2, <3>3, <3>4, LinkKept
    <2>6. RoundInv'
        <3> SUFFICES ASSUME running', NEW j \in Occupied', client_sockets'[j] \in sockset
                     PROVE  Readable(SlotEndpoint(j)')
            BY <2>1 DEF RoundInv, Polled
        <3>1. j \in Occupied BY <2>3 DEF RoundInv
        <3>2. ConnOf(j) \in Clients /\ client_sockets[j] \in Fds /\ j \in Slots
            BY <1>2, <3>1, TableTypes DEF Occupied
        <3>3. Readable(SlotEndpoint(j)) BY <2>3, <3>1 DEF RoundInv, Polled
        <3>4. ConnOf(j) # c
            <4>1. client_sockets[j] # new_socket BY <3>2 DEF IInv, Awaiting
            <4>2. fdtab[client_sockets[j]] # NoClient BY <1>2, <3>1 DEF IInv, Table
            <4> QED BY <1>2, <3>2, <4>1, <4>2 DEF IInv, OneConnection, ConnOf, c
        <3>5. Calm(net[ConnOf(j)], net'[ConnOf(j)]) BY <1>4, <2>1, <3>2, <3>4 DEF NetCalm
        <3> QED BY <2>3, <3>1, <3>3, <3>5 DEF Calm, SlotEndpoint
    <2> QED BY <2>5, <2>6
<1> QED BY <1>5, <1>6

LEMMA RecvNameLinks ==
    ASSUME IInv, LinkInv, RoundInv, RecvName \/ RecvNameFails \/ InterruptRecvName
    PROVE  LinkInv' /\ RoundInv'
<1> DEFINE c == fdtab[new_socket]
<1>1. pc = "name" BY DEF RecvName, RecvNameFails, InterruptRecvName
<1>2. c \in Clients /\ net \in NetType /\ inbuf \in Text /\ "server" \in Sides
    BY <1>1 DEF IInv, Awaiting, TypeOK, ServerTypeOK, Sides
<1>3. CASE RecvName
    <2>1. PICK n \in 1 .. RecvCap :
             /\ n <= Len(NameEndpoint.inq)
             /\ Register(Took(net, c, "server", n), Received(NameEndpoint, n))
        BY <1>3 DEF RecvName
    <2>2. n \in Nat BY ChatServerAssumption DEF RecvCap
    <2>3. Took(net, c, "server", n) \in NetType
        BY <2>1, <2>2, <1>2, TookServerType DEF NameEndpoint
    <2>4. /\ NetFits(net, Took(net, c, "server", n))
          /\ NetCalm(net, Took(net, c, "server", n), Clients \ {c})
        BY <1>2, TookKeeps
    <2>5. Received(NameEndpoint, n) \in Text
        BY <2>1, <1>2, ReceivedType DEF NameEndpoint
    <2>6. running' => running BY <1>3 DEF RecvName
    <2> QED BY <2>1, <2>3, <2>4, <2>5, <2>6, <1>1, RegisterLinks
<1>4. CASE RecvNameFails
    <2>1. net[c]["server"].link = "reset" BY <1>4 DEF RecvNameFails, AtReset, NameEndpoint
    <2>2. Reported(net, c, "server") \in NetType BY <1>2, ReportedType
    <2>3. NetFits(net, Reported(net, c, "server")) /\ NetCalm(net, Reported(net, c, "server"), Clients)
        BY <1>2, <2>1, ReportedKeeps
    <2>4. NetCalm(net, Reported(net, c, "server"), Clients \ {c}) BY <2>3 DEF NetCalm
    <2> QED BY <1>1, <1>2, <1>4, <2>2, <2>3, <2>4, RegisterLinks DEF RecvNameFails
<1>5. CASE InterruptRecvName
    <2>1. NetFits(net, net) /\ NetCalm(net, net, Clients \ {c}) BY NetSame
    <2> QED BY <1>1, <1>2, <1>5, <2>1, RegisterLinks DEF InterruptRecvName
<1> QED BY <1>3, <1>4, <1>5

\* A step of the loop on slot i that leaves the table as it is.
LEMMA SlotLinks ==
    ASSUME IInv, LinkInv, RoundInv, pc = "clients", NEW i \in Occupied, slot <= i,
           NetFits(net, net'), NetCalm(net, net', Clients \ {ConnOf(i)}), Handled(i),
           UNCHANGED <<running, backlog, listening, fdtab, client_sockets>>
    PROVE  LinkInv' /\ RoundInv'
<1>1. slot' = i + 1 /\ pc' = pc /\ UNCHANGED <<sockset, new_socket>> /\ Queued' = Queued
    BY DEF Handled, Queued
<1>2. Members' = Members /\ Occupied' = Occupied /\ \A j \in Slots : ConnOf(j)' = ConnOf(j)
    BY MembersKept
<1>3. LinkInv'
    <2>1. \A d \in Clients : Known(d) => Known(d)' BY <1>1, <1>2 DEF Known
    <2> QED BY <1>1, <2>1, LinkKept
<1>4. RoundInv'
    <2> SUFFICES ASSUME running, NEW j \in Occupied, client_sockets[j] \in sockset, j >= i + 1
                 PROVE  Readable(SlotEndpoint(j)')
        BY <1>1, <1>2 DEF RoundInv, Polled
    <2>1. i \in Int /\ j \in Int /\ slot \in Int /\ j \in Slots
        BY ChatServerAssumption DEF Occupied, Slots, IInv, TypeOK, ServerTypeOK
    <2>2. Readable(SlotEndpoint(j)) BY <2>1 DEF RoundInv, Polled
    <2>3. ConnOf(j) \in Clients /\ ConnOf(j) # ConnOf(i)
        BY <2>1, TableTypes, ConnsDiffer DEF Alive, Serving
    <2>4. Calm(net[ConnOf(j)], net'[ConnOf(j)]) BY <2>3 DEF NetCalm
    <2> QED BY <1>2, <2>1, <2>2, <2>4 DEF Calm, SlotEndpoint
<1> QED BY <1>3, <1>4

LEMMA RelayLinks ==
    ASSUME IInv, LinkInv, RoundInv, pc = "clients", NEW i \in Occupied, slot <= i,
           NEW N \in NetType, NetFits(net, N), NetCalm(net, N, Clients \ {ConnOf(i)}),
           NEW text \in Text, Relay(i, N, text), UNCHANGED running
    PROVE  LinkInv' /\ RoundInv'
<1> DEFINE N2 == Broadcast(N, i, Said(ConnOf(i), usernames[i], text))
<1>1. NetFits(net, N2) /\ NetCalm(net, N2, Clients \ {ConnOf(i)})
    <2>1. ConnOf(i) \in Clients /\ usernames[i] \in Text BY TableTypes DEF Alive, Serving
    <2>2. Said(ConnOf(i), usernames[i], text) \in Notice BY <2>1 DEF Said, Notice, NoticeOf
    <2>3. NetFits(N, N2) /\ NetCalm(N, N2, Clients) BY <2>2, BroadcastKeeps
    <2>4. NetCalm(N, N2, Clients \ {ConnOf(i)}) BY <2>3 DEF NetCalm
    <2> QED BY <2>3, <2>4, NetTwice
<1>2. CASE Fatal(N, i) # {}
    <2>1. KilledBySigpipe(N2) BY <1>2 DEF Relay
    <2>2. N2 \in NetType
        <3>1. ConnOf(i) \in Clients /\ usernames[i] \in Text BY TableTypes DEF Alive, Serving
        <3>2. Said(ConnOf(i), usernames[i], text) \in Notice BY <3>1 DEF Said, Notice, NoticeOf
        <3> QED BY <3>2, BroadcastType
    <2> HIDE DEF N2
    <2> QED BY <1>1, <2>1, <2>2, KilledLinks
<1>3. CASE Fatal(N, i) = {}
    <2>1. /\ net' = N2 /\ Handled(i) /\ UNCHANGED <<backlog, listening, fdtab, client_sockets>>
        BY <1>3 DEF Relay
    <2> HIDE DEF N2
    <2> QED BY <1>1, <2>1, SlotLinks
<1> QED BY <1>2, <1>3

LEMMA DisconnectLinks ==
    ASSUME IInv, LinkInv, RoundInv, pc = "clients", NEW i \in Occupied, slot <= i,
           NEW N \in NetType, NetFits(net, N), NetCalm(net, N, Clients \ {ConnOf(i)}),
           Disconnect(i, N), UNCHANGED running
    PROVE  LinkInv' /\ RoundInv'
<1> DEFINE fd == client_sockets[i]
           c  == ConnOf(i)
           N2 == Broadcast(N, i, Left(c, usernames[i]))
<1>1. fd \in Fds /\ c \in Clients /\ usernames[i] \in Text /\ pc \in Alive
    BY TableTypes DEF Alive, Serving
<1>2. i \in Slots /\ fd # NoFd BY DEF Occupied
<1>3. N2 \in NetType /\ NetFits(net, N2) /\ NetCalm(net, N2, Clients \ {c})
    <2>1. Left(c, usernames[i]) \in Notice BY <1>1 DEF Left, Notice, NoticeOf
    <2>2. N2 \in NetType /\ NetFits(N, N2) /\ NetCalm(N, N2, Clients)
        BY <2>1, BroadcastType, BroadcastKeeps
    <2>3. NetCalm(N, N2, Clients \ {c}) BY <2>2 DEF NetCalm
    <2> QED BY <2>2, <2>3, NetTwice
<1>4. CASE Fatal(N, i) # {}
    <2>1. KilledBySigpipe(N2) BY <1>4 DEF Disconnect
    <2> HIDE DEF N2
    <2> QED BY <1>3, <2>1, KilledLinks
<1>5. CASE Fatal(N, i) = {}
    <2>1. /\ net' = Closed(N2, {c}, "server")
          /\ fdtab' = [fdtab EXCEPT ![fd] = NoClient]
          /\ client_sockets' = [client_sockets EXCEPT ![i] = NoFd]
          /\ slot' = i + 1
          /\ UNCHANGED <<backlog, listening, pc, sockset, new_socket>>
        BY <1>5 DEF Disconnect, Released, Handled
    <2> HIDE DEF fd, c, N2
    <2>2. /\ client_sockets \in [Slots -> Fds \cup {NoFd}]
          /\ fdtab \in [Fds -> Clients \cup {NoClient}]
        BY DEF IInv, TypeOK, ServerTypeOK
    <2>3. NetFits(net, net') /\ NetCalm(net, net', Clients \ {c}) /\ net'[c]["client"].link # "up"
        <3>1. "server" \in Sides BY DEF Sides
        <3>2. /\ NetFits(N2, net') /\ NetCalm(N2, net', Clients \ {c})
              /\ net'[c]["client"].link # "up"
            BY <1>1, <1>3, <2>1, <3>1, ClosedKeeps
        <3> QED BY <1>3, <3>2, NetTwice
    <2>4. Occupied' = Occupied \ {i} BY <1>2, <2>1, <2>2 DEF Occupied
    <2>5. \A j \in Occupied \ {i} : /\ ConnOf(j) \in Clients /\ ConnOf(j) # c
                                    /\ client_sockets'[j] = client_sockets[j]
                                    /\ ConnOf(j)' = ConnOf(j)
        <3> TAKE j \in Occupied \ {i}
        <3>1. j \in Slots /\ client_sockets[j] \in Fds /\ ConnOf(j) \in Clients
            BY <1>1, TableTypes DEF Occupied
        <3>2. ConnOf(j) # c BY <1>1, ConnsDiffer DEF c
        <3>3. client_sockets'[j] = client_sockets[j] BY <2>1, <2>2, <3>1
        <3>4. client_sockets[j] # fd BY <3>2 DEF ConnOf, c, fd
        <3> QED BY <2>1, <2>2, <3>1, <3>2, <3>3, <3>4 DEF ConnOf
    <2>6. Members \subseteq Members' \cup {c} BY <2>4, <2>5 DEF Members, c
    <2>7. LinkInv'
        <3>1. Queued' = Queued BY <2>1 DEF Queued
        <3>2. \A d \in Clients : Known(d) /\ Own(d)'.link = "up" => Known(d)'
            BY <2>1, <2>3, <2>6, <3>1 DEF Known, Own
        <3> QED BY <2>1, <2>3, <3>2, LinkKept
    <2>8. RoundInv'
        <3> SUFFICES ASSUME running, NEW j \in Occupied', client_sockets'[j] \in sockset, j >= i + 1
                     PROVE  Readable(SlotEndpoint(j)')
            BY <2>1 DEF RoundInv, Polled
        <3>1. j \in Occupied \ {i} /\ j \in Slots BY <2>4 DEF Occupied
        <3>2. i \in Int /\ j \in Int /\ slot \in Int
            BY <1>2, <3>1, ChatServerAssumption DEF Slots, IInv, TypeOK, ServerTypeOK
        <3>3. Readable(SlotEndpoint(j)) BY <2>5, <3>1, <3>2 DEF RoundInv, Polled
        <3>4. Calm(net[ConnOf(j)], net'[ConnOf(j)]) BY <2>3, <2>5, <3>1 DEF NetCalm
        <3> QED BY <2>5, <3>1, <3>3, <3>4 DEF Calm, SlotEndpoint
    <2> QED BY <2>7, <2>8
<1> QED BY <1>4, <1>5

LEMMA HandleClientLinks ==
    ASSUME IInv, LinkInv, RoundInv, HandleClient
    PROVE  LinkInv' /\ RoundInv'
<1> DEFINE i == First(Pending)
           c == ConnOf(i)
<1>1. pc = "clients" /\ UNCHANGED running /\ (HandleData(i) \/ HandleEof(i) \/ HandleReset(i))
    BY DEF HandleClient
<1>2. i \in Occupied /\ slot <= i
    <2>1. Pending \in SUBSET Nat BY DEF Pending, Occupied, Slots
    <2>2. i \in Pending BY <2>1, FirstInSet DEF HandleClient
    <2>3. i \in Int /\ slot \in Int
        BY <2>2, ChatServerAssumption DEF Pending, Occupied, Slots, IInv, TypeOK, ServerTypeOK
    <2> QED BY <2>2, <2>3 DEF Pending
<1>3. c \in Clients BY <1>1, <1>2, TableTypes DEF Alive, Serving
<1>4. net \in NetType /\ "server" \in Sides BY DEF IInv, TypeOK, Sides
<1> HIDE DEF i
<1>5. CASE HandleData(i)
    <2>1. PICK n \in 1 .. RecvCap :
             LET text == Received(SlotEndpoint(i), n)
                 N    == Took(net, c, "server", n)
             IN  /\ n <= Len(SlotEndpoint(i).inq)
                 /\ IF IsBye(text) THEN Disconnect(i, N) ELSE Relay(i, N, text)
        BY <1>5 DEF HandleData
    <2>2. n \in Nat BY ChatServerAssumption DEF RecvCap
    <2>3. /\ Took(net, c, "server", n) \in NetType
          /\ NetFits(net, Took(net, c, "server", n))
          /\ NetCalm(net, Took(net, c, "server", n), Clients \ {c})
        BY <2>1, <2>2, <1>3, <1>4, TookServerType, TookKeeps DEF SlotEndpoint
    <2>4. Received(SlotEndpoint(i), n) \in Text
        BY <2>1, <1>3, <1>4, ReceivedType DEF SlotEndpoint
    <2> QED BY <2>1, <2>3, <2>4, <1>1, <1>2, DisconnectLinks, RelayLinks
<1>6. CASE HandleEof(i)
    <2>1. NetFits(net, net) /\ NetCalm(net, net, Clients \ {c}) BY NetSame
    <2> QED BY <1>1, <1>2, <1>4, <1>6, <2>1, DisconnectLinks DEF HandleEof
<1>7. CASE HandleReset(i)
    <2>1. /\ net[c]["server"].link = "reset" /\ net' = Reported(net, c, "server") /\ Handled(i)
          /\ UNCHANGED <<backlog, listening, fdtab, client_sockets>>
        BY <1>7 DEF HandleReset, AtReset, SlotEndpoint
    <2>2. NetFits(net, net') /\ NetCalm(net, net', Clients) BY <1>3, <1>4, <2>1, ReportedKeeps
    <2>3. NetCalm(net, net', Clients \ {c}) BY <2>2 DEF NetCalm
    <2> QED BY <1>1, <1>2, <2>1, <2>2, <2>3, SlotLinks
<1> QED BY <1>1, <1>5, <1>6, <1>7

LEMMA ClosingLinks ==
    ASSUME IInv, LinkInv, SayGoodbye \/ CloseSockets \/ Return
    PROVE  LinkInv' /\ RoundInv'
<1>1. net \in NetType BY DEF IInv, TypeOK
<1>2. CASE SayGoodbye
    <2> DEFINE N == Broadcast(net, NoFd, Goodbye)
    <2>1. N \in NetType /\ NetFits(net, N)
        <3>1. Goodbye \in Notice BY DEF Goodbye, Notice, NoticeOf
        <3> QED BY <1>1, <3>1, BroadcastType, BroadcastKeeps
    <2>2. KilledBySigpipe(N) \/ (net' = N /\ pc' = "closing") BY <1>2 DEF SayGoodbye
    <2> HIDE DEF N
    <2> QED BY <2>1, <2>2, KilledLinks, EndLinks DEF Serving
<1>3. CASE CloseSockets
    <2>1. NetFits(net, net') /\ pc' = "returning" BY <1>1, <1>3, GoneKeeps DEF CloseSockets
    <2> QED BY <2>1, EndLinks DEF Serving
<1>4. CASE Return
    <2>1. NetFits(net, net') /\ pc' = "exited" BY <1>1, <1>4, GoneKeeps DEF Return, ProcessGone
    <2> QED BY <2>1, EndLinks DEF Serving
<1> QED BY <1>2, <1>3, <1>4

\* A step of the network, or of a client that does not connect.
LEMMA ElsewhereLinks ==
    ASSUME IInv, LinkInv, RoundInv, UNCHANGED <<serverVars, backlog, listening>>,
           NetFits(net, net'), NetCalm(net, net', Clients)
    PROVE  LinkInv' /\ RoundInv'
<1> USE DEF serverVars
<1>1. Members' = Members /\ Occupied' = Occupied /\ \A j \in Slots : ConnOf(j)' = ConnOf(j)
    BY MembersKept
<1>2. LinkInv'
    <2>1. Queued' = Queued BY DEF Queued
    <2>2. \A d \in Clients : Known(d) => Known(d)' BY <1>1, <2>1 DEF Known
    <2> QED BY <2>2, LinkKept
<1>3. RoundInv'
    <2>1. ASSUME pc \in {"accept", "name", "clients"}, running, NEW i \in Occupied, Polled(i)
          PROVE  Readable(SlotEndpoint(i)')
        <3>1. ConnOf(i) \in Clients /\ i \in Slots BY <2>1, TableTypes DEF Alive, Serving, Occupied
        <3>2. Readable(SlotEndpoint(i)) BY <2>1 DEF RoundInv
        <3>3. Calm(net[ConnOf(i)], net'[ConnOf(i)]) BY <3>1 DEF NetCalm
        <3> QED BY <1>1, <3>1, <3>2, <3>3 DEF Calm, SlotEndpoint
    <2> QED BY <1>1, <2>1 DEF RoundInv, Polled
<1> QED BY <1>2, <1>3

LEMMA ResetLinks ==
    ASSUME IInv, LinkInv, RoundInv, NEW c \in Clients, NEW s \in Sides, ResetAt(c, s)
    PROVE  LinkInv' /\ RoundInv'
<1> DEFINE dead == IF net[c][s].link = "aborting" THEN "reset" ELSE "dead"
<1>1. /\ net[c][s].link \in {"aborting", "probed"} /\ net' = [net EXCEPT ![c][s].link = dead]
      /\ UNCHANGED <<backlog, listening, serverVars>>
    BY DEF ResetAt, ResetArrives, AwaitsReset
<1>2. \A d \in Clients \ {c} : net'[d] = net[d]
    BY <1>1 DEF IInv, TypeOK, NetType
<1>3. /\ net'[c]["server"].inq = net[c]["server"].inq
      /\ \A t \in Sides : net'[c][t].link = IF t = s THEN dead ELSE net[c][t].link
    <2>1. net[c] \in ConnType /\ net \in NetType BY DEF IInv, TypeOK, NetType
    <2> HIDE DEF dead
    <2>2. CASE s = "client" BY <1>1, <2>1, <2>2 DEF NetType, ConnType, Sides
    <2>3. CASE s = "server" BY <1>1, <2>1, <2>3 DEF NetType, ConnType, Sides
    <2> QED BY <2>2, <2>3 DEF Sides
<1>4. Fits(net[c], net'[c]) /\ Calm(net[c], net'[c])
    BY <1>1, <1>3 DEF Fits, Linked, Calm, Readable, HasData, AtEof, AtReset, Sides
<1>5. NetFits(net, net') BY <1>2, <1>4 DEF NetFits, Fits
<1>6. NetCalm(net, net', Clients) BY <1>2, <1>4 DEF NetCalm, Calm
<1> QED BY <1>1, <1>5, <1>6, ElsewhereLinks

LEMMA ConnectLinks ==
    ASSUME IInv, LinkInv, RoundInv, NEW c \in Clients, Connect(c), UNCHANGED serverVars
    PROVE  LinkInv' /\ RoundInv'
<1>1. CASE ~ listening
    <2>1. UNCHANGED <<net, backlog, listening>> BY <1>1 DEF Connect
    <2> QED BY <2>1, NetSame, ElsewhereLinks
<1>2. CASE listening
    <2>1. /\ net' = Opened(net, c) /\ backlog' = Append(backlog, c) /\ cpc[c] = "connect"
          /\ UNCHANGED <<listening, serverVars>>
        BY <1>2 DEF Connect
    <2>2. /\ \A d \in Clients \ {c} : net'[d] = net[d]
          /\ Linked(net'[c])
        BY <2>1 DEF Opened, IInv, TypeOK, NetType, Linked, Sides, Fresh
    <2>3. Queued' = Queued \cup {c}
        <3>1. /\ DOMAIN backlog' = 1 .. Len(backlog) + 1
              /\ backlog'[Len(backlog) + 1] = c
              /\ \A k \in DOMAIN backlog : backlog'[k] = backlog[k]
              /\ DOMAIN backlog = 1 .. Len(backlog) /\ Len(backlog) \in Nat
            BY <2>1 DEF IInv, TypeOK
        <3> QED BY <3>1 DEF Queued
    <2>4. Members' = Members /\ Occupied' = Occupied /\ \A j \in Slots : ConnOf(j)' = ConnOf(j)
        BY <2>1, MembersKept DEF serverVars
    <2>5. UNCHANGED <<pc, running, sockset, slot, new_socket, fdtab, client_sockets>>
        BY <2>1 DEF serverVars
    <2>6. Pairs' BY <2>2 DEF LinkInv, Pairs
    <2>7. Early' BY <1>2, <2>5 DEF LinkInv, Early
    <2>8. NobodyForgotten'
        BY <2>2, <2>3, <2>4, <2>5 DEF LinkInv, NobodyForgotten, Own
    <2>9. RoundInv'
        <3>1. ASSUME pc \in {"accept", "name", "clients"}, running, NEW i \in Occupied, Polled(i)
              PROVE  Readable(SlotEndpoint(i)')
            <4>1. ConnOf(i) \in Clients /\ i \in Slots /\ client_sockets[i] \in Fds
                BY <3>1, TableTypes DEF Alive, Serving, Occupied
            <4>2. ConnOf(i) # c BY <2>1, <4>1 DEF IInv, OneConnection, ConnOf
            <4> QED BY <2>2, <2>4, <3>1, <4>1, <4>2 DEF RoundInv, SlotEndpoint
        <3> QED BY <2>4, <2>5, <3>1 DEF RoundInv, Polled
    <2> QED BY <2>6, <2>7, <2>8, <2>9 DEF LinkInv
<1> QED BY <1>1, <1>2

\* What a client's own calls do to its connection.
Mild == NetFits(net, net') /\ NetCalm(net, net', Clients)

LEMMA ClientCalls ==
    ASSUME IInv, NEW c \in Clients
    PROVE  /\ net' = net => Mild
           /\ \A N \in NetType : NetFits(net, N) /\ NetCalm(net, N, Clients) =>
                 (net' = Closed(N, {c}, "client") => Mild)
           /\ net' = Closed(net, {c}, "client") => Mild
           /\ \A n : net' = Took(net, c, "client", n) => Mild
           /\ \A text \in Text : net' = Sent(net, {c}, "client", text) => Mild
           /\ net[c]["client"].link = "reset" /\ net' = Reported(net, c, "client") => Mild
<1>1. net \in NetType /\ "client" \in Sides BY DEF IInv, TypeOK, Sides
<1>2. \A N \in NetType : NetFits(net, N) /\ NetCalm(net, N, Clients) =>
         (net' = Closed(N, {c}, "client") => Mild)
    <2> TAKE N \in NetType
    <2>1. NetFits(N, Closed(N, {c}, "client")) /\ NetCalm(N, Closed(N, {c}, "client"), Clients)
        BY <1>1, ClosedKeeps
    <2> QED BY <2>1, NetTwice DEF Mild
<1>3. NetFits(net, net) /\ NetCalm(net, net, Clients) BY NetSame
<1>4. \A n : net' = Took(net, c, "client", n) => Mild BY <1>1, TookKeeps DEF Mild
<1>5. \A text \in Text : net' = Sent(net, {c}, "client", text) => Mild
    BY <1>1, SentKeeps DEF Mild
<1>6. net[c]["client"].link = "reset" /\ net' = Reported(net, c, "client") => Mild
    BY <1>1, ReportedKeeps DEF Mild
<1> QED BY <1>1, <1>2, <1>3, <1>4, <1>5, <1>6 DEF Mild

LEMMA ClientLinks ==
    ASSUME IInv, LinkInv, RoundInv, NEW c \in Clients, UNCHANGED serverVars,
           \/ ReceiveWelcome(c) \/ SendName(c) \/ SelectIncoming(c) \/ SendLine(c) \/ Incoming(c)
           \/ Prompt(c) \/ SelectTyped(c) \/ IgnoreLine(c) \/ Kill(c)
    PROVE  LinkInv' /\ RoundInv'
<1>1. UNCHANGED <<backlog, listening>>
    BY DEF ReceiveWelcome, SendName, SelectIncoming, SendLine, Incoming, Prompt, SelectTyped,
           IgnoreLine, Kill, tcpVars
<1>2. username[c] \in Text /\ Lines \subseteq Text /\ Bye \in Text
    BY ChatClientAssumption, ChatTextAssumption DEF IInv, TypeOK, ClientTypeOK, Text
<1>3. CASE Prompt(c) \/ SelectTyped(c) \/ IgnoreLine(c) \/ SelectIncoming(c)
    <2>1. net' = net
        BY <1>3 DEF Prompt, SelectTyped, IgnoreLine, SelectIncoming, tcpVars
    <2>2. Mild BY <2>1, ClientCalls
    <2> QED BY <1>1, <2>2, ElsewhereLinks DEF Mild
<1>4. CASE ReceiveWelcome(c) \/ Kill(c)
    <2>1. net' = Closed(net, {c}, "client") \/ \E n : net' = Took(net, c, "client", n)
        BY <1>4 DEF ReceiveWelcome, Kill, Leave
    <2>2. Mild BY <2>1, ClientCalls
    <2> QED BY <1>1, <2>2, ElsewhereLinks DEF Mild
<1>5. CASE SendName(c)
    <2>1. \/ net' = Closed(net, {c}, "client") \/ net' = Sent(net, {c}, "client", username[c])
        BY <1>5 DEF SendName, KilledBySend, Leave, Transmit
    <2>2. Mild BY <1>2, <2>1, ClientCalls
    <2> QED BY <1>1, <2>2, ElsewhereLinks DEF Mild
<1>6. CASE SendLine(c)
    <2>1. \/ net' = Closed(net, {c}, "client")
          \/ net[c]["client"].link = "reset" /\ net' = Reported(net, c, "client")
          \/ \E line \in Lines \cup {Bye} : net' = Sent(net, {c}, "client", line)
          \/ net' = Closed(Sent(net, {c}, "client", Bye), {c}, "client")
        BY <1>6 DEF SendLine, KilledBySend, SendFails, Leave, Transmit, Own
    <2>2. /\ Sent(net, {c}, "client", Bye) \in NetType
          /\ NetFits(net, Sent(net, {c}, "client", Bye))
          /\ NetCalm(net, Sent(net, {c}, "client", Bye), Clients)
        <3>1. net \in NetType /\ "client" \in Sides BY DEF IInv, TypeOK, Sides
        <3> QED BY <1>2, <3>1, SentClientType, SentKeeps
    <2>3. Mild BY <1>2, <2>1, <2>2, ClientCalls
    <2> QED BY <1>1, <2>3, ElsewhereLinks DEF Mild
<1>7. CASE Incoming(c)
    <2>1. \/ \E n \in 1 .. ClientCap :
               /\ n <= Len(Own(c).inq)
               /\ \/ net' = Took(net, c, "client", n)
                  \/ net' = Closed(Took(net, c, "client", n), {c}, "client")
          \/ net' = Closed(net, {c}, "client")
          \/ net[c]["client"].link = "reset" /\ net' = Reported(net, c, "client")
        BY <1>7 DEF Incoming, ConnectionLost, Leave, Own, AtReset
    <2>2. \A n \in 1 .. ClientCap : n <= Len(Own(c).inq) =>
             /\ Took(net, c, "client", n) \in NetType
             /\ NetFits(net, Took(net, c, "client", n))
             /\ NetCalm(net, Took(net, c, "client", n), Clients)
        <3> SUFFICES ASSUME NEW n \in 1 .. ClientCap, n <= Len(Own(c).inq)
                     PROVE  /\ Took(net, c, "client", n) \in NetType
                            /\ NetFits(net, Took(net, c, "client", n))
                            /\ NetCalm(net, Took(net, c, "client", n), Clients)
            OBVIOUS
        <3>1. net \in NetType /\ "client" \in Sides /\ n \in Nat
            BY ChatClientAssumption DEF IInv, TypeOK, Sides
        <3> QED BY <3>1, TookClientType, TookKeeps DEF Own
    <2>3. Mild BY <2>1, <2>2, ClientCalls
    <2> QED BY <1>1, <2>3, ElsewhereLinks DEF Mild
<1> QED BY <1>3, <1>4, <1>5, <1>6, <1>7

LEMMA LinksNext == IInv /\ LinkInv /\ RoundInv /\ [Next]_vars => LinkInv' /\ RoundInv'
<1> SUFFICES ASSUME IInv, LinkInv, RoundInv, [Next]_vars PROVE LinkInv' /\ RoundInv' OBVIOUS
<1>1. CASE ServerStep
    BY <1>1, QuietLinks, RefuseLinks, AcceptLinks, RecvNameLinks, HandleClientLinks, ClosingLinks
    DEF ServerStep, ServerSteps
<1>2. CASE Signal \/ Fault
    BY <1>2, QuietLinks, RecvNameLinks DEF Signal, Sigint, Fault
<1>3. ASSUME NEW c \in Clients, ClientStep(c) \/ UserStep(c) PROVE LinkInv' /\ RoundInv'
    BY <1>3, ConnectLinks, ClientLinks DEF ClientStep, UserStep, ClientSteps, UserSteps
<1>4. ASSUME NEW c \in Clients, NEW s \in Sides, ResetAt(c, s) PROVE LinkInv' /\ RoundInv'
    BY <1>4, ResetLinks
<1>5. CASE UNCHANGED vars
    <2>1. UNCHANGED <<serverVars, net, backlog, listening>> BY <1>5 DEF vars, tcpVars
    <2> QED BY <2>1, NetSame, ElsewhereLinks
<1> QED BY <1>1, <1>2, <1>3, <1>4, <1>5 DEF Next

LEMMA LinksInvariant == Spec => [](LinkInv /\ RoundInv)
<1>1. Init => LinkInv /\ RoundInv
    <2> SUFFICES ASSUME Init PROVE LinkInv /\ RoundInv OBVIOUS
    <2>1. /\ pc = "start" /\ ~ listening
          /\ \A c \in Clients, s \in Sides : net[c][s].link = "closed"
        BY DEF Init, TcpInit, ServerInit, Fresh
    <2> QED BY <2>1 DEF LinkInv, Pairs, Linked, Early, NobodyForgotten, Own, Serving, RoundInv, Sides
<1> QED BY <1>1, LinksNext, Invariance, PTL DEF Spec

\* recv never blocks the loop over the slots: what select reported readable
\* still is when its turn comes, whatever was accepted, closed, sent or lost
\* meanwhile.
THEOREM RecvNeverBlocks == Spec => []NoBlockedRecv
<1>1. RoundInv => NoBlockedRecv
    BY DEF RoundInv, NoBlockedRecv, Pending, Polled
<1> QED BY <1>1, LinksInvariant, PTL

\* The serving server knows every open connection: none is dropped between
\* backlog, descriptor and slot.
THEOREM NobodyDropped == Spec => []NobodyForgotten
<1>1. LinkInv => NobodyForgotten BY DEF LinkInv
<1> QED BY <1>1, LinksInvariant, PTL


(***************************************************************************)
(* FlattenSeq, unfolded: the function it is defined with, up to a bound.   *)
(***************************************************************************)
IsFlat(f, n, Q) ==
    f = [i \in 1 .. n |-> IF i = 1 THEN Q[i] ELSE f[i - 1] \o Q[i]]

LEMMA FlatExists ==
    ASSUME NEW Q, NEW n \in Nat PROVE \E f : IsFlat(f, n, Q)
<1> DEFINE T == {m \in Nat : \E f : IsFlat(f, m, Q)}
<1>1. 0 \in T
    <2> DEFINE f == [i \in 1 .. 0 |-> <<>>]
    <2>1. IsFlat(f, 0, Q) BY DEF IsFlat
    <2> QED BY <2>1
<1>2. ASSUME NEW m \in T PROVE m + 1 \in T
    <2>1. PICK f : IsFlat(f, m, Q) OBVIOUS
    <2> DEFINE last == IF m = 0 THEN Q[1] ELSE f[m] \o Q[m + 1]
               g    == [i \in 1 .. m + 1 |-> IF i <= m THEN f[i] ELSE last]
    <2>2. ASSUME NEW i \in 1 .. m + 1
          PROVE  g[i] = IF i = 1 THEN Q[i] ELSE g[i - 1] \o Q[i]
        <3>1. CASE i = m + 1
            <4>1. g[i] = last BY <3>1
            <4>2. m # 0 => g[m] = f[m] OBVIOUS
            <4> HIDE DEF g
            <4> QED BY <3>1, <4>1, <4>2
        <3>2. CASE i # m + 1
            <4>1. i \in 1 .. m BY <3>2
            <4>2. g[i] = f[i] /\ (i # 1 => g[i - 1] = f[i - 1]) BY <4>1
            <4>3. f[i] = IF i = 1 THEN Q[i] ELSE f[i - 1] \o Q[i]
                BY <2>1, <4>1 DEF IsFlat
            <4> HIDE DEF g
            <4> QED BY <4>2, <4>3
        <3> QED BY <3>1, <3>2
    <2>3. IsFlat(g, m + 1, Q)
        <3>1. g = [i \in 1 .. m + 1 |-> g[i]] OBVIOUS
        <3> HIDE DEF g
        <3> QED BY <2>2, <3>1 DEF IsFlat
    <2> HIDE DEF g
    <2> QED BY <2>3
<1> HIDE DEF T
<1>3. T = Nat BY <1>1, <1>2, Induction DEF T
<1> QED BY <1>3 DEF T

LEMMA FlatAt ==
    ASSUME NEW Q, NEW n \in Nat, NEW f, IsFlat(f, n, Q), NEW m \in Nat, m + 1 <= n
    PROVE  f[m + 1] = IF m = 0 THEN Q[1] ELSE f[m] \o Q[m + 1]
<1> DEFINE h == [i \in 1 .. n |-> IF i = 1 THEN Q[i] ELSE f[i - 1] \o Q[i]]
<1>1. m + 1 \in 1 .. n /\ (m + 1) - 1 = m /\ (m + 1 = 1 <=> m = 0) OBVIOUS
<1>2. h[m + 1] = IF m = 0 THEN Q[1] ELSE f[m] \o Q[m + 1] BY <1>1
<1>3. f = h BY DEF IsFlat
<1> HIDE DEF h
<1> QED BY <1>2, <1>3

AgreeTo(n, Q, R) == \A i \in 1 .. n : Q[i] = R[i]

LEMMA FlatNext ==
    ASSUME NEW Q, NEW n \in Nat, NEW f, IsFlat(f, n, Q), NEW m \in Nat, m # 0, m + 1 <= n
    PROVE  f[m + 1] = f[m] \o Q[m + 1]
BY FlatAt

LEMMA FlatUnique ==
    ASSUME NEW Q, NEW R, NEW n \in Nat, NEW k \in Nat, n <= k,
           NEW f, NEW g, IsFlat(f, n, Q), IsFlat(g, k, R),
           AgreeTo(n, Q, R)
    PROVE  AgreeTo(n, f, g)
<1> USE DEF AgreeTo
<1> DEFINE T == {m \in Nat : m \in 1 .. n => f[m] = g[m]}
<1>1. 0 \in T OBVIOUS
<1>2. ASSUME NEW m \in T PROVE m + 1 \in T
    <2> SUFFICES ASSUME m + 1 \in 1 .. n PROVE f[m + 1] = g[m + 1] OBVIOUS
    <2>1. f[m + 1] = IF m = 0 THEN Q[1] ELSE f[m] \o Q[m + 1] BY FlatAt
    <2>2. m + 1 <= k /\ 1 \in 1 .. n OBVIOUS
    <2>3. g[m + 1] = IF m = 0 THEN R[1] ELSE g[m] \o R[m + 1] BY <2>2, FlatAt
    <2>4. m # 0 => f[m] = g[m] OBVIOUS
    <2> QED BY <2>1, <2>3, <2>4
<1> HIDE DEF T
<1>3. T = Nat BY <1>1, <1>2, Induction DEF T
<1> QED BY <1>3 DEF T

LEMMA FlatType ==
    ASSUME NEW U, NEW Q \in Seq(Seq(U)), NEW f, IsFlat(f, Len(Q), Q)
    PROVE  \A i \in 1 .. Len(Q) : f[i] \in Seq(U)
<1> DEFINE T == {m \in Nat : m \in 1 .. Len(Q) => f[m] \in Seq(U)}
<1>1. 0 \in T OBVIOUS
<1>2. ASSUME NEW m \in T PROVE m + 1 \in T
    <2> SUFFICES ASSUME m + 1 \in 1 .. Len(Q) PROVE f[m + 1] \in Seq(U) OBVIOUS
    <2>1. f[m + 1] = IF m = 0 THEN Q[1] ELSE f[m] \o Q[m + 1] BY FlatAt
    <2>2. Q[m + 1] \in Seq(U) OBVIOUS
    <2>3. m # 0 => f[m] \in Seq(U) OBVIOUS
    <2> QED BY <2>1, <2>2, <2>3
<1> HIDE DEF T
<1>3. T = Nat BY <1>1, <1>2, Induction DEF T
<1> QED BY <1>3 DEF T

LEMMA FlatIs ==
    ASSUME NEW Q, Len(Q) \in Nat \ {0}
    PROVE  \E f : IsFlat(f, Len(Q), Q) /\ FlattenSeq(Q) = f[Len(Q)]
<1> DEFINE flatten == CHOOSE f : IsFlat(f, Len(Q), Q)
<1>1. IsFlat(flatten, Len(Q), Q) BY FlatExists
<1>2. FlattenSeq(Q) = flatten[Len(Q)] BY DEF FlattenSeq, IsFlat
<1> HIDE DEF flatten
<1> QED BY <1>1, <1>2

LEMMA FlatMore ==
    ASSUME NEW U, NEW Q \in Seq(Seq(U)), NEW p \in Seq(U)
    PROVE  /\ FlattenSeq(<<>>) = <<>>
           /\ FlattenSeq(Q) \in Seq(U)
           /\ FlattenSeq(Append(Q, p)) = FlattenSeq(Q) \o p
<1>1. FlattenSeq(<<>>) = <<>> BY DEF FlattenSeq
<1> DEFINE R == Append(Q, p)
<1>2. R \in Seq(Seq(U)) /\ Len(R) = Len(Q) + 1 /\ R[Len(R)] = p /\ Len(Q) \in Nat
      /\ \A i \in 1 .. Len(Q) : R[i] = Q[i]
    OBVIOUS
<1> HIDE DEF R
<1>3. PICK g : IsFlat(g, Len(R), R) /\ FlattenSeq(R) = g[Len(R)] BY <1>2, FlatIs
<1>4. FlattenSeq(Q) \in Seq(U) /\ FlattenSeq(R) = FlattenSeq(Q) \o p
    <2>1. CASE Len(Q) = 0
        <3>1. Q = <<>> BY <2>1
        <3>2. FlattenSeq(Q) = <<>> BY <1>1, <3>1
        <3>3. g[1] = p BY <1>2, <1>3, <2>1, FlatAt
        <3>4. <<>> \o p = p /\ <<>> \in Seq(U) OBVIOUS
        <3>5. FlattenSeq(R) = p BY <1>2, <1>3, <2>1, <3>3
        <3> QED BY <3>2, <3>4, <3>5
    <2>2. CASE Len(Q) # 0
        <3>1. PICK f : IsFlat(f, Len(Q), Q) /\ FlattenSeq(Q) = f[Len(Q)] BY <1>2, <2>2, FlatIs
        <3>2. Len(Q) \in 1 .. Len(Q) BY <1>2, <2>2
        <3>3. AgreeTo(Len(Q), f, g)
            <4>1. Len(Q) <= Len(R) /\ Len(R) \in Nat /\ Len(Q) \in Nat BY <1>2
            <4>2. AgreeTo(Len(Q), Q, R) BY <1>2 DEF AgreeTo
            <4>3. IsFlat(f, Len(Q), Q) /\ IsFlat(g, Len(R), R) BY <1>3, <3>1
            <4> QED BY <4>1, <4>2, <4>3, FlatUnique
        <3>4. g[Len(Q) + 1] = g[Len(Q)] \o R[Len(Q) + 1]
            <4>1. Len(Q) \in Nat /\ Len(R) \in Nat /\ Len(Q) + 1 <= Len(R) BY <1>2
            <4>2. IsFlat(g, Len(R), R) BY <1>3
            <4> QED BY <2>2, <4>1, <4>2, FlatNext
        <3>5. \A i \in 1 .. Len(Q) : f[i] \in Seq(U) BY <3>1, FlatType
        <3>6. FlattenSeq(Q) \in Seq(U) BY <3>1, <3>2, <3>5
        <3>7. f[Len(Q)] = g[Len(Q)] BY <3>2, <3>3 DEF AgreeTo
        <3> QED BY <1>2, <1>3, <3>1, <3>4, <3>6, <3>7
    <2> QED BY <2>1, <2>2
<1> QED BY <1>1, <1>4 DEF R

(***************************************************************************)
(* Texts.                                                                  *)
(***************************************************************************)
LEMMA Cut ==
    ASSUME NEW U, NEW q \in Seq(U), NEW n \in Nat, n <= Len(q)
    PROVE  SubSeq(q, 1, n) \o SubSeq(q, n + 1, Len(q)) = q
<1>1. 1 \in 1 .. Len(q) + 1 /\ n \in 1 - 1 .. Len(q) /\ Len(q) \in n .. Len(q) OBVIOUS
<1>2. SubSeq(q, 1, n) \o SubSeq(q, n + 1, Len(q)) = SubSeq(q, 1, Len(q))
    BY <1>1, ConcatAdjacentSubSeq
<1> QED BY <1>2, SubSeqFull

LEMMA CutMiddle ==
    ASSUME NEW U, NEW a \in Seq(U), NEW q \in Seq(U), NEW n \in Nat, n <= Len(q)
    PROVE  (a \o SubSeq(q, 1, n)) \o SubSeq(q, n + 1, Len(q)) = a \o q
<1> DEFINE b == SubSeq(q, 1, n)
           e == SubSeq(q, n + 1, Len(q))
<1>1. b \o e = q BY Cut
<1>2. a \in Seq(U) /\ b \in Seq(U) /\ e \in Seq(U) OBVIOUS
<1> HIDE DEF b, e
<1>3. (a \o b) \o e = a \o (b \o e) BY ONLY <1>2, ConcatAssociative
<1> QED BY <1>1, <1>3 DEF b, e

LEMMA EndAll ==
    ASSUME NEW U, NEW q \in Seq(U) PROVE IsEnd(q, q)
<1>1. q = SubSeq(q, 0 + 1, Len(q)) /\ 0 \in 0 .. Len(q) OBVIOUS
<1> QED BY <1>1 DEF IsEnd

LEMMA EndMore ==
    ASSUME NEW U, NEW q \in Seq(U), NEW w \in Seq(U), NEW t \in Seq(U), IsEnd(q, w)
    PROVE  IsEnd(q \o t, w \o t)
<1>1. PICK k \in 0 .. Len(w) : q = SubSeq(w, k + 1, Len(w)) BY DEF IsEnd
<1>2. k \in 0 .. Len(w \o t) OBVIOUS
<1>3. q \o t = SubSeq(w \o t, k + 1, Len(w \o t))
    <2> DEFINE v == w \o t
               e == SubSeq(v, k + 1, Len(v))
    <2>1. Len(q) = Len(w) - k /\ \A i \in 1 .. Len(q) : q[i] = w[k + i] BY <1>1
    <2>2. /\ v \in Seq(U) /\ Len(v) = Len(w) + Len(t)
          /\ \A i \in 1 .. Len(v) : v[i] = IF i <= Len(w) THEN w[i] ELSE t[i - Len(w)]
        OBVIOUS
    <2> HIDE DEF v
    <2>3. e \in Seq(U) /\ Len(e) = Len(v) - k /\ \A i \in 1 .. Len(e) : e[i] = v[k + i]
        BY <2>2
    <2>4. /\ q \o t \in Seq(U) /\ Len(q \o t) = Len(q) + Len(t)
          /\ \A i \in 1 .. Len(q) + Len(t) :
                (q \o t)[i] = IF i <= Len(q) THEN q[i] ELSE t[i - Len(q)]
        BY ConcatProperties
    <2> HIDE DEF e
    <2>5. Len(q \o t) = Len(e) BY <2>1, <2>2, <2>3, <2>4
    <2>6. ASSUME NEW i \in 1 .. Len(e) PROVE (q \o t)[i] = e[i]
        <3>1. e[i] = v[k + i] /\ k + i \in 1 .. Len(v) BY <2>2, <2>3
        <3>2. CASE i <= Len(q) BY <2>1, <2>2, <2>4, <2>5, <3>1, <3>2
        <3>3. CASE ~ (i <= Len(q))
            <4>1. i - Len(q) = (k + i) - Len(w) /\ k + i > Len(w) BY <2>1, <3>3
            <4>2. (q \o t)[i] = t[i - Len(q)] BY <2>4, <2>5, <3>3
            <4>3. v[k + i] = t[(k + i) - Len(w)] BY <2>2, <3>1, <4>1
            <4> QED BY <3>1, <4>1, <4>2, <4>3
        <3> QED BY <3>2, <3>3
    <2>7. q \o t = e BY <2>3, <2>4, <2>5, <2>6, SeqEqual
    <2> QED BY <2>7 DEF e, v
<1> QED BY <1>2, <1>3 DEF IsEnd

LEMMA EndCut ==
    ASSUME NEW U, NEW q \in Seq(U), NEW w \in Seq(U), NEW n \in Nat, n <= Len(q), IsEnd(q, w)
    PROVE  IsEnd(SubSeq(q, n + 1, Len(q)), w)
<1>1. PICK k \in 0 .. Len(w) : q = SubSeq(w, k + 1, Len(w)) BY DEF IsEnd
<1>2. Len(q) = Len(w) - k BY <1>1
<1>3. k + n \in 0 .. Len(w) BY <1>2
<1>4. SubSeq(q, n + 1, Len(q)) = SubSeq(w, (k + n) + 1, Len(w)) BY <1>1, <1>2
<1> QED BY <1>3, <1>4 DEF IsEnd

(***************************************************************************)
(* What one more notice adds.                                              *)
(***************************************************************************)
LEMMA ToSetMore ==
    ASSUME NEW S, NEW T \in Seq(S), NEW m \in S
    PROVE  ToSet(T \o <<m>>) = ToSet(T) \cup {m}
<1> DEFINE R == T \o <<m>>
<1>1. /\ DOMAIN T = 1 .. Len(T) /\ DOMAIN R = 1 .. Len(T) + 1 /\ Len(T) \in Nat
      /\ \A i \in 1 .. Len(T) : R[i] = T[i]
      /\ R[Len(T) + 1] = m
    OBVIOUS
<1> HIDE DEF R
<1>2. ToSet(R) = ToSet(T) \cup {m} BY <1>1 DEF ToSet
<1> QED BY <1>2 DEF R

LEMMA WhoMore ==
    ASSUME NEW S, NEW T \in Seq(S), NEW m \in S, NEW kind
    PROVE  WhoOf(T \o <<m>>, kind) =
               WhoOf(T, kind) \cup IF m.kind = kind THEN {m.who} ELSE {}
BY ToSetMore DEF WhoOf

LEMMA JoinedMore ==
    ASSUME NEW S, NEW T \in Seq(S), NEW m \in S, NEW s
    PROVE  JoinedAs(s, T \o <<m>>) =
               JoinedAs(s, T) \cup
               IF m.kind = "joined" /\ m.who = s THEN {m.user} ELSE {}
BY ToSetMore DEF JoinedAs

Words(s, m) == IF m.kind = "said" /\ m.who = s THEN m.text ELSE <<>>

LEMMA SpeechMore ==
    ASSUME NEW T \in Seq(Notice), NEW m \in Notice, NEW s
    PROVE  /\ Speech(s, <<>>) = <<>>
           /\ Speech(s, T) \in Text
           /\ Speech(s, T \o <<m>>) = Speech(s, T) \o Words(s, m)
<1> DEFINE Q(R) == [k \in DOMAIN R |-> Words(s, R[k])]
<1>1. ASSUME NEW R PROVE Speech(s, R) = FlattenSeq(Q(R)) BY DEF Speech, Words
<1>2. ASSUME NEW n \in Notice PROVE Words(s, n) \in Text
    BY DEF Notice, NoticeOf, Words, Text
<1>3. ASSUME NEW R \in Seq(Notice) PROVE Q(R) \in Seq(Text)
    <2>1. DOMAIN R = 1 .. Len(R) /\ Len(R) \in Nat OBVIOUS
    <2>2. \A k \in DOMAIN R : Words(s, R[k]) \in Text BY <1>2
    <2> HIDE DEF Words
    <2> QED BY <2>1, <2>2
<1>4. Q(T \o <<m>>) = Append(Q(T), Words(s, m))
    <2>1. T \o <<m>> \in Seq(Notice) OBVIOUS
    <2>2. /\ DOMAIN T = 1 .. Len(T) /\ DOMAIN (T \o <<m>>) = 1 .. Len(T) + 1 /\ Len(T) \in Nat
          /\ \A i \in 1 .. Len(T) : (T \o <<m>>)[i] = T[i]
          /\ (T \o <<m>>)[Len(T) + 1] = m
        OBVIOUS
    <2> DEFINE R == T \o <<m>>
    <2> HIDE DEF R
    <2>3. Q(T) \in Seq(Text) /\ Len(Q(T)) = Len(T)
        <3>1. Q(T) \in Seq(Text) BY <1>3
        <3>2. DOMAIN Q(T) = 1 .. Len(T) BY <2>2
        <3> HIDE DEF Q
        <3> QED BY <2>2, <3>1, <3>2
    <2>4. Append(Q(T), Words(s, m)) = [k \in 1 .. Len(T) + 1 |-> Append(Q(T), Words(s, m))[k]]
        BY <2>3, <1>2
    <2>5. \A k \in 1 .. Len(T) + 1 : Append(Q(T), Words(s, m))[k] = Words(s, R[k])
        BY <2>2, <2>3 DEF R
    <2>6. Q(R) = Append(Q(T), Words(s, m)) BY <2>2, <2>4, <2>5 DEF R
    <2> QED BY <2>6 DEF R
<1>5. Q(<<>>) = <<>> OBVIOUS
<1> HIDE DEF Q
<1>6. Q(T) \in Seq(Seq(Unit)) /\ Words(s, m) \in Seq(Unit) BY <1>2, <1>3 DEF Text
<1>7. /\ FlattenSeq(<<>>) = <<>> /\ FlattenSeq(Q(T)) \in Seq(Unit)
      /\ FlattenSeq(Append(Q(T), Words(s, m))) = FlattenSeq(Q(T)) \o Words(s, m)
    BY <1>6, FlatMore
<1> QED BY <1>1, <1>4, <1>5, <1>7 DEF Text

(***************************************************************************)
(* The inductive invariant.                                                *)
(***************************************************************************)
Up(c)       == net[c]["server"].link = "up"
Awaited(c)  == pc = "name" /\ c = fdtab[new_socket]
Outside(c)  == cpc[c] \in {"prompt", "connect"}
Newcomer(c) == Outside(c) \/ c \in Queued \/ Awaited(c)
Insider(c)  == c \in Members \/ Awaited(c)

\* Who has not connected yet has neither said nor seen anything.
Blank == \A c \in Clients : Outside(c) => screen[c] = <<>> /\ sent[c] = <<>>

\* Nobody is told anything before accept, and nothing of what somebody sent is
\* read before the user name.
Unheard == \A c \in Clients : c \in Queued /\ Up(c) => Told(c) = <<>>
Unread  == \A c \in Clients :
    (c \in Queued \/ Awaited(c)) /\ Up(c) => net[c]["server"].inq = sent[c]

\* What the server has not read is the end of what was sent.
Ends == \A c \in Clients : Up(c) => IsEnd(net[c]["server"].inq, sent[c])

\* Nobody hears of a newcomer, or that a member left.
Unmentioned(c, notices) ==
    /\ c \notin WhoOf(notices, "joined") \cup WhoOf(notices, "left")
    /\ Speech(c, notices) = <<>>

Notices == \A r, c \in Clients : Up(r) =>
    /\ Newcomer(c) => Unmentioned(c, Told(r))
    /\ c \in Members => c \notin WhoOf(Told(r), "left")

Rosters == \A r \in Clients :
    Insider(r) /\ Up(r) => Roster(Told(r)) = Members \ {r}

Talk(s, r) ==
    /\ IsEnd(Stream(s, r), sent[s])
    /\ \A u \in JoinedAs(s, Told(r)) : sent[s] = u \o Stream(s, r)

Talks == running =>
    \A r, s \in Clients :
        Insider(r) /\ Up(r) /\ s \in Members /\ Up(s) /\ r # s => Talk(s, r)

RoomInv ==
    /\ Blank
    /\ pc \in Alive => Unheard /\ Unread /\ Ends /\ Notices /\ Rosters /\ Talks

(***************************************************************************)
(* Steps that tell nobody anything.                                        *)
(***************************************************************************)
LEMMA RoomTypes ==
    ASSUME TypeOK, NEW c \in Clients
    PROVE  /\ net \in NetType /\ net[c] \in ConnType
           /\ sent[c] \in Text /\ screen[c] \in Seq(Notice)
           /\ Own(c).inq \in Seq(Notice) /\ net[c]["server"].inq \in Text
           /\ Told(c) \in Seq(Notice)
<1>1. net \in NetType /\ net[c] \in ConnType BY DEF TypeOK, NetType
<1>2. sent[c] \in Text /\ screen[c] \in Seq(Notice) BY DEF TypeOK, ClientTypeOK
<1>3. Own(c).inq \in Seq(Notice) /\ net[c]["server"].inq \in Text
    BY <1>1 DEF ConnType, Own
<1>4. Told(c) \in Seq(Notice) BY <1>2, <1>3 DEF Told
<1> QED BY <1>1, <1>2, <1>3, <1>4

LEMMA JoinedType ==
    ASSUME NEW T \in Seq(Notice), NEW s
    PROVE  JoinedAs(s, T) \in SUBSET Text
<1>1. ToSet(T) \subseteq Notice BY DEF ToSet
<1>2. \A m \in Notice : m.kind = "joined" => m.user \in Text
    BY DEF Notice, NoticeOf
<1> QED BY <1>1, <1>2 DEF JoinedAs

\* What becomes of c's words: they stay where they are, or there are more.
Kept(c)  == net'[c]["server"].inq = net[c]["server"].inq /\ sent'[c] = sent[c]
Typed(c) == \E t \in Text : /\ net'[c]["server"].inq = net[c]["server"].inq \o t
                            /\ sent'[c] = sent[c] \o t

\* The connections that stay up carry what they carried.
Silent == \A c \in Clients :
    Up(c)' => Up(c) /\ Told(c)' = Told(c) /\ (Kept(c) \/ Typed(c))

\* Nobody moves, except out.
Settled ==
    /\ pc \in Alive /\ (running' => running) /\ Members' = Members
    /\ Queued' \subseteq Queued
    /\ \A c \in Clients : /\ Outside(c)' => Outside(c)
                          /\ Awaited(c)' => Awaited(c)

LEMMA TalkOn ==
    ASSUME TypeOK, NEW r \in Clients, NEW s \in Clients, Talk(s, r),
           Told(r)' = Told(r), Kept(s) \/ Typed(s)
    PROVE  Talk(s, r)'
<1> DEFINE w == Stream(s, r)
<1>1. sent[s] \in Text /\ net[s]["server"].inq \in Text /\ Told(r) \in Seq(Notice)
    BY RoomTypes
<1>2. Speech(s, Told(r)) \in Text
    <2>1. Goodbye \in Notice BY DEF Goodbye, Notice, NoticeOf
    <2> QED BY <1>1, <2>1, SpeechMore
<1>3. w \in Text BY <1>1, <1>2 DEF Stream, Text
<1>4. CASE Kept(s)
    <2>1. Stream(s, r)' = w /\ sent'[s] = sent[s] BY <1>4 DEF Kept, Stream
    <2> QED BY <2>1 DEF Talk
<1>5. CASE Typed(s)
    <2>1. PICK t \in Text : /\ net'[s]["server"].inq = net[s]["server"].inq \o t
                            /\ sent'[s] = sent[s] \o t
        BY <1>5 DEF Typed
    <2>2. Stream(s, r)' = w \o t
        <3>1. Stream(s, r)' = Speech(s, Told(r)) \o (net[s]["server"].inq \o t)
            BY <2>1 DEF Stream
        <3> DEFINE a == Speech(s, Told(r))
                   b == net[s]["server"].inq
        <3>2. a \in Seq(Unit) /\ b \in Seq(Unit) /\ t \in Seq(Unit)
            BY <1>1, <1>2, <2>1 DEF Text
        <3>3. w = a \o b BY DEF Stream
        <3> HIDE DEF a, b, w
        <3>4. (a \o b) \o t = a \o (b \o t) BY <3>2, ConcatAssociative
        <3> QED BY <3>1, <3>3, <3>4 DEF a, b
    <2>3. IsEnd(w, sent[s]) BY DEF Talk
    <2> HIDE DEF w
    <2>4. IsEnd(w \o t, sent[s] \o t) BY <1>1, <1>3, <2>1, <2>3, EndMore DEF Text
    <2>5. ASSUME NEW u \in JoinedAs(s, Told(r)) PROVE sent[s] \o t = u \o (w \o t)
        <3>1. sent[s] = u \o w BY <2>5 DEF Talk, w
        <3>2. u \in Text BY <1>1, <2>5, JoinedType
        <3> QED BY <1>3, <2>1, <3>1, <3>2, ConcatAssociative DEF Text
    <2> QED BY <2>1, <2>2, <2>4, <2>5 DEF Talk
<1> QED BY <1>4, <1>5

LEMMA RoomKept ==
    ASSUME TypeOK, RoomInv, Blank', pc' \in Alive => Settled /\ Silent
    PROVE  RoomInv'
<1> SUFFICES ASSUME pc' \in Alive
             PROVE  Unheard' /\ Unread' /\ Ends' /\ Notices' /\ Rosters' /\ Talks'
    BY DEF RoomInv
<1>1. Settled /\ Silent OBVIOUS
<1>2. Unheard /\ Unread /\ Ends /\ Notices /\ Rosters /\ Talks BY <1>1 DEF RoomInv, Settled
<1>3. \A c \in Clients : /\ Newcomer(c)' => Newcomer(c)
                         /\ Insider(c)' => Insider(c)
    BY <1>1 DEF Settled, Newcomer, Insider
<1>4. Unheard' BY <1>1, <1>2 DEF Unheard, Settled, Silent
<1>5. Unread'
    BY <1>1, <1>2 DEF Unread, Settled, Silent, Kept, Typed
<1>6. Ends'
    <2> SUFFICES ASSUME NEW c \in Clients, Up(c)'
                 PROVE  IsEnd(net'[c]["server"].inq, sent'[c])
        BY DEF Ends
    <2>1. Up(c) /\ IsEnd(net[c]["server"].inq, sent[c]) BY <1>1, <1>2 DEF Ends, Silent
    <2>2. sent[c] \in Text /\ net[c]["server"].inq \in Text BY RoomTypes
    <2>3. CASE Kept(c) BY <2>1, <2>3 DEF Kept
    <2>4. CASE Typed(c) BY <2>1, <2>2, <2>4, EndMore DEF Typed, Text
    <2> QED BY <1>1, <2>3, <2>4 DEF Silent
<1>7. Notices'
    BY <1>1, <1>2, <1>3 DEF Notices, Settled, Silent, Unmentioned
<1>8. Rosters' BY <1>1, <1>2, <1>3 DEF Rosters, Settled, Silent
<1>9. Talks'
    <2> SUFFICES ASSUME running', NEW r \in Clients, NEW s \in Clients,
                        Insider(r)', Up(r)', s \in Members', Up(s)', r # s
                 PROVE  Talk(s, r)'
        BY DEF Talks
    <2>1. Talk(s, r) BY <1>1, <1>2, <1>3 DEF Talks, Settled, Silent
    <2>2. Told(r)' = Told(r) /\ (Kept(s) \/ Typed(s)) BY <1>1 DEF Silent
    <2> QED BY <2>1, <2>2, TalkOn
<1> QED BY <1>4, <1>5, <1>6, <1>7, <1>8, <1>9

\* What a step does to one connection that neither sends nor receives.
Carries(n, m) ==
    m["server"].link = "up" => /\ n["server"].link = "up"
                               /\ m["client"].inq = n["client"].inq
                               /\ m["server"].inq = n["server"].inq
NetCarries(N, M) == \A c \in Clients : Carries(N[c], M[c])

LEMMA CarriesSilent ==
    ASSUME NetCarries(net, net'), UNCHANGED <<screen, sent>>
    PROVE  Silent
BY DEF NetCarries, Carries, Silent, Up, Told, Own, Kept

LEMMA ClosedCarries ==
    ASSUME NEW N \in NetType, NEW C, NEW s \in Sides
    PROVE  NetCarries(N, Closed(N, C, s))
<1> SUFFICES ASSUME NEW c \in Clients PROVE Carries(N[c], Closed(N, C, s)[c])
    BY DEF NetCarries
<1>1. N[c] \in ConnType BY DEF NetType
<1>2. CASE c \in C
    <2>1. Closed(N, C, s)[c] = AfterClose(N[c], s) BY <1>2 DEF Closed
    <2> QED BY <1>1, <2>1, CloseKeeps DEF Carries
<1>3. CASE c \notin C BY <1>3 DEF Closed, Carries
<1> QED BY <1>2, <1>3

LEMMA ReportedCarries ==
    ASSUME NEW N \in NetType, NEW c \in Clients, NEW s \in Sides
    PROVE  NetCarries(N, Reported(N, c, s))
<1> SUFFICES ASSUME NEW d \in Clients PROVE Carries(N[d], Reported(N, c, s)[d])
    BY DEF NetCarries
<1>1. N[d] \in ConnType BY DEF NetType
<1>2. CASE d # c BY <1>2 DEF Reported, NetType, Carries
<1>3. CASE d = c /\ s = "client" BY <1>1, <1>3 DEF Reported, NetType, ConnType, Carries
<1>4. CASE d = c /\ s = "server" BY <1>1, <1>4 DEF Reported, NetType, ConnType, Carries
<1> QED BY <1>2, <1>3, <1>4 DEF Sides

LEMMA CarriesTwice ==
    ASSUME NEW N, NEW M, NEW K, NetCarries(N, M), NetCarries(M, K)
    PROVE  NetCarries(N, K)
BY DEF NetCarries, Carries

LEMMA CarriesSame == ASSUME NEW N PROVE NetCarries(N, N)
BY DEF NetCarries, Carries

LEMMA BlankKept == ASSUME Blank, UNCHANGED clientVars PROVE Blank'
BY DEF Blank, clientVars, Outside

(***************************************************************************)
(* The steps of the server that tell nobody anything.                      *)
(***************************************************************************)
LEMMA QuietRoom ==
    ASSUME IInv, RoomInv, UNCHANGED clientVars,
           \/ StartUp \/ LoopTop \/ Select \/ SelectFails \/ NoConnection \/ AcceptFails
           \/ HungUp \/ RoundOver \/ SetFlag \/ InterruptSelect
    PROVE  RoomInv'
<1>1. /\ UNCHANGED <<net, backlog, client_sockets, fdtab, screen, sent, cpc>>
      /\ pc' \in Alive => pc \in Alive
      /\ running' => running
      /\ pc' = "name" => pc = "name" /\ new_socket' = new_socket
    BY DEF StartUp, LoopTop, Select, SelectFails, NoConnection, AcceptFails, HungUp, RoundOver,
           SetFlag, InterruptSelect, tcpVars, clientVars, Alive, Serving
<1>2. Members' = Members /\ Queued' = Queued BY <1>1, MembersKept DEF Queued
<1>3. pc' \in Alive => Settled BY <1>1, <1>2 DEF Settled, Outside, Awaited
<1>4. Silent BY <1>1, CarriesSame, CarriesSilent
<1>5. Blank' BY BlankKept DEF RoomInv
<1> QED BY <1>3, <1>4, <1>5, RoomKept DEF IInv

LEMMA RefuseRoom ==
    ASSUME IInv, RoomInv, UNCHANGED clientVars, Refuse PROVE RoomInv'
<1>1. /\ pc = "accept" /\ pc' = "clients" /\ backlog' = Tail(backlog)
      /\ net' = Closed(net, {Head(backlog)}, "server")
      /\ UNCHANGED <<running, client_sockets, fdtab, screen, sent, cpc>>
    BY DEF Refuse, Hangup, clientVars
<1>2. TypeOK /\ OneConnection /\ backlog # <<>> BY DEF Refuse, IInv, Ready
<1>3. Queued' \subseteq Queued BY <1>1, <1>2, HeadLeaves DEF Queued
<1>4. Settled
    BY <1>1, <1>3, MembersKept DEF Settled, Outside, Awaited, Alive, Serving
<1>5. Silent
    <2>1. NetCarries(net, net') BY <1>1, <1>2, ClosedCarries DEF TypeOK, Sides
    <2> QED BY <1>1, <2>1, CarriesSilent
<1>6. Blank' BY BlankKept DEF RoomInv
<1> QED BY <1>2, <1>4, <1>5, <1>6, RoomKept

LEMMA HandleResetRoom ==
    ASSUME IInv, RoomInv, UNCHANGED <<clientVars, running>>, pc = "clients",
           NEW i \in Occupied, HandleReset(i)
    PROVE  RoomInv'
<1>1. /\ net' = Reported(net, ConnOf(i), "server") /\ pc' = pc
      /\ UNCHANGED <<backlog, client_sockets, fdtab, new_socket, screen, sent, cpc>>
    BY DEF HandleReset, Handled, clientVars
<1>2. ConnOf(i) \in Clients BY TableTypes DEF Alive, Serving
<1>3. Settled
    BY <1>1, MembersKept DEF Settled, Outside, Awaited, Alive, Serving, Queued
<1>4. Silent
    <2>1. NetCarries(net, net') BY <1>1, <1>2, ReportedCarries DEF IInv, TypeOK, Sides
    <2> QED BY <1>1, <2>1, CarriesSilent
<1>5. Blank' BY BlankKept DEF RoomInv
<1> QED BY <1>3, <1>4, <1>5, RoomKept DEF IInv

\* The end of the process: from here on nothing is promised.
LEMMA GoneRoom ==
    ASSUME RoomInv, UNCHANGED clientVars, pc' \notin Alive
    PROVE  RoomInv'
BY BlankKept DEF RoomInv

LEMMA ResetRoom ==
    ASSUME IInv, RoomInv, NEW c \in Clients, NEW s \in Sides, ResetAt(c, s)
    PROVE  RoomInv'
<1> DEFINE dead == IF net[c][s].link = "aborting" THEN "reset" ELSE "dead"
<1>1. /\ net[c][s].link \in {"aborting", "probed"} /\ net' = [net EXCEPT ![c][s].link = dead]
      /\ UNCHANGED <<backlog, listening, serverVars, clientVars>>
    BY DEF ResetAt, ResetArrives, AwaitsReset
<1>2. UNCHANGED <<pc, running, client_sockets, fdtab, new_socket, screen, sent, cpc>>
    BY <1>1 DEF serverVars, clientVars
<1>3. NetCarries(net, net')
    <2>1. \A d \in Clients \ {c} : net'[d] = net[d] BY <1>1 DEF IInv, TypeOK, NetType
    <2>2. net[c] \in ConnType /\ net \in NetType BY DEF IInv, TypeOK, NetType
    <2>3. Carries(net[c], net'[c])
        <3>1. dead # "up" OBVIOUS
        <3> HIDE DEF dead
        <3>2. CASE s = "client" BY <1>1, <2>2, <3>2 DEF NetType, ConnType, Carries
        <3>3. CASE s = "server" BY <1>1, <2>2, <3>1, <3>3 DEF NetType, ConnType, Carries
        <3> QED BY <3>2, <3>3 DEF Sides
    <2> QED BY <2>1, <2>3 DEF NetCarries, Carries
<1>4. pc' \in Alive => Settled
    BY <1>1, <1>2, MembersKept DEF Settled, Outside, Awaited, Queued
<1>5. Silent BY <1>2, <1>3, CarriesSilent
<1>6. Blank' BY <1>1, BlankKept DEF RoomInv
<1> QED BY <1>4, <1>5, <1>6, RoomKept DEF IInv

(***************************************************************************)
(* The clients.                                                            *)
(***************************************************************************)
\* Only c's connection and history change.
Alone(c) == \A d \in Clients \ {c} :
    net'[d] = net[d] /\ screen'[d] = screen[d] /\ sent'[d] = sent[d]

LEMMA AloneSilent ==
    ASSUME NEW c \in Clients, Alone(c),
           Up(c)' => Up(c) /\ Told(c)' = Told(c) /\ (Kept(c) \/ Typed(c))
    PROVE  Silent
BY DEF Alone, Silent, Up, Told, Own, Kept

LEMMA LeaveAlone ==
    ASSUME IInv, NEW c \in Clients, NEW N \in NetType,
           \A d \in Clients \ {c} : N[d] = net[d],
           \A d \in Clients \ {c} : screen'[d] = screen[d] /\ sent'[d] = sent[d],
           net' = Closed(N, {c}, "client")
    PROVE  Silent
<1>1. Alone(c) BY DEF Alone, Closed
<1>2. ~ Up(c)'
    <2>1. net'[c] = AfterClose(N[c], "client") BY DEF Closed
    <2>2. N[c] \in ConnType /\ "client" \in Sides BY DEF NetType, Sides
    <2> QED BY <2>1, <2>2, CloseKeeps DEF Up
<1> QED BY <1>1, <1>2, AloneSilent

LEMMA ShownAlone ==
    ASSUME IInv, NEW c \in Clients, NEW n \in Nat, n <= Len(Own(c).inq),
           Shown(c, n), net' = Took(net, c, "client", n), sent' = sent
    PROVE  Silent
<1>1. net \in NetType /\ net[c] \in ConnType /\ screen[c] \in Seq(Notice)
      /\ Own(c).inq \in Seq(Notice)
    BY RoomTypes DEF IInv
<1>2. screen \in [Clients -> Seq(Notice)] BY DEF IInv, TypeOK, ClientTypeOK
<1>3. Alone(c) BY <1>1, <1>2 DEF Alone, Took, NetType, Shown
<1>4. /\ net'[c]["server"] = net[c]["server"]
      /\ Own(c)'.inq = SubSeq(Own(c).inq, n + 1, Len(Own(c).inq))
    BY <1>1 DEF Took, NetType, ConnType, Own
<1>5. Told(c)' = Told(c)
    <2> DEFINE a == screen[c]
               q == Own(c).inq
               b == SubSeq(q, 1, n)
               e == SubSeq(q, n + 1, Len(q))
    <2>1. screen'[c] = a \o b BY <1>2 DEF Shown
    <2>2. b \o e = q BY <1>1, Cut
    <2>3. b \in Seq(Notice) /\ e \in Seq(Notice) /\ a \in Seq(Notice)
        <3>1. Len(q) \in Nat /\ Len(q) <= Len(q) /\ 1 \in Nat /\ n + 1 \in Nat BY <1>1
        <3> QED BY <1>1, <3>1, SubSeqType
    <2>4. Told(c)' = (a \o b) \o e BY <1>4, <2>1 DEF Told
    <2>5. Told(c) = a \o q BY DEF Told
    <2> HIDE DEF a, b, e, q
    <2>6. (a \o b) \o e = a \o (b \o e) BY <2>3, ConcatAssociative
    <2> QED BY <2>2, <2>4, <2>5, <2>6
<1>6. Kept(c) /\ (Up(c)' => Up(c)) BY <1>4 DEF Kept, Up
<1> QED BY <1>3, <1>5, <1>6, AloneSilent

LEMMA TransmitAlone ==
    ASSUME IInv, LinkInv, NEW c \in Clients, NEW text \in Text, Transmit(c, text),
           screen' = screen
    PROVE  Silent
<1>1. net \in NetType /\ net[c] \in ConnType BY RoomTypes DEF IInv
<1>2. sent \in [Clients -> Text] BY DEF IInv, TypeOK, ClientTypeOK
<1>3. Alone(c) BY <1>2 DEF Alone, Transmit, Sent
<1>4. net'[c] = AfterSend(net[c], "client", text) BY DEF Transmit, Sent
<1>5. Up(c)' => Up(c) /\ net[c]["client"].link = "up"
    <2>1. net'[c]["server"].link = net[c]["server"].link
        BY <1>1, <1>4 DEF AfterSend, ConnType, Peer
    <2> QED BY <2>1 DEF Up, LinkInv, Pairs, Linked
<1>6. ASSUME Up(c)' PROVE Told(c)' = Told(c) /\ Typed(c)
    <2>1. /\ net'[c]["client"].inq = net[c]["client"].inq
          /\ net'[c]["server"].inq = net[c]["server"].inq \o text
        <3>1. net[c]["client"].link = "up" BY <1>5, <1>6
        <3>2. PICK N \in ConnType : N = net[c] BY <1>1
        <3>3. net'[c] = [N EXCEPT !["server"].inq = N["server"].inq \o text]
            BY <1>4, <3>1, <3>2 DEF AfterSend, Peer
        <3>4. "server" \in DOMAIN N /\ "inq" \in DOMAIN N["server"]
            BY ONLY N \in ConnType DEF ConnType
        <3> QED BY ONLY <3>2, <3>3, <3>4
    <2>2. sent'[c] = sent[c] \o text BY <1>2 DEF Transmit
    <2> QED BY <2>1, <2>2 DEF Told, Own, Typed
<1> QED BY <1>3, <1>5, <1>6, AloneSilent

\* A step of a client that is or stays connected, or stays outside.
LEMMA ClientMoves ==
    ASSUME IInv, RoomInv, NEW c \in Clients, NEW where,
           Goto(c, where), where \in {"prompt", "connect"} => Outside(c),
           where \in {"prompt", "connect"} => UNCHANGED <<screen, sent>>,
           \A d \in Clients \ {c} : screen'[d] = screen[d] /\ sent'[d] = sent[d],
           UNCHANGED <<serverVars, backlog>>, Silent
    PROVE  RoomInv'
<1>1. UNCHANGED <<pc, running, client_sockets, fdtab, new_socket>> BY DEF serverVars
<1>2. cpc \in [Clients -> {"prompt", "connect", "welcome", "name"} \cup Chatting \cup Ended]
    BY DEF IInv, TypeOK, ClientTypeOK
<1>3. cpc'[c] = where /\ \A d \in Clients \ {c} : cpc'[d] = cpc[d] BY <1>2 DEF Goto
<1>4. \A d \in Clients : Outside(d)' => Outside(d) BY <1>3 DEF Outside
<1>5. pc' \in Alive => Settled
    BY <1>1, <1>4, MembersKept DEF Settled, Awaited, Queued
<1>6. Blank' BY <1>3, <1>4 DEF Blank, RoomInv, Outside
<1> QED BY <1>5, <1>6, RoomKept DEF IInv

LEMMA ClientRoom ==
    ASSUME IInv, LinkInv, RoomInv, NEW c \in Clients, UNCHANGED serverVars,
           \/ ReceiveWelcome(c) \/ SendName(c) \/ SelectIncoming(c) \/ SendLine(c) \/ Incoming(c)
           \/ Prompt(c) \/ SelectTyped(c) \/ IgnoreLine(c) \/ Kill(c)
    PROVE  RoomInv'
<1>1. UNCHANGED backlog /\ net \in NetType
    BY DEF ReceiveWelcome, SendName, SelectIncoming, SendLine, Incoming, Prompt, SelectTyped,
           IgnoreLine, Kill, tcpVars, IInv, TypeOK
<1>2. /\ username[c] \in Text /\ Lines \subseteq Text /\ Bye \in Text
      /\ sent \in [Clients -> Text] /\ screen \in [Clients -> Seq(Notice)]
    BY ChatClientAssumption, ChatTextAssumption DEF IInv, TypeOK, ClientTypeOK, Text
<1> DEFINE Others == \A d \in Clients \ {c} : screen'[d] = screen[d] /\ sent'[d] = sent[d]
<1>3. Others
    BY <1>2 DEF ReceiveWelcome, SendName, SelectIncoming, SendLine, Incoming, Prompt, SelectTyped,
           IgnoreLine, Kill, Shown, Transmit, KilledBySend, SendFails, Leave, ConnectionLost
<1>4. net' = net /\ UNCHANGED <<screen, sent>> => Silent BY CarriesSame, CarriesSilent
<1>5. net' = Closed(net, {c}, "client") => Silent BY <1>1, <1>3, LeaveAlone
<1>6. net' = Reported(net, c, "client") /\ UNCHANGED <<screen, sent>> => Silent
    BY <1>1, ReportedCarries, CarriesSilent DEF Sides
<1>7. \A text \in Text : Transmit(c, text) /\ UNCHANGED screen => Silent BY TransmitAlone
<1>8. ASSUME NEW n \in 1 .. ClientCap, n <= Len(Own(c).inq), Shown(c, n), sent' = sent,
             net' \in {Took(net, c, "client", n), Closed(Took(net, c, "client", n), {c}, "client")}
      PROVE  Silent
    <2>1. n \in Nat BY ChatClientAssumption
    <2> DEFINE N == Took(net, c, "client", n)
    <2>2. N \in NetType BY <1>1, <1>8, <2>1, TookClientType DEF Own
    <2>3. \A d \in Clients \ {c} : N[d] = net[d] BY <1>1 DEF Took, NetType
    <2>4. net' = N => Silent BY <1>8, <2>1, ShownAlone
    <2> HIDE DEF N
    <2>5. net' = Closed(N, {c}, "client") => Silent BY <1>3, <2>2, <2>3, LeaveAlone
    <2> QED BY <1>8, <2>4, <2>5 DEF N
<1> HIDE DEF Others
<1>9. ASSUME NEW where, Goto(c, where), where \notin {"prompt", "connect"}, Silent
      PROVE  RoomInv'
    BY <1>1, <1>3, <1>9, ClientMoves DEF Others
<1>10. CASE Prompt(c)
    <2>1. Outside(c) /\ Goto(c, "connect") /\ net' = net /\ UNCHANGED <<screen, sent>>
        BY <1>10 DEF Prompt, Outside, tcpVars
    <2> QED BY <1>1, <1>3, <1>4, <2>1, ClientMoves DEF Others
<1>11. CASE SelectTyped(c) \/ IgnoreLine(c) \/ SelectIncoming(c)
    <2>1. net' = net /\ UNCHANGED <<screen, sent>>
        BY <1>11 DEF SelectTyped, IgnoreLine, SelectIncoming, tcpVars
    <2>2. \E where \in Chatting : Goto(c, where)
        BY <1>11 DEF SelectTyped, IgnoreLine, SelectIncoming, AfterStdin, Chatting
    <2> QED BY <1>4, <1>9, <2>1, <2>2 DEF Chatting
<1>12. CASE Kill(c) BY <1>5, <1>9, <1>12 DEF Kill, Leave
<1>13. CASE ReceiveWelcome(c)
    <2>1. CASE HasData(Own(c))
        <3>1. PICK n \in 1 .. ClientCap :
                 /\ n <= Len(Own(c).inq) /\ Shown(c, n)
                 /\ net' = Took(net, c, "client", n) /\ Goto(c, "name") /\ sent' = sent
            BY <1>13, <2>1 DEF ReceiveWelcome
        <3>2. Silent BY <1>8, <3>1
        <3> QED BY <1>9, <3>1, <3>2
    <2>2. CASE ~ HasData(Own(c)) BY <1>5, <1>9, <1>13, <2>2 DEF ReceiveWelcome, Leave
    <2> QED BY <2>1, <2>2
<1>14. CASE SendName(c)
    <2>1. \E where \in {"killed", "exit1", "select"} : Goto(c, where)
        BY <1>14 DEF SendName, KilledBySend, Leave
    <2>2. \/ net' = Closed(net, {c}, "client")
          \/ Transmit(c, username[c]) /\ UNCHANGED screen
        BY <1>14 DEF SendName, KilledBySend, Leave
    <2>3. Silent BY <1>2, <1>5, <1>7, <2>2
    <2> QED BY <1>9, <2>1, <2>3
<1>15. CASE SendLine(c)
    <2>1. \E where \in {"killed", "incoming", "select", "exit0"} : Goto(c, where)
        BY <1>15 DEF SendLine, KilledBySend, Leave, AfterStdin
    <2>2. \/ net' = Closed(net, {c}, "client")
          \/ net' = Reported(net, c, "client") /\ UNCHANGED <<screen, sent>>
          \/ \E line \in Lines \cup {Bye} : Transmit(c, line) /\ UNCHANGED screen
          \/ net' = Closed(Sent(net, {c}, "client", Bye), {c}, "client")
        BY <1>15 DEF SendLine, KilledBySend, SendFails, Leave
    <2>3. net' = Closed(Sent(net, {c}, "client", Bye), {c}, "client") => Silent
        <3>1. Sent(net, {c}, "client", Bye) \in NetType BY <1>1, <1>2, SentClientType
        <3>2. \A d \in Clients \ {c} : Sent(net, {c}, "client", Bye)[d] = net[d] BY DEF Sent
        <3> QED BY <1>3, <3>1, <3>2, LeaveAlone DEF Others
    <2>4. Silent BY <1>2, <1>5, <1>6, <1>7, <2>2, <2>3
    <2> QED BY <1>9, <2>1, <2>4
<1>16. CASE Incoming(c)
    <2>1. \E where \in {"exit0", "exit1", "select"} : Goto(c, where)
        BY <1>16 DEF Incoming, ConnectionLost, Leave
    <2>2. \/ \E n \in 1 .. ClientCap :
               /\ n <= Len(Own(c).inq) /\ Shown(c, n) /\ sent' = sent
               /\ net' \in {Took(net, c, "client", n),
                            Closed(Took(net, c, "client", n), {c}, "client")}
          \/ net' = Closed(net, {c}, "client")
          \/ net' = Reported(net, c, "client") /\ UNCHANGED <<screen, sent>>
        BY <1>16 DEF Incoming, ConnectionLost, Leave
    <2>3. Silent BY <1>5, <1>6, <1>8, <2>2
    <2> QED BY <1>9, <2>1, <2>3
<1> QED BY <1>10, <1>11, <1>12, <1>13, <1>14, <1>15, <1>16

\* Where somebody who has not connected, or is in the backlog, is not.
LEMMA OutsideOnly ==
    ASSUME IInv, NEW c \in Clients, Outside(c) \/ c \in Queued, pc \in Alive
    PROVE  ~ Insider(c) /\ (Outside(c) => c \notin Queued)
<1>1. \A f \in Fds : fdtab[f] # c BY DEF IInv, OneConnection, Outside
<1>2. c \notin Members BY <1>1, TableTypes DEF Members, ConnOf
<1>3. ~ Awaited(c) BY <1>1 DEF Awaited, IInv, Awaiting
<1> QED BY <1>2, <1>3 DEF Insider, IInv, OneConnection, Outside

LEMMA AwaitedOnly ==
    ASSUME IInv, NEW c \in Clients, Awaited(c)
    PROVE  /\ c \notin Members /\ ~ Outside(c) /\ c \notin Queued
           /\ new_socket \in Fds /\ pc \in Alive
<1>1. pc \in Alive /\ new_socket \in Fds /\ c = fdtab[new_socket]
    BY DEF Awaited, IInv, Awaiting, Alive, Serving
<1>2. ASSUME NEW i \in Occupied, ConnOf(i) = c PROVE FALSE
    <2>1. client_sockets[i] \in Fds /\ i \in Slots BY <1>1, TableTypes DEF Occupied
    <2>2. client_sockets[i] # new_socket BY <2>1 DEF Awaited, IInv, Awaiting
    <2>3. c # NoClient BY ChatServerAssumption
    <2> QED BY <1>1, <1>2, <2>1, <2>2, <2>3 DEF IInv, OneConnection, ConnOf
<1> QED BY <1>1, <1>2 DEF Members, IInv, OneConnection, Outside

LEMMA NothingSaid ==
    /\ \A kind : WhoOf(<<>>, kind) = {}
    /\ \A c : Speech(c, <<>>) = <<>> /\ JoinedAs(c, <<>>) = {} /\ Unmentioned(c, <<>>)
<1>1. ToSet(<<>>) = {} BY DEF ToSet
<1>2. \A c : Speech(c, <<>>) = <<>>
    <2>1. <<>> \in Seq(Notice) /\ Goodbye \in Notice BY DEF Goodbye, Notice, NoticeOf
    <2> QED BY <2>1, SpeechMore
<1> QED BY <1>1, <1>2 DEF WhoOf, JoinedAs, Unmentioned

LEMMA ConnectRoom ==
    ASSUME IInv, RoomInv, NEW c \in Clients, Connect(c), UNCHANGED serverVars
    PROVE  RoomInv'
<1>1. CASE ~ listening
    <2>1. /\ Goto(c, "exit1") /\ UNCHANGED <<net, backlog, screen, sent>> BY <1>1 DEF Connect
    <2>2. Silent BY <2>1, CarriesSame, CarriesSilent
    <2> QED BY <2>1, <2>2, ClientMoves
<1>2. CASE listening
    <2>1. /\ net' = Opened(net, c) /\ backlog' = Append(backlog, c)
          /\ cpc' = [cpc EXCEPT ![c] = "welcome"] /\ cpc[c] = "connect"
          /\ UNCHANGED <<pc, running, client_sockets, fdtab, new_socket, screen, sent>>
        BY <1>2 DEF Connect, Goto, serverVars
    <2>2. \A d \in Clients \ {c} : net'[d] = net[d]
        BY <2>1 DEF Opened, IInv, TypeOK, NetType
    <2>3. Own(c)'.inq = <<>> /\ net'[c]["server"].inq = <<>> /\ Up(c)'
        BY <2>1 DEF Opened, Fresh, Sides, Up, Own, IInv, TypeOK, NetType
    <2>4. Outside(c) /\ screen[c] = <<>> /\ sent[c] = <<>>
        BY <2>1 DEF Outside, RoomInv, Blank
    <2>5. Told(c)' = <<>> BY <2>1, <2>3, <2>4 DEF Told
    <2>6. Queued' = Queued \cup {c}
        <3>1. /\ DOMAIN backlog' = 1 .. Len(backlog) + 1
              /\ backlog'[Len(backlog) + 1] = c
              /\ \A k \in DOMAIN backlog : backlog'[k] = backlog[k]
              /\ DOMAIN backlog = 1 .. Len(backlog) /\ Len(backlog) \in Nat
            BY <2>1 DEF IInv, TypeOK
        <3> QED BY <3>1 DEF Queued
    <2>7. cpc'[c] = "welcome" /\ \A d \in Clients \ {c} : cpc'[d] = cpc[d]
        BY <2>1 DEF IInv, TypeOK, ClientTypeOK
    <2>8. Blank' BY <2>1, <2>7 DEF Blank, RoomInv, Outside
    <2> SUFFICES ASSUME pc \in Alive
                 PROVE  Unheard' /\ Unread' /\ Ends' /\ Notices' /\ Rosters' /\ Talks'
        BY <2>1, <2>8 DEF RoomInv
    <2>9. Members' = Members /\ ~ Insider(c) BY <2>1, <2>4, MembersKept, OutsideOnly
    <2>10. \A d \in Clients : /\ Newcomer(d)' => Newcomer(d)
                              /\ Insider(d)' <=> Insider(d)
                              /\ Awaited(d)' <=> Awaited(d)
        BY <2>1, <2>4, <2>6, <2>7, <2>9 DEF Newcomer, Insider, Awaited, Outside
    <2>11. \A d \in Clients \ {c} : /\ Up(d)' <=> Up(d)
                                    /\ Told(d)' = Told(d) /\ sent'[d] = sent[d]
                                    /\ net'[d]["server"].inq = net[d]["server"].inq
        BY <2>1, <2>2 DEF Up, Told, Own
    <2>12. Unheard /\ Unread /\ Ends /\ Notices /\ Rosters /\ Talks BY DEF RoomInv
    <2>13. Unheard' BY <2>5, <2>6, <2>11, <2>12 DEF Unheard
    <2>14. Unread' BY <2>1, <2>3, <2>4, <2>6, <2>10, <2>11, <2>12 DEF Unread
    <2>15. Ends'
        <3>1. IsEnd(net'[c]["server"].inq, sent'[c])
            <4>1. <<>> \in Seq(Unit) OBVIOUS
            <4>2. IsEnd(<<>>, <<>>) BY <4>1, EndAll
            <4>3. net'[c]["server"].inq = <<>> /\ sent'[c] = <<>> BY <2>1, <2>3, <2>4
            <4> QED BY <4>2, <4>3
        <3> QED BY <2>11, <2>12, <3>1 DEF Ends
    <2>16. Notices'
        BY <2>5, <2>9, <2>10, <2>11, <2>12, NothingSaid DEF Notices, Unmentioned
    <2>17. Rosters' BY <2>9, <2>10, <2>11, <2>12 DEF Rosters
    <2>18. Talks'
        <3>1. c \notin Members BY <2>9 DEF Insider
        <3> SUFFICES ASSUME running, NEW r \in Clients, NEW s \in Clients,
                            Insider(r)', Up(r)', s \in Members', Up(s)', r # s
                     PROVE  Talk(s, r)'
            BY <2>1 DEF Talks
        <3>2. Insider(r) /\ s \in Members /\ r # c /\ s # c BY <2>9, <2>10, <3>1
        <3>3. Up(r) /\ Up(s) /\ Told(r)' = Told(r) /\ Kept(s) BY <2>11, <3>2 DEF Kept
        <3>4. Talk(s, r) BY <2>12, <3>2, <3>3 DEF Talks
        <3> QED BY <3>3, <3>4, TalkOn DEF IInv
    <2> QED BY <2>13, <2>14, <2>15, <2>16, <2>17, <2>18
<1> QED BY <1>1, <1>2

(***************************************************************************)
(* What a send of the server does, and what one more notice changes.       *)
(***************************************************************************)
Extends(n, m, q) ==
    /\ m["server"].inq = n["server"].inq
    /\ m["server"].link = "up" <=> n["server"].link = "up"
    /\ n["server"].link = "up" => m["client"].inq = n["client"].inq \o q

LEMMA SentHeard ==
    ASSUME NEW N \in NetType, NEW C, NEW q \in Seq(Notice), NEW r \in Clients
    PROVE  Extends(N[r], Sent(N, C, "server", q)[r], IF r \in C THEN q ELSE <<>>)
<1>1. N[r] \in ConnType BY DEF NetType
<1>2. CASE r \in C
    <2>1. Sent(N, C, "server", q)[r] = AfterSend(N[r], "server", q) BY <1>2 DEF Sent
    <2>2. Extends(N[r], AfterSend(N[r], "server", q), q)
        BY <1>1 DEF Extends, AfterSend, ConnType, Peer, Links
    <2> QED BY <1>2, <2>1, <2>2
<1>3. CASE r \notin C
    <2>1. Sent(N, C, "server", q)[r] = N[r] BY <1>3 DEF Sent
    <2>2. N[r]["client"].inq \o <<>> = N[r]["client"].inq BY <1>1, ConcatEmptySeq DEF ConnType
    <2> QED BY <1>3, <2>1, <2>2 DEF Extends
<1> QED BY <1>2, <1>3

Hearers(skip) == {ConnOf(i) : i \in Targets(skip)}

LEMMA BroadcastHeard ==
    ASSUME NEW N \in NetType, NEW skip, NEW m \in Notice, Fatal(N, skip) = {}, NEW r \in Clients
    PROVE  Extends(N[r], Broadcast(N, skip, m)[r], IF r \in Hearers(skip) THEN <<m>> ELSE <<>>)
<1>1. Reached(N, skip) = Targets(skip) BY DEF Reached
<1>2. <<m>> \in Seq(Notice) OBVIOUS
<1> QED BY <1>1, <1>2, SentHeard DEF Broadcast, Hearers

LEMMA HearersAre ==
    ASSUME IInv, pc \in Alive
    PROVE  /\ \A i \in Occupied : Hearers(i) = Members \ {ConnOf(i)}
           /\ \A i : i \notin Occupied => Hearers(i) = Members
<1>1. \A i \in Occupied : Hearers(i) = Members \ {ConnOf(i)}
    BY ConnsDiffer DEF Hearers, Targets, Members
<1>2. \A i : i \notin Occupied => Targets(i) = Occupied BY DEF Targets
<1> QED BY <1>1, <1>2 DEF Hearers, Members

\* r heard the notices q.
Hears(r, q) == Told(r)' = Told(r) \o q

LEMMA ExtendsTold ==
    ASSUME TypeOK, NEW r \in Clients, NEW q \in Seq(Notice), NEW n,
           n["client"].inq = net[r]["client"].inq,
           n["server"].link = "up", Extends(n, net'[r], q), screen'[r] = screen[r]
    PROVE  Hears(r, q)
<1>1. screen[r] \in Seq(Notice) /\ Own(r).inq \in Seq(Notice) BY RoomTypes
<1>2. Own(r)'.inq = Own(r).inq \o q BY DEF Extends, Own
<1> DEFINE a == screen[r]
           b == Own(r).inq
<1>3. a \in Seq(Notice) /\ b \in Seq(Notice) BY <1>1
<1>4. Told(r) = a \o b /\ Told(r)' = a \o (b \o q) BY <1>2 DEF Told
<1> HIDE DEF a, b
<1>5. (a \o b) \o q = a \o (b \o q) BY <1>3, ConcatAssociative
<1> QED BY <1>4, <1>5 DEF Hears

\* A notice that is no entry in anybody's list, or nobody's words.
LEMMA HeardMore ==
    ASSUME NEW T \in Seq(Notice), NEW m \in Notice, NEW c
    PROVE  /\ \A kind : m.kind # kind => WhoOf(T \o <<m>>, kind) = WhoOf(T, kind)
           /\ \A kind : m.kind = kind => WhoOf(T \o <<m>>, kind) = WhoOf(T, kind) \cup {m.who}
           /\ m.kind # "joined" \/ m.who # c => JoinedAs(c, T \o <<m>>) = JoinedAs(c, T)
           /\ m.kind = "joined" /\ m.who = c => JoinedAs(c, T \o <<m>>) = JoinedAs(c, T) \cup {m.user}
           /\ m.kind # "said" \/ m.who # c => Speech(c, T \o <<m>>) = Speech(c, T)
           /\ m.kind = "said" /\ m.who = c => Speech(c, T \o <<m>>) = Speech(c, T) \o m.text
<1>1. \A kind : WhoOf(T \o <<m>>, kind) = WhoOf(T, kind) \cup IF m.kind = kind THEN {m.who} ELSE {}
    BY WhoMore
<1>2. JoinedAs(c, T \o <<m>>) =
         JoinedAs(c, T) \cup IF m.kind = "joined" /\ m.who = c THEN {m.user} ELSE {}
    BY JoinedMore
<1>3. Speech(c, T) \in Seq(Unit) /\ Speech(c, T \o <<m>>) = Speech(c, T) \o Words(c, m)
    BY SpeechMore DEF Text
<1>4. Speech(c, T) \o <<>> = Speech(c, T) BY <1>3, ConcatEmptySeq
<1> QED BY <1>1, <1>2, <1>3, <1>4 DEF Words

LEMMA SaidMore ==
    ASSUME NEW T \in Seq(Notice), NEW m \in Notice, m.kind = "said"
    PROVE  /\ \A kind \in {"welcome", "joined", "left"} :
                 WhoOf(T \o <<m>>, kind) = WhoOf(T, kind)
           /\ \A d : /\ JoinedAs(d, T \o <<m>>) = JoinedAs(d, T)
                     /\ d # m.who => Speech(d, T \o <<m>>) = Speech(d, T)
           /\ Speech(m.who, T \o <<m>>) = Speech(m.who, T) \o m.text
BY HeardMore

LEMMA AcceptRoom ==
    ASSUME IInv, RoomInv, Accept, UNCHANGED clientVars PROVE RoomInv'
<1>1. /\ pc = "accept" /\ pc' = "name" /\ backlog' = Tail(backlog)
      /\ UNCHANGED <<running, client_sockets, cpc, screen, sent>>
    BY DEF Accept, clientVars
<1>2. /\ TypeOK /\ OneConnection /\ net \in NetType /\ backlog # <<>> /\ pc \in Alive
      /\ fdtab \in [Fds -> Clients \cup {NoClient}]
    BY <1>1 DEF Accept, IInv, Ready, TypeOK, ServerTypeOK, Alive, Serving
<1>3. PICK fd \in Fds : fdtab[fd] = NoClient /\ new_socket' = fd
                        /\ fdtab' = [fdtab EXCEPT ![fd] = Head(backlog)]
    <2>1. FreeFds \in SUBSET Nat /\ FreeFds # {} BY ChatServerAssumption DEF Accept, FreeFds
    <2>2. First(FreeFds) \in FreeFds BY <2>1, FirstInSet
    <2> QED BY <2>2 DEF FreeFds, Accept
<1>4. PICK c \in Clients : c = Head(backlog) /\ c \in Queued BY <1>2, BacklogHead
<1>5. Queued' \subseteq Queued /\ c \notin Queued' BY <1>1, <1>2, <1>4, HeadLeaves DEF Queued
<1>6. PICK m \in Notice : /\ <<m>> \in Seq(Notice) /\ m.kind = "welcome" /\ m.who = Members
                          /\ net' = Sent(net, {c}, "server", <<m>>)
    <2>1. Welcome(Members) \in Notice
        BY <1>2, MembersType DEF Welcome, Notice, NoticeOf
    <2>2. net' = Sent(net, {c}, "server", <<Welcome(Members)>>) BY <1>4 DEF Accept
    <2> QED BY <2>1, <2>2 DEF Welcome
<1>7. Members' = Members
    <2>1. \A i \in Occupied : client_sockets[i] # fd BY <1>2, <1>3 DEF IInv, Table
    <2>2. \A i \in Occupied : client_sockets[i] \in Fds BY <1>2, TableTypes
    <2>3. Occupied' = Occupied BY <1>1 DEF Occupied
    <2>4. \A i \in Occupied : ConnOf(i)' = ConnOf(i) BY <1>1, <1>2, <1>3, <2>1, <2>2 DEF ConnOf
    <2> QED BY <2>3, <2>4 DEF Members
<1>8. ~ Insider(c) /\ ~ Outside(c) BY <1>2, <1>4, OutsideOnly
<1>9. \A d \in Clients : /\ Awaited(d)' <=> d = c
                         /\ Newcomer(d)' => Newcomer(d)
                         /\ Insider(d)' => Insider(d) \/ d = c
    <2>1. fdtab'[new_socket'] = c BY <1>2, <1>3, <1>4
    <2>2. \A d \in Clients : Awaited(d)' <=> d = c BY <1>1, <2>1 DEF Awaited
    <2> QED BY <1>1, <1>4, <1>5, <1>7, <2>2 DEF Newcomer, Insider, Outside
<1>10. \A d \in Clients : Extends(net[d], net'[d], IF d \in {c} THEN <<m>> ELSE <<>>)
    BY <1>2, <1>6, SentHeard
<1>11. \A d \in Clients : Up(d)' => Up(d) /\ Kept(d)
    BY <1>1, <1>10 DEF Extends, Up, Kept
<1>12. \A d \in Clients \ {c} : Up(d)' => Told(d)' = Told(d)
    <2> SUFFICES ASSUME NEW d \in Clients \ {c}, Up(d)' PROVE Told(d)' = Told(d) OBVIOUS
    <2>1. Extends(net[d], net'[d], <<>>) /\ <<>> \in Seq(Notice) BY <1>10
    <2>2. net[d]["server"].link = "up" /\ screen'[d] = screen[d] BY <1>1, <1>11 DEF Up
    <2>3. Hears(d, <<>>) BY <1>2, <2>1, <2>2, ExtendsTold
    <2>4. Told(d) \in Seq(Notice) BY <1>2, RoomTypes
    <2> QED BY <2>3, <2>4, ConcatEmptySeq DEF Hears
<1>13. Unheard /\ Unread /\ Ends /\ Notices /\ Rosters /\ Talks BY <1>2 DEF RoomInv
<1>14. Up(c)' => Told(c)' = <<m>> /\ Told(c) = <<>>
    <2> SUFFICES ASSUME Up(c)' PROVE Told(c)' = <<m>> /\ Told(c) = <<>> OBVIOUS
    <2>1. Extends(net[c], net'[c], <<m>>) BY <1>4, <1>10
    <2>2. Hears(c, <<m>>) BY <1>1, <1>2, <1>4, <1>6, <1>11, <2>1, ExtendsTold DEF Up
    <2>3. Told(c) = <<>> BY <1>4, <1>11, <1>13 DEF Unheard
    <2> QED BY <2>2, <2>3 DEF Hears
<1>15. Up(c)' => /\ WhoOf(Told(c)', "welcome") = {Members}
                 /\ WhoOf(Told(c)', "joined") = {} /\ WhoOf(Told(c)', "left") = {}
                 /\ \A d : Speech(d, Told(c)') = <<>> /\ JoinedAs(d, Told(c)') = {}
    <2>1. <<>> \in Seq(Notice) /\ <<>> \o <<m>> = <<m>> OBVIOUS
    <2> DEFINE T == <<>> \o <<m>>
    <2>2. /\ \A kind : m.kind # kind => WhoOf(T, kind) = WhoOf(<<>>, kind)
          /\ \A kind : m.kind = kind => WhoOf(T, kind) = WhoOf(<<>>, kind) \cup {m.who}
          /\ \A d : Speech(d, T) = Speech(d, <<>>) /\ JoinedAs(d, T) = JoinedAs(d, <<>>)
        BY <1>6, <2>1, HeardMore
    <2> HIDE DEF T
    <2>3. /\ WhoOf(T, "welcome") = {Members} /\ WhoOf(T, "joined") = {} /\ WhoOf(T, "left") = {}
          /\ \A d : Speech(d, T) = <<>> /\ JoinedAs(d, T) = {}
        BY <1>6, <2>2, NothingSaid
    <2>4. Up(c)' => Told(c)' = T BY <1>14, <2>1 DEF T
    <2> QED BY <2>3, <2>4
<1>16. Unheard' BY <1>5, <1>11, <1>12, <1>13 DEF Unheard
<1>17. Unread' BY <1>4, <1>5, <1>9, <1>11, <1>13 DEF Unread, Kept
<1>18. Ends' BY <1>11, <1>13 DEF Ends, Kept
<1>19. Notices'
    <2> SUFFICES ASSUME NEW r \in Clients, NEW d \in Clients, Up(r)'
                 PROVE  /\ Newcomer(d)' => Unmentioned(d, Told(r)')
                        /\ d \in Members => d \notin WhoOf(Told(r)', "left")
        BY <1>7 DEF Notices, Unmentioned
    <2>1. CASE r = c BY <1>15, <2>1 DEF Unmentioned
    <2>2. CASE r # c BY <1>9, <1>11, <1>12, <1>13, <2>2 DEF Notices
    <2> QED BY <2>1, <2>2
<1>20. Rosters'
    <2> SUFFICES ASSUME NEW r \in Clients, Insider(r)', Up(r)'
                 PROVE  Roster(Told(r)') = Members \ {r}
        BY <1>7 DEF Rosters, Roster
    <2>1. CASE r = c
        <3>1. c \notin Members BY <1>8 DEF Insider
        <3>2. UNION {Members} = Members OBVIOUS
        <3> QED BY <1>15, <2>1, <3>1, <3>2 DEF Roster
    <2>2. CASE r # c BY <1>9, <1>11, <1>12, <1>13, <2>2 DEF Rosters
    <2> QED BY <2>1, <2>2
<1>21. Talks'
    <2> SUFFICES ASSUME running', NEW r \in Clients, NEW s \in Clients,
                        Insider(r)', Up(r)', s \in Members', Up(s)', r # s
                 PROVE  Talk(s, r)'
        BY DEF Talks
    <2>1. Kept(s) /\ Up(s) /\ s \in Members BY <1>7, <1>11
    <2>2. CASE r = c
        <3>1. Stream(s, r)' = net[s]["server"].inq
            <4>1. net[s]["server"].inq \in Seq(Unit) BY <1>2, RoomTypes DEF Text
            <4>2. <<>> \o net[s]["server"].inq = net[s]["server"].inq BY <4>1, ConcatEmptySeq
            <4> QED BY <1>15, <2>1, <2>2, <4>2 DEF Stream, Kept
        <3>2. JoinedAs(s, Told(r)') = {} BY <1>15, <2>2
        <3>3. IsEnd(net[s]["server"].inq, sent[s]) BY <1>13, <2>1 DEF Ends
        <3> QED BY <2>1, <3>1, <3>2, <3>3 DEF Talk, Kept
    <2>3. CASE r # c
        <3>1. Talk(s, r) BY <1>1, <1>9, <1>11, <1>13, <2>1, <2>3 DEF Talks
        <3>2. Told(r)' = Told(r) BY <1>12, <2>3
        <3> QED BY <1>2, <2>1, <3>1, <3>2, TalkOn
    <2> QED BY <2>2, <2>3
<1>22. Blank' BY BlankKept DEF RoomInv
<1> QED BY <1>16, <1>17, <1>18, <1>19, <1>20, <1>21, <1>22 DEF RoomInv

(***************************************************************************)
(* Broadcasts that reach everybody they are meant for.                     *)
(***************************************************************************)
\* The end of c's endpoint when the server has taken in n units of it.
TookFrom(N, c, n) == \A d \in Clients :
    /\ N[d]["client"].inq = net[d]["client"].inq
    /\ N[d]["server"].link = net[d]["server"].link
    /\ N[d]["server"].inq = IF d = c THEN SubSeq(net[c]["server"].inq, n + 1, Len(net[c]["server"].inq))
                            ELSE net[d]["server"].inq

LEMMA TookServer ==
    ASSUME net \in NetType, NEW c \in Clients, NEW n
    PROVE  TookFrom(Took(net, c, "server", n), c, n)
<1>1. \A d \in Clients : net[d] \in ConnType BY DEF NetType
<1> QED BY <1>1 DEF TookFrom, Took, NetType, ConnType

\* N is the network when the broadcast begins; whoever is connected after it
\* was so before it, and heard m if he is one of C.
Cast(N, C, m) == \A r \in Clients : Up(r)' =>
    /\ Up(r) /\ N[r]["server"].link = "up"
    /\ net'[r]["server"].inq = N[r]["server"].inq
    /\ Told(r)' = IF r \in C THEN Told(r) \o <<m>> ELSE Told(r)

LEMMA Casts ==
    ASSUME TypeOK, NEW N \in NetType, NEW skip, NEW m \in Notice, Fatal(N, skip) = {},
           screen' = screen, NetCarries(Broadcast(N, skip, m), net'),
           NEW C, C = Hearers(skip),
           \A r \in Clients : /\ N[r]["client"].inq = net[r]["client"].inq
                              /\ N[r]["server"].link = "up" => Up(r)
    PROVE  Cast(N, C, m)
<1> SUFFICES ASSUME NEW r \in Clients, Up(r)'
             PROVE  /\ Up(r) /\ N[r]["server"].link = "up"
                    /\ net'[r]["server"].inq = N[r]["server"].inq
                    /\ Told(r)' = IF r \in C THEN Told(r) \o <<m>> ELSE Told(r)
    BY DEF Cast
<1> DEFINE q == IF r \in C THEN <<m>> ELSE <<>>
           b == Broadcast(N, skip, m)[r]
<1>1. Extends(N[r], b, q) BY BroadcastHeard
<1>2. Carries(b, net'[r]) BY DEF NetCarries
<1>3. q \in Seq(Notice) OBVIOUS
<1> HIDE DEF q, b
<1>4. N[r]["server"].link = "up" BY <1>1, <1>2 DEF Carries, Extends, Up
<1>5. Extends(N[r], net'[r], q) BY <1>1, <1>2, <1>4 DEF Carries, Extends, Up
<1>6. Hears(r, q) BY <1>3, <1>4, <1>5, ExtendsTold
<1>7. Told(r) \o <<>> = Told(r) BY RoomTypes, ConcatEmptySeq
<1> QED BY <1>4, <1>5, <1>6, <1>7 DEF Hears, Extends, q

LEMMA GoodbyeRoom ==
    ASSUME IInv, RoomInv, SayGoodbye, UNCHANGED clientVars PROVE RoomInv'
<1>1. pc = "cleanup" /\ pc \in Alive /\ UNCHANGED running BY DEF SayGoodbye, Alive
<1>2. PICK m \in Notice : m = Goodbye BY DEF Goodbye, Notice, NoticeOf
<1>3. CASE Fatal(net, NoFd) # {}
    <2>1. pc' \notin Alive BY <1>3 DEF SayGoodbye, KilledBySigpipe, Alive, Serving
    <2> QED BY <2>1, GoneRoom
<1>4. CASE Fatal(net, NoFd) = {}
    <2>1. /\ net' = Broadcast(net, NoFd, m) /\ pc' = "closing"
          /\ UNCHANGED <<backlog, client_sockets, fdtab, new_socket, screen, sent, cpc>>
        BY <1>2, <1>4 DEF SayGoodbye, clientVars
    <2>2. NoFd \notin Occupied BY ChatServerAssumption DEF NoFd, Occupied, Slots
    <2>3. PICK C : C = Hearers(NoFd) OBVIOUS
    <2>4. C = Members BY <1>1, <2>2, <2>3, HearersAre
    <2>5. Cast(net, C, m)
        <3>1. NetCarries(Broadcast(net, NoFd, m), net') BY <2>1, CarriesSame
        <3>2. TypeOK /\ net \in NetType /\ screen' = screen BY <2>1 DEF IInv, TypeOK
        <3> QED BY <1>4, <2>3, <3>1, <3>2, Casts DEF Up
    <2>6. Members' = Members /\ Queued' = Queued BY <2>1, MembersKept DEF Queued
    <2>7. \A d \in Clients : /\ ~ Awaited(d) /\ ~ Awaited(d)'
                             /\ (Newcomer(d)' <=> Newcomer(d)) /\ (Insider(d)' <=> Insider(d))
                             /\ sent'[d] = sent[d]
        BY <1>1, <2>1, <2>6 DEF Awaited, Newcomer, Insider, Outside
    <2>8. ASSUME NEW r \in Clients, Up(r)'
          PROVE  /\ Up(r) /\ Kept(r)
                 /\ \A kind \in {"welcome", "joined", "left"} :
                       WhoOf(Told(r)', kind) = WhoOf(Told(r), kind)
                 /\ \A d : /\ Speech(d, Told(r)') = Speech(d, Told(r))
                           /\ JoinedAs(d, Told(r)') = JoinedAs(d, Told(r))
                 /\ r \notin C => Told(r)' = Told(r)
        <3>1. /\ Up(r) /\ Kept(r)
              /\ Told(r)' = IF r \in C THEN Told(r) \o <<m>> ELSE Told(r)
            BY <2>5, <2>7, <2>8 DEF Cast, Kept
        <3>2. Told(r) \in Seq(Notice) BY RoomTypes DEF IInv
        <3>3. m.kind = "bye" BY <1>2 DEF Goodbye
        <3>4. PICK T \in Seq(Notice) : T = Told(r) BY <3>2
        <3>5. /\ \A kind \in {"welcome", "joined", "left"} :
                    WhoOf(T \o <<m>>, kind) = WhoOf(T, kind)
              /\ \A d : Speech(d, T \o <<m>>) = Speech(d, T)
              /\ \A d : JoinedAs(d, T \o <<m>>) = JoinedAs(d, T)
            <4>1. ASSUME NEW d
                  PROVE  /\ \A kind : m.kind # kind => WhoOf(T \o <<m>>, kind) = WhoOf(T, kind)
                         /\ m.kind # "said" \/ m.who # d => Speech(d, T \o <<m>>) = Speech(d, T)
                         /\ m.kind # "joined" \/ m.who # d => JoinedAs(d, T \o <<m>>) = JoinedAs(d, T)
                BY HeardMore
            <4>2. "bye" \notin {"said", "welcome", "joined", "left"} OBVIOUS
            <4> QED BY <3>3, <4>1, <4>2
        <3>6. Told(r)' = T \/ Told(r)' = T \o <<m>> BY <3>1, <3>4
        <3>7. r \notin C => Told(r)' = T BY <3>1, <3>4
        <3> QED BY <3>1, <3>4, <3>5, <3>6, <3>7
    <2>9. Unheard /\ Unread /\ Ends /\ Notices /\ Rosters /\ Talks BY <1>1 DEF RoomInv
    <2>10. Unheard'
        <3>1. \A d \in Clients : d \in Queued => d \notin C
            BY <1>1, <2>4, OutsideOnly DEF Insider
        <3> QED BY <2>6, <2>8, <2>9, <3>1 DEF Unheard
    <2>11. Unread' BY <2>6, <2>7, <2>8, <2>9 DEF Unread, Kept
    <2>12. Ends' BY <2>8, <2>9 DEF Ends, Kept
    <2>13. Notices' BY <2>6, <2>7, <2>8, <2>9 DEF Notices, Unmentioned
    <2>14. Rosters' BY <2>6, <2>7, <2>8, <2>9 DEF Rosters, Roster
    <2>15. Talks'
        <3> SUFFICES ASSUME running, NEW r \in Clients, NEW s \in Clients,
                            Insider(r)', Up(r)', s \in Members', Up(s)', r # s
                     PROVE  Talk(s, r)'
            BY <1>1 DEF Talks
        <3>1. Talk(s, r) BY <2>6, <2>7, <2>8, <2>9 DEF Talks
        <3>2. Stream(s, r)' = Stream(s, r) BY <2>8 DEF Stream, Kept
        <3> QED BY <2>7, <2>8, <3>1, <3>2 DEF Talk
    <2>16. Blank' BY BlankKept DEF RoomInv
    <2> QED BY <2>10, <2>11, <2>12, <2>13, <2>14, <2>15, <2>16 DEF RoomInv
<1> QED BY <1>3, <1>4

LEMMA RelayRoom ==
    ASSUME IInv, RoomInv, UNCHANGED <<clientVars, running>>, pc = "clients",
           NEW i \in Occupied, NEW c \in Clients, c = ConnOf(i),
           NEW n \in Nat, n <= Len(net[c]["server"].inq),
           NEW N \in NetType, TookFrom(N, c, n),
           NEW text \in Text, text = SubSeq(net[c]["server"].inq, 1, n),
           Relay(i, N, text)
    PROVE  RoomInv'
<1>1. TypeOK /\ pc \in Alive BY DEF IInv, Alive, Serving
<1>2. PICK m \in Notice :
         m = Said(c, usernames[i], text) /\ m.kind = "said" /\ m.who = c /\ m.text = text
    <2>1. usernames[i] \in Text BY <1>1, TableTypes
    <2>2. Said(c, usernames[i], text) \in Notice BY <2>1, NoticeType
    <2>3. /\ Said(c, usernames[i], text).kind = "said"
          /\ Said(c, usernames[i], text).who = c /\ Said(c, usernames[i], text).text = text
        BY DEF Said
    <2> QED BY <2>2, <2>3
<1>3. CASE Fatal(N, i) # {}
    <2>1. pc' \notin Alive BY <1>3 DEF Relay, KilledBySigpipe, Alive, Serving
    <2> QED BY <2>1, GoneRoom
<1>4. CASE Fatal(N, i) = {}
    <2>1. /\ net' = Broadcast(N, i, m) /\ pc' = pc
          /\ UNCHANGED <<backlog, client_sockets, fdtab, new_socket, screen, sent, cpc>>
        BY <1>2, <1>4 DEF Relay, Handled, clientVars
    <2>2. PICK C : C = Hearers(i) OBVIOUS
    <2>3. C = Members \ {c} BY <1>1, <2>2, HearersAre
    <2>4. Cast(N, C, m)
        <3>1. NetCarries(Broadcast(N, i, m), net') BY <2>1, CarriesSame
        <3> QED BY <1>1, <1>4, <2>1, <2>2, <3>1, Casts DEF Up, TookFrom
    <2>5. Members' = Members /\ Queued' = Queued BY <2>1, MembersKept DEF Queued
    <2>6. \A d \in Clients : /\ ~ Awaited(d) /\ ~ Awaited(d)'
                             /\ (Newcomer(d)' <=> Newcomer(d)) /\ (Insider(d)' <=> Insider(d))
                             /\ sent'[d] = sent[d]
        BY <2>1, <2>5 DEF Awaited, Newcomer, Insider, Outside
    <2>7. ~ Newcomer(c) /\ c \in Members
        <3>1. c \in Members BY DEF Members
        <3> QED BY <1>1, <2>6, <3>1, OutsideOnly DEF Newcomer, Insider
    <2>8. ASSUME NEW r \in Clients, Up(r)'
          PROVE  /\ Up(r) /\ (r # c => Kept(r))
                 /\ \A kind \in {"welcome", "joined", "left"} :
                       WhoOf(Told(r)', kind) = WhoOf(Told(r), kind)
                 /\ \A d : d # c => Speech(d, Told(r)') = Speech(d, Told(r))
                 /\ \A d : JoinedAs(d, Told(r)') = JoinedAs(d, Told(r))
                 /\ r \in C => Speech(c, Told(r)') = Speech(c, Told(r)) \o text
                 /\ r \notin C => Told(r)' = Told(r)
        <3>1. /\ Up(r) /\ (r # c => Kept(r))
              /\ Told(r)' = IF r \in C THEN Told(r) \o <<m>> ELSE Told(r)
            BY <2>4, <2>6, <2>8 DEF Cast, Kept, TookFrom
        <3>8. Up(r) /\ (r # c => Kept(r)) BY <3>1
        <3>2. Told(r) \in Seq(Notice) BY <1>1, RoomTypes
        <3>3. PICK T \in Seq(Notice) : T = Told(r) BY <3>2
        <3>4. /\ \A kind \in {"welcome", "joined", "left"} :
                    WhoOf(T \o <<m>>, kind) = WhoOf(T, kind)
              /\ \A d : /\ JoinedAs(d, T \o <<m>>) = JoinedAs(d, T)
                        /\ d # m.who => Speech(d, T \o <<m>>) = Speech(d, T)
              /\ Speech(m.who, T \o <<m>>) = Speech(m.who, T) \o m.text
            BY <1>2, SaidMore
        <3>5. m.who = c /\ m.text = text BY <1>2
        <3>6. CASE r \in C
            <4>1. Told(r)' = T \o <<m>> BY <3>1, <3>3, <3>6
            <4>2. \A d : Speech(d, Told(r)') = IF d = c THEN Speech(c, Told(r)) \o text
                                               ELSE Speech(d, Told(r))
                BY <3>3, <3>4, <3>5, <4>1
            <4>3. /\ \A kind \in {"welcome", "joined", "left"} :
                        WhoOf(Told(r)', kind) = WhoOf(Told(r), kind)
                  /\ \A d : JoinedAs(d, Told(r)') = JoinedAs(d, Told(r))
                BY <3>3, <3>4, <4>1
            <4> QED BY <3>6, <3>8, <4>2, <4>3
        <3>7. CASE r \notin C
            <4>1. Told(r)' = Told(r) BY <3>1, <3>7
            <4> QED BY <3>7, <3>8, <4>1
        <3> QED BY <3>6, <3>7
    <2>9. Unheard /\ Unread /\ Ends /\ Notices /\ Rosters /\ Talks BY <1>1 DEF RoomInv
    <2>10. Unheard'
        <3>1. \A d \in Clients : d \in Queued => d \notin C
            BY <1>1, <2>3, OutsideOnly DEF Insider
        <3> QED BY <2>5, <2>8, <2>9, <3>1 DEF Unheard
    <2>11. Unread'
        <3>1. \A d \in Clients : d \in Queued \/ Awaited(d) => d # c BY <2>7 DEF Newcomer
        <3> QED BY <2>5, <2>6, <2>8, <2>9, <3>1 DEF Unread, Kept
    <2>12. Ends'
        <3> SUFFICES ASSUME NEW d \in Clients, Up(d)'
                     PROVE  IsEnd(net'[d]["server"].inq, sent'[d])
            BY DEF Ends
        <3>1. IsEnd(net[d]["server"].inq, sent[d]) BY <2>8, <2>9 DEF Ends
        <3>2. CASE d # c BY <2>8, <3>1, <3>2 DEF Kept
        <3>3. CASE d = c
            <4>1. net'[c]["server"].inq = SubSeq(net[c]["server"].inq, n + 1, Len(net[c]["server"].inq))
                BY <2>4, <3>3 DEF Cast, TookFrom
            <4>2. net[c]["server"].inq \in Seq(Unit) /\ sent[c] \in Seq(Unit)
                BY <1>1, RoomTypes DEF Text
            <4>3. IsEnd(SubSeq(net[c]["server"].inq, n + 1, Len(net[c]["server"].inq)), sent[c])
                BY <3>1, <3>3, <4>2, EndCut
            <4> QED BY <2>6, <3>3, <4>1, <4>3
        <3> QED BY <3>2, <3>3
    <2>13. Notices'
        <3> SUFFICES ASSUME NEW r \in Clients, NEW d \in Clients, Up(r)'
                     PROVE  /\ Newcomer(d)' => Unmentioned(d, Told(r)')
                            /\ d \in Members' => d \notin WhoOf(Told(r)', "left")
            BY DEF Notices, Unmentioned
        <3>1. Up(r) /\ \A kind \in {"joined", "left"} : WhoOf(Told(r)', kind) = WhoOf(Told(r), kind)
            BY <2>8
        <3>2. Newcomer(d)' => Newcomer(d) /\ Speech(d, Told(r)') = Speech(d, Told(r))
            BY <2>6, <2>7, <2>8
        <3>3. /\ Newcomer(d) => Unmentioned(d, Told(r))
              /\ d \in Members => d \notin WhoOf(Told(r), "left")
            BY <2>9, <3>1 DEF Notices
        <3> QED BY <2>5, <3>1, <3>2, <3>3 DEF Unmentioned
    <2>14. Rosters' BY <2>5, <2>6, <2>8, <2>9 DEF Rosters, Roster
    <2>15. Talks'
        <3> SUFFICES ASSUME running, NEW r \in Clients, NEW s \in Clients,
                            Insider(r)', Up(r)', s \in Members', Up(s)', r # s
                     PROVE  Talk(s, r)'
            BY DEF Talks
        <3>1. Talk(s, r) BY <2>5, <2>6, <2>8, <2>9 DEF Talks
        <3>2. Stream(s, r)' = Stream(s, r)
            <4>1. CASE s # c BY <2>8, <4>1 DEF Stream, Kept
            <4>2. CASE s = c
                <5>1. r \in C BY <2>3, <2>6, <4>2 DEF Insider
                <5> DEFINE a == Speech(c, Told(r))
                           q == net[c]["server"].inq
                <5>2. a \in Seq(Unit) /\ q \in Seq(Unit)
                    <6>1. Told(r) \in Seq(Notice) BY <1>1, RoomTypes
                    <6> QED BY <1>1, <6>1, RoomTypes, SpeechMore DEF Text
                <5>3. Stream(s, r)' = (a \o SubSeq(q, 1, n)) \o SubSeq(q, n + 1, Len(q))
                    BY <2>4, <2>8, <4>2, <5>1 DEF Stream, Cast, TookFrom
                <5>4. Stream(s, r) = a \o q BY <4>2 DEF Stream
                <5>5. (a \o SubSeq(q, 1, n)) \o SubSeq(q, n + 1, Len(q)) = a \o q
                    BY <5>2, CutMiddle
                <5> HIDE DEF a, q
                <5> QED BY <5>3, <5>4, <5>5
            <4> QED BY <4>1, <4>2
        <3> QED BY <2>6, <2>8, <3>1, <3>2 DEF Talk
    <2>16. Blank' BY BlankKept DEF RoomInv
    <2> QED BY <2>10, <2>11, <2>12, <2>13, <2>14, <2>15, <2>16 DEF RoomInv
<1> QED BY <1>3, <1>4

LEMMA LeftMore ==
    ASSUME NEW T \in Seq(Notice), NEW m \in Notice, m.kind = "left"
    PROVE  /\ \A kind \in {"welcome", "joined"} : WhoOf(T \o <<m>>, kind) = WhoOf(T, kind)
           /\ WhoOf(T \o <<m>>, "left") = WhoOf(T, "left") \cup {m.who}
           /\ \A d : Speech(d, T \o <<m>>) = Speech(d, T)
           /\ \A d : JoinedAs(d, T \o <<m>>) = JoinedAs(d, T)
<1>1. \A kind \in {"welcome", "joined"} : WhoOf(T \o <<m>>, kind) = WhoOf(T, kind)
    BY HeardMore
<1>2. WhoOf(T \o <<m>>, "left") = WhoOf(T, "left") \cup {m.who} BY HeardMore
<1>3. ASSUME NEW d
      PROVE  Speech(d, T \o <<m>>) = Speech(d, T) /\ JoinedAs(d, T \o <<m>>) = JoinedAs(d, T)
    <2>1. m.kind # "joined" /\ m.kind # "said" OBVIOUS
    <2> QED BY <2>1, HeardMore
<1> QED BY ONLY <1>1, <1>2, <1>3

\* What the server has not read of anybody but c.
Spares(N, c) == \A d \in Clients :
    /\ N[d]["client"].inq = net[d]["client"].inq
    /\ N[d]["server"].link = net[d]["server"].link
    /\ d # c => N[d]["server"].inq = net[d]["server"].inq

LEMMA DisconnectRoom ==
    ASSUME IInv, RoomInv, UNCHANGED <<clientVars, running>>, pc = "clients",
           NEW i \in Occupied, NEW c \in Clients, c = ConnOf(i),
           NEW N \in NetType, Spares(N, c), Disconnect(i, N)
    PROVE  RoomInv'
<1>1. TypeOK /\ pc \in Alive BY DEF IInv, Alive, Serving
<1>2. PICK m \in Notice : m = Left(c, usernames[i]) /\ m.kind = "left" /\ m.who = c
    <2>1. usernames[i] \in Text BY <1>1, TableTypes
    <2>2. Left(c, usernames[i]) \in Notice BY <2>1, NoticeType
    <2>3. Left(c, usernames[i]).kind = "left" /\ Left(c, usernames[i]).who = c BY DEF Left
    <2> QED BY <2>2, <2>3
<1>3. CASE Fatal(N, i) # {}
    <2>1. pc' \notin Alive BY <1>3 DEF Disconnect, KilledBySigpipe, Alive, Serving
    <2> QED BY <2>1, GoneRoom
<1>4. CASE Fatal(N, i) = {}
    <2>1. /\ net' = Closed(Broadcast(N, i, m), {c}, "server") /\ pc' = pc
          /\ fdtab' = [fdtab EXCEPT ![client_sockets[i]] = NoClient]
          /\ client_sockets' = [client_sockets EXCEPT ![i] = NoFd]
          /\ UNCHANGED <<backlog, new_socket, screen, sent, cpc>>
        BY <1>2, <1>4 DEF Disconnect, Handled, Released, clientVars
    <2>2. PICK C : C = Hearers(i) OBVIOUS
    <2>3. C = Members \ {c} BY <1>1, <2>2, HearersAre
    <2>4. PICK M \in NetType : M = Broadcast(N, i, m) BY BroadcastType
    <2>5. Cast(N, C, m)
        <3>1. NetCarries(M, net') BY <2>1, <2>4, ClosedCarries DEF Sides
        <3>2. NetCarries(Broadcast(N, i, m), net') BY <2>4, <3>1
        <3> QED BY <1>1, <1>4, <2>1, <2>2, <3>2, Casts DEF Up, Spares
    <2>6. ~ Up(c)'
        <3>1. net'[c] = AfterClose(M[c], "server") BY <2>1, <2>4 DEF Closed
        <3>2. M[c] \in ConnType BY DEF NetType
        <3>3. net'[c]["server"] = Fresh("closed")
            BY <3>1, <3>2 DEF AfterClose, ConnType, Peer
        <3> QED BY <3>3 DEF Up, Fresh
    <2>7. Members' = Members \ {c} /\ Queued' = Queued
        <3>1. i \in Slots /\ client_sockets \in [Slots -> Fds \cup {NoFd}]
              /\ fdtab \in [Fds -> Clients \cup {NoClient}]
            BY <1>1 DEF Occupied, TypeOK, ServerTypeOK
        <3>2. Occupied' = Occupied \ {i} BY <2>1, <3>1 DEF Occupied
        <3>3. ASSUME NEW j \in Occupied \ {i} PROVE ConnOf(j)' = ConnOf(j)
            <4>1. client_sockets[j] # client_sockets[i] /\ client_sockets[j] \in Fds
                BY <1>1, TableTypes DEF IInv, Table
            <4>2. client_sockets'[j] = client_sockets[j] BY <2>1, <3>1 DEF Occupied
            <4> QED BY <2>1, <3>1, <4>1, <4>2 DEF ConnOf
        <3>4. \A j \in Occupied \ {i} : ConnOf(j) # c BY <1>1, ConnsDiffer
        <3>5. Members' = {ConnOf(j) : j \in Occupied \ {i}} BY <3>2, <3>3 DEF Members
        <3> QED BY <2>1, <3>4, <3>5 DEF Members, Queued
    <2>8. \A d \in Clients : /\ ~ Awaited(d) /\ ~ Awaited(d)'
                             /\ (Newcomer(d)' <=> Newcomer(d))
                             /\ (Insider(d)' <=> Insider(d) /\ d # c)
                             /\ sent'[d] = sent[d]
        BY <2>1, <2>7 DEF Awaited, Newcomer, Insider, Outside
    <2>9. ~ Newcomer(c)
        <3>1. c \in Members BY DEF Members
        <3> QED BY <1>1, <2>8, <3>1, OutsideOnly DEF Newcomer, Insider
    <2>10. ASSUME NEW r \in Clients, Up(r)'
           PROVE  /\ Up(r) /\ r # c /\ Kept(r)
                  /\ \A kind \in {"welcome", "joined"} :
                        WhoOf(Told(r)', kind) = WhoOf(Told(r), kind)
                  /\ r \in C => WhoOf(Told(r)', "left") = WhoOf(Told(r), "left") \cup {c}
                  /\ \A d : Speech(d, Told(r)') = Speech(d, Told(r))
                  /\ \A d : JoinedAs(d, Told(r)') = JoinedAs(d, Told(r))
                  /\ r \notin C => Told(r)' = Told(r)
        <3>1. r # c BY <2>6, <2>10
        <3>2. /\ Up(r) /\ Kept(r)
              /\ Told(r)' = IF r \in C THEN Told(r) \o <<m>> ELSE Told(r)
            BY <2>5, <2>8, <2>10, <3>1 DEF Cast, Kept, Spares
        <3>3. Up(r) /\ Kept(r) BY <3>2
        <3>4. Told(r) \in Seq(Notice) BY <1>1, RoomTypes
        <3>5. PICK T \in Seq(Notice) : T = Told(r) BY <3>4
        <3>6. /\ \A kind \in {"welcome", "joined"} : WhoOf(T \o <<m>>, kind) = WhoOf(T, kind)
              /\ WhoOf(T \o <<m>>, "left") = WhoOf(T, "left") \cup {m.who}
              /\ \A d : Speech(d, T \o <<m>>) = Speech(d, T)
              /\ \A d : JoinedAs(d, T \o <<m>>) = JoinedAs(d, T)
            BY <1>2, LeftMore
        <3>7. m.who = c BY <1>2
        <3>8. CASE r \in C
            <4>1. Told(r)' = T \o <<m>> BY <3>2, <3>5, <3>8
            <4>2. /\ \A kind \in {"welcome", "joined"} :
                        WhoOf(Told(r)', kind) = WhoOf(Told(r), kind)
                  /\ WhoOf(Told(r)', "left") = WhoOf(Told(r), "left") \cup {c}
                  /\ \A d : Speech(d, Told(r)') = Speech(d, Told(r))
                  /\ \A d : JoinedAs(d, Told(r)') = JoinedAs(d, Told(r))
                BY <3>5, <3>6, <3>7, <4>1
            <4> QED BY <3>1, <3>3, <3>8, <4>2
        <3>9. CASE r \notin C
            <4>1. Told(r)' = Told(r) BY <3>2, <3>9
            <4> QED BY <3>1, <3>3, <3>9, <4>1
        <3> QED BY <3>8, <3>9
    <2>11. Unheard /\ Unread /\ Ends /\ Notices /\ Rosters /\ Talks BY <1>1 DEF RoomInv
    <2>12. Unheard'
        <3>1. \A d \in Clients : d \in Queued => d \notin C
            BY <1>1, <2>3, OutsideOnly DEF Insider
        <3> QED BY <2>7, <2>10, <2>11, <3>1 DEF Unheard
    <2>13. Unread' BY <2>7, <2>8, <2>10, <2>11 DEF Unread, Kept
    <2>14. Ends' BY <2>10, <2>11 DEF Ends, Kept
    <2>15. Notices'
        <3> SUFFICES ASSUME NEW r \in Clients, NEW d \in Clients, Up(r)'
                     PROVE  /\ Newcomer(d)' => Unmentioned(d, Told(r)')
                            /\ d \in Members' => d \notin WhoOf(Told(r)', "left")
            BY DEF Notices, Unmentioned
        <3>1. /\ Newcomer(d) => Unmentioned(d, Told(r))
              /\ d \in Members => d \notin WhoOf(Told(r), "left")
            BY <2>10, <2>11 DEF Notices
        <3>2. /\ WhoOf(Told(r)', "joined") = WhoOf(Told(r), "joined")
              /\ Speech(d, Told(r)') = Speech(d, Told(r))
              /\ WhoOf(Told(r)', "left") \subseteq WhoOf(Told(r), "left") \cup {c}
            BY <2>10
        <3>3. (Newcomer(d)' => Newcomer(d) /\ d # c) /\ (d \in Members' => d \in Members /\ d # c)
            BY <2>7, <2>8, <2>9
        <3> QED BY <3>1, <3>2, <3>3 DEF Unmentioned
    <2>16. Rosters'
        <3> SUFFICES ASSUME NEW r \in Clients, Insider(r)', Up(r)'
                     PROVE  Roster(Told(r)') = Members' \ {r}
            BY DEF Rosters, Roster
        <3>1. r \in C /\ Insider(r) /\ Up(r) BY <2>3, <2>8, <2>10 DEF Insider
        <3>2. Roster(Told(r)) = Members \ {r} BY <2>11, <3>1 DEF Rosters
        <3>3. Roster(Told(r)') = Roster(Told(r)) \ {c} BY <2>10, <3>1 DEF Roster
        <3> QED BY <2>7, <3>2, <3>3
    <2>17. Talks'
        <3> SUFFICES ASSUME running, NEW r \in Clients, NEW s \in Clients,
                            Insider(r)', Up(r)', s \in Members', Up(s)', r # s
                     PROVE  Talk(s, r)'
            BY DEF Talks
        <3>1. Talk(s, r) BY <2>7, <2>8, <2>10, <2>11 DEF Talks
        <3>2. Stream(s, r)' = Stream(s, r) BY <2>10 DEF Stream, Kept
        <3> QED BY <2>8, <2>10, <3>1, <3>2 DEF Talk
    <2>18. Blank' BY BlankKept DEF RoomInv
    <2> QED BY <2>12, <2>13, <2>14, <2>15, <2>16, <2>17, <2>18 DEF RoomInv
<1> QED BY <1>3, <1>4

LEMMA JoinMore ==
    ASSUME NEW T \in Seq(Notice), NEW m \in Notice, m.kind = "joined"
    PROVE  /\ \A kind \in {"welcome", "left"} : WhoOf(T \o <<m>>, kind) = WhoOf(T, kind)
           /\ WhoOf(T \o <<m>>, "joined") = WhoOf(T, "joined") \cup {m.who}
           /\ \A d : Speech(d, T \o <<m>>) = Speech(d, T)
           /\ \A d : d # m.who => JoinedAs(d, T \o <<m>>) = JoinedAs(d, T)
           /\ JoinedAs(m.who, T \o <<m>>) = JoinedAs(m.who, T) \cup {m.user}
<1>1. \A kind \in {"welcome", "left"} : WhoOf(T \o <<m>>, kind) = WhoOf(T, kind)
    BY HeardMore
<1>2. WhoOf(T \o <<m>>, "joined") = WhoOf(T, "joined") \cup {m.who} BY HeardMore
<1>3. ASSUME NEW d PROVE Speech(d, T \o <<m>>) = Speech(d, T)
    <2>1. m.kind # "said" OBVIOUS
    <2> QED BY <2>1, HeardMore
<1>4. \A d : d # m.who => JoinedAs(d, T \o <<m>>) = JoinedAs(d, T) BY HeardMore
<1>5. JoinedAs(m.who, T \o <<m>>) = JoinedAs(m.who, T) \cup {m.user} BY HeardMore
<1> QED BY ONLY <1>1, <1>2, <1>3, <1>4, <1>5

\* The network when c's user name was read, or reading it failed.
Named(N, c, name) ==
    /\ \A d \in Clients : /\ N[d]["client"].inq = net[d]["client"].inq
                          /\ N[d]["server"].link = "up" => Up(d)
                          /\ d # c => N[d]["server"].inq = net[d]["server"].inq
    /\ N[c]["server"].link = "up" =>
          /\ IsEnd(N[c]["server"].inq, sent[c])
          /\ running' => sent[c] = name \o N[c]["server"].inq

LEMMA RegisterRoom ==
    ASSUME IInv, RoomInv, UNCHANGED clientVars, pc = "name", running' => running,
           NEW c \in Clients, c = fdtab[new_socket], NEW N \in NetType, NEW name \in Text,
           Named(N, c, name), Register(N, name)
    PROVE  RoomInv'
<1>1. TypeOK /\ pc \in Alive /\ Awaited(c) BY DEF IInv, Alive, Serving, Awaited
<1>2. PICK m \in Notice : m = Joined(c, name) /\ m.kind = "joined" /\ m.who = c /\ m.user = name
    <2>1. Joined(c, name) \in Notice BY NoticeType
    <2> QED BY <2>1 DEF Joined
<1>3. PICK i \in Slots : i = First(FreeSlots) /\ i \notin Occupied
    <2>1. num_connections < MAX_CONNECTIONS BY DEF IInv, Awaiting
    <2>2. First(FreeSlots) \in FreeSlots BY <2>1, FreeSlotExists
    <2> QED BY <2>2 DEF FreeSlots
<1>4. CASE Fatal(N, i) # {}
    <2>1. pc' \notin Alive
        BY <1>3, <1>4 DEF Register, KilledBySigpipe, Alive, Serving
    <2> QED BY <2>1, GoneRoom
<1>5. CASE Fatal(N, i) = {}
    <2>1. /\ net' = Broadcast(N, i, m) /\ pc' = "clients"
          /\ client_sockets' = [client_sockets EXCEPT ![i] = new_socket]
          /\ UNCHANGED <<backlog, fdtab, screen, sent, cpc>>
        BY <1>2, <1>3, <1>5 DEF Register, clientVars
    <2>2. PICK C : C = Hearers(i) OBVIOUS
    <2>3. C = Members BY <1>1, <1>3, <2>2, HearersAre
    <2>4. Cast(N, C, m)
        <3>1. NetCarries(Broadcast(N, i, m), net') BY <2>1, CarriesSame
        <3> QED BY <1>1, <1>5, <2>1, <2>2, <3>1, Casts DEF Named
    <2>5. c \notin Members /\ ~ Outside(c) /\ c \notin Queued /\ new_socket \in Fds
        BY <1>1, AwaitedOnly
    <2>6. Members' = Members \cup {c} /\ Queued' = Queued
        <3>1. client_sockets \in [Slots -> Fds \cup {NoFd}] BY <1>1 DEF TypeOK, ServerTypeOK
        <3>2. new_socket # NoFd BY <2>5, ChatServerAssumption DEF NoFd
        <3>3. Occupied' = Occupied \cup {i} BY <2>1, <3>1, <3>2 DEF Occupied
        <3>4. \A j \in Occupied : ConnOf(j)' = ConnOf(j)
            BY <1>3, <2>1, <3>1 DEF ConnOf, Occupied
        <3>5. ConnOf(i)' = c BY <2>1, <3>1 DEF ConnOf
        <3> QED BY <2>1, <3>3, <3>4, <3>5 DEF Members, Queued
    <2>7. \A d \in Clients : /\ ~ Awaited(d)'
                             /\ (Awaited(d) <=> d = c)
                             /\ (Newcomer(d)' => Newcomer(d) /\ d # c)
                             /\ (Insider(d)' <=> Insider(d))
                             /\ sent'[d] = sent[d]
        <3>1. \A d \in Clients : ~ Awaited(d)' /\ (Awaited(d) <=> d = c)
            BY <2>1 DEF Awaited
        <3> QED BY <2>1, <2>5, <2>6, <3>1 DEF Newcomer, Insider, Outside
    <2>8. ASSUME NEW r \in Clients, Up(r)'
          PROVE  /\ Up(r) /\ (r # c => Kept(r))
                 /\ \A kind \in {"welcome", "left"} :
                       WhoOf(Told(r)', kind) = WhoOf(Told(r), kind)
                 /\ r \in C => /\ WhoOf(Told(r)', "joined") = WhoOf(Told(r), "joined") \cup {c}
                               /\ JoinedAs(c, Told(r)') = JoinedAs(c, Told(r)) \cup {name}
                 /\ \A d : Speech(d, Told(r)') = Speech(d, Told(r))
                 /\ \A d : d # c => JoinedAs(d, Told(r)') = JoinedAs(d, Told(r))
                 /\ r \notin C => Told(r)' = Told(r)
        <3>1. /\ Up(r) /\ (r # c => Kept(r))
              /\ Told(r)' = IF r \in C THEN Told(r) \o <<m>> ELSE Told(r)
            BY <2>4, <2>7, <2>8 DEF Cast, Kept, Named
        <3>2. Up(r) /\ (r # c => Kept(r)) BY <3>1
        <3>3. Told(r) \in Seq(Notice) BY <1>1, RoomTypes
        <3>4. PICK T \in Seq(Notice) : T = Told(r) BY <3>3
        <3>5. /\ \A kind \in {"welcome", "left"} : WhoOf(T \o <<m>>, kind) = WhoOf(T, kind)
              /\ WhoOf(T \o <<m>>, "joined") = WhoOf(T, "joined") \cup {m.who}
              /\ \A d : Speech(d, T \o <<m>>) = Speech(d, T)
              /\ \A d : d # m.who => JoinedAs(d, T \o <<m>>) = JoinedAs(d, T)
              /\ JoinedAs(m.who, T \o <<m>>) = JoinedAs(m.who, T) \cup {m.user}
            BY <1>2, JoinMore
        <3>6. m.who = c /\ m.user = name BY <1>2
        <3>7. CASE r \in C
            <4>1. Told(r)' = T \o <<m>> BY <3>1, <3>4, <3>7
            <4>2. /\ \A kind \in {"welcome", "left"} :
                        WhoOf(Told(r)', kind) = WhoOf(Told(r), kind)
                  /\ WhoOf(Told(r)', "joined") = WhoOf(Told(r), "joined") \cup {c}
                  /\ \A d : Speech(d, Told(r)') = Speech(d, Told(r))
                BY <3>4, <3>5, <3>6, <4>1
            <4>3. /\ \A d : d # c => JoinedAs(d, Told(r)') = JoinedAs(d, Told(r))
                  /\ JoinedAs(c, Told(r)') = JoinedAs(c, Told(r)) \cup {name}
                BY <3>4, <3>5, <3>6, <4>1
            <4> QED BY <3>2, <3>7, <4>2, <4>3
        <3>8. CASE r \notin C
            <4>1. Told(r)' = Told(r) BY <3>1, <3>8
            <4> QED BY <3>2, <3>8, <4>1
        <3> QED BY <3>7, <3>8
    <2>9. Unheard /\ Unread /\ Ends /\ Notices /\ Rosters /\ Talks BY <1>1 DEF RoomInv
    <2>10. Unheard'
        <3>1. \A d \in Clients : d \in Queued => d \notin C
            BY <1>1, <2>3, OutsideOnly DEF Insider
        <3> QED BY <2>6, <2>8, <2>9, <3>1 DEF Unheard
    <2>11. Unread' BY <2>5, <2>6, <2>7, <2>8, <2>9 DEF Unread, Kept
    <2>12. Up(c)' => /\ N[c]["server"].link = "up"
                     /\ net'[c]["server"].inq = N[c]["server"].inq
        BY <2>4 DEF Cast
    <2>13. Ends'
        <3> SUFFICES ASSUME NEW d \in Clients, Up(d)'
                     PROVE  IsEnd(net'[d]["server"].inq, sent'[d])
            BY DEF Ends
        <3>1. CASE d # c BY <2>8, <2>9, <3>1 DEF Ends, Kept
        <3>2. CASE d = c BY <2>7, <2>12, <3>2 DEF Named
        <3> QED BY <3>1, <3>2
    <2>14. \A r \in Clients : Up(r)' => Unmentioned(c, Told(r))
        BY <1>1, <2>8, <2>9 DEF Notices, Newcomer
    <2>15. Notices'
        <3> SUFFICES ASSUME NEW r \in Clients, NEW d \in Clients, Up(r)'
                     PROVE  /\ Newcomer(d)' => Unmentioned(d, Told(r)')
                            /\ d \in Members' => d \notin WhoOf(Told(r)', "left")
            BY DEF Notices, Unmentioned
        <3>1. /\ Newcomer(d) => Unmentioned(d, Told(r))
              /\ d \in Members => d \notin WhoOf(Told(r), "left")
            BY <2>8, <2>9 DEF Notices
        <3>2. /\ WhoOf(Told(r)', "left") = WhoOf(Told(r), "left")
              /\ Speech(d, Told(r)') = Speech(d, Told(r))
              /\ WhoOf(Told(r)', "joined") \subseteq WhoOf(Told(r), "joined") \cup {c}
            BY <2>8
        <3>3. c \notin WhoOf(Told(r), "left") BY <2>14 DEF Unmentioned
        <3>4. (Newcomer(d)' => Newcomer(d) /\ d # c) /\ (d \in Members' => d \in Members \/ d = c)
            BY <2>6, <2>7
        <3> QED BY <3>1, <3>2, <3>3, <3>4 DEF Unmentioned
    <2>16. Rosters'
        <3> SUFFICES ASSUME NEW r \in Clients, Insider(r)', Up(r)'
                     PROVE  Roster(Told(r)') = Members' \ {r}
            BY DEF Rosters, Roster
        <3>1. Roster(Told(r)) = Members \ {r} BY <2>7, <2>8, <2>9 DEF Rosters
        <3>2. CASE r \in C
            <4>1. r # c BY <2>3, <2>5, <3>2
            <4>2. c \notin WhoOf(Told(r), "left") BY <2>14 DEF Unmentioned
            <4>3. Roster(Told(r)') = Roster(Told(r)) \cup {c}
                <5>1. /\ WhoOf(Told(r)', "welcome") = WhoOf(Told(r), "welcome")
                      /\ WhoOf(Told(r)', "left") = WhoOf(Told(r), "left")
                      /\ WhoOf(Told(r)', "joined") = WhoOf(Told(r), "joined") \cup {c}
                    BY <2>8, <3>2
                <5>2. \A A, J, L : c \notin L =>
                         (A \cup (J \cup {c})) \ L = ((A \cup J) \ L) \cup {c}
                    OBVIOUS
                <5> DEFINE A == UNION WhoOf(Told(r), "welcome")
                           J == WhoOf(Told(r), "joined")
                           L == WhoOf(Told(r), "left")
                <5>3. Roster(Told(r)') = (A \cup (J \cup {c})) \ L BY <5>1 DEF Roster
                <5>4. Roster(Told(r)) = (A \cup J) \ L /\ c \notin L BY <4>2 DEF Roster
                <5> HIDE DEF A, J, L
                <5> QED BY <5>2, <5>3, <5>4
            <4> QED BY <2>6, <3>1, <4>1, <4>3
        <3>3. CASE r \notin C
            <4>1. r = c BY <2>3, <2>7, <3>3 DEF Insider
            <4>2. Roster(Told(r)') = Roster(Told(r)) BY <2>8, <3>3
            <4> QED BY <2>6, <3>1, <4>1, <4>2
        <3> QED BY <3>2, <3>3
    <2>17. Talks'
        <3> SUFFICES ASSUME running', NEW r \in Clients, NEW s \in Clients,
                            Insider(r)', Up(r)', s \in Members', Up(s)', r # s
                     PROVE  Talk(s, r)'
            BY DEF Talks
        <3>1. CASE s # c
            <4>1. Talk(s, r) BY <2>6, <2>7, <2>8, <2>9, <3>1 DEF Talks
            <4>2. Stream(s, r)' = Stream(s, r) BY <2>8, <3>1 DEF Stream, Kept
            <4> QED BY <2>7, <2>8, <3>1, <4>1, <4>2 DEF Talk
        <3>2. CASE s = c
            <4>1. r \in C BY <2>3, <2>7, <3>2 DEF Insider
            <4>2. Speech(c, Told(r)) = <<>> /\ JoinedAs(c, Told(r)) = {}
                <5>1. Unmentioned(c, Told(r)) BY <2>14
                <5>2. JoinedAs(c, Told(r)) = {} BY <5>1 DEF Unmentioned, WhoOf, JoinedAs
                <5> QED BY <5>1, <5>2 DEF Unmentioned
            <4>3. Stream(c, r)' = N[c]["server"].inq
                <5>1. Speech(c, Told(r)') = <<>> BY <2>8, <4>2
                <5>2. N[c]["server"].inq \in Seq(Unit) BY DEF NetType, ConnType, Text
                <5>3. <<>> \o N[c]["server"].inq = N[c]["server"].inq BY <5>2, ConcatEmptySeq
                <5> QED BY <2>12, <3>2, <5>1, <5>3 DEF Stream
            <4>4. JoinedAs(c, Told(r)') = {name} BY <2>8, <4>1, <4>2
            <4>5. /\ IsEnd(N[c]["server"].inq, sent[c])
                  /\ sent[c] = name \o N[c]["server"].inq
                BY <2>12, <3>2 DEF Named
            <4> QED BY <2>7, <3>2, <4>3, <4>4, <4>5 DEF Talk
        <3> QED BY <3>1, <3>2
    <2>18. Blank' BY BlankKept DEF RoomInv
    <2> QED BY <2>10, <2>11, <2>13, <2>15, <2>16, <2>17, <2>18 DEF RoomInv
<1> QED BY <1>4, <1>5

LEMMA RecvNameRoom ==
    ASSUME IInv, RoomInv, RecvName \/ RecvNameFails \/ InterruptRecvName, UNCHANGED clientVars
    PROVE  RoomInv'
<1>1. /\ pc = "name" /\ pc \in Alive /\ TypeOK /\ inbuf \in Text
      /\ running' => running
    BY DEF RecvName, RecvNameFails, InterruptRecvName, Alive, Serving, IInv, TypeOK, ServerTypeOK
<1>2. PICK c \in Clients : c = fdtab[new_socket]
    BY <1>1 DEF IInv, Awaiting, TypeOK, ServerTypeOK
<1>3. Awaited(c) /\ net \in NetType /\ (\A d \in Clients : net[d] \in ConnType)
    BY <1>1, <1>2 DEF Awaited, TypeOK, NetType
<1>4. /\ Up(c) => IsEnd(net[c]["server"].inq, sent[c])
      /\ Up(c) => net[c]["server"].inq = sent[c]
    BY <1>1, <1>3 DEF RoomInv, Ends, Unread
<1>5. CASE RecvName
    <2> DEFINE q == net[c]["server"].inq
    <2>1. PICK n \in 1 .. RecvCap :
             /\ n <= Len(q)
             /\ Register(Took(net, c, "server", n), SubSeq(q, 1, n))
        BY <1>2, <1>5 DEF RecvName, Received, NameEndpoint
    <2>2. n \in Nat BY ChatServerAssumption DEF RecvCap
    <2>3. q \in Seq(Unit) /\ sent[c] \in Seq(Unit) BY <1>1, RoomTypes DEF Text
    <2>4. PICK name \in Text : name = SubSeq(q, 1, n)
        <3>1. 1 \in Nat /\ 1 <= 1 BY <2>2
        <3> HIDE DEF q
        <3>2. SubSeq(q, 1, n) \in Seq(Unit) BY <2>1, <2>2, <2>3, SubSeqType
        <3> QED BY <3>2 DEF Text
    <2>5. PICK N \in NetType : N = Took(net, c, "server", n)
        BY <1>3, <2>1, <2>2, TookServerType
    <2>6. TookFrom(N, c, n) BY <1>3, <2>5, TookServer
    <2>7. Named(N, c, name)
        <3>1. N[c]["server"].inq = SubSeq(q, n + 1, Len(q)) BY <2>6 DEF TookFrom
        <3>2. Up(c) => IsEnd(SubSeq(q, n + 1, Len(q)), sent[c])
            BY <1>4, <2>1, <2>2, <2>3, EndCut
        <3>3. name \o SubSeq(q, n + 1, Len(q)) = q BY <2>1, <2>2, <2>3, <2>4, Cut
        <3>4. Up(c) => q = sent[c] BY <1>4
        <3>5. /\ \A d \in Clients : /\ N[d]["client"].inq = net[d]["client"].inq
                                    /\ N[d]["server"].link = "up" => Up(d)
                                    /\ d # c => N[d]["server"].inq = net[d]["server"].inq
              /\ N[c]["server"].link = "up" => Up(c)
            BY <2>6 DEF TookFrom, Up
        <3> HIDE DEF q
        <3>6. Up(c) => /\ IsEnd(N[c]["server"].inq, sent[c])
                       /\ sent[c] = name \o N[c]["server"].inq
            BY <3>1, <3>2, <3>3, <3>4
        <3> QED BY <3>5, <3>6 DEF Named
    <2>8. Register(N, name) BY <2>1, <2>4, <2>5
    <2> QED BY <1>1, <1>2, <2>7, <2>8, RegisterRoom
<1>6. CASE RecvNameFails
    <2>1. PICK N \in NetType : N = Reported(net, c, "server") BY <1>3, ReportedType DEF Sides
    <2>2. Register(N, inbuf) BY <1>2, <1>6, <2>1 DEF RecvNameFails
    <2>3. N[c]["server"].link = "dead" /\ N[c]["client"] = net[c]["client"]
        BY <1>3, <2>1 DEF Reported, NetType, ConnType
    <2>4. \A d \in Clients \ {c} : N[d] = net[d] BY <1>3, <2>1 DEF Reported, NetType
    <2>5. Named(N, c, inbuf) BY <2>3, <2>4 DEF Named, Up
    <2> QED BY <1>1, <1>2, <2>2, <2>5, RegisterRoom
<1>7. CASE InterruptRecvName
    <2>1. Register(net, inbuf) /\ ~ running' BY <1>7 DEF InterruptRecvName
    <2>2. Named(net, c, inbuf) BY <1>4, <2>1 DEF Named, Up
    <2> QED BY <1>1, <1>2, <1>3, <2>1, <2>2, RegisterRoom
<1> QED BY <1>5, <1>6, <1>7

LEMMA HandleClientRoom ==
    ASSUME IInv, RoomInv, HandleClient, UNCHANGED clientVars PROVE RoomInv'
<1>1. pc = "clients" /\ pc \in Alive /\ UNCHANGED <<clientVars, running>> /\ TypeOK
    BY DEF HandleClient, Alive, Serving, IInv
<1>2. PICK i \in Occupied : HandleData(i) \/ HandleEof(i) \/ HandleReset(i)
    <2>1. Pending \in SUBSET Nat BY DEF Pending, Occupied, Slots
    <2>2. First(Pending) \in Pending BY <2>1, FirstInSet DEF HandleClient
    <2> QED BY <2>2 DEF Pending, HandleClient
<1>3. PICK c \in Clients : c = ConnOf(i) BY <1>1, TableTypes
<1>4. net \in NetType BY <1>1 DEF TypeOK
<1>5. CASE HandleData(i)
    <2> DEFINE q == net[c]["server"].inq
    <2>1. PICK n \in 1 .. RecvCap :
             /\ n <= Len(q)
             /\ IF IsBye(SubSeq(q, 1, n)) THEN Disconnect(i, Took(net, c, "server", n))
                ELSE Relay(i, Took(net, c, "server", n), SubSeq(q, 1, n))
        BY <1>3, <1>5 DEF HandleData, Received, SlotEndpoint
    <2>2. n \in Nat BY ChatServerAssumption DEF RecvCap
    <2>3. PICK text \in Text : text = SubSeq(q, 1, n)
        <3>1. q \in Seq(Unit) BY <1>1, RoomTypes DEF Text
        <3>2. 1 \in Nat /\ 1 <= 1 BY <2>2
        <3> HIDE DEF q
        <3>3. SubSeq(q, 1, n) \in Seq(Unit) BY <2>1, <2>2, <3>1, SubSeqType
        <3> QED BY <3>3 DEF Text
    <2>4. PICK N \in NetType : N = Took(net, c, "server", n)
        BY <1>4, <2>1, <2>2, TookServerType
    <2>5. TookFrom(N, c, n) BY <1>4, <2>4, TookServer
    <2>6. CASE Disconnect(i, N)
        <3>1. Spares(N, c) BY <2>5 DEF Spares, TookFrom
        <3> QED BY <1>1, <1>3, <2>6, <3>1, DisconnectRoom
    <2>7. CASE Relay(i, N, text)
        BY <1>1, <1>3, <2>1, <2>2, <2>3, <2>5, <2>7, RelayRoom
    <2> QED BY <2>1, <2>3, <2>4, <2>6, <2>7
<1>6. CASE HandleEof(i)
    <2>1. Disconnect(i, net) BY <1>6 DEF HandleEof
    <2>2. Spares(net, c) BY DEF Spares
    <2> QED BY <1>1, <1>3, <1>4, <2>1, <2>2, DisconnectRoom
<1>7. CASE HandleReset(i) BY <1>1, <1>7, HandleResetRoom
<1> QED BY <1>2, <1>5, <1>6, <1>7

LEMMA ClosingRoom ==
    ASSUME RoomInv, CloseSockets \/ Return, UNCHANGED clientVars PROVE RoomInv'
<1>1. pc' \notin Alive BY DEF CloseSockets, Return, Alive, Serving
<1> QED BY <1>1, GoneRoom

(***************************************************************************)
(* Every step keeps the invariant.                                         *)
(***************************************************************************)
LEMMA RoomInit == Init => RoomInv
<1> SUFFICES ASSUME Init PROVE RoomInv OBVIOUS
<1>1. /\ pc = "start" /\ backlog = <<>> /\ fdtab = [fd \in Fds |-> NoClient]
      /\ \A c \in Clients : ~ Up(c) /\ screen[c] = <<>> /\ sent[c] = <<>>
      /\ Occupied = {}
    BY DEF Init, TcpInit, ServerInit, ClientInit, Fresh, Up, Occupied, Sides
<1>2. Blank BY <1>1 DEF Blank
<1>3. Unheard /\ Unread /\ Ends BY <1>1 DEF Unheard, Unread, Ends
<1>4. Notices /\ Rosters /\ Talks BY <1>1 DEF Notices, Rosters, Talks
<1> QED BY <1>2, <1>3, <1>4 DEF RoomInv

LEMMA RoomNext == IInv /\ LinkInv /\ RoomInv /\ [Next]_vars => RoomInv'
<1> SUFFICES ASSUME IInv, LinkInv, RoomInv, [Next]_vars PROVE RoomInv' OBVIOUS
<1>1. CASE ServerStep
    BY <1>1, QuietRoom, RefuseRoom, AcceptRoom, RecvNameRoom, HandleClientRoom, GoodbyeRoom,
       ClosingRoom
    DEF ServerStep, ServerSteps
<1>2. CASE Signal \/ Fault BY <1>2, QuietRoom, RecvNameRoom DEF Signal, Sigint, Fault
<1>3. ASSUME NEW c \in Clients, ClientStep(c) \/ UserStep(c) PROVE RoomInv'
    BY <1>3, ConnectRoom, ClientRoom DEF ClientStep, UserStep, ClientSteps, UserSteps
<1>4. ASSUME NEW c \in Clients, NEW s \in Sides, ResetAt(c, s) PROVE RoomInv'
    BY <1>4, ResetRoom
<1>5. CASE UNCHANGED vars
    <2>1. /\ UNCHANGED <<pc, running, client_sockets, fdtab, new_socket, backlog, net, screen, sent>>
          /\ UNCHANGED clientVars
        BY <1>5 DEF vars, tcpVars, serverVars, clientVars
    <2>2. pc' \in Alive => Settled
        BY <2>1, MembersKept DEF Settled, Outside, Awaited, Queued, clientVars
    <2>3. Silent BY <2>1, CarriesSame, CarriesSilent
    <2>4. Blank' BY <2>1, BlankKept DEF RoomInv
    <2> QED BY <2>2, <2>3, <2>4, RoomKept DEF IInv
<1> QED BY <1>1, <1>2, <1>3, <1>4, <1>5 DEF Next

LEMMA RoomInvariant == Spec => [](IInv /\ RoomInv)
<1>1. Init => RoomInv BY RoomInit
<1>2. IInv /\ LinkInv /\ RoomInv /\ [Next]_vars => RoomInv' BY RoomNext
<1> QED BY <1>1, <1>2, Invariance, LinksInvariant, PTL DEF Spec

\* Whoever believes the welcome message and every "joined" and "left" after it
\* knows the server's table, whatever interleaving of arrivals, departures and
\* resets went before.
THEOREM RosterKept == Spec => []RosterExact
<1>1. IInv /\ RoomInv => RosterExact
    <2> SUFFICES ASSUME IInv, RoomInv, pc \in Alive, NEW r \in Reachable
                 PROVE  Roster(Told(r)) = Members \ {r}
        BY DEF RosterExact
    <2>1. r \in Clients /\ Insider(r) /\ Up(r) BY MembersType DEF Reachable, Insider, Up
    <2> QED BY <2>1 DEF RoomInv, Rosters
<1> QED BY <1>1, RoomInvariant, PTL

\* However recv cuts the stream of a sender into messages, what a reachable
\* member heard of it and what the server has yet to read are the end of what
\* was sent, all but the user name for those who saw the sender join.
THEOREM ConversationKept == Spec => []ConversationIntact
<1>1. IInv /\ RoomInv => ConversationIntact
    <2> SUFFICES ASSUME IInv, RoomInv, running, pc \in Alive,
                        NEW r \in Reachable, NEW s \in Reachable, r # s
                 PROVE  Talk(s, r)
        BY DEF ConversationIntact, Talk
    <2>1. /\ r \in Clients /\ Insider(r) /\ Up(r)
          /\ s \in Clients /\ s \in Members /\ Up(s)
        BY MembersType DEF Reachable, Insider, Up
    <2> QED BY <2>1 DEF RoomInv, Talks
<1> QED BY <1>1, RoomInvariant, PTL
=============================================================================
