-------------------------------- MODULE Chat --------------------------------
(***************************************************************************)
(* The chat system of hw7: one server, its clients and the network between *)
(* them.                                                                   *)
(***************************************************************************)
EXTENDS ChatServer, ChatClient

vars == <<tcpVars, serverVars, clientVars>>

Init == TcpInit /\ ServerInit /\ ClientInit

ResetAt(c, s) == ResetArrives(c, s) /\ UNCHANGED <<serverVars, clientVars>>
ServerStep    == ServerSteps /\ UNCHANGED clientVars
Signal        == Sigint /\ UNCHANGED clientVars
Fault         == SelectFails /\ UNCHANGED clientVars
ClientStep(c) == ClientSteps(c) /\ UNCHANGED serverVars
UserStep(c)   == UserSteps(c) /\ UNCHANGED serverVars

Next ==
    \/ ServerStep
    \/ Signal
    \/ Fault
    \/ \E c \in Clients : ClientStep(c) \/ UserStep(c)
    \/ \E c \in Clients, s \in Sides : ResetAt(c, s)

Spec == Init /\ [][Next]_vars

(***************************************************************************)
(* Fairness: processes are scheduled and resets are delivered.  Nobody has *)
(* to type, to press CTRL+C or to stay connected, and select need not fail. *)
(***************************************************************************)
Fairness ==
    /\ WF_vars(ServerStep)
    /\ \A c \in Clients : WF_vars(ClientStep(c))
    /\ \A c \in Clients, s \in Sides : WF_vars(ResetAt(c, s))

FairSpec == Spec /\ Fairness

(***************************************************************************)
(* Types.                                                                  *)
(***************************************************************************)
Notice == NoticeOf(Clients)

ConnType ==
    [client : [inq : Seq(Notice), link : Links],
     server : [inq : Text, link : Links]]
NetType == [Clients -> ConnType]

ServerTypeOK ==
    /\ pc \in Alive \cup {"returning"} \cup Down
    /\ running \in BOOLEAN
    /\ client_sockets \in [Slots -> Fds \cup {NoFd}]
    /\ usernames \in [Slots -> Text \cup {NULL}]
    /\ num_connections \in 0 .. MAX_CONNECTIONS
    /\ inbuf \in Text /\ Len(inbuf) <= MAX_MSG_LEN + 1
    /\ sockset \subseteq Fds \cup {ListenFd}
    /\ slot \in 0 .. MAX_CONNECTIONS
    /\ new_socket \in Fds \cup {NoFd}
    /\ fdtab \in [Fds -> Clients \cup {NoClient}]
    /\ retval \in {0, 1}

ClientTypeOK ==
    /\ cpc \in [Clients -> {"prompt", "connect", "welcome", "name"}
                             \cup Chatting \cup Ended]
    /\ username \in [Clients -> Text]
    /\ typed \in 0 .. MaxTyped
    /\ sent \in [Clients -> Text]
    /\ screen \in [Clients -> Seq(Notice)]

\* Every variable holds a value of its C type, the table never counts more
\* than MAX_CONNECTIONS connections, and recv never returns more than inbuf
\* was asked to hold.
TypeOK ==
    /\ net \in NetType
    /\ backlog \in Seq(Clients)
    /\ listening \in BOOLEAN
    /\ ServerTypeOK
    /\ ClientTypeOK

(***************************************************************************)
(* Safety of the server's table.                                           *)
(***************************************************************************)

\* The three arrays and the counter that accept, disconnect and cleanup keep
\* by hand agree: a slot has a name exactly when it has a socket, the counter
\* counts the used slots, and while the process runs no two slots share a
\* descriptor and every one is open on a client of its own.
SlotTable ==
    /\ \A i \in Slots : client_sockets[i] = NoFd <=> usernames[i] = NULL
    /\ num_connections = Cardinality(Occupied)
    /\ \A i, j \in Occupied :
          client_sockets[i] = client_sockets[j] => i = j
    /\ pc \in Alive =>
          /\ Members \subseteq Clients
          /\ \A i, j \in Occupied : ConnOf(i) = ConnOf(j) => i = j

\* The search of lines 215-224 for a free slot never comes back empty handed:
\* the test for a full server, several calls earlier and with a blocking recv
\* in between, still holds.
FreeSlotForAccepted == pc = "name" => FreeSlots # {}

\* recv on a client socket never blocks the server: what select reported is
\* still so when the loop gets to the slot, whatever was accepted, closed or
\* reused earlier in the same round.
NoBlockedRecv ==
    pc = "clients" /\ running => \A i \in Pending : Readable(SlotEndpoint(i))

\* While the server serves it does not lose track of a client whose connection
\* is open: it is in the backlog, in the table, or the one whose name is
\* awaited.  The descriptor a premature hang-up leaks is never a live client's.
NobodyForgotten ==
    pc \in Serving =>
        \A c \in Clients :
            Own(c).link = "up" =>
                \/ c \in Queued \cup Members
                \/ pc = "name" /\ c = fdtab[new_socket]

(***************************************************************************)
(* What the program says of itself and does not keep.                      *)
(***************************************************************************)

\* "Warning: Failed to broadcast message." (chatserver.c 65-67): a send that
\* fails is only a warning, so no client can end the server.
FailedSendIsAWarning == running => pc # "killed"

\* "Press CTRL+C to exit." (chatserver.c 356), under FairSpec.
InterruptedServerExits == ~ running ~> pc \in Down

\* "forcefully closing all the sockets" (chatserver.c 109-110): after cleanup
\* the process holds no open connection.
CleanupClosesAll == pc = "returning" => OpenConns = {}

(***************************************************************************)
(* Liveness, under FairSpec.                                               *)
(***************************************************************************)

\* A member whose process ended is taken out of the table, so that its slot
\* can be used again (133-136), unless the server itself goes.
LeaverFreed ==
    \A c \in Clients :
        (c \in Members /\ cpc[c] \in Ended) ~> (c \notin Members \/ pc \in Down)

\* Nobody waits for the welcome message for ever: it comes, or the server
\* closes the connection.
Answered == \A c \in Clients : cpc[c] = "welcome" ~> cpc[c] # "welcome"

\* Bytes a client sent do not stay in the server's receive queue for ever.
Consumed ==
    \A c \in Clients :
        HasData(net[c]["server"]) ~> ~ HasData(net[c]["server"])

\* When the server is gone every client that was started notices and ends.
ClientsFollow ==
    pc \in Down ~> \A c \in Clients : cpc[c] \in Ended \cup {"prompt"}
=============================================================================
