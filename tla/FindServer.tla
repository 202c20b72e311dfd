----------------------------- MODULE FindServer -----------------------------
(***************************************************************************)
(* lab 11/findserver.c: connect to one port after the other until what     *)
(* listens there says something before the receive timeout.                *)
(***************************************************************************)
EXTENDS Integers

CONSTANTS LastPort      \* bound: the ports are 1 .. LastPort, for 1024 .. 65535

ASSUME FindServerAssumption == LastPort \in Nat \ {0}

VARIABLES
    ports,              \* port -> what is there: nothing, or a server that
                        \* greets, that hangs up, that is silent
    port, fpc,
    late,               \* the ports whose greeting would have come too late
    open,               \* the sockets that are open
    answer               \* the port that was printed, or 0

findVars == <<ports, port, fpc, late, open, answer>>

Services == {"nothing", "greets", "hangs up", "silent"}

FindInit(services, pc) ==
    /\ ports = services
    /\ port = 1 /\ fpc = pc
    /\ late = {} /\ open = {} /\ answer = 0

\* create_socket, which leaves the socket open when setsockopt fails.
CreateSocket ==
    /\ fpc = "socket"
    /\ \/ open' = open \cup {port} /\ fpc' = "connect"
       \/ open' = open /\ fpc' = "failed"
       \/ open' = open \cup {port} /\ fpc' = "failed"
    /\ UNCHANGED <<ports, port, late, answer>>

NextPort_KeepsOpen == UNCHANGED open
NextPort == open' = open \ {port}

\* The socket is closed and the loop goes on, or is over.
GoOn ==
    /\ NextPort
    /\ IF port = LastPort THEN fpc' = "not found" /\ UNCHANGED port
       ELSE fpc' = "socket" /\ port' = port + 1
    /\ UNCHANGED <<ports, answer>>

TryConnect ==
    /\ fpc = "connect"
    /\ \/ ports[port] = "nothing" /\ GoOn
       \/ /\ ports[port] # "nothing" /\ fpc' = "recv"
          /\ UNCHANGED <<ports, port, open, answer>>
    /\ UNCHANGED late

\* recv returns the greeting, 0 when the server hung up, or -1 at the timeout.
RecvGreeting ==
    /\ fpc = "recv"
    /\ \/ /\ ports[port] \in {"greets", "hangs up"}
          /\ answer' = port
          /\ fpc' = "found" /\ open' = open \ {port}
          /\ UNCHANGED <<ports, port, late>>
       \/ late' = late \cup {port} /\ GoOn

FindStep == CreateSocket \/ TryConnect \/ RecvGreeting
=============================================================================
