------------------------------- MODULE Unix -------------------------------
(***************************************************************************)
(* Processes, descriptors, pipes, signals and the terminal, as the lab     *)
(* programs use them.                                                      *)
(*                                                                         *)
(* Descriptors 0 and 1 are stdin and stdout; the ends of the q-th pipe are *)
(* made as 2q + 1 (to read) and 2q + 2 (to write).  A descriptor is open   *)
(* on the terminal, on the end of a pipe that has that number, or closed.  *)
(* What goes through a pipe is counted in lines.                           *)
(***************************************************************************)
EXTENDS Integers, FiniteSets, Sequences

CONSTANTS
    MaxPid,             \* bound: the processes there may be at a time
    PipeCap,            \* the lines a pipe holds
    MaxFails,           \* bound: the calls that fail
    MaxSignals          \* bound: the signals sent from outside

ASSUME UnixAssumption ==
    /\ MaxPid \in Nat \ {0} /\ PipeCap \in Nat \ {0}
    /\ MaxFails \in Nat /\ MaxSignals \in Nat

Pids  == 1 .. MaxPid
Root  == 1              \* the process the user started
Pipes == 1 .. 3

Closed == -1
Terminal == 0
ReadEnd(q)  == 2 * q + 1
WriteEnd(q) == 2 * q + 2
PipeOf(end) == (end - 1) \div 2
Descriptors == {0, 1} \cup UNION {{ReadEnd(q), WriteEnd(q)} : q \in Pipes}

VARIABLES
    procs,              \* pid -> [state, parent, prog, pc, mem, fd, int, stopped, news, how]
    pipes,              \* pipe -> the lines in it
    screen,             \* what was written to the terminal
    fails, signals      \* how many calls failed, how many signals were sent

unixVars == <<procs, pipes, screen, fails, signals>>

NoProcess ==
    [state |-> "none", parent |-> 0, prog |-> "", pc |-> "", mem |-> <<>>,
     fd |-> [d \in Descriptors |-> Closed],
     int |-> FALSE,             \* SIGINT is pending
     stopped |-> FALSE,
     news |-> "",               \* stopped or continued, and waitpid did not say so yet
     how |-> ""]                \* exited, failed or killed

AtTerminal == [d \in Descriptors |-> IF d <= 1 THEN Terminal ELSE Closed]

Started(prog, pc, mem) ==
    [NoProcess EXCEPT !.state = "running", !.prog = prog, !.pc = pc, !.mem = mem, !.fd = AtTerminal]

UnixInit(root) ==
    /\ procs = [p \in Pids |-> IF p = Root THEN root ELSE NoProcess]
    /\ pipes = [q \in Pipes |-> <<>>]
    /\ screen = <<>>
    /\ fails = 0 /\ signals = 0

Running(p) == procs[p].state = "running"
Zombies(p) == {c \in Pids : procs[c].parent = p /\ procs[c].state = "zombie"}

\* p can take the step at pc of prog: no signal stops it or comes first.
At(p, prog, pc) ==
    /\ Running(p) /\ ~ procs[p].int /\ ~ procs[p].stopped
    /\ procs[p].prog = prog /\ procs[p].pc = pc

Goto(p, pc) == procs' = [procs EXCEPT ![p].pc = pc]
Step(p, pc, mem) == procs' = [procs EXCEPT ![p].pc = pc, ![p].mem = mem]
Shows(lines) == screen' = screen \o lines

\* A call that may fail does.
Fails ==
    /\ fails < MaxFails
    /\ fails' = fails + 1

(***************************************************************************)
(* fork, exec, exit, wait.                                                 *)
(***************************************************************************)
Unused == {p \in Pids : procs[p].state \in {"none", "gone"}}

\* The new process is at childPc with a copy of everything; mem.pid is what
\* fork returned.
Fork(p, pc, childPc) ==
    \E c \in {c \in Unused : \A u \in Unused : c <= u} :
        procs' = [procs EXCEPT
            ![p].pc = pc, ![p].mem.pid = c,
            ![c] = [procs[p] EXCEPT !.parent = p, !.pc = childPc, !.mem.pid = 0, !.news = ""]]

ForkFails(p, pc) ==
    /\ Fails
    /\ procs' = [procs EXCEPT ![p].pc = pc, ![p].mem.pid = -1]

Exec(p, prog, pc, mem, fd) ==
    procs' = [procs EXCEPT ![p].prog = prog, ![p].pc = pc, ![p].mem = mem, ![p].fd = fd]

\* The children that ended are reaped by init, as p will be when nobody waits.
Exit(p, how) ==
    procs' = [q \in Pids |->
        CASE q = p ->
                [procs[p] EXCEPT
                    !.state = IF procs[p].parent \in Pids /\ Running(procs[p].parent)
                              THEN "zombie" ELSE "gone",
                    !.fd = NoProcess.fd, !.int = FALSE, !.stopped = FALSE, !.news = "",
                    !.how = how]
          [] q \in Zombies(p) -> [procs[q] EXCEPT !.state = "gone"]
          [] OTHER -> procs[q]]

Reap(p, c, pc) == procs' = [procs EXCEPT ![c].state = "gone", ![p].pc = pc]

(***************************************************************************)
(* Pipes.                                                                  *)
(***************************************************************************)
Close(fd, ds) == [d \in Descriptors |-> IF d \in ds THEN Closed ELSE fd[d]]

\* dup2 of a descriptor that is closed fails and changes nothing.
Dup2(fd, from, to) == IF fd[from] = Closed THEN fd ELSE [fd EXCEPT ![to] = fd[from]]

Holders(end) == {p \in Pids : Running(p) /\ \E d \in Descriptors : procs[p].fd[d] = end}

HasData(p, d) ==
    /\ procs[p].fd[d] > Terminal
    /\ pipes[PipeOf(procs[p].fd[d])] # <<>>

EndOfFile(p, d) ==
    LET end == procs[p].fd[d]
    IN  end > Terminal /\ pipes[PipeOf(end)] = <<>> /\ Holders(end + 1) = {}

\* A read may return less than the pipe holds.
Read(p, d, n) ==
    LET q == PipeOf(procs[p].fd[d])
    IN  /\ n \in 1 .. Len(pipes[q])
        /\ pipes' = [pipes EXCEPT ![q] = SubSeq(@, n + 1, Len(@))]

Lines(p, d, n) == SubSeq(pipes[PipeOf(procs[p].fd[d])], 1, n)

\* A write to a full pipe waits.
CanWrite(p) ==
    LET end == procs[p].fd[1]
    IN  end > Terminal => Holders(end - 1) # {} /\ Len(pipes[PipeOf(end)]) < PipeCap

Write(p, line) ==
    LET end == procs[p].fd[1]
    IN  IF end = Terminal
        THEN Shows(<<<<"line", line>>>>) /\ UNCHANGED pipes
        ELSE /\ pipes' = [pipes EXCEPT ![PipeOf(end)] = Append(@, line)]
             /\ UNCHANGED screen

\* Nobody can read what is written any more: SIGPIPE.
BrokenPipe(p) ==
    LET end == procs[p].fd[1] IN end > Terminal /\ Holders(end - 1) = {}

(***************************************************************************)
(* Signals from outside.                                                   *)
(***************************************************************************)
Signal(new) ==
    /\ signals < MaxSignals
    /\ signals' = signals + 1
    /\ procs' = new
    /\ UNCHANGED <<pipes, screen, fails>>

\* CTRL+C interrupts all that do not ignore it.
Interrupt(ignoring) ==
    Signal([p \in Pids |-> IF Running(p) /\ procs[p].prog \notin ignoring
                           THEN [procs[p] EXCEPT !.int = TRUE] ELSE procs[p]])

\* A process that does not catch it dies of it.
DiesOf(p) == procs[p].int /\ Exit(p, "killed")

StopChild(c) ==
    /\ Running(c) /\ ~ procs[c].stopped
    /\ Signal([procs EXCEPT ![c].stopped = TRUE, ![c].news = "stopped"])

ContinueChild(c) ==
    /\ procs[c].stopped
    /\ Signal([procs EXCEPT ![c].stopped = FALSE, ![c].news = "continued"])

UnixTypeOK ==
    /\ \A p \in Pids :
          /\ procs[p].state \in {"none", "running", "zombie", "gone"}
          /\ procs[p].parent \in 0 .. MaxPid
          /\ procs[p].fd \in [Descriptors -> {Closed, Terminal} \cup Descriptors]
          /\ procs[p].news \in {"", "stopped", "continued"}
          /\ procs[p].how \in {"", "exited", "failed", "killed"}
    /\ \A q \in Pipes : Len(pipes[q]) <= PipeCap
    /\ fails \in 0 .. MaxFails /\ signals \in 0 .. MaxSignals
=============================================================================
