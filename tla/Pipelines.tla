----------------------------- MODULE Pipelines -----------------------------
(***************************************************************************)
(* SortedPermFinder/spfind.c, countprocess/countprocess.c and              *)
(* Cpipes/pipes.c: a parent, the children it connects with pipes, and the  *)
(* programs they execute.                                                  *)
(***************************************************************************)
EXTENDS Pfind

LOCAL INSTANCE SequencesExt

CONSTANTS
    PsLines,            \* the outputs of ps, sequences of numbers
    Wanted              \* the lines grep looks for

VARIABLE table          \* what ps will print

(***************************************************************************)
(* ps, grep, wc and sort: they read all there is, then write.              *)
(***************************************************************************)
Filters == {"grep", "grep -l", "wc", "sort"}

Output(prog, lines) ==
    LET wanted == SelectSeq(lines, LAMBDA line : line \in Wanted)
    IN  CASE prog = "grep" -> wanted
          [] prog = "grep -l" -> IF wanted = <<>> THEN <<>> ELSE <<Message>>
          [] prog = "wc" -> <<Len(lines)>>
          [] prog = "sort" -> SortSeq(lines, <)

FilterMem(out) == [out |-> out]

ReadInput(p, prog) ==
    /\ At(p, prog, "input")
    /\ \/ /\ HasData(p, 0)
          /\ \E n \in 1 .. PipeCap :
               /\ Read(p, 0, n)
               /\ Step(p, "input", FilterMem(procs[p].mem.out \o Lines(p, 0, n)))
       \/ /\ EndOfFile(p, 0)
          /\ Step(p, "flush", FilterMem(Output(prog, procs[p].mem.out)))
          /\ UNCHANGED pipes
    /\ UNCHANGED <<screen, fails, signals>>

\* Also pfind's stdout is flushed a line at a time.
Flush(p, prog) ==
    /\ At(p, prog, "flush")
    /\ LET out == procs[p].mem.out
       IN
       \/ /\ out # <<>> /\ CanWrite(p)
          /\ Write(p, Head(out))
          /\ Step(p, "flush", [procs[p].mem EXCEPT !.out = Tail(@)])
       \/ /\ out # <<>> /\ BrokenPipe(p)
          /\ Exit(p, "killed")
          /\ UNCHANGED <<pipes, screen>>
       \/ /\ out = <<>>
          /\ Exit(p, "exited")
          /\ UNCHANGED <<pipes, screen>>
    /\ UNCHANGED <<fails, signals>>

CommandStep(p) ==
    \/ \E prog \in Filters : ReadInput(p, prog)
    \/ \E prog \in Filters \cup {"ps", "pfind"} : Flush(p, prog)
    \/ PfindStep(p)

\* exec after the descriptors fd were arranged, or its failure.
ExecOr(p, prog, pc, mem, fd, Failed) ==
    /\ \/ Exec(p, prog, pc, mem, fd) /\ UNCHANGED fails
       \/ Fails /\ Failed
    /\ UNCHANGED <<pipes, screen, signals>>

\* fork whose result is not looked at: a failure goes on like the parent.
ForkUnchecked(p, prog, pc, next, childPc) ==
    /\ At(p, prog, pc)
    /\ \/ Fork(p, next, childPc) /\ UNCHANGED fails
       \/ ForkFails(p, next)
    /\ UNCHANGED <<pipes, screen, signals>>

PipedFd(qs) ==          \* the pipes qs were made
    [d \in Descriptors |->
        IF d \in UNION {{ReadEnd(q), WriteEnd(q)} : q \in qs} THEN d ELSE AtTerminal[d]]

(***************************************************************************)
(* spfind.  Pipe 1 is p_to_sort, pipe 2 is sort_to_parent.                 *)
(***************************************************************************)
SpfindMem(line) == [argv |-> line, pid |-> 0, num |-> 0]

SpfindStart(p) ==
    /\ At(p, "spfind", "main")
    /\ IF procs[p].mem.argv = <<>>
       THEN Exit(p, "failed")
       ELSE procs' = [procs EXCEPT ![p].pc = "fork1", ![p].fd = PipedFd({1, 2})]
    /\ UNCHANGED <<pipes, screen, fails, signals>>

SpfindFork(p) ==
    \/ ForkUnchecked(p, "spfind", "fork1", "fork2", "pfind")
    \/ ForkUnchecked(p, "spfind", "fork2", "close", "sort")

SpfindChild(p) ==
    \/ /\ At(p, "spfind", "pfind")
       /\ ExecOr(p, "pfind", "options", PfindMem(procs[p].mem.argv),
                 Close(Dup2(procs[p].fd, WriteEnd(1), 1), {ReadEnd(1), ReadEnd(2), WriteEnd(2)}),
                 Exit(p, "failed"))
    \/ /\ At(p, "spfind", "sort")
       /\ ExecOr(p, "sort", "input", FilterMem(<<>>),
                 Close(Dup2(Dup2(procs[p].fd, ReadEnd(1), 0), WriteEnd(2), 1),
                       {WriteEnd(1), ReadEnd(2)}),
                 Exit(p, "failed"))

ToClose_KeepsInput == {WriteEnd(2), ReadEnd(1)}
ToClose == {WriteEnd(2), ReadEnd(1), WriteEnd(1)}

SpfindClose(p) ==
    /\ At(p, "spfind", "close")
    /\ procs' = [procs EXCEPT ![p].pc = "read",
                    ![p].fd = Close(Dup2(@, ReadEnd(2), 0), ToClose)]
    /\ UNCHANGED <<pipes, screen, fails, signals>>

Counted_Chunk(num, n) == n
Counted(num, n) == num + n

\* The total is printed after every read.
SpfindRead(p) ==
    /\ At(p, "spfind", "read")
    /\ \/ /\ HasData(p, ReadEnd(2))
          /\ \E n \in 1 .. PipeCap :
               LET num == Counted(procs[p].mem.num, n)
               IN  /\ Read(p, ReadEnd(2), n)
                   /\ Step(p, "read", [procs[p].mem EXCEPT !.num = num])
                   /\ Shows([i \in 1 .. n |-> <<"line", Lines(p, ReadEnd(2), n)[i]>>]
                            \o <<<<"total", num>>>>)
       \/ /\ EndOfFile(p, ReadEnd(2))
          /\ Exit(p, "exited")
          /\ UNCHANGED <<pipes, screen>>
    /\ UNCHANGED <<fails, signals>>

SpfindStep(p) == SpfindStart(p) \/ SpfindFork(p) \/ SpfindChild(p) \/ SpfindClose(p) \/ SpfindRead(p)

(***************************************************************************)
(* countprocess.  Pipe 1 is ps_to_grep, 2 grep_to_wc, 3 wc_to_parent.  A   *)
(* child whose exec fails goes on as its parent does.                      *)
(***************************************************************************)
CountMem(argc) == [argc |-> argc, pid |-> 0, out |-> <<>>]

CountStart(p) ==
    /\ At(p, "countprocess", "main")
    /\ IF procs[p].mem.argc # 2 THEN Exit(p, "failed")
       ELSE procs' = [procs EXCEPT ![p].pc = "fork1", ![p].fd = PipedFd({1, 2, 3})]
    /\ UNCHANGED <<pipes, screen, fails, signals>>

CountFork(p) ==
    \/ ForkUnchecked(p, "countprocess", "fork1", "fork2", "ps")
    \/ ForkUnchecked(p, "countprocess", "fork2", "fork3", "grep")
    \/ ForkUnchecked(p, "countprocess", "fork3", "close", "wc")

\* exec once the ends `closed' are closed and `from' and `to' are stdin and stdout.
CountExec(p, pc, prog, input, out, from, to, closed, next) ==
    LET fd == Close(Dup2(Dup2(procs[p].fd, from, 0), to, 1), closed)
    IN  /\ At(p, "countprocess", pc)
        /\ ExecOr(p, prog, input, FilterMem(out), fd,
                  procs' = [procs EXCEPT ![p].pc = next, ![p].fd = fd])

CountChild(p) ==
    \/ CountExec(p, "ps", "ps", "flush", table, 0, WriteEnd(1),
                 {ReadEnd(1), ReadEnd(2), WriteEnd(2), ReadEnd(3), WriteEnd(3)}, "fork2")
    \/ CountExec(p, "grep", "grep", "input", <<>>, ReadEnd(1), WriteEnd(2),
                 {WriteEnd(1), ReadEnd(2), ReadEnd(3), WriteEnd(3)}, "fork3")
    \/ CountExec(p, "wc", "wc", "input", <<>>, ReadEnd(2), WriteEnd(3),
                 {WriteEnd(2), ReadEnd(3), ReadEnd(1), WriteEnd(1)}, "close")

CountToClose == {WriteEnd(3), ReadEnd(1), WriteEnd(1), ReadEnd(2), WriteEnd(2)}

CountClose(p) ==
    /\ At(p, "countprocess", "close")
    /\ procs' = [procs EXCEPT ![p].pc = "read",
                    ![p].fd = Close(Dup2(@, ReadEnd(3), 0), CountToClose)]
    /\ UNCHANGED <<pipes, screen, fails, signals>>

\* One read; at the end of the file the buffer is empty, and atoi makes it 0.
\* What is printed for a pipe is flushed at the end.
CountRead(p) ==
    /\ At(p, "countprocess", "read")
    /\ \E n \in IF HasData(p, 0) THEN {Lines(p, 0, 1)[1]} ELSE {0} :
         /\ \/ HasData(p, 0) /\ Read(p, 0, 1)
            \/ EndOfFile(p, 0) /\ UNCHANGED pipes
         /\ IF procs[p].fd[1] = Terminal
            THEN Shows(<<<<"count", n>>>>) /\ Goto(p, "wait1")
            ELSE /\ Step(p, "wait1", [procs[p].mem EXCEPT !.out = <<Message>>])
                 /\ UNCHANGED screen
    /\ UNCHANGED <<fails, signals>>

\* wait returns at once when there is no child.
NoChild(p) ==
    \A c \in Pids : procs[c].parent = p => procs[c].state \in {"none", "gone"}

WaitThen(p, prog, pc, next) ==
    /\ At(p, prog, pc)
    /\ \/ \E c \in Zombies(p) : Reap(p, c, next)
       \/ NoChild(p) /\ Goto(p, next)
    /\ UNCHANGED <<pipes, screen, fails, signals>>

CountStep(p) ==
    \/ CountStart(p) \/ CountFork(p) \/ CountChild(p) \/ CountClose(p) \/ CountRead(p)
    \/ WaitThen(p, "countprocess", "wait1", "wait2")
    \/ WaitThen(p, "countprocess", "wait2", "wait3")
    \/ WaitThen(p, "countprocess", "wait3", "flush")
    \/ Flush(p, "countprocess")

(***************************************************************************)
(* pipes.  Pipe 1 is grep_to_parent, pipe 2 is ps_to_grep.                 *)
(***************************************************************************)
PipesMem(argc) == [argc |-> argc, pid |-> 0]

PipesStart(p) ==
    /\ At(p, "pipes", "main")
    /\ IF procs[p].mem.argc # 2 THEN Exit(p, "failed")
       ELSE procs' = [procs EXCEPT ![p].pc = "fork1", ![p].fd = PipedFd({1})]
    /\ UNCHANGED <<pipes, screen, fails, signals>>

PipesMiddle(p) ==
    /\ At(p, "pipes", "pipe")
    /\ procs' = [procs EXCEPT ![p].pc = "fork2",
                    ![p].fd = [PipedFd({1, 2}) EXCEPT ![0] = procs[p].fd[0]]]
    /\ UNCHANGED <<pipes, screen, fails, signals>>

PipesExec(p) ==
    \/ /\ At(p, "pipes", "ps")
       /\ ExecOr(p, "ps", "flush", FilterMem(table),
                 Close(Dup2(procs[p].fd, WriteEnd(2), 1), {ReadEnd(2)}), Exit(p, "exited"))
    \/ /\ At(p, "pipes", "grep")
       /\ ExecOr(p, "grep -l", "input", FilterMem(<<>>),
                 Close(Dup2(Dup2(procs[p].fd, ReadEnd(2), 0), WriteEnd(1), 1),
                       {WriteEnd(2), ReadEnd(1)}), Exit(p, "exited"))

PipesClose(p) ==
    /\ At(p, "pipes", "close")
    /\ procs' = [procs EXCEPT ![p].pc = "read",
                    ![p].fd = Close(Dup2(@, ReadEnd(1), 0), {WriteEnd(1)})]
    /\ UNCHANGED <<pipes, screen, fails, signals>>

PipesRead(p) ==
    /\ At(p, "pipes", "read")
    /\ \/ /\ HasData(p, ReadEnd(1))
          /\ \E n \in 1 .. PipeCap :
               /\ Read(p, ReadEnd(1), n)
               /\ Shows([i \in 1 .. n |-> <<"line", Lines(p, ReadEnd(1), n)[i]>>])
          /\ UNCHANGED procs
       \/ EndOfFile(p, ReadEnd(1)) /\ Exit(p, "exited") /\ UNCHANGED <<pipes, screen>>
    /\ UNCHANGED <<fails, signals>>

PipesStep(p) ==
    \/ PipesStart(p) \/ PipesMiddle(p) \/ PipesExec(p) \/ PipesClose(p) \/ PipesRead(p)
    \/ ForkUnchecked(p, "pipes", "fork1", "wait", "pipe")
    \/ ForkUnchecked(p, "pipes", "fork2", "wait2", "ps")
    \/ WaitThen(p, "pipes", "wait", "close")
    \/ WaitThen(p, "pipes", "wait2", "grep")
=============================================================================
