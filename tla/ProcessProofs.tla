---------------------------- MODULE ProcessProofs ----------------------------
(***************************************************************************)
(* The processes of the lab programs, for any number of them, of pipes'    *)
(* lines, failures and signals: the types of the process table, whose      *)
(* program a process may execute, and what holds of the programs that      *)
(* fork, wait and catch signals.                                           *)
(***************************************************************************)
EXTENDS Labs, TLAPS, FiniteSetTheorems

(***************************************************************************)
(* Processes, and what the operators of Unix make of them.                 *)
(***************************************************************************)
States == {"none", "running", "zombie", "gone"}
News   == {"", "stopped", "continued"}
Hows   == {"", "exited", "failed", "killed"}
Fds    == [Descriptors -> {Closed, Terminal} \cup Descriptors]

ProcOK(x) ==
    /\ x = [state |-> x.state, parent |-> x.parent, prog |-> x.prog, pc |-> x.pc,
            mem |-> x.mem, fd |-> x.fd, int |-> x.int, stopped |-> x.stopped,
            news |-> x.news, how |-> x.how]
    /\ x.state \in States /\ x.parent \in 0 .. MaxPid /\ x.fd \in Fds
    /\ x.int \in BOOLEAN /\ x.stopped \in BOOLEAN /\ x.news \in News /\ x.how \in Hows

ProcsOK ==
    /\ procs = [p \in Pids |-> procs[p]]
    /\ \A p \in Pids : ProcOK(procs[p])

\* What a step of p leaves as it is: the other processes; and of p all but its
\* place and its variables.
Others(p) == \A q \in Pids : q # p => procs'[q] = procs[q]
Same(q) ==
    /\ procs'[q].state = procs[q].state /\ procs'[q].parent = procs[q].parent
    /\ procs'[q].int = procs[q].int /\ procs'[q].stopped = procs[q].stopped
    /\ procs'[q].news = procs[q].news /\ procs'[q].how = procs[q].how
Stays(q) == procs'[q].prog = procs[q].prog /\ procs'[q].pc = procs[q].pc /\ procs'[q].mem = procs[q].mem
Kept(p) == Others(p) /\ Same(p)

LEMMA OneSet ==
    ASSUME ProcsOK, NEW p \in Pids, NEW x, ProcOK(x), procs' = [procs EXCEPT ![p] = x]
    PROVE  ProcsOK' /\ procs'[p] = x /\ Others(p)
BY DEF ProcsOK, Others

MoveOf(x, prog, pc, mem, fd) == [x EXCEPT !.prog = prog, !.pc = pc, !.mem = mem, !.fd = fd]
EndOf(x, st, fd, how) ==
    [x EXCEPT !.state = st, !.fd = fd, !.int = FALSE, !.stopped = FALSE, !.news = "", !.how = how]
GoneOf(x) == [x EXCEPT !.state = "gone"]
ChildOf(x, p, pc, mem) == [x EXCEPT !.parent = p, !.pc = pc, !.mem = mem, !.news = ""]

LEMMA MoveIs ==
    ASSUME NEW x, ProcOK(x), NEW prog, NEW pc, NEW mem, NEW fd \in Fds
    PROVE  LET y == MoveOf(x, prog, pc, mem, fd)
           IN  /\ ProcOK(y) /\ y.prog = prog /\ y.pc = pc /\ y.mem = mem /\ y.fd = fd
               /\ y.state = x.state /\ y.parent = x.parent /\ y.int = x.int
               /\ y.stopped = x.stopped /\ y.news = x.news /\ y.how = x.how
<1> PICK y : y = MoveOf(x, prog, pc, mem, fd) OBVIOUS
<1>1. y = [state |-> x.state, parent |-> x.parent, prog |-> prog, pc |-> pc,
           mem |-> mem, fd |-> fd, int |-> x.int, stopped |-> x.stopped,
           news |-> x.news, how |-> x.how]
    BY DEF ProcOK, MoveOf
<1> QED BY <1>1 DEF ProcOK

\* What is left of a process that ended, and of what it was.
Ended(y, x, st, how) ==
    /\ ProcOK(y) /\ y.state = st /\ y.parent = x.parent /\ y.prog = x.prog
    /\ y.pc = x.pc /\ y.mem = x.mem /\ y.int = FALSE /\ y.stopped = FALSE
    /\ y.how = how

LEMMA EndedIs ==
    ASSUME NEW x, ProcOK(x), NEW st \in States, NEW fd \in Fds, NEW how \in Hows
    PROVE  Ended(EndOf(x, st, fd, how), x, st, how)
<1> PICK y : y = EndOf(x, st, fd, how) OBVIOUS
<1>1. y = [state |-> st, parent |-> x.parent, prog |-> x.prog, pc |-> x.pc,
           mem |-> x.mem, fd |-> fd, int |-> FALSE, stopped |-> FALSE,
           news |-> "", how |-> how]
    BY DEF ProcOK, EndOf
<1>2. /\ y.state = st /\ y.parent = x.parent /\ y.prog = x.prog /\ y.pc = x.pc /\ y.mem = x.mem
      /\ y.fd = fd /\ y.int = FALSE /\ y.stopped = FALSE /\ y.news = "" /\ y.how = how
    BY ONLY <1>1
<1>3. y = [state |-> y.state, parent |-> y.parent, prog |-> y.prog, pc |-> y.pc,
           mem |-> y.mem, fd |-> y.fd, int |-> y.int, stopped |-> y.stopped,
           news |-> y.news, how |-> y.how]
    BY <1>1, <1>2
<1>4. ProcOK(y) BY <1>2, <1>3 DEF ProcOK, News
<1> QED BY <1>2, <1>4 DEF Ended

LEMMA GoneIs ==
    ASSUME NEW x, ProcOK(x)
    PROVE  LET y == GoneOf(x)
           IN  /\ ProcOK(y) /\ y.state = "gone" /\ y.parent = x.parent
               /\ y.prog = x.prog /\ y.pc = x.pc /\ y.mem = x.mem
               /\ y.int = x.int /\ y.stopped = x.stopped /\ y.news = x.news /\ y.how = x.how
<1> PICK y : y = GoneOf(x) OBVIOUS
<1>1. y = [state |-> "gone", parent |-> x.parent, prog |-> x.prog, pc |-> x.pc,
           mem |-> x.mem, fd |-> x.fd, int |-> x.int, stopped |-> x.stopped,
           news |-> x.news, how |-> x.how]
    BY DEF ProcOK, GoneOf
<1> QED BY <1>1 DEF ProcOK, States

LEMMA ChildIs ==
    ASSUME NEW x, ProcOK(x), NEW p \in 0 .. MaxPid, NEW pc, NEW mem
    PROVE  LET y == ChildOf(x, p, pc, mem)
           IN  /\ ProcOK(y) /\ y.state = x.state /\ y.parent = p /\ y.prog = x.prog /\ y.pc = pc
               /\ y.mem = mem /\ y.int = x.int /\ y.stopped = x.stopped /\ y.how = x.how
<1> PICK y : y = ChildOf(x, p, pc, mem) OBVIOUS
<1>1. y = [state |-> x.state, parent |-> p, prog |-> x.prog, pc |-> pc,
           mem |-> mem, fd |-> x.fd, int |-> x.int, stopped |-> x.stopped,
           news |-> "", how |-> x.how]
    BY DEF ProcOK, ChildOf
<1>2. /\ y.state = x.state /\ y.parent = p /\ y.prog = x.prog /\ y.pc = pc /\ y.mem = mem
      /\ y.fd = x.fd /\ y.int = x.int /\ y.stopped = x.stopped /\ y.news = "" /\ y.how = x.how
    BY ONLY <1>1
<1>3. y = [state |-> y.state, parent |-> y.parent, prog |-> y.prog, pc |-> y.pc,
           mem |-> y.mem, fd |-> y.fd, int |-> y.int, stopped |-> y.stopped,
           news |-> y.news, how |-> y.how]
    BY <1>1, <1>2
<1>4. ProcOK(y) BY <1>2, <1>3 DEF ProcOK, News
<1> QED BY <1>2, <1>4

LEMMA ExecIs ==
    ASSUME ProcsOK, NEW p \in Pids, NEW prog, NEW pc, NEW mem, NEW fd \in Fds,
           Exec(p, prog, pc, mem, fd)
    PROVE  /\ ProcsOK' /\ Kept(p)
           /\ procs'[p].prog = prog /\ procs'[p].pc = pc /\ procs'[p].mem = mem
<1> PICK x : x = MoveOf(procs[p], prog, pc, mem, fd) OBVIOUS
<1>1. procs' = [procs EXCEPT ![p] = x] BY DEF Exec, MoveOf
<1>2. ProcOK(procs[p]) BY DEF ProcsOK
<1>3. ProcOK(x) /\ x.prog = prog /\ x.pc = pc /\ x.mem = mem
      /\ x.state = procs[p].state /\ x.parent = procs[p].parent /\ x.int = procs[p].int
      /\ x.stopped = procs[p].stopped /\ x.news = procs[p].news /\ x.how = procs[p].how
    BY <1>2, MoveIs
<1>4. ProcsOK' /\ procs'[p] = x /\ Others(p) BY <1>1, <1>3, OneSet
<1> QED BY <1>3, <1>4 DEF Kept, Same

LEMMA StepIs ==
    ASSUME ProcsOK, NEW p \in Pids, NEW pc, NEW mem, Step(p, pc, mem)
    PROVE  /\ ProcsOK' /\ Kept(p)
           /\ procs'[p].prog = procs[p].prog /\ procs'[p].pc = pc /\ procs'[p].mem = mem
<1>1. ProcOK(procs[p]) /\ procs[p].fd \in Fds BY DEF ProcsOK, ProcOK
<1>2. [procs[p] EXCEPT !.pc = pc, !.mem = mem]
          = [procs[p] EXCEPT !.prog = procs[p].prog, !.pc = pc, !.mem = mem, !.fd = procs[p].fd]
    BY <1>1 DEF ProcOK
<1>3. procs' = [procs EXCEPT ![p] = [procs[p] EXCEPT !.pc = pc, !.mem = mem]]
    BY DEF Step
<1>4. Exec(p, procs[p].prog, pc, mem, procs[p].fd) BY <1>2, <1>3 DEF Exec
<1> QED BY <1>1, <1>4, ExecIs

LEMMA GotoIs ==
    ASSUME ProcsOK, NEW p \in Pids, NEW pc, Goto(p, pc)
    PROVE  /\ ProcsOK' /\ Kept(p)
           /\ procs'[p].prog = procs[p].prog /\ procs'[p].pc = pc /\ procs'[p].mem = procs[p].mem
<1>1. ProcOK(procs[p]) BY DEF ProcsOK
<1>2. [procs[p] EXCEPT !.pc = pc] = [procs[p] EXCEPT !.pc = pc, !.mem = procs[p].mem]
    BY <1>1 DEF ProcOK
<1>3. Step(p, pc, procs[p].mem) BY <1>2 DEF Goto, Step
<1> QED BY <1>3, StepIs

\* Those whom p left behind are reaped; a parent that runs is to wait for p.
LEMMA ExitIs ==
    ASSUME ProcsOK, NEW p \in Pids, NEW how \in Hows, Running(p), Exit(p, how)
    PROVE  /\ ProcsOK' /\ \A q \in Pids : Stays(q) /\ procs'[q].parent = procs[q].parent
           /\ procs'[p].state = IF procs[p].parent \in Pids /\ Running(procs[p].parent)
                                THEN "zombie" ELSE "gone"
           /\ procs'[p].int = FALSE /\ procs'[p].stopped = FALSE /\ procs'[p].how = how
           /\ \A q \in Pids : q # p =>
                 /\ procs'[q].state = IF q \in Zombies(p) THEN "gone" ELSE procs[q].state
                 /\ procs'[q].int = procs[q].int /\ procs'[q].stopped = procs[q].stopped
                 /\ procs'[q].news = procs[q].news /\ procs'[q].how = procs[q].how
<1>5. PICK st : st = IF procs[p].parent \in Pids /\ Running(procs[p].parent)
                     THEN "zombie" ELSE "gone"
    OBVIOUS
<1>0. PICK x : x = EndOf(procs[p], st, NoProcess.fd, how) OBVIOUS
<1>1. p \notin Zombies(p) BY DEF Zombies, Running
<1>2. procs' = [q \in Pids |-> IF q = p THEN x
                               ELSE IF q \in Zombies(p) THEN GoneOf(procs[q])
                               ELSE procs[q]]
    BY <1>0, <1>1, <1>5 DEF Exit, EndOf, GoneOf
<1>3. \A q \in Pids : ProcOK(procs[q]) BY DEF ProcsOK
<1>4. NoProcess.fd \in Fds BY DEF NoProcess, Fds
<1>6. st \in States /\ how \in Hows /\ ProcOK(procs[p]) BY <1>3, <1>5 DEF States
<1>7. /\ ProcOK(x) /\ x.state = st /\ x.parent = procs[p].parent /\ x.prog = procs[p].prog
      /\ x.pc = procs[p].pc /\ x.mem = procs[p].mem /\ x.int = FALSE /\ x.stopped = FALSE
      /\ x.how = how
    <2>1. x.state = st BY ONLY <1>0, <1>6 DEF EndOf, ProcOK
    <2>2. Ended(x, procs[p], st, how) BY ONLY <1>0, <1>4, <1>6, EndedIs
    <2> QED BY ONLY <2>1, <2>2 DEF Ended
<1>9. procs'[p] = x BY <1>2
<1>10. ASSUME NEW q \in Pids, q # p
       PROVE  /\ Stays(q) /\ procs'[q].parent = procs[q].parent /\ ProcOK(procs'[q])
              /\ procs'[q].state = IF q \in Zombies(p) THEN "gone" ELSE procs[q].state
              /\ procs'[q].int = procs[q].int /\ procs'[q].stopped = procs[q].stopped
              /\ procs'[q].news = procs[q].news /\ procs'[q].how = procs[q].how
    <2>1. CASE q \in Zombies(p)
        <3>1. procs'[q] = GoneOf(procs[q]) BY <1>2, <1>10, <2>1
        <3> QED BY <1>3, GoneIs, <2>1, <3>1 DEF Stays
    <2>2. CASE q \notin Zombies(p)
        <3>1. procs'[q] = procs[q] BY <1>2, <1>10, <2>2
        <3> QED BY <1>3, <2>2, <3>1 DEF Stays
    <2> QED BY <2>1, <2>2
<1>11. Stays(p) /\ procs'[p].parent = procs[p].parent /\ ProcOK(procs'[p])
    BY <1>7, <1>9 DEF Stays
<1>12. \A q \in Pids : Stays(q) /\ procs'[q].parent = procs[q].parent /\ ProcOK(procs'[q])
    BY <1>10, <1>11
<1>13. procs' = [q \in Pids |-> procs'[q]] BY <1>2
<1>14. ProcsOK' BY <1>12, <1>13 DEF ProcsOK
<1> QED BY <1>5, <1>7, <1>9, <1>10, <1>12, <1>14

\* A new process, a copy of its parent.
ForkOf(p, c, pc, childPc) ==
    /\ c # p /\ procs[c].state \in {"none", "gone"}
    /\ ProcsOK' /\ Same(p) /\ \A q \in Pids : q \notin {p, c} => procs'[q] = procs[q]
    /\ procs'[p].prog = procs[p].prog /\ procs'[p].pc = pc
    /\ procs'[p].mem = [procs[p].mem EXCEPT !.pid = c]
    /\ procs'[c].state = "running" /\ procs'[c].parent = p
    /\ procs'[c].prog = procs[p].prog /\ procs'[c].pc = childPc
    /\ procs'[c].mem = [procs[p].mem EXCEPT !.pid = 0]
    /\ procs'[c].int = procs[p].int /\ procs'[c].stopped = procs[p].stopped
    /\ procs'[c].how = procs[p].how

LEMMA ForkIs ==
    ASSUME ProcsOK, NEW p \in Pids, NEW pc, NEW childPc, Running(p), Fork(p, pc, childPc)
    PROVE  \E c \in Pids : ForkOf(p, c, pc, childPc)
<1>1. PICK c \in Unused :
         procs' = [procs EXCEPT
            ![p].pc = pc, ![p].mem.pid = c,
            ![c] = [procs[p] EXCEPT !.parent = p, !.pc = childPc, !.mem.pid = 0, !.news = ""]]
    BY DEF Fork
<1>2. c \in Pids /\ c # p /\ procs[c].state \in {"none", "gone"} BY DEF Unused, Running
<1>3. ProcOK(procs[p]) BY DEF ProcsOK
<1> PICK x : x = MoveOf(procs[p], procs[p].prog, pc, [procs[p].mem EXCEPT !.pid = c], procs[p].fd)
    OBVIOUS
<1> PICK y : y = ChildOf(procs[p], p, childPc, [procs[p].mem EXCEPT !.pid = 0])
    OBVIOUS
<1>5. x = [procs[p] EXCEPT !.pc = pc, !.mem = [procs[p].mem EXCEPT !.pid = c]]
    BY <1>3 DEF ProcOK, MoveOf
<1>4. procs' = [[procs EXCEPT ![p] = x] EXCEPT ![c] = y]
    <2>1. procs' = [[procs EXCEPT ![p] = [procs[p] EXCEPT !.pc = pc,
                                              !.mem = [procs[p].mem EXCEPT !.pid = c]]]
                        EXCEPT ![c] = y]
        BY <1>1, <1>2, <1>3 DEF ProcsOK, ProcOK, ChildOf
    <2> QED BY <1>5, <2>1
<1>6. p \in 0 .. MaxPid /\ procs[p].fd \in Fds BY <1>3, UnixAssumption DEF Pids, ProcOK
<1>7. /\ ProcOK(x) /\ x.prog = procs[p].prog /\ x.pc = pc
      /\ x.mem = [procs[p].mem EXCEPT !.pid = c]
      /\ x.state = procs[p].state /\ x.parent = procs[p].parent /\ x.int = procs[p].int
      /\ x.stopped = procs[p].stopped /\ x.news = procs[p].news /\ x.how = procs[p].how
    BY <1>3, <1>6, MoveIs
<1>9. /\ ProcOK(y) /\ y.state = procs[p].state /\ y.parent = p /\ y.prog = procs[p].prog
      /\ y.pc = childPc /\ y.mem = [procs[p].mem EXCEPT !.pid = 0]
      /\ y.int = procs[p].int /\ y.stopped = procs[p].stopped /\ y.how = procs[p].how
    BY <1>3, <1>6, ChildIs
<1>10. procs'[p] = x /\ procs'[c] = y /\ \A q \in Pids : q \notin {p, c} => procs'[q] = procs[q]
    BY <1>2, <1>4 DEF ProcsOK
<1>11. procs' = [q \in Pids |-> procs'[q]] BY <1>4, <1>2 DEF ProcsOK
<1>12. \A q \in Pids : ProcOK(procs'[q])
    BY <1>7, <1>9, <1>10 DEF ProcsOK
<1>13. ProcsOK' BY <1>11, <1>12 DEF ProcsOK
<1>14. Same(p) BY <1>7, <1>10 DEF Same
<1> QED BY <1>2, <1>7, <1>9, <1>10, <1>13, <1>14 DEF Running, ForkOf

\* p goes on and c is reaped.
PutTwo(p, x, c, y) == procs' = [[procs EXCEPT ![p] = x] EXCEPT ![c] = y]

LEMMA TwoSet ==
    ASSUME ProcsOK, NEW p \in Pids, NEW c \in Pids, c # p, NEW x, ProcOK(x),
           PutTwo(p, x, c, GoneOf(procs[c]))
    PROVE  /\ ProcsOK' /\ procs'[p] = x
           /\ \A q \in Pids : q \notin {p, c} => procs'[q] = procs[q]
           /\ procs'[c].state = "gone" /\ procs'[c].parent = procs[c].parent /\ Stays(c)
           /\ procs'[c].int = procs[c].int /\ procs'[c].stopped = procs[c].stopped
           /\ procs'[c].news = procs[c].news /\ procs'[c].how = procs[c].how
<1> PICK y : y = GoneOf(procs[c]) OBVIOUS
<1>1. ProcOK(procs[c]) BY DEF ProcsOK
<1>2. procs' = [[procs EXCEPT ![p] = x] EXCEPT ![c] = y] BY DEF PutTwo
<1>3. /\ ProcOK(y) /\ y.state = "gone" /\ y.parent = procs[c].parent
      /\ y.prog = procs[c].prog /\ y.pc = procs[c].pc /\ y.mem = procs[c].mem
      /\ y.int = procs[c].int /\ y.stopped = procs[c].stopped
      /\ y.news = procs[c].news /\ y.how = procs[c].how
    BY <1>1, GoneIs
<1>4. procs'[p] = x /\ procs'[c] = y /\ \A q \in Pids : q \notin {p, c} => procs'[q] = procs[q]
    BY <1>2 DEF ProcsOK
<1>5. procs' = [q \in Pids |-> procs'[q]] BY <1>2 DEF ProcsOK
<1>6. ProcsOK' BY <1>3, <1>4, <1>5 DEF ProcsOK
<1> QED BY <1>3, <1>4, <1>6 DEF Stays

LEMMA ReapIs ==
    ASSUME ProcsOK, NEW p \in Pids, NEW c \in Pids, NEW pc, c # p, Reap(p, c, pc)
    PROVE  /\ ProcsOK' /\ Same(p)
           /\ procs'[p].prog = procs[p].prog /\ procs'[p].pc = pc /\ procs'[p].mem = procs[p].mem
           /\ \A q \in Pids : q \notin {p, c} => procs'[q] = procs[q]
           /\ procs'[c].state = "gone" /\ procs'[c].parent = procs[c].parent /\ Stays(c)
           /\ procs'[c].int = procs[c].int /\ procs'[c].stopped = procs[c].stopped
           /\ procs'[c].news = procs[c].news /\ procs'[c].how = procs[c].how
<1> PICK x : x = MoveOf(procs[p], procs[p].prog, pc, procs[p].mem, procs[p].fd) OBVIOUS
<1>1. ProcOK(procs[p]) /\ procs[p].fd \in Fds BY DEF ProcsOK, ProcOK
<1>2. [procs[p] EXCEPT !.pc = pc] = x BY <1>1 DEF ProcOK, MoveOf
<1>3. procs' = [[procs EXCEPT ![p] = [procs[p] EXCEPT !.pc = pc]] EXCEPT ![c].state = "gone"]
    BY DEF Reap, ProcsOK
<1>4. /\ ProcOK(x) /\ x.prog = procs[p].prog /\ x.pc = pc /\ x.mem = procs[p].mem
      /\ x.state = procs[p].state /\ x.parent = procs[p].parent /\ x.int = procs[p].int
      /\ x.stopped = procs[p].stopped /\ x.news = procs[p].news /\ x.how = procs[p].how
    BY <1>1, MoveIs
<1>5. PutTwo(p, x, c, GoneOf(procs[c]))
    BY <1>2, <1>3 DEF ProcsOK, GoneOf, PutTwo
<1>6. /\ ProcsOK' /\ procs'[p] = x
      /\ \A q \in Pids : q \notin {p, c} => procs'[q] = procs[q]
      /\ procs'[c].state = "gone" /\ procs'[c].parent = procs[c].parent /\ Stays(c)
      /\ procs'[c].int = procs[c].int /\ procs'[c].stopped = procs[c].stopped
      /\ procs'[c].news = procs[c].news /\ procs'[c].how = procs[c].how
    BY <1>4, <1>5, TwoSet
<1> QED BY <1>4, <1>6 DEF Same

(***************************************************************************)
(* The kernel's types, which every step keeps; and whose program a process *)
(* executes after a step of p that executes one of E.                      *)
(***************************************************************************)
IsSeq(s) == \E S : s \in Seq(S)
PipesOK ==
    /\ pipes = [q \in Pipes |-> pipes[q]]
    /\ \A q \in Pipes : IsSeq(pipes[q]) /\ Len(pipes[q]) <= PipeCap
CountsOK == fails \in 0 .. MaxFails /\ signals \in 0 .. MaxSignals
UnixOK == ProcsOK /\ PipesOK /\ CountsOK

Well(p, E) ==
    ProcsOK' /\ \A q \in Pids : procs'[q].prog \in {procs[q].prog, procs[p].prog} \cup E

LEMMA GotoWell ==
    ASSUME ProcsOK, NEW p \in Pids, NEW pc, Goto(p, pc) PROVE Well(p, {})
BY GotoIs DEF Well, Kept, Others

LEMMA StepWell ==
    ASSUME ProcsOK, NEW p \in Pids, NEW pc, NEW mem, Step(p, pc, mem) PROVE Well(p, {})
BY StepIs DEF Well, Kept, Others

LEMMA ExitWell ==
    ASSUME ProcsOK, NEW p \in Pids, NEW how \in Hows, Running(p), Exit(p, how) PROVE Well(p, {})
BY ExitIs DEF Well, Stays

LEMMA ForkWell ==
    ASSUME ProcsOK, NEW p \in Pids, NEW pc, NEW childPc, Running(p), Fork(p, pc, childPc)
    PROVE  Well(p, {})
<1>1. PICK c \in Pids : ForkOf(p, c, pc, childPc) BY ForkIs
<1>2. \A q \in Pids : procs'[q].prog = procs[q].prog \/ procs'[q].prog = procs[p].prog
    BY <1>1 DEF ForkOf
<1> QED BY <1>1, <1>2 DEF Well, ForkOf

LEMMA ExecWell ==
    ASSUME ProcsOK, NEW p \in Pids, NEW prog, NEW pc, NEW mem, NEW fd \in Fds,
           Exec(p, prog, pc, mem, fd)
    PROVE  Well(p, {prog})
BY ExecIs DEF Well, Kept, Others

LEMMA ReapWell ==
    ASSUME ProcsOK, NEW p \in Pids, NEW c \in Zombies(p), NEW pc, Running(p), Reap(p, c, pc)
    PROVE  Well(p, {})
<1>1. c \in Pids /\ c # p BY DEF Zombies, Running
<1>2. /\ ProcsOK' /\ procs'[p].prog = procs[p].prog /\ procs'[c].prog = procs[c].prog
      /\ \A q \in Pids : q \notin {p, c} => procs'[q] = procs[q]
    BY <1>1, ReapIs DEF Stays
<1>3. \A q \in Pids : procs'[q].prog = procs[q].prog BY <1>2
<1> QED BY <1>2, <1>3 DEF Well

LEMMA ForkFailsWell ==
    ASSUME ProcsOK, CountsOK, NEW p \in Pids, NEW pc, ForkFails(p, pc), UNCHANGED signals
    PROVE  Well(p, {}) /\ CountsOK'
<1>1. ProcOK(procs[p]) BY DEF ProcsOK
<1>2. procs' = [procs EXCEPT ![p] = [procs[p] EXCEPT !.pc = pc, !.mem = [procs[p].mem EXCEPT !.pid = -1]]]
    BY <1>1 DEF ForkFails, ProcOK, ProcsOK
<1>3. Step(p, pc, [procs[p].mem EXCEPT !.pid = -1]) BY <1>2 DEF Step
<1>4. CountsOK' BY UnixAssumption DEF ForkFails, Fails, CountsOK
<1> QED BY <1>3, <1>4, StepWell

\* p closes and duplicates descriptors.
LEMMA FdWell ==
    ASSUME ProcsOK, NEW p \in Pids, NEW pc, NEW fd \in Fds,
           procs' = [procs EXCEPT ![p].pc = pc, ![p].fd = fd]
    PROVE  Well(p, {})
<1>1. ProcOK(procs[p]) BY DEF ProcsOK
<1>2. [procs[p] EXCEPT !.pc = pc, !.fd = fd]
          = [procs[p] EXCEPT !.prog = procs[p].prog, !.pc = pc, !.mem = procs[p].mem, !.fd = fd]
    BY <1>1 DEF ProcOK
<1>3. procs' = [procs EXCEPT ![p] = [procs[p] EXCEPT !.pc = pc, !.fd = fd]] BY DEF ProcsOK
<1>4. Exec(p, procs[p].prog, pc, procs[p].mem, fd) BY <1>2, <1>3 DEF Exec
<1>5. Well(p, {procs[p].prog}) BY <1>4, ExecWell
<1> QED BY <1>5 DEF Well

LEMMA FailsCounts == ASSUME CountsOK, Fails, UNCHANGED signals PROVE CountsOK'
BY UnixAssumption DEF CountsOK, Fails

LEMMA Ends3 ==
    /\ 0 \in Descriptors /\ 1 \in Descriptors
    /\ \A q \in Pipes : ReadEnd(q) \in Descriptors /\ WriteEnd(q) \in Descriptors
    /\ 1 \in Pipes /\ 2 \in Pipes /\ 3 \in Pipes
BY DEF Descriptors, Pipes

LEMMA CloseFd == ASSUME NEW fd \in Fds, NEW ds PROVE Close(fd, ds) \in Fds
BY DEF Fds, Close
LEMMA DupFd ==
    ASSUME NEW fd \in Fds, NEW from \in Descriptors, NEW to \in Descriptors
    PROVE  Dup2(fd, from, to) \in Fds
BY DEF Fds, Dup2
LEMMA PipedIsFd == ASSUME NEW qs PROVE PipedFd(qs) \in Fds
BY DEF Fds, PipedFd, AtTerminal
LEMMA FdOf == ASSUME ProcsOK, NEW p \in Pids PROVE procs[p].fd \in Fds
BY DEF ProcsOK, ProcOK

(***************************************************************************)
(* Pipes.                                                                  *)
(***************************************************************************)
LEMMA AppendSeq ==
    ASSUME NEW s, IsSeq(s), NEW e
    PROVE  IsSeq(Append(s, e)) /\ Len(Append(s, e)) = Len(s) + 1 /\ Len(s) \in Nat
<1>1. PICK S : s \in Seq(S) BY DEF IsSeq
<1>2. s \in Seq(S \cup {e}) BY <1>1
<1>3. Append(s, e) \in Seq(S \cup {e}) /\ Len(Append(s, e)) = Len(s) + 1 /\ Len(s) \in Nat BY <1>2
<1> QED BY <1>3 DEF IsSeq

LEMMA RestSeq ==
    ASSUME NEW s, IsSeq(s), NEW n \in 1 .. Len(s)
    PROVE  IsSeq(SubSeq(s, n + 1, Len(s))) /\ Len(SubSeq(s, n + 1, Len(s))) = Len(s) - n /\ Len(s) \in Nat
<1>1. PICK S : s \in Seq(S) BY DEF IsSeq
<1>2. SubSeq(s, n + 1, Len(s)) \in Seq(S) /\ Len(s) \in Nat BY <1>1
<1>3. Len(SubSeq(s, n + 1, Len(s))) = Len(s) - n BY <1>1
<1> QED BY <1>2, <1>3 DEF IsSeq

LEMMA PipeSet ==
    ASSUME PipesOK, NEW q, NEW s, IsSeq(s), Len(s) <= PipeCap, pipes' = [pipes EXCEPT ![q] = s]
    PROVE  PipesOK'
BY DEF PipesOK

LEMMA ReadPipes ==
    ASSUME UnixOK, NEW p \in Pids, NEW d \in Descriptors, NEW n, HasData(p, d), Read(p, d, n)
    PROVE  PipesOK'
<1> DEFINE end == procs[p].fd[d]
           q == PipeOf(end)
<1>1. end \in {Closed, Terminal} \cup Descriptors /\ end > Terminal
    BY FdOf DEF UnixOK, Fds, HasData
<1>2. CASE q \in Pipes
    <2>1. IsSeq(pipes[q]) /\ Len(pipes[q]) <= PipeCap BY <1>2 DEF UnixOK, PipesOK
    <2>2. n \in 1 .. Len(pipes[q]) /\ pipes' = [pipes EXCEPT ![q] = SubSeq(pipes[q], n + 1, Len(pipes[q]))]
        BY DEF Read, UnixOK, PipesOK
    <2>3. PICK s : s = SubSeq(pipes[q], n + 1, Len(pipes[q])) OBVIOUS
    <2>4. IsSeq(s) /\ Len(s) = Len(pipes[q]) - n /\ Len(pipes[q]) \in Nat BY <2>1, <2>2, <2>3, RestSeq
    <2>5. Len(s) <= PipeCap BY <2>1, <2>2, <2>4, UnixAssumption
    <2> QED BY <2>2, <2>3, <2>4, <2>5, PipeSet DEF UnixOK
<1>3. CASE q \notin Pipes
    <2>1. pipes' = pipes BY <1>3 DEF Read, UnixOK, PipesOK
    <2> QED BY <2>1 DEF UnixOK, PipesOK
<1> QED BY <1>2, <1>3

LEMMA WritePipes ==
    ASSUME UnixOK, NEW p \in Pids, NEW line, CanWrite(p), Write(p, line)
    PROVE  PipesOK'
<1> DEFINE end == procs[p].fd[1]
           q == PipeOf(end)
<1>1. end \in {Closed, Terminal} \cup Descriptors
    BY FdOf, Ends3 DEF UnixOK, Fds
<1>2. CASE end = Terminal
    <2>1. pipes' = pipes BY <1>2 DEF Write
    <2> QED BY <2>1 DEF UnixOK, PipesOK
<1>3. CASE end # Terminal /\ q \notin Pipes
    <2>1. pipes' = pipes BY <1>3 DEF Write, UnixOK, PipesOK
    <2> QED BY <2>1 DEF UnixOK, PipesOK
<1>4. CASE end # Terminal /\ q \in Pipes
    <2>1. end # Closed BY <1>4 DEF Closed, PipeOf, Pipes
    <2>2. end > Terminal BY <1>1, <1>4, <2>1 DEF Terminal, Descriptors, ReadEnd, WriteEnd, Pipes
    <2>3. Len(pipes[q]) < PipeCap BY <2>2 DEF CanWrite
    <2>4. IsSeq(pipes[q]) BY <1>4 DEF UnixOK, PipesOK
    <2>5. pipes' = [pipes EXCEPT ![q] = Append(pipes[q], line)] BY <1>4 DEF Write, UnixOK, PipesOK
    <2>6. PICK s : s = Append(pipes[q], line) OBVIOUS
    <2>7. IsSeq(s) /\ Len(s) = Len(pipes[q]) + 1 /\ Len(pipes[q]) \in Nat BY <2>4, <2>6, AppendSeq
    <2>8. Len(s) <= PipeCap BY <2>3, <2>7, UnixAssumption
    <2> QED BY <2>5, <2>6, <2>7, <2>8, PipeSet DEF UnixOK
<1> QED BY <1>2, <1>3, <1>4

\* A step of p, which executes one of progs, keeps the kernel's types, and p
\* executes the same or one of E after it.
Fine(p, progs, E) == procs[p].prog \in progs /\ Well(p, E) /\ UnixOK'

LEMMA PlainFine ==
    ASSUME UnixOK, NEW p \in Pids, NEW progs, NEW E, procs[p].prog \in progs, Well(p, E),
           UNCHANGED pipes, CountsOK'
    PROVE  Fine(p, progs, E)
BY DEF Fine, Well, UnixOK, PipesOK

LEMMA QuietFine ==
    ASSUME UnixOK, NEW p \in Pids, NEW progs, NEW E, procs[p].prog \in progs, Well(p, E),
           UNCHANGED <<pipes, fails, signals>>
    PROVE  Fine(p, progs, E)
BY PlainFine DEF UnixOK, CountsOK

LEMMA PfindFine ==
    ASSUME UnixOK, NEW p \in Pids, PfindStep(p) PROVE Fine(p, {"pfind"}, {})
<1>0. ProcsOK BY DEF UnixOK
<1>1. CASE ReadOption(p)
    <2>1. \/ \E pc : Goto(p, pc)
          \/ \E pc, mem : Step(p, pc, mem)
        BY <1>1 DEF ReadOption, Finish
    <2>2. Well(p, {}) BY <1>0, <2>1, GotoWell, StepWell
    <2>3. UNCHANGED <<pipes, fails, signals>> /\ procs[p].prog = "pfind" BY <1>1 DEF ReadOption, At
    <2> QED BY <2>2, <2>3, QuietFine
<1>2. CASE CheckArguments(p)
    <2>1. \E pc, mem : Step(p, pc, mem)
        BY <1>2 DEF CheckArguments, Finish
    <2>2. Well(p, {}) BY <1>0, <2>1, StepWell
    <2>3. UNCHANGED <<pipes, fails, signals>> /\ procs[p].prog = "pfind" BY <1>2 DEF CheckArguments, At
    <2> QED BY <2>2, <2>3, QuietFine
<1>3. CASE ReadEntry(p)
    <2> DEFINE mem == procs[p].mem
    <2> SUFFICES Well(p, {})
        <3>1. UNCHANGED <<pipes, fails, signals>> /\ procs[p].prog = "pfind" BY <1>3 DEF ReadEntry, At
        <3> QED BY <3>1, QuietFine
    <2>1. CASE mem.stack = <<>>
        <3>1. Goto(p, "flush") BY <1>3, <2>1 DEF ReadEntry
        <3> QED BY <1>0, <3>1, GotoWell
    <2>2. CASE mem.stack # <<>> /\ Head(mem.stack).left = {}
        <3>1. Step(p, "findpaths", [mem EXCEPT !.stack = Tail(@)]) BY <1>3, <2>2 DEF ReadEntry
        <3> QED BY <1>0, <3>1, StepWell
    <2>3. CASE mem.stack # <<>> /\ Head(mem.stack).left # {}
        <3>1. PICK f \in Head(mem.stack).left : \E m : Step(p, "findpaths", m)
            BY <1>3, <2>3 DEF ReadEntry
        <3> QED BY <1>0, <3>1, StepWell
    <2> QED BY <2>1, <2>2, <2>3
<1> QED BY <1>1, <1>2, <1>3 DEF PfindStep

LEMMA FlushFine ==
    ASSUME UnixOK, NEW p \in Pids, NEW prog, Flush(p, prog) PROVE Fine(p, {prog}, {})
<1>0. ProcsOK /\ Running(p) /\ procs[p].prog = prog /\ UNCHANGED <<fails, signals>>
    BY DEF UnixOK, Flush, At
<1> DEFINE out == procs[p].mem.out
<1>1. CASE CanWrite(p) /\ Write(p, Head(out)) /\ Step(p, "flush", [procs[p].mem EXCEPT !.out = Tail(@)])
    <2>1. PipesOK' BY <1>1, WritePipes
    <2>2. Well(p, {}) BY <1>0, <1>1, StepWell
    <2> QED BY <1>0, <2>1, <2>2 DEF Fine, Well, UnixOK, CountsOK
<1>2. CASE \E how \in {"killed", "exited"} : Exit(p, how) /\ UNCHANGED pipes
    <2>1. Well(p, {}) BY <1>0, <1>2, ExitWell DEF Hows
    <2> QED BY <1>0, <1>2, <2>1, QuietFine
<1> QED BY <1>1, <1>2 DEF Flush

LEMMA CommandFine ==
    ASSUME UnixOK, NEW p \in Pids, CommandStep(p)
    PROVE  Fine(p, Filters \cup {"ps", "pfind"}, {})
<1>0. ProcsOK BY DEF UnixOK
<1>1. CASE \E prog \in Filters : ReadInput(p, prog)
    <2>1. PICK prog \in Filters : ReadInput(p, prog) BY <1>1
    <2>2. UNCHANGED <<fails, signals>> /\ procs[p].prog = prog BY <2>1 DEF ReadInput, At
    <2>3. \E pc, mem : Step(p, pc, mem) BY <2>1 DEF ReadInput
    <2>4. Well(p, {}) BY <1>0, <2>3, StepWell
    <2>5. PipesOK'
        <3>1. CASE HasData(p, 0) /\ \E n \in 1 .. PipeCap : Read(p, 0, n)
            BY <3>1, ReadPipes, Ends3
        <3>2. CASE UNCHANGED pipes BY <3>2 DEF UnixOK, PipesOK
        <3> QED BY <2>1, <3>1, <3>2 DEF ReadInput
    <2> QED BY <1>0, <2>2, <2>4, <2>5 DEF Fine, Well, UnixOK, CountsOK
<1>2. CASE \E prog \in Filters \cup {"ps", "pfind"} : Flush(p, prog)
    BY <1>2, FlushFine DEF Fine
<1>3. CASE PfindStep(p) BY <1>3, PfindFine DEF Fine
<1> QED BY <1>1, <1>2, <1>3 DEF CommandStep

LEMMA ForkUncheckedFine ==
    ASSUME UnixOK, NEW p \in Pids, NEW prog, NEW pc, NEW nxt, NEW childPc,
           ForkUnchecked(p, prog, pc, nxt, childPc)
    PROVE  Fine(p, {prog}, {})
<1>0. ProcsOK /\ CountsOK /\ Running(p) /\ procs[p].prog = prog BY DEF UnixOK, ForkUnchecked, At
<1>1. UNCHANGED <<pipes, signals>> BY DEF ForkUnchecked
<1>2. Well(p, {}) /\ CountsOK'
    <2>1. CASE Fork(p, nxt, childPc) /\ UNCHANGED fails BY <1>0, <1>1, <2>1, ForkWell DEF CountsOK
    <2>2. CASE ForkFails(p, nxt) BY <1>0, <1>1, <2>2, ForkFailsWell
    <2> QED BY <2>1, <2>2 DEF ForkUnchecked
<1> QED BY <1>0, <1>1, <1>2, PlainFine

LEMMA WaitThenFine ==
    ASSUME UnixOK, NEW p \in Pids, NEW prog, NEW pc, NEW nxt, WaitThen(p, prog, pc, nxt)
    PROVE  Fine(p, {prog}, {})
<1>0. ProcsOK /\ Running(p) /\ procs[p].prog = prog /\ UNCHANGED <<pipes, fails, signals>>
    BY DEF UnixOK, WaitThen, At
<1>1. Well(p, {})
    <2>1. CASE \E c \in Zombies(p) : Reap(p, c, nxt) BY <1>0, <2>1, ReapWell
    <2>2. CASE Goto(p, nxt) BY <1>0, <2>2, GotoWell
    <2> QED BY <2>1, <2>2 DEF WaitThen
<1> QED BY <1>0, <1>1, QuietFine

\* p executes prog, or exits because it cannot.
LEMMA ExecFine ==
    ASSUME UnixOK, NEW p \in Pids, NEW progs, NEW prog, NEW pc, NEW mem, NEW fd \in Fds,
           Running(p), procs[p].prog \in progs, UNCHANGED <<pipes, signals>>,
           \/ Exec(p, prog, pc, mem, fd) /\ UNCHANGED fails
           \/ Fails /\ \E how \in Hows : Exit(p, how)
    PROVE  Fine(p, progs, {prog})
<1>1. ProcsOK /\ CountsOK BY DEF UnixOK
<1>2. Well(p, {prog}) /\ CountsOK'
    <2>1. CASE Exec(p, prog, pc, mem, fd) /\ UNCHANGED fails
        BY <1>1, <2>1, ExecWell DEF CountsOK
    <2>2. CASE Fails /\ \E how \in Hows : Exit(p, how)
        <3>1. Well(p, {}) BY <1>1, <2>2, ExitWell
        <3> QED BY <1>1, <2>2, <3>1, FailsCounts DEF Well
    <2> QED BY <2>1, <2>2
<1> QED BY <1>2, PlainFine

\* Of a read from the pipe at d, after which p goes on or ends.
LEMMA ReaderFine ==
    ASSUME UnixOK, NEW p \in Pids, NEW prog, NEW d \in Descriptors, Running(p),
           procs[p].prog = prog, UNCHANGED <<fails, signals>>,
           \/ HasData(p, d) /\ \E n : Read(p, d, n)
           \/ UNCHANGED pipes,
           \/ \E pc : Goto(p, pc)
           \/ \E pc, mem : Step(p, pc, mem)
           \/ Exit(p, "exited")
           \/ UNCHANGED procs
    PROVE  Fine(p, {prog}, {})
<1>1. ProcsOK BY DEF UnixOK
<1>2. Well(p, {})
    <2>1. CASE UNCHANGED procs BY <1>1, <2>1 DEF Well, ProcsOK
    <2> QED BY <1>1, <2>1, GotoWell, StepWell, ExitWell DEF Hows
<1>3. PipesOK' BY ReadPipes DEF UnixOK, PipesOK
<1> QED BY <1>2, <1>3 DEF Fine, Well, UnixOK, CountsOK

LEMMA SpfindFine ==
    ASSUME UnixOK, NEW p \in Pids, SpfindStep(p)
    PROVE  Fine(p, {"spfind"}, {"pfind", "sort"})
<1>0. ProcsOK /\ procs[p].fd \in Fds BY FdOf DEF UnixOK
<1> SUFFICES \E E \in SUBSET {"pfind", "sort"} : Fine(p, {"spfind"}, E) BY DEF Fine, Well
<1>1. CASE SpfindStart(p)
    <2>1. Running(p) /\ procs[p].prog = "spfind" BY <1>1 DEF SpfindStart, At
    <2>2. Well(p, {})
        <3>1. CASE Exit(p, "failed") BY <1>0, <2>1, <3>1, ExitWell DEF Hows
        <3>2. CASE procs' = [procs EXCEPT ![p].pc = "fork1", ![p].fd = PipedFd({1, 2})]
            BY <1>0, <3>2, FdWell, PipedIsFd
        <3> QED BY <1>1, <3>1, <3>2 DEF SpfindStart
    <2>3. Fine(p, {"spfind"}, {}) BY <1>1, <2>1, <2>2, QuietFine DEF SpfindStart
    <2> QED BY <2>3
<1>2. CASE SpfindFork(p)
    <2>1. Fine(p, {"spfind"}, {}) BY <1>2, ForkUncheckedFine DEF SpfindFork
    <2> QED BY <2>1
<1>3. CASE SpfindChild(p)
    <2>1. CASE /\ At(p, "spfind", "pfind")
               /\ ExecOr(p, "pfind", "options", PfindMem(procs[p].mem.argv),
                 Close(Dup2(procs[p].fd, WriteEnd(1), 1), {ReadEnd(1), ReadEnd(2), WriteEnd(2)}),
                 Exit(p, "failed"))
        <3>1. PICK fd : fd = Close(Dup2(procs[p].fd, WriteEnd(1), 1), {ReadEnd(1), ReadEnd(2), WriteEnd(2)})
            OBVIOUS
        <3>2. fd \in Fds BY <1>0, <3>1, CloseFd, DupFd, Ends3
        <3>3. Running(p) /\ procs[p].prog \in {"spfind"} BY <2>1 DEF At
        <3>4. Fine(p, {"spfind"}, {"pfind"}) BY <2>1, <3>1, <3>2, <3>3, ExecFine DEF ExecOr, Hows
        <3> QED BY <3>4
    <2>2. CASE /\ At(p, "spfind", "sort")
               /\ ExecOr(p, "sort", "input", FilterMem(<<>>),
                 Close(Dup2(Dup2(procs[p].fd, ReadEnd(1), 0), WriteEnd(2), 1),
                       {WriteEnd(1), ReadEnd(2)}),
                 Exit(p, "failed"))
        <3>1. PICK fd : fd = Close(Dup2(Dup2(procs[p].fd, ReadEnd(1), 0), WriteEnd(2), 1),
                                   {WriteEnd(1), ReadEnd(2)})
            OBVIOUS
        <3>2. fd \in Fds BY <1>0, <3>1, CloseFd, DupFd, Ends3
        <3>3. Running(p) /\ procs[p].prog \in {"spfind"} BY <2>2 DEF At
        <3>4. Fine(p, {"spfind"}, {"sort"}) BY <2>2, <3>1, <3>2, <3>3, ExecFine DEF ExecOr, Hows
        <3> QED BY <3>4
    <2> QED BY <1>3, <2>1, <2>2 DEF SpfindChild
<1>4. CASE SpfindClose(p)
    <2>1. Running(p) /\ procs[p].prog = "spfind" BY <1>4 DEF SpfindClose, At
    <2>2. PICK fd : fd = Close(Dup2(procs[p].fd, ReadEnd(2), 0), ToClose) OBVIOUS
    <2>3. fd \in Fds BY <1>0, <2>2, CloseFd, DupFd, Ends3
    <2>4. procs' = [procs EXCEPT ![p].pc = "read", ![p].fd = fd]
        BY <1>0, <1>4, <2>2 DEF SpfindClose, ProcsOK
    <2>5. Well(p, {}) BY <1>0, <2>3, <2>4, FdWell
    <2>6. Fine(p, {"spfind"}, {}) BY <1>4, <2>1, <2>5, QuietFine DEF SpfindClose
    <2> QED BY <2>6
<1>5. CASE SpfindRead(p)
    <2>1. Running(p) /\ procs[p].prog = "spfind" /\ UNCHANGED <<fails, signals>>
        BY <1>5 DEF SpfindRead, At
    <2>2. \/ \E pc, mem : Step(p, pc, mem)
          \/ Exit(p, "exited")
        BY <1>5 DEF SpfindRead
    <2>3. \/ HasData(p, ReadEnd(2)) /\ \E n : Read(p, ReadEnd(2), n)
          \/ UNCHANGED pipes
        BY <1>5 DEF SpfindRead
    <2>4. Fine(p, {"spfind"}, {}) BY <2>1, <2>2, <2>3, ReaderFine, Ends3
    <2> QED BY <2>4
<1> QED BY <1>1, <1>2, <1>3, <1>4, <1>5 DEF SpfindStep

LEMMA CountFine ==
    ASSUME UnixOK, NEW p \in Pids, CountStep(p)
    PROVE  Fine(p, {"countprocess"}, {"ps", "grep", "wc"})
<1>0. ProcsOK /\ CountsOK /\ procs[p].fd \in Fds BY FdOf DEF UnixOK
<1> SUFFICES \E E \in SUBSET {"ps", "grep", "wc"} : Fine(p, {"countprocess"}, E) BY DEF Fine, Well
<1>1. CASE CountStart(p)
    <2>1. Running(p) /\ procs[p].prog = "countprocess" BY <1>1 DEF CountStart, At
    <2>2. Well(p, {})
        <3>1. CASE Exit(p, "failed") BY <1>0, <2>1, <3>1, ExitWell DEF Hows
        <3>2. CASE procs' = [procs EXCEPT ![p].pc = "fork1", ![p].fd = PipedFd({1, 2, 3})]
            BY <1>0, <3>2, FdWell, PipedIsFd
        <3> QED BY <1>1, <3>1, <3>2 DEF CountStart
    <2>3. Fine(p, {"countprocess"}, {}) BY <1>1, <2>1, <2>2, QuietFine DEF CountStart
    <2> QED BY <2>3
<1>2. CASE CountFork(p)
    <2>1. Fine(p, {"countprocess"}, {}) BY <1>2, ForkUncheckedFine DEF CountFork
    <2> QED BY <2>1
<1>3. ASSUME NEW pc, NEW prog \in {"ps", "grep", "wc"}, NEW in, NEW out,
             NEW from \in Descriptors, NEW to \in Descriptors, NEW closed, NEW nxt,
             CountExec(p, pc, prog, in, out, from, to, closed, nxt)
      PROVE  Fine(p, {"countprocess"}, {prog})
    <2>1. PICK fd : fd = Close(Dup2(Dup2(procs[p].fd, from, 0), to, 1), closed) OBVIOUS
    <2>2. fd \in Fds BY <1>0, <2>1, CloseFd, DupFd, Ends3
    <2>3. /\ procs[p].prog = "countprocess" /\ UNCHANGED <<pipes, signals>>
          /\ \/ Exec(p, prog, in, FilterMem(out), fd) /\ UNCHANGED fails
             \/ Fails /\ procs' = [procs EXCEPT ![p].pc = nxt, ![p].fd = fd]
        BY <1>3, <2>1 DEF CountExec, ExecOr, At
    <2>4. CASE Exec(p, prog, in, FilterMem(out), fd) /\ UNCHANGED fails
        <3>1. Well(p, {prog}) /\ CountsOK' BY <1>0, <2>2, <2>3, <2>4, ExecWell DEF CountsOK
        <3> QED BY <2>3, <3>1, PlainFine
    <2>5. CASE Fails /\ procs' = [procs EXCEPT ![p].pc = nxt, ![p].fd = fd]
        <3>1. Well(p, {}) /\ CountsOK' BY <1>0, <2>2, <2>3, <2>5, FdWell, FailsCounts
        <3>2. Well(p, {prog}) BY <3>1 DEF Well
        <3> QED BY <2>3, <3>1, <3>2, PlainFine
    <2> QED BY <2>3, <2>4, <2>5
<1>4. CASE CountChild(p)
    <2>1. CASE CountExec(p, "ps", "ps", "flush", table, 0, WriteEnd(1),
                 {ReadEnd(1), ReadEnd(2), WriteEnd(2), ReadEnd(3), WriteEnd(3)}, "fork2")
        <3>1. Fine(p, {"countprocess"}, {"ps"}) BY <1>3, <2>1, Ends3
        <3> QED BY <3>1
    <2>2. CASE CountExec(p, "grep", "grep", "input", <<>>, ReadEnd(1), WriteEnd(2),
                 {WriteEnd(1), ReadEnd(2), ReadEnd(3), WriteEnd(3)}, "fork3")
        <3>1. Fine(p, {"countprocess"}, {"grep"}) BY <1>3, <2>2, Ends3
        <3> QED BY <3>1
    <2>3. CASE CountExec(p, "wc", "wc", "input", <<>>, ReadEnd(2), WriteEnd(3),
                 {WriteEnd(2), ReadEnd(3), ReadEnd(1), WriteEnd(1)}, "close")
        <3>1. Fine(p, {"countprocess"}, {"wc"}) BY <1>3, <2>3, Ends3
        <3> QED BY <3>1
    <2> QED BY <1>4, <2>1, <2>2, <2>3 DEF CountChild
<1>5. CASE CountClose(p)
    <2>1. Running(p) /\ procs[p].prog = "countprocess" BY <1>5 DEF CountClose, At
    <2>2. PICK fd : fd = Close(Dup2(procs[p].fd, ReadEnd(3), 0), CountToClose) OBVIOUS
    <2>3. fd \in Fds BY <1>0, <2>2, CloseFd, DupFd, Ends3
    <2>4. procs' = [procs EXCEPT ![p].pc = "read", ![p].fd = fd]
        BY <1>0, <1>5, <2>2 DEF CountClose, ProcsOK
    <2>5. Well(p, {}) BY <1>0, <2>3, <2>4, FdWell
    <2>6. Fine(p, {"countprocess"}, {}) BY <1>5, <2>1, <2>5, QuietFine DEF CountClose
    <2> QED BY <2>6
<1>6. CASE CountRead(p)
    <2>1. Running(p) /\ procs[p].prog = "countprocess" /\ UNCHANGED <<fails, signals>>
        BY <1>6 DEF CountRead, At
    <2>2. \/ \E pc : Goto(p, pc)
          \/ \E pc, mem : Step(p, pc, mem)
        BY <1>6 DEF CountRead
    <2>3. \/ HasData(p, 0) /\ \E n : Read(p, 0, n)
          \/ UNCHANGED pipes
        BY <1>6 DEF CountRead
    <2>4. Fine(p, {"countprocess"}, {}) BY <2>1, <2>2, <2>3, ReaderFine, Ends3
    <2> QED BY <2>4
<1>7. CASE \E pc, nxt : WaitThen(p, "countprocess", pc, nxt)
    <2>1. Fine(p, {"countprocess"}, {}) BY <1>7, WaitThenFine
    <2> QED BY <2>1
<1>8. CASE Flush(p, "countprocess")
    <2>1. Fine(p, {"countprocess"}, {}) BY <1>8, FlushFine
    <2> QED BY <2>1
<1> QED BY <1>1, <1>2, <1>4, <1>5, <1>6, <1>7, <1>8 DEF CountStep

LEMMA PipesFine ==
    ASSUME UnixOK, NEW p \in Pids, PipesStep(p)
    PROVE  Fine(p, {"pipes"}, {"ps", "grep -l"})
<1>0. ProcsOK /\ CountsOK /\ procs[p].fd \in Fds BY FdOf DEF UnixOK
<1> SUFFICES \E E \in SUBSET {"ps", "grep -l"} : Fine(p, {"pipes"}, E) BY DEF Fine, Well
<1>1. CASE PipesStart(p)
    <2>1. Running(p) /\ procs[p].prog = "pipes" BY <1>1 DEF PipesStart, At
    <2>2. Well(p, {})
        <3>1. CASE Exit(p, "failed") BY <1>0, <2>1, <3>1, ExitWell DEF Hows
        <3>2. CASE procs' = [procs EXCEPT ![p].pc = "fork1", ![p].fd = PipedFd({1})]
            BY <1>0, <3>2, FdWell, PipedIsFd
        <3> QED BY <1>1, <3>1, <3>2 DEF PipesStart
    <2>3. Fine(p, {"pipes"}, {}) BY <1>1, <2>1, <2>2, QuietFine DEF PipesStart
    <2> QED BY <2>3
<1>2. CASE PipesMiddle(p)
    <2>1. PICK fd : fd = [PipedFd({1, 2}) EXCEPT ![0] = procs[p].fd[0]] OBVIOUS
    <2>2. fd \in Fds BY <1>0, <2>1, PipedIsFd, Ends3 DEF Fds
    <2>3. procs' = [procs EXCEPT ![p].pc = "fork2", ![p].fd = fd] BY <1>2, <2>1 DEF PipesMiddle
    <2>4. Well(p, {}) BY <1>0, <2>2, <2>3, FdWell
    <2>5. Fine(p, {"pipes"}, {}) BY <1>2, <2>4, QuietFine DEF PipesMiddle, At
    <2> QED BY <2>5
<1>3. CASE PipesExec(p)
    <2>1. CASE /\ At(p, "pipes", "ps")
               /\ ExecOr(p, "ps", "flush", FilterMem(table),
                         Close(Dup2(procs[p].fd, WriteEnd(2), 1), {ReadEnd(2)}), Exit(p, "exited"))
        <3>1. PICK fd : fd = Close(Dup2(procs[p].fd, WriteEnd(2), 1), {ReadEnd(2)}) OBVIOUS
        <3>2. fd \in Fds BY <1>0, <3>1, CloseFd, DupFd, Ends3
        <3>3. Running(p) /\ procs[p].prog \in {"pipes"} BY <2>1 DEF At
        <3>4. Fine(p, {"pipes"}, {"ps"}) BY <2>1, <3>1, <3>2, <3>3, ExecFine DEF ExecOr, Hows
        <3> QED BY <3>4
    <2>2. CASE /\ At(p, "pipes", "grep")
               /\ ExecOr(p, "grep -l", "input", FilterMem(<<>>),
                         Close(Dup2(Dup2(procs[p].fd, ReadEnd(2), 0), WriteEnd(1), 1),
                               {WriteEnd(2), ReadEnd(1)}), Exit(p, "exited"))
        <3>1. PICK fd : fd = Close(Dup2(Dup2(procs[p].fd, ReadEnd(2), 0), WriteEnd(1), 1),
                                   {WriteEnd(2), ReadEnd(1)})
            OBVIOUS
        <3>2. fd \in Fds BY <1>0, <3>1, CloseFd, DupFd, Ends3
        <3>3. Running(p) /\ procs[p].prog \in {"pipes"} BY <2>2 DEF At
        <3>4. Fine(p, {"pipes"}, {"grep -l"}) BY <2>2, <3>1, <3>2, <3>3, ExecFine DEF ExecOr, Hows
        <3> QED BY <3>4
    <2> QED BY <1>3, <2>1, <2>2 DEF PipesExec
<1>4. CASE PipesClose(p)
    <2>1. Running(p) /\ procs[p].prog = "pipes" BY <1>4 DEF PipesClose, At
    <2>2. PICK fd : fd = Close(Dup2(procs[p].fd, ReadEnd(1), 0), {WriteEnd(1)}) OBVIOUS
    <2>3. fd \in Fds BY <1>0, <2>2, CloseFd, DupFd, Ends3
    <2>4. procs' = [procs EXCEPT ![p].pc = "read", ![p].fd = fd]
        BY <1>0, <1>4, <2>2 DEF PipesClose, ProcsOK
    <2>5. Well(p, {}) BY <1>0, <2>3, <2>4, FdWell
    <2>6. Fine(p, {"pipes"}, {}) BY <1>4, <2>1, <2>5, QuietFine DEF PipesClose
    <2> QED BY <2>6
<1>5. CASE PipesRead(p)
    <2>1. Running(p) /\ procs[p].prog = "pipes" /\ UNCHANGED <<fails, signals>>
        BY <1>5 DEF PipesRead, At
    <2>2. Exit(p, "exited") \/ UNCHANGED procs BY <1>5 DEF PipesRead
    <2>3. \/ HasData(p, ReadEnd(1)) /\ \E n : Read(p, ReadEnd(1), n)
          \/ UNCHANGED pipes
        BY <1>5 DEF PipesRead
    <2>4. Fine(p, {"pipes"}, {}) BY <2>1, <2>2, <2>3, ReaderFine, Ends3
    <2> QED BY <2>4
<1>6. CASE \E pc, nxt, childPc : ForkUnchecked(p, "pipes", pc, nxt, childPc)
    <2>1. Fine(p, {"pipes"}, {}) BY <1>6, ForkUncheckedFine
    <2> QED BY <2>1
<1>7. CASE \E pc, nxt : WaitThen(p, "pipes", pc, nxt)
    <2>1. Fine(p, {"pipes"}, {}) BY <1>7, WaitThenFine
    <2> QED BY <2>1
<1> QED BY <1>1, <1>2, <1>3, <1>4, <1>5, <1>6, <1>7 DEF PipesStep

(***************************************************************************)
(* The forking labs.                                                       *)
(***************************************************************************)
LEMMA RunsOutFine ==
    ASSUME UnixOK, NEW p \in Pids, NEW prog, NEW how \in Hows, RunsOut(p, prog, how)
    PROVE  Fine(p, {prog}, {})
<1>1. ProcsOK /\ Running(p) /\ procs[p].prog = prog BY DEF UnixOK, RunsOut, At
<1> QED BY <1>1, ExitWell, QuietFine DEF RunsOut

\* p is forked, or ends or goes on because it cannot.
LEMMA ForkOrFine ==
    ASSUME UnixOK, NEW p \in Pids, NEW progs, Running(p), procs[p].prog \in progs,
           UNCHANGED <<pipes, signals>>,
           \/ UNCHANGED fails /\ \E pc, childPc : Fork(p, pc, childPc)
           \/ UNCHANGED fails /\ \E pc : Goto(p, pc)
           \/ UNCHANGED fails /\ \E pc, mem : Step(p, pc, mem)
           \/ (UNCHANGED fails \/ Fails) /\ \E how \in Hows : Exit(p, how)
    PROVE  Fine(p, progs, {})
<1>1. ProcsOK /\ CountsOK BY DEF UnixOK
<1>2. Well(p, {}) BY <1>1, ForkWell, ExitWell, GotoWell, StepWell
<1>3. CountsOK' BY <1>1, FailsCounts DEF CountsOK
<1> QED BY <1>2, <1>3, PlainFine

LEMMA NforksFine ==
    ASSUME UnixOK, NEW p \in Pids, NforksStep(p)
    PROVE  Fine(p, {"nforks", "randomsleep"}, {"randomsleep"})
<1>0. ProcsOK /\ CountsOK /\ procs[p].fd \in Fds BY FdOf DEF UnixOK
<1> SUFFICES \/ \E progs \in SUBSET {"nforks", "randomsleep"} : Fine(p, progs, {})
             \/ Fine(p, {"nforks"}, {"randomsleep"})
    BY DEF Fine, Well
<1>1. CASE NforksStart(p)
    <2>1. Running(p) /\ procs[p].prog \in {"nforks"} /\ UNCHANGED <<pipes, fails, signals>>
        BY <1>1 DEF NforksStart, At
    <2>2. \/ \E pc, mem : Step(p, pc, mem)
          \/ \E how \in Hows : Exit(p, how)
        BY <1>1 DEF NforksStart, Usage, Hows
    <2>3. Fine(p, {"nforks"}, {}) BY <2>1, <2>2, ForkOrFine
    <2> QED BY <2>3
<1>2. CASE NforksFork(p)
    <2>1. Running(p) /\ procs[p].prog \in {"nforks"} /\ UNCHANGED <<pipes, signals>>
        BY <1>2 DEF NforksFork, At
    <2>2. \/ UNCHANGED fails /\ \E pc, childPc : Fork(p, pc, childPc)
          \/ UNCHANGED fails /\ \E pc, mem : Step(p, pc, mem)
          \/ Fails /\ \E how \in Hows : Exit(p, how)
        BY <1>2 DEF NforksFork, Hows
    <2>3. Fine(p, {"nforks"}, {}) BY <2>1, <2>2, ForkOrFine
    <2> QED BY <2>3
<1>3. CASE NforksForked(p)
    <2>1. Running(p) /\ procs[p].prog \in {"nforks"} /\ UNCHANGED <<pipes, fails, signals>>
        BY <1>3 DEF NforksForked, At
    <2>2. \E pc, mem : Step(p, pc, mem) BY <1>3 DEF NforksForked
    <2>3. Fine(p, {"nforks"}, {}) BY <2>1, <2>2, ForkOrFine
    <2> QED BY <2>3
<1>4. CASE NforksExec(p)
    <2>1. Running(p) /\ procs[p].prog \in {"nforks"} /\ UNCHANGED <<pipes, signals>>
        BY <1>4 DEF NforksExec, At
    <2>2. \/ Exec(p, "randomsleep", "run", <<>>, procs[p].fd) /\ UNCHANGED fails
          \/ Fails /\ \E how \in Hows : Exit(p, how)
        BY <1>4 DEF NforksExec, Hows
    <2> QED BY <1>0, <2>1, <2>2, ExecFine
<1>5. CASE NforksWait(p)
    <2>1. Running(p) /\ procs[p].prog = "nforks" /\ UNCHANGED <<pipes, fails, signals>>
        BY <1>5 DEF NforksWait, At
    <2>2. CASE Exit(p, "exited")
        <3>1. Well(p, {}) BY <1>0, <2>1, <2>2, ExitWell DEF Hows
        <3>2. Fine(p, {"nforks"}, {}) BY <2>1, <3>1, QuietFine
        <3> QED BY <3>2
    <2>3. ASSUME NEW c \in Zombies(p), procs' = [procs EXCEPT ![c].state = "gone", ![p].mem.i = @ + 1]
          PROVE  Well(p, {})
        <3>1. c \in Pids /\ c # p BY <2>1 DEF Zombies, Running
        <3>2. PICK x : x = MoveOf(procs[p], procs[p].prog, procs[p].pc,
                                  [procs[p].mem EXCEPT !.i = @ + 1], procs[p].fd)
            OBVIOUS
        <3>3. ProcOK(procs[p]) BY <1>0 DEF ProcsOK
        <3>4. ProcOK(x) /\ x.prog = procs[p].prog BY <1>0, <3>2, <3>3, MoveIs
        <3>5. x = [procs[p] EXCEPT !.mem = [procs[p].mem EXCEPT !.i = @ + 1]]
            BY <3>2, <3>3 DEF ProcOK, MoveOf
        <3>6. PutTwo(p, x, c, GoneOf(procs[c]))
            BY <1>0, <2>3, <3>1, <3>5 DEF PutTwo, GoneOf, ProcsOK
        <3>7. /\ ProcsOK' /\ procs'[p] = x /\ procs'[c].prog = procs[c].prog
              /\ \A q \in Pids : q \notin {p, c} => procs'[q] = procs[q]
            BY <1>0, <3>1, <3>4, <3>6, TwoSet DEF Stays
        <3>8. \A q \in Pids : procs'[q].prog = procs[q].prog BY <3>4, <3>7
        <3> QED BY <3>7, <3>8 DEF Well
    <2>4. CASE ~ Exit(p, "exited")
        <3>1. Well(p, {}) BY <1>5, <2>3, <2>4 DEF NforksWait
        <3>2. Fine(p, {"nforks"}, {}) BY <2>1, <3>1, QuietFine
        <3> QED BY <3>2
    <2> QED BY <2>2, <2>4
<1>6. CASE RunsOut(p, "randomsleep", "exited")
    <2>1. Fine(p, {"randomsleep"}, {}) BY <1>6, RunsOutFine DEF Hows
    <2> QED BY <2>1
<1> QED BY <1>1, <1>2, <1>3, <1>4, <1>5, <1>6 DEF NforksStep

(***************************************************************************)
(* Signals.                                                                *)
(***************************************************************************)
MarkOf(x, int, stopped, news) == [x EXCEPT !.int = int, !.stopped = stopped, !.news = news]
CaughtOf(x, pc, mem) == [x EXCEPT !.int = FALSE, !.mem = mem, !.pc = pc]

LEMMA MarkIs ==
    ASSUME NEW x, ProcOK(x), NEW int \in BOOLEAN, NEW stopped \in BOOLEAN, NEW news \in News
    PROVE  LET y == MarkOf(x, int, stopped, news)
           IN  /\ ProcOK(y) /\ y.state = x.state /\ y.parent = x.parent /\ y.prog = x.prog
               /\ y.pc = x.pc /\ y.mem = x.mem /\ y.how = x.how
<1> PICK y : y = MarkOf(x, int, stopped, news) OBVIOUS
<1>1. y = [state |-> x.state, parent |-> x.parent, prog |-> x.prog, pc |-> x.pc,
           mem |-> x.mem, fd |-> x.fd, int |-> int, stopped |-> stopped,
           news |-> news, how |-> x.how]
    BY DEF ProcOK, MarkOf
<1>2. /\ y.state = x.state /\ y.parent = x.parent /\ y.prog = x.prog /\ y.pc = x.pc /\ y.mem = x.mem
      /\ y.fd = x.fd /\ y.int = int /\ y.stopped = stopped /\ y.news = news /\ y.how = x.how
    BY ONLY <1>1
<1>3. y = [state |-> y.state, parent |-> y.parent, prog |-> y.prog, pc |-> y.pc,
           mem |-> y.mem, fd |-> y.fd, int |-> y.int, stopped |-> y.stopped,
           news |-> y.news, how |-> y.how]
    BY <1>1, <1>2
<1>4. ProcOK(y) BY <1>2, <1>3 DEF ProcOK
<1> QED BY <1>2, <1>4

LEMMA CaughtIs ==
    ASSUME NEW x, ProcOK(x), NEW pc, NEW mem
    PROVE  LET y == CaughtOf(x, pc, mem)
           IN  /\ ProcOK(y) /\ y.state = x.state /\ y.parent = x.parent /\ y.prog = x.prog
               /\ y.pc = pc /\ y.mem = mem /\ y.how = x.how /\ ~ y.int
               /\ y.stopped = x.stopped
<1> PICK y : y = CaughtOf(x, pc, mem) OBVIOUS
<1>1. y = [state |-> x.state, parent |-> x.parent, prog |-> x.prog, pc |-> pc,
           mem |-> mem, fd |-> x.fd, int |-> FALSE, stopped |-> x.stopped,
           news |-> x.news, how |-> x.how]
    BY DEF ProcOK, CaughtOf
<1>2. /\ y.state = x.state /\ y.parent = x.parent /\ y.prog = x.prog /\ y.pc = pc /\ y.mem = mem
      /\ y.fd = x.fd /\ y.int = FALSE /\ y.stopped = x.stopped /\ y.news = x.news /\ y.how = x.how
    BY ONLY <1>1
<1>3. y = [state |-> y.state, parent |-> y.parent, prog |-> y.prog, pc |-> y.pc,
           mem |-> y.mem, fd |-> y.fd, int |-> y.int, stopped |-> y.stopped,
           news |-> y.news, how |-> y.how]
    BY <1>1, <1>2
<1>4. ProcOK(y) BY <1>2, <1>3 DEF ProcOK
<1> QED BY <1>2, <1>4

LEMMA MarkWell ==
    ASSUME ProcsOK, NEW p, NEW c, NEW int \in BOOLEAN, NEW stopped \in BOOLEAN, NEW news \in News,
           procs' = [procs EXCEPT ![c] = MarkOf(procs[c], int, stopped, news)]
    PROVE  /\ Well(p, {})
           /\ c \in Pids => /\ Others(c) /\ procs'[c].state = procs[c].state /\ Stays(c)
                            /\ procs'[c].parent = procs[c].parent /\ procs'[c].how = procs[c].how
<1>1. CASE c \in Pids
    <2>1. PICK x : x = MarkOf(procs[c], int, stopped, news) OBVIOUS
    <2>2. ProcOK(procs[c]) BY <1>1 DEF ProcsOK
    <2>3. /\ ProcOK(x) /\ x.state = procs[c].state /\ x.parent = procs[c].parent
          /\ x.prog = procs[c].prog /\ x.pc = procs[c].pc /\ x.mem = procs[c].mem
          /\ x.how = procs[c].how
        BY <2>1, <2>2, MarkIs
    <2>4. ProcsOK' /\ procs'[c] = x /\ Others(c) BY <1>1, <2>1, <2>3, OneSet
    <2> QED BY <2>3, <2>4 DEF Well, Others, Stays
<1>2. CASE c \notin Pids
    <2>1. procs' = procs BY <1>2 DEF ProcsOK
    <2> QED BY <1>2, <2>1 DEF Well, ProcsOK
<1> QED BY <1>1, <1>2

\* What a signal leaves alone.
Unmoved(q) ==
    /\ procs'[q].state = procs[q].state /\ procs'[q].parent = procs[q].parent
    /\ procs'[q].how = procs[q].how /\ Stays(q)

LEMMA InterruptIs ==
    ASSUME UnixOK, NEW ignoring, Interrupt(ignoring)
    PROVE  /\ UnixOK' /\ \A q \in Pids : Unmoved(q)
           /\ \A q \in Pids : procs[q].prog \in ignoring \/ ~ Running(q) => procs'[q] = procs[q]
           /\ signals' = signals + 1 /\ UNCHANGED <<pipes, screen, fails>>
<1>1. /\ signals < MaxSignals /\ signals' = signals + 1 /\ UNCHANGED <<pipes, screen, fails>>
      /\ procs' = [q \in Pids |-> IF Running(q) /\ procs[q].prog \notin ignoring
                                  THEN [procs[q] EXCEPT !.int = TRUE] ELSE procs[q]]
    BY DEF Interrupt, Signal
<1>2. ASSUME NEW q \in Pids, procs'[q] # procs[q]
      PROVE  ProcOK(procs'[q]) /\ Unmoved(q)
    <2>1. ProcOK(procs[q]) BY DEF UnixOK, ProcsOK
    <2>2. procs[q].stopped \in BOOLEAN /\ procs[q].news \in News BY <2>1 DEF ProcOK
    <2>3. PICK x : x = MarkOf(procs[q], TRUE, procs[q].stopped, procs[q].news) OBVIOUS
    <2>4. x = [procs[q] EXCEPT !.int = TRUE] BY <2>1, <2>3 DEF ProcOK, MarkOf
    <2>5. procs'[q] = x BY <1>1, <1>2, <2>4
    <2>6. /\ ProcOK(x) /\ x.state = procs[q].state /\ x.parent = procs[q].parent
          /\ x.prog = procs[q].prog /\ x.pc = procs[q].pc /\ x.mem = procs[q].mem
          /\ x.how = procs[q].how
        BY <2>1, <2>2, <2>3, MarkIs
    <2> QED BY <2>5, <2>6 DEF Unmoved, Stays
<1>3. \A q \in Pids : Unmoved(q) BY <1>2 DEF Unmoved, Stays
<1>4. \A q \in Pids : ProcOK(procs'[q]) BY <1>2 DEF UnixOK, ProcsOK
<1>5. procs' = [q \in Pids |-> procs'[q]] BY <1>1
<1>6. ProcsOK' BY <1>4, <1>5 DEF ProcsOK
<1>7. PipesOK' BY <1>1 DEF UnixOK, PipesOK
<1>8. CountsOK' BY <1>1, UnixAssumption DEF UnixOK, CountsOK
<1> QED BY <1>1, <1>3, <1>6, <1>7, <1>8 DEF UnixOK

LEMMA SignalCounts ==
    ASSUME UnixOK, NEW new, Signal(new) PROVE PipesOK' /\ CountsOK'
BY UnixAssumption DEF Signal, UnixOK, CountsOK, PipesOK

(***************************************************************************)
(* forkexec, forkwithfile, primestest.                                     *)
(***************************************************************************)
LEMMA WaiterWaitFine ==
    ASSUME UnixOK, NEW p \in Pids, NEW prog, WaiterWait(p, prog) PROVE Fine(p, {prog}, {})
<1>0. ProcsOK /\ Running(p) /\ procs[p].prog = prog /\ UNCHANGED <<pipes, fails, signals>>
    BY DEF UnixOK, WaiterWait, At
<1>1. PICK c : \/ procs[c].state = "zombie" /\ Reap(p, c, "return")
               \/ procs[c].state = "running" /\ procs' = [procs EXCEPT ![c].news = ""]
    BY DEF WaiterWait
<1>2. Well(p, {})
    <2>1. CASE procs[c].state = "zombie" /\ Reap(p, c, "return")
        <3>1. CASE c \in Pids
            <4>1. c # p BY <1>0, <2>1 DEF Running
            <4>2. /\ ProcsOK' /\ procs'[p].prog = procs[p].prog /\ procs'[c].prog = procs[c].prog
                  /\ \A q \in Pids : q \notin {p, c} => procs'[q] = procs[q]
                BY <1>0, <2>1, <3>1, <4>1, ReapIs DEF Stays
            <4>3. \A q \in Pids : procs'[q].prog = procs[q].prog BY <4>2
            <4> QED BY <4>2, <4>3 DEF Well
        <3>2. CASE c \notin Pids
            <4>1. Goto(p, "return") BY <1>0, <2>1, <3>2 DEF Reap, Goto, ProcsOK
            <4> QED BY <1>0, <4>1, GotoWell
        <3> QED BY <3>1, <3>2
    <2>2. CASE procs' = [procs EXCEPT ![c].news = ""]
        <3>1. CASE c \in Pids
            <4>1. ProcOK(procs[c]) BY <1>0, <3>1 DEF ProcsOK
            <4>2. MarkOf(procs[c], procs[c].int, procs[c].stopped, "") = [procs[c] EXCEPT !.news = ""]
                BY <4>1 DEF ProcOK, MarkOf
            <4>3. procs' = [procs EXCEPT ![c] = MarkOf(procs[c], procs[c].int, procs[c].stopped, "")]
                BY <2>2, <4>2
            <4>4. procs[c].int \in BOOLEAN /\ procs[c].stopped \in BOOLEAN /\ "" \in News
                BY <4>1 DEF ProcOK, News
            <4> QED BY <1>0, <4>3, <4>4, MarkWell
        <3>2. CASE c \notin Pids
            <4>1. procs' = procs BY <1>0, <2>2, <3>2 DEF ProcsOK
            <4> QED BY <1>0, <4>1 DEF Well, ProcsOK
        <3> QED BY <3>1, <3>2
    <2> QED BY <1>1, <2>1, <2>2
<1> QED BY <1>0, <1>2, QuietFine

LEMMA WaiterFine ==
    ASSUME UnixOK, NEW p \in Pids, WaiterStep(p)
    PROVE  \/ \E prog \in Waiters : Fine(p, {prog}, {})
           \/ Fine(p, {"forkexec"}, {"pfind of forkexec"})
           \/ Fine(p, {"pfind of forkexec"}, {})
<1>0. ProcsOK /\ CountsOK /\ procs[p].fd \in Fds BY FdOf DEF UnixOK
<1>1. ASSUME NEW prog \in Waiters, WaiterFork(p, prog) PROVE Fine(p, {prog}, {})
    <2>1. Running(p) /\ procs[p].prog \in {prog} /\ UNCHANGED <<pipes, signals>>
        BY <1>1 DEF WaiterFork, At
    <2>2. \/ UNCHANGED fails /\ \E pc, childPc : Fork(p, pc, childPc)
          \/ Fails /\ \E how \in Hows : Exit(p, how)
        BY <1>1 DEF WaiterFork, Hows
    <2> QED BY <2>1, <2>2, ForkOrFine
<1>2. ASSUME NEW prog \in Waiters, WaiterWait(p, prog) PROVE Fine(p, {prog}, {})
    BY <1>2, WaiterWaitFine
<1>3. ASSUME NEW prog \in Waiters, WaiterReturns(p, prog) PROVE Fine(p, {prog}, {})
    <2>1. Running(p) /\ procs[p].prog \in {prog} /\ UNCHANGED <<pipes, fails, signals>>
        BY <1>3 DEF WaiterReturns, At
    <2>2. Well(p, {}) BY <1>0, <1>3, <2>1, ExitWell DEF WaiterReturns, Hows
    <2> QED BY <2>1, <2>2, QuietFine
<1>4. CASE ExecPfind(p)
    <2>1. Running(p) /\ procs[p].prog \in {"forkexec"} /\ UNCHANGED <<pipes, signals>>
        BY <1>4 DEF ExecPfind, At
    <2>2. \/ Exec(p, "pfind of forkexec", "run", <<>>, procs[p].fd) /\ UNCHANGED fails
          \/ Fails /\ \E how \in Hows : Exit(p, how)
        BY <1>4 DEF ExecPfind, Hows
    <2> QED BY <1>0, <2>1, <2>2, ExecFine
<1>5. CASE ChildReads(p)
    <2>1. Running(p) /\ procs[p].prog \in {"forkwithfile"} /\ UNCHANGED <<pipes, signals>>
        BY <1>5 DEF ChildReads, At
    <2>2. (UNCHANGED fails \/ Fails) /\ \E how \in Hows : Exit(p, how)
        BY <1>5 DEF ChildReads, Hows
    <2>3. Fine(p, {"forkwithfile"}, {}) BY <2>1, <2>2, ForkOrFine
    <2> QED BY <2>3 DEF Waiters
<1>6. CASE ParentOpens(p)
    <2>1. Running(p) /\ procs[p].prog \in {"forkwithfile"} /\ UNCHANGED <<pipes, signals>>
        BY <1>6 DEF ParentOpens, At
    <2>2. \/ UNCHANGED fails /\ \E pc : Goto(p, pc)
          \/ Fails /\ \E how \in Hows : Exit(p, how)
        BY <1>6 DEF ParentOpens, Hows
    <2>3. Fine(p, {"forkwithfile"}, {}) BY <2>1, <2>2, ForkOrFine
    <2> QED BY <2>3 DEF Waiters
<1>7. CASE \E how \in {"exited", "failed"} : RunsOut(p, "pfind of forkexec", how)
    BY <1>7, RunsOutFine DEF Hows
<1> QED BY <1>1, <1>2, <1>3, <1>4, <1>5, <1>6, <1>7 DEF WaiterStep

LEMMA PrimesFine ==
    ASSUME UnixOK, NEW p \in Pids, PrimesStep(p) PROVE Fine(p, {"primestest"}, {})
<1>0. ProcsOK /\ CountsOK BY DEF UnixOK
<1>1. CASE PrimesStart(p)
    <2>1. Running(p) /\ procs[p].prog \in {"primestest"} /\ UNCHANGED <<pipes, fails, signals>>
        BY <1>1 DEF PrimesStart, At
    <2>2. \/ \E pc : Goto(p, pc)
          \/ \E how \in Hows : Exit(p, how)
        BY <1>1 DEF PrimesStart, Usage, Hows
    <2> QED BY <2>1, <2>2, ForkOrFine
<1>2. CASE PrimesFork(p)
    <2>1. Running(p) /\ procs[p].prog \in {"primestest"} /\ UNCHANGED <<pipes, fails, signals>>
        BY <1>2 DEF PrimesFork, At
    <2>2. \E pc, childPc : Fork(p, pc, childPc) BY <1>2 DEF PrimesFork
    <2> QED BY <2>1, <2>2, ForkOrFine
<1>3. CASE PrimesKill(p)
    <2>1. Running(p) /\ procs[p].prog \in {"primestest"} /\ UNCHANGED <<pipes, fails, signals>>
        BY <1>3 DEF PrimesKill, At
    <2>2. PICK c : procs' = [procs EXCEPT ![p].pc = "return", ![c].int = TRUE] BY <1>3 DEF PrimesKill
    <2>3. PICK x : x = MoveOf(procs[p], procs[p].prog, "return", procs[p].mem, procs[p].fd) OBVIOUS
    <2>4. ProcOK(procs[p]) /\ procs[p].fd \in Fds BY <1>0, FdOf DEF ProcsOK
    <2>5. x = [procs[p] EXCEPT !.pc = "return"] BY <2>3, <2>4 DEF ProcOK, MoveOf
    <2>6. ProcOK(x) /\ x.prog = procs[p].prog BY <2>3, <2>4, MoveIs
    <2> DEFINE Z(q) == IF q = p THEN x ELSE procs[q]
    <2>7. procs' = [q \in Pids |-> IF q = c THEN [Z(q) EXCEPT !.int = TRUE] ELSE Z(q)]
        BY <1>0, <2>2, <2>5 DEF ProcsOK
    <2>8. \A q \in Pids : ProcOK(Z(q)) /\ Z(q).prog = procs[q].prog BY <1>0, <2>6 DEF ProcsOK
    <2> HIDE DEF Z
    <2>9. ASSUME NEW q \in Pids PROVE ProcOK(procs'[q]) /\ procs'[q].prog = procs[q].prog
        <3>1. CASE q = c
            <4>1. ProcOK(Z(q)) /\ Z(q).prog = procs[q].prog BY <2>8
            <4>2. Z(q).stopped \in BOOLEAN /\ Z(q).news \in News BY <4>1 DEF ProcOK
            <4>3. procs'[q] = [Z(q) EXCEPT !.int = TRUE] BY <2>7, <3>1
            <4>4. procs'[q] = MarkOf(Z(q), TRUE, Z(q).stopped, Z(q).news)
                BY <4>1, <4>3 DEF ProcOK, MarkOf
            <4>5. PICK y : y = MarkOf(Z(q), TRUE, Z(q).stopped, Z(q).news) OBVIOUS
            <4>6. ProcOK(y) /\ y.prog = Z(q).prog BY <4>1, <4>2, <4>5, MarkIs
            <4> QED BY <4>1, <4>4, <4>5, <4>6
        <3>2. CASE q # c BY <2>7, <2>8, <3>2
        <3> QED BY <3>1, <3>2
    <2>10. procs' = [q \in Pids |-> procs'[q]] BY <2>7
    <2>11. Well(p, {}) BY <2>9, <2>10 DEF Well, ProcsOK
    <2> QED BY <2>1, <2>11, QuietFine
<1>4. CASE PrimesEnd(p)
    <2>1. Running(p) /\ procs[p].prog \in {"primestest"} /\ UNCHANGED <<pipes, fails, signals>>
        BY <1>4 DEF PrimesEnd, At
    <2>2. \E how \in Hows : Exit(p, how) BY <1>4 DEF PrimesEnd, DiesOf, Hows
    <2> QED BY <2>1, <2>2, ForkOrFine
<1> QED BY <1>1, <1>2, <1>3, <1>4 DEF PrimesStep

(***************************************************************************)
(* Naps.                                                                   *)
(***************************************************************************)
LEMMA CaughtSet ==
    ASSUME ProcsOK, NEW p \in Pids, NEW pc, NEW mem,
           procs' = [procs EXCEPT ![p] = CaughtOf(procs[p], pc, mem)]
    PROVE  /\ ProcsOK' /\ Others(p)
           /\ procs'[p].state = procs[p].state /\ procs'[p].parent = procs[p].parent
           /\ procs'[p].prog = procs[p].prog /\ procs'[p].pc = pc /\ procs'[p].mem = mem
           /\ procs'[p].how = procs[p].how /\ ~ procs'[p].int
<1>1. PICK y : y = CaughtOf(procs[p], pc, mem) OBVIOUS
<1>2. ProcOK(procs[p]) BY DEF ProcsOK
<1>3. /\ ProcOK(y) /\ y.state = procs[p].state /\ y.parent = procs[p].parent /\ y.prog = procs[p].prog
      /\ y.pc = pc /\ y.mem = mem /\ y.how = procs[p].how
    BY <1>1, <1>2, CaughtIs
<1>5. ~ y.int BY <1>1, <1>2, CaughtIs
<1>4. ProcsOK' /\ procs'[p] = y /\ Others(p) BY <1>1, <1>3, OneSet
<1> QED BY <1>3, <1>4, <1>5

LEMMA CatchIs ==
    ASSUME ProcsOK, NEW p \in Pids, CatchSignal(p)
    PROVE  /\ ProcsOK' /\ Others(p)
           /\ procs'[p].state = procs[p].state /\ procs'[p].parent = procs[p].parent
           /\ procs'[p].prog = procs[p].prog /\ procs'[p].how = procs[p].how
           /\ procs'[p].mem = [procs[p].mem EXCEPT !.got_signal = TRUE]
           /\ procs'[p].pc = procs[p].pc \/ (procs[p].pc = "sleep" /\ procs'[p].pc = "loop")
<1>1. PICK pc \in {procs[p].pc} \cup (IF procs[p].pc = "sleep" THEN {"loop"} ELSE {}) :
         procs' = [procs EXCEPT ![p].int = FALSE, ![p].mem.got_signal = TRUE, ![p].pc = pc]
    BY DEF CatchSignal
<1>2. PICK mem : mem = [procs[p].mem EXCEPT !.got_signal = TRUE] OBVIOUS
<1>3. ProcOK(procs[p]) BY DEF ProcsOK
<1>4. procs' = [procs EXCEPT ![p] = CaughtOf(procs[p], pc, mem)]
    BY <1>1, <1>2, <1>3 DEF ProcsOK, ProcOK, CaughtOf
<1> HIDE <1>2
<1>5. /\ ProcsOK' /\ Others(p)
      /\ procs'[p].state = procs[p].state /\ procs'[p].parent = procs[p].parent
      /\ procs'[p].prog = procs[p].prog /\ procs'[p].pc = pc /\ procs'[p].mem = mem
      /\ procs'[p].how = procs[p].how /\ ~ procs'[p].int
    BY <1>4, CaughtSet
<1>6. pc = procs[p].pc \/ (procs[p].pc = "sleep" /\ pc = "loop") BY <1>1
<1> QED BY <1>2, <1>5, <1>6

LEMMA OneWell ==
    ASSUME ProcsOK, ProcsOK', NEW p \in Pids, Others(p), procs'[p].prog = procs[p].prog
    PROVE  Well(p, {})
<1>1. \A q \in Pids : procs'[q].prog \in {procs[q].prog, procs[p].prog} \cup {} BY DEF Others
<1> QED BY <1>1 DEF Well

LEMMA NapFine ==
    ASSUME UnixOK, NEW p \in Pids, Running(p), NapStep(p)
    PROVE  Fine(p, Nappers \cup {"worker"}, {})
<1>0. ProcsOK BY DEF UnixOK
<1> SUFFICES procs[p].prog \in Nappers \cup {"worker"} /\ Well(p, {}) /\ UNCHANGED <<pipes, fails, signals>>
    BY QuietFine
<1>1. CASE \E prog \in Nappers : NapStart(p, prog)
    <2>1. \/ Exit(p, "failed") \/ \E pc, mem : Step(p, pc, mem) BY <1>1 DEF NapStart
    <2>2. Well(p, {}) BY <1>0, <2>1, ExitWell, StepWell DEF Hows
    <2> QED BY <1>1, <2>2 DEF NapStart, At
<1>2. CASE \E prog \in Nappers : NapReport(p, prog)
    <2>1. Exit(p, "exited") BY <1>2 DEF NapReport
    <2>2. Well(p, {}) BY <1>0, <2>1, ExitWell DEF Hows
    <2> QED BY <1>2, <2>2 DEF NapReport, At
<1>3. CASE \E prog \in {"snooze", "signals", "worker"} : Sleep(p, prog)
    <2>1. \E pc, mem : Step(p, pc, mem) BY <1>3 DEF Sleep
    <2>2. Well(p, {}) BY <1>0, <2>1, StepWell
    <2> QED BY <1>3, <2>2 DEF Sleep, At, Nappers
<1>4. CASE SnoozeLoop(p)
    <2>1. \E pc, mem : Step(p, pc, mem) BY <1>4 DEF SnoozeLoop
    <2>2. Well(p, {}) BY <1>0, <2>1, StepWell
    <2> QED BY <1>4, <2>2 DEF SnoozeLoop, At, Nappers
<1>5. CASE NapLoop(p)
    <2>1. (\E pc : Goto(p, pc)) \/ (\E pc, mem : Step(p, pc, mem)) BY <1>5 DEF NapLoop
    <2>2. Well(p, {}) BY <1>0, <2>1, StepWell, GotoWell
    <2> QED BY <1>5, <2>2 DEF NapLoop, At, Nappers
<1>6. CASE PrimesLoop(p)
    <2>1. \/ Exit(p, "exited") \/ \E pc, mem : Step(p, pc, mem) BY <1>6 DEF PrimesLoop
    <2>2. Well(p, {}) BY <1>0, <2>1, StepWell, ExitWell DEF Hows
    <2> QED BY <1>6, <2>2 DEF PrimesLoop, At, Nappers
<1>7. CASE CatchSignal(p)
    <2>1. ProcsOK' /\ Others(p) /\ procs'[p].prog = procs[p].prog BY <1>0, <1>7, CatchIs
    <2>2. Well(p, {}) BY <1>0, <2>1, OneWell
    <2> QED BY <1>7, <2>2 DEF CatchSignal
<1>8. CASE DiesEarly(p)
    <2>1. Exit(p, "killed") BY <1>8 DEF DiesEarly, DiesOf
    <2>2. Well(p, {}) BY <1>0, <2>1, ExitWell DEF Hows
    <2> QED BY <1>8, <2>2 DEF DiesEarly
<1>9. CASE WorkerLoop(p)
    <2>1. (\E pc : Goto(p, pc)) \/ (\E pc, mem : Step(p, pc, mem)) BY <1>9 DEF WorkerLoop
    <2>2. Well(p, {}) BY <1>0, <2>1, StepWell, GotoWell
    <2> QED BY <1>9, <2>2 DEF WorkerLoop, At
<1> QED BY <1>1, <1>2, <1>3, <1>4, <1>5, <1>6, <1>7, <1>8, <1>9 DEF NapStep

(***************************************************************************)
(* The shells.                                                             *)
(***************************************************************************)
Bufs == (Texts \ {"^D"}) \cup {Garbage}
ShellRec == [p : 0 .. MaxPid, pid : 0 .. MaxPid, buf : Bufs, line : Nat, jumped : BOOLEAN]
ShellOK(p) ==
    procs[p].prog \in Shells =>
        /\ procs[p].mem \in ShellRec
        /\ procs[p].pc \in {"fork", "exec"} => procs[p].mem.buf \in Commands
ShellsOK == \A p \in Pids : ShellOK(p)
TtyOK ==
    /\ script \in Seq(Texts) /\ pressed \in 0 .. Len(script)
    /\ keys \in Seq(1 .. pressed)

\* p moves to pc with variables mem, and nothing else happens to the processes.
Moves(p, pc, mem) ==
    /\ ProcsOK' /\ Kept(p)
    /\ procs'[p].prog = procs[p].prog /\ procs'[p].pc = pc /\ procs'[p].mem = mem

LEMMA ShellMemPut ==
    ASSUME NEW m \in ShellRec, NEW buf \in Bufs, NEW line \in Nat, NEW pid \in 0 .. MaxPid,
           NEW jumped \in BOOLEAN, NEW q \in 0 .. MaxPid
    PROVE  /\ [m EXCEPT !.buf = buf] \in ShellRec
           /\ [m EXCEPT !.buf = buf, !.line = line] \in ShellRec
           /\ [m EXCEPT !.pid = pid] \in ShellRec
           /\ [m EXCEPT !.jumped = jumped] \in ShellRec
           /\ [m EXCEPT !.p = q, !.jumped = jumped] \in ShellRec
BY DEF ShellRec

LEMMA KeysIs ==
    ASSUME TtyOK, keys # <<>>
    PROVE  /\ Head(keys) \in 1 .. pressed /\ Tail(keys) \in Seq(1 .. pressed)
           /\ script[Head(keys)] \in Texts /\ Len(script) \in Nat /\ Head(keys) \in DOMAIN script
<1>1. Head(keys) \in 1 .. pressed /\ Tail(keys) \in Seq(1 .. pressed) BY DEF TtyOK
<1>2. pressed \in 0 .. Len(script) /\ script \in Seq(Texts) BY DEF TtyOK
<1>3. Len(script) \in Nat /\ \A i \in 1 .. Len(script) : script[i] \in Texts /\ i \in DOMAIN script BY <1>2
<1>4. Head(keys) \in 1 .. Len(script) BY <1>1, <1>2, <1>3
<1> QED BY <1>1, <1>3, <1>4

LEMMA ReadLineIs ==
    ASSUME ProcsOK, TtyOK, NEW p \in Pids, NEW prog \in Shells, ReadLine(p, prog),
           procs[p].mem \in ShellRec
    PROVE  LET text == script[Head(keys)]
           IN  /\ keys # <<>> /\ keys' = Tail(keys) /\ Running(p) /\ procs[p].prog = prog
               /\ procs[p].pc = "read" /\ ~ procs[p].int
               /\ UNCHANGED <<pipes, screen, fails, signals, script, pressed, ran>>
               /\ \/ text = "" /\ Moves(p, "read", [procs[p].mem EXCEPT !.buf = ""])
                  \/ text = "^D" /\ Moves(p, "dispatch", procs[p].mem)
                  \/ text \notin {"", "^D"} /\ text \in Bufs
                     /\ Moves(p, "dispatch", [procs[p].mem EXCEPT !.buf = text, !.line = Head(keys)])
<1> PICK text : text = script[Head(keys)] OBVIOUS
<1>1. text \in Texts BY KeysIs DEF ReadLine
<1>2. /\ keys # <<>> /\ keys' = Tail(keys) /\ Running(p) /\ procs[p].prog = prog
      /\ procs[p].pc = "read" /\ ~ procs[p].int
      /\ UNCHANGED <<pipes, screen, fails, signals, script, pressed, ran>>
    BY DEF ReadLine, At
<1>3. \/ text = "" /\ Step(p, "read", [procs[p].mem EXCEPT !.buf = ""])
      \/ text = "^D" /\ Step(p, "dispatch", procs[p].mem)
      \/ text \notin {"", "^D"}
         /\ Step(p, "dispatch", [procs[p].mem EXCEPT !.buf = text, !.line = Head(keys)])
    BY DEF ReadLine
<1>4. text \notin {"", "^D"} => text \in Bufs BY <1>1 DEF Bufs
<1>5. \A pc, mem : Step(p, pc, mem) => Moves(p, pc, mem) BY StepIs DEF Moves
<1> QED BY <1>2, <1>3, <1>4, <1>5

LEMMA DispatchIs ==
    ASSUME ProcsOK, NEW p \in Pids, Dispatch(p), procs[p].mem \in ShellRec
    PROVE  /\ Running(p) /\ procs[p].prog = "minishell" /\ procs[p].pc = "dispatch" /\ ~ procs[p].int
           /\ UNCHANGED <<pipes, screen, fails, signals, ttyVars>>
           /\ \E buf \in Texts \ {"^D"} :
                 /\ procs[p].mem.buf \in {buf, Garbage}
                 /\ \/ \E how \in Hows : Exit(p, how)
                    \/ buf \notin Commands
                       /\ \E b \in Bufs : Moves(p, "read", [procs[p].mem EXCEPT !.buf = b])
                    \/ buf \in Commands /\ Moves(p, "fork", [procs[p].mem EXCEPT !.buf = buf])
<1> PICK mem : mem = procs[p].mem OBVIOUS
<1>1. /\ Running(p) /\ procs[p].prog = "minishell" /\ procs[p].pc = "dispatch" /\ ~ procs[p].int
      /\ UNCHANGED <<pipes, screen, fails, signals, ttyVars>>
    BY DEF Dispatch, At
<1>2. mem.buf \in Bufs BY DEF ShellRec
<1>3. PICK buf \in IF mem.buf = Garbage THEN Texts \ {"^D"} ELSE {mem.buf} :
         CASE buf = "exit" -> Exit(p, "exited")
           [] buf = "" -> Exit(p, "killed")
           [] buf = "cd" -> \/ Step(p, "read", [mem EXCEPT !.buf = "cd"])
                            \/ Exit(p, "killed")
           [] buf \in {"cd dir", "cd bad", "cd a b"} ->
                Step(p, "read", [mem EXCEPT !.buf = FirstWord(buf)])
           [] buf \in Commands -> Step(p, "fork", [mem EXCEPT !.buf = buf])
    BY DEF Dispatch
<1>4. buf \in Texts \ {"^D"} /\ mem.buf \in {buf, Garbage}
    <2>1. CASE mem.buf = Garbage BY <1>3, <2>1
    <2>2. CASE mem.buf # Garbage BY <1>2, <1>3, <2>2 DEF Bufs
    <2> QED BY <2>1, <2>2
<1>5. \A pc, m : Step(p, pc, m) => Moves(p, pc, m) BY StepIs DEF Moves
<1>6. \/ \E how \in Hows : Exit(p, how)
      \/ buf \notin Commands /\ \E b \in Bufs : Moves(p, "read", [mem EXCEPT !.buf = b])
      \/ buf \in Commands /\ Moves(p, "fork", [mem EXCEPT !.buf = buf])
    <2>0. buf \in {"", "exit", "cd", "cd dir", "cd bad", "cd a b", "cmd", "nohup", "bad"}
        BY <1>4 DEF Texts
    <2>1. CASE buf = "exit"
        <3>1. Exit(p, "exited") BY <1>3, <2>1 DEF Commands
        <3> QED BY <3>1 DEF Hows
    <2>2. CASE buf = ""
        <3>1. Exit(p, "killed") BY <1>3, <2>2 DEF Commands
        <3> QED BY <3>1 DEF Hows
    <2>3. CASE buf = "cd"
        <3>1. \/ Step(p, "read", [mem EXCEPT !.buf = "cd"])
              \/ Exit(p, "killed")
            BY <1>3, <2>3 DEF Commands
        <3>2. "cd" \in Bufs /\ "killed" \in Hows BY DEF Bufs, Texts, Hows
        <3> QED BY <1>5, <2>3, <3>1, <3>2 DEF Commands
    <2>4. CASE buf \in {"cd dir", "cd bad", "cd a b"}
        <3>1. FirstWord(buf) = "cd" BY <2>4 DEF FirstWord
        <3>2. Step(p, "read", [mem EXCEPT !.buf = "cd"]) BY <1>3, <2>4, <3>1 DEF Commands
        <3>3. "cd" \in Bufs BY DEF Bufs, Texts
        <3> QED BY <1>5, <2>4, <3>2, <3>3 DEF Commands
    <2>5. CASE buf \in Commands
        <3>1. Step(p, "fork", [mem EXCEPT !.buf = buf]) BY <1>3, <2>5 DEF Commands
        <3> QED BY <1>5, <2>5, <3>1
    <2> QED BY <2>0, <2>1, <2>2, <2>3, <2>4, <2>5 DEF Commands
<1> QED BY <1>1, <1>4, <1>6

\* What happens to a process while another takes a step: nothing, or it is a
\* zombie that is reaped.
Bystander(q) ==
    /\ Stays(q) /\ procs'[q].parent = procs[q].parent /\ procs'[q].int = procs[q].int
    /\ procs'[q].state = procs[q].state
       \/ (procs[q].state = "zombie" /\ procs'[q].state = "gone")

LEMMA SameStands == ASSUME NEW q, procs'[q] = procs[q] PROVE Bystander(q)
BY DEF Bystander, Stays

LEMMA MovesStand ==
    ASSUME NEW p \in Pids, NEW pc, NEW mem, Moves(p, pc, mem)
    PROVE  \A q \in Pids : q # p => Bystander(q)
BY SameStands DEF Moves, Kept, Others

LEMMA ExitStands ==
    ASSUME ProcsOK, NEW p \in Pids, NEW how \in Hows, Running(p), Exit(p, how)
    PROVE  \A q \in Pids : q # p => Bystander(q)
<1> SUFFICES ASSUME NEW q \in Pids, q # p PROVE Bystander(q) OBVIOUS
<1>1. /\ Stays(q) /\ procs'[q].parent = procs[q].parent
      /\ procs'[q].state = IF q \in Zombies(p) THEN "gone" ELSE procs[q].state
      /\ procs'[q].int = procs[q].int
    BY ExitIs
<1>2. procs'[q].state = procs[q].state
      \/ (procs[q].state = "zombie" /\ procs'[q].state = "gone")
    BY <1>1 DEF Zombies
<1> QED BY <1>1, <1>2 DEF Bystander

LEMMA ReapStands ==
    ASSUME ProcsOK, NEW p \in Pids, NEW c \in Zombies(p), NEW pc, Running(p), Reap(p, c, pc)
    PROVE  /\ c # p /\ \A q \in Pids : q # p => Bystander(q)
           /\ procs'[c].state = "gone"
           /\ ProcsOK' /\ Same(p)
           /\ procs'[p].prog = procs[p].prog /\ procs'[p].pc = pc /\ procs'[p].mem = procs[p].mem
<1>1. c \in Pids /\ c # p /\ procs[c].state = "zombie" BY DEF Zombies, Running
<1>2. /\ ProcsOK' /\ Same(p)
      /\ procs'[p].prog = procs[p].prog /\ procs'[p].pc = pc /\ procs'[p].mem = procs[p].mem
      /\ \A q \in Pids : q \notin {p, c} => procs'[q] = procs[q]
      /\ procs'[c].state = "gone" /\ procs'[c].parent = procs[c].parent /\ Stays(c)
      /\ procs'[c].int = procs[c].int
    BY <1>1, ReapIs
<1>3. Bystander(c) BY <1>1, <1>2 DEF Bystander
<1> QED BY <1>1, <1>2, <1>3, SameStands

LEMMA HandlerIs ==
    ASSUME ProcsOK, NEW p \in Pids, Handler(p)
    PROVE  /\ Running(p) /\ procs[p].prog \in Shells /\ procs[p].int
           /\ UNCHANGED <<pipes, screen, fails, signals, ttyVars>>
           /\ ProcsOK' /\ \A q \in Pids : q # p => Bystander(q)
           /\ procs'[p].state = procs[p].state /\ procs'[p].parent = procs[p].parent
           /\ procs'[p].prog = procs[p].prog /\ procs'[p].pc = "read"
           /\ procs'[p].mem = [procs[p].mem EXCEPT !.jumped = TRUE]
<1>1. /\ Running(p) /\ procs[p].prog \in Shells /\ procs[p].int
      /\ UNCHANGED <<pipes, screen, fails, signals, ttyVars>>
    BY DEF Handler
<1>2. PICK jump : jump = [procs EXCEPT ![p].int = FALSE, ![p].pc = JumpTarget, ![p].mem.jumped = TRUE]
    OBVIOUS
<1>3. procs' = jump \/ \E c \in Zombies(p) : procs' = [jump EXCEPT ![c].state = "gone"]
    BY <1>2 DEF Handler
<1>4. PICK mem : mem = [procs[p].mem EXCEPT !.jumped = TRUE] OBVIOUS
<1>5. PICK x : x = CaughtOf(procs[p], "read", mem) OBVIOUS
<1>6. ProcOK(procs[p]) BY DEF ProcsOK
<1>7. jump = [procs EXCEPT ![p] = x]
    BY <1>2, <1>4, <1>5, <1>6 DEF ProcsOK, ProcOK, CaughtOf, JumpTarget
<1>8. /\ ProcOK(x) /\ x.state = procs[p].state /\ x.parent = procs[p].parent /\ x.prog = procs[p].prog
      /\ x.pc = "read" /\ x.mem = mem
    BY <1>5, <1>6, CaughtIs
<1>9. CASE procs' = jump
    <2>1. ProcsOK' /\ procs'[p] = x /\ Others(p) BY <1>7, <1>8, <1>9, OneSet
    <2> QED BY <1>1, <1>4, <1>8, <2>1, SameStands DEF Others
<1>10. CASE \E c \in Zombies(p) : procs' = [jump EXCEPT ![c].state = "gone"]
    <2>1. PICK c \in Zombies(p) : procs' = [jump EXCEPT ![c].state = "gone"] BY <1>10
    <2>2. c \in Pids /\ c # p /\ procs[c].state = "zombie" BY <1>1, <2>1 DEF Zombies, Running
    <2>3. jump[c] = procs[c] BY <1>7, <2>2 DEF ProcsOK
    <2>4. procs' = [jump EXCEPT ![c] = GoneOf(procs[c])] BY <2>1, <2>3 DEF GoneOf
    <2>5. PutTwo(p, x, c, GoneOf(procs[c])) BY <1>7, <2>4 DEF PutTwo
    <2>6. /\ ProcsOK' /\ procs'[p] = x
          /\ \A q \in Pids : q \notin {p, c} => procs'[q] = procs[q]
          /\ procs'[c].state = "gone" /\ procs'[c].parent = procs[c].parent /\ Stays(c)
          /\ procs'[c].int = procs[c].int
        BY <1>8, <2>2, <2>5, TwoSet
    <2>7. Bystander(c) BY <2>2, <2>6 DEF Bystander
    <2> QED BY <1>1, <1>4, <1>8, <2>6, <2>7, SameStands
<1> QED BY <1>3, <1>9, <1>10

LEMMA AssignIs ==
    ASSUME ProcsOK, NEW p \in Pids, AssignP(p)
    PROVE  /\ Running(p) /\ procs[p].prog = "minishell" /\ procs[p].pc = "assign" /\ ~ procs[p].int
           /\ UNCHANGED <<pipes, screen, fails, signals, ttyVars>>
           /\ Moves(p, "wait", [procs[p].mem EXCEPT !.p = procs[p].mem.pid, !.jumped = FALSE])
BY StepIs DEF AssignP, At, Moves

LEMMA ShellStands ==
    ASSUME NEW q \in Pids, ShellOK(q), Stays(q) PROVE ShellOK(q)'
BY DEF ShellOK, Stays

LEMMA MoveKeepsShells ==
    ASSUME ShellsOK, NEW p \in Pids, NEW pc, NEW mem, Moves(p, pc, mem),
           procs[p].prog \in Shells => mem \in ShellRec /\ (pc \in {"fork", "exec"} => mem.buf \in Commands)
    PROVE  ShellsOK'
<1> SUFFICES ASSUME NEW q \in Pids PROVE ShellOK(q)' BY DEF ShellsOK
<1>1. CASE q = p BY <1>1 DEF Moves, ShellOK
<1>2. CASE q # p
    <2>1. Stays(q) BY <1>2, MovesStand DEF Bystander
    <2> QED BY <2>1, ShellStands DEF ShellsOK
<1> QED BY <1>1, <1>2

LEMMA StayKeepsShells == ASSUME ShellsOK, \A q \in Pids : Stays(q) PROVE ShellsOK'
BY ShellStands DEF ShellsOK

LEMMA MovesWell == ASSUME NEW p \in Pids, NEW pc, NEW mem, Moves(p, pc, mem) PROVE Well(p, {})
BY DEF Moves, Kept, Others, Well

LEMMA HowAre == "exited" \in Hows /\ "failed" \in Hows /\ "killed" \in Hows BY DEF Hows

ShellKeeps(p) ==
    /\ \/ Fine(p, {"minishell"}, {"cmd", "nohup"})
       \/ Fine(p, {"prompt"}, {})
       \/ Fine(p, {"cmd", "nohup"}, {})
    /\ ShellsOK' /\ TtyOK'

LEMMA MinishellFine ==
    ASSUME UnixOK, ShellsOK, TtyOK, NEW p \in Pids, MinishellStep(p)
    PROVE  ShellKeeps(p)
<1>0. ProcsOK BY DEF UnixOK
<1>a. procs[p].prog \in Shells => procs[p].mem \in ShellRec BY DEF ShellsOK, ShellOK
<1>b. ASSUME NEW progs \in {{"minishell"}, {"prompt"}, {"cmd", "nohup"}}, procs[p].prog \in progs,
             Well(p, {}), UNCHANGED <<pipes, fails, signals>>, ShellsOK', TtyOK'
      PROVE  ShellKeeps(p)
    <2>1. Fine(p, progs, {}) BY <1>b, QuietFine
    <2>2. Fine(p, {"minishell"}, {}) => Fine(p, {"minishell"}, {"cmd", "nohup"}) BY DEF Fine, Well
    <2> QED BY <1>b, <2>1, <2>2 DEF ShellKeeps
<1>c. UNCHANGED ttyVars => TtyOK' BY DEF ttyVars, TtyOK
<1>1. ASSUME NEW prog \in Shells, ReadLine(p, prog) PROVE ShellKeeps(p)
    <2> PICK text : text = script[Head(keys)] OBVIOUS
    <2>0. procs[p].mem \in ShellRec BY <1>1, <1>a DEF ReadLine, At
    <2>1. /\ keys # <<>> /\ keys' = Tail(keys) /\ Running(p) /\ procs[p].prog = prog
          /\ procs[p].pc = "read"
          /\ UNCHANGED <<pipes, screen, fails, signals, script, pressed, ran>>
          /\ \/ text = "" /\ Moves(p, "read", [procs[p].mem EXCEPT !.buf = ""])
             \/ text = "^D" /\ Moves(p, "dispatch", procs[p].mem)
             \/ text \notin {"", "^D"} /\ text \in Bufs
                /\ Moves(p, "dispatch", [procs[p].mem EXCEPT !.buf = text, !.line = Head(keys)])
        BY <1>0, <1>1, <2>0, ReadLineIs
    <2>2. Head(keys) \in Nat /\ Tail(keys) \in Seq(1 .. pressed)
        <3>1. Head(keys) \in 1 .. pressed /\ Tail(keys) \in Seq(1 .. pressed) BY <2>1, KeysIs
        <3>2. \A i \in 1 .. pressed : i \in Nat BY <3>1
        <3> QED BY <3>1, <3>2
    <2>3. "" \in Bufs BY DEF Bufs, Texts
    <2>4. PICK pc \in {"read", "dispatch"}, mem \in ShellRec : Moves(p, pc, mem)
        <3>1. text \in Bufs => [procs[p].mem EXCEPT !.buf = text, !.line = Head(keys)] \in ShellRec
            BY <2>0, <2>2 DEF ShellRec
        <3>2. [procs[p].mem EXCEPT !.buf = ""] \in ShellRec BY <2>0, <2>3 DEF ShellRec
        <3> QED BY <2>0, <2>1, <3>1, <3>2
    <2>5. Well(p, {}) BY <2>4, MovesWell
    <2>6. ShellsOK' BY <2>4, MoveKeepsShells
    <2>7. TtyOK' BY <2>1, <2>2 DEF TtyOK
    <2>8. {prog} \in {{"minishell"}, {"prompt"}, {"cmd", "nohup"}} BY DEF Shells
    <2> QED BY <1>b, <2>1, <2>5, <2>6, <2>7, <2>8
<1>2. CASE Dispatch(p)
    <2>0. procs[p].mem \in ShellRec BY <1>2, <1>a DEF Dispatch, At, Shells
    <2>1. /\ Running(p) /\ procs[p].prog = "minishell"
          /\ UNCHANGED <<pipes, screen, fails, signals, ttyVars>>
        BY <1>0, <1>2, <2>0, DispatchIs
    <2>2. PICK buf \in Texts \ {"^D"} :
                 \/ \E how \in Hows : Exit(p, how)
                 \/ buf \notin Commands
                    /\ \E b \in Bufs : Moves(p, "read", [procs[p].mem EXCEPT !.buf = b])
                 \/ buf \in Commands /\ Moves(p, "fork", [procs[p].mem EXCEPT !.buf = buf])
        BY <1>0, <1>2, <2>0, DispatchIs
    <2>3. CASE \E how \in Hows : Exit(p, how)
        <3>1. Well(p, {}) /\ \A q \in Pids : Stays(q) BY <1>0, <2>1, <2>3, ExitWell, ExitIs
        <3>2. ShellsOK' BY <3>1, StayKeepsShells
        <3> QED BY <1>b, <1>c, <2>1, <3>1, <3>2
    <2>4. CASE \E b \in Bufs : Moves(p, "read", [procs[p].mem EXCEPT !.buf = b])
        <3>1. PICK b \in Bufs : Moves(p, "read", [procs[p].mem EXCEPT !.buf = b]) BY <2>4
        <3>2. [procs[p].mem EXCEPT !.buf = b] \in ShellRec BY <2>0, <3>1 DEF ShellRec
        <3>3. ShellsOK' BY <3>1, <3>2, MoveKeepsShells
        <3>4. Well(p, {}) BY <3>1, MovesWell
        <3> QED BY <1>b, <1>c, <2>1, <3>3, <3>4
    <2>5. CASE buf \in Commands /\ Moves(p, "fork", [procs[p].mem EXCEPT !.buf = buf])
        <3>1. buf \in Bufs BY <2>2 DEF Bufs
        <3>2. PICK mem : mem = [procs[p].mem EXCEPT !.buf = buf] OBVIOUS
        <3>3. mem \in ShellRec /\ mem.buf = buf BY <2>0, <3>1, <3>2 DEF ShellRec
        <3>4. ShellsOK' BY <2>5, <3>2, <3>3, MoveKeepsShells
        <3>5. Well(p, {}) BY <2>5, MovesWell
        <3> QED BY <1>b, <1>c, <2>1, <3>4, <3>5
    <2> QED BY <2>2, <2>3, <2>4, <2>5
<1>3. CASE ForkCommand(p)
    <2>1. /\ Running(p) /\ procs[p].prog = "minishell" /\ procs[p].pc = "fork"
          /\ UNCHANGED <<pipes, signals, script, pressed, keys>>
          /\ \/ Fork(p, "assign", "exec") /\ UNCHANGED fails
             \/ Fails /\ Exit(p, "failed")
        BY <1>3 DEF ForkCommand, At
    <2>2. TtyOK' BY <2>1 DEF TtyOK
    <2>3. CASE Fork(p, "assign", "exec") /\ UNCHANGED fails
        <3>1. PICK c \in Pids : ForkOf(p, c, "assign", "exec") BY <1>0, <2>1, <2>3, ForkIs
        <3>2. procs[p].mem \in ShellRec /\ procs[p].mem.buf \in Commands
            BY <2>1 DEF ShellsOK, ShellOK, Shells
        <3>3. c \in 0 .. MaxPid /\ 0 \in 0 .. MaxPid BY UnixAssumption DEF Pids
        <3>4. \A pid \in 0 .. MaxPid :
                 [procs[p].mem EXCEPT !.pid = pid] \in ShellRec
                 /\ [procs[p].mem EXCEPT !.pid = pid].buf \in Commands
            BY <3>2 DEF ShellRec
        <3>5. ASSUME NEW q \in Pids PROVE ShellOK(q)'
            <4>1. CASE q = p BY <3>1, <3>3, <3>4, <4>1 DEF ShellOK, ForkOf
            <4>2. CASE q = c BY <3>1, <3>3, <3>4, <4>2 DEF ShellOK, ForkOf
            <4>3. CASE q \notin {p, c} BY <3>1, <4>3 DEF ForkOf, ShellsOK, ShellOK
            <4> QED BY <4>1, <4>2, <4>3
        <3>6. ShellsOK' BY <3>5 DEF ShellsOK
        <3>7. Well(p, {}) BY <1>0, <2>1, <2>3, ForkWell
        <3> QED BY <1>b, <2>1, <2>2, <2>3, <3>6, <3>7
    <2>4. CASE Fails /\ Exit(p, "failed")
        <3>1. Well(p, {}) /\ \A q \in Pids : Stays(q) BY <1>0, <2>1, <2>4, ExitWell, ExitIs, HowAre
        <3>2. ShellsOK' BY <3>1, StayKeepsShells
        <3>3. CountsOK' BY <2>1, <2>4, FailsCounts DEF UnixOK
        <3>4. Fine(p, {"minishell"}, {}) BY <2>1, <3>1, <3>3, PlainFine
        <3>5. Fine(p, {"minishell"}, {"cmd", "nohup"}) BY <3>4 DEF Fine, Well
        <3> QED BY <2>2, <3>2, <3>5 DEF ShellKeeps
    <2> QED BY <2>1, <2>3, <2>4
<1>4. CASE ExecCommand(p)
    <2>1. /\ Running(p) /\ procs[p].prog = "minishell" /\ procs[p].pc = "exec"
          /\ UNCHANGED <<pipes, screen, fails, signals, ttyVars>>
        BY <1>4 DEF ExecCommand, At
    <2>2. CASE procs[p].mem.buf = "bad"
        <3>0. Exit(p, "failed") BY <1>4, <2>2 DEF ExecCommand
        <3>1. Well(p, {}) /\ \A q \in Pids : Stays(q) BY <1>0, <2>1, <3>0, ExitWell, ExitIs, HowAre
        <3>2. ShellsOK' BY <3>1, StayKeepsShells
        <3> QED BY <1>b, <1>c, <2>1, <3>1, <3>2
    <2>3. CASE procs[p].mem.buf # "bad"
        <3>1. PICK prog : prog = procs[p].mem.buf OBVIOUS
        <3>2. prog \in {"cmd", "nohup"} BY <2>1, <2>3, <3>1 DEF ShellsOK, ShellOK, Shells, Commands
        <3>3. Exec(p, prog, "run", <<>>, procs[p].fd) BY <1>4, <2>3, <3>1 DEF ExecCommand
        <3>4. procs[p].fd \in Fds BY <1>0, FdOf
        <3>5. ProcsOK' /\ Kept(p) /\ procs'[p].prog = prog BY <1>0, <3>3, <3>4, ExecIs
        <3>6. Well(p, {prog}) BY <1>0, <3>3, <3>4, ExecWell
        <3>7. Fine(p, {"minishell"}, {prog}) BY <2>1, <3>6, QuietFine
        <3>8. Fine(p, {"minishell"}, {"cmd", "nohup"}) BY <3>2, <3>7 DEF Fine, Well
        <3>9. ASSUME NEW q \in Pids PROVE ShellOK(q)'
            <4>1. CASE q = p BY <3>2, <3>5, <4>1 DEF ShellOK, Shells
            <4>2. CASE q # p BY <3>5, <4>2 DEF Kept, Others, ShellsOK, ShellOK
            <4> QED BY <4>1, <4>2
        <3> QED BY <1>c, <2>1, <3>8, <3>9 DEF ShellKeeps, ShellsOK
    <2> QED BY <2>2, <2>3
<1>5. CASE AssignP(p)
    <2>1. /\ Running(p) /\ procs[p].prog = "minishell"
          /\ UNCHANGED <<pipes, screen, fails, signals, ttyVars>>
          /\ Moves(p, "wait", [procs[p].mem EXCEPT !.p = procs[p].mem.pid, !.jumped = FALSE])
        BY <1>0, <1>5, AssignIs
    <2>2. procs[p].mem \in ShellRec BY <1>a, <2>1 DEF Shells
    <2>3. [procs[p].mem EXCEPT !.p = procs[p].mem.pid, !.jumped = FALSE] \in ShellRec
        BY <2>2 DEF ShellRec
    <2>4. ShellsOK' BY <2>1, <2>3, MoveKeepsShells
    <2>5. Well(p, {}) BY <2>1, MovesWell
    <2> QED BY <1>b, <1>c, <2>1, <2>4, <2>5
<1>6. CASE WaitCommand(p)
    <2>1. /\ Running(p) /\ procs[p].prog = "minishell"
          /\ UNCHANGED <<pipes, screen, fails, signals, ttyVars>>
        BY <1>6 DEF WaitCommand, At
    <2>2. PICK c \in Zombies(p) : Reap(p, c, AfterWait(p, c)) BY <1>6 DEF WaitCommand
    <2>3. AfterWait(p, c) \in {"read", "wait"} BY DEF AfterWait
    <2>4. PICK pc : pc = AfterWait(p, c) OBVIOUS
    <2>5. /\ \A q \in Pids : q # p => Bystander(q)
          /\ procs'[p].prog = procs[p].prog /\ procs'[p].pc = pc /\ procs'[p].mem = procs[p].mem
        BY <1>0, <2>1, <2>2, <2>4, ReapStands
    <2>6. Well(p, {}) BY <1>0, <2>1, <2>2, ReapWell
    <2>7. ASSUME NEW q \in Pids PROVE ShellOK(q)'
        <3>1. CASE q = p BY <1>a, <2>3, <2>4, <2>5, <3>1 DEF ShellOK
        <3>2. CASE q # p
            <4>1. Stays(q) BY <2>5, <3>2 DEF Bystander
            <4> QED BY <4>1, ShellStands DEF ShellsOK
        <3> QED BY <3>1, <3>2
    <2>8. ShellsOK' BY <2>7 DEF ShellsOK
    <2> QED BY <1>b, <1>c, <2>1, <2>6, <2>8
<1>7. CASE Handler(p)
    <2>1. /\ Running(p) /\ procs[p].prog \in Shells /\ procs[p].int
          /\ UNCHANGED <<pipes, screen, fails, signals, ttyVars>>
          /\ ProcsOK' /\ \A q \in Pids : q # p => Bystander(q)
          /\ procs'[p].prog = procs[p].prog /\ procs'[p].pc = "read"
          /\ procs'[p].mem = [procs[p].mem EXCEPT !.jumped = TRUE]
        BY <1>0, <1>7, HandlerIs
    <2>2. [procs[p].mem EXCEPT !.jumped = TRUE] \in ShellRec BY <1>a, <2>1 DEF ShellRec
    <2>3. ASSUME NEW q \in Pids PROVE ShellOK(q)'
        <3>1. CASE q = p BY <2>1, <2>2, <3>1 DEF ShellOK
        <3>2. CASE q # p
            <4>1. Stays(q) BY <2>1, <3>2 DEF Bystander
            <4> QED BY <4>1, ShellStands DEF ShellsOK
        <3> QED BY <3>1, <3>2
    <2>4. ShellsOK' BY <2>3 DEF ShellsOK
    <2>5. Well(p, {}) BY <2>1 DEF Well, Bystander, Stays
    <2>6. {procs[p].prog} \in {{"minishell"}, {"prompt"}, {"cmd", "nohup"}} BY <2>1 DEF Shells
    <2> QED BY <1>b, <1>c, <2>1, <2>4, <2>5, <2>6
<1>8. CASE CommandEnds(p)
    <2>1. /\ Running(p) /\ procs[p].prog \in {"cmd", "nohup"}
          /\ UNCHANGED <<pipes, screen, fails, signals, ttyVars>>
          /\ \E how \in Hows : Exit(p, how)
        BY <1>8, HowAre DEF CommandEnds, At
    <2>2. Well(p, {}) /\ \A q \in Pids : Stays(q) BY <1>0, <2>1, ExitWell, ExitIs
    <2>3. ShellsOK' BY <2>2, StayKeepsShells
    <2> QED BY <1>b, <1>c, <2>1, <2>2, <2>3
<1>9. CASE Greet(p)
    <2>1. /\ Running(p) /\ procs[p].prog = "prompt"
          /\ UNCHANGED <<pipes, screen, fails, signals, ttyVars>>
          /\ (\E how \in Hows : Exit(p, how)) \/ Goto(p, "read")
        BY <1>9, HowAre DEF Greet, At
    <2>2. CASE \E how \in Hows : Exit(p, how)
        <3>1. Well(p, {}) /\ \A q \in Pids : Stays(q) BY <1>0, <2>1, <2>2, ExitWell, ExitIs
        <3>2. ShellsOK' BY <3>1, StayKeepsShells
        <3> QED BY <1>b, <1>c, <2>1, <3>1, <3>2
    <2>3. CASE Goto(p, "read")
        <3>1. Moves(p, "read", procs[p].mem) BY <1>0, <2>3, GotoIs DEF Moves
        <3>2. ShellsOK' BY <1>a, <3>1, MoveKeepsShells
        <3>3. Well(p, {}) BY <3>1, MovesWell
        <3> QED BY <1>b, <1>c, <2>1, <3>2, <3>3
    <2> QED BY <2>1, <2>2, <2>3
<1> QED BY <1>1, <1>2, <1>3, <1>4, <1>5, <1>6, <1>7, <1>8, <1>9 DEF MinishellStep

(***************************************************************************)
(* What the processes of a program execute.                                *)
(***************************************************************************)
Runs ==
    CASE program = "spfind"       -> {"pfind", "sort"}
      [] program = "countprocess" -> {"ps", "grep", "wc"}
      [] program = "pipes"        -> {"ps", "grep -l"}
      [] program = "nforks"       -> {"randomsleep"}
      [] program = "forkexec"     -> {"pfind of forkexec"}
      [] program = "minishell"    -> {"cmd", "nohup"}
      [] OTHER                    -> {}
Kin == {program} \cup Runs
KinOK == \A p \in Pids : procs[p].prog \in {""} \cup Kin

ProcInv == UnixOK /\ TtyOK /\ ShellsOK /\ KinOK

LEMMA KinIs ==
    /\ "spfind" \in Kin => {"pfind", "sort"} \subseteq Kin
    /\ "countprocess" \in Kin => {"ps", "grep", "wc"} \subseteq Kin
    /\ "pipes" \in Kin => {"ps", "grep -l"} \subseteq Kin
    /\ "nforks" \in Kin => {"randomsleep"} \subseteq Kin
    /\ "forkexec" \in Kin => {"pfind of forkexec"} \subseteq Kin
    /\ "minishell" \in Kin => program = "minishell" /\ Kin = {"minishell", "cmd", "nohup"}
    /\ "prompt" \in Kin => program = "prompt" /\ Kin = {"prompt"}
BY DEF Kin, Runs

LEMMA FineKeeps ==
    ASSUME KinOK, NEW p \in Pids, NEW progs, NEW E, Fine(p, progs, E), program' = program,
           \A x \in progs : x \in {""} \cup Kin => E \subseteq Kin
    PROVE  UnixOK' /\ KinOK'
<1>1. E \subseteq Kin BY DEF Fine, KinOK
<1>2. Kin' = Kin BY DEF Kin, Runs
<1>3. ASSUME NEW q \in Pids PROVE procs'[q].prog \in {""} \cup Kin
    <2>1. procs'[q].prog \in {procs[q].prog, procs[p].prog} \cup E BY DEF Fine, Well
    <2> QED BY <1>1, <2>1 DEF KinOK
<1> QED BY <1>2, <1>3 DEF Fine, KinOK

\* The programs that do not use the terminal's lines.
Plain == Filters \cup Nappers \cup Waiters
          \cup {"ps", "pfind", "spfind", "countprocess", "pipes", "nforks", "randomsleep",
                "pfind of forkexec", "primestest", "worker"}

LEMMA ShellsArePlain ==
    ASSUME KinOK, program \in Shells, NEW p \in Pids
    PROVE  procs[p].prog \notin Plain
BY DEF KinOK, Kin, Runs, Shells, Plain, Filters, Nappers, Waiters

LEMMA PlainNoShells ==
    ASSUME KinOK, program \notin Shells PROVE ShellsOK
BY DEF KinOK, Kin, Runs, Shells, ShellsOK, ShellOK

PlainStep(p) ==
    \/ CommandStep(p) \/ SpfindStep(p) \/ CountStep(p) \/ PipesStep(p)
    \/ NforksStep(p) \/ WaiterStep(p) \/ PrimesStep(p) \/ NapStep(p)

LEMMA FineIsPlain ==
    ASSUME KinOK, NEW p \in Pids, NEW progs, NEW E, Fine(p, progs, E), program' = program,
           progs \subseteq Plain, \A x \in progs : x \in Kin => E \subseteq Kin
    PROVE  UnixOK' /\ KinOK' /\ procs[p].prog \in Plain
<1>1. procs[p].prog \in Plain /\ procs[p].prog \in progs BY DEF Fine
<1>2. procs[p].prog # "" BY <1>1 DEF Plain, Filters, Nappers, Waiters
<1>3. E \subseteq Kin BY <1>1, <1>2 DEF KinOK
<1>4. Kin' = Kin BY DEF Kin, Runs
<1>5. ASSUME NEW q \in Pids PROVE procs'[q].prog \in {""} \cup Kin
    <2>1. procs'[q].prog \in {procs[q].prog, procs[p].prog} \cup E BY DEF Fine, Well
    <2> QED BY <1>3, <2>1 DEF KinOK
<1> QED BY <1>1, <1>4, <1>5 DEF Fine, KinOK

LEMMA PlainStepFine ==
    ASSUME UnixOK, KinOK, NEW p \in Pids, Running(p), PlainStep(p), program' = program
    PROVE  UnixOK' /\ KinOK' /\ procs[p].prog \in Plain
<1>1. CASE CommandStep(p)
    <2> DEFINE progs == Filters \cup {"ps", "pfind"}
           E == {}
    <2>1. Fine(p, progs, E) BY <1>1, CommandFine
    <2>2. progs \subseteq Plain BY DEF Plain
    <2>3. \A x \in progs : x \in Kin => E \subseteq Kin BY KinIs
    <2> HIDE DEF progs, E
    <2> QED BY <2>1, <2>2, <2>3, FineIsPlain
<1>2. CASE SpfindStep(p)
    <2> DEFINE progs == {"spfind"}
           E == {"pfind", "sort"}
    <2>1. Fine(p, progs, E) BY <1>2, SpfindFine
    <2>2. progs \subseteq Plain BY DEF Plain
    <2>3. \A x \in progs : x \in Kin => E \subseteq Kin BY KinIs
    <2> HIDE DEF progs, E
    <2> QED BY <2>1, <2>2, <2>3, FineIsPlain
<1>3. CASE CountStep(p)
    <2> DEFINE progs == {"countprocess"}
           E == {"ps", "grep", "wc"}
    <2>1. Fine(p, progs, E) BY <1>3, CountFine
    <2>2. progs \subseteq Plain BY DEF Plain
    <2>3. \A x \in progs : x \in Kin => E \subseteq Kin BY KinIs
    <2> HIDE DEF progs, E
    <2> QED BY <2>1, <2>2, <2>3, FineIsPlain
<1>4. CASE PipesStep(p)
    <2> DEFINE progs == {"pipes"}
           E == {"ps", "grep -l"}
    <2>1. Fine(p, progs, E) BY <1>4, PipesFine
    <2>2. progs \subseteq Plain BY DEF Plain
    <2>3. \A x \in progs : x \in Kin => E \subseteq Kin BY KinIs
    <2> HIDE DEF progs, E
    <2> QED BY <2>1, <2>2, <2>3, FineIsPlain
<1>5. CASE NforksStep(p)
    <2> DEFINE progs == {"nforks", "randomsleep"}
           E == {"randomsleep"}
    <2>1. Fine(p, progs, E) BY <1>5, NforksFine
    <2>2. progs \subseteq Plain BY DEF Plain
    <2>3. \A x \in progs : x \in Kin => E \subseteq Kin BY KinIs
    <2> HIDE DEF progs, E
    <2> QED BY <2>1, <2>2, <2>3, FineIsPlain
<1>6. CASE WaiterStep(p)
    <2>1. CASE \E prog \in Waiters : Fine(p, {prog}, {})
        <3> PICK prog \in Waiters : Fine(p, {prog}, {}) BY <2>1
        <3> DEFINE progs == {prog}
                   E == {}
        <3>1. Fine(p, progs, E) OBVIOUS
        <3>2. progs \subseteq Plain BY DEF Plain
        <3>3. \A x \in progs : x \in Kin => E \subseteq Kin OBVIOUS
        <3> HIDE DEF progs, E
        <3> QED BY <3>1, <3>2, <3>3, FineIsPlain
    <2>2. CASE Fine(p, {"forkexec"}, {"pfind of forkexec"})
        <3> DEFINE progs == {"forkexec"}
                   E == {"pfind of forkexec"}
        <3>1. Fine(p, progs, E) BY <2>2
        <3>2. progs \subseteq Plain BY DEF Plain, Waiters
        <3>3. \A x \in progs : x \in Kin => E \subseteq Kin BY KinIs
        <3> HIDE DEF progs, E
        <3> QED BY <3>1, <3>2, <3>3, FineIsPlain
    <2>3. CASE Fine(p, {"pfind of forkexec"}, {})
        <3> DEFINE progs == {"pfind of forkexec"}
                   E == {}
        <3>1. Fine(p, progs, E) BY <2>3
        <3>2. progs \subseteq Plain BY DEF Plain
        <3>3. \A x \in progs : x \in Kin => E \subseteq Kin OBVIOUS
        <3> HIDE DEF progs, E
        <3> QED BY <3>1, <3>2, <3>3, FineIsPlain
    <2> QED BY <1>6, <2>1, <2>2, <2>3, WaiterFine
<1>7. CASE PrimesStep(p)
    <2> DEFINE progs == {"primestest"}
           E == {}
    <2>1. Fine(p, progs, E) BY <1>7, PrimesFine
    <2>2. progs \subseteq Plain BY DEF Plain
    <2>3. \A x \in progs : x \in Kin => E \subseteq Kin BY KinIs
    <2> HIDE DEF progs, E
    <2> QED BY <2>1, <2>2, <2>3, FineIsPlain
<1>8. CASE NapStep(p)
    <2> DEFINE progs == Nappers \cup {"worker"}
           E == {}
    <2>1. Fine(p, progs, E) BY <1>8, NapFine
    <2>2. progs \subseteq Plain BY DEF Plain
    <2>3. \A x \in progs : x \in Kin => E \subseteq Kin BY KinIs
    <2> HIDE DEF progs, E
    <2> QED BY <2>1, <2>2, <2>3, FineIsPlain
<1> QED BY <1>1, <1>2, <1>3, <1>4, <1>5, <1>6, <1>7, <1>8 DEF PlainStep

LEMMA ProcessKeeps ==
    ASSUME ProcInv, NEW p \in Pids, ProcessSteps(p)
    PROVE  ProcInv'
<1>0. UnixOK /\ TtyOK /\ ShellsOK /\ KinOK /\ Running(p) /\ program' = program
    BY DEF ProcInv, ProcessSteps
<1>1. CASE PlainStep(p) /\ UNCHANGED ttyVars
    <2>1. UnixOK' /\ KinOK' /\ procs[p].prog \in Plain BY <1>0, <1>1, PlainStepFine
    <2>2. TtyOK' BY <1>0, <1>1 DEF TtyOK, ttyVars
    <2>3. program \notin Shells BY <1>0, <2>1, ShellsArePlain
    <2>4. ShellsOK' BY <1>0, <2>1, <2>3 DEF KinOK, Kin, Runs, Shells, ShellsOK, ShellOK
    <2> QED BY <2>1, <2>2, <2>4 DEF ProcInv
<1>2. CASE MinishellStep(p)
    <2>1. ShellKeeps(p) BY <1>0, <1>2, MinishellFine
    <2>2. UnixOK' /\ KinOK'
        <3>1. CASE Fine(p, {"minishell"}, {"cmd", "nohup"})
            <4> DEFINE progs == {"minishell"}
                   E == {"cmd", "nohup"}
            <4>1. Fine(p, progs, E) BY <3>1
            <4>2. \A x \in progs : x \in {""} \cup Kin => E \subseteq Kin BY KinIs
            <4> HIDE DEF progs, E
            <4> QED BY <1>0, <4>1, <4>2, FineKeeps
        <3>2. CASE \E progs : Fine(p, progs, {})
            <4> PICK progs : Fine(p, progs, {}) BY <3>2
            <4> DEFINE E == {}
            <4>1. Fine(p, progs, E) OBVIOUS
            <4>2. \A x \in progs : x \in {""} \cup Kin => E \subseteq Kin OBVIOUS
            <4> HIDE DEF E
            <4> QED BY <1>0, <4>1, <4>2, FineKeeps
        <3> QED BY <2>1, <3>1, <3>2 DEF ShellKeeps
    <2> QED BY <2>1, <2>2 DEF ProcInv, ShellKeeps
<1> QED BY <1>1, <1>2 DEF ProcessSteps, PlainStep

LEMMA StaysKin ==
    ASSUME KinOK, \A q \in Pids : Stays(q), program' = program PROVE KinOK'
BY DEF KinOK, Kin, Runs, Stays

LEMMA InterruptKeeps ==
    ASSUME ProcInv, NEW ignoring, Interrupt(ignoring), TtyOK', program' = program
    PROVE  ProcInv'
<1>1. UnixOK' /\ \A q \in Pids : Unmoved(q) BY InterruptIs DEF ProcInv
<1>2. \A q \in Pids : Stays(q) BY <1>1 DEF Unmoved
<1>3. KinOK' /\ ShellsOK' BY <1>2, StaysKin, StayKeepsShells DEF ProcInv
<1> QED BY <1>1, <1>3 DEF ProcInv

LEMMA RootIsPid == Root \in Pids BY UnixAssumption DEF Root, Pids

LEMMA DisturbWorkerIs ==
    ASSUME ProcsOK, DisturbWorker
    PROVE  \E pc : \E sig \in Sigs :
             /\ pc = procs[Root].pc \/ (procs[Root].pc = "sleep" /\ pc = "loop")
             /\ Running(Root) /\ procs[Root].prog = "worker"
             /\ signals < MaxSignals /\ signals' = signals + 1 /\ UNCHANGED <<pipes, screen, fails>>
             /\ Moves(Root, pc, [procs[Root].mem EXCEPT !.signal_val = sig])
<1>1. PICK sig \in Sigs, pc \in {procs[Root].pc} \cup (IF procs[Root].pc = "sleep" THEN {"loop"} ELSE {}) :
         Signal([procs EXCEPT ![Root].mem.signal_val = sig, ![Root].pc = pc])
    BY DEF DisturbWorker
<1>2. PICK mem : mem = [procs[Root].mem EXCEPT !.signal_val = sig] OBVIOUS
<1>3. procs' = [procs EXCEPT ![Root].mem.signal_val = sig, ![Root].pc = pc] BY <1>1 DEF Signal
<1>4. Step(Root, pc, mem) BY <1>2, <1>3, RootIsPid DEF Step, ProcsOK, ProcOK
<1>5. Moves(Root, pc, mem) BY <1>4, RootIsPid, StepIs DEF Moves
<1> QED BY <1>1, <1>2, <1>5 DEF Signal, DisturbWorker

LEMMA DisturbIs ==
    ASSUME ProcsOK, NEW c \in Pids, Disturb(c)
    PROVE  /\ c # Root /\ procs[Root].prog \in Waiters /\ Running(c)
           /\ signals < MaxSignals /\ signals' = signals + 1 /\ UNCHANGED <<pipes, screen, fails>>
           /\ \/ \E stopped \in BOOLEAN, news \in {"stopped", "continued"} :
                    procs' = [procs EXCEPT ![c] = MarkOf(procs[c], procs[c].int, stopped, news)]
              \/ Exit(c, "killed")
<1>1. ProcOK(procs[c]) BY DEF ProcsOK
<1>2. CASE StopChild(c)
    <2>1. Signal([procs EXCEPT ![c].stopped = TRUE, ![c].news = "stopped"]) BY <1>2 DEF StopChild
    <2>2. procs' = [procs EXCEPT ![c].stopped = TRUE, ![c].news = "stopped"] BY <2>1 DEF Signal
    <2>3. procs' = [procs EXCEPT ![c] = MarkOf(procs[c], procs[c].int, TRUE, "stopped")]
        BY <1>1, <2>2 DEF MarkOf, ProcsOK, ProcOK
    <2> QED BY <2>1, <2>3 DEF Disturb, Signal, Running
<1>3. CASE ContinueChild(c)
    <2>1. Signal([procs EXCEPT ![c].stopped = FALSE, ![c].news = "continued"]) BY <1>3 DEF ContinueChild
    <2>2. procs' = [procs EXCEPT ![c].stopped = FALSE, ![c].news = "continued"] BY <2>1 DEF Signal
    <2>3. procs' = [procs EXCEPT ![c] = MarkOf(procs[c], procs[c].int, FALSE, "continued")]
        BY <1>1, <2>2 DEF MarkOf, ProcsOK, ProcOK
    <2> QED BY <2>1, <2>3 DEF Disturb, Signal, Running
<1>4. CASE /\ signals < MaxSignals /\ signals' = signals + 1
           /\ Exit(c, "killed")
           /\ UNCHANGED <<pipes, screen, fails>>
    BY <1>4 DEF Disturb, Running
<1> QED BY <1>2, <1>3, <1>4 DEF Disturb

LEMMA AppendKeys ==
    ASSUME NEW n \in Nat, NEW s \in Seq(1 .. n) PROVE Append(s, n + 1) \in Seq(1 .. n + 1)
<1>1. s \in Seq(1 .. n + 1)
    <2>1. Len(s) \in Nat /\ s = [i \in 1 .. Len(s) |-> s[i]] /\ \A i \in 1 .. Len(s) : s[i] \in 1 .. n
        OBVIOUS
    <2>2. \A i \in 1 .. Len(s) : s[i] \in 1 .. n + 1 BY <2>1
    <2> QED BY <2>1, <2>2
<1>2. n + 1 \in 1 .. n + 1 OBVIOUS
<1> QED BY <1>1, <1>2

LEMMA UserKeeps ==
    ASSUME ProcInv, User
    PROVE  ProcInv'
<1>0. UnixOK /\ ProcsOK /\ TtyOK /\ ShellsOK /\ KinOK /\ program' = program
    BY DEF ProcInv, User, UnixOK
<1>1. CASE TypeLine
    <2>1. /\ pressed < Len(script) /\ pressed' = pressed + 1 /\ keys' = Append(keys, pressed + 1)
          /\ UNCHANGED <<procs, pipes, fails, signals, script>>
        BY <1>1 DEF TypeLine, unixVars
    <2>2. pressed \in 0 .. Len(script) /\ Len(script) \in Nat BY <1>0 DEF TtyOK
    <2>3. pressed \in Nat /\ pressed + 1 \in 0 .. Len(script) BY <2>1, <2>2
    <2>4. keys' \in Seq(1 .. pressed + 1) BY <1>0, <2>1, <2>3, AppendKeys DEF TtyOK
    <2>5. TtyOK' BY <1>0, <2>1, <2>3, <2>4 DEF TtyOK
    <2>6. UnixOK' BY <1>0, <2>1 DEF UnixOK, ProcsOK, PipesOK, CountsOK
    <2>7. KinOK' /\ ShellsOK' BY <1>0, <2>1, StaysKin, StayKeepsShells DEF Stays
    <2> QED BY <2>5, <2>6, <2>7 DEF ProcInv
<1>2. CASE PressInterrupt
    <2>1. TtyOK'
        <3>1. keys' = <<>> /\ UNCHANGED <<script, pressed>> BY <1>2 DEF PressInterrupt
        <3>2. \A S : <<>> \in Seq(S) OBVIOUS
        <3> QED BY <1>0, <3>1, <3>2 DEF TtyOK
    <2> QED BY <1>0, <1>2, <2>1, InterruptKeeps DEF PressInterrupt
<1>3. CASE WakeUp /\ UNCHANGED ttyVars
    <2>1. TtyOK' BY <1>0, <1>3 DEF TtyOK, ttyVars
    <2> QED BY <1>0, <1>3, <2>1, InterruptKeeps DEF WakeUp
<1>4. CASE DisturbWorker /\ UNCHANGED ttyVars
    <2>1. PICK pc, mem :
             /\ Running(Root) /\ procs[Root].prog = "worker"
             /\ signals < MaxSignals /\ signals' = signals + 1 /\ UNCHANGED <<pipes, screen, fails>>
             /\ Moves(Root, pc, mem)
        BY <1>0, <1>4, DisturbWorkerIs
    <2>2. ProcsOK' BY <2>1 DEF Moves
    <2>3. PipesOK' /\ CountsOK' BY <1>0, <2>1, UnixAssumption DEF UnixOK, PipesOK, CountsOK
    <2>4. ShellsOK' BY <1>0, <2>1, RootIsPid, MoveKeepsShells DEF Shells
    <2>5. KinOK' BY <1>0, <2>1 DEF KinOK, Kin, Runs, Moves, Kept, Others
    <2>6. TtyOK' BY <1>0, <1>4 DEF TtyOK, ttyVars
    <2> QED BY <2>2, <2>3, <2>4, <2>5, <2>6 DEF ProcInv, UnixOK
<1>5. ASSUME NEW c \in Pids, Disturb(c), UNCHANGED ttyVars PROVE ProcInv'
    <2>1. /\ Running(c)
          /\ signals < MaxSignals /\ signals' = signals + 1 /\ UNCHANGED <<pipes, screen, fails>>
          /\ \/ \E stopped \in BOOLEAN, news \in {"stopped", "continued"} :
                    procs' = [procs EXCEPT ![c] = MarkOf(procs[c], procs[c].int, stopped, news)]
             \/ Exit(c, "killed")
        BY <1>0, <1>5, DisturbIs
    <2>2. ProcsOK' /\ \A q \in Pids : Stays(q)
        <3>1. CASE \E stopped \in BOOLEAN, news \in {"stopped", "continued"} :
                    procs' = [procs EXCEPT ![c] = MarkOf(procs[c], procs[c].int, stopped, news)]
            <4>1. PICK stopped \in BOOLEAN, news \in {"stopped", "continued"} :
                    procs' = [procs EXCEPT ![c] = MarkOf(procs[c], procs[c].int, stopped, news)]
                BY <3>1
            <4>2. news \in News /\ procs[c].int \in BOOLEAN BY <1>0 DEF News, ProcsOK, ProcOK
            <4>3. Well(c, {}) /\ Others(c) /\ Stays(c) BY <1>0, <4>1, <4>2, MarkWell
            <4> QED BY <4>3 DEF Well, Others, Stays
        <3>2. CASE Exit(c, "killed") BY <1>0, <2>1, <3>2, ExitIs, HowAre
        <3> QED BY <2>1, <3>1, <3>2
    <2>3. PipesOK' /\ CountsOK' BY <1>0, <2>1, UnixAssumption DEF UnixOK, PipesOK, CountsOK
    <2>4. ShellsOK' /\ KinOK' BY <1>0, <2>2, StaysKin, StayKeepsShells
    <2>5. TtyOK' BY <1>0, <1>5 DEF TtyOK, ttyVars
    <2> QED BY <2>2, <2>3, <2>4, <2>5 DEF ProcInv, UnixOK
<1> QED BY <1>1, <1>2, <1>3, <1>4, <1>5 DEF User

LEMMA ProcsUnchanged ==
    ASSUME ProcInv, UNCHANGED <<unixVars, ttyVars, program>> PROVE ProcInv'
<1>1. UNCHANGED <<procs, pipes, fails, signals, script, pressed, keys, program>>
    BY DEF unixVars, ttyVars
<1>2. UnixOK' BY <1>1 DEF ProcInv, UnixOK, ProcsOK, PipesOK, CountsOK
<1>3. TtyOK' BY <1>1 DEF ProcInv, TtyOK
<1>4. KinOK' /\ ShellsOK' BY <1>1, StaysKin, StayKeepsShells DEF Stays, ProcInv
<1> QED BY <1>2, <1>3, <1>4 DEF ProcInv

LEMMA ProcNext ==
    ASSUME ProcInv, [Next]_vars PROVE ProcInv'
<1>1. CASE UNCHANGED <<unixVars, ttyVars, program>> BY <1>1, ProcsUnchanged
<1>2. CASE OtherSteps BY <1>1, <1>2 DEF OtherSteps
<1>3. CASE Kills BY <1>1, <1>3 DEF Kills
<1>4. CASE Rings
    <2>1. TtyOK' /\ program' = program BY <1>4 DEF Rings, ttyVars, ProcInv, TtyOK
    <2> QED BY <1>4, <2>1, InterruptKeeps DEF Rings, Alarm
<1>5. CASE UNCHANGED vars BY <1>1, <1>5 DEF vars
<1> QED BY <1>2, <1>3, <1>4, <1>5, UserKeeps, ProcessKeeps DEF Next

IsStarted(x, prog, pc, mem) ==
    /\ ProcOK(x) /\ x.prog = prog /\ x.pc = pc /\ x.mem = mem
    /\ x.state = "running" /\ x.parent = 0 /\ x.how = "" /\ ~ x.int

LEMMA StartedIs ==
    ASSUME NEW x, NEW prog, NEW pc, NEW mem, x = Started(prog, pc, mem)
    PROVE  IsStarted(x, prog, pc, mem)
<1>1. x = [state |-> "running", parent |-> 0, prog |-> prog, pc |-> pc, mem |-> mem,
           fd |-> AtTerminal, int |-> FALSE, stopped |-> FALSE, news |-> "", how |-> ""]
    BY DEF Started, NoProcess
<1>2. /\ x.state = "running" /\ x.parent = 0 /\ x.prog = prog /\ x.pc = pc /\ x.mem = mem
      /\ x.fd = AtTerminal /\ x.int = FALSE /\ x.stopped = FALSE /\ x.news = "" /\ x.how = ""
    BY ONLY <1>1
<1>3. x = [state |-> x.state, parent |-> x.parent, prog |-> x.prog, pc |-> x.pc,
           mem |-> x.mem, fd |-> x.fd, int |-> x.int, stopped |-> x.stopped,
           news |-> x.news, how |-> x.how]
    BY <1>1, <1>2
<1>4. AtTerminal \in Fds BY DEF AtTerminal, Fds
<1>5. 0 \in 0 .. MaxPid BY UnixAssumption
<1>6. ProcOK(x) BY <1>2, <1>3, <1>4, <1>5 DEF ProcOK, States, News, Hows
<1> QED BY <1>2, <1>6 DEF IsStarted

LEMMA NobodyIs ==
    /\ ProcOK(NoProcess) /\ NoProcess.state = "none" /\ NoProcess.prog = "" /\ NoProcess.parent = 0
    /\ ~ NoProcess.int
<1> PICK x : x = NoProcess OBVIOUS
<1>1. x = [state |-> "none", parent |-> 0, prog |-> "", pc |-> "", mem |-> <<>>,
           fd |-> [d \in Descriptors |-> Closed], int |-> FALSE, stopped |-> FALSE,
           news |-> "", how |-> ""]
    BY DEF NoProcess
<1>2. /\ x.state = "none" /\ x.parent = 0 /\ x.prog = "" /\ x.pc = "" /\ x.mem = <<>>
      /\ x.fd = [d \in Descriptors |-> Closed] /\ x.int = FALSE /\ x.stopped = FALSE
      /\ x.news = "" /\ x.how = ""
    BY ONLY <1>1
<1>3. x = [state |-> x.state, parent |-> x.parent, prog |-> x.prog, pc |-> x.pc,
           mem |-> x.mem, fd |-> x.fd, int |-> x.int, stopped |-> x.stopped,
           news |-> x.news, how |-> x.how]
    BY <1>1, <1>2
<1>4. x.fd \in Fds BY <1>2 DEF Fds
<1>5. 0 \in 0 .. MaxPid BY UnixAssumption
<1>6. ProcOK(x) BY <1>2, <1>3, <1>4, <1>5 DEF ProcOK, States, News, Hows
<1> QED BY <1>2, <1>6

\* The processes at the start: the one that was started and nobody else.
Alone1(root) ==
    /\ ProcOK(root) /\ procs[Root] = root
    /\ \A q \in Pids : q # Root => procs[q] = NoProcess

LEMMA UnixStart ==
    ASSUME NEW root, ProcOK(root), UnixInit(root)
    PROVE  UnixOK /\ Alone1(root) /\ screen = <<>> /\ signals = 0 /\ fails = 0
<1>1. procs = [p \in Pids |-> IF p = Root THEN root ELSE NoProcess] BY DEF UnixInit
<1>2. procs[Root] = root /\ \A q \in Pids : q # Root => procs[q] = NoProcess BY <1>1, RootIsPid
<1>3. ProcsOK
    <2>1. \A q \in Pids : ProcOK(procs[q]) BY <1>2, NobodyIs
    <2>2. procs = [q \in Pids |-> procs[q]] BY <1>1
    <2> QED BY <2>1, <2>2 DEF ProcsOK
<1>4. PipesOK
    <2>1. pipes = [q \in Pipes |-> <<>>] BY DEF UnixInit
    <2>2. \A S : <<>> \in Seq(S) OBVIOUS
    <2>3. IsSeq(<<>>) BY <2>2 DEF IsSeq
    <2>4. Len(<<>>) <= PipeCap BY UnixAssumption
    <2>5. \A q \in Pipes : pipes[q] = <<>> BY <2>1
    <2>6. pipes = [q \in Pipes |-> pipes[q]] BY <2>1
    <2> QED BY <2>3, <2>4, <2>5, <2>6 DEF PipesOK
<1>5. CountsOK BY UnixAssumption DEF UnixInit, CountsOK
<1> QED BY <1>2, <1>3, <1>4, <1>5 DEF UnixOK, UnixInit, Alone1

LEMMA TtyStart ==
    ASSUME NEW s, s \in Scripts \cup {<<>>}, TtyInit(s) PROVE TtyOK
<1>1. s \in Seq(Texts)
    <2>1. <<>> \in Seq(Texts) OBVIOUS
    <2> QED BY <2>1, MinishellAssumption
<1>2. Len(s) \in Nat BY <1>1
<1>3. pressed \in 0 .. Len(script) /\ script \in Seq(Texts) BY <1>1, <1>2 DEF TtyInit
<1>4. \A S : <<>> \in Seq(S) OBVIOUS
<1> QED BY <1>3, <1>4 DEF TtyOK, TtyInit

Roots == Pipelined \cup Alone \cup Interactive

FreshRoot(root) ==
    /\ ProcOK(root) /\ root.state = "running" /\ ~ root.int /\ root.parent = 0
    /\ root.how = "" /\ root.prog # ""

LEMMA PlainStart ==
    ASSUME NEW root, NEW prog, NEW pc, NEW mem, root = Started(prog, pc, mem),
           prog # "", prog \notin Shells
    PROVE  FreshRoot(root) /\ root.prog \notin Shells
<1>1. IsStarted(root, prog, pc, mem) BY StartedIs
<1> QED BY <1>1 DEF IsStarted, FreshRoot

LEMMA PlainRoots ==
    ASSUME NEW root \in Pipelined \cup Alone
    PROVE  FreshRoot(root) /\ root.prog \notin Shells
<1>0. \A prog \in {"pfind", "spfind", "countprocess", "pipes", "nforks", "primestest", "worker"}
                   \cup Waiters \cup Nappers : prog # "" /\ prog \notin Shells
    BY DEF Shells, Waiters, Nappers
<1>1. CASE root \in Pipelined
    <2>1. CASE \E line : root = Started("pfind", "options", PfindMem(line)) BY <1>0, <2>1, PlainStart
    <2>2. CASE \E line : root = Started("spfind", "main", SpfindMem(line)) BY <1>0, <2>2, PlainStart
    <2>3. CASE \E argc : root = Started("countprocess", "main", CountMem(argc))
        BY <1>0, <2>3, PlainStart
    <2>4. CASE \E argc : root = Started("pipes", "main", PipesMem(argc)) BY <1>0, <2>4, PlainStart
    <2> QED BY <1>1, <2>1, <2>2, <2>3, <2>4 DEF Pipelined
<1>2. CASE root \in Alone
    <2>1. CASE \E argv : root = Started("nforks", "main", NforksMem(argv)) BY <1>0, <2>1, PlainStart
    <2>2. CASE \E argv : root = Started("primestest", "main", PrimesMem(argv))
        BY <1>0, <2>2, PlainStart
    <2>3. CASE \E prog \in Waiters : root = Started(prog, "main", WaiterMem)
        BY <1>0, <2>3, PlainStart
    <2>4. CASE \E prog \in Nappers, argv \in NapArguments : root = Started(prog, "main", NapMem(argv))
        BY <1>0, <2>4, PlainStart
    <2>5. CASE root = Started("worker", "loop", WorkerMem) BY <1>0, <2>5, PlainStart
    <2> QED BY <1>2, <2>1, <2>2, <2>3, <2>4, <2>5 DEF Alone
<1> QED BY <1>1, <1>2

LEMMA ShellRoots ==
    ASSUME NEW root \in Interactive
    PROVE  FreshRoot(root) /\ root.prog \in Shells /\ root.mem = ShellMem /\ root.pc = "read"
<1>1. PICK prog \in Shells : root = Started(prog, "read", ShellMem) BY DEF Interactive
<1>2. IsStarted(root, prog, "read", ShellMem) BY <1>1, StartedIs
<1> QED BY <1>1, <1>2 DEF IsStarted, FreshRoot, Shells

LEMMA RootsAre ==
    ASSUME NEW root \in Roots
    PROVE  /\ FreshRoot(root)
           /\ root.prog \in Shells => root \in Interactive
BY PlainRoots, ShellRoots DEF Roots

\* How each run starts.
LEMMA Beginnings ==
    ASSUME Init
    PROVE  \/ \E root \in Roots :
                 /\ UnixInit(root) /\ program = root.prog
                 /\ \/ TtyInit(<<>>) /\ root \notin Interactive
                    \/ root \in Interactive /\ \E s \in Scripts : TtyInit(s)
           \/ /\ NoProcesses
              /\ program \in {"list", "sort", "get_string", "echo", "findserver"}
<1>1. ASSUME NEW root \in Roots, UnixInit(root) PROVE procs[Root] = root
    BY <1>1, RootsAre, UnixStart DEF Alone1, FreshRoot
<1>2. \A root \in Interactive : root.prog \in Shells BY ShellRoots
<1>3. \A root \in Pipelined \cup Alone : root.prog \notin Shells BY PlainRoots
<1> QED BY <1>1, <1>2, <1>3 DEF Init, Roots, NoProcesses

LEMMA ShellMemIs == ShellMem \in ShellRec
<1>1. 0 \in 0 .. MaxPid BY UnixAssumption
<1>2. Garbage \in Bufs BY DEF Bufs
<1> QED BY <1>1, <1>2 DEF ShellRec, ShellMem

LEMMA ProcInit == Init => ProcInv
<1> SUFFICES ASSUME Init PROVE ProcInv OBVIOUS
<1>1. ASSUME NEW root \in Roots, UnixInit(root), program = root.prog,
             NEW s \in Scripts \cup {<<>>}, TtyInit(s)
      PROVE  ProcInv
    <2>1. /\ ProcOK(root)
          /\ root.prog \in Shells => root.mem = ShellMem /\ root.pc = "read"
        BY RootsAre, ShellRoots DEF FreshRoot
    <2>2. UnixOK /\ Alone1(root) BY <1>1, <2>1, UnixStart
    <2>3. TtyOK BY <1>1, TtyStart
    <2>4. KinOK BY <1>1, <2>2, NobodyIs DEF KinOK, Kin, Alone1
    <2>5. ShellsOK BY <2>1, <2>2, NobodyIs, ShellMemIs DEF ShellsOK, ShellOK, Alone1, Shells
    <2> QED BY <2>2, <2>3, <2>4, <2>5 DEF ProcInv
<1>2. CASE NoProcesses
    <2>1. UnixInit(NoProcess) /\ TtyInit(<<>>) BY <1>2 DEF NoProcesses
    <2>2. UnixOK /\ Alone1(NoProcess) BY <2>1, UnixStart, NobodyIs
    <2>3. TtyOK BY <2>1, TtyStart
    <2>4. \A q \in Pids : procs[q].prog = "" BY <2>2, NobodyIs DEF Alone1
    <2>5. KinOK BY <2>4 DEF KinOK
    <2>6. ShellsOK BY <2>4 DEF ShellsOK, ShellOK, Shells
    <2> QED BY <2>2, <2>3, <2>5, <2>6 DEF ProcInv
<1> QED BY <1>1, <1>2, Beginnings

THEOREM ProcInvariant == Spec => []ProcInv
BY ProcInit, ProcNext, PTL DEF Spec

(***************************************************************************)
(* minishell: the command that was waited for.                             *)
(***************************************************************************)
ShellStep(p) ==
    \/ ReadLine(p, "minishell") \/ Dispatch(p) \/ ForkCommand(p) \/ ExecCommand(p)
    \/ AssignP(p) \/ WaitCommand(p) \/ Handler(p) \/ CommandEnds(p)

LEMMA ShellOnly ==
    ASSUME ProcInv, program = "minishell", [Next]_vars
    PROVE  /\ program' = program
           /\ \/ TypeLine
              \/ PressInterrupt
              \/ \E p \in Pids : ShellStep(p)
              \/ UNCHANGED <<procs, signals, ttyVars>>
<1>0. /\ UnixOK /\ KinOK /\ program \in Shells
      /\ \A p \in Pids : procs[p].prog \notin Plain
    BY ShellsArePlain DEF ProcInv, Shells
<1>a. \A p \in Pids : procs[p].prog # "prompt" BY <1>0, KinIs DEF KinOK
<1>b. procs[Root].prog \notin Plain BY <1>0, RootIsPid
<1>1. CASE OtherSteps BY <1>1 DEF OtherSteps
<1>2. CASE User
    <2>1. ~ WakeUp BY <1>b DEF WakeUp, Plain, Nappers
    <2>2. ~ DisturbWorker BY <1>b DEF DisturbWorker, Plain
    <2>3. \A c \in Pids : ~ Disturb(c) BY <1>b DEF Disturb, Plain
    <2> QED BY <1>2, <2>1, <2>2, <2>3 DEF User
<1>3. CASE Kills BY <1>3 DEF Kills, unixVars
<1>4. CASE Rings BY <1>4, <1>b DEF Rings, Alarm, Plain, Nappers
<1>5. ASSUME NEW p \in Pids, ProcessSteps(p)
      PROVE  program' = program /\ ShellStep(p)
    <2>1. Running(p) /\ program' = program BY <1>5 DEF ProcessSteps
    <2>2. ~ PlainStep(p) BY <1>0, <2>1, PlainStepFine
    <2>3. MinishellStep(p) BY <1>5, <2>2 DEF ProcessSteps, PlainStep
    <2>4. ~ Greet(p) /\ ~ ReadLine(p, "prompt") BY <1>a DEF Greet, ReadLine, At
    <2> QED BY <2>1, <2>3, <2>4 DEF MinishellStep, ShellStep, Shells
<1>6. CASE UNCHANGED vars BY <1>6 DEF vars, unixVars
<1> QED BY <1>1, <1>2, <1>3, <1>4, <1>5, <1>6 DEF Next

Here(p) == Running(p) /\ procs[p].prog = "minishell"
Over(c, p) == procs[c].parent = p => procs[c].state \in {"none", "gone"}

\* p has the child it waited for until the next fork, unless a jump came between.
Settled(p) ==
    Here(p) =>
        /\ procs[p].pc \in {"read", "dispatch", "fork", "assign", "wait", "exec"}
        /\ procs[p].pc = "wait" => procs[p].mem.p = procs[p].mem.pid
        /\ procs[p].pc \in {"read", "dispatch", "fork"} /\ ~ procs[p].mem.jumped =>
              \A c \in Pids : c = procs[p].mem.p => Over(c, p)
\* Without signals there is one shell; its children are on their way to exec.
Still(p) == signals = 0 => ~ procs[p].int /\ (Here(p) /\ p # Root => procs[p].pc = "exec")
FgInv == program = "minishell" => \A p \in Pids : Settled(p) /\ Still(p)

LEMMA SettledStands ==
    ASSUME NEW p \in Pids, Running(p), procs'[p].parent = procs[p].parent,
           \A q \in Pids : q # p => Bystander(q), UNCHANGED signals,
           NEW q \in Pids, q # p, Settled(q), Still(q)
    PROVE  Settled(q)' /\ Still(q)'
<1>1. /\ procs'[q].prog = procs[q].prog /\ procs'[q].pc = procs[q].pc /\ procs'[q].mem = procs[q].mem
      /\ procs'[q].int = procs[q].int /\ Here(q)' = Here(q)
    BY DEF Bystander, Stays, Here, Running
<1>2. ASSUME NEW c \in Pids, Over(c, q), c # p PROVE Over(c, q)'
    BY <1>2 DEF Over, Bystander
<1>3. Over(p, q) => procs[p].parent # q BY DEF Over, Running
<1>4. ASSUME NEW c \in Pids, Over(c, q) PROVE Over(c, q)'
    BY <1>2, <1>3, <1>4 DEF Over
<1>5. Settled(q)' BY <1>1, <1>4 DEF Settled
<1>6. Still(q)' BY <1>1 DEF Still
<1> QED BY <1>5, <1>6

LEMMA FgStep ==
    ASSUME FgInv, program = "minishell", program' = program,
           NEW p \in Pids, Running(p), procs'[p].parent = procs[p].parent,
           \A q \in Pids : q # p => Bystander(q), UNCHANGED signals,
           Settled(p)', Still(p)'
    PROVE  FgInv'
BY SettledStands DEF FgInv

LEMMA FgExit ==
    ASSUME FgInv, ProcsOK, program = "minishell", program' = program,
           NEW p \in Pids, Running(p), NEW how \in Hows, Exit(p, how), UNCHANGED signals
    PROVE  FgInv'
<1>1. /\ procs'[p].parent = procs[p].parent /\ ~ procs'[p].int
      /\ procs'[p].state \in {"zombie", "gone"}
    BY ExitIs
<1>2. ~ Here(p)' BY <1>1 DEF Here, Running
<1>3. Settled(p)' /\ Still(p)' BY <1>1, <1>2 DEF Settled, Still
<1> QED BY <1>1, <1>3, FgStep, ExitStands

LEMMA FgMoves ==
    ASSUME FgInv, program = "minishell", program' = program,
           NEW p \in Pids, Running(p), NEW pc, NEW mem, Moves(p, pc, mem), UNCHANGED signals,
           Settled(p)', signals = 0 /\ procs[p].prog = "minishell" => p = Root \/ pc = "exec"
    PROVE  FgInv'
<1>1. /\ procs'[p].parent = procs[p].parent /\ procs'[p].int = procs[p].int
      /\ procs'[p].pc = pc /\ procs'[p].prog = procs[p].prog
    BY DEF Moves, Kept, Same
<1>2. Still(p) BY DEF FgInv
<1>3. Still(p)' BY <1>1, <1>2 DEF Still, Here
<1> QED BY <1>1, <1>3, FgStep, MovesStand

LEMMA OverSame ==
    ASSUME NEW p \in Pids, Running(p), NEW c \in Pids, c = p \/ Bystander(c),
           procs'[p].parent = procs[p].parent, Over(c, p)
    PROVE  Over(c, p)'
BY DEF Over, Bystander, Running

\* A move of the shell that keeps p, pid and jumped.
LEMMA MoveSettles ==
    ASSUME FgInv, program = "minishell", program' = program,
           NEW p \in Pids, Running(p), procs[p].prog = "minishell",
           procs[p].pc \in {"read", "dispatch"}, NEW pc \in {"read", "dispatch", "fork"},
           NEW mem, Moves(p, pc, mem), UNCHANGED signals,
           mem.p = procs[p].mem.p, mem.jumped = procs[p].mem.jumped
    PROVE  FgInv'
<1>1. Settled(p) /\ Still(p) /\ Here(p) BY DEF FgInv, Here
<1>2. /\ procs'[p].prog = "minishell" /\ procs'[p].pc = pc /\ procs'[p].mem = mem
      /\ procs'[p].parent = procs[p].parent
    BY DEF Moves, Kept, Same
<1>3. \A q \in Pids : q # p => Bystander(q) BY MovesStand
<1>4. ASSUME NEW c \in Pids, Over(c, p) PROVE Over(c, p)'
    BY <1>2, <1>3, <1>4, OverSame
<1>5. Settled(p)' BY <1>1, <1>2, <1>4 DEF Settled
<1>6. signals = 0 => p = Root BY <1>1 DEF Still
<1> QED BY <1>5, <1>6, FgMoves

LEMMA ForkKeepsFg ==
    ASSUME FgInv, ProcsOK, program = "minishell", program' = program,
           NEW p \in Pids, Running(p), procs[p].prog = "minishell", procs[p].pc = "fork", ~ procs[p].int,
           NEW c \in Pids, ForkOf(p, c, "assign", "exec"), UNCHANGED signals
    PROVE  FgInv'
<1>1. Settled(p) /\ Still(p) /\ Here(p) BY DEF FgInv, Here
<1>2. /\ c # p /\ procs[c].state \in {"none", "gone"}
      /\ Same(p) /\ \A q \in Pids : q \notin {p, c} => procs'[q] = procs[q]
      /\ procs'[p].prog = "minishell" /\ procs'[p].pc = "assign"
      /\ procs'[c].state = "running" /\ procs'[c].parent = p
      /\ procs'[c].prog = "minishell" /\ procs'[c].pc = "exec"
      /\ procs'[c].int = procs[p].int
    BY DEF ForkOf
<1>3. ASSUME NEW q \in Pids PROVE Settled(q)' /\ Still(q)'
    <2>1. CASE q = p BY <1>1, <1>2, <2>1 DEF Settled, Still, Here, Same
    <2>2. CASE q = c BY <1>2, <2>2 DEF Settled, Still, Here
    <2>3. CASE q \notin {p, c}
        <3>1. procs'[q] = procs[q] /\ Settled(q) /\ Still(q) BY <1>2, <2>3 DEF FgInv
        <3>2. ASSUME NEW d \in Pids, Over(d, q) PROVE Over(d, q)'
            <4>1. CASE d = c BY <1>2, <2>3, <4>1 DEF Over
            <4>2. CASE d = p BY <1>2, <3>2, <4>2 DEF Over, Same
            <4>3. CASE d \notin {p, c} BY <1>2, <3>2, <4>3 DEF Over
            <4> QED BY <4>1, <4>2, <4>3
        <3>3. Settled(q)' BY <3>1, <3>2 DEF Settled, Here, Running
        <3>4. Still(q)' BY <3>1 DEF Still, Here, Running
        <3> QED BY <3>3, <3>4
    <2> QED BY <2>1, <2>2, <2>3
<1> QED BY <1>3 DEF FgInv

LEMMA ShellStepFg ==
    ASSUME ProcInv, FgInv, program = "minishell", program' = program,
           NEW p \in Pids, ShellStep(p)
    PROVE  FgInv'
<1>0. ProcsOK /\ TtyOK BY DEF ProcInv, UnixOK
<1>a. procs[p].prog = "minishell" => procs[p].mem \in ShellRec
    BY DEF ProcInv, ShellsOK, ShellOK, Shells
<1>b. Settled(p) /\ Still(p) BY DEF FgInv
<1>1. CASE ReadLine(p, "minishell")
    <2> PICK text : text = script[Head(keys)] OBVIOUS
    <2>0. procs[p].mem \in ShellRec /\ "minishell" \in Shells
        BY <1>1, <1>a DEF ReadLine, At, Shells
    <2>1. /\ Running(p) /\ procs[p].prog = "minishell" /\ procs[p].pc = "read" /\ UNCHANGED signals
          /\ \/ text = "" /\ Moves(p, "read", [procs[p].mem EXCEPT !.buf = ""])
             \/ text = "^D" /\ Moves(p, "dispatch", procs[p].mem)
             \/ text \notin {"", "^D"} /\ text \in Bufs
                /\ Moves(p, "dispatch", [procs[p].mem EXCEPT !.buf = text, !.line = Head(keys)])
        BY <1>0, <1>1, <2>0, ReadLineIs
    <2>2. ASSUME NEW b, NEW line, NEW pc \in {"read", "dispatch"}, NEW mem, Moves(p, pc, mem),
                 mem \in {procs[p].mem, [procs[p].mem EXCEPT !.buf = b],
                          [procs[p].mem EXCEPT !.buf = b, !.line = line]}
          PROVE  FgInv'
        <3>1. mem.p = procs[p].mem.p /\ mem.jumped = procs[p].mem.jumped
            BY <2>0, <2>2 DEF ShellRec
        <3> QED BY <2>1, <2>2, <3>1, MoveSettles
    <2> QED BY <2>1, <2>2
<1>2. CASE Dispatch(p)
    <2>0. procs[p].mem \in ShellRec BY <1>2, <1>a DEF Dispatch, At
    <2>1. /\ Running(p) /\ procs[p].prog = "minishell" /\ procs[p].pc = "dispatch"
          /\ UNCHANGED <<pipes, screen, fails, signals, ttyVars>>
        BY <1>0, <1>2, <2>0, DispatchIs
    <2>2. PICK buf \in Texts \ {"^D"} :
                 \/ \E how \in Hows : Exit(p, how)
                 \/ buf \notin Commands
                    /\ \E b \in Bufs : Moves(p, "read", [procs[p].mem EXCEPT !.buf = b])
                 \/ buf \in Commands /\ Moves(p, "fork", [procs[p].mem EXCEPT !.buf = buf])
        BY <1>0, <1>2, <2>0, DispatchIs
    <2>3. CASE \E how \in Hows : Exit(p, how) BY <1>0, <2>1, <2>3, FgExit
    <2>4. ASSUME NEW b, NEW pc \in {"read", "fork"}, Moves(p, pc, [procs[p].mem EXCEPT !.buf = b])
          PROVE  FgInv'
        <3>1. PICK mem : mem = [procs[p].mem EXCEPT !.buf = b] OBVIOUS
        <3>2. mem.p = procs[p].mem.p /\ mem.jumped = procs[p].mem.jumped
            BY <2>0, <3>1 DEF ShellRec
        <3> QED BY <2>1, <2>4, <3>1, <3>2, MoveSettles
    <2> QED BY <2>2, <2>3, <2>4
<1>3. CASE ForkCommand(p)
    <2>1. /\ Running(p) /\ procs[p].prog = "minishell" /\ procs[p].pc = "fork" /\ ~ procs[p].int
          /\ UNCHANGED signals
          /\ Fork(p, "assign", "exec") \/ Exit(p, "failed")
        BY <1>3 DEF ForkCommand, At
    <2>2. CASE Fork(p, "assign", "exec")
        <3>1. PICK c \in Pids : ForkOf(p, c, "assign", "exec") BY <1>0, <2>1, <2>2, ForkIs
        <3> QED BY <1>0, <2>1, <3>1, ForkKeepsFg
    <2>3. CASE Exit(p, "failed") BY <1>0, <2>1, <2>3, HowAre, FgExit
    <2> QED BY <2>1, <2>2, <2>3
<1>4. CASE ExecCommand(p)
    <2>1. /\ Running(p) /\ procs[p].prog = "minishell" /\ procs[p].pc = "exec"
          /\ UNCHANGED signals
        BY <1>4 DEF ExecCommand, At
    <2>2. CASE procs[p].mem.buf = "bad"
        <3>1. Exit(p, "failed") BY <1>4, <2>2 DEF ExecCommand
        <3> QED BY <1>0, <2>1, <3>1, HowAre, FgExit
    <2>3. CASE procs[p].mem.buf # "bad"
        <3>1. PICK prog : prog = procs[p].mem.buf OBVIOUS
        <3>2. prog \in {"cmd", "nohup"}
            BY <2>1, <2>3, <3>1 DEF ProcInv, ShellsOK, ShellOK, Shells, Commands
        <3>3. Exec(p, prog, "run", <<>>, procs[p].fd) BY <1>4, <2>3, <3>1 DEF ExecCommand
        <3>4. procs[p].fd \in Fds BY <1>0, FdOf
        <3>5. Kept(p) /\ procs'[p].prog = prog BY <1>0, <3>3, <3>4, ExecIs
        <3>6. /\ procs'[p].parent = procs[p].parent /\ procs'[p].int = procs[p].int
              /\ \A q \in Pids : q # p => procs'[q] = procs[q]
            BY <3>5 DEF Kept, Same, Others
        <3>7. \A q \in Pids : q # p => Bystander(q) BY <3>6, SameStands
        <3>8. ~ Here(p)' BY <3>2, <3>5 DEF Here
        <3>9. Settled(p)' /\ Still(p)' BY <1>b, <2>1, <3>6, <3>8 DEF Settled, Still
        <3> QED BY <2>1, <3>6, <3>7, <3>9, FgStep
    <2> QED BY <2>2, <2>3
<1>5. CASE AssignP(p)
    <2>1. /\ Running(p) /\ procs[p].prog = "minishell" /\ procs[p].pc = "assign"
          /\ UNCHANGED <<pipes, screen, fails, signals, ttyVars>>
          /\ Moves(p, "wait", [procs[p].mem EXCEPT !.p = procs[p].mem.pid, !.jumped = FALSE])
        BY <1>0, <1>5, AssignIs
    <2>2. PICK mem : mem = [procs[p].mem EXCEPT !.p = procs[p].mem.pid, !.jumped = FALSE] OBVIOUS
    <2>3. procs[p].mem \in ShellRec BY <1>a, <2>1
    <2>4. mem.p = mem.pid BY <2>2, <2>3 DEF ShellRec
    <2>5. procs'[p].pc = "wait" /\ procs'[p].mem = mem BY <2>1, <2>2 DEF Moves
    <2>6. Settled(p)' BY <2>4, <2>5 DEF Settled
    <2>7. signals = 0 => p = Root BY <1>b, <2>1 DEF Still, Here
    <2> QED BY <2>1, <2>2, <2>6, <2>7, FgMoves
<1>6. CASE WaitCommand(p)
    <2>1. /\ Running(p) /\ procs[p].prog = "minishell" /\ procs[p].pc = "wait"
          /\ UNCHANGED <<pipes, screen, fails, signals, ttyVars>>
        BY <1>6 DEF WaitCommand, At
    <2>2. PICK c \in Zombies(p) : Reap(p, c, AfterWait(p, c)) BY <1>6 DEF WaitCommand
    <2>3. PICK pc : pc = AfterWait(p, c) OBVIOUS
    <2>4. /\ c # p /\ \A q \in Pids : q # p => Bystander(q)
          /\ procs'[c].state = "gone" /\ Same(p)
          /\ procs'[p].prog = procs[p].prog /\ procs'[p].pc = pc /\ procs'[p].mem = procs[p].mem
        BY <1>0, <2>1, <2>2, <2>3, ReapStands
    <2>5. pc = IF c = procs[p].mem.pid THEN "read" ELSE "wait" BY <2>3 DEF AfterWait
    <2>6. procs[p].mem.p = procs[p].mem.pid BY <1>b, <2>1 DEF Settled, Here
    <2>7. c = procs[p].mem.pid => \A d \in Pids : d = procs'[p].mem.p => Over(d, p)'
        BY <2>4, <2>6 DEF Over
    <2>8. Settled(p)' BY <2>4, <2>5, <2>6, <2>7 DEF Settled
    <2>9. Still(p)' BY <1>b, <2>1, <2>4 DEF Still, Here, Same
    <2> QED BY <2>1, <2>4, <2>8, <2>9, FgStep DEF Same
<1>7. CASE Handler(p)
    <2>1. /\ Running(p) /\ procs[p].int
          /\ UNCHANGED <<pipes, screen, fails, signals, ttyVars>>
          /\ \A q \in Pids : q # p => Bystander(q)
          /\ procs'[p].parent = procs[p].parent
          /\ procs'[p].prog = procs[p].prog /\ procs'[p].pc = "read"
          /\ procs'[p].mem = [procs[p].mem EXCEPT !.jumped = TRUE]
        BY <1>0, <1>7, HandlerIs
    <2>2. procs[p].prog = "minishell" => procs'[p].mem.jumped = TRUE BY <1>a, <2>1 DEF ShellRec
    <2>3. Settled(p)' BY <2>1, <2>2 DEF Settled, Here
    <2>4. signals # 0 BY <1>b, <2>1 DEF Still
    <2>5. Still(p)' BY <2>1, <2>4 DEF Still
    <2> QED BY <2>1, <2>3, <2>5, FgStep
<1>8. CASE CommandEnds(p)
    <2>1. /\ Running(p) /\ UNCHANGED <<pipes, screen, fails, signals, ttyVars>>
          /\ \E how \in Hows : Exit(p, how)
        BY <1>8, HowAre DEF CommandEnds, At
    <2> QED BY <1>0, <2>1, FgExit
<1> QED BY <1>1, <1>2, <1>3, <1>4, <1>5, <1>6, <1>7, <1>8 DEF ShellStep

LEMMA ProgramStays == ASSUME [Next]_vars PROVE program' = program
BY DEF Next, OtherSteps, User, Kills, Rings, ProcessSteps, vars

LEMMA FgNext == ASSUME ProcInv, FgInv, [Next]_vars PROVE FgInv'
<1> SUFFICES ASSUME program = "minishell" PROVE FgInv' BY ProgramStays DEF FgInv
<1>1. program' = program /\ (\/ TypeLine \/ PressInterrupt \/ (\E p \in Pids : ShellStep(p))
                             \/ UNCHANGED <<procs, signals, ttyVars>>)
    BY ShellOnly
<1>2. ASSUME UNCHANGED <<procs, signals>> PROVE FgInv'
    BY <1>1, <1>2 DEF FgInv, Settled, Still, Here, Over, Running
<1>3. CASE TypeLine BY <1>2, <1>3 DEF TypeLine, unixVars
<1>4. CASE PressInterrupt
    <2>1. Interrupt({"nohup"}) /\ UnixOK BY <1>4 DEF PressInterrupt, ProcInv
    <2>2. (\A q \in Pids : Unmoved(q)) /\ signals' = signals + 1 BY <2>1, InterruptIs
    <2>3. signals' # 0 BY <2>1, <2>2 DEF UnixOK, CountsOK
    <2> QED BY <1>1, <2>2, <2>3 DEF FgInv, Settled, Still, Here, Over, Running, Unmoved, Stays
<1> QED BY <1>1, <1>2, <1>3, <1>4, ShellStepFg

\* What a shell starts with.
LEMMA ShellStart ==
    ASSUME Init, program \in Shells
    PROVE  /\ procs[Root].prog = program /\ procs[Root].pc = "read" /\ procs[Root].mem = ShellMem
           /\ ~ procs[Root].int /\ Running(Root) /\ screen = <<>> /\ signals = 0
           /\ \A q \in Pids : q # Root => ~ Running(q) /\ ~ procs[q].int
           /\ \E s \in Scripts : TtyInit(s)
<1>1. PICK root \in Interactive :
         UnixInit(root) /\ program = root.prog /\ \E s \in Scripts : TtyInit(s)
    BY Beginnings, RootsAre DEF Shells
<1>2. FreshRoot(root) /\ root.mem = ShellMem /\ root.pc = "read" BY ShellRoots
<1>3. Alone1(root) /\ screen = <<>> /\ signals = 0 BY <1>1, <1>2, UnixStart DEF FreshRoot
<1> QED BY <1>1, <1>2, <1>3, NobodyIs DEF Alone1, FreshRoot, Running

LEMMA FgStart == Init => FgInv
<1> SUFFICES ASSUME Init, program = "minishell" PROVE FgInv BY DEF FgInv
<1>1. /\ procs[Root].pc = "read" /\ procs[Root].mem = ShellMem /\ ~ procs[Root].int
      /\ \A q \in Pids : q # Root => ~ Running(q) /\ ~ procs[q].int
    BY ShellStart DEF Shells
<1>2. ShellMem.p \notin Pids BY DEF ShellMem, Pids
<1>3. ASSUME NEW q \in Pids PROVE Settled(q) /\ Still(q)
    BY <1>1, <1>2 DEF Settled, Still, Here
<1> QED BY <1>3 DEF FgInv

\* The command that the shell waits for has ended and was reaped when it asks
\* for the next line, unless CTRL+C came between; and without CTRL+C there is one
\* shell that asks.
THEOREM CommandWaitedFor == Spec => []ForegroundDone
<1>1. ProcInv /\ FgInv => ForegroundDone
    <2> SUFFICES ASSUME ProcInv, FgInv, program = "minishell" PROVE ForegroundDone
        BY DEF ForegroundDone
    <2>1. \A p \in Pids : Settled(p) /\ Still(p) BY DEF FgInv
    <2>2. \A p \in Pids : At(p, "minishell", "read") => Here(p) /\ procs[p].pc = "read" BY DEF At, Here
    <2>3. ASSUME NEW p \in Pids, At(p, "minishell", "read"), ~ procs[p].mem.jumped,
                 NEW c \in Pids, c = procs[p].mem.p, procs[c].parent = p
          PROVE  procs[c].state \notin {"running", "zombie"}
        BY <2>1, <2>2, <2>3 DEF Settled, Over
    <2>4. signals = 0 => \A p \in Pids \ {Root} : ~ At(p, "minishell", "read")
        BY <2>1, <2>2 DEF Still
    <2> QED BY <2>3, <2>4 DEF ForegroundDone
<1>2. FgInv /\ ProcInv /\ [Next]_vars => FgInv' BY FgNext
<1> QED BY <1>1, <1>2, FgStart, ProcInvariant, PTL DEF Spec

(***************************************************************************)
(* minishell: no line is executed twice.                                   *)
(***************************************************************************)
Taken == pressed - Len(keys)            \* the lines read or forgotten
Pending(p) == Here(p) /\ procs[p].pc \in {"dispatch", "fork"}
Line(p) == procs[p].mem.line
Due(p) ==
    /\ Line(p) \in 1 .. Taken /\ procs[p].mem.buf = script[Line(p)]
    /\ \A i \in DOMAIN ran : ran[i] # Line(p)
KeysInOrder == Taken \in Nat /\ \A i \in DOMAIN keys : keys[i] = Taken + i
RanOnce ==
    /\ \A i \in DOMAIN ran : ran[i] \in 1 .. Taken
    /\ \A i, j \in DOMAIN ran : i # j => ran[i] # ran[j]
PendingOnce ==
    /\ \A p \in Pids : Pending(p) => Due(p)
    /\ \A p, q \in Pids : p # q /\ Pending(p) /\ Pending(q) => Line(p) # Line(q)
Owed(n) == n \in 1 .. Taken /\ script[n] \in Commands /\ ~ (Pending(Root) /\ n = Line(Root))
RanInOrder ==
    /\ \A i, j \in DOMAIN ran : i < j => ran[i] < ran[j]
    /\ Here(Root) => \A n \in Nat : (\E i \in DOMAIN ran : ran[i] = n) <=> Owed(n)
    /\ Pending(Root) => Line(Root) = Taken
OnceInv ==
    program = "minishell" =>
        /\ KeysInOrder /\ ran \in Seq(1 .. pressed)
        /\ ~ EndTyped => RanOnce /\ PendingOnce /\ (signals = 0 => RanInOrder)

LEMMA HereStands ==
    ASSUME NEW q \in Pids, Bystander(q)
    PROVE  /\ Here(q)' = Here(q) /\ Pending(q)' = Pending(q) /\ Line(q)' = Line(q)
           /\ procs'[q].mem = procs[q].mem
BY DEF Bystander, Stays, Here, Running, Pending, Line

\* A step that takes no line and runs none.
LEMMA OnceStays ==
    ASSUME OnceInv, program = "minishell", program' = program,
           NEW p \in Pids, \A q \in Pids : q # p => Bystander(q), UNCHANGED <<ttyVars, signals>>,
           Pending(p)' => Pending(p) /\ Line(p)' = Line(p) /\ procs'[p].mem.buf = procs[p].mem.buf,
           p = Root /\ Here(Root)' =>
               /\ Here(Root)
               /\ ~ EndTyped /\ signals = 0 /\ Pending(Root) =>
                      Pending(Root)' \/ script[Line(Root)] \notin Commands
    PROVE  OnceInv'
<1>1. UNCHANGED <<script, pressed, keys, ran>> BY DEF ttyVars
<1>2. Taken' = Taken /\ EndTyped' = EndTyped BY <1>1 DEF Taken, EndTyped
<1>3. KeysInOrder' /\ (ran \in Seq(1 .. pressed))' BY <1>1, <1>2 DEF OnceInv, KeysInOrder
<1>4. ASSUME NEW q \in Pids, Pending(q)'
      PROVE  Pending(q) /\ Line(q)' = Line(q) /\ procs'[q].mem.buf = procs[q].mem.buf
    BY <1>4, HereStands
<1>5. ASSUME ~ EndTyped PROVE RanOnce' /\ PendingOnce'
    <2>1. RanOnce /\ PendingOnce BY <1>5 DEF OnceInv
    <2>2. RanOnce' BY <1>1, <1>2, <2>1 DEF RanOnce
    <2>3. \A q \in Pids : Pending(q)' => Due(q)' BY <1>1, <1>2, <1>4, <2>1 DEF PendingOnce, Due
    <2>4. \A q, r \in Pids : q # r /\ Pending(q)' /\ Pending(r)' => Line(q)' # Line(r)'
        BY <1>4, <2>1 DEF PendingOnce
    <2> QED BY <2>2, <2>3, <2>4 DEF PendingOnce
<1>6. ASSUME ~ EndTyped, signals = 0 PROVE RanInOrder'
    <2>1. RanInOrder BY <1>6 DEF OnceInv
    <2>2. Here(Root)' => Here(Root) BY HereStands, RootIsPid
    <2>3. Pending(Root)' => Pending(Root) /\ Line(Root)' = Line(Root) BY <1>4, RootIsPid
    <2>4. ASSUME Here(Root)' PROVE \A n \in Nat : Owed(n)' <=> Owed(n)
        <3>1. Pending(Root) => Pending(Root)' \/ script[Line(Root)] \notin Commands
            BY <1>6, <2>4, HereStands, RootIsPid
        <3> QED BY <1>1, <1>2, <2>3, <3>1 DEF Owed
    <2> QED BY <1>1, <1>2, <2>1, <2>2, <2>3, <2>4 DEF RanInOrder
<1> QED BY <1>1, <1>2, <1>3, <1>5, <1>6 DEF OnceInv

LEMMA SeqGrows ==
    ASSUME NEW n \in Nat, NEW s \in Seq(1 .. n) PROVE s \in Seq(1 .. n + 1)
<1>1. Len(s) \in Nat /\ s = [i \in 1 .. Len(s) |-> s[i]] /\ \A i \in 1 .. Len(s) : s[i] \in 1 .. n
    OBVIOUS
<1>2. \A i \in 1 .. Len(s) : s[i] \in 1 .. n + 1 BY <1>1
<1> QED BY <1>1, <1>2

LEMMA OnceTypes ==
    ASSUME OnceInv, TtyOK, program = "minishell", program' = program, TypeLine
    PROVE  OnceInv'
<1>1. /\ pressed < Len(script) /\ pressed' = pressed + 1 /\ keys' = Append(keys, pressed + 1)
      /\ UNCHANGED <<procs, signals, script, ran>>
    BY DEF TypeLine, unixVars
<1>2. pressed \in Nat /\ keys \in Seq(1 .. pressed) /\ KeysInOrder /\ ran \in Seq(1 .. pressed)
    <2>1. pressed \in 0 .. Len(script) /\ script \in Seq(Texts) BY DEF TtyOK
    <2>2. Len(script) \in Nat BY <2>1
    <2> QED BY <2>1, <2>2 DEF OnceInv, TtyOK
<1>3. Len(keys) \in Nat /\ Len(keys') = Len(keys) + 1 BY <1>1, <1>2
<1>4. Taken' = Taken BY <1>1, <1>2, <1>3 DEF Taken
<1>5. KeysInOrder'
    <2>1. ASSUME NEW i \in DOMAIN keys' PROVE keys'[i] = Taken + i
        <3>1. i \in 1 .. Len(keys) + 1 BY <1>1, <1>2, <2>1
        <3>2. CASE i = Len(keys) + 1
            <4>1. keys'[i] = pressed + 1 BY <1>1, <1>2, <3>2
            <4> QED BY <1>2, <1>3, <3>2, <4>1 DEF Taken
        <3>3. CASE i # Len(keys) + 1
            <4>1. i \in 1 .. Len(keys) BY <1>3, <3>1, <3>3
            <4>2. keys'[i] = keys[i] /\ i \in DOMAIN keys BY <1>1, <1>2, <4>1
            <4> QED BY <1>2, <4>2 DEF KeysInOrder
        <3> QED BY <3>2, <3>3
    <2> QED BY <1>2, <1>4, <2>1 DEF KeysInOrder
<1>6. ran \in Seq(1 .. pressed + 1) BY <1>2, SeqGrows
<1>7. EndTyped => EndTyped' BY <1>1, <1>2 DEF EndTyped
<1>8. /\ RanOnce' = RanOnce /\ PendingOnce' = PendingOnce /\ RanInOrder' = RanInOrder
    BY <1>1, <1>4 DEF RanOnce, PendingOnce, RanInOrder, Due, Owed, Pending, Here, Running, Line
<1> QED BY <1>1, <1>5, <1>6, <1>7, <1>8 DEF OnceInv

LEMMA OnceInterrupts ==
    ASSUME OnceInv, TtyOK, UnixOK, program = "minishell", program' = program, PressInterrupt
    PROVE  OnceInv'
<1>1. /\ Interrupt({"nohup"}) /\ keys' = <<>> /\ UNCHANGED <<script, pressed, ran>>
    BY DEF PressInterrupt
<1>2. (\A q \in Pids : Unmoved(q)) /\ signals' # 0
    BY <1>1, InterruptIs DEF UnixOK, CountsOK
<1>3. pressed \in Nat /\ keys \in Seq(1 .. pressed) /\ Len(keys) \in Nat
    <2>1. pressed \in 0 .. Len(script) /\ script \in Seq(Texts) BY DEF TtyOK
    <2>2. Len(script) \in Nat BY <2>1
    <2> QED BY <2>1, <2>2 DEF TtyOK
<1>4. Taken' = pressed /\ Taken <= pressed /\ Taken \in Int BY <1>1, <1>3 DEF Taken
<1>5. KeysInOrder' BY <1>1, <1>3, <1>4 DEF KeysInOrder
<1>6. EndTyped' = EndTyped BY <1>1 DEF EndTyped
<1>7. \A q \in Pids : Pending(q)' = Pending(q) /\ Line(q)' = Line(q) /\ procs'[q].mem = procs[q].mem
    BY <1>2 DEF Pending, Here, Running, Line, Unmoved, Stays
<1>8. \A n : n \in 1 .. Taken => n \in 1 .. pressed BY <1>3, <1>4
<1>9. ASSUME ~ EndTyped PROVE RanOnce' /\ PendingOnce'
    <2>1. RanOnce /\ PendingOnce BY <1>9 DEF OnceInv
    <2>2. RanOnce' BY <1>1, <1>4, <1>8, <2>1 DEF RanOnce
    <2>3. \A q \in Pids : Pending(q)' => Due(q)' BY <1>1, <1>4, <1>7, <1>8, <2>1 DEF PendingOnce, Due
    <2>4. \A q, r \in Pids : q # r /\ Pending(q)' /\ Pending(r)' => Line(q)' # Line(r)'
        BY <1>7, <2>1 DEF PendingOnce
    <2> QED BY <2>2, <2>3, <2>4 DEF PendingOnce
<1> QED BY <1>1, <1>2, <1>5, <1>6, <1>9 DEF OnceInv

LEMMA Reads ==
    ASSUME OnceInv, TtyOK, program = "minishell", keys # <<>>, keys' = Tail(keys),
           UNCHANGED <<script, pressed, ran>>
    PROVE  /\ Taken' = Taken + 1 /\ Head(keys) = Taken + 1 /\ Taken \in Nat
           /\ KeysInOrder' /\ EndTyped' = EndTyped /\ ran \in Seq(1 .. pressed)
           /\ Head(keys) \in 1 .. pressed
<1>1. keys \in Seq(1 .. pressed) /\ KeysInOrder /\ ran \in Seq(1 .. pressed) BY DEF OnceInv, TtyOK
<1>2. pressed \in Nat
    <2>1. pressed \in 0 .. Len(script) /\ script \in Seq(Texts) BY DEF TtyOK
    <2>2. Len(script) \in Nat BY <2>1
    <2> QED BY <2>1, <2>2
<1>3. /\ Len(keys) \in Nat /\ Len(keys) > 0 /\ Len(Tail(keys)) = Len(keys) - 1
      /\ Head(keys) = keys[1] /\ 1 \in DOMAIN keys /\ Head(keys) \in 1 .. pressed
    <2>1. Len(keys) \in Nat /\ Len(keys) > 0 BY <1>1
    <2>2. Head(keys) = keys[1] /\ 1 \in DOMAIN keys BY <1>1, <2>1
    <2>3. Head(keys) \in 1 .. pressed BY KeysIs
    <2>4. Len(Tail(keys)) = Len(keys) - 1 BY <1>1, <2>1
    <2> QED BY <2>1, <2>2, <2>3, <2>4
<1>4. Taken' = Taken + 1 /\ Taken \in Nat BY <1>1, <1>2, <1>3 DEF Taken, KeysInOrder
<1>5. Head(keys) = Taken + 1 BY <1>1, <1>3 DEF KeysInOrder
<1>6. ASSUME NEW i \in DOMAIN keys' PROVE keys'[i] = Taken' + i
    <2>1. i \in 1 .. Len(keys) - 1 BY <1>1, <1>3, <1>6
    <2>2. keys'[i] = keys[i + 1] /\ i + 1 \in DOMAIN keys BY <1>1, <1>3, <2>1
    <2>3. keys[i + 1] = Taken + (i + 1) BY <1>1, <2>2 DEF KeysInOrder
    <2> QED BY <1>4, <2>1, <2>2, <2>3
<1>7. KeysInOrder' BY <1>4, <1>6 DEF KeysInOrder
<1>8. EndTyped' = EndTyped BY DEF EndTyped
<1> QED BY <1>1, <1>3, <1>4, <1>5, <1>7, <1>8

LEMMA OnceReads ==
    ASSUME OnceInv, FgInv, ProcsOK, TtyOK, program = "minishell", program' = program,
           NEW p \in Pids, procs[p].mem \in ShellRec, ReadLine(p, "minishell")
    PROVE  OnceInv'
<1> PICK text : text = script[Head(keys)] OBVIOUS
<1>1. /\ keys # <<>> /\ keys' = Tail(keys) /\ Running(p) /\ procs[p].prog = "minishell"
      /\ procs[p].pc = "read"
      /\ UNCHANGED <<pipes, screen, fails, signals, script, pressed, ran>>
      /\ \/ text = "" /\ Moves(p, "read", [procs[p].mem EXCEPT !.buf = ""])
         \/ text = "^D" /\ Moves(p, "dispatch", procs[p].mem)
         \/ text \notin {"", "^D"} /\ text \in Bufs
            /\ Moves(p, "dispatch", [procs[p].mem EXCEPT !.buf = text, !.line = Head(keys)])
    BY ReadLineIs DEF Shells
<1>2. /\ Taken' = Taken + 1 /\ Head(keys) = Taken + 1 /\ Taken \in Nat
      /\ KeysInOrder' /\ EndTyped' = EndTyped /\ ran \in Seq(1 .. pressed)
      /\ Head(keys) \in 1 .. pressed
    BY <1>1, Reads
<1>3. text = "^D" => EndTyped BY <1>2 DEF EndTyped
<1> SUFFICES ASSUME ~ EndTyped PROVE RanOnce' /\ PendingOnce' /\ (signals = 0 => RanInOrder')
    BY <1>1, <1>2 DEF OnceInv
<1>4. RanOnce /\ PendingOnce /\ (signals = 0 => RanInOrder) BY DEF OnceInv
<1>5. \A q \in Pids : q # p => Bystander(q)
    BY <1>1, MovesStand
<1>6. /\ procs'[p].prog = "minishell" /\ Running(p)'
      /\ \/ text = "" /\ procs'[p].pc = "read"
         \/ /\ text \notin {"", "^D"} /\ procs'[p].pc = "dispatch"
            /\ procs'[p].mem = [procs[p].mem EXCEPT !.buf = text, !.line = Head(keys)]
    BY <1>1, <1>3 DEF Moves, Kept, Same, Running
<1>7. Here(p) /\ Here(p)' /\ ~ Pending(p) BY <1>1, <1>6 DEF Here, Pending
<1>8. Pending(p)' => Line(p)' = Taken + 1 /\ procs'[p].mem.buf = script[Taken + 1]
    <2> SUFFICES ASSUME Pending(p)' PROVE Line(p)' = Taken + 1 /\ procs'[p].mem.buf = text
        BY <1>2
    <2>1. procs'[p].mem = [procs[p].mem EXCEPT !.buf = text, !.line = Head(keys)]
        BY <1>6 DEF Pending
    <2>2. procs'[p].mem.line = Head(keys) /\ procs'[p].mem.buf = text BY <2>1 DEF ShellRec
    <2> QED BY <1>2, <2>2 DEF Line
<1>9. RanOnce'
    <2>1. \A n : n \in 1 .. Taken => n \in 1 .. Taken + 1 BY <1>2
    <2>2. \A i \in DOMAIN ran : ran[i] \in 1 .. Taken + 1 BY <1>4, <2>1 DEF RanOnce
    <2> QED BY <1>1, <1>2, <1>4, <2>2 DEF RanOnce
<1>10. ASSUME NEW q \in Pids, Pending(q)' PROVE Due(q)'
    <2>1. CASE q = p
        <3>1. Line(p)' = Taken + 1 /\ procs'[p].mem.buf = script[Taken + 1] BY <1>8, <1>10, <2>1
        <3>2. \A i \in DOMAIN ran : ran[i] # Taken + 1 BY <1>2, <1>4 DEF RanOnce
        <3>3. Taken + 1 \in 1 .. Taken + 1 BY <1>2
        <3> QED BY <1>1, <1>2, <2>1, <3>1, <3>2, <3>3 DEF Due
    <2>2. CASE q # p
        <3>1. Pending(q) /\ Line(q)' = Line(q) /\ procs'[q].mem = procs[q].mem
            BY <1>5, <1>10, <2>2, HereStands
        <3>2. Due(q) BY <1>4, <3>1 DEF PendingOnce
        <3>3. \A n : n \in 1 .. Taken => n \in 1 .. Taken + 1 BY <1>2
        <3> QED BY <1>1, <1>2, <3>1, <3>2, <3>3 DEF Due
    <2> QED BY <2>1, <2>2
<1>11. ASSUME NEW q \in Pids, q # p, Pending(q)' PROVE Pending(q) /\ Line(q)' = Line(q) /\ Line(q) \in 1 .. Taken
    BY <1>4, <1>5, <1>11, HereStands DEF PendingOnce, Due
<1>12. \A q, r \in Pids : q # r /\ Pending(q)' /\ Pending(r)' => Line(q)' # Line(r)'
    BY <1>2, <1>4, <1>8, <1>11 DEF PendingOnce
<1>13. ASSUME signals = 0 PROVE RanInOrder'
    <2>1. p = Root BY <1>1, <1>7, <1>13 DEF FgInv, Still
    <2>2. RanInOrder /\ Here(Root) /\ ~ Pending(Root) BY <1>4, <1>7, <1>13, <2>1
    <2>3. Pending(Root)' => Line(Root)' = Taken' BY <1>2, <1>8, <2>1
    <2>4. Pending(Root)' \/ script[Taken + 1] \notin Commands
        <3>1. CASE text = "" BY <1>2, <3>1 DEF Commands
        <3>2. CASE procs'[p].pc = "dispatch" BY <1>7, <2>1, <3>2 DEF Pending
        <3> QED BY <1>6, <3>1, <3>2
    <2>5. ASSUME NEW n \in Nat PROVE Owed(n)' <=> Owed(n)
        <3>1. CASE n = Taken + 1
            <4>1. ~ Owed(n) BY <1>2, <3>1 DEF Owed
            <4>2. ~ Owed(n)' BY <1>1, <1>2, <2>3, <2>4, <3>1 DEF Owed
            <4> QED BY <4>1, <4>2
        <3>2. CASE n # Taken + 1
            <4>1. n \in 1 .. Taken' <=> n \in 1 .. Taken BY <1>2, <3>2
            <4> QED BY <1>1, <1>2, <2>2, <2>3, <3>2, <4>1 DEF Owed
        <3> QED BY <3>1, <3>2
    <2> QED BY <1>1, <2>2, <2>3, <2>5 DEF RanInOrder
<1> QED BY <1>9, <1>10, <1>12, <1>13 DEF PendingOnce

LEMMA OnceForks ==
    ASSUME OnceInv, FgInv, TtyOK, program = "minishell", program' = program,
           NEW p \in Pids, Running(p), procs[p].prog = "minishell", procs[p].pc = "fork",
           procs[p].mem.buf \in Commands,
           NEW c \in Pids, ForkOf(p, c, "assign", "exec"), ran' = Noted(procs[p].mem.line),
           UNCHANGED <<signals, script, pressed, keys>>
    PROVE  OnceInv'
<1>1. /\ c # p /\ procs[c].state \in {"none", "gone"}
      /\ Same(p) /\ \A q \in Pids : q \notin {p, c} => procs'[q] = procs[q]
      /\ procs'[p].pc = "assign" /\ procs'[c].pc = "exec"
    BY DEF ForkOf
<1>2. Taken' = Taken /\ EndTyped' = EndTyped /\ KeysInOrder' BY DEF Taken, EndTyped, OnceInv, KeysInOrder
<1>3. ran \in Seq(1 .. pressed) /\ KeysInOrder BY DEF OnceInv
<1>4. CASE EndTyped BY <1>2, <1>3, <1>4 DEF Noted, OnceInv
<1>5. CASE ~ EndTyped
    <2> PICK n : n = Line(p) OBVIOUS
    <2>1. ran' = Append(ran, n) BY <1>5 DEF Noted, Line
    <2>2. RanOnce /\ PendingOnce /\ (signals = 0 => RanInOrder) BY <1>5 DEF OnceInv
    <2>3. Pending(p) /\ Here(p) BY DEF Pending, Here
    <2>4. n \in 1 .. Taken /\ script[n] \in Commands /\ \A i \in DOMAIN ran : ran[i] # n
        BY <2>2, <2>3 DEF PendingOnce, Due
    <2>5. Taken \in Nat /\ Taken <= pressed /\ pressed \in Nat
        <3>1. pressed \in 0 .. Len(script) /\ script \in Seq(Texts) /\ keys \in Seq(1 .. pressed) BY DEF TtyOK
        <3>2. Len(script) \in Nat /\ Len(keys) \in Nat BY <3>1
        <3> QED BY <1>3, <3>1, <3>2 DEF Taken, KeysInOrder
    <2>6. n \in 1 .. pressed BY <2>4, <2>5
    <2>7. ran' \in Seq(1 .. pressed) BY <1>3, <2>1, <2>6
    <2>8. /\ Len(ran) \in Nat /\ DOMAIN ran = 1 .. Len(ran) /\ DOMAIN ran' = 1 .. Len(ran) + 1
          /\ ran'[Len(ran) + 1] = n /\ \A i \in DOMAIN ran : ran'[i] = ran[i]
        BY <1>3, <2>1, <2>6
    <2>9. \A i \in DOMAIN ran' : i \in DOMAIN ran \/ i = Len(ran) + 1 BY <2>8
    <2>10. RanOnce'
        <3>1. \A i \in DOMAIN ran' : ran'[i] \in 1 .. Taken BY <2>2, <2>4, <2>8, <2>9 DEF RanOnce
        <3>2. \A i, j \in DOMAIN ran' : i # j => ran'[i] # ran'[j]
            BY <2>2, <2>4, <2>8, <2>9 DEF RanOnce
        <3> QED BY <1>2, <3>1, <3>2 DEF RanOnce
    <2>11. ASSUME NEW q \in Pids, Pending(q)'
           PROVE  /\ q \notin {p, c} /\ procs'[q] = procs[q] /\ Pending(q)
                  /\ Line(q)' = Line(q) /\ Line(q) # n
        <3>1. q \notin {p, c} BY <1>1, <2>11 DEF Pending
        <3>2. procs'[q] = procs[q] /\ Pending(q) BY <1>1, <2>11, <3>1 DEF Pending, Here, Running
        <3> QED BY <2>2, <2>3, <3>1, <3>2 DEF PendingOnce, Line
    <2>12. PendingOnce'
        <3>1. ASSUME NEW q \in Pids, Pending(q)' PROVE Due(q)'
            <4>1. Due(q) BY <2>2, <2>11, <3>1 DEF PendingOnce
            <4>2. \A i \in DOMAIN ran' : ran'[i] # Line(q)
                BY <2>8, <2>9, <2>11, <3>1, <4>1 DEF Due
            <4> QED BY <1>2, <2>11, <3>1, <4>1, <4>2 DEF Due
        <3>2. \A q, r \in Pids : q # r /\ Pending(q)' /\ Pending(r)' => Line(q)' # Line(r)'
            BY <2>2, <2>11 DEF PendingOnce
        <3> QED BY <3>1, <3>2 DEF PendingOnce
    <2>13. ASSUME signals = 0 PROVE RanInOrder'
        <3>1. p = Root BY <2>3, <2>13 DEF FgInv, Still
        <3>2. RanInOrder BY <2>2, <2>13
        <3>3. n = Taken BY <2>3, <3>1, <3>2 DEF RanInOrder
        <3>4. ~ Pending(Root)' BY <2>11, <3>1, RootIsPid
        <3>5. \A i \in DOMAIN ran : ran[i] \in 1 .. Taken /\ ran[i] # n BY <2>2, <2>4 DEF RanOnce
        <3>6. \A i \in DOMAIN ran : ran[i] < n BY <2>5, <3>3, <3>5
        <3>7. \A i, j \in DOMAIN ran' : i < j => ran'[i] < ran'[j]
            <4> SUFFICES ASSUME NEW i \in DOMAIN ran', NEW j \in DOMAIN ran', i < j
                         PROVE  ran'[i] < ran'[j]
                OBVIOUS
            <4>1. i \in DOMAIN ran BY <2>8
            <4>2. CASE j = Len(ran) + 1 BY <2>8, <3>6, <4>1, <4>2
            <4>3. CASE j \in DOMAIN ran BY <2>8, <3>2, <4>1, <4>3 DEF RanInOrder
            <4> QED BY <2>9, <4>2, <4>3
        <3>8. ASSUME NEW m \in Nat PROVE (\E i \in DOMAIN ran' : ran'[i] = m) <=> Owed(m)'
            <4>1. (\E i \in DOMAIN ran' : ran'[i] = m) <=> (\E i \in DOMAIN ran : ran[i] = m) \/ m = n
                <5>1. Len(ran) + 1 \in DOMAIN ran' /\ \A i \in DOMAIN ran : i \in DOMAIN ran' BY <2>8
                <5> QED BY <2>8, <2>9, <5>1
            <4>2. (\E i \in DOMAIN ran : ran[i] = m) <=> Owed(m) BY <2>3, <3>1, <3>2 DEF RanInOrder
            <4>3. Owed(m) <=> m \in 1 .. Taken /\ script[m] \in Commands /\ m # n
                BY <2>3, <3>1 DEF Owed
            <4>4. Owed(m)' <=> m \in 1 .. Taken /\ script[m] \in Commands
                BY <1>2, <3>4 DEF Owed
            <4> QED BY <2>4, <4>1, <4>2, <4>3, <4>4
        <3> QED BY <3>4, <3>7, <3>8 DEF RanInOrder
    <2> QED BY <1>2, <2>7, <2>10, <2>12, <2>13 DEF OnceInv
<1> QED BY <1>4, <1>5

LEMMA OnceExits ==
    ASSUME OnceInv, ProcsOK, program = "minishell", program' = program,
           NEW p \in Pids, Running(p), NEW how \in Hows, Exit(p, how), UNCHANGED <<ttyVars, signals>>
    PROVE  OnceInv'
<1>1. procs'[p].state \in {"zombie", "gone"} BY ExitIs
<1>2. ~ Here(p)' /\ ~ Pending(p)' BY <1>1 DEF Here, Running, Pending
<1> QED BY <1>2, ExitStands, OnceStays

\* What is done after CTRL+D was typed is not noted.
LEMMA EndedStays ==
    ASSUME OnceInv, program = "minishell", EndTyped, UNCHANGED ttyVars
    PROVE  OnceInv'
<1>1. UNCHANGED <<script, pressed, keys, ran>> BY DEF ttyVars
<1>2. EndTyped' /\ KeysInOrder' /\ (ran \in Seq(1 .. pressed))'
    BY <1>1 DEF OnceInv, EndTyped, KeysInOrder, Taken
<1> QED BY <1>2 DEF OnceInv

LEMMA ShellStepOnce ==
    ASSUME ProcInv, FgInv, OnceInv, program = "minishell", program' = program,
           NEW p \in Pids, ShellStep(p)
    PROVE  OnceInv'
<1>0. ProcsOK /\ TtyOK BY DEF ProcInv, UnixOK
<1>a. procs[p].prog = "minishell" => procs[p].mem \in ShellRec
    BY DEF ProcInv, ShellsOK, ShellOK, Shells
<1>1. CASE ReadLine(p, "minishell")
    <2>1. procs[p].mem \in ShellRec BY <1>1, <1>a DEF ReadLine, At
    <2> QED BY <1>0, <1>1, <2>1, OnceReads
<1>2. CASE Dispatch(p)
    <2>0. procs[p].mem \in ShellRec BY <1>2, <1>a DEF Dispatch, At
    <2>1. /\ Running(p) /\ procs[p].prog = "minishell" /\ procs[p].pc = "dispatch"
          /\ UNCHANGED <<pipes, screen, fails, signals, ttyVars>>
        BY <1>0, <1>2, <2>0, DispatchIs
    <2>2. PICK buf \in Texts \ {"^D"} :
                 /\ procs[p].mem.buf \in {buf, Garbage}
                 /\ \/ \E how \in Hows : Exit(p, how)
                    \/ buf \notin Commands
                       /\ \E b \in Bufs : Moves(p, "read", [procs[p].mem EXCEPT !.buf = b])
                    \/ buf \in Commands /\ Moves(p, "fork", [procs[p].mem EXCEPT !.buf = buf])
        BY <1>0, <1>2, <2>0, DispatchIs
    <2>3. Here(p) /\ Pending(p) BY <2>1 DEF Here, Pending
    <2>4. ~ EndTyped => procs[p].mem.buf = script[Line(p)] /\ procs[p].mem.buf = buf
        <3> SUFFICES ASSUME ~ EndTyped
                     PROVE  procs[p].mem.buf = script[Line(p)] /\ procs[p].mem.buf = buf
            OBVIOUS
        <3>1. Due(p) BY <2>3 DEF OnceInv, PendingOnce
        <3>2. Taken <= pressed /\ Taken \in Int /\ pressed \in Nat /\ pressed <= Len(script)
              /\ Len(script) \in Nat /\ script \in Seq(Texts)
            <4>1. pressed \in 0 .. Len(script) /\ script \in Seq(Texts) /\ keys \in Seq(1 .. pressed)
                BY <1>0 DEF TtyOK
            <4>2. Len(script) \in Nat /\ Len(keys) \in Nat BY <4>1
            <4> QED BY <4>1, <4>2 DEF Taken
        <3>3. Line(p) \in 1 .. Len(script) BY <3>1, <3>2 DEF Due
        <3>4. script[Line(p)] \in Texts BY <3>2, <3>3
        <3>5. Garbage \notin Texts BY DEF Garbage, Texts
        <3> QED BY <2>2, <3>1, <3>4, <3>5 DEF Due
    <2>5. CASE \E how \in Hows : Exit(p, how) BY <1>0, <2>1, <2>5, OnceExits
    <2>6. ASSUME NEW b, buf \notin Commands, Moves(p, "read", [procs[p].mem EXCEPT !.buf = b])
          PROVE  OnceInv'
        <3>1. ~ Pending(p)' BY <2>6 DEF Moves, Pending
        <3>2. ~ EndTyped => script[Line(p)] \notin Commands BY <2>4, <2>6
        <3>3. \A q \in Pids : q # p => Bystander(q) BY <2>6, MovesStand
        <3> QED BY <2>1, <2>3, <3>1, <3>2, <3>3, OnceStays
    <2>7. CASE buf \in Commands /\ Moves(p, "fork", [procs[p].mem EXCEPT !.buf = buf])
        <3>1. PICK mem : mem = [procs[p].mem EXCEPT !.buf = buf] OBVIOUS
        <3>2. mem.line = procs[p].mem.line /\ mem.buf = buf BY <2>0, <3>1 DEF ShellRec
        <3>3. procs'[p].mem = mem /\ procs'[p].pc = "fork" /\ procs'[p].prog = "minishell" /\ Running(p)'
            BY <2>1, <2>7, <3>1 DEF Moves, Kept, Same, Running
        <3>4. Here(p)' /\ Pending(p)' BY <3>3 DEF Here, Pending
        <3>5. \A q \in Pids : q # p => Bystander(q) BY <2>7, MovesStand
        <3>6. Line(p)' = Line(p) BY <3>2, <3>3 DEF Line
        <3>7. CASE EndTyped BY <2>1, <3>7, EndedStays
        <3>8. CASE ~ EndTyped
            <4>1. procs'[p].mem.buf = procs[p].mem.buf BY <2>4, <3>2, <3>3, <3>8
            <4> QED BY <2>1, <2>3, <3>4, <3>5, <3>6, <4>1, OnceStays
        <3> QED BY <3>7, <3>8
    <2> QED BY <2>2, <2>5, <2>6, <2>7
<1>3. CASE ForkCommand(p)
    <2>1. /\ Running(p) /\ procs[p].prog = "minishell" /\ procs[p].pc = "fork"
          /\ UNCHANGED <<signals, script, pressed, keys>>
          /\ \/ Fork(p, "assign", "exec") /\ ran' = Noted(procs[p].mem.line)
             \/ Exit(p, "failed") /\ UNCHANGED ran
        BY <1>3 DEF ForkCommand, At
    <2>2. CASE Fork(p, "assign", "exec") /\ ran' = Noted(procs[p].mem.line)
        <3>1. PICK c \in Pids : ForkOf(p, c, "assign", "exec") BY <1>0, <2>1, <2>2, ForkIs
        <3>2. procs[p].mem.buf \in Commands BY <2>1 DEF ProcInv, ShellsOK, ShellOK, Shells
        <3> QED BY <1>0, <2>1, <2>2, <3>1, <3>2, OnceForks
    <2>3. CASE Exit(p, "failed") /\ UNCHANGED ran
        <3>1. UNCHANGED ttyVars BY <2>1, <2>3 DEF ttyVars
        <3> QED BY <1>0, <2>1, <2>3, <3>1, HowAre, OnceExits
    <2> QED BY <2>1, <2>2, <2>3
<1>4. ASSUME Running(p), \A q \in Pids : q # p => Bystander(q), UNCHANGED <<signals, ttyVars>>, ~ Pending(p)',
             p = Root => ~ Here(Root)' \/ (Here(Root) /\ ~ Pending(Root))
      PROVE  OnceInv'
    <2>1. p = Root /\ Here(Root)' =>
               /\ Here(Root)
               /\ ~ EndTyped /\ signals = 0 /\ Pending(Root) =>
                      Pending(Root)' \/ script[Line(Root)] \notin Commands
        BY <1>4
    <2> QED BY <1>4, <2>1, OnceStays
<1>5. CASE ExecCommand(p)
    <2>1. /\ Running(p) /\ procs[p].prog = "minishell" /\ procs[p].pc = "exec"
          /\ UNCHANGED <<signals, ttyVars>>
        BY <1>5 DEF ExecCommand, At
    <2>2. CASE procs[p].mem.buf = "bad"
        <3>1. Exit(p, "failed") BY <1>5, <2>2 DEF ExecCommand
        <3> QED BY <1>0, <2>1, <3>1, HowAre, OnceExits
    <2>3. CASE procs[p].mem.buf # "bad"
        <3>1. PICK prog : prog = procs[p].mem.buf OBVIOUS
        <3>2. prog \in {"cmd", "nohup"}
            BY <2>1, <2>3, <3>1 DEF ProcInv, ShellsOK, ShellOK, Shells, Commands
        <3>3. Exec(p, prog, "run", <<>>, procs[p].fd) BY <1>5, <2>3, <3>1 DEF ExecCommand
        <3>4. procs[p].fd \in Fds BY <1>0, FdOf
        <3>5. Kept(p) /\ procs'[p].prog = prog BY <1>0, <3>3, <3>4, ExecIs
        <3>6. \A q \in Pids : q # p => procs'[q] = procs[q] BY <3>5 DEF Kept, Others
        <3>7. \A q \in Pids : q # p => Bystander(q) BY <3>6, SameStands
        <3>8. ~ Here(p)' /\ ~ Pending(p)' BY <3>2, <3>5 DEF Here, Pending
        <3> QED BY <2>1, <3>7, <3>8, OnceStays
    <2> QED BY <2>2, <2>3
<1>6. CASE AssignP(p)
    <2>1. /\ Running(p) /\ procs[p].prog = "minishell" /\ procs[p].pc = "assign"
          /\ UNCHANGED <<signals, ttyVars>>
          /\ Moves(p, "wait", [procs[p].mem EXCEPT !.p = procs[p].mem.pid, !.jumped = FALSE])
        BY <1>0, <1>6, AssignIs
    <2>2. Here(p) /\ ~ Pending(p) BY <2>1 DEF Here, Pending
    <2>3. ~ Pending(p)' BY <2>1 DEF Moves, Pending
    <2>4. \A q \in Pids : q # p => Bystander(q) BY <2>1, MovesStand
    <2> QED BY <1>4, <2>1, <2>2, <2>3, <2>4
<1>7. CASE WaitCommand(p)
    <2>1. /\ Running(p) /\ procs[p].prog = "minishell" /\ procs[p].pc = "wait"
          /\ UNCHANGED <<signals, ttyVars>>
        BY <1>7 DEF WaitCommand, At
    <2>2. PICK c \in Zombies(p) : Reap(p, c, AfterWait(p, c)) BY <1>7 DEF WaitCommand
    <2>3. PICK pc : pc = AfterWait(p, c) OBVIOUS
    <2>4. pc \in {"read", "wait"} BY <2>3 DEF AfterWait
    <2>5. procs'[p].pc = pc /\ \A q \in Pids : q # p => Bystander(q)
        BY <1>0, <2>1, <2>2, <2>3, ReapStands
    <2>6. ~ Pending(p)' /\ Here(p) /\ ~ Pending(p) BY <2>1, <2>4, <2>5 DEF Pending, Here
    <2> QED BY <1>4, <2>1, <2>5, <2>6
<1>8. CASE Handler(p)
    <2>1. /\ Running(p) /\ procs[p].int /\ UNCHANGED <<signals, ttyVars>>
          /\ \A q \in Pids : q # p => Bystander(q)
          /\ procs'[p].prog = procs[p].prog /\ procs'[p].pc = "read"
        BY <1>0, <1>8, HandlerIs
    <2>2. signals > 0
        <3>1. signals # 0 BY <2>1 DEF FgInv, Still
        <3> QED BY <3>1 DEF ProcInv, UnixOK, CountsOK
    <2>3. ~ Pending(p)' /\ (Here(p)' => Here(p)) BY <2>1 DEF Pending, Here, Running
    <2>4. signals # 0 BY <2>1, <2>2 DEF ProcInv, UnixOK, CountsOK
    <2> QED BY <2>1, <2>3, <2>4, OnceStays
<1>9. CASE CommandEnds(p)
    <2>1. /\ Running(p) /\ UNCHANGED <<signals, ttyVars>> /\ \E how \in Hows : Exit(p, how)
        BY <1>9, HowAre DEF CommandEnds, At
    <2> QED BY <1>0, <2>1, OnceExits
<1> QED BY <1>1, <1>2, <1>3, <1>5, <1>6, <1>7, <1>8, <1>9 DEF ShellStep

LEMMA OnceNext == ASSUME ProcInv, FgInv, OnceInv, [Next]_vars PROVE OnceInv'
<1> SUFFICES ASSUME program = "minishell" PROVE OnceInv' BY ProgramStays DEF OnceInv
<1>0. UnixOK /\ TtyOK BY DEF ProcInv
<1>1. program' = program /\ (\/ TypeLine \/ PressInterrupt \/ (\E p \in Pids : ShellStep(p))
                             \/ UNCHANGED <<procs, signals, ttyVars>>)
    BY ShellOnly
<1>2. CASE UNCHANGED <<procs, signals, ttyVars>>
    <2>1. \A q \in Pids : Bystander(q) BY <1>2, SameStands
    <2>2. Pending(Root)' = Pending(Root) /\ Line(Root)' = Line(Root) /\ Here(Root)' = Here(Root)
          /\ procs'[Root].mem = procs[Root].mem
        BY <2>1, HereStands, RootIsPid
    <2> QED BY <1>1, <1>2, <2>1, <2>2, RootIsPid, OnceStays
<1>3. CASE TypeLine BY <1>0, <1>1, <1>3, OnceTypes
<1>4. CASE PressInterrupt BY <1>0, <1>1, <1>4, OnceInterrupts
<1> QED BY <1>1, <1>2, <1>3, <1>4, ShellStepOnce

LEMMA OnceStart == Init => OnceInv
<1> SUFFICES ASSUME Init, program = "minishell" PROVE OnceInv BY DEF OnceInv
<1>1. /\ procs[Root].pc = "read" /\ \A q \in Pids : q # Root => ~ Running(q)
      /\ pressed = 0 /\ keys = <<>> /\ ran = <<>>
    BY ShellStart DEF Shells, TtyInit
<1>2. \A q \in Pids : ~ Pending(q) BY <1>1 DEF Pending, Here
<1>3. Taken = 0 /\ KeysInOrder /\ ran \in Seq(1 .. pressed) /\ DOMAIN ran = {}
    <2>1. Len(<<>>) = 0 /\ \A S : <<>> \in Seq(S) OBVIOUS
    <2>2. DOMAIN <<>> = {} OBVIOUS
    <2>0. Len(keys) = 0 /\ pressed = 0 BY <1>1
    <2>3. pressed - Len(keys) = 0 BY <2>0
    <2>4. ran \in Seq(1 .. pressed) /\ DOMAIN ran = {} /\ DOMAIN keys = {} BY <1>1, <2>1, <2>2
    <2> QED BY <2>3, <2>4 DEF KeysInOrder, Taken
<1>4. RanOnce /\ PendingOnce BY <1>2, <1>3 DEF RanOnce, PendingOnce
<1>5. RanInOrder BY <1>2, <1>3, RootIsPid DEF RanInOrder, Owed
<1> QED BY <1>3, <1>4, <1>5 DEF OnceInv

\* No line is executed twice before CTRL+D, however often CTRL+C makes the shell,
\* or its children, jump back to the prompt; and without CTRL+C the commands run
\* are those of the lines read, in their order.
THEOREM LinesRunOnce == Spec => []CommandsOnce
<1>1. ProcInv /\ OnceInv => CommandsOnce
    <2> SUFFICES ASSUME ProcInv, OnceInv, program = "minishell", ~ EndTyped PROVE CommandsOnce
        BY DEF CommandsOnce
    <2>1. RanOnce /\ (signals = 0 => RanInOrder) BY DEF OnceInv
    <2>2. ASSUME signals = 0, At(Root, "minishell", "read")
          PROVE  /\ \A i, j \in DOMAIN ran : i < j => ran[i] < ran[j]
                 /\ {ran[i] : i \in DOMAIN ran} =
                        {n \in 1 .. pressed - Len(keys) : script[n] \in Commands}
        <3>1. RanInOrder /\ Here(Root) /\ ~ Pending(Root)
            BY <2>1, <2>2 DEF At, Here, Pending
        <3>2. Taken \in Nat BY DEF OnceInv, KeysInOrder
        <3>3. \A n \in Nat : (\E i \in DOMAIN ran : ran[i] = n) <=> n \in 1 .. Taken /\ script[n] \in Commands
            BY <3>1 DEF RanInOrder, Owed
        <3>4. \A i \in DOMAIN ran : ran[i] \in Nat BY <2>1, <3>2 DEF RanOnce
        <3>5. \A n \in 1 .. Taken : n \in Nat BY <3>2
        <3>6. \A n : n \in {ran[i] : i \in DOMAIN ran} <=> n \in {m \in 1 .. Taken : script[m] \in Commands}
            BY <3>3, <3>4, <3>5
        <3> QED BY <3>1, <3>6 DEF RanInOrder, Taken
    <2> QED BY <2>1, <2>2 DEF CommandsOnce, RanOnce
<1>2. ProcInv /\ FgInv /\ OnceInv /\ [Next]_vars => OnceInv' BY OnceNext
<1>3. ProcInv /\ FgInv /\ [Next]_vars => FgInv' BY FgNext
<1> QED BY <1>1, <1>2, <1>3, FgStart, OnceStart, ProcInvariant, PTL DEF Spec

(***************************************************************************)
(* Naps: what is reported.                                                 *)
(***************************************************************************)
\* These programs are one process.
Lone ==
    /\ procs[Root].prog = program
    /\ procs[Root].how = "exited" => ~ Running(Root)
    /\ \A q \in Pids : q # Root => ~ Running(q)
LEMMA LoneOnly ==
    ASSUME ProcInv, Lone, program \in Nappers \cup {"worker"},
           [Next]_vars
    PROVE  /\ program' = program
           /\ \/ Running(Root) /\ NapStep(Root) /\ UNCHANGED ttyVars
              \/ Running(Root) /\ program \in Nappers /\ Interrupt({})
              \/ DisturbWorker
              \/ UNCHANGED <<procs, screen, signals>>
<1>0. UnixOK /\ program \notin Shells /\ procs[Root].prog \notin Shells \cup {"cmd", "nohup"} \cup Waiters
    BY DEF Lone, ProcInv, Shells, Nappers, Waiters
<1>1. CASE OtherSteps BY <1>1 DEF OtherSteps, Nappers
<1>2. CASE User
    <2>1. ~ PressInterrupt BY <1>0 DEF PressInterrupt
    <2>2. \A c \in Pids : ~ Disturb(c) BY <1>0 DEF Disturb
    <2>3. TypeLine => UNCHANGED <<procs, screen, signals>> BY DEF TypeLine, unixVars
    <2>4. WakeUp => Running(Root) /\ program \in Nappers /\ Interrupt({}) BY DEF WakeUp, Nappers, Lone
    <2> QED BY <1>2, <2>1, <2>2, <2>3, <2>4 DEF User
<1>3. CASE Kills BY <1>3 DEF Kills, unixVars
<1>4. CASE Rings BY <1>4 DEF Rings, Alarm, Nappers, Lone
<1>5. ASSUME NEW p \in Pids, ProcessSteps(p)
      PROVE  program' = program /\ Running(Root) /\ NapStep(Root) /\ UNCHANGED ttyVars
    <2>1. Running(p) /\ program' = program BY <1>5 DEF ProcessSteps
    <2>2. p = Root BY <2>1 DEF Lone
    <2>3. ~ MinishellStep(Root)
        BY <1>0 DEF MinishellStep, ReadLine, Greet, Dispatch, ForkCommand, ExecCommand, AssignP,
                    WaitCommand, Handler, CommandEnds, At, Shells
    <2>4. procs[Root].prog \in Nappers \cup {"worker"} BY DEF Lone
    <2>5. Root \in Pids BY RootIsPid
    <2>6. ~ CommandStep(Root) /\ ~ SpfindStep(Root) /\ ~ CountStep(Root) /\ ~ PipesStep(Root)
        BY <1>0, <2>4, <2>5, CommandFine, SpfindFine, CountFine, PipesFine
           DEF Fine, Nappers, Filters
    <2>7. ~ NforksStep(Root) /\ ~ WaiterStep(Root) /\ ~ PrimesStep(Root)
        BY <1>0, <2>4, <2>5, NforksFine, WaiterFine, PrimesFine DEF Fine, Nappers, Waiters
    <2> QED BY <1>5, <2>1, <2>2, <2>3, <2>6, <2>7 DEF ProcessSteps
<1>6. CASE UNCHANGED vars BY <1>6 DEF vars, unixVars
<1> QED BY <1>1, <1>2, <1>3, <1>4, <1>5, <1>6 DEF Next

NapRec == [argv : Seq(AnyNumeral), sleep_secs : Int, got_signal : BOOLEAN,
           secs_count : Int, slept : Int, num : Int, last_prime : Int, primes_count : Int]

\* The seconds counted and those slept, at each place of the loops.
SnoozeAt(pc, m) ==
    /\ pc \in {"loop", "sleep", "report"} /\ m.sleep_secs >= 1
    /\ pc = "loop" => /\ m.secs_count \in m.slept .. m.slept + 1 /\ m.secs_count < m.sleep_secs
                      /\ m.got_signal \/ m.secs_count = m.slept
    /\ pc = "sleep" => m.secs_count = m.slept + 1 /\ m.secs_count < m.sleep_secs
    /\ pc = "report" => /\ m.secs_count \in m.slept + 1 .. m.slept + 2
                        /\ m.secs_count <= m.sleep_secs
                        /\ m.got_signal \/ m.secs_count = m.sleep_secs
SignalsAt(pc, m) ==
    /\ pc \in {"loop", "count", "sleep", "report"}
    /\ pc \in {"loop", "report"} => m.secs_count \in m.slept - 1 .. m.slept + 1
    /\ pc = "loop" => m.got_signal \/ m.secs_count = m.slept
    /\ pc = "count" => m.secs_count = m.slept
    /\ pc = "sleep" => /\ m.secs_count \in m.slept .. m.slept + 1
                       /\ m.got_signal \/ m.secs_count = m.slept + 1
    /\ pc = "report" => m.got_signal
PrimesTo(n) == {k \in 2 .. n : is_prime(k)}
AlarmsAt(pc, m) ==
    /\ pc = "loop"
    /\ \/ m.num = 2 /\ m.primes_count = 0
       \/ /\ m.num > 2 /\ m.last_prime \in 2 .. m.num - 1
          /\ m.primes_count = Cardinality(PrimesTo(m.last_prime))
          /\ \A n \in m.last_prime + 1 .. m.num - 1 : ~ is_prime(n)
MainAt(pc, m) == pc = "main" /\ \E argv \in Seq(AnyNumeral) : m = NapMem(argv)
NapAt(prog, pc, m) ==
    /\ m \in NapRec
    /\ \/ MainAt(pc, m)
       \/ prog = "snooze" /\ SnoozeAt(pc, m)
       \/ prog = "signals" /\ SignalsAt(pc, m)
       \/ prog = "alarms" /\ AlarmsAt(pc, m)

LEMMA NapMemIs ==
    ASSUME NEW argv \in Seq(AnyNumeral)
    PROVE  NapMem(argv) \in NapRec /\ MainAt("main", NapMem(argv))
<1> PICK m : m = NapMem(argv) OBVIOUS
<1>1. m \in NapRec BY DEF NapMem, NapRec
<1>2. MainAt("main", m) BY DEF MainAt
<1> QED BY <1>1, <1>2

LEMMA NapStarts ==
    ASSUME NEW m \in NapRec, MainAt("main", m), NEW secs \in Int, secs >= 1,
           NEW n, n = [m EXCEPT !.sleep_secs = secs]
    PROVE  n \in NapRec /\ ~ n.got_signal /\ SnoozeAt("loop", n) /\ SignalsAt("loop", n) /\ AlarmsAt("loop", n)
<1>1. PICK argv \in Seq(AnyNumeral) : m = NapMem(argv) BY DEF MainAt
<1>2. /\ m.got_signal = FALSE /\ m.secs_count = 0 /\ m.slept = 0
      /\ m.num = 2 /\ m.last_prime = 2 /\ m.primes_count = 0
    BY <1>1 DEF NapMem
<1>3. /\ n \in NapRec /\ n.got_signal = FALSE /\ n.secs_count = 0 /\ n.slept = 0
      /\ n.num = 2 /\ n.last_prime = 2 /\ n.primes_count = 0 /\ n.sleep_secs = secs
    BY <1>2 DEF NapRec
<1> QED BY <1>3 DEF SnoozeAt, SignalsAt, AlarmsAt

LEMMA SnoozeTurns ==
    ASSUME NEW m \in NapRec, SnoozeAt("loop", m), NEW n, n = [m EXCEPT !.secs_count = @ + 1]
    PROVE  n \in NapRec /\ n.got_signal = m.got_signal
           /\ SnoozeAt(IF StopsAt(m) THEN "report" ELSE "sleep", n)
BY DEF NapRec, SnoozeAt, StopsAt

LEMMA NapSleeps ==
    ASSUME NEW m \in NapRec, NEW n, n = [m EXCEPT !.slept = @ + 1]
    PROVE  /\ n \in NapRec /\ n.got_signal = m.got_signal
           /\ SnoozeAt("sleep", m) => SnoozeAt("loop", n)
           /\ SignalsAt("sleep", m) => SignalsAt("loop", n)
BY DEF NapRec, SnoozeAt, SignalsAt

LEMMA SignalsTurn ==
    ASSUME NEW m \in NapRec
    PROVE  /\ SignalsAt("loop", m) => SignalsAt(IF m.got_signal THEN "report" ELSE "count", m)
           /\ SignalsAt("count", m) /\ m.got_signal => SignalsAt("sleep", m)
           /\ \A n : n = [m EXCEPT !.secs_count = @ + 1] /\ SignalsAt("count", m) =>
                 n \in NapRec /\ SignalsAt("sleep", n) /\ n.got_signal = m.got_signal
<1>1. m.secs_count \in Int /\ m.slept \in Int /\ m.got_signal \in BOOLEAN BY DEF NapRec
<1>2. SignalsAt("loop", m) => SignalsAt(IF m.got_signal THEN "report" ELSE "count", m)
    BY <1>1 DEF SignalsAt
<1>3. SignalsAt("count", m) /\ m.got_signal => SignalsAt("sleep", m) BY <1>1 DEF SignalsAt
<1>4. ASSUME NEW n, n = [m EXCEPT !.secs_count = @ + 1], SignalsAt("count", m)
      PROVE  n \in NapRec /\ SignalsAt("sleep", n) /\ n.got_signal = m.got_signal
    <2>1. /\ n \in NapRec /\ n.secs_count = m.secs_count + 1 /\ n.slept = m.slept
          /\ n.got_signal = m.got_signal
        BY <1>4 DEF NapRec
    <2> QED BY <1>1, <1>4, <2>1 DEF SignalsAt
<1> QED BY <1>2, <1>3, <1>4

LEMMA NapCaught ==
    ASSUME NEW m \in NapRec, NEW n, n = [m EXCEPT !.got_signal = TRUE]
    PROVE  /\ n \in NapRec
           /\ \A pc : SnoozeAt(pc, m) => SnoozeAt(pc, n)
           /\ \A pc : SignalsAt(pc, m) => SignalsAt(pc, n)
           /\ \A pc : AlarmsAt(pc, m) => AlarmsAt(pc, n)
           /\ SnoozeAt("sleep", m) => SnoozeAt("loop", n)
           /\ SignalsAt("sleep", m) => SignalsAt("loop", n)
<1>1. /\ n \in NapRec /\ n.got_signal /\ n.secs_count = m.secs_count /\ n.slept = m.slept
      /\ n.sleep_secs = m.sleep_secs /\ n.num = m.num /\ n.last_prime = m.last_prime
      /\ n.primes_count = m.primes_count
    BY DEF NapRec
<1>2. m.secs_count \in Int /\ m.slept \in Int /\ m.sleep_secs \in Int BY DEF NapRec
<1>3. \A pc : SnoozeAt(pc, m) => SnoozeAt(pc, n) BY <1>1 DEF SnoozeAt
<1>4. \A pc : SignalsAt(pc, m) => SignalsAt(pc, n) BY <1>1 DEF SignalsAt
<1>5. \A pc : AlarmsAt(pc, m) => AlarmsAt(pc, n) BY <1>1 DEF AlarmsAt
<1>6. SnoozeAt("sleep", m) => SnoozeAt("loop", n) BY <1>1, <1>2 DEF SnoozeAt
<1>7. SignalsAt("sleep", m) => SignalsAt("loop", n) BY <1>1, <1>2 DEF SignalsAt
<1> QED BY <1>1, <1>3, <1>4, <1>5, <1>6, <1>7

LEMMA PrimesGrow ==
    ASSUME NEW last \in Int, NEW num \in Int, last >= 1, num > last, is_prime(num),
           \A n \in last + 1 .. num - 1 : ~ is_prime(n)
    PROVE  Cardinality(PrimesTo(num)) = Cardinality(PrimesTo(last)) + 1
<1>1. PrimesTo(num) = PrimesTo(last) \cup {num} BY DEF PrimesTo
<1>2. IsFiniteSet(PrimesTo(last))
    <2>1. PrimesTo(last) \in SUBSET (2 .. last) BY DEF PrimesTo
    <2>2. IsFiniteSet(2 .. last) BY FS_Interval
    <2> QED BY <2>1, <2>2, FS_Subset
<1>3. num \notin PrimesTo(last) BY DEF PrimesTo
<1> QED BY <1>1, <1>2, <1>3, FS_AddElement

LEMMA TwoIsPrime == is_prime(2) /\ Cardinality(PrimesTo(1)) = 0
<1>1. is_prime(2) BY DEF is_prime
<1>2. PrimesTo(1) = {} BY DEF PrimesTo
<1> QED BY <1>1, <1>2, FS_EmptySet

LEMMA AlarmsTurn ==
    ASSUME NEW m \in NapRec, AlarmsAt("loop", m), NEW n,
           n = IF is_prime(m.num)
               THEN [m EXCEPT !.primes_count = @ + 1, !.last_prime = m.num, !.num = @ + 1]
               ELSE [m EXCEPT !.num = @ + 1]
    PROVE  n \in NapRec /\ n.got_signal = m.got_signal /\ AlarmsAt("loop", n)
<1>0. m.num \in Int /\ m.last_prime \in Int /\ m.primes_count \in Int BY DEF NapRec
<1>1. CASE is_prime(m.num)
    <2>0. n = [m EXCEPT !.primes_count = m.primes_count + 1, !.last_prime = m.num, !.num = m.num + 1]
        BY <1>1
    <2>a. n = [argv |-> m.argv, sleep_secs |-> m.sleep_secs, got_signal |-> m.got_signal,
               secs_count |-> m.secs_count, slept |-> m.slept, num |-> m.num + 1,
               last_prime |-> m.num, primes_count |-> m.primes_count + 1]
        BY <2>0 DEF NapRec
    <2>b. /\ n.got_signal = m.got_signal /\ n.num = m.num + 1 /\ n.last_prime = m.num
          /\ n.primes_count = m.primes_count + 1
        BY ONLY <2>a
    <2>c. n \in NapRec BY ONLY <1>0, <2>a, m \in NapRec DEF NapRec
    <2>1. /\ n \in NapRec /\ n.got_signal = m.got_signal /\ n.num = m.num + 1 /\ n.last_prime = m.num
          /\ n.primes_count = m.primes_count + 1 /\ m.num \in Int /\ m.last_prime \in Int
        BY <1>0, <2>b, <2>c
    <2>2. m.num >= 2 BY <2>1 DEF AlarmsAt
    <2>3. n.primes_count = Cardinality(PrimesTo(m.num))
        <3>1. CASE m.num = 2
            <4>1. Cardinality(PrimesTo(2)) = Cardinality(PrimesTo(1)) + 1 BY TwoIsPrime, PrimesGrow
            <4> QED BY <2>1, <3>1, <4>1, TwoIsPrime DEF AlarmsAt
        <3>2. CASE m.num # 2 BY <1>1, <2>1, <3>2, PrimesGrow DEF AlarmsAt
        <3> QED BY <3>1, <3>2
    <2> QED BY <2>1, <2>2, <2>3 DEF AlarmsAt
<1>2. CASE ~ is_prime(m.num)
    <2>1. /\ n \in NapRec /\ n.got_signal = m.got_signal /\ n.num = m.num + 1 /\ n.last_prime = m.last_prime
          /\ n.primes_count = m.primes_count /\ m.num \in Int /\ m.last_prime \in Int
        BY <1>2 DEF NapRec
    <2>2. m.num # 2 BY <1>2, TwoIsPrime
    <2> QED BY <1>2, <2>1, <2>2 DEF AlarmsAt
<1> QED BY <1>1, <1>2

NapSaid ==
    LET mem == procs[Root].mem
        said == screen[1][2]
    IN
    /\ program = "snooze" =>
          /\ said \in mem.slept .. mem.slept + 2 /\ said <= mem.sleep_secs
          /\ signals = 0 => said = mem.sleep_secs
    /\ program = "signals" =>
          /\ said \in mem.slept - 1 .. mem.slept + 1 /\ signals > 0
          /\ (\E i \in DOMAIN screen : screen[i][1] = "overslept") <=> said > mem.sleep_secs
    /\ program = "alarms" =>
          said = IF mem.num = 2 THEN 0 ELSE Cardinality(PrimesTo(screen[2][2]))
Napping ==
    /\ screen = <<>> /\ NapAt(program, procs[Root].pc, procs[Root].mem)
    /\ signals = 0 => ~ procs[Root].int /\ ~ procs[Root].mem.got_signal
NapInv ==
    program \in Nappers =>
        /\ Lone
        /\ Running(Root) => Napping
        /\ procs[Root].how = "exited" => NapSaid

LEMMA LoneStays ==
    ASSUME Lone, procs'[Root].prog = procs[Root].prog, program' = program,
           procs'[Root].how = procs[Root].how \/ ~ Running(Root)',
           Running(Root)' => procs'[Root].how # "exited",
           \A q \in Pids : q # Root => ~ Running(q)'
    PROVE  Lone'
BY DEF Lone

LEMMA LoneMoves ==
    ASSUME Lone, program' = program, Running(Root), NEW pc, NEW mem, Moves(Root, pc, mem)
    PROVE  Lone' /\ Running(Root)' /\ procs'[Root].how = procs[Root].how
<1>1. /\ procs'[Root].prog = procs[Root].prog /\ procs'[Root].how = procs[Root].how
      /\ procs'[Root].state = procs[Root].state
      /\ \A q \in Pids : q # Root => procs'[q] = procs[q]
    BY DEF Moves, Kept, Same, Others
<1>2. Running(Root)' /\ \A q \in Pids : q # Root => ~ Running(q)' BY <1>1 DEF Lone, Running
<1> QED BY <1>1, <1>2 DEF Lone

LEMMA NapMoves ==
    ASSUME NapInv, program \in Nappers, program' = program, Running(Root),
           NEW pc, NEW mem, Moves(Root, pc, mem), UNCHANGED <<screen, signals>>,
           NapAt(program, pc, mem), mem.got_signal = procs[Root].mem.got_signal
    PROVE  NapInv'
<1>1. Lone' /\ Running(Root)' /\ procs'[Root].how = procs[Root].how BY LoneMoves DEF NapInv
<1>2. procs'[Root].pc = pc /\ procs'[Root].mem = mem /\ procs'[Root].int = procs[Root].int
    BY DEF Moves, Kept, Same
<1>3. Napping BY DEF NapInv
<1>4. Napping' BY <1>2, <1>3 DEF Napping
<1>5. procs'[Root].how # "exited" BY <1>1 DEF Lone
<1> QED BY <1>1, <1>4, <1>5 DEF NapInv

LEMMA NapExits ==
    ASSUME NapInv, ProcsOK, program \in Nappers, program' = program, Running(Root),
           NEW how \in Hows, Exit(Root, how), how = "exited" => NapSaid'
    PROVE  NapInv'
<1>1. /\ \A q \in Pids : Stays(q)
      /\ procs'[Root].state \in {"zombie", "gone"} /\ procs'[Root].how = how
      /\ \A q \in Pids : q # Root =>
            procs'[q].state = IF q \in Zombies(Root) THEN "gone" ELSE procs[q].state
    BY RootIsPid, ExitIs
<1>2. ~ Running(Root)' /\ \A q \in Pids : q # Root => ~ Running(q)'
    BY <1>1 DEF Running, NapInv, Lone
<1>3. procs'[Root].prog = procs[Root].prog BY <1>1, RootIsPid DEF Stays
<1> QED BY <1>1, <1>2, <1>3 DEF NapInv, Lone

LEMMA NapStartKeeps ==
    ASSUME NapInv, ProcsOK, program \in Nappers, program' = program, Running(Root),
           NEW prog \in Nappers, NapStart(Root, prog)
    PROVE  NapInv'
<1>0. procs[Root].prog = prog /\ prog = program /\ Napping /\ UNCHANGED <<screen, signals>>
      /\ procs[Root].pc = "main"
    BY DEF NapStart, At, NapInv, Lone
<1>1. CASE Exit(Root, "failed") BY <1>1, NapExits DEF Hows
<1>2. CASE ~ Exit(Root, "failed")
    <2>1. PICK argv : argv = procs[Root].mem.argv OBVIOUS
    <2>2. /\ Len(argv) = 1 /\ ~ (atoi(argv[1]) < 1)
          /\ Step(Root, "loop", [procs[Root].mem EXCEPT !.sleep_secs = atoi(argv[1])])
        BY <1>2, <2>1 DEF NapStart
    <2>3. PICK m : m = procs[Root].mem OBVIOUS
    <2>4. m \in NapRec /\ MainAt("main", m)
        BY <1>0, <2>3 DEF Napping, NapAt, SnoozeAt, SignalsAt, AlarmsAt, MainAt
    <2>5. atoi(argv[1]) \in Int
        <3>1. argv \in Seq(AnyNumeral) BY <2>1, <2>3, <2>4 DEF NapRec
        <3>2. argv[1] \in AnyNumeral BY <2>2, <3>1
        <3> QED BY <3>2 DEF AnyNumeral, atoi
    <2>a. PICK secs : secs = atoi(argv[1]) OBVIOUS
    <2>b. secs \in Int /\ secs >= 1 BY <2>2, <2>5, <2>a
    <2>6. PICK n : n = [m EXCEPT !.sleep_secs = secs] OBVIOUS
    <2>7. n \in NapRec /\ ~ n.got_signal /\ SnoozeAt("loop", n) /\ SignalsAt("loop", n) /\ AlarmsAt("loop", n)
        BY ONLY <2>4, <2>6, <2>b, NapStarts
    <2>8. NapAt(program, "loop", n) BY <2>7 DEF NapAt, Nappers
    <2>9. Moves(Root, "loop", n) BY <2>2, <2>3, <2>6, <2>a, RootIsPid, StepIs DEF Moves
    <2>10. n.got_signal = m.got_signal BY <2>4, <2>6 DEF NapRec
    <2> QED BY <1>0, <2>3, <2>8, <2>9, <2>10, NapMoves
<1> QED BY <1>1, <1>2

LEMMA SleepKeeps ==
    ASSUME NapInv, ProcsOK, program \in Nappers, program' = program, Running(Root),
           NEW prog \in {"snooze", "signals", "worker"}, Sleep(Root, prog)
    PROVE  NapInv'
<1>0. prog = program /\ Napping /\ UNCHANGED <<screen, signals>> /\ procs[Root].pc = "sleep"
    BY DEF Sleep, At, NapInv, Lone
<1>1. PICK m : m = procs[Root].mem OBVIOUS
<1>2. PICK n : n = [m EXCEPT !.slept = @ + 1] OBVIOUS
<1>3. Step(Root, "loop", n) BY <1>1, <1>2 DEF Sleep
<1>4. m \in NapRec /\ NapAt(program, "sleep", m) BY <1>0, <1>1 DEF Napping, NapAt
<1>5. /\ n \in NapRec /\ n.got_signal = m.got_signal
      /\ SnoozeAt("sleep", m) => SnoozeAt("loop", n)
      /\ SignalsAt("sleep", m) => SignalsAt("loop", n)
    BY <1>2, <1>4, NapSleeps
<1>6. NapAt(program, "loop", n) BY <1>0, <1>4, <1>5 DEF NapAt, MainAt, AlarmsAt, Nappers
<1>7. Moves(Root, "loop", n) BY <1>3, RootIsPid, StepIs DEF Moves
<1> QED BY <1>0, <1>1, <1>5, <1>6, <1>7, NapMoves

LEMMA SnoozeLoopKeeps ==
    ASSUME NapInv, ProcsOK, program \in Nappers, program' = program, Running(Root), SnoozeLoop(Root)
    PROVE  NapInv'
<1>0. program = "snooze" /\ Napping /\ UNCHANGED <<screen, signals>> /\ procs[Root].pc = "loop"
    BY DEF SnoozeLoop, At, NapInv, Lone
<1>1. PICK m : m = procs[Root].mem OBVIOUS
<1>2. PICK n : n = [m EXCEPT !.secs_count = @ + 1] OBVIOUS
<1>a. PICK pc : pc = IF StopsAt(m) THEN "report" ELSE "sleep" OBVIOUS
<1>3. Step(Root, pc, n) BY <1>1, <1>2, <1>a DEF SnoozeLoop
<1>4. m \in NapRec /\ SnoozeAt("loop", m) BY <1>0, <1>1 DEF Napping, NapAt, MainAt
<1>5. n \in NapRec /\ n.got_signal = m.got_signal /\ SnoozeAt(pc, n) BY <1>2, <1>a, <1>4, SnoozeTurns
<1>6. NapAt(program, pc, n) BY <1>0, <1>5 DEF NapAt
<1>7. Moves(Root, pc, n) BY <1>3, RootIsPid, StepIs DEF Moves
<1> QED BY <1>0, <1>1, <1>5, <1>6, <1>7, NapMoves

LEMMA NapLoopKeeps ==
    ASSUME NapInv, ProcsOK, program \in Nappers, program' = program, Running(Root), NapLoop(Root)
    PROVE  NapInv'
<1>0. program = "signals" /\ Napping /\ UNCHANGED <<screen, signals>> /\ procs[Root].pc \in {"loop", "count"}
    BY DEF NapLoop, At, NapInv, Lone
<1>1. PICK m : m = procs[Root].mem OBVIOUS
<1>2. m \in NapRec /\ SignalsAt(procs[Root].pc, m) BY <1>0, <1>1 DEF Napping, NapAt, MainAt
<1>3. CASE procs[Root].pc = "loop"
    <2>1. PICK pc : pc = IF m.got_signal THEN "report" ELSE "count" OBVIOUS
    <2>2. Goto(Root, pc) BY <1>1, <1>3, <2>1 DEF NapLoop, At
    <2>3. SignalsAt(pc, m) BY <1>2, <1>3, <2>1, SignalsTurn
    <2>4. NapAt(program, pc, m) BY <1>0, <1>2, <2>3 DEF NapAt
    <2>5. Moves(Root, pc, m) BY <1>1, <2>2, RootIsPid, GotoIs DEF Moves
    <2> QED BY <1>0, <1>1, <2>4, <2>5, NapMoves
<1>4. CASE procs[Root].pc = "count"
    <2>1. PICK n : n = IF m.got_signal THEN m ELSE [m EXCEPT !.secs_count = @ + 1] OBVIOUS
    <2>2. Step(Root, "sleep", n) BY <1>1, <1>4, <2>1 DEF NapLoop, At
    <2>3. n \in NapRec /\ SignalsAt("sleep", n) /\ n.got_signal = m.got_signal
        <3>1. CASE m.got_signal BY <1>2, <1>4, <2>1, <3>1, SignalsTurn
        <3>2. CASE ~ m.got_signal
            <4>1. n = [m EXCEPT !.secs_count = @ + 1] BY <2>1, <3>2
            <4> QED BY <1>2, <1>4, <4>1, SignalsTurn
        <3> QED BY <3>1, <3>2
    <2>4. NapAt(program, "sleep", n) BY <1>0, <2>3 DEF NapAt
    <2>5. Moves(Root, "sleep", n) BY <2>2, RootIsPid, StepIs DEF Moves
    <2> QED BY <1>0, <1>1, <2>3, <2>4, <2>5, NapMoves
<1> QED BY <1>0, <1>3, <1>4

LEMMA OneOrTwo ==
    ASSUME NEW e, NEW f
    PROVE  <<>> \o (<<e>> \o <<f>>) = <<e, f>> /\ <<>> \o (<<e>> \o <<>>) = <<e>>
<1>1. \A s \in Seq({e, f}) : <<>> \o s = s OBVIOUS
<1>2. <<e>> \o <<f>> = <<e, f>>
    <2>1. PICK t : t = <<e>> \o <<f>> OBVIOUS
    <2>2. <<e>> \in Seq({e, f}) /\ <<f>> \in Seq({e, f}) OBVIOUS
    <2>3. t \in Seq({e, f}) /\ Len(t) = 2 /\ t[1] = e /\ t[2] = f BY <2>1, <2>2
    <2>4. t = <<e, f>> BY ONLY <2>3
    <2> QED BY <2>1, <2>4
<1>3. <<e>> \o <<>> = <<e>> OBVIOUS
<1>4. <<e>> \in Seq({e, f}) /\ <<e, f>> \in Seq({e, f}) OBVIOUS
<1> QED BY <1>1, <1>2, <1>3, <1>4

LEMMA ReportKeeps ==
    ASSUME NapInv, UnixOK, program \in Nappers, program' = program, Running(Root),
           NEW prog \in Nappers, NapReport(Root, prog)
    PROVE  NapInv'
<1>0. prog = program /\ Napping /\ UNCHANGED signals /\ procs[Root].pc = "report"
    BY DEF NapReport, At, NapInv, Lone
<1>1. PICK m : m = procs[Root].mem OBVIOUS
<1>2. m \in NapRec /\ NapAt(program, "report", m) BY <1>0, <1>1 DEF Napping, NapAt
<1>3. PICK n : n = m.secs_count OBVIOUS
<1>4. /\ (program = "snooze" /\ SnoozeAt("report", m)) \/ (program = "signals" /\ SignalsAt("report", m))
      /\ n \in Int /\ m.sleep_secs \in Int /\ m.slept \in Int /\ m.got_signal \in BOOLEAN
    BY <1>2, <1>3 DEF NapAt, MainAt, AlarmsAt, NapRec
<1>5. Exit(Root, "exited") BY DEF NapReport
<1>6. procs'[Root].mem = m BY <1>1, <1>5, RootIsPid, ExitIs DEF Stays, Hows, UnixOK
<1>7. IF program = "signals" /\ n > m.sleep_secs
      THEN screen' = <<<<"slept", n>>, <<"overslept", n>>>> ELSE screen' = <<<<"slept", n>>>>
    <2>1. screen' = <<>> \o (<<<<"slept", n>>>>
                             \o IF program = "signals" /\ n > m.sleep_secs
                                THEN <<<<"overslept", n>>>> ELSE <<>>)
        BY <1>0, <1>1, <1>3 DEF NapReport, Shows, Napping
    <2>2. PICK e : e = <<"slept", n>> OBVIOUS
    <2>3. PICK f : f = <<"overslept", n>> OBVIOUS
    <2>4. <<>> \o (<<e>> \o <<f>>) = <<e, f>> /\ <<>> \o (<<e>> \o <<>>) = <<e>> BY OneOrTwo
    <2> QED BY <2>1, <2>2, <2>3, <2>4
<1>8. screen'[1][2] = n BY <1>7
<1>9. (\E i \in DOMAIN screen' : screen'[i][1] = "overslept")
         <=> program = "signals" /\ n > m.sleep_secs
    <2>1. CASE program = "signals" /\ n > m.sleep_secs
        <3>1. 2 \in DOMAIN screen' /\ screen'[2][1] = "overslept" BY <1>7, <2>1
        <3> QED BY <2>1, <3>1
    <2>2. CASE ~ (program = "signals" /\ n > m.sleep_secs)
        <3>1. DOMAIN screen' = {1} /\ screen'[1][1] = "slept" BY <1>7, <2>2
        <3> QED BY <2>2, <3>1
    <2> QED BY <2>1, <2>2
<1>10. signals = 0 => ~ m.got_signal BY <1>0, <1>1 DEF Napping
<1>11. NapSaid'
    <2>1. program' = program /\ signals' = signals BY <1>0
    <2>2. CASE program = "snooze"
        <3>1. SnoozeAt("report", m) BY <1>4, <2>2
        <3>2. n \in m.slept + 1 .. m.slept + 2 /\ n <= m.sleep_secs /\ (signals = 0 => n = m.sleep_secs)
            BY <1>3, <1>10, <3>1 DEF SnoozeAt
        <3>3. n \in m.slept .. m.slept + 2 BY <1>4, <3>2
        <3> QED BY <1>6, <1>8, <2>1, <2>2, <3>2, <3>3 DEF NapSaid
    <2>3. CASE program = "signals"
        <3>1. SignalsAt("report", m) BY <1>4, <2>3
        <3>2. n \in m.slept - 1 .. m.slept + 1 /\ signals # 0
            BY <1>3, <1>10, <3>1 DEF SignalsAt
        <3>3. signals > 0 BY <3>2 DEF UnixOK, CountsOK
        <3> QED BY <1>6, <1>8, <1>9, <2>1, <2>3, <3>2, <3>3 DEF NapSaid
    <2> QED BY <1>4, <2>2, <2>3
<1> QED BY <1>5, <1>11, NapExits DEF Hows, UnixOK

LEMMA PrimesLoopKeeps ==
    ASSUME NapInv, UnixOK, program \in Nappers, program' = program, Running(Root), PrimesLoop(Root)
    PROVE  NapInv'
<1>0. /\ program = "alarms" /\ Napping /\ UNCHANGED signals /\ procs[Root].pc = "loop"
      /\ ProcsOK
    BY DEF PrimesLoop, At, NapInv, Lone, UnixOK
<1>1. PICK m : m = procs[Root].mem OBVIOUS
<1>2. m \in NapRec /\ AlarmsAt("loop", m) BY <1>0, <1>1 DEF Napping, NapAt, MainAt
<1>3. CASE m.got_signal
    <2>1. /\ Exit(Root, "exited")
          /\ Shows(<<<<"primes", m.primes_count>>, <<"last", m.last_prime>>>>)
        BY <1>1, <1>3 DEF PrimesLoop
    <2>2. PICK e : e = <<"primes", m.primes_count>> OBVIOUS
    <2>3. PICK f : f = <<"last", m.last_prime>> OBVIOUS
    <2>4. \A s \in Seq({e, f}) : <<>> \o s = s OBVIOUS
    <2>5. <<e, f>> \in Seq({e, f}) OBVIOUS
    <2>6. screen' = <<e, f>> BY <1>0, <2>1, <2>2, <2>3, <2>4, <2>5 DEF Shows, Napping
    <2>7. screen'[1][2] = m.primes_count /\ screen'[2][2] = m.last_prime BY <2>2, <2>3, <2>6
    <2>8. procs'[Root].mem = m BY <1>0, <1>1, <2>1, RootIsPid, ExitIs DEF Stays, Hows
    <2>9. m.primes_count = IF m.num = 2 THEN 0 ELSE Cardinality(PrimesTo(m.last_prime))
        BY <1>2 DEF AlarmsAt
    <2>10. NapSaid' BY <1>0, <2>7, <2>8, <2>9 DEF NapSaid
    <2> QED BY <1>0, <2>1, <2>10, NapExits DEF Hows
<1>4. CASE ~ m.got_signal
    <2>1. PICK n : n = IF is_prime(m.num)
                       THEN [m EXCEPT !.primes_count = @ + 1, !.last_prime = m.num, !.num = @ + 1]
                       ELSE [m EXCEPT !.num = @ + 1]
        OBVIOUS
    <2>2. Step(Root, "loop", n) /\ UNCHANGED screen BY <1>1, <1>4, <2>1 DEF PrimesLoop
    <2>3. n \in NapRec /\ n.got_signal = m.got_signal /\ AlarmsAt("loop", n) BY <1>2, <2>1, AlarmsTurn
    <2>4. NapAt(program, "loop", n) BY <1>0, <2>3 DEF NapAt
    <2>5. Moves(Root, "loop", n) BY <1>0, <2>2, RootIsPid, StepIs DEF Moves
    <2> QED BY <1>0, <1>1, <2>2, <2>3, <2>4, <2>5, NapMoves
<1> QED BY <1>3, <1>4

LEMMA CatchKeeps ==
    ASSUME NapInv, UnixOK, program \in Nappers, program' = program, Running(Root), CatchSignal(Root)
    PROVE  NapInv'
<1>0. ProcsOK /\ Lone /\ Napping /\ procs[Root].int /\ UNCHANGED <<screen, signals>> /\ procs[Root].pc # "main"
    BY DEF UnixOK, NapInv, CatchSignal
<1>1. /\ Others(Root)
      /\ procs'[Root].state = procs[Root].state
      /\ procs'[Root].prog = procs[Root].prog /\ procs'[Root].how = procs[Root].how
      /\ procs'[Root].mem = [procs[Root].mem EXCEPT !.got_signal = TRUE]
      /\ procs'[Root].pc = procs[Root].pc \/ (procs[Root].pc = "sleep" /\ procs'[Root].pc = "loop")
    BY <1>0, RootIsPid, CatchIs
<1>2. PICK m : m = procs[Root].mem OBVIOUS
<1>3. PICK n : n = [m EXCEPT !.got_signal = TRUE] OBVIOUS
<1>4. m \in NapRec /\ NapAt(program, procs[Root].pc, m) BY <1>0, <1>2 DEF Napping, NapAt
<1>5. /\ n \in NapRec
      /\ \A pc : SnoozeAt(pc, m) => SnoozeAt(pc, n)
      /\ \A pc : SignalsAt(pc, m) => SignalsAt(pc, n)
      /\ \A pc : AlarmsAt(pc, m) => AlarmsAt(pc, n)
      /\ SnoozeAt("sleep", m) => SnoozeAt("loop", n)
      /\ SignalsAt("sleep", m) => SignalsAt("loop", n)
    BY <1>3, <1>4, NapCaught
<1>6. ~ MainAt(procs[Root].pc, m) BY <1>0 DEF MainAt
<1>7. NapAt(program, procs[Root].pc, n) BY <1>4, <1>5, <1>6 DEF NapAt
<1>8. procs[Root].pc = "sleep" => NapAt(program, "loop", n)
    BY <1>4, <1>5, <1>6 DEF NapAt, AlarmsAt
<1>9. procs'[Root].mem = n BY <1>1, <1>2, <1>3
<1>10. NapAt(program, procs'[Root].pc, n) BY <1>1, <1>7, <1>8
<1>11. signals # 0 BY <1>0 DEF Napping
<1>12. Napping' BY <1>0, <1>9, <1>10, <1>11 DEF Napping
<1>13. Lone'
    <2>1. procs'[Root].prog = program /\ Running(Root)' BY <1>0, <1>1 DEF Lone, Running
    <2>2. \A q \in Pids : q # Root => ~ Running(q)' BY <1>0, <1>1 DEF Lone, Running, Others
    <2>3. procs'[Root].how # "exited" BY <1>0, <1>1 DEF Lone
    <2> QED BY <2>1, <2>2, <2>3 DEF Lone
<1>14. procs'[Root].how # "exited" BY <1>0, <1>1 DEF Lone
<1> QED BY <1>12, <1>13, <1>14 DEF NapInv

LEMMA LoneUnmoved ==
    ASSUME Lone, \A q \in Pids : Unmoved(q), program' = program
    PROVE  Lone' /\ Running(Root)' = Running(Root) /\ procs'[Root].how = procs[Root].how
           /\ procs'[Root].pc = procs[Root].pc /\ procs'[Root].mem = procs[Root].mem
BY RootIsPid DEF Lone, Unmoved, Stays, Running

LEMMA NapInterrupt ==
    ASSUME NapInv, UnixOK, program \in Nappers, program' = program, Running(Root), Interrupt({})
    PROVE  NapInv'
<1>1. (\A q \in Pids : Unmoved(q)) /\ signals' = signals + 1 /\ UNCHANGED screen BY InterruptIs
<1>2. /\ Lone' /\ Running(Root)' = Running(Root) /\ procs'[Root].how = procs[Root].how
      /\ procs'[Root].pc = procs[Root].pc /\ procs'[Root].mem = procs[Root].mem
    BY <1>1, LoneUnmoved DEF NapInv
<1>3. signals' # 0 BY <1>1 DEF UnixOK, CountsOK
<1>4. Napping' BY <1>1, <1>2, <1>3 DEF NapInv, Napping
<1>5. procs'[Root].how # "exited" BY <1>2 DEF NapInv, Lone
<1> QED BY <1>2, <1>4, <1>5 DEF NapInv

LEMMA NapStepKeeps ==
    ASSUME NapInv, UnixOK, program \in Nappers, program' = program, Running(Root), NapStep(Root)
    PROVE  NapInv'
<1>0. ProcsOK BY DEF UnixOK
<1>1. CASE DiesEarly(Root) BY <1>0, <1>1, NapExits DEF DiesEarly, DiesOf, Hows
<1>2. CASE WorkerLoop(Root) BY <1>2 DEF WorkerLoop, At, NapInv, Lone, Nappers
<1> QED BY <1>0, <1>1, <1>2, NapStartKeeps, ReportKeeps, SleepKeeps, SnoozeLoopKeeps, NapLoopKeeps,
           PrimesLoopKeeps, CatchKeeps DEF NapStep

LEMMA NapNext == ASSUME ProcInv, NapInv, [Next]_vars PROVE NapInv'
<1> SUFFICES ASSUME program \in Nappers PROVE NapInv' BY ProgramStays DEF NapInv
<1>1. program' = program /\ UnixOK BY ProgramStays DEF ProcInv
<1>2. CASE UNCHANGED <<procs, screen, signals>>
    BY <1>1, <1>2 DEF NapInv, Lone, Running, Napping, NapSaid
<1>3. ~ DisturbWorker BY DEF DisturbWorker, NapInv, Lone, Nappers
<1> QED BY <1>1, <1>2, <1>3, LoneOnly, NapStepKeeps, NapInterrupt DEF NapInv

\* An answer shown is a signal that came, and one not answered yet is another.
WorkerRec == [signal_val : {""} \cup Sigs, slept : Int]
WorkerInv ==
    program = "worker" =>
        /\ Lone /\ IsSeq(screen) /\ procs[Root].mem \in WorkerRec
        /\ Len(screen) <= signals
        /\ procs[Root].mem.signal_val # "" /\ procs[Root].pc # "reset" => Len(screen) < signals

LEMMA WorkerMoves ==
    ASSUME WorkerInv, program = "worker", program' = program, Running(Root),
           NEW pc, NEW mem \in WorkerRec, Moves(Root, pc, mem), IsSeq(screen'),
           Len(screen') <= signals',
           mem.signal_val # "" /\ pc # "reset" => Len(screen') < signals'
    PROVE  WorkerInv'
<1>1. Lone' BY LoneMoves DEF WorkerInv
<1>2. procs'[Root].pc = pc /\ procs'[Root].mem = mem BY DEF Moves
<1> QED BY <1>1, <1>2 DEF WorkerInv

LEMMA AnswerKeeps ==
    ASSUME WorkerInv, UnixOK, program = "worker", program' = program, Running(Root), WorkerLoop(Root)
    PROVE  WorkerInv'
<1>a. UNCHANGED signals BY DEF WorkerLoop
<1>0. ProcsOK /\ UNCHANGED signals /\ signals \in Nat BY <1>a, UnixAssumption DEF UnixOK, CountsOK
<1>1. PICK m : m = procs[Root].mem OBVIOUS
<1>2. /\ m \in WorkerRec /\ IsSeq(screen) /\ Len(screen) <= signals
      /\ m.signal_val # "" /\ procs[Root].pc # "reset" => Len(screen) < signals
    BY <1>1 DEF WorkerInv
<1>3. ASSUME NEW pc, Goto(Root, pc), UNCHANGED screen, pc # "reset", procs[Root].pc # "reset"
      PROVE  WorkerInv'
    <2>1. Moves(Root, pc, m) BY <1>0, <1>1, <1>3, RootIsPid, GotoIs DEF Moves
    <2> QED BY <1>0, <1>2, <1>3, <2>1, WorkerMoves
<1>4. CASE /\ At(Root, "worker", "loop")
           /\ Goto(Root, IF m.signal_val = "" THEN "sleep" ELSE "SIGINT")
           /\ UNCHANGED screen
    <2>1. PICK pc : pc = IF m.signal_val = "" THEN "sleep" ELSE "SIGINT" OBVIOUS
    <2>2. pc # "reset" /\ procs[Root].pc # "reset" BY <1>4, <2>1 DEF At
    <2> QED BY <1>3, <1>4, <2>1, <2>2
<1>5. ASSUME NEW sig \in Sigs, At(Root, "worker", sig), m.signal_val # sig,
             Goto(Root, IF sig = "SIGINT" THEN "SIGTERM" ELSE "sleep"), UNCHANGED screen
      PROVE  WorkerInv'
    <2>1. PICK pc : pc = IF sig = "SIGINT" THEN "SIGTERM" ELSE "sleep" OBVIOUS
    <2>2. pc # "reset" /\ procs[Root].pc # "reset" BY <1>5, <2>1 DEF At, Sigs
    <2> QED BY <1>3, <1>5, <2>1, <2>2
<1>6. ASSUME NEW sig \in Sigs, At(Root, "worker", sig), m.signal_val = sig,
             Goto(Root, "reset"), Shows(<<<<sig, Root>>>>)
      PROVE  WorkerInv'
    <2>1. m.signal_val # "" /\ procs[Root].pc # "reset" BY <1>6 DEF At, Sigs
    <2>2. PICK e : e = <<sig, Root>> OBVIOUS
    <2>3. IsSeq(screen') /\ Len(screen') = Len(screen) + 1 /\ Len(screen) \in Nat
        <3>1. PICK S : screen \in Seq(S) BY <1>2 DEF IsSeq
        <3>2. screen \in Seq(S \cup {e}) /\ <<e>> \in Seq(S \cup {e}) BY <3>1
        <3>3. screen \o <<e>> \in Seq(S \cup {e}) /\ Len(screen \o <<e>>) = Len(screen) + 1 BY <3>2
        <3> QED BY <1>6, <2>2, <3>1, <3>3 DEF Shows, IsSeq
    <2>a. Len(screen) < signals BY <1>2, <2>1
    <2>4. Len(screen') <= signals' BY <1>0, <2>3, <2>a
    <2>5. Moves(Root, "reset", m) BY <1>0, <1>1, <1>6, RootIsPid, GotoIs DEF Moves
    <2> QED BY <1>2, <2>3, <2>4, <2>5, WorkerMoves
<1>7. CASE /\ At(Root, "worker", "reset")
           /\ Step(Root, "sleep", [m EXCEPT !.signal_val = ""])
           /\ UNCHANGED screen
    <2>1. PICK n : n = [m EXCEPT !.signal_val = ""] OBVIOUS
    <2>2. n \in WorkerRec /\ n.signal_val = "" BY <1>2, <2>1 DEF WorkerRec
    <2>3. Moves(Root, "sleep", n) BY <1>0, <1>7, <2>1, RootIsPid, StepIs DEF Moves
    <2> QED BY <1>0, <1>2, <1>7, <2>2, <2>3, WorkerMoves
<1> QED BY <1>1, <1>4, <1>5, <1>6, <1>7 DEF WorkerLoop

LEMMA DozeKeeps ==
    ASSUME WorkerInv, UnixOK, program = "worker", program' = program, Running(Root),
           NEW prog, Sleep(Root, prog)
    PROVE  WorkerInv'
<1>0. ProcsOK /\ UNCHANGED <<signals, screen>> /\ procs[Root].pc = "sleep" BY DEF UnixOK, Sleep, At
<1>1. PICK m : m = procs[Root].mem OBVIOUS
<1>2. /\ m \in WorkerRec /\ IsSeq(screen) /\ Len(screen) <= signals
      /\ m.signal_val # "" => Len(screen) < signals
    BY <1>0, <1>1 DEF WorkerInv
<1>3. PICK n : n = [m EXCEPT !.slept = @ + 1] OBVIOUS
<1>4. n \in WorkerRec /\ n.signal_val = m.signal_val
    <2>1. m.slept \in Int BY <1>2 DEF WorkerRec
    <2>2. PICK k \in Int : k = m.slept BY <2>1
    <2>3. k + 1 \in Int OBVIOUS
    <2>4. n = [m EXCEPT !.slept = k + 1] BY <1>3, <2>2
    <2> QED BY <1>2, <2>3, <2>4 DEF WorkerRec
<1>5. Step(Root, "loop", n) BY <1>1, <1>3 DEF Sleep
<1>6. Moves(Root, "loop", n) BY <1>0, <1>5, RootIsPid, StepIs DEF Moves
<1> QED BY <1>0, <1>2, <1>4, <1>6, WorkerMoves

LEMMA WorkerSignalled ==
    ASSUME WorkerInv, UnixOK, program = "worker", program' = program, DisturbWorker
    PROVE  WorkerInv'
<1>0. ProcsOK /\ signals \in Nat BY UnixAssumption DEF UnixOK, CountsOK
<1>1. PICK pc : \E sig \in Sigs :
         /\ Running(Root) /\ signals' = signals + 1 /\ UNCHANGED screen
         /\ Moves(Root, pc, [procs[Root].mem EXCEPT !.signal_val = sig])
    BY <1>0, DisturbWorkerIs
<1>2. PICK sig \in Sigs :
         /\ Running(Root) /\ signals' = signals + 1 /\ UNCHANGED screen
         /\ Moves(Root, pc, [procs[Root].mem EXCEPT !.signal_val = sig])
    BY <1>1
<1>3. PICK n : n = [procs[Root].mem EXCEPT !.signal_val = sig] OBVIOUS
<1>4. n \in WorkerRec BY <1>3 DEF WorkerInv, WorkerRec
<1>5. IsSeq(screen) /\ Len(screen) <= signals /\ Len(screen) \in Nat
    <2>1. PICK S : screen \in Seq(S) BY DEF WorkerInv, IsSeq
    <2>2. Len(screen) \in Nat BY <2>1
    <2> QED BY <2>2 DEF WorkerInv
<1>6. Len(screen') < signals' /\ Len(screen') <= signals' /\ IsSeq(screen') BY <1>0, <1>2, <1>5
<1> QED BY <1>2, <1>3, <1>4, <1>6, WorkerMoves

LEMMA WorkerNext == ASSUME ProcInv, WorkerInv, [Next]_vars PROVE WorkerInv'
<1> SUFFICES ASSUME program = "worker" PROVE WorkerInv' BY ProgramStays DEF WorkerInv
<1>1. program' = program /\ UnixOK /\ procs[Root].prog = "worker" BY ProgramStays DEF ProcInv, WorkerInv, Lone
<1>2. CASE UNCHANGED <<procs, screen, signals>>
    BY <1>1, <1>2 DEF WorkerInv, Lone, Running, IsSeq
<1>3. ASSUME Running(Root), NapStep(Root) PROVE WorkerInv'
    <2>1. WorkerLoop(Root) \/ \E prog : Sleep(Root, prog)
        BY <1>1, <1>3 DEF NapStep, NapStart, NapReport, SnoozeLoop, NapLoop, PrimesLoop, CatchSignal,
                          DiesEarly, At, Nappers
    <2> QED BY <1>1, <1>3, <2>1, AnswerKeeps, DozeKeeps
<1>4. program \notin Nappers BY DEF Nappers
<1> QED BY <1>1, <1>2, <1>3, <1>4, LoneOnly, WorkerSignalled DEF WorkerInv

LEMMA NapRoots ==
    ASSUME NEW root \in Roots, root.prog \in Nappers
    PROVE  root.pc = "main" /\ \E argv \in NapArguments : root.mem = NapMem(argv)
<1>a. ASSUME NEW prog, NEW pc, NEW mem, root = Started(prog, pc, mem) PROVE root.prog = prog
    <2>1. IsStarted(root, prog, pc, mem) BY <1>a, StartedIs
    <2> QED BY <2>1 DEF IsStarted
<1>0. /\ \A prog, pc, mem : root = Started(prog, pc, mem) => root.prog = prog
      /\ root.prog \notin Shells /\ root.prog \notin Waiters
    BY <1>a DEF Shells, Nappers, Waiters
<1>1. \E prog \in Nappers, argv \in NapArguments : root = Started(prog, "main", NapMem(argv))
    <2>1. root \in Alone BY <1>0 DEF Roots, Pipelined, Interactive, Nappers, Shells
    <2> QED BY <1>0, <2>1 DEF Alone, Nappers, Waiters
<1>2. PICK prog \in Nappers, argv \in NapArguments : root = Started(prog, "main", NapMem(argv)) BY <1>1
<1>3. PICK m : m = NapMem(argv) OBVIOUS
<1>4. IsStarted(root, prog, "main", m) BY <1>2, <1>3, StartedIs
<1> QED BY <1>3, <1>4 DEF IsStarted

LEMMA WorkerRoot ==
    ASSUME NEW root \in Roots, root.prog = "worker"
    PROVE  root.pc = "loop" /\ root.mem = WorkerMem
<1>a. ASSUME NEW prog, NEW pc, NEW mem, root = Started(prog, pc, mem) PROVE root.prog = prog
    <2>1. IsStarted(root, prog, pc, mem) BY <1>a, StartedIs
    <2> QED BY <2>1 DEF IsStarted
<1>0. /\ \A prog, pc, mem : root = Started(prog, pc, mem) => root.prog = prog
      /\ root.prog \notin Shells /\ root.prog \notin Waiters /\ root.prog \notin Nappers
    BY <1>a DEF Shells, Nappers, Waiters
<1>1. root = Started("worker", "loop", WorkerMem)
    <2>1. root \in Alone BY <1>0 DEF Roots, Pipelined, Interactive
    <2> QED BY <1>0, <2>1 DEF Alone
<1>2. IsStarted(root, "worker", "loop", WorkerMem) BY <1>1, StartedIs
<1> QED BY <1>2 DEF IsStarted

LEMMA LoneStart ==
    ASSUME Init, program \in Nappers \cup {"worker"}
    PROVE  \E root \in Roots :
              /\ program = root.prog /\ procs[Root] = root /\ ~ root.int
              /\ Lone /\ screen = <<>> /\ signals = 0 /\ procs[Root].how = ""
<1>1. PICK root \in Roots : UnixInit(root) /\ program = root.prog BY Beginnings DEF Nappers
<1>2. FreshRoot(root) BY RootsAre
<1>3. Alone1(root) /\ screen = <<>> /\ signals = 0 BY <1>1, <1>2, UnixStart DEF FreshRoot
<1>4. Lone BY <1>1, <1>2, <1>3, NobodyIs DEF Lone, Alone1, FreshRoot, Running
<1> QED BY <1>1, <1>2, <1>3, <1>4 DEF Alone1, FreshRoot

LEMMA NapsStart == Init => NapInv /\ WorkerInv
<1>1. ASSUME Init, program \in Nappers PROVE NapInv
    <2>1. PICK root \in Roots :
              /\ program = root.prog /\ procs[Root] = root /\ ~ root.int
              /\ Lone /\ screen = <<>> /\ signals = 0 /\ procs[Root].how = ""
        BY <1>1, LoneStart
    <2>2. root.pc = "main" /\ \E argv \in NapArguments : root.mem = NapMem(argv)
        BY <1>1, <2>1, NapRoots
    <2>3. PICK argv \in Seq(AnyNumeral) : root.mem = NapMem(argv) BY <2>2, NapsAssumption
    <2>4. root.mem \in NapRec /\ MainAt("main", root.mem) BY <2>3, NapMemIs
    <2>5. ~ root.mem.got_signal BY <2>3 DEF NapMem
    <2>6. Napping BY <2>1, <2>2, <2>4, <2>5 DEF Napping, NapAt
    <2> QED BY <2>1, <2>6 DEF NapInv
<1>2. ASSUME Init, program = "worker" PROVE WorkerInv
    <2>1. PICK root \in Roots :
              /\ program = root.prog /\ procs[Root] = root
              /\ Lone /\ screen = <<>> /\ signals = 0
        BY <1>2, LoneStart
    <2>2. root.mem = WorkerMem BY <1>2, <2>1, WorkerRoot
    <2>3. WorkerMem \in WorkerRec /\ WorkerMem.signal_val = "" BY DEF WorkerMem, WorkerRec
    <2>4. IsSeq(<<>>) /\ Len(<<>>) = 0
        <3>1. \A S : <<>> \in Seq(S) OBVIOUS
        <3> QED BY <3>1 DEF IsSeq
    <2>5. Len(screen) <= signals /\ IsSeq(screen) BY <2>1, <2>4
    <2>6. procs[Root].mem \in WorkerRec /\ procs[Root].mem.signal_val = "" BY <2>1, <2>2, <2>3
    <2> QED BY <2>1, <2>5, <2>6 DEF WorkerInv
<1> QED BY <1>1, <1>2 DEF NapInv, WorkerInv

\* What snooze, signals and alarms report when they end: seconds that are at most
\* two off, the primes up to the last one; and worker answers no signal twice.
THEOREM NapsReport == Spec => []NapsReported
<1>1. ProcInv /\ NapInv /\ WorkerInv => NapsReported
    BY DEF NapInv, WorkerInv, NapSaid, NapsReported, Nappers, PrimesTo
<1>2. ProcInv /\ NapInv /\ WorkerInv /\ [Next]_vars => NapInv' /\ WorkerInv' BY NapNext, WorkerNext
<1> QED BY <1>1, <1>2, NapsStart, ProcInvariant, PTL DEF Spec

(***************************************************************************)
(* Parents: what they report of their children.                            *)
(***************************************************************************)
LEMMA ForkersOnly ==
    ASSUME ProcInv, program \in {"nforks"} \cup Waiters, procs[Root].prog = program, [Next]_vars
    PROVE  /\ program' = program
           /\ \/ \E p \in Pids : Running(p) /\ (NforksStep(p) \/ WaiterStep(p))
              \/ \E c \in Pids : Disturb(c)
              \/ UNCHANGED <<procs, screen>>
<1>0. UnixOK /\ KinOK /\ procs[Root].prog \notin Shells \cup Nappers \cup {"worker"}
    BY DEF ProcInv, Shells, Nappers, Waiters
<1>a. \A p \in Pids : procs[p].prog \in {"", "nforks", "randomsleep", "pfind of forkexec"} \cup Waiters
    BY <1>0 DEF KinOK, Kin, Runs, Waiters
<1>1. CASE OtherSteps BY <1>1 DEF OtherSteps, Waiters
<1>2. CASE User
    <2>1. ~ PressInterrupt BY <1>0 DEF PressInterrupt
    <2>2. ~ WakeUp /\ ~ DisturbWorker BY <1>0 DEF WakeUp, DisturbWorker, Nappers
    <2>3. TypeLine => UNCHANGED <<procs, screen>> BY DEF TypeLine, unixVars
    <2> QED BY <1>2, <2>1, <2>2, <2>3 DEF User
<1>3. CASE Kills BY <1>3 DEF Kills, unixVars
<1>4. CASE Rings BY <1>4, <1>0 DEF Rings, Alarm, Nappers
<1>5. ASSUME NEW p \in Pids, ProcessSteps(p)
      PROVE  program' = program /\ Running(p) /\ (NforksStep(p) \/ WaiterStep(p))
    <2>1. Running(p) /\ program' = program BY <1>5 DEF ProcessSteps
    <2>2. procs[p].prog \notin Shells \cup {"cmd", "nohup"} BY <1>a DEF Shells, Waiters
    <2>3. ~ MinishellStep(p)
        BY <2>2 DEF MinishellStep, ReadLine, Greet, Dispatch, ForkCommand, ExecCommand, AssignP,
                    WaitCommand, Handler, CommandEnds, At, Shells
    <2>4. ~ CommandStep(p) /\ ~ SpfindStep(p) /\ ~ CountStep(p) /\ ~ PipesStep(p)
        BY <1>0, <1>a, CommandFine, SpfindFine, CountFine, PipesFine DEF Fine, Waiters, Filters
    <2>5. ~ PrimesStep(p) /\ ~ NapStep(p)
        BY <1>0, <1>a, <2>1, PrimesFine, NapFine DEF Fine, Nappers, Waiters
    <2> QED BY <1>5, <2>1, <2>3, <2>4, <2>5 DEF ProcessSteps
<1>6. CASE UNCHANGED vars BY <1>6 DEF vars, unixVars
<1> QED BY <1>1, <1>2, <1>3, <1>4, <1>5, <1>6 DEF Next

\* forkexec and forkwithfile have one child, before it is forked none.
TheChild == procs[Root].mem.pid
Tells(e) == e[1] \in {"stopped", "continued"}
LastTold ==
    /\ TheChild \in Pids \ {Root} /\ procs[TheChild].state = "gone"
    /\ screen # <<>> /\ screen[Len(screen)] = <<procs[TheChild].how, TheChild>>
OnItsWay ==
    /\ TheChild \in Pids \ {Root} /\ procs[TheChild].parent = Root
    /\ procs[TheChild].state \in {"running", "zombie"}
    /\ \A i \in DOMAIN screen : Tells(screen[i])
WaitAt ==
    \/ procs[Root].pc = "main" /\ procs[Root].mem = WaiterMem /\ screen = <<>>
         /\ \A q \in Pids \ {Root} : ~ Running(q)
    \/ procs[Root].pc \in {"open", "waitpid"} /\ OnItsWay
    \/ procs[Root].pc = "return" /\ LastTold
Kid(q) ==
    Running(q) =>
        /\ q = TheChild
        /\ \/ procs[q].prog = program /\ procs[q].pc = "child"
           \/ procs[q].prog = "pfind of forkexec"
WaitInv ==
    program \in Waiters =>
        /\ procs[Root].prog = program /\ procs[Root].parent = 0 /\ IsSeq(screen)
        /\ \A q \in Pids \ {Root} : Kid(q)
        /\ \A i \in DOMAIN screen : i < Len(screen) => Tells(screen[i])
        /\ Running(Root) => procs[Root].how = "" /\ WaitAt
        /\ procs[Root].how = "exited" => ~ Running(Root) /\ LastTold

\* A child ends: nobody but the parent runs then.
LEMMA KidEnds ==
    ASSUME WaitInv, ProcsOK, program \in Waiters, program' = program,
           NEW q \in Pids, q # Root, Running(q), NEW how \in Hows, Exit(q, how), UNCHANGED screen
    PROVE  WaitInv'
<1>1. /\ \A r \in Pids : Stays(r) /\ procs'[r].parent = procs[r].parent
      /\ procs'[q].state = IF procs[q].parent \in Pids /\ Running(procs[q].parent)
                           THEN "zombie" ELSE "gone"
      /\ \A r \in Pids : r # q =>
            /\ procs'[r].state = IF r \in Zombies(q) THEN "gone" ELSE procs[r].state
            /\ procs'[r].how = procs[r].how
    BY ExitIs
<1>2. q = TheChild /\ TheChild' = TheChild BY <1>1, RootIsPid DEF WaitInv, Kid, TheChild, Stays
<1>3. \A r \in Pids \ {Root} : ~ Running(r)'
    BY <1>1, <1>2 DEF WaitInv, Kid, Running
<1>4. procs'[Root].state = procs[Root].state /\ procs'[Root].how = procs[Root].how
    <2>a. procs[Root].parent = 0 BY DEF WaitInv
    <2>b. q # 0 BY UnixAssumption DEF Pids
    <2>0. procs[Root].parent # q BY <2>a, <2>b
    <2>1. Root \notin Zombies(q) BY <2>0 DEF Zombies
    <2> QED BY <1>1, <2>1, RootIsPid
<1>5. procs'[Root].prog = program /\ procs'[Root].parent = 0 /\ procs'[Root].pc = procs[Root].pc
    BY <1>1, RootIsPid DEF WaitInv, Stays
<1>6. ~ LastTold BY <1>2 DEF LastTold, Running
<1>7. ASSUME Running(Root)' PROVE procs'[Root].how = "" /\ WaitAt'
    <2>1. Running(Root) /\ procs[Root].how = "" BY <1>4, <1>7 DEF WaitInv, Running
    <2>2. procs[Root].pc \in {"open", "waitpid"} /\ OnItsWay
        BY <1>6, <2>1 DEF WaitInv, WaitAt
    <2>3. procs'[q].state = "zombie" BY <1>1, <1>2, <2>1, <2>2, RootIsPid DEF OnItsWay
    <2>4. OnItsWay' BY <1>1, <1>2, <2>2, <2>3 DEF OnItsWay
    <2> QED BY <1>4, <2>1, <2>2, <2>4, <1>5 DEF WaitAt
<1>8. procs'[Root].how # "exited" BY <1>4, <1>6 DEF WaitInv
<1>9. \A r \in Pids \ {Root} : Kid(r)' BY <1>3 DEF Kid
<1> QED BY <1>5, <1>7, <1>8, <1>9 DEF WaitInv, WaitAt

\* A child executes another program, or is stopped or continued.
LEMMA KidGoesOn ==
    ASSUME WaitInv, ProcsOK, program \in Waiters, program' = program,
           NEW q \in Pids, q # Root, Others(q), UNCHANGED screen,
           procs'[q].state = procs[q].state, procs'[q].parent = procs[q].parent,
           procs'[q].how = procs[q].how,
           Running(q) => (procs'[q].prog = procs[q].prog /\ procs'[q].pc = procs[q].pc)
                          \/ procs'[q].prog = "pfind of forkexec"
    PROVE  WaitInv'
<1>1. procs'[Root] = procs[Root] BY RootIsPid DEF Others
<1>2. \A r \in Pids : /\ procs'[r].state = procs[r].state /\ procs'[r].parent = procs[r].parent
                      /\ procs'[r].how = procs[r].how
    BY DEF Others
<1>3. TheChild' = TheChild BY <1>1 DEF TheChild
<1>4. LastTold' <=> LastTold BY <1>2, <1>3 DEF LastTold
<1>5. OnItsWay' <=> OnItsWay BY <1>2, <1>3 DEF OnItsWay
<1>6. \A r \in Pids : Running(r)' <=> Running(r) BY <1>2 DEF Running
<1>7. WaitAt => WaitAt' BY <1>1, <1>4, <1>5, <1>6 DEF WaitAt
<1>8. \A r \in Pids \ {Root} : Kid(r)' BY <1>3, <1>6 DEF WaitInv, Kid, Others
<1> QED BY <1>1, <1>4, <1>6, <1>7, <1>8, RootIsPid DEF WaitInv

\* The parent ends.
LEMMA WaiterEnds ==
    ASSUME WaitInv, ProcsOK, program \in Waiters, program' = program,
           Running(Root), NEW how \in Hows, Exit(Root, how), UNCHANGED screen,
           how = "exited" => LastTold
    PROVE  WaitInv'
<1>1. /\ \A r \in Pids : Stays(r) /\ procs'[r].parent = procs[r].parent
      /\ procs'[Root].state = IF procs[Root].parent \in Pids /\ Running(procs[Root].parent)
                           THEN "zombie" ELSE "gone"
      /\ procs'[Root].how = how
      /\ \A r \in Pids : r # Root =>
            /\ procs'[r].state = IF r \in Zombies(Root) THEN "gone" ELSE procs[r].state
            /\ procs'[r].how = procs[r].how
    BY ExitIs, RootIsPid
<1>2. ~ Running(Root)' BY <1>1 DEF Running
<1>3. TheChild' = TheChild BY <1>1, RootIsPid DEF TheChild, Stays
<1>4. LastTold => LastTold' BY <1>1, <1>3 DEF LastTold
<1>5. \A r \in Pids \ {Root} : Kid(r)'
    <2>1. \A r \in Pids \ {Root} : Running(r)' => Running(r) BY <1>1 DEF Running
    <2> QED BY <1>1, <1>3, <2>1 DEF WaitInv, Kid, Stays
<1>6. procs'[Root].prog = program /\ procs'[Root].parent = 0
    BY <1>1, RootIsPid DEF WaitInv, Stays
<1> QED BY <1>1, <1>2, <1>4, <1>5, <1>6 DEF WaitInv

\* The parent or the child makes a step; at is where the parent is.
LEMMA AtWaiter ==
    ASSUME WaitInv, program \in Waiters, NEW p \in Pids, Running(p)
    PROVE  /\ procs[p].prog \in Waiters /\ procs[p].pc # "child" => p = Root
           /\ procs[p].pc = "child" \/ procs[p].prog = "pfind of forkexec" => p # Root
           /\ p = Root => procs[Root].prog = program /\ procs[Root].how = "" /\ WaitAt
<1>1. p # Root => \/ procs[p].prog = program /\ procs[p].pc = "child"
                  \/ procs[p].prog = "pfind of forkexec"
    BY DEF WaitInv, Kid
<1>2. p = Root => procs[Root].prog = program /\ procs[Root].how = "" /\ WaitAt BY DEF WaitInv
<1>3. "pfind of forkexec" \notin Waiters BY DEF Waiters
<1> QED BY <1>1, <1>2, <1>3 DEF WaitAt

LEMMA WaiterForks ==
    ASSUME WaitInv, ProcsOK, program \in Waiters, program' = program,
           NEW p \in Pids, NEW prog \in Waiters, WaiterFork(p, prog)
    PROVE  WaitInv'
<1>1. At(p, prog, "main") /\ UNCHANGED screen BY DEF WaiterFork
<1>0. Running(p) /\ procs[p].prog = prog /\ procs[p].pc = "main" BY <1>1 DEF At
<1>2. p = Root /\ procs[Root].prog = program /\ procs[Root].how = "" /\ WaitAt BY <1>0, AtWaiter
<1>3. CASE Exit(p, "failed")
    <2>1. PICK how : how = "failed" OBVIOUS
    <2>2. how \in Hows /\ how # "exited" /\ Exit(Root, how) /\ Running(Root)
        BY <1>0, <1>2, <1>3, <2>1 DEF Hows
    <2> QED BY <1>1, <2>2, WaiterEnds
<1>4. PICK pc \in {"open", "waitpid"} : Fork(p, pc, "child") \/ Exit(p, "failed")
    BY DEF WaiterFork
<1>5. CASE Fork(p, pc, "child")
    <2>1. PICK c \in Pids : ForkOf(p, c, pc, "child") BY <1>0, <1>5, ForkIs
    <2>2. procs[Root].mem = WaiterMem /\ screen = <<>> /\ \A q \in Pids \ {Root} : ~ Running(q)
        BY <1>0, <1>2 DEF WaitAt
    <2>3. procs'[Root].mem = [procs[Root].mem EXCEPT !.pid = c] BY <1>2, <2>1 DEF ForkOf
    <2>4. TheChild' = c BY <2>2, <2>3 DEF TheChild, WaiterMem
    <2>5. c \in Pids \ {Root} /\ procs'[c].parent = Root /\ procs'[c].state = "running"
          /\ procs'[c].prog = program /\ procs'[c].pc = "child"
        BY <1>2, <2>1 DEF ForkOf, WaitInv
    <2>6. OnItsWay' BY <1>1, <2>2, <2>4, <2>5 DEF OnItsWay
    <2>7. /\ procs'[Root].prog = program /\ procs'[Root].pc = pc /\ procs'[Root].parent = 0
          /\ procs'[Root].how = "" /\ Running(Root)'
        <3>1. Same(Root) /\ procs'[Root].prog = program /\ procs'[Root].pc = pc
            BY <1>2, <2>1 DEF ForkOf
        <3>2. procs[Root].parent = 0 BY DEF WaitInv
        <3> QED BY <1>0, <1>2, <3>1, <3>2 DEF Same, Running
    <2>8. ASSUME NEW q \in Pids \ {Root} PROVE Kid(q)'
        <3>1. CASE q = c BY <2>4, <2>5, <3>1 DEF Kid
        <3>2. CASE q # c BY <1>2, <2>1, <2>2, <3>2 DEF Kid, ForkOf, Running
        <3> QED BY <3>1, <3>2
    <2>9. IsSeq(screen)' /\ \A i \in DOMAIN screen' : i < Len(screen') => Tells(screen'[i])
        BY <1>1 DEF WaitInv, IsSeq
    <2> QED BY <2>6, <2>7, <2>8, <2>9 DEF WaitInv, WaitAt
<1> QED BY <1>2, <1>3, <1>4, <1>5

\* The screen with one line more.
OneLonger(t, s, e) ==
    /\ IsSeq(t) /\ t # <<>> /\ Len(t) \in DOMAIN t /\ t[Len(t)] = e /\ ~ (Len(t) < Len(t))
    /\ \A i \in DOMAIN s : i \in DOMAIN t /\ t[i] = s[i]
    /\ \A i \in DOMAIN t : (i \in DOMAIN s /\ t[i] = s[i] /\ i < Len(t)) \/ i = Len(t)

LEMMA ShowOne ==
    ASSUME NEW s, IsSeq(s), NEW e, NEW t, t = s \o <<e>>
    PROVE  OneLonger(t, s, e)
<1>1. PICK S : s \in Seq(S) BY DEF IsSeq
<1>2. PICK T : T = S \cup {e} OBVIOUS
<1>3. s \in Seq(T) /\ e \in T
    <2>1. s = [i \in 1 .. Len(s) |-> s[i]] /\ Len(s) \in Nat /\ \A i \in 1 .. Len(s) : s[i] \in S
        BY <1>1
    <2> QED BY <1>2, <2>1
<1>4. <<e>> \in Seq(T) BY <1>3
<1>5. t = Append(s, e) BY <1>3, <1>4
<1>6. t \in Seq(T) /\ Len(t) = Len(s) + 1 /\ Len(s) \in Nat
      /\ DOMAIN t = 1 .. Len(s) + 1 /\ DOMAIN s = 1 .. Len(s)
      /\ t[Len(s) + 1] = e /\ \A i \in 1 .. Len(s) : t[i] = s[i]
    BY <1>3, <1>5
<1>7. t # <<>> BY <1>6
<1>8. IsSeq(t) BY <1>6 DEF IsSeq
<1> QED BY ONLY <1>6, <1>7, <1>8 DEF OneLonger

LEMMA OneMore ==
    ASSUME IsSeq(screen), NEW e, Shows(<<e>>)
    PROVE  OneLonger(screen', screen, e)
<1>1. PICK t : t = screen' OBVIOUS
<1>2. t = screen \o <<e>> BY <1>1 DEF Shows
<1>3. OneLonger(t, screen, e) BY ONLY <1>2, IsSeq(screen), ShowOne
<1> QED BY ONLY <1>1, <1>3

LEMMA WaiterWaits ==
    ASSUME WaitInv, ProcsOK, program \in Waiters, program' = program,
           NEW p \in Pids, NEW prog \in Waiters, WaiterWait(p, prog)
    PROVE  WaitInv'
<1>1. At(p, prog, "waitpid") BY DEF WaiterWait
<1>0. Running(p) /\ procs[p].prog = prog /\ procs[p].pc = "waitpid" BY <1>1 DEF At
<1>2. p = Root /\ procs[Root].prog = program /\ Running(Root) /\ OnItsWay
      /\ procs[Root].pc = "waitpid" /\ procs[Root].how = ""
    BY <1>0, AtWaiter DEF WaitAt
<1> PICK c : c = TheChild OBVIOUS
<1>3. c \in Pids /\ c # Root /\ IsSeq(screen) BY <1>2 DEF OnItsWay, WaitInv
<1>4. CASE procs[c].state = "zombie" /\ Reap(p, c, "return") /\ Shows(<<<<procs[c].how, c>>>>)
    <2>1. /\ Same(Root) /\ procs'[Root].prog = program /\ procs'[Root].pc = "return"
          /\ procs'[Root].mem = procs[Root].mem
          /\ \A q \in Pids : q \notin {Root, c} => procs'[q] = procs[q]
          /\ procs'[c].state = "gone" /\ procs'[c].how = procs[c].how
        <3>1. PICK pc : pc = "return" OBVIOUS
        <3>2. Reap(Root, c, pc) BY <1>2, <1>4, <3>1
        <3>3. /\ Same(Root) /\ procs'[Root].prog = procs[Root].prog /\ procs'[Root].pc = pc
              /\ procs'[Root].mem = procs[Root].mem
              /\ \A q \in Pids : q \notin {Root, c} => procs'[q] = procs[q]
              /\ procs'[c].state = "gone" /\ procs'[c].how = procs[c].how
            BY <1>3, <3>2, RootIsPid, ReapIs
        <3> QED BY <1>2, <3>1, <3>3
    <2>a. PICK e : e = <<procs[c].how, c>> OBVIOUS
    <2>2. Shows(<<e>>) BY ONLY <1>4, <2>a
    <2>b. OneLonger(screen', screen, e) BY <1>3, <2>2, OneMore
    <2>3. IsSeq(screen') /\ screen' # <<>> /\ screen'[Len(screen')] = e BY <2>b DEF OneLonger
    <2>4. TheChild' = c BY <2>1 DEF TheChild
    <2>5. LastTold' BY <1>3, <2>1, <2>a, <2>3, <2>4 DEF LastTold
    <2>6. \A i \in DOMAIN screen' : i < Len(screen') => Tells(screen'[i])
        BY <1>2, <2>b DEF OnItsWay, OneLonger
    <2>7. \A q \in Pids \ {Root} : ~ Running(q)'
        BY <2>1 DEF WaitInv, Kid, Running
    <2>8. procs'[Root].parent = 0 /\ procs'[Root].how = "" BY <1>2, <2>1 DEF WaitInv, Same
    <2> QED BY <2>1, <2>3, <2>5, <2>6, <2>7, <2>8 DEF WaitInv, WaitAt, Kid
<1>5. CASE /\ procs[c].state = "running" /\ procs[c].news # ""
           /\ procs' = [procs EXCEPT ![c].news = ""] /\ Shows(<<<<procs[c].news, c>>>>)
    <2>1. ProcOK(procs[c]) BY <1>3 DEF ProcsOK
    <2>2. MarkOf(procs[c], procs[c].int, procs[c].stopped, "") = [procs[c] EXCEPT !.news = ""]
        BY <2>1 DEF ProcOK, MarkOf
    <2>3. procs' = [procs EXCEPT ![c] = MarkOf(procs[c], procs[c].int, procs[c].stopped, "")]
        BY <1>5, <2>2
    <2>4. procs[c].int \in BOOLEAN /\ procs[c].stopped \in BOOLEAN /\ "" \in News
        BY <2>1 DEF ProcOK, News
    <2>5. /\ Others(c) /\ procs'[c].state = procs[c].state /\ Stays(c)
          /\ procs'[c].parent = procs[c].parent /\ procs'[c].how = procs[c].how
        BY <1>3, <2>3, <2>4, MarkWell
    <2>7. PICK e : e = <<procs[c].news, c>> OBVIOUS
    <2>6. Shows(<<e>>) BY ONLY <1>5, <2>7
    <2>8. Tells(e) BY <1>5, <2>1, <2>7 DEF Tells, ProcOK, News
    <2>9. OneLonger(screen', screen, e) BY <1>3, <2>6, OneMore
    <2>a. IsSeq(screen') BY <2>9 DEF OneLonger
    <2>10. \A i \in DOMAIN screen' : Tells(screen'[i])
        BY <1>2, <2>8, <2>9 DEF OnItsWay, OneLonger
    <2>11. procs'[Root] = procs[Root] BY <1>3, <2>5, RootIsPid DEF Others
    <2>12. TheChild' = c BY <2>11 DEF TheChild
    <2>13. OnItsWay' BY <1>2, <2>5, <2>10, <2>12 DEF OnItsWay
    <2>14. ASSUME NEW q \in Pids \ {Root} PROVE Kid(q)'
        <3>1. CASE q = c BY <2>5, <2>12, <3>1 DEF WaitInv, Kid, Stays, Running
        <3>2. CASE q # c BY <2>5, <2>12, <3>2 DEF WaitInv, Kid, Others, Running
        <3> QED BY <3>1, <3>2
    <2>15. Running(Root)' /\ procs'[Root].how = "" /\ procs'[Root].pc = "waitpid"
        BY <1>2, <2>11 DEF WaitInv, Running
    <2> QED BY <2>a, <2>10, <2>11, <2>13, <2>14, <2>15 DEF WaitInv, WaitAt
<1> QED BY <1>2, <1>4, <1>5 DEF WaiterWait, TheChild

LEMMA WaiterOthers ==
    ASSUME WaitInv, ProcsOK, program \in Waiters, program' = program,
           NEW p \in Pids, Running(p),
           \/ \E prog \in Waiters : WaiterReturns(p, prog)
           \/ ExecPfind(p) \/ ChildReads(p) \/ ParentOpens(p)
           \/ RunsOut(p, "pfind of forkexec", "exited") \/ RunsOut(p, "pfind of forkexec", "failed")
    PROVE  WaitInv'
<1>0. /\ procs[p].prog \in Waiters /\ procs[p].pc # "child" => p = Root
      /\ procs[p].pc = "child" \/ procs[p].prog = "pfind of forkexec" => p # Root
      /\ p = Root => procs[Root].prog = program /\ procs[Root].how = "" /\ WaitAt
    BY AtWaiter
<1>a. "exited" \in Hows /\ "failed" \in Hows BY DEF Hows
<1>1. ASSUME NEW prog \in Waiters, WaiterReturns(p, prog) PROVE WaitInv'
    <2>1. procs[p].prog = prog /\ procs[p].pc = "return" /\ UNCHANGED screen /\ Exit(p, "exited")
        BY <1>1 DEF WaiterReturns, At
    <2>2. p = Root /\ LastTold BY <1>0, <2>1 DEF WaitAt
    <2>3. PICK how : how = "exited" OBVIOUS
    <2>4. Exit(Root, how) /\ Running(Root) /\ how \in Hows BY <1>a, <2>1, <2>2, <2>3
    <2> QED BY <2>1, <2>2, <2>4, WaiterEnds
<1>2. ASSUME p # Root, NEW how \in Hows, Exit(p, how), UNCHANGED screen PROVE WaitInv'
    BY <1>2, KidEnds
<1>3. CASE ExecPfind(p)
    <2>1. /\ p # Root /\ UNCHANGED screen
          /\ Exit(p, "failed") \/ Exec(p, "pfind of forkexec", "run", <<>>, procs[p].fd)
        BY <1>0, <1>3 DEF ExecPfind, At
    <2>2. CASE Exec(p, "pfind of forkexec", "run", <<>>, procs[p].fd)
        <3>1. procs[p].fd \in Fds BY FdOf
        <3>2. PICK prog : prog = "pfind of forkexec" OBVIOUS
        <3>3. PICK pc : pc = "run" OBVIOUS
        <3>4. Exec(p, prog, pc, <<>>, procs[p].fd) BY ONLY <2>2, <3>2, <3>3
        <3>5. Kept(p) /\ procs'[p].prog = prog BY <3>1, <3>4, ExecIs
        <3> QED BY <2>1, <3>2, <3>5, KidGoesOn DEF Kept, Same
    <2> QED BY <1>2, <1>a, <2>1, <2>2
<1>4. CASE ChildReads(p)
    <2>1. p # Root /\ UNCHANGED screen /\ (Exit(p, "failed") \/ Exit(p, "exited"))
        BY <1>0, <1>4 DEF ChildReads, At
    <2> QED BY <1>2, <1>a, <2>1
<1>5. CASE RunsOut(p, "pfind of forkexec", "exited") \/ RunsOut(p, "pfind of forkexec", "failed")
    <2>1. p # Root /\ UNCHANGED screen /\ (Exit(p, "failed") \/ Exit(p, "exited"))
        BY <1>0, <1>5 DEF RunsOut, At
    <2> QED BY <1>2, <1>a, <2>1
<1>6. CASE ParentOpens(p)
    <2>1. /\ procs[p].prog \in Waiters /\ procs[p].pc = "open" /\ UNCHANGED screen
          /\ Goto(p, "waitpid") \/ Exit(p, "failed")
        BY <1>6 DEF ParentOpens, At, Waiters
    <2>2. p = Root /\ OnItsWay BY <1>0, <2>1 DEF WaitAt
    <2>3. CASE Exit(p, "failed")
        <3>1. PICK how : how = "failed" OBVIOUS
        <3>2. Exit(Root, how) /\ Running(Root) /\ how \in Hows /\ how # "exited"
            BY <1>a, <2>2, <2>3, <3>1
        <3> QED BY <2>1, <3>2, WaiterEnds
    <2>4. CASE Goto(p, "waitpid")
        <3>1. /\ Others(Root) /\ Same(Root) /\ procs'[Root].prog = procs[Root].prog
              /\ procs'[Root].pc = "waitpid" /\ procs'[Root].mem = procs[Root].mem
            BY <2>2, <2>4, GotoIs, RootIsPid DEF Kept
        <3>2. TheChild' = TheChild BY <3>1 DEF TheChild
        <3>3. OnItsWay' BY <2>1, <2>2, <3>1, <3>2 DEF OnItsWay, Others
        <3>4. \A q \in Pids \ {Root} : Kid(q)' BY <3>1, <3>2 DEF WaitInv, Kid, Others, Running
        <3>5. procs[Root].parent = 0 /\ IsSeq(screen)
              /\ \A i \in DOMAIN screen : i < Len(screen) => Tells(screen[i])
            BY DEF WaitInv
        <3>6. procs'[Root].prog = program /\ procs'[Root].parent = 0 /\ procs'[Root].how = ""
            BY <1>0, <2>2, <3>1, <3>5 DEF Same
        <3> QED BY <2>1, <3>1, <3>3, <3>4, <3>5, <3>6 DEF WaitInv, WaitAt
    <2> QED BY <2>1, <2>3, <2>4
<1> QED BY <1>1, <1>3, <1>4, <1>5, <1>6

LEMMA WaiterDisturbed ==
    ASSUME WaitInv, ProcsOK, program \in Waiters, program' = program,
           NEW c \in Pids, Disturb(c)
    PROVE  WaitInv'
<1>1. /\ c # Root /\ Running(c) /\ UNCHANGED screen
      /\ \/ \E stopped \in BOOLEAN, news \in {"stopped", "continued"} :
               procs' = [procs EXCEPT ![c] = MarkOf(procs[c], procs[c].int, stopped, news)]
         \/ Exit(c, "killed")
    BY DisturbIs
<1>2. CASE Exit(c, "killed")
    <2>1. PICK how : how = "killed" OBVIOUS
    <2>2. how \in Hows /\ Exit(c, how) BY <1>2, <2>1 DEF Hows
    <2> QED BY <1>1, <2>2, KidEnds
<1>3. ASSUME NEW stopped \in BOOLEAN, NEW news \in {"stopped", "continued"},
             procs' = [procs EXCEPT ![c] = MarkOf(procs[c], procs[c].int, stopped, news)]
      PROVE  WaitInv'
    <2>1. procs[c].int \in BOOLEAN /\ news \in News BY DEF ProcsOK, ProcOK, News
    <2>2. /\ Others(c) /\ procs'[c].state = procs[c].state /\ Stays(c)
          /\ procs'[c].parent = procs[c].parent /\ procs'[c].how = procs[c].how
        BY <1>3, <2>1, MarkWell
    <2> QED BY <1>1, <2>2, KidGoesOn DEF Stays
<1> QED BY <1>1, <1>2, <1>3

LEMMA WaitUnchanged ==
    ASSUME WaitInv, program' = program, UNCHANGED <<procs, screen>> PROVE WaitInv'
<1>1. TheChild' = TheChild BY DEF TheChild
<1>2. (LastTold' <=> LastTold) /\ (OnItsWay' <=> OnItsWay) BY <1>1 DEF LastTold, OnItsWay
<1>3. WaitAt' <=> WaitAt BY <1>2 DEF WaitAt, Running
<1>4. \A q : Kid(q)' <=> Kid(q) BY <1>1 DEF Kid, Running
<1> QED BY <1>2, <1>3, <1>4 DEF WaitInv, Running

LEMMA WaitNext == ASSUME ProcInv, WaitInv, [Next]_vars PROVE WaitInv'
<1> SUFFICES ASSUME program \in Waiters PROVE WaitInv' BY ProgramStays DEF WaitInv
<1>0. ProcsOK /\ UnixOK BY DEF ProcInv, UnixOK
<1>1. /\ program' = program
      /\ \/ \E p \in Pids : Running(p) /\ (NforksStep(p) \/ WaiterStep(p))
         \/ \E c \in Pids : Disturb(c)
         \/ UNCHANGED <<procs, screen>>
    BY ForkersOnly DEF WaitInv
<1>2. ASSUME NEW p \in Pids, Running(p), NforksStep(p) \/ WaiterStep(p) PROVE WaitInv'
    <2>1. procs[p].prog \notin {"nforks", "randomsleep"}
        BY <1>2 DEF WaitInv, Kid, Waiters
    <2>2. ~ NforksStep(p) BY <1>0, <2>1, NforksFine DEF Fine
    <2> QED BY <1>0, <1>1, <1>2, <2>2, WaiterForks, WaiterWaits, WaiterOthers DEF WaiterStep
<1> QED BY <1>0, <1>1, <1>2, WaiterDisturbed, WaitUnchanged

LEMMA AloneRoots ==
    ASSUME NEW root \in Roots
    PROVE  /\ root.prog = "nforks" => root.pc = "main" /\ \E argv \in Arguments : root.mem = NforksMem(argv)
           /\ root.prog \in Waiters => root.pc = "main" /\ root.mem = WaiterMem
<1>a. ASSUME NEW prog, NEW pc, NEW mem, root = Started(prog, pc, mem)
      PROVE  root.prog = prog /\ root.pc = pc /\ root.mem = mem
    <2>1. IsStarted(root, prog, pc, mem) BY <1>a, StartedIs
    <2> QED BY <2>1 DEF IsStarted
<1>1. \A prog, pc, mem : root = Started(prog, pc, mem) => root.prog = prog /\ root.pc = pc /\ root.mem = mem
    BY <1>a
<1>2. root \in Pipelined \cup Interactive => root.prog \notin {"nforks"} \cup Waiters
    BY <1>1 DEF Pipelined, Interactive, Shells, Waiters
<1>3. ASSUME root \in Alone, root.prog \in {"nforks"} \cup Waiters
      PROVE  \/ \E argv \in Arguments : root = Started("nforks", "main", NforksMem(argv))
             \/ \E prog \in Waiters : root = Started(prog, "main", WaiterMem)
    <2>1. root.prog \notin Nappers \cup {"primestest", "worker"} BY <1>3 DEF Nappers, Waiters
    <2> QED BY <1>1, <1>3, <2>1 DEF Alone
<1>4. "nforks" \notin Waiters BY DEF Waiters
<1>5. CASE root \in Alone /\ root.prog \in {"nforks"} \cup Waiters
    BY <1>1, <1>3, <1>4, <1>5
<1> QED BY <1>2, <1>5 DEF Roots

LEMMA ForkersStart ==
    ASSUME Init, program \in {"nforks"} \cup Waiters
    PROVE  \E root \in Roots :
              /\ program = root.prog /\ procs[Root] = root /\ root.parent = 0 /\ root.how = ""
              /\ root.state = "running" /\ screen = <<>> /\ IsSeq(screen)
              /\ \A q \in Pids \ {Root} : procs[q].state = "none"
<1>1. PICK root \in Roots : UnixInit(root) /\ program = root.prog BY Beginnings DEF Waiters
<1>2. FreshRoot(root) BY RootsAre
<1>3. Alone1(root) /\ screen = <<>> BY <1>1, <1>2, UnixStart DEF FreshRoot
<1>4. \A S : <<>> \in Seq(S) OBVIOUS
<1> QED BY <1>1, <1>2, <1>3, <1>4, NobodyIs DEF Alone1, FreshRoot, IsSeq

LEMMA WaitStart == Init => WaitInv
<1> SUFFICES ASSUME Init, program \in Waiters PROVE WaitInv BY DEF WaitInv
<1>1. PICK root \in Roots :
              /\ program = root.prog /\ procs[Root] = root /\ root.parent = 0 /\ root.how = ""
              /\ root.state = "running" /\ screen = <<>> /\ IsSeq(screen)
              /\ \A q \in Pids \ {Root} : procs[q].state = "none"
    BY ForkersStart
<1>2. root.pc = "main" /\ root.mem = WaiterMem BY <1>1, AloneRoots
<1>3. \A q \in Pids \ {Root} : ~ Running(q) BY <1>1 DEF Running
<1>4. WaitAt BY <1>1, <1>2, <1>3 DEF WaitAt
<1>5. \A i \in DOMAIN screen : FALSE
    <2>1. \A i \in DOMAIN <<>> : FALSE OBVIOUS
    <2> QED BY <1>1, <2>1
<1> QED BY <1>1, <1>3, <1>4, <1>5 DEF WaitInv, Kid

\* nforks: as many children are left as the turn of the loop says, and those that
\* were waited for are the ones reported, each once.
Children == {c \in Pids \ {Root} : procs[c].state \in {"running", "zombie"}}
Waited(c) == c \in Pids \ {Root} /\ procs[c].state = "gone"
ForksRec == [argv : Seq(AnyNumeral), pid : Int, n : Int, i : Int]
ForksAt ==
    LET mem == procs[Root].mem
    IN
    /\ mem \in ForksRec
    /\ \/ procs[Root].pc = "main" /\ mem.i = 1 /\ Cardinality(Children) = 0
       \/ procs[Root].pc = "fork" /\ mem.i \in 1 .. mem.n + 1 /\ Cardinality(Children) = mem.i - 1
       \/ procs[Root].pc = "forked" /\ mem.i \in 1 .. mem.n /\ Cardinality(Children) = mem.i
       \/ procs[Root].pc = "wait" /\ mem.i \in 1 .. mem.n + 1
            /\ Cardinality(Children) = mem.n - mem.i + 1
Terminated(c) == <<"terminated", c>>
Told ==
    /\ IsSeq(screen)
    /\ \A i \in DOMAIN screen : \E c : Waited(c) /\ screen[i] = Terminated(c)
    /\ \A i, j \in DOMAIN screen : screen[i] = screen[j] => i = j
    /\ \A c : Waited(c) => \E i \in DOMAIN screen : screen[i] = Terminated(c)
ChildOK(c) ==
    /\ c \in Children => procs[c].parent = Root
    /\ Running(c) => \/ procs[c].prog = "nforks" /\ procs[c].pc = "exec"
                     \/ procs[c].prog = "randomsleep"
ForksInv ==
    program = "nforks" =>
        /\ procs[Root].prog = "nforks" /\ procs[Root].parent = 0 /\ procs[Root].state # "zombie"
        /\ \A c \in Pids \ {Root} : ChildOK(c)
        /\ Running(Root) => ForksAt /\ procs[Root].how = "" /\ Told
        /\ Running(Root) /\ procs[Root].pc # "wait" => screen = <<>>
        /\ procs[Root].how = "exited" => ~ Running(Root) /\ Children = {} /\ Told
        /\ ~ Running(Root) /\ procs[Root].how # "exited" => procs[Root].how = "failed" /\ screen = <<>>

LEMMA ChildrenFinite ==
    /\ IsFiniteSet(Children) /\ Cardinality(Children) \in Nat
    /\ Cardinality(Children) = 0 <=> Children = {}
<1>1. IsFiniteSet(Pids) BY FS_Interval, UnixAssumption DEF Pids
<1>2. Children \in SUBSET Pids BY DEF Children
<1>3. IsFiniteSet(Children) BY <1>1, <1>2, FS_Subset
<1> QED BY <1>3, FS_CardinalityType, FS_EmptySet

LEMMA AtForks ==
    ASSUME ForksInv, program = "nforks", NEW p \in Pids, Running(p)
    PROVE  /\ p # Root => \/ procs[p].prog = "nforks" /\ procs[p].pc = "exec"
                          \/ procs[p].prog = "randomsleep"
           /\ p = Root => /\ procs[Root].prog = "nforks" /\ procs[Root].how = "" /\ Told
                          /\ ForksAt /\ procs[Root].pc # "exec"
                          /\ procs[Root].pc # "wait" => screen = <<>>
           /\ p # Root => p \in Children /\ procs[p].parent = Root
<1>1. p # Root => \/ procs[p].prog = "nforks" /\ procs[p].pc = "exec"
                  \/ procs[p].prog = "randomsleep"
    BY DEF ForksInv, ChildOK
<1>2. p = Root => /\ procs[Root].prog = "nforks" /\ procs[Root].how = "" /\ Told /\ ForksAt
                  /\ procs[Root].pc # "wait" => screen = <<>>
    BY DEF ForksInv
<1>3. p = Root => procs[Root].pc # "exec" BY <1>2 DEF ForksAt
<1>4. p # Root => p \in Children BY DEF Children, Running
<1>5. p # Root => procs[p].parent = Root BY <1>4 DEF ForksInv, ChildOK
<1> QED BY <1>1, <1>2, <1>3, <1>4, <1>5

LEMMA ToldStays ==
    ASSUME Told, UNCHANGED screen,
           \A c \in Pids \ {Root} : procs'[c].state = "gone" <=> procs[c].state = "gone"
    PROVE  Told'
<1>1. \A c : Waited(c)' <=> Waited(c) BY DEF Waited
<1> QED BY <1>1 DEF Told, IsSeq, Terminated

\* A child ends or executes randomsleep.
LEMMA ForksChild ==
    ASSUME ForksInv, program = "nforks", program' = program, UNCHANGED screen,
           NEW p \in Pids, p # Root, Running(p),
           \A q \in Pids : q # p => /\ procs'[q].state = procs[q].state /\ Stays(q)
                                    /\ procs'[q].parent = procs[q].parent /\ procs'[q].how = procs[q].how,
           procs'[p].parent = procs[p].parent,
           Running(Root) => procs'[p].state \in {"running", "zombie"},
           Running(p)' => procs'[p].prog = "randomsleep"
    PROVE  ForksInv'
<1>1. p \in Children /\ procs[p].parent = Root BY AtForks
<1>a. /\ procs'[Root].state = procs[Root].state /\ procs'[Root].parent = procs[Root].parent
      /\ procs'[Root].how = procs[Root].how /\ procs'[Root].prog = procs[Root].prog
      /\ procs'[Root].pc = procs[Root].pc /\ procs'[Root].mem = procs[Root].mem
    BY RootIsPid DEF Stays
<1>2. Running(Root)' <=> Running(Root) BY <1>a DEF Running
<1>b. Children' \subseteq Children BY <1>1 DEF Children
<1>3. Running(Root) => Children' = Children BY <1>1 DEF Children
<1>4. ASSUME NEW c \in Pids \ {Root} PROVE ChildOK(c)'
    <2>1. c \in Children' => procs'[c].parent = Root
        BY <1>1, <1>b DEF ForksInv, ChildOK
    <2>2. CASE c = p BY <2>1, <2>2 DEF ChildOK
    <2>3. CASE c # p BY <2>1, <2>3 DEF ForksInv, ChildOK, Stays, Running
    <2> QED BY <2>2, <2>3
<1>5. procs[Root].how # "exited" BY <1>1 DEF ForksInv
<1>6. Running(Root) => \A c \in Pids \ {Root} : procs'[c].state = "gone" <=> procs[c].state = "gone"
    BY DEF Running
<1>7. ASSUME Running(Root) PROVE ForksAt' /\ procs'[Root].how = "" /\ Told'
    <2>1. ForksAt /\ procs[Root].how = "" /\ Told BY <1>7 DEF ForksInv
    <2>2. Told' BY <1>6, <1>7, <2>1, ToldStays
    <2> QED BY <1>a, <1>3, <1>7, <2>1, <2>2 DEF ForksAt
<1> QED BY <1>a, <1>2, <1>4, <1>5, <1>7 DEF ForksInv

LEMMA ForksChildEnds ==
    ASSUME ForksInv, ProcsOK, program = "nforks", program' = program, UNCHANGED screen,
           NEW p \in Pids, p # Root, Running(p), NEW how \in Hows, Exit(p, how)
    PROVE  ForksInv'
<1>1. /\ \A r \in Pids : Stays(r) /\ procs'[r].parent = procs[r].parent
      /\ procs'[p].state = IF procs[p].parent \in Pids /\ Running(procs[p].parent)
                           THEN "zombie" ELSE "gone"
      /\ \A r \in Pids : r # p =>
            procs'[r].state = IF r \in Zombies(p) THEN "gone" ELSE procs[r].state
    BY ExitIs
<1>2. p \in Children /\ procs[p].parent = Root /\ procs[Root].parent = 0 BY AtForks DEF ForksInv
<1>3. Zombies(p) = {}
    <2>1. ASSUME NEW c \in Zombies(p) PROVE FALSE
        <3>1. c \in Pids /\ procs[c].parent = p /\ procs[c].state = "zombie" BY <2>1 DEF Zombies
        <3>2. p # 0 BY UnixAssumption DEF Pids
        <3>3. c # Root BY <1>2, <3>1, <3>2
        <3>4. c \in Children BY <3>1, <3>3 DEF Children
        <3>5. procs[c].parent = Root BY <3>3, <3>1, <3>4 DEF ForksInv, ChildOK
        <3> QED BY <3>1, <3>5
    <2> QED BY <2>1
<1>4. Running(Root) => procs'[p].state \in {"running", "zombie"} BY <1>1, <1>2, RootIsPid
<1>5. ~ Running(p)' BY <1>1 DEF Running
<1>6. \A q \in Pids : q # p => procs'[q].state = procs[q].state BY <1>1, <1>3
<1>7. \A q \in Pids : q # p => procs'[q].how = procs[q].how BY ExitIs
<1> QED BY <1>1, <1>4, <1>5, <1>6, <1>7, ForksChild

LEMMA ForksChildExecs ==
    ASSUME ForksInv, program = "nforks", program' = program, UNCHANGED screen,
           NEW p \in Pids, p # Root, Running(p), Kept(p), procs'[p].prog = "randomsleep"
    PROVE  ForksInv'
<1>1. \A q \in Pids : q # p => /\ procs'[q].state = procs[q].state /\ Stays(q)
                                /\ procs'[q].parent = procs[q].parent /\ procs'[q].how = procs[q].how
    BY DEF Kept, Others, Stays
<1>2. procs'[p].parent = procs[p].parent /\ procs'[p].state = "running"
    BY DEF Kept, Same, Running
<1> QED BY <1>1, <1>2, ForksChild

\* The parent ends: well only without children.
LEMMA ForksEnds ==
    ASSUME ForksInv, ProcsOK, program = "nforks", program' = program, UNCHANGED screen,
           Running(Root), NEW how \in Hows, Exit(Root, how), how = "exited" => Children = {},
           how # "exited" => how = "failed" /\ screen = <<>>
    PROVE  ForksInv'
<1>1. /\ \A r \in Pids : Stays(r) /\ procs'[r].parent = procs[r].parent
      /\ procs'[Root].state = IF procs[Root].parent \in Pids /\ Running(procs[Root].parent)
                              THEN "zombie" ELSE "gone"
      /\ procs'[Root].how = how
      /\ \A r \in Pids : r # Root =>
            procs'[r].state = IF r \in Zombies(Root) THEN "gone" ELSE procs[r].state
    BY ExitIs, RootIsPid
<1>2. ~ Running(Root)' BY <1>1 DEF Running
<1>3. Children' \subseteq Children BY <1>1 DEF Children
<1>4. ASSUME NEW c \in Pids \ {Root} PROVE ChildOK(c)'
    <2>1. Running(c)' => Running(c) BY <1>1 DEF Running
    <2> QED BY <1>1, <1>3, <2>1 DEF ForksInv, ChildOK, Stays
<1>5. ASSUME how = "exited" PROVE Children' = {} /\ Told'
    <2>1. Children = {} BY <1>5
    <2>2. Told BY DEF ForksInv
    <2>3. \A c \in Pids \ {Root} : procs'[c].state = procs[c].state
        <3>1. \A c \in Pids \ {Root} : c \notin Zombies(Root)
            BY <2>1 DEF Children, Zombies
        <3> QED BY <1>1, <3>1
    <2> QED BY <1>3, <2>1, <2>2, <2>3, ToldStays
<1>6. procs'[Root].prog = "nforks" /\ procs'[Root].parent = 0 BY <1>1, RootIsPid DEF ForksInv, Stays
<1>7. procs'[Root].state = "gone"
    <2>1. procs[Root].parent = 0 BY DEF ForksInv
    <2>2. 0 \notin Pids BY UnixAssumption DEF Pids
    <2> QED BY <1>1, <2>1, <2>2
<1> QED BY <1>1, <1>2, <1>4, <1>5, <1>6, <1>7 DEF ForksInv

LEMMA ForksMoves ==
    ASSUME ForksInv, program = "nforks", program' = program, UNCHANGED screen, screen = <<>>,
           Running(Root), NEW pc, NEW mem, Moves(Root, pc, mem), mem \in ForksRec,
           \/ pc = "fork" /\ mem.i \in 1 .. mem.n + 1 /\ Cardinality(Children) = mem.i - 1
           \/ pc = "wait" /\ mem.i \in 1 .. mem.n + 1 /\ Cardinality(Children) = mem.n - mem.i + 1
    PROVE  ForksInv'
<1>1. /\ procs'[Root].prog = "nforks" /\ procs'[Root].parent = 0 /\ procs'[Root].how = ""
      /\ procs'[Root].pc = pc /\ procs'[Root].mem = mem /\ procs'[Root].state = procs[Root].state
      /\ \A q \in Pids : q # Root => procs'[q] = procs[q]
    BY DEF ForksInv, Moves, Kept, Same, Others
<1>2. Children' = Children BY <1>1 DEF Children
<1>3. Running(Root)' BY <1>1 DEF Running
<1>4. ForksAt' BY <1>1, <1>2 DEF ForksAt
<1>5. Told'
    <2>1. Told BY DEF ForksInv
    <2> QED BY <1>1, <2>1, ToldStays
<1>6. \A c \in Pids \ {Root} : ChildOK(c)' BY <1>1, <1>2 DEF ForksInv, ChildOK, Running
<1> QED BY <1>1, <1>3, <1>4, <1>5, <1>6 DEF ForksInv

LEMMA ForksStarts ==
    ASSUME ForksInv, ProcsOK, program = "nforks", program' = program,
           NEW p \in Pids, NforksStart(p)
    PROVE  ForksInv'
<1>1. Running(p) /\ procs[p].prog = "nforks" /\ procs[p].pc = "main" /\ UNCHANGED screen
    BY DEF NforksStart, At
<1>2. p = Root /\ ForksAt /\ screen = <<>> BY <1>1, AtForks
<1> PICK m : m = procs[Root].mem OBVIOUS
<1>3. m \in ForksRec /\ m.i = 1 /\ Cardinality(Children) = 0 BY <1>1, <1>2 DEF ForksAt
<1>4. CASE Exit(Root, "failed")
    <2>1. PICK how : how = "failed" OBVIOUS
    <2>2. how \in Hows /\ how # "exited" /\ how = "failed" /\ Exit(Root, how) BY <1>4, <2>1 DEF Hows
    <2> QED BY <1>1, <1>2, <2>2, ForksEnds
<1>5. CASE /\ Len(m.argv) = 1 /\ m.argv[1].val > 0
           /\ Step(Root, "fork", [m EXCEPT !.n = m.argv[1].val])
    <2>1. m.argv \in Seq(AnyNumeral) BY <1>3 DEF ForksRec
    <2>2. m.argv[1] \in AnyNumeral BY <1>5, <2>1
    <2>3. PICK k \in Int : k = m.argv[1].val BY <2>2 DEF AnyNumeral
    <2>4. PICK n : n = [m EXCEPT !.n = k] OBVIOUS
    <2>5. n \in ForksRec /\ n.i = 1 /\ n.n = k /\ k > 0 BY <1>3, <1>5, <2>3, <2>4 DEF ForksRec
    <2>6. PICK pc : pc = "fork" OBVIOUS
    <2>7. Step(Root, pc, n) BY <1>5, <2>3, <2>4, <2>6
    <2>8. Moves(Root, pc, n) BY <2>7, RootIsPid, StepIs DEF Moves
    <2>9. n.i \in 1 .. n.n + 1 /\ Cardinality(Children) = n.i - 1 BY <1>3, <2>5
    <2> QED BY <1>1, <1>2, <2>5, <2>6, <2>8, <2>9, ForksMoves
<1> QED BY <1>2, <1>4, <1>5 DEF NforksStart, Usage

LEMMA ForksForks ==
    ASSUME ForksInv, ProcsOK, program = "nforks", program' = program,
           NEW p \in Pids, NforksFork(p)
    PROVE  ForksInv'
<1>1. Running(p) /\ procs[p].prog = "nforks" /\ procs[p].pc = "fork" /\ UNCHANGED screen
    BY DEF NforksFork, At
<1>2. p = Root /\ ForksAt /\ screen = <<>> /\ Told /\ procs[Root].how = "" BY <1>1, AtForks
<1> PICK m : m = procs[Root].mem OBVIOUS
<1>3. m \in ForksRec /\ m.i \in 1 .. m.n + 1 /\ Cardinality(Children) = m.i - 1 /\ m.n \in Int /\ m.i \in Int
    BY <1>1, <1>2 DEF ForksAt, ForksRec
<1>4. CASE Exit(Root, "failed")
    <2>1. PICK how : how = "failed" OBVIOUS
    <2>2. how \in Hows /\ how # "exited" /\ how = "failed" /\ Exit(Root, how) BY <1>4, <2>1 DEF Hows
    <2> QED BY <1>1, <1>2, <2>2, ForksEnds
<1>5. CASE m.i > m.n /\ Step(Root, "wait", [m EXCEPT !.i = 1])
    <2>1. PICK n : n = [m EXCEPT !.i = 1] OBVIOUS
    <2>2. n \in ForksRec /\ n.i = 1 /\ n.n = m.n BY <1>3, <2>1 DEF ForksRec
    <2>3. PICK pc : pc = "wait" OBVIOUS
    <2>4. Moves(Root, pc, n) BY <1>5, <2>1, <2>3, RootIsPid, StepIs DEF Moves
    <2>5. m.i = m.n + 1 /\ m.n >= 0 BY <1>3, <1>5
    <2>6. n.i \in 1 .. n.n + 1 /\ Cardinality(Children) = n.n - n.i + 1 BY <1>3, <2>2, <2>5
    <2> QED BY <1>1, <1>2, <2>2, <2>3, <2>4, <2>6, ForksMoves
<1>6. CASE ~ (m.i > m.n) /\ Fork(Root, "forked", "exec")
    <2>1. PICK c \in Pids : ForkOf(Root, c, "forked", "exec") BY <1>1, <1>2, <1>6, ForkIs, RootIsPid
    <2>2. /\ c # Root /\ Same(Root) /\ \A q \in Pids : q \notin {Root, c} => procs'[q] = procs[q]
          /\ procs'[Root].prog = "nforks" /\ procs'[Root].pc = "forked"
          /\ procs'[Root].mem = [m EXCEPT !.pid = c]
          /\ procs'[c].state = "running" /\ procs'[c].parent = Root
          /\ procs'[c].prog = "nforks" /\ procs'[c].pc = "exec"
          /\ procs[c].state \in {"none", "gone"}
        BY <1>1, <1>2, <2>1 DEF ForkOf
    <2>3. PICK n : n = [m EXCEPT !.pid = c] OBVIOUS
    <2>4. n \in ForksRec /\ n.i = m.i /\ n.n = m.n
        <3>1. c \in Int BY UnixAssumption DEF Pids
        <3> QED BY <1>3, <2>3, <3>1 DEF ForksRec
    <2>5. Children' = Children \cup {c} /\ c \notin Children
        <3>1. \A q \in Pids \ {Root} : q \in Children' <=> q \in Children \cup {c}
            BY <2>2 DEF Children
        <3>2. Children' \subseteq Pids \ {Root} /\ Children \subseteq Pids \ {Root}
            BY DEF Children
        <3> QED BY <2>2, <3>1, <3>2 DEF Children
    <2>6. Cardinality(Children)' = Cardinality(Children) + 1
        BY <2>5, ChildrenFinite, FS_AddElement
    <2>7. ForksAt'
        <3>1. n.i \in 1 .. n.n BY <1>3, <1>6, <2>4
        <3>2. Cardinality(Children)' = n.i BY <1>3, <2>4, <2>6
        <3>3. procs'[Root].mem = n /\ procs'[Root].pc = "forked" BY <2>2, <2>3
        <3> QED BY <2>4, <3>1, <3>2, <3>3 DEF ForksAt
    <2>8. Told'
        <3>1. \A q : ~ Waited(q)
            <4>1. \A i \in DOMAIN <<>> : FALSE OBVIOUS
            <4> QED BY <1>2, <4>1 DEF Told
        <3>2. \A q : ~ Waited(q)' BY <2>2, <3>1 DEF Waited
        <3> QED BY <1>1, <1>2, <3>1, <3>2 DEF Told, IsSeq
    <2>9. ASSUME NEW q \in Pids \ {Root} PROVE ChildOK(q)'
        <3>1. CASE q = c BY <2>2, <3>1 DEF ChildOK
        <3>2. CASE q # c
            <4>1. procs'[q] = procs[q] /\ (q \in Children' => q \in Children) BY <2>2, <2>5, <3>2
            <4>2. ChildOK(q) BY DEF ForksInv
            <4> QED BY <4>1, <4>2 DEF ChildOK, Running
        <3> QED BY <3>1, <3>2
    <2>10. procs'[Root].state # "zombie" /\ Running(Root)' /\ procs'[Root].how = "" /\ procs'[Root].parent = 0
        <3>1. procs[Root].parent = 0 BY DEF ForksInv
        <3>2. procs[Root].state = "running" /\ procs[Root].how = "" BY <1>1, <1>2 DEF Running
        <3>3. /\ procs'[Root].state = procs[Root].state /\ procs'[Root].how = procs[Root].how
              /\ procs'[Root].parent = procs[Root].parent
            BY <2>2 DEF Same
        <3> QED BY ONLY <3>1, <3>2, <3>3 DEF Running
    <2> QED BY <1>1, <1>2, <2>2, <2>7, <2>8, <2>9, <2>10 DEF ForksInv
<1> QED BY <1>2, <1>4, <1>5, <1>6 DEF NforksFork

LEMMA ForksGoOn ==
    ASSUME ForksInv, ProcsOK, program = "nforks", program' = program,
           NEW p \in Pids, NforksForked(p)
    PROVE  ForksInv'
<1>1. Running(p) /\ procs[p].prog = "nforks" /\ procs[p].pc = "forked" /\ UNCHANGED screen
    BY DEF NforksForked, At
<1>2. p = Root /\ ForksAt /\ screen = <<>> BY <1>1, AtForks
<1> PICK m : m = procs[Root].mem OBVIOUS
<1>3. m \in ForksRec /\ m.i \in 1 .. m.n /\ Cardinality(Children) = m.i /\ m.n \in Int
    BY <1>1, <1>2 DEF ForksAt, ForksRec
<1>4. PICK k \in Int : k = m.i BY <1>3
<1>5. PICK n : n = [m EXCEPT !.i = k + 1] OBVIOUS
<1>6. k + 1 \in Int OBVIOUS
<1>7. n \in ForksRec /\ n.i = k + 1 /\ n.n = m.n BY <1>3, <1>5, <1>6 DEF ForksRec
<1>8. PICK pc : pc = "fork" OBVIOUS
<1>9. Step(Root, pc, n)
    <2>1. [m EXCEPT !.i = @ + 1] = n BY <1>3, <1>4, <1>5 DEF ForksRec
    <2> QED BY <1>2, <1>8, <2>1 DEF NforksForked
<1>10. Moves(Root, pc, n) BY <1>9, RootIsPid, StepIs DEF Moves
<1>11. n.i \in 1 .. n.n + 1 /\ Cardinality(Children) = n.i - 1 BY <1>3, <1>4, <1>7
<1> QED BY <1>1, <1>2, <1>7, <1>8, <1>10, <1>11, ForksMoves

\* A child is waited for and reported.
ReapsOne(c) == procs' = [procs EXCEPT ![c].state = "gone", ![Root].mem.i = @ + 1]
LEMMA ForksReap ==
    ASSUME ForksInv, ProcsOK, program = "nforks", program' = program,
           Running(Root), procs[Root].pc = "wait", procs[Root].mem.i <= procs[Root].mem.n,
           NEW c \in Zombies(Root), Shows(<<Terminated(c)>>),
           ReapsOne(c)
    PROVE  ForksInv'
<1>0. procs[Root].prog = "nforks" /\ procs[Root].parent = 0 /\ procs[Root].how = "" /\ ForksAt /\ Told
    BY DEF ForksInv
<1> PICK m : m = procs[Root].mem OBVIOUS
<1>1. m \in ForksRec /\ m.i \in 1 .. m.n /\ Cardinality(Children) = m.n - m.i + 1 /\ m.n \in Int
    <2>1. m \in ForksRec /\ m.i \in 1 .. m.n + 1 /\ Cardinality(Children) = m.n - m.i + 1
        BY <1>0 DEF ForksAt
    <2>2. m.n \in Int /\ m.i \in Int /\ m.i <= m.n BY <2>1 DEF ForksRec
    <2> QED BY <2>1, <2>2
<1>2. PICK k \in Int : k = m.i BY <1>1
<1>3. PICK n : n = [m EXCEPT !.i = k + 1] OBVIOUS
<1>4. n \in ForksRec /\ n.i = k + 1 /\ n.n = m.n
    <2>1. k + 1 \in Int OBVIOUS
    <2> QED BY <1>1, <1>3, <2>1 DEF ForksRec
<1>5. c \in Pids /\ c # Root /\ procs[c].state = "zombie" BY DEF Zombies, Running
<1>6. /\ procs'[Root].prog = "nforks" /\ procs'[Root].parent = 0 /\ procs'[Root].how = ""
      /\ procs'[Root].pc = "wait" /\ procs'[Root].mem = n /\ procs'[Root].state = procs[Root].state
      /\ \A q \in Pids : q \notin {Root, c} => procs'[q] = procs[q]
      /\ procs'[c].state = "gone"
    <2>1. ProcOK(procs[Root]) /\ procs[Root].fd \in Fds BY RootIsPid DEF ProcsOK, ProcOK
    <2>2. PICK x : x = MoveOf(procs[Root], procs[Root].prog, procs[Root].pc, n, procs[Root].fd)
        OBVIOUS
    <2>3. /\ ProcOK(x) /\ x.prog = procs[Root].prog /\ x.pc = procs[Root].pc /\ x.mem = n
          /\ x.state = procs[Root].state /\ x.parent = procs[Root].parent /\ x.how = procs[Root].how
        BY <2>1, <2>2, MoveIs
    <2>4. x = [procs[Root] EXCEPT !.mem = [m EXCEPT !.i = @ + 1]]
        <3>1. [m EXCEPT !.i = @ + 1] = n BY <1>1, <1>2, <1>3 DEF ForksRec
        <3> QED BY <2>1, <2>2, <3>1 DEF ProcOK, MoveOf
    <2>5. PutTwo(Root, x, c, GoneOf(procs[c]))
        BY <1>5, <2>4, RootIsPid DEF ReapsOne, PutTwo, GoneOf, ProcsOK
    <2>6. /\ procs'[Root] = x /\ procs'[c].state = "gone"
          /\ \A q \in Pids : q \notin {Root, c} => procs'[q] = procs[q]
        BY <1>5, <2>3, <2>5, RootIsPid, TwoSet
    <2> QED BY <1>0, <2>3, <2>6
<1>7. Children' = Children \ {c} /\ c \in Children
    <2>1. \A q \in Pids \ {Root} : q \in Children' <=> q \in Children \ {c} BY <1>6 DEF Children
    <2>2. Children' \subseteq Pids \ {Root} /\ Children \subseteq Pids \ {Root} BY DEF Children
    <2> QED BY <1>5, <2>1, <2>2 DEF Children
<1>8. Cardinality(Children)' = Cardinality(Children) - 1 BY <1>7, ChildrenFinite, FS_RemoveElement
<1>9. ForksAt'
    <2>1. n.i \in 1 .. n.n + 1 /\ Cardinality(Children)' = n.n - n.i + 1
        BY <1>1, <1>2, <1>4, <1>8
    <2> QED BY <1>4, <1>6, <2>1 DEF ForksAt
<1>10. Told'
    <2>1. PICK e : e = Terminated(c) OBVIOUS
    <2>2. OneLonger(screen', screen, e) BY <1>0, <2>1, OneMore DEF Told
    <2>3. /\ IsSeq(screen') /\ Len(screen') \in DOMAIN screen' /\ screen'[Len(screen')] = e
          /\ \A i \in DOMAIN screen' :
                (i \in DOMAIN screen /\ screen'[i] = screen[i]) \/ i = Len(screen')
        BY <2>2 DEF OneLonger
    <2>4. \A i \in DOMAIN screen : i \in DOMAIN screen' /\ screen'[i] = screen[i]
        BY <2>2 DEF OneLonger
    <2>5. \A q : Waited(q)' <=> Waited(q) \/ q = c BY <1>5, <1>6 DEF Waited
    <2>6. ~ Waited(c) BY <1>5 DEF Waited
    <2>7. \A q : Terminated(q) = Terminated(c) => q = c BY DEF Terminated
    <2>8. \A i \in DOMAIN screen : screen[i] # e BY <1>0, <2>1, <2>6, <2>7 DEF Told
    <2>9. ASSUME NEW i \in DOMAIN screen' PROVE \E q : Waited(q)' /\ screen'[i] = Terminated(q)
        <3>1. CASE i = Len(screen') BY <2>1, <2>3, <2>5, <3>1
        <3>2. CASE i \in DOMAIN screen /\ screen'[i] = screen[i]
            <4>1. PICK q : Waited(q) /\ screen[i] = Terminated(q) BY <1>0, <3>2 DEF Told
            <4> QED BY ONLY <2>5, <3>2, <4>1
        <3> QED BY <2>3, <3>1, <3>2
    <2>10. ASSUME NEW i \in DOMAIN screen', NEW j \in DOMAIN screen', screen'[i] = screen'[j]
           PROVE  i = j
        <3>1. CASE i \in DOMAIN screen /\ j \in DOMAIN screen
            <4>1. screen[i] = screen[j] BY <2>4, <2>10, <3>1
            <4> QED BY <1>0, <3>1, <4>1 DEF Told
        <3>2. i \in DOMAIN screen => screen'[i] # e BY <2>4, <2>8
        <3>3. j \in DOMAIN screen => screen'[j] # e BY <2>4, <2>8
        <3> QED BY <2>3, <2>10, <3>1, <3>2, <3>3
    <2>11. ASSUME NEW q, Waited(q)' PROVE \E i \in DOMAIN screen' : screen'[i] = Terminated(q)
        <3>1. CASE q = c BY <2>1, <2>3, <3>1
        <3>2. CASE Waited(q)
            <4>1. PICK i \in DOMAIN screen : screen[i] = Terminated(q) BY <1>0, <3>2 DEF Told
            <4> QED BY ONLY <2>4, <4>1
        <3> QED BY <2>5, <2>11, <3>1, <3>2
    <2>12. \A i \in DOMAIN screen' : \E q : Waited(q)' /\ screen'[i] = Terminated(q) BY <2>9
    <2>13. \A i, j \in DOMAIN screen' : screen'[i] = screen'[j] => i = j BY <2>10
    <2>14. \A q : Waited(q)' => \E i \in DOMAIN screen' : screen'[i] = Terminated(q) BY <2>11
    <2>15. \A q : Terminated(q)' = Terminated(q) BY DEF Terminated
    <2> QED BY ONLY <2>3, <2>12, <2>13, <2>14, <2>15 DEF Told
<1>11. ASSUME NEW q \in Pids \ {Root} PROVE ChildOK(q)'
    <2>1. CASE q = c BY <1>6, <1>7, <2>1 DEF ChildOK, Running
    <2>2. CASE q # c
        <3>1. procs'[q] = procs[q] /\ (q \in Children' => q \in Children) BY <1>6, <1>7, <2>2
        <3>2. ChildOK(q) BY DEF ForksInv
        <3> QED BY <3>1, <3>2 DEF ChildOK, Running
    <2> QED BY <2>1, <2>2
<1>12. Running(Root)' BY <1>6 DEF Running
<1> QED BY <1>6, <1>9, <1>10, <1>11, <1>12 DEF ForksInv

LEMMA ForksWaits ==
    ASSUME ForksInv, ProcsOK, program = "nforks", program' = program,
           NEW p \in Pids, NforksWait(p)
    PROVE  ForksInv'
<1>1. Running(p) /\ procs[p].prog = "nforks" /\ procs[p].pc = "wait" BY DEF NforksWait, At
<1>2. p = Root /\ ForksAt BY <1>1, AtForks
<1> PICK m : m = procs[Root].mem OBVIOUS
<1>3. m \in ForksRec /\ m.i \in 1 .. m.n + 1 /\ Cardinality(Children) = m.n - m.i + 1
      /\ m.n \in Int /\ m.i \in Int
    BY <1>1, <1>2 DEF ForksAt, ForksRec
<1>4. CASE m.i > m.n /\ Exit(Root, "exited") /\ UNCHANGED screen
    <2>1. PICK how : how = "exited" OBVIOUS
    <2>2. how \in Hows /\ Exit(Root, how) BY <1>4, <2>1 DEF Hows
    <2>3. Children = {} BY <1>3, <1>4, ChildrenFinite
    <2> QED BY <1>1, <1>2, <1>4, <2>1, <2>2, <2>3, ForksEnds
<1>5. ASSUME m.i <= m.n, NEW c \in Zombies(Root), Shows(<<<<"terminated", c>>>>),
             procs' = [procs EXCEPT ![c].state = "gone", ![Root].mem.i = @ + 1]
      PROVE  ForksInv'
    <2>1. Shows(<<Terminated(c)>>) /\ ReapsOne(c) BY <1>5 DEF Terminated, ReapsOne
    <2> QED BY <1>1, <1>2, <1>5, <2>1, ForksReap
<1> QED BY <1>2, <1>4, <1>5 DEF NforksWait, LastWait

LEMMA ForksUnchanged ==
    ASSUME ForksInv, program' = program, UNCHANGED <<procs, screen>> PROVE ForksInv'
<1>1. Children' = Children BY DEF Children
<1>2. Told' <=> Told BY DEF Told, Waited, Terminated, IsSeq
<1>3. ForksAt' <=> ForksAt BY <1>1 DEF ForksAt
<1>4. \A c : ChildOK(c)' <=> ChildOK(c) BY <1>1 DEF ChildOK, Running
<1> QED BY <1>1, <1>2, <1>3, <1>4 DEF ForksInv, Running

LEMMA ForksNext == ASSUME ProcInv, ForksInv, [Next]_vars PROVE ForksInv'
<1> SUFFICES ASSUME program = "nforks" PROVE ForksInv' BY ProgramStays DEF ForksInv
<1>0. ProcsOK /\ UnixOK /\ procs[Root].prog = "nforks" BY DEF ProcInv, UnixOK, ForksInv
<1>1. /\ program' = program
      /\ \/ \E p \in Pids : Running(p) /\ (NforksStep(p) \/ WaiterStep(p))
         \/ \E c \in Pids : Disturb(c)
         \/ UNCHANGED <<procs, screen>>
    BY <1>0, ForkersOnly
<1>2. \A c \in Pids : ~ Disturb(c) BY <1>0 DEF Disturb, Waiters
<1>3. ASSUME NEW p \in Pids, Running(p), NforksStep(p) \/ WaiterStep(p) PROVE ForksInv'
    <2>1. procs[p].prog \in {"nforks", "randomsleep"} BY <1>0, <1>3 DEF ForksInv, ChildOK
    <2>2. ~ WaiterStep(p) BY <1>0, <2>1, WaiterFine DEF Fine, Waiters
    <2>3. CASE NforksExec(p)
        <3>1. /\ p # Root /\ UNCHANGED screen
              /\ Exit(p, "failed") \/ Exec(p, "randomsleep", "run", <<>>, procs[p].fd)
            BY <1>3, <2>3, AtForks DEF NforksExec, At
        <3>2. CASE Exec(p, "randomsleep", "run", <<>>, procs[p].fd)
            <4>1. procs[p].fd \in Fds BY <1>0, FdOf
            <4>2. Kept(p) /\ procs'[p].prog = "randomsleep" BY <1>0, <3>2, <4>1, ExecIs
            <4> QED BY <1>1, <1>3, <3>1, <4>2, ForksChildExecs
        <3>3. CASE Exit(p, "failed")
            <4>1. "failed" \in Hows BY DEF Hows
            <4> QED BY <1>0, <1>1, <1>3, <3>1, <3>3, <4>1, ForksChildEnds
        <3> QED BY <3>1, <3>2, <3>3
    <2>4. CASE RunsOut(p, "randomsleep", "exited")
        <3>1. procs[p].prog = "randomsleep" /\ UNCHANGED screen /\ Exit(p, "exited")
            BY <2>4 DEF RunsOut, At
        <3>2. p # Root BY <1>0, <3>1
        <3>3. "exited" \in Hows BY DEF Hows
        <3> QED BY <1>0, <1>1, <1>3, <3>1, <3>2, <3>3, ForksChildEnds
    <2> QED BY <1>0, <1>1, <1>3, <2>2, <2>3, <2>4, ForksStarts, ForksForks, ForksGoOn, ForksWaits
            DEF NforksStep
<1> QED BY <1>1, <1>2, <1>3, ForksUnchanged

LEMMA ForksStart == Init => ForksInv
<1> SUFFICES ASSUME Init, program = "nforks" PROVE ForksInv BY DEF ForksInv
<1>1. PICK root \in Roots :
              /\ program = root.prog /\ procs[Root] = root /\ root.parent = 0 /\ root.how = ""
              /\ root.state = "running" /\ screen = <<>> /\ IsSeq(screen)
              /\ \A q \in Pids \ {Root} : procs[q].state = "none"
    BY ForkersStart
<1>2. root.pc = "main" /\ \E argv \in Arguments : root.mem = NforksMem(argv) BY <1>1, AloneRoots
<1>3. PICK argv \in Seq(AnyNumeral) : root.mem = NforksMem(argv) BY <1>2, ForksAssumption
<1>4. root.mem \in ForksRec /\ root.mem.i = 1 BY <1>3 DEF NforksMem, ForksRec
<1>5. Children = {} BY <1>1 DEF Children
<1>6. ForksAt BY <1>1, <1>2, <1>4, <1>5, FS_EmptySet DEF ForksAt
<1>7. Told
    <2>1. \A i \in DOMAIN <<>> : FALSE OBVIOUS
    <2>2. \A c : ~ Waited(c) BY <1>1 DEF Waited
    <2> QED BY <1>1, <2>1, <2>2 DEF Told
<1>8. \A c \in Pids \ {Root} : ChildOK(c) BY <1>1, <1>5 DEF ChildOK, Running
<1>9. Running(Root) BY <1>1 DEF Running
<1> QED BY <1>1, <1>5, <1>6, <1>7, <1>8, <1>9 DEF ForksInv

\* Each gone child was told of once, and nobody else.
LEMMA ToldOnce ==
    ASSUME Told, NEW c \in Pids \ {Root}
    PROVE  Cardinality({i \in DOMAIN screen : screen[i] = <<"terminated", c>>}) =
               IF procs[c].state = "gone" THEN 1 ELSE 0
<1> PICK S : S = {i \in DOMAIN screen : screen[i] = Terminated(c)} OBVIOUS
<1>1. CASE procs[c].state = "gone"
    <2>1. PICK i \in DOMAIN screen : screen[i] = Terminated(c) BY <1>1 DEF Told, Waited
    <2>2. S = {i} BY <2>1 DEF Told
    <2>3. Cardinality(S) = 1 BY <2>2, FS_Singleton
    <2> QED BY <1>1, <2>3 DEF Terminated
<1>2. CASE procs[c].state # "gone"
    <2>1. ~ Waited(c) BY <1>2 DEF Waited
    <2>2. \A q : Terminated(q) = Terminated(c) => q = c BY DEF Terminated
    <2>3. S = {} BY <2>1, <2>2 DEF Told
    <2>4. Cardinality(S) = 0 BY <2>3, FS_EmptySet
    <2> QED BY <1>2, <2>4 DEF Terminated
<1> QED BY <1>1, <1>2

\* A parent that ends well has waited for each of its children, nforks of all and
\* forkexec and forkwithfile of the one they have.  At any time nforks has told of
\* the children it waited for, each once, and of no other, and of none when a fork
\* failed; what the others tell before the end is that the child was stopped or
\* continued.
THEOREM ChildrenReport == Spec => []ChildrenReported
<1>1. ProcInv /\ WaitInv /\ ForksInv => ChildrenReported
    <2> SUFFICES ASSUME ProcInv, WaitInv, ForksInv PROVE ChildrenReported OBVIOUS
    <2>1. ASSUME program = "nforks", procs[Root].how = "exited"
          PROVE  \A c \in Pids : procs[c].state \in {"none", "gone"}
        <3>1. ~ Running(Root) /\ Children = {} /\ procs[Root].state # "zombie" BY <2>1 DEF ForksInv
        <3>2. \A c \in Pids : procs[c].state \in States BY DEF ProcInv, UnixOK, ProcsOK, ProcOK
        <3>3. \A c \in Pids \ {Root} : procs[c].state \in {"none", "gone"}
            BY <3>1, <3>2 DEF Children, States
        <3>4. procs[Root].state \in {"none", "gone"} BY <2>1, <3>1, <3>2, RootIsPid DEF States, Running
        <3> QED BY <3>3, <3>4
    <2>3. ASSUME program = "nforks", NEW c \in Pids \ {Root}
          PROVE  Cardinality({i \in DOMAIN screen : screen[i] = <<"terminated", c>>}) =
                     IF procs[c].state = "gone" /\ procs[Root].how # "failed" THEN 1 ELSE 0
        <3>1. CASE Told /\ procs[Root].how # "failed" BY <3>1, ToldOnce
        <3>2. CASE screen = <<>> /\ procs[Root].how = "failed"
            <4>1. {i \in DOMAIN screen : screen[i] = <<"terminated", c>>} = {} BY <3>2
            <4> QED BY <3>2, <4>1, FS_EmptySet
        <3>3. CASE Running(Root) \/ procs[Root].how = "exited"
            <4>1. Told /\ procs[Root].how # "failed" BY <2>3, <3>3 DEF ForksInv
            <4> QED BY <3>1, <4>1
        <3>4. CASE ~ Running(Root) /\ procs[Root].how # "exited" BY <2>3, <3>2, <3>4 DEF ForksInv
        <3> QED BY <3>3, <3>4
    <2>2. ASSUME program \in Waiters
          PROVE  /\ procs[Root].how = "exited" =>
                       LET c == procs[Root].mem.pid
                       IN  /\ procs[c].state = "gone"
                           /\ screen # <<>> /\ screen[Len(screen)] = <<procs[c].how, c>>
                 /\ \A i \in DOMAIN screen : i < Len(screen) => screen[i][1] \in {"stopped", "continued"}
        BY <2>2 DEF WaitInv, LastTold, TheChild, Tells
    <2> QED BY <2>1, <2>2, <2>3 DEF ChildrenReported
<1>2. ProcInv /\ WaitInv /\ [Next]_vars => WaitInv' BY WaitNext
<1>3. ProcInv /\ ForksInv /\ [Next]_vars => ForksInv' BY ForksNext
<1> QED BY <1>1, <1>2, <1>3, WaitStart, ForksStart, ProcInvariant, PTL DEF Spec
=============================================================================
