------------------------------- MODULE Forks -------------------------------
(***************************************************************************)
(* lab 7/nforks.c, Fork/forkexec.c, Fork/forkwithfile.c and                *)
(* signalprimes/primestest.c: parents that fork and wait, or do not wait.  *)
(***************************************************************************)
EXTENDS Unix, Numerals

CONSTANT Arguments      \* the command lines: sequences of numerals

ASSUME ForksAssumption == Arguments \subseteq Seq(AnyNumeral)

Usage(p) == Exit(p, "failed")

(***************************************************************************)
(* nforks.                                                                 *)
(***************************************************************************)
NforksMem(argv) == [argv |-> argv, pid |-> 0, n |-> 0, i |-> 1]

NforksStart(p) ==
    /\ At(p, "nforks", "main")
    /\ LET argv == procs[p].mem.argv
       IN  IF Len(argv) # 1 THEN Usage(p)
           ELSE IF is_integer(argv[1]) /\ get_integer(argv[1]) /\ argv[1].val > 0
           THEN Step(p, "fork", [procs[p].mem EXCEPT !.n = argv[1].val])
           ELSE Usage(p)
    /\ UNCHANGED <<pipes, screen, fails, signals>>

\* The children made before a fork that fails are left alone.
NforksFork(p) ==
    /\ At(p, "nforks", "fork")
    /\ IF procs[p].mem.i > procs[p].mem.n
       THEN Step(p, "wait", [procs[p].mem EXCEPT !.i = 1]) /\ UNCHANGED fails
       ELSE \/ Fork(p, "forked", "exec") /\ UNCHANGED fails
            \/ Fails /\ Exit(p, "failed")
    /\ UNCHANGED <<pipes, screen, signals>>

NforksForked(p) ==
    /\ At(p, "nforks", "forked")
    /\ Step(p, "fork", [procs[p].mem EXCEPT !.i = @ + 1])
    /\ UNCHANGED <<pipes, screen, fails, signals>>

NforksExec(p) ==
    /\ At(p, "nforks", "exec")
    /\ \/ Exec(p, "randomsleep", "run", <<>>, procs[p].fd) /\ UNCHANGED fails
       \/ Fails /\ Exit(p, "failed")
    /\ UNCHANGED <<pipes, screen, signals>>

LastWait_OneLess(n) == n - 1
LastWait(n) == n

\* wait has nothing to fail of here: there are as many children as turns.
NforksWait(p) ==
    /\ At(p, "nforks", "wait")
    /\ LET mem == procs[p].mem
       IN
       \/ /\ mem.i <= LastWait(mem.n)
          /\ \E c \in Zombies(p) :
               /\ procs' = [procs EXCEPT ![c].state = "gone", ![p].mem.i = @ + 1]
               /\ Shows(<<<<"terminated", c>>>>)
       \/ mem.i > LastWait(mem.n) /\ Exit(p, "exited") /\ UNCHANGED screen
    /\ UNCHANGED <<pipes, fails, signals>>

RunsOut(p, prog, how) ==
    /\ At(p, prog, "run")
    /\ Exit(p, how)
    /\ UNCHANGED <<pipes, screen, fails, signals>>

NforksStep(p) ==
    \/ NforksStart(p) \/ NforksFork(p) \/ NforksForked(p) \/ NforksExec(p) \/ NforksWait(p)
    \/ RunsOut(p, "randomsleep", "exited")

(***************************************************************************)
(* forkexec and forkwithfile.  The parent waits for one child, whose stops *)
(* and continuations it reports until it has ended.                        *)
(***************************************************************************)
Waiters == {"forkexec", "forkwithfile"}
WaiterMem == [pid |-> 0]

WaiterFork(p, prog) ==
    /\ At(p, prog, "main")
    /\ \/ Fork(p, IF prog = "forkexec" THEN "waitpid" ELSE "open", "child") /\ UNCHANGED fails
       \/ Fails /\ Exit(p, "failed")
    /\ UNCHANGED <<pipes, screen, signals>>

\* The child becomes pfind, of which only the end matters here.
ExecPfind(p) ==
    /\ At(p, "forkexec", "child")
    /\ \/ Exec(p, "pfind of forkexec", "run", <<>>, procs[p].fd) /\ UNCHANGED fails
       \/ Fails /\ Exit(p, "failed")
    /\ UNCHANGED <<pipes, screen, signals>>

\* The child sleeps, and reads the file as its parent does.
ChildReads(p) ==
    /\ At(p, "forkwithfile", "child")
    /\ \/ Exit(p, "exited") /\ UNCHANGED fails
       \/ Fails /\ Exit(p, "failed")
    /\ UNCHANGED <<pipes, screen, signals>>

\* forkwithfile's parent leaves without waiting when it cannot open the file.
ParentOpens(p) ==
    /\ At(p, "forkwithfile", "open")
    /\ \/ Goto(p, "waitpid") /\ UNCHANGED fails
       \/ Fails /\ Exit(p, "failed")
    /\ UNCHANGED <<pipes, screen, signals>>

\* The loop ends with the status of a child that ended.
WaiterWait(p, prog) ==
    /\ At(p, prog, "waitpid")
    /\ LET c == procs[p].mem.pid
       IN
       \/ /\ procs[c].state = "zombie"
          /\ Reap(p, c, "return")
          /\ Shows(<<<<procs[c].how, c>>>>)
       \/ /\ procs[c].state = "running" /\ procs[c].news # ""
          /\ procs' = [procs EXCEPT ![c].news = ""]
          /\ Shows(<<<<procs[c].news, c>>>>)
    /\ UNCHANGED <<pipes, fails, signals>>

WaiterReturns(p, prog) ==
    /\ At(p, prog, "return")
    /\ Exit(p, "exited")
    /\ UNCHANGED <<pipes, screen, fails, signals>>

\* Somebody stops, continues or kills the child.
Disturb(c) ==
    /\ procs[Root].prog \in Waiters /\ c # Root
    /\ procs[c].state = "running"
    /\ \/ StopChild(c)
       \/ ContinueChild(c)
       \/ /\ signals < MaxSignals /\ signals' = signals + 1
          /\ Exit(c, "killed")
          /\ UNCHANGED <<pipes, screen, fails>>

WaiterStep(p) ==
    \/ \E prog \in Waiters : WaiterFork(p, prog) \/ WaiterWait(p, prog) \/ WaiterReturns(p, prog)
    \/ ExecPfind(p) \/ ChildReads(p) \/ ParentOpens(p)
    \/ RunsOut(p, "pfind of forkexec", "exited") \/ RunsOut(p, "pfind of forkexec", "failed")

(***************************************************************************)
(* primestest.  The child looks for primes until the parent, which slept   *)
(* meanwhile, interrupts it.  Its fork is taken to succeed: -1 would make   *)
(* kill interrupt every process of the user.                               *)
(***************************************************************************)
PrimesMem(argv) == [argv |-> argv, pid |-> 0]

PrimesStart(p) ==
    /\ At(p, "primestest", "main")
    /\ IF Len(procs[p].mem.argv) # 1 \/ atoi(procs[p].mem.argv[1]) <= 0
       THEN Usage(p) ELSE Goto(p, "fork")
    /\ UNCHANGED <<pipes, screen, fails, signals>>

PrimesFork(p) ==
    /\ At(p, "primestest", "fork")
    /\ Fork(p, "kill", "primes")
    /\ UNCHANGED <<pipes, screen, fails, signals>>

PrimesKill(p) ==
    /\ At(p, "primestest", "kill")
    /\ procs' = [procs EXCEPT ![p].pc = "return", ![procs[p].mem.pid].int = TRUE]
    /\ UNCHANGED <<pipes, screen, fails, signals>>

PrimesEnd(p) ==
    /\ \/ At(p, "primestest", "return") /\ Exit(p, "exited")
       \/ Running(p) /\ procs[p].prog = "primestest" /\ DiesOf(p)
    /\ UNCHANGED <<pipes, screen, fails, signals>>

PrimesStep(p) == PrimesStart(p) \/ PrimesFork(p) \/ PrimesKill(p) \/ PrimesEnd(p)
=============================================================================
