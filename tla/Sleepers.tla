----------------------------- MODULE Sleepers -----------------------------
(***************************************************************************)
(* sharedmem/sleepingprocesses.c: the parent counts each child it started  *)
(* up in the shared integer, and each child that has slept counts itself   *)
(* down.  A child may be done before the parent counted it.                *)
(***************************************************************************)
EXTENDS IpcRun

VARIABLES
    i,                  \* parent -> the child to fork next (line 138)
    up, down            \* history: the children counted up, and down

sleepVars == <<i, up, down>>

SleepInit ==
    /\ i = [m \in Mains |-> 1]
    /\ up = {}
    /\ down = {}

AfterFork_OneMore(n) == IF n <= Cardinality(Numbers) THEN "fork" ELSE "wait"
AfterFork(n) == IF n < Cardinality(Numbers) THEN "fork" ELSE "wait"
Latest(m)    == <<m, i[m] - 1>>

\* When fork fails the program goes on with the next.
ForkSleeper(m) ==
    /\ pc[m] = "fork"
    /\ i' = [i EXCEPT ![m] = @ + 1]
    /\ LET c == <<m, i[m]>>
       IN  \/ /\ pc' = [pc EXCEPT ![c] = "start", ![m] = "P"]
              /\ Attach(c, shmid[m])
           \/ Goto(m, AfterFork(i[m])) /\ UNCHANGED shms
    /\ UNCHANGED <<sems, semOfKey, shmOfKey, runVars, loaded, up, down>>

CountUp(m) ==
    /\ StoreSum(m, 1)
    /\ up' = up \cup {Latest(m)}
    /\ UNCHANGED <<i, down>>

\* random_sleep.
Sleep(c) ==
    /\ pc[c] = "start"
    /\ Goto(c, "P")
    /\ UNCHANGED <<ipcVars, runVars, loaded>>

CountDown(c) ==
    /\ StoreSum(c, -1)
    /\ down' = down \cup {c}
    /\ UNCHANGED <<i, up>>

\* Without the key or the semaphore the program returns at once.
SleepMain(m) ==
    \/ ForkSleeper(m) \/ CountUp(m)
    \/ /\ \/ SetUp(m, "returned") \/ Reap(m) \/ Report(m) \/ CleanUp(m)
          \/ Down(m) \/ Load(m) \/ Up(m, AfterFork(i[m] - 1))
       /\ UNCHANGED sleepVars

SleepChild(c) ==
    \/ CountDown(c)
    \/ (Sleep(c) \/ Down(c) \/ Load(c) \/ Up(c, "exit") \/ Exit(c)) /\ UNCHANGED sleepVars

SleepTypeOK ==
    /\ i \in [Mains -> 1 .. Cardinality(Numbers) + 1]
    /\ up \subseteq Children /\ down \subseteq Children
=============================================================================
