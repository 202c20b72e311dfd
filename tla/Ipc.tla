-------------------------------- MODULE Ipc --------------------------------
(***************************************************************************)
(* Runs of the two programs that use semaphore.c.  The key is computed     *)
(* from the current directory, so all runs in one directory meet,          *)
(* whichever program they are runs of.                                     *)
(***************************************************************************)
EXTENDS SharedSum, Sleepers

VARIABLE program        \* parent -> the program it runs

vars == <<ipcVars, runVars, pc, loaded, kills, sumVars, sleepVars, program>>

Init ==
    /\ RunInit /\ SumInit /\ SleepInit
    /\ program \in [Mains -> {"mpsumarray", "sleepingprocesses"}]

MainSteps(m) ==
    /\ \/ program[m] = "mpsumarray" /\ SumMain(m) /\ UNCHANGED sleepVars
       \/ program[m] = "sleepingprocesses" /\ SleepMain(m) /\ UNCHANGED sumVars
    /\ UNCHANGED <<kills, program>>

ChildSteps(c) ==
    /\ \/ program[Parent(c)] = "mpsumarray" /\ SumChild(c) /\ UNCHANGED sleepVars
       \/ program[Parent(c)] = "sleepingprocesses" /\ SleepChild(c) /\ UNCHANGED sumVars
    /\ UNCHANGED <<kills, program>>

Next ==
    \/ \E m \in Mains : MainSteps(m)
    \/ \E c \in Children : ChildSteps(c)
    \/ \E p \in Procs : Kill(p) /\ UNCHANGED <<sumVars, sleepVars, program>>

Spec == Init /\ [][Next]_vars

\* Every process that can run is scheduled.
FairSpec ==
    /\ Spec
    /\ \A m \in Mains : WF_vars(MainSteps(m))
    /\ \A c \in Children : WF_vars(ChildSteps(c))

(***************************************************************************)
(* Properties.                                                             *)
(***************************************************************************)

\* Types.  The semaphore is never negative; the shared integer may be, while a
\* sleeper has been counted down and not yet up.
TypeOK ==
    /\ RunTypeOK /\ SumTypeOK /\ SleepTypeOK
    /\ program \in [Mains -> {"mpsumarray", "sleepingprocesses"}]

\* While the parent forks and waits, the shared integer is what the processes
\* stored: the elements of the children that added their share
\* (mpsumarray.c 52-54), or the children counted up less those counted down
\* (sleepingprocesses.c 86-88 and 148-150).  No change is lost or done twice,
\* in whatever order, even when a process is killed between load and store.
WordAddsUp ==
    \A m \in Mains :
        pc[m] \in {"fork", "P", "load", "store", "V", "wait"} =>
            shms[shmid[m]].word =
                IF program[m] = "mpsumarray"
                THEN SumOf(UNION {Share(c) : c \in stored \cap ChildrenOf(m)})
                ELSE Cardinality(up \cap ChildrenOf(m)) - Cardinality(down \cap ChildrenOf(m))

\* The sum "with multiprocessing" is the sum "without" (166-171), when nobody
\* was killed: a child that was killed is reaped like any other.
PrintedSum ==
    \A m \in Mains :
        program[m] = "mpsumarray" /\ shown[m] # <<>> /\ kills = 0 =>
            shown[m] = <<SumOf(DOMAIN Array)>>

\* What the parent of the sleepers reports once every child was waited for
\* (163-169) is the number of the children that were killed in their sleep: 0,
\* "All children are done sleeping", when none was.
ReportExact ==
    \A m \in Mains :
        program[m] = "sleepingprocesses" /\ shown[m] # <<>> =>
            shown[m] = <<Cardinality({c \in ChildrenOf(m) :
                                        pc[c] = "reaped" /\ c \notin down})>>
=============================================================================
