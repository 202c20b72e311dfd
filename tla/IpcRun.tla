------------------------------ MODULE IpcRun ------------------------------
(***************************************************************************)
(* What mpsumarray/mpsumarray.c and sharedmem/sleepingprocesses.c have in  *)
(* common: the parent sets up a semaphore and a shared integer and removes *)
(* them at the label EXIT, and processes change the integer between P and  *)
(* V.  A process is at its next call:                                      *)
(*   parent  semget, setval, shmget, shmat, zero, fork, wait, shmdt,       *)
(*           shmrm, semrm, returned                                        *)
(*   child   unborn, start, zombie, reaped                                 *)
(*   both    P, load, store, V, exit, killed                               *)
(* Changing the integer is a load and a store.                             *)
(***************************************************************************)
EXTENDS SysvIpc, Sequences

CONSTANT MaxKills       \* bound: processes killed from outside

ASSUME IpcRunAssumption ==
    /\ Numbers = 1 .. Cardinality(Numbers)
    /\ MaxKills \in Nat

VARIABLES
    pc,
    semid,              \* parent -> the global semid
    shmid,              \* parent -> the local shmid
    shm,                \* parent -> unset, failed or attached
    loaded,             \* process -> the shared integer as it loaded it
    retval,
    shown,              \* parent -> <<>>, or what it printed of the integer
    kills               \* how many processes were killed

runVars == <<semid, shmid, shm, retval, shown>>

Locations == {"ftok", "semget", "setval", "shmget", "shmat", "zero", "fork", "wait",
              "shmdt", "shmrm", "semrm", "returned", "unborn", "start", "zombie",
              "reaped", "P", "load", "store", "V", "exit", "killed"}
Gone == {"unborn", "zombie", "reaped", "returned", "killed"}

Run(p) == IF p \in Mains THEN p ELSE Parent(p)

\* semid is 0, the initial value of a global; shmid is not initialised, and
\* the gotos before shmget leave it so.
RunInit ==
    /\ IpcInit
    /\ pc = [p \in Procs |-> IF p \in Mains THEN "ftok" ELSE "unborn"]
    /\ semid = [m \in Mains |-> 0]
    /\ shmid \in [Mains -> Ids \cup {NoId}]
    /\ shm = [m \in Mains |-> "unset"]
    /\ loaded = [p \in Procs |-> 0]
    /\ retval = [m \in Mains |-> 0]
    /\ shown = [m \in Mains |-> <<>>]
    /\ kills = 0

Goto(p, where) == pc' = [pc EXCEPT ![p] = where]

\* retval = EXIT_FAILURE, and on to `where'.
Fails(m, where) ==
    /\ Goto(m, where)
    /\ retval' = [retval EXCEPT ![m] = 1]

(***************************************************************************)
(* Set-up.  `onError' is where the program goes when it has nothing yet.   *)
(***************************************************************************)
Ftok(m, onError) ==
    /\ pc[m] = "ftok"
    /\ \/ Goto(m, "semget") /\ UNCHANGED retval
       \/ Fails(m, onError)
    /\ UNCHANGED <<ipcVars, semid, shmid, shm, loaded, shown>>

Semget(m, onError) ==
    /\ pc[m] = "semget"
    /\ \/ /\ create_semaphore
          /\ semid' = [semid EXCEPT ![m] = SemIdOfKey]
          /\ Goto(m, "setval")
          /\ UNCHANGED retval
       \/ /\ semid' = [semid EXCEPT ![m] = NoId]
          /\ Fails(m, onError)
          /\ UNCHANGED <<sems, semOfKey>>
    /\ UNCHANGED <<shms, shmOfKey, shmid, shm, loaded, shown>>

InitialValue_Two == 2
InitialValue == 1

Setval(m) ==
    /\ pc[m] = "setval"
    /\ \/ /\ set_sem_value(semid[m], InitialValue)
          /\ Goto(m, "shmget")
          /\ UNCHANGED retval
       \/ Fails(m, "shmdt") /\ UNCHANGED <<sems, semOfKey>>
    /\ UNCHANGED <<shms, shmOfKey, semid, shmid, shm, loaded, shown>>

Shmget(m) ==
    /\ pc[m] = "shmget"
    /\ \/ /\ shmget
          /\ shmid' = [shmid EXCEPT ![m] = ShmIdOfKey]
          /\ Goto(m, "shmat")
          /\ UNCHANGED retval
       \/ /\ shmid' = [shmid EXCEPT ![m] = NoId]
          /\ Fails(m, "shmdt")
          /\ UNCHANGED <<shms, shmOfKey>>
    /\ UNCHANGED <<sems, semOfKey, semid, shm, loaded, shown>>

Shmat(m) ==
    /\ pc[m] = "shmat"
    /\ \/ /\ shmid[m] \in Live(shms)
          /\ Attach(m, shmid[m])
          /\ shm' = [shm EXCEPT ![m] = "attached"]
          /\ Goto(m, "zero")
          /\ UNCHANGED retval
       \/ /\ shm' = [shm EXCEPT ![m] = "failed"]
          /\ Fails(m, "shmdt")
          /\ UNCHANGED shms
    /\ UNCHANGED <<sems, semOfKey, shmOfKey, semid, shmid, loaded, shown>>

Zero(m) ==
    /\ pc[m] = "zero"
    /\ Write(shmid[m], 0)
    /\ Goto(m, "fork")
    /\ UNCHANGED <<sems, semOfKey, shmOfKey, runVars, loaded>>

SetUp(m, onError) ==
    Ftok(m, onError) \/ Semget(m, onError) \/ Setval(m) \/ Shmget(m) \/ Shmat(m) \/ Zero(m)

(***************************************************************************)
(* EXIT.  An shm that was never set fails to detach, unless it is -1.      *)
(***************************************************************************)
Shmdt(m) ==
    /\ pc[m] = "shmdt"
    /\ Goto(m, "shmrm")
    /\ CASE shm[m] = "attached" -> Detach(m, shmid[m]) /\ UNCHANGED retval
         [] shm[m] = "failed"   -> UNCHANGED <<shms, retval>>
         [] shm[m] = "unset"    -> UNCHANGED shms /\ retval' \in {retval, [retval EXCEPT ![m] = 1]}
    /\ UNCHANGED <<sems, semOfKey, shmOfKey, semid, shmid, shm, loaded, shown>>

MayFreeShm_IfAttached(m) == shm[m] = "attached"
MayFreeShm(m) == shmid[m] # NoId

Shmrm(m) ==
    /\ pc[m] = "shmrm"
    /\ Goto(m, "semrm")
    /\ \/ /\ MayFreeShm(m)
          /\ shm_remove(shmid[m])
          /\ UNCHANGED retval
       \/ /\ MayFreeShm(m)
          /\ shmid[m] \notin Live(shms)
          /\ retval' = [retval EXCEPT ![m] = 1]
          /\ UNCHANGED <<shms, shmOfKey>>
       \/ ~ MayFreeShm(m) /\ UNCHANGED <<shms, shmOfKey, retval>>
    /\ UNCHANGED <<sems, semOfKey, semid, shmid, shm, loaded, shown>>

Semrm(m) ==
    /\ pc[m] = "semrm"
    /\ Goto(m, "returned")
    /\ \/ /\ semid[m] # NoId
          /\ del_sem_value(semid[m])
          /\ UNCHANGED retval
       \/ /\ semid[m] # NoId
          /\ semid[m] \notin Live(sems)
          /\ retval' = [retval EXCEPT ![m] = 1]
          /\ UNCHANGED <<sems, semOfKey>>
       \/ semid[m] = NoId /\ UNCHANGED <<sems, semOfKey, retval>>
    /\ UNCHANGED <<shms, shmOfKey, semid, shmid, shm, loaded, shown>>

CleanUp(m) == Shmdt(m) \/ Shmrm(m) \/ Semrm(m)

(***************************************************************************)
(* P, a change of the shared integer, V.  What P and V return is ignored.  *)
(***************************************************************************)
Down(p) ==
    /\ pc[p] = "P"
    /\ P(p, semid[Run(p)])
    /\ Goto(p, "load")
    /\ UNCHANGED <<shms, shmOfKey, runVars, loaded>>

Load(p) ==
    /\ pc[p] = "load"
    /\ loaded' = [loaded EXCEPT ![p] = shms[shmid[Run(p)]].word]
    /\ Goto(p, "store")
    /\ UNCHANGED <<ipcVars, runVars>>

StoreSum(p, change) ==
    /\ pc[p] = "store"
    /\ Write(shmid[Run(p)], loaded[p] + change)
    /\ Goto(p, "V")
    /\ UNCHANGED <<sems, semOfKey, shmOfKey, runVars, loaded>>

Up(p, where) ==
    /\ pc[p] = "V"
    /\ V(p, semid[Run(p)])
    /\ Goto(p, where)
    /\ UNCHANGED <<shms, shmOfKey, runVars, loaded>>

(***************************************************************************)
(* The end of a process: of a child by itself, of any by CTRL+C or kill.   *)
(***************************************************************************)
Exit(c) ==
    /\ pc[c] = "exit"
    /\ Exits(c)
    /\ Goto(c, "zombie")
    /\ UNCHANGED <<runVars, loaded>>

Kill(p) ==
    /\ pc[p] \notin Gone
    /\ kills < MaxKills
    /\ kills' = kills + 1
    /\ Exits(p)
    /\ Goto(p, IF p \in Mains THEN "killed" ELSE "zombie")
    /\ UNCHANGED <<runVars, loaded>>

\* wait(NULL) returns one of the children.  It does not fail: a child is
\* left, and no signal is caught.
Reap(m) ==
    /\ pc[m] = "wait"
    /\ \E c \in ChildrenOf(m) : pc[c] = "zombie" /\ Goto(c, "reaped")
    /\ UNCHANGED <<ipcVars, runVars, loaded>>

\* Every child that was started has been waited for.
Waited_OneLess(m) ==
    Cardinality({c \in ChildrenOf(m) : pc[c] \notin {"unborn", "reaped"}}) <= 1
Waited(m) == \A c \in ChildrenOf(m) : pc[c] \in {"unborn", "reaped"}

\* The parent prints what the shared integer says.
Report(m) ==
    /\ pc[m] = "wait"
    /\ Waited(m)
    /\ shown' = [shown EXCEPT ![m] = <<shms[shmid[m]].word>>]
    /\ Goto(m, "shmdt")
    /\ UNCHANGED <<ipcVars, semid, shmid, shm, retval, loaded>>

(***************************************************************************)
(* Properties of both programs.                                            *)
(***************************************************************************)
RunTypeOK ==
    /\ sems \in [Ids -> [status : Status, val : Nat, adj : [Procs -> Int]]]
    /\ shms \in [Ids -> [status : Status, word : Int, attached : SUBSET Procs]]
    /\ {semOfKey, shmOfKey} \subseteq Ids \cup {NoId}
    /\ pc \in [Procs -> Locations]
    /\ semid \in [Mains -> Ids \cup {NoId}]
    /\ shmid \in [Mains -> Ids \cup {NoId}]
    /\ shm \in [Mains -> {"unset", "failed", "attached"}]
    /\ loaded \in [Procs -> Int]
    /\ retval \in [Mains -> {0, 1}]
    /\ shown \in [Mains -> Seq(Int)]
    /\ kills \in 0 .. MaxKills

\* "increment the global variable after ensuring mutual exclusion"
\* (mpsumarray.c 43-44): no two processes are between P and V on the same
\* integer, although what P returns is ignored, a holder may be killed, and a
\* parent may remove the semaphore while a child still runs.
Critical == {p \in Procs : pc[p] \in {"load", "store", "V"}}

MutualExclusion ==
    \A p, q \in Critical : shmid[Run(p)] = shmid[Run(q)] => p = q

\* A parent that returns leaves no semaphore and no segment behind, whichever
\* call failed (mpsumarray.c 173-194, sleepingprocesses.c 171-184).
IpcFreed ==
    \A m \in Mains :
        pc[m] = "returned" => Live(sems) \cup Live(shms) \subseteq {0}

\* Every process ends, even when one is killed while it holds the semaphore:
\* SEM_UNDO, "Have OS 'tidy up' semaphores when process exits"
\* (semaphore.c 70-71).
Termination == <>[](\A p \in Procs : pc[p] \in Gone)
=============================================================================
