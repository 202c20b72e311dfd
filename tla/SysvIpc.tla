------------------------------ MODULE SysvIpc ------------------------------
(***************************************************************************)
(* System V semaphores and shared memory, as mpsumarray/semaphore.c and    *)
(* its two callers use them.  Every run of a program in one directory      *)
(* computes the same key, ftok("./", 'a'), so there is one key here.       *)
(* Identifier 0 of either kind belongs to some other program.  The kernel  *)
(* does not use an identifier twice.                                       *)
(***************************************************************************)
EXTENDS Integers, FiniteSets

CONSTANTS
    Mains,              \* the runs of the program, each with its parent process
    Numbers,            \* the numbers of the children that a parent forks
    MaxId               \* bound: the identifiers the kernel gives out

Children == Mains \X Numbers
Procs    == Mains \cup Children
Ids      == 0 .. MaxId

ASSUME SysvIpcAssumption ==
    /\ Mains \cap Children = {}
    /\ IsFiniteSet(Mains) /\ IsFiniteSet(Numbers)
    /\ MaxId \in Nat /\ MaxId >= Cardinality(Mains)

ChildrenOf(m) == {m} \X Numbers
Parent(c)     == c[1]

VARIABLES
    sems,               \* id -> [status, val, adj], adj: what exit will undo
    semOfKey,           \* the semaphore the key finds, or NoId
    shms,               \* id -> [status, word, attached]
    shmOfKey            \* the segment the key finds, or NoId

ipcVars == <<sems, semOfKey, shms, shmOfKey>>

NoId == -1
Status == {"unused", "live", "removed"}

NoUndo == [p \in Procs |-> 0]

IpcInit ==
    /\ sems = [id \in Ids |-> [status |-> IF id = 0 THEN "live" ELSE "unused",
                               val |-> 0, adj |-> NoUndo]]
    /\ shms = [id \in Ids |-> [status |-> IF id = 0 THEN "live" ELSE "unused",
                               word |-> 0, attached |-> {}]]
    /\ semOfKey = NoId
    /\ shmOfKey = NoId

Live(objects) == {id \in DOMAIN objects : objects[id].status = "live"}
Fresh(objects) ==
    CHOOSE id \in DOMAIN objects :
        /\ objects[id].status = "unused"
        /\ \A j \in DOMAIN objects : objects[j].status = "unused" => id <= j

(***************************************************************************)
(* semaphore.c.                                                            *)
(***************************************************************************)
SemIdOfKey == IF semOfKey = NoId THEN Fresh(sems) ELSE semOfKey

create_semaphore ==
    /\ sems' = [sems EXCEPT ![SemIdOfKey].status = "live"]
    /\ semOfKey' = SemIdOfKey

\* SETVAL also forgets what the processes would undo.
set_sem_value(id, val) ==
    /\ id \in Live(sems)
    /\ sems' = [sems EXCEPT ![id].val = val, ![id].adj = NoUndo]
    /\ UNCHANGED semOfKey

\* IPC_RMID fails when there is no such semaphore.
del_sem_value(id) ==
    /\ id \in Live(sems)
    /\ sems' = [sems EXCEPT ![id].status = "removed"]
    /\ semOfKey' = IF semOfKey = id THEN NoId ELSE semOfKey

\* P waits for a positive value, and fails when the semaphore is removed
\* before or meanwhile.  Both operations carry SEM_UNDO.
P_WithoutUndo(p, id) ==
    /\ UNCHANGED semOfKey
    /\ IF id \in Live(sems)
       THEN /\ sems[id].val > 0
            /\ sems' = [sems EXCEPT ![id].val = @ - 1]
       ELSE UNCHANGED sems

P_WithoutWaiting(p, id) == UNCHANGED <<sems, semOfKey>>

P_Below(p, id) ==
    /\ UNCHANGED semOfKey
    /\ sems' = [sems EXCEPT ![id].val = @ - 1, ![id].adj[p] = @ + 1]

P(p, id) ==
    /\ UNCHANGED semOfKey
    /\ IF id \in Live(sems)
       THEN /\ sems[id].val > 0
            /\ sems' = [sems EXCEPT ![id].val = @ - 1, ![id].adj[p] = @ + 1]
       ELSE UNCHANGED sems

V(p, id) ==
    /\ UNCHANGED semOfKey
    /\ IF id \in Live(sems)
       THEN sems' = [sems EXCEPT ![id].val = @ + 1, ![id].adj[p] = @ - 1]
       ELSE UNCHANGED sems

(***************************************************************************)
(* Shared memory.                                                          *)
(***************************************************************************)
ShmIdOfKey == IF shmOfKey = NoId THEN Fresh(shms) ELSE shmOfKey

shmget ==
    /\ shms' = [shms EXCEPT ![ShmIdOfKey].status = "live"]
    /\ shmOfKey' = ShmIdOfKey

Attach(p, id)  == shms' = [shms EXCEPT ![id].attached = @ \cup {p}]
Detach(p, id)  == shms' = [shms EXCEPT ![id].attached = @ \ {p}]
Write(id, val) == shms' = [shms EXCEPT ![id].word = val]

\* The processes that are attached keep the segment.
shm_remove(id) ==
    /\ id \in Live(shms)
    /\ shms' = [shms EXCEPT ![id].status = "removed"]
    /\ shmOfKey' = IF shmOfKey = id THEN NoId ELSE shmOfKey

(***************************************************************************)
(* The end of process p: what it did to the semaphores is undone, and it   *)
(* is attached to nothing.                                                 *)
(***************************************************************************)
Positive(n) == IF n < 0 THEN 0 ELSE n

Exits(p) ==
    /\ sems' = [id \in Ids |-> [sems[id] EXCEPT !.val = Positive(@ + sems[id].adj[p]),
                                                !.adj[p] = 0]]
    /\ shms' = [id \in Ids |-> [shms[id] EXCEPT !.attached = @ \ {p}]]
    /\ UNCHANGED <<semOfKey, shmOfKey>>
=============================================================================
