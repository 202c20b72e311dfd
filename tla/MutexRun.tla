----------------------------- MODULE MutexRun -----------------------------
(***************************************************************************)
(* What mtsieve/mtsieve.c and lab 10/mtsumarray.c have in common: main     *)
(* creates threads one after the other; each computes an amount by itself, *)
(* adds it to the shared total under the mutex, and exits; main joins them *)
(* and prints the total.                                                   *)
(*   main    options, init, create, join, and at the end returned, failed  *)
(*           or crashed                                                    *)
(*   thread  unborn, compute, lock, load, store, unlock, done              *)
(* The addition is a load and a store.                                     *)
(***************************************************************************)
EXTENDS Integers, FiniteSets, Sequences

CONSTANT MaxThreads     \* bound: the threads a run may have

ASSUME MutexRunAssumption == MaxThreads \in Nat \ {0, 1}

Threads == 0 .. MaxThreads - 1

VARIABLES
    main,
    started,            \* how many threads were created
    unmade,             \* a thread could not be created
    pc,
    owner,              \* who holds the mutex
    amount,             \* thread -> what it will add
    loaded,             \* thread -> the total as it loaded it
    total,
    printed             \* <<>>, or the total main printed

runVars == <<main, started, unmade, pc, owner, amount, loaded, total, printed>>
threadVars == <<started, unmade, pc, owner, amount, loaded>>

NoThread == -1
Alive == main \in {"options", "init", "create", "join"}

RunInit ==
    /\ started = 0
    /\ unmade = FALSE
    /\ pc = [k \in Threads |-> "unborn"]
    /\ owner = NoThread
    /\ amount = [k \in Threads |-> 0]
    /\ loaded = [k \in Threads |-> 0]
    /\ total = 0
    /\ printed = <<>>

MutexInit ==
    /\ main = "init"
    /\ main' \in {"create", "failed"}
    /\ UNCHANGED <<threadVars, total, printed>>

\* Thread number `started', the last of n or not.
AfterCreate_OneMore(n) == IF started = n THEN "join" ELSE "create"
AfterCreate(n) == IF started + 1 = n THEN "join" ELSE "create"

Created(n) ==
    /\ main = "create"
    /\ started' = started + 1
    /\ pc' = [pc EXCEPT ![started] = "compute"]
    /\ main' = AfterCreate(n)
    /\ UNCHANGED <<unmade, owner, amount, loaded, total, printed>>

\* pthread_create fails, and main goes to `next'.
NotCreated(next) ==
    /\ main = "create"
    /\ unmade' = TRUE
    /\ main' = next
    /\ UNCHANGED <<started, pc, owner, amount, loaded, total, printed>>

Computed(k, n) ==
    /\ Alive
    /\ pc[k] = "compute"
    /\ amount' = [amount EXCEPT ![k] = n]
    /\ pc' = [pc EXCEPT ![k] = "lock"]
    /\ UNCHANGED <<main, started, unmade, owner, loaded, total, printed>>

Free_Always(k) == TRUE
Free(k) == owner = NoThread

Lock(k) ==
    /\ Alive
    /\ pc[k] = "lock"
    /\ Free(k)
    /\ owner' = k
    /\ pc' = [pc EXCEPT ![k] = "load"]
    /\ UNCHANGED <<main, started, unmade, amount, loaded, total, printed>>

Load(k) ==
    /\ Alive
    /\ pc[k] = "load"
    /\ loaded' = [loaded EXCEPT ![k] = total]
    /\ pc' = [pc EXCEPT ![k] = "store"]
    /\ UNCHANGED <<main, started, unmade, owner, amount, total, printed>>

Store(k) ==
    /\ Alive
    /\ pc[k] = "store"
    /\ total' = loaded[k] + amount[k]
    /\ pc' = [pc EXCEPT ![k] = "unlock"]
    /\ UNCHANGED <<main, started, unmade, owner, amount, loaded, printed>>

NoOwner_Forgotten == owner
NoOwner == NoThread

\* pthread_exit follows.
Unlock(k) ==
    /\ Alive
    /\ pc[k] = "unlock"
    /\ owner' = NoOwner
    /\ pc' = [pc EXCEPT ![k] = "done"]
    /\ UNCHANGED <<main, started, unmade, amount, loaded, total, printed>>

Add(k) == Lock(k) \/ Load(k) \/ Store(k) \/ Unlock(k)

Joined_LastOnly == started > 0 => pc[started - 1] = "done"
Joined == \A k \in Threads : k < started => pc[k] = "done"

\* All threads are joined, the mutex is free and destroyed, the total printed.
Finish ==
    /\ main = "join"
    /\ Joined
    /\ printed' = <<total>>
    /\ main' = "returned"
    /\ UNCHANGED <<threadVars, total>>

RunTypeOK ==
    /\ main \in {"options", "init", "create", "join", "returned", "failed", "crashed"}
    /\ started \in 0 .. MaxThreads
    /\ unmade \in BOOLEAN
    /\ pc \in [Threads -> {"unborn", "compute", "lock", "load", "store", "unlock", "done"}]
    /\ owner \in Threads \cup {NoThread}
    /\ amount \in [Threads -> Nat]
    /\ loaded \in [Threads -> Nat]
    /\ total \in Nat
    /\ printed \in Seq(Nat)
=============================================================================
