----------------------------- MODULE ThreadSum -----------------------------
(***************************************************************************)
(* lab 10/mtsumarray.c: thread 0 adds up the elements at even indices and  *)
(* thread 1 those at odd ones.                                             *)
(***************************************************************************)
EXTENDS MutexRun, Sums

CONSTANTS num_values, Array     \* how many elements there are, and which

ASSUME ThreadSumAssumption ==
    /\ num_values \in Nat \ {0}
    /\ Array \in [0 .. num_values - 1 -> Nat]

SumOf(S) == SumBelow(num_values, S, Array)

Share(k) == {i \in DOMAIN Array : i >= k /\ (i - k) % 2 = 0}

CreateAdder ==
    /\ main = "create"
    /\ Created(2) \/ NotCreated("join")

\* main joins both, also one that was not created: threads[1] is then not
\* initialised, and pthread_join warns or crashes.
JoinUnmade ==
    /\ main = "join"
    /\ unmade
    /\ main' = "crashed"
    /\ UNCHANGED <<threadVars, total, printed>>

AdderMain == MutexInit \/ CreateAdder \/ JoinUnmade \/ Finish

AdderThread(k) == Computed(k, SumOf(Share(k))) \/ Add(k)
=============================================================================
