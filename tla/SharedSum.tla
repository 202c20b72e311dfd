----------------------------- MODULE SharedSum -----------------------------
(***************************************************************************)
(* mpsumarray/mpsumarray.c: two children add the elements at the even and  *)
(* at the odd indices of an array to the shared integer.  As in the        *)
(* program's messages they are processes 1 and 2.                          *)
(***************************************************************************)
EXTENDS IpcRun, Sums

CONSTANTS num_values, Array     \* how many elements there are, and which

ASSUME SharedSumAssumption ==
    /\ {1, 2} \subseteq Numbers
    /\ num_values \in Nat \ {0}
    /\ Array \in [0 .. num_values - 1 -> Nat]

VARIABLES
    num_started,
    stored              \* history: the children that stored

sumVars == <<num_started, stored>>

SumOf(S) == SumBelow(num_values, S, Array)

\* What child i adds up: i - 1, i + 1, ...
Share_EveryIndex(c) == {k \in DOMAIN Array : k >= c[2] - 1}
Share(c) == {k \in DOMAIN Array : k % 2 = c[2] - 1}

SumInit ==
    /\ num_started = [m \in Mains |-> 0]
    /\ stored = {}

\* A child is attached to what its parent is attached to.  When fork fails the
\* parent cleans up, whether or not a child is at work.
ForkAdder(m) ==
    /\ pc[m] = "fork"
    /\ LET c == <<m, num_started[m] + 1>>
       IN  \/ /\ pc' = [pc EXCEPT ![c] = "P",
                                  ![m] = IF num_started[m] = 1 THEN "wait" ELSE "fork"]
              /\ num_started' = [num_started EXCEPT ![m] = @ + 1]
              /\ Attach(c, shmid[m])
              /\ UNCHANGED retval
           \/ Fails(m, "shmdt") /\ UNCHANGED <<num_started, shms>>
    /\ UNCHANGED <<sems, semOfKey, shmOfKey, semid, shmid, shm, loaded, shown, stored>>

Store(c) ==
    /\ StoreSum(c, SumOf(Share(c)))
    /\ stored' = stored \cup {c}
    /\ UNCHANGED num_started

SumMain(m) ==
    \/ ForkAdder(m)
    \/ (SetUp(m, "shmdt") \/ Reap(m) \/ Report(m) \/ CleanUp(m)) /\ UNCHANGED sumVars

SumChild(c) ==
    \/ Store(c)
    \/ (Down(c) \/ Load(c) \/ Up(c, "exit") \/ Exit(c)) /\ UNCHANGED sumVars

SumTypeOK ==
    /\ num_started \in [Mains -> 0 .. 2]
    /\ stored \subseteq Children
=============================================================================
