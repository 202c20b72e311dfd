--------------------------- MODULE BoundedBuffer ---------------------------
(***************************************************************************)
(* 392/producerconsumer/produceconsume.c: producers and consumers around a *)
(* circular buffer, one mutex and two condition variables.  A thread is    *)
(*   unborn    not created yet                                             *)
(*   lock      at pthread_mutex_lock                        (37, 68)       *)
(*   test      holding the mutex, at the test of the while  (39, 70)       *)
(*   work      holding the mutex, past the test           (42, 76)       *)
(*   waiting   inside pthread_cond_wait, the mutex released (40, 71)       *)
(*   woken     inside pthread_cond_wait, taking the mutex again            *)
(*   unlock    holding the mutex, after the signal          (53, 86)       *)
(*   done      at pthread_exit                              (57, 90)       *)
(* An expression is known by its producer and its number, <<p, k>>.        *)
(***************************************************************************)
EXTENDS Integers, Sequences, FiniteSets

CONSTANTS
    Producers, Consumers,
    QUEUELEN,           \* line 10
    MAX_EXPRS,          \* line 9
    NoExpr,             \* what malloc leaves in a buffer never written
    MaxSpurious         \* bound: spurious wakeups of pthread_cond_wait

ASSUME BoundedBufferAssumption ==
    /\ Producers \cap Consumers = {}
    /\ "nobody" \notin Producers \cup Consumers
    /\ IsFiniteSet(Producers) /\ IsFiniteSet(Consumers)
    /\ QUEUELEN \in Nat \ {0}
    /\ MAX_EXPRS \in Nat \ {0}
    /\ NoExpr \notin Producers \X (1 .. MAX_EXPRS)
    /\ MaxSpurious \in Nat

VARIABLES
    main,               \* creating, joining, returned, failed
    pc,                 \* thread -> where it is
    owner,              \* the thread that holds the mutex, or "nobody"
    queue, num_occupied, read_index, write_index,
    num_produced,       \* producer -> expressions it put so far
    consumed,           \* consumer -> the expressions it read, oldest first
    spurious            \* how many spurious wakeups there were

bufferVars == <<queue, num_occupied, read_index, write_index>>
countVars  == <<num_produced, consumed>>
vars == <<main, pc, owner, bufferVars, countVars, spurious>>

Threads == Producers \cup Consumers
Expr    == Producers \X (1 .. MAX_EXPRS)
Indices == 0 .. QUEUELEN - 1
Holding == {"test", "work", "unlock"}

Init ==
    /\ main = "creating"
    /\ pc = [t \in Threads |-> "unborn"]
    /\ owner = "nobody"
    /\ queue = [i \in Indices |-> NoExpr]
    /\ num_occupied = 0
    /\ read_index = 0
    /\ write_index = 0
    /\ num_produced = [p \in Producers |-> 0]
    /\ consumed = [c \in Consumers |-> <<>>]
    /\ spurious = 0

Goto(t, where) == pc' = [pc EXCEPT ![t] = where]

(***************************************************************************)
(* main: all producers are created before any consumer.  When a thread     *)
(* cannot be created main returns, and every thread ends with it.          *)
(***************************************************************************)
Create(t) ==
    /\ main = "creating"
    /\ pc[t] = "unborn"
    /\ t \in Consumers => \A p \in Producers : pc[p] # "unborn"
    /\ \/ Goto(t, "lock") /\ UNCHANGED main
       \/ main' = "failed" /\ UNCHANGED pc
    /\ UNCHANGED <<owner, bufferVars, countVars, spurious>>

AllCreated ==
    /\ main = "creating"
    /\ \A t \in Threads : pc[t] # "unborn"
    /\ main' = "joining"
    /\ UNCHANGED <<pc, owner, bufferVars, countVars, spurious>>

Join ==
    /\ main = "joining"
    /\ \A t \in Threads : pc[t] = "done"
    /\ main' = "returned"
    /\ UNCHANGED <<pc, owner, bufferVars, countVars, spurious>>

Alive == main \in {"creating", "joining"}

(***************************************************************************)
(* The mutex and the condition variables.                                  *)
(***************************************************************************)
Lock(t) ==
    /\ Alive
    /\ pc[t] \in {"lock", "woken"}
    /\ owner = "nobody"
    /\ owner' = t
    /\ Goto(t, "test")
    /\ UNCHANGED <<main, bufferVars, countVars, spurious>>

\* pthread_cond_wait, by the thread that holds the mutex.
Wait(t) ==
    /\ Goto(t, "waiting")
    /\ owner' = "nobody"
    /\ UNCHANGED <<bufferVars, countVars>>

\* POSIX lets pthread_cond_wait return without a signal.
SpuriousWakeup(t) ==
    /\ Alive
    /\ pc[t] = "waiting"
    /\ spurious < MaxSpurious
    /\ spurious' = spurious + 1
    /\ Goto(t, "woken")
    /\ UNCHANGED <<main, owner, bufferVars, countVars>>

Waiting(S) == {t \in S : pc[t] = "waiting"}

\* pthread_cond_signal by t, to a condition that only threads of S wait for.
\* A signal that nobody waits for is lost.
SignalTo(t, S) ==
    \/ /\ Waiting(S) = {}
       /\ Goto(t, "unlock")
    \/ \E w \in Waiting(S) : pc' = [pc EXCEPT ![t] = "unlock", ![w] = "woken"]

\* The two signals, on lines 83 and 50.
SignalConsumers_WhenFirst(t) ==
    IF num_occupied = 0 THEN SignalTo(t, Consumers) ELSE Goto(t, "unlock")
SignalConsumers(t) == SignalTo(t, Consumers)

SignalProducers_WrongCondition(t) == SignalTo(t, Consumers)
SignalProducers(t) == SignalTo(t, Producers)

NextIndex_NoWrap(i) == i + 1
NextIndex(i) == (i + 1) % QUEUELEN

(***************************************************************************)
(* produce.                                                                *)
(***************************************************************************)
BufferFull == num_occupied >= QUEUELEN

AwaitSpace(p) ==
    /\ Alive
    /\ pc[p] = "test"
    /\ BufferFull
    /\ Wait(p)
    /\ UNCHANGED <<main, spurious>>

SpaceFound(p) ==
    /\ Alive
    /\ pc[p] = "test"
    /\ ~ BufferFull
    /\ Goto(p, "work")
    /\ UNCHANGED <<main, owner, bufferVars, countVars, spurious>>

Produce(p) ==
    /\ Alive
    /\ pc[p] = "work"
    /\ queue' = [queue EXCEPT ![write_index] = <<p, num_produced[p] + 1>>]
    /\ write_index' = NextIndex(write_index)
    /\ num_occupied' = num_occupied + 1
    /\ num_produced' = [num_produced EXCEPT ![p] = @ + 1]
    /\ SignalConsumers(p)
    /\ UNCHANGED <<main, owner, read_index, consumed, spurious>>

(***************************************************************************)
(* consume.                                                                *)
(***************************************************************************)
BufferEmpty == num_occupied <= 0

AwaitExpr(c) ==
    /\ Alive
    /\ pc[c] = "test"
    /\ BufferEmpty
    /\ Wait(c)
    /\ UNCHANGED <<main, spurious>>

ExprFound(c) ==
    /\ Alive
    /\ pc[c] = "test"
    /\ ~ BufferEmpty
    /\ Goto(c, "work")
    /\ UNCHANGED <<main, owner, bufferVars, countVars, spurious>>

NextExpr_Newest == queue[(write_index + QUEUELEN - 1) % QUEUELEN]
NextExpr == queue[read_index]

Consume(c) ==
    /\ Alive
    /\ pc[c] = "work"
    /\ consumed' = [consumed EXCEPT ![c] = Append(@, NextExpr)]
    /\ read_index' = NextIndex(read_index)
    /\ num_occupied' = num_occupied - 1
    /\ SignalProducers(c)
    /\ UNCHANGED <<main, owner, queue, write_index, num_produced, spurious>>

(***************************************************************************)
(* pthread_mutex_unlock, and the test of the outer loop.                   *)
(***************************************************************************)
Finished(t) ==
    IF t \in Producers THEN num_produced[t] = MAX_EXPRS
                       ELSE Len(consumed[t]) = MAX_EXPRS

Unlock(t) ==
    /\ Alive
    /\ pc[t] = "unlock"
    /\ owner' = "nobody"
    /\ Goto(t, IF Finished(t) THEN "done" ELSE "lock")
    /\ UNCHANGED <<main, bufferVars, countVars, spurious>>

MainSteps == (\E t \in Threads : Create(t)) \/ AllCreated \/ Join
ProducerSteps(p) == AwaitSpace(p) \/ SpaceFound(p) \/ Produce(p)
ConsumerSteps(c) == AwaitExpr(c) \/ ExprFound(c) \/ Consume(c)
ThreadSteps(t) ==
    \/ Lock(t) \/ Unlock(t)
    \/ t \in Producers /\ ProducerSteps(t)
    \/ t \in Consumers /\ ConsumerSteps(t)

Next ==
    \/ MainSteps
    \/ \E t \in Threads : ThreadSteps(t) \/ SpuriousWakeup(t)

Spec == Init /\ [][Next]_vars

\* Every thread that can run is scheduled.  Nothing is assumed of the order in
\* which threads get the mutex, nor of which waiter a signal wakes.
FairSpec ==
    /\ Spec
    /\ WF_vars(MainSteps)
    /\ \A t \in Threads : WF_vars(ThreadSteps(t))

(***************************************************************************)
(* Properties.                                                             *)
(***************************************************************************)

\* Types; the counters stay within the buffer, and a consumer never holds what
\* was not produced.
TypeOK ==
    /\ main \in {"creating", "joining", "returned", "failed"}
    /\ pc \in [Threads -> {"unborn", "lock", "test", "work", "waiting",
                            "woken", "unlock", "done"}]
    /\ owner \in Threads \cup {"nobody"}
    /\ queue \in [Indices -> Expr \cup {NoExpr}]
    /\ num_occupied \in 0 .. QUEUELEN
    /\ read_index \in Indices
    /\ write_index \in Indices
    /\ num_produced \in [Producers -> 0 .. MAX_EXPRS]
    /\ consumed \in [Consumers -> Seq(Expr)]
    /\ spurious \in 0 .. MaxSpurious

\* No wakeup is lost.  A signal is not remembered and another thread may take
\* what it announced, yet whenever a consumer waits, every expression in the
\* buffer has an awake consumer coming for it, and whenever a producer waits,
\* every free place has an awake producer coming for it (lines 39-50, 70-83).
Coming(S) == {t \in S : pc[t] \in {"woken", "test", "work"}}

NoLostWakeup ==
    /\ Waiting(Consumers) # {} =>
          num_occupied <= Cardinality(Coming(Consumers))
    /\ Waiting(Producers) # {} =>
          QUEUELEN - num_occupied <= Cardinality(Coming(Producers))

\* The buffer implements a bounded first in, first out queue: nothing is lost,
\* duplicated, overwritten, read before it is written, or read out of order.
Fifo == INSTANCE BoundedFifo WITH
            contents <- [k \in 1 .. num_occupied |->
                            queue[(read_index + k - 1) % QUEUELEN]],
            puts     <- num_produced,
            gets     <- consumed

ImplementsFifo == Fifo!FifoSpec

\* The program ends: no arrangement of waits, signals and spurious wakeups
\* leaves a thread waiting for ever, so main's joins return (121-124), unless a
\* thread could not be created.
Termination == <>(main \in {"returned", "failed"})
=============================================================================
