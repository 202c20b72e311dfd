------------------------ MODULE BoundedBufferProofs ------------------------
(***************************************************************************)
(* What is proved of 392/producerconsumer/produceconsume.c for any number  *)
(* of threads, any QUEUELEN and any MAX_EXPRS.                             *)
(***************************************************************************)
EXTENDS BoundedBuffer, FiniteSetTheorems, SequenceTheorems, TLAPS

(***************************************************************************)
(* The inductive invariant.                                                *)
(***************************************************************************)
MutexInv == \A t \in Threads : pc[t] \in Holding => owner = t

\* What a thread found at the test still holds when it does its work.
WorkInv ==
    /\ \A p \in Producers : pc[p] = "work" => num_occupied < QUEUELEN
    /\ \A c \in Consumers : pc[c] = "work" => num_occupied > 0

Cell(k) == (read_index + k - 1) % QUEUELEN

RingInv ==
    /\ write_index = (read_index + num_occupied) % QUEUELEN
    /\ \A k \in 1 .. num_occupied : queue[Cell(k)] \in Expr

CountInv ==
    /\ \A p \in Producers :
          pc[p] \notin {"unlock", "done"} => num_produced[p] < MAX_EXPRS
    /\ \A c \in Consumers : Len(consumed[c]) <= MAX_EXPRS
    /\ \A c \in Consumers :
          pc[c] \notin {"unlock", "done"} => Len(consumed[c]) < MAX_EXPRS

Inv == TypeOK /\ MutexInv /\ WorkInv /\ RingInv /\ CountInv

(***************************************************************************)
(* Arithmetic of the circular buffer.                                      *)
(***************************************************************************)
LEMMA ModSmall ==
    ASSUME NEW Q \in Nat \ {0}, NEW x \in Nat, x < Q
    PROVE  x % Q = x
  OBVIOUS

LEMMA ModOnce ==
    ASSUME NEW Q \in Nat \ {0}, NEW x \in Nat, Q <= x, x < 2 * Q
    PROVE  x % Q = x - Q
  OBVIOUS

LEMMA ModFold ==
    ASSUME NEW Q \in Nat \ {0}, NEW x \in Nat, x < 2 * Q
    PROVE  x % Q = IF x < Q THEN x ELSE x - Q
  <1>1. CASE x < Q
    <2>1. x % Q = x
      BY <1>1, ModSmall
    <2> QED BY <1>1, <2>1, Zenon
  <1>2. CASE ~ (x < Q)
    <2>1. Q <= x
      BY <1>2
    <2>2. x % Q = x - Q
      BY <2>1, ModOnce
    <2> QED BY <1>2, <2>2, Zenon
  <1> QED BY <1>1, <1>2, Zenon

\* Two places less than a turn apart are different cells.
LEMMA ModApart ==
    ASSUME NEW Q \in Nat \ {0}, NEW r \in 0 .. Q - 1,
           NEW i \in Nat, NEW j \in Nat, i < j, j < Q
    PROVE  (r + i) % Q # (r + j) % Q
  <1> DEFINE Fold(x) == IF x < Q THEN x ELSE x - Q
  <1>1. /\ r + i \in Nat /\ r + i < 2 * Q
        /\ r + j \in Nat /\ r + j < 2 * Q
    OBVIOUS
  <1>2. (r + i) % Q = Fold(r + i) /\ (r + j) % Q = Fold(r + j)
    BY <1>1, ModFold, Zenon
  <1>3. Fold(r + i) # Fold(r + j)
    OBVIOUS
  <1> HIDE DEF Fold
  <1> QED BY <1>2, <1>3, Zenon

\* An index that was wrapped reaches the same cells.
LEMMA ModShift ==
    ASSUME NEW Q \in Nat \ {0}, NEW r \in 0 .. Q - 1, NEW j \in 0 .. Q - 1
    PROVE  (((r + 1) % Q) + j) % Q = (r + 1 + j) % Q
  <1>1. CASE r + 1 < Q
    <2>1. (r + 1) % Q = r + 1
      BY <1>1, ModSmall
    <2> QED BY <2>1, Zenon
  <1>2. CASE r + 1 = Q
    <2>1. (r + 1) % Q = 0
      BY <1>2, ModOnce
    <2>2. j % Q = j
      BY ModSmall
    <2>3. (r + 1 + j) % Q = j
      BY <1>2, ModOnce
    <2>4. 0 + j = j
      OBVIOUS
    <2> QED BY <2>1, <2>2, <2>3, <2>4, Zenon
  <1> QED BY <1>1, <1>2

LEMMA ModNext ==
    ASSUME NEW Q \in Nat \ {0}, NEW r \in 0 .. Q - 1, NEW n \in 0 .. Q
    PROVE  (((r + n) % Q) + 1) % Q = (r + n + 1) % Q
  OBVIOUS

LEMMA ModRange ==
    ASSUME NEW Q \in Nat \ {0}, NEW x \in Nat
    PROVE  x % Q \in 0 .. Q - 1
  OBVIOUS

(***************************************************************************)
(* The state changes that several actions share.                           *)
(***************************************************************************)
LEMMA SignalEffect ==
    ASSUME TypeOK, NEW t \in Threads, NEW S \in SUBSET Threads,
           pc[t] = "work", SignalTo(t, S)
    PROVE  /\ pc' \in [Threads -> {"unborn", "lock", "test", "work", "waiting",
                                   "woken", "unlock", "done"}]
           /\ pc'[t] = "unlock"
           /\ \A s \in Threads \ {t} :
                 \/ pc'[s] = pc[s]
                 \/ pc[s] = "waiting" /\ pc'[s] = "woken"
  BY DEF TypeOK, SignalTo, Waiting, Goto

LEMMA NextIndexRange ==
    ASSUME NEW i \in Indices
    PROVE  NextIndex(i) \in Indices
  BY BoundedBufferAssumption, ModRange DEF Indices, NextIndex

(***************************************************************************)
(* The cells that hold expressions, after an expression is put or taken.   *)
(***************************************************************************)
Contents == [k \in 1 .. num_occupied |-> queue[Cell(k)]]

LEMMA RingAfterPut ==
    ASSUME TypeOK, RingInv, num_occupied < QUEUELEN, NEW e \in Expr,
           queue' = [queue EXCEPT ![write_index] = e],
           write_index' = NextIndex(write_index),
           num_occupied' = num_occupied + 1,
           read_index' = read_index
    PROVE  RingInv' /\ Contents' = Append(Contents, e)
  <1> DEFINE n == num_occupied
             r == read_index
  <1>0. /\ QUEUELEN \in Nat \ {0} /\ n \in Nat /\ r \in 0 .. QUEUELEN - 1
        /\ n \in 0 .. QUEUELEN
    BY BoundedBufferAssumption DEF TypeOK, Indices
  <1>1. \A k \in 1 .. n : Cell(k) # write_index /\ Cell(k) \in Indices
    <2> SUFFICES ASSUME NEW k \in 1 .. n
                 PROVE  Cell(k) # write_index /\ Cell(k) \in Indices
      OBVIOUS
    <2>1. k - 1 \in Nat /\ k - 1 < n /\ r + k - 1 = r + (k - 1) /\ r + k - 1 \in Nat
      BY <1>0
    <2>2. (r + (k - 1)) % QUEUELEN # (r + n) % QUEUELEN
      BY <1>0, <2>1, ModApart
    <2>3. (r + k - 1) % QUEUELEN \in 0 .. QUEUELEN - 1
      BY <1>0, <2>1, ModRange
    <2> QED BY <2>1, <2>2, <2>3, Zenon DEF Cell, RingInv, Indices
  <1>2. Cell(n + 1) = write_index
    <2>1. r + (n + 1) - 1 = r + n
      BY <1>0
    <2> QED BY <2>1, Zenon DEF Cell, RingInv
  <1>3. \A k : Cell(k)' = Cell(k)
    BY DEF Cell
  <1>4. write_index' = (r + n') % QUEUELEN
    <2>1. write_index = (r + n) % QUEUELEN
      BY DEF RingInv
    <2>2. write_index' = (write_index + 1) % QUEUELEN
      BY DEF NextIndex
    <2>3. (((r + n) % QUEUELEN) + 1) % QUEUELEN = (r + n + 1) % QUEUELEN
      BY <1>0, ModNext, Zenon
    <2>4. r + n + 1 = r + n'
      BY <1>0
    <2> QED BY <2>1, <2>2, <2>3, <2>4, Zenon
  <1>5. \A k \in 1 .. n : queue'[Cell(k)] = queue[Cell(k)]
    BY <1>1 DEF TypeOK
  <1>6. queue'[Cell(n + 1)] = e
    BY <1>2 DEF TypeOK
  <1> HIDE DEF n, r
  <1>7. \A k \in 1 .. n + 1 : k \in 1 .. n \/ k = n + 1
    BY <1>0
  <1>8. \A k \in 1 .. n' : queue'[Cell(k)'] \in Expr
    BY <1>3, <1>5, <1>6, <1>7 DEF RingInv, n
  <1>9. Contents' = Append(Contents, e)
    BY <1>0, <1>3, <1>5, <1>6, <1>7 DEF Contents, n
  <1> QED BY <1>4, <1>8, <1>9 DEF RingInv, r, n

LEMMA TailAsFunction ==
    ASSUME NEW S, NEW s \in Seq(S), NEW n \in Nat \ {0}, Len(s) = n
    PROVE  Tail(s) = [k \in 1 .. n - 1 |-> s[k + 1]]
  <1>1. /\ Tail(s) \in Seq(S) /\ Len(Tail(s)) = n - 1
        /\ \A k \in 1 .. n - 1 : Tail(s)[k] = s[k + 1]
    BY HeadTailProperties
  <1>2. Tail(s) \in [1 .. n - 1 -> S]
    BY <1>1, LenProperties
  <1> QED BY <1>1, <1>2

LEMMA CellOne ==
    ASSUME read_index \in Indices
    PROVE  Cell(1) = read_index
  <1>1. read_index + 1 - 1 = read_index /\ read_index \in Nat /\ read_index < QUEUELEN
    BY BoundedBufferAssumption DEF Indices
  <1>2. read_index % QUEUELEN = read_index
    BY <1>1, BoundedBufferAssumption, ModSmall
  <1> QED BY <1>1, <1>2, Zenon DEF Cell

LEMMA RingAfterGet ==
    ASSUME TypeOK, RingInv, num_occupied > 0,
           queue' = queue,
           write_index' = write_index,
           num_occupied' = num_occupied - 1,
           read_index' = NextIndex(read_index)
    PROVE  RingInv' /\ Contents' = Tail(Contents) /\ Contents # <<>>
                    /\ Head(Contents) = queue[read_index]
  <1> DEFINE n == num_occupied
             r == read_index
  <1>0. /\ QUEUELEN \in Nat \ {0} /\ r \in 0 .. QUEUELEN - 1
        /\ n \in 1 .. QUEUELEN
    BY BoundedBufferAssumption DEF TypeOK, Indices
  <1>1. \A k \in 1 .. n - 1 : Cell(k)' = Cell(k + 1)
    <2> SUFFICES ASSUME NEW k \in 1 .. n - 1 PROVE Cell(k)' = Cell(k + 1)
      OBVIOUS
    <2>1. /\ k - 1 \in 0 .. QUEUELEN - 1
          /\ r + 1 + (k - 1) = r + (k + 1) - 1
      BY <1>0
    <2>2. (((r + 1) % QUEUELEN) + (k - 1)) % QUEUELEN = (r + 1 + (k - 1)) % QUEUELEN
      BY <1>0, <2>1, ModShift
    <2>3. (r + 1) % QUEUELEN \in Int
      BY <1>0
    <2>4. ((r + 1) % QUEUELEN) + k - 1 = ((r + 1) % QUEUELEN) + (k - 1)
      BY <2>3
    <2>5. r' = (r + 1) % QUEUELEN
      BY DEF NextIndex
    <2> QED BY <2>1, <2>2, <2>4, <2>5, Zenon DEF Cell
  <1>2. Cell(1) = r
    BY CellOne DEF TypeOK
  <1>3. write_index' = (r' + n') % QUEUELEN
    <2>1. /\ n - 1 \in 0 .. QUEUELEN - 1
          /\ r + 1 + (n - 1) = r + n
      BY <1>0
    <2>2. (((r + 1) % QUEUELEN) + (n - 1)) % QUEUELEN = (r + 1 + (n - 1)) % QUEUELEN
      BY <1>0, <2>1, ModShift
    <2>5. r' = (r + 1) % QUEUELEN /\ n' = n - 1
      BY DEF NextIndex
    <2> QED BY <2>1, <2>2, <2>5, Zenon DEF RingInv
  <1> HIDE DEF n, r
  <1>4. \A k \in 1 .. n - 1 : k + 1 \in 1 .. n
    BY <1>0
  <1>5. \A k \in 1 .. n - 1 : queue'[Cell(k)'] \in Expr
    BY <1>1, <1>4 DEF RingInv, n
  <1>6. Contents \in Seq(Expr) /\ Len(Contents) = n
    <2>1. Contents \in [1 .. n -> Expr]
      BY DEF Contents, RingInv, n
    <2> QED BY <1>0, <2>1
  <1>7. Contents' = Tail(Contents)
    <2>1. Contents' = [k \in 1 .. n - 1 |-> queue[Cell(k + 1)]]
      BY <1>1 DEF Contents, n
    <2>2. Tail(Contents) = [k \in 1 .. n - 1 |-> Contents[k + 1]]
      BY <1>0, <1>6, TailAsFunction
    <2> QED BY <1>4, <2>1, <2>2 DEF Contents, n
  <1>8. Contents # <<>> /\ Head(Contents) = queue[read_index]
    BY <1>0, <1>2, <1>6 DEF Contents, n, r
  <1> QED BY <1>3, <1>5, <1>7, <1>8 DEF RingInv, r, n

(***************************************************************************)
(* Each action preserves the invariant.                                    *)
(***************************************************************************)
LEMMA InitInv == Init => Inv
  <1> SUFFICES ASSUME Init PROVE Inv
    OBVIOUS
  <1> USE BoundedBufferAssumption
  <1>1. TypeOK
    BY DEF Init, TypeOK, Indices
  <1>2. MutexInv /\ WorkInv
    BY DEF Init, MutexInv, WorkInv, Holding, Threads
  <1>3. RingInv
    BY ModSmall DEF Init, RingInv
  <1>4. CountInv
    BY DEF Init, CountInv
  <1> QED BY <1>1, <1>2, <1>3, <1>4 DEF Inv

\* The steps that leave the buffer and the counts alone: they move one thread,
\* and the mutex.
LEMMA MoveInv ==
    ASSUME Inv, NEW t \in Threads,
           NEW where \in {"lock", "test", "work", "waiting", "woken", "unlock", "done"},
           Goto(t, where),
           owner' \in Threads \cup {"nobody"},
           \A s \in Threads \ {t} : pc[s] \in Holding => owner' = s,
           where \in Holding => owner' = t,
           where = "work" => /\ t \in Producers => num_occupied < QUEUELEN
                             /\ t \in Consumers => num_occupied > 0,
           pc[t] = "unlock" => Finished(t) \/ where # "done",
           pc[t] = "unlock" => where = IF Finished(t) THEN "done" ELSE "lock",
           pc[t] = "done" => where = "done",
           main' \in {"creating", "joining", "returned", "failed"},
           spurious' \in 0 .. MaxSpurious,
           UNCHANGED <<bufferVars, countVars>>
    PROVE  Inv'
  <1> USE DEF bufferVars, countVars
  <1>1. /\ pc' \in [Threads -> {"unborn", "lock", "test", "work", "waiting",
                                "woken", "unlock", "done"}]
        /\ pc'[t] = where
        /\ \A s \in Threads \ {t} : pc'[s] = pc[s]
    BY DEF Inv, TypeOK, Goto
  <1>2. TypeOK'
    BY <1>1 DEF Inv, TypeOK
  <1>3. MutexInv'
    BY <1>1 DEF MutexInv
  <1>4. WorkInv'
    BY <1>1 DEF Inv, WorkInv, Threads
  <1>5. RingInv'
    BY DEF Inv, RingInv, Cell
  <1>6. CountInv'
    <2>1. ASSUME NEW p \in Producers, pc'[p] \notin {"unlock", "done"}
          PROVE  num_produced'[p] < MAX_EXPRS
      <3>1. num_produced[p] \in 0 .. MAX_EXPRS /\ MAX_EXPRS \in Nat
        BY BoundedBufferAssumption DEF Inv, TypeOK
      <3> QED BY <1>1, <2>1, <3>1 DEF Inv, CountInv, Finished, Threads
    <2>2. ASSUME NEW c \in Consumers, pc'[c] \notin {"unlock", "done"}
          PROVE  Len(consumed'[c]) < MAX_EXPRS
      <3>1. Len(consumed[c]) \in Nat /\ MAX_EXPRS \in Nat /\ c \notin Producers
        BY BoundedBufferAssumption DEF Inv, TypeOK
      <3> QED BY <1>1, <2>2, <3>1 DEF Inv, CountInv, Finished, Threads
    <2> QED BY <2>1, <2>2 DEF Inv, CountInv
  <1> QED BY <1>2, <1>3, <1>4, <1>5, <1>6 DEF Inv

\* What the other threads hold, seen by the thread that holds the mutex.
LEMMA Exclusive ==
    ASSUME Inv, NEW t \in Threads, pc[t] \in Holding
    PROVE  /\ owner = t
           /\ \A s \in Threads \ {t} : pc[s] \notin Holding
  BY DEF Inv, MutexInv

LEMMA ProduceInv ==
    ASSUME Inv, NEW p \in Producers, Produce(p)
    PROVE  Inv'
  <1> USE BoundedBufferAssumption
  <1> USE DEF bufferVars, countVars
  <1>1. p \in Threads /\ p \notin Consumers /\ pc[p] = "work" /\ Consumers \subseteq Threads
    BY DEF Produce, Threads
  <1>2. /\ owner = p
        /\ \A s \in Threads \ {p} : pc[s] \notin Holding
    BY <1>1, Exclusive DEF Holding
  <1>3. /\ pc' \in [Threads -> {"unborn", "lock", "test", "work", "waiting",
                                "woken", "unlock", "done"}]
        /\ pc'[p] = "unlock"
        /\ \A s \in Threads \ {p} :
              pc'[s] = pc[s] \/ (pc[s] = "waiting" /\ pc'[s] = "woken")
    BY <1>1, SignalEffect DEF Inv, Produce, SignalConsumers
  <1>4. num_occupied < QUEUELEN /\ num_produced[p] < MAX_EXPRS
    BY <1>1 DEF Inv, WorkInv, CountInv
  <1>5. /\ num_occupied \in 0 .. QUEUELEN /\ num_produced[p] \in 0 .. MAX_EXPRS
        /\ read_index \in Indices /\ write_index \in Indices
    BY DEF Inv, TypeOK
  <1>6. <<p, num_produced[p] + 1>> \in Expr
    BY <1>4, <1>5 DEF Expr
  <1>7. TypeOK'
    <2>1. write_index' \in Indices
      BY <1>5, NextIndexRange DEF Produce
    <2>2. queue' \in [Indices -> Expr \cup {NoExpr}]
      BY <1>6 DEF Inv, TypeOK, Produce
    <2>3. num_occupied' \in 0 .. QUEUELEN
      BY <1>4, <1>5 DEF Produce
    <2>4. num_produced' \in [Producers -> 0 .. MAX_EXPRS]
      BY <1>4, <1>5 DEF Inv, TypeOK, Produce
    <2> QED BY <1>3, <2>1, <2>2, <2>3, <2>4 DEF Inv, TypeOK, Produce
  <1>8. MutexInv'
    BY <1>1, <1>2, <1>3 DEF MutexInv, Holding, Produce
  <1>9. WorkInv'
    BY <1>1, <1>2, <1>3 DEF WorkInv, Holding, Threads
  <1>10. RingInv'
    BY <1>4, <1>5, <1>6, RingAfterPut DEF Inv, RingInv, Produce
  <1>11. CountInv'
    BY <1>1, <1>3, <1>5 DEF Inv, TypeOK, CountInv, Produce, Threads
  <1> QED BY <1>7, <1>8, <1>9, <1>10, <1>11 DEF Inv

LEMMA ConsumeInv ==
    ASSUME Inv, NEW c \in Consumers, Consume(c)
    PROVE  Inv'
  <1> USE BoundedBufferAssumption
  <1> USE DEF bufferVars, countVars
  <1>1. /\ c \in Threads /\ c \notin Producers /\ pc[c] = "work"
        /\ Producers \subseteq Threads
    BY DEF Consume, Threads
  <1>2. /\ owner = c
        /\ \A s \in Threads \ {c} : pc[s] \notin Holding
    BY <1>1, Exclusive DEF Holding
  <1>3. /\ pc' \in [Threads -> {"unborn", "lock", "test", "work", "waiting",
                                "woken", "unlock", "done"}]
        /\ pc'[c] = "unlock"
        /\ \A s \in Threads \ {c} :
              pc'[s] = pc[s] \/ (pc[s] = "waiting" /\ pc'[s] = "woken")
    BY <1>1, SignalEffect DEF Inv, Consume, SignalProducers
  <1>4. num_occupied > 0 /\ Len(consumed[c]) < MAX_EXPRS
    BY <1>1 DEF Inv, WorkInv, CountInv
  <1>5. /\ num_occupied \in 1 .. QUEUELEN /\ consumed[c] \in Seq(Expr)
        /\ read_index \in Indices /\ write_index \in Indices
    BY <1>4 DEF Inv, TypeOK
  <1>6. queue[read_index] \in Expr
    <2>1. Cell(1) = read_index
      BY <1>5, CellOne
    <2> QED BY <1>5, <2>1 DEF Inv, RingInv
  <1>7. TypeOK'
    <2>1. read_index' \in Indices
      BY <1>5, NextIndexRange DEF Consume
    <2>2. num_occupied' \in 0 .. QUEUELEN
      BY <1>5 DEF Consume
    <2>3. consumed' \in [Consumers -> Seq(Expr)]
      BY <1>5, <1>6 DEF Inv, TypeOK, Consume, NextExpr
    <2> QED BY <1>3, <2>1, <2>2, <2>3 DEF Inv, TypeOK, Consume
  <1>8. MutexInv'
    BY <1>1, <1>2, <1>3 DEF MutexInv, Holding, Consume
  <1>9. WorkInv'
    BY <1>1, <1>2, <1>3 DEF WorkInv, Holding, Threads
  <1>10. RingInv'
    BY <1>5, RingAfterGet DEF Inv, RingInv, Consume
  <1>11. CountInv'
    <2>1. /\ \A d \in Consumers \ {c} : consumed'[d] = consumed[d]
          /\ consumed'[c] = Append(consumed[c], queue[read_index])
      BY <1>5, <1>6 DEF Inv, TypeOK, Consume, NextExpr
    <2>2. Len(consumed'[c]) = Len(consumed[c]) + 1 /\ Len(consumed[c]) \in Nat
      BY <1>5, <1>6, <2>1
    <2> QED BY <1>1, <1>3, <1>4, <2>1, <2>2 DEF Inv, CountInv, Consume, Threads
  <1> QED BY <1>7, <1>8, <1>9, <1>10, <1>11 DEF Inv

LEMMA ThreadInv ==
    ASSUME Inv, NEW t \in Threads, Lock(t) \/ Unlock(t) \/ SpuriousWakeup(t)
    PROVE  Inv'
  <1> USE BoundedBufferAssumption
  <1>1. CASE Lock(t)
    <2>1. \A s \in Threads \ {t} : pc[s] \notin Holding
      BY <1>1 DEF Lock, Inv, MutexInv, Threads
    <2> QED BY <1>1, <2>1, MoveInv DEF Lock, Inv, TypeOK, Holding
  <1>2. CASE Unlock(t)
    <2>1. \A s \in Threads \ {t} : pc[s] \notin Holding
      BY <1>2, Exclusive DEF Unlock, Holding
    <2>2. CASE Finished(t)
      BY <1>2, <2>1, <2>2, MoveInv DEF Unlock, Inv, TypeOK, Holding
    <2>3. CASE ~ Finished(t)
      BY <1>2, <2>1, <2>3, MoveInv DEF Unlock, Inv, TypeOK, Holding
    <2> QED BY <2>2, <2>3
  <1>3. CASE SpuriousWakeup(t)
    BY <1>3, MoveInv DEF SpuriousWakeup, Inv, TypeOK, MutexInv, Holding
  <1> QED BY <1>1, <1>2, <1>3

LEMMA ProducerInv ==
    ASSUME Inv, NEW p \in Producers, ProducerSteps(p)
    PROVE  Inv'
  <1> USE BoundedBufferAssumption
  <1>0. p \in Threads /\ p \notin Consumers
    BY DEF Threads
  <1>1. CASE AwaitSpace(p)
    <2>1. \A s \in Threads \ {p} : pc[s] \notin Holding
      BY <1>0, <1>1, Exclusive DEF AwaitSpace, Holding
    <2> QED BY <1>0, <1>1, <2>1, MoveInv DEF AwaitSpace, Wait, Inv, TypeOK, Holding
  <1>2. CASE SpaceFound(p)
    <2>1. owner = p
      BY <1>0, <1>2, Exclusive DEF SpaceFound, Holding
    <2>2. num_occupied < QUEUELEN
      BY <1>2 DEF SpaceFound, BufferFull, Inv, TypeOK
    <2> QED BY <1>0, <1>2, <2>1, <2>2, MoveInv
            DEF SpaceFound, Inv, TypeOK, MutexInv, Holding
  <1>3. CASE Produce(p)
    BY <1>3, ProduceInv
  <1> QED BY <1>1, <1>2, <1>3 DEF ProducerSteps

LEMMA ConsumerInv ==
    ASSUME Inv, NEW c \in Consumers, ConsumerSteps(c)
    PROVE  Inv'
  <1> USE BoundedBufferAssumption
  <1>0. c \in Threads /\ c \notin Producers
    BY DEF Threads
  <1>1. CASE AwaitExpr(c)
    <2>1. \A s \in Threads \ {c} : pc[s] \notin Holding
      BY <1>0, <1>1, Exclusive DEF AwaitExpr, Holding
    <2> QED BY <1>0, <1>1, <2>1, MoveInv DEF AwaitExpr, Wait, Inv, TypeOK, Holding
  <1>2. CASE ExprFound(c)
    <2>1. owner = c
      BY <1>0, <1>2, Exclusive DEF ExprFound, Holding
    <2>2. num_occupied > 0
      BY <1>2 DEF ExprFound, BufferEmpty, Inv, TypeOK
    <2> QED BY <1>0, <1>2, <2>1, <2>2, MoveInv
            DEF ExprFound, Inv, TypeOK, MutexInv, Holding
  <1>3. CASE Consume(c)
    BY <1>3, ConsumeInv
  <1> QED BY <1>1, <1>2, <1>3 DEF ConsumerSteps

LEMMA MainInv ==
    ASSUME Inv, MainSteps
    PROVE  Inv'
  <1> USE DEF bufferVars, countVars
  <1>1. ASSUME NEW t \in Threads, Create(t), Goto(t, "lock"), UNCHANGED main
        PROVE  Inv'
    BY <1>1, MoveInv DEF Create, Inv, TypeOK, MutexInv, Holding
  <1>2. ASSUME main' \in {"joining", "returned", "failed"},
               UNCHANGED <<pc, owner, bufferVars, countVars, spurious>>
        PROVE  Inv'
    BY <1>2 DEF Inv, TypeOK, MutexInv, WorkInv, RingInv, Cell, CountInv
  <1> QED BY <1>1, <1>2 DEF MainSteps, Create, AllCreated, Join

LEMMA NextInv == Inv /\ [Next]_vars => Inv'
  <1> SUFFICES ASSUME Inv, [Next]_vars PROVE Inv'
    OBVIOUS
  <1>1. CASE MainSteps
    BY <1>1, MainInv
  <1>2. ASSUME NEW t \in Threads, ThreadSteps(t) \/ SpuriousWakeup(t)
        PROVE  Inv'
    BY <1>2, ThreadInv, ProducerInv, ConsumerInv DEF ThreadSteps
  <1>3. CASE UNCHANGED vars
    BY <1>3 DEF vars, bufferVars, countVars, Inv, TypeOK, MutexInv, WorkInv,
                RingInv, Cell, CountInv, Threads, Finished
  <1> QED BY <1>1, <1>2, <1>3 DEF Next

\* The invariant holds in every state, whatever the schedule, the spurious
\* wakeups and the choices of the signals.
THEOREM Invariance == Spec => []Inv
  BY InitInv, NextInv, PTL DEF Spec

\* Every variable keeps its type: in particular the counter of occupied places
\* stays between 0 and QUEUELEN and both indices within the array (lines 20-25).
THEOREM TypeCorrect == Spec => []TypeOK
  BY Invariance, PTL DEF Inv

(***************************************************************************)
(* No wakeup is lost.  Each half of NoLostWakeup is inductive by itself:   *)
(* for a set S of threads that wait for the same condition and the number  *)
(* n of things they wait for, a step that adds one wakes one of them, and  *)
(* a thread of S leaves Coming(S) only by taking one.                      *)
(***************************************************************************)
Covered(S, n) == Waiting(S) # {} => n <= Cardinality(Coming(S))

LEMMA ComingFinite ==
    ASSUME NEW S \in {Producers, Consumers}
    PROVE  IsFiniteSet(Coming(S)) /\ Cardinality(Coming(S)) \in Nat
  <1>1. IsFiniteSet(S)
    BY BoundedBufferAssumption
  <1>2. IsFiniteSet(Coming(S))
    BY <1>1, FS_Subset DEF Coming
  <1> QED BY <1>2, FS_CardinalityType

\* Nobody starts to wait, nobody stops coming, and nothing is added.
LEMMA CoveredKept ==
    ASSUME NEW S \in {Producers, Consumers}, NEW n \in Int,
           NEW n2 \in Int, n2 <= n,
           Covered(S, n), Coming(S) \subseteq Coming(S)',
           Waiting(S)' \subseteq Waiting(S),
           IsFiniteSet(Coming(S)')
    PROVE  Waiting(S)' # {} => n2 <= Cardinality(Coming(S)')
  <1>1. Cardinality(Coming(S)) <= Cardinality(Coming(S)')
    BY FS_Subset
  <1>2. Cardinality(Coming(S)) \in Nat /\ Cardinality(Coming(S)') \in Nat
    BY FS_CardinalityType, ComingFinite
  <1> QED BY <1>1, <1>2 DEF Covered

\* One of S takes one thing.
LEMMA CoveredTake ==
    ASSUME NEW S \in {Producers, Consumers}, NEW n \in Int, NEW t \in S,
           Covered(S, n), Coming(S)' = Coming(S) \ {t},
           Waiting(S)' \subseteq Waiting(S)
    PROVE  Waiting(S)' # {} => n - 1 <= Cardinality(Coming(S)')
  <1>1. IsFiniteSet(Coming(S)) /\ Cardinality(Coming(S)) \in Nat
    BY ComingFinite
  <1>2. /\ IsFiniteSet(Coming(S)')
        /\ Cardinality(Coming(S)') = IF t \in Coming(S) THEN Cardinality(Coming(S)) - 1
                                                       ELSE Cardinality(Coming(S))
    BY <1>1, FS_RemoveElement
  <1>3. Cardinality(Coming(S)') \in Nat
    BY <1>2, FS_CardinalityType
  <1> QED BY <1>1, <1>2, <1>3 DEF Covered

\* One thing is added and one of S that waited, if there is any, is woken.
LEMMA CoveredPut ==
    ASSUME NEW S \in {Producers, Consumers}, NEW n \in Int,
           Covered(S, n),
           \/ Waiting(S)' = {}
           \/ \E w \in Waiting(S) : Coming(S)' = Coming(S) \cup {w}
    PROVE  Waiting(S)' # {} => n + 1 <= Cardinality(Coming(S)')
  <1> SUFFICES ASSUME NEW w \in Waiting(S), Coming(S)' = Coming(S) \cup {w}
               PROVE  n + 1 <= Cardinality(Coming(S)')
    OBVIOUS
  <1>1. w \notin Coming(S)
    BY DEF Waiting, Coming
  <1>2. Cardinality(Coming(S)') = Cardinality(Coming(S)) + 1
    BY <1>1, FS_AddElement, ComingFinite
  <1>3. n <= Cardinality(Coming(S))
    BY DEF Covered
  <1> QED BY <1>2, <1>3, ComingFinite

\* A signal to the waiters of S by a thread that is not one of them.
LEMMA SignalWakes ==
    ASSUME TypeOK, NEW S \in SUBSET Threads, NEW t \in Threads \ S,
           SignalTo(t, S)
    PROVE  \/ Waiting(S)' = {}
           \/ \E w \in Waiting(S) : Coming(S)' = Coming(S) \cup {w}
  <1>1. CASE Waiting(S) = {} /\ Goto(t, "unlock")
    BY <1>1 DEF TypeOK, Goto, Waiting
  <1>2. ASSUME NEW w \in Waiting(S),
               pc' = [pc EXCEPT ![t] = "unlock", ![w] = "woken"]
        PROVE  Coming(S)' = Coming(S) \cup {w}
    BY <1>2 DEF TypeOK, Waiting, Coming
  <1> QED BY <1>1, <1>2 DEF SignalTo

\* A signal by a working thread of S to waiters outside S.
LEMMA SignalElsewhere ==
    ASSUME TypeOK, NEW S \in SUBSET Threads, NEW R \in SUBSET Threads,
           R \cap S = {}, NEW t \in S, pc[t] = "work", SignalTo(t, R)
    PROVE  Coming(S)' = Coming(S) \ {t} /\ Waiting(S)' = Waiting(S)
  <1>1. /\ \A s \in S \ {t} : pc'[s] = pc[s]
        /\ pc'[t] = "unlock"
    BY DEF TypeOK, SignalTo, Waiting, Goto
  <1> QED BY <1>1 DEF Waiting, Coming

NoLoss == Covered(Consumers, num_occupied) /\ Covered(Producers, QUEUELEN - num_occupied)

LEMMA NoLossProduce ==
    ASSUME Inv, NoLoss, NEW p \in Producers, Produce(p)
    PROVE  NoLoss'
  <1>1. /\ Producers \cap Consumers = {} /\ num_occupied \in Nat /\ QUEUELEN \in Nat
        /\ Producers \in SUBSET Threads /\ Consumers \in SUBSET Threads
        /\ p \in Threads \ Consumers /\ num_occupied' = num_occupied + 1
        /\ pc[p] = "work" /\ SignalTo(p, Consumers) /\ TypeOK
    BY BoundedBufferAssumption DEF Inv, TypeOK, Threads, Produce, SignalConsumers
  <1>2. \/ Waiting(Consumers)' = {}
        \/ \E w \in Waiting(Consumers) : Coming(Consumers)' = Coming(Consumers) \cup {w}
    BY <1>1, SignalWakes
  <1>3. Covered(Consumers, num_occupied)'
    BY <1>1, <1>2, CoveredPut DEF Covered, NoLoss
  <1>4. Coming(Producers)' = Coming(Producers) \ {p} /\ Waiting(Producers)' = Waiting(Producers)
    BY <1>1, SignalElsewhere
  <1> DEFINE free == QUEUELEN - num_occupied
  <1>5. free \in Int /\ Covered(Producers, free)
    BY <1>1 DEF NoLoss
  <1> HIDE DEF free
  <1>6. Waiting(Producers)' # {} => free - 1 <= Cardinality(Coming(Producers)')
    BY <1>4, <1>5, CoveredTake
  <1>7. free - 1 = QUEUELEN - num_occupied' /\ QUEUELEN' = QUEUELEN
    BY <1>1 DEF free
  <1> QED BY <1>1, <1>3, <1>6, <1>7 DEF NoLoss, Covered

LEMMA NoLossConsume ==
    ASSUME Inv, NoLoss, NEW c \in Consumers, Consume(c)
    PROVE  NoLoss'
  <1>1. /\ Producers \cap Consumers = {} /\ num_occupied \in Nat /\ QUEUELEN \in Nat
        /\ Producers \in SUBSET Threads /\ Consumers \in SUBSET Threads
        /\ c \in Threads \ Producers /\ num_occupied' = num_occupied - 1
        /\ pc[c] = "work" /\ SignalTo(c, Producers) /\ TypeOK
        /\ QUEUELEN - num_occupied \in Int
    BY BoundedBufferAssumption DEF Inv, TypeOK, Threads, Consume, SignalProducers
  <1>2. \/ Waiting(Producers)' = {}
        \/ \E w \in Waiting(Producers) : Coming(Producers)' = Coming(Producers) \cup {w}
    BY <1>1, SignalWakes
  <1> DEFINE free == QUEUELEN - num_occupied
  <1>3. free \in Int /\ Covered(Producers, free)
    BY <1>1 DEF NoLoss
  <1> HIDE DEF free
  <1>6. Waiting(Producers)' # {} => free + 1 <= Cardinality(Coming(Producers)')
    BY <1>2, <1>3, CoveredPut
  <1>4. Coming(Consumers)' = Coming(Consumers) \ {c} /\ Waiting(Consumers)' = Waiting(Consumers)
    BY <1>1, SignalElsewhere
  <1>5. Waiting(Consumers)' # {} => num_occupied - 1 <= Cardinality(Coming(Consumers)')
    BY <1>1, <1>4, CoveredTake DEF NoLoss
  <1>7. free + 1 = QUEUELEN - num_occupied' /\ QUEUELEN' = QUEUELEN
    BY <1>1 DEF free
  <1> QED BY <1>1, <1>5, <1>6, <1>7 DEF NoLoss, Covered

\* The steps that touch neither the counter nor what a waiting or coming thread
\* is, except that a thread may start to come or wake up.
LEMMA NoLossMove ==
    ASSUME Inv, NoLoss, TypeOK', num_occupied' = num_occupied,
           \A s \in Threads :
              /\ pc[s] \in {"woken", "test", "work"} =>
                    pc'[s] \in {"woken", "test", "work"}
              /\ pc'[s] = "waiting" => pc[s] = "waiting"
    PROVE  NoLoss'
  <1>1. ASSUME NEW S \in {Producers, Consumers}
        PROVE  /\ Coming(S) \subseteq Coming(S)' /\ Waiting(S)' \subseteq Waiting(S)
               /\ IsFiniteSet(Coming(S)')
    <2>1. IsFiniteSet(S) /\ S \subseteq Threads
      BY BoundedBufferAssumption DEF Threads
    <2>2. Coming(S)' \subseteq S
      BY DEF Coming
    <2>3. IsFiniteSet(Coming(S)')
      BY <2>1, <2>2, FS_Subset
    <2> QED BY <2>1, <2>3 DEF Coming, Waiting
  <1> DEFINE free == QUEUELEN - num_occupied
  <1>2. /\ free \in Int /\ free <= free /\ Covered(Producers, free)
        /\ num_occupied \in Int /\ num_occupied <= num_occupied
        /\ Covered(Consumers, num_occupied)
    BY BoundedBufferAssumption DEF Inv, TypeOK, NoLoss
  <1>3. free' = free
    OBVIOUS
  <1> HIDE DEF free
  <1>4. Waiting(Consumers)' # {} => num_occupied <= Cardinality(Coming(Consumers)')
    BY <1>1, <1>2, CoveredKept
  <1>5. Waiting(Producers)' # {} => free <= Cardinality(Coming(Producers)')
    BY <1>1, <1>2, CoveredKept
  <1> QED BY <1>3, <1>4, <1>5 DEF NoLoss, Covered, free

\* A thread that starts to wait found nothing to wait for.
LEMMA NoLossWait ==
    ASSUME Inv, NoLoss, Inv', NEW t \in Threads,
           (t \in Producers /\ AwaitSpace(t)) \/ (t \in Consumers /\ AwaitExpr(t))
    PROVE  NoLoss'
  <1>1. /\ num_occupied' = num_occupied /\ num_occupied \in 0 .. QUEUELEN
        /\ QUEUELEN \in Nat /\ Producers \cap Consumers = {}
        /\ QUEUELEN' = QUEUELEN
        /\ \A s \in Threads \ {t} : pc'[s] = pc[s]
    BY BoundedBufferAssumption
       DEF Inv, TypeOK, AwaitSpace, AwaitExpr, Wait, Goto, bufferVars
  <1>2. ASSUME NEW S \in {Producers, Consumers}, t \notin S
        PROVE  Coming(S)' = Coming(S) /\ Waiting(S)' = Waiting(S)
    BY <1>1, <1>2 DEF Coming, Waiting, Threads
  <1>3. Cardinality(Coming(Producers)') \in Nat /\ Cardinality(Coming(Consumers)') \in Nat
    <2>1. ASSUME NEW S \in {Producers, Consumers} PROVE Cardinality(Coming(S)') \in Nat
      <3>1. IsFiniteSet(S) /\ Coming(S)' \subseteq S
        BY BoundedBufferAssumption DEF Coming
      <3> QED BY <3>1, FS_Subset, FS_CardinalityType
    <2> QED BY <2>1
  <1>4. CASE t \in Producers /\ AwaitSpace(t)
    <2>1. QUEUELEN - num_occupied = 0
      BY <1>1, <1>4 DEF AwaitSpace, BufferFull
    <2> QED BY <1>1, <1>2, <1>3, <1>4, <2>1 DEF NoLoss, Covered
  <1>5. CASE t \in Consumers /\ AwaitExpr(t)
    <2>1. num_occupied = 0
      BY <1>1, <1>5 DEF AwaitExpr, BufferEmpty
    <2> QED BY <1>1, <1>2, <1>3, <1>5, <2>1 DEF NoLoss, Covered
  <1> QED BY <1>4, <1>5

LEMMA NoLossNext == Inv /\ NoLoss /\ [Next]_vars => NoLoss'
  <1> SUFFICES ASSUME Inv, NoLoss, [Next]_vars PROVE NoLoss'
    OBVIOUS
  <1> USE DEF bufferVars, countVars
  <1>0. Inv' /\ TypeOK'
    BY NextInv DEF Inv
  <1>1. CASE MainSteps
    BY <1>0, <1>1, NoLossMove DEF MainSteps, Create, AllCreated, Join, Goto, Inv, TypeOK
  <1>2. ASSUME NEW t \in Threads, ThreadSteps(t) \/ SpuriousWakeup(t)
        PROVE  NoLoss'
    <2>1. CASE Lock(t) \/ Unlock(t) \/ SpuriousWakeup(t)
      BY <1>0, <2>1, NoLossMove DEF Lock, Unlock, SpuriousWakeup, Goto, Inv, TypeOK
    <2>2. CASE t \in Producers /\ ProducerSteps(t)
      <3>1. CASE AwaitSpace(t)
        BY <1>0, <2>2, <3>1, NoLossWait
      <3>2. CASE SpaceFound(t)
        BY <1>0, <3>2, NoLossMove DEF SpaceFound, Goto, Inv, TypeOK
      <3>3. CASE Produce(t)
        BY <2>2, <3>3, NoLossProduce
      <3> QED BY <2>2, <3>1, <3>2, <3>3 DEF ProducerSteps
    <2>3. CASE t \in Consumers /\ ConsumerSteps(t)
      <3>1. CASE AwaitExpr(t)
        BY <1>0, <2>3, <3>1, NoLossWait
      <3>2. CASE ExprFound(t)
        BY <1>0, <3>2, NoLossMove DEF ExprFound, Goto, Inv, TypeOK
      <3>3. CASE Consume(t)
        BY <2>3, <3>3, NoLossConsume
      <3> QED BY <2>3, <3>1, <3>2, <3>3 DEF ConsumerSteps
    <2> QED BY <1>2, <2>1, <2>2, <2>3 DEF ThreadSteps
  <1>3. CASE UNCHANGED vars
    BY <1>0, <1>3, NoLossMove DEF vars
  <1> QED BY <1>1, <1>2, <1>3 DEF Next

LEMMA NoLossInit == Init => NoLoss
  BY DEF Init, NoLoss, Covered, Waiting, Threads

\* No wakeup is lost, whatever the number of threads: as long as a consumer
\* waits, every expression in the buffer has a consumer coming for it, and as
\* long as a producer waits, every free place a producer (lines 39-50, 70-83).
THEOREM WakeupsKept == Spec => []NoLostWakeup
  <1>1. Spec => []NoLoss
    BY Invariance, NoLossInit, NoLossNext, PTL DEF Spec
  <1>2. NoLoss <=> NoLostWakeup
    BY DEF NoLoss, Covered, NoLostWakeup
  <1> QED BY <1>1, <1>2, PTL

(***************************************************************************)
(* The circular buffer implements the queue of BoundedFifo.                *)
(***************************************************************************)
LEMMA FifoInitially == Init => Fifo!FifoInit
  <1> SUFFICES ASSUME Init PROVE Fifo!FifoInit
    OBVIOUS
  <1>1. 1 .. num_occupied = {}
    BY DEF Init
  <1>2. [k \in 1 .. num_occupied |-> queue[(read_index + k - 1) % QUEUELEN]] = <<>>
    BY <1>1
  <1> QED BY <1>2 DEF Init, Fifo!FifoInit

LEMMA PutStep ==
    ASSUME Inv, NEW p \in Producers, Produce(p)
    PROVE  Fifo!Put(p)
  <1>1. /\ num_occupied < QUEUELEN /\ num_produced[p] < MAX_EXPRS
        /\ num_produced[p] \in Nat /\ num_occupied \in Nat
    BY DEF Inv, WorkInv, CountInv, Produce, TypeOK
  <1>2. <<p, num_produced[p] + 1>> \in Expr
    BY <1>1, BoundedBufferAssumption DEF Expr
  <1>3. Contents' = Append(Contents, <<p, num_produced[p] + 1>>)
    BY <1>1, <1>2, RingAfterPut DEF Inv, Produce
  <1>4. Contents \in Seq(Expr) /\ Len(Contents) = num_occupied
    <2>1. Contents \in [1 .. num_occupied -> Expr]
      BY DEF Contents, Inv, RingInv
    <2> QED BY <1>1, <2>1
  <1> QED BY <1>1, <1>3, <1>4 DEF Fifo!Put, Produce, Contents, Cell

LEMMA GetStep ==
    ASSUME Inv, NEW c \in Consumers, Consume(c)
    PROVE  Fifo!Get(c)
  <1>1. num_occupied > 0 /\ Len(consumed[c]) < MAX_EXPRS
    BY DEF Inv, WorkInv, CountInv, Consume
  <1>2. /\ Contents' = Tail(Contents) /\ Contents # <<>>
        /\ Head(Contents) = queue[read_index]
    BY <1>1, RingAfterGet DEF Inv, Consume
  <1> QED BY <1>1, <1>2 DEF Fifo!Get, Consume, NextExpr, Contents, Cell

\* Nothing is lost, duplicated, overwritten or read out of order: every step of
\* the threads is a Put or a Get of the queue or does not touch it.
THEOREM Refinement == Spec => ImplementsFifo
  <1>1. Inv /\ [Next]_vars => [Fifo!FifoNext]_(Fifo!fifoVars)
    <2> SUFFICES ASSUME Inv, [Next]_vars PROVE [Fifo!FifoNext]_(Fifo!fifoVars)
      OBVIOUS
    <2>1. ASSUME NEW p \in Producers, Produce(p) PROVE Fifo!FifoNext
      BY <2>1, PutStep DEF Fifo!FifoNext
    <2>2. ASSUME NEW c \in Consumers, Consume(c) PROVE Fifo!FifoNext
      BY <2>2, GetStep DEF Fifo!FifoNext
    <2>3. CASE UNCHANGED <<bufferVars, countVars>>
      BY <2>3 DEF Fifo!fifoVars, bufferVars, countVars
    <2> QED BY <2>1, <2>2, <2>3 DEF Next, MainSteps, Create, AllCreated, Join,
            ThreadSteps, Lock, Unlock, SpuriousWakeup, ProducerSteps, ConsumerSteps,
            AwaitSpace, SpaceFound, AwaitExpr, ExprFound, Wait, vars, bufferVars, countVars
  <1> QED BY <1>1, Invariance, FifoInitially, PTL DEF Spec, ImplementsFifo, Fifo!FifoSpec
=============================================================================
