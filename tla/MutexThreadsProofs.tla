------------------------- MODULE MutexThreadsProofs -------------------------
(***************************************************************************)
(* Proofs about the two threaded programs, for any number of threads and   *)
(* processors, any command line, any array and any memory.                 *)
(***************************************************************************)
EXTENDS MutexThreads, SumsProofs, FiniteSetTheorems

(***************************************************************************)
(* Division.                                                               *)
(***************************************************************************)
LEMMA DivMod ==
    ASSUME NEW n \in Nat, NEW d \in Nat \ {0}
    PROVE  /\ n \div d \in Nat /\ n % d \in 0 .. d - 1
           /\ (n \div d) * d + (n % d) = n
           /\ d <= n => n \div d >= 1
<1>1. n \div d \in Nat /\ n % d \in 0 .. d - 1 OBVIOUS
<1>2. \A q, r \in Int : q = n \div d /\ r = n % d => q * d + r = n OBVIOUS
<1>3. (n \div d) * d + (n % d) = n
    <2>1. n \div d \in Int /\ n % d \in Int BY <1>1
    <2> QED BY <1>2, <2>1, Zenon
<1>4. d <= n => n \div d >= 1 OBVIOUS
<1> QED BY <1>1, <1>3, <1>4

LEMMA ModZero ==
    ASSUME NEW n \in Nat, NEW d \in Nat \ {0}, n % d = 0
    PROVE  \E c \in Nat : n = c * d
<1>1. n \div d \in Nat /\ (n \div d) * d + (n % d) = n BY DivMod
<1>2. \A c \in Nat : c * d + 0 = c * d OBVIOUS
<1> QED BY <1>1, <1>2

LEMMA MultipleMod ==
    ASSUME NEW c \in Nat, NEW d \in Nat \ {0}
    PROVE  (c * d) % d = 0
<1> DEFINE n == c * d
<1>1. n \in Nat OBVIOUS
<1>2. \A q \in Nat, r \in 0 .. d - 1 : q * d + r = c * d => r = 0
    <2> SUFFICES ASSUME NEW q \in Nat, NEW r \in 0 .. d - 1, q * d + r = c * d
                 PROVE  r = 0
        OBVIOUS
    <2>1. CASE c <= q
        <3>1. c * d <= q * d BY <2>1
        <3> QED BY <3>1
    <2>2. CASE c >= q + 1
        <3>1. c * d >= (q + 1) * d BY <2>2
        <3>2. (q + 1) * d = q * d + d OBVIOUS
        <3> QED BY <3>1, <3>2
    <2> QED BY <2>1, <2>2
<1>3. n \div d \in Nat /\ n % d \in 0 .. d - 1 /\ (n \div d) * d + (n % d) = n
    <2> HIDE DEF n
    <2> QED BY <1>1, DivMod
<1> QED BY <1>2, <1>3

\* What divides d divides every multiple of d.
LEMMA DividesAll ==
    ASSUME NEW n \in Nat, NEW d \in Nat \ {0}, NEW e \in Nat \ {0}, n % d = 0, d % e = 0
    PROVE  n % e = 0
<1>1. PICK c \in Nat : n = c * d BY ModZero
<1>2. PICK f \in Nat : d = f * e BY ModZero
<1>3. n = (c * f) * e /\ c * f \in Nat BY <1>1, <1>2
<1> QED BY <1>3, MultipleMod

\* The least divisor of a number that is not prime is prime, and no more than
\* its square root.
LEMMA LeastDivisor ==
    ASSUME NEW n \in Nat, n >= 2, ~ IsPrime(n)
    PROVE  \E p \in 2 .. n - 1 : n % p = 0 /\ IsPrime(p) /\ p * p <= n
<1>1. PICK d \in 2 .. n - 1 : n % d = 0 BY DEF IsPrime
<1> DEFINE T == {m \in Nat : \A j \in 2 .. m : n % j # 0}
<1>2. 0 \in T OBVIOUS
<1>3. d \in Nat /\ d \notin T BY <1>1
<1>4. PICK m \in T : m + 1 \notin T
    <2> HIDE DEF T
    <2>1. T \in SUBSET Nat BY DEF T
    <2> QED BY <1>2, <1>3, <2>1, Induction
<1> DEFINE p == m + 1
<1>5. m \in Nat /\ \A j \in 2 .. m : n % j # 0 OBVIOUS
<1>6. PICK j \in 2 .. m + 1 : n % j = 0
    <2>1. m + 1 \in Nat BY <1>5
    <2>2. ~ \A j \in 2 .. m + 1 : n % j # 0 BY <1>4, <2>1
    <2> QED BY <2>2
<1>7. j = m + 1 BY <1>5, <1>6
<1>8. p \in Nat /\ p >= 2 /\ n % p = 0 BY <1>6, <1>7
<1>9. p <= d /\ p < n
    <2>1. ~ (d \in 2 .. m) BY <1>1, <1>5
    <2> QED BY <1>1, <1>5, <2>1
<1>10. IsPrime(p)
    <2> SUFFICES ASSUME NEW e \in 2 .. p - 1, p % e = 0 PROVE FALSE BY <1>8 DEF IsPrime
    <2>1. e \in Nat \ {0} /\ p \in Nat \ {0} BY <1>8
    <2> HIDE DEF p
    <2>2. n % e = 0 BY <1>8, <2>1, DividesAll
    <2> QED BY <1>5, <2>2 DEF p
<1>11. p * p <= n
    <2> HIDE DEF p
    <2>0. p \in Nat \ {0} /\ n % p = 0 BY <1>8
    <2>1. PICK c \in Nat : n = c * p BY <2>0, ModZero, Zenon
    <2>2. c >= 2
        <3>1. CASE c = 0 BY <2>1, <3>1, <1>8
        <3>2. CASE c = 1 BY <2>1, <3>2, <1>8, <1>9
        <3> QED BY <3>1, <3>2
    <2>3. n = p * c BY <1>8, <2>1
    <2>4. n % c = 0
        <3>1. p \in Nat /\ c \in Nat \ {0} BY <1>8, <2>2
        <3>2. (p * c) % c = 0 BY <3>1, MultipleMod
        <3> QED BY <2>3, <3>2
    <2>5. ~ (c \in 2 .. m) BY <1>5, <2>4
    <2>6. c >= p BY <1>5, <2>2, <2>5 DEF p
    <2>7. c * p >= p * p BY <1>8, <2>6
    <2> QED BY <2>1, <2>7
<1>12. p \in 2 .. n - 1 BY <1>8, <1>9
<1> QED BY <1>8, <1>10, <1>11, <1>12

(***************************************************************************)
(* The low primes.                                                         *)
(***************************************************************************)

\* LowLimit(end) is the square root of end, rounded up.
LEMMA LowLimitBound ==
    ASSUME NEW end \in Nat, end >= 1
    PROVE  /\ LowLimit(end) \in 1 .. end
           /\ LowLimit(end) * LowLimit(end) >= end
<1> DEFINE T == {m \in Nat : m * m < end}
<1>1. 0 \in T BY 0 * 0 = 0
<1>2. end \in Nat /\ end \notin T
    <2>1. end * end >= end OBVIOUS
    <2> QED BY <2>1
<1>3. PICK m \in T : m + 1 \notin T
    <2> HIDE DEF T
    <2>1. T \in SUBSET Nat BY DEF T
    <2> QED BY <1>1, <1>2, <2>1, Induction
<1>4. m \in Nat /\ m * m < end OBVIOUS
<1>5. (m + 1) * (m + 1) >= end
    <2>1. m + 1 \in Nat /\ (m + 1) * (m + 1) \in Nat BY <1>4
    <2>2. ~ ((m + 1) * (m + 1) < end) BY <1>3, <2>1
    <2> QED BY <2>1, <2>2
<1>6. m <= m * m BY <1>4
<1>7. m + 1 \in 1 .. end BY <1>4, <1>6
<1>8. (m + 1) - 1 = m BY <1>4
<1>9. \E n \in 1 .. end : n * n >= end /\ (n - 1) * (n - 1) < end
    BY <1>4, <1>5, <1>7, <1>8
<1> DEFINE good(n) == n * n >= end /\ (n - 1) * (n - 1) < end
<1> HIDE DEF good
<1>10. \E n \in 1 .. end : good(n) BY <1>9 DEF good
<1>11. LowLimit(end) \in 1 .. end /\ good(LowLimit(end))
    <2>1. LowLimit(end) = CHOOSE n \in 1 .. end : good(n) BY DEF LowLimit, good
    <2> QED BY <1>10, <2>1
<1> QED BY <1>11 DEF good

\* Every prime below the square root is one of the low primes.
LEMMA LowPrimesAll ==
    ASSUME NEW end \in Nat, end >= 2, NEW p \in Nat, IsPrime(p), p * p < end
    PROVE  p \in LowPrimes(end)
<1> DEFINE limit == LowLimit(end)
           below == limit - 1
<1>1. limit \in Nat /\ limit * limit >= end BY LowLimitBound
<1>2. p >= 2 BY DEF IsPrime
<1>3. p < limit
    <2> HIDE DEF limit
    <2> SUFFICES ASSUME p >= limit PROVE FALSE BY <1>1
    <2>1. p * p >= limit * limit BY <1>1
    <2> QED BY <1>1, <2>1
<1> HIDE DEF limit
<1>4. p \in 2 .. below BY <1>1, <1>2, <1>3
<1>5. below \in Nat /\ below >= 1 BY <1>1, <1>2, <1>3
<1>6. LowLimit(below) \in Nat BY <1>5, LowLimitBound
<1>7. ASSUME NEW i \in 2 .. LowLimit(below), p >= i * i PROVE p % i # 0
    <2>1. i \in Nat /\ i >= 2 BY <1>6
    <2>2. i * i > i BY <2>1
    <2>3. i \in 2 .. p - 1 BY <1>7, <2>1, <2>2
    <2> QED BY <2>3 DEF IsPrime
<1> QED BY <1>4, <1>7 DEF LowPrimes, limit

(***************************************************************************)
(* Crossing out: p crosses out its multiples, and not itself.              *)
(***************************************************************************)
LEMMA RoundedUpBound ==
    ASSUME NEW start \in Nat, NEW p \in Nat \ {0}
    PROVE  \E q \in Nat : /\ RoundedUp(start, p) = q * p
                          /\ start <= q * p /\ q * p <= start + p - 1
<1> DEFINE n == start + p - 1
<1>1. n \in Nat OBVIOUS
<1> HIDE DEF n
<1>2. n \div p \in Nat /\ n % p \in 0 .. p - 1 /\ (n \div p) * p + (n % p) = n BY <1>1, DivMod
<1>3. \A q \in Nat, r \in 0 .. p - 1 : q * p + r = n => start <= q * p /\ q * p <= n
    <2> SUFFICES ASSUME NEW q \in Nat, NEW r \in 0 .. p - 1, q * p + r = n
                 PROVE  start <= q * p /\ q * p <= n
        OBVIOUS
    <2>1. q * p \in Nat OBVIOUS
    <2> QED BY <2>1 DEF n
<1>4. RoundedUp(start, p) = (n \div p) * p BY DEF RoundedUp, n
<1>5. start <= (n \div p) * p /\ (n \div p) * p <= n BY <1>2, <1>3
<1> QED BY <1>2, <1>4, <1>5 DEF n

LEMMA CrossedOutMultiples ==
    ASSUME NEW start \in Nat \ {0}, NEW n \in Nat, n >= start, NEW p \in Nat \ {0}
    PROVE  CrossedOut(start, n - start, p) <=> n % p = 0 /\ n # p
<1>1. PICK q \in Nat : /\ RoundedUp(start, p) = q * p
                       /\ start <= q * p /\ q * p <= start + p - 1
    BY RoundedUpBound
<1>2. CASE start > p
    <2>1. FirstIndex(start, p) = q * p - start BY <1>1, <1>2 DEF FirstIndex
    <2>2. CrossedOut(start, n - start, p) <=> n >= q * p /\ (n - q * p) % p = 0
        <3>1. (n - start >= q * p - start) <=> n >= q * p BY <1>1
        <3>2. n - start - (q * p - start) = n - q * p BY <1>1
        <3> QED BY <2>1, <3>1, <3>2 DEF CrossedOut
    <2>3. ASSUME n >= q * p, (n - q * p) % p = 0 PROVE n % p = 0
        <3>1. n - q * p \in Nat BY <2>3
        <3>2. PICK c \in Nat : n - q * p = c * p BY <2>3, <3>1, ModZero
        <3>3. n = (c + q) * p /\ c + q \in Nat BY <3>2
        <3> QED BY <3>3, MultipleMod
    <2>4. ASSUME n % p = 0 PROVE n >= q * p /\ (n - q * p) % p = 0
        <3>1. PICK c \in Nat : n = c * p BY <2>4, ModZero
        <3>2. c >= q
            <4> SUFFICES ASSUME c <= q - 1 PROVE FALSE OBVIOUS
            <4>1. c * p <= (q - 1) * p OBVIOUS
            <4>2. (q - 1) * p = q * p - p OBVIOUS
            <4> QED BY <1>1, <3>1, <4>1, <4>2
        <3>3. n - q * p = (c - q) * p /\ c - q \in Nat BY <3>1, <3>2
        <3>4. c * p >= q * p BY <3>2
        <3> QED BY <3>1, <3>3, <3>4, MultipleMod
    <2> QED BY <1>2, <2>2, <2>3, <2>4
<1>3. CASE start <= p
    <2>1. q = 1
        <3>1. CASE q = 0 BY <1>1, <3>1
        <3>2. CASE q >= 2
            <4>1. q * p >= 2 * p BY <3>2
            <4> QED BY <1>1, <1>3, <4>1
        <3> QED BY <3>1, <3>2
    <2>2. FirstIndex(start, p) = 2 * p - start
        <3>1. RoundedUp(start, p) = p BY <1>1, <2>1
        <3> QED BY <1>3, <3>1 DEF FirstIndex
    <2>3. CrossedOut(start, n - start, p) <=> n >= 2 * p /\ (n - 2 * p) % p = 0
        <3>1. (n - start >= 2 * p - start) <=> n >= 2 * p OBVIOUS
        <3>2. n - start - (2 * p - start) = n - 2 * p OBVIOUS
        <3> QED BY <2>2, <3>1, <3>2 DEF CrossedOut
    <2>4. ASSUME n >= 2 * p, (n - 2 * p) % p = 0 PROVE n % p = 0 /\ n # p
        <3>1. n - 2 * p \in Nat BY <2>4
        <3>2. PICK c \in Nat : n - 2 * p = c * p BY <2>4, <3>1, ModZero
        <3>3. n = (c + 2) * p /\ c + 2 \in Nat BY <3>2
        <3> QED BY <2>4, <3>3, MultipleMod
    <2>5. ASSUME n % p = 0, n # p PROVE n >= 2 * p /\ (n - 2 * p) % p = 0
        <3>1. PICK c \in Nat : n = c * p BY <2>5, ModZero
        <3>2. c >= 2
            <4>1. CASE c = 0 BY <3>1, <4>1
            <4>2. CASE c = 1 BY <2>5, <3>1, <4>2
            <4> QED BY <4>1, <4>2
        <3>3. n - 2 * p = (c - 2) * p /\ c - 2 \in Nat BY <3>1, <3>2
        <3>4. c * p >= 2 * p BY <3>2
        <3> QED BY <3>1, <3>3, <3>4, MultipleMod
    <2> QED BY <2>3, <2>4, <2>5
<1> QED BY <1>2, <1>3

(***************************************************************************)
(* The segment: what is left of it are its primes, and its end when that   *)
(* is the square of a prime.  Word 1 of the array of low primes, when it   *)
(* is not 0, crosses out everything, so the memory must spare it.          *)
(***************************************************************************)
MemorySparesOne == \A leftover \in Leftovers : 1 \notin leftover

RightlyLeft(n, end) ==
    IsPrime(n) \/ (n = end /\ \E p \in 2 .. n : p * p = n /\ IsPrime(p))

LEMMA HighPrimesRight ==
    ASSUME NEW start \in Nat, NEW end \in Nat, start >= 2, start <= end,
           MemorySparesOne,
           NEW low \in LowPrimesRead(end), 0 \notin low,
           NEW n \in start .. end
    PROVE  IF n \in HighPrimes(start, end, low) THEN RightlyLeft(n, end) ELSE ~ IsPrime(n)
<1>1. LowPrimes(end) \subseteq low /\ \A p \in low : p \in Nat /\ p >= 2
    <2>1. PICK leftover \in Leftovers :
              low = LowPrimes(end) \cup ((leftover \cap 0 .. end - 1) \ 2 .. LowLimit(end) - 1)
        BY DEF LowPrimesRead
    <2>2. 1 \notin leftover BY DEF MemorySparesOne
    <2>3. LowLimit(end) \in Nat BY LowLimitBound
    <2>4. \A p \in LowPrimes(end) : p \in Nat /\ p >= 2 BY <2>3 DEF LowPrimes
    <2>5. \A p \in leftover \cap 0 .. end - 1 : p \in Nat /\ p # 1 BY <2>2
    <2>6. \A p \in low : p # 0 OBVIOUS
    <2> HIDE DEF LowPrimes
    <2> QED BY <2>1, <2>4, <2>5, <2>6
<1>2. n \in Nat /\ n >= 2 /\ n >= start /\ start \in Nat \ {0} OBVIOUS
<1>3. n \in HighPrimes(start, end, low) <=> \A p \in low : ~ (n % p = 0 /\ n # p)
    <2>1. \A p \in low : CrossedOut(start, n - start, p) <=> n % p = 0 /\ n # p
        BY <1>1, <1>2, CrossedOutMultiples
    <2>2. n - start \in 0 .. end - start /\ start + (n - start) = n OBVIOUS
    <2>3. \A j \in 0 .. end - start : start + j = n => j = n - start OBVIOUS
    <2>4. n \in HighPrimes(start, end, low) <=> \A p \in low : ~ CrossedOut(start, n - start, p)
        BY <2>2, <2>3 DEF HighPrimes
    <2> QED BY <2>1, <2>4
<1>4. ASSUME n \notin HighPrimes(start, end, low) PROVE ~ IsPrime(n)
    <2>1. PICK p \in low : n % p = 0 /\ n # p BY <1>3, <1>4
    <2>2. p \in Nat /\ p >= 2 BY <1>1
    <2>3. PICK c \in Nat : n = c * p BY <1>2, <2>1, <2>2, ModZero
    <2>4. c >= 2
        <3>1. c # 0 BY <1>2, <2>2, <2>3
        <3>2. c # 1 BY <2>1, <2>2, <2>3
        <3> QED BY <3>1, <3>2
    <2>5. n > p
        <3>1. c * p >= 2 * p BY <2>2, <2>4
        <3> QED BY <2>2, <2>3, <3>1
    <2>6. p \in 2 .. n - 1 BY <2>2, <2>5
    <2> QED BY <2>1, <2>6 DEF IsPrime
<1>5. ASSUME n \in HighPrimes(start, end, low), ~ IsPrime(n)
      PROVE  n = end /\ \E p \in 2 .. n : p * p = n /\ IsPrime(p)
    <2>1. PICK p \in 2 .. n - 1 : n % p = 0 /\ IsPrime(p) /\ p * p <= n
        BY <1>2, <1>5, LeastDivisor
    <2>2. p \in Nat /\ n # p BY <1>2
    <2>3. p \notin low BY <1>3, <1>5, <2>1, <2>2
    <2>4. ~ (p * p < end) BY <1>1, <1>2, <2>1, <2>2, <2>3, LowPrimesAll
    <2>5. p * p \in Nat /\ n <= end BY <2>2
    <2>6. p * p = n /\ n = end BY <1>2, <2>1, <2>4, <2>5
    <2> QED BY <2>1, <2>6
<1> QED BY <1>4, <1>5 DEF RightlyLeft

(***************************************************************************)
(* The inductive invariant.                                                *)
(***************************************************************************)

\* The threads that exist are the first ones.
Born == \A k \in Threads : k < started <=> pc[k] # "unborn"

\* How many threads main creates.
Wanted == IF program = "mtsieve" THEN t ELSE 2

InOrder ==
    /\ main = "options" => program = "mtsieve"
    /\ main \in {"options", "init"} => started = 0
    /\ main = "create" => started < Wanted
    /\ main \in {"join", "returned"} =>
           started = Wanted \/ (program = "mtsumarray" /\ unmade /\ started < Wanted)

\* What main printed it printed last, with every thread joined.
PrintedLast ==
    /\ printed = IF main = "returned" THEN <<total>> ELSE <<>>
    /\ main = "returned" => Joined

\* The mutex belongs to the one thread between lock and unlock; what it has
\* loaded is still the total; the total is what the threads past the store
\* have computed.
Locked == \A k \in Threads : k \in Adding <=> owner = k
Loaded == \A k \in Threads : pc[k] = "store" => loaded[k] = total
Stored == {k \in Threads : pc[k] \in {"unlock", "done"}}
Totalled == total = TotalOf(Stored)

\* What a thread adds.
Sieved(k) ==
    \E low \in LowPrimesRead(targs[k].end) :
        0 \notin low /\ high_primes[k] = HighPrimes(targs[k].start, targs[k].end, low)
Found(k) == {n \in high_primes[k] : TwoThrees(n)}
Counted ==
    \A k \in Threads : pc[k] \notin {"unborn", "compute"} =>
        IF program = "mtsieve"
        THEN Sieved(k) /\ amount[k] = Cardinality(Found(k))
        ELSE amount[k] = SumOf(Share(k))

\* The segments handed out, and what is left to hand out.
Tiled ==
    program = "mtsieve" =>
        /\ \A k \in Threads : k < started =>
               targs[k].start <= targs[k].end /\ targs[k].end < temp_start
        /\ \A j, k \in Threads : j < k /\ k < started => targs[j].end < targs[k].start
InSome(n) == \E k \in Threads : k < started /\ targs[k].start <= n /\ n <= targs[k].end
Cut ==
    program = "mtsieve" /\ main \in {"init", "create", "join", "returned"} =>
        /\ 2 <= a /\ a <= b /\ 1 <= t /\ t <= 2 * NPROCS
        /\ 1 <= thread_length /\ thread_length_remainder <= t - started
        /\ temp_start + thread_length * (t - started) + thread_length_remainder = b + 1
        /\ started = 0 => temp_start = a
        /\ a <= temp_start
        /\ \A n \in Nat : InSome(n) <=> a <= n /\ n < temp_start
        /\ \A k \in Threads : k < started =>
               targs[k].end + 1 - targs[k].start \in {thread_length, thread_length + 1}

IInv ==
    /\ TypeOK
    /\ Born /\ InOrder /\ PrintedLast
    /\ Locked /\ Loaded /\ Totalled
    /\ Counted /\ Tiled /\ Cut

(***************************************************************************)
(* Operators of the model.                                                 *)
(***************************************************************************)
LEMMA ThreadsFinite == Threads \subseteq 0 .. MaxThreads - 1 /\ Threads \subseteq Nat
BY MutexRunAssumption DEF Threads

LEMMA HighPrimesType ==
    ASSUME NEW start \in Nat, NEW end \in Nat, NEW low
    PROVE  /\ HighPrimes(start, end, low) \in SUBSET Nat
           /\ IsFiniteSet(HighPrimes(start, end, low))
<1> DEFINE H == HighPrimes(start, end, low)
<1>1. H \subseteq start .. end BY DEF HighPrimes
<1>2. IsFiniteSet(start .. end) BY FS_Interval
<1> QED BY <1>1, <1>2, FS_Subset DEF HighPrimes

LEMMA FoundType ==
    ASSUME NEW S, IsFiniteSet(S)
    PROVE  Cardinality({n \in S : TwoThrees(n)}) \in Nat
<1>1. {n \in S : TwoThrees(n)} \subseteq S OBVIOUS
<1> QED BY <1>1, FS_Subset, FS_CardinalityType

LEMMA ShareSum == ASSUME NEW S PROVE SumOf(S) \in Nat
<1>1. \A i \in 0 .. num_values - 1 : i \in S => Array[i] \in Nat BY ThreadSumAssumption
<1> QED BY <1>1, SumType, ThreadSumAssumption DEF SumOf

LEMMA TotalType ==
    ASSUME TypeOK, NEW S PROVE TotalOf(S) \in Nat
<1>1. \A i \in 0 .. MaxThreads - 1 : i \in S => amount[i] \in Nat
    BY DEF TypeOK, RunTypeOK, Threads
<1> QED BY <1>1, SumType, MutexRunAssumption DEF TotalOf

\* A step that leaves the amounts of the threads past the store alone, and
\* takes none past it, leaves the total right.
LEMMA TotalKept ==
    ASSUME Totalled, total' = total, Stored' = Stored,
           \A k \in Stored : amount'[k] = amount[k]
    PROVE  Totalled'
<1>1. \A i \in 0 .. MaxThreads - 1 : /\ i \in Stored <=> i \in Stored'
                                     /\ i \in Stored => amount[i] = amount'[i]
    OBVIOUS
<1> HIDE DEF Stored
<1>2. SumBelow(MaxThreads, Stored, amount) = SumBelow(MaxThreads, Stored', amount')
    BY <1>1, SumSame, MutexRunAssumption
<1> QED BY <1>2 DEF Totalled, TotalOf

(***************************************************************************)
(* The steps of the threads.                                               *)
(***************************************************************************)
LEMMA LockInv ==
    ASSUME IInv, NEW k \in Threads, Lock(k), UNCHANGED <<sieveVars, program>>
    PROVE  IInv'
<1> USE DEF Lock, IInv, sieveVars, argVars, segVars
<1>1. TypeOK' BY DEF TypeOK, RunTypeOK, SieveTypeOK
<1>2. Born' /\ InOrder' BY DEF TypeOK, RunTypeOK, Born, InOrder, Wanted, t
<1>3. PrintedLast' BY DEF TypeOK, RunTypeOK, PrintedLast, Alive
<1>4. Locked' BY DEF TypeOK, RunTypeOK, Locked, Adding, Free, NoThread, Threads
<1>5. Loaded' BY DEF TypeOK, RunTypeOK, Loaded
<1>6. Totalled'
    <2>1. Stored' = Stored BY DEF TypeOK, RunTypeOK, Stored
    <2> QED BY <2>1, TotalKept
<1>7. Counted' BY DEF TypeOK, RunTypeOK, Counted, Sieved, Found
<1>8. Tiled' BY DEF Tiled
<1>9. Cut' BY DEF Cut, InSome, a, b, t
<1> QED BY <1>1, <1>2, <1>3, <1>4, <1>5, <1>6, <1>7, <1>8, <1>9

LEMMA LoadInv ==
    ASSUME IInv, NEW k \in Threads, Load(k), UNCHANGED <<sieveVars, program>>
    PROVE  IInv'
<1> USE DEF Load, IInv, sieveVars, argVars, segVars
<1>1. TypeOK' BY DEF TypeOK, RunTypeOK, SieveTypeOK
<1>2. Born' /\ InOrder' BY DEF TypeOK, RunTypeOK, Born, InOrder, Wanted, t
<1>3. PrintedLast' BY DEF TypeOK, RunTypeOK, PrintedLast, Alive
<1>4. Locked' BY DEF TypeOK, RunTypeOK, Locked, Adding
<1>5. Loaded' BY DEF TypeOK, RunTypeOK, Loaded
<1>6. Totalled'
    <2>1. Stored' = Stored BY DEF TypeOK, RunTypeOK, Stored
    <2> QED BY <2>1, TotalKept
<1>7. Counted' BY DEF TypeOK, RunTypeOK, Counted, Sieved, Found
<1>8. Tiled' BY DEF Tiled
<1>9. Cut' BY DEF Cut, InSome, a, b, t
<1> QED BY <1>1, <1>2, <1>3, <1>4, <1>5, <1>6, <1>7, <1>8, <1>9

\* The thread holds the mutex, so no other has loaded a total.
LEMMA StoreInv ==
    ASSUME IInv, NEW k \in Threads, Store(k), UNCHANGED <<sieveVars, program>>
    PROVE  IInv'
<1> USE DEF Store, IInv, sieveVars, argVars, segVars
<1>1. TypeOK'
    <2>1. loaded[k] \in Nat /\ amount[k] \in Nat BY DEF TypeOK, RunTypeOK
    <2>2. loaded[k] + amount[k] \in Nat BY <2>1
    <2> QED BY <2>2 DEF TypeOK, RunTypeOK, SieveTypeOK
<1>2. Born' /\ InOrder' BY DEF TypeOK, RunTypeOK, Born, InOrder, Wanted, t
<1>3. PrintedLast' BY DEF TypeOK, RunTypeOK, PrintedLast, Alive
<1>4. Locked' BY DEF TypeOK, RunTypeOK, Locked, Adding
<1>5. Loaded'
    <2>1. \A j \in Threads : pc[j] = "store" => j = k BY DEF Locked, Adding
    <2> QED BY <2>1 DEF TypeOK, RunTypeOK, Loaded
<1>6. Totalled'
    <2>1. Stored' = Stored \cup {k} /\ k \notin Stored BY DEF TypeOK, RunTypeOK, Stored
    <2>2. total' = total + amount[k] BY DEF Loaded
    <2>3. k \in 0 .. MaxThreads - 1 BY ThreadsFinite
    <2>4. \A i \in 0 .. MaxThreads - 1 : amount[i] \in Int
        BY DEF TypeOK, RunTypeOK, Threads
    <2> HIDE DEF IInv
    <2>5. SumBelow(MaxThreads, Stored \cup {k}, amount) =
              SumBelow(MaxThreads, Stored, amount) + amount[k]
        BY <2>1, <2>3, <2>4, SumAdd, MutexRunAssumption
    <2> QED BY <2>1, <2>2, <2>5 DEF IInv, Totalled, TotalOf
<1>7. Counted' BY DEF TypeOK, RunTypeOK, Counted, Sieved, Found
<1>8. Tiled' BY DEF Tiled
<1>9. Cut' BY DEF Cut, InSome, a, b, t
<1> QED BY <1>1, <1>2, <1>3, <1>4, <1>5, <1>6, <1>7, <1>8, <1>9

LEMMA UnlockInv ==
    ASSUME IInv, NEW k \in Threads, Unlock(k), UNCHANGED <<sieveVars, program>>
    PROVE  IInv'
<1> USE DEF Unlock, IInv, sieveVars, argVars, segVars
<1>1. TypeOK' BY DEF TypeOK, RunTypeOK, SieveTypeOK, NoOwner
<1>2. Born' /\ InOrder' BY DEF TypeOK, RunTypeOK, Born, InOrder, Wanted, t
<1>3. PrintedLast' BY DEF TypeOK, RunTypeOK, PrintedLast, Alive
<1>4. Locked'
    <2>1. \A j \in Threads : j \in Adding => j = k BY DEF Locked, Adding
    <2> QED BY <2>1 DEF TypeOK, RunTypeOK, Locked, Adding, NoOwner, NoThread, Threads
<1>5. Loaded' BY DEF TypeOK, RunTypeOK, Loaded
<1>6. Totalled'
    <2>1. Stored' = Stored BY DEF TypeOK, RunTypeOK, Stored
    <2> QED BY <2>1, TotalKept
<1>7. Counted' BY DEF TypeOK, RunTypeOK, Counted, Sieved, Found
<1>8. Tiled' BY DEF Tiled
<1>9. Cut' BY DEF Cut, InSome, a, b, t
<1> QED BY <1>1, <1>2, <1>3, <1>4, <1>5, <1>6, <1>7, <1>8, <1>9

\* A thread that has its amount has not stored it.
LEMMA ComputedInv ==
    ASSUME IInv, NEW k \in Threads, NEW n \in Nat, Computed(k, n),
           UNCHANGED <<argVars, segVars, program>>,
           high_primes' \in [Threads -> SUBSET Nat],
           \A j \in Threads : j # k => high_primes'[j] = high_primes[j],
           IF program = "mtsieve"
           THEN Sieved(k)' /\ n = Cardinality(Found(k)')
           ELSE n = SumOf(Share(k))
    PROVE  IInv'
<1> USE DEF Computed, IInv, argVars, segVars
<1>1. TypeOK' BY DEF TypeOK, RunTypeOK, SieveTypeOK
<1>2. Born' /\ InOrder' BY DEF TypeOK, RunTypeOK, Born, InOrder, Wanted, t
<1>3. PrintedLast' BY DEF TypeOK, RunTypeOK, PrintedLast, Alive
<1>4. Locked' BY DEF TypeOK, RunTypeOK, Locked, Adding
<1>5. Loaded' BY DEF TypeOK, RunTypeOK, Loaded
<1>6. Totalled'
    <2>1. Stored' = Stored BY DEF TypeOK, RunTypeOK, Stored
    <2>2. \A j \in Stored : amount'[j] = amount[j] BY DEF TypeOK, RunTypeOK, Stored
    <2> QED BY <2>1, <2>2, TotalKept
<1>7. Counted'
    <2> SUFFICES ASSUME NEW j \in Threads, pc'[j] \notin {"unborn", "compute"}
                 PROVE  IF program = "mtsieve"
                        THEN Sieved(j)' /\ amount'[j] = Cardinality(Found(j)')
                        ELSE amount'[j] = SumOf(Share(j))
        BY DEF Counted
    <2>1. CASE j = k BY <2>1 DEF TypeOK, RunTypeOK
    <2>2. CASE j # k
        <3>1. amount'[j] = amount[j] /\ high_primes'[j] = high_primes[j] /\ pc'[j] = pc[j]
            BY <2>2 DEF TypeOK, RunTypeOK
        <3> QED BY <3>1 DEF Counted, Sieved, Found
    <2> QED BY <2>1, <2>2
<1>8. Tiled' BY DEF Tiled
<1>9. Cut' BY DEF Cut, InSome, a, b, t
<1> QED BY <1>1, <1>2, <1>3, <1>4, <1>5, <1>6, <1>7, <1>8, <1>9

LEMMA SieveSegmentInv ==
    ASSUME IInv, program = "mtsieve", NEW k \in Threads, SieveSegment(k), UNCHANGED program
    PROVE  IInv'
<1> PICK low \in LowPrimesRead(targs[k].end) :
       \/ /\ 0 \notin low
          /\ high_primes' = [high_primes EXCEPT ![k] =
                                 HighPrimes(targs[k].start, targs[k].end, low)]
          /\ Computed(k, Cardinality({n \in high_primes'[k] : TwoThrees(n)}))
          /\ UNCHANGED <<argVars, segVars>>
       \/ /\ 0 \in low
          /\ main' = "crashed"
          /\ UNCHANGED <<threadVars, total, printed, sieveVars>>
    BY DEF SieveSegment
<1>1. CASE 0 \notin low
    <2> DEFINE high == HighPrimes(targs[k].start, targs[k].end, low)
    <2>1. /\ high_primes' = [high_primes EXCEPT ![k] = high]
          /\ Computed(k, Cardinality({n \in high_primes'[k] : TwoThrees(n)}))
          /\ UNCHANGED <<argVars, segVars>>
        BY <1>1
    <2>2. high \in SUBSET Nat /\ IsFiniteSet(high)
        BY HighPrimesType DEF IInv, TypeOK, SieveTypeOK
    <2>3. high_primes' \in [Threads -> SUBSET Nat] /\ high_primes'[k] = high
        BY <2>1, <2>2 DEF IInv, TypeOK, SieveTypeOK
    <2>4. Cardinality({n \in high_primes'[k] : TwoThrees(n)}) \in Nat
        BY <2>2, <2>3, FoundType
    <2>5. Sieved(k)' BY <1>1, <2>1, <2>3 DEF Sieved, segVars
    <2>6. \A j \in Threads : j # k => high_primes'[j] = high_primes[j]
        BY <2>1 DEF IInv, TypeOK, SieveTypeOK
    <2> QED BY <2>1, <2>3, <2>4, <2>5, <2>6, ComputedInv DEF Found
<1>2. CASE 0 \in low
    <2>1. main' = "crashed" /\ UNCHANGED <<threadVars, total, printed, sieveVars>> BY <1>2
    <2>2. Alive BY DEF SieveSegment
    <2> USE <2>1, <2>2 DEF IInv, sieveVars, argVars, segVars, threadVars
    <2>3. TypeOK' BY DEF TypeOK, RunTypeOK, SieveTypeOK
    <2>4. Born' /\ InOrder' /\ PrintedLast' BY DEF Born, InOrder, PrintedLast, Alive
    <2>5. Locked' /\ Loaded' BY DEF Locked, Adding, Loaded
    <2>6. Totalled' BY TotalKept DEF Stored
    <2>7. Counted' BY DEF Counted, Sieved, Found
    <2>8. Tiled' /\ Cut' BY DEF Tiled, Cut
    <2> QED BY <2>3, <2>4, <2>5, <2>6, <2>7, <2>8
<1> QED BY <1>1, <1>2

(***************************************************************************)
(* The steps of main.                                                      *)
(***************************************************************************)

\* A step of main that moves it on, and does nothing else the threads see.
LEMMA ThreadsKept ==
    ASSUME IInv, UNCHANGED <<threadVars, total, high_primes, targs, program>>
    PROVE  Born' /\ Locked' /\ Loaded' /\ Totalled' /\ Counted'
<1> USE DEF IInv, threadVars
<1>1. Born' BY DEF Born
<1>2. Locked' /\ Loaded' BY DEF Locked, Adding, Loaded
<1>3. Totalled' BY TotalKept DEF Stored
<1>4. Counted' BY DEF Counted, Sieved, Found
<1> QED BY <1>1, <1>2, <1>3, <1>4

LEMMA MutexInitInv ==
    ASSUME IInv, MutexInit, UNCHANGED <<sieveVars, program>>
    PROVE  IInv'
<1> USE DEF IInv, MutexInit, sieveVars, argVars, segVars, threadVars
<1>0. started < Wanted BY DEF InOrder, Cut, Wanted, TypeOK, SieveTypeOK, t
<1>1. TypeOK' BY DEF TypeOK, RunTypeOK, SieveTypeOK
<1>2. InOrder' /\ PrintedLast' BY <1>0 DEF InOrder, PrintedLast, Wanted, t
<1>3. Tiled' /\ Cut' BY DEF Tiled, Cut, InSome, a, b, t
<1> QED BY <1>1, <1>2, <1>3, ThreadsKept

LEMMA FinishInv ==
    ASSUME IInv, Finish, UNCHANGED <<sieveVars, program>>
    PROVE  IInv'
<1> USE DEF IInv, Finish, sieveVars, argVars, segVars, threadVars
<1>1. TypeOK'
    <2>1. RunTypeOK' BY DEF TypeOK, RunTypeOK
    <2>2. SieveTypeOK' BY DEF TypeOK, SieveTypeOK
    <2> QED BY <2>1, <2>2 DEF TypeOK
<1>2. InOrder' /\ PrintedLast' BY DEF InOrder, PrintedLast, Wanted, t, Joined
<1>3. Tiled' /\ Cut' BY DEF Tiled, Cut, InSome, a, b, t
<1> QED BY <1>1, <1>2, <1>3, ThreadsKept

LEMMA JoinUnmadeInv ==
    ASSUME IInv, JoinUnmade, UNCHANGED <<sieveVars, program>>
    PROVE  IInv'
<1> USE DEF IInv, JoinUnmade, sieveVars, argVars, segVars, threadVars
<1>1. TypeOK' BY DEF TypeOK, RunTypeOK, SieveTypeOK
<1>2. InOrder' /\ PrintedLast' BY DEF InOrder, PrintedLast, Wanted, t
<1>3. Tiled' /\ Cut' BY DEF Tiled, Cut, InSome, a, b, t
<1> QED BY <1>1, <1>2, <1>3, ThreadsKept

LEMMA ReadOptionInv ==
    ASSUME IInv, ReadOption, UNCHANGED program
    PROVE  IInv'
<1> USE DEF IInv, ReadOption, segVars, threadVars
<1>1. TypeOK'
    <2>1. Head(opts) \in Options /\ Tail(opts) \in Seq(Options)
        BY DEF TypeOK, SieveTypeOK
    <2>2. arg' \in [{"s", "e", "t"} -> Nat]
        BY <2>1 DEF TypeOK, SieveTypeOK, Options
    <2>3. main' \in {"options", "failed"} BY DEF Fail
    <2>4. given' \subseteq {"s", "e", "t", "arg", "?"}
        BY <2>1 DEF TypeOK, SieveTypeOK, Options
    <2> QED BY <2>1, <2>2, <2>3, <2>4 DEF TypeOK, RunTypeOK, SieveTypeOK
<1>2. InOrder' /\ PrintedLast' BY DEF InOrder, PrintedLast, Fail
<1>3. Tiled' /\ Cut' BY DEF Tiled, Cut, InOrder, Fail
<1> QED BY <1>1, <1>2, <1>3, ThreadsKept

LEMMA CheckArgumentsInv ==
    ASSUME IInv, program = "mtsieve", CheckArguments, UNCHANGED program
    PROVE  IInv'
<1> USE DEF IInv, CheckArguments, threadVars
<1>1. CASE AcceptsArguments
    <2> DEFINE threads == IF b - a + 1 < t THEN b - a + 1 ELSE t
               size == b - a + 1
    <2>1. /\ main' = "init"
          /\ arg' = [arg EXCEPT !["t"] = threads]
          /\ thread_length' = size \div threads
          /\ thread_length_remainder' = size % threads
          /\ temp_start' = a
        BY <1>1
    <2>2. a \in Nat /\ b \in Nat /\ t \in Nat BY DEF TypeOK, SieveTypeOK, a, b, t
    <2>3. 2 <= a /\ a <= b /\ 1 <= t /\ t <= 2 * NPROCS BY <1>1, <2>2 DEF AcceptsArguments
    <2>4. /\ size \in Nat /\ threads \in Nat \ {0}
          /\ threads <= size /\ threads <= 2 * NPROCS
        BY <2>2, <2>3, SieveAssumption
    <2>5. a' = a /\ b' = b /\ t' = threads BY <2>1 DEF TypeOK, SieveTypeOK, a, b, t
    <2>6. started = 0 BY DEF InOrder
    <2> HIDE DEF threads
    <2> DEFINE L == size \div threads
               R == size % threads
    <2>7. L \in Nat /\ R \in Nat /\ R <= threads /\ L * threads + R = size /\ L >= 1
        <3> HIDE DEF size
        <3>1. /\ L \in Nat /\ R \in 0 .. threads - 1
              /\ L * threads + R = size
              /\ threads <= size => L >= 1
            BY <2>4, DivMod
        <3> QED BY <2>4, <3>1
    <2>8. thread_length' = L /\ thread_length_remainder' = R BY <2>1
    <2> HIDE DEF L, R
    <2>9. TypeOK'
        BY <2>1, <2>2, <2>4, <2>7, <2>8 DEF TypeOK, RunTypeOK, SieveTypeOK, AcceptsArguments
    <2>10. InOrder' /\ PrintedLast' BY <2>1, <2>6 DEF InOrder, PrintedLast
    <2>11. Tiled' BY <2>6 DEF Tiled, TypeOK, Threads
    <2>12. Cut'
        <3>1. temp_start' + thread_length' * (t' - started') + thread_length_remainder' = b' + 1
            BY <2>1, <2>2, <2>4, <2>5, <2>6, <2>7, <2>8
        <3>2. \A n : ~ InSome(n)' BY <2>6 DEF InSome, Threads
        <3>3. \A n \in Nat : InSome(n)' <=> a' <= n /\ n < temp_start'
            BY <2>1, <2>2, <2>5, <3>2
        <3>4. \A k \in Threads : ~ (k < started') BY <2>6 DEF Threads
        <3> QED BY <2>1, <2>2, <2>3, <2>4, <2>5, <2>6, <2>7, <2>8, <3>1, <3>3, <3>4 DEF Cut
    <2> QED BY <2>9, <2>10, <2>11, <2>12, ThreadsKept
<1>2. CASE ~ AcceptsArguments
    <2>1. main' = "failed" BY <1>2 DEF Fail
    <2>2. UNCHANGED <<arg, thread_length, thread_length_remainder, temp_start>> BY <1>2
    <2>3. TypeOK' BY <2>1, <2>2 DEF TypeOK, RunTypeOK, SieveTypeOK
    <2>4. InOrder' /\ PrintedLast' BY <2>1 DEF InOrder, PrintedLast
    <2>5. Tiled' /\ Cut' BY <2>1, <2>2 DEF Tiled, Cut
    <2> QED BY <2>3, <2>4, <2>5, ThreadsKept
<1> QED BY <1>1, <1>2

\* The new thread is the first that does not exist.
LEMMA CreatedKept ==
    ASSUME IInv, NEW n, Created(n), n = Wanted, UNCHANGED <<high_primes, program>>,
           \A k \in Threads : k # started => targs'[k] = targs[k]
    PROVE  /\ RunTypeOK' /\ Born' /\ PrintedLast' /\ Locked' /\ Loaded' /\ Totalled' /\ Counted'
           /\ started \in Threads /\ started < n
<1> USE DEF IInv, Created
<1>1. started < n /\ n \in Nat /\ n <= MaxThreads
    BY MutexRunAssumption, SieveAssumption DEF TypeOK, SieveTypeOK, InOrder, Cut, Wanted, t
<1>2. started \in Threads BY <1>1, MutexRunAssumption DEF TypeOK, RunTypeOK, Threads
<1>3. RunTypeOK'
    BY <1>1, <1>2, MutexRunAssumption DEF TypeOK, RunTypeOK, AfterCreate
<1>4. Born' BY <1>2 DEF TypeOK, RunTypeOK, Born, Threads
<1>5. PrintedLast' BY DEF PrintedLast, AfterCreate
<1>6. pc[started] = "unborn" BY <1>2 DEF Born, TypeOK, RunTypeOK
<1>7. Locked' /\ Loaded' BY <1>2, <1>6 DEF TypeOK, RunTypeOK, Locked, Adding, Loaded
<1>8. Totalled'
    <2>1. Stored' = Stored BY <1>2, <1>6 DEF TypeOK, RunTypeOK, Stored
    <2> QED BY <2>1, TotalKept
<1>9. Counted'
    <2> SUFFICES ASSUME NEW k \in Threads, pc'[k] \notin {"unborn", "compute"}
                 PROVE  IF program = "mtsieve"
                        THEN Sieved(k)' /\ amount'[k] = Cardinality(Found(k)')
                        ELSE amount'[k] = SumOf(Share(k))
        BY DEF Counted
    <2>1. k # started /\ pc[k] = pc'[k] BY <1>2 DEF TypeOK, RunTypeOK
    <2>2. targs'[k] = targs[k] BY <2>1
    <2> QED BY <2>1, <2>2 DEF Counted, Sieved, Found
<1> QED BY <1>1, <1>2, <1>3, <1>4, <1>5, <1>7, <1>8, <1>9

LEMMA NotCreatedKept ==
    ASSUME IInv, NEW next \in {"failed", "join"}, NotCreated(next),
           UNCHANGED <<high_primes, program>>,
           \A k \in Threads : k # started => targs'[k] = targs[k]
    PROVE  RunTypeOK' /\ Born' /\ PrintedLast' /\ Locked' /\ Loaded' /\ Totalled' /\ Counted'
<1> USE DEF IInv, NotCreated
<1>1. RunTypeOK' BY DEF TypeOK, RunTypeOK
<1>2. Born' /\ PrintedLast' BY DEF Born, PrintedLast
<1>3. Locked' /\ Loaded' BY DEF Locked, Adding, Loaded
<1>4. Totalled' BY TotalKept DEF Stored
<1>5. Counted'
    <2> SUFFICES ASSUME NEW k \in Threads, pc[k] \notin {"unborn", "compute"}
                 PROVE  IF program = "mtsieve"
                        THEN Sieved(k)' /\ amount'[k] = Cardinality(Found(k)')
                        ELSE amount'[k] = SumOf(Share(k))
        BY DEF Counted
    <2>1. k # started BY DEF Born, TypeOK, RunTypeOK
    <2>2. targs'[k] = targs[k] BY <2>1
    <2> QED BY <2>2 DEF Counted, Sieved, Found
<1> QED BY <1>1, <1>2, <1>3, <1>4, <1>5

\* The new segment is the next one, whether or not its thread comes to be.
LEMMA CreateSieveInv ==
    ASSUME IInv, program = "mtsieve", CreateSieve, UNCHANGED program
    PROVE  IInv'
<1> USE DEF argVars
<1> DEFINE extra == IF thread_length_remainder > 0 THEN 1 ELSE 0
           next == [start |-> temp_start, end |-> SegmentEnd]
<1>1. /\ main = "create"
      /\ targs' = [targs EXCEPT ![started] = next]
      /\ UNCHANGED <<opts, given, arg, thread_length, high_primes>>
      /\ Created(t) \/ NotCreated("failed")
    BY DEF CreateSieve, Created, NotCreated
<1>2. /\ a \in Nat /\ b \in Nat /\ t \in Nat /\ started \in Nat
      /\ temp_start \in Nat /\ thread_length \in Nat /\ thread_length_remainder \in Nat
      /\ targs \in [Threads -> [start : Nat, end : Nat]]
      /\ a' = a /\ b' = b /\ t' = t
    BY <1>1 DEF IInv, TypeOK, RunTypeOK, SieveTypeOK, a, b, t
<1>3. /\ 2 <= a /\ a <= b /\ 1 <= t /\ t <= 2 * NPROCS
      /\ 1 <= thread_length /\ thread_length_remainder <= t - started
      /\ temp_start + thread_length * (t - started) + thread_length_remainder = b + 1
      /\ a <= temp_start
    BY <1>1 DEF IInv, Cut
<1>4. SegmentEnd = temp_start + thread_length - 1 + extra /\ SegmentEnd \in Nat
      /\ temp_start <= SegmentEnd /\ extra \in {0, 1}
    BY <1>2, <1>3 DEF SegmentEnd
<1>5. temp_start' = SegmentEnd + 1 /\ thread_length_remainder' = thread_length_remainder - extra
    BY <1>2 DEF CreateSieve
<1>6. \A k \in Threads : k # started => targs'[k] = targs[k] BY <1>1, <1>2
<1>7. SieveTypeOK'
    <2>1. next \in [start : Nat, end : Nat] BY <1>2, <1>4
    <2>2. targs' \in [Threads -> [start : Nat, end : Nat]]
        <3> HIDE DEF next
        <3> QED BY <1>1, <1>2, <2>1
    <2>3. temp_start' \in Nat /\ thread_length_remainder' \in Nat BY <1>2, <1>4, <1>5
    <2> QED BY <1>1, <2>2, <2>3 DEF IInv, TypeOK, SieveTypeOK
<1>8. CASE Created(t)
    <2> HIDE DEF extra, next
    <2>1. Wanted = t BY DEF Wanted
    <2>2. /\ RunTypeOK' /\ Born' /\ PrintedLast' /\ Locked' /\ Loaded' /\ Totalled' /\ Counted'
          /\ started \in Threads /\ started < t
        BY <1>1, <1>2, <1>6, <1>8, <2>1, CreatedKept
    <2>3. /\ started' = started + 1 /\ main' = IF started + 1 = t THEN "join" ELSE "create"
        BY <1>8 DEF Created, AfterCreate
    <2>4. InOrder' BY <1>2, <2>2, <2>3 DEF InOrder, Wanted
    <2>5. targs'[started].start = temp_start /\ targs'[started].end = SegmentEnd
        BY <1>1, <1>2, <2>2 DEF next
    <2>6. Tiled'
        <3>1. \A k \in Threads : k < started =>
                  targs[k].start <= targs[k].end /\ targs[k].end < temp_start
            BY DEF IInv, Tiled
        <3>2. ASSUME NEW k \in Threads, k < started'
              PROVE  targs'[k].start <= targs'[k].end /\ targs'[k].end < temp_start'
            <4>1. CASE k = started BY <1>2, <1>4, <1>5, <2>5, <4>1
            <4>2. CASE k # started
                <5>1. k < started BY <1>2, <2>3, <3>2, <4>2 DEF Threads
                <5>2. targs'[k] = targs[k] /\ targs[k].end \in Nat BY <1>2, <1>6, <4>2
                <5> QED BY <1>2, <1>4, <1>5, <3>1, <5>1, <5>2
            <4> QED BY <4>1, <4>2
        <3>3. ASSUME NEW j \in Threads, NEW k \in Threads, j < k, k < started'
              PROVE  targs'[j].end < targs'[k].start
            <4>1. j < started /\ j # started /\ targs'[j] = targs[j]
                BY <1>2, <1>6, <2>3, <3>3 DEF Threads
            <4>2. CASE k = started BY <2>5, <3>1, <4>1, <4>2
            <4>3. CASE k # started
                <5>1. k < started BY <1>2, <2>3, <3>3, <4>3 DEF Threads
                <5>2. targs'[k] = targs[k] BY <1>6, <4>3
                <5> QED BY <3>3, <4>1, <5>1, <5>2 DEF IInv, Tiled
            <4> QED BY <4>2, <4>3
        <3> QED BY <3>2, <3>3 DEF Tiled
    <2>7. Cut'
        <3>1. thread_length_remainder' <= t - started'
            BY <1>2, <1>3, <1>4, <1>5, <2>2, <2>3 DEF extra
        <3>2. temp_start' + thread_length * (t - started') + thread_length_remainder' = b + 1
            <4>1. thread_length * (t - started) = thread_length * (t - started') + thread_length
                BY <1>2, <2>3
            <4>2. thread_length * (t - started') \in Int BY <1>2, <2>3
            <4> QED BY <1>2, <1>3, <1>4, <1>5, <4>1, <4>2
        <3>3. started' # 0 /\ a <= temp_start' BY <1>2, <1>3, <1>4, <1>5, <2>3
        <3>4. ASSUME NEW n \in Nat PROVE InSome(n)' <=> a <= n /\ n < temp_start'
            <4>1. InSome(n) <=> a <= n /\ n < temp_start BY <1>1 DEF IInv, Cut
            <4>2. InSome(n)' <=> InSome(n) \/ (temp_start <= n /\ n <= SegmentEnd)
                <5>1. \A k \in Threads : k < started' <=> (k < started \/ k = started)
                    BY <1>2, <2>3 DEF Threads
                <5>2. \A k \in Threads : k < started => targs'[k] = targs[k]
                    BY <1>2, <1>6 DEF Threads
                <5> QED BY <2>2, <2>5, <5>1, <5>2 DEF InSome
            <4> QED BY <1>2, <1>3, <1>4, <1>5, <4>1, <4>2
        <3>5. ASSUME NEW k \in Threads, k < started'
              PROVE  targs'[k].end + 1 - targs'[k].start \in {thread_length, thread_length + 1}
            <4>1. CASE k = started BY <1>2, <1>4, <2>5, <4>1
            <4>2. CASE k # started
                <5>1. k < started BY <1>2, <2>3, <3>5, <4>2 DEF Threads
                <5>2. targs'[k] = targs[k] BY <1>6, <4>2
                <5> QED BY <1>1, <5>1, <5>2 DEF IInv, Cut
            <4> QED BY <4>1, <4>2
        <3> QED BY <1>1, <1>2, <1>3, <3>1, <3>2, <3>3, <3>4, <3>5 DEF Cut
    <2> QED BY <1>7, <2>2, <2>4, <2>6, <2>7 DEF IInv, TypeOK
<1>9. CASE NotCreated("failed")
    <2>1. RunTypeOK' /\ Born' /\ PrintedLast' /\ Locked' /\ Loaded' /\ Totalled' /\ Counted'
        BY <1>1, <1>6, <1>9, NotCreatedKept
    <2>2. main' = "failed" /\ started' = started BY <1>9 DEF NotCreated
    <2>3. InOrder' /\ Cut' BY <2>2 DEF InOrder, Cut
    <2>4. Tiled'
        <3>1. \A k \in Threads : k < started => targs'[k] = targs[k] /\ targs[k].end \in Nat
            BY <1>2, <1>6 DEF Threads
        <3>2. temp_start <= temp_start' BY <1>2, <1>4, <1>5
        <3>3. \A k \in Threads : k < started =>
                  /\ targs'[k].start <= targs'[k].end /\ targs'[k].end < temp_start'
            BY <1>2, <1>4, <1>5, <3>1, <3>2 DEF IInv, Tiled
        <3>4. \A j, k \in Threads : j < k /\ k < started => j < started
            BY <1>2 DEF Threads
        <3>5. \A j, k \in Threads : j < k /\ k < started => targs'[j].end < targs'[k].start
            BY <3>1, <3>4 DEF IInv, Tiled
        <3> QED BY <2>2, <3>3, <3>5 DEF Tiled
    <2> QED BY <1>7, <2>1, <2>3, <2>4 DEF IInv, TypeOK
<1> QED BY <1>1, <1>8, <1>9

LEMMA CreateAdderInv ==
    ASSUME IInv, program = "mtsumarray", CreateAdder, UNCHANGED <<sieveVars, program>>
    PROVE  IInv'
<1> USE DEF sieveVars, argVars, segVars
<1>1. SieveTypeOK' /\ program' = program /\ Tiled' /\ Cut'
    BY DEF IInv, TypeOK, SieveTypeOK, Tiled, Cut
<1>2. CASE Created(2)
    <2>1. /\ RunTypeOK' /\ Born' /\ PrintedLast' /\ Locked' /\ Loaded' /\ Totalled' /\ Counted'
          /\ started < 2
        BY <1>2, CreatedKept DEF Wanted
    <2>2. InOrder' BY <1>2, <2>1 DEF IInv, TypeOK, RunTypeOK, InOrder, Created, AfterCreate, Wanted
    <2> QED BY <1>1, <2>1, <2>2 DEF IInv, TypeOK
<1>3. CASE NotCreated("join")
    <2>1. RunTypeOK' /\ Born' /\ PrintedLast' /\ Locked' /\ Loaded' /\ Totalled' /\ Counted'
        BY <1>3, NotCreatedKept
    <2>2. InOrder' BY <1>3 DEF IInv, InOrder, NotCreated, Wanted
    <2> QED BY <1>1, <2>1, <2>2 DEF IInv, TypeOK
<1> QED BY <1>2, <1>3 DEF CreateAdder

(***************************************************************************)
(* The invariant holds.                                                    *)
(***************************************************************************)
LEMMA InitInv == Init => IInv
<1> SUFFICES ASSUME Init PROVE IInv OBVIOUS
<1>1. PICK line \in Seq(Options) : SieveInit(line)
    <2>1. <<>> \in Seq(Options) OBVIOUS
    <2> QED BY <2>1, SieveAssumption DEF Init
<1> USE DEF Init, RunInit, SieveInit
<1>2. TypeOK
    <2>1. RunTypeOK
        <3>1. main \in {"options", "init"} OBVIOUS
        <3>2. RunInit OBVIOUS
        <3>3. 0 \in 0 .. MaxThreads /\ <<>> \in Seq(Nat) BY MutexRunAssumption
        <3> QED BY ONLY <3>1, <3>2, <3>3 DEF RunInit, RunTypeOK
    <2>2. opts \in Seq(Options) /\ given \subseteq {"s", "e", "t", "arg", "?"} BY <1>1
    <2>3. arg \in [{"s", "e", "t"} -> Nat] BY <1>1
    <2>4. targs \in [Threads -> [start : Nat, end : Nat]] BY <1>1
    <2>5. high_primes \in [Threads -> SUBSET Nat] BY <1>1
    <2>6. {thread_length, thread_length_remainder, temp_start} \subseteq Nat BY <1>1
    <2> QED BY <2>1, <2>2, <2>3, <2>4, <2>5, <2>6 DEF TypeOK, SieveTypeOK
<1>3. Born /\ InOrder /\ PrintedLast BY DEF Born, InOrder, PrintedLast, Threads
<1>4. Locked /\ Loaded BY DEF Locked, Adding, Loaded, NoThread, Threads
<1>5. Totalled
    <2>1. \A i \in 0 .. MaxThreads - 1 : i \notin Stored BY DEF Stored, Threads
    <2>2. SumBelow(MaxThreads, Stored, amount) = 0 BY <2>1, SumNone, MutexRunAssumption
    <2> QED BY <2>2 DEF Totalled, TotalOf
<1>6. Counted BY DEF Counted
<1>7. Tiled /\ Cut
    <2>1. \A k \in Threads : ~ (k < started) BY DEF Threads
    <2>2. program = "mtsieve" => main = "options" OBVIOUS
    <2> QED BY <2>1, <2>2 DEF Tiled, Cut
<1> QED BY <1>2, <1>3, <1>4, <1>5, <1>6, <1>7 DEF IInv

LEMMA AddInv ==
    ASSUME IInv, NEW k \in Threads, Add(k), UNCHANGED <<sieveVars, program>>
    PROVE  IInv'
BY LockInv, LoadInv, StoreInv, UnlockInv DEF Add

LEMMA NextInv == IInv /\ [Next]_vars => IInv'
<1> SUFFICES ASSUME IInv, [Next]_vars PROVE IInv' OBVIOUS
<1>1. CASE MainSteps
    <2>1. CASE program = "mtsieve" /\ SieveMain
        <3>1. UNCHANGED program BY <1>1 DEF MainSteps
        <3> QED BY <2>1, <3>1, ReadOptionInv, CheckArgumentsInv, CreateSieveInv, MutexInitInv,
                   FinishInv DEF SieveMain
    <2>2. CASE program = "mtsumarray" /\ AdderMain /\ UNCHANGED sieveVars
        <3>1. UNCHANGED program BY <1>1 DEF MainSteps
        <3> QED BY <2>2, <3>1, MutexInitInv, CreateAdderInv, JoinUnmadeInv, FinishInv
                DEF AdderMain
    <2> QED BY <1>1, <2>1, <2>2 DEF MainSteps
<1>2. ASSUME NEW k \in Threads, ThreadSteps(k) PROVE IInv'
    <2>1. UNCHANGED program BY <1>2 DEF ThreadSteps
    <2>2. CASE program = "mtsieve" /\ SieveThread(k)
        BY <2>1, <2>2, SieveSegmentInv, AddInv DEF SieveThread
    <2>3. CASE program = "mtsumarray" /\ AdderThread(k) /\ UNCHANGED sieveVars
        <3>1. CASE Computed(k, SumOf(Share(k)))
            <4>1. /\ UNCHANGED <<argVars, segVars, program>>
                  /\ high_primes' \in [Threads -> SUBSET Nat]
                  /\ \A j \in Threads : j # k => high_primes'[j] = high_primes[j]
                BY <2>1, <2>3 DEF sieveVars, IInv, TypeOK, SieveTypeOK
            <4> QED BY <2>3, <3>1, <4>1, ShareSum, ComputedInv
        <3>2. CASE Add(k) BY <2>1, <2>3, <3>2, AddInv
        <3> QED BY <2>3, <3>1, <3>2 DEF AdderThread
    <2> QED BY <1>2, <2>2, <2>3 DEF ThreadSteps
<1>3. CASE UNCHANGED vars
    <2> USE <1>3 DEF vars, runVars, sieveVars, argVars, segVars, threadVars, IInv
    <2>1. TypeOK' BY DEF TypeOK, RunTypeOK, SieveTypeOK
    <2>2. InOrder' /\ PrintedLast' BY DEF InOrder, Wanted, t, PrintedLast, Joined
    <2>3. Tiled' /\ Cut' BY DEF Tiled, Cut, InSome, a, b, t
    <2> QED BY <2>1, <2>2, <2>3, ThreadsKept
<1> QED BY <1>1, <1>2, <1>3 DEF Next

LEMMA Invariant == Spec => []IInv
<1> QED BY InitInv, NextInv, PTL DEF Spec

(***************************************************************************)
(* Theorems.                                                               *)
(***************************************************************************)

\* The variables keep their types, from the options to the printed total
\* (mtsieve.c 96-262, mtsumarray.c 73-150).
THEOREM TypeCorrect == Spec => []TypeOK
<1> QED BY Invariant, PTL DEF IInv

\* At most one thread is between lock and unlock (mtsieve.c 80-89, mtsumarray.c
\* 61-70).
OneAdds == \A j, k \in Adding : j = k
THEOREM MutualExclusion == Spec => []OneAdds
<1>1. IInv => OneAdds BY DEF IInv, Locked, Adding, OneAdds
<1> QED BY <1>1, Invariant, PTL

\* No addition to the total is lost, whatever the threads' order
\* (mtsieve.c 81-85, mtsumarray.c 61-66).
THEOREM NoAdditionLost == Spec => []TotalAddsUp
<1>1. IInv => TotalAddsUp
    <2> SUFFICES ASSUME IInv, Adding = {}
                 PROVE  total = TotalOf({k \in Threads : pc[k] = "done"})
        BY DEF TotalAddsUp
    <2>1. Stored = {k \in Threads : pc[k] = "done"} BY DEF Stored, Adding
    <2> QED BY <2>1 DEF IInv, Totalled
<1> QED BY <1>1, Invariant, PTL

\* The segments are not empty, do not meet, and make up a..b in sizes not more
\* than one apart, for any range and number of threads (mtsieve.c 219-243).
THEOREM SegmentsPartition == Spec => []Partition
<1>1. IInv => Partition
    <2> SUFFICES ASSUME IInv, program = "mtsieve" PROVE Partition BY DEF Partition
    <2> DEFINE all == 0 .. started - 1
    <2>1. /\ started \in Nat /\ a \in Nat /\ b \in Nat /\ temp_start \in Nat
          /\ all \subseteq Threads /\ \A k \in Threads : k \in Nat /\ (k \in all <=> k < started)
          /\ \A k \in Threads : targs[k].start \in Nat /\ targs[k].end \in Nat
        <3>1. /\ started \in 0 .. MaxThreads /\ arg \in [{"s", "e", "t"} -> Nat]
              /\ temp_start \in Nat /\ targs \in [Threads -> [start : Nat, end : Nat]]
            BY DEF IInv, TypeOK, RunTypeOK, SieveTypeOK
        <3>2. all \subseteq Threads /\ \A k \in Threads : k \in Nat /\ (k \in all <=> k < started)
            BY <3>1, MutexRunAssumption DEF Threads
        <3> QED BY <3>1, <3>2, MutexRunAssumption DEF a, b
    <2>2. \A k \in all : targs[k].start <= targs[k].end BY <2>1 DEF IInv, Tiled
    <2>3. \A k \in all : Segment(k) # {} BY <2>1, <2>2 DEF Segment
    <2>4. ASSUME NEW j \in all, NEW k \in all, j < k PROVE Segment(j) \cap Segment(k) = {}
        <3>1. targs[j].end < targs[k].start BY <2>1, <2>4 DEF IInv, Tiled
        <3> QED BY <2>1, <3>1 DEF Segment
    <2>5. ASSUME main \in {"join", "returned"}
          PROVE  /\ UNION {Segment(k) : k \in all} = a .. b
                 /\ \A j, k \in all : Cardinality(Segment(j)) <= Cardinality(Segment(k)) + 1
        <3>1. started = t BY <2>5 DEF IInv, InOrder, Wanted
        <3>2. /\ thread_length \in Nat /\ thread_length_remainder \in Nat
              /\ thread_length_remainder <= t - started
              /\ temp_start + thread_length * (t - started) + thread_length_remainder = b + 1
            BY <2>5 DEF IInv, Cut, TypeOK, SieveTypeOK
        <3>3. t - started = 0 BY <2>1, <3>1
        <3>4. temp_start = b + 1
            <4>1. thread_length * (t - started) = 0 BY <3>2, <3>3
            <4> QED BY <2>1, <3>2, <3>3, <4>1
        <3>5. \A n \in Nat : InSome(n) <=> n \in a .. b BY <2>1, <2>5, <3>4 DEF IInv, Cut
        <3>6. \A n : (\E k \in all : n \in Segment(k)) <=> n \in Nat /\ InSome(n)
            BY <2>1 DEF Segment, InSome
        <3>7. \A n : n \in UNION {Segment(k) : k \in all} <=> \E k \in all : n \in Segment(k)
            OBVIOUS
        <3>8. \A n : n \in a .. b => n \in Nat BY <2>1
        <3>9. UNION {Segment(k) : k \in all} = a .. b
            <4> HIDE DEF all
            <4> QED BY <3>5, <3>6, <3>7, <3>8
        <3>10. ASSUME NEW k \in all
               PROVE  Cardinality(Segment(k)) \in {thread_length, thread_length + 1}
            <4>1. Cardinality(Segment(k)) = targs[k].end - targs[k].start + 1
                BY <2>1, <2>2, FS_Interval DEF Segment
            <4>2. targs[k].end + 1 - targs[k].start \in {thread_length, thread_length + 1}
                BY <2>1, <2>5 DEF IInv, Cut
            <4> QED BY <2>1, <4>1, <4>2
        <3> QED BY <3>2, <3>9, <3>10
    <2> QED BY <2>3, <2>4, <2>5 DEF Partition
<1> QED BY <1>1, Invariant, PTL

\* mtsumarray prints with threads the sum of the shares of the threads that were
\* created, which is the sum it computes without threads when all were, for any
\* array (mtsumarray.c 96-146).
LEMMA TotalOfShares ==
    ASSUME IInv, program = "mtsumarray", main = "returned"
    PROVE  /\ total = SumOf(UNION {Share(k) : k \in 0 .. started - 1})
           /\ started = 2 \/ unmade
<1>1. started \in 0 .. 2 /\ (started = 2 \/ unmade) /\ Joined
    <2>1. started \in Nat BY MutexRunAssumption DEF IInv, TypeOK, RunTypeOK
    <2> QED BY <2>1 DEF IInv, InOrder, Wanted, PrintedLast
<1>2. {0, 1} \subseteq Threads /\ {0, 1} \subseteq 0 .. MaxThreads - 1
    BY MutexRunAssumption DEF Threads
<1>3. \A k \in Threads : k \in Stored <=> k < started
    BY <1>1 DEF IInv, Joined, Born, Stored
<1>4. \A k \in Stored : amount[k] = SumOf(Share(k))
    <2>1. \A k \in Stored : pc[k] = "done" BY <1>1, <1>3 DEF Joined, Stored
    <2> QED BY <2>1 DEF IInv, Counted, Stored
<1>5. \A i \in 0 .. MaxThreads - 1 : amount[i] \in Int BY DEF IInv, TypeOK, RunTypeOK, Threads
<1>6. /\ DOMAIN Array = 0 .. num_values - 1 /\ num_values \in Nat
      /\ \A i \in 0 .. num_values - 1 : Array[i] \in Int
    BY ThreadSumAssumption
<1>7. total = SumBelow(MaxThreads, Stored, amount) BY DEF IInv, Totalled, TotalOf
<1>8. CASE started = 0
    <2>1. \A i \in 0 .. MaxThreads - 1 : i \notin Stored BY <1>3, <1>8 DEF Stored, Threads
    <2>2. total = 0 BY <1>7, <2>1, SumNone, MutexRunAssumption
    <2>3. UNION {Share(k) : k \in 0 .. started - 1} = {} BY <1>8
    <2>4. SumOf({}) = 0 BY <1>6, SumNone DEF SumOf
    <2> QED BY <1>1, <2>2, <2>3, <2>4
<1>9. CASE started = 1
    <2>1. Stored = {0} BY <1>2, <1>3, <1>9 DEF Stored, Threads
    <2>2. total = amount[0] BY <1>2, <1>5, <1>7, <2>1, SumOne, MutexRunAssumption
    <2>3. UNION {Share(k) : k \in 0 .. started - 1} = Share(0) BY <1>9
    <2> QED BY <1>1, <1>4, <2>1, <2>2, <2>3
<1>10. CASE started = 2
    <2>1. Stored = {0} \cup {1} BY <1>2, <1>3, <1>10 DEF Stored, Threads
    <2>2. total = amount[0] + amount[1]
        <3>1. SumBelow(MaxThreads, {0} \cup {1}, amount) = SumBelow(MaxThreads, {0}, amount) + amount[1]
            BY <1>2, <1>5, SumAdd, MutexRunAssumption
        <3>2. SumBelow(MaxThreads, {0}, amount) = amount[0]
            BY <1>2, <1>5, SumOne, MutexRunAssumption
        <3> QED BY <1>7, <2>1, <3>1, <3>2
    <2>3. UNION {Share(k) : k \in 0 .. started - 1} = Share(0) \cup Share(1)
        <3>1. 0 .. started - 1 = {0, 1} BY <1>10
        <3> QED BY <3>1
    <2>4. Share(0) \cap Share(1) = {} BY <1>6 DEF Share
    <2>5. SumOf(Share(0) \cup Share(1)) = SumOf(Share(0)) + SumOf(Share(1))
        BY <1>6, <2>4, SumSplit DEF SumOf
    <2>6. amount[0] = SumOf(Share(0)) /\ amount[1] = SumOf(Share(1)) BY <1>4, <2>1
    <2> QED BY <1>1, <2>2, <2>3, <2>5, <2>6
<1> QED BY <1>1, <1>8, <1>9, <1>10

THEOREM SumRight == Spec => []PrintedSum
<1>1. IInv => PrintedSum
    <2> SUFFICES ASSUME IInv, program = "mtsumarray", printed # <<>>
                 PROVE  /\ printed = <<SumOf(UNION {Share(k) : k \in 0 .. started - 1})>>
                        /\ ~ unmade => printed = <<SumOf(DOMAIN Array)>>
        BY DEF PrintedSum
    <2>1. main = "returned" /\ printed = <<total>> BY DEF IInv, PrintedLast
    <2>2. total = SumOf(UNION {Share(k) : k \in 0 .. started - 1}) /\ (started = 2 \/ unmade)
        BY <2>1, TotalOfShares
    <2>3. started = 2 => UNION {Share(k) : k \in 0 .. started - 1} = DOMAIN Array
        <3>1. DOMAIN Array = 0 .. num_values - 1 /\ num_values \in Nat BY ThreadSumAssumption
        <3>2. Share(0) \cup Share(1) = DOMAIN Array BY <3>1 DEF Share
        <3>3. started = 2 => 0 .. started - 1 = {0, 1} OBVIOUS
        <3> QED BY <3>2, <3>3
    <2> QED BY <2>1, <2>2, <2>3
<1> QED BY <1>1, Invariant, PTL

\* Where the memory malloc returns spares word 1, each thread leaves the primes
\* of its segment, and its end when that is the square of a prime, for any
\* segment (mtsieve.c 26-61).
THEOREM SegmentsSieved ==
    ASSUME MemorySparesOne PROVE Spec => []SegmentSieved
<1>1. IInv => SegmentSieved
    <2> SUFFICES ASSUME IInv, program = "mtsieve", printed # <<>>,
                        NEW k \in 0 .. started - 1, NEW n \in Segment(k)
                 PROVE  IF n \in high_primes[k] THEN RightlyLeft(n, targs[k].end) ELSE ~ IsPrime(n)
        BY DEF SegmentSieved, RightlyLeft
    <2>1. main = "returned" /\ Joined BY DEF IInv, PrintedLast
    <2>2. k \in Threads /\ k < started
        BY MutexRunAssumption DEF IInv, TypeOK, RunTypeOK, Threads
    <2>3. Sieved(k) BY <2>1, <2>2 DEF IInv, Counted, Joined
    <2>4. targs[k].start \in Nat /\ targs[k].end \in Nat /\ targs[k].start <= targs[k].end
        BY <2>2 DEF IInv, TypeOK, SieveTypeOK, Tiled
    <2>5. targs[k].start >= 2
        <3>1. InSome(targs[k].start) BY <2>2, <2>4 DEF InSome
        <3>2. a <= targs[k].start /\ 2 <= a BY <2>1, <2>4, <3>1 DEF IInv, Cut
        <3>3. a \in Nat BY DEF IInv, TypeOK, SieveTypeOK, a
        <3> QED BY <2>4, <3>2, <3>3
    <2>6. PICK low \in LowPrimesRead(targs[k].end) :
              0 \notin low /\ high_primes[k] = HighPrimes(targs[k].start, targs[k].end, low)
        BY <2>3 DEF Sieved
    <2>7. n \in targs[k].start .. targs[k].end BY DEF Segment
    <2> QED BY <2>4, <2>5, <2>6, <2>7, HighPrimesRight
<1> QED BY <1>1, Invariant, PTL

\* Then the total printed is the number of the primes with two 3's, for any
\* range and number of threads, unless a segment ends in the square of a prime
\* and that square has two 3's itself (mtsieve.c 260).
NoSquareCounted ==
    \A k \in 0 .. started - 1 : \A p \in 2 .. targs[k].end :
        IsPrime(p) /\ p * p = targs[k].end => ~ TwoThrees(targs[k].end)

LEMMA FoundInSegment ==
    ASSUME MemorySparesOne, IInv, SegmentSieved, NoSquareCounted,
           program = "mtsieve", printed # <<>>, NEW k \in 0 .. started - 1
    PROVE  /\ Found(k) = {n \in Segment(k) : IsPrime(n) /\ TwoThrees(n)}
           /\ IsFiniteSet(Found(k)) /\ amount[k] = Cardinality(Found(k))
<1>1. main = "returned" /\ Joined BY DEF IInv, PrintedLast
<1>2. k \in Threads /\ k < started BY MutexRunAssumption DEF IInv, TypeOK, RunTypeOK, Threads
<1>3. Sieved(k) /\ amount[k] = Cardinality(Found(k)) BY <1>1, <1>2 DEF IInv, Counted, Joined
<1>4. targs[k].start \in Nat /\ targs[k].end \in Nat
    BY <1>2 DEF IInv, TypeOK, SieveTypeOK
<1>5. high_primes[k] \subseteq Segment(k)
    BY <1>3, <1>4 DEF Sieved, HighPrimes, Segment
<1>6. \A n \in Segment(k) : TwoThrees(n) => (n \in high_primes[k] <=> IsPrime(n))
    <2> SUFFICES ASSUME NEW n \in Segment(k), TwoThrees(n), n \in high_primes[k]
                 PROVE  IsPrime(n)
        BY DEF SegmentSieved
    <2>1. IsPrime(n) \/ (n = targs[k].end /\ \E p \in 2 .. n : p * p = n /\ IsPrime(p))
        BY DEF SegmentSieved
    <2> QED BY <2>1 DEF NoSquareCounted
<1>7. IsFiniteSet(Segment(k))
    <2>1. targs[k].start \in Int /\ targs[k].end \in Int BY <1>4
    <2>2. IsFiniteSet(targs[k].start .. targs[k].end) BY <2>1, FS_Interval
    <2> QED BY <2>2 DEF Segment
<1>8. Found(k) = {n \in Segment(k) : IsPrime(n) /\ TwoThrees(n)} BY <1>5, <1>6 DEF Found
<1>9. Found(k) \subseteq Segment(k) BY <1>8
<1> QED BY <1>3, <1>7, <1>8, <1>9, FS_Subset

THEOREM TotalRight ==
    ASSUME MemorySparesOne PROVE Spec => [](NoSquareCounted => PrintedTotal)
<1>1. IInv /\ SegmentSieved /\ Partition => (NoSquareCounted => PrintedTotal)
    <2> SUFFICES ASSUME IInv, SegmentSieved, Partition, NoSquareCounted,
                        program = "mtsieve", printed # <<>>
                 PROVE  printed = <<Cardinality({n \in a .. b : IsPrime(n) /\ TwoThrees(n)})>>
        BY DEF PrintedTotal
    <2> DEFINE all == 0 .. started - 1
               first(m) == {n \in Nat : \E k \in all : k < m /\ n \in Found(k)}
    <2>1. main = "returned" /\ printed = <<total>> /\ Joined BY DEF IInv, PrintedLast
    <2>2. /\ started \in 0 .. MaxThreads /\ MaxThreads \in Nat
          /\ \A k \in Threads : k \in all <=> k < started
          /\ all \subseteq Threads
        BY MutexRunAssumption DEF IInv, TypeOK, RunTypeOK, Threads
    <2>3. \A k \in all : /\ Found(k) = {n \in Segment(k) : IsPrime(n) /\ TwoThrees(n)}
                         /\ IsFiniteSet(Found(k)) /\ amount[k] = Cardinality(Found(k))
        BY FoundInSegment
    <2>4. \A k \in all : Found(k) \subseteq Nat
        BY <2>2 DEF IInv, TypeOK, SieveTypeOK, Found
    <2>5. \A k \in Threads : k \in Stored <=> k \in all
        BY <2>1, <2>2 DEF IInv, Born, Joined, Stored
    <2> DEFINE T == {m \in Nat : m <= MaxThreads =>
                         /\ IsFiniteSet(first(m))
                         /\ Cardinality(first(m)) = SumBelow(m, Stored, amount)}
    <2>6. 0 \in T
        <3>1. first(0) = {}
            <4>1. \A k \in all : ~ (k < 0) OBVIOUS
            <4> QED BY <4>1
        <3> HIDE DEF first
        <3> QED BY <3>1, FS_EmptySet, SumEmpty
    <2>7. ASSUME NEW m \in T PROVE m + 1 \in T
        <3> SUFFICES ASSUME m + 1 <= MaxThreads
                     PROVE  /\ IsFiniteSet(first(m + 1))
                            /\ Cardinality(first(m + 1)) = SumBelow(m + 1, Stored, amount)
            OBVIOUS
        <3>1. /\ m \in Nat /\ IsFiniteSet(first(m))
              /\ Cardinality(first(m)) = SumBelow(m, Stored, amount)
            BY <2>2
        <3>2. m \in Threads BY <2>2, <3>1 DEF Threads
        <3>3. SumBelow(m + 1, Stored, amount) =
                  SumBelow(m, Stored, amount) + IF m \in Stored THEN amount[m] ELSE 0
            BY <3>1, SumUnfold
        <3>4. Cardinality(first(m)) \in Nat
            <4> HIDE DEF first
            <4> QED BY <3>1, FS_CardinalityType
        <3>5. CASE m \in all
            <4>1. first(m + 1) = first(m) \cup Found(m)
                <5>1. \A k \in all : k < m + 1 <=> (k < m \/ k = m) BY <2>2, <3>1
                <5> QED BY <2>4, <3>5, <5>1
            <4>2. first(m) \cap Found(m) = {}
                <5> SUFFICES ASSUME NEW n \in first(m), n \in Found(m) PROVE FALSE OBVIOUS
                <5>1. PICK k \in all : k < m /\ n \in Found(k) OBVIOUS
                <5>2. n \in Segment(k) /\ n \in Segment(m) BY <2>3, <3>5, <5>1
                <5>3. Segment(k) \cap Segment(m) = {} BY <3>5, <5>1 DEF Partition
                <5> QED BY <5>2, <5>3
            <4>3. IsFiniteSet(Found(m)) /\ amount[m] = Cardinality(Found(m)) BY <2>3, <3>5
            <4>4. Cardinality(Found(m)) \in Nat BY <4>3, FS_CardinalityType
            <4>5. m \in Stored BY <2>5, <3>2, <3>5
            <4> HIDE DEF first
            <4>6. /\ IsFiniteSet(first(m) \cup Found(m))
                  /\ Cardinality(first(m) \cup Found(m)) =
                         Cardinality(first(m)) + Cardinality(Found(m)) - Cardinality(first(m) \cap Found(m))
                BY <3>1, <4>3, FS_Union
            <4>7. Cardinality(first(m) \cap Found(m)) = 0 BY <4>2, FS_EmptySet
            <4>8. Cardinality(first(m + 1)) = Cardinality(first(m)) + Cardinality(Found(m))
                <5>1. Cardinality(first(m + 1)) = Cardinality(first(m) \cup Found(m)) BY <4>1
                <5>2. \A x, y \in Nat : x + y - 0 = x + y OBVIOUS
                <5>3. Cardinality(first(m)) + Cardinality(Found(m)) - 0 =
                          Cardinality(first(m)) + Cardinality(Found(m))
                    BY <3>4, <4>4, <5>2
                <5> QED BY <4>6, <4>7, <5>1, <5>3, Zenon
            <4>9. SumBelow(m + 1, Stored, amount) = Cardinality(first(m)) + Cardinality(Found(m))
                BY <3>1, <3>3, <4>3, <4>5
            <4> QED BY <4>1, <4>6, <4>8, <4>9
        <3>6. CASE m \notin all
            <4>1. first(m + 1) = first(m)
                <5>1. \A k \in all : k < m + 1 <=> k < m BY <2>2, <3>1, <3>6
                <5> QED BY <5>1
            <4>2. m \notin Stored BY <2>5, <3>2, <3>6
            <4> HIDE DEF first
            <4> QED BY <3>1, <3>3, <3>4, <4>1, <4>2
        <3> QED BY <3>5, <3>6
    <2>8. Cardinality(first(MaxThreads)) = SumBelow(MaxThreads, Stored, amount)
        <3> HIDE DEF T
        <3>1. T = Nat BY <2>6, <2>7, Induction DEF T
        <3>2. MaxThreads \in T BY <2>2, <3>1
        <3> QED BY <2>2, <3>2 DEF T
    <2>9. first(MaxThreads) = {n \in a .. b : IsPrime(n) /\ TwoThrees(n)}
        <3>1. UNION {Segment(k) : k \in all} = a .. b BY <2>1 DEF Partition
        <3>2. \A k \in all : k < MaxThreads BY <2>2 DEF Threads
        <3>3. \A n : n \in first(MaxThreads) <=> \E k \in all : n \in Found(k) BY <2>4, <3>2
        <3>4. \A n : (\E k \in all : n \in Segment(k)) <=> n \in a .. b BY <3>1
        <3> HIDE DEF first, all
        <3>5. \A n : n \in first(MaxThreads) <=> n \in a .. b /\ IsPrime(n) /\ TwoThrees(n)
            BY <2>3, <3>3, <3>4
        <3> QED BY <3>5
    <2>10. total = SumBelow(MaxThreads, Stored, amount) BY DEF IInv, Totalled, TotalOf
    <2> QED BY <2>1, <2>8, <2>9, <2>10
<1> QED BY <1>1, Invariant, SegmentsSieved, SegmentsPartition, PTL
=============================================================================
