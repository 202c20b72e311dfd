------------------------------- MODULE Sieve -------------------------------
(***************************************************************************)
(* mtsieve/mtsieve.c: the primes between a and b that have two or more 3's *)
(* among their digits, counted by threads that sieve a segment each.       *)
(***************************************************************************)
EXTENDS MutexRun

CONSTANTS
    CommandLines,       \* the command lines to run, see ReadOption
    Leftovers,          \* the words that are not 0 in memory malloc returns
    NPROCS,             \* get_nprocs()
    INT_MAX

Options == [opt : {"s", "e", "t", "arg", "?"}, digits : BOOLEAN, val : Nat]

ASSUME SieveAssumption ==
    /\ CommandLines \subseteq Seq(Options)
    /\ NPROCS \in Nat \ {0}
    /\ MaxThreads >= 2 * NPROCS
    /\ INT_MAX \in Nat

VARIABLES
    opts,               \* the options not read yet
    given,              \* s_flag, e_flag, t_flag
    arg,                \* a, b and t
    thread_length, thread_length_remainder,
    temp_start,
    targs,              \* thread -> its segment
    high_primes         \* thread -> what its sieve left of the segment

argVars == <<opts, given, arg>>
segVars == <<thread_length, thread_length_remainder, temp_start, targs>>
sieveVars == <<argVars, segVars, high_primes>>

a == arg["s"]
b == arg["e"]
t == arg["t"]

(***************************************************************************)
(* One thread's sieve.                                                     *)
(***************************************************************************)
LowLimit(end) ==        \* ceil(sqrt(end))
    CHOOSE n \in 1 .. end : n * n >= end /\ (n - 1) * (n - 1) < end

\* Lines 34-43: an i crosses out its multiples from its square on.  Those of
\* an i that is crossed out itself are all crossed out before, and an i whose
\* square is past the limit crosses out nothing.
LowPrimes(end) ==
    LET below == LowLimit(end) - 1
    IN  {n \in 2 .. below :
            \A i \in 2 .. LowLimit(below) : n >= i * i => n % i # 0}

\* What line 51 may read as low primes: the rest of the array is not
\* initialised (line 33).
LowPrimesRead(end) ==
    {LowPrimes(end) \cup ((leftover \cap 0 .. end - 1) \ 2 .. LowLimit(end) - 1) :
        leftover \in Leftovers}

RoundedUp(start, p) == ((start + p - 1) \div p) * p

\* The index where p starts crossing out; it spares p itself.
FirstIndex_OwnToo(start, p) == RoundedUp(start, p) - start
FirstIndex(start, p) ==
    RoundedUp(start, p) - start + IF start <= p THEN p ELSE 0

CrossedOut(start, i, p) ==
    LET first == FirstIndex(start, p)
    IN  i >= first /\ (i - first) % p = 0

HighPrimes(start, end, low) ==
    {start + i : i \in {j \in 0 .. end - start :
                            \A p \in low : ~ CrossedOut(start, j, p)}}

\* Lines 66-75, for numbers of at most ten digits.
TwoThrees(n) ==
    Cardinality({d \in 0 .. 9 : (n \div 10 ^ d) % 10 = 3}) > 1

(***************************************************************************)
(* main.  An option has the letter getopt returned, and of its value       *)
(* whether it is made of digits, and the number; "?" is a bad option and   *)
(* "arg" an argument that is not one, which getopt leaves for the end.     *)
(***************************************************************************)
SieveInit(line) ==
    /\ opts = line
    /\ given = {}
    /\ arg = [s |-> 0, e |-> 0, t |-> 0]
    /\ thread_length = 0
    /\ thread_length_remainder = 0
    /\ temp_start = 0
    /\ targs = [k \in Threads |-> [start |-> 0, end |-> 0]]
    /\ high_primes = [k \in Threads |-> {}]

Fail == main' = "failed"

Invalid(o) == o.opt = "?" \/ (o.opt # "arg" /\ (~ o.digits \/ o.val > INT_MAX))

ReadOption ==
    /\ main = "options"
    /\ opts # <<>>
    /\ opts' = Tail(opts)
    /\ LET o == Head(opts)
       IN  /\ given' = given \cup {o.opt}
           /\ IF Invalid(o)
              THEN Fail /\ UNCHANGED arg
              ELSE /\ arg' = [x \in DOMAIN arg |-> IF x = o.opt THEN o.val ELSE arg[x]]
                   /\ UNCHANGED main
    /\ UNCHANGED <<threadVars, total, printed, segVars, high_primes>>

AcceptsArguments ==
    /\ given = {"s", "e", "t"}
    /\ a >= 2 /\ b >= 2 /\ a <= b
    /\ t >= 1 /\ t <= 2 * NPROCS

\* No more threads than numbers; the segments are cut from a on.
CheckArguments ==
    /\ main = "options"
    /\ opts = <<>>
    /\ IF AcceptsArguments
       THEN LET threads == IF b - a + 1 < t THEN b - a + 1 ELSE t
            IN  /\ main' = "init"
                /\ arg' = [arg EXCEPT !["t"] = threads]
                /\ thread_length' = (b - a + 1) \div threads
                /\ thread_length_remainder' = (b - a + 1) % threads
                /\ temp_start' = a
       ELSE Fail /\ UNCHANGED <<arg, thread_length, thread_length_remainder, temp_start>>
    /\ UNCHANGED <<threadVars, total, printed, opts, given, targs, high_primes>>

\* The end of the next segment; the first ones take one number more.
SegmentEnd_NoRemainder == temp_start + thread_length - 1
SegmentEnd ==
    temp_start + thread_length - 1 + IF thread_length_remainder > 0 THEN 1 ELSE 0

\* When the thread cannot be created main returns, and the others end with it.
CreateSieve ==
    /\ Created(t) \/ NotCreated("failed")
    /\ targs' = [targs EXCEPT ![started] = [start |-> temp_start, end |-> SegmentEnd]]
    /\ thread_length_remainder' =
           IF thread_length_remainder > 0 THEN thread_length_remainder - 1 ELSE 0
    /\ temp_start' = SegmentEnd + 1
    /\ UNCHANGED <<argVars, thread_length, high_primes>>

SieveMain ==
    \/ ReadOption \/ CheckArguments \/ CreateSieve
    \/ (MutexInit \/ Finish) /\ UNCHANGED sieveVars

\* Index 0 divides by 0 and crosses out far outside the segment (52-58).
SieveSegment(k) ==
    /\ pc[k] = "compute"
    /\ Alive
    /\ \E low \in LowPrimesRead(targs[k].end) :
          \/ /\ 0 \notin low
             /\ high_primes' = [high_primes EXCEPT ![k] =
                                     HighPrimes(targs[k].start, targs[k].end, low)]
             /\ Computed(k, Cardinality({n \in high_primes'[k] : TwoThrees(n)}))
             /\ UNCHANGED <<argVars, segVars>>
          \/ /\ 0 \in low
             /\ main' = "crashed"
             /\ UNCHANGED <<threadVars, total, printed, sieveVars>>

SieveThread(k) == SieveSegment(k) \/ (Add(k) /\ UNCHANGED sieveVars)

(***************************************************************************)
(* Types, and what the properties are about.                               *)
(***************************************************************************)
SieveTypeOK ==
    /\ opts \in Seq(Options)
    /\ given \subseteq {"s", "e", "t", "arg", "?"}
    /\ arg \in [{"s", "e", "t"} -> Nat]
    /\ {thread_length, thread_length_remainder, temp_start} \subseteq Nat
    /\ targs \in [Threads -> [start : Nat, end : Nat]]
    /\ high_primes \in [Threads -> SUBSET Nat]

Segment(k) == targs[k].start .. targs[k].end
IsPrime(n) == n >= 2 /\ \A d \in 2 .. n - 1 : n % d # 0
=============================================================================
