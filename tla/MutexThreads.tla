---------------------------- MODULE MutexThreads ----------------------------
(***************************************************************************)
(* Runs of the two programs whose threads add to a total under a mutex.    *)
(***************************************************************************)
EXTENDS Sieve, ThreadSum

VARIABLE program

vars == <<runVars, sieveVars, program>>

Init ==
    /\ RunInit
    /\ \/ program = "mtsieve" /\ main = "options" /\ \E line \in CommandLines : SieveInit(line)
       \/ program = "mtsumarray" /\ main = "init" /\ SieveInit(<<>>)

MainSteps ==
    /\ \/ program = "mtsieve" /\ SieveMain
       \/ program = "mtsumarray" /\ AdderMain /\ UNCHANGED sieveVars
    /\ UNCHANGED program

ThreadSteps(k) ==
    /\ \/ program = "mtsieve" /\ SieveThread(k)
       \/ program = "mtsumarray" /\ AdderThread(k) /\ UNCHANGED sieveVars
    /\ UNCHANGED program

Next == MainSteps \/ \E k \in Threads : ThreadSteps(k)

Spec == Init /\ [][Next]_vars

\* Every thread that can run is scheduled.
FairSpec ==
    /\ Spec
    /\ WF_vars(MainSteps)
    /\ \A k \in Threads : WF_vars(ThreadSteps(k))

(***************************************************************************)
(* Properties.                                                             *)
(***************************************************************************)

\* Types.
TypeOK ==
    /\ RunTypeOK /\ SieveTypeOK
    /\ program \in {"mtsieve", "mtsumarray"}

\* The segments handed out are not empty, follow each other, and once there is
\* one for each thread make up all of a..b, their sizes not more than one apart
\* (219-243), whatever the command line said: nothing is counted twice or not
\* at all, and no thread gets an array of no numbers.
Partition ==
    program = "mtsieve" =>
        LET all == 0 .. started - 1
        IN
        /\ \A k \in all : Segment(k) # {}
        /\ \A j, k \in all : j < k => Segment(j) \cap Segment(k) = {}
        /\ main \in {"join", "returned"} =>
              /\ UNION {Segment(k) : k \in all} = a .. b
              /\ \A j, k \in all : Cardinality(Segment(j)) <= Cardinality(Segment(k)) + 1

\* When main prints, each thread's sieve has left the primes of its segment:
\* also when the segment starts below its own low primes, which must not cross
\* themselves out, and whatever the uninitialised words hold beyond index 1.
\* The end of the segment stays as well when it is the square of a prime, which
\* line 37 leaves out.
SegmentSieved ==
    program = "mtsieve" /\ printed # <<>> =>
        \A k \in 0 .. started - 1 : \A n \in Segment(k) :
            IF n \in high_primes[k]
            THEN IsPrime(n) \/ (n = targs[k].end /\ \E p \in 2 .. n : p * p = n /\ IsPrime(p))
            ELSE ~ IsPrime(n)

\* Whenever nobody is adding, the total is what the threads that are done have
\* computed: no addition is lost to another thread's
\* (mtsieve.c 81-85, mtsumarray.c 61-66).
Adding == {k \in Threads : pc[k] \in {"load", "store", "unlock"}}
TotalOf(S) == SumBelow(MaxThreads, S, amount)

TotalAddsUp ==
    Adding = {} => total = TotalOf({k \in Threads : pc[k] = "done"})

\* "Sum with threads" is "Sum without threads" (141-146), unless a thread could
\* not be created: main says so, goes on, and when it prints a sum all the same it
\* is that of the shares of the threads there are, none of it lost.
PrintedSum ==
    program = "mtsumarray" /\ printed # <<>> =>
        /\ printed = <<SumOf(UNION {Share(k) : k \in 0 .. started - 1})>>
        /\ ~ unmade => printed = <<SumOf(DOMAIN Array)>>

\* "Total primes between a and b with two or more '3' digits" (260).
PrintedTotal ==
    program = "mtsieve" /\ printed # <<>> =>
        printed = <<Cardinality({n \in a .. b : IsPrime(n) /\ TwoThrees(n)})>>

\* The program ends.
Termination == <>(~ Alive)
=============================================================================
