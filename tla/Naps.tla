------------------------------- MODULE Naps -------------------------------
(***************************************************************************)
(* lab 9/snooze.c, funsignals/signals.c, Calarms/alarms.c and              *)
(* signals/worker.c: a loop that looks at a flag, and a handler that sets  *)
(* it.                                                                     *)
(***************************************************************************)
EXTENDS Unix, Numerals

LOCAL INSTANCE FiniteSetsExt

CONSTANTS
    NapArguments,       \* the command lines: sequences of numerals
    MaxSecs             \* bound: the seconds a nap takes, the numbers alarms tries

ASSUME NapsAssumption == NapArguments \subseteq Seq(AnyNumeral) /\ MaxSecs \in Nat

Nappers == {"snooze", "signals", "alarms"}

NapMem(argv) ==
    [argv |-> argv, sleep_secs |-> 0, got_signal |-> FALSE,
     secs_count |-> 0,
     slept |-> 0,               \* the seconds that really passed asleep
     num |-> 2, last_prime |-> 2, primes_count |-> 0]

NapStart(p, prog) ==
    /\ At(p, prog, "main")
    /\ LET argv == procs[p].mem.argv
       IN  IF Len(argv) # 1 \/ atoi(argv[1]) < 1
           THEN Exit(p, "failed")
           ELSE Step(p, "loop", [procs[p].mem EXCEPT !.sleep_secs = atoi(argv[1])])
    /\ UNCHANGED <<pipes, screen, fails, signals>>

\* snooze.c 63-69: the second is counted before it is slept.
StopsAt_Never(mem) == mem.got_signal
StopsAt(mem) == mem.got_signal \/ mem.secs_count + 1 = mem.sleep_secs

SnoozeLoop(p) ==
    /\ At(p, "snooze", "loop")
    /\ LET mem == procs[p].mem
       IN  Step(p, IF StopsAt(mem) THEN "report" ELSE "sleep",
                [mem EXCEPT !.secs_count = @ + 1])
    /\ UNCHANGED <<pipes, screen, fails, signals>>

\* signals.c 50-57 look at the flag twice.
NapLoop(p) ==
    /\ LET mem == procs[p].mem
       IN
       \/ At(p, "signals", "loop") /\ Goto(p, IF mem.got_signal THEN "report" ELSE "count")
       \/ /\ At(p, "signals", "count")
          /\ Step(p, "sleep", IF mem.got_signal THEN mem
                              ELSE [mem EXCEPT !.secs_count = @ + 1])
    /\ UNCHANGED <<pipes, screen, fails, signals>>

Sleep(p, prog) ==
    /\ At(p, prog, "sleep")
    /\ \/ procs[p].mem.slept < MaxSecs
       \/ prog # "worker" /\ procs[p].mem.got_signal
    /\ Step(p, "loop", [procs[p].mem EXCEPT !.slept = @ + 1])
    /\ UNCHANGED <<pipes, screen, fails, signals>>

\* The handler; a sleep it interrupts is over, unless it is yet to begin.
CatchSignal(p) ==
    /\ Running(p) /\ procs[p].int /\ procs[p].prog \in Nappers /\ procs[p].pc # "main"
    /\ \E pc \in {procs[p].pc} \cup (IF procs[p].pc = "sleep" THEN {"loop"} ELSE {}) :
         procs' = [procs EXCEPT ![p].int = FALSE, ![p].mem.got_signal = TRUE, ![p].pc = pc]
    /\ UNCHANGED <<pipes, screen, fails, signals>>

\* Before the handler is there.
DiesEarly(p) ==
    /\ Running(p) /\ procs[p].prog \in Nappers /\ procs[p].pc = "main"
    /\ DiesOf(p)
    /\ UNCHANGED <<pipes, screen, fails, signals>>

NapReport(p, prog) ==
    /\ At(p, prog, "report")
    /\ Shows(<<<<"slept", procs[p].mem.secs_count>>>>
             \o IF prog = "signals" /\ procs[p].mem.secs_count > procs[p].mem.sleep_secs
                THEN <<<<"overslept", procs[p].mem.secs_count>>>> ELSE <<>>)
    /\ Exit(p, "exited")
    /\ UNCHANGED <<pipes, fails, signals>>

(***************************************************************************)
(* alarms.c: SIGALRM comes once; the loop looks at the flag, and then      *)
(* tries one number.                                                       *)
(***************************************************************************)
is_prime(n) == \A div \in 2 .. n : div * div <= n => n % div # 0

PrimesLoop(p) ==
    /\ At(p, "alarms", "loop")
    /\ LET mem == procs[p].mem
       IN  IF mem.got_signal
           THEN /\ Shows(<<<<"primes", mem.primes_count>>, <<"last", mem.last_prime>>>>)
                /\ Exit(p, "exited")
           ELSE /\ mem.num < MaxSecs
                /\ Step(p, "loop",
                     IF is_prime(mem.num)
                     THEN [mem EXCEPT !.primes_count = @ + 1, !.last_prime = mem.num, !.num = @ + 1]
                     ELSE [mem EXCEPT !.num = @ + 1])
                /\ UNCHANGED screen
    /\ UNCHANGED <<pipes, fails, signals>>

\* CTRL+C.
WakeUp ==
    /\ Running(Root) /\ procs[Root].prog \in {"snooze", "signals"}
    /\ Interrupt({})

Alarm ==
    /\ Running(Root) /\ procs[Root].prog = "alarms" /\ procs[Root].pc # "main"
    /\ signals = 0
    /\ Interrupt({})

(***************************************************************************)
(* worker.c: the loop looks at the flag up to three times and then resets  *)
(* it; a signal that comes between is lost.                                *)
(***************************************************************************)
Sigs == {"SIGINT", "SIGTERM"}
WorkerMem == [signal_val |-> "", slept |-> 0]

WorkerLoop(p) ==
    /\ \/ /\ At(p, "worker", "loop")
          /\ Goto(p, IF procs[p].mem.signal_val = "" THEN "sleep" ELSE "SIGINT")
          /\ UNCHANGED screen
       \/ \E sig \in Sigs :
            /\ At(p, "worker", sig)
            /\ IF procs[p].mem.signal_val = sig
               THEN Goto(p, "reset") /\ Shows(<<<<sig, p>>>>)
               ELSE Goto(p, IF sig = "SIGINT" THEN "SIGTERM" ELSE "sleep") /\ UNCHANGED screen
       \/ /\ At(p, "worker", "reset")
          /\ Step(p, "sleep", [procs[p].mem EXCEPT !.signal_val = ""])
          /\ UNCHANGED screen
    /\ UNCHANGED <<pipes, fails, signals>>

\* The signal, and its handler at once.
DisturbWorker ==
    /\ Running(Root) /\ procs[Root].prog = "worker"
    /\ \E sig \in Sigs, pc \in {procs[Root].pc} \cup (IF procs[Root].pc = "sleep" THEN {"loop"} ELSE {}) :
         Signal([procs EXCEPT ![Root].mem.signal_val = sig, ![Root].pc = pc])

NapStep(p) ==
    \/ \E prog \in Nappers : NapStart(p, prog) \/ NapReport(p, prog)
    \/ \E prog \in {"snooze", "signals", "worker"} : Sleep(p, prog)
    \/ SnoozeLoop(p) \/ NapLoop(p) \/ PrimesLoop(p) \/ CatchSignal(p) \/ DiesEarly(p)
    \/ WorkerLoop(p)
=============================================================================
