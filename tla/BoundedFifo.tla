---------------------------- MODULE BoundedFifo ----------------------------
(***************************************************************************)
(* What 392/producerconsumer/produceconsume.c promises: a first in, first  *)
(* out queue of at most QUEUELEN expressions, into which every producer    *)
(* puts MAX_EXPRS expressions and from which every consumer gets as many.  *)
(***************************************************************************)
EXTENDS Integers, Sequences

CONSTANTS Producers, Consumers, QUEUELEN, MAX_EXPRS

VARIABLES
    contents,           \* the expressions in the queue, oldest first
    puts,               \* producer -> how many it put
    gets                \* consumer -> the expressions it got, oldest first

fifoVars == <<contents, puts, gets>>

FifoInit ==
    /\ contents = <<>>
    /\ puts = [p \in Producers |-> 0]
    /\ gets = [c \in Consumers |-> <<>>]

\* The k-th expression of producer p is <<p, k>>.
Put(p) ==
    /\ Len(contents) < QUEUELEN
    /\ puts[p] < MAX_EXPRS
    /\ puts' = [puts EXCEPT ![p] = @ + 1]
    /\ contents' = Append(contents, <<p, puts[p] + 1>>)
    /\ UNCHANGED gets

Get(c) ==
    /\ contents # <<>>
    /\ Len(gets[c]) < MAX_EXPRS
    /\ gets' = [gets EXCEPT ![c] = Append(@, Head(contents))]
    /\ contents' = Tail(contents)
    /\ UNCHANGED puts

FifoNext == (\E p \in Producers : Put(p)) \/ (\E c \in Consumers : Get(c))

FifoSpec == FifoInit /\ [][FifoNext]_fifoVars
=============================================================================
