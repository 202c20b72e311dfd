----------------------------- MODULE Quicksort -----------------------------
(***************************************************************************)
(* Quciksort/quicksort.c: Lomuto partitioning and the recursion around it. *)
(* Elements are the numbers that cmp orders; a swap of all the bytes is a  *)
(* swap of two elements.                                                   *)
(***************************************************************************)
EXTENDS Integers, Sequences

VARIABLES
    array,              \* 0 .. len - 1 -> element
    calls,              \* the calls of quicksort_helper to come: <<left, right>>
    part                \* lomuto's variables [left, right, s, i], or NoPart

quickVars == <<array, calls, part>>

NoPart == [left |-> 0, right |-> -1, s |-> 0, i |-> 0]

QuickInit(a) == array = a /\ calls = <<>> /\ part = NoPart

swap(i, j) == [array EXCEPT ![i] = array[j], ![j] = array[i]]

quicksort(a, len) ==
    /\ array' = a
    /\ calls' = <<<<0, len - 1>>>>
    /\ UNCHANGED part

quicksort_helper ==
    /\ part = NoPart /\ calls # <<>>
    /\ LET left == Head(calls)[1]  right == Head(calls)[2]
       IN  part' = IF left < right
                   THEN [left |-> left, right |-> right, s |-> left, i |-> left + 1]
                   ELSE NoPart
    /\ calls' = Tail(calls)
    /\ UNCHANGED array

Less_OrEqualPlace(i, p) == array[i] < array[p] /\ i # part.right
Less(i, p) == array[i] < array[p]

\* One turn of lomuto's loop.
Compare ==
    /\ part # NoPart /\ part.i <= part.right
    /\ IF Less(part.i, part.left)
       THEN /\ array' = swap(part.s + 1, part.i)
            /\ part' = [part EXCEPT !.s = @ + 1, !.i = @ + 1]
       ELSE part' = [part EXCEPT !.i = @ + 1] /\ UNCHANGED array
    /\ UNCHANGED calls

\* The pivot takes its place, and both sides are to be sorted.
PlacePivot ==
    /\ part # NoPart /\ part.i > part.right
    /\ array' = swap(part.left, part.s)
    /\ calls' = <<<<part.left, part.s - 1>>, <<part.s + 1, part.right>>>> \o calls
    /\ part' = NoPart

SortStep == quicksort_helper \/ Compare \/ PlacePivot

Sorted == calls = <<>> /\ part = NoPart
=============================================================================
