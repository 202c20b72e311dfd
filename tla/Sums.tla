-------------------------------- MODULE Sums --------------------------------
(***************************************************************************)
(* Sums over a range of indices, added up in the order of the loops of the *)
(* programs that add up arrays.  The sum is a recursive function, so that  *)
(* SumsProofs can reason about it.                                         *)
(***************************************************************************)
EXTENDS Integers

\* The sum of weight[i] over the i of S below n.
SumBelow(n, S, weight) ==
    LET sum[m \in Nat] ==
            IF m = 0 THEN 0
            ELSE sum[m - 1] + IF m - 1 \in S THEN weight[m - 1] ELSE 0
    IN  sum[n]
=============================================================================
