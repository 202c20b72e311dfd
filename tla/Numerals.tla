----------------------------- MODULE Numerals -----------------------------
(***************************************************************************)
(* What is_integer of hw7/util.h and lab 7/nforks.c, get_integer of the    *)
(* latter and the library make of a numeral.  A numeral is its shape and   *)
(* the number its leading digits make: "digits" with an optional minus     *)
(* sign, "empty", or "junk" with other characters after the digits.        *)
(***************************************************************************)
EXTENDS Integers

CONSTANT INT_MAX

ASSUME NumeralsAssumption == INT_MAX \in Nat

Numeral(shape, val) == [shape |-> shape, val |-> val]
AnyNumeral == [shape : {"digits", "empty", "junk"}, val : Int]

\* The empty string passes.
is_integer(s) == s.shape # "junk"

\* sscanf finds no number in the empty string.
get_integer(s) == s.shape # "empty" /\ s.val \in -INT_MAX - 1 .. INT_MAX

atoi(s) == IF s.shape = "empty" THEN 0 ELSE s.val
=============================================================================
