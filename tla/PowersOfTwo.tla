---------------------------- MODULE PowersOfTwo ----------------------------
(* The powers of two, as a function.                                       *)
EXTENDS Integers

Power[n \in Nat] == IF n = 0 THEN 1 ELSE 2 * Power[n - 1]
=============================================================================
