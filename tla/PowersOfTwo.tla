---------------------------- MODULE PowersOfTwo ----------------------------
(***************************************************************************)
(* Powers of two: the shift 1<<n, and the number of values of a word of n  *)
(* bits.  A function of one bit more, so that it can be reasoned about.    *)
(***************************************************************************)
EXTENDS Integers

Pow2(n) ==
  LET pow2[i \in 0 .. n] == IF i = 0 THEN 1 ELSE 2 * pow2[i - 1]
  IN pow2[n]
=============================================================================
