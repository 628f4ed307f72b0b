----------------------------- MODULE PowersOfTwo -----------------------------
(***************************************************************************)
(* The powers of two as a function, which the provers can unfold where     *)
(* they know nothing of an exponent that is not a number written out.      *)
(***************************************************************************)
EXTENDS Integers

Pow2[k \in Nat] == IF k = 0 THEN 1 ELSE 2 * Pow2[k - 1]
=============================================================================
