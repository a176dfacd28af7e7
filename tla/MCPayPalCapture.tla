-------------------------- MODULE MCPayPalCapture --------------------------
(* Constants and symmetry for the runs of PayPalCapture.                   *)
EXTENDS PayPalCapture, TLC

CONSTANTS o1, o2, r1, r2

(* No property tells one order, or one request, from another.              *)
Symmetry == Permutations(Orders) \union Permutations(Requests)
=============================================================================
