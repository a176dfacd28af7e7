------------------------------ MODULE MCOutbox ------------------------------
(* The outbox on a small instance: model values, and their symmetry.        *)
EXTENDS Outbox, TLC

CONSTANTS m1, m2, m3, w1, w2

Symmetry == Permutations(Messages) \union Permutations(Workers)
WorkerSymmetry == Permutations(Workers)
=============================================================================
