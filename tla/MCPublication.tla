--------------------------- MODULE MCPublication ---------------------------
(* Publication for TLC: executors are interchangeable. *)
EXTENDS Publication, TLC

Symmetry == Permutations(Workers)
=============================================================================
