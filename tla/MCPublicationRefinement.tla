---------------------- MODULE MCPublicationRefinement ----------------------
(* PublicationRefinement for TLC: job slots are interchangeable. *)
EXTENDS PublicationRefinement, TLC

Symmetry == Permutations(Workers)
=============================================================================
