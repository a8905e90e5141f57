--------------------------- MODULE MCYoutubeItem ----------------------------
(* YoutubeItem for TLC: executors are interchangeable. *)
EXTENDS YoutubeRefinement, TLC

MCSessions == {1, 2}

Symmetry == Permutations(Workers)
=============================================================================
