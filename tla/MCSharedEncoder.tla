--------------------------- MODULE MCSharedEncoder ----------------------------
(* SharedEncoder for TLC: the sessions of one strategy are interchangeable *)
(* in everything the module says.                                          *)
EXTENDS SharedEncoder, TLC

CONSTANTS s1, s2, s3

Symmetry == Permutations(Sessions)
=============================================================================
