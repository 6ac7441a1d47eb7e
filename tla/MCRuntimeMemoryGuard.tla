------------------------- MODULE MCRuntimeMemoryGuard -----------------------
(* Two workers; a reserve of two units, below one unit an emergency;       *)
(* samples with no, one and two units of headroom.                         *)
EXTENDS RuntimeMemoryGuard, TLC

CONSTANTS w1, w2

MCWorkers == {w1, w2}
MCLevels == {0, 1, 3, 4}
MCRequests == {1, 2}
MCSymmetry == Permutations(MCWorkers)
=============================================================================
