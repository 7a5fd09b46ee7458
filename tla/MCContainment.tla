---------------------------- MODULE MCContainment ----------------------------
(* Containment with a window of a few ticks and a reading lag of one.      *)
EXTENDS Containment, TLC

Symmetry == Permutations(Sources)

=============================================================================
