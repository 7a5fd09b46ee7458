----------------------------- MODULE MCAutoBlock -----------------------------
(* The responder and the playbook on one gateway, in a short behaviour.    *)
EXTENDS AutoBlock

Symmetry == Permutations(Sources)

=============================================================================
