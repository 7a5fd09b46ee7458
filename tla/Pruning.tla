------------------------------- MODULE Pruning -------------------------------
(***************************************************************************)
(* The sliding windows of the detectors and the responder.  Each keeps a   *)
(* list of times, appends to it as time goes on, and leaves out what the   *)
(* window no longer covers when the next entry comes.  The list is in the  *)
(* order of time, so what is left out stands at its front.                 *)
(***************************************************************************)
EXTENDS Naturals, Sequences, FiniteSets

\* The list without the positions in `expired`, which are its first ones.
Pruned(list, expired) == SubSeq(list, Cardinality(expired) + 1, Len(list))

=============================================================================
