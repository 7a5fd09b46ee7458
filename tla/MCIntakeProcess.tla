--------------------------- MODULE MCIntakeProcess ---------------------------
(* The intake loop with the program's thresholds scaled down (20/95/100    *)
(* and 90 become 2/6/8 and 5): every level, stale shadow and in-flight     *)
(* frame of the small tank is explored.                                    *)
EXTENDS IntakeProcess, TLC

\* FC6 on HR0, and an FC16 block that rewrites the level with it.
MCWriteRequests ==
    { HR_VALVE :> v : v \in {0, 1} }
        \cup { (HR_VALVE :> 1) @@ (HR_LEVEL :> 9) }

Symmetry == Permutations(Clients)

=============================================================================
