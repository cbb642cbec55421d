--------------------------- MODULE MCCleanupBatch ---------------------------
(* A batch that deletes two messages and one that trashes one of them, two   *)
(* executing requests, an undo and a retention sweep.                        *)
EXTENDS CleanupBatch, TLC

CONSTANTS m1, m2, b1, b2, a1, a2, u1, s1

MCPlan == (b1 :> {m1, m2}) @@ (b2 :> {m2})

Symmetry == Permutations(Attempts)
=============================================================================
