--------------------------- MODULE MCAgentRegistry ---------------------------
(* Three mailboxes and two clients: two changes overlap and leave two        *)
(* primaries or a stale cache, and a further one runs by itself over them.   *)
EXTENDS AgentRegistry, TLC

CONSTANTS m1, m2, m3, c1, c2, r1

Symmetry == Permutations(Mailboxes) \cup Permutations(Clients)
=============================================================================
