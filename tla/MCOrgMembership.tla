--------------------------- MODULE MCOrgMembership ---------------------------
(* A founder, a second owner and a member: enough for two owners to be taken *)
(* from at once, for the owner lock to be waited for, and for a third to     *)
(* become an owner meanwhile.                                                *)
EXTENDS OrgMembership, TLC

CONSTANTS a, b, c, q1, q2, k1, s1, n1

Role(r) == [role |-> r, status |-> "keep"]
Status(s) == [role |-> "keep", status |-> s]
MCPatches == {Role("OWNER"), Status("SUSPENDED")}
\* Member changes are interchangeable.
Symmetry == Permutations(Requests)
=============================================================================
