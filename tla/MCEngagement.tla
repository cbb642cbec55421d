---------------------------- MODULE MCEngagement ----------------------------
(* One message, composed or held for a reviewer, that three requests may   *)
(* settle: the first copy is delivered to one recipient, opened, and       *)
(* bounced by the other; the second copy is delivered.                     *)
EXTENDS Engagement, TLC

CONSTANTS m1, a1, a2, a3, h1, h2

mcMessageOf == [a \in {a1, a2, a3} |-> m1]

Rec(a, type, id, at) == [of |-> a, type |-> type, id |-> id, at |-> at]

mcEvents ==
    {Rec(a1, "Delivery", NoId, 1), Rec(a1, "Open", NoId, 2), Rec(a1, "Bounce", 7, 2),
     Rec(a2, "Delivery", NoId, 1)}

Symmetric == Permutations(Handlers)
=============================================================================
