------------------------------ MODULE SendLane ------------------------------
(***************************************************************************)
(* What composeEmail promises of the send lane: under each idempotency     *)
(* tuple one message is accepted at most once, offered to the mail engine  *)
(* at most once, and settled at most once, on an answer the engine gave.   *)
(* A queued message may stay queued: nobody resumes a request that died.   *)
(* Callers that compose (SendLater) are modelled against this promise;     *)
(* AgentMail is shown to keep it.                                          *)
(***************************************************************************)
EXTENDS Naturals

CONSTANT Refs

VARIABLES
    lane,    \* "none", "queued", "sent" or "failed", by ref
    taken,   \* refs offered to the engine
    left     \* copies that left

laneVars == <<lane, taken, left>>

LaneInit ==
    /\ lane = [r \in Refs |-> "none"]
    /\ taken = {}
    /\ left = [r \in Refs |-> 0]

Accept(r) ==
    /\ lane[r] = "none"
    /\ lane' = [lane EXCEPT ![r] = "queued"]
    /\ UNCHANGED <<taken, left>>

Offer(r) ==
    /\ lane[r] = "queued" /\ r \notin taken
    /\ taken' = taken \cup {r}
    /\ \E n \in 0..1 : left' = [left EXCEPT ![r] = n]
    /\ UNCHANGED lane

Settle(r) ==
    /\ lane[r] = "queued" /\ r \in taken
    /\ \/ left[r] = 1 /\ lane' = [lane EXCEPT ![r] = "sent"]
       \/ lane' = [lane EXCEPT ![r] = "failed"]
    /\ UNCHANGED <<taken, left>>

LaneNext == \E r \in Refs : Accept(r) \/ Offer(r) \/ Settle(r)

LaneSpec == LaneInit /\ [][LaneNext]_laneVars
=============================================================================
