-------------------------- MODULE AgentMailProofs ---------------------------
(***************************************************************************)
(* Proofs about AgentMail, for every set of requests, callers, reviewers,  *)
(* registry rows and trusted correspondents.                               *)
(*                                                                         *)
(* IInv is inductive.  Type correctness is not: a stamp that ran before    *)
(* its row exists would break it, so the invariant says what a request in  *)
(* flight knows about its row, and who may still write it.                 *)
(*                                                                         *)
(* The gate these requests pass (AutonomyDial) is proved against the       *)
(* published matrix at the end.                                            *)
(***************************************************************************)
EXTENDS AgentMail, AutonomyDial, TLAPS

\* A row, its item, its history.
RowInv ==
    \A r \in Refs :
        /\ ~Exists(r) => item[r] = "none" /\ copies[r] = 0 /\ r \notin offered
        /\ msg[r].mode = "SEND" =>
              /\ item[r] = "none"
              /\ msg[r].status \in {"QUEUED", "SENT", "FAILED"}
              /\ copies[r] <= 1
              /\ r \notin offered => msg[r].status = "QUEUED" /\ copies[r] = 0
        /\ msg[r].mode = "DRAFT" => item[r] # "none" /\ r \notin offered
        /\ msg[r].status = "SENT" \/ item[r] = "APPROVED" => copies[r] >= 1

Owns(c, r) == call[c].pc \in {"queued", "answered"} /\ call[c].ref = r

\* The caller that queued a row is the only one to offer and settle it.
CallInv ==
    /\ \A c, d \in Callers, r \in Refs : Owns(c, r) /\ Owns(d, r) => c = d
    /\ \A c \in Callers, r \in Refs : Owns(c, r) =>
          /\ msg[r].status = "QUEUED" /\ msg[r].mode = "SEND"
          /\ msg[r].agent = call[c].agent
          /\ call[c].pc = "queued" => r \notin offered
          /\ call[c].pc = "answered" => r \in offered
          /\ call[c].accepted => call[c].pc = "answered" /\ copies[r] = 1

\* A reviewer in flight works on a staged draft.
ReviewInv ==
    \A v \in Reviewers, r \in Refs : (review[v].pc # "idle" /\ review[v].ref = r) =>
        /\ msg[r].mode = "DRAFT"
        /\ review[v].accepted => copies[r] >= 1

GatedInv == \A c \in Callers : call[c].pc = "gated" => ~call[c].accepted

IInv == TypeOK /\ RowInv /\ CallInv /\ ReviewInv /\ GatedInv

-----------------------------------------------------------------------------
(***************************************************************************)
(* The gate answers with one of the two modes (DecideAgentComposeMode).    *)
(***************************************************************************)
LEMMA GateModes ==
    ASSUME NEW r \in Refs
    PROVE  /\ GateMode(r) \in {"send", "draft"}
           /\ FailSafeMode(r) \in {"send", "draft"}
<1>1. ASSUME NEW wants \in {"send", "draft"}, NEW who, NEW to, NEW source
      PROVE  DecideComposeMode(wants, who, to, source).mode \in {"send", "draft"}
  BY DEF DecideComposeMode, Decision, Send, Hold
<1>2. ASSUME NEW wants \in {"send", "draft"}, NEW who, NEW to, NEW source, NEW ctx
      PROVE  DecideAgentComposeMode(wants, who, to, source, ctx).mode \in {"send", "draft"}
  BY <1>1 DEF DecideAgentComposeMode, Decision, Send, Hold
<1>3. Request[r].wants \in {"send", "draft"} /\ GateInput(r).wants = Request[r].wants
  BY RequestAssumption DEF GateInput
<1>. QED BY <1>2, <1>3 DEF GateMode, FailSafeMode, ComposeDecision

(***************************************************************************)
(* The provenance a compose records is a registered agent or none.         *)
(***************************************************************************)
LEMMA AgentKeys ==
    ASSUME NEW r \in Refs PROVE AgentKey(r) \in Agents \cup {NoAgent}
BY RequestAssumption DEF AgentKey

(***************************************************************************)
(* What the type invariant says of one row, one call and one review.       *)
(***************************************************************************)
LEMMA Shapes ==
    ASSUME TypeOK
    PROVE  /\ \A r \in Refs : msg[r] \in Row \/ msg[r] = NoMsg
           /\ \A r \in Refs : Exists(r) => msg[r] \in Row
           /\ \A r \in Refs : copies[r] \in Nat
           /\ \A c \in Callers : call[c].pc # "idle" => call[c].ref \in Refs
           /\ \A v \in Reviewers : review[v].pc # "idle" => review[v].ref \in Refs
<1>1. \A r \in Refs : msg[r] \in Row \/ msg[r] = NoMsg
  BY DEF TypeOK
<1>2. \A r \in Refs : Exists(r) => msg[r] \in Row
  BY <1>1 DEF Exists, NoMsg
<1>3. \A r \in Refs : copies[r] \in Nat
  BY MaxCopiesAssumption DEF TypeOK
<1>4. \A c \in Callers : call[c].pc # "idle" => call[c].ref \in Refs
  BY DEF TypeOK, CallState, IdleCall
<1>5. \A v \in Reviewers : review[v].pc # "idle" => review[v].ref \in Refs
  BY DEF TypeOK, ReviewState, IdleReview
<1>. QED BY <1>1, <1>2, <1>3, <1>4, <1>5

LEMMA InitInv == Init => IInv
<1>. SUFFICES ASSUME Init PROVE IInv
  OBVIOUS
<1>1. TypeOK
  <2>1. msg \in [Refs -> Row \cup {NoMsg}] /\ item \in [Refs -> ItemState]
    BY DEF Init, ItemState
  <2>2. call \in [Callers -> CallState] /\ review \in [Reviewers -> ReviewState]
    BY DEF Init, CallState, ReviewState
  <2>3. copies \in [Refs -> 0..MaxCopies]
    BY MaxCopiesAssumption DEF Init
  <2>4. offered \subseteq Refs /\ vouched \subseteq Refs \X Reviewers
    BY DEF Init
  <2>. QED BY <2>1, <2>2, <2>3, <2>4 DEF Init, TypeOK
<1>2. RowInv /\ CallInv /\ ReviewInv /\ GatedInv
  BY DEF Init, RowInv, CallInv, Owns, ReviewInv, GatedInv, Exists, NoMsg, IdleCall, IdleReview
<1>. QED BY <1>1, <1>2 DEF IInv

-----------------------------------------------------------------------------
(***************************************************************************)
(* Every step of a compose keeps the invariant.                            *)
(***************************************************************************)
LEMMA ComposeKeepsInv ==
    ASSUME IInv, NEW c \in Callers, Compose(c)
    PROVE  IInv'
<1>. USE DEF IInv
<1>1. ASSUME NEW r \in Refs, ComposeGate(c, r) PROVE IInv'
  <2>1. PICK mode \in {"send", "draft"} :
            call' = [call EXCEPT ![c] = [pc |-> "gated", ref |-> r, mode |-> mode,
                                         agent |-> AgentKey(r), accepted |-> FALSE]]
    BY <1>1, GateModes DEF ComposeGate
  <2>2. TypeOK'
    BY <1>1, <2>1, AgentKeys DEF ComposeGate, TypeOK, CallState
  <2>3. RowInv' /\ ReviewInv'
    BY <1>1 DEF ComposeGate, RowInv, ReviewInv, Exists
  <2>4. CallInv' /\ GatedInv'
    BY <1>1, <2>1 DEF ComposeGate, CallInv, GatedInv, Owns, TypeOK
  <2>. QED BY <2>2, <2>3, <2>4
<1>2. ASSUME ComposeStage(c) PROVE IInv'
  <2>. DEFINE r == call[c].ref
  <2>1. r \in Refs /\ call[c] \in CallState \ {IdleCall}
    BY <1>2, Shapes DEF ComposeStage, TypeOK, IdleCall
  <2>2. \A d \in Callers : ~Owns(d, r) \/ Exists(r)
    BY <2>1 DEF CallInv, Exists
  <2>3. TypeOK'
    <3>1. msg' \in [Refs -> Row \cup {NoMsg}]
      BY <1>2, <2>1 DEF ComposeStage, TypeOK, CallState, Row, MessageStatus, rows
    <3>2. item' \in [Refs -> ItemState]
      BY <1>2, <2>1 DEF ComposeStage, TypeOK, ItemState, rows
    <3>3. call' \in [Callers -> CallState]
      BY <1>2 DEF ComposeStage, TypeOK, CallState
    <3>. QED BY <1>2, <3>1, <3>2, <3>3 DEF ComposeStage, TypeOK
  <2>4. RowInv'
    BY <1>2, <2>1, Shapes DEF ComposeStage, RowInv, Exists, TypeOK, rows, NoMsg, Row
  <2>5. CallInv' /\ GatedInv'
    BY <1>2, <2>1, <2>2 DEF ComposeStage, CallInv, GatedInv, Owns, TypeOK, rows, Exists, IdleCall
  <2>6. ReviewInv'
    BY <1>2, <2>1 DEF ComposeStage, ReviewInv, TypeOK, rows, Exists
  <2>. QED BY <2>3, <2>4, <2>5, <2>6
<1>3. ASSUME ComposeQueue(c) PROVE IInv'
  <2>. DEFINE r == call[c].ref
  <2>1. r \in Refs /\ call[c] \in CallState \ {IdleCall}
    BY <1>3, Shapes DEF ComposeQueue, TypeOK, IdleCall
  <2>2. \A d \in Callers : ~Owns(d, r) \/ Exists(r)
    BY <2>1 DEF CallInv, Exists
  <2>3. TypeOK'
    <3>1. msg' \in [Refs -> Row \cup {NoMsg}]
      BY <1>3, <2>1 DEF ComposeQueue, TypeOK, CallState, Row, MessageStatus
    <3>2. call' \in [Callers -> CallState]
      BY <1>3, <2>1 DEF ComposeQueue, TypeOK, CallState
    <3>. QED BY <1>3, <3>1, <3>2 DEF ComposeQueue, TypeOK
  <2>4. RowInv'
    BY <1>3, <2>1, Shapes DEF ComposeQueue, RowInv, Exists, TypeOK, NoMsg, Row
  <2>5. CallInv' /\ GatedInv'
    <3>1. CASE Exists(r)
      BY <1>3, <2>1, <3>1 DEF ComposeQueue, CallInv, GatedInv, Owns, TypeOK, IdleCall
    <3>2. CASE ~Exists(r)
      <4>1. /\ call' = [call EXCEPT ![c].pc = "queued"]
            /\ msg' = [msg EXCEPT ![r] = [status |-> "QUEUED", mode |-> "SEND",
                                         agent |-> call[c].agent]]
            /\ UNCHANGED <<copies, offered>>
        BY <1>3, <3>2 DEF ComposeQueue
      <4>2. ~call[c].accepted /\ r \notin offered
        BY <1>3, <2>1, <3>2 DEF ComposeQueue, GatedInv, RowInv
      <4>3. \A d \in Callers : d # c => call'[d] = call[d] /\ ~Owns(d, r)'
        BY <2>2, <3>2, <4>1 DEF TypeOK, Owns
      <4>4. /\ call'[c].pc = "queued" /\ call'[c].ref = r
            /\ call'[c].agent = call[c].agent /\ ~call'[c].accepted
        BY <2>1, <4>1, <4>2 DEF TypeOK, CallState
      <4>5. \A q \in Refs : q # r => msg'[q] = msg[q]
        BY <2>1, <4>1 DEF TypeOK
      <4>6. msg'[r].status = "QUEUED" /\ msg'[r].mode = "SEND"
            /\ msg'[r].agent = call[c].agent
        BY <2>1, <4>1 DEF TypeOK
      <4>. QED BY <4>1, <4>2, <4>3, <4>4, <4>5, <4>6 DEF CallInv, GatedInv, Owns
    <3>. QED BY <3>1, <3>2
  <2>6. ReviewInv'
    BY <1>3, <2>1 DEF ComposeQueue, ReviewInv, TypeOK, Exists
  <2>. QED BY <2>3, <2>4, <2>5, <2>6
<1>4. ASSUME ComposeSend(c) PROVE IInv'
  <2>. DEFINE r == call[c].ref
  <2>1. r \in Refs /\ call[c] \in CallState \ {IdleCall} /\ Owns(c, r)
    BY <1>4, Shapes DEF ComposeSend, TypeOK, IdleCall, Owns
  <2>2. /\ msg[r].status = "QUEUED" /\ msg[r].mode = "SEND"
        /\ r \notin offered /\ copies[r] = 0 /\ item[r] = "none"
    BY <1>4, <2>1 DEF ComposeSend, CallInv, RowInv
  <2>3. PICK accepted \in BOOLEAN :
            /\ EngineTakes(r, accepted)
            /\ call' = [call EXCEPT ![c].pc = "answered", ![c].accepted = accepted]
    BY <1>4 DEF ComposeSend
  <2>4. /\ copies' \in [Refs -> 0..MaxCopies]
        /\ \A q \in Refs : q # r => copies'[q] = copies[q]
        /\ copies'[r] \in {0, 1} /\ (accepted => copies'[r] = 1)
    BY <2>1, <2>2, <2>3, MaxCopiesAssumption DEF EngineTakes, TypeOK
  <2>5. /\ \A d \in Callers : d # c => call'[d] = call[d] /\ ~Owns(d, r)
        /\ call'[c].pc = "answered" /\ call'[c].ref = r
        /\ call'[c].agent = call[c].agent /\ call'[c].accepted = accepted
    <3>1. \A d \in Callers : d # c => call'[d] = call[d] /\ ~Owns(d, r)
      BY <2>1, <2>3 DEF TypeOK, CallInv
    <3>. QED BY <2>1, <2>3, <3>1 DEF TypeOK, CallState
  <2>6. TypeOK'
    <3>1. call' \in [Callers -> CallState]
      BY <2>1, <2>3 DEF TypeOK, CallState
    <3>. QED BY <1>4, <2>1, <2>4, <3>1 DEF ComposeSend, TypeOK
  <2>7. RowInv'
    BY <1>4, <2>1, <2>2, <2>4 DEF ComposeSend, RowInv, Exists
  <2>8. CallInv' /\ GatedInv'
    <3>1. UNCHANGED msg /\ offered' = offered \cup {r}
      BY <1>4 DEF ComposeSend
    <3>2. \A d \in Callers, q \in Refs : Owns(d, q)' =>
              \/ d = c /\ q = r
              \/ d # c /\ q # r /\ Owns(d, q) /\ call'[d] = call[d]
      BY <2>5 DEF Owns
    <3>3. CallInv'
      BY <2>1, <2>2, <2>4, <2>5, <3>1, <3>2 DEF CallInv
    <3>. QED BY <2>5, <3>3 DEF GatedInv
  <2>9. ReviewInv'
    BY <1>4, <2>2, <2>4 DEF ComposeSend, ReviewInv
  <2>. QED BY <2>6, <2>7, <2>8, <2>9
<1>5. ASSUME ComposeStamp(c) PROVE IInv'
  <2>. DEFINE r == call[c].ref
  <2>1. r \in Refs /\ Owns(c, r) /\ msg[r] \in Row
    BY <1>5, Shapes DEF ComposeStamp, Owns, CallInv, Exists
  <2>2. /\ msg[r].mode = "SEND" /\ r \in offered /\ item[r] = "none"
        /\ call[c].accepted => copies[r] = 1
    BY <1>5, <2>1 DEF ComposeStamp, CallInv, RowInv
  <2>3. /\ \A q \in Refs : q # r => msg'[q] = msg[q]
        /\ msg'[r].mode = "SEND"
        /\ msg'[r].status = IF call[c].accepted THEN "SENT" ELSE "FAILED"
    BY <1>5, <2>1, <2>2 DEF ComposeStamp, StampSendResult, TypeOK, Row
  <2>4. /\ \A d \in Callers : d # c => call'[d] = call[d] /\ ~Owns(d, r)
        /\ call'[c] = IdleCall
    BY <1>5, <2>1 DEF ComposeStamp, CallInv, TypeOK
  <2>5. TypeOK'
    <3>1. msg' \in [Refs -> Row \cup {NoMsg}]
      BY <1>5, <2>1 DEF ComposeStamp, StampSendResult, TypeOK, Row, MessageStatus
    <3>2. call' \in [Callers -> CallState]
      BY <1>5 DEF ComposeStamp, TypeOK, CallState
    <3>. QED BY <1>5, <3>1, <3>2 DEF ComposeStamp, TypeOK
  <2>6. RowInv'
    BY <1>5, <2>1, <2>2, <2>3, Shapes DEF ComposeStamp, RowInv, Exists
  <2>7. CallInv' /\ GatedInv'
    BY <1>5, <2>1, <2>3, <2>4 DEF ComposeStamp, CallInv, GatedInv, Owns, IdleCall
  <2>8. ReviewInv'
    BY <1>5, <2>2, <2>3 DEF ComposeStamp, ReviewInv
  <2>. QED BY <2>5, <2>6, <2>7, <2>8
<1>6. ASSUME ComposeDies(c) PROVE IInv'
  <2>1. TypeOK' 
    BY <1>6 DEF ComposeDies, TypeOK, CallState
  <2>2. RowInv' /\ ReviewInv'
    BY <1>6 DEF ComposeDies, RowInv, ReviewInv, Exists
  <2>3. CallInv' /\ GatedInv'
    BY <1>6 DEF ComposeDies, CallInv, GatedInv, Owns, TypeOK, IdleCall
  <2>. QED BY <2>1, <2>2, <2>3
<1>. QED BY <1>1, <1>2, <1>3, <1>4, <1>5, <1>6 DEF Compose

(***************************************************************************)
(* Every step of a review keeps the invariant.                             *)
(***************************************************************************)
LEMMA ReviewKeepsInv ==
    ASSUME IInv, NEW v \in Reviewers, Review(v)
    PROVE  IInv'
<1>. USE DEF IInv
<1>. DEFINE r == review[v].ref
<1>1. ASSUME NEW q \in Refs, NEW trusting \in BOOLEAN, ApprovePlan(v, q, trusting)
      PROVE  IInv'
  <2>1. msg[q].mode = "DRAFT"
    BY <1>1, Shapes DEF ApprovePlan, RowInv, Exists, Row
  <2>2. TypeOK'
    <3>1. review' \in [Reviewers -> ReviewState]
      BY <1>1 DEF ApprovePlan, TypeOK, ReviewState
    <3>2. vouched' \subseteq Refs \X Reviewers
      BY <1>1 DEF ApprovePlan, TypeOK
    <3>. QED BY <1>1, <3>1, <3>2 DEF ApprovePlan, TypeOK
  <2>3. RowInv' /\ CallInv' /\ GatedInv'
    BY <1>1 DEF ApprovePlan, RowInv, CallInv, GatedInv, Owns, Exists
  <2>4. ReviewInv'
    BY <1>1, <2>1 DEF ApprovePlan, ReviewInv, TypeOK
  <2>. QED BY <2>2, <2>3, <2>4
<1>2. ASSUME ApproveSend(v) PROVE IInv'
  <2>1. r \in Refs /\ review[v] \in ReviewState \ {IdleReview} /\ msg[r].mode = "DRAFT"
    BY <1>2, Shapes DEF ApproveSend, TypeOK, IdleReview, ReviewInv
  <2>2. PICK accepted \in BOOLEAN :
            /\ EngineTakes(r, accepted)
            /\ review' = [review EXCEPT ![v].pc = "answered", ![v].accepted = accepted]
    BY <1>2 DEF ApproveSend
  <2>3. /\ copies' \in [Refs -> 0..MaxCopies]
        /\ \A q \in Refs : q # r => copies'[q] = copies[q]
        /\ copies'[r] >= copies[r] /\ (accepted => copies'[r] >= 1)
    BY <2>1, <2>2, MaxCopiesAssumption DEF EngineTakes, TypeOK
  <2>4. TypeOK'
    <3>1. review' \in [Reviewers -> ReviewState]
      BY <2>1, <2>2 DEF TypeOK, ReviewState
    <3>. QED BY <1>2, <2>3, <3>1 DEF ApproveSend, TypeOK
  <2>5. RowInv'
    BY <1>2, <2>1, <2>3, Shapes DEF ApproveSend, RowInv, Exists
  <2>6. CallInv' /\ GatedInv'
    BY <1>2, <2>1, <2>3 DEF ApproveSend, CallInv, GatedInv, Owns
  <2>7. ReviewInv'
    <3>1. \A w \in Reviewers : w # v => review'[w] = review[w]
      BY <2>2 DEF TypeOK
    <3>2. review'[v].ref = r /\ review'[v].accepted = accepted
      BY <2>1, <2>2 DEF TypeOK, ReviewState
    <3>3. \A q \in Refs : copies[q] >= 1 => copies'[q] >= 1
      BY <2>1, <2>3, MaxCopiesAssumption DEF TypeOK
    <3>4. \A q \in Refs : msg[q].mode = "DRAFT" => msg'[q].mode = "DRAFT"
      BY <1>2 DEF ApproveSend
    <3>5. ASSUME NEW w \in Reviewers, NEW q \in Refs,
                 review'[w].pc # "idle", review'[w].ref = q
          PROVE  msg'[q].mode = "DRAFT" /\ (review'[w].accepted => copies'[q] >= 1)
      <4>1. CASE w = v
        BY <2>1, <2>3, <3>2, <3>4, <3>5, <4>1
      <4>2. CASE w # v
        BY <3>1, <3>3, <3>4, <3>5, <4>2 DEF ReviewInv
      <4>. QED BY <4>1, <4>2
    <3>. QED BY <3>5 DEF ReviewInv
  <2>. QED BY <2>4, <2>5, <2>6, <2>7
<1>3. ASSUME LearnTrustedCorrespondents(v) PROVE IInv'
  <2>1. review[v] \in ReviewState \ {IdleReview}
    BY <1>3 DEF LearnTrustedCorrespondents, TypeOK, IdleReview
  <2>2. TypeOK'
    <3>1. review' \in [Reviewers -> ReviewState]
      BY <1>3, <2>1 DEF LearnTrustedCorrespondents, TypeOK, ReviewState
    <3>. QED BY <1>3, <3>1 DEF LearnTrustedCorrespondents, TypeOK
  <2>3. RowInv' /\ CallInv' /\ GatedInv'
    BY <1>3 DEF LearnTrustedCorrespondents, RowInv, CallInv, GatedInv, Owns, Exists
  <2>4. ReviewInv'
    BY <1>3, <2>1 DEF LearnTrustedCorrespondents, ReviewInv, TypeOK, ReviewState
  <2>. QED BY <2>2, <2>3, <2>4
<1>4. ASSUME ApproveStamp(v) PROVE IInv'
  <2>1. r \in Refs /\ msg[r].mode = "DRAFT" /\ Exists(r) /\ msg[r] \in Row
    BY <1>4, Shapes DEF ApproveStamp, ReviewInv, Exists
  <2>2. review[v].accepted => copies[r] >= 1
    BY <1>4, <2>1 DEF ApproveStamp, ReviewInv
  <2>3. /\ \A q \in Refs : q # r => msg'[q] = msg[q] /\ item'[q] = item[q]
        /\ msg'[r].mode = "DRAFT"
        /\ msg'[r].status = IF review[v].accepted THEN "SENT" ELSE "FAILED"
        /\ item'[r] = IF review[v].accepted THEN "APPROVED" ELSE item[r]
    BY <1>4, <2>1 DEF ApproveStamp, StampSendResult, TypeOK, Row
  <2>4. TypeOK'
    <3>1. msg' \in [Refs -> Row \cup {NoMsg}]
      BY <1>4, <2>1 DEF ApproveStamp, StampSendResult, TypeOK, Row, MessageStatus
    <3>2. item' \in [Refs -> ItemState]
      BY <1>4 DEF ApproveStamp, TypeOK, ItemState
    <3>3. review' \in [Reviewers -> ReviewState]
      BY <1>4 DEF ApproveStamp, TypeOK, ReviewState
    <3>. QED BY <1>4, <3>1, <3>2, <3>3 DEF ApproveStamp, TypeOK
  <2>5. RowInv'
    BY <1>4, <2>1, <2>2, <2>3, Shapes DEF ApproveStamp, RowInv, Exists
  <2>6. CallInv' /\ GatedInv'
    BY <1>4, <2>1, <2>3 DEF ApproveStamp, CallInv, GatedInv, Owns
  <2>7. ReviewInv'
    BY <1>4, <2>1, <2>3 DEF ApproveStamp, ReviewInv, TypeOK, IdleReview
  <2>. QED BY <2>4, <2>5, <2>6, <2>7
<1>5. ASSUME NEW q \in Refs, RejectRead(v, q) PROVE IInv'
  <2>1. msg[q].mode = "DRAFT"
    BY <1>5, Shapes DEF RejectRead, RowInv, Exists, Row
  <2>2. TypeOK'
    BY <1>5 DEF RejectRead, TypeOK, ReviewState
  <2>3. RowInv' /\ CallInv' /\ GatedInv'
    BY <1>5 DEF RejectRead, RowInv, CallInv, GatedInv, Owns, Exists
  <2>4. ReviewInv'
    BY <1>5, <2>1 DEF RejectRead, ReviewInv, TypeOK
  <2>. QED BY <2>2, <2>3, <2>4
<1>6. ASSUME RejectCommit(v) PROVE IInv'
  <2>1. r \in Refs /\ msg[r].mode = "DRAFT" /\ Exists(r) /\ msg[r] \in Row
    BY <1>6, Shapes DEF RejectCommit, ReviewInv, Exists
  <2>2. /\ \A q \in Refs : q # r => msg'[q] = msg[q] /\ item'[q] = item[q]
        /\ msg'[r].mode = "DRAFT" /\ msg'[r].status = "REJECTED"
        /\ item'[r] = "REJECTED"
    BY <1>6, <2>1 DEF RejectCommit, TypeOK, Row
  <2>3. TypeOK'
    <3>1. msg' \in [Refs -> Row \cup {NoMsg}]
      BY <1>6, <2>1 DEF RejectCommit, TypeOK, Row, MessageStatus
    <3>2. item' \in [Refs -> ItemState]
      BY <1>6 DEF RejectCommit, TypeOK, ItemState
    <3>3. review' \in [Reviewers -> ReviewState]
      BY <1>6 DEF RejectCommit, TypeOK, ReviewState
    <3>. QED BY <1>6, <3>1, <3>2, <3>3 DEF RejectCommit, TypeOK
  <2>4. RowInv'
    BY <1>6, <2>1, <2>2, Shapes DEF RejectCommit, RowInv, Exists
  <2>5. CallInv' /\ GatedInv'
    BY <1>6, <2>1, <2>2 DEF RejectCommit, CallInv, GatedInv, Owns
  <2>6. ReviewInv'
    BY <1>6, <2>1, <2>2 DEF RejectCommit, ReviewInv, TypeOK, IdleReview
  <2>. QED BY <2>3, <2>4, <2>5, <2>6
<1>7. ASSUME ReviewDies(v) PROVE IInv'
  <2>1. TypeOK'
    BY <1>7 DEF ReviewDies, TypeOK, ReviewState
  <2>2. RowInv' /\ CallInv' /\ GatedInv'
    BY <1>7 DEF ReviewDies, RowInv, CallInv, GatedInv, Owns, Exists
  <2>3. ReviewInv'
    BY <1>7 DEF ReviewDies, ReviewInv, TypeOK, IdleReview
  <2>. QED BY <2>1, <2>2, <2>3
<1>. QED BY <1>1, <1>2, <1>3, <1>4, <1>5, <1>6, <1>7 DEF Review

(***************************************************************************)
(* The controls touch no row and no request in flight.                     *)
(***************************************************************************)
LEMMA ControlKeepsInv ==
    ASSUME IInv, Control
    PROVE  IInv'
<1>1. UNCHANGED <<msg, item, call, review, copies, offered, vouched>>
  BY DEF Control, SetControls, UpdateAgent, AddTrust, RemoveTrust
<1>2. agents' \in [Agents -> AgentRows] /\ agentsPaused' \in BOOLEAN
  BY DEF Control, SetControls, UpdateAgent, AddTrust, RemoveTrust, IInv, TypeOK
<1>3. TypeOK'
  BY <1>1, <1>2 DEF IInv, TypeOK
<1>4. RowInv' /\ CallInv' /\ ReviewInv' /\ GatedInv'
  BY <1>1 DEF IInv, RowInv, CallInv, ReviewInv, GatedInv, Owns, Exists
<1>. QED BY <1>3, <1>4 DEF IInv

LEMMA StutterKeepsInv ==
    ASSUME IInv, UNCHANGED vars
    PROVE  IInv'
BY DEF IInv, TypeOK, RowInv, CallInv, ReviewInv, GatedInv, Owns, Exists, vars

THEOREM Invariance == Spec => []IInv
<1>1. IInv /\ [Next]_vars => IInv'
  BY ComposeKeepsInv, ReviewKeepsInv, ControlKeepsInv, StutterKeepsInv DEF Next
<1>. QED BY InitInv, <1>1, PTL DEF Spec

(***************************************************************************)
(* Type correctness: no stamp or flip ever writes a row that is not there. *)
(***************************************************************************)
THEOREM TypeCorrect == Spec => []TypeOK
<1>1. IInv => TypeOK
  BY DEF IInv
<1>. QED BY Invariance, <1>1, PTL

(***************************************************************************)
(* composeEmail: a tuple's send leaves at most once, for any number of     *)
(* callers racing, retrying and dying.                                     *)
(***************************************************************************)
THEOREM SendLaneOnceHolds == Spec => []SendLaneOnce
<1>1. IInv => SendLaneOnce
  BY DEF IInv, RowInv, SendLaneOnce
<1>. QED BY Invariance, <1>1, PTL

(***************************************************************************)
(* composeEmail and approveAgentInboxItem: SENT and APPROVED only after a  *)
(* copy left, for any number of reviewers deciding at once.                *)
(***************************************************************************)
THEOREM VerdictsAreTrueHolds == Spec => []VerdictsAreTrue
<1>1. IInv => VerdictsAreTrue
  BY DEF IInv, RowInv, VerdictsAreTrue
<1>. QED BY Invariance, <1>1, PTL

-----------------------------------------------------------------------------
(***************************************************************************)
(* The send lane of AgentMail implements SendLane.  A step on a staged     *)
(* draft, a lost insert or a death maps to a stutter.                      *)
(***************************************************************************)
LaneOf(r) == LaneStatus(msg[r])
LeftOf(r) == IF msg[r].mode = "SEND" THEN copies[r] ELSE 0

LEMMA LaneStutter ==
    ASSUME \A r \in Refs : LaneOf(r)' = LaneOf(r) /\ LeftOf(r)' = LeftOf(r),
           UNCHANGED offered
    PROVE  UNCHANGED Lane!laneVars
BY DEF Lane!laneVars, LaneOf, LeftOf

LEMMA ComposeKeepsLane ==
    ASSUME IInv, NEW c \in Callers, Compose(c)
    PROVE  [Lane!LaneNext]_(Lane!laneVars)
<1>. USE DEF IInv
<1>1. CASE (\E q \in Refs : ComposeGate(c, q)) \/ ComposeDies(c)
  BY <1>1, LaneStutter DEF ComposeGate, ComposeDies, LaneOf, LeftOf
<1>2. CASE ComposeStage(c)
  <2>1. PICK r \in Refs : r = call[c].ref
    BY <1>2, Shapes DEF ComposeStage
  <2>2. \A q \in Refs : q # r => msg'[q] = msg[q]
    BY <1>2, <2>1 DEF ComposeStage, rows, TypeOK
  <2>3. ~Exists(r) => msg'[r].mode = "DRAFT" /\ copies[r] = 0
    BY <1>2, <2>1 DEF ComposeStage, TypeOK, RowInv
  <2>4. Exists(r) => msg'[r] = msg[r]
    BY <1>2, <2>1 DEF ComposeStage, rows
  <2>5. LaneOf(r)' = LaneOf(r) /\ LeftOf(r)' = LeftOf(r)
    BY <1>2, <2>1, <2>3, <2>4 DEF ComposeStage, LaneOf, LeftOf, LaneStatus, Exists
  <2>. QED BY <1>2, <2>2, <2>5, LaneStutter DEF ComposeStage, LaneOf, LeftOf
<1>3. CASE ComposeQueue(c)
  <2>1. PICK r \in Refs : r = call[c].ref
    BY <1>3, Shapes DEF ComposeQueue
  <2>2. CASE Exists(r)
    BY <1>3, <2>1, <2>2, LaneStutter DEF ComposeQueue, LaneOf, LeftOf
  <2>3. CASE ~Exists(r)
    <3>1. /\ \A q \in Refs : q # r => msg'[q] = msg[q]
          /\ msg'[r].status = "QUEUED" /\ msg'[r].mode = "SEND"
          /\ copies[r] = 0 /\ UNCHANGED <<copies, offered>>
      BY <1>3, <2>1, <2>3 DEF ComposeQueue, TypeOK, RowInv
    <3>2. /\ LaneOf(r) = "none" /\ LaneOf(r)' = "queued"
          /\ LeftOf(r)' = LeftOf(r)
      BY <2>3, <3>1 DEF LaneOf, LeftOf, LaneStatus, Exists
    <3>3. \A q \in Refs : q # r => LaneOf(q)' = LaneOf(q) /\ LeftOf(q)' = LeftOf(q)
      BY <3>1 DEF LaneOf, LeftOf
    <3>4. Lane!Accept(r)
      BY <2>1, <3>1, <3>2, <3>3 DEF Lane!Accept, LaneOf, LeftOf
    <3>. QED BY <2>1, <3>4 DEF Lane!LaneNext
  <2>. QED BY <2>2, <2>3
<1>4. CASE ComposeSend(c)
  <2>1. PICK r \in Refs : r = call[c].ref /\ Owns(c, r)
    BY <1>4, Shapes DEF ComposeSend, Owns
  <2>2. /\ msg[r].status = "QUEUED" /\ msg[r].mode = "SEND"
        /\ r \notin offered /\ copies[r] = 0
    BY <1>4, <2>1 DEF ComposeSend, CallInv, RowInv
  <2>3. /\ offered' = offered \cup {r} /\ UNCHANGED msg
        /\ \A q \in Refs : q # r => copies'[q] = copies[q]
        /\ copies'[r] \in 0..1
    BY <1>4, <2>1, <2>2, MaxCopiesAssumption DEF ComposeSend, EngineTakes, TypeOK
  <2>4. LaneOf(r) = "queued" /\ LeftOf(r)' \in 0..1 /\ \A q \in Refs : LaneOf(q)' = LaneOf(q)
    BY <2>2, <2>3 DEF LaneOf, LeftOf, LaneStatus
  <2>5. \A q \in Refs : q # r => LeftOf(q)' = LeftOf(q)
    BY <2>3 DEF LeftOf
  <2>6. Lane!Offer(r)
    <3>. DEFINE left == [q \in Refs |-> LeftOf(q)]
    <3>1. left' = [left EXCEPT ![r] = LeftOf(r)']
      BY <2>5
    <3>2. \E n \in 0..1 : left' = [left EXCEPT ![r] = n]
      BY <2>4, <3>1
    <3>. QED BY <2>2, <2>3, <2>4, <3>2 DEF Lane!Offer, LaneOf, LeftOf
  <2>. QED BY <2>1, <2>6 DEF Lane!LaneNext
<1>5. CASE ComposeStamp(c)
  <2>1. PICK r \in Refs : r = call[c].ref /\ Owns(c, r) /\ msg[r] \in Row
    BY <1>5, Shapes DEF ComposeStamp, Owns, CallInv, Exists
  <2>2. /\ msg[r].status = "QUEUED" /\ msg[r].mode = "SEND" /\ r \in offered
        /\ call[c].accepted => copies[r] = 1
    BY <1>5, <2>1 DEF ComposeStamp, CallInv
  <2>3. /\ \A q \in Refs : q # r => msg'[q] = msg[q]
        /\ msg'[r].mode = "SEND"
        /\ msg'[r].status = IF call[c].accepted THEN "SENT" ELSE "FAILED"
        /\ UNCHANGED <<copies, offered>>
    BY <1>5, <2>1, <2>2 DEF ComposeStamp, StampSendResult, TypeOK, Row
  <2>4. /\ LaneOf(r) = "queued"
        /\ LaneOf(r)' = IF call[c].accepted THEN "sent" ELSE "failed"
        /\ LeftOf(r) = copies[r] /\ \A q \in Refs : LeftOf(q)' = LeftOf(q)
    BY <2>2, <2>3 DEF LaneOf, LeftOf, LaneStatus
  <2>5. \A q \in Refs : q # r => LaneOf(q)' = LaneOf(q)
    BY <2>3 DEF LaneOf
  <2>6. Lane!Settle(r)
    BY <2>1, <2>2, <2>3, <2>4, <2>5 DEF Lane!Settle, LaneOf, LeftOf
  <2>. QED BY <2>1, <2>6 DEF Lane!LaneNext
<1>. QED BY <1>1, <1>2, <1>3, <1>4, <1>5 DEF Compose

LEMMA ReviewKeepsLane ==
    ASSUME IInv, NEW v \in Reviewers, Review(v)
    PROVE  UNCHANGED Lane!laneVars
<1>. DEFINE r == review[v].ref
<1>1. CASE \/ \E q \in Refs, trusting \in BOOLEAN : ApprovePlan(v, q, trusting)
           \/ LearnTrustedCorrespondents(v)
           \/ \E q \in Refs : RejectRead(v, q)
           \/ ReviewDies(v)
  BY <1>1, LaneStutter DEF ApprovePlan, LearnTrustedCorrespondents, RejectRead, ReviewDies,
                           LaneOf, LeftOf
<1>2. CASE ApproveSend(v) \/ ApproveStamp(v) \/ RejectCommit(v)
  <2>1. r \in Refs /\ msg[r].mode = "DRAFT"
    BY <1>2, Shapes DEF ApproveSend, ApproveStamp, RejectCommit, IInv, ReviewInv
  <2>2. /\ \A q \in Refs : q # r => msg'[q] = msg[q] /\ copies'[q] = copies[q]
        /\ msg'[r].mode = "DRAFT" /\ UNCHANGED offered
    BY <1>2, <2>1, Shapes DEF ApproveSend, ApproveStamp, RejectCommit, StampSendResult,
                              EngineTakes, IInv, TypeOK, Row, Exists
  <2>. QED BY <2>1, <2>2, LaneStutter DEF LaneOf, LeftOf, LaneStatus
<1>. QED BY <1>1, <1>2 DEF Review

(***************************************************************************)
(* composeEmail keeps the promise of the send lane, for every number of    *)
(* callers, reviewers and messages.                                        *)
(***************************************************************************)
THEOREM KeepsSendLaneHolds == Spec => KeepsSendLane
<1>1. Init => Lane!LaneInit
  BY DEF Init, NoMsg, Lane!LaneInit, LaneStatus
<1>2. ASSUME IInv, [Next]_vars PROVE [Lane!LaneNext]_(Lane!laneVars)
  <2>1. ASSUME Control \/ UNCHANGED vars PROVE UNCHANGED Lane!laneVars
    BY <2>1, LaneStutter DEF Control, SetControls, UpdateAgent, AddTrust, RemoveTrust, vars,
                             LaneOf, LeftOf
  <2>. QED BY <1>2, <2>1, ComposeKeepsLane, ReviewKeepsLane DEF Next
<1>. QED BY Invariance, <1>1, <1>2, PTL DEF Spec, KeepsSendLane, Lane!LaneSpec

-----------------------------------------------------------------------------
(***************************************************************************)
(* AgentMail keeps the product's policy: autonomous sends are audited,     *)
(* staged mail waits for its reviewer, and a first contact waits for a     *)
(* human.  Each has an invariant of its own on top of IInv.                *)
(***************************************************************************)

Audit(r) == Event("AUTONOMOUS_SEND", r)

(***************************************************************************)
(* A registered agent's send is in the feed exactly when it is settled; no *)
(* other row's audit event is ever logged before the row is a send.        *)
(***************************************************************************)
AuditInv ==
    \A r \in Refs :
        /\ (msg[r].mode = "SEND" /\ msg[r].agent # NoAgent) =>
              (msg[r].status \in {"SENT", "FAILED"} <=> Audit(r) \in feed)
        /\ msg[r].mode # "SEND" => Audit(r) \notin feed

LEMMA AuditInit == Init => AuditInv
BY DEF Init, AuditInv, NoMsg

LEMMA AuditStep ==
    ASSUME IInv, AuditInv, [Next]_vars
    PROVE  AuditInv'
<1>. USE DEF Audit, Event
<1>1. ASSUME NEW c \in Callers, Compose(c) PROVE AuditInv'
  <2>1. CASE (\E q \in Refs : ComposeGate(c, q)) \/ ComposeSend(c) \/ ComposeDies(c)
    BY <2>1 DEF ComposeGate, ComposeSend, ComposeDies, AuditInv
  <2>2. CASE ComposeStage(c)
    <3>1. PICK r \in Refs : r = call[c].ref
      BY <2>2, Shapes DEF ComposeStage, IInv
    <3>2. CASE Exists(r)
      BY <2>2, <3>1, <3>2 DEF ComposeStage, rows, AuditInv
    <3>3. CASE ~Exists(r)
      <4>1. /\ msg'[r].mode = "DRAFT" /\ \A q \in Refs : q # r => msg'[q] = msg[q]
            /\ \A q \in Refs : Audit(q) \in feed' <=> Audit(q) \in feed
        BY <2>2, <3>1, <3>3 DEF ComposeStage, IInv, TypeOK
      <4>2. Audit(r) \notin feed
        BY <3>3 DEF AuditInv, Exists
      <4>. QED BY <4>1, <4>2 DEF AuditInv
    <3>. QED BY <3>2, <3>3
  <2>3. CASE ComposeQueue(c)
    <3>1. PICK r \in Refs : r = call[c].ref
      BY <2>3, Shapes DEF ComposeQueue, IInv
    <3>2. CASE Exists(r)
      BY <2>3, <3>1, <3>2 DEF ComposeQueue, AuditInv
    <3>3. CASE ~Exists(r)
      <4>1. /\ msg'[r].mode = "SEND" /\ msg'[r].status = "QUEUED"
            /\ \A q \in Refs : q # r => msg'[q] = msg[q]
            /\ UNCHANGED feed
        BY <2>3, <3>1, <3>3 DEF ComposeQueue, IInv, TypeOK
      <4>2. Audit(r) \notin feed
        BY <3>3 DEF AuditInv, Exists
      <4>. QED BY <4>1, <4>2 DEF AuditInv
    <3>. QED BY <3>2, <3>3
  <2>4. CASE ComposeStamp(c)
    <3>1. PICK r \in Refs : r = call[c].ref
      BY <2>4, Shapes DEF ComposeStamp, IInv
    <3>2. msg[r] \in Row /\ msg[r].mode = "SEND" /\ msg[r].agent = call[c].agent
      BY <2>4, <3>1, Shapes DEF ComposeStamp, IInv, CallInv, Owns, Exists
    <3>3. /\ msg'[r].mode = "SEND" /\ msg'[r].agent = call[c].agent
          /\ msg'[r].status \in {"SENT", "FAILED"}
          /\ \A q \in Refs : q # r => msg'[q] = msg[q]
      BY <2>4, <3>1, <3>2 DEF ComposeStamp, StampSendResult, IInv, TypeOK, Row
    <3>4. /\ call[c].agent # NoAgent => Audit(r) \in feed'
          /\ \A q \in Refs : q # r => (Audit(q) \in feed' <=> Audit(q) \in feed)
      BY <2>4, <3>1 DEF ComposeStamp
    <3>. QED BY <3>3, <3>4 DEF AuditInv
  <2>. QED BY <1>1, <2>1, <2>2, <2>3, <2>4 DEF Compose
<1>2. ASSUME NEW v \in Reviewers, Review(v) PROVE AuditInv'
  <2>1. \A r \in Refs : Audit(r) \in feed' <=> Audit(r) \in feed
    BY <1>2 DEF Review, ApprovePlan, ApproveSend, LearnTrustedCorrespondents, ApproveStamp,
                RejectRead, RejectCommit, ReviewDies
  <2>2. CASE ApproveStamp(v) \/ RejectCommit(v)
    <3>1. PICK r \in Refs : r = review[v].ref /\ msg[r].mode = "DRAFT"
      BY <2>2, Shapes DEF ApproveStamp, RejectCommit, IInv, ReviewInv
    <3>2. /\ \A q \in Refs : q # r => msg'[q] = msg[q]
          /\ msg'[r].mode = "DRAFT"
      BY <2>2, <3>1, Shapes DEF ApproveStamp, RejectCommit, StampSendResult, IInv, TypeOK, Row,
                                Exists
    <3>. QED BY <2>1, <3>1, <3>2 DEF AuditInv
  <2>3. CASE ~(ApproveStamp(v) \/ RejectCommit(v))
    <3>1. UNCHANGED msg
      BY <1>2, <2>3 DEF Review, ApprovePlan, ApproveSend, LearnTrustedCorrespondents,
                        RejectRead, ReviewDies
    <3>. QED BY <2>1, <3>1 DEF AuditInv
  <2>. QED BY <2>2, <2>3
<1>3. ASSUME Control PROVE AuditInv'
  <2>1. UNCHANGED msg
    BY <1>3 DEF Control, SetControls, UpdateAgent, AddTrust, RemoveTrust
  <2>2. ASSUME NEW paused \in BOOLEAN, SetControls(paused)
        PROVE  \A r \in Refs : Audit(r) \in feed' <=> Audit(r) \in feed
    BY <2>2 DEF SetControls
  <2>3. ASSUME NEW a \in Agents, NEW row \in AgentRows, UpdateAgent(a, row)
        PROVE  \A r \in Refs : Audit(r) \in feed' <=> Audit(r) \in feed
    BY <2>3 DEF UpdateAgent
  <2>4. ASSUME NEW t \in TrustTargets, AddTrust(t) \/ RemoveTrust(t)
        PROVE  UNCHANGED feed
    BY <2>4 DEF AddTrust, RemoveTrust
  <2>5. \A r \in Refs : Audit(r) \in feed' <=> Audit(r) \in feed
    BY <1>3, <2>2, <2>3, <2>4 DEF Control
  <2>. QED BY <2>1, <2>5 DEF AuditInv
<1>4. ASSUME UNCHANGED vars PROVE AuditInv'
  BY <1>4 DEF vars, AuditInv
<1>. QED BY <1>1, <1>2, <1>3, <1>4 DEF Next

(***************************************************************************)
(* composeEmail, phase 3: a registered agent's settled send is audited,    *)
(* and mail that left unaudited still reads QUEUED.                        *)
(***************************************************************************)
THEOREM AutonomousSendsAuditedHolds == Spec => []AutonomousSendsAudited
<1>1. Spec => []AuditInv
  BY Invariance, AuditInit, AuditStep, PTL DEF Spec
<1>2. IInv /\ AuditInv => AutonomousSendsAudited
  BY DEF IInv, RowInv, AuditInv, Audit, AutonomousSendsAudited
<1>. QED BY Invariance, <1>1, <1>2, PTL

-----------------------------------------------------------------------------
(***************************************************************************)
(* A review past its fence is recorded, the fence held when it was passed, *)
(* and every copy of a draft left in such a review.                        *)
(***************************************************************************)
HeldInv ==
    /\ \A v \in Reviewers : review[v].pc \in {"planned", "answered", "taught"} =>
          <<review[v].ref, v>> \in vouched
    /\ \A r \in Refs, v \in Reviewers : <<r, v>> \in vouched => MayActThroughMailbox(v, r)
    /\ \A r \in Refs : (msg[r].mode = "DRAFT" /\ copies[r] > 0) =>
          \E v \in Reviewers : <<r, v>> \in vouched

LEMMA HeldInit == Init => HeldInv
BY DEF Init, HeldInv, IdleReview, NoMsg

LEMMA HeldStep ==
    ASSUME IInv, HeldInv, [Next]_vars
    PROVE  HeldInv'
<1>1. ASSUME NEW c \in Callers, Compose(c) PROVE HeldInv'
  <2>1. UNCHANGED <<review, vouched>>
    BY <1>1 DEF Compose, ComposeGate, ComposeStage, ComposeQueue, ComposeSend, ComposeStamp,
                ComposeDies
  <2>2. ASSUME NEW r \in Refs, msg'[r].mode = "DRAFT", copies'[r] > 0
        PROVE  msg[r].mode = "DRAFT" /\ copies[r] > 0
    <3>1. CASE (\E q \in Refs : ComposeGate(c, q)) \/ ComposeDies(c)
      BY <2>2, <3>1 DEF ComposeGate, ComposeDies
    <3>2. CASE ComposeStage(c)
      BY <2>2, <3>2, Shapes DEF ComposeStage, rows, IInv, TypeOK, RowInv
    <3>3. CASE ComposeQueue(c)
      BY <2>2, <3>3, Shapes DEF ComposeQueue, IInv, TypeOK
    <3>4. CASE ComposeSend(c)
      <4>1. PICK q \in Refs : q = call[c].ref /\ msg[q].mode = "SEND"
        BY <3>4, Shapes DEF ComposeSend, IInv, CallInv, Owns
      <4>. QED BY <2>2, <3>4, <4>1 DEF ComposeSend, EngineTakes, IInv, TypeOK
    <3>5. CASE ComposeStamp(c)
      BY <2>2, <3>5, Shapes DEF ComposeStamp, StampSendResult, IInv, TypeOK, CallInv, Owns, Row,
                                Exists
    <3>. QED BY <1>1, <3>1, <3>2, <3>3, <3>4, <3>5 DEF Compose
  <2>. QED BY <2>1, <2>2 DEF HeldInv
<1>2. ASSUME NEW v \in Reviewers, Review(v) PROVE HeldInv'
  <2>1. CASE \E q \in Refs, trusting \in BOOLEAN : ApprovePlan(v, q, trusting)
    <3>1. PICK q \in Refs, trusting \in BOOLEAN : ApprovePlan(v, q, trusting)
      BY <2>1
    <3>2. MayActThroughMailbox(v, q) /\ vouched' = vouched \cup {<<q, v>>}
      BY <3>1 DEF ApprovePlan
    <3>3. \A w \in Reviewers : w # v => review'[w] = review[w]
      BY <3>1 DEF ApprovePlan, IInv, TypeOK
    <3>4. review'[v].ref = q /\ UNCHANGED <<msg, copies>>
      BY <3>1 DEF ApprovePlan, IInv, TypeOK
    <3>. QED BY <3>2, <3>3, <3>4 DEF HeldInv, MayActThroughMailbox
  <2>2. CASE ~ \E q \in Refs, trusting \in BOOLEAN : ApprovePlan(v, q, trusting)
    <3>1. UNCHANGED vouched
      BY <1>2, <2>2 DEF Review, ApproveSend, LearnTrustedCorrespondents, ApproveStamp,
                        RejectRead, RejectCommit, ReviewDies
    <3>2. \A w \in Reviewers : w # v => review'[w] = review[w]
      BY <1>2, <2>2 DEF Review, ApproveSend, LearnTrustedCorrespondents, ApproveStamp,
                        RejectRead, RejectCommit, ReviewDies, IInv, TypeOK
    <3>3. review'[v].pc \in {"planned", "answered", "taught"} =>
              /\ review[v].pc \in {"planned", "answered", "taught"}
              /\ review'[v].ref = review[v].ref
      BY <1>2, <2>2 DEF Review, ApproveSend, LearnTrustedCorrespondents, ApproveStamp,
                        RejectRead, RejectCommit, ReviewDies, IInv, TypeOK, ReviewState,
                        IdleReview
    <3>4. ASSUME NEW r \in Refs, msg'[r].mode = "DRAFT", copies'[r] > 0
          PROVE  \E w \in Reviewers : <<r, w>> \in vouched
      <4>1. msg[r].mode = "DRAFT"
        BY <1>2, <2>2, <3>4, Shapes DEF Review, ApproveSend, LearnTrustedCorrespondents,
                        ApproveStamp, RejectRead, RejectCommit, ReviewDies, StampSendResult,
                        IInv, TypeOK, ReviewInv
      <4>2. copies[r] > 0 \/ (ApproveSend(v) /\ review[v].ref = r)
        BY <1>2, <2>2, <3>4 DEF Review, ApproveSend, LearnTrustedCorrespondents,
                        ApproveStamp, RejectRead, RejectCommit, ReviewDies, EngineTakes,
                        IInv, TypeOK
      <4>. QED BY <4>1, <4>2 DEF HeldInv, ApproveSend
    <3>. QED BY <3>1, <3>2, <3>3, <3>4 DEF HeldInv
  <2>. QED BY <2>1, <2>2
<1>3. ASSUME Control \/ UNCHANGED vars PROVE HeldInv'
  BY <1>3 DEF Control, SetControls, UpdateAgent, AddTrust, RemoveTrust, vars, HeldInv
<1>. QED BY <1>1, <1>2, <1>3 DEF Next

(***************************************************************************)
(* approveAgentInboxItem: staged mail leaves only after a reviewer who may *)
(* act through its mailbox approved it.                                    *)
(***************************************************************************)
THEOREM HeldMailNeedsItsReviewerHolds == Spec => []HeldMailNeedsItsReviewer
<1>1. Spec => []HeldInv
  BY Invariance, HeldInit, HeldStep, PTL DEF Spec
<1>2. HeldInv => HeldMailNeedsItsReviewer
  BY DEF HeldInv, HeldMailNeedsItsReviewer, MayActThroughMailbox
<1>. QED BY <1>1, <1>2, PTL

-----------------------------------------------------------------------------
(***************************************************************************)
(* The matrix releases a registered agent's send only to correspondents    *)
(* that are internal or trusted, and a failed lookup releases none.        *)
(***************************************************************************)
LEMMA GateReleases ==
    ASSUME TypeOK, NEW r \in Refs, AgentKey(r) # NoAgent, GateMode(r) = "send"
    PROVE  \A a \in ExternalOf(Request[r].recipients, InternalAnyhow) : TrustedBy(trust, a)
<1>. DEFINE who == AgentRow(r)
            ctx == BuildAgentComposeContext(GateInput(r), who, WorkspaceDomains, trust,
                                            SendEnabled)
            to == Request[r].recipients
            domains == WorkspaceDomains \cup who.domains
<1>1. Registered(who) /\ who \in AgentRows
  BY DEF AgentKey, AgentRow, TypeOK, Registered, Unregistered
<1>2. GateInput(r).recipients = to /\ GateInput(r).wants = Request[r].wants
  BY DEF GateInput
<1>3. Request[r].wants \in {"send", "draft"}
  BY RequestAssumption
<1>4. MatrixHolds(who, ctx) = {}
  BY <1>1, <1>2, <1>3 DEF GateMode, ComposeDecision, DecideAgentComposeMode,
                          DecideComposeMode, Decision, Hold
<1>5. /\ ctx.recipients = to /\ ctx.domains = domains
      /\ ctx.trusted = {a \in ToSet(to) : TrustedBy(trust, a)}
  BY <1>2 DEF BuildAgentComposeContext
<1>6. ExternalAt(to, domains) = {} \/ RoutineMisses(ctx) = {}
  BY <1>4, <1>5 DEF MatrixHolds
<1>7. \A i \in ExternalAt(to, domains) : TrustedBy(trust, to[i])
  <2>1. RoutineMisses(ctx) = {} => \A i \in ExternalAt(to, domains) : to[i] \in ctx.trusted
    BY <1>5 DEF RoutineMisses
  <2>. QED BY <1>5, <1>6, <2>1
<1>8. ExternalAt(to, InternalAnyhow) \subseteq ExternalAt(to, domains)
  BY <1>1 DEF ExternalAt, IsExternalRecipient, InternalAnyhow
<1>. QED BY <1>7, <1>8 DEF ExternalOf

LEMMA FailSafeHolds ==
    ASSUME TypeOK, NEW r \in Refs, AgentKey(r) # NoAgent
    PROVE  FailSafeMode(r) = "draft"
<1>1. Registered(AgentRow(r))
  BY DEF AgentKey
<1>2. Request[r].wants \in {"send", "draft"}
  BY RequestAssumption
<1>3. MatrixHolds(AgentRow(r), FailSafeContext(GateInput(r), SendEnabled)) # {}
  BY DEF MatrixHolds, FailSafeContext
<1>. QED BY <1>1, <1>2, <1>3 DEF FailSafeMode, DecideAgentComposeMode, DecideComposeMode,
                                 Decision, Hold

(***************************************************************************)
(* On what is trusted, about to be taught, or cleared to leave, a human's  *)
(* word stands; a compose past its insert has a send to make.              *)
(***************************************************************************)
Table(t) == t = [addresses |-> t.addresses, domains |-> t.domains]

Cleared(r) ==
    \A a \in ExternalOf(Request[r].recipients, InternalAnyhow) : TrustedBy(humanSaid, a)

TrustInv ==
    /\ Table(trust) /\ Table(humanSaid)
    /\ trust.addresses \subseteq humanSaid.addresses
    /\ trust.domains \subseteq humanSaid.domains
    /\ \A v \in Reviewers : (review[v].pc # "idle" /\ review[v].trusting) =>
          Externals(review[v].ref) \subseteq humanSaid.addresses
    /\ \A c \in Callers :
          (call[c].pc # "idle" /\ call[c].mode = "send" /\ call[c].agent # NoAgent) =>
              Cleared(call[c].ref)
    /\ \A c \in Callers : call[c].pc \in {"queued", "answered"} => call[c].mode = "send"

LEMMA TrustInit == Init => TrustInv
BY DEF Init, TrustInv, Table, IdleReview, IdleCall, NoMsg

\* What a human's word cleared stays cleared while the word stands.
LEMMA ClearedStays ==
    ASSUME humanSaid.addresses \subseteq humanSaid'.addresses,
           humanSaid.domains \subseteq humanSaid'.domains,
           NEW r, Cleared(r)
    PROVE  Cleared(r)'
BY DEF Cleared, TrustedBy

LEMMA TrustStep ==
    ASSUME IInv, TrustInv, [Next]_vars
    PROVE  TrustInv'
<1>1. ASSUME NEW c \in Callers, Compose(c) PROVE TrustInv'
  <2>1. UNCHANGED <<trust, humanSaid, review>>
    BY <1>1 DEF Compose, ComposeGate, ComposeStage, ComposeQueue, ComposeSend, ComposeStamp,
                ComposeDies
  <2>2. ASSUME NEW d \in Callers, call'[d].pc # "idle", call'[d].mode = "send",
               call'[d].agent # NoAgent
        PROVE  Cleared(call'[d].ref)
    <3>1. CASE \E q \in Refs : ComposeGate(c, q)
      <4>1. PICK q \in Refs : ComposeGate(c, q)
        BY <3>1
      <4>2. CASE d # c
        BY <2>2, <4>1, <4>2 DEF ComposeGate, TrustInv, IInv, TypeOK
      <4>3. CASE d = c
        <5>1. PICK mode \in {GateMode(q), FailSafeMode(q)} :
                  call'[c] = [pc |-> "gated", ref |-> q, mode |-> mode,
                              agent |-> AgentKey(q), accepted |-> FALSE]
          BY <4>1 DEF ComposeGate, IInv, TypeOK
        <5>2. mode = "send" /\ AgentKey(q) # NoAgent /\ call'[c].ref = q
          BY <2>2, <4>3, <5>1
        <5>3. GateMode(q) = "send"
          BY <5>2, FailSafeHolds DEF IInv
        <5>4. \A a \in ExternalOf(Request[q].recipients, InternalAnyhow) : TrustedBy(trust, a)
          BY <5>2, <5>3, GateReleases DEF IInv
        <5>. QED BY <4>3, <5>2, <5>4 DEF Cleared, TrustInv, TrustedBy
      <4>. QED BY <4>2, <4>3
    <3>2. CASE ~ \E q \in Refs : ComposeGate(c, q)
      <4>1. /\ call[d].pc # "idle" /\ call[d].mode = "send"
            /\ call[d].agent # NoAgent /\ call'[d].ref = call[d].ref
        BY <1>1, <2>2, <3>2 DEF Compose, ComposeStage, ComposeQueue, ComposeSend, ComposeStamp,
                                ComposeDies, IInv, TypeOK, CallState, IdleCall
      <4>. QED BY <4>1 DEF TrustInv
    <3>. QED BY <3>1, <3>2
  <2>3. \A d \in Callers : call'[d].pc \in {"queued", "answered"} => call'[d].mode = "send"
    BY <1>1 DEF Compose, ComposeGate, ComposeStage, ComposeQueue, ComposeSend, ComposeStamp,
                ComposeDies, TrustInv, IInv, TypeOK, CallState, IdleCall
  <2>. QED BY <2>1, <2>2, <2>3 DEF TrustInv, Cleared
<1>2. ASSUME NEW v \in Reviewers, Review(v) PROVE TrustInv'
  <2>1. UNCHANGED call
    BY <1>2 DEF Review, ApprovePlan, ApproveSend, LearnTrustedCorrespondents, ApproveStamp,
                RejectRead, RejectCommit, ReviewDies
  <2>2. CASE \E q \in Refs, trusting \in BOOLEAN : ApprovePlan(v, q, trusting)
    <3>1. PICK q \in Refs, trusting \in BOOLEAN : ApprovePlan(v, q, trusting)
      BY <2>2
    <3>2. /\ Table(humanSaid)' /\ UNCHANGED trust
          /\ humanSaid.addresses \subseteq humanSaid'.addresses
          /\ humanSaid.domains \subseteq humanSaid'.domains
          /\ trusting => Externals(q) \subseteq humanSaid'.addresses
      BY <3>1 DEF ApprovePlan, TrustInv, Table
    <3>3. \A w \in Reviewers : w # v => review'[w] = review[w]
      BY <3>1 DEF ApprovePlan, IInv, TypeOK
    <3>4. review'[v].ref = q /\ review'[v].trusting = trusting
      BY <3>1 DEF ApprovePlan, IInv, TypeOK
    <3>5. \A w \in Reviewers : (review'[w].pc # "idle" /\ review'[w].trusting) =>
              Externals(review'[w].ref) \subseteq humanSaid'.addresses
      BY <3>2, <3>3, <3>4 DEF TrustInv
    <3>. QED BY <2>1, <3>2, <3>5, ClearedStays DEF TrustInv, Table
  <2>3. CASE ~ \E q \in Refs, trusting \in BOOLEAN : ApprovePlan(v, q, trusting)
    <3>1. UNCHANGED humanSaid
      BY <1>2, <2>3 DEF Review, ApproveSend, LearnTrustedCorrespondents, ApproveStamp,
                        RejectRead, RejectCommit, ReviewDies
    <3>2. ASSUME NEW w \in Reviewers, review'[w].pc # "idle", review'[w].trusting
          PROVE  Externals(review'[w].ref) \subseteq humanSaid.addresses
      <4>1. CASE \E q \in Refs : RejectRead(v, q)
        BY <3>2, <4>1 DEF RejectRead, TrustInv, IInv, TypeOK
      <4>2. CASE ~ \E q \in Refs : RejectRead(v, q)
        <5>1. /\ review[w].pc # "idle" /\ review[w].trusting
              /\ review'[w].ref = review[w].ref
          BY <1>2, <2>3, <3>2, <4>2 DEF Review, ApproveSend, LearnTrustedCorrespondents,
                ApproveStamp, RejectCommit, ReviewDies, IInv, TypeOK, ReviewState, IdleReview
        <5>. QED BY <5>1 DEF TrustInv
      <4>. QED BY <4>1, <4>2
    <3>3. /\ Table(trust)' /\ trust'.addresses \subseteq humanSaid.addresses
          /\ trust'.domains \subseteq humanSaid.domains
      <4>1. CASE LearnTrustedCorrespondents(v)
        <5>1. \/ UNCHANGED trust
              \/ /\ Externals(review[v].ref) \subseteq humanSaid.addresses
                 /\ trust' = [trust EXCEPT !.addresses = @ \cup Externals(review[v].ref)]
          BY <4>1 DEF LearnTrustedCorrespondents, TrustInv
        <5>. QED BY <5>1 DEF TrustInv, Table
      <4>2. CASE ~LearnTrustedCorrespondents(v)
        <5>1. UNCHANGED trust
          BY <1>2, <2>3, <4>2 DEF Review, ApproveSend, ApproveStamp, RejectRead, RejectCommit,
                                  ReviewDies
        <5>. QED BY <5>1 DEF TrustInv, Table
      <4>. QED BY <4>1, <4>2
    <3>. QED BY <2>1, <3>1, <3>2, <3>3 DEF TrustInv, Table, Cleared
  <2>. QED BY <2>2, <2>3
<1>3. ASSUME Control \/ UNCHANGED vars PROVE TrustInv'
  <2>1. UNCHANGED <<call, review>>
    BY <1>3 DEF Control, SetControls, UpdateAgent, AddTrust, RemoveTrust, vars
  <2>2. /\ Table(trust)' /\ Table(humanSaid)'
        /\ trust'.addresses \subseteq humanSaid'.addresses
        /\ trust'.domains \subseteq humanSaid'.domains
    BY <1>3 DEF Control, SetControls, UpdateAgent, AddTrust, RemoveTrust, Without, vars,
                TrustInv, Table
  <2>3. CASE Quiet
    BY <2>1, <2>2, <2>3 DEF Quiet, TrustInv
  <2>4. CASE ~Quiet
    <3>1. /\ humanSaid.addresses \subseteq humanSaid'.addresses
          /\ humanSaid.domains \subseteq humanSaid'.domains
      BY <1>3, <2>4 DEF Control, SetControls, UpdateAgent, AddTrust, RemoveTrust, vars
    <3>. QED BY <2>1, <2>2, <3>1, ClearedStays DEF TrustInv
  <2>. QED BY <2>3, <2>4
<1>. QED BY <1>1, <1>2, <1>3 DEF Next

(***************************************************************************)
(* An agent's send is queued by a compose the gate cleared, and leaves     *)
(* from the compose that queued it; an approval sends no such row.         *)
(***************************************************************************)
LEMMA DepartsCleared ==
    ASSUME IInv, TrustInv, Next, NEW r \in Refs,
           msg'[r].mode = "SEND", msg'[r].agent # NoAgent,
           msg[r].mode # "SEND" \/ copies'[r] > copies[r]
    PROVE  Cleared(r)
<1>1. ASSUME NEW c \in Callers, Compose(c) PROVE Cleared(r)
  <2>1. CASE ComposeQueue(c)
    <3>1. copies' = copies /\ call[c].pc = "gated" /\ call[c].mode = "send"
      BY <2>1 DEF ComposeQueue
    <3>2. msg[r].mode # "SEND"
      BY <3>1, Shapes DEF IInv
    <3>3. r = call[c].ref /\ msg'[r].agent = call[c].agent
      BY <2>1, <3>2, Shapes DEF ComposeQueue, IInv, TypeOK
    <3>. QED BY <3>1, <3>3 DEF TrustInv
  <2>2. CASE ComposeSend(c)
    <3>1. UNCHANGED msg /\ call[c].pc = "queued" /\ copies'[r] > copies[r]
      BY <2>2 DEF ComposeSend
    <3>2. PICK accepted \in BOOLEAN : EngineTakes(call[c].ref, accepted)
      BY <2>2 DEF ComposeSend
    <3>3. r = call[c].ref
      BY <3>1, <3>2, Shapes DEF EngineTakes, IInv, TypeOK
    <3>4. msg[r].agent = call[c].agent /\ call[c].mode = "send"
      BY <3>1, <3>3 DEF IInv, CallInv, Owns, TrustInv
    <3>. QED BY <3>1, <3>3, <3>4 DEF TrustInv
  <2>3. CASE ~ComposeQueue(c) /\ ~ComposeSend(c)
    <3>1. copies' = copies
      BY <1>1, <2>3 DEF Compose, ComposeGate, ComposeStage, ComposeStamp, ComposeDies
    <3>2. msg[r].mode # "SEND"
      BY <3>1, Shapes DEF IInv
    <3>3. msg'[r].mode # "SEND"
      BY <1>1, <2>3, <3>2, Shapes DEF Compose, ComposeGate, ComposeStage, ComposeStamp,
             ComposeDies, StampSendResult, rows, IInv, TypeOK, CallInv, Owns, Row, Exists
    <3>. QED BY <3>3
  <2>. QED BY <2>1, <2>2, <2>3
<1>2. ASSUME NEW v \in Reviewers, Review(v) PROVE FALSE
  <2>1. msg'[r].mode = msg[r].mode
    BY <1>2, Shapes DEF Review, ApprovePlan, ApproveSend, LearnTrustedCorrespondents,
                ApproveStamp, RejectRead, RejectCommit, ReviewDies, StampSendResult, IInv,
                TypeOK, ReviewInv, Row, Exists
  <2>2. copies'[r] > copies[r]
    BY <2>1
  <2>3. ApproveSend(v) \/ copies' = copies
    BY <1>2 DEF Review, ApprovePlan, LearnTrustedCorrespondents, ApproveStamp, RejectRead,
                RejectCommit, ReviewDies
  <2>4. ApproveSend(v)
    BY <2>2, <2>3, Shapes DEF IInv
  <2>5. PICK accepted \in BOOLEAN : EngineTakes(review[v].ref, accepted)
    BY <2>4 DEF ApproveSend
  <2>6. r = review[v].ref
    BY <2>2, <2>5, Shapes DEF EngineTakes, IInv, TypeOK
  <2>. QED BY <2>1, <2>4, <2>6 DEF ApproveSend, IInv, ReviewInv
<1>3. Control => UNCHANGED <<msg, copies>>
  BY DEF Control, SetControls, UpdateAgent, AddTrust, RemoveTrust
<1>4. ~Control
  BY <1>3, Shapes DEF IInv
<1>. QED BY <1>1, <1>2, <1>4 DEF Next

(***************************************************************************)
(* composeEmail with approveAgentInboxItem and the trusted-correspondent   *)
(* table: an agent's first contact outside the workspace needs a human's   *)
(* standing word.                                                          *)
(***************************************************************************)
THEOREM FirstContactNeedsHumanHolds == Spec => FirstContactNeedsHuman
<1>1. Spec => []TrustInv
  BY Invariance, TrustInit, TrustStep, PTL DEF Spec
<1>2. IInv /\ TrustInv /\ [Next]_vars
        => [\A r \in Refs :
              (/\ msg'[r].mode = "SEND" /\ msg'[r].agent # NoAgent
               /\ msg[r].mode # "SEND" \/ copies'[r] > copies[r])
              => \A a \in ExternalOf(Request[r].recipients, InternalAnyhow) :
                     TrustedBy(humanSaid, a)]_vars
  BY DepartsCleared DEF Cleared
<1>. QED BY <1>1, <1>2, Invariance, PTL DEF Spec, FirstContactNeedsHuman

-----------------------------------------------------------------------------
(***************************************************************************)
(* The gate itself, under any setting of its knobs (AutonomyDial).         *)
(***************************************************************************)

\* What the matrix asks of a send, as one condition.
Routine(ctx) ==
    /\ ctx.enabled /\ ctx.inThread /\ ctx.attachments = 0
    /\ Cardinality(ExternalAt(ctx.recipients, ctx.domains)) <= MAX_ROUTINE_EXTERNAL_RECIPIENTS
    /\ \A i \in ExternalAt(ctx.recipients, ctx.domains) : ctx.recipients[i] \in ctx.trusted

Releases(row, ctx) ==
    /\ ctx.mailboxClass = "agent" /\ row.level # "L0"
    /\ \/ ExternalAt(ctx.recipients, ctx.domains) = {}
       \/ row.level # "L1" /\ ~row.requireExternal /\ Routine(ctx)

LEMMA MatrixAsOne ==
    ASSUME NEW row, NEW ctx, row.level \in Level
    PROVE  MatrixHolds(row, ctx) = {} <=> Releases(row, ctx)
<1>1. RoutineMisses(ctx) = {} <=> Routine(ctx)
  BY DEF RoutineMisses, Routine
<1>2. MatrixHolds(row, ctx) = {} <=>
         /\ ctx.mailboxClass = "agent" /\ row.level # "L0"
         /\ \/ ExternalAt(ctx.recipients, ctx.domains) = {}
            \/ row.level # "L1" /\ ~row.requireExternal /\ RoutineMisses(ctx) = {}
  BY DEF MatrixHolds, Level
<1>. QED BY <1>1, <1>2 DEF Releases

\* A registered agent's send leaves exactly when the matrix releases it.
LEMMA DecisionOfSend ==
    ASSUME NEW rq, NEW row, NEW domains, NEW table, NEW on,
           rq.wants = "send", row.level \in Level
    PROVE  ComposeDecision(rq, row, domains, table, on).mode =
              IF Releases(row, BuildAgentComposeContext(rq, row, domains, table, on))
              THEN "send" ELSE "draft"
<1>1. Registered(row)
  BY DEF Registered, Level
<1>2. PICK ctx : ctx = BuildAgentComposeContext(rq, row, domains, table, on)
  OBVIOUS
<1>3. ComposeDecision(rq, row, domains, table, on).mode =
         IF MatrixHolds(row, ctx) = {} THEN "send" ELSE "draft"
  BY <1>1, <1>2 DEF ComposeDecision, DecideAgentComposeMode, Send, Hold, Decision
<1>. QED BY <1>2, <1>3, MatrixAsOne

DialContext == BuildAgentComposeContext(req, agent, workspaceDomains, trustTable, enabled)

LEMMA DialTypes == DialTypeOK /\ [DialNext]_knobs => DialTypeOK'
<1> SUFFICES ASSUME DialTypeOK, [DialNext]_knobs PROVE DialTypeOK'
  OBVIOUS
<1>1. CASE ChangeRequest
  <2>1. req' \in RequestRows
    BY <1>1 DEF ChangeRequest, DialTypeOK, RequestRows
  <2>. QED BY <1>1, <2>1 DEF ChangeRequest, DialTypeOK
<1>2. CASE MoveDial \/ MoveDomains \/ MoveTrust \/ FlipSwitch
  BY <1>2 DEF MoveDial, MoveDomains, MoveTrust, FlipSwitch, DialTypeOK
<1>3. CASE UNCHANGED knobs
  BY <1>3 DEF knobs, DialTypeOK
<1>. QED BY <1>1, <1>2, <1>3 DEF DialNext

\* The facts of the context, one by one.
LEMMA ContextFacts ==
    LET external == ExternalOf(req.recipients, workspaceDomains \cup agent.domains)
    IN  /\ DialContext.mailboxClass = MailboxClass(req.mailbox)
        /\ DialContext.domains = workspaceDomains \cup agent.domains
        /\ DialContext.recipients = req.recipients
        /\ DialContext.inThread <=> req.thread /\ external \cap (req.attested \cup req.inbound) # {}
        /\ DialContext.attachments = req.attachments
        /\ DialContext.trusted = {a \in ToSet(req.recipients) : TrustedBy(trustTable, a)}
        /\ DialContext.enabled = enabled
BY DEF DialContext, BuildAgentComposeContext

LEMMA MailboxClasses ==
    ASSUME DialTypeOK
    PROVE  MailboxClass(req.mailbox) = "agent" <=>
              \/ req.mailbox.kind = "AGENT"
              \/ req.mailbox.kind \in {"HUMAN", "SHARED"} /\ req.mailbox.linked
<1>1. req.mailbox.kind \in {"none", "AGENT", "HUMAN", "SHARED"} /\ req.mailbox.linked \in BOOLEAN
  BY DialAssumption DEF DialTypeOK, RequestRows
<1>. QED BY <1>1 DEF MailboxClass

(***************************************************************************)
(* The cascade of early returns computes the published table, for every    *)
(* agent, mailbox, list of recipients, domain and trust.                   *)
(***************************************************************************)
THEOREM PublishedMatrixHolds == DialSpec => []PublishedMatrix
<1>1. ASSUME DialTypeOK PROVE PublishedMatrix
  <2>1. SUFFICES ASSUME req.wants = "send", agent \in DialRows \ {Unregistered}
                 PROVE  PublishedMatrix
    BY DEF PublishedMatrix
  <2>. DEFINE domains == workspaceDomains \cup agent.domains
              outside == {i \in DOMAIN req.recipients :
                             domains = {} \/ req.recipients[i].domain \notin domains}
              outsiders == {req.recipients[i] : i \in outside}
              ownBox == \/ req.mailbox.kind = "AGENT"
                        \/ req.mailbox.kind \in {"HUMAN", "SHARED"} /\ req.mailbox.linked
              known == \E a \in outsiders : a \in req.inbound \/ a \in req.attested
              trusts == \A a \in outsiders : a \in trustTable.addresses
                                             \/ a.domain \in trustTable.domains
              routine == /\ req.thread /\ known /\ trusts /\ req.attachments = 0
                         /\ Cardinality(outside) <= 5 /\ enabled
  <2>2. agent.level \in Level /\ Registered(agent)
    BY <2>1, DialAssumption DEF Registered, Level
  <2>3. ExternalAt(req.recipients, domains) = outside /\ ExternalOf(req.recipients, domains) = outsiders
    BY DEF ExternalAt, ExternalOf, IsExternalRecipient
  <2>4. DialContext.inThread <=> req.thread /\ known
    BY <2>3, ContextFacts
  <2>5. (\A i \in outside : req.recipients[i] \in DialContext.trusted) <=> trusts
    <3>1. \A i \in outside : req.recipients[i] \in ToSet(req.recipients)
      BY DEF ToSet
    <3>2. \A i \in outside : req.recipients[i] \in DialContext.trusted
                               <=> TrustedBy(trustTable, req.recipients[i])
      BY <3>1, ContextFacts
    <3>. QED BY <3>2 DEF TrustedBy
  <2>6. DialContext.mailboxClass = "agent" <=> ownBox
    BY <1>1, ContextFacts, MailboxClasses
  <2>7. Routine(DialContext) <=> routine
    <3>1. ExternalAt(DialContext.recipients, DialContext.domains) = outside
      BY <2>3, ContextFacts
    <3>. HIDE DEF outside, known, trusts
    <3>. QED BY <2>4, <2>5, <3>1, ContextFacts DEF Routine, MAX_ROUTINE_EXTERNAL_RECIPIENTS
  <2>8. Releases(agent, DialContext) <=>
           /\ ownBox
           /\ \/ outside = {} /\ agent.level \in {"L1", "L2"}
              \/ /\ outside # {} /\ agent.level = "L2" /\ ~agent.requireExternal /\ routine
    <3>1. ExternalAt(DialContext.recipients, DialContext.domains) = outside
      BY <2>3, ContextFacts
    <3>. HIDE DEF outside, ownBox, routine
    <3>. QED BY <2>2, <2>6, <2>7, <3>1 DEF Releases, Level
  <2>9. Verdict = "send" <=> Releases(agent, DialContext)
    BY <2>1, <2>2, DecisionOfSend DEF Verdict, DialContext
  <2>. QED BY <2>1, <2>8, <2>9 DEF PublishedMatrix
<1>2. DialInit => DialTypeOK
  BY DEF DialInit
<1>. QED BY <1>1, <1>2, DialTypes, PTL DEF DialSpec

-----------------------------------------------------------------------------
\* One context is at least as strict as another of the same domains and
\* recipients.
LEMMA StricterContext ==
    ASSUME NEW row, NEW ctx, NEW strictRow, NEW strict,
           row.level \in Level, strictRow.level \in Level,
           Rank(strictRow.level) <= Rank(row.level),
           row.requireExternal => strictRow.requireExternal,
           strict.domains = ctx.domains, strict.recipients = ctx.recipients,
           strict.mailboxClass = "agent" => ctx.mailboxClass = "agent",
           strict.inThread => ctx.inThread, strict.enabled => ctx.enabled,
           strict.attachments = 0 => ctx.attachments = 0,
           \A i \in DOMAIN ctx.recipients :
               ctx.recipients[i] \in strict.trusted => ctx.recipients[i] \in ctx.trusted,
           Releases(strictRow, strict)
    PROVE  Releases(row, ctx)
<1>1. /\ strictRow.level # "L0" => row.level # "L0"
      /\ strictRow.level \notin {"L0", "L1"} => row.level \notin {"L0", "L1"}
  BY DEF Rank, Level
<1>2. ExternalAt(strict.recipients, strict.domains) = ExternalAt(ctx.recipients, ctx.domains)
  OBVIOUS
<1>3. ExternalAt(ctx.recipients, ctx.domains) \subseteq DOMAIN ctx.recipients
  BY DEF ExternalAt
<1>4. Routine(strict) => Routine(ctx)
  BY <1>2, <1>3 DEF Routine
<1>. QED BY <1>1, <1>2, <1>4 DEF Releases

(***************************************************************************)
(* No change of a knob the stricter way, and no sequence of other changes  *)
(* before it, lets a compose go that would have been held.                 *)
(***************************************************************************)
LEMMA StricterStep ==
    ASSUME DialTypeOK, DialTypeOK', [DialNext]_knobs,
           AgentNoLooser, TrustNoLooser, RequestNoLooser,
           workspaceDomains' = workspaceDomains, enabled' => enabled, Verdict = "draft"
    PROVE  Verdict' = "draft"
<1>1. /\ req'.wants = req.wants /\ req'.trustedSource = req.trustedSource
      /\ req'.recipients = req.recipients
      /\ req.wants \in {"send", "draft"}
      /\ req.attachments \in 0..1 /\ req'.attachments \in 0..1
  <2>1. req \in RequestRows /\ req' \in RequestRows
    BY DEF DialTypeOK
  <2>2. req' = req \/ ChangeRequest
    BY DEF DialNext, MoveDial, MoveDomains, MoveTrust, FlipSwitch, knobs
  <2>. QED BY <2>1, <2>2 DEF ChangeRequest, RequestRows
<1>2. CASE req.wants = "draft"
  BY <1>1, <1>2 DEF Verdict, ComposeDecision, DecideAgentComposeMode, DecideComposeMode, Decision
<1>3. CASE req.wants = "send" /\ ~Registered(agent)
  <2>1. agent' = agent
    BY <1>3 DEF AgentNoLooser
  <2>2. ~req.trustedSource
    BY <1>3 DEF Verdict, ComposeDecision, DecideAgentComposeMode, DecideComposeMode, Send,
                Hold, Decision
  <2>. QED BY <1>1, <1>3, <2>1, <2>2 DEF Verdict, ComposeDecision, DecideAgentComposeMode,
                DecideComposeMode, Send, Hold, Decision
<1>4. CASE req.wants = "send" /\ Registered(agent)
  <2>1. /\ Registered(agent') /\ agent.level \in Level /\ agent'.level \in Level
        /\ agent'.domains = agent.domains
        /\ agent.requireExternal => agent'.requireExternal
    BY <1>4, DialAssumption DEF AgentNoLooser, Registered, DialTypeOK, Unregistered
  <2>2. Rank(agent'.level) <= Rank(agent.level)
    BY <2>1 DEF AgentNoLooser, Rank, Level
  <2>. DEFINE before == DialContext
              after == BuildAgentComposeContext(req', agent', workspaceDomains', trustTable', enabled')
  <2>3. /\ after.domains = before.domains /\ after.recipients = before.recipients
        /\ before.recipients = req.recipients
        /\ after.mailboxClass = "agent" => before.mailboxClass = "agent"
        /\ after.enabled => before.enabled
    BY <1>1, <2>1 DEF DialContext, BuildAgentComposeContext, RequestNoLooser
  <2>4. after.attachments = 0 => before.attachments = 0
    BY <1>1 DEF DialContext, BuildAgentComposeContext, RequestNoLooser
  <2>5. after.inThread => before.inThread
    BY <1>1, <2>1 DEF DialContext, BuildAgentComposeContext, RequestNoLooser
  <2>6. \A i \in DOMAIN before.recipients :
           before.recipients[i] \in after.trusted => before.recipients[i] \in before.trusted
    BY <1>1 DEF DialContext, BuildAgentComposeContext, TrustNoLooser, TrustedBy
  <2>7. Releases(agent', after) => Releases(agent, before)
    <3>. HIDE DEF before, after
    <3>. QED BY <2>1, <2>2, <2>3, <2>4, <2>5, <2>6, StricterContext
  <2>8. ~Releases(agent, before)
    BY <1>4, <2>1, DecisionOfSend DEF Verdict, DialContext
  <2>9. Verdict' = IF Releases(agent', after) THEN "send" ELSE "draft"
    BY <1>1, <1>4, <2>1, DecisionOfSend DEF Verdict
  <2>. QED BY <2>7, <2>8, <2>9
<1>. QED BY <1>1, <1>2, <1>3, <1>4

(***************************************************************************)
(* "The per-agent dial can only make sends MORE gated, never less"         *)
(* (autonomy.ts), and so can every other knob.                             *)
(***************************************************************************)
THEOREM StricterNeverReleasesHolds == DialSpec => StricterNeverReleases
<1>1. DialTypeOK /\ DialTypeOK' /\ [DialNext]_knobs =>
         [ (/\ AgentNoLooser /\ TrustNoLooser /\ RequestNoLooser
            /\ workspaceDomains' = workspaceDomains
            /\ enabled' => enabled
            /\ Verdict = "draft")
           => Verdict' = "draft" ]_knobs
  BY StricterStep
<1>2. DialInit => DialTypeOK
  BY DEF DialInit
<1>. QED BY <1>1, <1>2, DialTypes, PTL DEF DialSpec, StricterNeverReleases
=============================================================================
