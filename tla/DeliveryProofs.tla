--------------------------- MODULE DeliveryProofs ---------------------------
(***************************************************************************)
(* Proofs about a message on its way out and after: SendLater, for every   *)
(* set of scheduled sends and workers, any TTL, any batch size and any     *)
(* bound on the clock; and Engagement, for every set of messages, records  *)
(* and requests and any size of request.                                   *)
(***************************************************************************)
EXTENDS SendLater, Engagement, SequenceTheorems, TLAPS

-----------------------------------------------------------------------------
(***************************************************************************)
(* SendLater: what the properties say of rows is kept by what a worker in  *)
(* memory knows of the row it holds and of the rows it has read.           *)
(***************************************************************************)
Started == {"CLAIMED", "SENT", "FAILED"}

\* A held row is past its claim and bears the stamp of its last holder; a
\* verdict is at hand when it is to be marked, by a holder or by a worker whose
\* claim threw.
HoldInv ==
    /\ \A w \in Workers : worker[w].pc \in HoldingPc \cup {"missed"} => worker[w].at \in Sends
    /\ \A w \in Workers : worker[w].pc \in {"marking", "catching", "missed"}
                              => worker[w].verdict # "none"
    /\ \A w \in Workers, s \in Sends : Holding(w, s) =>
          sched[s].state \in Started /\ worker[w].now <= sched[s].claimedAt

\* Nothing is composed for a row that was never claimed.
LaneInv ==
    \A s \in Sends : sched[s].state \notin Started => lane[s] = "none" /\ left[s] = 0

\* A claim read by a sweep had outlived the TTL.
ReadInv ==
    \A w \in Workers : \A r \in worker[w].todo :
        r.state = "CLAIMED" => r.claimedAt + ClaimTTL <= worker[w].now

IInv == TypeOK /\ HoldInv /\ LaneInv /\ ReadInv /\ OneHolder

-----------------------------------------------------------------------------
LEMMA InitIInv == Init => IInv
<1> SUFFICES ASSUME Init PROVE IInv
  OBVIOUS
<1> USE DEF Init, Idle, NoRow
<1>1. TypeOK
  <2>1. Idle \in WorkerState
    BY TimesAssumption DEF WorkerState
  <2>2. 0 \in 0..MaxClock
    BY TimesAssumption
  <2> QED BY <2>1, <2>2 DEF TypeOK, Lane!LaneInit
<1>2. HoldInv /\ ReadInv /\ OneHolder
  BY DEF HoldInv, ReadInv, OneHolder, Holding, HoldingPc
<1>3. LaneInv
  BY DEF LaneInv, Lane!LaneInit
<1> QED BY <1>1, <1>2, <1>3 DEF IInv

(***************************************************************************)
(* A row that exists has the shape of a row.                               *)
(***************************************************************************)
LEMMA RowFacts ==
    ASSUME TypeOK, NEW s \in Sends
    PROVE  /\ sched[s].state # "none" => sched[s] \in Row
           /\ sched[s].state \in {"none", "PENDING"} \cup Started \cup {"CANCELLED"}
           /\ sched[s].claimedAt \in 0..MaxClock
<1>1. 0 \in 0..MaxClock
  BY TimesAssumption
<1> QED BY <1>1 DEF TypeOK, NoRow, Row, Terminal, Started

(***************************************************************************)
(* A worker that moves on with the row it holds, touching that row's lane  *)
(* alone, keeps the invariant.                                             *)
(***************************************************************************)
LEMMA HolderStep ==
    ASSUME IInv, NEW w \in Workers, NEW pc, NEW verdict,
           worker[w].pc \in HoldingPc, pc \in HoldingPc,
           verdict \in {"none", "SENT", "FAILED"},
           pc \in {"marking", "catching"} => verdict # "none",
           Step(w, pc, verdict), UNCHANGED <<sched, clock>>,
           lane' \in [Sends -> {"none", "queued", "sent", "failed"}],
           taken' \subseteq Sends, left' \in [Sends -> 0..1],
           \A s \in Sends \ {worker[w].at} : lane'[s] = lane[s] /\ left'[s] = left[s]
    PROVE  IInv'
<1>1. /\ worker'[w].pc = pc /\ worker'[w].verdict = verdict
      /\ worker'[w].now = worker[w].now /\ worker'[w].at = worker[w].at
      /\ worker'[w].todo = worker[w].todo
      /\ worker'[w] \in WorkerState
      /\ worker' \in [Workers -> WorkerState]
      /\ \A v \in Workers \ {w} : worker'[v] = worker[v]
  <2>1. worker \in [Workers -> WorkerState] /\ worker[w] \in WorkerState
    BY DEF IInv, TypeOK
  <2>2. PICK after : after = [worker[w] EXCEPT !.pc = pc, !.verdict = verdict]
    OBVIOUS
  <2>3. /\ after \in WorkerState /\ after.pc = pc /\ after.verdict = verdict
        /\ after.now = worker[w].now /\ after.at = worker[w].at /\ after.todo = worker[w].todo
    BY <2>1, <2>2 DEF WorkerState
  <2>4. worker' = [worker EXCEPT ![w] = after]
    BY <2>2 DEF Step
  <2> QED
    <3> HIDE DEF WorkerState
    <3> QED BY <2>1, <2>3, <2>4
<1>2. TypeOK'
  BY <1>1 DEF IInv, TypeOK
<1>3. \A v \in Workers, s \in Sends : Holding(v, s)' <=> Holding(v, s)
  BY <1>1 DEF Holding
<1>4. HoldInv'
  <2>1. worker[w].at \in Sends /\ pc # "missed"
    BY DEF IInv, HoldInv, HoldingPc
  <2> QED BY <1>1, <1>3, <2>1 DEF IInv, HoldInv
<1>5. LaneInv'
  BY DEF IInv, LaneInv, HoldInv, Holding
<1>6. ReadInv'
  BY <1>1 DEF IInv, ReadInv
<1>7. OneHolder'
  BY <1>1, <1>3 DEF IInv, OneHolder
<1> QED BY <1>2, <1>4, <1>5, <1>6, <1>7 DEF IInv

(***************************************************************************)
(* So does a worker that lets go of its row, or of its sweep.              *)
(***************************************************************************)
LEMMA ReleaseStep ==
    ASSUME IInv, NEW w \in Workers, UNCHANGED <<sched, clock, lanes>>,
           worker' = [worker EXCEPT ![w] = Idle]
             \/ worker' = [worker EXCEPT ![w].pc = "picking", ![w].at = NoSend,
                                         ![w].verdict = "none"]
    PROVE  IInv'
<1>1. /\ worker'[w].pc \in {"idle", "picking"}
      /\ worker'[w].todo \in {{}, worker[w].todo}
      /\ worker'[w].todo # {} => worker'[w].now = worker[w].now
      /\ worker' \in [Workers -> WorkerState]
      /\ \A v \in Workers \ {w} : worker'[v] = worker[v]
  BY TimesAssumption DEF IInv, TypeOK, WorkerState, Idle
<1>2. TypeOK'
  BY <1>1 DEF IInv, TypeOK, lanes
<1>3. \A v \in Workers, s \in Sends : Holding(v, s)' => v # w /\ Holding(v, s)
  BY <1>1 DEF Holding, HoldingPc
<1>4. HoldInv'
  BY <1>1, <1>3 DEF IInv, HoldInv, HoldingPc
<1>5. LaneInv'
  BY DEF IInv, LaneInv, lanes
<1>6. ReadInv'
  BY <1>1 DEF IInv, ReadInv
<1>7. OneHolder'
  BY <1>1, <1>3 DEF IInv, OneHolder
<1> QED BY <1>2, <1>4, <1>5, <1>6, <1>7 DEF IInv

-----------------------------------------------------------------------------
(***************************************************************************)
(* The user's requests: scheduling makes a new row, a cancel finds it      *)
(* pending, and nobody holds either.                                       *)
(***************************************************************************)
LEMMA UserStep ==
    ASSUME IInv, NEW s \in Sends,
           CancelScheduledSend(s) \/ \E t \in SendTimes : ScheduleSend(s, t)
    PROVE  IInv'
<1>1. /\ sched'[s].state \in {"PENDING", "CANCELLED"}
      /\ sched[s].state \in {"none", "PENDING"}
      /\ \A q \in Sends \ {s} : sched'[q] = sched[q]
      /\ UNCHANGED <<worker, clock, lanes>>
  <2>1. CASE CancelScheduledSend(s)
    BY <2>1 DEF IInv, TypeOK, CancelScheduledSend
  <2>2. CASE \E t \in SendTimes : ScheduleSend(s, t)
    BY <2>2 DEF IInv, TypeOK, ScheduleSend, NoRow
  <2> QED BY <2>1, <2>2
<1>2. TypeOK'
  <2>1. sched'[s] \in Row
    <3>1. CASE CancelScheduledSend(s)
      BY <3>1, RowFacts DEF IInv, TypeOK, CancelScheduledSend, Row, Terminal
    <3>2. CASE \E t \in SendTimes : ScheduleSend(s, t)
      BY <3>2, TimesAssumption DEF IInv, TypeOK, ScheduleSend, Row
    <3> QED BY <3>1, <3>2
  <2>2. sched' \in [Sends -> Row \cup {NoRow}]
    BY <2>1 DEF IInv, TypeOK, CancelScheduledSend, ScheduleSend
  <2> QED BY <1>1, <2>2 DEF IInv, TypeOK, lanes
<1>3. \A v \in Workers, q \in Sends : Holding(v, q)' = Holding(v, q)
  BY <1>1 DEF Holding
<1>4. HoldInv'
  BY <1>1, <1>3 DEF IInv, HoldInv, Started
<1>5. LaneInv'
  BY <1>1 DEF IInv, LaneInv, lanes, Started
<1>6. ReadInv' /\ OneHolder'
  BY <1>1, <1>3 DEF IInv, ReadInv, OneHolder
<1> QED BY <1>2, <1>4, <1>5, <1>6 DEF IInv

(***************************************************************************)
(* A sweep reads due rows: the claims among them have outlived the TTL.    *)
(***************************************************************************)
LEMMA SweepStep ==
    ASSUME IInv, NEW w \in Workers, Sweep(w)
    PROVE  IInv'
<1>1. PICK b \in Batches :
          worker' = [worker EXCEPT ![w] =
             [Idle EXCEPT !.pc = "picking", !.now = clock, !.todo = {Read(s) : s \in b}]]
  BY DEF Sweep
<1>2. b \subseteq Sends /\ \A s \in b : Due(s)
  BY DEF Batches
<1>3. /\ worker'[w].pc = "picking" /\ worker'[w].now = clock
      /\ worker'[w].at = NoSend /\ worker'[w].verdict = "none"
      /\ worker'[w].todo = {Read(s) : s \in b}
      /\ worker'[w] = [pc |-> "picking", now |-> clock, todo |-> {Read(s) : s \in b},
                       at |-> NoSend, verdict |-> "none"]
      /\ \A v \in Workers \ {w} : worker'[v] = worker[v]
      /\ DOMAIN worker' = Workers
      /\ worker' = [v \in Workers |-> IF v = w THEN worker'[w] ELSE worker[v]]
  BY <1>1 DEF IInv, TypeOK, Idle
<1>4. \A s \in b : /\ Read(s) \in [id : Sends, state : {"PENDING", "CLAIMED"},
                                   claimedAt : 0..MaxClock]
                   /\ Read(s).state = "CLAIMED" => Read(s).claimedAt + ClaimTTL <= clock
  BY <1>2, RowFacts DEF Read, Due, IInv
<1>5. TypeOK'
  <2>1. worker'[w] \in WorkerState
    <3>1. PICK t : t = {Read(s) : s \in b}
      OBVIOUS
    <3>2. t \in SUBSET [id : Sends, state : {"PENDING", "CLAIMED"}, claimedAt : 0..MaxClock]
      BY <1>4, <3>1
    <3>3. worker'[w] = [pc |-> "picking", now |-> clock, todo |-> t, at |-> NoSend, verdict |-> "none"]
      BY <1>3, <3>1
    <3>4. clock \in 0..MaxClock
      BY DEF IInv, TypeOK
    <3>5. PICK reads :
             reads = SUBSET [id : Sends, state : {"PENDING", "CLAIMED"}, claimedAt : 0..MaxClock]
      OBVIOUS
    <3>6. WorkerState = [pc : {"idle", "picking", "missed"} \cup HoldingPc, now : 0..MaxClock,
                         todo : reads, at : Sends \cup {NoSend},
                         verdict : {"none", "SENT", "FAILED"}]
      BY ONLY <3>5 DEF WorkerState
    <3>7. t \in reads
      BY <3>2, <3>5
    <3>8. [pc |-> "picking", now |-> clock, todo |-> t, at |-> NoSend, verdict |-> "none"]
             \in [pc : {"idle", "picking", "missed"} \cup HoldingPc, now : 0..MaxClock,
                  todo : reads, at : Sends \cup {NoSend}, verdict : {"none", "SENT", "FAILED"}]
      BY ONLY <3>4, <3>7
    <3> QED BY ONLY <3>3, <3>6, <3>8
  <2>2. TypeOK /\ UNCHANGED <<sched, clock, lane, taken, left>>
    BY DEF IInv, Sweep, lanes
  <2>3. worker' \in [Workers -> WorkerState]
    <3>1. PICK now : now = worker'[w]
      OBVIOUS
    <3>2. worker' = [v \in Workers |-> IF v = w THEN now ELSE worker[v]] /\ now \in WorkerState
      BY <1>3, <2>1, <3>1
    <3>3. worker \in [Workers -> WorkerState]
      BY <2>2 DEF TypeOK
    <3> QED BY ONLY <3>2, <3>3
  <2> QED BY ONLY <2>2, <2>3 DEF TypeOK
<1>6. \A v \in Workers, s \in Sends : Holding(v, s)' => v # w /\ Holding(v, s)
  BY <1>3 DEF Holding, HoldingPc
<1>7. HoldInv'
  <2>1. UNCHANGED sched
    BY DEF Sweep
  <2>2. \A v \in Workers : worker'[v].pc \in HoldingPc \cup {"marking", "catching", "missed"}
                              => v # w /\ worker'[v] = worker[v]
    BY <1>3 DEF HoldingPc
  <2>3. \A v \in Workers, s \in Sends : Holding(v, s)' =>
            sched'[s].state \in Started /\ worker'[v].now <= sched'[s].claimedAt
    BY <1>3, <1>6, <2>1 DEF IInv, HoldInv
  <2> QED BY <2>2, <2>3 DEF IInv, HoldInv
<1>8. LaneInv'
  BY DEF IInv, LaneInv, Sweep, lanes
<1>9. ReadInv'
  BY <1>3, <1>4 DEF IInv, ReadInv
<1>10. OneHolder'
  BY <1>3, <1>6 DEF IInv, OneHolder
<1> QED BY <1>5, <1>7, <1>8, <1>9, <1>10 DEF IInv

(***************************************************************************)
(* A worker takes up a row it has read: it loses it, or claims a pending   *)
(* row, which nobody holds, or a stale claim, whose holders all swept at   *)
(* least a TTL before.  Whether it hears of its claim makes no difference. *)
(***************************************************************************)
LEMMA PickStep ==
    ASSUME IInv, NEW w \in Workers, NEW r \in First(w), worker[w].pc = "picking",
           UNCHANGED <<clock, lanes>>, worker' \in [Workers -> WorkerState],
           \A v \in Workers \ {w} : worker'[v] = worker[v],
           worker'[w].now = worker[w].now, worker'[w].todo = worker[w].todo \ {r},
           worker'[w].pc \in {"picking", "claimed", "missed"},
           worker'[w].pc # "picking" => worker'[w].at = r.id,
           worker'[w].pc = "missed" => worker'[w].verdict # "none",
           \/ UNCHANGED sched /\ worker'[w].pc # "claimed"
           \/ Claimable(r) /\ StampClaim(w, r)
    PROVE  IInv'
<1>1. /\ r \in worker[w].todo /\ worker[w] \in WorkerState
      /\ r \in [id : Sends, state : {"PENDING", "CLAIMED"}, claimedAt : 0..MaxClock]
      /\ worker[w].now \in 0..MaxClock
  BY DEF First, IInv, TypeOK, WorkerState
<1>2. /\ \A v \in Workers : worker'[v].pc \in HoldingPc \cup {"missed"} => worker'[v].at \in Sends
      /\ \A v \in Workers : worker'[v].pc \in {"marking", "catching", "missed"}
                                => worker'[v].verdict # "none"
  BY <1>1 DEF IInv, HoldInv, HoldingPc
<1>3. CASE UNCHANGED sched /\ worker'[w].pc # "claimed"
  <2>1. \A v \in Workers, s \in Sends : Holding(v, s)' => v # w /\ Holding(v, s)
    BY <1>3 DEF Holding, HoldingPc
  <2>2. TypeOK'
    BY <1>3 DEF IInv, TypeOK, lanes
  <2>3. HoldInv'
    BY <1>2, <1>3, <2>1 DEF IInv, HoldInv
  <2>4. LaneInv' /\ ReadInv' /\ OneHolder'
    BY <1>3, <2>1 DEF IInv, LaneInv, ReadInv, OneHolder, lanes
  <2> QED BY <2>2, <2>3, <2>4 DEF IInv
<1>4. CASE Claimable(r) /\ StampClaim(w, r)
  <2>1. /\ sched[r.id].state \in {"PENDING", "CLAIMED"} /\ sched[r.id] \in Row
        /\ sched'[r.id].state = "CLAIMED" /\ sched'[r.id].claimedAt = worker[w].now
        /\ sched'[r.id] \in Row
        /\ \A s \in Sends \ {r.id} : sched'[s] = sched[s]
        /\ sched' \in [Sends -> Row \cup {NoRow}]
    <3>1. sched' = [sched EXCEPT ![r.id].state = "CLAIMED",
                                 ![r.id].claimedAt = worker[w].now]
      BY <1>4 DEF StampClaim
    <3>2. /\ r.id \in Sends
          /\ sched[r.id].state \in {"PENDING", "CLAIMED"} /\ sched[r.id] \in Row
          /\ sched \in [Sends -> Row \cup {NoRow}]
      BY <1>1, <1>4, RowFacts DEF Claimable, IInv, TypeOK
    <3>3. sched'[r.id] = [sched[r.id] EXCEPT !.state = "CLAIMED",
                                             !.claimedAt = worker[w].now]
      BY <3>1, <3>2
    <3>4. /\ sched'[r.id].state = "CLAIMED" /\ sched'[r.id].claimedAt = worker[w].now
          /\ sched'[r.id] \in Row
      BY <1>1, <3>2, <3>3 DEF Row
    <3> QED BY <3>1, <3>2, <3>4
  <2>2. \A v \in Workers, s \in Sends :
            Holding(v, s)' => (v = w /\ s = r.id) \/ (v # w /\ Holding(v, s))
    BY DEF Holding, HoldingPc
  <2>3. \A v \in Workers : Holding(v, r.id) => worker[v].now + ClaimTTL <= worker[w].now
    <3> SUFFICES ASSUME NEW v \in Workers, Holding(v, r.id)
                 PROVE  worker[v].now + ClaimTTL <= worker[w].now
      OBVIOUS
    <3>1. sched[r.id].state = "CLAIMED" /\ worker[v].now <= sched[r.id].claimedAt
      BY <1>1, <2>1 DEF IInv, HoldInv, Started
    <3>2. r.state = "CLAIMED" /\ r.claimedAt = sched[r.id].claimedAt
      BY <1>4, <3>1 DEF Claimable
    <3>3. r.claimedAt + ClaimTTL <= worker[w].now
      BY <1>1, <3>2 DEF IInv, ReadInv
    <3>4. worker[v].now \in Nat /\ r.claimedAt \in Nat /\ ClaimTTL \in Nat
          /\ worker[w].now \in Nat
      BY <1>1, TimesAssumption DEF IInv, TypeOK, WorkerState
    <3> QED BY <3>1, <3>2, <3>3, <3>4
  <2>4. TypeOK'
    BY <2>1 DEF IInv, TypeOK, lanes
  <2>5. HoldInv'
    <3>1. ASSUME NEW v \in Workers, NEW s \in Sends, Holding(v, s)'
          PROVE  sched'[s].state \in Started /\ worker'[v].now <= sched'[s].claimedAt
      <4>1. CASE v = w /\ s = r.id
        BY <1>1, <2>1, <4>1 DEF Started
      <4>2. CASE v # w /\ Holding(v, s) /\ s # r.id
        BY <2>1, <4>2 DEF IInv, HoldInv
      <4>3. CASE v # w /\ Holding(v, s) /\ s = r.id
        <5>1. worker[v].now \in Nat /\ ClaimTTL \in Nat /\ worker[w].now \in Nat
          BY <1>1, TimesAssumption DEF IInv, TypeOK, WorkerState
        <5> QED BY <2>1, <2>3, <4>3, <5>1 DEF Started
      <4> QED BY <2>2, <3>1, <4>1, <4>2, <4>3
    <3> QED BY <1>2, <3>1 DEF HoldInv
  <2>6. LaneInv'
    BY <2>1 DEF IInv, LaneInv, lanes, Started
  <2>7. ReadInv'
    BY DEF IInv, ReadInv
  <2>8. OneHolder'
    BY <2>2, <2>3 DEF IInv, OneHolder
  <2> QED BY <2>4, <2>5, <2>6, <2>7, <2>8 DEF IInv
<1> QED BY <1>3, <1>4

(***************************************************************************)
(* The claim that is answered, and the one that throws.                    *)
(***************************************************************************)
LEMMA ClaimStep ==
    ASSUME IInv, NEW w \in Workers, Claim(w) \/ ClaimThrows(w)
    PROVE  IInv'
<1>1. /\ worker \in [Workers -> WorkerState] /\ worker[w] \in WorkerState
      /\ worker[w].pc = "picking" /\ UNCHANGED <<clock, lanes>>
  BY DEF IInv, TypeOK, Claim, ClaimThrows
<1>2. ASSUME NEW r \in First(w)
      PROVE  /\ r \in worker[w].todo
             /\ r.id \in Sends
  BY <1>1, <1>2 DEF First, WorkerState
<1>3. CASE Claim(w)
  <2>1. PICK r \in First(w) :
          IF Claimable(r)
          THEN /\ StampClaim(w, r)
               /\ worker' = [worker EXCEPT ![w].pc = "claimed", ![w].at = r.id,
                                ![w].todo = @ \ {r}]
          ELSE /\ worker' = [worker EXCEPT ![w].todo = @ \ {r}]
               /\ UNCHANGED sched
    BY <1>3 DEF Claim
  <2>2. CASE ~Claimable(r)
    <3>1. /\ worker'[w].pc = "picking" /\ worker'[w].now = worker[w].now
          /\ worker'[w].todo = worker[w].todo \ {r}
          /\ worker' \in [Workers -> WorkerState]
          /\ \A v \in Workers \ {w} : worker'[v] = worker[v]
          /\ UNCHANGED sched
      BY <1>1, <1>2, <2>1, <2>2 DEF WorkerState
    <3> QED BY <1>1, <3>1, PickStep
  <2>3. CASE Claimable(r)
    <3>1. worker' = [worker EXCEPT ![w].pc = "claimed", ![w].at = r.id, ![w].todo = @ \ {r}]
          /\ StampClaim(w, r)
      BY <2>1, <2>3
    <3>2. /\ worker'[w].pc = "claimed" /\ worker'[w].now = worker[w].now
          /\ worker'[w].at = r.id /\ worker'[w].todo = worker[w].todo \ {r}
          /\ worker' \in [Workers -> WorkerState]
          /\ \A v \in Workers \ {w} : worker'[v] = worker[v]
      BY <1>1, <1>2, <3>1 DEF WorkerState, HoldingPc
    <3> QED BY <1>1, <2>3, <3>1, <3>2, PickStep
  <2> QED BY <2>2, <2>3
<1>4. CASE ClaimThrows(w)
  <2>1. PICK r \in First(w) :
          /\ UNCHANGED sched \/ (Claimable(r) /\ StampClaim(w, r))
          /\ worker' = [worker EXCEPT ![w].pc = "missed", ![w].at = r.id,
                           ![w].todo = @ \ {r}, ![w].verdict = "FAILED"]
    BY <1>4 DEF ClaimThrows
  <2>2. /\ worker'[w].pc = "missed" /\ worker'[w].now = worker[w].now
        /\ worker'[w].at = r.id /\ worker'[w].todo = worker[w].todo \ {r}
        /\ worker'[w].verdict = "FAILED"
        /\ worker' \in [Workers -> WorkerState]
        /\ \A v \in Workers \ {w} : worker'[v] = worker[v]
    BY <1>1, <1>2, <2>1 DEF WorkerState, HoldingPc
  <2> QED BY <1>1, <2>1, <2>2, PickStep
<1> QED BY <1>3, <1>4

(***************************************************************************)
(* A verdict is written only over a claim, and the worker lets go.         *)
(***************************************************************************)
LEMMA MarkStep ==
    ASSUME IInv, NEW w \in Workers, Mark(w)
    PROVE  IInv'
<1>1. PICK s \in Sends : s = worker[w].at
  BY DEF Mark, IInv, HoldInv, HoldingPc
<1>2. /\ worker'[w].pc = "picking" /\ worker'[w].now = worker[w].now
      /\ worker'[w].todo = worker[w].todo
      /\ worker' \in [Workers -> WorkerState]
      /\ \A v \in Workers \ {w} : worker'[v] = worker[v]
      /\ worker[w].verdict \in {"SENT", "FAILED"}
  BY DEF Mark, IInv, TypeOK, HoldInv, WorkerState
<1>3. /\ sched' \in [Sends -> Row \cup {NoRow}]
      /\ \A q \in Sends : /\ sched[q].state \in Started <=> sched'[q].state \in Started
                          /\ sched'[q].claimedAt = sched[q].claimedAt
  <2>1. CASE sched[s].state = "CLAIMED"
    <3>1. sched[s] \in Row /\ sched \in [Sends -> Row \cup {NoRow}]
      BY <2>1, RowFacts DEF IInv, TypeOK
    <3>2. sched' = [sched EXCEPT ![s].state = worker[w].verdict]
      BY <1>1, <2>1 DEF Mark, MarkScheduledSend
    <3>3. /\ sched'[s] = [sched[s] EXCEPT !.state = worker[w].verdict]
          /\ \A q \in Sends \ {s} : sched'[q] = sched[q]
      BY <3>1, <3>2
    <3>4. /\ sched'[s] \in Row /\ sched'[s].state = worker[w].verdict
          /\ sched'[s].claimedAt = sched[s].claimedAt
      BY <1>2, <3>1, <3>3 DEF Row, Terminal
    <3> QED BY <1>2, <2>1, <3>1, <3>2, <3>3, <3>4 DEF Started
  <2>2. CASE sched[s].state # "CLAIMED"
    BY <1>1, <2>2 DEF Mark, MarkScheduledSend, IInv, TypeOK
  <2> QED BY <2>1, <2>2
<1>4. UNCHANGED <<clock, lanes>>
  BY DEF Mark
<1>5. \A v \in Workers, q \in Sends : Holding(v, q)' => v # w /\ Holding(v, q)
  BY <1>2 DEF Holding, HoldingPc
<1>6. TypeOK'
  BY <1>2, <1>3, <1>4 DEF IInv, TypeOK, lanes
<1>7. HoldInv'
  BY <1>2, <1>3, <1>5 DEF IInv, HoldInv, HoldingPc
<1>8. LaneInv'
  BY <1>3, <1>4 DEF IInv, LaneInv, lanes
<1>9. ReadInv' /\ OneHolder'
  BY <1>2, <1>5 DEF IInv, ReadInv, OneHolder
<1> QED BY <1>6, <1>7, <1>8, <1>9 DEF IInv

(***************************************************************************)
(* composeEmail, step by step, and what ends an attempt early.             *)
(***************************************************************************)
LEMMA ComposeStep ==
    ASSUME IInv, NEW w \in Workers,
           \/ ComposeRead(w) \/ ComposeInsert(w) \/ ComposeOffer(w)
           \/ ComposeSettle(w) \/ Throws(w)
    PROVE  IInv'
<1>1. /\ worker[w].pc \in HoldingPc /\ worker[w].at \in Sends
      /\ UNCHANGED <<sched, clock>>
  BY DEF ComposeRead, ComposeInsert, ComposeOffer, ComposeSettle, Throws,
         HoldingPc, IInv, HoldInv
<1>2. /\ lane \in [Sends -> {"none", "queued", "sent", "failed"}]
      /\ taken \subseteq Sends /\ left \in [Sends -> 0..1]
  BY DEF IInv, TypeOK
<1>3. CASE UNCHANGED lanes
  <2>1. PICK pc \in HoldingPc, verdict \in {"none", "SENT", "FAILED"} :
            /\ Step(w, pc, verdict)
            /\ pc \in {"marking", "catching"} => verdict # "none"
    <3>1. CASE ComposeRead(w)
      BY <3>1 DEF ComposeRead, HoldingPc
    <3>2. CASE ComposeInsert(w)
      BY <3>2 DEF ComposeInsert, HoldingPc
    <3>3. CASE ComposeOffer(w)
      BY <3>3 DEF ComposeOffer, HoldingPc
    <3>4. CASE ComposeSettle(w)
      BY <3>4 DEF ComposeSettle, HoldingPc
    <3>5. CASE Throws(w)
      BY <3>5 DEF Throws, HoldingPc
    <3> QED BY <3>1, <3>2, <3>3, <3>4, <3>5
  <2>2. lane' = lane /\ taken' = taken /\ left' = left
    BY <1>3 DEF lanes
  <2> QED BY <1>1, <1>2, <2>1, <2>2, HolderStep
<1>4. CASE ComposeInsert(w) /\ Lane!Accept(worker[w].at) /\ Step(w, "queued", "none")
  <2>1. /\ lane' \in [Sends -> {"none", "queued", "sent", "failed"}]
        /\ taken' \subseteq Sends /\ left' \in [Sends -> 0..1]
        /\ \A s \in Sends \ {worker[w].at} : lane'[s] = lane[s] /\ left'[s] = left[s]
    BY <1>1, <1>2, <1>4 DEF Lane!Accept
  <2> QED BY <1>1, <1>4, <2>1, HolderStep DEF HoldingPc
<1>5. CASE ComposeOffer(w)
  <2>1. Lane!Offer(worker[w].at) /\ Step(w, "answered", "none")
    BY <1>5 DEF ComposeOffer
  <2>2. /\ lane' \in [Sends -> {"none", "queued", "sent", "failed"}]
        /\ taken' \subseteq Sends /\ left' \in [Sends -> 0..1]
        /\ \A s \in Sends \ {worker[w].at} : lane'[s] = lane[s] /\ left'[s] = left[s]
    BY <1>1, <1>2, <2>1 DEF Lane!Offer
  <2> QED BY <1>1, <2>1, <2>2, HolderStep DEF HoldingPc
<1>6. CASE ComposeSettle(w)
  <2>1. PICK verdict \in {"SENT", "FAILED"} : Step(w, "marking", verdict)
    BY <1>6 DEF ComposeSettle
  <2>2. /\ lane' \in [Sends -> {"none", "queued", "sent", "failed"}]
        /\ taken' \subseteq Sends /\ left' \in [Sends -> 0..1]
        /\ \A s \in Sends \ {worker[w].at} : lane'[s] = lane[s] /\ left'[s] = left[s]
    BY <1>1, <1>2, <1>6 DEF ComposeSettle, Lane!Settle
  <2> QED BY <1>1, <2>1, <2>2, HolderStep DEF HoldingPc
<1> QED BY <1>3, <1>4, <1>5, <1>6 DEF ComposeRead, ComposeInsert, Throws

LEMMA StepKeepsInv == IInv /\ [Next]_vars => IInv'
<1> SUFFICES ASSUME IInv, [Next]_vars PROVE IInv'
  OBVIOUS
<1>1. ASSUME NEW s \in Sends,
             CancelScheduledSend(s) \/ \E t \in SendTimes : ScheduleSend(s, t)
      PROVE  IInv'
  BY <1>1, UserStep
<1>2. ASSUME NEW w \in Workers,
             WorkerStep(w) \/ Throws(w) \/ ClaimThrows(w) \/ Swallowed(w) \/ Crash(w)
      PROVE  IInv'
  <2>1. CASE EndSweep(w) \/ Swallowed(w) \/ Crash(w)
    BY <2>1, ReleaseStep DEF EndSweep, Swallowed, Crash
  <2> QED BY <1>2, <2>1, SweepStep, ClaimStep, ComposeStep, MarkStep DEF WorkerStep
<1>3. CASE Tick
  <2>1. clock' \in 0..MaxClock
    BY <1>3, TimesAssumption DEF Tick, IInv, TypeOK
  <2>2. UNCHANGED <<sched, worker, lane, taken, left>>
    BY <1>3 DEF Tick, lanes
  <2> QED BY <2>1, <2>2
          DEF IInv, TypeOK, HoldInv, LaneInv, ReadInv, OneHolder, Holding
<1>4. CASE UNCHANGED vars
  BY <1>4 DEF vars, IInv, TypeOK, HoldInv, LaneInv, ReadInv, OneHolder, Holding
<1> QED BY <1>1, <1>2, <1>3, <1>4 DEF Next

(***************************************************************************)
(* IInv holds throughout: fireDueScheduledSends and cancelScheduledSend    *)
(* keep what their guards rely on.                                         *)
(***************************************************************************)
THEOREM Invariance == Spec => []IInv
<1>1. Init => IInv
  BY InitIInv
<1>2. IInv /\ [Next]_vars => IInv'
  BY StepKeepsInv
<1> QED BY <1>1, <1>2, PTL DEF Spec

(***************************************************************************)
(* Rows, sweeps and lanes keep their types.                                *)
(***************************************************************************)
THEOREM TypeCorrect == Spec => []TypeOK
<1>1. IInv => TypeOK
  BY DEF IInv
<1> QED BY <1>1, Invariance, PTL

(***************************************************************************)
(* Undo works: a row cancelScheduledSend cancelled was never composed.     *)
(***************************************************************************)
THEOREM CancelledNeverLeavesHolds == Spec => []CancelledNeverLeaves
<1>1. IInv => CancelledNeverLeaves
  BY DEF IInv, LaneInv, Started, CancelledNeverLeaves
<1> QED BY <1>1, Invariance, PTL

(***************************************************************************)
(* The claim's guard in fireDueScheduledSends admits a second worker only  *)
(* past the TTL, whatever the TTL.                                         *)
(***************************************************************************)
THEOREM OneHolderHolds == Spec => []OneHolder
<1>1. IInv => OneHolder
  BY DEF IInv
<1> QED BY <1>1, Invariance, PTL

(***************************************************************************)
(* markScheduledSend, the claim and the cancel never touch a settled row.  *)
(***************************************************************************)
THEOREM TerminalIsFinalHolds == Spec => TerminalIsFinal
<1>1. IInv /\ [Next]_vars
        => [\A s \in Sends : sched[s].state \in Terminal => sched'[s] = sched[s]]_vars
  <2> SUFFICES ASSUME IInv, Next, NEW s \in Sends, sched[s].state \in Terminal
               PROVE  sched'[s] = sched[s]
    OBVIOUS
  <2>1. ASSUME NEW q \in Sends,
               CancelScheduledSend(q) \/ \E t \in SendTimes : ScheduleSend(q, t)
        PROVE  sched'[s] = sched[s]
    BY <2>1 DEF CancelScheduledSend, ScheduleSend, NoRow, Terminal, IInv, TypeOK
  <2>2. ASSUME NEW w \in Workers, Claim(w) \/ ClaimThrows(w)
        PROVE  sched'[s] = sched[s]
    <3>1. PICK r \in worker[w].todo : \/ UNCHANGED sched
                                      \/ /\ Claimable(r)
                                         /\ sched' = [sched EXCEPT ![r.id].state = "CLAIMED",
                                                ![r.id].claimedAt = worker[w].now]
      BY <2>2 DEF Claim, ClaimThrows, First, StampClaim
    <3>2. r.state \in {"PENDING", "CLAIMED"}
      BY <3>1 DEF IInv, TypeOK, WorkerState
    <3> QED BY <3>1, <3>2 DEF Claimable, Terminal, IInv, TypeOK
  <2>3. ASSUME NEW w \in Workers, Mark(w)
        PROVE  sched'[s] = sched[s]
    BY <2>3 DEF Mark, MarkScheduledSend, Terminal, IInv, TypeOK
  <2>4. ASSUME NEW w \in Workers,
               WorkerStep(w) \/ Throws(w) \/ ClaimThrows(w) \/ Swallowed(w) \/ Crash(w),
               ~Claim(w), ~ClaimThrows(w), ~Mark(w)
        PROVE  sched' = sched
    BY <2>4 DEF WorkerStep, Sweep, EndSweep, ComposeRead, ComposeInsert, ComposeOffer,
                ComposeSettle, Throws, Swallowed, Crash
  <2>5. Tick => sched' = sched
    BY DEF Tick
  <2> QED BY <2>1, <2>2, <2>3, <2>4, <2>5 DEF Next, WorkerStep
<1> QED BY <1>1, Invariance, PTL DEF Spec, TerminalIsFinal

(***************************************************************************)
(* What a sweep does to the messages is what SendLane allows: the rows     *)
(* compose each under its own tuple.                                       *)
(***************************************************************************)
LEMMA StepKeepsLane ==
    ASSUME IInv, [Next]_vars
    PROVE  [Lane!LaneNext]_(Lane!laneVars)
<1>1. ASSUME NEW w \in Workers, ComposeInsert(w) \/ ComposeOffer(w) \/ ComposeSettle(w)
      PROVE  [Lane!LaneNext]_(Lane!laneVars)
  <2>1. PICK s \in Sends : s = worker[w].at
    BY <1>1 DEF ComposeInsert, ComposeOffer, ComposeSettle, IInv, HoldInv, HoldingPc
  <2>2. Lane!Accept(s) \/ Lane!Offer(s) \/ Lane!Settle(s) \/ UNCHANGED lanes
    BY <1>1, <2>1 DEF ComposeInsert, ComposeOffer, ComposeSettle
  <2> QED BY <2>2 DEF Lane!LaneNext, Lane!laneVars, lanes
<1>2. ASSUME UNCHANGED lanes PROVE [Lane!LaneNext]_(Lane!laneVars)
  BY <1>2 DEF Lane!laneVars, lanes
<1>3. UNCHANGED vars => UNCHANGED lanes
  BY DEF vars, lanes
<1>4. Tick => UNCHANGED lanes
  BY DEF Tick
<1>5. ASSUME NEW s \in Sends,
             CancelScheduledSend(s) \/ \E t \in SendTimes : ScheduleSend(s, t)
      PROVE  UNCHANGED lanes
  BY <1>5 DEF CancelScheduledSend, ScheduleSend
<1>6. ASSUME NEW w \in Workers,
             \/ Sweep(w) \/ Claim(w) \/ EndSweep(w) \/ ComposeRead(w) \/ Mark(w)
             \/ Throws(w) \/ ClaimThrows(w) \/ Swallowed(w) \/ Crash(w)
      PROVE  UNCHANGED lanes
  BY <1>6 DEF Sweep, Claim, EndSweep, ComposeRead, Mark, Throws, ClaimThrows, Swallowed, Crash
<1> QED BY <1>1, <1>2, <1>3, <1>4, <1>5, <1>6 DEF Next, WorkerStep

(***************************************************************************)
(* SendLater implements SendLane: whatever sweeps race, are taken over,    *)
(* fail and die, under each row's tuple one message is accepted, offered   *)
(* to the engine and settled at most once (processClaimedSend composes     *)
(* under the row's id).                                                    *)
(***************************************************************************)
THEOREM SendLaterKeepsLane == Spec => Lane!LaneSpec
<1>1. Init => Lane!LaneInit
  BY DEF Init
<1>2. IInv /\ [Next]_vars => [Lane!LaneNext]_(Lane!laneVars)
  BY StepKeepsLane
<1> QED BY <1>1, <1>2, Invariance, PTL DEF Spec, Lane!LaneSpec

\* A row reads SENT, and a worker is about to write that, only of a message
\* that was accepted; a copy left only on an offer, and only an accepted
\* message is offered.
SentInv ==
    /\ \A s \in Sends : sched[s].state = "SENT" => lane[s] # "none"
    /\ \A w \in Workers : worker[w].verdict = "SENT" =>
          worker[w].pc = "marking" /\ worker[w].at \in Sends /\ lane[worker[w].at] # "none"

OfferInv ==
    \A s \in Sends : /\ left[s] = 1 => s \in taken
                     /\ s \in taken => lane[s] # "none"
                     /\ lane[s] = "sent" => left[s] = 1

LEMMA OfferStep ==
    ASSUME TypeOK, OfferInv, [Lane!LaneNext]_(Lane!laneVars)
    PROVE  OfferInv' /\ \A s \in Sends : lane[s] # "none" => lane'[s] # "none"
<1>1. /\ lane \in [Sends -> {"none", "queued", "sent", "failed"}]
      /\ taken \subseteq Sends /\ left \in [Sends -> 0..1]
  BY DEF TypeOK
<1>2. ASSUME NEW r \in Sends, Lane!Accept(r)
      PROVE  OfferInv' /\ \A s \in Sends : lane[s] # "none" => lane'[s] # "none"
  <2>1. /\ \A s \in Sends : lane'[s] = IF s = r THEN "queued" ELSE lane[s]
        /\ taken' = taken /\ left' = left
    BY <1>1, <1>2 DEF Lane!Accept
  <2>2. lane[r] = "none"
    BY <1>2 DEF Lane!Accept
  <2> QED BY <2>1, <2>2 DEF OfferInv
<1>3. ASSUME NEW r \in Sends, Lane!Offer(r)
      PROVE  OfferInv' /\ \A s \in Sends : lane[s] # "none" => lane'[s] # "none"
  <2>1. /\ lane' = lane /\ taken' = taken \cup {r} /\ lane[r] = "queued"
        /\ \A s \in Sends \ {r} : left'[s] = left[s]
    BY <1>1, <1>3 DEF Lane!Offer
  <2> QED BY <2>1 DEF OfferInv
<1>4. ASSUME NEW r \in Sends, Lane!Settle(r)
      PROVE  OfferInv' /\ \A s \in Sends : lane[s] # "none" => lane'[s] # "none"
  <2>1. /\ taken' = taken /\ left' = left
        /\ \A s \in Sends \ {r} : lane'[s] = lane[s]
        /\ \/ lane'[r] = "failed"
           \/ lane'[r] = "sent" /\ left[r] = 1
    BY <1>1, <1>4 DEF Lane!Settle
  <2> QED BY <2>1 DEF OfferInv
<1>5. CASE UNCHANGED Lane!laneVars
  BY <1>5 DEF Lane!laneVars, OfferInv
<1> QED BY <1>2, <1>3, <1>4, <1>5 DEF Lane!LaneNext

(***************************************************************************)
(* The verdict a worker carries comes from a message it found, or settled. *)
(***************************************************************************)
LEMMA CarriedVerdict ==
    ASSUME IInv, SentInv, [Next]_vars, NEW w \in Workers, worker'[w].verdict = "SENT",
           \A s \in Sends : lane[s] # "none" => lane'[s] # "none"
    PROVE  /\ worker'[w].pc = "marking" /\ worker'[w].at \in Sends
           /\ lane'[worker'[w].at] # "none"
<1>1. worker \in [Workers -> WorkerState]
  BY DEF IInv, TypeOK
<1>2. ASSUME worker'[w] = worker[w]
      PROVE  /\ worker'[w].pc = "marking" /\ worker'[w].at \in Sends
             /\ lane'[worker'[w].at] # "none"
  BY <1>2 DEF SentInv
<1>3. ASSUME NEW v \in Workers, ComposeRead(v) \/ ComposeSettle(v), v = w
      PROVE  /\ worker'[w].pc = "marking" /\ worker'[w].at \in Sends
             /\ lane'[worker'[w].at] # "none"
  <2>1. PICK s \in Sends : s = worker[w].at
    BY <1>3 DEF ComposeRead, ComposeSettle, IInv, HoldInv, HoldingPc
  <2>2. PICK pc, verdict : Step(w, pc, verdict) /\ (verdict = "SENT" => pc = "marking")
    BY <1>3 DEF ComposeRead, ComposeSettle
  <2>3. worker'[w].pc = pc /\ worker'[w].verdict = verdict /\ worker'[w].at = s
    BY <1>1, <2>1, <2>2 DEF Step, WorkerState
  <2>4. lane'[s] # "none"
    <3>1. CASE ComposeRead(w)
      <4>1. lane[s] = "none" => Step(w, "gated", "none")
        BY <2>1, <3>1 DEF ComposeRead
      <4>2. Step(w, "gated", "none") => worker'[w].verdict = "none"
        BY <1>1 DEF Step, WorkerState
      <4> QED BY <4>1, <4>2
    <3>2. CASE ComposeSettle(w)
      BY <2>1, <3>2 DEF ComposeSettle, Lane!Settle
    <3> QED BY <1>3, <3>1, <3>2
  <2> QED BY <2>2, <2>3, <2>4
<1>4. ASSUME NEW v \in Workers,
             ComposeInsert(v) \/ ComposeOffer(v) \/ Throws(v), v = w
      PROVE  FALSE
  <2>1. PICK pc \in HoldingPc, verdict \in {"none", "FAILED"} : Step(w, pc, verdict)
    BY <1>4 DEF ComposeInsert, ComposeOffer, Throws, HoldingPc
  <2> QED BY <1>1, <2>1 DEF Step, WorkerState
<1>5. ASSUME NEW v \in Workers, Sweep(v) \/ EndSweep(v) \/ Crash(v), v = w
      PROVE  FALSE
  <2>1. PICK after : after.verdict = "none" /\ worker' = [worker EXCEPT ![w] = after]
    <3>1. Idle.verdict = "none"
      BY DEF Idle
    <3>2. CASE Sweep(w)
      <4>1. PICK todo : worker' = [worker EXCEPT ![w] =
                [Idle EXCEPT !.pc = "picking", !.now = clock, !.todo = todo]]
        BY <3>2 DEF Sweep
      <4>2. [Idle EXCEPT !.pc = "picking", !.now = clock, !.todo = todo].verdict = "none"
        BY DEF Idle
      <4> QED BY <4>1, <4>2
    <3> QED BY <1>5, <3>1, <3>2 DEF EndSweep, Crash
  <2> QED BY <1>1, <2>1
<1>6. ASSUME NEW v \in Workers, Mark(v) \/ Swallowed(v), v = w
      PROVE  FALSE
  <2>1. worker' = [worker EXCEPT ![w].pc = "picking", ![w].at = NoSend,
                                 ![w].verdict = "none"]
    BY <1>6 DEF Mark, Swallowed
  <2> QED BY <1>1, <2>1 DEF WorkerState
<1>7. ASSUME NEW v \in Workers, Claim(v), v = w
      PROVE  FALSE
  <2>1. worker'[w].verdict = worker[w].verdict /\ worker[w].pc = "picking"
    BY <1>1, <1>7 DEF Claim, WorkerState
  <2> QED BY <2>1 DEF SentInv
<1>8. ASSUME NEW v \in Workers, ClaimThrows(v), v = w
      PROVE  FALSE
  BY <1>1, <1>8 DEF ClaimThrows, WorkerState
<1>9. ASSUME NEW v \in Workers, v # w,
             WorkerStep(v) \/ Throws(v) \/ ClaimThrows(v) \/ Swallowed(v) \/ Crash(v)
      PROVE  worker'[w] = worker[w]
  BY <1>1, <1>9 DEF WorkerStep, Sweep, Claim, EndSweep, ComposeRead, ComposeInsert, ComposeOffer,
                    ComposeSettle, Mark, Throws, ClaimThrows, Swallowed, Crash, Step
<1>10. ASSUME \/ Tick \/ UNCHANGED vars
              \/ \E s \in Sends : CancelScheduledSend(s) \/ \E t \in SendTimes : ScheduleSend(s, t)
       PROVE  worker' = worker
  BY <1>10 DEF Tick, vars, CancelScheduledSend, ScheduleSend
<1> QED BY <1>2, <1>3, <1>4, <1>5, <1>6, <1>7, <1>8, <1>9, <1>10 DEF Next, WorkerStep

(***************************************************************************)
(* SENT is written only by a worker that carries that verdict.             *)
(***************************************************************************)
LEMMA WrittenVerdict ==
    ASSUME IInv, [Next]_vars, NEW s \in Sends, sched'[s].state = "SENT"
    PROVE  \/ sched[s].state = "SENT"
           \/ \E w \in Workers : worker[w].verdict = "SENT" /\ worker[w].at = s
<1>1. sched \in [Sends -> Row \cup {NoRow}]
  BY DEF IInv, TypeOK
<1>2. ASSUME NEW q \in Sends,
             CancelScheduledSend(q) \/ \E t \in SendTimes : ScheduleSend(q, t)
      PROVE  sched[s].state = "SENT"
  <2>1. PICK after : after.state # "SENT" /\ sched' = [sched EXCEPT ![q] = after]
    <3>1. CASE CancelScheduledSend(q)
      <4>1. PICK after : after = [sched[q] EXCEPT !.state = "CANCELLED"]
        OBVIOUS
      <4>2. after.state # "SENT"
        BY <1>1, <4>1 DEF Row, NoRow
      <4> QED BY <3>1, <4>1, <4>2 DEF CancelScheduledSend
    <3>2. CASE \E t \in SendTimes : ScheduleSend(q, t)
      BY <3>2 DEF ScheduleSend
    <3> QED BY <1>2, <3>1, <3>2
  <2> QED BY <1>1, <2>1
<1>3. ASSUME NEW w \in Workers, Claim(w) \/ ClaimThrows(w) PROVE sched[s].state = "SENT"
  <2>1. CASE UNCHANGED sched
    BY <2>1
  <2>2. ASSUME NEW r \in First(w),
               sched' = [sched EXCEPT ![r.id].state = "CLAIMED",
                                      ![r.id].claimedAt = worker[w].now]
        PROVE  sched[s].state = "SENT"
    <3>1. PICK after : after = [sched[s] EXCEPT !.state = "CLAIMED",
                                                !.claimedAt = worker[w].now]
      OBVIOUS
    <3>2. after.state = "CLAIMED"
      <4>1. sched[s] \in Row \cup {NoRow}
        BY <1>1
      <4> QED BY <3>1, <4>1 DEF Row, NoRow
    <3>3. sched'[s] = IF s = r.id THEN after ELSE sched[s]
      BY ONLY <1>1, <2>2, <3>1, s \in Sends
    <3> QED BY <3>2, <3>3
  <2> QED BY <1>3, <2>1, <2>2 DEF Claim, ClaimThrows, StampClaim
<1>4. ASSUME NEW w \in Workers, Mark(w)
      PROVE  \/ sched[s].state = "SENT"
             \/ worker[w].verdict = "SENT" /\ worker[w].at = s
  <2>1. \/ UNCHANGED sched
        \/ sched' = [sched EXCEPT ![worker[w].at].state = worker[w].verdict]
    BY <1>4 DEF Mark, MarkScheduledSend
  <2>2. CASE worker[w].at # s
    BY <1>1, <2>1, <2>2
  <2>3. CASE worker[w].at = s
    <3>1. PICK after : after = [sched[s] EXCEPT !.state = worker[w].verdict]
      OBVIOUS
    <3>2. after.state = worker[w].verdict
      <4>1. sched[s] \in Row \cup {NoRow}
        BY <1>1
      <4> QED BY <3>1, <4>1 DEF Row, NoRow
    <3>3. UNCHANGED sched \/ sched' = [sched EXCEPT ![s] = after]
      BY <2>1, <2>3, <3>1
    <3> QED BY <1>1, <2>3, <3>2, <3>3
  <2> QED BY <2>2, <2>3
<1>5. ASSUME NEW w \in Workers,
             WorkerStep(w) \/ Throws(w) \/ ClaimThrows(w) \/ Swallowed(w) \/ Crash(w),
             ~Claim(w), ~ClaimThrows(w), ~Mark(w)
      PROVE  sched' = sched
  BY <1>5 DEF WorkerStep, Sweep, EndSweep, ComposeRead, ComposeInsert, ComposeOffer,
              ComposeSettle, Throws, Swallowed, Crash
<1>6. Tick \/ UNCHANGED vars => sched' = sched
  BY DEF Tick, vars
<1> QED BY <1>2, <1>3, <1>4, <1>5, <1>6 DEF Next, WorkerStep

(***************************************************************************)
(* A row the user sees as SENT has a message, and a copy leaves only of a  *)
(* row that was claimed and whose message was accepted and offered.        *)
(***************************************************************************)
THEOREM SentHasMessage ==
    Spec => [](\A s \in Sends :
                 /\ sched[s].state = "SENT" => lane[s] # "none"
                 /\ left[s] = 1 => /\ s \in taken /\ lane[s] # "none"
                                   /\ sched[s].state \in Started)
<1>1. Init => SentInv /\ OfferInv
  BY DEF Init, Idle, NoRow, Lane!LaneInit, SentInv, OfferInv
<1>2. IInv /\ SentInv /\ OfferInv /\ [Next]_vars => SentInv' /\ OfferInv'
  <2> SUFFICES ASSUME IInv, SentInv, OfferInv, [Next]_vars PROVE SentInv' /\ OfferInv'
    OBVIOUS
  <2>1. OfferInv' /\ \A s \in Sends : lane[s] # "none" => lane'[s] # "none"
    BY StepKeepsLane, OfferStep DEF IInv
  <2>2. \A w \in Workers : worker'[w].verdict = "SENT" =>
            /\ worker'[w].pc = "marking" /\ worker'[w].at \in Sends
            /\ lane'[worker'[w].at] # "none"
    BY <2>1, CarriedVerdict
  <2>3. \A s \in Sends : sched'[s].state = "SENT" => lane'[s] # "none"
    BY <2>1, WrittenVerdict DEF SentInv
  <2> QED BY <2>1, <2>2, <2>3 DEF SentInv
<1>3. IInv /\ SentInv /\ OfferInv =>
        \A s \in Sends :
          /\ sched[s].state = "SENT" => lane[s] # "none"
          /\ left[s] = 1 => /\ s \in taken /\ lane[s] # "none"
                            /\ sched[s].state \in Started
  BY DEF IInv, LaneInv, SentInv, OfferInv
<1> QED BY <1>1, <1>2, <1>3, Invariance, PTL DEF Spec

-----------------------------------------------------------------------------
(***************************************************************************)
(* Engagement.  Its rows are stamped by id and advanced from a reading that *)
(* may be old, so the invariant says what a reading, a captured record and *)
(* the id on a row still show of each other.                               *)
(***************************************************************************)
Status == {"DRAFT", "PENDING_APPROVAL", "QUEUED", "SENT", "DELIVERED", "BOUNCED",
           "FAILED", "REJECTED"}

\* A row holds the id of a copy whose request is over; one its engine took.
RowInv ==
    \A m \in Msgs :
        msg[m].providerMessageId # NoAttempt =>
            /\ request[msg[m].providerMessageId] = "done"
            /\ MessageOf[msg[m].providerMessageId] = m
            /\ msg[m].status \in {"SENT", "REJECTED"} \cup Reported

\* A held draft whose item is pending has not left.
PendingInv ==
    \A m \in Msgs : inbox[m] = "PENDING" =>
        /\ msg[m].status \in {"PENDING_APPROVAL", "FAILED"}
        /\ msg[m].providerMessageId = NoAttempt

\* Composed mail has one request, which finds its row queued.
ComposedInv ==
    \A m \in Msgs : inbox[m] = "none" =>
        /\ \A a, b \in Attempts :
              (/\ MessageOf[a] = m /\ request[a] # "idle"
               /\ MessageOf[b] = m /\ request[b] # "idle") => a = b
        /\ \A a \in Attempts : MessageOf[a] = m => request[a] # "rejecting"
        /\ (\A a \in Attempts : MessageOf[a] = m => request[a] # "done") =>
              msg[m].status = "QUEUED"
        /\ msg[m].status # "REJECTED"

\* What is known of a copy some record of which reached us: its request is
\* over, and composed mail still holds its id.
Seen(a) ==
    /\ request[a] = "done" /\ inbox[MessageOf[a]] # "PENDING"
    /\ inbox[MessageOf[a]] = "none" => msg[MessageOf[a]].providerMessageId = a

CapturedInv == \A e \in captured : Seen(e.of)

\* The reading of a request at work on the copy of a, while the row holds
\* the id it was found by: a row read past SENT is past SENT.
Reading(h, a) ==
    /\ Seen(a)
    /\ handler[h].before \in {"SENT", "REJECTED"} \cup Reported
    /\ (msg[MessageOf[a]].providerMessageId = a /\ handler[h].before # "SENT") =>
          msg[MessageOf[a]].status # "SENT"

LookupInv ==
    \A h \in Handlers, e \in Events :
        (handler[h].pc = "resolved" /\ Head(handler[h].todo) = e) => Reading(h, e.of)

WebhookInv ==
    /\ WebhookTypeOK /\ RowInv /\ PendingInv /\ ComposedInv
    /\ CapturedInv /\ LookupInv /\ StatusIsWitnessed

-----------------------------------------------------------------------------
(***************************************************************************)
(* The ladder of statuses (STATUS_RANK).                                   *)
(***************************************************************************)
LEMMA RankFacts ==
    /\ DOMAIN STATUS_RANK = Status
    /\ STATUS_RANK["PENDING_APPROVAL"] = 5
    /\ STATUS_RANK["QUEUED"] = 10 /\ STATUS_RANK["SENT"] = 20
    /\ STATUS_RANK["DELIVERED"] = 30 /\ STATUS_RANK["BOUNCED"] = 40
    /\ STATUS_RANK["FAILED"] = 40 /\ STATUS_RANK["REJECTED"] = 40
    /\ \A s \in Status : STATUS_RANK[s] \in Nat
BY DEF STATUS_RANK, Status

(***************************************************************************)
(* An array of records has a first one, and what is left of it after that  *)
(* is an array again or nothing.                                           *)
(***************************************************************************)
LEMMA BatchFacts ==
    ASSUME NEW b \in BoundedBatches
    PROVE  /\ Head(b) \in Events
           /\ Len(b) # 1 => Tail(b) \in BoundedBatches
<1>1. PICK n \in 1..MaxBatch : b \in [1..n -> Events]
  BY DEF BoundedBatches
<1>2. n \in Nat \ {0} /\ MaxBatch \in Nat
  BY MaxBatchAssumption
<1>3. b \in Seq(Events) /\ Len(b) = n /\ DOMAIN b = 1..n
  BY <1>1, <1>2
<1>4. Head(b) \in Events
  BY <1>1, <1>2, <1>3
<1>5. ASSUME n # 1 PROVE Tail(b) \in BoundedBatches
  <2>1. n - 1 \in 1..MaxBatch
    BY <1>2, <1>5
  <2>2. Tail(b) \in Seq(Events) /\ Len(Tail(b)) = n - 1
    BY <1>2, <1>3, HeadTailProperties
  <2>3. Tail(b) \in [1..(n - 1) -> Events]
    BY <2>2, LenProperties
  <2> QED BY <2>1, <2>3 DEF BoundedBatches
<1> QED BY <1>3, <1>4, <1>5

\* What a handler may hold.
HandlerState ==
    {NoRequest}
    \cup [pc : {"ready"}, todo : BoundedBatches, before : {"none"}]
    \cup [pc : {"resolved"}, todo : BoundedBatches, before : Status]

(***************************************************************************)
(* A request that is at work is at a record of one of our messages.        *)
(***************************************************************************)
LEMMA AtWork ==
    ASSUME WebhookTypeOK, NEW h \in Handlers, handler[h].pc # "idle"
    PROVE  /\ handler[h].todo \in BoundedBatches
           /\ Head(handler[h].todo) \in Events
           /\ Head(handler[h].todo).of \in Attempts
           /\ MessageOf[Head(handler[h].todo).of] \in Msgs
           /\ Head(handler[h].todo).type \in RecordType
<1>1. handler[h].todo \in BoundedBatches
  BY DEF WebhookTypeOK, NoRequest
<1> QED BY <1>1, BatchFacts, EventAssumption, AttemptAssumption

(***************************************************************************)
(* A request with records to do is one a handler may hold, without a       *)
(* reading.                                                                *)
(***************************************************************************)
LEMMA ReadyFacts ==
    ASSUME NEW b \in BoundedBatches
    PROVE  /\ [NoRequest EXCEPT !.pc = "ready", !.todo = b] \in HandlerState
           /\ [NoRequest EXCEPT !.pc = "ready", !.todo = b].pc # "resolved"
<1>1. NoRequest \in [pc : {"idle"}, todo : {<<>>}, before : {"none"}]
  BY DEF NoRequest
<1> HIDE DEF NoRequest
<1>2. [NoRequest EXCEPT !.pc = "ready", !.todo = b]
        \in [pc : {"ready"}, todo : BoundedBatches, before : {"none"}]
  BY <1>1
<1> QED BY <1>2 DEF HandlerState

(***************************************************************************)
(* Answering the record at the head changes one request, which is left     *)
(* with no reading.                                                        *)
(***************************************************************************)
LEMMA AnswerFacts ==
    ASSUME WebhookTypeOK, NEW h \in Handlers, handler[h].pc # "idle", Answer(h)
    PROVE  /\ handler' \in [Handlers -> HandlerState]
           /\ handler'[h].pc # "resolved"
           /\ \A g \in Handlers \ {h} : handler'[g] = handler[g]
<1>1. handler \in [Handlers -> HandlerState]
  BY RankFacts DEF WebhookTypeOK, HandlerState
<1>2. \E new \in HandlerState : /\ handler' = [handler EXCEPT ![h] = new]
                                /\ new.pc # "resolved"
  <2>1. CASE Len(handler[h].todo) = 1
    <3>1. handler' = [handler EXCEPT ![h] = NoRequest]
      BY <2>1 DEF Answer
    <3>2. NoRequest \in HandlerState /\ NoRequest.pc # "resolved"
      BY DEF HandlerState, NoRequest
    <3> QED BY <3>1, <3>2
  <2>2. CASE Len(handler[h].todo) # 1
    <3>1. Tail(handler[h].todo) \in BoundedBatches
      BY <2>2, AtWork, BatchFacts
    <3>2. handler' = [handler EXCEPT ![h] =
             [NoRequest EXCEPT !.pc = "ready", !.todo = Tail(handler[h].todo)]]
      BY <2>2 DEF Answer
    <3> QED BY <3>1, <3>2, ReadyFacts
  <2> QED BY <2>1, <2>2
<1> QED BY <1>1, <1>2

LEMMA WebhookInvInit == WebhookInit => WebhookInv
<1> SUFFICES ASSUME WebhookInit PROVE WebhookInv
  OBVIOUS
<1>1. WebhookTypeOK
  BY RankFacts DEF WebhookInit, WebhookTypeOK, Status
<1>2. RowInv /\ PendingInv /\ ComposedInv
  BY DEF WebhookInit, RowInv, PendingInv, ComposedInv
<1>3. CapturedInv /\ LookupInv
  BY DEF WebhookInit, CapturedInv, LookupInv, NoRequest
<1>4. StatusIsWitnessed
  BY DEF WebhookInit, StatusIsWitnessed, Captured, HasReport, Reported
<1> QED BY <1>1, <1>2, <1>3, <1>4 DEF WebhookInv

-----------------------------------------------------------------------------
(***************************************************************************)
(* A request begins: composeEmail's as the only one on its message, a      *)
(* reviewer's on a held one.                                               *)
(***************************************************************************)
LEMMA BeginStep ==
    ASSUME WebhookInv, NEW a \in Attempts,
           BeginSend(a) \/ PlanApproval(a) \/ PlanRejection(a)
    PROVE  WebhookInv'
<1>1. PICK stage \in {"sending", "rejecting"} :
          /\ request' = [request EXCEPT ![a] = stage]
          /\ stage = "rejecting" => inbox[MessageOf[a]] = "PENDING"
          /\ UNCHANGED <<msg, inbox, atEngine, captured, handler>>
  BY DEF BeginSend, PlanApproval, PlanRejection
<1>2. request[a] = "idle"
  BY DEF BeginSend, PlanApproval, PlanRejection
<1>3. inbox[MessageOf[a]] # "PENDING" =>
         \A b \in Attempts : MessageOf[b] = MessageOf[a] => request[b] = "idle"
  BY DEF BeginSend, PlanApproval, PlanRejection
<1>4. /\ request' \in [Attempts -> {"idle", "sending", "rejecting", "done"}]
      /\ request'[a] = stage
      /\ \A b \in Attempts \ {a} : request'[b] = request[b]
  BY <1>1 DEF WebhookInv, WebhookTypeOK
<1>5. WebhookTypeOK'
  BY <1>1, <1>4 DEF WebhookInv, WebhookTypeOK
<1>6. \A b \in Attempts : Seen(b) => Seen(b)'
  BY <1>1, <1>2, <1>4 DEF Seen
<1>7. RowInv' /\ PendingInv'
  <2>1. \A m \in Msgs : msg[m].providerMessageId \in Attempts \cup {NoAttempt}
    BY DEF WebhookInv, WebhookTypeOK
  <2> QED BY <1>1, <1>2, <1>4, <2>1 DEF WebhookInv, RowInv, PendingInv
<1>8. ComposedInv'
  <2> SUFFICES ASSUME NEW m \in Msgs, inbox[m] = "none"
               PROVE  /\ \A b, c \in Attempts :
                            (/\ MessageOf[b] = m /\ request'[b] # "idle"
                             /\ MessageOf[c] = m /\ request'[c] # "idle") => b = c
                      /\ \A b \in Attempts : MessageOf[b] = m => request'[b] # "rejecting"
                      /\ (\A b \in Attempts : MessageOf[b] = m => request'[b] # "done") =>
                            msg[m].status = "QUEUED"
                      /\ msg[m].status # "REJECTED"
    BY <1>1 DEF ComposedInv
  <2>1. CASE MessageOf[a] # m
    BY <1>4, <2>1 DEF WebhookInv, ComposedInv
  <2>2. CASE MessageOf[a] = m
    <3>1. /\ \A b \in Attempts \ {a} : MessageOf[b] = m => request'[b] = "idle"
          /\ request'[a] = "sending"
      BY <1>1, <1>3, <1>4, <2>2
    <3>2. msg[m].status = "QUEUED"
      <4>1. \A b \in Attempts : MessageOf[b] = m => request[b] # "done"
        BY <1>2, <1>4, <3>1
      <4> QED BY <4>1 DEF WebhookInv, ComposedInv
    <3> QED BY <3>1, <3>2
  <2> QED BY <2>1, <2>2
<1>9. CapturedInv' /\ LookupInv'
  <2>1. \A e \in Events : e.of \in Attempts
    BY EventAssumption
  <2>2. captured \subseteq Events
    BY DEF WebhookInv, WebhookTypeOK
  <2>3. CapturedInv'
    BY <1>1, <1>6, <2>1, <2>2 DEF WebhookInv, CapturedInv
  <2>4. LookupInv'
    <3> SUFFICES ASSUME NEW h \in Handlers, NEW e \in Events,
                        handler[h].pc = "resolved", Head(handler[h].todo) = e
                 PROVE  Reading(h, e.of)'
      BY <1>1 DEF LookupInv
    <3>1. Reading(h, e.of) /\ Seen(e.of)'
      BY <1>6, <2>1 DEF WebhookInv, LookupInv, Reading
    <3> QED BY <1>1, <3>1 DEF Reading
  <2> QED BY <2>3, <2>4
<1>10. StatusIsWitnessed'
  BY <1>1 DEF WebhookInv, StatusIsWitnessed, Captured, HasReport
<1> QED BY <1>5, <1>7, <1>8, <1>9, <1>10 DEF WebhookInv

(***************************************************************************)
(* A request that stands open has had no record of its copy reach us, and  *)
(* on composed mail none of any copy.                                      *)
(***************************************************************************)
LEMMA OpenUnseen ==
    ASSUME WebhookInv, NEW a \in Attempts, request[a] \in {"sending", "rejecting"},
           NEW b \in Attempts, Seen(b)
    PROVE  b # a /\ (MessageOf[b] = MessageOf[a] => inbox[MessageOf[a]] # "none")
<1>1. b # a /\ MessageOf[a] \in Msgs
  BY AttemptAssumption DEF Seen
<1> QED BY <1>1 DEF Seen, WebhookInv, ComposedInv

(***************************************************************************)
(* A request settles: it writes its row by id, with a status and an id of  *)
(* its own or, rejecting, with the id that is there.                       *)
(***************************************************************************)
LEMMA SettleStep ==
    ASSUME WebhookInv, NEW a \in Attempts, NEW m \in Msgs, m = MessageOf[a],
           request[a] \in {"sending", "rejecting"},
           NEW after \in [status : Status, providerMessageId : Attempts \cup {NoAttempt}],
           NEW item \in {"none", "PENDING", "APPROVED", "REJECTED"},
           msg' = [msg EXCEPT ![m] = after],
           inbox' = [inbox EXCEPT ![m] = item],
           request' = [request EXCEPT ![a] = "done"],
           UNCHANGED <<atEngine, captured, handler>>,
           item = "none" <=> inbox[m] = "none",
           item = "PENDING" => inbox[m] = "PENDING",
           \/ /\ after.status = "SENT" /\ after.providerMessageId = a
              /\ item # "PENDING"
           \/ after.status = "FAILED" /\ after.providerMessageId = NoAttempt
           \/ /\ after.status = "REJECTED" /\ item = "REJECTED"
              /\ after.providerMessageId = msg[m].providerMessageId
    PROVE  WebhookInv'
<1>1. /\ msg'[m] = after /\ \A q \in Msgs \ {m} : msg'[q] = msg[q]
      /\ inbox'[m] = item /\ \A q \in Msgs \ {m} : inbox'[q] = inbox[q]
      /\ request'[a] = "done" /\ \A b \in Attempts \ {a} : request'[b] = request[b]
  BY DEF WebhookInv, WebhookTypeOK
<1>2. WebhookTypeOK'
  BY RankFacts DEF WebhookInv, WebhookTypeOK
<1>3. RowInv'
  <2> SUFFICES ASSUME NEW q \in Msgs, msg'[q].providerMessageId # NoAttempt
               PROVE  /\ request'[msg'[q].providerMessageId] = "done"
                      /\ MessageOf[msg'[q].providerMessageId] = q
                      /\ msg'[q].status \in {"SENT", "REJECTED"} \cup Reported
    BY DEF RowInv
  <2>1. msg[q].providerMessageId \in Attempts \cup {NoAttempt}
    BY DEF WebhookInv, WebhookTypeOK
  <2>2. CASE q # m
    BY <1>1, <2>1, <2>2 DEF WebhookInv, RowInv
  <2>3. CASE q = m
    BY <1>1, <2>1, <2>3 DEF WebhookInv, RowInv
  <2> QED BY <2>2, <2>3
<1>4. PendingInv'
  <2>1. item = "PENDING" => after.status = "FAILED" /\ after.providerMessageId = NoAttempt
    OBVIOUS
  <2> QED BY <1>1, <2>1 DEF WebhookInv, PendingInv
<1>5. ComposedInv'
  <2> SUFFICES ASSUME NEW q \in Msgs, inbox'[q] = "none"
               PROVE  /\ \A b, c \in Attempts :
                            (/\ MessageOf[b] = q /\ request'[b] # "idle"
                             /\ MessageOf[c] = q /\ request'[c] # "idle") => b = c
                      /\ \A b \in Attempts : MessageOf[b] = q => request'[b] # "rejecting"
                      /\ (\A b \in Attempts : MessageOf[b] = q => request'[b] # "done") =>
                            msg'[q].status = "QUEUED"
                      /\ msg'[q].status # "REJECTED"
    BY DEF ComposedInv
  <2>1. CASE q # m
    BY <1>1, <2>1 DEF WebhookInv, ComposedInv
  <2>2. CASE q = m
    <3>1. inbox[m] = "none" /\ after.status # "REJECTED"
      BY <1>1, <2>2
    <3>2. \A b \in Attempts \ {a} : MessageOf[b] = m => request'[b] = "idle"
      BY <1>1, <3>1 DEF WebhookInv, ComposedInv
    <3> QED BY <1>1, <2>2, <3>1, <3>2
  <2> QED BY <2>1, <2>2
<1>6. ASSUME NEW b \in Attempts, Seen(b) PROVE Seen(b)'
  <2>1. /\ b # a /\ MessageOf[b] \in Msgs
        /\ MessageOf[b] = m => inbox[m] # "none"
    BY <1>6, OpenUnseen, AttemptAssumption
  <2> QED BY <1>1, <1>6, <2>1 DEF Seen
<1>7. CapturedInv'
  <2>1. \A e \in captured : e.of \in Attempts
    BY EventAssumption DEF WebhookInv, WebhookTypeOK
  <2> QED BY <1>6, <2>1 DEF WebhookInv, CapturedInv
<1>8. LookupInv'
  <2> SUFFICES ASSUME NEW h \in Handlers, NEW e \in Events,
                      handler[h].pc = "resolved", Head(handler[h].todo) = e
               PROVE  Reading(h, e.of)'
    BY DEF LookupInv
  <2>1. e.of \in Attempts /\ MessageOf[e.of] \in Msgs
    BY EventAssumption, AttemptAssumption
  <2>2. Reading(h, e.of)
    BY DEF WebhookInv, LookupInv
  <2>3. e.of # a /\ Seen(e.of)'
    BY <1>6, <2>1, <2>2, OpenUnseen DEF Reading
  <2> QED BY <1>1, <2>1, <2>2, <2>3 DEF Reading
<1>9. StatusIsWitnessed'
  <2>1. \A e \in captured : e.of \in Attempts /\ Seen(e.of)
    BY EventAssumption DEF WebhookInv, WebhookTypeOK, CapturedInv
  <2>2. ~HasReport(a) /\ ~HasReport(NoAttempt)
    BY <2>1, OpenUnseen, AttemptAssumption DEF HasReport
  <2>3. inbox[m] = "none" => ~Captured(m, "Delivery") /\ ~Captured(m, "Bounce")
    BY <2>1, OpenUnseen DEF Captured
  <2>4. \A q : /\ HasReport(q)' <=> HasReport(q)
               /\ Captured(q, "Delivery")' <=> Captured(q, "Delivery")
               /\ Captured(q, "Bounce")' <=> Captured(q, "Bounce")
    BY DEF HasReport, Captured
  <2> SUFFICES ASSUME NEW q \in Msgs
               PROVE  /\ msg'[q].status = "DELIVERED" => Captured(q, "Delivery")
                      /\ msg'[q].status = "BOUNCED" => Captured(q, "Bounce")
                      /\ HasReport(msg'[q].providerMessageId) =>
                            \/ msg'[q].status \in Reported
                            \/ msg'[q].status = "REJECTED" /\ inbox'[q] # "none"
                      /\ inbox'[q] = "none" /\ (Captured(q, "Delivery") \/ Captured(q, "Bounce"))
                            => msg'[q].status \in Reported
    BY <2>4 DEF StatusIsWitnessed
  <2>5. CASE q # m
    BY <1>1, <2>5 DEF WebhookInv, StatusIsWitnessed
  <2>6. CASE q = m
    BY <1>1, <2>2, <2>3, <2>6
  <2> QED BY <2>5, <2>6
<1> QED BY <1>2, <1>3, <1>4, <1>5, <1>7, <1>8, <1>9 DEF WebhookInv

LEMMA StampStep ==
    ASSUME WebhookInv, NEW a \in Attempts, NEW accepted \in BOOLEAN,
           SettleSend(a, accepted)
    PROVE  WebhookInv'
<1>1. PICK m \in Msgs : m = MessageOf[a]
  BY AttemptAssumption
<1> DEFINE after == [status |-> IF accepted THEN "SENT" ELSE "FAILED",
                     providerMessageId |-> IF accepted THEN a ELSE NoAttempt]
           item == IF accepted /\ inbox[m] # "none" THEN "APPROVED" ELSE inbox[m]
<1>2. /\ request[a] = "sending"
      /\ msg' = [msg EXCEPT ![m] = after] /\ inbox' = [inbox EXCEPT ![m] = item]
      /\ request' = [request EXCEPT ![a] = "done"]
      /\ UNCHANGED <<atEngine, captured, handler>>
  BY <1>1 DEF SettleSend, StampSendResult
<1>3. inbox[m] \in {"none", "PENDING", "APPROVED", "REJECTED"}
  BY DEF WebhookInv, WebhookTypeOK
<1>4. /\ after \in [status : Status, providerMessageId : Attempts \cup {NoAttempt}]
      /\ item \in {"none", "PENDING", "APPROVED", "REJECTED"}
      /\ item = "none" <=> inbox[m] = "none"
      /\ item = "PENDING" => inbox[m] = "PENDING"
      /\ \/ /\ after.status = "SENT" /\ after.providerMessageId = a
            /\ item # "PENDING"
         \/ after.status = "FAILED" /\ after.providerMessageId = NoAttempt
  BY <1>3 DEF Status
<1> HIDE DEF after, item
<1> QED BY <1>1, <1>2, <1>4, SettleStep

(***************************************************************************)
(* A rejection keeps its row's id, and is of held mail.                    *)
(***************************************************************************)
LEMMA MarkRejectedFacts ==
    ASSUME WebhookInv, NEW a \in Attempts, NEW m \in Msgs, m = MessageOf[a], MarkRejected(a)
    PROVE  /\ request[a] = "rejecting" /\ inbox[m] # "none"
           /\ \E after \in [status : Status, providerMessageId : Attempts \cup {NoAttempt}] :
                 /\ after.status = "REJECTED"
                 /\ after.providerMessageId = msg[m].providerMessageId
                 /\ msg' = [msg EXCEPT ![m] = after]
<1>1. request[a] = "rejecting" /\ inbox[m] # "none"
  BY DEF MarkRejected, WebhookInv, ComposedInv
<1>2. msg \in [Msgs -> [status : Status, providerMessageId : Attempts \cup {NoAttempt}]]
  BY RankFacts DEF WebhookInv, WebhookTypeOK
<1> DEFINE after == [status |-> "REJECTED", providerMessageId |-> msg[m].providerMessageId]
<1>3. msg' = [msg EXCEPT ![m] = after]
  <2>1. msg' = [msg EXCEPT ![m].status = "REJECTED"]
    BY DEF MarkRejected
  <2>2. [msg[m] EXCEPT !.status = "REJECTED"] = after
    BY <1>2
  <2> QED BY <1>2, <2>1, <2>2
<1>4. after \in [status : Status, providerMessageId : Attempts \cup {NoAttempt}]
  BY <1>2 DEF Status
<1>5. after.status = "REJECTED" /\ after.providerMessageId = msg[m].providerMessageId
  OBVIOUS
<1> HIDE DEF after
<1> QED BY <1>1, <1>3, <1>4, <1>5

LEMMA MarkRejectedStep ==
    ASSUME WebhookInv, NEW a \in Attempts, MarkRejected(a)
    PROVE  WebhookInv'
<1>1. PICK m \in Msgs : m = MessageOf[a]
  BY AttemptAssumption
<1>2. request[a] = "rejecting" /\ inbox[m] # "none"
  BY <1>1, MarkRejectedFacts
<1>3. PICK after \in [status : Status, providerMessageId : Attempts \cup {NoAttempt}] :
          /\ after.status = "REJECTED"
          /\ after.providerMessageId = msg[m].providerMessageId
          /\ msg' = [msg EXCEPT ![m] = after]
  BY <1>1, MarkRejectedFacts
<1>4. /\ inbox' = [inbox EXCEPT ![m] = "REJECTED"]
      /\ request' = [request EXCEPT ![a] = "done"]
      /\ UNCHANGED <<atEngine, captured, handler>>
  BY <1>1 DEF MarkRejected
<1> QED BY <1>1, <1>2, <1>3, <1>4, SettleStep

(***************************************************************************)
(* A request that changes no row: posted, answered or dead.                *)
(***************************************************************************)
LEMMA QuietStep ==
    ASSUME WebhookInv, UNCHANGED <<msg, inbox, request, atEngine, captured>>,
           NEW h \in Handlers,
           handler' \in [Handlers -> HandlerState],
           \A g \in Handlers \ {h} : handler'[g] = handler[g],
           handler'[h].pc # "resolved"
    PROVE  WebhookInv'
<1>1. WebhookTypeOK'
  BY RankFacts DEF WebhookInv, WebhookTypeOK, HandlerState
<1>2. RowInv' /\ PendingInv' /\ ComposedInv' /\ CapturedInv'
  BY DEF WebhookInv, RowInv, PendingInv, ComposedInv, CapturedInv, Seen
<1>3. LookupInv'
  BY DEF WebhookInv, LookupInv, Reading, Seen
<1>4. StatusIsWitnessed'
  BY DEF WebhookInv, StatusIsWitnessed, Captured, HasReport
<1> QED BY <1>1, <1>2, <1>3, <1>4 DEF WebhookInv

(***************************************************************************)
(* The lookup reads a row that holds the record's id.                      *)
(***************************************************************************)
LEMMA ResolveStep ==
    ASSUME WebhookInv, NEW h \in Handlers, Resolve(h)
    PROVE  WebhookInv'
<1>1. PICK e \in Events : /\ e = Head(handler[h].todo) /\ e.of \in Attempts
                          /\ MessageOf[e.of] \in Msgs
  BY AtWork DEF Resolve, WebhookInv
<1>2. UNCHANGED <<msg, inbox, request, atEngine, captured>> /\ handler[h].pc = "ready"
  BY DEF Resolve
<1>3. CASE msg[MessageOf[e.of]].providerMessageId # e.of
  <2>1. Answer(h)
    BY <1>1, <1>3 DEF Resolve
  <2> QED BY <1>2, <2>1, AnswerFacts, QuietStep DEF WebhookInv
<1>4. CASE msg[MessageOf[e.of]].providerMessageId = e.of
  <2>1. handler' = [handler EXCEPT ![h].pc = "resolved",
                                   ![h].before = msg[MessageOf[e.of]].status]
    BY <1>1, <1>4 DEF Resolve
  <2>2. handler[h] \in [pc : {"ready"}, todo : BoundedBatches, before : {"none"}]
    BY <1>2 DEF WebhookInv, WebhookTypeOK, NoRequest
  <2>3. /\ request[e.of] = "done"
        /\ msg[MessageOf[e.of]].status \in {"SENT", "REJECTED"} \cup Reported
        /\ inbox[MessageOf[e.of]] # "PENDING"
    BY <1>1, <1>4, AttemptAssumption DEF WebhookInv, RowInv, PendingInv
  <2>4. /\ handler'[h].pc = "resolved" /\ handler'[h].before = msg[MessageOf[e.of]].status
        /\ handler'[h].todo = handler[h].todo
        /\ handler'[h] \in [pc : {"resolved"}, todo : BoundedBatches, before : Status]
        /\ \A g \in Handlers \ {h} : handler'[g] = handler[g]
        /\ DOMAIN handler' = Handlers
        /\ handler' = [g \in Handlers |-> IF g = h THEN handler'[h] ELSE handler[g]]
    BY <2>1, <2>2, <2>3 DEF WebhookInv, WebhookTypeOK, Status, Reported
  <2>5. WebhookTypeOK'
    BY <1>2, <2>1, <2>4, RankFacts DEF WebhookInv, WebhookTypeOK
  <2>6. LookupInv'
    <3>1. Reading(h, e.of)'
      BY <1>2, <1>4, <2>3, <2>4 DEF Seen, Reading
    <3>2. \A g \in Handlers \ {h}, f \in Events : Reading(g, f.of) => Reading(g, f.of)'
      BY <1>2, <2>4 DEF Reading, Seen
    <3> QED BY <1>1, <2>4, <3>1, <3>2 DEF WebhookInv, LookupInv
  <2>7. RowInv' /\ PendingInv' /\ ComposedInv' /\ CapturedInv'
    BY <1>2 DEF WebhookInv, RowInv, PendingInv, ComposedInv, CapturedInv, Seen
  <2>8. StatusIsWitnessed'
    BY <1>2 DEF WebhookInv, StatusIsWitnessed, Captured, HasReport
  <2> QED BY <2>5, <2>6, <2>7, <2>8 DEF WebhookInv
<1> QED BY <1>3, <1>4

(***************************************************************************)
(* What the transaction writes: nothing, or the record's target on its row. *)
(***************************************************************************)
LEMMA RecordFacts ==
    ASSUME WebhookInv, NEW h \in Handlers, RecordEngagementEvent(h),
           NEW e \in Events, e = Head(handler[h].todo), NEW m \in Msgs, m = MessageOf[e.of]
    PROVE  /\ Seen(e.of) /\ UNCHANGED <<inbox, request, atEngine>>
           /\ handler[h].pc = "resolved" /\ handler'[h].pc # "resolved"
           /\ handler' \in [Handlers -> HandlerState]
           /\ \A g \in Handlers \ {h} : handler'[g] = handler[g]
           /\ msg' \in [Msgs -> [status : Status,
                                 providerMessageId : Attempts \cup {NoAttempt}]]
           /\ \A q \in Msgs \ {m} : msg'[q] = msg[q]
           /\ msg'[m].providerMessageId = msg[m].providerMessageId
           /\ \/ msg' = msg /\ captured' = captured
              \/ /\ captured' = captured \cup {e}
                 /\ \/ /\ msg' = msg
                       /\ ~ShouldAdvanceStatus(handler[h].before, StatusTarget(e.type))
                    \/ /\ ShouldAdvanceStatus(handler[h].before, StatusTarget(e.type))
                       /\ msg'[m].status = StatusTarget(e.type)
                       /\ msg'[m].status \in Reported
<1>1. /\ handler[h].pc = "resolved" /\ UNCHANGED <<inbox, request, atEngine>>
      /\ Answer(h)
  BY DEF RecordEngagementEvent
<1>2. /\ handler' \in [Handlers -> HandlerState] /\ handler'[h].pc # "resolved"
      /\ \A g \in Handlers \ {h} : handler'[g] = handler[g]
  BY <1>1, AnswerFacts DEF WebhookInv
<1>3. Seen(e.of)
  BY <1>1 DEF WebhookInv, LookupInv, Reading
<1>4. msg \in [Msgs -> [status : Status, providerMessageId : Attempts \cup {NoAttempt}]]
  BY RankFacts DEF WebhookInv, WebhookTypeOK
<1>5. \/ msg' = msg /\ captured' = captured
      \/ /\ captured' = captured \cup {e}
         /\ ~ShouldAdvanceStatus(handler[h].before, StatusTarget(e.type)) /\ msg' = msg
      \/ /\ captured' = captured \cup {e}
         /\ ShouldAdvanceStatus(handler[h].before, StatusTarget(e.type))
         /\ msg' = [msg EXCEPT ![m].status = StatusTarget(e.type)]
  BY Zenon DEF RecordEngagementEvent
<1>6. ShouldAdvanceStatus(handler[h].before, StatusTarget(e.type)) =>
          StatusTarget(e.type) \in Reported
  BY DEF ShouldAdvanceStatus, StatusTarget, Reported
<1>7. CASE msg' = msg
  BY <1>1, <1>2, <1>3, <1>4, <1>5, <1>6, <1>7
<1>8. CASE /\ captured' = captured \cup {e}
           /\ ShouldAdvanceStatus(handler[h].before, StatusTarget(e.type))
           /\ msg' = [msg EXCEPT ![m].status = StatusTarget(e.type)]
  <2>1. StatusTarget(e.type) \in Status
    BY <1>6, <1>8 DEF Status, Reported
  <2>2. PICK after \in [status : Status, providerMessageId : Attempts \cup {NoAttempt}] :
            /\ after.status = StatusTarget(e.type)
            /\ after.providerMessageId = msg[m].providerMessageId
            /\ msg' = [msg EXCEPT ![m] = after]
    <3> DEFINE new == [status |-> StatusTarget(e.type),
                       providerMessageId |-> msg[m].providerMessageId]
    <3>1. [msg[m] EXCEPT !.status = StatusTarget(e.type)] = new
      BY <1>4
    <3>2. msg' = [msg EXCEPT ![m] = new]
      BY <1>4, <1>8, <3>1
    <3>3. /\ new \in [status : Status, providerMessageId : Attempts \cup {NoAttempt}]
          /\ new.status = StatusTarget(e.type)
          /\ new.providerMessageId = msg[m].providerMessageId
      BY <1>4, <2>1
    <3> HIDE DEF new
    <3> QED BY <3>2, <3>3
  <2>3. /\ msg' \in [Msgs -> [status : Status,
                              providerMessageId : Attempts \cup {NoAttempt}]]
        /\ msg'[m] = after /\ \A q \in Msgs \ {m} : msg'[q] = msg[q]
    BY <1>4, <2>2
  <2> QED BY <1>1, <1>2, <1>3, <1>6, <1>8, <2>2, <2>3
<1> QED BY <1>5, <1>7, <1>8

(***************************************************************************)
(* The transaction captures the record and advances the row when its       *)
(* target is above what was read; while the row holds the id of the copy,  *)
(* a report leaves it reported or rejected.                                *)
(***************************************************************************)
LEMMA RecordStep ==
    ASSUME WebhookInv, NEW h \in Handlers, RecordEngagementEvent(h)
    PROVE  WebhookInv'
<1>1. PICK e \in Events : /\ e = Head(handler[h].todo) /\ e.of \in Attempts
                          /\ MessageOf[e.of] \in Msgs /\ e.type \in RecordType
  BY AtWork DEF RecordEngagementEvent, WebhookInv
<1>2. PICK m \in Msgs : m = MessageOf[e.of]
  BY <1>1
<1> DEFINE Wrote == /\ msg'[m].status = StatusTarget(e.type)
                    /\ msg'[m].status \in Reported
<1>3. /\ Seen(e.of) /\ UNCHANGED <<inbox, request, atEngine>>
      /\ handler[h].pc = "resolved" /\ handler'[h].pc # "resolved"
      /\ handler' \in [Handlers -> HandlerState]
      /\ \A g \in Handlers \ {h} : handler'[g] = handler[g]
      /\ msg' \in [Msgs -> [status : Status,
                            providerMessageId : Attempts \cup {NoAttempt}]]
      /\ \A q \in Msgs \ {m} : msg'[q] = msg[q]
      /\ msg'[m].providerMessageId = msg[m].providerMessageId
  BY <1>1, <1>2, RecordFacts
<1>4. \/ msg' = msg /\ captured' = captured
      \/ /\ captured' = captured \cup {e}
         /\ \/ /\ msg' = msg
               /\ ~ShouldAdvanceStatus(handler[h].before, StatusTarget(e.type))
            \/ Wrote
  BY <1>1, <1>2, RecordFacts
<1>5. CASE msg' = msg /\ captured' = captured
  BY <1>3, <1>5, QuietStep
<1>6. ASSUME captured' = captured \cup {e},
             \/ msg' = msg /\ ~ShouldAdvanceStatus(handler[h].before, StatusTarget(e.type))
             \/ Wrote
      PROVE  WebhookInv'
  <2>1. /\ handler[h].before \in {"SENT", "REJECTED"} \cup Reported
        /\ (msg[m].providerMessageId = e.of /\ handler[h].before # "SENT") =>
              msg[m].status # "SENT"
    BY <1>1, <1>2, <1>3 DEF WebhookInv, LookupInv, Reading
  <2>2. msg'[m].status = msg[m].status \/ Wrote
    BY <1>6
  <2>3. WebhookTypeOK'
    BY <1>1, <1>3, <1>6, RankFacts DEF WebhookInv, WebhookTypeOK, HandlerState
  <2>4. RowInv'
    BY <1>3, <2>2 DEF WebhookInv, RowInv
  <2>5. PendingInv'
    BY <1>2, <1>3 DEF WebhookInv, PendingInv, Seen
  <2>6. ComposedInv'
    <3> SUFFICES ASSUME NEW q \in Msgs, inbox[q] = "none"
                 PROVE  /\ \A a, b \in Attempts :
                              (/\ MessageOf[a] = q /\ request[a] # "idle"
                               /\ MessageOf[b] = q /\ request[b] # "idle") => a = b
                        /\ \A a \in Attempts : MessageOf[a] = q => request[a] # "rejecting"
                        /\ (\A a \in Attempts : MessageOf[a] = q => request[a] # "done") =>
                              msg'[q].status = "QUEUED"
                        /\ msg'[q].status # "REJECTED"
      BY <1>3 DEF ComposedInv
    <3>1. CASE q # m
      BY <1>3, <3>1 DEF WebhookInv, ComposedInv
    <3>2. CASE q = m
      <4>1. /\ \A a, b \in Attempts :
                  (/\ MessageOf[a] = q /\ request[a] # "idle"
                   /\ MessageOf[b] = q /\ request[b] # "idle") => a = b
            /\ \A a \in Attempts : MessageOf[a] = q => request[a] # "rejecting"
            /\ msg[q].status # "REJECTED"
        BY DEF WebhookInv, ComposedInv
      <4>2. MessageOf[e.of] = q /\ request[e.of] = "done"
        BY <1>2, <1>3, <3>2 DEF Seen
      <4>3. msg'[q].status # "REJECTED"
        BY <2>2, <3>2, <4>1 DEF Reported
      <4> QED BY <1>1, <4>1, <4>2, <4>3
    <3> QED BY <3>1, <3>2
  <2>7. \A a \in Attempts : Seen(a) => Seen(a)'
    BY <1>3, AttemptAssumption DEF Seen
  <2>8. CapturedInv'
    <3>1. \A f \in captured : f.of \in Attempts
      BY EventAssumption DEF WebhookInv, WebhookTypeOK
    <3> QED BY <1>1, <1>3, <1>6, <2>7, <3>1 DEF WebhookInv, CapturedInv
  <2>9. LookupInv'
    <3> SUFFICES ASSUME NEW g \in Handlers, NEW f \in Events,
                        handler'[g].pc = "resolved", Head(handler'[g].todo) = f
                 PROVE  Reading(g, f.of)'
      BY DEF LookupInv
    <3>1. g # h /\ handler'[g] = handler[g]
      BY <1>3
    <3>2. f.of \in Attempts /\ MessageOf[f.of] \in Msgs
      BY EventAssumption, AttemptAssumption
    <3>3. Reading(g, f.of) /\ Seen(f.of)'
      BY <2>7, <3>1, <3>2 DEF WebhookInv, LookupInv, Reading
    <3> QED BY <1>3, <2>2, <3>1, <3>2, <3>3 DEF Reading, Reported
  <2>10. StatusIsWitnessed'
    <3> DEFINE HasReportNow(a) ==
            \E f \in captured' : f.of = a /\ f.type \in {"Delivery", "Bounce"}
    <3> SUFFICES ASSUME NEW q \in Msgs
                 PROVE  /\ msg'[q].status = "DELIVERED" => Captured(q, "Delivery")'
                        /\ msg'[q].status = "BOUNCED" => Captured(q, "Bounce")'
                        /\ HasReportNow(msg[q].providerMessageId) =>
                              \/ msg'[q].status \in Reported
                              \/ msg'[q].status = "REJECTED" /\ inbox[q] # "none"
                        /\ (inbox[q] = "none" /\ (Captured(q, "Delivery")' \/ Captured(q, "Bounce")'))
                              => msg'[q].status \in Reported
      <4>1. \A q \in Msgs : msg'[q].providerMessageId = msg[q].providerMessageId
        BY <1>3
      <4> QED BY <1>3, <4>1 DEF StatusIsWitnessed, HasReport
    <3>1. \A type : Captured(q, type)' <=> Captured(q, type) \/ (m = q /\ e.type = type)
      BY <1>2, <1>6 DEF Captured
    <3>2. \A a : HasReportNow(a) <=>
                 HasReport(a) \/ (e.of = a /\ e.type \in {"Delivery", "Bounce"})
      BY <1>6 DEF HasReport
    <3>3. CASE q # m
      <4>1. e.of # msg[q].providerMessageId
        BY <1>1, <1>2, <3>3, AttemptAssumption DEF WebhookInv, RowInv
      <4> QED BY <1>3, <3>1, <3>2, <3>3, <4>1 DEF WebhookInv, StatusIsWitnessed, HasReport
    <3>4. CASE q = m
      <4>1. StatusTarget(e.type) =
                IF e.type = "Delivery" THEN "DELIVERED"
                ELSE IF e.type = "Bounce" THEN "BOUNCED" ELSE "none"
        BY DEF StatusTarget
      <4>2. /\ msg'[q].status = "DELIVERED" => Captured(q, "Delivery")'
            /\ msg'[q].status = "BOUNCED" => Captured(q, "Bounce")'
        BY <2>2, <3>1, <3>4, <4>1 DEF WebhookInv, StatusIsWitnessed
      <4>3. ASSUME e.type \in {"Delivery", "Bounce"}, msg[m].providerMessageId = e.of
            PROVE  \/ msg'[m].status \in Reported
                   \/ msg'[m].status = "REJECTED" /\ inbox[m] # "none"
        <5>1. msg[m].status \in {"SENT", "REJECTED"} \cup Reported
          BY <1>1, <4>3, AttemptAssumption DEF WebhookInv, RowInv
        <5>2. msg[m].status = "REJECTED" => inbox[m] # "none"
          BY DEF WebhookInv, ComposedInv
        <5>3. handler[h].before = "SENT" => Wrote
          BY <1>6, <4>1, <4>3, RankFacts DEF ShouldAdvanceStatus
        <5>4. handler[h].before # "SENT" => msg[m].status # "SENT"
          BY <2>1, <4>3
        <5> QED BY <2>2, <5>1, <5>2, <5>3, <5>4
      <4>4. HasReport(msg[q].providerMessageId) =>
                \/ msg'[q].status \in Reported
                \/ msg'[q].status = "REJECTED" /\ inbox[q] # "none"
        BY <2>2, <3>4 DEF WebhookInv, StatusIsWitnessed
      <4>5. HasReportNow(msg[q].providerMessageId) =>
                \/ msg'[q].status \in Reported
                \/ msg'[q].status = "REJECTED" /\ inbox[q] # "none"
        <5>1. \/ ~HasReportNow(msg[q].providerMessageId)
              \/ HasReport(msg[q].providerMessageId)
              \/ /\ e.of = msg[q].providerMessageId
                 /\ e.type \in {"Delivery", "Bounce"}
          BY <3>2
        <5> QED BY <3>4, <4>3, <4>4, <5>1
      <4>6. (inbox[q] = "none" /\ (Captured(q, "Delivery")' \/ Captured(q, "Bounce")'))
                => msg'[q].status \in Reported
        <5>1. CASE inbox[q] = "none" /\ (Captured(q, "Delivery") \/ Captured(q, "Bounce"))
          BY <2>2, <3>4, <5>1 DEF WebhookInv, StatusIsWitnessed
        <5>2. CASE inbox[q] = "none" /\ e.type \in {"Delivery", "Bounce"}
          <6>1. msg[m].providerMessageId = e.of
            BY <1>2, <1>3, <3>4, <5>2 DEF Seen
          <6> QED BY <3>4, <4>3, <5>2, <6>1
        <5> QED BY <3>1, <5>1, <5>2
      <4> QED BY <4>2, <4>5, <4>6
    <3> QED BY <3>3, <3>4
  <2> QED BY <2>3, <2>4, <2>5, <2>6, <2>8, <2>9, <2>10 DEF WebhookInv
<1> QED BY <1>4, <1>5, <1>6

LEMMA WebhookStepKeepsInv == WebhookInv /\ [WebhookNext]_webhook => WebhookInv'
<1> SUFFICES ASSUME WebhookInv, [WebhookNext]_webhook PROVE WebhookInv'
  OBVIOUS
<1>1. handler \in [Handlers -> HandlerState]
  BY RankFacts DEF WebhookInv, WebhookTypeOK, HandlerState
<1>2. ASSUME UNCHANGED <<msg, inbox, request, captured, handler>>,
             atEngine' \subseteq Attempts
      PROVE  WebhookInv'
  BY <1>2 DEF WebhookInv, WebhookTypeOK, RowInv, PendingInv, ComposedInv, CapturedInv,
              LookupInv, Reading, Seen, StatusIsWitnessed, Captured, HasReport
<1>3. ASSUME NEW a \in Attempts, EngineTakes(a) PROVE WebhookInv'
  BY <1>2, <1>3 DEF EngineTakes, WebhookInv, WebhookTypeOK
<1>4. CASE UNCHANGED webhook
  BY <1>2, <1>4 DEF webhook, WebhookInv, WebhookTypeOK
<1>5. ASSUME NEW h \in Handlers, NEW batch \in BoundedBatches, Post(h, batch) PROVE WebhookInv'
  <2>1. /\ handler' = [handler EXCEPT ![h] = [NoRequest EXCEPT !.pc = "ready", !.todo = batch]]
        /\ UNCHANGED <<msg, inbox, request, atEngine, captured>>
    BY <1>5 DEF Post
  <2>2. /\ handler' \in [Handlers -> HandlerState]
        /\ handler'[h].pc # "resolved"
        /\ \A g \in Handlers \ {h} : handler'[g] = handler[g]
    BY <1>1, <2>1, ReadyFacts
  <2> QED BY <2>1, <2>2, QuietStep
<1>6. ASSUME NEW h \in Handlers, Dies(h) PROVE WebhookInv'
  <2>1. /\ handler' \in [Handlers -> HandlerState]
        /\ handler'[h].pc # "resolved"
        /\ \A g \in Handlers \ {h} : handler'[g] = handler[g]
    BY <1>1, <1>6 DEF Dies, HandlerState, NoRequest
  <2> QED BY <1>6, <2>1, QuietStep DEF Dies
<1> QED BY <1>3, <1>4, <1>5, <1>6, BeginStep, StampStep, MarkRejectedStep, ResolveStep,
           RecordStep DEF WebhookNext

(***************************************************************************)
(* WebhookInv holds throughout sends, reviews and the capture of records.  *)
(***************************************************************************)
THEOREM WebhookInvariance == WebhookSpec => []WebhookInv
<1> QED BY WebhookInvInit, WebhookStepKeepsInv, PTL DEF WebhookSpec

(***************************************************************************)
(* Rows, records and requests keep their types.                            *)
(***************************************************************************)
THEOREM WebhookTypeCorrect == WebhookSpec => []WebhookTypeOK
<1>1. WebhookInv => WebhookTypeOK
  BY DEF WebhookInv
<1> QED BY <1>1, WebhookInvariance, PTL

(***************************************************************************)
(* recordEngagementEvent never claims a delivery or a bounce that no       *)
(* captured record reports; no report on the copy the row names is lost    *)
(* but to a rejection, and none on composed mail at all.                   *)
(***************************************************************************)
THEOREM StatusIsWitnessedHolds == WebhookSpec => []StatusIsWitnessed
<1>1. WebhookInv => StatusIsWitnessed
  BY DEF WebhookInv
<1> QED BY <1>1, WebhookInvariance, PTL

-----------------------------------------------------------------------------
(***************************************************************************)
(* The step by which a message regresses is the transaction of a request   *)
(* at work on it, whose read no longer shows the row, or settles a second  *)
(* verdict on it, held mail.                                               *)
(***************************************************************************)
LEMMA RegressesOnStaleRead ==
    ASSUME WebhookInv, WebhookNext, NEW m \in Msgs, Regresses(m)
    PROVE  StaleRead(m) \/ SecondVerdict(m)
<1>1. msg'[m] # msg[m] /\ msg[m].status \in Status
  <2>1. msg[m].status \in Status
    BY RankFacts DEF WebhookInv, WebhookTypeOK
  <2>2. STATUS_RANK[msg[m].status] \in Nat
    BY <2>1, RankFacts
  <2> QED BY <2>1, <2>2 DEF Regresses
<1>2. ASSUME NEW a \in Attempts, request[a] \in {"sending", "rejecting"},
             request' = [request EXCEPT ![a] = "done"],
             \A q \in Msgs \ {MessageOf[a]} : msg'[q] = msg[q],
             msg'[MessageOf[a]].status \in {"SENT", "FAILED", "REJECTED"}
      PROVE  SecondVerdict(m)
  <2>1. m = MessageOf[a]
    BY <1>1, <1>2
  <2>2. request'[a] = "done"
    BY <1>2 DEF WebhookInv, WebhookTypeOK
  <2>3. inbox[m] # "none"
    <3> SUFFICES ASSUME inbox[m] = "none" PROVE FALSE
      OBVIOUS
    <3>1. msg[m].status = "QUEUED"
      <4>1. \A b \in Attempts : MessageOf[b] = m /\ request[b] # "idle" => b = a
        BY <1>2, <2>1 DEF WebhookInv, ComposedInv
      <4>2. \A b \in Attempts : MessageOf[b] = m => request[b] # "done"
        BY <1>2, <4>1
      <4> QED BY <4>2 DEF WebhookInv, ComposedInv
    <3> QED BY <1>2, <2>1, <3>1, RankFacts DEF Regresses, Reported
  <2>4. CASE inbox[m] = "PENDING"
    <3>1. msg[m].status # "PENDING_APPROVAL"
      BY <1>2, <2>1, RankFacts DEF Regresses, Reported
    <3>2. msg[m].status = "FAILED"
      BY <2>4, <3>1 DEF WebhookInv, PendingInv
    <3> QED BY <1>2, <2>1, <2>2, <2>4, <3>2 DEF SecondVerdict
  <2>5. CASE inbox[m] \in {"APPROVED", "REJECTED"}
    BY <1>2, <2>1, <2>2, <2>5 DEF SecondVerdict
  <2> QED BY <2>3, <2>4, <2>5 DEF WebhookInv, WebhookTypeOK
<1>3. ASSUME NEW a \in Attempts, NEW accepted \in BOOLEAN, SettleSend(a, accepted)
      PROVE  SecondVerdict(m)
  <2>1. /\ request[a] = "sending" /\ request' = [request EXCEPT ![a] = "done"]
        /\ msg' = [msg EXCEPT ![MessageOf[a]] =
              [status |-> IF accepted THEN "SENT" ELSE "FAILED",
               providerMessageId |-> IF accepted THEN a ELSE NoAttempt]]
    BY <1>3 DEF SettleSend, StampSendResult
  <2>2. /\ \A q \in Msgs \ {MessageOf[a]} : msg'[q] = msg[q]
        /\ msg'[MessageOf[a]].status \in {"SENT", "FAILED", "REJECTED"}
    BY <2>1, AttemptAssumption DEF WebhookInv, WebhookTypeOK
  <2> QED BY <1>2, <2>1, <2>2
<1>4. ASSUME NEW a \in Attempts, MarkRejected(a)
      PROVE  SecondVerdict(m)
  <2>1. PICK q \in Msgs : q = MessageOf[a]
    BY AttemptAssumption
  <2>2. PICK after \in [status : Status, providerMessageId : Attempts \cup {NoAttempt}] :
            after.status = "REJECTED" /\ msg' = [msg EXCEPT ![q] = after]
    BY <1>4, <2>1, MarkRejectedFacts
  <2>3. request[a] = "rejecting" /\ request' = [request EXCEPT ![a] = "done"]
    BY <1>4 DEF MarkRejected
  <2>4. msg'[q].status = "REJECTED" /\ \A p \in Msgs \ {q} : msg'[p] = msg[p]
    BY <2>2 DEF WebhookInv, WebhookTypeOK
  <2> QED BY <1>2, <2>1, <2>3, <2>4
<1>5. ASSUME NEW h \in Handlers, RecordEngagementEvent(h)
      PROVE  StaleRead(m)
  <2>1. PICK e \in Events : /\ e = Head(handler[h].todo) /\ e.of \in Attempts
                            /\ MessageOf[e.of] \in Msgs
    BY <1>5, AtWork DEF RecordEngagementEvent, WebhookInv
  <2>2. PICK q \in Msgs : q = MessageOf[e.of]
    BY <2>1
  <2>3. handler[h].pc = "resolved" /\ handler'[h].pc # "resolved"
    BY <1>5, <2>1, <2>2, RecordFacts
  <2>4. /\ m = q /\ ShouldAdvanceStatus(handler[h].before, StatusTarget(e.type))
        /\ msg'[m].status = StatusTarget(e.type) /\ msg'[m].status \in Reported
    BY <1>1, <1>5, <2>1, <2>2, RecordFacts
  <2>5. handler[h].before # msg[m].status
    <3>1. STATUS_RANK[msg'[m].status] > STATUS_RANK[handler[h].before]
      BY <2>4 DEF ShouldAdvanceStatus
    <3>2. STATUS_RANK[msg'[m].status] < STATUS_RANK[msg[m].status]
      BY <2>4 DEF Regresses
    <3>3. STATUS_RANK[msg'[m].status] \in Nat /\ STATUS_RANK[msg[m].status] \in Nat
      BY <1>1, <2>4, RankFacts DEF Reported
    <3> QED BY <3>1, <3>2, <3>3
  <2> QED BY <2>1, <2>2, <2>3, <2>4, <2>5 DEF StaleRead
<1>6. ASSUME NEW a \in Attempts,
             BeginSend(a) \/ PlanApproval(a) \/ EngineTakes(a) \/ PlanRejection(a)
      PROVE  FALSE
  BY <1>1, <1>6 DEF BeginSend, PlanApproval, EngineTakes, PlanRejection
<1>7. ASSUME NEW h \in Handlers, Resolve(h) \/ Dies(h)
                                 \/ \E batch \in BoundedBatches : Post(h, batch)
      PROVE  FALSE
  BY <1>1, <1>7 DEF Resolve, Dies, Post
<1> QED BY <1>3, <1>4, <1>5, <1>6, <1>7 DEF WebhookNext

(***************************************************************************)
(* The unlocked read of recordEngagementEvent and a second verdict's stamp *)
(* by id are the only ways down the ladder.                                *)
(***************************************************************************)
THEOREM RegressesOnlyOnStaleReadHolds == WebhookSpec => RegressesOnlyOnStaleRead
<1>1. WebhookInv /\ [WebhookNext]_webhook
        => [\A m \in Msgs : Regresses(m) => StaleRead(m) \/ SecondVerdict(m)]_webhook
  BY RegressesOnStaleRead
<1> QED BY <1>1, WebhookInvariance, PTL DEF WebhookSpec, RegressesOnlyOnStaleRead

(***************************************************************************)
(* Where webhook requests do not overlap, a lookup of composed mail still  *)
(* shows the row when the transaction comes: its stamp is behind it.       *)
(***************************************************************************)
CurrentInv ==
    \A h \in Handlers : handler[h].pc = "resolved" =>
        LET m == MessageOf[Head(handler[h].todo).of]
        IN  inbox[m] = "none" => handler[h].before = msg[m].status

LEMMA CurrentStep ==
    ASSUME \A g, h \in Handlers : g = h,
           WebhookInv, CurrentInv, [WebhookNext]_webhook
    PROVE  CurrentInv'
<1> DEFINE Current(h) ==
        inbox'[MessageOf[Head(handler'[h].todo).of]] = "none" =>
            handler'[h].before = msg'[MessageOf[Head(handler'[h].todo).of]].status
<1> SUFFICES ASSUME NEW h \in Handlers, handler'[h].pc = "resolved"
             PROVE  Current(h)
  BY DEF CurrentInv
<1>1. ASSUME handler' = handler, msg' = msg, inbox' = inbox
      PROVE  Current(h)
  BY <1>1 DEF CurrentInv
<1>2. ASSUME NEW a \in Attempts, request[a] \in {"sending", "rejecting"}, handler' = handler,
             \A q \in Msgs \ {MessageOf[a]} : msg'[q] = msg[q] /\ inbox'[q] = inbox[q],
             inbox'[MessageOf[a]] = "none" => inbox[MessageOf[a]] = "none"
      PROVE  Current(h)
  <2>1. PICK b \in Attempts : /\ b = Head(handler[h].todo).of
                              /\ MessageOf[b] \in Msgs /\ Seen(b)
    BY <1>2, AtWork DEF WebhookInv, LookupInv, Reading
  <2>2. MessageOf[b] = MessageOf[a] => inbox[MessageOf[a]] # "none"
    BY <1>2, <2>1, OpenUnseen
  <2> QED BY <1>2, <2>1, <2>2 DEF CurrentInv
<1>3. ASSUME NEW a \in Attempts, NEW accepted \in BOOLEAN, SettleSend(a, accepted)
      PROVE  Current(h)
  <2>1. /\ request[a] = "sending" /\ handler' = handler
        /\ \A q \in Msgs \ {MessageOf[a]} : msg'[q] = msg[q] /\ inbox'[q] = inbox[q]
        /\ inbox'[MessageOf[a]] = "none" => inbox[MessageOf[a]] = "none"
    BY <1>3, AttemptAssumption DEF SettleSend, StampSendResult, WebhookInv, WebhookTypeOK
  <2> QED BY <1>2, <2>1
<1>4. ASSUME NEW a \in Attempts, MarkRejected(a)
      PROVE  Current(h)
  <2>1. /\ request[a] = "rejecting" /\ handler' = handler
        /\ \A q \in Msgs \ {MessageOf[a]} : msg'[q] = msg[q] /\ inbox'[q] = inbox[q]
        /\ inbox'[MessageOf[a]] = "none" => inbox[MessageOf[a]] = "none"
    BY <1>4, AttemptAssumption DEF MarkRejected, WebhookInv, WebhookTypeOK
  <2> QED BY <1>2, <2>1
<1>5. ASSUME NEW g \in Handlers, Resolve(g)
      PROVE  Current(h)
  <2>1. g = h /\ handler[h].pc = "ready" /\ msg' = msg /\ inbox' = inbox
    BY <1>5 DEF Resolve
  <2>2. ~Answer(h)
    BY <2>1, AnswerFacts DEF WebhookInv
  <2>3. handler' = [handler EXCEPT ![h].pc = "resolved",
                       ![h].before = msg[MessageOf[Head(handler[h].todo).of]].status]
    BY <1>5, <2>1, <2>2 DEF Resolve
  <2>4. handler[h] \in [pc : {"ready"}, todo : BoundedBatches, before : {"none"}]
    BY <2>1 DEF WebhookInv, WebhookTypeOK, NoRequest
  <2>5. /\ handler'[h].todo = handler[h].todo
        /\ handler'[h].before = msg[MessageOf[Head(handler[h].todo).of]].status
    BY <2>3, <2>4 DEF WebhookInv, WebhookTypeOK
  <2> QED BY <2>1, <2>5
<1>6. ASSUME NEW g \in Handlers, RecordEngagementEvent(g) PROVE FALSE
  <2>1. handler'[g].pc # "resolved"
    BY <1>6, AnswerFacts DEF RecordEngagementEvent, WebhookInv
  <2> QED BY <2>1
<1>7. ASSUME NEW g \in Handlers, Dies(g) \/ \E batch \in BoundedBatches : Post(g, batch)
      PROVE  FALSE
  <2>1. handler \in [Handlers -> HandlerState]
    BY RankFacts DEF WebhookInv, WebhookTypeOK, HandlerState
  <2>2. PICK after : after.pc # "resolved" /\ handler' = [handler EXCEPT ![g] = after]
    <3>1. NoRequest.pc # "resolved"
      BY DEF NoRequest
    <3> QED BY <1>7, <3>1, ReadyFacts DEF Dies, Post
  <2>3. handler'[g].pc # "resolved"
    BY <2>1, <2>2
  <2> QED BY <2>3
<1>8. ASSUME NEW a \in Attempts,
             BeginSend(a) \/ PlanApproval(a) \/ EngineTakes(a) \/ PlanRejection(a)
      PROVE  Current(h)
  BY <1>1, <1>8 DEF BeginSend, PlanApproval, EngineTakes, PlanRejection
<1> QED BY <1>1, <1>3, <1>4, <1>5, <1>6, <1>7, <1>8 DEF WebhookNext, webhook

(***************************************************************************)
(* STATUS_RANK is a ladder, "strictly up", for composed mail wherever      *)
(* webhook requests do not overlap: no order, repetition or death of them  *)
(* and no moment of the send's own stamp lowers a status or overwrites a   *)
(* report.  For mail no reviewer decides, the race RegressesOnlyOnStaleRead *)
(* admits is the only one there is.                                        *)
(***************************************************************************)
THEOREM LadderHoldsAlone ==
    ASSUME \A g, h \in Handlers : g = h
    PROVE  WebhookSpec => [][\A m \in Msgs : inbox[m] = "none" => ~Regresses(m)]_webhook
<1>1. WebhookInit => CurrentInv
  BY DEF WebhookInit, CurrentInv, NoRequest
<1>2. WebhookInv /\ CurrentInv /\ [WebhookNext]_webhook => CurrentInv'
  BY CurrentStep
<1>3. WebhookSpec => []CurrentInv
  BY <1>1, <1>2, WebhookInvariance, PTL DEF WebhookSpec
<1>4. WebhookInv /\ CurrentInv /\ [WebhookNext]_webhook
        => [\A m \in Msgs : inbox[m] = "none" => ~Regresses(m)]_webhook
  <2> SUFFICES ASSUME WebhookInv, CurrentInv, WebhookNext, NEW m \in Msgs, inbox[m] = "none",
                      Regresses(m)
               PROVE  FALSE
    OBVIOUS
  <2>1. StaleRead(m) \/ SecondVerdict(m)
    BY RegressesOnStaleRead
  <2>2. ~StaleRead(m)
    BY DEF StaleRead, CurrentInv
  <2>3. ~SecondVerdict(m)
    BY DEF SecondVerdict
  <2> QED BY <2>1, <2>2, <2>3
<1> QED BY <1>3, <1>4, WebhookInvariance, PTL DEF WebhookSpec
=============================================================================
