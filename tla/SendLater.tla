----------------------------- MODULE SendLater ------------------------------
(***************************************************************************)
(* Send-later and undo-send: scheduled_sends rows, the user's schedule and *)
(* cancel, and the sweep that claims due rows and composes them            *)
(* (backend/src/scheduling/scheduling.service.ts, scheduling.worker.ts).   *)
(*                                                                         *)
(* Every backend process runs one worker; its latch keeps it to one sweep  *)
(* at a time.  A sweep reads the clock once, reads the due rows, and then  *)
(* walks them one await at a time.  What composeEmail does to the message  *)
(* is the promise SendLane states: each row composes under its own tuple.  *)
(* A workspace pause, an unusable mailbox, a malformed payload and a       *)
(* failed transaction all end an attempt in the same way.                  *)
(***************************************************************************)
EXTENDS Naturals, FiniteSets

CONSTANTS
    Sends,      \* scheduled sends
    NoSend,     \* what a worker between rows is working on
    Workers,    \* backend processes running the sweep
    SendTimes,  \* times a user may schedule for
    ClaimTTL,   \* CLAIM_TTL_MS
    Take,       \* rows one sweep takes
    MaxClock    \* bound: the last tick

ASSUME SendsAssumption == NoSend \notin Sends

ASSUME TimesAssumption ==
    /\ MaxClock \in Nat /\ ClaimTTL \in Nat \ {0} /\ Take \in Nat \ {0}
    /\ SendTimes \subseteq 0..MaxClock

VARIABLES
    sched,   \* scheduled_sends rows
    worker,  \* what each worker's sweep holds in memory
    clock,
    lane, taken, left   \* the send lane, by scheduled send

lanes == <<lane, taken, left>>
vars == <<sched, worker, clock, lane, taken, left>>

Lane == INSTANCE SendLane WITH Refs <- Sends

-----------------------------------------------------------------------------
Terminal == {"SENT", "FAILED", "CANCELLED"}

NoRow == [state |-> "none", sendAt |-> 0, claimedAt |-> 0]

Row == [state : {"PENDING", "CLAIMED"} \cup Terminal,
        sendAt : SendTimes, claimedAt : 0..MaxClock]

\* A row as a sweep read it.
Read(s) == [id |-> s, state |-> sched[s].state, claimedAt |-> sched[s].claimedAt]

Idle == [pc |-> "idle", now |-> 0, todo |-> {}, at |-> NoSend,
         verdict |-> "none"]

\* A worker holds a row from its claim to the end of the attempt.
HoldingPc == {"claimed", "gated", "queued", "answered", "marking", "catching"}

Holding(w, s) == worker[w].pc \in HoldingPc /\ worker[w].at = s

WorkerState ==
    [pc : {"idle", "picking", "missed"} \cup HoldingPc, now : 0..MaxClock,
     todo : SUBSET [id : Sends, state : {"PENDING", "CLAIMED"}, claimedAt : 0..MaxClock],
     at : Sends \cup {NoSend}, verdict : {"none", "SENT", "FAILED"}]

TypeOK ==
    /\ sched \in [Sends -> Row \cup {NoRow}]
    /\ worker \in [Workers -> WorkerState]
    /\ clock \in 0..MaxClock
    /\ lane \in [Sends -> {"none", "queued", "sent", "failed"}]
    /\ taken \subseteq Sends
    /\ left \in [Sends -> 0..1]

Init ==
    /\ sched = [s \in Sends |-> NoRow]
    /\ worker = [w \in Workers |-> Idle]
    /\ clock = 0
    /\ Lane!LaneInit

-----------------------------------------------------------------------------
(***************************************************************************)
(* The user.                                                               *)
(***************************************************************************)
ScheduleSend(s, t) ==
    /\ sched[s] = NoRow
    /\ sched' = [sched EXCEPT ![s] = [state |-> "PENDING", sendAt |-> t, claimedAt |-> 0]]
    /\ UNCHANGED <<worker, clock, lanes>>

\* Mutant: the cancel trusts its read and updates by id.
CancelByAnyState(s) ==
    /\ sched[s].state \in {"PENDING", "CLAIMED"}
    /\ sched' = [sched EXCEPT ![s].state = "CANCELLED"]
    /\ UNCHANGED <<worker, clock, lanes>>

\* The write repeats the PENDING condition of the read before it.
CancelScheduledSend(s) ==
    /\ sched[s].state = "PENDING"
    /\ sched' = [sched EXCEPT ![s].state = "CANCELLED"]
    /\ UNCHANGED <<worker, clock, lanes>>

-----------------------------------------------------------------------------
(***************************************************************************)
(* fireDueScheduledSends.                                                  *)
(***************************************************************************)

\* Mutant: a claim that was never finished is not looked at again.
DueNoReclaim(s) == sched[s].state = "PENDING" /\ sched[s].sendAt <= clock

\* A pending row whose time has come, or a claim older than the TTL.
Due(s) ==
    \/ sched[s].state = "PENDING" /\ sched[s].sendAt <= clock
    \/ sched[s].state = "CLAIMED" /\ sched[s].claimedAt + ClaimTTL <= clock

\* The first Take of the due rows, earliest first.
Batches ==
    LET due == {s \in Sends : Due(s)}
    IN  {b \in SUBSET due :
            /\ \/ Cardinality(b) = Take
               \/ Cardinality(b) < Take /\ b = due
            /\ \A s \in b, q \in due \ b : sched[s].sendAt <= sched[q].sendAt}

\* The sweep takes its `now` and reads its rows.
Sweep(w) ==
    /\ worker[w].pc = "idle"
    /\ \E b \in Batches :
          /\ b # {}
          /\ worker' = [worker EXCEPT ![w] =
                [Idle EXCEPT !.pc = "picking", !.now = clock, !.todo = {Read(s) : s \in b}]]
    /\ UNCHANGED <<sched, clock, lanes>>

Step(w, pc, verdict) ==
    worker' = [worker EXCEPT ![w].pc = pc, ![w].verdict = verdict]

\* The earliest of the rows still to do.
First(w) ==
    {r \in worker[w].todo :
        \A q \in worker[w].todo : sched[r.id].sendAt <= sched[q.id].sendAt}

\* Mutant: the claim is guarded by the state alone.
ClaimableByState(r) == sched[r.id].state = r.state

\* The claim's guard: the exact state and, for a reclaim, the stamp it read.
Claimable(r) ==
    /\ sched[r.id].state = r.state
    /\ r.state = "CLAIMED" => sched[r.id].claimedAt = r.claimedAt

\* The claim is stamped with the sweep's `now`, not with the time it is made.
StampClaim(w, r) ==
    sched' = [sched EXCEPT ![r.id].state = "CLAIMED", ![r.id].claimedAt = worker[w].now]

Claim(w) ==
    /\ worker[w].pc = "picking"
    /\ \E r \in First(w) :
          IF Claimable(r)
          THEN /\ StampClaim(w, r)
               /\ worker' = [worker EXCEPT ![w].pc = "claimed", ![w].at = r.id,
                                ![w].todo = @ \ {r}]
          ELSE /\ worker' = [worker EXCEPT ![w].todo = @ \ {r}]
               /\ UNCHANGED sched
    /\ UNCHANGED <<clock, lanes>>

EndSweep(w) ==
    /\ worker[w].pc = "picking" /\ worker[w].todo = {}
    /\ worker' = [worker EXCEPT ![w] = Idle]
    /\ UNCHANGED <<sched, clock, lanes>>

\* composeEmail finds a message under the row's tuple, or none.  Only a
\* failed one reads as a failure: a queued message counts as sent.
ComposeRead(w) ==
    LET s == worker[w].at
    IN  /\ worker[w].pc = "claimed"
        /\ CASE lane[s] = "none"   -> Step(w, "gated", "none")
             [] lane[s] = "failed" -> Step(w, "marking", "FAILED")
             [] OTHER              -> Step(w, "marking", "SENT")
        /\ UNCHANGED <<sched, clock, lanes>>

\* The insert; it throws when another attempt's row got there first.
ComposeInsert(w) ==
    LET s == worker[w].at
    IN  /\ worker[w].pc = "gated"
        /\ \/ Lane!Accept(s) /\ Step(w, "queued", "none")
           \/ lane[s] # "none" /\ Step(w, "catching", "FAILED") /\ UNCHANGED lanes
        /\ UNCHANGED <<sched, clock>>

ComposeOffer(w) ==
    /\ worker[w].pc = "queued"
    /\ Lane!Offer(worker[w].at)
    /\ Step(w, "answered", "none")
    /\ UNCHANGED <<sched, clock>>

\* Mutant: the message's own status is handed on as the verdict.
ComposeSettleRaw(w) ==
    LET s == worker[w].at
    IN  /\ worker[w].pc = "answered"
        /\ Lane!Settle(s)
        /\ Step(w, "marking", lane'[s])
        /\ UNCHANGED <<sched, clock>>

ComposeSettle(w) ==
    LET s == worker[w].at
    IN  /\ worker[w].pc = "answered"
        /\ Lane!Settle(s)
        /\ Step(w, "marking", IF lane'[s] = "sent" THEN "SENT" ELSE "FAILED")
        /\ UNCHANGED <<sched, clock>>

\* Mutant: the verdict is written whatever the row says by now.
MarkAnyState(w, s, verdict) == sched' = [sched EXCEPT ![s].state = verdict]

MarkScheduledSend(w, s, verdict) ==
    IF sched[s].state = "CLAIMED"
    THEN sched' = [sched EXCEPT ![s].state = verdict]
    ELSE UNCHANGED sched

Mark(w) ==
    /\ worker[w].pc \in {"marking", "catching", "missed"}
    /\ MarkScheduledSend(w, worker[w].at, worker[w].verdict)
    /\ worker' = [worker EXCEPT ![w].pc = "picking", ![w].at = NoSend,
                                ![w].verdict = "none"]
    /\ UNCHANGED <<clock, lanes>>

WorkerStep(w) ==
    \/ Sweep(w) \/ Claim(w) \/ EndSweep(w)
    \/ ComposeRead(w) \/ ComposeInsert(w) \/ ComposeOffer(w) \/ ComposeSettle(w)
    \/ Mark(w)

-----------------------------------------------------------------------------
(***************************************************************************)
(* Faults.                                                                 *)
(***************************************************************************)

\* An unusable payload or mailbox, a paused workspace, a transaction or a
\* mark that fails: the attempt ends in a FAILED verdict.
Throws(w) ==
    /\ worker[w].pc \in {"claimed", "gated", "answered", "marking"}
    /\ Step(w, "catching", "FAILED")
    /\ UNCHANGED <<sched, clock, lanes>>

\* Faults that leave a row to a later sweep stop where the bound on the clock
\* would keep that sweep from coming.
MayStrand == clock + ClaimTTL <= MaxClock

\* The claim itself throws, before or after it took effect.  The worker holds
\* nothing it knows of, yet the catch marks the row it tried, whoever holds it.
ClaimThrows(w) ==
    /\ worker[w].pc = "picking" /\ MayStrand
    /\ \E r \in First(w) :
          /\ UNCHANGED sched \/ (Claimable(r) /\ StampClaim(w, r))
          /\ worker' = [worker EXCEPT ![w].pc = "missed", ![w].at = r.id,
                           ![w].todo = @ \ {r}, ![w].verdict = "FAILED"]
    /\ UNCHANGED <<clock, lanes>>

\* The mark of the failure fails too and is swallowed.
Swallowed(w) ==
    /\ worker[w].pc \in {"catching", "missed"} /\ MayStrand
    /\ worker' = [worker EXCEPT ![w].pc = "picking", ![w].at = NoSend,
                                ![w].verdict = "none"]
    /\ UNCHANGED <<sched, clock, lanes>>

\* The process dies and is started again.
Crash(w) ==
    /\ worker[w].pc # "idle" /\ MayStrand
    /\ worker' = [worker EXCEPT ![w] = Idle]
    /\ UNCHANGED <<sched, clock, lanes>>

Tick ==
    /\ clock < MaxClock
    /\ clock' = clock + 1
    /\ UNCHANGED <<sched, worker, lanes>>

Next ==
    \/ \E s \in Sends, t \in SendTimes : ScheduleSend(s, t)
    \/ \E s \in Sends : CancelScheduledSend(s)
    \/ \E w \in Workers : \/ WorkerStep(w) \/ Throws(w) \/ ClaimThrows(w)
                         \/ Swallowed(w) \/ Crash(w)
    \/ Tick

Spec == Init /\ [][Next]_vars

\* The interval timer restarts every process's sweep, every await returns
\* (the engine's calls time out), and time passes.
FairSpec == Spec /\ WF_vars(Tick) /\ \A w \in Workers : WF_vars(WorkerStep(w))

-----------------------------------------------------------------------------
(***************************************************************************)
(* Promises.                                                               *)
(***************************************************************************)

(***************************************************************************)
(* Undo works: a row the user was told is cancelled has no message, even   *)
(* when a sweep had already read it as due.                                *)
(***************************************************************************)
CancelledNeverLeaves ==
    \A s \in Sends : sched[s].state = "CANCELLED" => lane[s] = "none" /\ left[s] = 0

(***************************************************************************)
(* "Only one worker wins the race": two workers are at work on the same    *)
(* row only when one of them took over a claim that had outlived the TTL,  *)
(* whatever a worker whose claim threw marks beside them.                  *)
(***************************************************************************)
OneHolder ==
    \A s \in Sends, v, w \in Workers :
        (v # w /\ Holding(v, s) /\ Holding(w, s)) =>
            \/ worker[v].now + ClaimTTL <= worker[w].now
            \/ worker[w].now + ClaimTTL <= worker[v].now

(***************************************************************************)
(* The verdict the undo bar shows is final: a worker whose claim was taken *)
(* over and comes back late changes nothing.                               *)
(***************************************************************************)
TerminalIsFinal ==
    [][\A s \in Sends : sched[s].state \in Terminal => sched'[s] = sched[s]]_vars

(***************************************************************************)
(* No row is stranded: whatever dies between the claim and the verdict,    *)
(* every scheduled send reaches a terminal state.                          *)
(***************************************************************************)
SettlesEventually ==
    \A s \in Sends : (sched[s].state \in {"PENDING", "CLAIMED"})
                        ~> (sched[s].state \in Terminal)
=============================================================================
