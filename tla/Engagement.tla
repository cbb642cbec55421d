----------------------------- MODULE Engagement -----------------------------
(***************************************************************************)
(* The status of a message row and its two kinds of writers: the requests  *)
(* that send it (composeEmail, approveAgentInboxItem) or reject it         *)
(* (rejectAgentInboxItem), and the webhook (backend/src/webhooks), which   *)
(* captures the mail engine's records by recordEngagementEvent.            *)
(*                                                                         *)
(* A request stamps its row by id, whatever the row says by then.  The     *)
(* provider posts each record at least once, in any order, alone or in an  *)
(* array.  A webhook request reads the owning message in one statement and *)
(* records the event in a later transaction, whose unique index on the     *)
(* event id makes it atomic.  Everything runs concurrently, and a webhook  *)
(* request that dies is posted again.                                      *)
(***************************************************************************)
EXTENDS Naturals, Sequences

CONSTANTS
    Msgs,      \* message rows
    Attempts,  \* requests to send or to reject one; an attempt's name is also
               \* the provider's id of the copy it hands over
    NoAttempt, \* no provider id
    MessageOf, \* the message an attempt is about
    Events,    \* records, [of, type, id, at], of the copy of an attempt
    NoId,      \* the id of a record that carries none
    Handlers,  \* webhook requests in flight
    MaxBatch   \* bound: records in one request

RecordType == {"Delivery", "Open", "Click", "Bounce", "SpamComplaint",
               "SubscriptionChange"}

ASSUME AttemptAssumption ==
    MessageOf \in [Attempts -> Msgs] /\ NoAttempt \notin Attempts

ASSUME EventAssumption ==
    \A e \in Events : e.of \in Attempts /\ e.type \in RecordType

ASSUME MaxBatchAssumption == MaxBatch \in Nat \ {0}

VARIABLES
    msg,       \* email_messages rows, [status, providerMessageId]
    inbox,     \* the state of a message's agent_inbox_items row, "none" without one
    request,   \* where each attempt stands
    atEngine,  \* attempts whose copy the engine took
    captured,  \* email_engagement_events rows
    handler    \* what each webhook request holds in memory

webhook == <<msg, inbox, request, atEngine, captured, handler>>

-----------------------------------------------------------------------------
STATUS_RANK == [DRAFT |-> 0, PENDING_APPROVAL |-> 5, QUEUED |-> 10, SENT |-> 20,
                DELIVERED |-> 30, BOUNCED |-> 40, FAILED |-> 40, REJECTED |-> 40]

\* Mutant: the last record to arrive wins.
AdvanceAnyhow(current, incoming) == incoming # "none"

\* Strictly up the ladder; a record without a status moves nothing.
ShouldAdvanceStatus(current, incoming) ==
    incoming # "none" /\ STATUS_RANK[incoming] > STATUS_RANK[current]

\* Mutant: an open implies the delivery.
StatusTargetOpens(type) ==
    CASE type \in {"Delivery", "Open"} -> "DELIVERED"
      [] type = "Bounce" -> "BOUNCED"
      [] OTHER -> "none"

\* The status a record type implies, "none" for engagement only.
StatusTarget(type) ==
    CASE type = "Delivery" -> "DELIVERED"
      [] type = "Bounce" -> "BOUNCED"
      [] OTHER -> "none"

\* The dedupe key: the provider's id, or type, message and timestamp.
DeriveEventId(e) ==
    IF e.id # NoId THEN <<e.type, e.id>> ELSE <<e.type, e.of, e.at>>

NoRequest == [pc |-> "idle", todo |-> <<>>, before |-> "none"]

BoundedBatches == UNION {[1..n -> Events] : n \in 1..MaxBatch}

WebhookTypeOK ==
    /\ msg \in [Msgs -> [status : DOMAIN STATUS_RANK,
                         providerMessageId : Attempts \cup {NoAttempt}]]
    /\ inbox \in [Msgs -> {"none", "PENDING", "APPROVED", "REJECTED"}]
    /\ request \in [Attempts -> {"idle", "sending", "rejecting", "done"}]
    /\ atEngine \subseteq Attempts
    /\ captured \subseteq Events
    /\ handler \in [Handlers ->
           {NoRequest}
           \cup [pc : {"ready"}, todo : BoundedBatches, before : {"none"}]
           \cup [pc : {"resolved"}, todo : BoundedBatches, before : DOMAIN STATUS_RANK]]

\* Composed rows are queued; an agent's held drafts wait with their item.
WebhookInit ==
    /\ inbox \in [Msgs -> {"none", "PENDING"}]
    /\ msg = [m \in Msgs |->
          [status |-> IF inbox[m] = "none" THEN "QUEUED" ELSE "PENDING_APPROVAL",
           providerMessageId |-> NoAttempt]]
    /\ request = [a \in Attempts |-> "idle"]
    /\ atEngine = {}
    /\ captured = {}
    /\ handler = [h \in Handlers |-> NoRequest]

-----------------------------------------------------------------------------
\* composeEmail inserted the row and goes on to the engine, once.
BeginSend(a) ==
    /\ inbox[MessageOf[a]] = "none"
    /\ \A b \in Attempts : MessageOf[b] = MessageOf[a] => request[b] = "idle"
    /\ request' = [request EXCEPT ![a] = "sending"]
    /\ UNCHANGED <<msg, inbox, atEngine, captured, handler>>

\* An approval read the item pending; nothing keeps a second one out.
PlanApproval(a) ==
    /\ request[a] = "idle" /\ inbox[MessageOf[a]] = "PENDING"
    /\ request' = [request EXCEPT ![a] = "sending"]
    /\ UNCHANGED <<msg, inbox, atEngine, captured, handler>>

\* The engine takes the copy; its records may be posted from here on.
EngineTakes(a) ==
    /\ request[a] = "sending" /\ a \notin atEngine
    /\ atEngine' = atEngine \cup {a}
    /\ UNCHANGED <<msg, inbox, request, captured, handler>>

\* The engine's answer, on the row whatever it says: the provider's id with
\* an acceptance, none with a refusal or with an answer that was lost.
StampSendResult(m, a, accepted) ==
    msg' = [msg EXCEPT ![m] =
        [status |-> IF accepted THEN "SENT" ELSE "FAILED",
         providerMessageId |-> IF accepted THEN a ELSE NoAttempt]]

\* The send's last transaction; an approval's closes the item with an
\* acceptance and leaves it as it is with a refusal.
SettleSend(a, accepted) ==
    LET m == MessageOf[a]
    IN  /\ request[a] = "sending"
        /\ accepted => a \in atEngine
        /\ StampSendResult(m, a, accepted)
        /\ inbox' = [inbox EXCEPT ![m] =
              IF accepted /\ @ # "none" THEN "APPROVED" ELSE @]
        /\ request' = [request EXCEPT ![a] = "done"]
        /\ UNCHANGED <<atEngine, captured, handler>>

\* A rejection reads the item pending and later marks both rows by id.
PlanRejection(a) ==
    /\ request[a] = "idle" /\ inbox[MessageOf[a]] = "PENDING"
    /\ request' = [request EXCEPT ![a] = "rejecting"]
    /\ UNCHANGED <<msg, inbox, atEngine, captured, handler>>

MarkRejected(a) ==
    LET m == MessageOf[a]
    IN  /\ request[a] = "rejecting"
        /\ msg' = [msg EXCEPT ![m].status = "REJECTED"]
        /\ inbox' = [inbox EXCEPT ![m] = "REJECTED"]
        /\ request' = [request EXCEPT ![a] = "done"]
        /\ UNCHANGED <<atEngine, captured, handler>>

\* The provider posts records, whether or not it posted them before.
Post(h, batch) ==
    /\ handler[h].pc = "idle"
    /\ \A i \in DOMAIN batch : batch[i].of \in atEngine
    /\ handler' = [handler EXCEPT ![h] = [NoRequest EXCEPT !.pc = "ready", !.todo = batch]]
    /\ UNCHANGED <<msg, inbox, request, atEngine, captured>>

\* Mutant: what was read for one record is kept for the next.
AnswerKeepsRead(h) ==
    LET todo == handler[h].todo
    IN  handler' = [handler EXCEPT ![h] =
            IF Len(todo) = 1 THEN NoRequest
            ELSE [@ EXCEPT !.pc = "ready", !.todo = Tail(todo)]]

\* The record at the head is answered; the request goes on or ends.
Answer(h) ==
    LET todo == handler[h].todo
    IN  handler' = [handler EXCEPT ![h] =
            IF Len(todo) = 1 THEN NoRequest
            ELSE [NoRequest EXCEPT !.pc = "ready", !.todo = Tail(todo)]]

\* The privileged lookup by provider id, outside any transaction; a record
\* whose id is on no row is answered unmatched.
Resolve(h) ==
    LET e == Head(handler[h].todo)
        owner == msg[MessageOf[e.of]]
    IN  /\ handler[h].pc = "ready"
        /\ IF owner.providerMessageId = e.of
           THEN handler' = [handler EXCEPT ![h].pc = "resolved",
                                           ![h].before = owner.status]
           ELSE Answer(h)
        /\ UNCHANGED <<msg, inbox, request, atEngine, captured>>

\* The transaction: the event once per id, and the status the lookup's read
\* calls for, written by row id without reading it again.
RecordEngagementEvent(h) ==
    LET e == Head(handler[h].todo)
        target == StatusTarget(e.type)
        duplicate == \E f \in captured : DeriveEventId(f) = DeriveEventId(e)
    IN  /\ handler[h].pc = "resolved"
        /\ captured' = IF duplicate THEN captured ELSE captured \cup {e}
        /\ msg' = IF ~duplicate /\ ShouldAdvanceStatus(handler[h].before, target)
                  THEN [msg EXCEPT ![MessageOf[e.of]].status = target]
                  ELSE msg
        /\ Answer(h)
        /\ UNCHANGED <<inbox, request, atEngine>>

\* The request dies; the provider hears no answer for what is left of it.
Dies(h) ==
    /\ handler[h].pc # "idle"
    /\ handler' = [handler EXCEPT ![h] = NoRequest]
    /\ UNCHANGED <<msg, inbox, request, atEngine, captured>>

WebhookNext ==
    \/ \E a \in Attempts :
          \/ BeginSend(a) \/ PlanApproval(a) \/ EngineTakes(a)
          \/ \E accepted \in BOOLEAN : SettleSend(a, accepted)
          \/ PlanRejection(a) \/ MarkRejected(a)
    \/ \E h \in Handlers, batch \in BoundedBatches : Post(h, batch)
    \/ \E h \in Handlers : Resolve(h) \/ RecordEngagementEvent(h) \/ Dies(h)

WebhookSpec == WebhookInit /\ [][WebhookNext]_webhook

-----------------------------------------------------------------------------
(***************************************************************************)
(* Promises.                                                               *)
(***************************************************************************)

Reported == {"DELIVERED", "BOUNCED"}

Captured(m, type) == \E e \in captured : MessageOf[e.of] = m /\ e.type = type

\* A captured record reports on the copy of attempt a.
HasReport(a) == \E e \in captured : e.of = a /\ e.type \in {"Delivery", "Bounce"}

(***************************************************************************)
(* recordEngagementEvent and the stamps: a message reads DELIVERED or      *)
(* BOUNCED only on a record that said so.  A report captured on the copy   *)
(* whose id the row holds shows in its status, unless a rejection closed   *)
(* the item after the copy left; and on composed mail, which no reviewer   *)
(* decides, no report is ever lost, however requests overlap, repeat and   *)
(* die.                                                                    *)
(***************************************************************************)
StatusIsWitnessed ==
    \A m \in Msgs :
        /\ msg[m].status = "DELIVERED" => Captured(m, "Delivery")
        /\ msg[m].status = "BOUNCED" => Captured(m, "Bounce")
        /\ HasReport(msg[m].providerMessageId) =>
              \/ msg[m].status \in Reported
              \/ msg[m].status = "REJECTED" /\ inbox[m] # "none"
        /\ inbox[m] = "none" /\ (Captured(m, "Delivery") \/ Captured(m, "Bounce")) =>
              msg[m].status \in Reported

\* The step is the transaction of a request at work on m, whose lookup no
\* longer shows what the row says.
StaleRead(m) ==
    \E h \in Handlers :
        /\ handler[h].pc = "resolved" /\ handler'[h].pc # "resolved"
        /\ MessageOf[Head(handler[h].todo).of] = m
        /\ handler[h].before # msg[m].status

\* The step settles a request on held mail after the first word on it: a
\* send of it had failed, or its item was decided already.
SecondVerdict(m) ==
    /\ \E a \in Attempts : /\ MessageOf[a] = m
                            /\ request[a] # "done" /\ request'[a] = "done"
    /\ inbox[m] \in {"APPROVED", "REJECTED"} \/ (inbox[m] = "PENDING" /\ msg[m].status = "FAILED")

\* The status moves down the ladder, or a report is overwritten.
Regresses(m) ==
    \/ STATUS_RANK[msg'[m].status] < STATUS_RANK[msg[m].status]
    \/ msg[m].status \in Reported /\ msg'[m].status \notin Reported

(***************************************************************************)
(* The ladder of message-status.ts holds but for two races: a status       *)
(* regresses only by a webhook request whose lookup has gone stale, or by  *)
(* a second verdict on held mail.  Whatever order records arrive in, alone *)
(* or in one array, and however often, a bounce is not undone by a         *)
(* delivery looked up after it, nor any report by composeEmail's stamp.    *)
(***************************************************************************)
RegressesOnlyOnStaleRead ==
    [][\A m \in Msgs : Regresses(m) => StaleRead(m) \/ SecondVerdict(m)]_webhook
=============================================================================
