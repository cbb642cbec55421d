----------------------------- MODULE AgentMail ------------------------------
(***************************************************************************)
(* Compose, approve and reject: the write path of EmailService             *)
(* (backend/src/email/email.service.ts), with the kill switch              *)
(* (agent-controls), the agent registry row it reads (agents) and the      *)
(* trusted-correspondent table it reads and teaches.                       *)
(*                                                                         *)
(* Every request is a process.  It runs from one database transaction or   *)
(* external call to the next, other requests move in between, and it may   *)
(* die at any of those points (a crash, a transaction timeout, a lost      *)
(* connection).  Rows survive; what a request holds in memory does not.    *)
(*                                                                         *)
(* The idempotency tuple (workspace, externalSource, externalRef) is       *)
(* unique, so a message row is identified by its ref.  The mail engine is  *)
(* external: it answers accepted or not, and an answer lost to a timeout   *)
(* reads as not accepted although the mail left.                           *)
(***************************************************************************)
EXTENDS Autonomy

CONSTANTS
    Refs,             \* idempotency tuples
    NoRef,            \* the ref of a request not in flight
    Request,          \* what a compose under each ref asks for
    Agents,           \* registered agent keys
    AgentRows,        \* rows updateAgent may write
    NoAgent,          \* provenance without a registry row
    Callers,          \* compose requests in flight
    Reviewers,        \* humans working the approval queue
    Shared,           \* owner of a mailbox any reviewer may act through
    WorkspaceDomains, \* the MailDomain rows
    TrustTargets,     \* trust a human adds by hand, [addresses, domains]
    SendEnabled,      \* AGENT_AUTONOMOUS_SEND_ENABLED
    MaxCopies         \* bound: copies of one message the engine may accept

\* A mailbox as stored: kind, owning reviewer or Shared, agents bound to it.
Boxes == [kind : {"none", "AGENT", "HUMAN", "SHARED"},
          owner : Reviewers \cup {Shared}, linkedTo : SUBSET Agents]

ASSUME DistinctNames ==
    NoAgent \notin Agents /\ Shared \notin Reviewers /\ NoRef \notin Refs

ASSUME RequestAssumption ==
    \A r \in Refs :
        /\ Request[r].wants \in {"send", "draft"}
        /\ Request[r].key \in Agents \cup {NoAgent}
        /\ Request[r].box \in Boxes

ASSUME AgentRowAssumption ==
    \A row \in AgentRows : Registered(row) /\ row.paused \in BOOLEAN /\ row.active \in BOOLEAN

ASSUME MaxCopiesAssumption == MaxCopies \in Nat \ {0}

VARIABLES
    msg,          \* message rows, by ref
    item,         \* the agent-inbox item staged with a draft, by ref
    feed,         \* the action log, as the set of events it holds
    agents,       \* registry rows
    agentsPaused, \* Workspace.agentsPaused
    trust,        \* trusted correspondents, [addresses, domains]
    call,         \* what each compose request holds in memory
    review,       \* what each approve or reject request holds in memory
    copies,       \* the engine: copies of each message that left
    offered,      \* history: refs composeEmail handed to the engine
    vouched,      \* history: <<ref, reviewer>> whose approval passed the fence
    humanSaid     \* history: correspondents a human added or approved mail to,
                  \* but for those taken back while no request was in flight

rows == <<msg, item, feed>>
vars == <<msg, item, feed, agents, agentsPaused, trust, call, review,
          copies, offered, vouched, humanSaid>>

-----------------------------------------------------------------------------
MessageStatus == {"PENDING_APPROVAL", "QUEUED", "SENT", "FAILED", "REJECTED"}

NoMsg == [status |-> "none", mode |-> "none", agent |-> NoAgent]

Row == [status : MessageStatus, mode : {"SEND", "DRAFT"}, agent : Agents \cup {NoAgent}]

Exists(r) == msg[r].mode # "none"

ItemState == {"none", "PENDING", "APPROVED", "REJECTED"}

Event(kind, of) == [kind |-> kind, of |-> of]

IdleCall == [pc |-> "idle", ref |-> NoRef, mode |-> "none", agent |-> NoAgent,
             accepted |-> FALSE]

IdleReview == [pc |-> "idle", ref |-> NoRef, trusting |-> FALSE, accepted |-> FALSE]

CallState ==
    {IdleCall} \cup
    [pc : {"gated", "queued", "answered"}, ref : Refs, mode : {"send", "draft"},
     agent : Agents \cup {NoAgent}, accepted : BOOLEAN]

ReviewState ==
    {IdleReview} \cup
    [pc : {"planned", "answered", "taught", "rejecting"}, ref : Refs,
     trusting : BOOLEAN, accepted : BOOLEAN]

TypeOK ==
    /\ msg \in [Refs -> Row \cup {NoMsg}]
    /\ item \in [Refs -> ItemState]
    /\ agents \in [Agents -> AgentRows]
    /\ agentsPaused \in BOOLEAN
    /\ call \in [Callers -> CallState]
    /\ review \in [Reviewers -> ReviewState]
    /\ copies \in [Refs -> 0..MaxCopies]
    /\ offered \subseteq Refs
    /\ vouched \subseteq Refs \X Reviewers

Init ==
    /\ msg = [r \in Refs |-> NoMsg]
    /\ item = [r \in Refs |-> "none"]
    /\ feed = {}
    /\ agents \in [Agents -> AgentRows]
    /\ agentsPaused = FALSE
    /\ trust = [addresses |-> {}, domains |-> {}]
    /\ call = [c \in Callers |-> IdleCall]
    /\ review = [v \in Reviewers |-> IdleReview]
    /\ copies = [r \in Refs |-> 0]
    /\ offered = {}
    /\ vouched = {}
    /\ humanSaid = [addresses |-> {}, domains |-> {}]

-----------------------------------------------------------------------------
(***************************************************************************)
(* What the compose gate reads.                                            *)
(***************************************************************************)

\* The active registry row under the request's key, or Unregistered.
AgentRow(r) ==
    IF Request[r].key \in Agents /\ agents[Request[r].key].active
    THEN agents[Request[r].key] ELSE Unregistered

AgentKey(r) == IF Registered(AgentRow(r)) THEN Request[r].key ELSE NoAgent

\* A box counts as linked when an active agent is bound to it.
GateInput(r) ==
    LET req == Request[r]
    IN  [wants |-> req.wants, trustedSource |-> req.trustedSource,
         recipients |-> req.recipients, attachments |-> req.attachments,
         thread |-> req.thread, inbound |-> req.inbound, attested |-> req.attested,
         mailbox |-> [kind |-> req.box.kind,
                      linked |-> \E a \in req.box.linkedTo : agents[a].active]]

GateMode(r) ==
    ComposeDecision(GateInput(r), AgentRow(r), WorkspaceDomains, trust, SendEnabled).mode

\* The gate when a context lookup failed.
FailSafeMode(r) ==
    DecideAgentComposeMode(Request[r].wants, AgentRow(r), Request[r].recipients[1],
        Request[r].trustedSource, FailSafeContext(GateInput(r), SendEnabled)).mode

(***************************************************************************)
(* Handing a message to the engine: it leaves or not; the answer says so,  *)
(* except that a mail that left may be reported as not accepted.           *)
(***************************************************************************)
EngineTakes(r, accepted) ==
    \/ /\ copies[r] < MaxCopies
       /\ copies' = [copies EXCEPT ![r] = @ + 1]
       /\ accepted \in BOOLEAN
    \/ /\ ~accepted
       /\ UNCHANGED copies

\* Mutant: whatever the engine answered, the message reads SENT.
StampSendResultOptimistic(r, accepted) ==
    msg' = [msg EXCEPT ![r].status = "SENT"]

StampSendResult(r, accepted) ==
    msg' = [msg EXCEPT ![r].status = IF accepted THEN "SENT" ELSE "FAILED"]

-----------------------------------------------------------------------------
(***************************************************************************)
(* composeEmail.                                                           *)
(***************************************************************************)

\* Phase 1, the reads and the decision.  An existing row, the workspace's
\* kill switch and a paused agent all end the request with nothing written.
ComposeGate(c, r) ==
    /\ call[c].pc = "idle"
    /\ ~Exists(r)
    /\ ~agentsPaused
    /\ ~AgentRow(r).paused
    /\ \E mode \in {GateMode(r), FailSafeMode(r)} :
          call' = [call EXCEPT ![c] = [pc |-> "gated", ref |-> r, mode |-> mode,
                                       agent |-> AgentKey(r), accepted |-> FALSE]]
    /\ UNCHANGED <<msg, item, feed, agents, agentsPaused, trust, review,
                   copies, offered, vouched, humanSaid>>

\* Mutant: the inbox item is staged without its message row.
ComposeStageItemOnly(c) ==
    LET r == call[c].ref
    IN  /\ call[c].pc = "gated" /\ call[c].mode = "draft"
        /\ item' = [item EXCEPT ![r] = "PENDING"]
        /\ feed' = feed \cup {Event("STAGED_FOR_APPROVAL", r)}
        /\ call' = [call EXCEPT ![c] = IdleCall]
        /\ UNCHANGED <<msg, agents, agentsPaused, trust, review, copies, offered,
                       vouched, humanSaid>>

\* Phase 1, the insert and commit of a staged draft with its inbox item.
\* The insert fails on the unique tuple when another request got there first.
ComposeStage(c) ==
    LET r == call[c].ref
    IN  /\ call[c].pc = "gated" /\ call[c].mode = "draft"
        /\ IF Exists(r) THEN UNCHANGED rows
           ELSE /\ msg' = [msg EXCEPT ![r] = [status |-> "PENDING_APPROVAL",
                              mode |-> "DRAFT", agent |-> call[c].agent]]
                /\ item' = [item EXCEPT ![r] = "PENDING"]
                /\ feed' = feed \cup {Event("STAGED_FOR_APPROVAL", r)}
        /\ call' = [call EXCEPT ![c] = IdleCall]
        /\ UNCHANGED <<agents, agentsPaused, trust, review, copies, offered,
                       vouched, humanSaid>>

\* Mutant: the insert is an upsert, so a lost race queues a second send.
ComposeQueueUpsert(c) ==
    LET r == call[c].ref
    IN  /\ call[c].pc = "gated" /\ call[c].mode = "send"
        /\ msg' = [msg EXCEPT ![r] = [status |-> "QUEUED", mode |-> "SEND",
                                      agent |-> call[c].agent]]
        /\ call' = [call EXCEPT ![c].pc = "queued"]
        /\ UNCHANGED <<item, feed, agents, agentsPaused, trust, review, copies,
                       offered, vouched, humanSaid>>

\* Phase 1, the insert and commit of a send: the row is durable before the
\* engine hears of it.
ComposeQueue(c) ==
    LET r == call[c].ref
    IN  /\ call[c].pc = "gated" /\ call[c].mode = "send"
        /\ IF Exists(r) THEN /\ call' = [call EXCEPT ![c] = IdleCall]
                             /\ UNCHANGED msg
           ELSE /\ msg' = [msg EXCEPT ![r] = [status |-> "QUEUED", mode |-> "SEND",
                              agent |-> call[c].agent]]
                /\ call' = [call EXCEPT ![c].pc = "queued"]
        /\ UNCHANGED <<item, feed, agents, agentsPaused, trust, review, copies,
                       offered, vouched, humanSaid>>

\* Phase 2, outside any transaction.
ComposeSend(c) ==
    LET r == call[c].ref
    IN  /\ call[c].pc = "queued"
        /\ \E accepted \in BOOLEAN :
              /\ EngineTakes(r, accepted)
              /\ call' = [call EXCEPT ![c].pc = "answered", ![c].accepted = accepted]
        /\ offered' = offered \cup {r}
        /\ UNCHANGED <<msg, item, feed, agents, agentsPaused, trust, review,
                       vouched, humanSaid>>

\* Mutant: only a send the engine accepted is audited.
ComposeStampAcceptedOnly(c) ==
    LET r == call[c].ref
    IN  /\ call[c].pc = "answered"
        /\ StampSendResult(r, call[c].accepted)
        /\ feed' = IF call[c].agent = NoAgent \/ ~call[c].accepted THEN feed
                   ELSE feed \cup {Event("AUTONOMOUS_SEND", r)}
        /\ call' = [call EXCEPT ![c] = IdleCall]
        /\ UNCHANGED <<item, agents, agentsPaused, trust, review, copies, offered,
                       vouched, humanSaid>>

\* Phase 3: the verdict, and the audit event of a registered agent's send.
ComposeStamp(c) ==
    LET r == call[c].ref
    IN  /\ call[c].pc = "answered"
        /\ StampSendResult(r, call[c].accepted)
        /\ feed' = IF call[c].agent = NoAgent THEN feed
                   ELSE feed \cup {Event("AUTONOMOUS_SEND", r)}
        /\ call' = [call EXCEPT ![c] = IdleCall]
        /\ UNCHANGED <<item, agents, agentsPaused, trust, review, copies, offered,
                       vouched, humanSaid>>

\* The request dies at one of its awaits.
ComposeDies(c) ==
    /\ call[c].pc # "idle"
    /\ call' = [call EXCEPT ![c] = IdleCall]
    /\ UNCHANGED <<msg, item, feed, agents, agentsPaused, trust, review, copies,
                   offered, vouched, humanSaid>>

-----------------------------------------------------------------------------
(***************************************************************************)
(* approveAgentInboxItem, for an EMAIL item.                               *)
(***************************************************************************)

\* Mutant: any reviewer acts through any mailbox.
MayActThroughAny(v, r) == r \in Refs

\* The per-user fence: only the owner acts through a HUMAN mailbox.
MayActThroughMailbox(v, r) ==
    Request[r].box.kind = "HUMAN" => Request[r].box.owner = v

\* Teaching is address-exact; externality is the workspace's domains alone.
Externals(r) == ExternalOf(Request[r].recipients, WorkspaceDomains)

\* Phase 1 reads the item; a non-PENDING one is returned as it is.  The
\* kill switch is not consulted: an approved draft still sends.
ApprovePlan(v, r, trusting) ==
    /\ review[v].pc = "idle"
    /\ item[r] = "PENDING"
    /\ MayActThroughMailbox(v, r)
    /\ review' = [review EXCEPT ![v] = [pc |-> "planned", ref |-> r,
                      trusting |-> trusting, accepted |-> FALSE]]
    /\ vouched' = vouched \cup {<<r, v>>}
    /\ humanSaid' = IF trusting
                    THEN [humanSaid EXCEPT !.addresses = @ \cup Externals(r)]
                    ELSE humanSaid
    /\ UNCHANGED <<msg, item, feed, agents, agentsPaused, trust, call, copies, offered>>

\* Phase 2, outside any transaction.
ApproveSend(v) ==
    /\ review[v].pc = "planned"
    /\ \E accepted \in BOOLEAN :
          /\ EngineTakes(review[v].ref, accepted)
          /\ review' = [review EXCEPT ![v].pc = "answered", ![v].accepted = accepted]
    /\ UNCHANGED <<msg, item, feed, agents, agentsPaused, trust, call, offered,
                   vouched, humanSaid>>

\* Learning, in its own fenced call that swallows its errors.  It runs
\* whatever the engine answered.
LearnTrustedCorrespondents(v) ==
    /\ review[v].pc = "answered"
    /\ review' = [review EXCEPT ![v].pc = "taught"]
    /\ \/ /\ review[v].trusting
          /\ trust' = [trust EXCEPT !.addresses = @ \cup Externals(review[v].ref)]
       \/ UNCHANGED trust
    /\ UNCHANGED <<msg, item, feed, agents, agentsPaused, call, copies, offered,
                   vouched, humanSaid>>

\* Mutant: the item flips to APPROVED whatever the engine answered.
ApproveStampAlways(v) ==
    LET r == review[v].ref
    IN  /\ review[v].pc = "taught"
        /\ StampSendResult(r, review[v].accepted)
        /\ item' = [item EXCEPT ![r] = "APPROVED"]
        /\ feed' = feed \cup {Event("APPROVED", r)}
        /\ review' = [review EXCEPT ![v] = IdleReview]
        /\ UNCHANGED <<agents, agentsPaused, trust, call, copies, offered,
                       vouched, humanSaid>>

\* Phase 3: a refused send leaves the item PENDING; an accepted one flips it.
\* Both updates are by id, with no condition on what is there now.
ApproveStamp(v) ==
    LET r == review[v].ref
    IN  /\ review[v].pc = "taught"
        /\ StampSendResult(r, review[v].accepted)
        /\ IF review[v].accepted
           THEN /\ item' = [item EXCEPT ![r] = "APPROVED"]
                /\ feed' = feed \cup {Event("APPROVED", r)}
           ELSE UNCHANGED <<item, feed>>
        /\ review' = [review EXCEPT ![v] = IdleReview]
        /\ UNCHANGED <<agents, agentsPaused, trust, call, copies, offered,
                       vouched, humanSaid>>

(***************************************************************************)
(* rejectAgentInboxItem: one transaction, a read and then updates by id.   *)
(***************************************************************************)
RejectRead(v, r) ==
    /\ review[v].pc = "idle"
    /\ item[r] = "PENDING"
    /\ review' = [review EXCEPT ![v] = [pc |-> "rejecting", ref |-> r,
                      trusting |-> FALSE, accepted |-> FALSE]]
    /\ UNCHANGED <<msg, item, feed, agents, agentsPaused, trust, call, copies,
                   offered, vouched, humanSaid>>

RejectCommit(v) ==
    LET r == review[v].ref
    IN  /\ review[v].pc = "rejecting"
        /\ msg' = [msg EXCEPT ![r].status = "REJECTED"]
        /\ item' = [item EXCEPT ![r] = "REJECTED"]
        /\ feed' = feed \cup {Event("REJECTED", r)}
        /\ review' = [review EXCEPT ![v] = IdleReview]
        /\ UNCHANGED <<agents, agentsPaused, trust, call, copies, offered,
                       vouched, humanSaid>>

ReviewDies(v) ==
    /\ review[v].pc # "idle"
    /\ review' = [review EXCEPT ![v] = IdleReview]
    /\ UNCHANGED <<msg, item, feed, agents, agentsPaused, trust, call, copies,
                   offered, vouched, humanSaid>>

-----------------------------------------------------------------------------
(***************************************************************************)
(* The humans' controls over the gate.                                     *)
(***************************************************************************)

\* The workspace kill switch; an event is logged when the value changes.
SetControls(paused) ==
    /\ agentsPaused # paused
    /\ agentsPaused' = paused
    /\ feed' = feed \cup {Event(IF paused THEN "PAUSED" ELSE "RESUMED", NoAgent)}
    /\ UNCHANGED <<msg, item, agents, trust, call, review, copies, offered,
                   vouched, humanSaid>>

\* The dial, the per-agent pause, deactivation, the recipient policy.  A patch
\* that names the level is logged as a level change, changed or not.
UpdateAgent(a, row) ==
    /\ agents[a] # row
    /\ agents' = [agents EXCEPT ![a] = row]
    /\ \E kind \in {"AGENT_UPDATED", "AUTONOMY_CHANGED"} :
          /\ agents[a].level # row.level => kind = "AUTONOMY_CHANGED"
          /\ feed' = feed \cup {Event(kind, a)}
    /\ UNCHANGED <<msg, item, agentsPaused, trust, call, review, copies, offered,
                   vouched, humanSaid>>

AddTrust(t) ==
    /\ trust' = [addresses |-> trust.addresses \cup t.addresses,
                 domains |-> trust.domains \cup t.domains]
    /\ humanSaid' = [addresses |-> humanSaid.addresses \cup t.addresses,
                     domains |-> humanSaid.domains \cup t.domains]
    /\ UNCHANGED <<msg, item, feed, agents, agentsPaused, call, review, copies,
                   offered, vouched>>

\* No request that has read the tables is still to act on them.
Quiet ==
    /\ \A c \in Callers : call[c].pc = "idle"
    /\ \A v \in Reviewers : review[v].pc = "idle"

Without(table, t) == [addresses |-> table.addresses \ t.addresses,
                      domains |-> table.domains \ t.domains]

\* Mutant: the address is matched as it was typed, and nothing is deleted.
RemoveTrustUnmatched(t) ==
    /\ humanSaid' = IF Quiet THEN Without(humanSaid, t) ELSE humanSaid
    /\ UNCHANGED <<msg, item, feed, agents, agentsPaused, trust, call, review, copies,
                   offered, vouched>>

RemoveTrust(t) ==
    /\ trust' = Without(trust, t)
    /\ humanSaid' = IF Quiet THEN Without(humanSaid, t) ELSE humanSaid
    /\ UNCHANGED <<msg, item, feed, agents, agentsPaused, call, review, copies,
                   offered, vouched>>

-----------------------------------------------------------------------------
Compose(c) ==
    \/ \E r \in Refs : ComposeGate(c, r)
    \/ ComposeStage(c) \/ ComposeQueue(c) \/ ComposeSend(c) \/ ComposeStamp(c)
    \/ ComposeDies(c)

Review(v) ==
    \/ \E r \in Refs, trusting \in BOOLEAN : ApprovePlan(v, r, trusting)
    \/ ApproveSend(v) \/ LearnTrustedCorrespondents(v) \/ ApproveStamp(v)
    \/ \E r \in Refs : RejectRead(v, r)
    \/ RejectCommit(v)
    \/ ReviewDies(v)

Control ==
    \/ \E paused \in BOOLEAN : SetControls(paused)
    \/ \E a \in Agents, row \in AgentRows : UpdateAgent(a, row)
    \/ \E t \in TrustTargets : AddTrust(t) \/ RemoveTrust(t)

Next ==
    \/ \E c \in Callers : Compose(c)
    \/ \E v \in Reviewers : Review(v)
    \/ Control

Spec == Init /\ [][Next]_vars

-----------------------------------------------------------------------------
(***************************************************************************)
(* Promises.                                                               *)
(***************************************************************************)

(***************************************************************************)
(* A compose on the send lane leaves at most once per idempotency tuple,   *)
(* whatever its callers repeat, race or fail to finish: "a repeat with the *)
(* same tuple returns the EXISTING message, queues NO second send".        *)
(***************************************************************************)
SendLaneOnce == \A r \in Refs : msg[r].mode = "SEND" => copies[r] <= 1

(***************************************************************************)
(* Confirm on success only: a message reads SENT, and an item APPROVED,    *)
(* only if a copy left, whichever of several requests wrote last.          *)
(***************************************************************************)
VerdictsAreTrue ==
    \A r \in Refs : (msg[r].status = "SENT" \/ item[r] = "APPROVED") => copies[r] >= 1

(***************************************************************************)
(* A registered agent's send has a verdict exactly when its audit event is *)
(* in the feed; mail that left unaudited is still QUEUED, so a crash       *)
(* between the engine and the stamp stays visible.                         *)
(***************************************************************************)
AutonomousSendsAudited ==
    \A r \in Refs : (msg[r].mode = "SEND" /\ msg[r].agent # NoAgent) =>
        /\ msg[r].status \in {"SENT", "FAILED"} <=> Event("AUTONOMOUS_SEND", r) \in feed
        /\ (copies[r] > 0 /\ Event("AUTONOMOUS_SEND", r) \notin feed) =>
                msg[r].status = "QUEUED"

(***************************************************************************)
(* A staged draft leaves only after a reviewer approved it, and out of a   *)
(* person's own mailbox only after that person did.                        *)
(***************************************************************************)
HeldMailNeedsItsReviewer ==
    \A r \in Refs : (msg[r].mode = "DRAFT" /\ copies[r] > 0) =>
        \E v \in Reviewers :
            /\ <<r, v>> \in vouched
            /\ Request[r].box.kind = "HUMAN" => Request[r].box.owner = v

(***************************************************************************)
(* First contact needs a human: an agent's send is queued, and leaves, to  *)
(* no correspondent outside the workspace but on a human's word, which an  *)
(* addition or an approval with trust on gives.  A word taken back counts  *)
(* no longer once the requests then in flight are over: neither a gate nor *)
(* an approval that began later goes by it.                                *)
(***************************************************************************)
InternalAnyhow == WorkspaceDomains \cup UNION {row.domains : row \in AgentRows}

FirstContactNeedsHuman ==
    [][\A r \in Refs :
         (/\ msg'[r].mode = "SEND" /\ msg'[r].agent # NoAgent
          /\ msg[r].mode # "SEND" \/ copies'[r] > copies[r])
         => \A a \in ExternalOf(Request[r].recipients, InternalAnyhow) :
                TrustedBy(humanSaid, a)]_vars

(***************************************************************************)
(* The send lane keeps the promise SendLane states: however requests race  *)
(* and die, a tuple is accepted, offered to the engine and settled at most *)
(* once, in that order.                                                    *)
(***************************************************************************)
LaneStatus(row) ==
    IF row.mode # "SEND" THEN "none"
    ELSE CASE row.status = "QUEUED" -> "queued"
           [] row.status = "SENT" -> "sent"
           [] OTHER -> "failed"

Lane == INSTANCE SendLane WITH
    lane  <- [r \in Refs |-> LaneStatus(msg[r])],
    taken <- offered,
    left  <- [r \in Refs |-> IF msg[r].mode = "SEND" THEN copies[r] ELSE 0]

KeepsSendLane == Lane!LaneSpec
=============================================================================
