# Email-Ops: TLA+ models, checks and proofs

Email-Ops is a shared inbox for people and AI agents. People read and write mail
in workspaces; agents compose mail through the same service, and a gate decides
whether what an agent asks to send leaves on its own or waits for a human. The
part worth modelling is the NestJS backend (`src/backend/src`) and its PostgreSQL
rows: many requests, cron sweeps and webhooks run at once, every one of them is a
chain of short transactions and external calls, and any of them can die between
two links. Paths below are under `src/backend/src` unless they start with `src/`.

## 1. Inventory

`withWorkspace` (`prisma/prisma.service.ts:95`) runs a callback in one READ
COMMITTED transaction with a five-second limit. What a transaction commits is one
step of the models; what lies between two transactions (an engine call, a lookup
on `systemClient`) is where others get in.

| component | state | operations | meets | hard part | what makes it correct |
|---|---|---|---|---|---|
| Autonomy gate, `email/autonomy.ts` | none (pure) | `decideAgentComposeMode`, `decideComposeMode` | fed by `buildAgentComposeContext` | a cascade of early returns over level, mailbox class, policy and "routine" | computes the published matrix; a stricter knob never releases |
| Email write path, `email/email.service.ts` | `EmailMessage`, `AgentInboxItem`, `AgentActionEvent` | `composeEmail`, `approveAgentInboxItem`, `rejectAgentInboxItem` | gate, engine, trust table, feed | three phases around an external call; racing callers and reviewers; lost answers | one send per idempotency tuple; held mail needs its reviewer; verdicts are true; autonomous sends are audited |
| Agent controls | `Workspace.agentsPaused` | `setControls` | read by the gate | turned while composes are in flight | read once, by the gate; a compose past it goes on |
| Agent registry, `agents/` | `Agent`, `AgentMailbox`, the cached send identity | `createAgent`, `updateAgent`, bind/unbind mailbox | read by the gate, replayed into by provisioning | several statements per transaction at READ COMMITTED | one primary, and the agent sends as it |
| Trusted correspondents | `TrustedCorrespondent` | `add`, `remove`, `removeByAddress`; learning at approval | read by the gate, taught by approval | learning swallows errors and runs late | first contact needs a human |
| Engagement capture, `webhooks/`, `recordEngagementEvent` | `EmailEngagementEvent`, message status | one record of the provider | the stamps of sends, approvals and rejections | at-least-once, unordered, concurrent records; stamps by id, whatever the row says | status follows the captured records |
| Send later, `scheduling/` | `ScheduledSend` | schedule, cancel, sweep | composes through `composeEmail` | several processes claim; a claim outlives its worker | undo works; one holder; verdicts final; nothing stranded |
| Snooze, `scheduling/` | `SnoozedThread`, the engine's folders | snooze, unsnooze, surface | engine | folder moved before the row is written | a thread out of the inbox has a row that brings it back |
| Cleanup batches, `connected-accounts/` | `CleanupBatch`, archives | stage, approve, execute, undo, expire | provider, archive storage | no claim around the provider call | each batch runs once; undo restores it |
| Native cleanup, `notify/`, `stageNativeCleanup` to `backfillNativeCleanupTargets` | inbox item and its payload, the engine's folders, `ThreadDisposition` | stage, approve, reject, backfill, remind | engine, reviewers | moves outside any transaction; whole-payload writes | the verdict agrees with the mail; a writer loses another's key only by a stale copy |
| Agent replies, `agent-reply/`, `inbound/` | inbound cursor, counts of sent mail | watch, draft, send | compose, rules, triage | caps counted before the send; at-least-once cursor | caps and loop breakers hold |
| Mail rules, `mail-rules/` | `MailRule` | CRUD, `applyInbound` | inbound watcher | order and stop-processing | each message gets the first matching rules' actions once |
| Mail triage, `mail-triage/` | `SenderPolicy`, `ThreadDisposition` | `classifyInbound`, set and remove a policy | inbound watcher, people | a verdict and a person's choice over one overlay row | mail is judged once, nothing skipped without a cause |
| SMS, `sms/` | `SmsMessage`, inbox item | `recordInboundSms`; the rest has no caller | Twilio | provider call inside the transaction | a rollback does not send again |
| Workspaces, `workspaces/` | `Membership`, `Invitation` | roles, removal, invites | auth | checks outside the writing transaction | always an active owner |
| Provisioning, `provisioning/` | requests, policy | claim, replay, reject | registry, mailboxes | crash between claim and replay | an approved request is carried out |
| Agent view, UI commands | `UiCommand` | enqueue, drain | frontend | drain reads and marks | a command runs once |
| Mailbox accounts, spaces, auth, mail, MCP, assistant, health | their rows | CRUD, I/O, routing | the services above | none of their own | fences and validation |
| Engine clients (`stalwart/`, `mail-provider/`), cleaner engine, frontend, infrastructure | outside | outside | outside | an answer that is lost | modelled by contract where a module needs it |

The hazards each component is exposed to, at their lines, are in `PROJECT.json`.

## 2. Modules

    Autonomy                 pure: the gate, the matrix, the context it is fed
      AutonomyDial           the gate under moving knobs            MCAutonomyDial, AgentMailProofs
      AgentMail              compose, approve, reject, controls     MCAgentMail, AgentMailProofs
    SendLane                 abstract: what composeEmail promises of a send
      SendLater              the scheduler, composing with SendLane MCSendLater, DeliveryProofs
    Engagement               the webhook and the message status     MCEngagement, DeliveryProofs
    Snooze                   folders against snooze rows            MCSnooze, SnoozeProofs
    CleanupBatch             cleanup of a connected account         MCCleanupBatch, CleanupBatchProofs
    NativeCleanup            cleanup of the sovereign mailbox       MCNativeCleanup, NativeCleanupProofs
    Inbound                  watcher, triage, rules, replies        MCInbound, InboundProofs
    OrgMembership            members and invitations                MCOrgMembership, OrgMembershipProofs
    AgentRegistry            bindings and provisioning              MCAgentRegistry, AgentRegistryProofs

**Autonomy** translates `autonomy.ts` and `buildAgentComposeContext` as operators.
An address is `[box, domain]`, a recipient list a sequence, since the code counts
entries. The messages that accompany a decision are left out; its codes are kept.

**AutonomyDial** puts one request and everything the gate reads in variables, one
action per knob (`updateAgent`, domains, trust, the deployment switch, the
request), so that a step property compares the gate before and after one change. Its
definitions carry a `Dial` prefix, and Engagement's a `Webhook` one, where one module
of proofs takes them together with another component's.

**AgentMail** is the core. `msg`, `item` and `feed` are the three tables of the
write path; a row is named by its idempotency tuple, which a unique index
protects. `agents`, `agentsPaused` and `trust` are what the gate reads. `call[c]`
and `review[v]` are what a compose and a review request hold in memory between two
of their steps. `copies` is the engine. `offered`, `vouched` and `humanSaid` record
history for the properties and are read by no action; a word of trust taken back
leaves `humanSaid` too, if no request that may have read it is in flight (`Quiet`).

| code | actions |
|---|---|
| `composeEmail` phase 1, reads and decision | `ComposeGate` (with the fail-safe context when a lookup fails) |
| phase 1, insert and commit | `ComposeStage`, `ComposeQueue` (a lost race ends on the unique index) |
| phase 2, engine | `ComposeSend` |
| phase 3, stamp and audit | `ComposeStamp` |
| `approveAgentInboxItem` phases 1, 2, learning, 3 | `ApprovePlan`, `ApproveSend`, `LearnTrustedCorrespondents`, `ApproveStamp` |
| `rejectAgentInboxItem` | `RejectRead`, `RejectCommit` (one READ COMMITTED transaction: the read does not lock) |
| `setControls`, `updateAgent`, trusted correspondents | `SetControls`, `UpdateAgent`, `AddTrust`, `RemoveTrust` |
| a crash, timeout or lost connection at any await | `ComposeDies`, `ReviewDies` |

A request that a guard turns away (an idempotent hit, a pause, a foreign mailbox,
an item that is not PENDING) writes nothing and is the absence of a step.

**SendLane** is the abstract promise: per tuple, accepted once, offered to the
engine once, settled once and only after an answer. AgentMail implements it under
the mapping `Lane`. A queued message may stay queued: no code resumes it.

**SendLater** composes its own tables with SendLane's actions, so what it shows of
`composeEmail` is what AgentMail keeps. A worker's record is its sweep: `now`, the
rows as read and the row it is at. A workspace pause, an unusable mailbox, a
malformed payload and a failed transaction all end an attempt in one way, `Throws`.
The claim is inside the same `try`: when it throws (`ClaimThrows`, before or after it
took effect) the worker holds nothing it knows of, and its catch still marks the row
FAILED if it is CLAIMED, by whomever.

**Engagement** has the message rows (`msg`), the state of their inbox items (`inbox`)
and the events (`captured`), and both kinds of writers of a status. An attempt is one
send, approval or rejection (`BeginSend` or `PlanApproval`, `EngineTakes`, `SettleSend`;
`PlanRejection`, `MarkRejected`) and stamps its row by id; its name is the provider's id
of the copy it hands over. `handler[h]` is a webhook request (`Post`, `Resolve`,
`RecordEngagementEvent`, `Dies`), an array of records walked in order. The recording
transaction is one step because the unique index serialises it; the lookup before it is
a step of its own, as in the code.

**Snooze** keeps the engine's folder of each thread beside the rows. `snoozeThread`
is a move and then a row; `unsnooze` and the sweep's `surfaceDueSnoozes` are a read, a move
and a conditional write. A thread may be snoozed again, be moved by its user, or
cease to exist. `stranded` records the threads whose last snooze died between its
move and its row.

**CleanupBatch** follows a batch from staging to undo. An `attempt` is one request
that executes it (an approval or a direct run) and names the archive it writes; the
provider, the storage and PostgreSQL fail apart. `direct` runs inside a transaction
and takes its row along when it rolls back. `unrecorded` holds the batches whose
messages were deleted by a request that never wrote the archive's key.

**NativeCleanup** is the same promise over the mailbox of the engine: an approval
reads the item, moves each thread, tags them in one transaction and closes the item
by id. The listing's backfill and the reminder sweep write the payload column whole.
`touched`, `crossed` and `refiled` are history.

**Inbound** composes four services as they are composed in the process: the sweep
with its latch and cursor, `classifyInbound` and `applyInbound` per message, and the
drafts that run on after the hand-off. What a restart loses is in `sweep` and
`draft`; what it keeps is rows. `composeEmail` is the insert its tuple allows. One
mailbox is modelled; `crowded` says that 500 others were written longer ago, so that a
sweep, which takes 500 by `updatedAt`, leaves it out. Writing its row sends it to the
end, and a new one may start there; only other mailboxes' writes bring it forward
(`OthersMove`).

**OrgMembership** has the row locks of `lockActiveOwners`: the rows a lock statement
waits for are the ones of its snapshot, and it holds those still there once granted.
A seeded member has the access list's role, which may be OWNER. Invitations are read and written outside transactions, in steps of their own.

**AgentRegistry** runs each change statement by statement: a transaction sees its own
rows over the committed ones (`View`), locks what it writes, and blocks on others'
locks. `updateMany` over the primaries takes its snapshot and re-evaluates each row
after the wait, as PostgreSQL does. A transaction's number dates the row it creates,
which is the code's `createdAt` order. Provisioning requests are claimed, replayed in
a transaction of their own and stamped.

## 3. What the runs check

Bounds are chosen so that each hazard's smallest scene fits with a step to spare.

| run | scene | shows |
|---|---|---|
| `autonomy_dial` | 9 registry rows, six recipient lists (5 and 6 externals among them), 4 mailboxes, domains known or not | `PublishedMatrix`: for every registered agent's send the cascade is the help page's table. `StricterNeverReleases`: no single stricter move turns a held compose into a send |
| `agent_mail` | 3 tuples (outreach, reply, a person's send), 2 callers, 1 reviewer, 2 copies | `SendLaneOnce`, `AutonomousSendsAudited`, and `KeepsSendLane`: AgentMail implements SendLane |
| `agent_mail_review` | an agent's cold send (level L1 or L2) and a draft in a person's mailbox, 2 callers, 2 reviewers, the kill switch, trust learned and removed | `HeldMailNeedsItsReviewer`, `VerdictsAreTrue`, `FirstContactNeedsHuman`: an agent's own mail is queued, and handed to the engine, only while a human's word for its outside recipients stands |
| `send_later` | 1 send, 2 workers, a TTL of 2 ticks in 6: several deaths, throwing claims and take-overs | `CancelledNeverLeaves`, `OneHolder`, `TerminalIsFinal`, `SettlesEventually` |
| `engagement` | one message, composed or held; 3 requests that send, approve or reject it; 4 records of 2 copies; 2 webhook requests of up to 2 records | `StatusIsWitnessed`; `RegressesOnlyOnStaleRead`: the status moves down its ladder, or a report is overwritten, only by a webhook request whose lookup of that message has gone stale or by a second verdict on held mail |
| `snooze` | 2 snoozes of one or two threads, an unsnooze, a sweep that may fail or die, a thread that may vanish | `HiddenHasWayBack`, `CancelledIsFinal`, `HiddenComesBack` |
| `cleanup_batch` | a batch that deletes two messages and one that trashes one of them, 2 executing requests, an undo, a rejection, a retention sweep | `DeletedIsUndoable`, `DeletedIsArchived`, `LiveArchiveIsThere`, `UndoneIsBack` |
| `native_cleanup` | 2 batches sharing a thread and filing it differently, one without a preview, 2 reviewers, a listing, the sweep, a person filing, one fault or restart | `VerdictMatchesMail`, `PayloadIsMerged` |
| `inbound` | 2 messages of one thread, 2 rules with STOP, thread cap 1 and mailbox cap 2, 2 drafts, one edit (of a policy, a rule, a folder or the mailbox) and one failure or restart, the mailbox crowded out at times | `AnsweredOnce`, `CapsHoldButForRaces`, `SkipsHaveACause`, `CatchesUp` |
| `org` | a founder, a second owner and a member seeded as member or owner, 2 member changes, one invitation with a clerk and an acceptance | `OwnersKept`, `ClosedStaysClosed` |
| `org_last_owner` | the same | expected to fail: see below |
| `registry` | 3 mailboxes, 2 clients, one provisioning request, 4 transactions (the first creates the agent) | `OneIdentity`, `AppliedAsStated` |

Each module has one `TypeOK`, checked by its first run, or, for AgentRegistry, proved.

Two callers, reviewers or workers suffice for the races because every race is over
one row and between a reader and a writer of it; the proofs lift most results to any
number. `MaxCopies` bounds what the engine accepts of one message (2 shows every
double send; the review run needs one), `MaxClock` the clock, `MaxBatch` a webhook
array, `MaxFaults` failures, `MaxEdits` and `MaxFilings` what people do meanwhile,
`MaxChanges` transactions. `Attempts` bounds the requests to send or reject a message: the
third is the one that comes after two that raced. SendLater is checked with one send and proved for any.
`NativeCleanup` runs with an interval of 0 ticks, so that two instants hold a reminder
and the next; the listing takes one item, where the code takes three. Inbound's polls
return 2 messages, where the code's return 50, so that a window filled by newer mail is
not reached by its two messages; `SkipsHaveACause` is proved for any. Requests are
interchangeable where a run declares symmetry; no run with a liveness property does.
AgentMail and AutonomyDial never stop, and their runs check for deadlock; the others
stop once their bounded requests are over.

### A departure of the code from its text

`org_last_owner`: "An organization must keep at least one active owner"
(`workspaces.service.ts`), guarded by locking the owners' rows and counting under the
locks. A change that waited for the only owner it had seen ends up holding no lock
when that owner is gone, while another user has become an owner meanwhile. Another
change then counts the owner whom this one, having counted before or having found its
target no owner yet, is about to take, and both commit. `OwnersKept` states what does
hold: the owner stays as long as nobody becomes one inside a change.

### Other departures, read in the code and in the models' actions

The models take these steps; the properties name them as exceptions or leave them out.

- Mail: a rejected message "never leaves" (`email.service.ts:2108`), yet an approval
  past its read sends it; approving a non-pending item "is a no-op" (`:1872`), yet two
  approvals that both read PENDING both send. The send lane is said to be L2 only
  (`:1590`); L1 sends internally. Learning is from "the approved send" (`:1875`), but runs
  before the engine's answer is looked at (`:2056`). A pause is read by the gate: a compose past it still queues and
  sends. External is "the safer side"
  (`autonomy.ts:58`), but with no domains known a colleague's message proves an ongoing
  thread with an outsider.
- Send later: a "truthful SENT/FAILED verdict" (`scheduling.service.ts:213`), yet a row
  taken over whose message is still QUEUED is marked SENT. An in-flight send is "never
  reaped" (`:29-31`), but its claim is stamped with the sweep's start (`:293`). A claim that
  throws (`:288`) marks the row FAILED (`:320`) while another worker is sending it.
- Engagement: the status must "NEVER regress" (`message-status.ts:6`), but the rung
  compared with is read before the transaction (`email.service.ts:2676`), and the stamp of
  a second approval (`:2083`) or a rejection (`:2148`) overwrites a captured report. Unmatched is
  "a message we didn't send" (`:2591`), also when the record came before the stamp. Dedupe
  keys are "distinct across different events" (`postmark.types.ts:125`), but the derived
  key has no recipient in it (`:213`).
- Snooze: rows of threads that are gone stay active and are taken by every sweep; 100
  of them starve the rest, the exception in `HiddenComesBack`.
- Cleanup batches: a failure "keeps it retryable" (`connected-accounts.service.ts:781`),
  but a FAILED batch is never run again. A lost answer of the provider leaves deleted
  mail with an archive no row names, and a rolled-back direct run leaves no row at all.
- Native cleanup: an approval in flight flips a rejected item to APPROVED by id, and a
  rejection that read PENDING overwrites an approval. An approval that died leaves moved
  threads on a PENDING item that may then be rejected. "Every other key" of the payload is
  preserved (`stale-approval-sweep.service.ts:18`) only against writes the copy has seen.
- Inbound: the caps are exceeded by concurrent replies. A sweep takes 500 mailboxes, the
  longest unwritten first (`inbound-watcher.service.ts:64-65`), and one without new mail is
  never written: 500 such mailboxes starve the rest, the exception in `CatchesUp`. Mail sharing the newest second,
  or behind 50 newer ones, is never classified (`james.client.ts:1420`). A rule moves the
  whole thread, so that its unprocessed mail is out of the Inbox when a batch is polled
  again. Two messages of a thread in one second get one reply (one `externalRef`). Replies
  in flight at a restart whose cursor advanced are lost. `classifyInbound` leaves an old
  overlay row in place (`mail-triage.service.ts:79`), where its header says "otherwise
  INBOX".
- Organizations: a suspended member is reactivated by an older second invitation
  (`workspaces.service.ts:410`); two acceptances of one invitation can readmit a removed
  member; a revocation and an acceptance overwrite each other; the ranks compared are read
  before the transaction; a crash in `createOrg` (`:85`) leaves it without an owner; a
  removed member who is allow-listed is seeded again.
- Registry: `reconcilePrimary` enforces the invariant "from ANY state" only when it runs
  alone; two unbinds can leave the cache naming a removed mailbox, and two updates two
  primaries, until the next change. A crash between the claim of a provisioning request
  and its stamp leaves it APPROVED, applied or not.

### Fairness

- `SettlesEventually`: `WF(Tick)`, time passes; `WF(WorkerStep(w))`, the interval timer
  restarts every process's sweep, and every await in a sweep returns because the
  engine's calls time out. Faults that leave a row to a later sweep are barred from the
  last `ClaimTTL` ticks (`MayStrand`), since a bounded clock would not bring that sweep.
- `HiddenComesBack`: the same of Snooze's workers, and a snooze request that has moved
  its thread goes on or ends.
- `CatchesUp`: `WF(SweepStep)`, the minute cron restarts the sweep and every call in it
  returns; a sweep starts for this mailbox only while it is among those taken, and nothing
  makes the others move, so that it either catches up or stays crowded out; `WF(DraftStep(d))`, the language model answers or its call fails.

Nothing is assumed of users, of faults (bounded in number) or of the engine's answers.
Weak fairness is enough: none of these steps is disabled by others for ever and again.

## 4. What is proved

TLAPS checks these for every value of the constants that satisfies the named
assumptions (names distinct, rows and requests of their shape, bounds natural numbers):
every set of users, agents, messages, requests and workers, and any bounds. In each
module `IInv` is the inductive invariant, `Init => IInv` and one lemma per group of
actions show it is kept, and the listed theorems follow. TLC has checked each `IInv` on
the module's instance.

- `AgentMailProofs`. `IInv` adds to the types what requests in memory know: mode, status
  and inbox item of a row fit together (`RowInv`); a compose past its insert owns its row
  and was offered exactly when the engine has answered (`CallInv`); a review works on a
  staged draft and an accepted answer has a copy behind it (`ReviewInv`, `GatedInv`).
  `SendLaneOnce` and `VerdictsAreTrue` are not inductive without these: the next write
  comes from memory. `TypeCorrect`, `SendLaneOnceHolds`, `VerdictsAreTrueHolds`, and the
  refinement `KeepsSendLaneHolds`, each step a SendLane step or a stutter. On top of `IInv`: `AutonomousSendsAuditedHolds`,
  `HeldMailNeedsItsReviewerHolds` (a plan in memory was vouched for under the fence), and
  `FirstContactNeedsHumanHolds`, where `GateReleases` opens the matrix once for a send,
  `FailSafeHolds` does for a failed lookup, and `TrustInv` carries that nobody is trusted
  whom no human's standing word covers, nor any compose in memory cleared without it.
- `AgentMailProofs` also opens the gate: `PublishedMatrixHolds` compares the cascade of
  early returns with the table case by case, and `StricterNeverReleasesHolds` each knob's
  move, for every recipient list, mailbox and set of domains.
- `DeliveryProofs`, on SendLater. A held row is past its claim, bears a stamp no older than
  its holder's sweep, and a verdict is at hand when it is to be marked, by its holder or by
  a worker whose claim threw (`HoldInv`); nothing is composed for a row never claimed (`LaneInv`); a claim read had outlived the TTL
  (`ReadInv`). What admits a second worker is the stamp the claim's guard compares, so
  `OneHolder` needs it tied to every holder. `CancelledNeverLeavesHolds`,
  `OneHolderHolds`, `TerminalIsFinalHolds`, `TypeCorrect`; `SentHasMessage`, that a SENT
  row has a message and a copy leaves only of a claimed row; and the refinement
  `SendLaterKeepsLane`, each step a SendLane step or a stutter.
- `DeliveryProofs`, on Engagement, whose invariant is `WebhookInv`. A row holds the id of a
  copy whose request is over (`RowInv`); a held draft whose item is pending has not left
  (`PendingInv`); composed mail has one request, which finds its row queued (`ComposedInv`);
  what some record of has reached us is a copy whose request is over (`CapturedInv`,
  `Seen`), and a lookup that found a row past SENT by an id it still holds finds it past
  SENT still (`LookupInv`). `StatusIsWitnessedHolds`, `RegressesOnlyOnStaleReadHolds`,
  `WebhookTypeCorrect`; and `LadderHoldsAlone`: with webhook requests handled one at a time
  the status of composed mail, which no reviewer decides, never regresses, so that for it
  the stale read is the only cause.
- `SnoozeProofs`. The row that is a thread's way back may be in the hands of a sweep that
  has moved the thread and is about to write the row off; `WayInv` says there is always
  one in nobody's hands. `HiddenHasWayBackHolds`, `CancelledIsFinalHolds`, `TypeCorrect`.
- `CleanupBatchProofs`. What each request's place implies about its archive, that an
  archive a row names is sound or expired, and that all a sweep holds has expired
  (`Facts`). `DeletedStaysUndoable`, `DeletedStaysArchived`, `LiveArchiveStays`,
  `UndoneStaysBack`, `ApprovedStaysRun`, `TypeCorrect`.
- `InboundProofs`. `BatchInv` accounts for every message up to the stamp the poll chose,
  which the cursor is about to pass; `StampInv` says where that stamp comes from.
  `AnsweredAtMostOnce`, `CapsHold`, `NothingSkippedWithoutCause`, `TypeCorrect`; the caps by
  counting the finite set of replies, late ones apart. `CapsAreExactAlone`: replies drafted
  one at a time keep both caps exactly, since the counts read are then the counts written
  under (`CountInv`).
- `NativeCleanupProofs`. A batch with a thread moved or tagged is approved, being approved,
  or marked by an approval's death (`WorkInv`); tags are written before the verdict
  (`TagInv`); no copy of a payload bears a stamp later than the sweep under way, or the
  clock, can write (`StampInv`); an item never staged is bare (`FreshInv`).
  `VerdictMatchesMail` needs the first two, `PayloadIsMerged` the others.
  `VerdictMatchesMailHolds`, `PayloadIsMergedHolds`, `TypeCorrect`; and for batches reviewed
  one at a time, where what a review has read stays pending (`ReadIsFresh`):
  `VerdictIsFinalAlone`, through any failures, and `RejectedMovedNothing`, where none occurs.
- `OrgMembershipProofs`. While nobody has become an owner inside a change, a change under
  way holds the lock of every active owner it does not still wait for (`Fence`), and one
  about to take an ownership leaves another owner behind (`Spare`). `OwnersAreKept`,
  `ClosedStaysClosedHolds`, `TypeCorrect`.
- `AgentRegistryProofs`. Only a request's claimer acts for it (`Claims`); transactions have
  numbers of their own and only they hold rows (`Numbers`); no two bindings are equally old
  (`Ages`), so the row a repair keeps is determined; a change by itself sees what it has
  read and knows what it would commit (`Alone`). Statements that stay inside a transaction
  share one lemma (`WithinKeeps`), as do those that end one. `OneIdentityHolds`,
  `AppliedAsStatedHolds`, `TypeCorrect`.

The theorems "alone" (`LadderHoldsAlone`, `CapsAreExactAlone`, `VerdictIsFinalAlone`,
`RejectedMovedNothing`) assume one webhook request, draft or review in flight, which the code does
not ensure; they show that the exceptions in the general properties have no other cause.

Model-checked only: the liveness properties `SettlesEventually`, `HiddenComesBack` and
`CatchesUp`, since fairness and ENABLED are beyond the prover. Inductions over data and
recursive operators are too; no module declares one.

## 5. Not modelled

Read operations; drafts kept by the mail client; attachments beyond their number;
wording, templates and footers; row-level security itself (PostgreSQL's);
authentication; the mail engines' internals. The engine's contract is: a mail leaves or
a thread moves, or not, and an answer lost to a timeout reads as a refusal.

- SMS: `composeSms`, `approveSmsInboxItem` and `rejectSmsInboxItem` have no caller in the
  repository. They would hold the provider call inside the transaction. Only
  `recordInboundSms` can be reached, one insert; no unique index makes it idempotent.
- Organizing a connected account (a move like the trash batch), planning, account links;
  scores and labels of triage and rules; renaming an organization; an agent's display
  fields; provisioning of mailboxes, which replays through the engine's admin service.
- Mailbox accounts, signatures, contacts, spaces, UI commands: single-row writes under a
  fence. The MCP server, the assistant and the REST surface keep no state. The frontend
  and the Python cleaner engine are outside the backend; most of the repository's lines
  are theirs, which is why the modelled share of all lines is small.

A provisioning commit whose acknowledgement is lost, so that the request is stamped FAILED
though applied, is not a step of AgentRegistry. NativeCleanup assumes that one process runs
the reminder sweep, and Inbound that the mailbox stays active.
In NativeCleanup a person's filing is one step where the code moves and then tags, and the
sweep reads and posts in one step. In Inbound all of a behaviour lies inside one 24-hour
window of the caps. In AgentRegistry a find and the write by id next to it are one step;
what could come between them makes the write fail, which is `RollBack`; `updateAgent`
patches of other fields lock the agent's row first and are not modelled.

## 6. Plan

1. SendLane under Inbound and CleanupBatch: the compose of a reply and the approval of a
   batch as refinements of an abstract "done at most once, and recorded".
2. What the registry and the memberships keep when changes run alone, as theorems.
3. Organize as a third kind of batch, renaming an organization, and UI commands.
