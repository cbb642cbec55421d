------------------------------ MODULE Inbound -------------------------------
(***************************************************************************)
(* One mailbox of the mail engine and what the backend makes of the mail   *)
(* arriving there: the minute sweep of the inbound watcher with its        *)
(* persisted cursor (backend/src/inbound), the classification of each new  *)
(* message (backend/src/mail-triage), the mailbox's filing rules           *)
(* (backend/src/mail-rules) and the replies an agent drafts                *)
(* (backend/src/agent-reply), which run on after the sweep has moved on.   *)
(*                                                                         *)
(* The backend is one process: the sweep's latch, its batch and the drafts *)
(* live in its memory and go with it; the cursor, the dispositions, the    *)
(* policies and the composes are rows.  composeEmail is the AgentMail      *)
(* module's; here it is the insert its idempotency tuple allows.  All of a *)
(* behaviour lies inside one 24 hour window of the reply caps.             *)
(***************************************************************************)
EXTENDS Naturals, FiniteSets

CONSTANTS
    Messages,
    NoMessage,
    Threads,
    ThreadOf,      \* the thread of each message
    AddressOf,     \* the sender of each message
    DomainOf,      \* the sender's domain
    Kind,          \* "person", "silent" (no sender, the box itself, an
                   \* automated address, a stamped reply) or "colleague"
    Rules,         \* the mailbox's rules, numbered in priority order
    RuleBody,      \* [matches, moves, stop] of each rule
    Drafters,      \* bound: replies being drafted at one time
    Limit,         \* messages one poll returns
    ThreadCap,     \* THREAD_AUTO_SEND_CAP
    MailboxCap,    \* agentDraftsPerMailboxPerDay
    MaxClock,      \* bound: the last second
    MaxEdits,      \* bound: edits by the mailbox's people
    MaxFaults      \* bound: failures and restarts

Patterns == {AddressOf[m] : m \in Messages} \cup {DomainOf[m] : m \in Messages}

ASSUME MailAssumption ==
    /\ NoMessage \notin Messages /\ IsFiniteSet(Messages)
    /\ ThreadOf \in [Messages -> Threads]
    /\ Kind \in [Messages -> {"person", "silent", "colleague"}]

ASSUME RulesAssumption ==
    /\ Rules \subseteq Nat
    /\ RuleBody \in [Rules -> [matches : SUBSET Messages, moves : BOOLEAN, stop : BOOLEAN]]

ASSUME BoundsAssumption ==
    /\ Limit \in Nat \ {0} /\ ThreadCap \in Nat \ {0} /\ MailboxCap \in Nat \ {0}
    /\ MaxClock \in Nat \ {0} /\ MaxEdits \in Nat /\ MaxFaults \in Nat

VARIABLES
    clock,
    arrived,      \* receivedAt of each message; 0 before it arrives
    inbox,        \* messages in the engine's Inbox folder
    cursor,       \* mailbox_accounts.inbound_cursor; 0 is null
    crowded,      \* as many mailboxes as a sweep takes were written longer ago
    sweep,        \* the watcher's latch and the batch in its memory
    policy,       \* sender_policies
    disposition,  \* thread_dispositions, the overlay the views obey
    filing,       \* a person's applyThreadDisposition under way
    enabled,      \* rules switched on
    paused,       \* workspaces.agents_paused
    draft,        \* replies being drafted
    reply,        \* email_messages of the reply runtime, by message answered
    edits, faults,
    baseline,     \* history: the cursor the first poll left
    judged,       \* history: messages classified
    strayed       \* history: messages that have been outside the Inbox

box == <<cursor, crowded>>
people == <<policy, disposition, filing, enabled, paused, edits>>
replies == <<draft, reply>>
vars == <<clock, arrived, inbox, box, sweep, policy, disposition, filing, enabled,
          paused, draft, reply, edits, faults, baseline, judged, strayed>>

-----------------------------------------------------------------------------
Stamps == 0..MaxClock

Asleep == [pc |-> "idle", since |-> 0, top |-> 0, todo |-> {}, at |-> NoMessage,
           verdict |-> "keep", rules |-> {}]

Sweep == [pc : {"scanned", "batch", "judging", "judged", "filed"}, since : Stamps,
          top : Stamps, todo : SUBSET Messages, at : Messages \cup {NoMessage},
          verdict : {"keep", "INBOX", "SPAM"}, rules : SUBSET Rules]

NoDraft == [pc |-> "idle", at |-> NoMessage, wants |-> "DRAFT", sends |-> 0, composes |-> 0]

Draft == [pc : {"asked", "gated"}, at : Messages, wants : {"SEND", "DRAFT"},
          sends : Nat, composes : Nat]

\* times counts the composes made for the message; the flags say that the
\* counts its gate had read were out of date when it was made.
Unanswered == [mode |-> "none", times |-> 0, lateThread |-> FALSE, lateBox |-> FALSE]

Reply == [mode : {"none", "SEND", "DRAFT"}, times : Nat, lateThread : BOOLEAN,
          lateBox : BOOLEAN]

Places == {"none", "INBOX", "SPAM", "ARCHIVE"}
NoFiling == [thread |-> "none", to |-> "none"]

TypeOK ==
    /\ clock \in 1..MaxClock
    /\ arrived \in [Messages -> Stamps]
    /\ inbox \subseteq Messages
    /\ cursor \in Stamps /\ crowded \in BOOLEAN
    /\ sweep \in Sweep \cup {Asleep}
    /\ policy \in [Patterns -> {"none", "ALLOW", "BLOCK"}]
    /\ disposition \in [Threads -> Places]
    /\ filing \in [thread : Threads, to : Places \ {"none"}] \cup {NoFiling}
    /\ enabled \subseteq Rules
    /\ paused \in BOOLEAN
    /\ draft \in [Drafters -> Draft \cup {NoDraft}]
    /\ reply \in [Messages -> Reply]
    /\ edits \in 0..MaxEdits /\ faults \in 0..MaxFaults
    /\ baseline \in Stamps
    /\ judged \subseteq Messages /\ strayed \subseteq Messages

Init ==
    /\ clock = 1
    /\ arrived = [m \in Messages |-> 0] /\ inbox = {}
    /\ cursor = 0 /\ crowded \in BOOLEAN /\ sweep = Asleep
    /\ policy = [p \in Patterns |-> "none"]
    /\ disposition = [t \in Threads |-> "none"] /\ filing = NoFiling
    /\ enabled = Rules /\ paused = FALSE
    /\ draft = [d \in Drafters |-> NoDraft] /\ reply = [m \in Messages |-> Unanswered]
    /\ edits = 0 /\ faults = 0
    /\ baseline = 0 /\ judged = {} /\ strayed = {}

-----------------------------------------------------------------------------
Mail(t) == {m \in Messages : ThreadOf[m] = t /\ arrived[m] > 0}

\* moveThreadToFolder sets the folder of every message of the thread.
TakeOut(t) == inbox' = inbox \ Mail(t) /\ strayed' = strayed \cup Mail(t)

BringBack(t) == inbox' = inbox \cup Mail(t) /\ UNCHANGED strayed

\* An exact address rule wins over its domain's.
Evaluate(m) ==
    IF policy[AddressOf[m]] # "none" THEN policy[AddressOf[m]] ELSE policy[DomainOf[m]]

\* The rules that act on a message: those that match, up to the first STOP.
Fired(rules, m) ==
    {i \in rules : /\ m \in RuleBody[i].matches
                   /\ \A j \in rules : (j < i /\ m \in RuleBody[j].matches)
                                            => ~RuleBody[j].stop}

-----------------------------------------------------------------------------
(***************************************************************************)
(* Mail arrives, time passes.                                              *)
(***************************************************************************)
Arrive(m) ==
    /\ arrived[m] = 0
    /\ arrived' = [arrived EXCEPT ![m] = clock]
    /\ inbox' = inbox \cup {m}
    /\ UNCHANGED <<clock, box, sweep, people, replies, faults, baseline, judged, strayed>>

Tick ==
    /\ clock < MaxClock
    /\ clock' = clock + 1
    /\ UNCHANGED <<arrived, inbox, box, sweep, people, replies, faults, baseline,
                   judged, strayed>>

-----------------------------------------------------------------------------
(***************************************************************************)
(* The watcher: scheduledSweep, runSweep, pollOne.                         *)
(***************************************************************************)

\* A sweep takes 500 mailboxes of the whole installation, the one written
\* longest ago first.  Writing a mailbox's row sends it to the end, behind who
\* knows how many; one that gets no mail keeps its place.
ToTheEnd == crowded' \in {crowded, TRUE}

\* The mailbox row, if it is among those taken, and the enabled rules are read
\* once; a rules load that fails leaves the sweep without rules.
StartSweep ==
    /\ sweep.pc = "idle" /\ ~crowded
    /\ \E rules \in {enabled, {}} :
          /\ sweep' = [Asleep EXCEPT !.pc = "scanned", !.since = cursor, !.rules = rules]
          /\ IF rules = enabled THEN UNCHANGED faults
             ELSE faults < MaxFaults /\ faults' = faults + 1
    /\ UNCHANGED <<clock, arrived, inbox, box, people, replies, baseline, judged, strayed>>

\* The newest messages of the Inbox folder, as many as the query returns.
Window(W) ==
    /\ W \subseteq inbox
    /\ Cardinality(W) = IF Cardinality(inbox) < Limit THEN Cardinality(inbox) ELSE Limit
    /\ \A m \in W, n \in inbox \ W : arrived[n] <= arrived[m]

\* The newest stamp seen, no older than the cursor.
Newest(W, top) ==
    /\ top \in {sweep.since} \cup {arrived[m] : m \in W}
    /\ \A m \in W : arrived[m] <= top
    /\ sweep.since <= top

\* pollInbound.  The first poll returns no message, and a cursor even for an
\* empty folder.
PollInbound ==
    /\ sweep.pc = "scanned"
    /\ \E W \in SUBSET inbox, top \in Stamps :
          /\ Window(W)
          /\ IF sweep.since = 0 /\ W = {} THEN top = clock ELSE Newest(W, top)
          /\ sweep' = [sweep EXCEPT !.pc = "batch", !.top = top,
                           !.todo = IF sweep.since = 0 THEN {}
                                    ELSE {m \in W : arrived[m] > sweep.since}]
    /\ UNCHANGED <<clock, arrived, inbox, box, people, replies, faults, baseline,
                   judged, strayed>>

\* classifyInbound reads the policy in one transaction and asks the engine
\* only when there is none; messages are taken oldest first.
JudgeNext ==
    /\ sweep.pc = "batch"
    /\ \E m \in sweep.todo :
          /\ \A n \in sweep.todo : arrived[m] <= arrived[n]
          /\ \E verdict \in CASE Evaluate(m) = "ALLOW" -> {"INBOX"}
                              [] Evaluate(m) = "BLOCK" -> {"SPAM"}
                              [] OTHER -> {"SPAM", "keep"} :
                sweep' = [sweep EXCEPT !.pc = "judging", !.at = m, !.verdict = verdict]
    /\ UNCHANGED <<clock, arrived, inbox, box, people, replies, faults, baseline,
                   judged, strayed>>

\* ... and writes the overlay in another.
WriteVerdict ==
    /\ sweep.pc = "judging"
    /\ disposition' = IF sweep.verdict = "keep" THEN disposition
                      ELSE [disposition EXCEPT ![ThreadOf[sweep.at]] = sweep.verdict]
    /\ judged' = judged \cup {sweep.at}
    /\ sweep' = [sweep EXCEPT !.pc = "judged"]
    /\ UNCHANGED <<clock, arrived, inbox, box, policy, filing, enabled, paused, edits,
                   replies, faults, baseline, strayed>>

\* applyInbound: no failure of an action leaves it.  A placement the engine
\* takes moves the thread.
ApplyRules ==
    /\ sweep.pc = "judged"
    /\ \/ UNCHANGED <<inbox, strayed>>
       \/ /\ \E i \in Fired(sweep.rules, sweep.at) : RuleBody[i].moves
          /\ TakeOut(ThreadOf[sweep.at])
    /\ sweep' = [sweep EXCEPT !.pc = "filed"]
    /\ UNCHANGED <<clock, arrived, box, people, replies, faults, baseline, judged>>

\* The hand-off to the reply runtime: not awaited.
HandOff ==
    /\ sweep.pc = "filed"
    /\ IF Kind[sweep.at] = "silent" THEN UNCHANGED draft
       ELSE \E d \in Drafters :
              /\ draft[d] = NoDraft
              /\ draft' = [draft EXCEPT ![d] = [NoDraft EXCEPT !.pc = "asked",
                                                               !.at = sweep.at]]
    /\ sweep' = [sweep EXCEPT !.pc = "batch", !.at = NoMessage, !.verdict = "keep",
                              !.todo = @ \ {sweep.at}]
    /\ UNCHANGED <<clock, arrived, inbox, box, people, reply, faults, baseline,
                   judged, strayed>>

\* The cursor is written once, after the batch and if it moved; the sweep ends.
AdvanceCursor ==
    /\ sweep.pc = "batch" /\ sweep.todo = {}
    /\ cursor' = sweep.top
    /\ IF sweep.top = sweep.since THEN UNCHANGED crowded ELSE ToTheEnd
    /\ baseline' = IF sweep.since = 0 THEN sweep.top ELSE baseline
    /\ sweep' = Asleep
    /\ UNCHANGED <<clock, arrived, inbox, people, replies, faults, judged, strayed>>

\* Mutant: the failure of one message ends the batch but not the poll.
FailThenAdvance ==
    /\ sweep.pc \notin {"idle", "judged", "filed"} /\ faults < MaxFaults
    /\ faults' = faults + 1
    /\ cursor' = IF sweep.top > 0 THEN sweep.top ELSE cursor
    /\ UNCHANGED crowded
    /\ sweep' = Asleep
    /\ UNCHANGED <<clock, arrived, inbox, people, replies, baseline, judged, strayed>>

\* Mutant: no finally: the latch stays closed.
FailAndStay ==
    /\ sweep.pc \notin {"idle", "judged", "filed"} /\ faults < MaxFaults
    /\ faults' = faults + 1
    /\ sweep' = [sweep EXCEPT !.pc = "stuck"]
    /\ UNCHANGED <<clock, arrived, inbox, box, people, replies, baseline, judged, strayed>>

\* Mutant: the latch is released and the batch kept.
FailWithBatch ==
    /\ sweep.pc \notin {"idle", "judged", "filed"} /\ faults < MaxFaults
    /\ faults' = faults + 1
    /\ sweep' = [sweep EXCEPT !.pc = "idle"]
    /\ UNCHANGED <<clock, arrived, inbox, box, people, replies, baseline, judged, strayed>>

\* The engine is dormant, the classification or a write throws: the poll of
\* this mailbox ends, and with it everything not yet done.
SweepFails ==
    /\ sweep.pc \notin {"idle", "judged", "filed"} /\ faults < MaxFaults
    /\ faults' = faults + 1
    /\ sweep' = Asleep
    /\ UNCHANGED <<clock, arrived, inbox, box, people, replies, baseline, judged, strayed>>

\* Other mailboxes get mail, or are edited or switched off.
OthersMove ==
    /\ crowded /\ crowded' = FALSE
    /\ UNCHANGED <<clock, arrived, inbox, cursor, sweep, people, replies, faults, baseline,
                   judged, strayed>>

Restart ==
    /\ faults < MaxFaults
    /\ faults' = faults + 1
    /\ sweep' = Asleep
    /\ draft' = [d \in Drafters |-> NoDraft]
    /\ UNCHANGED <<clock, arrived, inbox, box, people, reply, baseline, judged, strayed>>

-----------------------------------------------------------------------------
(***************************************************************************)
(* A reply being drafted: draftReplyForInbound.                            *)
(***************************************************************************)
Ref(m) == <<ThreadOf[m], arrived[m]>>

SendsOf(t) == {m \in Messages : ThreadOf[m] = t /\ reply[m].mode = "SEND"}
Composes == {m \in Messages : reply[m].mode # "none"}

Drop(d) == draft' = [draft EXCEPT ![d] = NoDraft]

Ask(d, wants) ==
    draft' = [draft EXCEPT ![d] =
        [pc |-> "gated", at |-> draft[d].at, wants |-> wants,
         sends |-> Cardinality(SendsOf(ThreadOf[draft[d].at])),
         composes |-> Cardinality(Composes)]]

\* Mutant: the thread is over its cap one send later.
ReadGateOneMore(d) ==
    LET m == draft[d].at
    IN  /\ draft[d].pc = "asked"
        /\ IF paused \/ Kind[m] = "colleague" \/ Cardinality(Composes) >= MailboxCap
           THEN Drop(d)
           ELSE Ask(d, IF Cardinality(SendsOf(ThreadOf[m])) <= ThreadCap
                       THEN "SEND" ELSE "DRAFT")
        /\ UNCHANGED <<clock, arrived, inbox, box, sweep, people, reply, faults,
                       baseline, judged, strayed>>

\* One transaction reads the switches (the workspace's stands for the agent's
\* own), the sender and both counts.  A mailbox without a registered agent
\* asks for a draft, which is one outcome of asking for a send.
ReadGate(d) ==
    LET m == draft[d].at
    IN  /\ draft[d].pc = "asked"
        /\ IF paused \/ Kind[m] = "colleague" \/ Cardinality(Composes) >= MailboxCap
           THEN Drop(d)
           ELSE Ask(d, IF Cardinality(SendsOf(ThreadOf[m])) < ThreadCap
                       THEN "SEND" ELSE "DRAFT")
        /\ UNCHANGED <<clock, arrived, inbox, box, sweep, people, reply, faults,
                       baseline, judged, strayed>>

\* Neither attempt of the language model gave a text, or something threw.
GiveUp(d) ==
    /\ draft[d].pc = "gated"
    /\ Drop(d)
    /\ UNCHANGED <<clock, arrived, inbox, box, sweep, people, reply, faults,
                   baseline, judged, strayed>>

Record(d, mode) ==
    LET m == draft[d].at
    IN  reply' = [reply EXCEPT ![m] =
            [mode |-> mode, times |-> reply[m].times + 1,
             lateThread |-> Cardinality(SendsOf(ThreadOf[m])) # draft[d].sends,
             lateBox |-> Cardinality(Composes) # draft[d].composes]]

\* Mutant: the reply carries no reference of its message.
ComposeReplyAfresh(d) ==
    /\ draft[d].pc = "gated"
    /\ reply[draft[d].at].times < 2
    /\ IF paused THEN UNCHANGED reply
       ELSE \E mode \in {"DRAFT", draft[d].wants} : Record(d, mode)
    /\ Drop(d)
    /\ UNCHANGED <<clock, arrived, inbox, box, sweep, people, faults, baseline,
                   judged, strayed>>

\* composeEmail: an existing row of the tuple is the answer; the kill switch
\* refuses; the autonomy gate may hold what was asked as a send.
ComposeReply(d) ==
    /\ draft[d].pc = "gated"
    /\ IF paused \/ \E n \in Messages : reply[n].times > 0 /\ Ref(n) = Ref(draft[d].at)
       THEN UNCHANGED reply
       ELSE \E mode \in {"DRAFT", draft[d].wants} : Record(d, mode)
    /\ Drop(d)
    /\ UNCHANGED <<clock, arrived, inbox, box, sweep, people, faults, baseline,
                   judged, strayed>>

-----------------------------------------------------------------------------
(***************************************************************************)
(* The mailbox's people.                                                   *)
(***************************************************************************)
Edit == edits < MaxEdits /\ edits' = edits + 1

\* Set and remove of a sender policy.
SetPolicy(p, kind) ==
    /\ Edit
    /\ policy[p] # kind
    /\ policy' = [policy EXCEPT ![p] = kind]
    /\ UNCHANGED <<clock, arrived, inbox, box, sweep, disposition, filing, enabled,
                   paused, replies, faults, baseline, judged, strayed>>

\* applyThreadDisposition moves the thread at the engine, which may not
\* answer, and then writes the overlay.
MoveToFolder(t, to) ==
    /\ Edit
    /\ filing = NoFiling /\ Mail(t) # {}
    /\ filing' = [thread |-> t, to |-> to]
    /\ \/ to = "INBOX" /\ BringBack(t)
       \/ to # "INBOX" /\ TakeOut(t)
       \/ UNCHANGED <<inbox, strayed>>
    /\ UNCHANGED <<clock, arrived, box, sweep, policy, disposition, enabled, paused,
                   replies, faults, baseline, judged>>

WriteDisposition ==
    /\ filing # NoFiling
    /\ disposition' = [disposition EXCEPT ![filing.thread] = filing.to]
    /\ filing' = NoFiling
    /\ UNCHANGED <<clock, arrived, inbox, box, sweep, policy, enabled, paused, edits,
                   replies, faults, baseline, judged, strayed>>

\* A rule is switched on or off, or the workspace's agents are.
SwitchRule(i) ==
    /\ Edit
    /\ enabled' = IF i \in enabled THEN enabled \ {i} ELSE enabled \cup {i}
    /\ UNCHANGED <<clock, arrived, inbox, box, sweep, policy, disposition, filing,
                   paused, replies, faults, baseline, judged, strayed>>

\* The mailbox's own row is edited; it stays active.
UpdateMailbox ==
    /\ Edit
    /\ ToTheEnd
    /\ UNCHANGED <<clock, arrived, inbox, cursor, sweep, policy, disposition, filing,
                   enabled, paused, replies, faults, baseline, judged, strayed>>

SwitchAgents ==
    /\ Edit
    /\ paused' = ~paused
    /\ UNCHANGED <<clock, arrived, inbox, box, sweep, policy, disposition, filing,
                   enabled, replies, faults, baseline, judged, strayed>>

-----------------------------------------------------------------------------
SweepStep ==
    \/ StartSweep \/ PollInbound \/ JudgeNext \/ WriteVerdict \/ ApplyRules
    \/ HandOff \/ AdvanceCursor

DraftStep(d) == ReadGate(d) \/ GiveUp(d) \/ ComposeReply(d)

Next ==
    \/ \E m \in Messages : Arrive(m)
    \/ Tick
    \/ SweepStep
    \/ SweepFails
    \/ Restart
    \/ \E d \in Drafters : DraftStep(d)
    \/ \E p \in Patterns, kind \in {"none", "ALLOW", "BLOCK"} : SetPolicy(p, kind)
    \/ \E t \in Threads, to \in Places \ {"none"} : MoveToFolder(t, to)
    \/ WriteDisposition
    \/ \E i \in Rules : SwitchRule(i)
    \/ SwitchAgents
    \/ UpdateMailbox
    \/ OthersMove

Spec == Init /\ [][Next]_vars

\* The cron starts a sweep every minute and its awaits return, for as long as
\* the mailbox is among those taken; a draft ends at its time limits at the
\* latest.  Nothing makes the other mailboxes move.
FairSpec == Spec /\ WF_vars(SweepStep) /\ \A d \in Drafters : WF_vars(DraftStep(d))

-----------------------------------------------------------------------------
(***************************************************************************)
(* Promises.                                                               *)
(***************************************************************************)

(***************************************************************************)
(* "ONE compose per inbound message; watcher retries are safe" (the header *)
(* of agent-reply.service.ts): a batch polled again after a failure, while *)
(* its first drafts are still at the language model, adds no second reply; *)
(* nor do two messages one reference stands for get two.                   *)
(***************************************************************************)
AnsweredOnce ==
    /\ \A m \in Messages : reply[m].times <= 1
    /\ \A m, n \in Messages :
          (reply[m].times > 0 /\ reply[n].times > 0 /\ Ref(m) = Ref(n)) => m = n

(***************************************************************************)
(* The caps on replies are exceeded only by replies that were decided on a *)
(* count other replies had meanwhile outdated: a reply alone in flight     *)
(* keeps both (the gate read and the compose of draftReplyForInbound).     *)
(***************************************************************************)
CapsHoldButForRaces ==
    /\ \A t \in Threads :
          Cardinality(SendsOf(t)) <=
              ThreadCap + Cardinality({m \in SendsOf(t) : reply[m].lateThread})
    /\ Cardinality(Composes) <=
              MailboxCap + Cardinality({m \in Composes : reply[m].lateBox})

(***************************************************************************)
(* The cursor passes a message that was never classified in three cases    *)
(* only: it was there at the first poll, as many newer messages as a poll  *)
(* returns stood before it, or it shares its second with another message;  *)
(* unless something took its thread out of the Inbox first.  A failed      *)
(* batch, a restart or a race with an arrival loses none (pollOne writes   *)
(* the cursor after the batch).                                            *)
(***************************************************************************)
SkipsHaveACause ==
    \A m \in Messages : (0 < arrived[m] /\ arrived[m] <= cursor /\ m \notin judged) =>
        \/ arrived[m] <= baseline
        \/ Cardinality({n \in Messages : arrived[n] >= arrived[m]}) > Limit
        \/ \E n \in Messages \ {m} : arrived[n] = arrived[m]
        \/ m \in strayed

(***************************************************************************)
(* The watcher catches up: again and again no mail in the Inbox is newer   *)
(* than the cursor and still to be classified.  A failed sweep releases    *)
(* the latch (the finally of scheduledSweep) and its batch is polled again.*)
(* The one exception is a mailbox that from some time on always has 500    *)
(* others before it, written longer ago and never since (the take and the  *)
(* order of runSweep).                                                     *)
(***************************************************************************)
Behind == \E m \in inbox : arrived[m] > cursor /\ m \notin judged

CatchesUp == []<>(cursor > 0 /\ ~Behind) \/ <>[]crowded
=============================================================================
