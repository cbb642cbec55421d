--------------------------- MODULE NativeCleanup ----------------------------
(***************************************************************************)
(* The agent inbox's batches over the sovereign mailbox ("archive these    *)
(* threads"): staged by the assistant, approved or rejected by people      *)
(* (EmailService.stageNativeCleanup, runNativeCleanup and the cleanup      *)
(* branches of approveAgentInboxItem and rejectAgentInboxItem), while two  *)
(* background writers keep notes in the item's payload: a listing fills in *)
(* the preview of an item that lacks one (backfillNativeCleanupTargets)    *)
(* and the hourly sweep of notify/ stamps the reminders it posted.         *)
(*                                                                         *)
(* A payload column is written whole.  Of its keys the model keeps the two *)
(* that change: is there a preview, and when was the item last reminded.   *)
(* The list's 200 and the sweep's 500 rows are not reached; a set stands   *)
(* for a list wherever the order of independent calls shows in no row.     *)
(* One process runs the sweep: its latch is that process's memory, and a   *)
(* second one's sweep is left out.                                         *)
(***************************************************************************)
EXTENDS Naturals, FiniteSets, FiniteSetsExt, Functions

CONSTANTS
    Items,
    Threads,
    ThreadsOf,   \* the threads of each batch
    Target,      \* where each batch files them
    Legacy,      \* batches staged before previews were stored, still pending
    Callers,     \* bound: reviews under way at one time
    Readers,     \* bound: listings under way at one time
    NoItem,
    Take,        \* items one listing backfills
    Interval,    \* STALE_AFTER_MS and REMIND_INTERVAL_MS
    MaxClock,    \* bound: the last instant
    Filed,       \* bound: what people file themselves, [thread, to]
    MaxFilings,  \* bound: how often they do
    MaxFaults    \* bound: failures and restarts

ASSUME BatchAssumption ==
    /\ NoItem \notin Items
    /\ ThreadsOf \in [Items -> (SUBSET Threads) \ {{}}]
    /\ Target \in [Items -> {"ARCHIVE", "TRASH"}]
    /\ Legacy \subseteq Items
    /\ Filed \subseteq [thread : Threads, to : {"INBOX", "ARCHIVE", "TRASH"}]

ASSUME BoundsAssumption ==
    /\ Take \in Nat \ {0} /\ Interval \in Nat /\ MaxClock \in Nat \ {0}
    /\ MaxFilings \in Nat /\ MaxFaults \in Nat

VARIABLES
    clock,
    item,      \* agent_inbox_items
    folder,    \* the engine's folder of each thread
    overlay,   \* thread_dispositions
    review,    \* approvals and rejections under way
    listing,   \* the payloads a listing has read and is to complete
    sweep,     \* the reminder sweep's latch and the payloads it has read
    filings, faults,
    touched,   \* history: items whose approval has moved or tagged a thread
    crossed,   \* history: items whose approval died, or whose rejection was late
    refiled    \* history: threads filed by others since an item tagged them

mail == <<folder, overlay>>
past == <<touched, crossed, refiled>>
vars == <<clock, item, folder, overlay, review, listing, sweep, filings, faults,
          touched, crossed, refiled>>

-----------------------------------------------------------------------------
Instants == 0..MaxClock
Payload == [targets : BOOLEAN, reminded : Instants]
Item == [state : {"none", "PENDING", "APPROVED", "REJECTED"}, born : Instants, payload : Payload]
Places == {"INBOX", "ARCHIVE", "TRASH"}

PartialOf(S, T) == UNION {[D -> T] : D \in SUBSET S}
Nothing == [i \in {} |-> 0]

NoReview == [pc |-> "idle", at |-> NoItem, todo |-> {}]
Review == [pc : {"moving", "tagged", "rejecting"}, at : Items, todo : SUBSET Threads]

Asleep == [pc |-> "idle", now |-> 0, due |-> Nothing]

TypeOK ==
    /\ clock \in Instants \ {0}
    /\ item \in [Items -> Item]
    /\ folder \in [Threads -> Places] /\ overlay \in [Threads -> Places \cup {"none"}]
    /\ review \in [Callers -> Review \cup {NoReview}]
    /\ listing \in [Readers -> PartialOf(Items, Payload)]
    /\ sweep \in [pc : {"posted"}, now : Instants, due : PartialOf(Items, Payload)]
                 \cup {Asleep}
    /\ filings \in 0..MaxFilings /\ faults \in 0..MaxFaults
    /\ touched \subseteq Items /\ crossed \subseteq Items
    /\ refiled \in [Items -> SUBSET Threads]

Bare == [targets |-> FALSE, reminded |-> 0]

Init ==
    /\ clock = 1
    /\ item = [i \in Items |-> [state |-> IF i \in Legacy THEN "PENDING" ELSE "none",
                               born |-> 0, payload |-> Bare]]
    /\ folder = [t \in Threads |-> "INBOX"] /\ overlay = [t \in Threads |-> "none"]
    /\ review = [r \in Callers |-> NoReview]
    /\ listing = [l \in Readers |-> Nothing]
    /\ sweep = Asleep
    /\ filings = 0 /\ faults = 0
    /\ touched = {} /\ crossed = {} /\ refiled = [i \in Items |-> {}]

Tick ==
    /\ clock < MaxClock
    /\ clock' = clock + 1
    /\ UNCHANGED <<item, mail, review, listing, sweep, filings, faults, past>>

Fault == faults < MaxFaults /\ faults' = faults + 1

Pending(i) == item[i].state = "PENDING"

\* Staging resolves the preview first; a record is stored whatever it found.
StageNativeCleanup(i) ==
    /\ item[i].state = "none"
    /\ item' = [item EXCEPT ![i] = [state |-> "PENDING", born |-> clock,
                                    payload |-> [targets |-> TRUE, reminded |-> 0]]]
    /\ UNCHANGED <<clock, mail, review, listing, sweep, filings, faults, past>>

-----------------------------------------------------------------------------
(***************************************************************************)
(* Reviews.  An approval reads the item, moves each thread at the engine,  *)
(* tags them all and closes the item by id, whatever it is by then.        *)
(***************************************************************************)
ApproveRead(r, i) ==
    /\ review[r] = NoReview /\ Pending(i)
    /\ review' = [review EXCEPT ![r] = [pc |-> "moving", at |-> i, todo |-> ThreadsOf[i]]]
    /\ UNCHANGED <<clock, item, mail, listing, sweep, filings, faults, past>>

\* A mailbox that cannot be reached leaves the thread where it is.
MoveThread(r, t) ==
    /\ review[r].pc = "moving" /\ t \in review[r].todo
    /\ \/ /\ folder' = [folder EXCEPT ![t] = Target[review[r].at]]
          /\ touched' = touched \cup {review[r].at}
       \/ UNCHANGED <<folder, touched>>
    /\ review' = [review EXCEPT ![r].todo = @ \ {t}]
    /\ UNCHANGED <<clock, item, overlay, listing, sweep, filings, faults, crossed, refiled>>

\* What tagging threads, by an item or by a person, does to others' tags.
Refiled(mine, threads) ==
    [i \in Items |-> IF i \in mine THEN {} ELSE refiled[i] \cup threads]

Moved(r) == review[r].pc = "moving" /\ review[r].todo = {}

TagOverlay(r) ==
    /\ Moved(r)
    /\ LET i == review[r].at IN
         /\ overlay' = [t \in Threads |-> IF t \in ThreadsOf[i] THEN Target[i] ELSE overlay[t]]
         /\ touched' = touched \cup {i}
         /\ refiled' = Refiled({i}, ThreadsOf[i])
    /\ review' = [review EXCEPT ![r].pc = "tagged"]
    /\ UNCHANGED <<clock, item, folder, listing, sweep, filings, faults, crossed>>

\* Mutant: the item is closed only if it is still pending.
ApproveWriteFenced(r) ==
    /\ review[r].pc = "tagged"
    /\ item' = IF Pending(review[r].at)
               THEN [item EXCEPT ![review[r].at].state = "APPROVED"] ELSE item
    /\ review' = [review EXCEPT ![r] = NoReview]
    /\ UNCHANGED <<clock, mail, listing, sweep, filings, faults, past>>

ApproveWrite(r) ==
    /\ review[r].pc = "tagged"
    /\ item' = [item EXCEPT ![review[r].at].state = "APPROVED"]
    /\ review' = [review EXCEPT ![r] = NoReview]
    /\ UNCHANGED <<clock, mail, listing, sweep, filings, faults, past>>

\* Mutant: a request that failed still holds its item.
ApproveFailsHolding(r) ==
    /\ Moved(r) \/ review[r].pc = "tagged"
    /\ Fault
    /\ crossed' = crossed \cup {review[r].at}
    /\ review' = [review EXCEPT ![r].pc = "idle"]
    /\ UNCHANGED <<clock, item, mail, listing, sweep, filings, touched, refiled>>

\* Either transaction fails: the caller gets the error, the moves stay.
ApproveFails(r) ==
    /\ Moved(r) \/ review[r].pc = "tagged"
    /\ Fault
    /\ crossed' = crossed \cup {review[r].at}
    /\ review' = [review EXCEPT ![r] = NoReview]
    /\ UNCHANGED <<clock, item, mail, listing, sweep, filings, touched, refiled>>

RejectRead(r, i) ==
    /\ review[r] = NoReview /\ Pending(i)
    /\ review' = [review EXCEPT ![r] = [pc |-> "rejecting", at |-> i, todo |-> {}]]
    /\ UNCHANGED <<clock, item, mail, listing, sweep, filings, faults, past>>

\* Read and write are one transaction, and the write goes by id: a verdict
\* committed in between is overwritten.
RejectWrite(r) ==
    /\ review[r].pc = "rejecting"
    /\ LET i == review[r].at IN
         /\ item' = [item EXCEPT ![i].state = "REJECTED"]
         /\ crossed' = IF Pending(i) THEN crossed ELSE crossed \cup {i}
    /\ review' = [review EXCEPT ![r] = NoReview]
    /\ UNCHANGED <<clock, mail, listing, sweep, filings, faults, touched, refiled>>

-----------------------------------------------------------------------------
(***************************************************************************)
(* A listing completes the previews of the newest items that lack one.     *)
(***************************************************************************)
Bared == {i \in Items : Pending(i) /\ ~item[i].payload.targets}

ListAgentInbox(l) ==
    /\ listing[l] = Nothing /\ Bared # {}
    /\ \E S \in SUBSET Bared :
         /\ Cardinality(S) = Min({Take, Cardinality(Bared)})
         /\ \A i \in S, j \in Bared \ S : item[i].born >= item[j].born
         /\ listing' = [listing EXCEPT ![l] = [i \in S |-> item[i].payload]]
    /\ UNCHANGED <<clock, item, mail, review, sweep, filings, faults, past>>

\* updateMany fenced on PENDING, of the whole column.
WritePayload(i, payload) ==
    item' = IF Pending(i) THEN [item EXCEPT ![i].payload = payload] ELSE item

\* No thread of it found in the inbox, or the write failed: left as it is.
BackfillTargets(l, i) ==
    /\ i \in DOMAIN listing[l]
    /\ \/ /\ \E t \in ThreadsOf[i] : folder[t] = "INBOX"
          /\ WritePayload(i, [listing[l][i] EXCEPT !.targets = TRUE])
       \/ UNCHANGED item
    /\ listing' = [listing EXCEPT ![l] = Restrict(@, DOMAIN @ \ {i})]
    /\ UNCHANGED <<clock, mail, review, sweep, filings, faults, past>>

-----------------------------------------------------------------------------
(***************************************************************************)
(* The hourly sweep: read what is due, post one digest, stamp each item.   *)
(***************************************************************************)
Due == {i \in Items :
            /\ Pending(i) /\ item[i].born + Interval < clock
            /\ \/ item[i].payload.reminded = 0
               \/ item[i].payload.reminded + Interval < clock}

\* Reads and posts; nothing is kept of a post that was not acknowledged.
SweepPost ==
    /\ sweep = Asleep /\ Due # {}
    /\ sweep' = [pc |-> "posted", now |-> clock, due |-> [i \in Due |-> item[i].payload]]
    /\ UNCHANGED <<clock, item, mail, review, listing, filings, faults, past>>

\* Mutant: the stamp replaces the payload.
ReplaceNotifyStamp(payload, now) == [targets |-> FALSE, reminded |-> now]

MergeNotifyStamp(payload, now) == [payload EXCEPT !.reminded = now]

SweepStamp(i) ==
    /\ sweep.pc = "posted" /\ i \in DOMAIN sweep.due
    /\ WritePayload(i, MergeNotifyStamp(sweep.due[i], sweep.now)) \/ UNCHANGED item
    /\ sweep' = IF DOMAIN sweep.due = {i} THEN Asleep
                ELSE [sweep EXCEPT !.due = Restrict(@, DOMAIN @ \ {i})]
    /\ UNCHANGED <<clock, mail, review, listing, filings, faults, past>>

-----------------------------------------------------------------------------
(***************************************************************************)
(* People file threads themselves (applyThreadDisposition): the engine,    *)
(* where it can be reached, then the overlay; nothing here tells the two   *)
(* writes apart.                                                           *)
(***************************************************************************)
FileThread(f) ==
    /\ filings < MaxFilings
    /\ filings' = filings + 1
    /\ folder' \in {folder, [folder EXCEPT ![f.thread] = f.to]}
    /\ overlay' = [overlay EXCEPT ![f.thread] = f.to]
    /\ refiled' = Refiled({}, {f.thread})
    /\ UNCHANGED <<clock, item, review, listing, sweep, faults, touched, crossed>>

\* The process dies with everything it had under way.
Restart ==
    /\ Fault
    /\ crossed' = crossed \cup {review[r].at : r \in {r \in Callers : review[r] # NoReview}}
    /\ review' = [r \in Callers |-> NoReview]
    /\ listing' = [l \in Readers |-> Nothing]
    /\ sweep' = Asleep
    /\ UNCHANGED <<clock, item, mail, filings, touched, refiled>>

Next ==
    \/ Tick
    \/ \E i \in Items : StageNativeCleanup(i)
    \/ \E r \in Callers, i \in Items : ApproveRead(r, i) \/ RejectRead(r, i)
    \/ \E r \in Callers, t \in Threads : MoveThread(r, t)
    \/ \E r \in Callers : TagOverlay(r) \/ ApproveWrite(r) \/ ApproveFails(r) \/ RejectWrite(r)
    \/ \E l \in Readers : ListAgentInbox(l)
    \/ \E l \in Readers, i \in Items : BackfillTargets(l, i)
    \/ SweepPost
    \/ \E i \in Items : SweepStamp(i)
    \/ \E f \in Filed : FileThread(f)
    \/ Restart

Spec == Init /\ [][Next]_vars

-----------------------------------------------------------------------------
Approving(i) == \E r \in Callers : review[r].at = i /\ review[r].pc \in {"moving", "tagged"}

(***************************************************************************)
(* What the queue says of a batch is what happened to the mail.  A         *)
(* rejected batch has moved nothing, unless an approval is still at it,    *)
(* died half way, or was overwritten by a rejection that had read earlier  *)
(* ("Nothing moves until a human approves"); and every thread of an        *)
(* approved one is tagged for the views, wherever the engine could be      *)
(* reached, until somebody files it anew ("the overlay is always tagged"). *)
(***************************************************************************)
VerdictMatchesMail ==
    \A i \in Items :
        /\ item[i].state = "REJECTED" /\ i \in touched =>
               i \in crossed \/ Approving(i)
        /\ item[i].state = "APPROVED" =>
               \A t \in ThreadsOf[i] : overlay[t] = Target[i] \/ t \in refiled[i]

(***************************************************************************)
(* "MERGED into the existing payload ... every other key [is] preserved":  *)
(* the two writers lose each other's key only when the copy they write     *)
(* back was read before the other wrote, and neither touches an item that  *)
(* has been reviewed.                                                      *)
(***************************************************************************)
PayloadIsMerged ==
    [][\A i \in Items :
         LET before == item[i].payload
             after  == item'[i].payload
         IN  /\ before.targets /\ ~after.targets =>
                    i \in DOMAIN sweep.due /\ ~sweep.due[i].targets
             /\ after.reminded < before.reminded =>
                    \E l \in Readers : /\ i \in DOMAIN listing[l]
                                       /\ listing[l][i].reminded < before.reminded
             /\ item[i].state \in {"APPROVED", "REJECTED"} => after = before]_vars
=============================================================================
