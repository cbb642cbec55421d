---------------------------- MODULE CleanupBatch ----------------------------
(***************************************************************************)
(* Cleanup of a connected Gmail or Outlook account                         *)
(* (backend/src/connected-accounts/connected-accounts.service.ts,          *)
(* archive-retention.service.ts, and the CLEANUP branches of approval and  *)
(* rejection in email/email.service.ts).                                   *)
(*                                                                         *)
(* A permanent delete first writes an archive of the messages to object    *)
(* storage and verifies it; undo imports that archive again; the retention *)
(* sweep deletes archives that have expired.  Nothing claims the batch     *)
(* while the provider works: the row is read before and written after.     *)
(***************************************************************************)
EXTENDS Naturals, FiniteSets

CONSTANTS
    Messages,
    Batches,
    Plan,       \* [Batches -> SUBSET Messages]: the messages a batch is to clean
    Deletes,    \* the batches that delete; the others move to the trash
    Attempts,   \* requests that execute a batch, each naming the archive it writes
    NoAttempt,  \* no archive
    NoBatch,    \* what an idle request is working on
    Undoers,    \* undo requests
    Sweepers    \* backend processes running the retention sweep

ASSUME NamesAssumption == NoAttempt \notin Attempts /\ NoBatch \notin Batches

ASSUME PlanAssumption == Plan \in [Batches -> SUBSET Messages] /\ Deletes \subseteq Batches

VARIABLES
    mail,       \* where the provider keeps each message
    by,         \* history: the attempt that deleted a message
    restored,   \* messages of which an archive brought a copy back
    archive,    \* the object each attempt wrote to storage
    aged,       \* attempts whose archive is past its seven days
    row,        \* cleanup_batches
    item,       \* the inbox item a batch was staged with
    attempt,    \* what each executing request holds in memory
    rejecting,  \* batches whose item a rejection has read as PENDING
    undo,       \* what each undo request holds in memory
    sweep,      \* what each retention sweep holds in memory
    ran,        \* history: batches the provider confirmed
    unrecorded  \* history: batches deleted by a request that wrote no archive key

requests == <<attempt, rejecting, undo, sweep>>
history == <<by, ran, unrecorded>>
vars == <<mail, restored, archive, aged, row, item, requests, history>>

-----------------------------------------------------------------------------
NoRow == [state |-> "none", key |-> NoAttempt, undone |-> FALSE]

Row == [state : {"none", "PENDING", "COMPLETED", "FAILED", "UNDONE"},
        key : Attempts \cup {NoAttempt}, undone : BOOLEAN]

Unused == [pc |-> "idle", batch |-> NoBatch, direct |-> FALSE, vault |-> FALSE]
NoUndo == [pc |-> "idle", batch |-> NoBatch, key |-> NoAttempt]
NoSweep == [todo |-> {}, at |-> <<NoBatch, NoAttempt>>]

\* "ran": the batch is recorded as completed, the item is not yet approved.
AttemptState ==
    [pc : {"read", "archived", "verified", "applied", "failed", "ran", "done"},
     batch : Batches, direct : BOOLEAN, vault : BOOLEAN]
UndoState == [pc : {"read", "restored"}, batch : Batches, key : Attempts]
SweepState == [todo : SUBSET (Batches \X Attempts),
               at : (Batches \cup {NoBatch}) \X (Attempts \cup {NoAttempt})]

TypeOK ==
    /\ mail \in [Messages -> {"kept", "trashed", "deleted"}]
    /\ by \in [Messages -> Attempts \cup {NoAttempt}]
    /\ restored \subseteq Messages
    /\ archive \in [Attempts -> {"none", "damaged", "sound"}]
    /\ aged \subseteq Attempts
    /\ row \in [Batches -> Row]
    /\ item \in [Batches -> {"none", "PENDING", "APPROVED", "REJECTED"}]
    /\ attempt \in [Attempts -> AttemptState \cup {Unused}]
    /\ rejecting \subseteq Batches
    /\ undo \in [Undoers -> UndoState \cup {NoUndo}]
    /\ sweep \in [Sweepers -> SweepState]
    /\ ran \subseteq Batches
    /\ unrecorded \subseteq Batches

Init ==
    /\ mail = [m \in Messages |-> "kept"] /\ by = [m \in Messages |-> NoAttempt]
    /\ restored = {}
    /\ archive = [a \in Attempts |-> "none"] /\ aged = {}
    /\ row = [b \in Batches |-> NoRow] /\ item = [b \in Batches |-> "none"]
    /\ attempt = [a \in Attempts |-> Unused]
    /\ rejecting = {}
    /\ undo = [u \in Undoers |-> NoUndo]
    /\ sweep = [s \in Sweepers |-> NoSweep]
    /\ ran = {} /\ unrecorded = {}

-----------------------------------------------------------------------------
(***************************************************************************)
(* Staging, and the verdicts on the staged item.                           *)
(***************************************************************************)
Unclaimed(b) == row[b] = NoRow /\ \A a \in Attempts : attempt[a].batch # b

StageCleanupRequest(b) ==
    /\ Unclaimed(b)
    /\ row' = [row EXCEPT ![b].state = "PENDING"]
    /\ item' = [item EXCEPT ![b] = "PENDING"]
    /\ UNCHANGED <<mail, restored, archive, aged, requests, history>>

At(a, pc) == attempt[a].pc = pc
Goes(a, pc) == attempt' = [attempt EXCEPT ![a].pc = pc]
BatchOf(a) == attempt[a].batch

\* approveCleanupBatch reads the row; the vault entitlement is the user's.
ApproveRead(a, b, vault) ==
    /\ At(a, "idle")
    /\ item[b] = "PENDING" /\ row[b].state = "PENDING"
    /\ attempt' = [attempt EXCEPT ![a] =
          [pc |-> "read", batch |-> b, direct |-> FALSE, vault |-> vault]]
    /\ UNCHANGED <<mail, restored, archive, aged, row, item, rejecting, undo, sweep, history>>

\* Mutant: any batch that is no longer pending counts as executed.
ReportsAnyVerdict(b) == row[b].state \in {"COMPLETED", "UNDONE", "FAILED"}

\* A failed batch is reported as failed and is not run again.
ReportsSuccess(b) == row[b].state \in {"COMPLETED", "UNDONE"}

\* A batch that has run only has its item approved.
ApproveAgain(a, b) ==
    /\ At(a, "idle")
    /\ item[b] = "PENDING" /\ ReportsSuccess(b)
    /\ attempt' = [attempt EXCEPT ![a] =
          [pc |-> "ran", batch |-> b, direct |-> FALSE, vault |-> FALSE]]
    /\ UNCHANGED <<mail, restored, archive, aged, row, item, rejecting, undo, sweep, history>>

\* Written by id, whatever has become of the item since it was read.
ApproveItem(a) ==
    /\ At(a, "ran")
    /\ item' = [item EXCEPT ![BatchOf(a)] = "APPROVED"]
    /\ Goes(a, "done")
    /\ UNCHANGED <<mail, restored, archive, aged, row, rejecting, undo, sweep, history>>

RejectRead(b) ==
    /\ item[b] = "PENDING"
    /\ rejecting' = rejecting \cup {b}
    /\ UNCHANGED <<mail, restored, archive, aged, row, item, attempt, undo, sweep, history>>

\* The batch keeps its state.
RejectCommit(b) ==
    /\ b \in rejecting
    /\ item' = [item EXCEPT ![b] = "REJECTED"]
    /\ rejecting' = rejecting \ {b}
    /\ UNCHANGED <<mail, restored, archive, aged, row, attempt, undo, sweep, history>>

\* executeCleanup: the user's own request, with no staged batch.
ExecuteCleanup(a, b, vault) ==
    /\ At(a, "idle") /\ Unclaimed(b)
    /\ attempt' = [attempt EXCEPT ![a] =
          [pc |-> "read", batch |-> b, direct |-> TRUE, vault |-> vault]]
    /\ UNCHANGED <<mail, restored, archive, aged, row, item, rejecting, undo, sweep, history>>

-----------------------------------------------------------------------------
(***************************************************************************)
(* executeCleanupInternal and executeCleanup: archive, verify, delete; or  *)
(* only move to the trash.                                                 *)
(***************************************************************************)
PlanOf(a) == Plan[BatchOf(a)]
IsDelete(a) == BatchOf(a) \in Deletes

\* create_archive exports every message of the plan or fails.  Whether the
\* upload is whole is what the verification finds out.
ArchiveCreate(a) ==
    /\ At(a, "read") /\ IsDelete(a)
    /\ \A m \in PlanOf(a) : mail[m] # "deleted"
    /\ \E upload \in {"damaged", "sound"} : archive' = [archive EXCEPT ![a] = upload]
    /\ Goes(a, "archived")
    /\ UNCHANGED <<mail, restored, aged, row, item, rejecting, undo, sweep, history>>

\* Mutant: the answer of the verification is not looked at.
VerifyAnything(a) ==
    /\ At(a, "archived")
    /\ Goes(a, "verified")
    /\ UNCHANGED <<mail, restored, archive, aged, row, item, rejecting, undo, sweep, history>>

ArchiveVerify(a) ==
    /\ At(a, "archived") /\ archive[a] = "sound"
    /\ Goes(a, "verified")
    /\ UNCHANGED <<mail, restored, archive, aged, row, item, rejecting, undo, sweep, history>>

\* Engine or storage down, a message gone, a damaged upload; an upload
\* whose answer was lost stays in storage.
ArchiveFails(a) ==
    /\ \/ At(a, "read") /\ IsDelete(a)
       \/ At(a, "archived")
    /\ \/ UNCHANGED archive
       \/ /\ At(a, "read") /\ \A m \in PlanOf(a) : mail[m] # "deleted"
          /\ archive' = [archive EXCEPT ![a] = "sound"]
    /\ Goes(a, "failed")
    /\ UNCHANGED <<mail, restored, aged, row, item, rejecting, undo, sweep, history>>

\* Messages that were deleted before stay as they are.
DeleteAtProvider(a, gone) ==
    LET now == {m \in gone : mail[m] # "deleted"}
    IN  /\ mail' = [m \in Messages |-> IF m \in now THEN "deleted" ELSE mail[m]]
        /\ by' = [m \in Messages |-> IF m \in now THEN a ELSE by[m]]

MoveToTrash(moved) ==
    mail' = [m \in Messages |-> IF m \in moved /\ mail[m] = "kept" THEN "trashed" ELSE mail[m]]

\* The provider confirms a count, which may fall short of the plan.
BatchDelete(a) ==
    /\ At(a, "verified")
    /\ \E gone \in SUBSET PlanOf(a) : DeleteAtProvider(a, gone)
    /\ ran' = ran \cup {BatchOf(a)}
    /\ Goes(a, "applied")
    /\ UNCHANGED <<restored, archive, aged, row, item, rejecting, undo, sweep, unrecorded>>

BatchTrash(a) ==
    /\ At(a, "read") /\ ~IsDelete(a)
    /\ \E moved \in SUBSET PlanOf(a) : MoveToTrash(moved)
    /\ ran' = ran \cup {BatchOf(a)}
    /\ Goes(a, "applied")
    /\ UNCHANGED <<restored, archive, aged, row, item, rejecting, undo, sweep, by, unrecorded>>

\* assertEngineApplied: the provider did not confirm, whatever it has done.
DeleteFails(a) ==
    /\ At(a, "verified")
    /\ \E gone \in SUBSET PlanOf(a) : DeleteAtProvider(a, gone)
    /\ unrecorded' = unrecorded \cup {BatchOf(a)}
    /\ Goes(a, "failed")
    /\ UNCHANGED <<restored, archive, aged, row, item, rejecting, undo, sweep, ran>>

TrashFails(a) ==
    /\ At(a, "read") /\ ~IsDelete(a)
    /\ \E moved \in SUBSET PlanOf(a) : MoveToTrash(moved)
    /\ Goes(a, "failed")
    /\ UNCHANGED <<restored, archive, aged, row, item, rejecting, undo, sweep, history>>

\* Mutant: the key the row had when it was read is kept.
KeyAsRead(a) == NoAttempt

\* backup_ref: the archive of this run, or what the row had when it was read.
KeyToRecord(a) == IF IsDelete(a) THEN a ELSE NoAttempt

\* Written by id, whatever another approval or an undo has made of the row.
RecordCompleted(a) ==
    /\ At(a, "applied") /\ ~attempt[a].direct
    /\ row' = [row EXCEPT ![BatchOf(a)].state = "COMPLETED", ![BatchOf(a)].key = KeyToRecord(a)]
    /\ Goes(a, "ran")
    /\ UNCHANGED <<mail, restored, archive, aged, item, rejecting, undo, sweep, history>>

RecordFailed(a) ==
    /\ At(a, "failed") /\ ~attempt[a].direct
    /\ row' = [row EXCEPT ![BatchOf(a)].state = "FAILED"]
    /\ Goes(a, "done")
    /\ UNCHANGED <<mail, restored, archive, aged, item, rejecting, undo, sweep, history>>

\* The row of a direct cleanup is inserted after everything has happened.
DirectCommit(a) ==
    /\ At(a, "applied") /\ attempt[a].direct
    /\ row' = [row EXCEPT ![BatchOf(a)] =
          [state |-> "COMPLETED", key |-> KeyToRecord(a), undone |-> FALSE]]
    /\ Goes(a, "done")
    /\ UNCHANGED <<mail, restored, archive, aged, item, rejecting, undo, sweep, history>>

\* The process dies, a write fails, the five seconds of the surrounding
\* transaction run out: what was done at the provider stays done.
AttemptDies(a) ==
    /\ attempt[a].pc \notin {"idle", "done"}
    /\ Goes(a, "done")
    /\ unrecorded' = IF At(a, "applied") THEN unrecorded \cup {BatchOf(a)} ELSE unrecorded
    /\ UNCHANGED <<mail, restored, archive, aged, row, item, rejecting, undo, sweep, by, ran>>

-----------------------------------------------------------------------------
(***************************************************************************)
(* undoBatch.                                                              *)
(***************************************************************************)
Retained(a) == attempt[a].vault
Expired(a) == ~Retained(a) /\ a \in aged

\* Mutant: what has completed and is not undone can be undone.
LiveWhenCompleted(b) == row[b].state = "COMPLETED" /\ ~row[b].undone

\* Any row with an archive that is neither restored nor expired, whatever
\* its state.
ArchiveLive(b) ==
    row[b].key # NoAttempt /\ ~row[b].undone /\ ~Expired(row[b].key)

UndoRead(u, b) ==
    /\ undo[u].pc = "idle"
    /\ ArchiveLive(b)
    /\ undo' = [undo EXCEPT ![u] = [pc |-> "read", batch |-> b, key |-> row[b].key]]
    /\ UNCHANGED <<mail, restored, archive, aged, row, item, attempt, rejecting, sweep, history>>

\* Mutant: an answer is taken for a full restore.
RestoresSome(u) ==
    /\ undo[u].pc = "read" /\ archive[undo[u].key] # "none"
    /\ \E back \in SUBSET Plan[undo[u].batch] : restored' = restored \cup back
    /\ undo' = [undo EXCEPT ![u].pc = "restored"]
    /\ UNCHANGED <<mail, archive, aged, row, item, attempt, rejecting, sweep, history>>

\* restore_archive imports every entry, and none of them failed.
ArchiveRestore(u) ==
    /\ undo[u].pc = "read" /\ archive[undo[u].key] = "sound"
    /\ restored' = restored \cup Plan[undo[u].batch]
    /\ undo' = [undo EXCEPT ![u].pc = "restored"]
    /\ UNCHANGED <<mail, archive, aged, row, item, attempt, rejecting, sweep, history>>

\* Some imports failed, or there is no answer, or no archive: the row is
\* left alone.
RestoreFails(u) ==
    /\ undo[u].pc = "read"
    /\ \E back \in SUBSET Plan[undo[u].batch] :
          /\ back = {} \/ archive[undo[u].key] = "sound"
          /\ restored' = restored \cup back
    /\ undo' = [undo EXCEPT ![u] = NoUndo]
    /\ UNCHANGED <<mail, archive, aged, row, item, attempt, rejecting, sweep, history>>

UndoRecord(u) ==
    /\ undo[u].pc = "restored"
    /\ row' = [row EXCEPT ![undo[u].batch].state = "UNDONE", ![undo[u].batch].undone = TRUE]
    /\ undo' = [undo EXCEPT ![u] = NoUndo]
    /\ UNCHANGED <<mail, restored, archive, aged, item, attempt, rejecting, sweep, history>>

UndoDies(u) ==
    /\ undo[u].pc = "restored"
    /\ undo' = [undo EXCEPT ![u] = NoUndo]
    /\ UNCHANGED <<mail, restored, archive, aged, row, item, attempt, rejecting, sweep, history>>

-----------------------------------------------------------------------------
(***************************************************************************)
(* sweepExpiredArchives.                                                   *)
(***************************************************************************)
\* Mutant: the retained archives are swept too.
SweepsRetained(b) == row[b].key # NoAttempt /\ row[b].key \in aged

SweepsUp(b) == row[b].key # NoAttempt /\ Expired(row[b].key)

SweepRead(s) ==
    /\ sweep[s] = NoSweep
    /\ \E b \in Batches : SweepsUp(b)
    /\ sweep' = [sweep EXCEPT ![s].todo = {<<b, row[b].key>> : b \in {x \in Batches : SweepsUp(x)}}]
    /\ UNCHANGED <<mail, restored, archive, aged, row, item, attempt, rejecting, undo, history>>

SweepDelete(s) ==
    /\ sweep[s].at = NoSweep.at
    /\ \E r \in sweep[s].todo :
          /\ archive' = [archive EXCEPT ![r[2]] = "none"]
          /\ sweep' = [sweep EXCEPT ![s] = [todo |-> @.todo \ {r}, at |-> r]]
    /\ UNCHANGED <<mail, restored, aged, row, item, attempt, rejecting, undo, history>>

SweepClear(s) ==
    /\ sweep[s].at # NoSweep.at
    /\ row' = [row EXCEPT ![sweep[s].at[1]].key = NoAttempt]
    /\ sweep' = [sweep EXCEPT ![s].at = NoSweep.at]
    /\ UNCHANGED <<mail, restored, archive, aged, item, attempt, rejecting, undo, history>>

\* A row that cannot be swept is left for the next day; a crash leaves all.
SweepSkips(s) ==
    /\ sweep[s] # NoSweep
    /\ \/ sweep' = [sweep EXCEPT ![s] = NoSweep]
       \/ sweep' = [sweep EXCEPT ![s].at = NoSweep.at]
       \/ \E r \in sweep[s].todo : sweep' = [sweep EXCEPT ![s].todo = @ \ {r}]
    /\ UNCHANGED <<mail, restored, archive, aged, row, item, attempt, rejecting, undo, history>>

\* Seven days pass.  Nobody is still executing the batch by then.
Age(a) ==
    /\ At(a, "done") /\ archive[a] # "none" /\ a \notin aged
    /\ \A c \in Attempts : BatchOf(c) = BatchOf(a) => At(c, "done")
    /\ aged' = aged \cup {a}
    /\ UNCHANGED <<mail, restored, archive, row, item, requests, history>>

-----------------------------------------------------------------------------
Execute(a) ==
    \/ ArchiveCreate(a) \/ ArchiveVerify(a) \/ ArchiveFails(a)
    \/ BatchDelete(a) \/ DeleteFails(a) \/ BatchTrash(a) \/ TrashFails(a)
    \/ RecordCompleted(a) \/ RecordFailed(a) \/ DirectCommit(a)
    \/ ApproveItem(a) \/ AttemptDies(a)

Next ==
    \/ \E b \in Batches : StageCleanupRequest(b) \/ RejectRead(b) \/ RejectCommit(b)
    \/ \E a \in Attempts, b \in Batches :
          \/ \E vault \in BOOLEAN : ApproveRead(a, b, vault) \/ ExecuteCleanup(a, b, vault)
          \/ ApproveAgain(a, b)
    \/ \E a \in Attempts : Execute(a) \/ Age(a)
    \/ \E u \in Undoers :
          \/ \E b \in Batches : UndoRead(u, b)
          \/ ArchiveRestore(u) \/ RestoreFails(u) \/ UndoRecord(u) \/ UndoDies(u)
    \/ \E s \in Sweepers : SweepRead(s) \/ SweepDelete(s) \/ SweepClear(s) \/ SweepSkips(s)

Spec == Init /\ [][Next]_vars

-----------------------------------------------------------------------------
(***************************************************************************)
(* Promises.                                                               *)
(***************************************************************************)
\* The request that deleted a message, or another run of its batch, is about
\* to write the key of its archive.
AboutToRecord(b) == \E a \in Attempts : BatchOf(a) = b /\ At(a, "applied")

(***************************************************************************)
(* A deleted message can be had back for seven days: until the archive has *)
(* expired, its batch offers a live archive, or a copy has been restored,  *)
(* or its request is about to write the row.  Two approvals of one batch,  *)
(* a failure written over a success and an undo in between do not break    *)
(* this; a provider that does not confirm, or a request that ends before   *)
(* its write, does (unrecorded): the archive is in storage and no row      *)
(* knows its key.                                                          *)
(***************************************************************************)
DeletedIsUndoable ==
    \A m \in Messages : mail[m] = "deleted" /\ m \notin restored =>
        LET b == BatchOf(by[m])
        IN  \/ ArchiveLive(b) \/ AboutToRecord(b)
            \/ b \in unrecorded
            \/ \E a \in aged : BatchOf(a) = b

(***************************************************************************)
(* Nothing is deleted that a verified archive does not hold: the archive   *)
(* is there until it has expired, although the row may never name it.      *)
(***************************************************************************)
DeletedIsArchived ==
    \A m \in Messages : mail[m] = "deleted" =>
        /\ m \in PlanOf(by[m])
        /\ archive[by[m]] = "sound" \/ by[m] \in aged

(***************************************************************************)
(* The archive a row offers for undo and download is in storage and whole: *)
(* the retention sweep, which works from rows it read earlier, never takes *)
(* it away.                                                                *)
(***************************************************************************)
LiveArchiveIsThere == \A b \in Batches : ArchiveLive(b) => archive[row[b].key] = "sound"

(***************************************************************************)
(* A batch reported as undone has all its messages back, even if another   *)
(* approval of it was still at work.                                       *)
(***************************************************************************)
UndoneIsBack == \A b \in Batches : row[b].undone => Plan[b] \subseteq restored

(***************************************************************************)
(* An approved item is that of a batch the provider confirmed: a failed    *)
(* run never flips it, however often it is approved again.                 *)
(***************************************************************************)
ApprovedHasRun == \A b \in Batches : item[b] = "APPROVED" => b \in ran
=============================================================================
