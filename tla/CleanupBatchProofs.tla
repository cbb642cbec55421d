------------------------ MODULE CleanupBatchProofs --------------------------
(***************************************************************************)
(* Proofs about CleanupBatch, for any batches, requests and sweeps.        *)
(*                                                                         *)
(* What was deleted can be had back because an archive only goes away      *)
(* after it has expired, and an archive only expires when its request is   *)
(* over.  The invariant therefore says of each request what its place      *)
(* implies about its archive, of each row that the archive it names is     *)
(* sound or expired, and of each sweep that all it holds has expired; none *)
(* of the promises is inductive without these.                             *)
(***************************************************************************)
EXTENDS CleanupBatch, TLAPS

AttemptFact(a) ==
    /\ At(a, "archived") \/ At(a, "verified") => IsDelete(a)
    /\ At(a, "verified") \/ (At(a, "applied") /\ IsDelete(a)) => archive[a] = "sound"
    /\ At(a, "applied") \/ At(a, "ran") => BatchOf(a) \in ran
    /\ a \in aged => At(a, "done")

NamedFact(b, a) ==
    /\ BatchOf(a) = b /\ attempt[a].pc \in {"ran", "done"}
    /\ archive[a] = "sound" \/ Expired(a)

RowFact(b) ==
    /\ row[b].key # NoAttempt => NamedFact(b, row[b].key) /\ b \in ran
    /\ row[b].state \in {"COMPLETED", "UNDONE"} => b \in ran
    /\ row[b].undone => Plan[b] \subseteq restored

UndoFact(u) ==
    /\ undo[u].pc # "idle" => undo[u].batch \in ran
    /\ undo[u].pc = "restored" => Plan[undo[u].batch] \subseteq restored

Swept(r) == Expired(r[2]) /\ BatchOf(r[2]) = r[1]

SweepFact(s) ==
    /\ \A r \in sweep[s].todo : Swept(r)
    /\ sweep[s].at # NoSweep.at =>
          sweep[s].at \in Batches \X Attempts /\ Swept(sweep[s].at)

MailFact(m) ==
    mail[m] = "deleted" =>
        /\ by[m] \in Attempts /\ IsDelete(by[m]) /\ m \in PlanOf(by[m])
        /\ attempt[by[m]].pc \in {"applied", "failed", "ran", "done"}
        /\ archive[by[m]] = "sound" \/ by[m] \in aged

Facts ==
    /\ \A a \in Attempts : AttemptFact(a)
    /\ \A b \in Batches : RowFact(b)
    /\ \A u \in Undoers : UndoFact(u)
    /\ \A s \in Sweepers : SweepFact(s)
    /\ \A m \in Messages : MailFact(m)

IInv == TypeOK /\ Facts /\ DeletedIsUndoable /\ ApprovedHasRun

-----------------------------------------------------------------------------
(***************************************************************************)
(* Changing a field of a row, and the place of a request.                  *)
(***************************************************************************)
States == {"none", "PENDING", "COMPLETED", "FAILED", "UNDONE"}

LEMMA SetState ==
    ASSUME NEW f \in [Batches -> Row], NEW b \in Batches, NEW s \in States,
           NEW g, g = [f EXCEPT ![b].state = s]
    PROVE  /\ g \in [Batches -> Row]
           /\ g[b].state = s /\ g[b].key = f[b].key /\ g[b].undone = f[b].undone
           /\ \A x \in Batches \ {b} : g[x] = f[x]
<1>1. f[b] \in Row /\ [f[b] EXCEPT !.state = s] \in Row
  BY DEF Row, States
<1>2. g[b] = [f[b] EXCEPT !.state = s]
  OBVIOUS
<1>3. g[b].state = s /\ g[b].key = f[b].key /\ g[b].undone = f[b].undone
  BY <1>1, <1>2 DEF Row
<1> HIDE DEF Row
<1> QED BY <1>1, <1>3

LEMMA SetKey ==
    ASSUME NEW f \in [Batches -> Row], NEW b \in Batches, NEW k \in Attempts \cup {NoAttempt},
           NEW g, g = [f EXCEPT ![b].key = k]
    PROVE  /\ g \in [Batches -> Row]
           /\ g[b].key = k /\ g[b].state = f[b].state /\ g[b].undone = f[b].undone
           /\ \A x \in Batches \ {b} : g[x] = f[x]
<1>1. f[b] \in Row /\ [f[b] EXCEPT !.key = k] \in Row
  BY DEF Row
<1>2. g[b] = [f[b] EXCEPT !.key = k]
  OBVIOUS
<1>3. g[b].key = k /\ g[b].state = f[b].state /\ g[b].undone = f[b].undone
  BY <1>1, <1>2 DEF Row
<1> HIDE DEF Row
<1> QED BY <1>1, <1>3

LEMMA SetUndone ==
    ASSUME NEW f \in [Batches -> Row], NEW b \in Batches,
           NEW g, g = [f EXCEPT ![b].undone = TRUE]
    PROVE  /\ g \in [Batches -> Row]
           /\ g[b].undone /\ g[b].state = f[b].state /\ g[b].key = f[b].key
           /\ \A x \in Batches \ {b} : g[x] = f[x]
<1>1. f[b] \in Row /\ [f[b] EXCEPT !.undone = TRUE] \in Row
  BY DEF Row
<1>2. g[b] = [f[b] EXCEPT !.undone = TRUE]
  OBVIOUS
<1>3. g[b].undone /\ g[b].state = f[b].state /\ g[b].key = f[b].key
  BY <1>1, <1>2 DEF Row
<1> HIDE DEF Row
<1> QED BY <1>1, <1>3

Places == {"read", "archived", "verified", "applied", "failed", "ran", "done"}

LEMMA GoesTyped ==
    ASSUME TypeOK, NEW a \in Attempts, attempt[a].pc # "idle", NEW pc \in Places, Goes(a, pc)
    PROVE  /\ attempt' \in [Attempts -> AttemptState \cup {Unused}]
           /\ attempt'[a].pc = pc /\ attempt'[a].batch = attempt[a].batch
           /\ attempt'[a].direct = attempt[a].direct /\ attempt'[a].vault = attempt[a].vault
           /\ \A x \in Attempts \ {a} : attempt'[x] = attempt[x]
           /\ attempt[a].batch \in Batches
<1>1. attempt \in [Attempts -> AttemptState \cup {Unused}] /\ attempt[a] \in AttemptState
  BY DEF TypeOK, Unused
<1>2. [attempt[a] EXCEPT !.pc = pc] \in AttemptState
  BY <1>1 DEF AttemptState, Places
<1>3. attempt'[a] = [attempt[a] EXCEPT !.pc = pc]
  BY <1>1 DEF Goes
<1>4. /\ attempt'[a].pc = pc /\ attempt'[a].batch = attempt[a].batch
      /\ attempt'[a].direct = attempt[a].direct /\ attempt'[a].vault = attempt[a].vault
      /\ attempt[a].batch \in Batches
  BY <1>1, <1>3 DEF AttemptState
<1> HIDE DEF AttemptState, Unused
<1> QED BY <1>1, <1>2, <1>4 DEF Goes

LEMMA BeginsTyped ==
    ASSUME TypeOK, NEW a \in Attempts, NEW r \in AttemptState,
           attempt' = [attempt EXCEPT ![a] = r]
    PROVE  /\ attempt' \in [Attempts -> AttemptState \cup {Unused}]
           /\ attempt'[a] = r
           /\ \A x \in Attempts \ {a} : attempt'[x] = attempt[x]
<1>1. attempt \in [Attempts -> AttemptState \cup {Unused}]
  BY DEF TypeOK
<1> HIDE DEF AttemptState, Unused
<1> QED BY <1>1

\* A request that is not idle has a batch.
LEMMA BusyAttempt ==
    ASSUME TypeOK, NEW a \in Attempts
    PROVE  /\ attempt[a].pc \in Places \cup {"idle"}
           /\ attempt[a].pc # "idle" => BatchOf(a) \in Batches
           /\ attempt[a].pc = "idle" => BatchOf(a) = NoBatch
BY DEF TypeOK, AttemptState, Unused, Places, BatchOf

-----------------------------------------------------------------------------
(***************************************************************************)
(* The initial states, and what each step keeps of the types.              *)
(***************************************************************************)
LEMMA InitIInv == Init => IInv
<1> SUFFICES ASSUME Init PROVE IInv
  OBVIOUS
<1> USE DEF Init
<1>1. TypeOK
  <2>1. /\ row \in [Batches -> Row] /\ attempt \in [Attempts -> AttemptState \cup {Unused}]
        /\ undo \in [Undoers -> UndoState \cup {NoUndo}] /\ sweep \in [Sweepers -> SweepState]
    BY DEF NoRow, Row, NoSweep, SweepState
  <2> QED BY <2>1 DEF TypeOK
<1>2. Facts
  BY DEF Facts, AttemptFact, RowFact, UndoFact, SweepFact, MailFact, At, Unused, NoRow,
         NoUndo, NoSweep
<1>3. DeletedIsUndoable
  BY DEF DeletedIsUndoable
<1>4. ApprovedHasRun
  BY DEF ApprovedHasRun
<1> QED BY <1>1, <1>2, <1>3, <1>4 DEF IInv

LEMMA SetTodo ==
    ASSUME NEW f \in [Sweepers -> SweepState], NEW s \in Sweepers,
           NEW t \in SUBSET (Batches \X Attempts), NEW g, g = [f EXCEPT ![s].todo = t]
    PROVE  g \in [Sweepers -> SweepState] /\ g[s].todo = t /\ g[s].at = f[s].at
<1>1. f[s] \in SweepState /\ [f[s] EXCEPT !.todo = t] \in SweepState
  BY DEF SweepState
<1>2. g[s] = [f[s] EXCEPT !.todo = t]
  OBVIOUS
<1>3. g[s].todo = t /\ g[s].at = f[s].at
  BY <1>1, <1>2 DEF SweepState
<1> HIDE DEF SweepState
<1> QED BY <1>1, <1>3

LEMMA SetAt ==
    ASSUME NEW f \in [Sweepers -> SweepState], NEW s \in Sweepers,
           NEW c \in (Batches \cup {NoBatch}) \X (Attempts \cup {NoAttempt}),
           NEW g, g = [f EXCEPT ![s].at = c]
    PROVE  g \in [Sweepers -> SweepState] /\ g[s].todo = f[s].todo /\ g[s].at = c
<1>1. f[s] \in SweepState /\ [f[s] EXCEPT !.at = c] \in SweepState
  BY DEF SweepState
<1>2. g[s] = [f[s] EXCEPT !.at = c]
  OBVIOUS
<1>3. g[s].todo = f[s].todo /\ g[s].at = c
  BY <1>1, <1>2 DEF SweepState
<1> HIDE DEF SweepState
<1> QED BY <1>1, <1>3

LEMMA SweepTyped ==
    ASSUME TypeOK, NEW s \in Sweepers,
           SweepRead(s) \/ SweepDelete(s) \/ SweepClear(s) \/ SweepSkips(s)
    PROVE  /\ sweep' \in [Sweepers -> SweepState]
           /\ \A x \in Sweepers \ {s} : sweep'[x] = sweep[x]
           /\ \/ /\ SweepRead(s)
                 /\ sweep'[s].at = NoSweep.at
                 /\ sweep'[s].todo = {<<b, row[b].key>> : b \in {x \in Batches : SweepsUp(x)}}
              \/ /\ sweep'[s].todo \subseteq sweep[s].todo
                 /\ \/ sweep'[s].at = NoSweep.at
                    \/ sweep'[s].at = sweep[s].at
                    \/ sweep'[s].at \in sweep[s].todo
<1>1. /\ sweep \in [Sweepers -> SweepState]
      /\ sweep[s].todo \in SUBSET (Batches \X Attempts)
  BY DEF TypeOK, SweepState
<1>2. /\ NoSweep.at \in (Batches \cup {NoBatch}) \X (Attempts \cup {NoAttempt})
      /\ NoSweep.todo = {} /\ NoSweep \in SweepState
  BY DEF NoSweep, SweepState
<1>3. \A x \in Sweepers \ {s} : sweep'[x] = sweep[x]
  BY <1>1 DEF SweepRead, SweepDelete, SweepClear, SweepSkips
<1>4. CASE SweepRead(s)
  <2>0. PICK t : t = {<<b, row[b].key>> : b \in {x \in Batches : SweepsUp(x)}}
    OBVIOUS
  <2>1. t \in SUBSET (Batches \X Attempts)
    BY <2>0 DEF SweepsUp, TypeOK, Row
  <2>2. sweep' = [sweep EXCEPT ![s].todo = t]
    BY <1>4, <2>0 DEF SweepRead
  <2>4. sweep[s].at = NoSweep.at
    BY <1>4 DEF SweepRead
  <2>3. sweep' \in [Sweepers -> SweepState] /\ sweep'[s].todo = t /\ sweep'[s].at = sweep[s].at
    BY <1>1, <2>1, <2>2, SetTodo
  <2> QED BY <1>3, <1>4, <2>0, <2>3, <2>4
<1>5. CASE SweepDelete(s)
  <2>1. PICK r \in sweep[s].todo :
          sweep' = [sweep EXCEPT ![s] = [todo |-> @.todo \ {r}, at |-> r]]
    BY <1>5 DEF SweepDelete
  <2>2. PICK t : t = sweep[s].todo \ {r}
    OBVIOUS
  <2>3. r \in Batches \X Attempts /\ t \in SUBSET (Batches \X Attempts)
    BY <1>1, <2>1, <2>2
  <2>4. r \in (Batches \cup {NoBatch}) \X (Attempts \cup {NoAttempt})
    BY <2>3
  <2>5. PICK rec : rec = [todo |-> t, at |-> r]
    OBVIOUS
  <2>6. rec \in SweepState /\ rec.todo = t /\ rec.at = r
    BY <2>3, <2>4, <2>5 DEF SweepState
  <2>7. sweep' = [sweep EXCEPT ![s] = rec]
    BY <1>1, <2>1, <2>2, <2>5
  <2>8. sweep' \in [Sweepers -> SweepState] /\ sweep'[s] = rec
    <3> HIDE DEF SweepState
    <3> QED BY <1>1, <2>6, <2>7
  <2>9. sweep'[s].todo = t /\ sweep'[s].at = r
    BY <2>6, <2>8
  <2> QED BY <1>3, <2>1, <2>2, <2>8, <2>9
<1>6. CASE sweep' = [sweep EXCEPT ![s].at = NoSweep.at]
  <2>1. sweep' \in [Sweepers -> SweepState] /\ sweep'[s].todo = sweep[s].todo
        /\ sweep'[s].at = NoSweep.at
    BY <1>1, <1>2, <1>6, SetAt
  <2> QED BY <1>3, <2>1
<1>7. CASE sweep' = [sweep EXCEPT ![s] = NoSweep]
  <2>1. sweep'[s] = NoSweep
    BY <1>1, <1>7
  <2>2. sweep' \in [Sweepers -> SweepState]
    <3> HIDE DEF SweepState, NoSweep
    <3> QED BY <1>1, <1>2, <1>7
  <2> QED BY <1>2, <1>3, <2>1, <2>2
<1>8. CASE \E r \in sweep[s].todo : sweep' = [sweep EXCEPT ![s].todo = @ \ {r}]
  <2>1. PICK r \in sweep[s].todo : sweep' = [sweep EXCEPT ![s].todo = @ \ {r}]
    BY <1>8
  <2> DEFINE t == sweep[s].todo \ {r}
  <2>2. t \in SUBSET (Batches \X Attempts)
    BY <1>1
  <2>3. sweep' = [sweep EXCEPT ![s].todo = t]
    BY <1>1, <2>1
  <2> HIDE DEF t
  <2>4. PICK rec : rec = [sweep[s] EXCEPT !.todo = t]
    OBVIOUS
  <2>5. rec \in SweepState /\ rec.todo = t /\ rec.at = sweep[s].at
    BY <1>1, <2>2, <2>4 DEF SweepState
  <2>6. sweep' \in [Sweepers -> SweepState] /\ sweep'[s] = rec
    <3> HIDE DEF SweepState
    <3> QED BY <1>1, <2>3, <2>4, <2>5
  <2> QED BY <1>3, <2>5, <2>6 DEF t
<1> QED BY <1>4, <1>5, <1>6, <1>7, <1>8 DEF SweepClear, SweepSkips

LEMMA SweepClearTyped ==
    ASSUME TypeOK, NEW s \in Sweepers, SweepClear(s)
    PROVE  /\ row' \in [Batches -> Row]
           /\ \A b \in Batches : /\ row'[b].state = row[b].state /\ row'[b].undone = row[b].undone
                                 /\ row'[b].key # row[b].key =>
                                       row'[b].key = NoAttempt /\ sweep[s].at[1] = b
<1>1. row \in [Batches -> Row] /\ row' = [row EXCEPT ![sweep[s].at[1]].key = NoAttempt]
  BY DEF SweepClear, TypeOK
<1>2. CASE sweep[s].at[1] \in Batches
  BY <1>1, <1>2, SetKey
<1>3. CASE sweep[s].at[1] \notin Batches
  <2>1. row' = row
    <3> HIDE DEF Row
    <3> QED BY <1>1, <1>3
  <2> QED BY <1>1, <2>1
<1> QED BY <1>2, <1>3

LEMMA TypeKept == ASSUME TypeOK, [Next]_vars PROVE TypeOK'
<1> SUFFICES ASSUME Next PROVE TypeOK'
  BY DEF vars, requests, history, TypeOK
<1> USE DEF Next
<1>1. ASSUME NEW b \in Batches, StageCleanupRequest(b)
      PROVE  TypeOK'
  <2>1. row' \in [Batches -> Row]
    <3>1. row \in [Batches -> Row] /\ "PENDING" \in States
      BY DEF TypeOK, States
    <3>2. row' = [row EXCEPT ![b].state = "PENDING"]
      BY <1>1 DEF StageCleanupRequest
    <3> QED BY <3>1, <3>2, SetState
  <2> QED BY <1>1, <2>1 DEF StageCleanupRequest, TypeOK, requests, history
<1>2. ASSUME NEW b \in Batches, RejectRead(b) \/ RejectCommit(b)
      PROVE  TypeOK'
  BY <1>2 DEF RejectRead, RejectCommit, TypeOK, history
<1>3. ASSUME NEW a \in Attempts, NEW b \in Batches, NEW vault \in BOOLEAN,
             ApproveRead(a, b, vault) \/ ExecuteCleanup(a, b, vault)
      PROVE  TypeOK'
  <2>1. PICK d \in BOOLEAN :
          attempt' = [attempt EXCEPT ![a] =
            [pc |-> "read", batch |-> b, direct |-> d, vault |-> vault]]
    BY <1>3 DEF ApproveRead, ExecuteCleanup
  <2>2. [pc |-> "read", batch |-> b, direct |-> d, vault |-> vault] \in AttemptState
    BY DEF AttemptState
  <2>3. attempt' \in [Attempts -> AttemptState \cup {Unused}]
    BY <2>1, <2>2, BeginsTyped
  <2> QED BY <1>3, <2>3 DEF ApproveRead, ExecuteCleanup, TypeOK, history
<1>4. ASSUME NEW a \in Attempts, NEW b \in Batches, ApproveAgain(a, b)
      PROVE  TypeOK'
  <2>1. [pc |-> "ran", batch |-> b, direct |-> FALSE, vault |-> FALSE] \in AttemptState
    BY DEF AttemptState
  <2>2. attempt' \in [Attempts -> AttemptState \cup {Unused}]
    BY <1>4, <2>1, BeginsTyped DEF ApproveAgain
  <2> QED BY <1>4, <2>2 DEF ApproveAgain, TypeOK, history
<1>5. ASSUME NEW a \in Attempts, Execute(a)
      PROVE  TypeOK'
  <2>1. attempt[a].pc # "idle"
    BY <1>5 DEF Execute, At, ArchiveCreate, ArchiveVerify, ArchiveFails, BatchDelete, DeleteFails,
           BatchTrash, TrashFails, RecordCompleted, RecordFailed, DirectCommit, ApproveItem,
           AttemptDies
  <2>2. \E pc \in Places : Goes(a, pc)
    BY <1>5 DEF Execute, Places, ArchiveCreate, ArchiveVerify, ArchiveFails, BatchDelete,
           DeleteFails, BatchTrash, TrashFails, RecordCompleted, RecordFailed, DirectCommit,
           ApproveItem, AttemptDies
  <2>3. attempt' \in [Attempts -> AttemptState \cup {Unused}] /\ BatchOf(a) \in Batches
    BY <2>1, <2>2, GoesTyped DEF BatchOf
  <2>4. CASE ArchiveCreate(a) \/ ArchiveVerify(a) \/ ArchiveFails(a)
    BY <2>3, <2>4 DEF ArchiveCreate, ArchiveVerify, ArchiveFails, TypeOK, history
  <2>5. CASE BatchDelete(a) \/ DeleteFails(a)
    <3>1. PICK gone \in SUBSET PlanOf(a) : DeleteAtProvider(a, gone)
      BY <2>5 DEF BatchDelete, DeleteFails
    <3>2. mail' \in [Messages -> {"kept", "trashed", "deleted"}]
          /\ by' \in [Messages -> Attempts \cup {NoAttempt}]
      BY <3>1 DEF DeleteAtProvider, TypeOK
    <3> QED BY <2>3, <2>5, <3>2 DEF BatchDelete, DeleteFails, TypeOK
  <2>6. CASE BatchTrash(a) \/ TrashFails(a)
    <3>1. PICK moved \in SUBSET PlanOf(a) : MoveToTrash(moved)
      BY <2>6 DEF BatchTrash, TrashFails
    <3>2. mail' \in [Messages -> {"kept", "trashed", "deleted"}]
      BY <3>1 DEF MoveToTrash, TypeOK
    <3> QED BY <2>3, <2>6, <3>2 DEF BatchTrash, TrashFails, TypeOK, history
  <2>7. CASE RecordCompleted(a)
    <3>1. PICK r1 : r1 = [row EXCEPT ![BatchOf(a)].state = "COMPLETED"]
      OBVIOUS
    <3>2. r1 \in [Batches -> Row]
      <4>1. "COMPLETED" \in States /\ row \in [Batches -> Row]
        BY DEF TypeOK, States
      <4> QED BY <2>3, <3>1, <4>1, SetState
    <3>3. row' = [r1 EXCEPT ![BatchOf(a)].key = KeyToRecord(a)]
      BY <2>7, <3>1 DEF RecordCompleted
    <3>4. KeyToRecord(a) \in Attempts \cup {NoAttempt}
      BY DEF KeyToRecord
    <3>5. row' \in [Batches -> Row]
      BY <2>3, <3>2, <3>3, <3>4, SetKey
    <3> QED BY <2>3, <2>7, <3>5 DEF RecordCompleted, TypeOK, history
  <2>8. CASE RecordFailed(a)
    <3>1. row' \in [Batches -> Row]
      BY <2>3, <2>8, SetState DEF RecordFailed, TypeOK, States
    <3> QED BY <2>3, <2>8, <3>1 DEF RecordFailed, TypeOK, history
  <2>9. CASE DirectCommit(a)
    <3>1. [state |-> "COMPLETED", key |-> KeyToRecord(a), undone |-> FALSE] \in Row
      BY DEF KeyToRecord, Row
    <3>2. row' \in [Batches -> Row]
      <4> HIDE DEF Row
      <4> QED BY <2>3, <2>9, <3>1 DEF DirectCommit, TypeOK
    <3> QED BY <2>3, <2>9, <3>2 DEF DirectCommit, TypeOK, history
  <2>10. CASE ApproveItem(a) \/ AttemptDies(a)
    BY <2>3, <2>10 DEF ApproveItem, AttemptDies, TypeOK, history
  <2> QED BY <1>5, <2>4, <2>5, <2>6, <2>7, <2>8, <2>9, <2>10 DEF Execute
<1>6. ASSUME NEW a \in Attempts, Age(a)
      PROVE  TypeOK'
  BY <1>6 DEF Age, TypeOK, requests, history
<1>7. ASSUME NEW u \in Undoers, NEW b \in Batches, UndoRead(u, b)
      PROVE  TypeOK'
  <2>1. row[b].key \in Attempts
    BY <1>7 DEF UndoRead, ArchiveLive, TypeOK, Row
  <2>2. [pc |-> "read", batch |-> b, key |-> row[b].key] \in UndoState
    BY <2>1 DEF UndoState
  <2>3. undo' \in [Undoers -> UndoState \cup {NoUndo}]
    <3> HIDE DEF UndoState, NoUndo
    <3> QED BY <1>7, <2>2 DEF UndoRead, TypeOK
  <2> QED BY <1>7, <2>3 DEF UndoRead, TypeOK, history
<1>8. ASSUME NEW u \in Undoers,
             ArchiveRestore(u) \/ RestoreFails(u) \/ UndoRecord(u) \/ UndoDies(u)
      PROVE  TypeOK'
  <2>1. undo[u].pc # "idle" /\ undo[u] \in UndoState
    <3>1. undo[u].pc # "idle"
      BY <1>8 DEF ArchiveRestore, RestoreFails, UndoRecord, UndoDies
    <3>2. undo[u] \in UndoState \cup {NoUndo} /\ NoUndo.pc = "idle"
      BY DEF TypeOK, NoUndo
    <3> QED BY <3>1, <3>2
  <2>2. undo[u].batch \in Batches
    BY <2>1 DEF UndoState
  <2>3. [undo[u] EXCEPT !.pc = "restored"] \in UndoState
    BY <2>1 DEF UndoState
  <2>4. undo' = [undo EXCEPT ![u] = NoUndo] \/ undo' = [undo EXCEPT ![u].pc = "restored"]
    BY <1>8 DEF ArchiveRestore, RestoreFails, UndoRecord, UndoDies
  <2>5. undo' \in [Undoers -> UndoState \cup {NoUndo}]
    <3> HIDE DEF UndoState, NoUndo
    <3> QED BY <2>3, <2>4 DEF TypeOK
  <2>6. CASE ArchiveRestore(u) \/ RestoreFails(u) \/ UndoDies(u)
    <3>1. restored' \subseteq Messages
      BY <2>2, <2>6, PlanAssumption DEF ArchiveRestore, RestoreFails, UndoDies, TypeOK
    <3> QED BY <2>5, <2>6, <3>1 DEF ArchiveRestore, RestoreFails, UndoDies, TypeOK, history
  <2>7. CASE UndoRecord(u)
    <3>1. PICK r1 : r1 = [row EXCEPT ![undo[u].batch].state = "UNDONE"]
      OBVIOUS
    <3>2. r1 \in [Batches -> Row]
      BY <2>2, <3>1, SetState DEF TypeOK, States
    <3>3. row' = [r1 EXCEPT ![undo[u].batch].undone = TRUE]
      BY <2>7, <3>1 DEF UndoRecord
    <3>4. row' \in [Batches -> Row]
      BY <2>2, <3>2, <3>3, SetUndone
    <3> QED BY <2>5, <2>7, <3>4 DEF UndoRecord, TypeOK, history
  <2> QED BY <1>8, <2>6, <2>7
<1>9. ASSUME NEW s \in Sweepers, SweepRead(s) \/ SweepDelete(s) \/ SweepClear(s) \/ SweepSkips(s)
      PROVE  TypeOK'
  <2>1. sweep' \in [Sweepers -> SweepState]
    BY <1>9, SweepTyped
  <2>2. archive' \in [Attempts -> {"none", "damaged", "sound"}]
    BY <1>9 DEF SweepRead, SweepDelete, SweepClear, SweepSkips, TypeOK
  <2>3. row' \in [Batches -> Row]
    BY <1>9, SweepClearTyped DEF SweepRead, SweepDelete, SweepSkips, TypeOK
  <2> QED BY <1>9, <2>1, <2>2, <2>3
          DEF SweepRead, SweepDelete, SweepClear, SweepSkips, TypeOK, history
<1> QED BY <1>1, <1>2, <1>3, <1>4, <1>5, <1>6, <1>7, <1>8, <1>9

-----------------------------------------------------------------------------
(***************************************************************************)
(* What no step takes back: a request keeps its batch and its entitlement  *)
(* and never returns to an earlier place, what expired stays expired, and  *)
(* a verified archive goes away only after that.                           *)
(***************************************************************************)
Onward ==
    /\ \A a \in Attempts : attempt[a].pc # "idle" =>
          /\ attempt'[a].pc # "idle"
          /\ attempt'[a].batch = attempt[a].batch /\ attempt'[a].vault = attempt[a].vault
    /\ \A a \in Attempts :
          /\ attempt[a].pc \in {"applied", "failed", "ran", "done"} =>
                attempt'[a].pc \in {"applied", "failed", "ran", "done"}
          /\ attempt[a].pc \in {"ran", "done"} => attempt'[a].pc \in {"ran", "done"}
          /\ attempt[a].pc = "done" => attempt'[a].pc = "done"
          /\ attempt[a].pc \notin {"idle", "read", "archived"} /\ archive[a] = "sound" =>
                archive'[a] = "sound" \/ Expired(a)
    /\ aged \subseteq aged' /\ restored \subseteq restored'
    /\ ran \subseteq ran' /\ unrecorded \subseteq unrecorded'

LEMMA GoesOnward ==
    ASSUME TypeOK, NEW a \in Attempts, attempt[a].pc # "idle", NEW pc \in Places, Goes(a, pc),
           attempt[a].pc \in {"read", "archived", "verified"}
             \/ (attempt[a].pc \in {"applied", "failed"} /\ pc \in {"ran", "done"})
             \/ (attempt[a].pc = "ran" /\ pc = "done"),
           archive' = archive \/ (At(a, "read") /\ archive' = [archive EXCEPT ![a] = archive'[a]]),
           aged' = aged, restored' = restored, ran \subseteq ran', unrecorded \subseteq unrecorded'
    PROVE  Onward
<1>1. /\ attempt'[a].pc = pc /\ attempt'[a].batch = attempt[a].batch
      /\ attempt'[a].vault = attempt[a].vault
      /\ \A x \in Attempts \ {a} : attempt'[x] = attempt[x]
  BY GoesTyped
<1>2. \A x \in Attempts : archive'[x] = archive[x] \/ (x = a /\ attempt[a].pc = "read")
  BY DEF At, TypeOK
<1> QED BY <1>1, <1>2 DEF Onward, Places

LEMMA BeginsOnward ==
    ASSUME TypeOK, NEW a \in Attempts, NEW r \in AttemptState, At(a, "idle"),
           attempt' = [attempt EXCEPT ![a] = r],
           archive' = archive, aged' = aged, restored' = restored, ran' = ran,
           unrecorded' = unrecorded
    PROVE  Onward
BY BeginsTyped DEF Onward, At

LEMMA RestOnward ==
    ASSUME TypeOK, attempt' = attempt, aged \subseteq aged', restored \subseteq restored',
           ran' = ran, unrecorded' = unrecorded,
           \A a \in Attempts : archive'[a] = archive[a] \/ Expired(a)
    PROVE  Onward
BY DEF Onward

LEMMA StepsOnward == ASSUME IInv, Next PROVE Onward
<1> USE DEF Next, IInv, requests, history
<1>1. ASSUME NEW b \in Batches, StageCleanupRequest(b) \/ RejectRead(b) \/ RejectCommit(b)
      PROVE  Onward
  BY <1>1, RestOnward DEF StageCleanupRequest, RejectRead, RejectCommit
<1>2. ASSUME NEW a \in Attempts, NEW b \in Batches, NEW vault \in BOOLEAN,
             ApproveRead(a, b, vault) \/ ExecuteCleanup(a, b, vault)
      PROVE  Onward
  <2>1. PICK d \in BOOLEAN :
          attempt' = [attempt EXCEPT ![a] =
            [pc |-> "read", batch |-> b, direct |-> d, vault |-> vault]]
    BY <1>2 DEF ApproveRead, ExecuteCleanup
  <2>2. [pc |-> "read", batch |-> b, direct |-> d, vault |-> vault] \in AttemptState
    BY DEF AttemptState
  <2> QED BY <1>2, <2>1, <2>2, BeginsOnward DEF ApproveRead, ExecuteCleanup
<1>3. ASSUME NEW a \in Attempts, NEW b \in Batches, ApproveAgain(a, b)
      PROVE  Onward
  <2>1. [pc |-> "ran", batch |-> b, direct |-> FALSE, vault |-> FALSE] \in AttemptState
    BY DEF AttemptState
  <2> QED BY <1>3, <2>1, BeginsOnward DEF ApproveAgain
<1>4. ASSUME NEW a \in Attempts, Execute(a)
      PROVE  Onward
  <2>1. PICK pc \in Places : Goes(a, pc)
          /\ \/ attempt[a].pc \in {"read", "archived", "verified"}
             \/ attempt[a].pc \in {"applied", "failed"} /\ pc \in {"ran", "done"}
             \/ attempt[a].pc = "ran" /\ pc = "done"
    <3>1. CASE AttemptDies(a)
      BY <3>1, BusyAttempt DEF AttemptDies, Places
    <3>2. CASE ~AttemptDies(a)
      BY <1>4, <3>2 DEF Execute, At, Places, ArchiveCreate, ArchiveVerify, ArchiveFails,
             BatchDelete, DeleteFails, BatchTrash, TrashFails, RecordCompleted, RecordFailed,
             DirectCommit, ApproveItem
    <3> QED BY <3>1, <3>2
  <2>2. archive' = archive \/ (At(a, "read") /\ archive' = [archive EXCEPT ![a] = archive'[a]])
    <3>1. CASE ArchiveCreate(a) \/ ArchiveFails(a)
      BY <3>1 DEF ArchiveCreate, ArchiveFails, TypeOK
    <3>2. CASE ~(ArchiveCreate(a) \/ ArchiveFails(a))
      BY <1>4, <3>2 DEF Execute, ArchiveVerify, BatchDelete, DeleteFails, BatchTrash, TrashFails,
             RecordCompleted, RecordFailed, DirectCommit, ApproveItem, AttemptDies
    <3> QED BY <3>1, <3>2
  <2>3. aged' = aged /\ restored' = restored /\ ran \subseteq ran' /\ unrecorded \subseteq unrecorded'
    BY <1>4 DEF Execute, ArchiveCreate, ArchiveVerify, ArchiveFails, BatchDelete, DeleteFails,
           BatchTrash, TrashFails, RecordCompleted, RecordFailed, DirectCommit, ApproveItem,
           AttemptDies
  <2> QED BY <2>1, <2>2, <2>3, GoesOnward
<1>5. ASSUME NEW a \in Attempts, Age(a)
      PROVE  Onward
  BY <1>5, RestOnward DEF Age
<1>6. ASSUME NEW u \in Undoers, NEW b \in Batches, UndoRead(u, b)
      PROVE  Onward
  BY <1>6, RestOnward DEF UndoRead
<1>7. ASSUME NEW u \in Undoers,
             ArchiveRestore(u) \/ RestoreFails(u) \/ UndoRecord(u) \/ UndoDies(u)
      PROVE  Onward
  BY <1>7, RestOnward DEF ArchiveRestore, RestoreFails, UndoRecord, UndoDies
<1>8. ASSUME NEW s \in Sweepers, SweepRead(s) \/ SweepClear(s) \/ SweepSkips(s)
      PROVE  Onward
  BY <1>8, RestOnward DEF SweepRead, SweepClear, SweepSkips
<1>9. ASSUME NEW s \in Sweepers, SweepDelete(s)
      PROVE  Onward
  <2>1. PICK r \in sweep[s].todo : archive' = [archive EXCEPT ![r[2]] = "none"]
    BY <1>9 DEF SweepDelete
  <2>2. Expired(r[2])
    BY <2>1 DEF Facts, SweepFact, Swept
  <2>3. \A a \in Attempts : archive'[a] = archive[a] \/ Expired(a)
    BY <2>1, <2>2 DEF TypeOK
  <2> QED BY <1>9, <2>3, RestOnward DEF SweepDelete
<1> QED BY <1>1, <1>2, <1>3, <1>4, <1>5, <1>6, <1>7, <1>8, <1>9

-----------------------------------------------------------------------------
(***************************************************************************)
(* What a step onward keeps of the facts about what it leaves alone.       *)
(***************************************************************************)
LEMMA AttemptKept ==
    ASSUME IInv, Onward, NEW a \in Attempts, attempt'[a] = attempt[a],
           a \in aged' => a \in aged \/ At(a, "done"),
           attempt[a].pc = "idle" \/ archive'[a] = archive[a] \/ Expired(a)
    PROVE  AttemptFact(a)'
BY DEF IInv, Facts, AttemptFact, Onward, At, IsDelete, BatchOf, Expired, Retained

LEMMA RowKept ==
    ASSUME IInv, Onward, NEW b \in Batches, row'[b].undone = row[b].undone,
           row'[b].key \in {row[b].key, NoAttempt},
           row'[b].state = row[b].state \/ row'[b].state \notin {"COMPLETED", "UNDONE"}
    PROVE  RowFact(b)'
<1>1. RowFact(b) /\ row[b].key \in Attempts \cup {NoAttempt}
  BY DEF IInv, Facts, TypeOK, Row
<1> QED BY <1>1 DEF Onward, RowFact, NamedFact, Expired, Retained, BatchOf

LEMMA UndoKept ==
    ASSUME IInv, Onward, NEW u \in Undoers, undo'[u] = undo[u]
    PROVE  UndoFact(u)'
BY DEF IInv, Facts, UndoFact, Onward

LEMMA SweptKept ==
    ASSUME IInv, Onward, NEW r \in Batches \X Attempts, Swept(r)
    PROVE  Swept(r)'
<1>1. attempt[r[2]].pc # "idle"
  BY DEF IInv, Facts, AttemptFact, Swept, Expired, At
<1> QED BY <1>1 DEF Onward, Swept, Expired, Retained, BatchOf

LEMMA SweepKept ==
    ASSUME IInv, Onward, NEW s \in Sweepers, sweep'[s].todo \subseteq sweep[s].todo,
           \/ sweep'[s].at = NoSweep.at
           \/ sweep'[s].at = sweep[s].at
           \/ sweep'[s].at \in sweep[s].todo
    PROVE  SweepFact(s)'
<1>1. SweepFact(s) /\ sweep[s].todo \in SUBSET (Batches \X Attempts)
  BY DEF IInv, Facts, TypeOK, SweepState
<1>2. \A r \in sweep[s].todo : Swept(r)'
  BY <1>1, SweptKept DEF SweepFact
<1>3. ASSUME sweep[s].at # NoSweep.at
      PROVE  \E r \in Batches \X Attempts : r = sweep[s].at /\ Swept(r)'
  <2>1. PICK r \in Batches \X Attempts : r = sweep[s].at /\ Swept(r)
    BY <1>1, <1>3 DEF SweepFact
  <2> QED BY <2>1, SweptKept
<1> QED BY <1>1, <1>2, <1>3 DEF SweepFact

LEMMA MailKept ==
    ASSUME IInv, Onward, NEW m \in Messages, mail'[m] = mail[m], by'[m] = by[m]
    PROVE  MailFact(m)'
<1>1. MailFact(m)
  BY DEF IInv, Facts
<1> QED BY <1>1 DEF MailFact, Onward, IsDelete, PlanOf, BatchOf, Expired

\* The ways in which a message deleted under the batch can still be had back.
Covered(b) ==
    \/ ArchiveLive(b) \/ AboutToRecord(b)
    \/ b \in unrecorded
    \/ \E a \in aged : BatchOf(a) = b

LEMMA CoveredKept ==
    ASSUME IInv, Onward, TypeOK', NEW b \in Batches, Covered(b),
           row'[b].key = row[b].key, row'[b].undone = row[b].undone,
           \A a \in Attempts : At(a, "applied") /\ BatchOf(a) = b => At(a, "applied")'
    PROVE  Covered(b)'
<1>1. CASE ArchiveLive(b)
  <2>1. PICK a \in Attempts : a = row[b].key
    BY <1>1 DEF ArchiveLive, IInv, TypeOK, Row
  <2>2. BatchOf(a) = b /\ attempt[a].pc # "idle"
    BY <1>1, <2>1 DEF ArchiveLive, IInv, Facts, RowFact, NamedFact
  <2>3. BatchOf(a)' = b
    BY <2>2 DEF BatchOf, Onward
  <2> QED BY <1>1, <2>1, <2>3 DEF ArchiveLive, Covered, Expired, Retained
<1>2. CASE AboutToRecord(b)
  BY <1>2 DEF AboutToRecord, Covered, Onward, BatchOf, At
<1>3. CASE b \in unrecorded
  BY <1>3 DEF Onward, Covered
<1>4. CASE \E a \in aged : BatchOf(a) = b
  <2>1. PICK a \in aged : BatchOf(a) = b
    BY <1>4
  <2>2. a \in Attempts /\ attempt[a].pc # "idle"
    BY <2>1 DEF IInv, TypeOK, Facts, AttemptFact, At
  <2> QED BY <2>1, <2>2 DEF Onward, Covered, BatchOf
<1> QED BY <1>1, <1>2, <1>3, <1>4 DEF Covered

LEMMA UndoableKept ==
    ASSUME IInv, Onward, NEW m \in Messages, mail'[m] = mail[m], by'[m] = by[m],
           mail'[m] = "deleted", m \notin restored'
    PROVE  /\ by[m] \in Attempts /\ BatchOf(by[m]) \in Batches /\ BatchOf(by[m])' = BatchOf(by[m])
           /\ Covered(BatchOf(by[m])) /\ IsDelete(by[m]) /\ m \in PlanOf(by[m])
<1>1. MailFact(m) /\ mail[m] = "deleted" /\ m \notin restored
  BY DEF IInv, Facts, Onward
<1>2. by[m] \in Attempts /\ IsDelete(by[m]) /\ m \in PlanOf(by[m]) /\ attempt[by[m]].pc # "idle"
  BY <1>1 DEF MailFact
<1>3. BatchOf(by[m]) \in Batches
  BY <1>2, BusyAttempt DEF IInv
<1>4. BatchOf(by[m])' = BatchOf(by[m])
  BY <1>2 DEF Onward, BatchOf
<1> QED BY <1>1, <1>2, <1>3, <1>4 DEF IInv, DeletedIsUndoable, Covered

-----------------------------------------------------------------------------
(***************************************************************************)
(* Sorting the steps: those in which no request moves, those that begin    *)
(* one, and those of a request at work.                                    *)
(***************************************************************************)
Rests ==
    \/ \E b \in Batches : StageCleanupRequest(b) \/ RejectRead(b) \/ RejectCommit(b)
    \/ \E a \in Attempts : Age(a)
    \/ \E u \in Undoers :
          \/ \E b \in Batches : UndoRead(u, b)
          \/ ArchiveRestore(u) \/ RestoreFails(u) \/ UndoRecord(u) \/ UndoDies(u)
    \/ \E s \in Sweepers : SweepRead(s) \/ SweepDelete(s) \/ SweepClear(s) \/ SweepSkips(s)

Begins ==
    \E a \in Attempts, b \in Batches :
       \/ \E vault \in BOOLEAN : ApproveRead(a, b, vault) \/ ExecuteCleanup(a, b, vault)
       \/ ApproveAgain(a, b)

LEMMA RestsUnchanged == ASSUME Rests PROVE attempt' = attempt /\ mail' = mail /\ history' = history
BY DEF Rests, requests, history, StageCleanupRequest, RejectRead, RejectCommit, Age, UndoRead,
   ArchiveRestore, RestoreFails, UndoRecord, UndoDies, SweepRead, SweepDelete, SweepClear, SweepSkips

LEMMA BeginsUnchanged ==
    ASSUME Begins
    PROVE  UNCHANGED <<mail, restored, archive, aged, row, item, rejecting, undo, sweep, history>>
BY DEF Begins, history, ApproveRead, ExecuteCleanup, ApproveAgain

LEMMA ExecuteGoes ==
    ASSUME IInv, NEW a \in Attempts, Execute(a)
    PROVE  /\ attempt[a].pc # "idle" /\ a \notin aged /\ BatchOf(a) \in Batches
           /\ attempt' \in [Attempts -> AttemptState \cup {Unused}]
           /\ attempt'[a].batch = attempt[a].batch /\ attempt'[a].vault = attempt[a].vault
           /\ \A x \in Attempts \ {a} : attempt'[x] = attempt[x] /\ archive'[x] = archive[x]
           /\ UNCHANGED <<restored, aged, undo, sweep>>
<1>1. attempt[a].pc \notin {"idle", "done"}
  BY DEF Execute, At, ArchiveCreate, ArchiveVerify, ArchiveFails, BatchDelete, DeleteFails,
         BatchTrash, TrashFails, RecordCompleted, RecordFailed, DirectCommit, ApproveItem,
         AttemptDies
<1>2. PICK pc \in Places : Goes(a, pc)
  BY DEF Execute, Places, ArchiveCreate, ArchiveVerify, ArchiveFails, BatchDelete,
         DeleteFails, BatchTrash, TrashFails, RecordCompleted, RecordFailed, DirectCommit,
         ApproveItem, AttemptDies
<1>3. \A x \in Attempts \ {a} : archive'[x] = archive[x]
  BY DEF Execute, ArchiveCreate, ArchiveVerify, ArchiveFails, BatchDelete, DeleteFails,
         BatchTrash, TrashFails, RecordCompleted, RecordFailed, DirectCommit, ApproveItem,
         AttemptDies, IInv, TypeOK
<1>4. UNCHANGED <<restored, aged, undo, sweep>>
  BY DEF Execute, ArchiveCreate, ArchiveVerify, ArchiveFails, BatchDelete, DeleteFails,
         BatchTrash, TrashFails, RecordCompleted, RecordFailed, DirectCommit, ApproveItem,
         AttemptDies
<1>5. a \notin aged
  BY <1>1 DEF IInv, Facts, AttemptFact, At
<1> QED BY <1>1, <1>2, <1>3, <1>4, <1>5, GoesTyped DEF IInv, BatchOf

LEMMA StepsSorted == ASSUME Next PROVE Rests \/ Begins \/ \E a \in Attempts : Execute(a)
BY DEF Next, Rests, Begins

-----------------------------------------------------------------------------
(***************************************************************************)
(* The facts about requests.                                               *)
(***************************************************************************)
LEMMA AttemptsStep ==
    ASSUME IInv, Next, Onward, NEW x \in Attempts
    PROVE  AttemptFact(x)'
<1>1. CASE Rests
  <2>1. archive'[x] = archive[x] \/ Expired(x)
    <3>1. CASE \E s \in Sweepers : SweepDelete(s)
      <4>1. PICK s \in Sweepers : SweepDelete(s)
        BY <3>1
      <4>2. PICK r \in sweep[s].todo : archive' = [archive EXCEPT ![r[2]] = "none"]
        BY <4>1 DEF SweepDelete
      <4>3. Expired(r[2])
        BY <4>2 DEF IInv, Facts, SweepFact, Swept
      <4> QED BY <4>2, <4>3 DEF IInv, TypeOK
    <3>2. CASE ~\E s \in Sweepers : SweepDelete(s)
      BY <1>1, <3>2 DEF Rests, StageCleanupRequest, RejectRead, RejectCommit, Age, UndoRead,
         ArchiveRestore, RestoreFails, UndoRecord, UndoDies, SweepRead, SweepClear, SweepSkips
    <3> QED BY <3>1, <3>2
  <2>2. x \in aged' => x \in aged \/ At(x, "done")
    BY <1>1 DEF Rests, StageCleanupRequest, RejectRead, RejectCommit, Age, UndoRead,
         ArchiveRestore, RestoreFails, UndoRecord, UndoDies, SweepRead, SweepDelete, SweepClear,
         SweepSkips
  <2> QED BY <1>1, <2>1, <2>2, AttemptKept, RestsUnchanged
<1>2. CASE Begins
  <2>1. UNCHANGED <<archive, aged, ran>> /\ history' = history
    BY <1>2, BeginsUnchanged DEF history
  <2>2. PICK a \in Attempts, b \in Batches, r \in AttemptState :
          /\ At(a, "idle") /\ attempt' = [attempt EXCEPT ![a] = r]
          /\ r.pc = "read" \/ (r.pc = "ran" /\ r.batch = b /\ ReportsSuccess(b))
    <3>1. CASE \E a \in Attempts, b \in Batches : ApproveAgain(a, b)
      <4>1. PICK a \in Attempts, b \in Batches : ApproveAgain(a, b)
        BY <3>1
      <4>2. [pc |-> "ran", batch |-> b, direct |-> FALSE, vault |-> FALSE] \in AttemptState
        BY DEF AttemptState
      <4> QED BY <4>1, <4>2 DEF ApproveAgain
    <3>2. CASE ~\E a \in Attempts, b \in Batches : ApproveAgain(a, b)
      <4>1. PICK a \in Attempts, b \in Batches, d \in BOOLEAN, vault \in BOOLEAN :
              /\ At(a, "idle")
              /\ attempt' = [attempt EXCEPT ![a] =
                   [pc |-> "read", batch |-> b, direct |-> d, vault |-> vault]]
        BY <1>2, <3>2 DEF Begins, ApproveRead, ExecuteCleanup
      <4>2. [pc |-> "read", batch |-> b, direct |-> d, vault |-> vault] \in AttemptState
        BY DEF AttemptState
      <4> QED BY <4>1, <4>2
    <3> QED BY <3>1, <3>2
  <2>3. attempt'[a] = r /\ \A y \in Attempts \ {a} : attempt'[y] = attempt[y]
    BY <2>2, BeginsTyped DEF IInv
  <2>4. CASE x = a
    <3>1. a \notin aged
      BY <2>2 DEF At, IInv, Facts, AttemptFact
    <3>2. ReportsSuccess(b) => b \in ran
      BY DEF ReportsSuccess, IInv, Facts, RowFact
    <3> QED BY <2>1, <2>2, <2>3, <2>4, <3>1, <3>2 DEF AttemptFact, At, BatchOf
  <2>5. CASE x # a
    BY <2>1, <2>3, <2>5, AttemptKept
  <2> QED BY <2>4, <2>5
<1>3. ASSUME NEW a \in Attempts, Execute(a)
      PROVE  AttemptFact(x)'
  <2>1. CASE x # a
    BY <1>3, <2>1, AttemptKept, ExecuteGoes
  <2>2. CASE x = a
    <3>1. a \notin aged' /\ attempt'[a].batch = attempt[a].batch /\ BatchOf(a)' = BatchOf(a)
      BY <1>3, ExecuteGoes DEF BatchOf
    <3>2. \A pc \in Places : attempt[a].pc # "idle" /\ Goes(a, pc) => attempt'[a].pc = pc
      BY GoesTyped DEF IInv
    <3>3. AttemptFact(a) /\ (IsDelete(a)' <=> IsDelete(a))
      BY <3>1 DEF IInv, Facts, IsDelete
    <3>4. CASE ArchiveCreate(a) \/ ArchiveVerify(a)
      <4>1. \/ attempt'[a].pc = "archived" /\ IsDelete(a)
            \/ attempt'[a].pc = "verified" /\ IsDelete(a) /\ archive'[a] = "sound"
        BY <3>2, <3>3, <3>4 DEF ArchiveCreate, ArchiveVerify, At, AttemptFact, Places
      <4> QED BY <2>2, <3>1, <3>3, <4>1 DEF AttemptFact, At
    <3>5. CASE BatchDelete(a) \/ BatchTrash(a)
      <4>1. /\ attempt'[a].pc = "applied" /\ BatchOf(a) \in ran'
            /\ IsDelete(a) => archive'[a] = "sound"
        BY <3>2, <3>3, <3>5 DEF BatchDelete, BatchTrash, At, AttemptFact, Places
      <4> QED BY <2>2, <3>1, <3>3, <4>1 DEF AttemptFact, At
    <3>6. CASE RecordCompleted(a)
      <4>1. attempt'[a].pc = "ran" /\ BatchOf(a) \in ran'
        BY <3>2, <3>3, <3>6 DEF RecordCompleted, At, AttemptFact, Places, history
      <4> QED BY <2>2, <3>1, <4>1 DEF AttemptFact, At
    <3>7. CASE \/ ArchiveFails(a) \/ DeleteFails(a) \/ TrashFails(a)
               \/ RecordFailed(a) \/ DirectCommit(a) \/ ApproveItem(a) \/ AttemptDies(a)
      <4>1. attempt'[a].pc \in {"failed", "done"}
        BY <1>3, <3>2, <3>7, ExecuteGoes
           DEF ArchiveFails, DeleteFails, TrashFails, RecordFailed, DirectCommit, ApproveItem,
               AttemptDies, Places
      <4> QED BY <2>2, <3>1, <4>1 DEF AttemptFact, At
    <3> QED BY <1>3, <3>4, <3>5, <3>6, <3>7 DEF Execute
  <2> QED BY <2>1, <2>2
<1> QED BY <1>1, <1>2, <1>3, StepsSorted

-----------------------------------------------------------------------------
(***************************************************************************)
(* The facts about rows.  Only four steps write one that a later reader    *)
(* could take for a promise.                                               *)
(***************************************************************************)
LEMMA RecordCompletedRow ==
    ASSUME IInv, NEW a \in Attempts, RecordCompleted(a)
    PROVE  /\ row'[BatchOf(a)].key = KeyToRecord(a)
           /\ row'[BatchOf(a)].undone = row[BatchOf(a)].undone
           /\ \A b \in Batches \ {BatchOf(a)} : row'[b] = row[b]
           /\ BatchOf(a) \in Batches
<1>1. BatchOf(a) \in Batches
  BY BusyAttempt DEF IInv, RecordCompleted, At
<1>2. PICK x \in Batches : x = BatchOf(a)
  BY <1>1
<1>7. PICK r1 : r1 = [row EXCEPT ![x].state = "COMPLETED"]
  OBVIOUS
<1>3. row \in [Batches -> Row] /\ "COMPLETED" \in States
  BY DEF IInv, TypeOK, States
<1>4. /\ r1 \in [Batches -> Row] /\ r1[x].undone = row[x].undone
      /\ \A b \in Batches \ {x} : r1[b] = row[b]
  BY <1>3, <1>7, SetState
<1>5. row' = [r1 EXCEPT ![x].key = KeyToRecord(a)]
  BY <1>2, <1>7 DEF RecordCompleted
<1>6. KeyToRecord(a) \in Attempts \cup {NoAttempt}
  BY DEF KeyToRecord
<1> QED BY <1>1, <1>2, <1>4, <1>5, <1>6, SetKey

LEMMA RecordFailedRow ==
    ASSUME IInv, NEW a \in Attempts, RecordFailed(a)
    PROVE  \A b \in Batches : /\ row'[b].key = row[b].key /\ row'[b].undone = row[b].undone
                              /\ row'[b].state = row[b].state \/ row'[b].state = "FAILED"
<1>1. BatchOf(a) \in Batches
  BY BusyAttempt DEF IInv, RecordFailed, At
<1>2. row \in [Batches -> Row] /\ "FAILED" \in States
  BY DEF IInv, TypeOK, States
<1>3. row' = [row EXCEPT ![BatchOf(a)].state = "FAILED"]
  BY DEF RecordFailed
<1> QED BY <1>1, <1>2, <1>3, SetState

LEMMA DirectCommitRow ==
    ASSUME IInv, NEW a \in Attempts, DirectCommit(a)
    PROVE  /\ row'[BatchOf(a)].key = KeyToRecord(a)
           /\ row'[BatchOf(a)].undone = FALSE
           /\ \A b \in Batches \ {BatchOf(a)} : row'[b] = row[b]
           /\ BatchOf(a) \in Batches
<1>1. BatchOf(a) \in Batches
  BY BusyAttempt DEF IInv, DirectCommit, At
<1>2. row \in [Batches -> Row]
  BY DEF IInv, TypeOK
<1> QED BY <1>1, <1>2 DEF DirectCommit

LEMMA UndoRecordRow ==
    ASSUME IInv, NEW u \in Undoers, UndoRecord(u)
    PROVE  /\ row'[undo[u].batch].key = row[undo[u].batch].key
           /\ row'[undo[u].batch].undone
           /\ \A b \in Batches \ {undo[u].batch} : row'[b] = row[b]
           /\ undo[u].batch \in Batches
<1>1. undo[u].batch \in Batches
  BY DEF IInv, TypeOK, UndoRecord, NoUndo, UndoState
<1>2. PICK x \in Batches : x = undo[u].batch
  BY <1>1
<1>7. PICK r1 : r1 = [row EXCEPT ![x].state = "UNDONE"]
  OBVIOUS
<1>3. row \in [Batches -> Row] /\ "UNDONE" \in States
  BY DEF IInv, TypeOK, States
<1>4. /\ r1 \in [Batches -> Row] /\ r1[x].key = row[x].key
      /\ \A b \in Batches \ {x} : r1[b] = row[b]
  BY <1>3, <1>7, SetState
<1>5. row' = [r1 EXCEPT ![x].undone = TRUE]
  BY <1>2, <1>7 DEF UndoRecord
<1> QED BY <1>1, <1>2, <1>4, <1>5, SetUndone

LEMMA StageRow ==
    ASSUME IInv, NEW x \in Batches, StageCleanupRequest(x)
    PROVE  \A b \in Batches : /\ row'[b].key = row[b].key /\ row'[b].undone = row[b].undone
                              /\ row'[b].state = row[b].state \/ row'[b].state = "PENDING"
<1>1. row \in [Batches -> Row] /\ "PENDING" \in States
  BY DEF IInv, TypeOK, States
<1>2. row' = [row EXCEPT ![x].state = "PENDING"]
  BY DEF StageCleanupRequest
<1> QED BY <1>1, <1>2, SetState

\* The steps that write no row.
LEMMA RowUntouched ==
    ASSUME Next,
           \A b \in Batches : ~StageCleanupRequest(b),
           \A a \in Attempts : ~RecordCompleted(a) /\ ~RecordFailed(a) /\ ~DirectCommit(a),
           \A u \in Undoers : ~UndoRecord(u),
           \A s \in Sweepers : ~SweepClear(s)
    PROVE  row' = row
<1>1. CASE Rests
  BY <1>1 DEF Rests, RejectRead, RejectCommit, Age, UndoRead, ArchiveRestore, RestoreFails,
     UndoDies, SweepRead, SweepDelete, SweepSkips
<1>2. CASE Begins
  BY <1>2, BeginsUnchanged
<1>3. ASSUME NEW a \in Attempts, Execute(a)
      PROVE  row' = row
  BY <1>3 DEF Execute, ArchiveCreate, ArchiveVerify, ArchiveFails, BatchDelete, DeleteFails,
     BatchTrash, TrashFails, ApproveItem, AttemptDies
<1> QED BY <1>1, <1>2, <1>3, StepsSorted

LEMMA RowsStep ==
    ASSUME IInv, Next, Onward, NEW b \in Batches
    PROVE  RowFact(b)'
<1>1. ASSUME NEW a \in Attempts, RecordCompleted(a) \/ DirectCommit(a), b = BatchOf(a)
      PROVE  RowFact(b)'
  <2>1. Execute(a) /\ At(a, "applied") /\ a \notin aged
    BY <1>1, ExecuteGoes DEF Execute, RecordCompleted, DirectCommit
  <2>2. AttemptFact(a) /\ archive' = archive /\ restored' = restored /\ aged' = aged
    BY <1>1 DEF IInv, Facts, RecordCompleted, DirectCommit
  <2>3. attempt'[a].pc \in {"ran", "done"} /\ BatchOf(a)' = BatchOf(a)
    BY <1>1, <2>1, GoesTyped DEF RecordCompleted, DirectCommit, At, IInv, BatchOf, Places
  <2>4. b \in ran' /\ (IsDelete(a) => archive'[a] = "sound")
    BY <1>1, <2>1, <2>2 DEF AttemptFact, Onward
  <2>5. row'[b].key = KeyToRecord(a) /\ (row'[b].undone => row[b].undone)
    BY <1>1, RecordCompletedRow, DirectCommitRow
  <2>6. row'[b].undone => Plan[b] \subseteq restored'
    BY <2>2, <2>5 DEF IInv, Facts, RowFact
  <2>7. row'[b].key # NoAttempt => NamedFact(b, row[b].key)' /\ b \in ran'
    <3> SUFFICES ASSUME row'[b].key # NoAttempt
                 PROVE  NamedFact(b, row[b].key)'
      BY <2>4
    <3>1. row'[b].key = a /\ IsDelete(a)
      BY <2>5 DEF KeyToRecord
    <3> QED BY <1>1, <2>3, <2>4, <3>1 DEF NamedFact, BatchOf
  <2> QED BY <2>4, <2>6, <2>7 DEF RowFact
<1>2. ASSUME NEW a \in Attempts, RecordCompleted(a) \/ DirectCommit(a), b # BatchOf(a)
      PROVE  RowFact(b)'
  BY <1>2, RecordCompletedRow, DirectCommitRow, RowKept
<1>3. ASSUME NEW u \in Undoers, UndoRecord(u)
      PROVE  RowFact(b)'
  <2>1. undo[u].batch \in ran /\ Plan[undo[u].batch] \subseteq restored
    BY <1>3 DEF IInv, Facts, UndoFact, UndoRecord
  <2>2. CASE b = undo[u].batch
    <3>1. row'[b].key = row[b].key
      BY <1>3, <2>2, UndoRecordRow
    <3>2. RowFact(b) /\ row[b].key \in Attempts \cup {NoAttempt}
      BY DEF IInv, Facts, TypeOK, Row
    <3>3. UNCHANGED <<attempt, archive, aged>>
      BY <1>3 DEF UndoRecord
    <3>4. row[b].key # NoAttempt => NamedFact(b, row[b].key)
      BY <3>2 DEF RowFact
    <3>5. PICK k : k = row[b].key
      OBVIOUS
    <3>6. NamedFact(b, k) => NamedFact(b, k)'
      BY <3>3 DEF NamedFact, BatchOf, Expired, Retained
    <3>7. row'[b].key # NoAttempt => NamedFact(b, row[b].key)'
      BY <3>1, <3>3, <3>4, <3>5, <3>6 DEF NamedFact, BatchOf, Expired, Retained
    <3> QED BY <2>1, <2>2, <3>7 DEF RowFact, Onward
  <2>3. CASE b # undo[u].batch
    BY <1>3, <2>3, UndoRecordRow, RowKept
  <2> QED BY <2>2, <2>3
<1>4. CASE \/ \E x \in Batches : StageCleanupRequest(x)
           \/ \E a \in Attempts : RecordFailed(a)
  BY <1>4, StageRow, RecordFailedRow, RowKept
<1>5. CASE \E s \in Sweepers : SweepClear(s)
  <2>1. row'[b].state = row[b].state /\ row'[b].undone = row[b].undone
        /\ row'[b].key \in {row[b].key, NoAttempt}
    BY <1>5, SweepClearTyped DEF IInv
  <2> QED BY <2>1, RowKept
<1>6. CASE row' = row
  BY <1>6, RowKept
<1> QED BY <1>1, <1>2, <1>3, <1>4, <1>5, <1>6, RowUntouched

-----------------------------------------------------------------------------
(***************************************************************************)
(* The facts about undos, sweeps and messages.                             *)
(***************************************************************************)
LEMMA UndosStep ==
    ASSUME IInv, Next, Onward, NEW x \in Undoers
    PROVE  UndoFact(x)'
<1>0. undo \in [Undoers -> UndoState \cup {NoUndo}]
  BY DEF IInv, TypeOK
<1>1. ASSUME NEW u \in Undoers, NEW b \in Batches, UndoRead(u, b)
      PROVE  UndoFact(x)'
  <2>1. undo' = [undo EXCEPT ![u] = [pc |-> "read", batch |-> b, key |-> row[b].key]]
        /\ b \in ran
    BY <1>1 DEF UndoRead, ArchiveLive, IInv, Facts, RowFact
  <2>2. CASE x = u
    <3>1. undo'[x].pc = "read" /\ undo'[x].batch = b
      BY <1>0, <2>1, <2>2
    <3> QED BY <2>1, <3>1 DEF UndoFact, Onward
  <2>3. CASE x # u
    BY <1>0, <2>1, <2>3, UndoKept
  <2> QED BY <2>2, <2>3
<1>2. ASSUME NEW u \in Undoers,
             ArchiveRestore(u) \/ RestoreFails(u) \/ UndoRecord(u) \/ UndoDies(u)
      PROVE  UndoFact(x)'
  <2>1. CASE undo' = [undo EXCEPT ![u] = NoUndo]
    <3>1. CASE x = u
      BY <1>0, <2>1, <3>1 DEF UndoFact, NoUndo
    <3>2. CASE x # u
      BY <1>0, <2>1, <3>2, UndoKept
    <3> QED BY <3>1, <3>2
  <2>2. CASE ArchiveRestore(u)
    <3>1. undo' = [undo EXCEPT ![u].pc = "restored"] /\ Plan[undo[u].batch] \subseteq restored'
          /\ undo[u].pc = "read"
      BY <2>2 DEF ArchiveRestore
    <3>2. undo[u] \in UndoState /\ undo[u].batch \in ran
      BY <1>0, <3>1 DEF NoUndo, IInv, Facts, UndoFact
    <3>3. CASE x = u
      <4>1. undo'[x] = [undo[u] EXCEPT !.pc = "restored"]
        BY <1>0, <3>1, <3>3
      <4>2. undo'[x].pc = "restored" /\ undo'[x].batch = undo[u].batch
        BY <3>2, <4>1 DEF UndoState
      <4> QED BY <3>1, <3>2, <4>2 DEF UndoFact, Onward
    <3>4. CASE x # u
      BY <1>0, <3>1, <3>4, UndoKept
    <3> QED BY <3>3, <3>4
  <2> QED BY <1>2, <2>1, <2>2 DEF RestoreFails, UndoRecord, UndoDies
<1>3. CASE undo' = undo
  BY <1>3, UndoKept
<1>4. CASE Rests
  BY <1>1, <1>2, <1>3, <1>4 DEF Rests, requests, StageCleanupRequest, RejectRead, RejectCommit,
     Age, SweepRead, SweepDelete, SweepClear, SweepSkips
<1> QED BY <1>3, <1>4, StepsSorted, BeginsUnchanged, ExecuteGoes

LEMMA SweepsStep ==
    ASSUME IInv, Next, Onward, NEW x \in Sweepers
    PROVE  SweepFact(x)'
<1>1. ASSUME NEW s \in Sweepers, SweepRead(s) \/ SweepDelete(s) \/ SweepClear(s) \/ SweepSkips(s)
      PROVE  SweepFact(x)'
  <2>1. CASE x # s
    BY <1>1, <2>1, SweepTyped, SweepKept DEF IInv
  <2>2. CASE x = s
    <3>1. CASE /\ SweepRead(s) /\ sweep'[s].at = NoSweep.at
               /\ sweep'[s].todo = {<<b, row[b].key>> : b \in {y \in Batches : SweepsUp(y)}}
      <4>1. ASSUME NEW r \in sweep'[s].todo
            PROVE  Swept(r)'
        <5>1. PICK b \in Batches : SweepsUp(b) /\ r = <<b, row[b].key>>
          BY <3>1, <4>1
        <5>2. /\ row[b].key \in Attempts /\ r \in Batches \X Attempts
              /\ BatchOf(row[b].key) = b /\ Expired(row[b].key)
          BY <5>1 DEF SweepsUp, IInv, TypeOK, Row, Facts, RowFact, NamedFact
        <5>3. Swept(r)
          BY <5>1, <5>2 DEF Swept
        <5> QED BY <5>2, <5>3, SweptKept
      <4> QED BY <2>2, <3>1, <4>1 DEF SweepFact
    <3>2. CASE /\ sweep'[s].todo \subseteq sweep[s].todo
               /\ \/ sweep'[s].at = NoSweep.at
                  \/ sweep'[s].at = sweep[s].at
                  \/ sweep'[s].at \in sweep[s].todo
      BY <2>2, <3>2, SweepKept
    <3> QED BY <1>1, <3>1, <3>2, SweepTyped DEF IInv
  <2> QED BY <2>1, <2>2
<1>2. CASE sweep' = sweep
  BY <1>2, SweepKept
<1>3. CASE Rests
  BY <1>1, <1>2, <1>3 DEF Rests, requests, StageCleanupRequest, RejectRead, RejectCommit, Age,
     UndoRead, ArchiveRestore, RestoreFails, UndoRecord, UndoDies
<1> QED BY <1>2, <1>3, StepsSorted, BeginsUnchanged, ExecuteGoes

\* What a request deletes it has verified an archive of.
LEMMA NewlyDeleted ==
    ASSUME IInv, Next, NEW m \in Messages, mail'[m] = "deleted",
           ~(mail'[m] = mail[m] /\ by'[m] = by[m])
    PROVE  \E a \in Attempts :
              /\ BatchDelete(a) \/ DeleteFails(a)
              /\ by'[m] = a /\ m \in PlanOf(a)
<1>1. ~Rests /\ ~Begins
  BY RestsUnchanged, BeginsUnchanged DEF history
<1>2. PICK a \in Attempts : Execute(a)
  BY <1>1, StepsSorted
<1>3. BatchDelete(a) \/ DeleteFails(a)
  <2>1. CASE BatchTrash(a) \/ TrashFails(a)
    <3>1. PICK moved \in SUBSET PlanOf(a) : MoveToTrash(moved)
      BY <2>1 DEF BatchTrash, TrashFails
    <3>2. mail'[m] = mail[m]
      BY <3>1 DEF MoveToTrash
    <3> QED BY <2>1, <3>2 DEF BatchTrash, TrashFails, history
  <2> QED BY <1>2, <2>1 DEF Execute, history, ArchiveCreate, ArchiveVerify, ArchiveFails,
         RecordCompleted, RecordFailed, DirectCommit, ApproveItem, AttemptDies
<1>4. PICK gone \in SUBSET PlanOf(a) : DeleteAtProvider(a, gone)
  BY <1>3 DEF BatchDelete, DeleteFails
<1>5. m \in gone /\ by'[m] = a
  BY <1>4 DEF DeleteAtProvider
<1> QED BY <1>3, <1>4, <1>5

LEMMA MailsStep ==
    ASSUME IInv, Next, Onward, NEW m \in Messages
    PROVE  MailFact(m)'
<1> SUFFICES ASSUME mail'[m] = "deleted", ~(mail'[m] = mail[m] /\ by'[m] = by[m])
             PROVE  MailFact(m)'
  BY MailKept DEF MailFact
<1>1. PICK a \in Attempts : /\ BatchDelete(a) \/ DeleteFails(a)
                            /\ by'[m] = a /\ m \in PlanOf(a)
  BY NewlyDeleted
<1>2. attempt[a].pc = "verified" /\ archive[a] = "sound" /\ IsDelete(a) /\ archive' = archive
  BY <1>1 DEF BatchDelete, DeleteFails, At, IInv, Facts, AttemptFact
<1>3. attempt'[a].pc \in {"applied", "failed"} /\ BatchOf(a)' = BatchOf(a)
  BY <1>1, <1>2, GoesTyped DEF BatchDelete, DeleteFails, Places, IInv, BatchOf
<1>4. (IsDelete(a)' <=> IsDelete(a)) /\ PlanOf(a)' = PlanOf(a)
  BY <1>3 DEF IsDelete, PlanOf
<1> QED BY <1>1, <1>2, <1>3, <1>4 DEF MailFact, IsDelete, PlanOf, BatchOf

-----------------------------------------------------------------------------
(***************************************************************************)
(* The promises.                                                           *)
(***************************************************************************)
LEMMA CoveredStep ==
    ASSUME IInv, Next, Onward, TypeOK', NEW b \in Batches, Covered(b)
    PROVE  \/ Covered(b)'
           \/ row'[b].undone
           \/ b \notin Deletes
<1>1. ASSUME NEW a \in Attempts, RecordCompleted(a) \/ DirectCommit(a), b = BatchOf(a)
      PROVE  Covered(b)' \/ row'[b].undone \/ b \notin Deletes
  <2>1. row'[b].key = KeyToRecord(a) /\ Execute(a)
    BY <1>1, RecordCompletedRow, DirectCommitRow DEF Execute
  <2>2. a \notin aged'
    BY <2>1, ExecuteGoes
  <2>3. b \in Deletes => row'[b].key = a
    BY <1>1, <2>1 DEF KeyToRecord, IsDelete
  <2> QED BY <2>2, <2>3, NamesAssumption DEF Covered, ArchiveLive, Expired
<1>2. ASSUME NEW u \in Undoers, UndoRecord(u), b = undo[u].batch
      PROVE  row'[b].undone
  BY <1>2, UndoRecordRow
<1>3. ASSUME NEW s \in Sweepers, SweepClear(s), row'[b].key # row[b].key
      PROVE  Covered(b)'
  <2>1. sweep[s].at[1] = b /\ sweep[s].at # NoSweep.at
    BY <1>3, SweepClearTyped DEF IInv, SweepClear
  <2>2. Swept(sweep[s].at) /\ sweep[s].at \in Batches \X Attempts
    BY <2>1 DEF IInv, Facts, SweepFact
  <2>3. PICK a \in Attempts : a = sweep[s].at[2]
    BY <2>2
  <2>4. a \in aged /\ BatchOf(a) = b
    BY <2>1, <2>2, <2>3 DEF Swept, Expired
  <2>5. attempt' = attempt /\ aged' = aged
    BY <1>3 DEF SweepClear, requests
  <2> QED BY <2>3, <2>4, <2>5 DEF Covered, BatchOf
<1>4. ASSUME NEW a \in Attempts, AttemptDies(a), At(a, "applied"), b = BatchOf(a)
      PROVE  Covered(b)'
  BY <1>4 DEF AttemptDies, Covered
<1>5. ASSUME row'[b].key = row[b].key, row'[b].undone = row[b].undone,
             \A a \in Attempts : ~(AttemptDies(a) /\ At(a, "applied") /\ b = BatchOf(a)),
             \A a \in Attempts : ~((RecordCompleted(a) \/ DirectCommit(a)) /\ b = BatchOf(a))
      PROVE  Covered(b)'
  <2>1. ASSUME NEW a \in Attempts, At(a, "applied"), BatchOf(a) = b
        PROVE  At(a, "applied")'
    <3>1. CASE Rests
      BY <2>1, <3>1, RestsUnchanged DEF At
    <3>2. CASE Begins
      <4>1. PICK c \in Attempts, r \in AttemptState :
              At(c, "idle") /\ attempt' = [attempt EXCEPT ![c] = r]
        <5>1. PICK c \in Attempts, x \in Batches, vault \in BOOLEAN :
                ApproveRead(c, x, vault) \/ ExecuteCleanup(c, x, vault) \/ ApproveAgain(c, x)
          BY <3>2 DEF Begins
        <5>2. \A pc \in {"read", "ran"}, d, v \in BOOLEAN :
                [pc |-> pc, batch |-> x, direct |-> d, vault |-> v] \in AttemptState
          BY DEF AttemptState
        <5> QED BY <5>1, <5>2 DEF ApproveRead, ExecuteCleanup, ApproveAgain
      <4>2. c # a
        BY <2>1, <4>1 DEF At
      <4> QED BY <2>1, <4>1, <4>2, BeginsTyped DEF IInv, At
    <3>3. ASSUME NEW c \in Attempts, Execute(c)
          PROVE  At(a, "applied")'
      <4>1. CASE c # a
        BY <2>1, <3>3, <4>1, ExecuteGoes DEF At
      <4>2. CASE c = a
        <5>1. RecordCompleted(a) \/ DirectCommit(a) \/ AttemptDies(a)
          BY <2>1, <3>3, <4>2 DEF Execute, At, ArchiveCreate, ArchiveVerify, ArchiveFails,
             BatchDelete, DeleteFails, BatchTrash, TrashFails, RecordFailed, ApproveItem
        <5> QED BY <1>5, <2>1, <5>1
      <4> QED BY <4>1, <4>2
    <3> QED BY <3>1, <3>2, <3>3, StepsSorted
  <2> QED BY <1>5, <2>1, CoveredKept
<1>6. ASSUME \A a \in Attempts : ~((RecordCompleted(a) \/ DirectCommit(a)) /\ b = BatchOf(a)),
             \A u \in Undoers : ~(UndoRecord(u) /\ b = undo[u].batch),
             \A s \in Sweepers : ~(SweepClear(s) /\ row'[b].key # row[b].key)
      PROVE  row'[b].key = row[b].key /\ row'[b].undone = row[b].undone
  <2>1. CASE \E a \in Attempts : RecordCompleted(a) \/ DirectCommit(a)
    BY <1>6, <2>1, RecordCompletedRow, DirectCommitRow
  <2>2. CASE \E u \in Undoers : UndoRecord(u)
    BY <1>6, <2>2, UndoRecordRow
  <2>3. CASE \E s \in Sweepers : SweepClear(s)
    BY <1>6, <2>3, SweepClearTyped DEF IInv
  <2>4. CASE \E x \in Batches : StageCleanupRequest(x)
    BY <2>4, StageRow
  <2>5. CASE \E a \in Attempts : RecordFailed(a)
    BY <2>5, RecordFailedRow
  <2> QED BY <2>1, <2>2, <2>3, <2>4, <2>5, RowUntouched
<1> QED BY <1>1, <1>2, <1>3, <1>4, <1>5, <1>6

LEMMA UndoableStep == ASSUME IInv, Next, Onward, TypeOK' PROVE DeletedIsUndoable'
<1> SUFFICES ASSUME NEW m \in Messages, mail'[m] = "deleted", m \notin restored'
             PROVE  Covered(BatchOf(by[m]))'
  BY DEF DeletedIsUndoable, Covered
<1>1. CASE mail'[m] = mail[m] /\ by'[m] = by[m]
  <2>1. PICK b \in Batches : b = BatchOf(by[m])
    BY <1>1, UndoableKept
  <2>2. Covered(b) /\ b \in Deletes /\ m \in Plan[b] /\ BatchOf(by[m])' = b
    BY <1>1, <2>1, UndoableKept DEF IsDelete, PlanOf, BatchOf
  <2>3. ~row'[b].undone
    BY <2>2, RowsStep DEF RowFact
  <2>4. Covered(b)'
    BY <2>2, <2>3, CoveredStep
  <2> QED BY <2>2, <2>4 DEF Covered, ArchiveLive, AboutToRecord
<1>2. CASE ~(mail'[m] = mail[m] /\ by'[m] = by[m])
  <2>1. PICK a \in Attempts : /\ BatchDelete(a) \/ DeleteFails(a)
                              /\ by'[m] = a /\ m \in PlanOf(a)
    BY <1>2, NewlyDeleted
  <2>2. attempt'[a].batch = attempt[a].batch
    BY <2>1, ExecuteGoes DEF Execute
  <2>3. CASE BatchDelete(a)
    <3>1. attempt'[a].pc = "applied"
      BY <2>3, GoesTyped DEF BatchDelete, At, Places, IInv
    <3> QED BY <2>1, <3>1 DEF Covered, AboutToRecord, At
  <2>4. CASE DeleteFails(a)
    BY <2>1, <2>2, <2>4 DEF Covered, DeleteFails, BatchOf
  <2> QED BY <2>1, <2>3, <2>4
<1> QED BY <1>1, <1>2

LEMMA ApprovedStep == ASSUME IInv, Next, Onward PROVE ApprovedHasRun'
<1> SUFFICES ASSUME NEW b \in Batches, item'[b] = "APPROVED"
             PROVE  b \in ran'
  BY DEF ApprovedHasRun
<1>0. item \in [Batches -> {"none", "PENDING", "APPROVED", "REJECTED"}]
  BY DEF IInv, TypeOK
<1>1. CASE item[b] = "APPROVED"
  BY <1>1 DEF IInv, ApprovedHasRun, Onward
<1>2. CASE item[b] # "APPROVED"
  <2>1. PICK a \in Attempts : ApproveItem(a)
    BY <1>0, <1>2 DEF Next, Execute, StageCleanupRequest, RejectRead, RejectCommit, ApproveRead,
       ExecuteCleanup, ApproveAgain, ArchiveCreate, ArchiveVerify, ArchiveFails, BatchDelete,
       DeleteFails, BatchTrash, TrashFails, RecordCompleted, RecordFailed, DirectCommit,
       AttemptDies, Age, UndoRead, ArchiveRestore, RestoreFails, UndoRecord, UndoDies,
       SweepRead, SweepDelete, SweepClear, SweepSkips
  <2>2. b = BatchOf(a) /\ At(a, "ran")
    BY <1>0, <1>2, <2>1 DEF ApproveItem
  <2> QED BY <2>2 DEF IInv, Facts, AttemptFact, Onward
<1> QED BY <1>1, <1>2

LEMMA IInvKept == ASSUME IInv, [Next]_vars PROVE IInv'
<1>1. CASE Next
  <2>1. TypeOK' /\ Onward
    BY <1>1, TypeKept, StepsOnward DEF IInv
  <2>2. Facts'
    BY <1>1, <2>1, AttemptsStep, RowsStep, UndosStep, SweepsStep, MailsStep DEF Facts
  <2> QED BY <1>1, <2>1, <2>2, UndoableStep, ApprovedStep DEF IInv
<1>2. CASE UNCHANGED vars
  <2> USE <1>2 DEF vars, requests, history
  <2>1. TypeOK'
    BY TypeKept DEF IInv
  <2>2. Facts'
    BY DEF IInv, Facts, AttemptFact, RowFact, NamedFact, UndoFact, SweepFact, MailFact, Swept,
       Expired, Retained, At, IsDelete, PlanOf, BatchOf
  <2>3. DeletedIsUndoable' /\ ApprovedHasRun'
    BY DEF IInv, DeletedIsUndoable, ApprovedHasRun, ArchiveLive, AboutToRecord, Expired, Retained,
       At, BatchOf
  <2> QED BY <2>1, <2>2, <2>3 DEF IInv
<1> QED BY <1>1, <1>2

THEOREM Invariance == Spec => []IInv
<1>1. Init => IInv
  BY InitIInv
<1>2. IInv /\ [Next]_vars => IInv'
  BY IInvKept
<1> QED BY <1>1, <1>2, PTL DEF Spec

-----------------------------------------------------------------------------
(***************************************************************************)
(* Every state of the cleanup is well formed.                              *)
(***************************************************************************)
THEOREM TypeCorrect == Spec => []TypeOK
<1>1. IInv => TypeOK
  BY DEF IInv
<1> QED BY <1>1, Invariance, PTL

(***************************************************************************)
(* A deleted message can be had back until its archive has expired, unless *)
(* the request that deleted it ended without recording the archive: the    *)
(* interleavings of approveCleanupBatch, executeCleanup, undoBatch and     *)
(* sweepExpiredArchives lose none.                                         *)
(***************************************************************************)
THEOREM DeletedStaysUndoable == Spec => []DeletedIsUndoable
<1>1. IInv => DeletedIsUndoable
  BY DEF IInv
<1> QED BY <1>1, Invariance, PTL

(***************************************************************************)
(* The provider is asked to delete only what a verified archive holds, and *)
(* that archive outlives its retention.                                    *)
(***************************************************************************)
THEOREM DeletedStaysArchived == Spec => []DeletedIsArchived
<1>1. IInv => DeletedIsArchived
  BY DEF IInv, Facts, MailFact, DeletedIsArchived
<1> QED BY <1>1, Invariance, PTL

(***************************************************************************)
(* sweepExpiredArchives never takes away an archive a row still offers.    *)
(***************************************************************************)
THEOREM LiveArchiveStays == Spec => []LiveArchiveIsThere
<1>1. ASSUME IInv, NEW b \in Batches, ArchiveLive(b)
      PROVE  archive[row[b].key] = "sound"
  BY <1>1 DEF IInv, Facts, RowFact, NamedFact, ArchiveLive
<1>2. IInv => LiveArchiveIsThere
  BY <1>1 DEF LiveArchiveIsThere
<1> QED BY <1>2, Invariance, PTL

(***************************************************************************)
(* undoBatch reports a batch as undone only when all of it is back.        *)
(***************************************************************************)
THEOREM UndoneStaysBack == Spec => []UndoneIsBack
<1>1. IInv => UndoneIsBack
  BY DEF IInv, Facts, RowFact, UndoneIsBack
<1> QED BY <1>1, Invariance, PTL

(***************************************************************************)
(* approveCleanupBatch approves the item of no batch that has not run.     *)
(***************************************************************************)
THEOREM ApprovedStaysRun == Spec => []ApprovedHasRun
<1>1. IInv => ApprovedHasRun
  BY DEF IInv
<1> QED BY <1>1, Invariance, PTL
=============================================================================
