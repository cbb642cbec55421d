---------------------------- MODULE SnoozeProofs ----------------------------
(***************************************************************************)
(* Proofs about Snooze, for every set of snoozes, threads, workers and     *)
(* unsnooze requests, any batch size and any bounds.                       *)
(*                                                                         *)
(* That a hidden thread has a way back is not inductive: the row that is   *)
(* the way back may be in the hands of a sweep or of an unsnooze that has  *)
(* done its move already and is about to write the row off.  There is      *)
(* always one in nobody's hands.                                           *)
(***************************************************************************)
EXTENDS Snooze, TLAPS

\* What a sweep or an unsnooze works on is a row.
AtInv ==
    /\ \A w \in Workers :
          /\ \A i \in worker[w].todo : snooze[i].state \in RowState
          /\ worker[w].pc = "restored" =>
                worker[w].at \in Snoozes /\ snooze[worker[w].at].state \in RowState
    /\ \A u \in Unsnoozers : unsnooze[u].pc # "idle" =>
          unsnooze[u].at \in Snoozes /\ snooze[unsnooze[u].at].state \in RowState

\* Nobody is about to write the row off.
Untaken(i) ==
    /\ \A w \in Workers : ~(worker[w].pc = "restored" /\ worker[w].at = i)
    /\ \A u \in Unsnoozers : ~(unsnooze[u].pc = "restored" /\ unsnooze[u].at = i)

Pending(i, t) == snooze[i].thread = t /\ snooze[i].state \in {"moved", "ACTIVE"}

WayInv == \A t \in Threads : Hidden(t) => \E i \in Snoozes : Pending(i, t) /\ Untaken(i)

IInv == TypeOK /\ AtInv /\ WayInv

-----------------------------------------------------------------------------
LEMMA InitIInv == Init => IInv
<1> SUFFICES ASSUME Init PROVE IInv
  OBVIOUS
<1> USE DEF Init
<1>1. TypeOK
  <2>1. 0 \in 0..MaxClock /\ 0 \in 0..MaxFaults
    BY BoundsAssumption
  <2>2. Idle \in WorkerState /\ Away \in UnsnoozeState
    BY DEF Idle, Away, WorkerState, UnsnoozeState
  <2> QED BY <2>1, <2>2 DEF TypeOK
<1>2. AtInv
  BY DEF AtInv, Idle, Away
<1>3. WayInv
  BY DEF WayInv, Hidden
<1> QED BY <1>1, <1>2, <1>3 DEF IInv

(***************************************************************************)
(* A row that exists has the shape of a row.                               *)
(***************************************************************************)
LEMMA RowFacts ==
    ASSUME TypeOK, NEW i \in Snoozes
    PROVE  /\ snooze[i].state # "none" => snooze[i] \in Row
           /\ snooze[i].state = "none" => snooze[i] = NoRow
BY DEF TypeOK, NoRow, Row, RequestState, RowState

(***************************************************************************)
(* What a change of one row's state may be, and what moving a thread does. *)
(***************************************************************************)
LEMMA StateTyped ==
    ASSUME TypeOK, NEW i \in Snoozes, snooze[i].state # "none",
           NEW s \in (RequestState \ {"none"}) \cup RowState,
           snooze' = [snooze EXCEPT ![i].state = s]
    PROVE  /\ snooze' \in [Snoozes -> Row \cup {NoRow}]
           /\ snooze'[i].state = s /\ snooze'[i].thread = snooze[i].thread
           /\ \A j \in Snoozes \ {i} : snooze'[j] = snooze[j]
<1>1. snooze[i] \in Row
  BY RowFacts
<1>2. [snooze[i] EXCEPT !.state = s] \in Row
  BY <1>1 DEF Row
<1>3. snooze \in [Snoozes -> Row \cup {NoRow}]
  BY DEF TypeOK
<1>4. [snooze[i] EXCEPT !.state = s].state = s /\ [snooze[i] EXCEPT !.state = s].thread = snooze[i].thread
  BY <1>1 DEF Row
<1> HIDE DEF Row, NoRow
<1> QED BY <1>2, <1>3, <1>4

LEMMA MoveTyped ==
    ASSUME TypeOK, NEW t \in Threads, NEW to \in {"inbox", "archive", "elsewhere", "gone"},
           MoveThreadToFolder(t, to)
    PROVE  /\ folder' \in [Threads -> {"inbox", "archive", "elsewhere", "gone"}]
           /\ folder'[t] = to /\ stranded' \subseteq Threads /\ t \notin stranded'
           /\ \A x \in Threads \ {t} : folder'[x] = folder[x]
           /\ \A x \in Threads \ {t} : x \in stranded' <=> x \in stranded
BY DEF MoveThreadToFolder, TypeOK

-----------------------------------------------------------------------------
(***************************************************************************)
(* The snooze requests: a new one hides its thread and is its way back;    *)
(* one that is dropped strands it.                                         *)
(***************************************************************************)
LEMMA RequestKeepsInv ==
    ASSUME IInv, NEW i \in Snoozes,
           \/ \E t \in Threads, until \in SnoozeTimes : SnoozeThread(i, t, until)
           \/ SnoozeRecord(i)
           \/ SnoozeDrops(i)
    PROVE  IInv'
<1> USE DEF IInv
<1>1. ASSUME NEW t \in Threads, NEW until \in SnoozeTimes, SnoozeThread(i, t, until)
      PROVE  IInv'
  <2> DEFINE r == [state |-> "moved", thread |-> t, until |-> until]
  <2>1. MoveThreadToFolder(t, "archive") /\ snooze[i] = NoRow
        /\ snooze' = [snooze EXCEPT ![i] = r] /\ UNCHANGED <<worker, unsnooze, clock, faults>>
    BY <1>1 DEF SnoozeThread
  <2>2. r \in Row /\ r.state = "moved" /\ r.thread = t
    BY DEF Row, RequestState
  <2>3. snooze \in [Snoozes -> Row \cup {NoRow}]
    BY DEF TypeOK
  <2> HIDE DEF r
  <2>4. /\ snooze' \in [Snoozes -> Row \cup {NoRow}]
        /\ snooze'[i] = r
        /\ \A j \in Snoozes \ {i} : snooze'[j] = snooze[j]
    BY <2>1, <2>2, <2>3
  <2>5. TypeOK'
    BY <2>1, <2>4, MoveTyped DEF TypeOK
  <2>6. snooze[i].state \notin RowState
    BY <2>1 DEF NoRow, RowState
  <2>7. AtInv'
    BY <2>1, <2>4, <2>6 DEF AtInv, TypeOK, WorkerState
  <2>8. ASSUME NEW x \in Threads, Hidden(x)'
        PROVE  \E j \in Snoozes : (Pending(j, x) /\ Untaken(j))'
    <3>1. CASE x = t
      <4>1. Untaken(i)'
        BY <2>1, <2>6 DEF Untaken, AtInv
      <4>2. Pending(i, t)'
        BY <2>2, <2>4 DEF Pending
      <4> QED BY <3>1, <4>1, <4>2
    <3>2. CASE x # t
      <4>1. Hidden(x)
        BY <2>1, <2>8, <3>2, MoveTyped DEF Hidden
      <4>2. PICK j \in Snoozes : Pending(j, x) /\ Untaken(j)
        BY <4>1 DEF WayInv
      <4>3. j # i
        BY <2>1, <4>2 DEF Pending, NoRow
      <4> QED BY <2>1, <2>4, <4>2, <4>3 DEF Pending, Untaken
    <3> QED BY <3>1, <3>2
  <2> QED BY <2>5, <2>7, <2>8 DEF WayInv
<1>2. ASSUME SnoozeRecord(i) \/ SnoozeDrops(i)
      PROVE  IInv'
  <2>1. PICK s \in {"ACTIVE", "dropped"} :
          /\ snooze[i].state = "moved"
          /\ snooze' = [snooze EXCEPT ![i].state = s]
          /\ UNCHANGED <<folder, worker, unsnooze, clock, faults>>
          /\ \/ s = "ACTIVE" /\ stranded' = stranded
             \/ s = "dropped" /\ stranded' = stranded \cup {snooze[i].thread}
    BY <1>2 DEF SnoozeRecord, SnoozeDrops
  <2>2. s \in (RequestState \ {"none"}) \cup RowState
    BY <2>1 DEF RequestState, RowState
  <2>3. /\ snooze' \in [Snoozes -> Row \cup {NoRow}]
        /\ snooze'[i].state = s /\ snooze'[i].thread = snooze[i].thread
        /\ \A j \in Snoozes \ {i} : snooze'[j] = snooze[j]
    BY <2>1, <2>2, StateTyped
  <2>4. snooze[i].thread \in Threads
    BY <2>1, RowFacts DEF Row
  <2>5. stranded' \subseteq Threads
    BY <2>1, <2>4 DEF TypeOK
  <2>6. TypeOK'
    BY <2>1, <2>3, <2>5 DEF TypeOK
  <2>7. snooze[i].state \notin RowState
    BY <2>1 DEF RowState
  <2>8. AtInv'
    BY <2>1, <2>3, <2>7 DEF AtInv, TypeOK, WorkerState
  <2>9. ASSUME NEW x \in Threads, Hidden(x)'
        PROVE  \E j \in Snoozes : (Pending(j, x) /\ Untaken(j))'
    <3>1. Hidden(x)
      BY <2>1, <2>9 DEF Hidden
    <3>2. PICK j \in Snoozes : Pending(j, x) /\ Untaken(j)
      BY <3>1 DEF WayInv
    <3>3. Untaken(j)'
      BY <2>1, <3>2 DEF Untaken
    <3>4. CASE j # i
      BY <2>3, <3>2, <3>3, <3>4 DEF Pending
    <3>5. CASE j = i
      <4>1. s # "dropped"
        BY <2>1, <2>9, <3>2, <3>5 DEF Hidden, Pending
      <4> QED BY <2>1, <2>3, <3>2, <3>3, <3>5, <4>1 DEF Pending
    <3> QED BY <3>4, <3>5
  <2> QED BY <2>6, <2>8, <2>9 DEF WayInv
<1> QED BY <1>1, <1>2

(***************************************************************************)
(* A step that moves one thread to where it is not hidden, and no row.  A  *)
(* way back of another thread stays in nobody's hands: who takes a row     *)
(* takes one of the thread it moves.                                       *)
(***************************************************************************)
LEMMA MoveKeepsWay ==
    ASSUME IInv, NEW t \in Threads, NEW to \in {"inbox", "elsewhere", "gone"},
           MoveThreadToFolder(t, to), UNCHANGED snooze,
           \A i \in Snoozes : Untaken(i) /\ snooze[i].thread # t => Untaken(i)'
    PROVE  WayInv'
<1> USE DEF IInv
<1> SUFFICES ASSUME NEW x \in Threads, Hidden(x)'
             PROVE  \E j \in Snoozes : (Pending(j, x) /\ Untaken(j))'
  BY DEF WayInv
<1>1. x # t /\ Hidden(x)
  BY MoveTyped DEF Hidden
<1>2. PICK j \in Snoozes : Pending(j, x) /\ Untaken(j)
  BY <1>1 DEF WayInv
<1>3. Untaken(j)'
  BY <1>1, <1>2 DEF Pending
<1> QED BY <1>2, <1>3 DEF Pending

(***************************************************************************)
(* A step that moves nothing and writes at most one row, one that was in   *)
(* somebody's hands.                                                       *)
(***************************************************************************)
LEMMA WriteKeepsWay ==
    ASSUME IInv, UNCHANGED <<folder, stranded>>,
           \A i \in Snoozes : Untaken(i) => Untaken(i)' /\ snooze'[i] = snooze[i]
    PROVE  WayInv'
BY DEF IInv, WayInv, Hidden, Pending

(***************************************************************************)
(* The unsnooze requests.                                                  *)
(***************************************************************************)
LEMMA UnsnoozeKeepsInv ==
    ASSUME IInv, NEW u \in Unsnoozers,
           \/ \E i \in Snoozes : Unsnooze(u, i)
           \/ UnsnoozeMove(u)
           \/ UnsnoozeCancel(u)
           \/ UnsnoozeDrops(u)
    PROVE  IInv'
<1> USE DEF IInv
<1>0. unsnooze \in [Unsnoozers -> UnsnoozeState] /\ unsnooze[u] \in UnsnoozeState
  BY DEF TypeOK
<1>1. ASSUME NEW i \in Snoozes, Unsnooze(u, i) PROVE IInv'
  <2>1. unsnooze' \in [Unsnoozers -> UnsnoozeState]
    BY <1>0, <1>1 DEF Unsnooze, UnsnoozeState
  <2>2. TypeOK'
    BY <1>1, <2>1 DEF Unsnooze, TypeOK
  <2>3. AtInv'
    BY <1>0, <1>1 DEF Unsnooze, AtInv, RowState
  <2>4. \A j \in Snoozes : Untaken(j) => Untaken(j)' /\ snooze'[j] = snooze[j]
    BY <1>0, <1>1 DEF Unsnooze, Untaken
  <2> QED BY <1>1, <2>2, <2>3, <2>4, WriteKeepsWay DEF Unsnooze
<1>2. ASSUME UnsnoozeMove(u) PROVE IInv'
  <2>1. PICK i \in Snoozes : i = unsnooze[u].at
    BY <1>2 DEF UnsnoozeMove, AtInv
  <2>2. PICK t \in Threads : t = snooze[i].thread
    BY <1>2, <2>1, RowFacts DEF UnsnoozeMove, AtInv, Row, RowState
  <2>3. /\ MoveThreadToFolder(t, "inbox")
        /\ unsnooze' = [unsnooze EXCEPT ![u].pc = "restored"]
        /\ UNCHANGED <<snooze, worker, clock, faults>>
    BY <1>2, <2>1, <2>2 DEF UnsnoozeMove
  <2>4. unsnooze' \in [Unsnoozers -> UnsnoozeState]
    BY <1>0, <2>3 DEF UnsnoozeState
  <2>5. TypeOK'
    BY <2>3, <2>4, MoveTyped DEF TypeOK
  <2>6. unsnooze'[u].at = i /\ \A v \in Unsnoozers \ {u} : unsnooze'[v] = unsnooze[v]
    BY <1>0, <2>1, <2>3 DEF UnsnoozeState
  <2>7. AtInv'
    BY <1>2, <2>1, <2>3, <2>6 DEF AtInv, UnsnoozeMove
  <2>8. \A j \in Snoozes : Untaken(j) /\ snooze[j].thread # t => Untaken(j)'
    BY <2>2, <2>3, <2>6 DEF Untaken
  <2> QED BY <2>3, <2>5, <2>7, <2>8, MoveKeepsWay
<1>3. ASSUME UnsnoozeCancel(u) PROVE IInv'
  <2>1. PICK i \in Snoozes : i = unsnooze[u].at /\ snooze[i].state \in RowState
    BY <1>3 DEF UnsnoozeCancel, AtInv
  <2>2. /\ unsnooze[u].pc = "restored"
        /\ snooze' = [snooze EXCEPT ![i].state = "CANCELLED"]
        /\ unsnooze' = [unsnooze EXCEPT ![u] = Away]
        /\ UNCHANGED <<folder, worker, clock, faults, stranded>>
    BY <1>3, <2>1 DEF UnsnoozeCancel
  <2>3. /\ snooze' \in [Snoozes -> Row \cup {NoRow}]
        /\ snooze'[i].state = "CANCELLED"
        /\ \A j \in Snoozes \ {i} : snooze'[j] = snooze[j]
    BY <2>1, <2>2, StateTyped DEF RowState
  <2>4. unsnooze' \in [Unsnoozers -> UnsnoozeState]
    BY <1>0, <2>2 DEF UnsnoozeState, Away
  <2>5. TypeOK'
    BY <2>2, <2>3, <2>4 DEF TypeOK
  <2>6. unsnooze'[u].pc = "idle" /\ \A v \in Unsnoozers \ {u} : unsnooze'[v] = unsnooze[v]
    BY <1>0, <2>2 DEF Away
  <2>7. AtInv'
    BY <2>2, <2>3, <2>6 DEF AtInv, TypeOK, WorkerState, RowState
  <2>8. \A j \in Snoozes : Untaken(j) => Untaken(j)' /\ snooze'[j] = snooze[j]
    BY <2>1, <2>2, <2>3, <2>6 DEF Untaken
  <2> QED BY <2>2, <2>5, <2>7, <2>8, WriteKeepsWay
<1>4. ASSUME UnsnoozeDrops(u) PROVE IInv'
  <2>1. /\ unsnooze' = [unsnooze EXCEPT ![u] = Away]
        /\ UNCHANGED <<snooze, folder, worker, clock, faults, stranded>>
    BY <1>4 DEF UnsnoozeDrops
  <2>2. unsnooze' \in [Unsnoozers -> UnsnoozeState]
    BY <1>0, <2>1 DEF UnsnoozeState, Away
  <2>3. TypeOK'
    BY <2>1, <2>2 DEF TypeOK
  <2>4. unsnooze'[u].pc = "idle" /\ \A v \in Unsnoozers \ {u} : unsnooze'[v] = unsnooze[v]
    BY <1>0, <2>1 DEF Away
  <2>5. AtInv'
    BY <2>1, <2>4 DEF AtInv
  <2>6. \A j \in Snoozes : Untaken(j) => Untaken(j)' /\ snooze'[j] = snooze[j]
    BY <2>1, <2>4 DEF Untaken
  <2> QED BY <2>1, <2>3, <2>5, <2>6, WriteKeepsWay
<1> QED BY <1>1, <1>2, <1>3, <1>4

-----------------------------------------------------------------------------
(***************************************************************************)
(* The sweep.  A worker that reads or drops rows changes only its memory;  *)
(* the two lemmas before the case split say what its record becomes.       *)
(***************************************************************************)
LEMMA WorkerMemory ==
    ASSUME IInv, NEW w \in Workers, NEW r \in WorkerState,
           worker' = [worker EXCEPT ![w] = r],
           r.pc # "restored",
           \A i \in r.todo : snooze[i].state \in RowState,
           UNCHANGED <<snooze, folder, unsnooze, clock, stranded>>, faults' \in 0..MaxFaults
    PROVE  IInv'
<1> USE DEF IInv
<1>1. /\ worker' \in [Workers -> WorkerState]
      /\ worker'[w] = r
      /\ \A v \in Workers \ {w} : worker'[v] = worker[v]
  BY DEF TypeOK
<1>2. TypeOK'
  BY <1>1 DEF TypeOK
<1>3. AtInv'
  BY <1>1 DEF AtInv
<1>4. \A i \in Snoozes : Untaken(i) => Untaken(i)' /\ snooze'[i] = snooze[i]
  BY <1>1 DEF Untaken
<1> QED BY <1>2, <1>3, <1>4, WriteKeepsWay

\* The step of a worker from the row i, with its thread moved.
LEMMA WorkerMove ==
    ASSUME IInv, NEW w \in Workers, NEW i \in Snoozes, i \in worker[w].todo,
           worker[w].pc = "picking",
           NEW p \in {"picking", "restored"}, NEW a \in {i, worker[w].at},
           p = "restored" => a = i,
           MoveThreadToFolder(snooze[i].thread, "inbox"),
           worker' = [worker EXCEPT ![w].pc = p, ![w].at = a, ![w].todo = @ \ {i}],
           UNCHANGED <<snooze, unsnooze, clock>>, faults' \in 0..MaxFaults
    PROVE  IInv'
<1> USE DEF IInv
<1>0. worker \in [Workers -> WorkerState] /\ worker[w] \in WorkerState
  BY DEF TypeOK
<1>1. snooze[i].state \in RowState
  BY DEF AtInv
<1>2. PICK t \in Threads : t = snooze[i].thread
  BY <1>1, RowFacts DEF Row, RowState
<1>3. MoveThreadToFolder(t, "inbox")
  BY <1>2
<1>4. /\ worker' \in [Workers -> WorkerState]
      /\ worker'[w].pc = p /\ worker'[w].at = a /\ worker'[w].todo = worker[w].todo \ {i}
      /\ \A v \in Workers \ {w} : worker'[v] = worker[v]
  <2>1. PICK after : after = [worker[w] EXCEPT !.pc = p, !.at = a, !.todo = @ \ {i}]
    OBVIOUS
  <2>2. a \in Snoozes \cup {NoSnooze} /\ worker[w].todo \ {i} \subseteq Snoozes
    BY <1>0 DEF WorkerState
  <2>3. /\ after \in WorkerState
        /\ after.pc = p /\ after.at = a /\ after.todo = worker[w].todo \ {i}
    BY <1>0, <2>1, <2>2 DEF WorkerState
  <2>4. worker' = [worker EXCEPT ![w] = after]
    BY <2>1
  <2> QED
    <3> HIDE DEF WorkerState
    <3> QED BY ONLY <1>0, <2>3, <2>4, w \in Workers
<1>5. TypeOK /\ UNCHANGED <<snooze, unsnooze, clock>> /\ faults' \in 0..MaxFaults
  OBVIOUS
<1>6. TypeOK'
  <2>1. folder' \in [Threads -> {"inbox", "archive", "elsewhere", "gone"}] /\ stranded' \subseteq Threads
    BY <1>3, <1>5, MoveTyped
  <2> QED BY <1>4, <1>5, <2>1 DEF TypeOK
<1>7. AtInv'
  BY <1>1, <1>4 DEF AtInv
<1>8. \A j \in Snoozes : Untaken(j) /\ snooze[j].thread # t => Untaken(j)'
  BY <1>2, <1>4 DEF Untaken
<1> QED BY <1>3, <1>6, <1>7, <1>8, MoveKeepsWay

LEMMA WorkerKeepsInv ==
    ASSUME IInv, NEW w \in Workers,
           WorkerStep(w) \/ SurfaceFails(w) \/ ClaimFails(w) \/ Crash(w)
    PROVE  IInv'
<1> USE DEF IInv
<1>0. /\ worker \in [Workers -> WorkerState] /\ worker[w] \in WorkerState
      /\ worker[w].todo \in SUBSET Snoozes /\ worker[w].at \in Snoozes \cup {NoSnooze}
      /\ faults \in 0..MaxFaults /\ MaxFaults \in Nat
      /\ \A i \in worker[w].todo : snooze[i].state \in RowState
  BY BoundsAssumption DEF TypeOK, WorkerState, AtInv
<1>1. ASSUME SweepReads(w) PROVE IInv'
  <2>1. PICK b \in Batches : worker' = [worker EXCEPT ![w] = [Idle EXCEPT !.pc = "picking", !.todo = b]]
    BY <1>1 DEF SweepReads
  <2>2. b \subseteq Snoozes /\ \A i \in b : snooze[i].state \in RowState
    BY DEF Batches, Due, RowState
  <2>3. PICK r : r = [Idle EXCEPT !.pc = "picking", !.todo = b]
    OBVIOUS
  <2>4. r \in WorkerState /\ r.pc = "picking" /\ r.todo = b
    BY <2>2, <2>3 DEF Idle, WorkerState
  <2>5. worker' = [worker EXCEPT ![w] = r]
    BY <2>1, <2>3
  <2> QED BY <1>0, <1>1, <2>2, <2>4, <2>5, WorkerMemory DEF SweepReads
<1>2. ASSUME SurfaceMove(w) PROVE IInv'
  <2>1. PICK i \in First(w) :
          /\ MoveThreadToFolder(snooze[i].thread, "inbox")
          /\ worker' = [worker EXCEPT ![w].pc = "restored", ![w].at = i, ![w].todo = @ \ {i}]
    BY <1>2 DEF SurfaceMove
  <2>2. i \in worker[w].todo /\ i \in Snoozes
    BY <1>0 DEF First
  <2>3. worker[w].pc = "picking" /\ UNCHANGED <<snooze, unsnooze, clock, faults>>
    BY <1>2 DEF SurfaceMove
  <2> QED BY <1>0, <2>1, <2>2, <2>3, WorkerMove
<1>3. ASSUME SurfaceClaim(w) PROVE IInv'
  <2>1. PICK i \in Snoozes : i = worker[w].at /\ snooze[i].state \in RowState
    BY <1>3 DEF SurfaceClaim, AtInv
  <2>2. /\ worker[w].pc = "restored"
        /\ ClaimSurfaced(i)
        /\ worker' = [worker EXCEPT ![w].pc = "picking", ![w].at = NoSnooze]
        /\ UNCHANGED <<folder, unsnooze, clock, faults, stranded>>
    BY <1>3, <2>1 DEF SurfaceClaim
  <2>3. /\ snooze' \in [Snoozes -> Row \cup {NoRow}]
        /\ snooze'[i].state \in RowState
        /\ \A j \in Snoozes \ {i} : snooze'[j] = snooze[j]
    BY <2>1, <2>2, StateTyped DEF ClaimSurfaced, RowState, TypeOK
  <2>4. PICK after : after = [worker[w] EXCEPT !.pc = "picking", !.at = NoSnooze]
    OBVIOUS
  <2>5. after \in WorkerState /\ after.pc = "picking" /\ after.todo = worker[w].todo
    BY <1>0, <2>4 DEF WorkerState
  <2>6. /\ worker' \in [Workers -> WorkerState]
        /\ worker'[w].pc = "picking" /\ worker'[w].todo = worker[w].todo
        /\ \A v \in Workers \ {w} : worker'[v] = worker[v]
    <3>1. worker' = [worker EXCEPT ![w] = after]
      BY <2>2, <2>4
    <3> HIDE DEF WorkerState
    <3> QED BY ONLY <1>0, <2>5, <3>1, w \in Workers
  <2>9. TypeOK'
    BY <2>2, <2>3, <2>6 DEF TypeOK
  <2>7. AtInv'
    <3>1. \A j \in Snoozes : snooze[j].state \in RowState => snooze'[j].state \in RowState
      BY <2>3
    <3>2. \A v \in Workers : worker[v].todo \subseteq Snoozes
      BY <1>0 DEF WorkerState
    <3> QED BY <2>2, <2>6, <3>1, <3>2 DEF AtInv
  <2>8. \A j \in Snoozes : Untaken(j) => Untaken(j)' /\ snooze'[j] = snooze[j]
    BY <2>1, <2>2, <2>3, <2>6 DEF Untaken
  <2> QED BY <2>2, <2>7, <2>8, <2>9, WriteKeepsWay
<1>4. ASSUME SurfaceSkips(w) \/ (SurfaceFails(w) /\ UNCHANGED <<folder, stranded>>)
      PROVE  IInv'
  <2>1. PICK i \in First(w) : worker' = [worker EXCEPT ![w].todo = @ \ {i}]
    BY <1>4 DEF SurfaceSkips, SkipRow, SurfaceFails
  <2>2. PICK r : r = [worker[w] EXCEPT !.todo = @ \ {i}]
    OBVIOUS
  <2>3. worker[w].pc = "picking"
    BY <1>4 DEF SurfaceSkips, SurfaceFails
  <2>4. r \in WorkerState /\ r.pc = "picking" /\ r.todo = worker[w].todo \ {i}
    BY <1>0, <2>2, <2>3 DEF WorkerState
  <2>5. worker' = [worker EXCEPT ![w] = r]
    BY <1>0, <2>1, <2>2
  <2>6. UNCHANGED <<snooze, folder, unsnooze, clock, stranded>> /\ faults' \in 0..MaxFaults
    BY <1>0, <1>4 DEF SurfaceSkips, SurfaceFails, Fault
  <2> QED BY <1>0, <2>4, <2>5, <2>6, WorkerMemory
<1>5. ASSUME SurfaceFails(w), ~UNCHANGED <<folder, stranded>> PROVE IInv'
  <2>1. PICK i \in First(w) :
          /\ worker' = [worker EXCEPT ![w].todo = @ \ {i}]
          /\ MoveThreadToFolder(snooze[i].thread, "inbox")
    BY <1>5 DEF SurfaceFails
  <2>2. i \in worker[w].todo /\ i \in Snoozes
    BY <1>0 DEF First
  <2>3. /\ worker[w].pc = "picking" /\ UNCHANGED <<snooze, unsnooze, clock>>
        /\ faults' \in 0..MaxFaults
    BY <1>0, <1>5 DEF SurfaceFails, Fault
  <2>4. worker' = [worker EXCEPT ![w].pc = "picking", ![w].at = worker[w].at, ![w].todo = @ \ {i}]
    BY <1>0, <2>1, <2>3 DEF WorkerState
  <2> QED BY <2>1, <2>2, <2>3, <2>4, WorkerMove
<1>6. ASSUME ClaimFails(w) PROVE IInv'
  <2>1. PICK r : r = [worker[w] EXCEPT !.pc = "picking", !.at = NoSnooze]
    OBVIOUS
  <2>2. r \in WorkerState /\ r.pc = "picking" /\ r.todo = worker[w].todo
    BY <1>0, <2>1 DEF WorkerState
  <2>3. worker' = [worker EXCEPT ![w] = r]
    BY <1>0, <1>6, <2>1 DEF ClaimFails
  <2>4. UNCHANGED <<snooze, folder, unsnooze, clock, stranded>> /\ faults' \in 0..MaxFaults
    BY <1>0, <1>6 DEF ClaimFails, Fault
  <2> QED BY <1>0, <2>2, <2>3, <2>4, WorkerMemory
<1>7. ASSUME SweepEnds(w) \/ Crash(w) PROVE IInv'
  <2>1. Idle \in WorkerState /\ Idle.pc = "idle" /\ Idle.todo = {}
    BY DEF Idle, WorkerState
  <2>2. worker' = [worker EXCEPT ![w] = Idle]
    BY <1>7 DEF SweepEnds, Crash
  <2>3. UNCHANGED <<snooze, folder, unsnooze, clock, stranded>> /\ faults' \in 0..MaxFaults
    BY <1>0, <1>7 DEF SweepEnds, Crash, Fault
  <2> HIDE DEF Idle
  <2> QED BY <2>1, <2>2, <2>3, WorkerMemory
<1> QED BY <1>1, <1>2, <1>3, <1>4, <1>5, <1>6, <1>7 DEF WorkerStep

LEMMA MailboxKeepsInv ==
    ASSUME IInv, NEW t \in Threads, UserMoves(t) \/ Expunge(t)
    PROVE  IInv'
<1> USE DEF IInv
<1>1. PICK to \in {"inbox", "elsewhere", "gone"} :
        MoveThreadToFolder(t, to) /\ UNCHANGED <<snooze, worker, unsnooze, clock, faults>>
  BY DEF UserMoves, Expunge
<1>2. TypeOK'
  BY <1>1, MoveTyped DEF TypeOK
<1>3. AtInv'
  BY <1>1 DEF AtInv
<1>4. \A i \in Snoozes : Untaken(i) => Untaken(i)'
  BY <1>1 DEF Untaken
<1> QED BY <1>1, <1>2, <1>3, <1>4, MoveKeepsWay

LEMMA StutterKeepsInv ==
    ASSUME IInv, Tick \/ UNCHANGED vars
    PROVE  IInv'
<1>1. UNCHANGED <<snooze, folder, worker, unsnooze, faults, stranded>> /\ clock' \in 0..MaxClock
  BY BoundsAssumption DEF IInv, TypeOK, Tick, vars
<1> QED BY <1>1 DEF IInv, TypeOK, AtInv, WayInv, Hidden, Pending, Untaken

-----------------------------------------------------------------------------
(***************************************************************************)
(* The invariant holds at every step.                                      *)
(***************************************************************************)
THEOREM Invariance == Spec => []IInv
<1>1. IInv /\ [Next]_vars => IInv'
  <2> SUFFICES ASSUME IInv, [Next]_vars PROVE IInv'
    OBVIOUS
  <2> QED
    BY RequestKeepsInv, UnsnoozeKeepsInv, WorkerKeepsInv, MailboxKeepsInv, StutterKeepsInv
    DEF Next
<1> QED BY InitIInv, <1>1, PTL DEF Spec

(***************************************************************************)
(* Rows, folders and what requests hold in memory keep their types.        *)
(***************************************************************************)
THEOREM TypeCorrect == Spec => []TypeOK
BY Invariance, PTL DEF IInv

(***************************************************************************)
(* No interleaving of snoozes, unsnoozes and sweeps loses a thread: only a *)
(* snooze that ends between its move and its row does.                     *)
(***************************************************************************)
THEOREM HiddenHasWayBackHolds == Spec => []HiddenHasWayBack
<1>1. IInv => HiddenHasWayBack
  BY DEF IInv, WayInv, Pending, HiddenHasWayBack, WayBack
<1> QED BY Invariance, <1>1, PTL

(***************************************************************************)
(* No sweep writes over the user's cancel.                                 *)
(***************************************************************************)
THEOREM CancelledIsFinalHolds == Spec => CancelledIsFinal
<1>1. IInv /\ [Next]_vars
        => [\A i \in Snoozes : snooze[i].state = "CANCELLED" => snooze'[i] = snooze[i]]_vars
  <2> SUFFICES ASSUME IInv, Next, NEW i \in Snoozes, snooze[i].state = "CANCELLED"
               PROVE  snooze'[i] = snooze[i]
    OBVIOUS
  <2> USE DEF IInv
  <2>1. ASSUME NEW j \in Snoozes, NEW t \in Threads, NEW until \in SnoozeTimes,
               SnoozeThread(j, t, until)
        PROVE  snooze'[i] = snooze[i]
    BY <2>1 DEF SnoozeThread, NoRow, TypeOK
  <2>2. ASSUME NEW j \in Snoozes, SnoozeRecord(j) \/ SnoozeDrops(j)
        PROVE  snooze'[i] = snooze[i]
    BY <2>2 DEF SnoozeRecord, SnoozeDrops, TypeOK
  <2>3. ASSUME NEW u \in Unsnoozers, UnsnoozeCancel(u)
        PROVE  snooze'[i] = snooze[i]
    <3>1. snooze[i] \in Row
      BY RowFacts
    <3>2. [snooze[i] EXCEPT !.state = "CANCELLED"] = snooze[i]
      BY <3>1 DEF Row
    <3>3. snooze' = [snooze EXCEPT ![unsnooze[u].at].state = "CANCELLED"]
      BY <2>3 DEF UnsnoozeCancel
    <3> QED BY <3>2, <3>3 DEF TypeOK
  <2>4. ASSUME NEW w \in Workers, SurfaceClaim(w)
        PROVE  snooze'[i] = snooze[i]
    BY <2>4 DEF SurfaceClaim, ClaimSurfaced, TypeOK
  <2>5. ASSUME NEW u \in Unsnoozers,
               \/ \E j \in Snoozes : Unsnooze(u, j)
               \/ UnsnoozeMove(u) \/ UnsnoozeDrops(u)
        PROVE  snooze' = snooze
    BY <2>5 DEF Unsnooze, UnsnoozeMove, UnsnoozeDrops
  <2>6. ASSUME NEW w \in Workers,
               WorkerStep(w) \/ SurfaceFails(w) \/ ClaimFails(w) \/ Crash(w), ~SurfaceClaim(w)
        PROVE  snooze' = snooze
    BY <2>6 DEF WorkerStep, SweepReads, SurfaceMove, SurfaceSkips, SweepEnds, SurfaceFails,
                ClaimFails, Crash
  <2>7. (Tick \/ \E t \in Threads : UserMoves(t) \/ Expunge(t)) => snooze' = snooze
    BY DEF Tick, UserMoves, Expunge
  <2> QED BY <2>1, <2>2, <2>3, <2>4, <2>5, <2>6, <2>7 DEF Next
<1> QED BY <1>1, Invariance, PTL DEF Spec, CancelledIsFinal
=============================================================================
