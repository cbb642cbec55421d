------------------------------- MODULE Snooze -------------------------------
(***************************************************************************)
(* Snoozed threads: the folder a thread is in, the rows that say when it   *)
(* comes back, the user's snooze and unsnooze, and the sweep that surfaces *)
(* due threads (backend/src/scheduling/scheduling.service.ts, the worker,  *)
(* and moveThreadToFolder of the engine client).                           *)
(*                                                                         *)
(* The folder is the engine's and the row is PostgreSQL's: every operation *)
(* moves the thread first and writes the row in a transaction afterwards.  *)
(* A thread may be snoozed again while it is snoozed; each snooze has a    *)
(* row of its own.                                                         *)
(***************************************************************************)
EXTENDS Naturals, FiniteSets

CONSTANTS
    Snoozes,      \* snooze requests, each naming the row it makes
    NoSnooze,     \* what an idle sweep or unsnooze is working on
    Threads,
    NoThread,     \* the thread of a snooze not yet asked for
    Workers,      \* backend processes running the sweep
    Unsnoozers,   \* unsnooze requests
    SnoozeTimes,  \* times a user may snooze until
    Take,         \* rows one sweep takes
    MaxClock,     \* bound: the last tick
    MaxGone,      \* bound: threads that may cease to exist
    MaxFaults     \* bound: failures of sweeps

ASSUME NamesAssumption == NoSnooze \notin Snoozes /\ NoThread \notin Threads

ASSUME BoundsAssumption ==
    /\ MaxClock \in Nat /\ SnoozeTimes \subseteq 0..MaxClock
    /\ Take \in Nat \ {0} /\ MaxGone \in Nat /\ MaxFaults \in Nat

VARIABLES
    snooze,    \* each snooze: a request, then a snoozed_threads row
    folder,    \* where the engine keeps each thread
    worker,    \* what each worker's sweep holds in memory
    unsnooze,  \* what each unsnooze request holds in memory
    clock,
    faults,
    stranded   \* history: threads whose last snooze ended without its row

vars == <<snooze, folder, worker, unsnooze, clock, faults, stranded>>

-----------------------------------------------------------------------------
\* "moved": the thread is archived and the row not yet written; "dropped":
\* the request ended there.
RequestState == {"none", "moved", "dropped"}
RowState == {"ACTIVE", "SURFACED", "CANCELLED"}

NoRow == [state |-> "none", thread |-> NoThread, until |-> 0]

Row == [state : (RequestState \ {"none"}) \cup RowState,
        thread : Threads, until : SnoozeTimes]

Idle == [pc |-> "idle", todo |-> {}, at |-> NoSnooze]
Away == [pc |-> "idle", at |-> NoSnooze]

WorkerState == [pc : {"idle", "picking", "restored"}, todo : SUBSET Snoozes,
                at : Snoozes \cup {NoSnooze}]
UnsnoozeState == [pc : {"idle", "read", "restored"}, at : Snoozes \cup {NoSnooze}]

TypeOK ==
    /\ snooze \in [Snoozes -> Row \cup {NoRow}]
    /\ folder \in [Threads -> {"inbox", "archive", "elsewhere", "gone"}]
    /\ worker \in [Workers -> WorkerState]
    /\ unsnooze \in [Unsnoozers -> UnsnoozeState]
    /\ clock \in 0..MaxClock
    /\ faults \in 0..MaxFaults
    /\ stranded \subseteq Threads

Init ==
    /\ snooze = [i \in Snoozes |-> NoRow]
    /\ folder = [t \in Threads |-> "inbox"]
    /\ worker = [w \in Workers |-> Idle]
    /\ unsnooze = [u \in Unsnoozers |-> Away]
    /\ clock = 0 /\ faults = 0 /\ stranded = {}

-----------------------------------------------------------------------------
\* moveThreadToFolder: a thread the engine does not know moves nowhere.
MoveThreadToFolder(t, to) ==
    /\ folder[t] # "gone"
    /\ folder' = [folder EXCEPT ![t] = to]
    /\ stranded' = stranded \ {t}

(***************************************************************************)
(* snoozeThread.                                                           *)
(***************************************************************************)
SnoozeThread(i, t, until) ==
    /\ snooze[i] = NoRow
    /\ MoveThreadToFolder(t, "archive")
    /\ snooze' = [snooze EXCEPT ![i] = [state |-> "moved", thread |-> t, until |-> until]]
    /\ UNCHANGED <<worker, unsnooze, clock, faults>>

\* Mutant: the row is written whether or not the engine moved the thread.
SnoozeRecordAnyhow(i) ==
    /\ snooze[i].state \in {"none", "moved"}
    /\ snooze' = [snooze EXCEPT ![i].state = "ACTIVE"]
    /\ UNCHANGED <<folder, worker, unsnooze, clock, faults, stranded>>

SnoozeRecord(i) ==
    /\ snooze[i].state = "moved"
    /\ snooze' = [snooze EXCEPT ![i].state = "ACTIVE"]
    /\ UNCHANGED <<folder, worker, unsnooze, clock, faults, stranded>>

\* The engine's answer is lost, the insert fails or the process dies.
SnoozeDrops(i) ==
    /\ snooze[i].state = "moved"
    /\ snooze' = [snooze EXCEPT ![i].state = "dropped"]
    /\ stranded' = stranded \cup {snooze[i].thread}
    /\ UNCHANGED <<folder, worker, unsnooze, clock, faults>>

(***************************************************************************)
(* unsnooze.  unsnoozeThread picks an active row of the thread and calls   *)
(* it; the row is read again there.                                        *)
(***************************************************************************)
Unsnooze(u, i) ==
    /\ unsnooze[u].pc = "idle"
    /\ snooze[i].state = "ACTIVE"
    /\ unsnooze' = [unsnooze EXCEPT ![u] = [pc |-> "read", at |-> i]]
    /\ UNCHANGED <<snooze, folder, worker, clock, faults, stranded>>

UnsnoozeMove(u) ==
    /\ unsnooze[u].pc = "read"
    /\ MoveThreadToFolder(snooze[unsnooze[u].at].thread, "inbox")
    /\ unsnooze' = [unsnooze EXCEPT ![u].pc = "restored"]
    /\ UNCHANGED <<snooze, worker, clock, faults>>

\* The write is by id: it does not look at the state again.
UnsnoozeCancel(u) ==
    /\ unsnooze[u].pc = "restored"
    /\ snooze' = [snooze EXCEPT ![unsnooze[u].at].state = "CANCELLED"]
    /\ unsnooze' = [unsnooze EXCEPT ![u] = Away]
    /\ UNCHANGED <<folder, worker, clock, faults, stranded>>

\* A thread that does not move, a lost answer, a failed write.
UnsnoozeDrops(u) ==
    /\ unsnooze[u].pc # "idle"
    /\ unsnooze' = [unsnooze EXCEPT ![u] = Away]
    /\ UNCHANGED <<snooze, folder, worker, clock, faults, stranded>>

-----------------------------------------------------------------------------
(***************************************************************************)
(* surfaceDueSnoozes.                                                      *)
(***************************************************************************)
Due(i) == snooze[i].state = "ACTIVE" /\ snooze[i].until <= clock

\* The first Take of the due rows, earliest first.
Batches ==
    LET due == {i \in Snoozes : Due(i)}
    IN  {b \in SUBSET due :
            /\ \/ Cardinality(b) = Take
               \/ Cardinality(b) < Take /\ b = due
            /\ \A i \in b, j \in due \ b : snooze[i].until <= snooze[j].until}

SweepReads(w) ==
    /\ worker[w].pc = "idle"
    /\ \E b \in Batches :
          /\ b # {}
          /\ worker' = [worker EXCEPT ![w] = [Idle EXCEPT !.pc = "picking", !.todo = b]]
    /\ UNCHANGED <<snooze, folder, unsnooze, clock, faults, stranded>>

\* The earliest of the rows still to do.
First(w) ==
    {i \in worker[w].todo : \A j \in worker[w].todo : snooze[i].until <= snooze[j].until}

SurfaceMove(w) ==
    /\ worker[w].pc = "picking"
    /\ \E i \in First(w) :
          /\ MoveThreadToFolder(snooze[i].thread, "inbox")
          /\ worker' = [worker EXCEPT ![w].pc = "restored", ![w].at = i, ![w].todo = @ \ {i}]
    /\ UNCHANGED <<snooze, unsnooze, clock, faults>>

\* Mutant: the claim is by id.
ClaimAnyState(i) == snooze' = [snooze EXCEPT ![i].state = "SURFACED"]

\* Only a row that is still active is claimed.
ClaimSurfaced(i) ==
    IF snooze[i].state = "ACTIVE"
    THEN snooze' = [snooze EXCEPT ![i].state = "SURFACED"]
    ELSE UNCHANGED snooze

SurfaceClaim(w) ==
    /\ worker[w].pc = "restored"
    /\ ClaimSurfaced(worker[w].at)
    /\ worker' = [worker EXCEPT ![w].pc = "picking", ![w].at = NoSnooze]
    /\ UNCHANGED <<folder, unsnooze, clock, faults, stranded>>

\* Mutant: a row that cannot be restored ends the sweep.
SkipEndsSweep(w, i) == worker' = [worker EXCEPT ![w] = Idle]

SkipRow(w, i) == worker' = [worker EXCEPT ![w].todo = @ \ {i}]

\* A thread that no longer exists: the row stays active and the loop goes on.
SurfaceSkips(w) ==
    /\ worker[w].pc = "picking"
    /\ \E i \in First(w) : folder[snooze[i].thread] = "gone" /\ SkipRow(w, i)
    /\ UNCHANGED <<snooze, folder, unsnooze, clock, faults, stranded>>

SweepEnds(w) ==
    /\ worker[w].pc = "picking" /\ worker[w].todo = {}
    /\ worker' = [worker EXCEPT ![w] = Idle]
    /\ UNCHANGED <<snooze, folder, unsnooze, clock, faults, stranded>>

WorkerStep(w) ==
    SweepReads(w) \/ SurfaceMove(w) \/ SurfaceClaim(w) \/ SurfaceSkips(w) \/ SweepEnds(w)

-----------------------------------------------------------------------------
(***************************************************************************)
(* Faults, and the rest of the mailbox.                                    *)
(***************************************************************************)
Fault == faults < MaxFaults /\ faults' = faults + 1

\* Mutant: the row is claimed whatever the engine answered.
SurfaceFailsClaims(w) ==
    /\ Fault
    /\ worker[w].pc = "picking"
    /\ \E i \in First(w) :
          worker' = [worker EXCEPT ![w].pc = "restored", ![w].at = i, ![w].todo = @ \ {i}]
    /\ UNCHANGED <<snooze, folder, unsnooze, clock, stranded>>

\* The engine is down or refuses, or its answer is lost with the thread
\* moved, or the row's mailbox is not usable now: the next row is tried.
SurfaceFails(w) ==
    /\ Fault
    /\ worker[w].pc = "picking"
    /\ \E i \in First(w) :
          /\ worker' = [worker EXCEPT ![w].todo = @ \ {i}]
          /\ \/ MoveThreadToFolder(snooze[i].thread, "inbox")
             \/ UNCHANGED <<folder, stranded>>
    /\ UNCHANGED <<snooze, unsnooze, clock>>

\* The claim throws and is logged.
ClaimFails(w) ==
    /\ Fault
    /\ worker[w].pc = "restored"
    /\ worker' = [worker EXCEPT ![w].pc = "picking", ![w].at = NoSnooze]
    /\ UNCHANGED <<snooze, folder, unsnooze, clock, stranded>>

Crash(w) ==
    /\ Fault
    /\ worker[w].pc # "idle"
    /\ worker' = [worker EXCEPT ![w] = Idle]
    /\ UNCHANGED <<snooze, folder, unsnooze, clock, stranded>>

\* The user files the thread away, or takes it back into the inbox.
UserMoves(t) ==
    /\ \E to \in {"inbox", "elsewhere"} : MoveThreadToFolder(t, to)
    /\ UNCHANGED <<snooze, worker, unsnooze, clock, faults>>

Expunge(t) ==
    /\ Cardinality({x \in Threads : folder[x] = "gone"}) < MaxGone
    /\ MoveThreadToFolder(t, "gone")
    /\ UNCHANGED <<snooze, worker, unsnooze, clock, faults>>

Tick ==
    /\ clock < MaxClock
    /\ clock' = clock + 1
    /\ UNCHANGED <<snooze, folder, worker, unsnooze, faults, stranded>>

Next ==
    \/ \E i \in Snoozes, t \in Threads, until \in SnoozeTimes : SnoozeThread(i, t, until)
    \/ \E i \in Snoozes : SnoozeRecord(i) \/ SnoozeDrops(i)
    \/ \E u \in Unsnoozers : \/ \E i \in Snoozes : Unsnooze(u, i)
                             \/ UnsnoozeMove(u) \/ UnsnoozeCancel(u) \/ UnsnoozeDrops(u)
    \/ \E w \in Workers : WorkerStep(w) \/ SurfaceFails(w) \/ ClaimFails(w) \/ Crash(w)
    \/ \E t \in Threads : UserMoves(t) \/ Expunge(t)
    \/ Tick

Spec == Init /\ [][Next]_vars

\* Time passes, the interval timer restarts every process's sweep, and an
\* await returns or throws.  Nothing is assumed of users.
FairSpec ==
    /\ Spec
    /\ WF_vars(Tick)
    /\ \A w \in Workers : WF_vars(WorkerStep(w))
    /\ \A i \in Snoozes : WF_vars(SnoozeRecord(i) \/ SnoozeDrops(i))

-----------------------------------------------------------------------------
(***************************************************************************)
(* Promises.                                                               *)
(***************************************************************************)
Hidden(t) == folder[t] = "archive" /\ t \notin stranded

WayBack(t) == \E i \in Snoozes : snooze[i].thread = t /\ snooze[i].state \in {"moved", "ACTIVE"}

DeadRows ==
    {i \in Snoozes : snooze[i].state = "ACTIVE" /\ folder[snooze[i].thread] = "gone"}

(***************************************************************************)
(* A snoozed thread is never lost: while it is out of the inbox there is   *)
(* an active row to bring it back, or the request about to write one.      *)
(* However sweeps, unsnoozes and further snoozes of the thread interleave, *)
(* only a request that ends between the move and the row breaks this.      *)
(***************************************************************************)
HiddenHasWayBack == \A t \in Threads : Hidden(t) => WayBack(t)

(***************************************************************************)
(* A row the user cancelled stays cancelled: a sweep that had read it as   *)
(* due writes nothing over it.                                             *)
(***************************************************************************)
CancelledIsFinal ==
    [][\A i \in Snoozes : snooze[i].state = "CANCELLED" => snooze'[i] = snooze[i]]_vars

(***************************************************************************)
(* Every snoozed thread comes back, whatever a sweep meets on the way.     *)
(* Rows of threads that have ceased to exist stay active and are taken     *)
(* again by every sweep: once they fill a sweep the rows behind them wait  *)
(* for good, and the promise ends there.                                   *)
(***************************************************************************)
HiddenComesBack ==
    \A t \in Threads : Hidden(t) ~> (~Hidden(t) \/ Cardinality(DeadRows) >= Take)
=============================================================================
