---------------------------- MODULE AgentRegistry ----------------------------
(***************************************************************************)
(* One agent, the mailboxes it is bound to and the send identity cached on *)
(* its row (backend/src/agents/agents.service.ts), and the provisioning    *)
(* requests whose approval replays a change of it                          *)
(* (backend/src/provisioning/provisioning-requests.service.ts).            *)
(*                                                                         *)
(* A change is a READ COMMITTED transaction of several statements: what it *)
(* has written is its own, and locked, until it commits.  A find and the   *)
(* write by id next to it are one step here: what could come between them  *)
(* makes the write fail, which is RollBack.                                *)
(***************************************************************************)
EXTENDS Naturals, FiniteSets

CONSTANTS
    Mailboxes, NoMailbox, Unwritten,
    Clients,              \* users and admins making or approving a change
    ProvisioningRequests, NoProvisioning,
    Accesses,             \* bound: access levels asked for
    MaxChanges            \* bound: transactions begun

ASSUME NamesAssumption ==
    /\ NoMailbox \notin Mailboxes /\ Unwritten \notin Mailboxes \cup {NoMailbox}
    /\ NoProvisioning \notin ProvisioningRequests

ASSUME BoundsAssumption == Accesses \subseteq {"READ", "SEND", "BOTH"} /\ MaxChanges \in Nat

VARIABLES
    agent,      \* is the agent registered?
    binding,    \* its row for each mailbox, as committed
    mailboxAccountId,   \* the cache on the agent's row, as committed
    client,     \* what each client's request holds, its uncommitted rows included
    provision,  \* the provisioning requests
    changes,    \* transactions begun; one's number dates and names the row it creates
    sound,      \* history: the last change committed was by itself
    applied     \* history: how often each provisioning request was applied

vars == <<agent, binding, mailboxAccountId, client, provision, changes, sound, applied>>

-----------------------------------------------------------------------------
NoBinding == [access |-> "none", isPrimary |-> FALSE, born |-> 0]
Untouched == [access |-> "untouched", isPrimary |-> FALSE, born |-> 0]
Binding == [access : {"READ", "SEND", "BOTH"}, isPrimary : BOOLEAN, born : 1..MaxChanges]

\* update with NoMailbox clears the primary; create makes the agent.
Change ==
    [kind : {"bind"}, mailbox : Mailboxes, access : Accesses, isPrimary : BOOLEAN]
    \cup [kind : {"unbind"}, mailbox : Mailboxes, access : {"none"}, isPrimary : {FALSE}]
    \cup [kind : {"update", "create"}, mailbox : Mailboxes \cup {NoMailbox},
          access : {"none"}, isPrimary : {FALSE}]
NoChange == [kind |-> "none", mailbox |-> NoMailbox, access |-> "none", isPrimary |-> FALSE]

\* What is filed for approval: creating or updating an agent.
Fileable == {o \in Change : o.kind \in {"update", "create"}}

InTransaction ==
    {"upsert", "delete", "clear", "clearing", "point", "cache", "reconcile", "repair", "finish"}

Nothing == [m \in Mailboxes |-> Untouched]
Idle == [pc |-> "idle", change |-> NoChange, for |-> NoProvisioning, number |-> 0,
         rows |-> Nothing, cache |-> Unwritten, seen |-> Nothing, alone |-> FALSE]

ClientState ==
    [pc : {"idle", "claimed", "applied", "failed"} \cup InTransaction,
     change : Change \cup {NoChange}, for : ProvisioningRequests \cup {NoProvisioning},
     number : 0..MaxChanges, rows : [Mailboxes -> Binding \cup {NoBinding, Untouched}],
     cache : Mailboxes \cup {NoMailbox, Unwritten},
     seen : [Mailboxes -> Binding \cup {NoBinding, Untouched}], alone : BOOLEAN]

Provisioning ==
    [state : {"none", "PENDING", "APPROVED", "APPLIED", "FAILED", "REJECTED"},
     change : Change \cup {NoChange}]

TypeOK ==
    /\ agent \in BOOLEAN
    /\ binding \in [Mailboxes -> Binding \cup {NoBinding}]
    /\ mailboxAccountId \in Mailboxes \cup {NoMailbox}
    /\ client \in [Clients -> ClientState]
    /\ provision \in [ProvisioningRequests -> Provisioning]
    /\ changes \in 0..MaxChanges
    /\ sound \in BOOLEAN
    /\ applied \in [ProvisioningRequests -> Nat]

Init ==
    /\ agent = FALSE
    /\ binding = [m \in Mailboxes |-> NoBinding]
    /\ mailboxAccountId = NoMailbox
    /\ client = [c \in Clients |-> Idle]
    /\ provision = [r \in ProvisioningRequests |-> [state |-> "none", change |-> NoChange]]
    /\ changes = 0
    /\ sound = TRUE
    /\ applied = [r \in ProvisioningRequests |-> 0]

-----------------------------------------------------------------------------
(***************************************************************************)
(* Transactions.                                                           *)
(***************************************************************************)
Open == {c \in Clients : client[c].pc \in InTransaction}

\* A transaction sees its own writes and what was committed.
View(c, m) == IF client[c].rows[m] # Untouched THEN client[c].rows[m] ELSE binding[m]

\* Nobody else has written the row and not ended yet.
Unlocked(c, m) == \A d \in Clients \ {c} : client[d].rows[m] = Untouched
AgentUnlocked(c) == \A d \in Clients \ {c} : client[d].cache = Unwritten

Sendable(row) == row.access \in {"SEND", "BOTH"}

\* Where a replay goes on: its outcome is stamped on the request.
After(c, pc) ==
    IF client[c].for = NoProvisioning THEN Idle ELSE [Idle EXCEPT !.pc = pc, !.for = client[c].for]

Effect(c) ==
    applied' = IF client[c].for = NoProvisioning THEN applied
               ELSE [applied EXCEPT ![client[c].for] = @ + 1]

Write(c, rows, pc) ==
    client' = [client EXCEPT ![c].rows = rows, ![c].pc = pc]

Commit(c, to) ==
    /\ binding' = [m \in Mailboxes |-> View(c, m)]
    /\ mailboxAccountId' = to
    /\ client' = [client EXCEPT ![c] = After(c, "applied")]
    /\ sound' = client[c].alone
    /\ Effect(c)

Committed == <<agent, binding, mailboxAccountId, provision, changes, sound, applied>>

\* A conflict, a row that is gone, a deadlock, a timeout.
RollBack(c) ==
    /\ client[c].pc \in InTransaction
    /\ client' = [client EXCEPT ![c] = After(c, "failed")]
    /\ UNCHANGED Committed

-----------------------------------------------------------------------------
(***************************************************************************)
(* The changes.                                                            *)
(***************************************************************************)
FirstStatement(change) ==
    CASE change.kind = "bind" -> "upsert"
      [] change.kind = "unbind" -> "delete"
      [] change.kind = "update" -> "clear"

\* Client c opens the transaction of a change; so it, and those open, are not alone.
Begin(c, change, for) ==
    /\ agent /\ changes < MaxChanges
    /\ changes' = changes + 1
    /\ client' = [d \in Clients |->
          IF d = c THEN [Idle EXCEPT !.pc = FirstStatement(change), !.change = change, !.for = for,
                                     !.number = changes + 1, !.alone = (Open = {})]
          ELSE [client[d] EXCEPT !.alone = FALSE]]
    /\ UNCHANGED <<agent, binding, mailboxAccountId, provision, sound, applied>>

\* createAgent.  The new agent and its primary are seen by nobody before the
\* commit; a key that is taken is a conflict.
CreateAgent(c, m, for) ==
    /\ changes < MaxChanges /\ changes' = changes + 1
    /\ \/ /\ ~agent
          /\ agent' = TRUE
          /\ mailboxAccountId' = m
          /\ binding' = [x \in Mailboxes |->
                IF x = m THEN [access |-> "BOTH", isPrimary |-> TRUE, born |-> changes + 1]
                ELSE NoBinding]
          /\ client' = [client EXCEPT ![c].pc = IF for = NoProvisioning THEN "idle" ELSE "applied"]
          /\ Effect(c)
       \/ /\ agent
          /\ client' = [client EXCEPT ![c].pc = IF for = NoProvisioning THEN "idle" ELSE "failed"]
          /\ UNCHANGED <<agent, mailboxAccountId, binding, applied>>
    /\ UNCHANGED <<provision, sound>>

\* upsertBinding.
Upserted(c, m, access, isPrimary) ==
    [client[c].rows EXCEPT ![m] =
        [access |-> access, isPrimary |-> isPrimary,
         born |-> IF View(c, m) = NoBinding THEN client[c].number ELSE View(c, m).born]]

\* bindMailbox.  A primary must be sendable.
Upsert(c) ==
    /\ client[c].pc = "upsert"
    /\ LET o == client[c].change IN
       /\ Unlocked(c, o.mailbox)
       /\ Write(c, Upserted(c, o.mailbox,
                            IF o.isPrimary /\ o.access = "READ" THEN "BOTH" ELSE o.access, FALSE),
                IF o.isPrimary THEN "clear" ELSE "reconcile")
    /\ UNCHANGED Committed

\* unbindMailbox.  Nothing is done about a mailbox that is not bound.
Delete(c) ==
    /\ client[c].pc = "delete"
    /\ LET m == client[c].change.mailbox IN
       /\ Unlocked(c, m)
       /\ IF binding[m] = NoBinding
          THEN client' = [client EXCEPT ![c] = Idle]
          ELSE Write(c, [client[c].rows EXCEPT ![m] = NoBinding], "reconcile")
    /\ UNCHANGED Committed

(***************************************************************************)
(* setPrimaryMailbox.                                                      *)
(***************************************************************************)
\* The update of the primaries takes its snapshot...
ClearPrimaries(c) ==
    /\ client[c].pc = "clear"
    /\ client' = [client EXCEPT ![c].pc = "clearing",
                                ![c].seen = [m \in Mailboxes |-> View(c, m)]]
    /\ UNCHANGED Committed

\* ...and waits for their rows; one that is gone or no longer primary is passed over.
PrimariesCleared(c) ==
    /\ client[c].pc = "clearing"
    /\ LET was == {m \in Mailboxes : client[c].seen[m].isPrimary} IN
       /\ \A m \in was : Unlocked(c, m)
       /\ client' = [client EXCEPT ![c].pc = "point", ![c].seen = Nothing,
             ![c].rows = [m \in Mailboxes |->
                IF m \in was /\ View(c, m).isPrimary /\ View(c, m).born = client[c].seen[m].born
                THEN [View(c, m) EXCEPT !.isPrimary = FALSE] ELSE @[m]]]
    /\ UNCHANGED Committed

Point(c) ==
    /\ client[c].pc = "point"
    /\ LET m == client[c].change.mailbox IN
       IF m = NoMailbox THEN Write(c, client[c].rows, "cache")
       ELSE /\ Unlocked(c, m)
            /\ Write(c, Upserted(c, m, IF Sendable(View(c, m)) THEN View(c, m).access ELSE "BOTH",
                                 TRUE), "cache")
    /\ UNCHANGED Committed

\* The cache; an update of the agent commits, a binding is reconciled.
Cache(c) ==
    /\ client[c].pc = "cache" /\ AgentUnlocked(c)
    /\ LET o == client[c].change IN
       \/ /\ o.kind = "update"
          /\ Commit(c, o.mailbox)
          /\ UNCHANGED <<agent, provision, changes>>
       \/ /\ o.kind = "bind"
          /\ client' = [client EXCEPT ![c].pc = "reconcile", ![c].cache = o.mailbox]
          /\ UNCHANGED Committed

(***************************************************************************)
(* reconcilePrimary.                                                       *)
(***************************************************************************)
ReadBindings(c) ==
    /\ client[c].pc = "reconcile"
    /\ client' = [client EXCEPT ![c].pc = "repair",
                                ![c].seen = [m \in Mailboxes |-> View(c, m)]]
    /\ UNCHANGED Committed

\* Primaries come first, then the oldest.
Before(rows, m, n) ==
    \/ rows[m].isPrimary /\ ~rows[n].isPrimary
    \/ rows[m].isPrimary = rows[n].isPrimary /\ rows[m].born <= rows[n].born

FirstOf(rows, S) == {m \in S : \A n \in S : Before(rows, m, n)}

\* The first sendable binding is the primary; there may be none.
Kept(rows) == FirstOf(rows, {m \in Mailboxes : Sendable(rows[m])})

\* Mutant: extra primaries are left.
OnlyPromoted(rows) == {m \in Kept(rows) : ~rows[m].isPrimary}

\* Rows the repair writes: other primaries, and the one promoted.
Repaired(rows) ==
    LET primaries == {m \in Mailboxes : rows[m].isPrimary} IN
    (primaries \ Kept(rows)) \cup (Kept(rows) \ FirstOf(rows, primaries))

Repair(c) ==
    /\ client[c].pc = "repair"
    /\ LET rows == client[c].seen IN
       /\ \A m \in Repaired(rows) : Unlocked(c, m) /\ View(c, m).born = rows[m].born
       /\ Write(c, [m \in Mailboxes |->
                       IF m \in Repaired(rows)
                       THEN [View(c, m) EXCEPT !.isPrimary = (m \in Kept(rows))]
                       ELSE client[c].rows[m]], "finish")
    /\ UNCHANGED Committed

Finish(c) ==
    /\ client[c].pc = "finish" /\ AgentUnlocked(c)
    /\ \E to \in IF Kept(client[c].seen) = {} THEN {NoMailbox} ELSE Kept(client[c].seen) :
          Commit(c, to)
    /\ UNCHANGED <<agent, provision, changes>>

-----------------------------------------------------------------------------
(***************************************************************************)
(* Provisioning requests.                                                  *)
(***************************************************************************)
FileRequest(r, change) ==
    /\ provision[r].state = "none"
    /\ provision' = [provision EXCEPT ![r] = [state |-> "PENDING", change |-> change]]
    /\ UNCHANGED <<agent, binding, mailboxAccountId, client, changes, sound, applied>>

\* Mutant: the claim does not look at the state.
ClaimedAnyhow(r) == provision[r].state # "none"

\* updateMany where the request is still PENDING.
Claimed(r) == provision[r].state = "PENDING"

Reject(r) ==
    /\ Claimed(r)
    /\ provision' = [provision EXCEPT ![r].state = "REJECTED"]
    /\ UNCHANGED <<agent, binding, mailboxAccountId, client, changes, sound, applied>>

Approve(c, r) ==
    /\ client[c] = Idle
    /\ Claimed(r)
    /\ provision' = [provision EXCEPT ![r].state = "APPROVED"]
    /\ client' = [client EXCEPT ![c] = [Idle EXCEPT !.pc = "claimed", !.for = r]]
    /\ UNCHANGED <<agent, binding, mailboxAccountId, changes, sound, applied>>

\* The stored change through the service, in a transaction of its own.  An
\* agent that is not there changes nothing, and that is a success.
Replay(c) ==
    /\ client[c].pc = "claimed"
    /\ LET r == client[c].for
           o == provision[r].change
       IN  \/ o.kind = "update" /\ Begin(c, o, r)
           \/ o.kind = "create" /\ CreateAgent(c, o.mailbox, r)
           \/ /\ o.kind = "update" /\ ~agent
              /\ client' = [client EXCEPT ![c].pc = "applied"]
              /\ Effect(c)
              /\ UNCHANGED <<agent, binding, mailboxAccountId, provision, changes, sound>>

\* The write is by id.
Stamp(c) ==
    /\ client[c].pc \in {"applied", "failed"}
    /\ provision' = [provision EXCEPT ![client[c].for].state =
                        IF client[c].pc = "applied" THEN "APPLIED" ELSE "FAILED"]
    /\ client' = [client EXCEPT ![c] = Idle]
    /\ UNCHANGED <<agent, binding, mailboxAccountId, changes, sound, applied>>

\* The approver's process dies.
Crash(c) ==
    /\ client[c].for # NoProvisioning
    /\ client' = [client EXCEPT ![c] = Idle]
    /\ UNCHANGED Committed

-----------------------------------------------------------------------------
Ask(c) ==
    /\ client[c] = Idle
    /\ \E change \in Change :
          IF change.kind = "create" THEN CreateAgent(c, change.mailbox, NoProvisioning)
          ELSE Begin(c, change, NoProvisioning)

Statement(c) ==
    \/ Upsert(c) \/ Delete(c) \/ ClearPrimaries(c) \/ PrimariesCleared(c) \/ Point(c) \/ Cache(c)
    \/ ReadBindings(c) \/ Repair(c) \/ Finish(c) \/ RollBack(c)

Next ==
    \/ \E c \in Clients :
          \/ Ask(c) \/ Statement(c)
          \/ \E r \in ProvisioningRequests : Approve(c, r)
          \/ Replay(c) \/ Stamp(c) \/ Crash(c)
    \/ \E r \in ProvisioningRequests :
          Reject(r) \/ \E change \in Fileable : FileRequest(r, change)

Spec == Init /\ [][Next]_vars

-----------------------------------------------------------------------------
(***************************************************************************)
(* Promises.                                                               *)
(***************************************************************************)
Primaries == {m \in Mailboxes : binding[m].isPrimary}

(***************************************************************************)
(* "At most one primary binding, and Agent.mailboxAccountId === that       *)
(* primary's mailbox": once a change has run with no other beside it, from *)
(* whatever concurrent changes had left behind, there is at most one       *)
(* primary, it may send, and the agent sends as it.                        *)
(***************************************************************************)
OneIdentity ==
    sound => \/ Primaries = {} /\ mailboxAccountId = NoMailbox
             \/ Primaries = {mailboxAccountId} /\ Sendable(binding[mailboxAccountId])

(***************************************************************************)
(* However approvals, rejections, failures and crashes interleave, a       *)
(* request is applied at most once, and its final state says whether.      *)
(***************************************************************************)
AppliedAsStated ==
    \A r \in ProvisioningRequests :
        /\ applied[r] <= 1
        /\ provision[r].state = "APPLIED" => applied[r] = 1
        /\ provision[r].state \in {"PENDING", "FAILED", "REJECTED"} => applied[r] = 0
=============================================================================
