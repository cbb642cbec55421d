---------------------------- MODULE OrgMembership ----------------------------
(***************************************************************************)
(* One organization: its members and invitations, the requests that change *)
(* them (backend/src/workspaces/workspaces.service.ts) and the allow-list  *)
(* seeding of common/workspace/membership.service.ts.                      *)
(*                                                                         *)
(* A member change is a READ COMMITTED transaction that locks the active   *)
(* owners' rows first; what authorised it was read before.  Invitations    *)
(* are read and written outside transactions.                              *)
(***************************************************************************)
EXTENDS Naturals, FiniteSets

CONSTANTS
    Users, NoUser,
    Founder,          \* the user who creates the organization
    AllowListed,      \* users seeded into it when they sign in without a membership
    Requests, NoRequest,  \* member changes, each in its transaction
    Clerks,           \* requests that issue or revoke an invitation
    Acceptances,      \* requests that accept one
    Invites, NoInvite,    \* invitation rows
    InviteRoles,      \* bound: roles people are invited at
    SeedRoles,        \* bound: roles the allow-list gives
    Invitees,         \* bound: people who are invited
    Patches           \* bound: changes asked of a member

Roles == {"VIEWER", "MEMBER", "MANAGER", "ADMIN", "OWNER"}
Statuses == {"ACTIVE", "SUSPENDED", "REVOKED"}

\* A field left out of the request is "keep"; Removal deletes the row.
Patch == [role : Roles \cup {"keep"}, status : Statuses \cup {"keep"}]
Removal == [role |-> "removed", status |-> "removed"]

ASSUME NamesAssumption ==
    /\ Founder \in Users /\ AllowListed \subseteq Users /\ NoUser \notin Users
    /\ NoRequest \notin Requests /\ NoInvite \notin Invites

ASSUME BoundsAssumption ==
    /\ InviteRoles \subseteq Roles /\ SeedRoles \subseteq Roles
    /\ Invitees \subseteq Users /\ Patches \subseteq Patch

VARIABLES
    founding,   \* createOrg: "none", "workspace" (the row is written), "done"
    member,     \* the membership row of each user
    lock,       \* the transaction holding each row's lock
    request,    \* what each member change holds in memory
    invite,     \* the invitation rows
    clerk,      \* what each issue or revocation holds in memory
    acceptance, \* what each acceptance holds in memory
    grew        \* history: an owner joined while a member change was under way

rows == <<member, lock, request, grew>>
letters == <<invite, clerk, acceptance>>
vars == <<founding, member, lock, request, invite, clerk, acceptance, grew>>

-----------------------------------------------------------------------------
Rank == [VIEWER |-> 0, MEMBER |-> 1, MANAGER |-> 2, ADMIN |-> 3, OWNER |-> 4]

NoMember == [role |-> "none", status |-> "none"]
Member == [role : Roles, status : Statuses]
NoLetter == [status |-> "none", to |-> NoUser, role |-> "none"]
Letter == [status : {"PENDING", "ACCEPTED", "REVOKED", "EXPIRED"}, to : Users, role : Roles]

Free == [pc |-> "idle", target |-> NoUser, patch |-> Removal, wanted |-> {}]
Resting == [pc |-> "idle", to |-> NoUser, role |-> "none", at |-> NoInvite]
Away == [pc |-> "idle", at |-> NoInvite, as |-> NoLetter, saw |-> "none"]

RequestState ==
    {Free} \cup [pc : {"authorised", "locking", "losing", "decided"},
                target : Users, patch : Patches \cup {Removal}, wanted : SUBSET Users]
ClerkState ==
    {Resting} \cup [pc : {"issuing"}, to : Users, role : Roles, at : Invites \cup {NoInvite}]
              \cup [pc : {"revoking"}, to : {NoUser}, role : {"none"}, at : Invites]
AcceptanceState ==
    {Away} \cup [pc : {"expiring", "read", "found", "admitted"}, at : Invites,
                as : Letter, saw : {"none", "absent", "inactive", "active"}]

TypeOK ==
    /\ founding \in {"none", "workspace", "done"}
    /\ member \in [Users -> Member \cup {NoMember}]
    /\ lock \in [Users -> Requests \cup {NoRequest}]
    /\ request \in [Requests -> RequestState]
    /\ invite \in [Invites -> Letter \cup {NoLetter}]
    /\ clerk \in [Clerks -> ClerkState]
    /\ acceptance \in [Acceptances -> AcceptanceState]
    /\ grew \in BOOLEAN

Init ==
    /\ founding = "none"
    /\ member = [u \in Users |-> NoMember]
    /\ lock = [u \in Users |-> NoRequest]
    /\ request = [q \in Requests |-> Free]
    /\ invite = [i \in Invites |-> NoLetter]
    /\ clerk = [c \in Clerks |-> Resting]
    /\ acceptance = [k \in Acceptances |-> Away]
    /\ grew = FALSE

-----------------------------------------------------------------------------
IsActive(u) == member[u].status = "ACTIVE"
IsOwner(m) == m.role = "OWNER" /\ m.status = "ACTIVE"
Owners == {u \in Users : IsOwner(member[u])}

\* requireRole(ADMIN).
IsAdmin(u) == IsActive(u) /\ Rank[member[u].role] >= Rank["ADMIN"]

\* A member change that has taken, or is taking, its owner locks.
UnderWay == {q \in Requests : request[q].pc \in {"locking", "losing", "decided"}}

\* Every write of a member row.  It waits for the row's lock.
SetMember(u, m, others) ==
    /\ member' = [member EXCEPT ![u] = m]
    /\ grew' = (grew \/ (IsOwner(m) /\ u \notin Owners /\ others # {}))

(***************************************************************************)
(* createOrg: the workspace, then its creator's membership.                *)
(***************************************************************************)
CreateWorkspace ==
    /\ founding = "none"
    /\ founding' = "workspace"
    /\ UNCHANGED <<rows, letters>>

CreateOwner ==
    /\ founding = "workspace" /\ member[Founder] = NoMember
    /\ SetMember(Founder, [role |-> "OWNER", status |-> "ACTIVE"], UnderWay)
    /\ founding' = "done"
    /\ UNCHANGED <<lock, request, letters>>

\* ensureSeededMembership: someone on the allow-list who signs in and is a
\* member nowhere joins at the role the list gives.  An existing row is left
\* as it is.
Seed(u) ==
    /\ founding = "done" /\ u \in AllowListed /\ member[u] = NoMember
    /\ \E role \in SeedRoles : SetMember(u, [role |-> role, status |-> "ACTIVE"], UnderWay)
    /\ UNCHANGED <<founding, lock, request, letters>>

-----------------------------------------------------------------------------
(***************************************************************************)
(* updateMember and removeMember.                                          *)
(***************************************************************************)
\* Mutant: a removal is written like any other change.
AppliedLiterally(m, patch) ==
    [role   |-> IF patch.role = "keep" THEN m.role ELSE patch.role,
     status |-> IF patch.status = "keep" THEN m.status ELSE patch.status]

Applied(m, patch) ==
    IF patch = Removal THEN NoMember
    ELSE [role   |-> IF patch.role = "keep" THEN m.role ELSE patch.role,
          status |-> IF patch.status = "keep" THEN m.status ELSE patch.status]

LosesOwner(m, patch) == IsOwner(m) /\ ~IsOwner(Applied(m, patch))

\* Anyone may leave; changing others takes an admin who is not outranked, and
\* nobody grants above their own rank.
MayChange(caller, u, patch) ==
    IF patch = Removal /\ caller = u THEN IsActive(caller)
    ELSE /\ IsAdmin(caller)
         /\ caller # u => Rank[member[u].role] <= Rank[member[caller].role]
         /\ patch.role \in Roles => Rank[patch.role] <= Rank[member[caller].role]

\* The caller's role and the target are read, in that order, at one moment.
Authorise(q, caller, u, patch) ==
    /\ request[q] = Free
    /\ member[u] # NoMember
    /\ MayChange(caller, u, patch)
    /\ request' = [request EXCEPT ![q] =
                      [pc |-> "authorised", target |-> u, patch |-> patch, wanted |-> {}]]
    /\ UNCHANGED <<founding, member, lock, grew, letters>>

\* Mutant: the owners' rows are not locked.
LockNothing(q) ==
    /\ request[q].pc = "authorised"
    /\ request' = [request EXCEPT ![q].pc = "locking", ![q].wanted = {}]
    /\ UNCHANGED <<founding, member, lock, grew, letters>>

\* The FOR UPDATE statement takes its snapshot of the active owners...
LockActiveOwners(q) ==
    /\ request[q].pc = "authorised"
    /\ request' = [request EXCEPT ![q].pc = "locking", ![q].wanted = Owners]
    /\ UNCHANGED <<founding, member, lock, grew, letters>>

\* ...and waits for each row; one that is no longer an active owner's when its
\* lock comes free is passed over.
LockRow(q, u) ==
    /\ request[q].pc = "locking" /\ u \in request[q].wanted
    /\ lock[u] = NoRequest
    /\ lock' = IF u \in Owners THEN [lock EXCEPT ![u] = q] ELSE lock
    /\ request' = [request EXCEPT ![q].wanted = @ \ {u}]
    /\ UNCHANGED <<founding, member, grew, letters>>

\* Commit or rollback.
Release(q) ==
    lock' = [u \in Users |-> IF lock[u] = q THEN NoRequest ELSE lock[u]]

Ends(q) ==
    /\ request' = [request EXCEPT ![q] = Free]
    /\ Release(q)

\* The target is read again; a change that takes no ownership goes ahead.
Reread(q) ==
    /\ request[q].pc = "locking" /\ request[q].wanted = {}
    /\ LET m == member[request[q].target] IN
       IF m = NoMember THEN Ends(q)
       ELSE /\ request' = [request EXCEPT ![q].pc =
                              IF LosesOwner(m, request[q].patch) THEN "losing" ELSE "decided"]
            /\ UNCHANGED lock
    /\ UNCHANGED <<founding, member, grew, letters>>

CountOwners(q) ==
    /\ request[q].pc = "losing"
    /\ IF Cardinality(Owners) <= 1 THEN Ends(q)
       ELSE /\ request' = [request EXCEPT ![q].pc = "decided"]
            /\ UNCHANGED lock
    /\ UNCHANGED <<founding, member, grew, letters>>

\* The write and the commit.  A removed row is in nobody's snapshot any more; a
\* row that is gone is an error, which rolls back.
Change(q) ==
    /\ request[q].pc = "decided"
    /\ LET u == request[q].target
           m == Applied(member[u], request[q].patch)
       IN  IF member[u] = NoMember
           THEN UNCHANGED <<member, grew>> /\ Ends(q)
           ELSE /\ lock[u] \in {q, NoRequest}
                /\ SetMember(u, m, UnderWay \ {q})
                /\ Release(q)
                /\ request' = [p \in Requests |->
                      IF p = q THEN Free
                      ELSE [request[p] EXCEPT !.wanted = IF m = NoMember THEN @ \ {u} ELSE @]]
    /\ UNCHANGED <<founding, letters>>

\* A deadlock victim, the transaction's timeout, an error, a crash.
RollBack(q) ==
    /\ request[q].pc # "idle"
    /\ Ends(q)
    /\ UNCHANGED <<founding, member, grew, letters>>

-----------------------------------------------------------------------------
(***************************************************************************)
(* invite and revokeInvite.                                                *)
(***************************************************************************)
PendingFor(u) == {i \in Invites : invite[i].status = "PENDING" /\ invite[i].to = u}

\* The caller may invite at the role, the person has no membership, and a
\* pending invitation of theirs is looked for.
BeginInvite(c, caller, u, role) ==
    /\ clerk[c] = Resting
    /\ IsAdmin(caller) /\ Rank[role] <= Rank[member[caller].role]
    /\ member[u] = NoMember
    /\ \E at \in IF PendingFor(u) = {} THEN {NoInvite} ELSE PendingFor(u) :
          clerk' = [clerk EXCEPT ![c] = [pc |-> "issuing", to |-> u, role |-> role, at |-> at]]
    /\ UNCHANGED <<founding, rows, invite, acceptance>>

\* Mutant: refreshing an invitation opens it again.
Reopened(i, role) == invite' = [invite EXCEPT ![i].role = role, ![i].status = "PENDING"]

\* The update leaves the status as it is.
Refreshed(i, role) == invite' = [invite EXCEPT ![i].role = role]

IssueInvite(c) ==
    /\ clerk[c].pc = "issuing"
    /\ \/ /\ clerk[c].at # NoInvite
          /\ Refreshed(clerk[c].at, clerk[c].role)
       \/ /\ clerk[c].at = NoInvite
          /\ \E i \in Invites :
                /\ invite[i] = NoLetter
                /\ invite' = [invite EXCEPT ![i] =
                      [status |-> "PENDING", to |-> clerk[c].to, role |-> clerk[c].role]]
    /\ clerk' = [clerk EXCEPT ![c] = Resting]
    /\ UNCHANGED <<founding, rows, acceptance>>

BeginRevoke(c, caller, i) ==
    /\ clerk[c] = Resting
    /\ IsAdmin(caller) /\ invite[i].status = "PENDING"
    /\ clerk' = [clerk EXCEPT ![c] = [Resting EXCEPT !.pc = "revoking", !.at = i]]
    /\ UNCHANGED <<founding, rows, invite, acceptance>>

RevokeInvite(c) ==
    /\ clerk[c].pc = "revoking"
    /\ invite' = [invite EXCEPT ![clerk[c].at].status = "REVOKED"]
    /\ clerk' = [clerk EXCEPT ![c] = Resting]
    /\ UNCHANGED <<founding, rows, acceptance>>

ClerkDrops(c) ==
    /\ clerk[c] # Resting
    /\ clerk' = [clerk EXCEPT ![c] = Resting]
    /\ UNCHANGED <<founding, rows, invite, acceptance>>

-----------------------------------------------------------------------------
(***************************************************************************)
(* acceptInvite, by the person the invitation is addressed to.             *)
(***************************************************************************)
\* A pending invitation may have run out; that is seen here only.
BeginAccept(k, i) ==
    /\ acceptance[k] = Away
    /\ invite[i].status = "PENDING"
    /\ \E pc \in {"read", "expiring"} :
          acceptance' = [acceptance EXCEPT ![k] =
                            [pc |-> pc, at |-> i, as |-> invite[i], saw |-> "none"]]
    /\ UNCHANGED <<founding, rows, invite, clerk>>

Expire(k) ==
    /\ acceptance[k].pc = "expiring"
    /\ invite' = [invite EXCEPT ![acceptance[k].at].status = "EXPIRED"]
    /\ acceptance' = [acceptance EXCEPT ![k] = Away]
    /\ UNCHANGED <<founding, rows, clerk>>

FindMember(k) ==
    /\ acceptance[k].pc = "read"
    /\ LET m == member[acceptance[k].as.to] IN
       acceptance' = [acceptance EXCEPT ![k].pc = "found", ![k].saw =
           CASE m = NoMember -> "absent"
             [] m # NoMember /\ m.status # "ACTIVE" -> "inactive"
             [] m # NoMember /\ m.status = "ACTIVE" -> "active"]
    /\ UNCHANGED <<founding, rows, invite, clerk>>

\* A new member gets the invitation's role, one who was inactive is active
\* again at the role they had.  A row that came or went meanwhile is an error.
Admit(k) ==
    /\ acceptance[k].pc = "found"
    /\ LET u == acceptance[k].as.to IN
       \/ /\ acceptance[k].saw = "absent" /\ member[u] = NoMember
          /\ SetMember(u, [role |-> acceptance[k].as.role, status |-> "ACTIVE"], UnderWay)
       \/ /\ acceptance[k].saw = "inactive" /\ member[u] # NoMember /\ lock[u] = NoRequest
          /\ SetMember(u, [member[u] EXCEPT !.status = "ACTIVE"], UnderWay)
       \/ acceptance[k].saw = "active" /\ UNCHANGED <<member, grew>>
    /\ acceptance' = [acceptance EXCEPT ![k].pc = "admitted"]
    /\ UNCHANGED <<founding, lock, request, invite, clerk>>

MarkAccepted(k) ==
    /\ acceptance[k].pc = "admitted"
    /\ invite' = [invite EXCEPT ![acceptance[k].at].status = "ACCEPTED"]
    /\ acceptance' = [acceptance EXCEPT ![k] = Away]
    /\ UNCHANGED <<founding, rows, clerk>>

AcceptDrops(k) ==
    /\ acceptance[k] # Away
    /\ acceptance' = [acceptance EXCEPT ![k] = Away]
    /\ UNCHANGED <<founding, rows, invite, clerk>>

-----------------------------------------------------------------------------
MemberChange(q) ==
    \/ \E caller, u \in Users, patch \in Patches \cup {Removal} : Authorise(q, caller, u, patch)
    \/ LockActiveOwners(q)
    \/ \E u \in Users : LockRow(q, u)
    \/ Reread(q) \/ CountOwners(q) \/ Change(q) \/ RollBack(q)

Correspondence(c) ==
    \/ \E caller \in Users, u \in Invitees, role \in InviteRoles : BeginInvite(c, caller, u, role)
    \/ \E caller \in Users, i \in Invites : BeginRevoke(c, caller, i)
    \/ IssueInvite(c) \/ RevokeInvite(c) \/ ClerkDrops(c)

Accepting(k) ==
    \/ \E i \in Invites : BeginAccept(k, i)
    \/ Expire(k) \/ FindMember(k) \/ Admit(k) \/ MarkAccepted(k) \/ AcceptDrops(k)

Next ==
    \/ CreateWorkspace \/ CreateOwner
    \/ \E u \in Users : Seed(u)
    \/ \E q \in Requests : MemberChange(q)
    \/ \E c \in Clerks : Correspondence(c)
    \/ \E k \in Acceptances : Accepting(k)

Spec == Init /\ [][Next]_vars

-----------------------------------------------------------------------------
(***************************************************************************)
(* Promises.                                                               *)
(***************************************************************************)

(***************************************************************************)
(* "An organization must keep at least one active owner."                  *)
(***************************************************************************)
OwnerRemains == founding = "done" => Owners # {}

(***************************************************************************)
(* However demotions, suspensions, removals and departures of owners       *)
(* interleave, the owner locks and the count under them leave one, as long *)
(* as nobody becomes an active owner while a change is between its lock    *)
(* statement and its commit.                                               *)
(***************************************************************************)
OwnersKept == ~grew => OwnerRemains

(***************************************************************************)
(* An invitation that was accepted, revoked or found expired is never open *)
(* again, though an admin who had found it pending refreshes it afterwards *)
(* and every one of these writes is by id.                                 *)
(***************************************************************************)
ClosedStaysClosed ==
    [][\A i \in Invites :
          invite[i].status \in {"ACCEPTED", "REVOKED", "EXPIRED"}
              => invite'[i].status # "PENDING"]_vars
=============================================================================
