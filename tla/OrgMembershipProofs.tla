------------------------- MODULE OrgMembershipProofs -------------------------
(***************************************************************************)
(* Proofs about OrgMembership, for any number of members, invitations and  *)
(* concurrent requests: the types, and that the owner locks keep an owner  *)
(* (OwnersKept).                                                           *)
(***************************************************************************)
EXTENDS OrgMembership, FiniteSetTheorems, TLAPS

-----------------------------------------------------------------------------
(***************************************************************************)
(* The inductive invariant.  While nobody has become an owner inside a     *)
(* change, a change under way holds the lock of every active owner it does *)
(* not still wait for (Fence), and one about to take an ownership leaves   *)
(* another owner behind (Spare).                                           *)
(***************************************************************************)
Waited == \A q \in Requests : request[q].pc \in {"losing", "decided"} => request[q].wanted = {}

Fence ==
    \A q \in UnderWay : \A o \in Owners : o \in request[q].wanted \/ lock[o] = q

Spare ==
    \A q \in Requests :
        request[q].pc = "decided" /\ LosesOwner(member[request[q].target], request[q].patch)
            => \E o \in Owners : o # request[q].target

\* An invitation somebody is working on has been written.
Written ==
    /\ \A c \in Clerks : clerk[c].at # NoInvite => invite[clerk[c].at] # NoLetter
    /\ \A k \in Acceptances : acceptance[k].at # NoInvite => invite[acceptance[k].at] # NoLetter

OwnersInv == /\ Waited
             /\ ~grew => Fence /\ Spare /\ OwnerRemains

-----------------------------------------------------------------------------
(***************************************************************************)
(* Types.                                                                  *)
(***************************************************************************)
LEMMA AppliedType ==
    ASSUME NEW m \in Member, NEW patch \in Patch \cup {Removal}
    PROVE  Applied(m, patch) \in Member \cup {NoMember}
  BY DEF Applied, Member, NoMember, Patch, Removal, Roles, Statuses

\* A write of a member row keeps the types it touches.
LEMMA SetMemberType ==
    ASSUME TypeOK, NEW u \in Users, NEW m \in Member \cup {NoMember}, NEW others,
           SetMember(u, m, others)
    PROVE  /\ member' \in [Users -> Member \cup {NoMember}]
           /\ grew' \in BOOLEAN
  BY DEF TypeOK, SetMember, IsOwner, Owners

\* A request's end returns its locks.
LEMMA EndsType ==
    ASSUME TypeOK, NEW q \in Requests, Ends(q)
    PROVE  /\ lock' \in [Users -> Requests \cup {NoRequest}]
           /\ request' \in [Requests -> RequestState]
  <1>1. Free \in RequestState
    BY DEF Free, RequestState
  <1> QED BY <1>1 DEF TypeOK, Ends, Release

LEMMA MemberChangeType ==
    ASSUME TypeOK, NEW q \in Requests, MemberChange(q), BoundsAssumption
    PROVE  TypeOK'
  <1>0. /\ request \in [Requests -> RequestState] /\ request[q] \in RequestState
        /\ Patches \cup {Removal} \subseteq Patch \cup {Removal}
    BY DEF TypeOK, BoundsAssumption
  <1>1. ASSUME NEW caller \in Users, NEW u \in Users, NEW patch \in Patches \cup {Removal},
               Authorise(q, caller, u, patch)
        PROVE  TypeOK'
    <2>1. [pc |-> "authorised", target |-> u, patch |-> patch, wanted |-> {}] \in RequestState
      BY DEF RequestState
    <2> QED BY <1>1, <2>1 DEF TypeOK, Authorise, letters
  <1>2. CASE LockActiveOwners(q)
    <2>1. [request[q] EXCEPT !.pc = "locking", !.wanted = Owners] \in RequestState
      <3>1. request[q].pc = "authorised" /\ Owners \in SUBSET Users
        BY <1>2 DEF LockActiveOwners, Owners
      <3>2. PICK O \in SUBSET Users : O = Owners
        BY <3>1
      <3>3. PICK r \in [pc : {"authorised", "locking", "losing", "decided"},
                       target : Users, patch : Patches \cup {Removal}, wanted : SUBSET Users] :
               r = request[q]
        BY <1>0, <3>1 DEF RequestState, Free
      <3>4. PICK s : s = [r EXCEPT !.pc = "locking"]
        OBVIOUS
      <3>5. s \in [pc : {"locking"}, target : Users, patch : Patches \cup {Removal},
                   wanted : SUBSET Users]
        BY <3>4
      <3>6. [s EXCEPT !.wanted = O] \in RequestState
        BY <3>5 DEF RequestState
      <3> QED BY <3>2, <3>3, <3>4, <3>6
    <2> QED BY <1>2, <2>1 DEF TypeOK, LockActiveOwners, letters
  <1>3. ASSUME NEW u \in Users, LockRow(q, u)
        PROVE  TypeOK'
    <2>1. [request[q] EXCEPT !.wanted = @ \ {u}] \in RequestState
      BY <1>0, <1>3 DEF RequestState, LockRow, Free
    <2>2. lock' \in [Users -> Requests \cup {NoRequest}]
      BY <1>3 DEF TypeOK, LockRow
    <2> QED BY <1>3, <2>1, <2>2 DEF TypeOK, LockRow, letters
  <1>4. CASE Reread(q)
    <2>1. CASE member[request[q].target] = NoMember
      <3>1. Ends(q)
        BY <1>4, <2>1 DEF Reread
      <3> QED BY <1>4, <3>1, EndsType DEF TypeOK, Reread, letters
    <2>2. CASE member[request[q].target] # NoMember
      <3>1. PICK pc \in {"losing", "decided"} :
               request' = [request EXCEPT ![q].pc = pc] /\ lock' = lock
        BY <1>4, <2>2 DEF Reread
      <3>2. [request[q] EXCEPT !.pc = pc] \in RequestState
        BY <1>0, <1>4 DEF RequestState, Reread, Free
      <3> QED BY <1>4, <3>1, <3>2 DEF TypeOK, Reread, letters
    <2> QED BY <2>1, <2>2
  <1>5. CASE CountOwners(q)
    <2>1. CASE Ends(q)
      BY <1>5, <2>1, EndsType DEF TypeOK, CountOwners, letters
    <2>2. CASE ~Ends(q)
      <3>1. request' = [request EXCEPT ![q].pc = "decided"] /\ lock' = lock
        BY <1>5, <2>2 DEF CountOwners
      <3>2. [request[q] EXCEPT !.pc = "decided"] \in RequestState
        BY <1>0, <1>5 DEF RequestState, CountOwners, Free
      <3> QED BY <1>5, <3>1, <3>2 DEF TypeOK, CountOwners, letters
    <2> QED BY <2>1, <2>2
  <1>6. CASE Change(q)
    <2> PICK u : u = request[q].target
      OBVIOUS
    <2> PICK m : m = Applied(member[u], request[q].patch)
      OBVIOUS
    <2>1. CASE member[u] = NoMember
      <3>1. Ends(q) /\ UNCHANGED <<member, grew, founding, letters>>
        BY <1>6, <2>1 DEF Change
      <3> QED BY <3>1, EndsType DEF TypeOK, letters
    <2>2. CASE member[u] # NoMember
      <3>1. u \in Users
        BY <1>6, <1>0 DEF Change, RequestState, Free
      <3>2. m \in Member \cup {NoMember}
        <4>1. request[q].patch \in Patch \cup {Removal}
          BY <1>6, <1>0 DEF Change, RequestState, Free
        <4> QED BY <3>1, <2>2, <4>1, AppliedType DEF TypeOK
      <3>3. SetMember(u, m, UnderWay \ {q}) /\ Release(q)
        BY <1>6, <2>2 DEF Change
      <3>4. request' \in [Requests -> RequestState]
        <4>1. Free \in RequestState
          BY DEF Free, RequestState
        <4>2. \A p \in Requests :
                 [request[p] EXCEPT !.wanted = IF m = NoMember THEN @ \ {u} ELSE @] \in RequestState
          <5> TAKE p \in Requests
          <5>1. request[p] \in RequestState
            BY <1>0
          <5>2. PICK w : w = IF m = NoMember THEN request[p].wanted \ {u} ELSE request[p].wanted
            OBVIOUS
          <5>3. w \subseteq request[p].wanted
            BY <5>2
          <5>4. [request[p] EXCEPT !.wanted = w] \in RequestState
            BY <5>1, <5>3 DEF RequestState, Free
          <5> QED BY <5>2, <5>4
        <4> QED BY <1>6, <2>2, <4>1, <4>2 DEF Change
      <3>5. lock' \in [Users -> Requests \cup {NoRequest}]
        BY <3>3 DEF TypeOK, Release
      <3>6. UNCHANGED <<founding, letters>>
        BY <1>6 DEF Change
      <3> QED BY <3>1, <3>2, <3>3, <3>4, <3>5, <3>6, SetMemberType DEF TypeOK, letters
    <2> QED BY <2>1, <2>2
  <1>7. CASE RollBack(q)
    BY <1>7, EndsType DEF TypeOK, RollBack, letters
  <1> QED BY <1>1, <1>2, <1>3, <1>4, <1>5, <1>6, <1>7 DEF MemberChange

\* Invitations are written over, never removed.
LEMMA LettersStay ==
    ASSUME TypeOK, Written, NEW i \in Invites, invite[i] # NoLetter,
           NEW s \in {"PENDING", "ACCEPTED", "REVOKED", "EXPIRED"}, NEW role \in Roles
    PROVE  /\ [invite[i] EXCEPT !.status = s] \in Letter
           /\ [invite[i] EXCEPT !.role = role] \in Letter
  <1>1. PICK m \in Letter : m = invite[i]
    BY DEF TypeOK
  <1>2. /\ [m EXCEPT !.status = s] = [status |-> s, to |-> m.to, role |-> m.role]
        /\ [m EXCEPT !.role = role] = [status |-> m.status, to |-> m.to, role |-> role]
    BY DEF Letter
  <1>3. [m EXCEPT !.status = s] \in Letter /\ [m EXCEPT !.role = role] \in Letter
    BY <1>2 DEF Letter
  <1> QED BY <1>1, <1>3

LEMMA LetterIsWritten == NoLetter \notin Letter
  BY DEF Letter, NoLetter

LEMMA HeldRows ==
    ASSUME TypeOK
    PROVE  /\ \A c \in Clerks : clerk[c].at \in Invites \cup {NoInvite}
           /\ \A k \in Acceptances : acceptance[k].at \in Invites \cup {NoInvite}
  BY DEF TypeOK, ClerkState, AcceptanceState, Resting, Away

RowsStay == \A i \in Invites : invite[i] # NoLetter => invite'[i] # NoLetter

LEMMA WrittenByClerk ==
    ASSUME TypeOK, Written, RowsStay, NEW c \in Clerks, NEW r,
           clerk' = [clerk EXCEPT ![c] = r], UNCHANGED acceptance,
           r.at = NoInvite \/ r.at = clerk[c].at \/ (r.at \in Invites /\ invite[r.at] # NoLetter)
    PROVE  Written'
  <1>1. ASSUME NEW d \in Clerks, clerk'[d].at # NoInvite
        PROVE  invite'[clerk'[d].at] # NoLetter
    <2>1. CASE d = c
      <3>1. clerk'[d] = r
        BY <2>1 DEF TypeOK
      <3> QED BY <1>1, <2>1, <3>1, HeldRows DEF Written, RowsStay
    <2>2. CASE d # c
      <3>1. clerk'[d] = clerk[d]
        BY <2>2 DEF TypeOK
      <3> QED BY <1>1, <3>1, HeldRows DEF Written, RowsStay
    <2> QED BY <2>1, <2>2
  <1> QED BY <1>1, HeldRows DEF Written, RowsStay

LEMMA WrittenByAcceptance ==
    ASSUME TypeOK, Written, RowsStay, NEW k \in Acceptances, NEW r,
           acceptance' = [acceptance EXCEPT ![k] = r], UNCHANGED clerk,
           \/ r.at = NoInvite
           \/ r.at = acceptance[k].at
           \/ r.at \in Invites /\ invite[r.at] # NoLetter
    PROVE  Written'
  <1>1. ASSUME NEW d \in Acceptances, acceptance'[d].at # NoInvite
        PROVE  invite'[acceptance'[d].at] # NoLetter
    <2>1. CASE d = k
      <3>1. acceptance'[d] = r
        BY <2>1 DEF TypeOK
      <3> QED BY <1>1, <2>1, <3>1, HeldRows DEF Written, RowsStay
    <2>2. CASE d # k
      <3>1. acceptance'[d] = acceptance[d]
        BY <2>2 DEF TypeOK
      <3> QED BY <1>1, <3>1, HeldRows DEF Written, RowsStay
    <2> QED BY <2>1, <2>2
  <1> QED BY <1>1, HeldRows DEF Written, RowsStay

LEMMA CorrespondenceType ==
    ASSUME TypeOK, Written, NEW c \in Clerks, Correspondence(c), BoundsAssumption
    PROVE  TypeOK'
  <1>0. /\ clerk \in [Clerks -> ClerkState] /\ clerk[c] \in ClerkState
        /\ invite \in [Invites -> Letter \cup {NoLetter}]
        /\ Resting \in ClerkState
    BY DEF TypeOK, ClerkState
  <1>1. ASSUME NEW caller \in Users, NEW u \in Invitees, NEW role \in InviteRoles,
               BeginInvite(c, caller, u, role)
        PROVE  TypeOK'
    <2>1. PICK at \in Invites \cup {NoInvite} :
             clerk' = [clerk EXCEPT ![c] = [pc |-> "issuing", to |-> u, role |-> role, at |-> at]]
      BY <1>1 DEF BeginInvite, PendingFor
    <2>2. [pc |-> "issuing", to |-> u, role |-> role, at |-> at] \in ClerkState
      BY DEF ClerkState, BoundsAssumption
    <2> QED BY <1>0, <1>1, <2>1, <2>2 DEF TypeOK, BeginInvite, rows
  <1>2. ASSUME NEW caller \in Users, NEW i \in Invites, BeginRevoke(c, caller, i)
        PROVE  TypeOK'
    <2>1. [Resting EXCEPT !.pc = "revoking", !.at = i] \in ClerkState
      BY DEF ClerkState, Resting
    <2> QED BY <1>0, <1>2, <2>1 DEF TypeOK, BeginRevoke, rows
  <1>3. CASE IssueInvite(c)
    <2>1. /\ clerk[c].to \in Users /\ clerk[c].role \in Roles
          /\ clerk[c].at \in Invites \cup {NoInvite}
      BY <1>0, <1>3 DEF IssueInvite, ClerkState, Resting
    <2>2. invite' \in [Invites -> Letter \cup {NoLetter}]
      <3>1. CASE clerk[c].at # NoInvite /\ Refreshed(clerk[c].at, clerk[c].role)
        <4>1. [invite[clerk[c].at] EXCEPT !.role = clerk[c].role] \in Letter
          BY <2>1, <3>1, LettersStay DEF Written
        <4> QED BY <1>0, <2>1, <3>1, <4>1 DEF Refreshed
      <3>2. ASSUME NEW i \in Invites,
                   invite' = [invite EXCEPT ![i] =
                      [status |-> "PENDING", to |-> clerk[c].to, role |-> clerk[c].role]]
            PROVE  invite' \in [Invites -> Letter \cup {NoLetter}]
        <4>1. [status |-> "PENDING", to |-> clerk[c].to, role |-> clerk[c].role] \in Letter
          BY <2>1 DEF Letter
        <4> QED BY <1>0, <3>2, <4>1
      <3> QED BY <1>3, <3>1, <3>2 DEF IssueInvite
    <2> QED BY <1>0, <1>3, <2>2 DEF TypeOK, IssueInvite, rows
  <1>4. CASE RevokeInvite(c)
    <2>1. clerk[c].at \in Invites /\ invite[clerk[c].at] # NoLetter
      BY <1>0, <1>4, NamesAssumption DEF RevokeInvite, ClerkState, Resting, Written
    <2>2. [invite[clerk[c].at] EXCEPT !.status = "REVOKED"] \in Letter
      <3>1. PICK i \in Invites : i = clerk[c].at /\ invite[i] # NoLetter
        BY <2>1
      <3>2. [invite[i] EXCEPT !.status = "REVOKED"] \in Letter
        BY <3>1, LettersStay DEF Roles
      <3> QED BY <3>1, <3>2
    <2> QED BY <1>0, <1>4, <2>1, <2>2 DEF TypeOK, RevokeInvite, rows
  <1>5. CASE ClerkDrops(c)
    BY <1>0, <1>5 DEF TypeOK, ClerkDrops, rows
  <1> QED BY <1>1, <1>2, <1>3, <1>4, <1>5 DEF Correspondence

LEMMA CorrespondenceWritten ==
    ASSUME TypeOK, Written, NEW c \in Clerks, Correspondence(c), BoundsAssumption
    PROVE  Written'
  <1>0. /\ clerk \in [Clerks -> ClerkState] /\ clerk[c] \in ClerkState
        /\ invite \in [Invites -> Letter \cup {NoLetter}]
        /\ NoLetter \notin Letter
    BY LetterIsWritten DEF TypeOK
  <1>1. RowsStay
    <2> SUFFICES ASSUME NEW i \in Invites, invite[i] # NoLetter PROVE invite'[i] # NoLetter
      BY DEF RowsStay
    <2>1. CASE UNCHANGED invite
      BY <2>1
    <2>2. CASE IssueInvite(c)
      <3>1. CASE clerk[c].at # NoInvite /\ Refreshed(clerk[c].at, clerk[c].role)
        <4>1. clerk[c].role \in Roles
          BY <1>0, <2>2 DEF IssueInvite, ClerkState, Resting
        <4>2. [invite[i] EXCEPT !.role = clerk[c].role] \in Letter
          BY <4>1, LettersStay
        <4> QED BY <1>0, <3>1, <4>2 DEF Refreshed
      <3>2. ASSUME NEW j \in Invites, invite[j] = NoLetter,
                   invite' = [invite EXCEPT ![j] =
                      [status |-> "PENDING", to |-> clerk[c].to, role |-> clerk[c].role]]
            PROVE  invite'[i] # NoLetter
        BY <1>0, <3>2
      <3> QED BY <2>2, <3>1, <3>2 DEF IssueInvite
    <2>3. CASE RevokeInvite(c)
      <3>1. [invite[i] EXCEPT !.status = "REVOKED"] \in Letter
        BY LettersStay DEF Roles
      <3> QED BY <1>0, <2>3, <3>1 DEF RevokeInvite
    <2> QED BY <2>1, <2>2, <2>3 DEF Correspondence, BeginInvite, BeginRevoke, ClerkDrops
  <1>2. ASSUME NEW caller \in Users, NEW u \in Invitees, NEW role \in InviteRoles,
               BeginInvite(c, caller, u, role)
        PROVE  Written'
    <2>1. PICK at \in {i \in Invites : invite[i].status = "PENDING"} \cup {NoInvite} :
             clerk' = [clerk EXCEPT ![c] = [pc |-> "issuing", to |-> u, role |-> role, at |-> at]]
      BY <1>2 DEF BeginInvite, PendingFor
    <2>2. at = NoInvite \/ (at \in Invites /\ invite[at] # NoLetter)
      BY <2>1 DEF NoLetter
    <2> QED BY <1>1, <1>2, <2>1, <2>2, WrittenByClerk DEF BeginInvite
  <1>3. ASSUME NEW caller \in Users, NEW i \in Invites, BeginRevoke(c, caller, i)
        PROVE  Written'
    <2>1. PICK r : r = [Resting EXCEPT !.pc = "revoking", !.at = i]
      OBVIOUS
    <2>2. r.at = i /\ invite[i] # NoLetter /\ clerk' = [clerk EXCEPT ![c] = r]
      BY <1>3, <2>1 DEF BeginRevoke, Resting, NoLetter
    <2> QED BY <1>1, <1>3, <2>2, WrittenByClerk DEF BeginRevoke
  <1>4. CASE IssueInvite(c) \/ RevokeInvite(c) \/ ClerkDrops(c)
    <2>1. clerk' = [clerk EXCEPT ![c] = Resting] /\ UNCHANGED acceptance
      BY <1>4 DEF IssueInvite, RevokeInvite, ClerkDrops
    <2>2. Resting.at = NoInvite
      BY DEF Resting
    <2> QED BY <1>1, <2>1, <2>2, WrittenByClerk
  <1> QED BY <1>2, <1>3, <1>4 DEF Correspondence

LEMMA AcceptingType ==
    ASSUME TypeOK, Written, NEW k \in Acceptances, Accepting(k)
    PROVE  TypeOK' /\ Written'
  <1>0. /\ acceptance \in [Acceptances -> AcceptanceState]
        /\ acceptance[k] \in AcceptanceState
        /\ invite \in [Invites -> Letter \cup {NoLetter}]
        /\ Away \in AcceptanceState /\ NoLetter \notin Letter
    BY LetterIsWritten DEF TypeOK, AcceptanceState
  <1>1. acceptance[k] # Away => /\ acceptance[k].at \in Invites
                               /\ invite[acceptance[k].at] # NoLetter
                               /\ acceptance[k].as \in Letter
    BY <1>0, NamesAssumption DEF AcceptanceState, Away, Written
  <1>2. ASSUME NEW i \in Invites, BeginAccept(k, i)
        PROVE  TypeOK' /\ Written'
    <2>1. invite[i] # NoLetter /\ invite[i] \in Letter
      BY <1>0, <1>2 DEF BeginAccept, NoLetter
    <2>2. PICK pc \in {"read", "expiring"} :
             acceptance' = [acceptance EXCEPT ![k] =
                               [pc |-> pc, at |-> i, as |-> invite[i], saw |-> "none"]]
      BY <1>2 DEF BeginAccept
    <2>3. [pc |-> pc, at |-> i, as |-> invite[i], saw |-> "none"] \in AcceptanceState
      BY <2>1 DEF AcceptanceState
    <2>4. TypeOK'
      BY <1>0, <1>2, <2>2, <2>3 DEF TypeOK, BeginAccept, rows
    <2>5. Written'
      BY <1>2, <2>1, <2>2, WrittenByAcceptance DEF BeginAccept, RowsStay
    <2> QED BY <2>4, <2>5
  <1>3. ASSUME NEW s \in {"EXPIRED", "ACCEPTED"}, acceptance[k] # Away,
               invite' = [invite EXCEPT ![acceptance[k].at].status = s],
               acceptance' = [acceptance EXCEPT ![k] = Away],
               UNCHANGED <<founding, rows, clerk>>
        PROVE  TypeOK' /\ Written'
    <2>1. ASSUME NEW i \in Invites, invite[i] # NoLetter
          PROVE  [invite[i] EXCEPT !.status = s] \in Letter
      BY <2>1, LettersStay DEF Roles
    <2>2. TypeOK'
      BY <1>0, <1>1, <1>3, <2>1 DEF TypeOK, rows
    <2>3. RowsStay
      BY <1>0, <1>3, <2>1 DEF RowsStay
    <2>4. Written'
      <3>1. Away.at = NoInvite
        BY DEF Away
      <3> QED BY <1>3, <2>3, <3>1, WrittenByAcceptance
    <2> QED BY <2>2, <2>4
  <1>4. CASE Expire(k)
    <2>1. acceptance[k] # Away
      BY <1>4 DEF Expire, Away
    <2> QED BY <1>3, <1>4, <2>1 DEF Expire
  <1>5. CASE MarkAccepted(k)
    <2>1. acceptance[k] # Away
      BY <1>5 DEF MarkAccepted, Away
    <2> QED BY <1>3, <1>5, <2>1 DEF MarkAccepted
  <1>6. CASE FindMember(k)
    <2>1. PICK saw \in {"absent", "inactive", "active"} :
             acceptance' = [acceptance EXCEPT ![k].pc = "found", ![k].saw = saw]
      BY <1>6 DEF FindMember
    <2>2. PICK r : r = [acceptance[k] EXCEPT !.pc = "found"]
      OBVIOUS
    <2>3. r \in [pc : {"found"}, at : Invites, as : Letter,
                saw : {"none", "absent", "inactive", "active"}]
      BY <1>0, <1>6, <2>2 DEF FindMember, AcceptanceState, Away
    <2>4. [r EXCEPT !.saw = saw] \in AcceptanceState /\ [r EXCEPT !.saw = saw].at = acceptance[k].at
      BY <2>2, <2>3, <1>0, <1>6 DEF AcceptanceState, FindMember, Away
    <2>5. acceptance' = [acceptance EXCEPT ![k] = [r EXCEPT !.saw = saw]]
      BY <2>1, <2>2
    <2>6. TypeOK'
      BY <1>0, <1>6, <2>4, <2>5 DEF TypeOK, FindMember, rows
    <2>7. Written'
      BY <1>6, <2>4, <2>5, WrittenByAcceptance DEF FindMember, RowsStay
    <2> QED BY <2>6, <2>7
  <1>7. CASE Admit(k)
    <2> PICK u : u = acceptance[k].as.to
      OBVIOUS
    <2>1. acceptance[k] # Away /\ u \in Users /\ acceptance[k].as.role \in Roles
      BY <1>1, <1>7 DEF Admit, Away, Letter
    <2>2. /\ member' \in [Users -> Member \cup {NoMember}]
          /\ grew' \in BOOLEAN
      <3>1. CASE SetMember(u, [role |-> acceptance[k].as.role, status |-> "ACTIVE"], UnderWay)
        <4>1. [role |-> acceptance[k].as.role, status |-> "ACTIVE"] \in Member
          BY <2>1 DEF Member, Statuses
        <4> QED BY <2>1, <3>1, <4>1, SetMemberType
      <3>2. CASE /\ member[u] # NoMember
                 /\ SetMember(u, [member[u] EXCEPT !.status = "ACTIVE"], UnderWay)
        <4>1. PICK m \in Member : m = member[u]
          BY <2>1, <3>2 DEF TypeOK
        <4>2. [m EXCEPT !.status = "ACTIVE"] \in Member
          BY DEF Member, Statuses
        <4> QED BY <2>1, <3>2, <4>1, <4>2, SetMemberType
      <3>3. CASE UNCHANGED <<member, grew>>
        BY <3>3 DEF TypeOK
      <3> QED BY <1>7, <3>1, <3>2, <3>3 DEF Admit
    <2>3. [acceptance[k] EXCEPT !.pc = "admitted"] \in AcceptanceState
      BY <1>0, <2>1 DEF AcceptanceState
    <2>4. TypeOK'
      BY <1>0, <1>7, <2>2, <2>3 DEF TypeOK, Admit
    <2>5. Written'
      <3>1. PICK r : r = [acceptance[k] EXCEPT !.pc = "admitted"]
        OBVIOUS
      <3>2. r.at = acceptance[k].at
        BY <1>0, <2>1, <3>1 DEF AcceptanceState
      <3> QED BY <1>7, <3>1, <3>2, WrittenByAcceptance DEF Admit, RowsStay
    <2> QED BY <2>4, <2>5
  <1>8. CASE AcceptDrops(k)
    <2>1. TypeOK'
      BY <1>0, <1>8 DEF TypeOK, AcceptDrops, rows
    <2>2. Written'
      <3>1. Away.at = NoInvite
        BY DEF Away
      <3> QED BY <1>8, <3>1, WrittenByAcceptance DEF AcceptDrops, RowsStay
    <2> QED BY <2>1, <2>2
  <1> QED BY <1>2, <1>4, <1>5, <1>6, <1>7, <1>8 DEF Accepting

LEMMA TypesInit == Init => TypeOK /\ Written
  <1> SUFFICES ASSUME Init PROVE TypeOK /\ Written
    OBVIOUS
  <1>1. TypeOK
    BY DEF Init, TypeOK, RequestState, ClerkState, AcceptanceState
  <1>2. Written
    BY DEF Init, Written, Resting, Away
  <1> QED BY <1>1, <1>2

LEMMA TypesNext == TypeOK /\ Written /\ [Next]_vars => TypeOK' /\ Written'
  <1> SUFFICES ASSUME TypeOK, Written, [Next]_vars PROVE TypeOK' /\ Written'
    OBVIOUS
  <1>1. CASE CreateWorkspace
    BY <1>1 DEF CreateWorkspace, TypeOK, Written, rows, letters
  <1>2. CASE CreateOwner
    <2>1. Founder \in Users /\ [role |-> "OWNER", status |-> "ACTIVE"] \in Member
      BY NamesAssumption DEF Member, Roles, Statuses
    <2>2. member' \in [Users -> Member \cup {NoMember}] /\ grew' \in BOOLEAN
      BY <1>2, <2>1, SetMemberType DEF CreateOwner
    <2> QED BY <1>2, <2>2 DEF CreateOwner, TypeOK, Written, letters
  <1>3. ASSUME NEW u \in Users, Seed(u) PROVE TypeOK' /\ Written'
    <2>0. PICK role \in SeedRoles : SetMember(u, [role |-> role, status |-> "ACTIVE"], UnderWay)
      BY <1>3 DEF Seed
    <2>1. [role |-> role, status |-> "ACTIVE"] \in Member
      BY BoundsAssumption DEF Member, Statuses
    <2>2. member' \in [Users -> Member \cup {NoMember}] /\ grew' \in BOOLEAN
      BY <2>0, <2>1, SetMemberType
    <2> QED BY <1>3, <2>2 DEF Seed, TypeOK, Written, letters
  <1>4. ASSUME NEW q \in Requests, MemberChange(q) PROVE TypeOK' /\ Written'
    <2>1. UNCHANGED letters
      BY <1>4 DEF MemberChange, Authorise, LockActiveOwners, LockRow, Reread, CountOwners,
         Change, RollBack
    <2> QED BY <1>4, <2>1, MemberChangeType, BoundsAssumption DEF Written, letters
  <1>5. ASSUME NEW c \in Clerks, Correspondence(c) PROVE TypeOK' /\ Written'
    BY <1>5, CorrespondenceType, CorrespondenceWritten, BoundsAssumption
  <1>6. ASSUME NEW k \in Acceptances, Accepting(k) PROVE TypeOK' /\ Written'
    BY <1>6, AcceptingType
  <1>7. CASE UNCHANGED vars
    BY <1>7 DEF vars, TypeOK, Written
  <1> QED BY <1>1, <1>2, <1>3, <1>4, <1>5, <1>6, <1>7 DEF Next

(***************************************************************************)
(* Whatever the members, invitations and requests do, every row and every  *)
(* request's memory stays well formed.                                     *)
(***************************************************************************)
THEOREM TypeCorrect == Spec => []TypeOK
  BY TypesInit, TypesNext, PTL DEF Spec

-----------------------------------------------------------------------------
(***************************************************************************)
(* The owner locks.                                                        *)
(***************************************************************************)
LEMMA SetMemberOwners ==
    ASSUME TypeOK, NEW u \in Users, NEW m \in Member \cup {NoMember}, NEW others,
           SetMember(u, m, others)
    PROVE  /\ Owners' = IF IsOwner(m) THEN Owners \cup {u} ELSE Owners \ {u}
           /\ ~grew' => ~grew /\ (IsOwner(m) => u \in Owners \/ others = {})
           /\ \A v \in Users : member'[v] = IF v = u THEN m ELSE member[v]
  BY DEF TypeOK, SetMember, Owners, IsOwner

\* An owner's row has one value.
LEMMA OwnerRow ==
    ASSUME TypeOK, NEW u \in Owners
    PROVE  u \in Users /\ member[u] = [role |-> "OWNER", status |-> "ACTIVE"]
  <1>1. u \in Users /\ member[u] \in Member \cup {NoMember} /\ IsOwner(member[u])
    BY DEF TypeOK, Owners
  <1> QED BY <1>1 DEF Member, NoMember, IsOwner

\* A request's memory names a member.
LEMMA RequestTarget ==
    ASSUME TypeOK, NEW q \in Requests, request[q].pc # "idle"
    PROVE  request[q].target \in Users /\ request[q].patch \in Patches \cup {Removal}
  <1>1. request[q] \in RequestState
    BY DEF TypeOK
  <1> QED BY <1>1 DEF RequestState, Free

\* Somebody joining, or becoming active again, outside a member change.
LEMMA JoinKeeps ==
    ASSUME TypeOK, OwnersInv, NEW u \in Users, NEW m \in Member \cup {NoMember},
           SetMember(u, m, UnderWay), u \in Owners => m = member[u],
           UNCHANGED <<lock, request>>
    PROVE  /\ Waited'
           /\ ~grew' => Fence' /\ Spare' /\ Owners \subseteq Owners'
  <1>1. Waited'
    BY DEF OwnersInv, Waited
  <1>2. ASSUME ~grew' PROVE Fence' /\ Spare' /\ Owners \subseteq Owners'
    <2>1. /\ ~grew /\ Fence /\ Spare
          /\ Owners \subseteq Owners'
          /\ UnderWay # {} => Owners' = Owners
          /\ UnderWay' = UnderWay
      BY <1>2, SetMemberOwners DEF OwnersInv, UnderWay, Owners
    <2>2. Fence'
      BY <2>1 DEF Fence
    <2>3. Spare'
      <3> SUFFICES ASSUME NEW q \in Requests, request[q].pc = "decided",
                          LosesOwner(member'[request[q].target], request[q].patch)
                   PROVE  \E o \in Owners' : o # request[q].target
        BY DEF Spare
      <3>1. request[q].target \in Users /\ q \in UnderWay
        BY RequestTarget DEF UnderWay
      <3>2. request[q].target \in Owners'
        BY <3>1 DEF LosesOwner, Owners
      <3>3. member'[request[q].target] = member[request[q].target]
        BY <2>1, <3>1, <3>2, SetMemberOwners
      <3> QED BY <2>1, <3>3 DEF Spare
    <2> QED BY <2>1, <2>2, <2>3
  <1> QED BY <1>1, <1>2

\* A member change up to its decision, or ended without a write: the members
\* are as they were, and the other requests with their locks.
LEMMA WaitKeeps ==
    ASSUME TypeOK, TypeOK', OwnersInv, NEW q \in Requests,
           UNCHANGED <<founding, member, grew>>,
           \A p \in Requests \ {q} :
               /\ request'[p] = request[p]
               /\ \A u \in Users : lock[u] = p => lock'[u] = p,
           request'[q].pc \in {"losing", "decided"} => request'[q].wanted = {},
           request'[q].pc \in {"locking", "losing", "decided"} =>
               \A o \in Owners : ~grew /\ Fence => o \in request'[q].wanted \/ lock'[o] = q,
           request'[q].pc = "decided"
               /\ LosesOwner(member[request'[q].target], request'[q].patch)
                   => \E o \in Owners : o # request'[q].target
    PROVE  OwnersInv'
  <1>1. Owners' = Owners /\ Owners \subseteq Users
    BY DEF Owners
  <1>2. Waited'
    BY DEF OwnersInv, Waited
  <1>3. ASSUME ~grew' PROVE Fence' /\ Spare' /\ OwnerRemains'
    <2>1. ~grew /\ Fence /\ Spare /\ OwnerRemains
      BY <1>3 DEF OwnersInv
    <2>2. Fence'
      BY <1>1, <2>1 DEF Fence, UnderWay
    <2>3. Spare'
      BY <1>1, <2>1 DEF Spare
    <2>4. OwnerRemains'
      BY <1>1, <2>1 DEF OwnerRemains
    <2> QED BY <2>2, <2>3, <2>4
  <1> QED BY <1>2, <1>3 DEF OwnersInv

\* A request that ends holds nothing.
LEMMA EndKeeps ==
    ASSUME TypeOK, TypeOK', OwnersInv, NEW q \in Requests, Ends(q),
           UNCHANGED <<founding, member, grew>>
    PROVE  OwnersInv'
  <1>1. \A p \in Requests \ {q} :
           /\ request'[p] = request[p]
           /\ \A u \in Users : lock[u] = p => lock'[u] = p
    BY DEF Ends, Release, TypeOK
  <1>2. request'[q].pc = "idle"
    BY DEF Ends, TypeOK, Free
  <1> QED BY <1>1, <1>2, WaitKeeps

\* Two who count above one leave one behind.
LEMMA CountedOthers ==
    ASSUME NEW S, ~(Cardinality(S) <= 1), NEW u
    PROVE  \E o \in S : o # u
  <1> SUFFICES ASSUME \A o \in S : o = u PROVE FALSE
    OBVIOUS
  <1>1. S = {} \/ S = {u}
    OBVIOUS
  <1>2. Cardinality(S) \in {0, 1}
    BY <1>1, FS_EmptySet, FS_Singleton
  <1> QED BY <1>2

\* The write of a change.  Taking an ownership, it holds every owner's lock, so
\* nobody else has decided anything.
LEMMA WriteKeeps ==
    ASSUME TypeOK, TypeOK', OwnersInv, NEW q \in Requests, Change(q),
           member[request[q].target] # NoMember
    PROVE  OwnersInv'
  <1> PICK u : u = request[q].target
    OBVIOUS
  <1> PICK m : m = Applied(member[u], request[q].patch)
    OBVIOUS
  <1>0. /\ request[q].pc = "decided" /\ SetMember(u, m, UnderWay \ {q}) /\ Release(q)
        /\ UNCHANGED founding
        /\ request' = [r \in Requests |->
              IF r = q THEN Free
              ELSE [request[r] EXCEPT !.wanted = IF m = NoMember THEN @ \ {u} ELSE @]]
    BY DEF Change
  <1>1. u \in Users /\ q \in UnderWay
    BY <1>0, RequestTarget DEF UnderWay
  <1>2. m \in Member \cup {NoMember}
    BY <1>1, <1>0, RequestTarget, AppliedType, BoundsAssumption DEF TypeOK
  <1>3. /\ Owners' = IF IsOwner(m) THEN Owners \cup {u} ELSE Owners \ {u}
        /\ ~grew' => ~grew /\ (IsOwner(m) => u \in Owners \/ UnderWay \ {q} = {})
        /\ \A v \in Users : member'[v] = IF v = u THEN m ELSE member[v]
    BY <1>0, <1>1, <1>2, SetMemberOwners
  <1>4. request'[q].pc = "idle"
    BY <1>0 DEF Free
  <1>5. ASSUME NEW p \in Requests, p # q
        PROVE  /\ request'[p].pc = request[p].pc
               /\ request'[p].target = request[p].target
               /\ request'[p].patch = request[p].patch
               /\ request'[p].wanted = IF m = NoMember THEN request[p].wanted \ {u}
                                       ELSE request[p].wanted
               /\ \A v \in Users : lock[v] = p => lock'[v] = p
    <2>1. request[p] \in RequestState
      BY DEF TypeOK
    <2>2. request'[p] = [request[p] EXCEPT !.wanted = IF m = NoMember THEN @ \ {u} ELSE @]
      BY <1>0, <1>5
    <2> QED BY <1>0, <1>5, <2>1, <2>2 DEF RequestState, Free, Release
  <1>6. Waited'
    <2> SUFFICES ASSUME NEW p \in Requests, request'[p].pc \in {"losing", "decided"}
                 PROVE  request'[p].wanted = {}
      BY DEF Waited
    <2>1. p # q
      BY <1>4
    <2> QED BY <1>5, <2>1 DEF OwnersInv, Waited
  <1>7. ASSUME ~grew' PROVE Fence' /\ Spare' /\ OwnerRemains'
    <2>1. ~grew /\ Fence /\ Spare /\ OwnerRemains /\ Waited
      BY <1>3, <1>7 DEF OwnersInv
    <2>2. UnderWay' \subseteq UnderWay \ {q}
      BY <1>4, <1>5 DEF UnderWay
    <2>3. \A p \in UnderWay' : Owners' \subseteq Owners
      BY <1>3, <1>7, <2>2
    <2>4. Fence'
      <3> SUFFICES ASSUME NEW p \in UnderWay', NEW o \in Owners'
                   PROVE  o \in request'[p].wanted \/ lock'[o] = p
        BY DEF Fence
      <3>1. p \in UnderWay /\ p \in Requests /\ p # q /\ o \in Owners /\ o \in Users
        BY <2>2, <2>3 DEF UnderWay, Owners
      <3>2. o \in request[p].wanted \/ lock[o] = p
        BY <2>1, <3>1 DEF Fence
      <3>3. m = NoMember => o # u
        BY <1>3 DEF IsOwner, NoMember
      <3> QED BY <1>5, <3>1, <3>2, <3>3
    <2>5. Spare'
      <3> SUFFICES ASSUME NEW p \in Requests, request'[p].pc = "decided",
                          LosesOwner(member'[request'[p].target], request'[p].patch)
                   PROVE  \E o \in Owners' : o # request'[p].target
        BY DEF Spare
      <3> PICK t : t = request[p].target
        OBVIOUS
      <3>1. /\ p # q /\ request[p].pc = "decided" /\ p \in UnderWay /\ p \in UnderWay'
            /\ t = request'[p].target /\ request'[p].patch = request[p].patch /\ t \in Users
        BY <1>4, <1>5, RequestTarget DEF UnderWay
      <3>2. t \in Owners' /\ t \in Owners
        BY <2>3, <3>1 DEF LosesOwner, Owners
      <3>3. lock[t] = p
        BY <2>1, <3>1, <3>2 DEF Fence, Waited
      <3>4. u \notin Owners \/ IsOwner(m)
        <4> SUFFICES ASSUME u \in Owners PROVE FALSE
          OBVIOUS
        <4> QED BY <1>0, <1>1, <2>1, <3>1 DEF Fence, Waited
      <3>5. Owners' = Owners
        BY <1>3, <2>3, <3>1, <3>4
      <3>6. member'[t] = member[t]
        <4>1. CASE t # u
          BY <1>3, <3>1, <4>1
        <4>2. CASE t = u
          <5>1. m \in Member /\ IsOwner(m)
            BY <1>2, <1>3, <3>2, <4>2 DEF IsOwner, NoMember
          <5>2. m = [role |-> "OWNER", status |-> "ACTIVE"]
            BY <5>1 DEF Member, IsOwner
          <5> QED BY <1>3, <3>1, <3>2, <4>2, <5>2, OwnerRow
        <4> QED BY <4>1, <4>2
      <3>7. LosesOwner(member[t], request[p].patch)
        BY <3>1, <3>6
      <3> QED BY <2>1, <3>1, <3>5, <3>7 DEF Spare
    <2>6. OwnerRemains'
      <3> SUFFICES ASSUME founding = "done" PROVE Owners' # {}
        BY <1>0 DEF OwnerRemains
      <3>1. Owners # {}
        BY <2>1 DEF OwnerRemains
      <3>2. CASE LosesOwner(member[u], request[q].patch)
        <4>1. PICK o \in Owners : o # u
          BY <1>0, <2>1, <3>2 DEF Spare
        <4> QED BY <1>3, <4>1
      <3>3. CASE ~LosesOwner(member[u], request[q].patch)
        <4>1. u \in Owners => IsOwner(m)
          BY <3>3 DEF LosesOwner, Owners
        <4> QED BY <1>3, <3>1, <4>1
      <3> QED BY <3>2, <3>3
    <2> QED BY <2>4, <2>5, <2>6
  <1> QED BY <1>6, <1>7 DEF OwnersInv

LEMMA MemberChangeKeeps ==
    ASSUME TypeOK, TypeOK', OwnersInv, NEW q \in Requests, MemberChange(q)
    PROVE  OwnersInv'
  <1>0. request \in [Requests -> RequestState] /\ lock \in [Users -> Requests \cup {NoRequest}]
        /\ Owners \subseteq Users /\ request[q] \in RequestState
    BY DEF TypeOK, Owners
  <1>1. ASSUME NEW caller \in Users, NEW u \in Users, NEW patch \in Patches \cup {Removal},
               Authorise(q, caller, u, patch)
        PROVE  OwnersInv'
    <2>1. request'[q].pc = "authorised"
      BY <1>0, <1>1 DEF Authorise
    <2>2. UNCHANGED <<founding, member, grew, lock>> /\ \A p \in Requests \ {q} : request'[p] = request[p]
      BY <1>0, <1>1 DEF Authorise
    <2> QED BY <2>1, <2>2, WaitKeeps
  <1>2. CASE LockActiveOwners(q)
    <2>1. request'[q].pc = "locking" /\ request'[q].wanted = Owners
      BY <1>0, <1>2 DEF LockActiveOwners, RequestState, Free
    <2>2. UNCHANGED <<founding, member, grew, lock>> /\ \A p \in Requests \ {q} : request'[p] = request[p]
      BY <1>0, <1>2 DEF LockActiveOwners
    <2> QED BY <2>1, <2>2, WaitKeeps
  <1>3. ASSUME NEW u \in Users, LockRow(q, u)
        PROVE  OwnersInv'
    <2>1. request'[q].pc = "locking" /\ request'[q].wanted = request[q].wanted \ {u}
      BY <1>0, <1>3 DEF LockRow, RequestState, Free
    <2>2. UNCHANGED <<founding, member, grew>> /\ \A p \in Requests \ {q} : request'[p] = request[p]
      BY <1>0, <1>3 DEF LockRow
    <2>3. \A v \in Users : lock'[v] = IF v = u /\ u \in Owners THEN q ELSE lock[v]
      BY <1>0, <1>3 DEF LockRow
    <2>4. \A p \in Requests \ {q} : \A v \in Users : lock[v] = p => lock'[v] = p
      BY <1>3, <2>3, NamesAssumption DEF LockRow
    <2>5. \A o \in Owners : Fence => o \in request'[q].wanted \/ lock'[o] = q
      BY <1>0, <1>3, <2>1, <2>3 DEF Fence, UnderWay, LockRow
    <2> QED BY <2>1, <2>2, <2>4, <2>5, WaitKeeps
  <1>4. CASE Reread(q) /\ ~Ends(q)
    <2>1. PICK pc \in {"losing", "decided"} :
             /\ request' = [request EXCEPT ![q].pc = pc]
             /\ pc = "decided" => ~LosesOwner(member[request[q].target], request[q].patch)
             /\ UNCHANGED <<lock, founding, member, grew>>
      BY <1>4 DEF Reread
    <2>2. /\ request'[q].pc = pc /\ request'[q].wanted = request[q].wanted
          /\ request'[q].target = request[q].target /\ request'[q].patch = request[q].patch
          /\ request[q].pc = "locking" /\ request[q].wanted = {}
          /\ \A p \in Requests \ {q} : request'[p] = request[p]
      BY <1>0, <1>4, <2>1 DEF Reread, RequestState, Free
    <2>3. \A o \in Owners : Fence => o \in request'[q].wanted \/ lock'[o] = q
      BY <2>1, <2>2 DEF Fence, UnderWay
    <2> QED BY <2>1, <2>2, <2>3, WaitKeeps
  <1>5. CASE CountOwners(q) /\ ~Ends(q)
    <2>1. /\ request' = [request EXCEPT ![q].pc = "decided"]
          /\ ~(Cardinality(Owners) <= 1)
          /\ UNCHANGED <<lock, founding, member, grew>>
      BY <1>5 DEF CountOwners
    <2>2. /\ request'[q].pc = "decided" /\ request'[q].wanted = request[q].wanted
          /\ request'[q].target = request[q].target /\ request'[q].patch = request[q].patch
          /\ request[q].pc = "losing"
          /\ \A p \in Requests \ {q} : request'[p] = request[p]
      BY <1>0, <1>5, <2>1 DEF CountOwners, RequestState, Free
    <2>3. \A o \in Owners : Fence => o \in request'[q].wanted \/ lock'[o] = q
      BY <2>1, <2>2 DEF Fence, UnderWay
    <2>4. \E o \in Owners : o # request'[q].target
      <3> PICK t : t = request'[q].target
        OBVIOUS
      <3>1. \E o \in Owners : o # t
        BY <2>1, CountedOthers
      <3> QED BY <3>1
    <2>5. request'[q].wanted = {}
      BY <2>2 DEF OwnersInv, Waited
    <2> QED BY <2>1, <2>2, <2>3, <2>4, <2>5, WaitKeeps
  <1>6. CASE Change(q)
    <2>1. CASE member[request[q].target] = NoMember
      <3>1. Ends(q) /\ UNCHANGED <<founding, member, grew>>
        BY <1>6, <2>1 DEF Change
      <3> QED BY <3>1, EndKeeps
    <2> QED BY <1>6, <2>1, WriteKeeps
  <1>7. CASE Ends(q) /\ (Reread(q) \/ CountOwners(q) \/ RollBack(q))
    BY <1>7, EndKeeps DEF Reread, CountOwners, RollBack
  <1> QED BY <1>1, <1>2, <1>3, <1>4, <1>5, <1>6, <1>7 DEF MemberChange, RollBack

LEMMA OwnersInit == Init => OwnersInv
  BY DEF Init, OwnersInv, Waited, Fence, Spare, OwnerRemains, UnderWay, Free

\* What leaves members, locks, requests and the founding alone.
LEMMA LettersKeep ==
    ASSUME OwnersInv, UNCHANGED <<founding, rows>>
    PROVE  OwnersInv'
  BY DEF OwnersInv, Waited, Fence, Spare, OwnerRemains, UnderWay, Owners, rows

LEMMA OwnersNext == TypeOK /\ Written /\ OwnersInv /\ [Next]_vars => OwnersInv'
  <1> SUFFICES ASSUME TypeOK, Written, OwnersInv, [Next]_vars PROVE OwnersInv'
    OBVIOUS
  <1>0. TypeOK'
    BY TypesNext
  <1>1. CASE CreateWorkspace
    BY <1>1 DEF CreateWorkspace, OwnersInv, Waited, Fence, Spare, OwnerRemains, UnderWay,
       Owners, rows
  <1>2. CASE CreateOwner
    <2> PICK m : m = [role |-> "OWNER", status |-> "ACTIVE"]
      OBVIOUS
    <2>1. Founder \in Users /\ m \in Member /\ IsOwner(m) /\ Founder \notin Owners
      BY <1>2, NamesAssumption DEF Member, Roles, Statuses, IsOwner, Owners, CreateOwner, NoMember
    <2>2. Waited' /\ (~grew' => Fence' /\ Spare' /\ Owners \subseteq Owners')
      BY <1>2, <2>1, JoinKeeps DEF CreateOwner
    <2>3. Founder \in Owners'
      BY <1>2, <2>1, SetMemberOwners DEF CreateOwner
    <2> QED BY <2>2, <2>3 DEF OwnersInv, OwnerRemains
  <1>3. ASSUME NEW u \in Users, Seed(u) PROVE OwnersInv'
    <2>0. PICK role \in SeedRoles : SetMember(u, [role |-> role, status |-> "ACTIVE"], UnderWay)
      BY <1>3 DEF Seed
    <2> PICK m : m = [role |-> role, status |-> "ACTIVE"]
      OBVIOUS
    <2>1. m \in Member /\ u \notin Owners
      BY <1>3, BoundsAssumption DEF Member, Statuses, IsOwner, Owners, Seed, NoMember
    <2>2. Waited' /\ (~grew' => Fence' /\ Spare' /\ Owners \subseteq Owners')
      BY <1>3, <2>0, <2>1, JoinKeeps DEF Seed
    <2>3. grew => grew'
      BY <2>0 DEF SetMember
    <2> QED BY <1>3, <2>2, <2>3 DEF OwnersInv, OwnerRemains, Seed
  <1>4. ASSUME NEW q \in Requests, MemberChange(q) PROVE OwnersInv'
    BY <1>0, <1>4, MemberChangeKeeps
  <1>5. ASSUME NEW c \in Clerks, Correspondence(c) PROVE OwnersInv'
    <2>1. UNCHANGED <<founding, rows>>
      BY <1>5 DEF Correspondence, BeginInvite, BeginRevoke, IssueInvite, RevokeInvite, ClerkDrops
    <2> QED BY <2>1, LettersKeep
  <1>6. ASSUME NEW k \in Acceptances, Accepting(k) PROVE OwnersInv'
    <2>1. CASE Admit(k)
      <3> PICK u : u = acceptance[k].as.to
        OBVIOUS
      <3>1. u \in Users /\ acceptance[k].as.role \in Roles
        <4>1. acceptance[k] \in AcceptanceState
          BY DEF TypeOK
        <4> QED BY <2>1, <4>1 DEF Admit, AcceptanceState, Away, Letter
      <3>2. ASSUME NEW m \in Member, SetMember(u, m, UnderWay), u \in Owners => m = member[u]
            PROVE  OwnersInv'
        <4>1. UNCHANGED <<founding, lock, request>>
          BY <2>1 DEF Admit
        <4>2. Waited' /\ (~grew' => Fence' /\ Spare' /\ Owners \subseteq Owners')
          BY <3>1, <3>2, <4>1, JoinKeeps
        <4>3. grew => grew'
          BY <3>2 DEF SetMember
        <4> QED BY <4>1, <4>2, <4>3 DEF OwnersInv, OwnerRemains
      <3>3. CASE /\ member[u] = NoMember
                 /\ SetMember(u, [role |-> acceptance[k].as.role, status |-> "ACTIVE"], UnderWay)
        <4>1. [role |-> acceptance[k].as.role, status |-> "ACTIVE"] \in Member
          BY <3>1 DEF Member, Statuses
        <4>2. u \notin Owners
          BY <3>3 DEF Owners, IsOwner, NoMember
        <4> QED BY <3>2, <3>3, <4>1, <4>2
      <3>4. CASE /\ member[u] # NoMember
                 /\ SetMember(u, [member[u] EXCEPT !.status = "ACTIVE"], UnderWay)
        <4>1. PICK r \in Member : r = member[u]
          BY <3>1, <3>4 DEF TypeOK
        <4>2. [r EXCEPT !.status = "ACTIVE"] \in Member
          BY DEF Member, Statuses
        <4>3. u \in Owners => [r EXCEPT !.status = "ACTIVE"] = r
          BY <4>1 DEF Owners, IsOwner, Member
        <4> QED BY <3>2, <3>4, <4>1, <4>2, <4>3
      <3>5. CASE UNCHANGED <<member, grew>>
        BY <2>1, <3>5, LettersKeep DEF Admit, rows
      <3> QED BY <2>1, <3>3, <3>4, <3>5 DEF Admit
    <2>2. CASE ~Admit(k)
      <3>1. UNCHANGED <<founding, rows>>
        BY <1>6, <2>2 DEF Accepting, BeginAccept, Expire, FindMember, MarkAccepted, AcceptDrops
      <3> QED BY <3>1, LettersKeep
    <2> QED BY <2>1, <2>2
  <1>7. CASE UNCHANGED vars
    BY <1>7, LettersKeep DEF vars, rows
  <1> QED BY <1>1, <1>2, <1>3, <1>4, <1>5, <1>6, <1>7 DEF Next

(***************************************************************************)
(* An organization with any number of owners, members and concurrent       *)
(* changes keeps an active owner, unless somebody became one inside a      *)
(* change.                                                                 *)
(***************************************************************************)
THEOREM OwnersAreKept == Spec => []OwnersKept
  <1>1. Init => TypeOK /\ Written /\ OwnersInv
    BY TypesInit, OwnersInit
  <1>2. TypeOK /\ Written /\ OwnersInv /\ [Next]_vars => (TypeOK /\ Written /\ OwnersInv)'
    BY TypesNext, OwnersNext
  <1>3. OwnersInv => OwnersKept
    BY DEF OwnersInv, OwnersKept
  <1> QED BY <1>1, <1>2, <1>3, PTL DEF Spec

-----------------------------------------------------------------------------
(***************************************************************************)
(* Invitations.                                                            *)
(***************************************************************************)
Closed == {"ACCEPTED", "REVOKED", "EXPIRED"}

\* A write by id of the role, or of the status to a closing one.
LEMMA WriteById ==
    ASSUME invite \in [Invites -> Letter \cup {NoLetter}], Written, NEW i \in Invites,
           invite[i].status \in Closed, NEW j \in Invites, invite[j] # NoLetter,
           \/ \E role \in Roles : invite' = [invite EXCEPT ![j].role = role]
           \/ \E s \in Closed : invite' = [invite EXCEPT ![j].status = s]
    PROVE  invite'[i].status # "PENDING"
  <1>1. CASE i # j
    <2>1. invite'[i] = invite[i]
      BY <1>1
    <2> QED BY <2>1 DEF Closed
  <1>2. CASE i = j
    <2>1. PICK m \in Letter : m = invite[i]
      BY <1>2
    <2>2. \/ \E role \in Roles : invite'[i] = [m EXCEPT !.role = role]
          \/ \E s \in Closed : invite'[i] = [m EXCEPT !.status = s]
      BY <1>2, <2>1
    <2>3. invite'[i].status \in Closed
      BY <2>1, <2>2 DEF Letter
    <2> QED BY <2>3 DEF Closed
  <1> QED BY <1>1, <1>2

LEMMA ClosedStep ==
    ASSUME TypeOK, Written, [Next]_vars, NEW i \in Invites, invite[i].status \in Closed
    PROVE  invite'[i].status # "PENDING"
  <1>0. /\ invite \in [Invites -> Letter \cup {NoLetter}]
        /\ \A c \in Clerks : clerk[c] \in ClerkState
        /\ \A k \in Acceptances : acceptance[k] \in AcceptanceState
    BY DEF TypeOK
  <1>1. CASE UNCHANGED invite
    BY <1>1 DEF Closed
  <1>2. ASSUME NEW c \in Clerks, IssueInvite(c) PROVE invite'[i].status # "PENDING"
    <2>1. clerk[c].role \in Roles /\ clerk[c].at \in Invites \cup {NoInvite}
      BY <1>0, <1>2 DEF IssueInvite, ClerkState, Resting
    <2>2. CASE clerk[c].at # NoInvite /\ Refreshed(clerk[c].at, clerk[c].role)
      <3>1. PICK j \in Invites : j = clerk[c].at /\ invite[j] # NoLetter
        BY <2>1, <2>2 DEF Written
      <3>2. \E role \in Roles : invite' = [invite EXCEPT ![j].role = role]
        BY <2>1, <2>2, <3>1 DEF Refreshed
      <3> QED BY <1>0, <3>1, <3>2, WriteById
    <2>3. ASSUME NEW j \in Invites, invite[j] = NoLetter,
                 invite' = [invite EXCEPT ![j] =
                    [status |-> "PENDING", to |-> clerk[c].to, role |-> clerk[c].role]]
          PROVE  invite'[i].status # "PENDING"
      <3>1. i # j
        BY <2>3 DEF NoLetter, Closed
      <3>2. invite'[i] = invite[i]
        BY <2>3, <3>1
      <3> QED BY <3>2 DEF Closed
    <2> QED BY <1>2, <2>2, <2>3 DEF IssueInvite
  <1>3. ASSUME NEW c \in Clerks, RevokeInvite(c) PROVE invite'[i].status # "PENDING"
    <2>1. PICK j \in Invites : j = clerk[c].at /\ invite[j] # NoLetter
      BY <1>0, <1>3, NamesAssumption DEF RevokeInvite, ClerkState, Resting, Written
    <2>2. \E s \in Closed : invite' = [invite EXCEPT ![j].status = s]
      BY <1>3, <2>1 DEF RevokeInvite, Closed
    <2> QED BY <1>0, <2>1, <2>2, WriteById
  <1>4. ASSUME NEW k \in Acceptances, Expire(k) \/ MarkAccepted(k)
        PROVE  invite'[i].status # "PENDING"
    <2>1. PICK j \in Invites : j = acceptance[k].at /\ invite[j] # NoLetter
      BY <1>0, <1>4, NamesAssumption DEF Expire, MarkAccepted, AcceptanceState, Away, Written
    <2>2. \E s \in Closed : invite' = [invite EXCEPT ![j].status = s]
      BY <1>4, <2>1 DEF Expire, MarkAccepted, Closed
    <2> QED BY <1>0, <2>1, <2>2, WriteById
  <1>5. ASSUME NEW q \in Requests, MemberChange(q) PROVE UNCHANGED invite
    BY <1>5 DEF MemberChange, Authorise, LockActiveOwners, LockRow, Reread, CountOwners,
       Change, RollBack, letters
  <1>6. ASSUME NEW c \in Clerks, Correspondence(c), ~IssueInvite(c), ~RevokeInvite(c)
        PROVE  UNCHANGED invite
    BY <1>6 DEF Correspondence, BeginInvite, BeginRevoke, ClerkDrops
  <1>7. ASSUME NEW k \in Acceptances, Accepting(k), ~Expire(k), ~MarkAccepted(k)
        PROVE  UNCHANGED invite
    BY <1>7 DEF Accepting, BeginAccept, FindMember, Admit, AcceptDrops
  <1>8. CASE \/ CreateWorkspace \/ CreateOwner \/ \E u \in Users : Seed(u)
             \/ UNCHANGED vars
    BY <1>1, <1>8 DEF CreateWorkspace, CreateOwner, Seed, letters, vars
  <1> QED BY <1>1, <1>2, <1>3, <1>4, <1>5, <1>6, <1>7, <1>8 DEF Next

(***************************************************************************)
(* An invitation once accepted, revoked or expired is never open again,    *)
(* however late the requests that found it pending write.                  *)
(***************************************************************************)
THEOREM ClosedStaysClosedHolds == Spec => ClosedStaysClosed
  <1>1. TypeOK /\ Written /\ [Next]_vars =>
           [\A i \in Invites :
               invite[i].status \in {"ACCEPTED", "REVOKED", "EXPIRED"}
                   => invite'[i].status # "PENDING"]_vars
    BY ClosedStep DEF Closed
  <1> QED BY <1>1, TypesInit, TypesNext, PTL DEF Spec, ClosedStaysClosed

=============================================================================
