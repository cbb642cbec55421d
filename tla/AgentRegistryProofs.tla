------------------------- MODULE AgentRegistryProofs -------------------------
(***************************************************************************)
(* Proofs about AgentRegistry, for every set of mailboxes, clients and     *)
(* provisioning requests and any number of changes.                        *)
(*                                                                         *)
(* A request is applied once because only its claimer acts for it          *)
(* (Claims).  One identity is left by a change that ran by itself because  *)
(* nothing was committed under it, so that what it read is what it writes  *)
(* over (Alone), and because no two bindings are equally old (Ages), so    *)
(* that the one it keeps is determined.                                    *)
(***************************************************************************)
EXTENDS AgentRegistry, TLAPS

Running(c) == client[c].pc \in InTransaction

\* Who acts for a request, and what has come of it so far.
Claims ==
    /\ \A c \in Clients :
          /\ client[c].pc \in {"claimed", "applied", "failed"} =>
                client[c].for \in ProvisioningRequests
          /\ client[c].for \in ProvisioningRequests =>
                /\ provision[client[c].for].state = "APPROVED"
                /\ applied[client[c].for] = IF client[c].pc = "applied" THEN 1 ELSE 0
    /\ \A c, d \in Clients :
          c # d /\ client[c].for \in ProvisioningRequests => client[c].for # client[d].for
    /\ \A r \in ProvisioningRequests : provision[r].state = "none" => applied[r] = 0

\* Only a registered agent is changed; a transaction has a number of its
\* own, and only a transaction holds rows.
Numbers ==
    /\ \A c \in Clients :
          /\ Running(c) => agent /\ client[c].number \in 1..changes
          /\ ~Running(c) => client[c].rows = Nothing
          /\ client[c].pc = "upsert" => client[c].change.kind = "bind"
          /\ client[c].pc = "delete" => client[c].change.kind = "unbind"
    /\ \A c, d \in Clients :
          c # d /\ Running(c) /\ Running(d) => client[c].number # client[d].number
    /\ ~agent => binding = [m \in Mailboxes |-> NoBinding] /\ mailboxAccountId = NoMailbox

\* A row of mailbox m, committed or not.
RowOf(row, m) == row = binding[m] \/ \E c \in Clients : row = client[c].rows[m]

Rows == Binding \cup {NoBinding, Untouched}

\* A row is dated by the transaction that created it, which creates one.
Ages ==
    \A m \in Mailboxes : \A x \in Rows : RowOf(x, m) =>
        /\ x.born <= changes
        /\ \A c \in Clients : Running(c) /\ x.born = client[c].number => m = client[c].change.mailbox
        /\ \A n \in Mailboxes \ {m} : \A y \in Rows : RowOf(y, n) /\ x.born = y.born => x.born = 0

\* What a client would commit with the cache pointing to to.
Identity(c, to) ==
    \/ /\ \A m \in Mailboxes : ~View(c, m).isPrimary
       /\ to = NoMailbox
    \/ /\ to \in Mailboxes /\ Sendable(View(c, to))
       /\ \A m \in Mailboxes : View(c, m).isPrimary <=> m = to

SeesAll(c) == \A m \in Mailboxes : client[c].seen[m] = View(c, m)

Chosen(c, to) ==
    IF Kept(client[c].seen) = {} THEN to = NoMailbox ELSE to \in Kept(client[c].seen)

\* A change by itself knows what it has read and what it has left to do.
Alone ==
    \A c \in Clients : client[c].alone /\ Running(c) =>
        /\ \A d \in Clients \ {c} : ~Running(d)
        /\ client[c].pc \in {"clearing", "repair"} => SeesAll(c)
        /\ client[c].pc = "point" => \A m \in Mailboxes : ~View(c, m).isPrimary
        /\ client[c].pc = "cache" => Identity(c, client[c].change.mailbox)
        /\ client[c].pc = "finish" => \A to \in Mailboxes \cup {NoMailbox} :
              Chosen(c, to) => Identity(c, to)

IInv == TypeOK /\ Claims /\ AppliedAsStated /\ Numbers /\ Ages /\ Alone /\ OneIdentity

-----------------------------------------------------------------------------
(***************************************************************************)
(* A statement of an open transaction: it changes what its client holds,   *)
(* and dates no row but as the code does.                                  *)
(***************************************************************************)
Dated(c, m) ==
    \/ client'[c].rows[m].born \in {0, View(c, m).born}
    \/ m = client[c].change.mailbox /\ client'[c].rows[m].born = client[c].number

Within(c) ==
    /\ Running(c) /\ client'[c].pc \in InTransaction
    /\ client' \in [Clients -> ClientState]
    /\ \A d \in Clients \ {c} : client'[d] = client[d]
    /\ client'[c].change = client[c].change /\ client'[c].for = client[c].for
    /\ client'[c].number = client[c].number /\ client'[c].alone = client[c].alone
    /\ \A m \in Mailboxes : Dated(c, m)
    /\ UNCHANGED Committed

LEMMA ViewType ==
    ASSUME TypeOK, NEW c \in Clients, NEW m \in Mailboxes
    PROVE  /\ View(c, m) \in Binding \cup {NoBinding}
           /\ RowOf(View(c, m), m)
BY DEF TypeOK, View, ClientState, RowOf

LEMMA IdleType == Idle \in ClientState
<1>1. 0 \in 0..MaxChanges BY BoundsAssumption
<1>2. Nothing \in [Mailboxes -> Binding \cup {NoBinding, Untouched}] BY DEF Nothing
<1> QED BY <1>1, <1>2 DEF Idle, ClientState

\* What a change names, by its kind.
LEMMA Named ==
    ASSUME NEW o \in Change \cup {NoChange}
    PROVE  /\ o.kind = "bind" =>
                 o.mailbox \in Mailboxes /\ o.access \in Accesses /\ o.isPrimary \in BOOLEAN
           /\ o.kind = "unbind" => o.mailbox \in Mailboxes
           /\ o.mailbox \in Mailboxes \cup {NoMailbox}
<1>1. CASE o \in [kind : {"bind"}, mailbox : Mailboxes, access : Accesses, isPrimary : BOOLEAN]
  BY <1>1
<1>2. CASE o \in [kind : {"unbind"}, mailbox : Mailboxes, access : {"none"}, isPrimary : {FALSE}]
  BY <1>2
<1>3. CASE o \in [kind : {"update", "create"}, mailbox : Mailboxes \cup {NoMailbox},
                  access : {"none"}, isPrimary : {FALSE}]
  BY <1>3
<1>4. CASE o = NoChange BY <1>4 DEF NoChange
<1> QED BY <1>1, <1>2, <1>3, <1>4 DEF Change

LEMMA ClientFields ==
    ASSUME TypeOK, NEW c \in Clients
    PROVE  /\ client[c] \in ClientState /\ client[c].change \in Change \cup {NoChange}
           /\ client[c].number \in 0..MaxChanges
           /\ client[c].seen \in [Mailboxes -> Rows]
           /\ client[c].for \in ProvisioningRequests \cup {NoProvisioning}
BY DEF TypeOK, ClientState, Rows

\* A record put in place of a client's.
LEMMA Put ==
    ASSUME client \in [Clients -> ClientState], NEW c \in Clients, NEW new \in ClientState,
           client' = [client EXCEPT ![c] = new]
    PROVE  /\ client' \in [Clients -> ClientState]
           /\ client'[c] = new
           /\ \A d \in Clients \ {c} : client'[d] = client[d]
OBVIOUS

\* Two fields of a client's record, as a statement writes them.
LEMMA WriteWithin ==
    ASSUME TypeOK, NEW c \in Clients, Running(c), NEW rows \in [Mailboxes -> Rows],
           NEW pc \in InTransaction, Write(c, rows, pc),
           \A m \in Mailboxes :
               \/ rows[m].born \in {0, View(c, m).born}
               \/ m = client[c].change.mailbox /\ rows[m].born = client[c].number,
           UNCHANGED Committed
    PROVE  /\ Within(c)
           /\ client'[c].rows = rows /\ client'[c].pc = pc
           /\ client'[c].seen = client[c].seen /\ client'[c].cache = client[c].cache
<1>1. PICK new : new = [client[c] EXCEPT !.rows = rows, !.pc = pc] OBVIOUS
<1>2. client[c] \in ClientState BY DEF TypeOK
<1>3. /\ new \in ClientState /\ new.rows = rows /\ new.pc = pc
      /\ new.seen = client[c].seen /\ new.cache = client[c].cache
      /\ new.change = client[c].change /\ new.for = client[c].for
      /\ new.number = client[c].number /\ new.alone = client[c].alone
  BY <1>1, <1>2 DEF ClientState, Rows
<1>4. client' = [client EXCEPT ![c] = new]
  BY <1>1 DEF Write, TypeOK
<1>5. /\ client' \in [Clients -> ClientState] /\ client'[c] = new
      /\ \A d \in Clients \ {c} : client'[d] = client[d]
  BY <1>3, <1>4, Put DEF TypeOK
<1> QED BY <1>3, <1>5 DEF Within, Dated

LEMMA UntouchedRows ==
    ASSUME TypeOK, NEW c \in Clients, NEW m \in Mailboxes
    PROVE  /\ client[c].rows \in [Mailboxes -> Rows]
           /\ client[c].rows[m].born \in {0, View(c, m).born}
BY DEF TypeOK, ClientState, Rows, View, Untouched

\* The number a transaction dates its row with.
LEMMA OwnNumber ==
    ASSUME TypeOK, Numbers, NEW c \in Clients, Running(c)
    PROVE  client[c].number \in 1..MaxChanges
<1>1. client[c].number \in 1..changes /\ changes \in 0..MaxChanges BY DEF Numbers, TypeOK
<1> QED BY <1>1, BoundsAssumption

LEMMA UpsertedRows ==
    ASSUME TypeOK, Numbers, NEW c \in Clients, Running(c),
           NEW m \in Mailboxes, m = client[c].change.mailbox,
           NEW access \in {"READ", "SEND", "BOTH"}, NEW isPrimary \in BOOLEAN,
           NEW rows, rows = Upserted(c, m, access, isPrimary)
    PROVE  /\ rows \in [Mailboxes -> Rows]
           /\ rows[m] \in Binding /\ rows[m].access = access /\ rows[m].isPrimary = isPrimary
           /\ \A n \in Mailboxes \ {m} : rows[n] = client[c].rows[n]
           /\ \A n \in Mailboxes :
                 \/ rows[n].born \in {0, View(c, n).born}
                 \/ n = client[c].change.mailbox /\ rows[n].born = client[c].number
<1>1. PICK row : row = [access |-> access, isPrimary |-> isPrimary,
          born |-> IF View(c, m) = NoBinding THEN client[c].number ELSE View(c, m).born]
  OBVIOUS
<1>2. row \in Binding /\ row.born \in {client[c].number, View(c, m).born}
  BY <1>1, ViewType, OwnNumber DEF Binding
<1>3. rows = [client[c].rows EXCEPT ![m] = row] BY <1>1 DEF Upserted
<1>4. rows \in [Mailboxes -> Rows] /\ rows[m] = row
  BY <1>2, <1>3, UntouchedRows DEF Rows
<1>5. \A n \in Mailboxes \ {m} : rows[n] = client[c].rows[n]
  BY <1>3, UntouchedRows
<1>6. ASSUME NEW n \in Mailboxes
      PROVE  \/ rows[n].born \in {0, View(c, n).born}
             \/ n = client[c].change.mailbox /\ rows[n].born = client[c].number
  <2>1. CASE n = m BY <2>1, <1>2, <1>4
  <2>2. CASE n # m BY <2>2, <1>5, UntouchedRows
  <2> QED BY <2>1, <2>2
<1> QED BY <1>1, <1>2, <1>4, <1>5, <1>6

LEMMA UpsertWithin ==
    ASSUME IInv, NEW c \in Clients, Upsert(c)
    PROVE  Within(c) /\ client'[c].pc \in {"clear", "reconcile"}
<1>0. TypeOK /\ Numbers BY DEF IInv
<1>1. PICK o : o = client[c].change OBVIOUS
<1>2. Running(c) /\ o.mailbox \in Mailboxes /\ o.access \in Accesses
  <2>1. client[c].pc = "upsert" /\ Running(c) BY DEF Upsert, Running, InTransaction
  <2>2. o.kind = "bind" BY <1>0, <1>1, <2>1 DEF Numbers
  <2> QED BY <1>0, <1>1, <2>1, <2>2, ClientFields, Named
<1>3. PICK access : access = IF o.isPrimary /\ o.access = "READ" THEN "BOTH" ELSE o.access
  OBVIOUS
<1>4. access \in {"READ", "SEND", "BOTH"} BY <1>2, <1>3, BoundsAssumption
<1>50. PICK no \in BOOLEAN : no = FALSE OBVIOUS
<1>5. PICK rows : rows = Upserted(c, o.mailbox, access, no) OBVIOUS
<1>6. PICK pc : pc = IF o.isPrimary THEN "clear" ELSE "reconcile" OBVIOUS
<1>7. Write(c, rows, pc) /\ UNCHANGED Committed
  BY <1>1, <1>3, <1>5, <1>50, <1>6 DEF Upsert
<1>8. /\ rows \in [Mailboxes -> Rows]
      /\ \A n \in Mailboxes :
            \/ rows[n].born \in {0, View(c, n).born}
            \/ n = client[c].change.mailbox /\ rows[n].born = client[c].number
  BY <1>0, <1>1, <1>2, <1>4, <1>5, <1>50, UpsertedRows
<1>9. pc \in InTransaction BY <1>6 DEF InTransaction
<1> QED BY <1>0, <1>2, <1>6, <1>7, <1>8, <1>9, WriteWithin

LEMMA DeleteWithin ==
    ASSUME IInv, NEW c \in Clients, Delete(c), binding[client[c].change.mailbox] # NoBinding
    PROVE  Within(c) /\ client'[c].pc = "reconcile"
<1>0. TypeOK /\ Numbers BY DEF IInv
<1>1. PICK m : m = client[c].change.mailbox OBVIOUS
<1>2. client[c].pc = "delete" /\ Running(c) /\ m \in Mailboxes
  <2>1. client[c].pc = "delete" /\ Running(c) BY DEF Delete, Running, InTransaction
  <2> QED BY <1>0, <1>1, <2>1, ClientFields, Named DEF Numbers
<1>3. PICK rows : rows = [client[c].rows EXCEPT ![m] = NoBinding] OBVIOUS
<1>4. rows \in [Mailboxes -> Rows] BY <1>0, <1>2, <1>3, UntouchedRows DEF Rows
<1>5. \A n \in Mailboxes : rows[n].born \in {0, View(c, n).born}
  BY <1>0, <1>2, <1>3, UntouchedRows DEF NoBinding
<1>6. Write(c, rows, "reconcile") /\ UNCHANGED Committed
  BY <1>1, <1>3 DEF Delete
<1> QED BY <1>0, <1>2, <1>4, <1>5, <1>6, WriteWithin DEF InTransaction

\* The two statements that read every row.
LEMMA SnapshotWithin ==
    ASSUME TypeOK, NEW c \in Clients, Running(c), NEW pc \in InTransaction,
           client' = [client EXCEPT ![c].pc = pc, ![c].seen = [m \in Mailboxes |-> View(c, m)]],
           UNCHANGED Committed
    PROVE  Within(c) /\ client'[c].pc = pc /\ SeesAll(c)'
<1>1. PICK seen : seen = [m \in Mailboxes |-> View(c, m)] OBVIOUS
<1>2. seen \in [Mailboxes -> Rows] BY <1>1, ViewType DEF Rows
<1>3. PICK new : new = [client[c] EXCEPT !.pc = pc, !.seen = seen] OBVIOUS
<1>4. /\ new \in ClientState /\ new.rows = client[c].rows /\ new.pc = pc /\ new.seen = seen
      /\ new.change = client[c].change /\ new.for = client[c].for
      /\ new.number = client[c].number /\ new.alone = client[c].alone
  BY <1>2, <1>3, ClientFields DEF ClientState, Rows
<1>5. client' = [client EXCEPT ![c] = new] BY <1>1, <1>3 DEF TypeOK
<1>6. /\ client' \in [Clients -> ClientState] /\ client'[c] = new
      /\ \A d \in Clients \ {c} : client'[d] = client[d]
  BY <1>4, <1>5, Put DEF TypeOK
<1>7. \A m \in Mailboxes : Dated(c, m)
  BY <1>4, <1>6, UntouchedRows DEF Dated
<1>8. SeesAll(c)' BY <1>1, <1>4, <1>6 DEF SeesAll, View, Committed
<1> QED BY <1>4, <1>6, <1>7, <1>8 DEF Within

LEMMA ClearWithin ==
    ASSUME IInv, NEW c \in Clients, ClearPrimaries(c)
    PROVE  Within(c) /\ client'[c].pc = "clearing" /\ SeesAll(c)'
<1>1. TypeOK /\ Running(c) /\ "clearing" \in InTransaction
  BY DEF IInv, ClearPrimaries, Running, InTransaction
<1> QED BY <1>1, SnapshotWithin DEF ClearPrimaries

LEMMA ReadWithin ==
    ASSUME IInv, NEW c \in Clients, ReadBindings(c)
    PROVE  Within(c) /\ client'[c].pc = "repair" /\ SeesAll(c)'
<1>1. TypeOK /\ Running(c) /\ "repair" \in InTransaction
  BY DEF IInv, ReadBindings, Running, InTransaction
<1> QED BY <1>1, SnapshotWithin DEF ReadBindings

\* A row set aside by an update is still a row.
LEMMA Reset ==
    ASSUME NEW x \in Binding \cup {NoBinding}, x.born # 0 \/ x.isPrimary, NEW p \in BOOLEAN,
           NEW y, y = [x EXCEPT !.isPrimary = p]
    PROVE  /\ x \in Binding /\ y \in Binding /\ y # Untouched
           /\ y.isPrimary = p /\ y.born = x.born /\ y.access = x.access
BY DEF Binding, NoBinding, Untouched

LEMMA ClearedWithin ==
    ASSUME IInv, NEW c \in Clients, PrimariesCleared(c)
    PROVE  /\ Within(c) /\ client'[c].pc = "point"
           /\ SeesAll(c) => \A m \in Mailboxes : ~View(c, m)'.isPrimary
<1>0. TypeOK /\ Running(c) BY DEF IInv, PrimariesCleared, Running, InTransaction
<1>1. PICK was : was = {m \in Mailboxes : client[c].seen[m].isPrimary} OBVIOUS
<1>2. PICK no \in BOOLEAN : no = FALSE OBVIOUS
<1>3. PICK hit : hit = {m \in was : View(c, m).isPrimary
                                     /\ View(c, m).born = client[c].seen[m].born}
  OBVIOUS
<1>4. PICK rows : rows = [m \in Mailboxes |->
          IF m \in hit THEN [View(c, m) EXCEPT !.isPrimary = no] ELSE client[c].rows[m]]
  OBVIOUS
<1>5. PICK new : new = [client[c] EXCEPT !.pc = "point", !.seen = Nothing, !.rows = rows] OBVIOUS
<1>6. client' = [client EXCEPT ![c] = new] /\ UNCHANGED Committed
  BY <1>0, <1>1, <1>2, <1>3, <1>4, <1>5 DEF PrimariesCleared, TypeOK
<1>7. ASSUME NEW m \in hit
      PROVE  /\ m \in Mailboxes /\ rows[m] \in Binding /\ rows[m] # Untouched
             /\ ~rows[m].isPrimary /\ rows[m].born = View(c, m).born
  <2>1. m \in Mailboxes /\ View(c, m).isPrimary BY <1>1, <1>3
  <2>2. rows[m] = [View(c, m) EXCEPT !.isPrimary = no] BY <1>4, <2>1
  <2> QED BY <1>0, <1>2, <2>1, <2>2, ViewType, Reset
<1>8. ASSUME NEW m \in Mailboxes \ hit PROVE rows[m] = client[c].rows[m]
  BY <1>4
<1>9. rows \in [Mailboxes -> Rows]
  BY <1>0, <1>4, <1>7, <1>8, UntouchedRows DEF Rows
<1>10. \A m \in Mailboxes : rows[m].born \in {0, View(c, m).born}
  BY <1>0, <1>7, <1>8, UntouchedRows
<1>11. Nothing \in [Mailboxes -> Rows] BY DEF Nothing, Rows
<1>12. /\ new \in ClientState /\ new.rows = rows /\ new.pc = "point"
       /\ new.change = client[c].change /\ new.for = client[c].for
       /\ new.number = client[c].number /\ new.alone = client[c].alone
  BY <1>0, <1>5, <1>9, <1>11, ClientFields DEF ClientState, Rows, InTransaction
<1>13. /\ client' \in [Clients -> ClientState] /\ client'[c] = new
       /\ \A d \in Clients \ {c} : client'[d] = client[d]
  BY <1>0, <1>6, <1>12, Put DEF TypeOK
<1>14. Within(c)
  BY <1>0, <1>6, <1>10, <1>12, <1>13 DEF Within, Dated, InTransaction
<1>15. ASSUME SeesAll(c), NEW m \in Mailboxes PROVE ~View(c, m)'.isPrimary
  <2>1. CASE m \in hit BY <2>1, <1>7, <1>12, <1>13 DEF View
  <2>2. CASE m \notin hit
    <3>1. ~View(c, m).isPrimary BY <2>2, <1>1, <1>3, <1>15 DEF SeesAll
    <3>2. View(c, m)' = View(c, m)
      BY <2>2, <1>6, <1>8, <1>12, <1>13 DEF View, Committed
    <3> QED BY <3>1, <3>2
  <2> QED BY <2>1, <2>2
<1> QED BY <1>12, <1>13, <1>14, <1>15

LEMMA PointWithin ==
    ASSUME IInv, NEW c \in Clients, Point(c)
    PROVE  /\ Within(c) /\ client'[c].pc = "cache"
           /\ (\A m \in Mailboxes : ~View(c, m).isPrimary) => Identity(c, client[c].change.mailbox)'
<1>0. TypeOK /\ Numbers /\ Running(c) /\ "cache" \in InTransaction
  BY DEF IInv, Point, Running, InTransaction
<1>1. PICK m : m = client[c].change.mailbox OBVIOUS
<1>2. m \in Mailboxes \cup {NoMailbox} BY <1>0, <1>1, ClientFields, Named
<1>3. CASE m = NoMailbox
  <2>1. PICK rows : rows = client[c].rows OBVIOUS
  <2>2. Write(c, rows, "cache") /\ UNCHANGED Committed BY <1>1, <1>3, <2>1 DEF Point
  <2>3. rows \in [Mailboxes -> Rows] /\ \A n \in Mailboxes : rows[n].born \in {0, View(c, n).born}
    BY <1>0, <2>1, UntouchedRows, ClientFields DEF ClientState, Rows
  <2>4. Within(c) /\ client'[c].rows = rows /\ client'[c].pc = "cache"
    BY <1>0, <2>2, <2>3, WriteWithin
  <2>5. \A n \in Mailboxes : View(c, n)' = View(c, n)
    BY <2>1, <2>4 DEF View, Within, Committed
  <2>6. client'[c].change.mailbox = NoMailbox BY <1>1, <1>3, <2>4 DEF Within
  <2> QED BY <2>4, <2>5, <2>6 DEF Identity
<1>4. CASE m \in Mailboxes
  <2>1. PICK access : access = IF Sendable(View(c, m)) THEN View(c, m).access ELSE "BOTH" OBVIOUS
  <2>2. access \in {"SEND", "BOTH"} BY <2>1 DEF Sendable
  <2>3. PICK yes \in BOOLEAN : yes = TRUE OBVIOUS
  <2>4. PICK rows : rows = Upserted(c, m, access, yes) OBVIOUS
  <2>5. Write(c, rows, "cache") /\ UNCHANGED Committed
    BY <1>1, <1>4, <2>1, <2>3, <2>4, NamesAssumption DEF Point
  <2>6. /\ rows \in [Mailboxes -> Rows]
        /\ rows[m] \in Binding /\ rows[m].access = access /\ rows[m].isPrimary = yes
        /\ \A n \in Mailboxes \ {m} : rows[n] = client[c].rows[n]
        /\ \A n \in Mailboxes :
              \/ rows[n].born \in {0, View(c, n).born}
              \/ n = client[c].change.mailbox /\ rows[n].born = client[c].number
    <3>1. access \in {"READ", "SEND", "BOTH"} BY <2>2
    <3> QED BY <1>0, <1>1, <1>4, <2>4, <3>1, UpsertedRows
  <2>7. Within(c) /\ client'[c].rows = rows /\ client'[c].pc = "cache"
    BY <1>0, <2>5, <2>6, WriteWithin
  <2>8. View(c, m)' = rows[m]
    BY <2>6, <2>7 DEF View, Binding, Untouched
  <2>9. \A n \in Mailboxes \ {m} : View(c, n)' = View(c, n)
    BY <2>6, <2>7 DEF View, Within, Committed
  <2>10. client'[c].change.mailbox = m BY <1>1, <2>7 DEF Within
  <2>11. Sendable(View(c, m))' BY <2>2, <2>6, <2>8 DEF Sendable
  <2> QED BY <1>4, <2>3, <2>6, <2>7, <2>8, <2>9, <2>10, <2>11, ZenonT(60) DEF Identity
<1> QED BY <1>2, <1>3, <1>4

LEMMA CacheWithin ==
    ASSUME IInv, NEW c \in Clients, Cache(c), client[c].change.kind # "update"
    PROVE  Within(c) /\ client'[c].pc = "reconcile"
<1>0. TypeOK /\ Running(c) BY DEF IInv, Cache, Running, InTransaction
<1>1. PICK m : m = client[c].change.mailbox OBVIOUS
<1>2. m \in Mailboxes \cup {NoMailbox} BY <1>0, <1>1, ClientFields, Named
<1>3. PICK new : new = [client[c] EXCEPT !.pc = "reconcile", !.cache = m] OBVIOUS
<1>4. client' = [client EXCEPT ![c] = new] /\ UNCHANGED Committed
  BY <1>0, <1>1, <1>3 DEF Cache, TypeOK
<1>5. /\ new \in ClientState /\ new.rows = client[c].rows /\ new.pc = "reconcile"
      /\ new.change = client[c].change /\ new.for = client[c].for
      /\ new.number = client[c].number /\ new.alone = client[c].alone
  BY <1>0, <1>2, <1>3, ClientFields DEF ClientState, InTransaction
<1>6. /\ client' \in [Clients -> ClientState] /\ client'[c] = new
      /\ \A d \in Clients \ {c} : client'[d] = client[d]
  BY <1>0, <1>4, <1>5, Put DEF TypeOK
<1> QED BY <1>0, <1>4, <1>5, <1>6, UntouchedRows DEF Within, Dated, InTransaction

\* The row kept and the rows repaired are bindings.
LEMMA KeptRows ==
    ASSUME NEW rows \in [Mailboxes -> Rows]
    PROVE  /\ \A k \in Kept(rows) : k \in Mailboxes /\ Sendable(rows[k]) /\ rows[k] \in Binding
           /\ \A m \in Repaired(rows) : m \in Mailboxes /\ rows[m] \in Binding
           /\ \A m \in Mailboxes : rows[m].isPrimary /\ m \notin Kept(rows) => m \in Repaired(rows)
           /\ \A m \in Kept(rows) : m \in Repaired(rows) \/ rows[m].isPrimary
BY DEF Kept, FirstOf, Repaired, Sendable, Rows, NoBinding, Untouched

LEMMA KeptUnique ==
    ASSUME TypeOK, Ages, NEW c \in Clients, SeesAll(c),
           NEW k \in Kept(client[c].seen), NEW l \in Kept(client[c].seen)
    PROVE  k = l
<1>1. PICK rows : rows = client[c].seen OBVIOUS
<1>2. rows \in [Mailboxes -> Rows] BY <1>1, ClientFields
<1>3. /\ k \in Mailboxes /\ Sendable(rows[k]) /\ rows[k] \in Binding
      /\ l \in Mailboxes /\ Sendable(rows[l]) /\ rows[l] \in Binding
  BY <1>1, <1>2, KeptRows
<1>4. Before(rows, k, l) /\ Before(rows, l, k)
  BY <1>1, <1>3 DEF Kept, FirstOf
<1>5. rows[k].born \in 1..MaxChanges /\ rows[l].born \in 1..MaxChanges BY <1>3 DEF Binding
<1>6. rows[k].born = rows[l].born /\ rows[k].born # 0
  BY <1>4, <1>5, BoundsAssumption DEF Before
<1>7. rows[k] = View(c, k) /\ rows[l] = View(c, l) BY <1>1, <1>3 DEF SeesAll
<1>8. RowOf(rows[k], k) /\ RowOf(rows[l], l) BY <1>3, <1>7, ViewType
<1> QED BY <1>3, <1>6, <1>8 DEF Ages, Rows

LEMMA RepairWithin ==
    ASSUME IInv, NEW c \in Clients, Repair(c)
    PROVE  /\ Within(c) /\ client'[c].pc = "finish"
           /\ SeesAll(c) => \A to \in Mailboxes \cup {NoMailbox} :
                 Chosen(c, to)' => Identity(c, to)'
<1>0. TypeOK /\ Ages /\ Running(c) /\ "finish" \in InTransaction
  BY DEF IInv, Repair, Running, InTransaction
<1>1. PICK seen : seen = client[c].seen OBVIOUS
<1>2. seen \in [Mailboxes -> Rows] BY <1>0, <1>1, ClientFields
<1>3. PICK rows : rows = [m \in Mailboxes |->
          IF m \in Repaired(seen) THEN [View(c, m) EXCEPT !.isPrimary = (m \in Kept(seen))]
          ELSE client[c].rows[m]]
  OBVIOUS
<1>4. /\ \A m \in Repaired(seen) : View(c, m).born = seen[m].born
      /\ Write(c, rows, "finish") /\ UNCHANGED Committed
  BY <1>1, <1>3 DEF Repair
<1>5. ASSUME NEW m \in Repaired(seen)
      PROVE  /\ m \in Mailboxes /\ rows[m] \in Binding /\ rows[m] # Untouched
             /\ rows[m].isPrimary <=> m \in Kept(seen)
             /\ rows[m].born = View(c, m).born /\ rows[m].access = View(c, m).access
  <2>1. m \in Mailboxes /\ seen[m] \in Binding BY <1>2, KeptRows
  <2>2. View(c, m).born # 0 /\ View(c, m) \in Binding \cup {NoBinding}
    BY <1>0, <1>4, <2>1, ViewType DEF Binding
  <2>3. PICK p : p = (m \in Kept(seen)) OBVIOUS
  <2>30. p \in BOOLEAN BY <2>3
  <2>4. rows[m] = [View(c, m) EXCEPT !.isPrimary = p] BY <1>3, <2>1, <2>3
  <2>5. /\ rows[m] \in Binding /\ rows[m] # Untouched /\ rows[m].isPrimary = p
        /\ rows[m].born = View(c, m).born /\ rows[m].access = View(c, m).access
    BY <2>2, <2>30, <2>4, Reset
  <2> QED BY <2>1, <2>3, <2>5
<1>6. ASSUME NEW m \in Mailboxes, m \notin Repaired(seen) PROVE rows[m] = client[c].rows[m]
  BY <1>3, <1>6
<1>7. rows \in [Mailboxes -> Rows] /\ \A m \in Mailboxes : rows[m].born \in {0, View(c, m).born}
  <2>1. \A m \in Mailboxes : rows[m] \in Rows /\ rows[m].born \in {0, View(c, m).born}
    BY <1>0, <1>5, <1>6, UntouchedRows DEF Rows
  <2> QED BY <1>3, <2>1
<1>8. /\ Within(c) /\ client'[c].rows = rows /\ client'[c].pc = "finish"
      /\ client'[c].seen = seen
  BY <1>0, <1>1, <1>4, <1>7, WriteWithin
<1>9. ASSUME SeesAll(c), NEW to \in Mailboxes \cup {NoMailbox}, Chosen(c, to)'
      PROVE  Identity(c, to)'
  <2>1. ASSUME NEW m \in Repaired(seen)
        PROVE  /\ View(c, m)'.isPrimary <=> m \in Kept(seen)
               /\ View(c, m)'.access = View(c, m).access
    BY <1>5, <1>8 DEF View
  <2>2. ASSUME NEW m \in Mailboxes, m \notin Repaired(seen) PROVE View(c, m)' = View(c, m)
    BY <1>6, <1>8, <2>2 DEF View, Within, Committed
  <2>3. \A m \in Mailboxes : View(c, m) = seen[m] BY <1>1, <1>9 DEF SeesAll
  <2>4. \A m \in Mailboxes :
          /\ View(c, m)'.isPrimary <=> m \in Kept(seen)
          /\ View(c, m)'.access = seen[m].access
    <3> TAKE m \in Mailboxes
    <3>1. CASE m \in Repaired(seen) BY <3>1, <2>1, <2>3
    <3>2. CASE m \notin Repaired(seen)
      <4>1. View(c, m)' = seen[m] BY <3>2, <2>2, <2>3
      <4>2. seen[m].isPrimary \in BOOLEAN
        <5>1. seen[m] \in Rows BY <1>2
        <5>2. CASE seen[m] \in Binding BY <5>2 DEF Binding
        <5>3. CASE seen[m] = NoBinding BY <5>3 DEF NoBinding
        <5>4. CASE seen[m] = Untouched BY <5>4 DEF Untouched
        <5> QED BY <5>1, <5>2, <5>3, <5>4 DEF Rows
      <4>3. seen[m].isPrimary <=> m \in Kept(seen) BY <3>2, <4>2, <1>2, KeptRows
      <4> QED BY <4>1, <4>3
    <3> QED BY <3>1, <3>2
  <2>5. CASE Kept(seen) = {}
    <3>1. to = NoMailbox BY <1>8, <1>9, <2>5 DEF Chosen
    <3> QED BY <2>4, <2>5, <3>1 DEF Identity
  <2>6. CASE Kept(seen) # {}
    <3>1. to \in Kept(seen) BY <1>8, <1>9, <2>6 DEF Chosen
    <3>2. to \in Mailboxes /\ Sendable(seen[to]) BY <1>2, <3>1, KeptRows
    <3>3. \A m \in Kept(seen) : m = to
      BY <1>0, <1>1, <1>9, <3>1, KeptUnique
    <3>4. Sendable(View(c, to))' BY <2>4, <3>2 DEF Sendable
    <3> QED BY <2>4, <3>1, <3>2, <3>3, <3>4 DEF Identity
  <2> QED BY <2>5, <2>6
<1> QED BY <1>8, <1>9
-----------------------------------------------------------------------------
(***************************************************************************)
(* What keeps the parts of the invariant.                                  *)
(***************************************************************************)
\* New rows are dated 0, as a row that was there, or by their transaction;
\* what runs was running, or has a number nobody had.
LEMMA AgesKept ==
    ASSUME TypeOK, Numbers, Ages, changes' \in Nat, changes <= changes',
           \A d \in Clients : Running(d)' =>
               \/ /\ Running(d) /\ client'[d].number = client[d].number
                  /\ client'[d].change = client[d].change
               \/ client'[d].number \in Nat /\ changes < client'[d].number,
           \A m \in Mailboxes : \A x \in Rows : RowOf(x, m)' =>
               \/ x.born = 0
               \/ \E y \in Rows : RowOf(y, m) /\ y.born = x.born
               \/ \E c \in Clients : /\ Running(c) /\ m = client[c].change.mailbox
                                     /\ x.born = client[c].number
    PROVE  Ages'
<1> DEFINE Old(x, m) == \E y \in Rows : RowOf(y, m) /\ y.born = x.born
           Mine(x, m, c) == Running(c) /\ m = client[c].change.mailbox /\ x.born = client[c].number
<1>1. ASSUME NEW c \in Clients, Running(c)
      PROVE  client[c].number \in 1..changes /\ client[c].number \in Nat /\ client[c].number # 0
  <2>1. client[c].number \in 1..changes /\ changes \in 0..MaxChanges BY <1>1 DEF Numbers, TypeOK
  <2> QED BY <2>1, BoundsAssumption
<1>2. changes \in Nat BY BoundsAssumption DEF TypeOK
<1>3. ASSUME NEW m \in Mailboxes, NEW x \in Rows, RowOf(x, m)'
      PROVE  x.born = 0 \/ Old(x, m) \/ \E c \in Clients : Mine(x, m, c)
  BY <1>3
<1>4. \A x \in Rows : x.born \in Nat
  BY BoundsAssumption DEF Rows, Binding, NoBinding, Untouched
<1>5. ASSUME NEW m \in Mailboxes, NEW x \in Rows, RowOf(x, m)'
      PROVE  x.born <= changes
  <2>1. CASE x.born = 0 BY <2>1, <1>2
  <2>2. CASE Old(x, m) BY <2>2 DEF Ages
  <2>3. CASE \E c \in Clients : Mine(x, m, c) BY <2>3, <1>1
  <2> QED BY <1>3, <1>5, <2>1, <2>2, <2>3
<1>6. ASSUME NEW m \in Mailboxes, NEW x \in Rows, RowOf(x, m)',
             NEW d \in Clients, Running(d)', x.born = client'[d].number
      PROVE  m = client'[d].change.mailbox
  <2>0. x.born <= changes BY <1>5, <1>6
  <2>1. /\ Running(d) /\ client'[d].number = client[d].number
        /\ client'[d].change = client[d].change
    BY <1>2, <1>4, <1>6, <2>0
  <2>2. x.born # 0 BY <1>1, <1>6, <2>1
  <2>3. CASE Old(x, m) BY <2>1, <2>3, <1>6 DEF Ages
  <2>4. ASSUME NEW c \in Clients, Mine(x, m, c) PROVE c = d
    BY <1>6, <2>1, <2>4 DEF Numbers
  <2> QED BY <1>3, <1>6, <2>1, <2>2, <2>3, <2>4
<1>7. ASSUME NEW m \in Mailboxes, NEW n \in Mailboxes \ {m}, NEW x \in Rows, NEW y \in Rows,
             RowOf(x, m)', RowOf(y, n)', x.born = y.born
      PROVE  x.born = 0
  <2>1. CASE Old(x, m) /\ Old(y, n) BY <2>1, <1>7 DEF Ages
  <2>2. ASSUME NEW c \in Clients, Mine(x, m, c), Old(y, n) PROVE x.born = 0
    <3>1. n = client[c].change.mailbox BY <1>7, <2>2 DEF Ages
    <3> QED BY <3>1, <2>2
  <2>3. ASSUME NEW c \in Clients, Mine(y, n, c), Old(x, m) PROVE x.born = 0
    <3>1. m = client[c].change.mailbox BY <1>7, <2>3 DEF Ages
    <3> QED BY <3>1, <2>3
  <2>4. ASSUME NEW c \in Clients, Mine(x, m, c), NEW d \in Clients, Mine(y, n, d)
        PROVE  x.born = 0
    <3>0. Running(c) /\ Running(d) /\ client[c].number = client[d].number BY <1>7, <2>4
    <3>1. c = d BY <3>0 DEF Numbers
    <3> QED BY <3>1, <2>4
  <2>5. x.born = 0 \/ Old(x, m) \/ \E c \in Clients : Mine(x, m, c) BY <1>3, <1>7
  <2>6. y.born = 0 \/ Old(y, n) \/ \E c \in Clients : Mine(y, n, c) BY <1>3, <1>7
  <2> QED BY <1>7, <2>1, <2>2, <2>3, <2>4, <2>5, <2>6
<1>8. \A m \in Mailboxes : \A x \in Rows : RowOf(x, m)' => x.born <= changes'
  <2> SUFFICES ASSUME NEW m \in Mailboxes, NEW x \in Rows, RowOf(x, m)' PROVE x.born <= changes'
    OBVIOUS
  <2>1. x.born <= changes BY <1>5
  <2> QED BY <2>1, <1>2, <1>4
<1> QED BY <1>6, <1>7, <1>8 DEF Ages, Rows
\* The clients' claims, where the claimer keeps or drops its own.
LEMMA ClaimsKept ==
    ASSUME TypeOK, Claims, NEW c \in Clients,
           \A d \in Clients \ {c} :
               client'[d].pc = client[d].pc /\ client'[d].for = client[d].for,
           \/ /\ client'[c].for = NoProvisioning
              /\ client'[c].pc \notin {"claimed", "applied", "failed"}
           \/ /\ client'[c].for = client[c].for
              /\ client'[c].pc = "applied" <=> client[c].pc = "applied"
              /\ client'[c].pc \in {"claimed", "applied", "failed"} =>
                    client[c].for \in ProvisioningRequests,
           UNCHANGED <<provision, applied>>
    PROVE  Claims'
<1>1. \A d \in Clients : client'[d].for \in ProvisioningRequests =>
          /\ client'[d].for = client[d].for
          /\ client'[d].pc = "applied" <=> client[d].pc = "applied"
  BY NamesAssumption
<1>2. \A d \in Clients : client'[d].pc \in {"claimed", "applied", "failed"} =>
          client'[d].for \in ProvisioningRequests
  BY DEF Claims
<1>3. \A d \in Clients : client'[d].for \in ProvisioningRequests =>
          /\ provision'[client'[d].for].state = "APPROVED"
          /\ applied'[client'[d].for] = IF client'[d].pc = "applied" THEN 1 ELSE 0
  BY <1>1 DEF Claims
<1>4. ASSUME NEW d \in Clients, NEW e \in Clients, d # e, client'[d].for \in ProvisioningRequests
      PROVE  client'[d].for # client'[e].for
  <2>1. CASE client'[e].for \in ProvisioningRequests
    <3>1. client'[d].for = client[d].for /\ client'[e].for = client[e].for BY <1>1, <1>4, <2>1
    <3> QED BY <1>4, <3>1 DEF Claims
  <2> QED BY <1>4, <2>1
<1>5. \A r \in ProvisioningRequests : provision'[r].state = "none" => applied'[r] = 0
  BY DEF Claims
<1> QED BY <1>2, <1>3, <1>4, <1>5 DEF Claims

\* The claimer's change takes effect, or an own change of somebody's.
LEMMA ClaimsEffect ==
    ASSUME TypeOK, Claims, AppliedAsStated, NEW c \in Clients, Effect(c),
           \A d \in Clients \ {c} :
               client'[d].pc = client[d].pc /\ client'[d].for = client[d].for,
           client'[c].for = client[c].for,
           client[c].pc # "applied",
           client'[c].pc = IF client[c].for = NoProvisioning THEN "idle" ELSE "applied",
           UNCHANGED provision
    PROVE  /\ Claims' /\ AppliedAsStated'
           /\ applied' \in [ProvisioningRequests -> Nat]
<1>0. client[c].for \in ProvisioningRequests \cup {NoProvisioning} BY ClientFields
<1>1. CASE client[c].for = NoProvisioning
  <2>1. applied' = applied /\ client'[c].pc = "idle" BY <1>1 DEF Effect
  <2>2. Claims' BY <1>1, <2>1, ClaimsKept
  <2> QED BY <2>1, <2>2 DEF TypeOK, AppliedAsStated
<1>2. CASE client[c].for \in ProvisioningRequests
  <2>1. PICK r \in ProvisioningRequests : r = client[c].for BY <1>2
  <2>2. /\ applied' = [applied EXCEPT ![r] = @ + 1] /\ client'[c].pc = "applied"
        /\ client'[c].for = r
    BY <2>1, NamesAssumption DEF Effect
  <2>3. applied[r] = 0 /\ provision[r].state = "APPROVED"
    BY <2>1 DEF Claims
  <2>4. applied' \in [ProvisioningRequests -> Nat] /\ applied'[r] = 1
        /\ \A q \in ProvisioningRequests \ {r} : applied'[q] = applied[q]
    BY <2>2, <2>3 DEF TypeOK
  <2>5. \A d \in Clients \ {c} : client'[d].for # r
    BY <2>1 DEF Claims
  <2>6. \A d \in Clients : client'[d].pc \in {"claimed", "applied", "failed"} =>
            client'[d].for \in ProvisioningRequests
    BY <2>2 DEF Claims
  <2>7. ASSUME NEW d \in Clients, client'[d].for \in ProvisioningRequests
        PROVE  /\ provision'[client'[d].for].state = "APPROVED"
               /\ applied'[client'[d].for] = IF client'[d].pc = "applied" THEN 1 ELSE 0
    <3>1. CASE d = c BY <3>1, <2>2, <2>3, <2>4
    <3>2. CASE d # c BY <3>2, <2>4, <2>5, <2>7 DEF Claims
    <3> QED BY <3>1, <3>2
  <2>8. \A d, e \in Clients : d # e /\ client'[d].for \in ProvisioningRequests =>
            client'[d].for # client'[e].for
    BY <2>2, <2>5 DEF Claims
  <2>9. \A q \in ProvisioningRequests : provision'[q].state = "none" => applied'[q] = 0
    BY <2>3, <2>4 DEF Claims
  <2>10. Claims' BY <2>6, <2>7, <2>8, <2>9 DEF Claims
  <2>11. AppliedAsStated'
    <3> SUFFICES ASSUME NEW q \in ProvisioningRequests
                 PROVE  /\ applied'[q] <= 1
                        /\ provision'[q].state = "APPLIED" => applied'[q] = 1
                        /\ provision'[q].state \in {"PENDING", "FAILED", "REJECTED"} =>
                              applied'[q] = 0
      BY DEF AppliedAsStated
    <3>1. CASE q = r BY <3>1, <2>3, <2>4
    <3>2. CASE q # r BY <3>2, <2>4 DEF AppliedAsStated
    <3> QED BY <3>1, <3>2
  <2> QED BY <2>4, <2>10, <2>11
<1> QED BY <1>0, <1>1, <1>2
\* What client c must know of itself after a step, to be alone in Alone's sense.
Knows(c) ==
    /\ client[c].pc \in {"clearing", "repair"} => SeesAll(c)
    /\ client[c].pc = "point" => \A m \in Mailboxes : ~View(c, m).isPrimary
    /\ client[c].pc = "cache" => Identity(c, client[c].change.mailbox)
    /\ client[c].pc = "finish" => \A to \in Mailboxes \cup {NoMailbox} :
          Chosen(c, to) => Identity(c, to)

LEMMA WithinAges ==
    ASSUME IInv, NEW c \in Clients, Within(c)
    PROVE  Ages'
<1>0. TypeOK /\ Numbers /\ Ages BY DEF IInv
<1>1. changes' \in Nat /\ changes <= changes'
  BY <1>0, BoundsAssumption DEF TypeOK, Within, Committed
<1>2. \A d \in Clients : Running(d)' =>
          /\ Running(d) /\ client'[d].number = client[d].number
          /\ client'[d].change = client[d].change
  BY DEF Within, Running
<1>3. ASSUME NEW m \in Mailboxes, NEW x \in Rows, RowOf(x, m)'
      PROVE  \/ x.born = 0
             \/ \E y \in Rows : RowOf(y, m) /\ y.born = x.born
             \/ \E d \in Clients : /\ Running(d) /\ m = client[d].change.mailbox
                                   /\ x.born = client[d].number
  <2>1. CASE RowOf(x, m) BY <2>1
  <2>2. CASE x = client'[c].rows[m]
    <3>1. Running(c) /\ Dated(c, m) BY DEF Within
    <3>2. View(c, m) \in Rows /\ RowOf(View(c, m), m) BY <1>0, ViewType DEF Rows
    <3> QED BY <2>2, <3>1, <3>2 DEF Dated
  <2> QED BY <1>3, <2>1, <2>2 DEF RowOf, Within, Committed
<1> QED BY <1>0, <1>1, <1>2, <1>3, AgesKept

LEMMA WithinKeeps ==
    ASSUME IInv, NEW c \in Clients, Within(c), client'[c].pc \notin {"upsert", "delete"},
           client[c].alone => Knows(c)'
    PROVE  IInv'
<1>0. TypeOK /\ Claims /\ AppliedAsStated /\ Numbers /\ Ages /\ Alone /\ OneIdentity BY DEF IInv
<1>1. TypeOK' BY <1>0 DEF TypeOK, Within, Committed
<1>2. Claims'
  <2>1. /\ client[c].pc # "applied" /\ client'[c].pc # "applied"
        /\ client'[c].pc \notin {"claimed", "applied", "failed"}
    BY DEF Within, Running, InTransaction
  <2> QED BY <1>0, <2>1, ClaimsKept DEF Within, Committed
<1>3. AppliedAsStated' BY <1>0 DEF AppliedAsStated, Within, Committed
<1>4. Numbers'
  <2>1. \A d \in Clients : Running(d)' <=> Running(d) BY DEF Within, Running
  <2>2. ASSUME NEW d \in Clients
        PROVE  /\ Running(d)' => agent' /\ client'[d].number \in 1..changes'
               /\ ~Running(d)' => client'[d].rows = Nothing
               /\ client'[d].pc = "upsert" => client'[d].change.kind = "bind"
               /\ client'[d].pc = "delete" => client'[d].change.kind = "unbind"
    <3>1. CASE d = c BY <3>1, <1>0, <2>1 DEF Numbers, Within, Committed
    <3>2. CASE d # c BY <3>2, <1>0, <2>1 DEF Numbers, Within, Committed
    <3> QED BY <3>1, <3>2
  <2>3. \A d \in Clients : client'[d].number = client[d].number BY DEF Within
  <2>4. \A d, e \in Clients : d # e /\ Running(d)' /\ Running(e)' =>
            client'[d].number # client'[e].number
    BY <1>0, <2>1, <2>3 DEF Numbers
  <2>5. ~agent' => binding' = [m \in Mailboxes |-> NoBinding] /\ mailboxAccountId' = NoMailbox
    BY <1>0 DEF Numbers, Within, Committed
  <2> QED BY <2>2, <2>4, <2>5 DEF Numbers
<1>5. Ages' BY WithinAges
<1>6. Alone'
  <2> SUFFICES ASSUME NEW d \in Clients, client'[d].alone, Running(d)'
               PROVE  (\A e \in Clients \ {d} : ~Running(e)') /\ Knows(d)'
    BY DEF Alone, Knows
  <2>1. \A e \in Clients : Running(e)' <=> Running(e) BY DEF Within, Running
  <2>2. client[d].alone /\ Running(d) BY <2>1 DEF Within
  <2>3. \A e \in Clients \ {d} : ~Running(e) BY <1>0, <2>2 DEF Alone
  <2>4. d = c BY <2>3 DEF Within
  <2> QED BY <2>1, <2>2, <2>3, <2>4
<1>7. OneIdentity' BY <1>0 DEF OneIdentity, Primaries, Within, Committed
<1> QED BY <1>1, <1>2, <1>3, <1>4, <1>5, <1>6, <1>7 DEF IInv

\* A client that holds nothing, or no more; what it claims is looked at apart.
Stopped(c) ==
    /\ ~Running(c)' /\ client'[c].rows = Nothing
    /\ \A d \in Clients \ {c} : client'[d] = client[d]
    /\ changes' \in Nat /\ changes <= changes'
    /\ UNCHANGED <<agent, binding, mailboxAccountId, sound>>

LEMMA StoppedKeeps ==
    ASSUME IInv, NEW c \in Clients, Stopped(c)
    PROVE  Numbers' /\ Ages' /\ Alone' /\ OneIdentity'
<1>0. TypeOK /\ Numbers /\ Ages /\ Alone /\ OneIdentity BY DEF IInv
<1>1. \A d \in Clients : Running(d)' => d # c /\ Running(d) /\ client'[d] = client[d]
  BY DEF Stopped, Running
<1>2. Numbers'
  <2>1. ASSUME NEW d \in Clients
        PROVE  /\ Running(d)' => agent' /\ client'[d].number \in 1..changes'
               /\ ~Running(d)' => client'[d].rows = Nothing
               /\ client'[d].pc = "upsert" => client'[d].change.kind = "bind"
               /\ client'[d].pc = "delete" => client'[d].change.kind = "unbind"
    <3>1. CASE d = c BY <3>1 DEF Stopped, Running, InTransaction
    <3>2. CASE d # c
      <4>1. client'[d] = client[d] /\ agent' = agent /\ changes <= changes' BY <3>2 DEF Stopped
      <4>2. Running(d)' <=> Running(d) BY <4>1 DEF Running
      <4>3. client[d].number \in 1..changes => client[d].number \in 1..changes'
        BY <1>0, <4>1, BoundsAssumption DEF TypeOK, Stopped
      <4> QED BY <4>1, <4>2, <4>3, <1>0 DEF Numbers
    <3> QED BY <3>1, <3>2
  <2>2. \A d, e \in Clients : d # e /\ Running(d)' /\ Running(e)' =>
            client'[d].number # client'[e].number
    BY <1>0, <1>1 DEF Numbers
  <2>3. ~agent' => binding' = [m \in Mailboxes |-> NoBinding] /\ mailboxAccountId' = NoMailbox
    BY <1>0 DEF Numbers, Stopped
  <2> QED BY <2>1, <2>2, <2>3 DEF Numbers
<1>3. Ages'
  <2>1. changes' \in Nat /\ changes <= changes' BY DEF Stopped
  <2>2. ASSUME NEW m \in Mailboxes, NEW x \in Rows, RowOf(x, m)'
        PROVE  x.born = 0 \/ \E y \in Rows : RowOf(y, m) /\ y.born = x.born
    <3>1. CASE RowOf(x, m) BY <3>1
    <3>2. CASE x = client'[c].rows[m] BY <3>2 DEF Stopped, Nothing, Untouched
    <3> QED BY <2>2, <3>1, <3>2 DEF RowOf, Stopped
  <2> QED BY <1>0, <1>1, <2>1, <2>2, AgesKept
<1>4. Alone'
  <2> SUFFICES ASSUME NEW d \in Clients, client'[d].alone, Running(d)'
               PROVE  (\A e \in Clients \ {d} : ~Running(e)') /\ Knows(d)'
    BY DEF Alone, Knows
  <2>1. client'[d] = client[d] /\ client[d].alone /\ Running(d) BY <1>1
  <2>2. (\A e \in Clients \ {d} : ~Running(e)) /\ Knows(d) BY <1>0, <2>1 DEF Alone, Knows
  <2>3. \A m \in Mailboxes : View(d, m)' = View(d, m) BY <2>1 DEF View, Stopped
  <2>4. \A to : Identity(d, to) => Identity(d, to)' BY <2>3 DEF Identity
  <2>5. \A to : Chosen(d, to)' => Chosen(d, to) BY <2>1 DEF Chosen
  <2>6. SeesAll(d) => SeesAll(d)' BY <2>1, <2>3 DEF SeesAll
  <2>7. Knows(d)' BY <2>1, <2>2, <2>3, <2>4, <2>5, <2>6 DEF Knows
  <2> QED BY <1>1, <2>2, <2>7
<1>5. OneIdentity' BY <1>0 DEF OneIdentity, Primaries, Stopped
<1> QED BY <1>2, <1>3, <1>4, <1>5
-----------------------------------------------------------------------------
(***************************************************************************)
(* The steps.                                                              *)
(***************************************************************************)
LEMMA AfterState ==
    ASSUME TypeOK, NEW c \in Clients, NEW pc \in {"applied", "failed"}
    PROVE  /\ After(c, pc) \in ClientState /\ After(c, pc).rows = Nothing
           /\ After(c, pc).for = client[c].for
           /\ After(c, pc).pc = IF client[c].for = NoProvisioning THEN "idle" ELSE pc
<1>1. PICK r : r = client[c].for OBVIOUS
<1>2. r \in ProvisioningRequests \cup {NoProvisioning} BY <1>1, ClientFields
<1>3. Idle.rows = Nothing /\ Idle.pc = "idle" /\ Idle.for = NoProvisioning BY DEF Idle
<1>4. CASE r = NoProvisioning BY <1>1, <1>3, <1>4, IdleType DEF After
<1>5. CASE r # NoProvisioning
  <2>1. After(c, pc) = [Idle EXCEPT !.pc = pc, !.for = r] BY <1>1, <1>5 DEF After
  <2>2. [Idle EXCEPT !.pc = pc, !.for = r] \in ClientState BY <1>2, IdleType DEF ClientState
  <2>3. After(c, pc).rows = Nothing /\ After(c, pc).pc = pc /\ After(c, pc).for = r
    BY <2>1, <1>3, IdleType DEF ClientState
  <2> QED BY <1>1, <1>5, <2>1, <2>2, <2>3
<1> QED BY <1>4, <1>5

LEMMA CommitKeeps ==
    ASSUME IInv, NEW c \in Clients, Running(c), NEW to \in Mailboxes \cup {NoMailbox},
           Commit(c, to), UNCHANGED <<agent, provision, changes>>,
           client[c].alone => Identity(c, to)
    PROVE  IInv'
<1>0. TypeOK /\ Claims /\ AppliedAsStated /\ Numbers /\ Ages /\ Alone BY DEF IInv
<1>1. PICK new : new = After(c, "applied") OBVIOUS
<1>2. /\ new \in ClientState /\ new.rows = Nothing /\ new.for = client[c].for
      /\ new.pc = IF client[c].for = NoProvisioning THEN "idle" ELSE "applied"
  BY <1>0, <1>1, AfterState
<1>3. /\ client' \in [Clients -> ClientState] /\ client'[c] = new
      /\ \A d \in Clients \ {c} : client'[d] = client[d]
  <2>1. client' = [client EXCEPT ![c] = new] BY <1>1 DEF Commit
  <2> QED BY <1>0, <1>2, <2>1, Put DEF TypeOK
<1>4. /\ binding' = [m \in Mailboxes |-> View(c, m)] /\ mailboxAccountId' = to
      /\ sound' = client[c].alone /\ Effect(c)
  BY DEF Commit
<1>5. Claims' /\ AppliedAsStated' /\ applied' \in [ProvisioningRequests -> Nat]
  <2>1. client[c].pc # "applied" BY DEF Running, InTransaction
  <2> QED BY <1>0, <1>2, <1>3, <1>4, <2>1, ClaimsEffect
<1>6. TypeOK'
  <2>1. binding' \in [Mailboxes -> Binding \cup {NoBinding}] BY <1>0, <1>4, ViewType
  <2>2. sound' \in BOOLEAN BY <1>0, <1>4 DEF TypeOK, ClientState
  <2> QED BY <1>0, <1>3, <1>4, <1>5, <2>1, <2>2 DEF TypeOK
<1>7. ~Running(c)' /\ \A d \in Clients \ {c} : Running(d)' <=> Running(d)
  BY <1>2, <1>3 DEF Running, InTransaction
<1>8. Numbers'
  <2>1. agent' /\ changes' = changes BY <1>0 DEF Numbers
  <2>2. ASSUME NEW d \in Clients
        PROVE  /\ Running(d)' => agent' /\ client'[d].number \in 1..changes'
               /\ ~Running(d)' => client'[d].rows = Nothing
               /\ client'[d].pc = "upsert" => client'[d].change.kind = "bind"
               /\ client'[d].pc = "delete" => client'[d].change.kind = "unbind"
    <3>1. CASE d = c BY <3>1, <1>2, <1>3, <1>7
    <3>2. CASE d # c BY <3>2, <1>0, <1>3, <1>7, <2>1 DEF Numbers
    <3> QED BY <3>1, <3>2
  <2>3. \A d, e \in Clients : d # e /\ Running(d)' /\ Running(e)' =>
            client'[d].number # client'[e].number
    BY <1>0, <1>3, <1>7 DEF Numbers
  <2> QED BY <2>1, <2>2, <2>3 DEF Numbers
<1>9. Ages'
  <2>1. changes' \in Nat /\ changes <= changes' BY <1>0, BoundsAssumption DEF TypeOK
  <2>2. \A d \in Clients : Running(d)' => Running(d) /\ client'[d] = client[d] BY <1>3, <1>7
  <2>3. ASSUME NEW m \in Mailboxes, NEW x \in Rows, RowOf(x, m)'
        PROVE  x.born = 0 \/ \E y \in Rows : RowOf(y, m) /\ y.born = x.born
    <3>1. CASE x = binding'[m]
      <4>1. x = View(c, m) /\ RowOf(View(c, m), m) BY <3>1, <1>0, <1>4, ViewType
      <4> QED BY <4>1
    <3>2. CASE x = client'[c].rows[m] BY <3>2, <1>2, <1>3 DEF Nothing, Untouched
    <3>3. CASE RowOf(x, m) BY <3>3
    <3> QED BY <2>3, <3>1, <3>2, <3>3, <1>3 DEF RowOf
  <2> QED BY <1>0, <2>1, <2>2, <2>3, AgesKept
<1>10. Alone'
  <2> SUFFICES ASSUME NEW d \in Clients, client'[d].alone, Running(d)' PROVE FALSE
    BY DEF Alone
  <2>1. d # c /\ Running(d) /\ client[d].alone BY <1>3, <1>7
  <2> QED BY <1>0, <2>1 DEF Alone
<1>11. OneIdentity'
  <2>1. SUFFICES ASSUME sound'
                 PROVE  \/ Primaries' = {} /\ mailboxAccountId' = NoMailbox
                        \/ /\ Primaries' = {mailboxAccountId'}
                           /\ Sendable(binding'[mailboxAccountId'])
    BY DEF OneIdentity
  <2>2. Identity(c, to) BY <1>4, <2>1
  <2>3. Primaries' = {m \in Mailboxes : View(c, m).isPrimary} BY <1>4 DEF Primaries
  <2> QED BY <1>4, <2>2, <2>3 DEF Identity
<1> QED BY <1>5, <1>6, <1>8, <1>9, <1>10, <1>11 DEF IInv

LEMMA RollBackKeeps ==
    ASSUME IInv, NEW c \in Clients, RollBack(c)
    PROVE  IInv'
<1>0. TypeOK /\ Claims /\ AppliedAsStated BY DEF IInv
<1>1. PICK new : new = After(c, "failed") OBVIOUS
<1>2. /\ new \in ClientState /\ new.rows = Nothing /\ new.for = client[c].for
      /\ new.pc = IF client[c].for = NoProvisioning THEN "idle" ELSE "failed"
  BY <1>0, <1>1, AfterState
<1>3. /\ client' \in [Clients -> ClientState] /\ client'[c] = new
      /\ \A d \in Clients \ {c} : client'[d] = client[d]
  <2>1. client' = [client EXCEPT ![c] = new] BY <1>1 DEF RollBack
  <2> QED BY <1>0, <1>2, <2>1, Put DEF TypeOK
<1>4. Stopped(c)
  <2>1. changes \in Nat BY <1>0, BoundsAssumption DEF TypeOK
  <2> QED BY <1>2, <1>3, <2>1 DEF Stopped, Running, InTransaction, RollBack, Committed
<1>5. Claims'
  <2>1. client[c].pc # "applied" /\ client'[c].pc # "applied"
    BY <1>2, <1>3 DEF RollBack, InTransaction
  <2>2. client[c].for \in ProvisioningRequests \cup {NoProvisioning} BY <1>0, ClientFields
  <2> QED BY <1>0, <1>2, <1>3, <2>1, <2>2, ClaimsKept DEF RollBack, Committed
<1>6. TypeOK' /\ AppliedAsStated'
  BY <1>0, <1>3 DEF TypeOK, AppliedAsStated, RollBack, Committed
<1> QED BY <1>4, <1>5, <1>6, StoppedKeeps DEF IInv

\* A client that goes idle and changes nothing else.
LEMMA IdleKeeps ==
    ASSUME IInv, NEW c \in Clients, client' = [client EXCEPT ![c] = Idle], UNCHANGED Committed
    PROVE  IInv'
<1>0. TypeOK /\ Claims /\ AppliedAsStated BY DEF IInv
<1>1. Idle.rows = Nothing /\ Idle.pc = "idle" /\ Idle.for = NoProvisioning BY DEF Idle
<1>2. /\ client' \in [Clients -> ClientState] /\ client'[c] = Idle
      /\ \A d \in Clients \ {c} : client'[d] = client[d]
  BY <1>0, IdleType, Put DEF TypeOK
<1>3. Stopped(c)
  <2>1. changes \in Nat BY <1>0, BoundsAssumption DEF TypeOK
  <2> QED BY <1>1, <1>2, <2>1 DEF Stopped, Running, InTransaction, Committed
<1>4. Claims' BY <1>0, <1>1, <1>2, ClaimsKept DEF Committed
<1>5. TypeOK' /\ AppliedAsStated' BY <1>0, <1>2 DEF TypeOK, AppliedAsStated, Committed
<1> QED BY <1>3, <1>4, <1>5, StoppedKeeps DEF IInv

LEMMA StatementKeeps ==
    ASSUME IInv, NEW c \in Clients, Statement(c)
    PROVE  IInv'
<1>0. TypeOK /\ Alone BY DEF IInv
<1>1. CASE Upsert(c) BY <1>1, UpsertWithin, WithinKeeps DEF Knows
<1>2. CASE Delete(c)
  <2>1. CASE binding[client[c].change.mailbox] = NoBinding
    <3>1. client' = [client EXCEPT ![c] = Idle] /\ UNCHANGED Committed BY <1>2, <2>1 DEF Delete
    <3> QED BY <3>1, IdleKeeps
  <2>2. CASE binding[client[c].change.mailbox] # NoBinding
    BY <1>2, <2>2, DeleteWithin, WithinKeeps DEF Knows
  <2> QED BY <2>1, <2>2
<1>3. CASE ClearPrimaries(c) BY <1>3, ClearWithin, WithinKeeps DEF Knows
<1>4. CASE PrimariesCleared(c)
  <2>1. client[c].pc = "clearing" /\ Running(c) BY <1>4 DEF PrimariesCleared, Running, InTransaction
  <2>2. client[c].alone => SeesAll(c) BY <1>0, <2>1 DEF Alone
  <2>3. Within(c) /\ client'[c].pc = "point"
        /\ (SeesAll(c) => \A m \in Mailboxes : ~View(c, m)'.isPrimary)
    BY <1>4, ClearedWithin
  <2>4. client[c].alone => Knows(c)' BY <2>2, <2>3 DEF Knows
  <2> QED BY <2>3, <2>4, WithinKeeps
<1>5. CASE Point(c)
  <2>1. client[c].pc = "point" /\ Running(c) BY <1>5 DEF Point, Running, InTransaction
  <2>2. client[c].alone => \A m \in Mailboxes : ~View(c, m).isPrimary BY <1>0, <2>1 DEF Alone
  <2>3. /\ Within(c) /\ client'[c].pc = "cache"
        /\ (\A m \in Mailboxes : ~View(c, m).isPrimary) => Identity(c, client[c].change.mailbox)'
    BY <1>5, PointWithin
  <2>4. client[c].alone => Knows(c)' BY <2>2, <2>3 DEF Knows
  <2> QED BY <2>3, <2>4, WithinKeeps
<1>6. CASE Cache(c)
  <2>1. client[c].pc = "cache" /\ Running(c) BY <1>6 DEF Cache, Running, InTransaction
  <2>2. CASE client[c].change.kind # "update"
    BY <1>6, <2>2, CacheWithin, WithinKeeps DEF Knows
  <2>3. CASE client[c].change.kind = "update"
    <3>1. PICK to : to = client[c].change.mailbox OBVIOUS
    <3>2. Commit(c, to) /\ UNCHANGED <<agent, provision, changes>>
      BY <1>6, <2>3, <3>1 DEF Cache
    <3>3. to \in Mailboxes \cup {NoMailbox} BY <1>0, <3>1, ClientFields, Named
    <3>4. client[c].alone => Identity(c, to) BY <1>0, <2>1, <3>1 DEF Alone
    <3> QED BY <2>1, <3>2, <3>3, <3>4, CommitKeeps
  <2> QED BY <2>2, <2>3
<1>7. CASE ReadBindings(c) BY <1>7, ReadWithin, WithinKeeps DEF Knows
<1>8. CASE Repair(c)
  <2>1. client[c].pc = "repair" /\ Running(c) BY <1>8 DEF Repair, Running, InTransaction
  <2>2. client[c].alone => SeesAll(c) BY <1>0, <2>1 DEF Alone
  <2>3. /\ Within(c) /\ client'[c].pc = "finish"
        /\ SeesAll(c) => \A to \in Mailboxes \cup {NoMailbox} : Chosen(c, to)' => Identity(c, to)'
    BY <1>8, RepairWithin
  <2>4. client[c].alone => Knows(c)' BY <2>2, <2>3 DEF Knows
  <2> QED BY <2>3, <2>4, WithinKeeps
<1>9. CASE Finish(c)
  <2>1. client[c].pc = "finish" /\ Running(c) BY <1>9 DEF Finish, Running, InTransaction
  <2>2. PICK to \in IF Kept(client[c].seen) = {} THEN {NoMailbox} ELSE Kept(client[c].seen) :
            Commit(c, to)
    BY <1>9 DEF Finish
  <2>3. UNCHANGED <<agent, provision, changes>> BY <1>9 DEF Finish
  <2>4. Chosen(c, to) BY <2>2 DEF Chosen
  <2>5. to \in Mailboxes \cup {NoMailbox} BY <2>2 DEF Kept, FirstOf
  <2>6. client[c].alone => Identity(c, to) BY <1>0, <2>1, <2>4, <2>5 DEF Alone
  <2> QED BY <2>1, <2>2, <2>3, <2>5, <2>6, CommitKeeps
<1>10. CASE RollBack(c) BY <1>10, RollBackKeeps
<1> QED BY <1>1, <1>2, <1>3, <1>4, <1>5, <1>6, <1>7, <1>8, <1>9, <1>10 DEF Statement
LEMMA BeginKeeps ==
    ASSUME IInv, NEW c \in Clients, client[c].pc \in {"idle", "claimed"},
           NEW o \in Change, o.kind # "create",
           NEW for, for = client[c].for, Begin(c, o, for)
    PROVE  IInv'
<1>0. TypeOK /\ Claims /\ AppliedAsStated /\ Numbers /\ Ages /\ OneIdentity BY DEF IInv
<1>1. PICK pc : pc = FirstStatement(o) OBVIOUS
<1>2. /\ pc \in {"upsert", "delete", "clear"}
      /\ pc = "upsert" => o.kind = "bind"
      /\ pc = "delete" => o.kind = "unbind"
  <2>1. o.kind \in {"bind", "unbind", "update"} BY DEF Change
  <2> QED BY <1>1, <2>1 DEF FirstStatement
<1>3. PICK alone : alone = (Open = {}) OBVIOUS
<1>30. alone \in BOOLEAN BY <1>3
<1>4. PICK n : n = changes + 1 OBVIOUS
<1>5. /\ agent /\ n \in 0..MaxChanges /\ n \in Nat /\ changes \in Nat /\ changes' = n
      /\ n \in 1..changes' /\ changes < n
  <2>1. agent /\ changes < MaxChanges /\ changes' = changes + 1 BY DEF Begin
  <2>2. changes \in 0..MaxChanges BY <1>0 DEF TypeOK
  <2> QED BY <1>4, <2>1, <2>2, BoundsAssumption
<1>6. PICK new : new = [Idle EXCEPT !.pc = pc, !.change = o, !.for = for, !.number = n,
                                    !.alone = alone]
  OBVIOUS
<1>7. client' = [d \in Clients |-> IF d = c THEN new ELSE [client[d] EXCEPT !.alone = FALSE]]
  BY <1>1, <1>3, <1>4, <1>6 DEF Begin
<1>8. /\ new \in ClientState /\ new.rows = Nothing /\ new.pc = pc /\ new.change = o
      /\ new.for = for /\ new.number = n /\ new.alone = alone
  <2>1. Idle.rows = Nothing BY DEF Idle
  <2>2. for \in ProvisioningRequests \cup {NoProvisioning} BY <1>0, ClientFields
  <2> QED BY <1>2, <1>30, <1>5, <1>6, <2>1, <2>2, IdleType DEF ClientState, InTransaction
<1>9. ASSUME NEW d \in Clients \ {c}
      PROVE  /\ client'[d] \in ClientState /\ client'[d].alone = FALSE
             /\ client'[d].pc = client[d].pc /\ client'[d].for = client[d].for
             /\ client'[d].rows = client[d].rows /\ client'[d].number = client[d].number
             /\ client'[d].change = client[d].change
  <2>1. client'[d] = [client[d] EXCEPT !.alone = FALSE] /\ client[d] \in ClientState
    BY <1>0, <1>7 DEF TypeOK
  <2> QED BY <2>1 DEF ClientState
<1>10. /\ client'[c] = new /\ client' \in [Clients -> ClientState]
       /\ client'[c].rows = Nothing /\ client'[c].pc = pc /\ client'[c].change = o
       /\ client'[c].number = n
  <2>1. client'[c] = new BY <1>7
  <2>2. client' \in [Clients -> ClientState] BY <1>7, <1>8, <1>9, <2>1
  <2> QED BY <1>8, <2>1, <2>2
<1>11. UNCHANGED <<agent, binding, mailboxAccountId, provision, sound, applied>>
  BY DEF Begin
<1>12. Claims'
  <2>1. client'[c].pc = pc /\ client'[c].for = client[c].for BY <1>8, <1>10
  <2> QED BY <1>0, <1>2, <1>9, <1>11, <2>1, ClaimsKept
<1>13. TypeOK' /\ AppliedAsStated' /\ OneIdentity'
  BY <1>0, <1>5, <1>10, <1>11 DEF TypeOK, AppliedAsStated, OneIdentity, Primaries
<1>14. \A d \in Clients \ {c} : Running(d)' <=> Running(d) BY <1>9 DEF Running
<1>140. Running(c)' BY <1>2, <1>8, <1>10 DEF Running, InTransaction
<1>15. \A d \in Clients : Running(d) => client[d].number \in 1..changes
  BY <1>0 DEF Numbers
<1>16. Numbers'
  <2>1. ASSUME NEW d \in Clients
        PROVE  /\ Running(d)' => agent' /\ client'[d].number \in 1..changes'
               /\ ~Running(d)' => client'[d].rows = Nothing
               /\ client'[d].pc = "upsert" => client'[d].change.kind = "bind"
               /\ client'[d].pc = "delete" => client'[d].change.kind = "unbind"
    <3>1. CASE d = c
      <4>1. agent' BY <1>5, <1>11
      <4> QED BY <3>1, <4>1, <1>2, <1>5, <1>10, <1>140
    <3>2. CASE d # c
      <4>1. Running(d) => client[d].number \in 1..changes' BY <1>5, <1>15
      <4>2. /\ ~Running(d) => client[d].rows = Nothing
            /\ client[d].pc = "upsert" => client[d].change.kind = "bind"
            /\ client[d].pc = "delete" => client[d].change.kind = "unbind"
        BY <1>0 DEF Numbers
      <4>3. agent' BY <1>5, <1>11
      <4> QED BY <3>2, <4>1, <4>2, <4>3, <1>9, <1>14
    <3> QED BY <3>1, <3>2
  <2>2. ASSUME NEW d \in Clients, NEW e \in Clients, d # e, Running(d)', Running(e)'
        PROVE  client'[d].number # client'[e].number
    <3>1. CASE d # c /\ e # c
      <4>1. Running(d) /\ Running(e) BY <2>2, <3>1, <1>14
      <4>2. client[d].number # client[e].number BY <2>2, <4>1, <1>0 DEF Numbers
      <4> QED BY <3>1, <4>2, <1>9
    <3>2. CASE d = c
      <4>1. client'[e].number \in 1..changes /\ client'[d].number = n
        BY <2>2, <3>2, <1>8, <1>9, <1>10, <1>14, <1>15
      <4> QED BY <4>1, <1>5
    <3>3. CASE e = c
      <4>1. client'[d].number \in 1..changes /\ client'[e].number = n
        BY <2>2, <3>3, <1>8, <1>9, <1>10, <1>14, <1>15
      <4> QED BY <4>1, <1>5
    <3> QED BY <3>1, <3>2, <3>3
  <2> QED BY <2>1, <2>2, <1>5, <1>11 DEF Numbers
<1>17. Ages'
  <2>1. changes' \in Nat /\ changes <= changes' BY <1>5
  <2>2. ASSUME NEW d \in Clients, Running(d)'
        PROVE  \/ /\ Running(d) /\ client'[d].number = client[d].number
                  /\ client'[d].change = client[d].change
               \/ client'[d].number \in Nat /\ changes < client'[d].number
    <3>1. CASE d = c BY <3>1, <1>5, <1>8, <1>10
    <3>2. CASE d # c BY <2>2, <3>2, <1>9, <1>14
    <3> QED BY <3>1, <3>2
  <2>3. ASSUME NEW m \in Mailboxes, NEW x \in Rows, RowOf(x, m)'
        PROVE  x.born = 0 \/ \E y \in Rows : RowOf(y, m) /\ y.born = x.born
    <3>1. CASE RowOf(x, m) BY <3>1
    <3>2. CASE x = client'[c].rows[m] BY <3>2, <1>8, <1>10 DEF Nothing, Untouched
    <3> QED BY <2>3, <3>1, <3>2, <1>9, <1>11 DEF RowOf
  <2> QED BY <1>0, <2>1, <2>2, <2>3, AgesKept
<1>18. Alone'
  <2> SUFFICES ASSUME NEW d \in Clients, client'[d].alone, Running(d)'
               PROVE  (\A e \in Clients \ {d} : ~Running(e)') /\ Knows(d)'
    BY DEF Alone, Knows
  <2>1. d = c BY <1>9
  <2>2. Open = {} BY <2>1, <1>3, <1>8, <1>10
  <2>3. \A e \in Clients : ~Running(e) BY <2>2 DEF Open, Running
  <2>4. Knows(c)' BY <1>2, <1>8, <1>10 DEF Knows
  <2> QED BY <2>1, <2>3, <2>4, <1>14
<1> QED BY <1>12, <1>13, <1>16, <1>17, <1>18 DEF IInv

LEMMA CreateKeeps ==
    ASSUME IInv, NEW c \in Clients, client[c].pc \in {"idle", "claimed"},
           NEW m \in Mailboxes \cup {NoMailbox},
           NEW for, for = client[c].for, CreateAgent(c, m, for)
    PROVE  IInv'
<1>0. TypeOK /\ Claims /\ AppliedAsStated /\ Numbers /\ Ages BY DEF IInv
<1>1. for \in ProvisioningRequests \cup {NoProvisioning} BY <1>0, ClientFields
<1>2. PICK pc : pc = IF for = NoProvisioning THEN "idle" ELSE IF agent THEN "failed" ELSE "applied"
  OBVIOUS
<1>3. PICK new : new = [client[c] EXCEPT !.pc = pc] OBVIOUS
<1>4. client' = [client EXCEPT ![c] = new] /\ pc \in {"idle", "applied", "failed"}
  <2>1. client' = [client EXCEPT ![c].pc = pc] BY <1>2 DEF CreateAgent
  <2> QED BY <1>2, <1>3, <2>1
<1>5. new \in ClientState /\ new.pc = pc /\ new.for = for /\ new.rows = client[c].rows
  BY <1>0, <1>3, <1>4, ClientFields DEF ClientState
<1>6. /\ client' \in [Clients -> ClientState] /\ client'[c] = new
      /\ \A d \in Clients \ {c} : client'[d] = client[d]
  BY <1>0, <1>4, <1>5, Put DEF TypeOK
<1>7. PICK n : n = changes + 1 OBVIOUS
<1>8. /\ changes' = n /\ n \in 1..MaxChanges /\ n \in 0..MaxChanges
      /\ n \in Nat /\ changes \in Nat /\ changes <= n
  BY <1>0, <1>7, BoundsAssumption DEF CreateAgent, TypeOK
<1>9. UNCHANGED <<provision, sound>> BY DEF CreateAgent
<1>10. client[c].rows = Nothing /\ client'[c].rows = Nothing /\ ~Running(c)'
  BY <1>0, <1>4, <1>5, <1>6 DEF Numbers, Running, InTransaction
<1>11. CASE agent
  <2>1. /\ UNCHANGED <<agent, mailboxAccountId, binding, applied>>
        /\ pc = IF for = NoProvisioning THEN "idle" ELSE "failed"
    BY <1>2, <1>11 DEF CreateAgent
  <2>2. Stopped(c) BY <1>6, <1>8, <1>9, <1>10, <2>1 DEF Stopped
  <2>3. Claims'
    <3>1. client'[c].pc = pc /\ client'[c].for = client[c].for BY <1>5, <1>6
    <3> QED BY <1>0, <1>1, <1>6, <1>9, <2>1, <3>1, ClaimsKept
  <2>4. TypeOK' /\ AppliedAsStated'
    BY <1>0, <1>6, <1>8, <1>9, <2>1 DEF TypeOK, AppliedAsStated
  <2> QED BY <2>2, <2>3, <2>4, StoppedKeeps DEF IInv
<1>12. CASE ~agent
  <2>1. PICK row : row = [access |-> "BOTH", isPrimary |-> TRUE, born |-> n] OBVIOUS
  <2>2. row \in Binding /\ row.isPrimary /\ Sendable(row) /\ row.born = n
    BY <1>8, <2>1 DEF Binding, Sendable
  <2>3. /\ agent' = TRUE /\ mailboxAccountId' = m /\ Effect(c)
        /\ binding' = [x \in Mailboxes |-> IF x = m THEN row ELSE NoBinding]
        /\ pc = IF for = NoProvisioning THEN "idle" ELSE "applied"
    BY <1>2, <1>7, <1>12, <2>1 DEF CreateAgent
  <2>4. \A d \in Clients : ~Running(d)' /\ client'[d].rows = Nothing
    <3>1. \A d \in Clients : ~Running(d) /\ client[d].rows = Nothing BY <1>0, <1>12 DEF Numbers
    <3> QED BY <3>1, <1>6, <1>10 DEF Running
  <2>5. Claims' /\ AppliedAsStated' /\ applied' \in [ProvisioningRequests -> Nat]
    <3>1. client'[c].pc = pc /\ client'[c].for = client[c].for BY <1>5, <1>6
    <3> QED BY <1>0, <1>6, <1>9, <2>3, <3>1, ClaimsEffect
  <2>6. TypeOK' BY <1>0, <1>6, <1>8, <1>9, <2>2, <2>3, <2>5 DEF TypeOK
  <2>7. Numbers'
    <3>1. \A d \in Clients : client'[d].pc \notin {"upsert", "delete"}
      BY <2>4 DEF Running, InTransaction
    <3> QED BY <2>3, <2>4, <3>1 DEF Numbers
  <2>8. \A x \in Mailboxes : \A r \in Rows : RowOf(r, x)' =>
            r.born = 0 \/ (x = m /\ r.born = n)
    BY <2>2, <2>3, <2>4 DEF RowOf, Nothing, Untouched, NoBinding
  <2>9. Ages' BY <1>8, <2>4, <2>8 DEF Ages, Rows
  <2>10. Alone' BY <2>4 DEF Alone
  <2>11. OneIdentity'
    <3>1. CASE m = NoMailbox
      <4>1. Primaries' = {} BY <2>3, <3>1, NamesAssumption DEF Primaries, NoBinding
      <4> QED BY <2>3, <3>1, <4>1 DEF OneIdentity
    <3>2. CASE m \in Mailboxes
      <4>1. Primaries' = {m} BY <2>2, <2>3, <3>2 DEF Primaries, NoBinding
      <4>2. binding'[m] = row BY <2>3, <3>2
      <4> QED BY <2>2, <2>3, <4>1, <4>2 DEF OneIdentity, Sendable
    <3> QED BY <3>1, <3>2
  <2> QED BY <2>5, <2>6, <2>7, <2>9, <2>10, <2>11 DEF IInv
<1> QED BY <1>11, <1>12
LEMMA AskKeeps ==
    ASSUME IInv, NEW c \in Clients, Ask(c)
    PROVE  IInv'
<1>1. client[c].pc = "idle" /\ client[c].for = NoProvisioning BY DEF Ask, Idle
<1>2. PICK o \in Change : IF o.kind = "create" THEN CreateAgent(c, o.mailbox, NoProvisioning)
                          ELSE Begin(c, o, NoProvisioning)
  BY DEF Ask
<1>3. PICK m \in Mailboxes \cup {NoMailbox} : m = o.mailbox BY Named
<1>4. CASE o.kind = "create" BY <1>1, <1>2, <1>3, <1>4, CreateKeeps
<1>5. CASE o.kind # "create" BY <1>1, <1>2, <1>5, BeginKeeps
<1> QED BY <1>4, <1>5

\* A request that was filed holds a change of the agent.
LEMMA ReplayKeeps ==
    ASSUME IInv, NEW c \in Clients, Replay(c)
    PROVE  IInv'
<1>0. TypeOK /\ Claims /\ AppliedAsStated /\ Numbers BY DEF IInv
<1>1. PICK r : r = client[c].for OBVIOUS
<1>2. client[c].pc = "claimed" /\ r \in ProvisioningRequests
  BY <1>0, <1>1 DEF Replay, Claims
<1>3. PICK o \in Change \cup {NoChange} : o = provision[r].change
  BY <1>0, <1>2 DEF TypeOK, Provisioning
<1>4. \/ o.kind = "update" /\ Begin(c, o, r)
      \/ o.kind = "create" /\ CreateAgent(c, o.mailbox, r)
      \/ /\ o.kind = "update" /\ ~agent
         /\ client' = [client EXCEPT ![c].pc = "applied"]
         /\ Effect(c)
         /\ UNCHANGED <<agent, binding, mailboxAccountId, provision, changes, sound>>
  BY <1>1, <1>3 DEF Replay
<1>5. o.kind # "none" => o \in Change BY DEF NoChange
<1>6. CASE o.kind = "update" /\ Begin(c, o, r) BY <1>1, <1>2, <1>5, <1>6, BeginKeeps
<1>7. CASE o.kind = "create" /\ CreateAgent(c, o.mailbox, r)
  <2>1. PICK m \in Mailboxes \cup {NoMailbox} : m = o.mailbox BY Named
  <2> QED BY <1>1, <1>2, <1>7, <2>1, CreateKeeps
<1>8. CASE /\ ~agent
           /\ client' = [client EXCEPT ![c].pc = "applied"]
           /\ Effect(c)
           /\ UNCHANGED <<agent, binding, mailboxAccountId, provision, changes, sound>>
  <2>1. PICK new : new = [client[c] EXCEPT !.pc = "applied"] OBVIOUS
  <2>2. client' = [client EXCEPT ![c] = new] BY <1>8, <2>1
  <2>3. new \in ClientState /\ new.pc = "applied" /\ new.for = r /\ new.rows = client[c].rows
    BY <1>0, <1>1, <2>1, ClientFields DEF ClientState
  <2>4. /\ client' \in [Clients -> ClientState] /\ client'[c] = new
        /\ \A d \in Clients \ {c} : client'[d] = client[d]
    BY <1>0, <2>2, <2>3, Put DEF TypeOK
  <2>5. client[c].rows = Nothing BY <1>0, <1>2 DEF Numbers, Running, InTransaction
  <2>6. changes \in Nat BY <1>0, BoundsAssumption DEF TypeOK
  <2>7. Stopped(c)
    BY <1>8, <2>3, <2>4, <2>5, <2>6 DEF Stopped, Running, InTransaction
  <2>8. Claims' /\ AppliedAsStated' /\ applied' \in [ProvisioningRequests -> Nat]
    <3>1. client'[c].pc = "applied" /\ client'[c].for = client[c].for BY <1>1, <2>3, <2>4
    <3>2. client[c].for # NoProvisioning BY <1>1, <1>2, NamesAssumption
    <3> QED BY <1>0, <1>2, <1>8, <2>4, <3>1, <3>2, ClaimsEffect
  <2>9. TypeOK' BY <1>0, <1>8, <2>4, <2>8 DEF TypeOK
  <2> QED BY <2>7, <2>8, <2>9, StoppedKeeps DEF IInv
<1> QED BY <1>4, <1>6, <1>7, <1>8

\* A request nobody acts for changes its state.
LEMMA DecideKeeps ==
    ASSUME IInv, NEW r \in ProvisioningRequests, provision[r].state \in {"none", "PENDING"},
           provision' \in [ProvisioningRequests -> Provisioning],
           provision'[r].state \in {"PENDING", "REJECTED"},
           \A q \in ProvisioningRequests \ {r} : provision'[q] = provision[q],
           UNCHANGED <<agent, binding, mailboxAccountId, client, changes, sound, applied>>
    PROVE  IInv'
<1>0. TypeOK /\ Claims /\ AppliedAsStated /\ Numbers /\ Ages /\ Alone /\ OneIdentity BY DEF IInv
<1>2. \A c \in Clients : client[c].for # r BY <1>0 DEF Claims
<1>3. applied[r] = 0 BY <1>0 DEF Claims, AppliedAsStated
<1>4. Claims' BY <1>0, <1>2 DEF Claims
<1>5. AppliedAsStated' BY <1>0, <1>3 DEF AppliedAsStated
<1>6. TypeOK' BY <1>0 DEF TypeOK
<1>7. Numbers' BY <1>0 DEF Numbers, Running
<1>8. Ages' BY <1>0 DEF Ages, RowOf, Running, Rows
<1>9. Alone'
  BY <1>0 DEF Alone, Running, SeesAll, View, Identity, Chosen
<1>10. OneIdentity' BY <1>0 DEF OneIdentity, Primaries
<1> QED BY <1>4, <1>5, <1>6, <1>7, <1>8, <1>9, <1>10 DEF IInv

LEMMA FileKeeps ==
    ASSUME IInv, NEW r \in ProvisioningRequests, NEW o \in Fileable, FileRequest(r, o)
    PROVE  IInv'
<1>1. PICK entry : entry = [state |-> "PENDING", change |-> o] OBVIOUS
<1>2. provision[r].state = "none" /\ provision' = [provision EXCEPT ![r] = entry]
  BY <1>1 DEF FileRequest
<1>3. /\ entry \in Provisioning
      /\ entry.state = "PENDING"
  BY <1>1 DEF Fileable, Provisioning
<1>4. provision' \in [ProvisioningRequests -> Provisioning]
  BY <1>2, <1>3 DEF IInv, TypeOK
<1>5. UNCHANGED <<agent, binding, mailboxAccountId, client, changes, sound, applied>>
  BY DEF FileRequest
<1>6. /\ provision[r].state \in {"none", "PENDING"}
      /\ provision'[r].state \in {"PENDING", "REJECTED"}
      /\ \A q \in ProvisioningRequests \ {r} : provision'[q] = provision[q]
  BY <1>2, <1>3 DEF IInv, TypeOK
<1> QED BY <1>4, <1>5, <1>6, DecideKeeps

LEMMA RejectKeeps ==
    ASSUME IInv, NEW r \in ProvisioningRequests, Reject(r)
    PROVE  IInv'
<1>1. PICK entry : entry = [provision[r] EXCEPT !.state = "REJECTED"] OBVIOUS
<1>2. provision[r].state = "PENDING" /\ provision' = [provision EXCEPT ![r] = entry]
  BY <1>1 DEF Reject, Claimed, IInv, TypeOK
<1>3. /\ entry \in Provisioning
      /\ entry.state = "REJECTED"
  BY <1>1 DEF IInv, TypeOK, Provisioning
<1>4. provision' \in [ProvisioningRequests -> Provisioning]
  BY <1>2, <1>3 DEF IInv, TypeOK
<1>5. UNCHANGED <<agent, binding, mailboxAccountId, client, changes, sound, applied>>
  BY DEF Reject
<1>6. /\ provision[r].state \in {"none", "PENDING"}
      /\ provision'[r].state \in {"PENDING", "REJECTED"}
      /\ \A q \in ProvisioningRequests \ {r} : provision'[q] = provision[q]
  BY <1>2, <1>3 DEF IInv, TypeOK
<1> QED BY <1>4, <1>5, <1>6, DecideKeeps

LEMMA ApproveKeeps ==
    ASSUME IInv, NEW c \in Clients, NEW r \in ProvisioningRequests, Approve(c, r)
    PROVE  IInv'
<1>0. TypeOK /\ Claims /\ AppliedAsStated /\ Numbers BY DEF IInv
<1>1. PICK new : new = [Idle EXCEPT !.pc = "claimed", !.for = r] OBVIOUS
<1>2. new \in ClientState /\ new.pc = "claimed" /\ new.for = r /\ new.rows = Nothing
  <2>1. Idle.rows = Nothing BY DEF Idle
  <2> QED BY <1>1, <2>1, IdleType DEF ClientState
<1>3. /\ client' \in [Clients -> ClientState] /\ client'[c] = new
      /\ \A d \in Clients \ {c} : client'[d] = client[d]
  <2>1. client' = [client EXCEPT ![c] = new] BY <1>1 DEF Approve
  <2> QED BY <1>0, <1>2, <2>1, Put DEF TypeOK
<1>4. /\ provision[r].state = "PENDING" /\ provision'[r].state = "APPROVED"
      /\ \A q \in ProvisioningRequests \ {r} : provision'[q] = provision[q]
      /\ provision' \in [ProvisioningRequests -> Provisioning]
  BY <1>0 DEF Approve, Claimed, TypeOK, Provisioning
<1>5. UNCHANGED <<agent, binding, mailboxAccountId, changes, sound, applied>> BY DEF Approve
<1>6. applied[r] = 0 /\ \A d \in Clients : client[d].for # r
  BY <1>0, <1>4 DEF AppliedAsStated, Claims
<1>7. Claims'
  <2>1. \A d \in Clients : client'[d].pc \in {"claimed", "applied", "failed"} =>
            client'[d].for \in ProvisioningRequests
    BY <1>0, <1>2, <1>3 DEF Claims
  <2>2. ASSUME NEW d \in Clients, client'[d].for \in ProvisioningRequests
        PROVE  /\ provision'[client'[d].for].state = "APPROVED"
               /\ applied'[client'[d].for] = IF client'[d].pc = "applied" THEN 1 ELSE 0
    <3>1. CASE d = c BY <3>1, <1>2, <1>3, <1>4, <1>5, <1>6
    <3>2. CASE d # c BY <3>2, <2>2, <1>0, <1>3, <1>4, <1>5, <1>6 DEF Claims
    <3> QED BY <3>1, <3>2
  <2>3. \A d, e \in Clients : d # e /\ client'[d].for \in ProvisioningRequests =>
            client'[d].for # client'[e].for
    BY <1>0, <1>2, <1>3, <1>6 DEF Claims
  <2>4. \A q \in ProvisioningRequests : provision'[q].state = "none" => applied'[q] = 0
    BY <1>0, <1>4, <1>5, <1>6 DEF Claims
  <2> QED BY <2>1, <2>2, <2>3, <2>4 DEF Claims
<1>8. AppliedAsStated' BY <1>0, <1>4, <1>5, <1>6 DEF AppliedAsStated
<1>9. TypeOK' BY <1>0, <1>3, <1>4, <1>5 DEF TypeOK
<1>10. Stopped(c)
  <2>1. changes \in Nat BY <1>0, BoundsAssumption DEF TypeOK
  <2> QED BY <1>2, <1>3, <1>5, <2>1 DEF Stopped, Running, InTransaction
<1> QED BY <1>7, <1>8, <1>9, <1>10, StoppedKeeps DEF IInv

LEMMA StampKeeps ==
    ASSUME IInv, NEW c \in Clients, Stamp(c)
    PROVE  IInv'
<1>0. TypeOK /\ Claims /\ AppliedAsStated BY DEF IInv
<1>1. PICK r : r = client[c].for OBVIOUS
<1>2. /\ r \in ProvisioningRequests
      /\ applied[r] = IF client[c].pc = "applied" THEN 1 ELSE 0
  BY <1>0, <1>1 DEF Stamp, Claims
<1>3. Idle.rows = Nothing /\ Idle.pc = "idle" /\ Idle.for = NoProvisioning BY DEF Idle
<1>4. /\ client' \in [Clients -> ClientState] /\ client'[c] = Idle
      /\ \A d \in Clients \ {c} : client'[d] = client[d]
  BY <1>0, IdleType, Put DEF TypeOK, Stamp
<1>5. /\ provision'[r].state = IF client[c].pc = "applied" THEN "APPLIED" ELSE "FAILED"
      /\ \A q \in ProvisioningRequests \ {r} : provision'[q] = provision[q]
      /\ provision' \in [ProvisioningRequests -> Provisioning]
  BY <1>0, <1>1, <1>2 DEF Stamp, TypeOK, Provisioning
<1>6. UNCHANGED <<agent, binding, mailboxAccountId, changes, sound, applied>> BY DEF Stamp
<1>7. \A d \in Clients \ {c} : client[d].for # r BY <1>0, <1>1, <1>2 DEF Claims
<1>8. Claims'
  <2>1. \A d \in Clients : client'[d].pc \in {"claimed", "applied", "failed"} =>
            client'[d].for \in ProvisioningRequests
    BY <1>0, <1>3, <1>4 DEF Claims
  <2>2. ASSUME NEW d \in Clients, client'[d].for \in ProvisioningRequests
        PROVE  /\ provision'[client'[d].for].state = "APPROVED"
               /\ applied'[client'[d].for] = IF client'[d].pc = "applied" THEN 1 ELSE 0
    <3>1. d # c BY <2>2, <1>3, <1>4, NamesAssumption
    <3> QED BY <3>1, <2>2, <1>0, <1>4, <1>5, <1>6, <1>7 DEF Claims
  <2>3. ASSUME NEW d \in Clients, NEW e \in Clients, d # e, client'[d].for \in ProvisioningRequests
        PROVE  client'[d].for # client'[e].for
    <3>1. d # c BY <2>3, <1>3, <1>4, NamesAssumption
    <3>2. CASE e = c BY <3>2, <2>3, <1>3, <1>4, NamesAssumption
    <3>3. CASE e # c BY <3>1, <3>3, <2>3, <1>0, <1>4 DEF Claims
    <3> QED BY <3>2, <3>3
  <2>4. \A q \in ProvisioningRequests : provision'[q].state = "none" => applied'[q] = 0
    BY <1>0, <1>5, <1>6 DEF Claims
  <2> QED BY <2>1, <2>2, <2>3, <2>4 DEF Claims
<1>9. AppliedAsStated'
  <2> SUFFICES ASSUME NEW q \in ProvisioningRequests
               PROVE  /\ applied'[q] <= 1
                      /\ provision'[q].state = "APPLIED" => applied'[q] = 1
                      /\ provision'[q].state \in {"PENDING", "FAILED", "REJECTED"} =>
                            applied'[q] = 0
    BY DEF AppliedAsStated
  <2>1. CASE q = r BY <2>1, <1>2, <1>5, <1>6
  <2>2. CASE q # r BY <2>2, <1>0, <1>5, <1>6 DEF AppliedAsStated
  <2> QED BY <2>1, <2>2
<1>10. TypeOK' BY <1>0, <1>4, <1>5, <1>6 DEF TypeOK
<1>11. Stopped(c)
  <2>1. changes \in Nat BY <1>0, BoundsAssumption DEF TypeOK
  <2> QED BY <1>3, <1>4, <1>6, <2>1 DEF Stopped, Running, InTransaction
<1> QED BY <1>8, <1>9, <1>10, <1>11, StoppedKeeps DEF IInv

-----------------------------------------------------------------------------
(***************************************************************************)
(* Results.                                                                *)
(***************************************************************************)
LEMMA InitHolds == Init => IInv
<1> SUFFICES ASSUME Init PROVE IInv OBVIOUS
<1>1. /\ agent = FALSE /\ binding = [m \in Mailboxes |-> NoBinding] /\ mailboxAccountId = NoMailbox
      /\ client = [c \in Clients |-> Idle] /\ changes = 0 /\ sound = TRUE
      /\ provision = [r \in ProvisioningRequests |-> [state |-> "none", change |-> NoChange]]
      /\ applied = [r \in ProvisioningRequests |-> 0]
  BY DEF Init
<1>2. /\ Idle.pc = "idle" /\ Idle.rows = Nothing /\ Idle.for = NoProvisioning BY DEF Idle
<1>3. \A c \in Clients : /\ ~Running(c) /\ client[c].rows = Nothing
                         /\ client[c].pc = "idle" /\ client[c].for \notin ProvisioningRequests
  BY <1>1, <1>2, NamesAssumption DEF Running, InTransaction
<1>4. TypeOK
  <2>1. binding \in [Mailboxes -> Binding \cup {NoBinding}] BY <1>1
  <2>2. client \in [Clients -> ClientState] BY <1>1, IdleType
  <2>3. provision \in [ProvisioningRequests -> Provisioning]
    BY <1>1 DEF Provisioning
  <2>4. changes \in 0..MaxChanges BY <1>1, BoundsAssumption
  <2> QED BY <1>1, <2>1, <2>2, <2>3, <2>4 DEF TypeOK
<1>5. Claims BY <1>1, <1>3 DEF Claims
<1>6. AppliedAsStated BY <1>1 DEF AppliedAsStated
<1>7. Numbers BY <1>1, <1>3 DEF Numbers
<1>8. Ages
  <2>1. \A m \in Mailboxes : \A x \in Rows : RowOf(x, m) => x.born = 0
    BY <1>1, <1>3 DEF RowOf, Nothing, Untouched, NoBinding
  <2> QED BY <1>1, <1>3, <2>1 DEF Ages, Rows
<1>9. Alone BY <1>3 DEF Alone
<1>10. OneIdentity BY <1>1 DEF OneIdentity, Primaries, NoBinding
<1> QED BY <1>4, <1>5, <1>6, <1>7, <1>8, <1>9, <1>10 DEF IInv

LEMMA StutterKeeps == IInv /\ UNCHANGED vars => IInv'
<1> SUFFICES ASSUME IInv, UNCHANGED vars PROVE IInv' OBVIOUS
<1>0. TypeOK /\ Claims /\ AppliedAsStated /\ Numbers /\ Ages /\ Alone /\ OneIdentity BY DEF IInv
<1>1. TypeOK' /\ Claims' /\ AppliedAsStated' /\ OneIdentity'
  BY <1>0 DEF vars, TypeOK, Claims, AppliedAsStated, OneIdentity, Primaries
<1>2. Numbers' BY <1>0 DEF vars, Numbers, Running
<1>3. Ages' BY <1>0 DEF vars, Ages, RowOf, Running, Rows
<1>4. Alone' BY <1>0 DEF vars, Alone, Running, SeesAll, View, Identity, Chosen
<1> QED BY <1>1, <1>2, <1>3, <1>4 DEF IInv

LEMMA NextKeeps == IInv /\ [Next]_vars => IInv'
<1> SUFFICES ASSUME IInv, [Next]_vars PROVE IInv' OBVIOUS
<1>1. CASE UNCHANGED vars BY <1>1, StutterKeeps
<1>2. ASSUME NEW c \in Clients, Ask(c) PROVE IInv' BY <1>2, AskKeeps
<1>3. ASSUME NEW c \in Clients, Statement(c) PROVE IInv' BY <1>3, StatementKeeps
<1>4. ASSUME NEW c \in Clients, NEW r \in ProvisioningRequests, Approve(c, r) PROVE IInv'
  BY <1>4, ApproveKeeps
<1>5. ASSUME NEW c \in Clients, Replay(c) PROVE IInv' BY <1>5, ReplayKeeps
<1>6. ASSUME NEW c \in Clients, Stamp(c) PROVE IInv' BY <1>6, StampKeeps
<1>7. ASSUME NEW c \in Clients, Crash(c) PROVE IInv' BY <1>7, IdleKeeps DEF Crash
<1>8. ASSUME NEW r \in ProvisioningRequests, Reject(r) PROVE IInv' BY <1>8, RejectKeeps
<1>9. ASSUME NEW r \in ProvisioningRequests, NEW o \in Fileable, FileRequest(r, o) PROVE IInv'
  BY <1>9, FileKeeps
<1> QED BY <1>1, <1>2, <1>3, <1>4, <1>5, <1>6, <1>7, <1>8, <1>9 DEF Next

\* Every state of every run satisfies the invariant the other results follow from.
THEOREM Invariance == Spec => []IInv
BY InitHolds, NextKeeps, PTL DEF Spec

\* The agent, its bindings, the clients' transactions and the provisioning
\* requests (agents.service.ts, provisioning-requests.service.ts) keep their types.
THEOREM TypeCorrect == Spec => []TypeOK
<1>1. IInv => TypeOK BY DEF IInv
<1> QED BY <1>1, Invariance, PTL

\* reconcilePrimary and setPrimaryMailbox: after a change committed by itself
\* the agent has one primary, which may send and which its cache names, or
\* neither, whatever concurrent changes left behind before it.
THEOREM OneIdentityHolds == Spec => []OneIdentity
<1>1. IInv => OneIdentity BY DEF IInv
<1> QED BY <1>1, Invariance, PTL

\* provisioning-requests.service.ts: a request is applied at most once, and is
\* APPLIED only if it was, and not PENDING, FAILED or REJECTED if it was.
THEOREM AppliedAsStatedHolds == Spec => []AppliedAsStated
<1>1. IInv => AppliedAsStated BY DEF IInv
<1> QED BY <1>1, Invariance, PTL
=============================================================================
