------------------------ MODULE NativeCleanupProofs -------------------------
(***************************************************************************)
(* Proofs about NativeCleanup, for every set of batches, threads, callers  *)
(* and readers, any sharing of threads between batches and any bounds.     *)
(*                                                                         *)
(* The verdict on a batch and the mail it moved are kept together by what  *)
(* an approval under way has already done; the copies of payloads that the *)
(* two background writers hold are bounded by the instant of their         *)
(* reading.                                                                *)
(***************************************************************************)
EXTENDS NativeCleanup, TLAPS

\* A batch with a thread moved or tagged was approved, is being approved,
\* or its approval died or was overwritten.
WorkInv ==
    \A i \in touched : i \in crossed \/ Approving(i) \/ item[i].state = "APPROVED"

\* Every thread of a batch is tagged as the batch files it, or was filed
\* by others since.
Tags(i) == \A t \in ThreadsOf[i] : overlay[t] = Target[i] \/ t \in refiled[i]

\* Tags are written before the verdict.
TagInv ==
    /\ \A r \in Callers : review[r].pc = "tagged" => Tags(review[r].at)
    /\ \A i \in Items : item[i].state = "APPROVED" => Tags(i)

\* The last instant a stamp can bear: a sweep under way stamps the instant
\* it read the clock.
Latest == IF sweep.pc = "posted" THEN sweep.now ELSE clock

StampInv ==
    /\ sweep.now <= clock
    /\ \A i \in Items : item[i].payload.reminded <= Latest
    /\ \A l \in Readers : \A i \in DOMAIN listing[l] : listing[l][i].reminded <= Latest

\* An item that was never staged has nothing in its payload.
FreshInv == \A i \in Items : item[i].state = "none" => item[i].payload = Bare

IInv == TypeOK /\ WorkInv /\ TagInv /\ StampInv /\ FreshInv

\* What a writer still holds when it is done with an item.
Rest(f, i) == Restrict(f, DOMAIN f \ {i})

-----------------------------------------------------------------------------
(***************************************************************************)
(* Instants are numbers, and stamps are instants.                          *)
(***************************************************************************)
LEMMA InstantFacts ==
    /\ MaxClock \in Nat /\ Instants \subseteq Nat /\ 0 \in Instants
    /\ Bare \in Payload /\ Bare.reminded = 0
BY BoundsAssumption DEF Instants, Payload, Bare

(***************************************************************************)
(* The payloads a background writer has read: some items' copies.          *)
(***************************************************************************)
LEMMA CopyFacts ==
    ASSUME NEW f \in PartialOf(Items, Payload)
    PROVE  /\ DOMAIN f \subseteq Items
           /\ f \in [DOMAIN f -> Payload]
           /\ \A i \in DOMAIN f : f[i] \in Payload
BY DEF PartialOf

LEMMA CopiesAreCopies ==
    ASSUME NEW D \in SUBSET Items, NEW f \in [D -> Payload]
    PROVE  f \in PartialOf(Items, Payload)
BY DEF PartialOf

LEMMA NothingCopied ==
    /\ Nothing \in PartialOf(Items, Payload) /\ DOMAIN Nothing = {}
    /\ Asleep.pc = "idle" /\ Asleep.now = 0 /\ Asleep.due = Nothing
<1>1. DOMAIN Nothing = {} /\ Nothing \in [{} -> Payload]
  BY DEF Nothing
<1> QED BY <1>1, CopiesAreCopies DEF Asleep

(***************************************************************************)
(* Replacing what one actor holds leaves what the others hold.             *)
(***************************************************************************)
LEMMA ReplaceFacts ==
    ASSUME NEW Actors, NEW Held, NEW f \in [Actors -> Held], NEW a \in Actors,
           NEW new \in Held, NEW g, g = [f EXCEPT ![a] = new]
    PROVE  /\ g \in [Actors -> Held] /\ g[a] = new
           /\ \A b \in Actors \ {a} : g[b] = f[b]
OBVIOUS

(***************************************************************************)
(* A writer that is done with an item drops its copy and keeps the rest.   *)
(***************************************************************************)
LEMMA DropCopy ==
    ASSUME NEW f \in PartialOf(Items, Payload), NEW i
    PROVE  /\ Rest(f, i) \in PartialOf(Items, Payload)
           /\ DOMAIN Rest(f, i) \subseteq DOMAIN f
           /\ \A j \in DOMAIN Rest(f, i) : Rest(f, i)[j] = f[j]
<1>1. Rest(f, i) = [j \in DOMAIN f \ {i} |-> f[j]]
  BY DEF Rest, Restrict
<1>2. /\ DOMAIN Rest(f, i) = DOMAIN f \ {i}
      /\ \A j \in DOMAIN f \ {i} : Rest(f, i)[j] = f[j]
  BY <1>1
<1>3. /\ Rest(f, i) \in [DOMAIN f \ {i} -> Payload]
      /\ DOMAIN f \ {i} \in SUBSET Items
  BY <1>1, CopyFacts
<1> QED BY <1>2, <1>3, CopiesAreCopies

(***************************************************************************)
(* A sweep is asleep, or has posted and holds the copies it is to stamp.   *)
(***************************************************************************)
LEMMA SweepFacts ==
    ASSUME TypeOK
    PROVE  /\ sweep.now \in Instants /\ sweep.due \in PartialOf(Items, Payload)
           /\ sweep.pc # "posted" => sweep = Asleep
BY InstantFacts, NothingCopied DEF TypeOK

(***************************************************************************)
(* updateMany fenced on PENDING writes the payload of a pending item, or   *)
(* nothing.                                                                *)
(***************************************************************************)
LEMMA WriteFacts ==
    ASSUME TypeOK, NEW i \in Items, NEW payload \in Payload, WritePayload(i, payload)
    PROVE  /\ item' \in [Items -> Item]
           /\ \A j \in Items : item'[j].state = item[j].state
           /\ \A j \in Items \ {i} : item'[j] = item[j]
           /\ \/ item'[i] = item[i]
              \/ /\ item[i].state = "PENDING"
                 /\ item'[i].payload = payload
<1>1. item \in [Items -> Item]
  BY DEF TypeOK
<1>2. CASE ~Pending(i)
  BY <1>1, <1>2 DEF WritePayload
<1>3. CASE Pending(i)
  <2>1. item' = [item EXCEPT ![i].payload = payload]
    BY <1>3 DEF WritePayload
  <2>2. PICK after : after = [item[i] EXCEPT !.payload = payload]
    OBVIOUS
  <2>3. after \in Item /\ after.state = item[i].state /\ after.payload = payload
    BY <1>1, <2>2 DEF Item
  <2>4. item' = [item EXCEPT ![i] = after]
    BY <2>1, <2>2
  <2> HIDE DEF Item
  <2> QED BY <1>1, <1>3, <2>3, <2>4 DEF Pending
<1> QED BY <1>2, <1>3

(***************************************************************************)
(* A verdict changes the state of one item and no payload.                 *)
(***************************************************************************)
LEMMA VerdictFacts ==
    ASSUME TypeOK, NEW i \in Items, NEW verdict \in {"APPROVED", "REJECTED"},
           item' = [item EXCEPT ![i].state = verdict]
    PROVE  /\ item' \in [Items -> Item]
           /\ item'[i].state = verdict
           /\ \A j \in Items \ {i} : item'[j] = item[j]
           /\ \A j \in Items : item'[j].payload = item[j].payload
<1>1. item \in [Items -> Item]
  BY DEF TypeOK
<1>2. PICK after : after = [item[i] EXCEPT !.state = verdict]
  OBVIOUS
<1>3. after \in Item /\ after.state = verdict /\ after.payload = item[i].payload
  BY <1>1, <1>2 DEF Item
<1>4. item' = [item EXCEPT ![i] = after]
  BY <1>2
<1> HIDE DEF Item
<1> QED BY <1>1, <1>3, <1>4

-----------------------------------------------------------------------------
(***************************************************************************)
(* The states a step of the background writers, of the clock or of the     *)
(* staging leaves alone.                                                   *)
(***************************************************************************)
LEMMA QuietVerdict ==
    ASSUME TypeOK, WorkInv, TagInv,
           UNCHANGED <<review, overlay, touched, crossed, refiled>>,
           \A i \in Items : \/ item'[i].state = item[i].state
                            \/ item[i].state = "none" /\ item'[i].state = "PENDING"
    PROVE  WorkInv' /\ TagInv'
<1>1. touched \subseteq Items
  BY DEF TypeOK
<1>2. \A i \in Items : Tags(i)' <=> Tags(i)
  BY DEF Tags
<1>3. \A r \in Callers : review[r].pc = "tagged" => review[r].at \in Items
  BY DEF TypeOK, Review, NoReview
<1>4. WorkInv'
  BY <1>1 DEF WorkInv, Approving
<1>5. \A r \in Callers : review'[r].pc = "tagged" => Tags(review[r].at)'
  BY <1>2, <1>3 DEF TagInv
<1>6. \A i \in Items : item'[i].state = "APPROVED" => Tags(i)'
  BY <1>2 DEF TagInv
<1> QED BY <1>4, <1>5, <1>6 DEF TagInv

(***************************************************************************)
(* The payloads a step of a review or of a person leaves alone.            *)
(***************************************************************************)
LEMMA QuietPayload ==
    ASSUME StampInv, FreshInv, UNCHANGED <<clock, listing, sweep>>,
           \A i \in Items : /\ item'[i].payload = item[i].payload
                            /\ item'[i].state = "none" => item[i].state = "none"
    PROVE  StampInv' /\ FreshInv'
BY DEF StampInv, FreshInv, Latest

(***************************************************************************)
(* What the steps of a caller do to the reviews: a review of an item, or   *)
(* none.                                                                   *)
(***************************************************************************)
LEMMA ReviewFacts ==
    ASSUME TypeOK, NEW r \in Callers, NEW after \in Review \cup {NoReview},
           review' = [review EXCEPT ![r] = after]
    PROVE  /\ review' \in [Callers -> Review \cup {NoReview}]
           /\ review'[r] = after
           /\ \A q \in Callers \ {r} : review'[q] = review[q]
<1>1. review \in [Callers -> Review \cup {NoReview}]
  BY DEF TypeOK
<1> QED BY <1>1, ReplaceFacts

LEMMA AtReview ==
    ASSUME TypeOK, NEW r \in Callers, review[r].pc # "idle"
    PROVE  /\ review[r] \in Review /\ review[r].at \in Items
           /\ review[r].pc \in {"moving", "tagged", "rejecting"}
           /\ review[r].todo \subseteq Threads
<1>1. review[r] \in Review
  BY DEF TypeOK, NoReview
<1> QED BY <1>1 DEF Review

LEMMA NoReviewFacts == NoReview.pc = "idle" /\ NoReview \in Review \cup {NoReview}
BY DEF NoReview

-----------------------------------------------------------------------------
LEMMA InitIInv == Init => IInv
<1> SUFFICES ASSUME Init PROVE IInv
  OBVIOUS
<1>1. clock = 1 /\ 1 \in Instants \ {0} /\ 0 \in Instants
  BY BoundsAssumption DEF Init, Instants
<1>2. item \in [Items -> Item]
  <2> SUFFICES ASSUME NEW i \in Items
               PROVE  [state |-> IF i \in Legacy THEN "PENDING" ELSE "none",
                       born |-> 0, payload |-> Bare] \in Item
    BY DEF Init
  <2> QED BY <1>1, InstantFacts DEF Item
<1>3. \A i \in Items : item[i].payload = Bare /\ item[i].state \in {"none", "PENDING"}
  BY DEF Init
<1>4. /\ review = [r \in Callers |-> NoReview] /\ listing = [l \in Readers |-> Nothing]
      /\ sweep = Asleep /\ touched = {} /\ crossed = {}
      /\ folder = [t \in Threads |-> "INBOX"] /\ overlay = [t \in Threads |-> "none"]
      /\ filings = 0 /\ faults = 0 /\ refiled = [i \in Items |-> {}]
  BY DEF Init
<1>5. TypeOK
  BY <1>1, <1>2, <1>4, NothingCopied, BoundsAssumption DEF TypeOK, Places
<1>6. WorkInv /\ TagInv
  BY <1>3, <1>4, NoReviewFacts DEF WorkInv, TagInv
<1>7. StampInv
  BY <1>1, <1>3, <1>4, InstantFacts, NothingCopied DEF StampInv, Latest
<1>8. FreshInv
  BY <1>3 DEF FreshInv
<1> QED BY <1>5, <1>6, <1>7, <1>8 DEF IInv

LEMMA TickStep == IInv /\ Tick => IInv'
<1> SUFFICES ASSUME IInv, Tick PROVE IInv'
  OBVIOUS
<1>1. /\ clock' = clock + 1 /\ clock < MaxClock
      /\ item' = item /\ review' = review /\ listing' = listing /\ sweep' = sweep
      /\ folder' = folder /\ overlay' = overlay /\ filings' = filings /\ faults' = faults
      /\ touched' = touched /\ crossed' = crossed /\ refiled' = refiled
  BY DEF Tick, mail, past
<1>2. clock \in Instants \ {0} /\ clock' \in Instants \ {0} /\ clock \in Nat
  BY <1>1, BoundsAssumption DEF IInv, TypeOK, Instants
<1>3. TypeOK'
  BY <1>1, <1>2 DEF IInv, TypeOK
<1>4. WorkInv' /\ TagInv'
  BY <1>1, QuietVerdict DEF IInv
<1>5. StampInv'
  <2>1. \A i \in Items : item[i].payload.reminded \in Nat
    BY InstantFacts DEF IInv, TypeOK, Item, Payload
  <2>2. \A l \in Readers : \A i \in DOMAIN listing[l] : listing[l][i].reminded \in Nat
    BY CopyFacts, InstantFacts DEF IInv, TypeOK, Payload
  <2>3. sweep.now \in Nat
    BY SweepFacts, InstantFacts DEF IInv
  <2>4. Latest \in Nat /\ Latest' \in Nat /\ Latest <= Latest'
    BY <1>1, <1>2, <2>3 DEF Latest
  <2>5. sweep.now <= clock'
    BY <1>1, <1>2, <2>3 DEF IInv, StampInv
  <2>6. \A i \in Items : item'[i].payload.reminded <= Latest'
    <3>1. \A i \in Items : item[i].payload.reminded <= Latest
      BY DEF IInv, StampInv
    <3> QED BY <1>1, <2>1, <2>4, <3>1
  <2>7. \A l \in Readers : \A i \in DOMAIN listing'[l] : listing'[l][i].reminded <= Latest'
    <3>1. \A l \in Readers : \A i \in DOMAIN listing[l] : listing[l][i].reminded <= Latest
      BY DEF IInv, StampInv
    <3> QED BY <1>1, <2>2, <2>4, <3>1
  <2> QED BY <1>1, <2>5, <2>6, <2>7 DEF StampInv
<1>6. FreshInv'
  BY <1>1 DEF IInv, FreshInv
<1> QED BY <1>3, <1>4, <1>5, <1>6 DEF IInv

(***************************************************************************)
(* Staging starts an item that has nothing yet: unread, unlisted and with  *)
(* a payload that was never reminded.                                      *)
(***************************************************************************)
LEMMA StageStep ==
    ASSUME IInv, NEW i \in Items, StageNativeCleanup(i)
    PROVE  IInv'
<1>1. PICK after : /\ after = [state |-> "PENDING", born |-> clock,
                               payload |-> [targets |-> TRUE, reminded |-> 0]]
                   /\ item' = [item EXCEPT ![i] = after]
  BY DEF StageNativeCleanup
<1>2. /\ item[i].state = "none"
      /\ clock' = clock /\ review' = review /\ listing' = listing /\ sweep' = sweep
      /\ folder' = folder /\ overlay' = overlay /\ filings' = filings /\ faults' = faults
      /\ touched' = touched /\ crossed' = crossed /\ refiled' = refiled
  BY DEF StageNativeCleanup, mail, past
<1>3. after \in Item /\ after.state = "PENDING" /\ after.payload.reminded = 0
  BY <1>1, InstantFacts DEF IInv, TypeOK, Item, Payload
<1>4. /\ item' \in [Items -> Item] /\ item'[i] = after
      /\ \A j \in Items \ {i} : item'[j] = item[j]
  <2>1. item \in [Items -> Item]
    BY DEF IInv, TypeOK
  <2> QED BY <1>1, <1>3, <2>1, ReplaceFacts
<1>5. TypeOK'
  BY <1>2, <1>4 DEF IInv, TypeOK
<1>6. WorkInv' /\ TagInv'
  BY <1>2, <1>3, <1>4, QuietVerdict DEF IInv
<1>7. StampInv'
  <2>1. Latest' = Latest /\ Latest \in Nat
    BY <1>2, SweepFacts, InstantFacts DEF Latest, IInv, TypeOK
  <2>2. \A j \in Items : item'[j].payload.reminded <= Latest'
    BY <1>3, <1>4, <2>1 DEF IInv, StampInv
  <2> QED BY <1>2, <2>1, <2>2 DEF IInv, StampInv
<1>8. FreshInv'
  BY <1>3, <1>4 DEF IInv, FreshInv
<1> QED BY <1>5, <1>6, <1>7, <1>8 DEF IInv

-----------------------------------------------------------------------------
(***************************************************************************)
(* Reviews.  Each replaces one caller's review and no payload.             *)
(***************************************************************************)
LEMMA ReadStep ==
    ASSUME IInv, NEW r \in Callers, NEW i \in Items, ApproveRead(r, i) \/ RejectRead(r, i)
    PROVE  IInv'
<1>1. PICK after \in Review : /\ review' = [review EXCEPT ![r] = after]
                              /\ after.pc # "tagged"
  <2>1. CASE ApproveRead(r, i)
    <3>1. ThreadsOf[i] \subseteq Threads
      BY BatchAssumption
    <3>2. [pc |-> "moving", at |-> i, todo |-> ThreadsOf[i]] \in Review
      BY <3>1 DEF Review
    <3> QED BY <2>1, <3>2 DEF ApproveRead
  <2>2. CASE RejectRead(r, i)
    <3>1. [pc |-> "rejecting", at |-> i, todo |-> {}] \in Review
      BY DEF Review
    <3> QED BY <2>2, <3>1 DEF RejectRead
  <2> QED BY <2>1, <2>2
<1>2. /\ review[r] = NoReview
      /\ clock' = clock /\ item' = item /\ listing' = listing /\ sweep' = sweep
      /\ folder' = folder /\ overlay' = overlay /\ filings' = filings /\ faults' = faults
      /\ touched' = touched /\ crossed' = crossed /\ refiled' = refiled
  BY DEF ApproveRead, RejectRead, mail, past
<1>3. /\ review' \in [Callers -> Review \cup {NoReview}]
      /\ review'[r] = after
      /\ \A q \in Callers \ {r} : review'[q] = review[q]
  BY <1>1, ReviewFacts DEF IInv
<1>4. TypeOK'
  BY <1>2, <1>3 DEF IInv, TypeOK
<1>5. WorkInv'
  <2>1. \A j \in Items : Approving(j) => Approving(j)'
    BY <1>2, <1>3, NoReviewFacts DEF Approving
  <2> QED BY <1>2, <2>1 DEF IInv, TypeOK, WorkInv
<1>6. TagInv'
  <2>1. \A j \in Items : Tags(j)' <=> Tags(j)
    BY <1>2 DEF Tags
  <2>2. \A q \in Callers : review'[q].pc = "tagged" =>
            review'[q] = review[q] /\ review[q].at \in Items
    BY <1>1, <1>3, AtReview DEF IInv
  <2> QED BY <1>2, <2>1, <2>2 DEF IInv, TagInv
<1>7. StampInv' /\ FreshInv'
  BY <1>2, QuietPayload DEF IInv
<1> QED BY <1>4, <1>5, <1>6, <1>7 DEF IInv

(***************************************************************************)
(* Moving a thread leaves the approval where it is, with one thread less   *)
(* to move.                                                                *)
(***************************************************************************)
LEMMA MoveStep ==
    ASSUME IInv, NEW r \in Callers, NEW t \in Threads, MoveThread(r, t)
    PROVE  IInv'
<1>1. PICK i \in Items : i = review[r].at
  BY AtReview DEF MoveThread, IInv
<1>2. /\ review[r].pc = "moving" /\ review[r] \in Review
      /\ review' = [review EXCEPT ![r].todo = @ \ {t}]
      /\ \/ folder' = [folder EXCEPT ![t] = Target[i]] /\ touched' = touched \cup {i}
         \/ folder' = folder /\ touched' = touched
      /\ clock' = clock /\ item' = item /\ listing' = listing /\ sweep' = sweep
      /\ overlay' = overlay /\ filings' = filings /\ faults' = faults
      /\ crossed' = crossed /\ refiled' = refiled
  BY <1>1, AtReview DEF MoveThread, IInv
<1>3. PICK after : after = [review[r] EXCEPT !.todo = @ \ {t}]
  OBVIOUS
<1>4. after \in Review /\ after.pc = "moving" /\ after.at = i
  BY <1>1, <1>2, <1>3 DEF Review
<1>5. review' = [review EXCEPT ![r] = after]
  BY <1>2, <1>3
<1>6. /\ review' \in [Callers -> Review \cup {NoReview}]
      /\ review'[r] = after
      /\ \A q \in Callers \ {r} : review'[q] = review[q]
  BY <1>4, <1>5, ReviewFacts DEF IInv
<1>7. TypeOK'
  <2>1. Target[i] \in Places
    BY BatchAssumption DEF Places
  <2>2. folder' \in [Threads -> Places]
    BY <1>2, <2>1 DEF IInv, TypeOK
  <2>3. touched' \subseteq Items
    BY <1>2 DEF IInv, TypeOK
  <2> QED BY <1>2, <1>6, <2>2, <2>3 DEF IInv, TypeOK
<1>8. WorkInv'
  <2>1. \A j \in Items : Approving(j) => Approving(j)'
    BY <1>1, <1>2, <1>4, <1>6 DEF Approving
  <2>2. Approving(i)'
    BY <1>4, <1>6 DEF Approving
  <2>3. touched' \subseteq touched \cup {i} /\ touched \subseteq Items
    BY <1>2 DEF IInv, TypeOK
  <2> QED BY <1>2, <2>1, <2>2, <2>3 DEF IInv, WorkInv
<1>9. TagInv'
  <2>1. \A j \in Items : Tags(j)' <=> Tags(j)
    BY <1>2 DEF Tags
  <2>2. \A q \in Callers : review'[q].pc = "tagged" =>
            review'[q] = review[q] /\ review[q].at \in Items
    BY <1>4, <1>6, AtReview DEF IInv
  <2> QED BY <1>2, <2>1, <2>2 DEF IInv, TagInv
<1>10. StampInv' /\ FreshInv'
  BY <1>2, QuietPayload DEF IInv
<1> QED BY <1>7, <1>8, <1>9, <1>10 DEF IInv

(***************************************************************************)
(* Tagging an item's threads tags them as it files them, and leaves every  *)
(* other item's threads as they were or filed anew.                        *)
(***************************************************************************)
LEMMA TagStep ==
    ASSUME IInv, NEW r \in Callers, TagOverlay(r)
    PROVE  IInv'
<1>1. PICK i \in Items : i = review[r].at
  BY AtReview DEF TagOverlay, Moved, IInv
<1>2. /\ review[r].pc = "moving" /\ review[r] \in Review
      /\ review' = [review EXCEPT ![r].pc = "tagged"]
      /\ overlay' = [t \in Threads |-> IF t \in ThreadsOf[i] THEN Target[i] ELSE overlay[t]]
      /\ touched' = touched \cup {i}
      /\ refiled' = [j \in Items |-> IF j = i THEN {} ELSE refiled[j] \cup ThreadsOf[i]]
      /\ clock' = clock /\ item' = item /\ listing' = listing /\ sweep' = sweep
      /\ folder' = folder /\ filings' = filings /\ faults' = faults /\ crossed' = crossed
  <2>1. Refiled({i}, ThreadsOf[i])
          = [j \in Items |-> IF j = i THEN {} ELSE refiled[j] \cup ThreadsOf[i]]
    BY DEF Refiled
  <2> QED BY <1>1, <2>1, AtReview DEF TagOverlay, Moved, IInv
<1>3. PICK after : after = [review[r] EXCEPT !.pc = "tagged"]
  OBVIOUS
<1>4. after \in Review /\ after.pc = "tagged" /\ after.at = i
  BY <1>1, <1>2, <1>3 DEF Review
<1>5. review' = [review EXCEPT ![r] = after]
  BY <1>2, <1>3
<1>6. /\ review' \in [Callers -> Review \cup {NoReview}]
      /\ review'[r] = after
      /\ \A q \in Callers \ {r} : review'[q] = review[q]
  BY <1>4, <1>5, ReviewFacts DEF IInv
<1>7. \A j \in Items : ThreadsOf[j] \subseteq Threads
  BY BatchAssumption
<1>8. TypeOK'
  <2>1. Target[i] \in Places
    BY BatchAssumption DEF Places
  <2>2. overlay' \in [Threads -> Places \cup {"none"}]
    BY <1>2, <2>1 DEF IInv, TypeOK
  <2>3. refiled' \in [Items -> SUBSET Threads] /\ touched' \subseteq Items
    BY <1>2, <1>7 DEF IInv, TypeOK
  <2> QED BY <1>2, <1>6, <2>2, <2>3 DEF IInv, TypeOK
<1>9. WorkInv'
  <2>1. \A j \in Items : Approving(j) => Approving(j)'
    BY <1>1, <1>2, <1>4, <1>6 DEF Approving
  <2>2. Approving(i)'
    BY <1>4, <1>6 DEF Approving
  <2>3. touched' = touched \cup {i} /\ touched \subseteq Items
    BY <1>2 DEF IInv, TypeOK
  <2> QED BY <1>2, <2>1, <2>2, <2>3 DEF IInv, WorkInv
<1>10. TagInv'
  <2>1. Tags(i)'
    BY <1>2, <1>7 DEF Tags
  <2>2. ASSUME NEW j \in Items, j # i, Tags(j) PROVE Tags(j)'
    BY <1>2, <1>7, <2>2 DEF Tags
  <2>3. \A j \in Items : Tags(j) => Tags(j)'
    BY <2>1, <2>2
  <2>4. \A q \in Callers : review'[q].pc = "tagged" =>
            q = r \/ (review'[q] = review[q] /\ review[q].at \in Items)
    BY <1>6, AtReview DEF IInv
  <2> QED BY <1>2, <1>4, <1>6, <2>1, <2>3, <2>4 DEF IInv, TagInv
<1>11. StampInv' /\ FreshInv'
  BY <1>2, QuietPayload DEF IInv
<1> QED BY <1>8, <1>9, <1>10, <1>11 DEF IInv

(***************************************************************************)
(* A review that ends frees its caller.                                    *)
(***************************************************************************)
LEMMA FreeFacts ==
    ASSUME TypeOK, NEW r \in Callers, review' = [review EXCEPT ![r] = NoReview]
    PROVE  /\ review' \in [Callers -> Review \cup {NoReview}]
           /\ review'[r] = NoReview
           /\ \A q \in Callers \ {r} : review'[q] = review[q]
           /\ \A i \in Items : Approving(i) => Approving(i)' \/ review[r].at = i
<1>1. /\ review' \in [Callers -> Review \cup {NoReview}]
      /\ review'[r] = NoReview
      /\ \A q \in Callers \ {r} : review'[q] = review[q]
  BY NoReviewFacts, ReviewFacts
<1>2. \A i \in Items : Approving(i) => Approving(i)' \/ review[r].at = i
  BY <1>1 DEF Approving
<1> QED BY <1>1, <1>2

(***************************************************************************)
(* The verdict of an approval is written when every thread is tagged; that *)
(* of a rejection over a verdict that is there is remembered as crossed.   *)
(***************************************************************************)
LEMMA VerdictStep ==
    ASSUME IInv, NEW r \in Callers, ApproveWrite(r) \/ RejectWrite(r)
    PROVE  IInv'
<1>1. PICK i \in Items : i = review[r].at
  BY AtReview DEF ApproveWrite, RejectWrite, IInv
<1>2. PICK verdict \in {"APPROVED", "REJECTED"} :
          /\ item' = [item EXCEPT ![i].state = verdict]
          /\ verdict = "APPROVED" => review[r].pc = "tagged" /\ crossed' = crossed
          /\ verdict = "REJECTED" =>
                /\ review[r].pc = "rejecting"
                /\ crossed' = IF Pending(i) THEN crossed ELSE crossed \cup {i}
  BY <1>1 DEF ApproveWrite, RejectWrite, past
<1>3. /\ review' = [review EXCEPT ![r] = NoReview]
      /\ review[r].pc \in {"tagged", "rejecting"}
      /\ clock' = clock /\ listing' = listing /\ sweep' = sweep
      /\ folder' = folder /\ overlay' = overlay /\ filings' = filings /\ faults' = faults
      /\ touched' = touched /\ refiled' = refiled
  BY DEF ApproveWrite, RejectWrite, mail, past
<1>4. /\ item' \in [Items -> Item]
      /\ item'[i].state = verdict
      /\ \A j \in Items \ {i} : item'[j] = item[j]
      /\ \A j \in Items : item'[j].payload = item[j].payload
  BY <1>2, VerdictFacts DEF IInv
<1>5. /\ review' \in [Callers -> Review \cup {NoReview}]
      /\ review'[r] = NoReview
      /\ \A q \in Callers \ {r} : review'[q] = review[q]
      /\ \A j \in Items : Approving(j) => Approving(j)' \/ i = j
  BY <1>1, <1>3, FreeFacts DEF IInv
<1>6. crossed \subseteq crossed' /\ crossed' \subseteq crossed \cup {i}
  BY <1>2
<1>7. TypeOK'
  BY <1>3, <1>4, <1>5, <1>6 DEF IInv, TypeOK
<1>8. WorkInv'
  <2> SUFFICES ASSUME NEW j \in Items, j \in touched
               PROVE  j \in crossed' \/ Approving(j)' \/ item'[j].state = "APPROVED"
    BY <1>3 DEF WorkInv, IInv, TypeOK
  <2>1. j \in crossed \/ Approving(j) \/ item[j].state = "APPROVED"
    BY DEF IInv, WorkInv
  <2>2. CASE j # i
    BY <1>4, <1>5, <1>6, <2>1, <2>2
  <2>3. CASE j = i /\ verdict = "APPROVED"
    BY <1>4, <2>3
  <2>4. CASE j = i /\ verdict = "REJECTED" /\ Pending(i)
    <3>1. i \in crossed \/ Approving(i)
      BY <2>1, <2>4 DEF Pending
    <3> QED BY <1>2, <1>3, <1>5, <1>6, <2>4, <3>1 DEF Approving
  <2>5. CASE j = i /\ verdict = "REJECTED" /\ ~Pending(i)
    BY <1>2, <2>5
  <2> QED BY <2>2, <2>3, <2>4, <2>5
<1>9. TagInv'
  <2>1. \A j \in Items : Tags(j)' <=> Tags(j)
    BY <1>3 DEF Tags
  <2>2. \A q \in Callers : review'[q].pc = "tagged" =>
            review'[q] = review[q] /\ review[q].at \in Items
    BY <1>5, NoReviewFacts, AtReview DEF IInv
  <2>3. verdict = "APPROVED" => Tags(i)
    BY <1>1, <1>2 DEF IInv, TagInv
  <2>4. \A j \in Items : item'[j].state = "APPROVED" => Tags(j)
    BY <1>4, <2>3 DEF IInv, TagInv
  <2> QED BY <2>1, <2>2, <2>4 DEF IInv, TagInv
<1>10. StampInv' /\ FreshInv'
  <2>1. \A j \in Items : item'[j].state = "none" => item[j].state = "none"
    BY <1>4
  <2> QED BY <1>3, <1>4, <2>1, QuietPayload DEF IInv
<1> QED BY <1>7, <1>8, <1>9, <1>10 DEF IInv

(***************************************************************************)
(* An approval that fails, and what dies with the process, is crossed.     *)
(***************************************************************************)
LEMMA FailStep ==
    ASSUME IInv, NEW r \in Callers, ApproveFails(r)
    PROVE  IInv'
<1>1. PICK i \in Items : i = review[r].at
  BY AtReview DEF ApproveFails, Moved, IInv
<1>2. /\ review' = [review EXCEPT ![r] = NoReview]
      /\ crossed' = crossed \cup {i}
      /\ faults' = faults + 1 /\ faults < MaxFaults
      /\ clock' = clock /\ item' = item /\ listing' = listing /\ sweep' = sweep
      /\ folder' = folder /\ overlay' = overlay /\ filings' = filings
      /\ touched' = touched /\ refiled' = refiled
  BY <1>1 DEF ApproveFails, Fault, mail
<1>3. /\ review' \in [Callers -> Review \cup {NoReview}]
      /\ review'[r] = NoReview
      /\ \A q \in Callers \ {r} : review'[q] = review[q]
      /\ \A j \in Items : Approving(j) => Approving(j)' \/ i = j
  BY <1>1, <1>2, FreeFacts DEF IInv
<1>4. TypeOK'
  <2>1. faults' \in 0..MaxFaults
    BY <1>2, BoundsAssumption DEF IInv, TypeOK
  <2> QED BY <1>2, <1>3, <2>1 DEF IInv, TypeOK
<1>5. WorkInv'
  BY <1>2, <1>3 DEF IInv, TypeOK, WorkInv
<1>6. TagInv'
  <2>1. \A j \in Items : Tags(j)' <=> Tags(j)
    BY <1>2 DEF Tags
  <2>2. \A q \in Callers : review'[q].pc = "tagged" =>
            review'[q] = review[q] /\ review[q].at \in Items
    BY <1>3, NoReviewFacts, AtReview DEF IInv
  <2> QED BY <1>2, <2>1, <2>2 DEF IInv, TagInv
<1>7. StampInv' /\ FreshInv'
  BY <1>2, QuietPayload DEF IInv
<1> QED BY <1>4, <1>5, <1>6, <1>7 DEF IInv

LEMMA RestartStep == IInv /\ Restart => IInv'
<1> SUFFICES ASSUME IInv, Restart PROVE IInv'
  OBVIOUS
<1>1. /\ review' = [r \in Callers |-> NoReview]
      /\ listing' = [l \in Readers |-> Nothing] /\ sweep' = Asleep
      /\ crossed' = crossed \cup {review[r].at : r \in {r \in Callers : review[r] # NoReview}}
      /\ faults' = faults + 1 /\ faults < MaxFaults
      /\ clock' = clock /\ item' = item
      /\ folder' = folder /\ overlay' = overlay /\ filings' = filings
      /\ touched' = touched /\ refiled' = refiled
  BY DEF Restart, Fault, mail
<1>2. \A r \in Callers : review[r] # NoReview => review[r].at \in Items
  BY DEF IInv, TypeOK, Review
<1>3. TypeOK'
  <2>1. faults' \in 0..MaxFaults
    BY <1>1, BoundsAssumption DEF IInv, TypeOK
  <2>2. crossed' \subseteq Items
    BY <1>1, <1>2 DEF IInv, TypeOK
  <2> QED BY <1>1, <2>1, <2>2, NothingCopied DEF IInv, TypeOK
<1>4. WorkInv'
  <2>1. \A i \in Items : Approving(i) => i \in crossed'
    BY <1>1, NoReviewFacts DEF Approving
  <2> QED BY <1>1, <2>1 DEF IInv, TypeOK, WorkInv
<1>5. TagInv'
  <2>1. \A j \in Items : Tags(j)' <=> Tags(j)
    BY <1>1 DEF Tags
  <2> QED BY <1>1, <2>1, NoReviewFacts DEF IInv, TagInv
<1>6. StampInv'
  <2>1. clock \in Nat /\ sweep'.now = 0 /\ Latest' = clock
    BY <1>1, NothingCopied, InstantFacts DEF Latest, IInv, TypeOK
  <2>2. \A i \in Items : item[i].payload.reminded <= clock
    <3> SUFFICES ASSUME NEW i \in Items PROVE item[i].payload.reminded <= clock
      OBVIOUS
    <3>1. item[i].payload.reminded \in Nat
      BY InstantFacts DEF IInv, TypeOK, Item, Payload
    <3>2. sweep.now \in Nat /\ sweep.now <= clock
      BY SweepFacts, InstantFacts DEF IInv, StampInv
    <3>3. Latest \in Nat /\ Latest <= clock
      BY <2>1, <3>2 DEF Latest
    <3>4. item[i].payload.reminded <= Latest
      BY DEF IInv, StampInv
    <3> QED BY <2>1, <3>1, <3>3, <3>4
  <2>3. \A l \in Readers : DOMAIN listing'[l] = {}
    BY <1>1, NothingCopied
  <2> QED BY <1>1, <2>1, <2>2, <2>3 DEF StampInv
<1>7. FreshInv'
  BY <1>1 DEF IInv, FreshInv
<1> QED BY <1>3, <1>4, <1>5, <1>6, <1>7 DEF IInv

(***************************************************************************)
(* A person files a thread: whoever had tagged it had it filed anew.       *)
(***************************************************************************)
LEMMA FileStep ==
    ASSUME IInv, NEW f \in Filed, FileThread(f)
    PROVE  IInv'
<1>1. f.thread \in Threads /\ f.to \in Places
  BY BatchAssumption DEF Places
<1>2. /\ folder' \in {folder, [folder EXCEPT ![f.thread] = f.to]}
      /\ overlay' = [overlay EXCEPT ![f.thread] = f.to]
      /\ refiled' = [j \in Items |-> refiled[j] \cup {f.thread}]
      /\ filings' = filings + 1 /\ filings < MaxFilings
      /\ clock' = clock /\ item' = item /\ listing' = listing /\ sweep' = sweep
      /\ review' = review /\ faults' = faults
      /\ touched' = touched /\ crossed' = crossed
  BY DEF FileThread, Refiled
<1>3. TypeOK'
  <2>1. filings' \in 0..MaxFilings
    BY <1>2, BoundsAssumption DEF IInv, TypeOK
  <2>2. /\ folder' \in [Threads -> Places] /\ overlay' \in [Threads -> Places \cup {"none"}]
        /\ refiled' \in [Items -> SUBSET Threads]
    BY <1>1, <1>2 DEF IInv, TypeOK
  <2> QED BY <1>2, <2>1, <2>2 DEF IInv, TypeOK
<1>4. WorkInv'
  BY <1>2 DEF IInv, WorkInv, Approving
<1>5. TagInv'
  <2>1. \A j \in Items : Tags(j) => Tags(j)'
    <3> SUFFICES ASSUME NEW j \in Items, Tags(j), NEW t \in ThreadsOf[j]
                 PROVE  overlay'[t] = Target[j] \/ t \in refiled'[j]
      BY DEF Tags
    <3>1. t \in Threads
      BY BatchAssumption
    <3> QED BY <1>2, <3>1 DEF IInv, TypeOK, Tags
  <2>2. \A r \in Callers : review[r].pc = "tagged" => review[r].at \in Items
    BY AtReview DEF IInv
  <2> QED BY <1>2, <2>1, <2>2 DEF IInv, TagInv
<1>6. StampInv' /\ FreshInv'
  BY <1>2, QuietPayload DEF IInv
<1> QED BY <1>3, <1>4, <1>5, <1>6 DEF IInv

-----------------------------------------------------------------------------
(***************************************************************************)
(* The two background writers.  A listing copies payloads as they are.     *)
(***************************************************************************)
LEMMA ListStep ==
    ASSUME IInv, NEW l \in Readers, ListAgentInbox(l)
    PROVE  IInv'
<1>1. /\ clock' = clock /\ item' = item /\ review' = review /\ sweep' = sweep
      /\ folder' = folder /\ overlay' = overlay /\ filings' = filings /\ faults' = faults
      /\ touched' = touched /\ crossed' = crossed /\ refiled' = refiled
  BY DEF ListAgentInbox, mail, past
<1>2. PICK S \in SUBSET Bared : listing' = [listing EXCEPT ![l] = [i \in S |-> item[i].payload]]
  BY DEF ListAgentInbox
<1>3. PICK copies : copies = [i \in S |-> item[i].payload]
  OBVIOUS
<1>4. /\ DOMAIN copies = S /\ S \subseteq Items
      /\ copies \in PartialOf(Items, Payload)
      /\ \A i \in S : copies[i].reminded = item[i].payload.reminded
  <2>1. S \in SUBSET Items
    BY DEF Bared
  <2>2. \A i \in Items : item[i].payload \in Payload
    BY DEF IInv, TypeOK, Item
  <2>3. copies \in [S -> Payload]
    BY <1>3, <2>1, <2>2
  <2> QED BY <1>3, <2>1, <2>3, CopiesAreCopies
<1>5. /\ listing' \in [Readers -> PartialOf(Items, Payload)]
      /\ listing'[l] = copies
      /\ \A k \in Readers \ {l} : listing'[k] = listing[k]
  <2>1. listing \in [Readers -> PartialOf(Items, Payload)]
    BY DEF IInv, TypeOK
  <2>2. listing' = [listing EXCEPT ![l] = copies]
    BY <1>2, <1>3
  <2> QED BY <1>4, <2>1, <2>2, ReplaceFacts
<1>6. TypeOK'
  BY <1>1, <1>5 DEF IInv, TypeOK
<1>7. WorkInv' /\ TagInv'
  BY <1>1, QuietVerdict DEF IInv
<1>8. StampInv'
  <2>1. Latest' = Latest /\ \A i \in Items : item[i].payload.reminded <= Latest
    BY <1>1 DEF IInv, StampInv, Latest
  <2>2. \A i \in DOMAIN listing'[l] : listing'[l][i].reminded <= Latest
    BY <1>4, <1>5, <2>1
  <2>3. \A k \in Readers \ {l} : \A i \in DOMAIN listing'[k] :
            listing'[k][i].reminded <= Latest
    BY <1>5 DEF IInv, StampInv
  <2>4. \A k \in Readers : \A i \in DOMAIN listing'[k] : listing'[k][i].reminded <= Latest
    BY <2>2, <2>3
  <2> QED BY <1>1, <2>1, <2>4 DEF IInv, StampInv
<1>9. FreshInv'
  BY <1>1 DEF IInv, FreshInv
<1> QED BY <1>6, <1>7, <1>8, <1>9 DEF IInv

(***************************************************************************)
(* What a backfill writes is the listing's copy, with a preview.           *)
(***************************************************************************)
LEMMA BackfillFacts ==
    ASSUME TypeOK, NEW l \in Readers, NEW i \in Items, BackfillTargets(l, i)
    PROVE  /\ i \in DOMAIN listing[l]
           /\ \/ item' = item
              \/ \E payload \in Payload :
                     /\ WritePayload(i, payload)
                     /\ payload.targets /\ payload.reminded = listing[l][i].reminded
<1>1. i \in DOMAIN listing[l] /\ listing[l] \in PartialOf(Items, Payload)
  BY DEF BackfillTargets, TypeOK
<1>2. listing[l][i] \in Payload
  BY <1>1, CopyFacts
<1>3. PICK payload : payload = [listing[l][i] EXCEPT !.targets = TRUE]
  OBVIOUS
<1>4. payload \in Payload /\ payload.targets /\ payload.reminded = listing[l][i].reminded
  BY <1>2, <1>3, ZenonT(60) DEF Payload
<1>5. item' = item \/ WritePayload(i, payload)
  BY <1>3 DEF BackfillTargets
<1> QED BY <1>1, <1>4, <1>5

LEMMA BackfillStep ==
    ASSUME IInv, NEW l \in Readers, NEW i \in Items, BackfillTargets(l, i)
    PROVE  IInv'
<1>1. /\ clock' = clock /\ review' = review /\ sweep' = sweep
      /\ folder' = folder /\ overlay' = overlay /\ filings' = filings /\ faults' = faults
      /\ touched' = touched /\ crossed' = crossed /\ refiled' = refiled
  BY DEF BackfillTargets, mail, past
<1>2. /\ listing' \in [Readers -> PartialOf(Items, Payload)]
      /\ \A k \in Readers : /\ DOMAIN listing'[k] \subseteq DOMAIN listing[k]
                            /\ \A j \in DOMAIN listing'[k] : listing'[k][j] = listing[k][j]
  <2>1. listing \in [Readers -> PartialOf(Items, Payload)]
    BY DEF IInv, TypeOK
  <2>2. listing' = [listing EXCEPT ![l] = Rest(listing[l], i)]
    BY DEF BackfillTargets, Rest
  <2>3. listing[l] \in PartialOf(Items, Payload)
    BY <2>1
  <2>4. /\ Rest(listing[l], i) \in PartialOf(Items, Payload)
        /\ DOMAIN Rest(listing[l], i) \subseteq DOMAIN listing[l]
        /\ \A j \in DOMAIN Rest(listing[l], i) : Rest(listing[l], i)[j] = listing[l][j]
    BY <2>3, DropCopy
  <2>5. Rest(listing[l], i) \in PartialOf(Items, Payload)
    BY <2>4
  <2>6. /\ listing' \in [Readers -> PartialOf(Items, Payload)]
        /\ listing'[l] = Rest(listing[l], i)
        /\ \A k \in Readers \ {l} : listing'[k] = listing[k]
    BY <2>1, <2>2, <2>5, ReplaceFacts
  <2> QED BY <2>4, <2>6
<1>3. /\ item' \in [Items -> Item]
      /\ \A j \in Items : item'[j].state = item[j].state
      /\ \A j \in Items : \/ item'[j] = item[j]
                          \/ /\ item[j].state = "PENDING"
                             /\ item'[j].payload.reminded = listing[l][i].reminded
  <2>1. CASE item' = item
    BY <2>1 DEF IInv, TypeOK
  <2>2. CASE \E payload \in Payload :
                /\ WritePayload(i, payload)
                /\ payload.targets /\ payload.reminded = listing[l][i].reminded
    <3>1. PICK payload \in Payload : /\ WritePayload(i, payload)
                                     /\ payload.reminded = listing[l][i].reminded
      BY <2>2
    <3> QED BY <3>1, WriteFacts DEF IInv
  <2> QED BY <2>1, <2>2, BackfillFacts DEF IInv
<1>4. TypeOK'
  BY <1>1, <1>2, <1>3 DEF IInv, TypeOK
<1>5. WorkInv' /\ TagInv'
  BY <1>1, <1>3, QuietVerdict DEF IInv
<1>6. StampInv'
  <2>1. Latest' = Latest
    BY <1>1 DEF Latest
  <2>2. listing[l][i].reminded <= Latest
    BY BackfillFacts DEF IInv, StampInv
  <2>3. \A j \in Items : item'[j].payload.reminded <= Latest
    BY <1>3, <2>2 DEF IInv, StampInv
  <2>4. \A k \in Readers : \A j \in DOMAIN listing'[k] : listing'[k][j].reminded <= Latest
    BY <1>2 DEF IInv, StampInv
  <2> QED BY <1>1, <2>1, <2>3, <2>4 DEF IInv, StampInv
<1>7. FreshInv'
  BY <1>3 DEF IInv, FreshInv
<1> QED BY <1>4, <1>5, <1>6, <1>7 DEF IInv

(***************************************************************************)
(* The sweep reads the clock and the payloads at once.                     *)
(***************************************************************************)
LEMMA PostStep == IInv /\ SweepPost => IInv'
<1> SUFFICES ASSUME IInv, SweepPost PROVE IInv'
  OBVIOUS
<1>1. /\ sweep = Asleep
      /\ clock' = clock /\ item' = item /\ review' = review /\ listing' = listing
      /\ folder' = folder /\ overlay' = overlay /\ filings' = filings /\ faults' = faults
      /\ touched' = touched /\ crossed' = crossed /\ refiled' = refiled
  BY DEF SweepPost, mail, past
<1>2. PICK copies : /\ copies = [i \in Due |-> item[i].payload]
                    /\ sweep' = [pc |-> "posted", now |-> clock, due |-> copies]
  BY DEF SweepPost
<1>3. copies \in PartialOf(Items, Payload)
  <2>1. Due \in SUBSET Items
    BY DEF Due
  <2>2. \A i \in Items : item[i].payload \in Payload
    BY DEF IInv, TypeOK, Item
  <2>3. copies \in [Due -> Payload]
    BY <1>2, <2>1, <2>2
  <2> QED BY <2>1, <2>3, CopiesAreCopies
<1>4. /\ sweep'.pc = "posted" /\ sweep'.now = clock /\ clock \in Instants /\ clock \in Nat
      /\ sweep' \in [pc : {"posted"}, now : Instants, due : PartialOf(Items, Payload)]
  BY <1>2, <1>3, InstantFacts DEF IInv, TypeOK
<1>5. TypeOK'
  BY <1>1, <1>4 DEF IInv, TypeOK
<1>6. WorkInv' /\ TagInv'
  BY <1>1, QuietVerdict DEF IInv
<1>7. StampInv'
  <2>1. Latest = clock /\ Latest' = clock
    BY <1>1, <1>4, NothingCopied DEF Latest
  <2> QED BY <1>1, <1>4, <2>1 DEF IInv, StampInv
<1>8. FreshInv'
  BY <1>1 DEF IInv, FreshInv
<1> QED BY <1>5, <1>6, <1>7, <1>8 DEF IInv

(***************************************************************************)
(* A stamp is the sweep's copy with the sweep's instant.                   *)
(***************************************************************************)
LEMMA StampFacts ==
    ASSUME TypeOK, NEW i \in Items, SweepStamp(i)
    PROVE  /\ sweep.pc = "posted" /\ i \in DOMAIN sweep.due
           /\ \/ item' = item
              \/ \E payload \in Payload :
                     /\ WritePayload(i, payload)
                     /\ payload.targets = sweep.due[i].targets
                     /\ payload.reminded = sweep.now
<1>1. /\ sweep.pc = "posted" /\ i \in DOMAIN sweep.due
      /\ sweep.now \in Instants /\ sweep.due \in PartialOf(Items, Payload)
  BY SweepFacts DEF SweepStamp
<1>2. sweep.due[i] \in Payload
  BY <1>1, CopyFacts
<1>3. PICK payload : payload = [sweep.due[i] EXCEPT !.reminded = sweep.now]
  OBVIOUS
<1>4. /\ payload \in Payload /\ payload.reminded = sweep.now
      /\ payload.targets = sweep.due[i].targets
  BY <1>1, <1>2, <1>3, ZenonT(60) DEF Payload
<1>5. item' = item \/ WritePayload(i, payload)
  BY <1>3 DEF SweepStamp, MergeNotifyStamp
<1> QED BY <1>1, <1>4, <1>5

(***************************************************************************)
(* The sweep that stamps its last item goes to sleep.                      *)
(***************************************************************************)
LEMMA StampStep ==
    ASSUME IInv, NEW i \in Items, SweepStamp(i)
    PROVE  IInv'
<1>1. /\ clock' = clock /\ review' = review /\ listing' = listing
      /\ folder' = folder /\ overlay' = overlay /\ filings' = filings /\ faults' = faults
      /\ touched' = touched /\ crossed' = crossed /\ refiled' = refiled
  BY DEF SweepStamp, mail, past
<1>2. /\ item' \in [Items -> Item]
      /\ \A j \in Items : item'[j].state = item[j].state
      /\ \A j \in Items : \/ item'[j] = item[j]
                          \/ item[j].state = "PENDING" /\ item'[j].payload.reminded = sweep.now
  <2>1. CASE item' = item
    BY <2>1 DEF IInv, TypeOK
  <2>2. CASE \E payload \in Payload : /\ WritePayload(i, payload)
                                      /\ payload.targets = sweep.due[i].targets
                                      /\ payload.reminded = sweep.now
    <3>1. PICK payload \in Payload : WritePayload(i, payload) /\ payload.reminded = sweep.now
      BY <2>2
    <3> QED BY <3>1, WriteFacts DEF IInv
  <2> QED BY <2>1, <2>2, StampFacts DEF IInv
<1>3. /\ sweep.pc = "posted" /\ sweep.now \in Nat /\ clock \in Nat /\ sweep.now <= clock
  BY StampFacts, SweepFacts, InstantFacts DEF IInv, StampInv, TypeOK
<1>4. /\ sweep' = Asleep \/ sweep' \in [pc : {"posted"}, now : {sweep.now},
                                        due : PartialOf(Items, Payload)]
  <2>1. sweep' = IF DOMAIN sweep.due = {i} THEN Asleep
                 ELSE [sweep EXCEPT !.due = Restrict(@, DOMAIN @ \ {i})]
    BY DEF SweepStamp
  <2>2. PICK rest : rest = Rest(sweep.due, i)
    OBVIOUS
  <2>3. rest \in PartialOf(Items, Payload)
    BY <2>2, SweepFacts, DropCopy DEF IInv
  <2>4. sweep \in [pc : {"posted"}, now : Instants, due : PartialOf(Items, Payload)]
    BY <1>3, NothingCopied DEF IInv, TypeOK
  <2>5. [sweep EXCEPT !.due = rest] \in [pc : {"posted"}, now : {sweep.now},
                                         due : PartialOf(Items, Payload)]
    BY <2>3, <2>4
  <2> QED BY <2>1, <2>2, <2>5 DEF Rest
<1>5. TypeOK'
  <2>1. sweep' \in [pc : {"posted"}, now : Instants, due : PartialOf(Items, Payload)]
                   \cup {Asleep}
    BY <1>4, SweepFacts DEF IInv
  <2> QED BY <1>1, <1>2, <2>1 DEF IInv, TypeOK
<1>6. WorkInv' /\ TagInv'
  BY <1>1, <1>2, QuietVerdict DEF IInv
<1>7. StampInv'
  <2>1. Latest = sweep.now /\ Latest' \in Nat /\ Latest <= Latest'
        /\ sweep'.now \in Nat /\ sweep'.now <= clock
    BY <1>1, <1>3, <1>4, NothingCopied DEF Latest
  <2>2. \A j \in Items : item'[j].payload.reminded <= Latest
    BY <1>2, <1>3, <2>1 DEF IInv, StampInv
  <2>3. \A j \in Items : item'[j].payload.reminded \in Nat
    BY <1>2, InstantFacts DEF Item, Payload
  <2>4. \A k \in Readers : \A j \in DOMAIN listing[k] :
            listing[k][j].reminded \in Nat /\ listing[k][j].reminded <= Latest
    BY CopyFacts, InstantFacts DEF IInv, StampInv, TypeOK, Payload
  <2>5. \A j \in Items : item'[j].payload.reminded <= Latest'
    BY <1>3, <2>1, <2>2, <2>3
  <2>6. \A k \in Readers : \A j \in DOMAIN listing'[k] : listing'[k][j].reminded <= Latest'
    BY <1>1, <1>3, <2>1, <2>4
  <2> QED BY <1>1, <2>1, <2>5, <2>6 DEF StampInv
<1>8. FreshInv'
  BY <1>2 DEF IInv, FreshInv
<1> QED BY <1>5, <1>6, <1>7, <1>8 DEF IInv

-----------------------------------------------------------------------------
LEMMA StepKeepsInv == IInv /\ [Next]_vars => IInv'
<1> SUFFICES ASSUME IInv, [Next]_vars PROVE IInv'
  OBVIOUS
<1>1. ASSUME NEW r \in Callers, NEW i \in Items, ApproveRead(r, i) \/ RejectRead(r, i)
      PROVE  IInv'
  BY <1>1, ReadStep
<1>2. ASSUME NEW r \in Callers, NEW t \in Threads, MoveThread(r, t) PROVE IInv'
  BY <1>2, MoveStep
<1>3. ASSUME NEW r \in Callers,
             TagOverlay(r) \/ ApproveWrite(r) \/ ApproveFails(r) \/ RejectWrite(r)
      PROVE  IInv'
  BY <1>3, TagStep, VerdictStep, FailStep
<1>4. ASSUME NEW l \in Readers, NEW i \in Items, BackfillTargets(l, i) PROVE IInv'
  BY <1>4, BackfillStep
<1>5. CASE UNCHANGED vars
  <2>1. /\ clock' = clock /\ item' = item /\ review' = review /\ listing' = listing
        /\ sweep' = sweep /\ folder' = folder /\ overlay' = overlay
        /\ filings' = filings /\ faults' = faults
        /\ touched' = touched /\ crossed' = crossed /\ refiled' = refiled
    BY <1>5 DEF vars
  <2>2. TypeOK'
    BY <2>1 DEF IInv, TypeOK
  <2>3. WorkInv' /\ TagInv'
    BY <2>1, QuietVerdict DEF IInv
  <2>4. StampInv' /\ FreshInv'
    BY <2>1, QuietPayload DEF IInv
  <2> QED BY <2>2, <2>3, <2>4 DEF IInv
<1> QED BY <1>1, <1>2, <1>3, <1>4, <1>5, TickStep, StageStep, ListStep, PostStep,
           StampStep, FileStep, RestartStep DEF Next

(***************************************************************************)
(* IInv holds throughout: runNativeCleanup tags before it closes, and no   *)
(* writer of a payload holds a stamp from the future.                      *)
(***************************************************************************)
THEOREM Invariance == Spec => []IInv
<1> QED BY InitIInv, StepKeepsInv, PTL DEF Spec

(***************************************************************************)
(* Items, reviews and the copies the background writers hold keep their    *)
(* types.                                                                  *)
(***************************************************************************)
THEOREM TypeCorrect == Spec => []TypeOK
<1>1. IInv => TypeOK
  BY DEF IInv
<1> QED BY <1>1, Invariance, PTL

(***************************************************************************)
(* A rejected batch moved nothing but by an approval that is at work, died *)
(* or was overwritten; every thread of an approved one is tagged, until it *)
(* is filed anew.                                                          *)
(***************************************************************************)
THEOREM VerdictMatchesMailHolds == Spec => []VerdictMatchesMail
<1>1. IInv => VerdictMatchesMail
  BY DEF IInv, WorkInv, TagInv, Tags, VerdictMatchesMail
<1> QED BY <1>1, Invariance, PTL

(***************************************************************************)
(* The backfill's and the sweep's whole-column writes lose each other's    *)
(* key only through a copy read before the other wrote, and leave a        *)
(* reviewed item alone.                                                    *)
(***************************************************************************)
THEOREM PayloadIsMergedHolds == Spec => PayloadIsMerged
<1> DEFINE Loses(i) ==
              /\ item[i].payload.targets /\ ~item'[i].payload.targets
              /\ ~ (i \in DOMAIN sweep.due /\ ~sweep.due[i].targets)
           Regresses(i) ==
              /\ item'[i].payload.reminded < item[i].payload.reminded
              /\ ~ \E l \in Readers : /\ i \in DOMAIN listing[l]
                                      /\ listing[l][i].reminded < item[i].payload.reminded
           Reopens(i) ==
              /\ item[i].state \in {"APPROVED", "REJECTED"}
              /\ item'[i].payload # item[i].payload
           Merged(i) == ~Loses(i) /\ ~Regresses(i) /\ ~Reopens(i)
<1>1. IInv /\ [Next]_vars => [\A i \in Items : Merged(i)]_vars
  <2> SUFFICES ASSUME IInv, Next, NEW i \in Items PROVE Merged(i)
    OBVIOUS
  <2>1. item[i] \in Item /\ item[i].payload.reminded \in Nat
    BY InstantFacts DEF IInv, TypeOK, Item, Payload
  <2>2. CASE item'[i].payload = item[i].payload
    BY <2>1, <2>2
  <2>3. ASSUME NEW j \in Items, StageNativeCleanup(j) PROVE Merged(i)
    <3>1. item[j].payload = Bare /\ item[j].state = "none"
      BY <2>3 DEF StageNativeCleanup, IInv, FreshInv
    <3>2. /\ i # j => item'[i] = item[i]
          /\ i = j => item'[i].payload.targets /\ item'[i].payload.reminded = 0
      BY <2>3 DEF StageNativeCleanup, IInv, TypeOK
    <3> QED BY <2>2, <3>1, <3>2, InstantFacts
  <2>4. ASSUME NEW l \in Readers, NEW j \in Items, BackfillTargets(l, j)
        PROVE  Merged(i)
    <3>1. CASE item' = item
      BY <2>2, <3>1
    <3>2. CASE \E payload \in Payload :
                  /\ WritePayload(j, payload)
                  /\ payload.targets /\ payload.reminded = listing[l][j].reminded
      <4>1. PICK payload \in Payload :
                  /\ WritePayload(j, payload)
                  /\ payload.targets /\ payload.reminded = listing[l][j].reminded
        BY <3>2
      <4>2. \/ item'[i] = item[i]
            \/ i = j /\ item[i].state = "PENDING" /\ item'[i].payload = payload
        BY <4>1, WriteFacts DEF IInv
      <4>3. j \in DOMAIN listing[l]
        BY <2>4, BackfillFacts DEF IInv
      <4> QED BY <2>2, <4>1, <4>2, <4>3
    <3> QED BY <2>4, <3>1, <3>2, BackfillFacts DEF IInv
  <2>5. ASSUME NEW j \in Items, SweepStamp(j) PROVE Merged(i)
    <3>1. /\ sweep.pc = "posted" /\ j \in DOMAIN sweep.due /\ sweep.now \in Nat
          /\ item[i].payload.reminded <= sweep.now
      BY <2>5, StampFacts, SweepFacts, InstantFacts DEF IInv, StampInv, Latest
    <3>2. CASE item' = item
      BY <2>2, <3>2
    <3>3. CASE \E payload \in Payload :
                  /\ WritePayload(j, payload)
                  /\ payload.targets = sweep.due[j].targets
                  /\ payload.reminded = sweep.now
      <4>1. PICK payload \in Payload :
                  /\ WritePayload(j, payload)
                  /\ payload.targets = sweep.due[j].targets
                  /\ payload.reminded = sweep.now
        BY <3>3
      <4>2. \/ item'[i] = item[i]
            \/ i = j /\ item[i].state = "PENDING" /\ item'[i].payload = payload
        BY <4>1, WriteFacts DEF IInv
      <4>3. CASE i = j /\ item[i].state = "PENDING" /\ item'[i].payload = payload
        <5>1. ~Loses(i)
          BY <3>1, <4>1, <4>3
        <5>2. ~Regresses(i)
          BY <2>1, <3>1, <4>1, <4>3
        <5>3. ~Reopens(i)
          BY <4>3
        <5> QED BY <5>1, <5>2, <5>3
      <4> QED BY <2>2, <4>2, <4>3
    <3> QED BY <2>5, <3>2, <3>3, StampFacts DEF IInv
  <2>6. ASSUME NEW r \in Callers, ApproveWrite(r) \/ RejectWrite(r)
        PROVE  item'[i].payload = item[i].payload
    <3>1. review[r].at \in Items
      BY <2>6, AtReview DEF ApproveWrite, RejectWrite, IInv
    <3>2. PICK verdict \in {"APPROVED", "REJECTED"} :
              item' = [item EXCEPT ![review[r].at].state = verdict]
      BY <2>6 DEF ApproveWrite, RejectWrite
    <3> QED BY <3>1, <3>2, VerdictFacts DEF IInv
  <2>7. ASSUME NEW r \in Callers,
               \/ \E j \in Items : ApproveRead(r, j) \/ RejectRead(r, j)
               \/ \E t \in Threads : MoveThread(r, t)
               \/ TagOverlay(r) \/ ApproveFails(r)
        PROVE  item' = item
    BY <2>7 DEF ApproveRead, RejectRead, MoveThread, TagOverlay, ApproveFails
  <2>8. ASSUME \/ Tick \/ SweepPost \/ Restart
               \/ \E l \in Readers : ListAgentInbox(l)
               \/ \E f \in Filed : FileThread(f)
        PROVE  item' = item
    BY <2>8 DEF Tick, SweepPost, Restart, ListAgentInbox, FileThread
  <2> QED BY <2>2, <2>3, <2>4, <2>5, <2>6, <2>7, <2>8 DEF Next
<1>2. [\A i \in Items : Merged(i)]_vars
        => [\A i \in Items :
              LET before == item[i].payload
                  after  == item'[i].payload
              IN  /\ before.targets /\ ~after.targets =>
                         i \in DOMAIN sweep.due /\ ~sweep.due[i].targets
                  /\ after.reminded < before.reminded =>
                         \E l \in Readers : /\ i \in DOMAIN listing[l]
                                            /\ listing[l][i].reminded < before.reminded
                  /\ item[i].state \in {"APPROVED", "REJECTED"} => after = before]_vars
  OBVIOUS
<1> QED BY <1>1, <1>2, Invariance, PTL DEF Spec, PayloadIsMerged

-----------------------------------------------------------------------------
(***************************************************************************)
(* One review at a time.  The item a review has read stays pending until   *)
(* that review closes it, so that no verdict is ever overwritten.          *)
(***************************************************************************)
ReadIsFresh == \A r \in Callers : review[r].pc # "idle" => Pending(review[r].at)

\* What a step does to the states of the items.
LEMMA StateStep ==
    ASSUME IInv, [Next]_vars, NEW i \in Items
    PROVE  \/ item'[i].state = item[i].state
           \/ item[i].state = "none" /\ item'[i].state = "PENDING"
           \/ \E r \in Callers : /\ ApproveWrite(r) \/ RejectWrite(r)
                                 /\ review[r].at = i
<1>0. TypeOK
  BY DEF IInv
<1>1. ASSUME NEW j \in Items, StageNativeCleanup(j)
      PROVE  \/ item'[i].state = item[i].state
             \/ item[i].state = "none" /\ item'[i].state = "PENDING"
  <2>1. i # j => item'[i] = item[i]
    BY <1>0, <1>1 DEF StageNativeCleanup, TypeOK
  <2>2. i = j => item[i].state = "none" /\ item'[i].state = "PENDING"
    BY <1>0, <1>1 DEF StageNativeCleanup, TypeOK
  <2> QED BY <2>1, <2>2
<1>2. ASSUME NEW l \in Readers, NEW j \in Items, BackfillTargets(l, j)
      PROVE  item'[i].state = item[i].state
  <2>1. item' = item \/ \E payload \in Payload : WritePayload(j, payload)
    BY <1>0, <1>2, BackfillFacts
  <2> QED BY <1>0, <2>1, WriteFacts
<1>3. ASSUME NEW j \in Items, SweepStamp(j) PROVE item'[i].state = item[i].state
  <2>1. item' = item \/ \E payload \in Payload : WritePayload(j, payload)
    BY <1>0, <1>3, StampFacts
  <2> QED BY <1>0, <2>1, WriteFacts
<1>4. ASSUME NEW r \in Callers, ApproveWrite(r) \/ RejectWrite(r)
      PROVE  item'[i].state = item[i].state \/ review[r].at = i
  <2>1. review[r].at \in Items
    BY <1>0, <1>4, AtReview DEF ApproveWrite, RejectWrite
  <2>2. PICK verdict \in {"APPROVED", "REJECTED"} :
            item' = [item EXCEPT ![review[r].at].state = verdict]
    BY <1>4 DEF ApproveWrite, RejectWrite
  <2> QED BY <1>0, <2>1, <2>2, VerdictFacts
<1>5. ASSUME NEW r \in Callers,
             \/ \E j \in Items : ApproveRead(r, j) \/ RejectRead(r, j)
             \/ \E t \in Threads : MoveThread(r, t)
             \/ TagOverlay(r) \/ ApproveFails(r)
      PROVE  item' = item
  BY <1>5 DEF ApproveRead, RejectRead, MoveThread, TagOverlay, ApproveFails
<1>6. ASSUME \/ Tick \/ SweepPost \/ Restart \/ UNCHANGED vars
             \/ \E l \in Readers : ListAgentInbox(l)
             \/ \E f \in Filed : FileThread(f)
      PROVE  item' = item
  BY <1>6 DEF Tick, SweepPost, Restart, ListAgentInbox, FileThread, vars
<1> QED BY <1>1, <1>2, <1>3, <1>4, <1>5, <1>6 DEF Next

\* What a step does to a review: begins it on a pending item, or keeps its
\* item, or ends it.
LEMMA ReviewStep ==
    ASSUME IInv, [Next]_vars, NEW r \in Callers, review'[r].pc # "idle"
    PROVE  \/ /\ Pending(review'[r].at) /\ item' = item /\ review'[r].at \in Items
           \/ /\ review[r].pc # "idle" /\ review'[r].at = review[r].at
              /\ ~(ApproveWrite(r) \/ RejectWrite(r))
<1>0. TypeOK /\ review \in [Callers -> Review \cup {NoReview}]
  BY DEF IInv, TypeOK
<1>1. ASSUME NEW q \in Callers, NEW i \in Items, ApproveRead(q, i) \/ RejectRead(q, i)
      PROVE  \/ review'[r] = review[r] /\ q # r
             \/ Pending(review'[r].at) /\ item' = item /\ review'[r].at \in Items
  BY <1>0, <1>1 DEF ApproveRead, RejectRead
<1>2. ASSUME NEW q \in Callers, NEW t \in Threads, MoveThread(q, t)
      PROVE  review[r].pc # "idle" /\ review'[r].at = review[r].at
  <2>1. q = r => review[r] \in Review /\ review[r].pc = "moving"
    BY <1>0, <1>2, AtReview DEF MoveThread
  <2>2. review' = [review EXCEPT ![q].todo = @ \ {t}]
    BY <1>2 DEF MoveThread
  <2>3. q # r => review'[r] = review[r]
    BY <1>0, <2>2
  <2>4. q = r => review'[r].at = review[r].at
    BY <1>0, <2>1, <2>2 DEF Review
  <2> QED BY <2>1, <2>3, <2>4
<1>3. ASSUME NEW q \in Callers, TagOverlay(q)
      PROVE  review[r].pc # "idle" /\ review'[r].at = review[r].at
  <2>1. q = r => review[r] \in Review /\ review[r].pc = "moving"
    BY <1>0, <1>3, AtReview DEF TagOverlay, Moved
  <2>2. review' = [review EXCEPT ![q].pc = "tagged"]
    BY <1>3 DEF TagOverlay
  <2>3. q # r => review'[r] = review[r]
    BY <1>0, <2>2
  <2>4. q = r => review'[r].at = review[r].at
    BY <1>0, <2>1, <2>2 DEF Review
  <2> QED BY <2>1, <2>3, <2>4
<1>4. ASSUME NEW q \in Callers, ApproveWrite(q) \/ RejectWrite(q) \/ ApproveFails(q)
      PROVE  review'[r] = review[r] /\ q # r
  <2>1. review' = [review EXCEPT ![q] = NoReview]
    BY <1>4 DEF ApproveWrite, RejectWrite, ApproveFails
  <2>2. q = r => review'[r] = NoReview
    BY <1>0, <2>1
  <2>3. q # r => review'[r] = review[r]
    BY <1>0, <2>1
  <2> QED BY <2>2, <2>3, NoReviewFacts
<1>5. CASE Restart
  BY <1>5, NoReviewFacts DEF Restart
<1>6. ASSUME \/ Tick \/ SweepPost \/ UNCHANGED vars
             \/ \E l \in Readers : ListAgentInbox(l)
             \/ \E f \in Filed : FileThread(f)
             \/ \E i \in Items : StageNativeCleanup(i) \/ SweepStamp(i)
             \/ \E l \in Readers, i \in Items : BackfillTargets(l, i)
      PROVE  review' = review
  BY <1>6 DEF Tick, SweepPost, ListAgentInbox, FileThread, StageNativeCleanup, SweepStamp,
     BackfillTargets, vars
<1>7. ASSUME ApproveWrite(r) \/ RejectWrite(r) PROVE FALSE
  BY <1>4, <1>7
<1> QED BY <1>1, <1>2, <1>3, <1>4, <1>5, <1>6, <1>7 DEF Next

LEMMA FreshKept ==
    ASSUME \A q, r \in Callers : q = r, IInv, ReadIsFresh, [Next]_vars
    PROVE  ReadIsFresh'
<1> SUFFICES ASSUME NEW r \in Callers, review'[r].pc # "idle"
             PROVE  item'[review'[r].at].state = "PENDING"
  BY DEF ReadIsFresh, Pending
<1>1. CASE Pending(review'[r].at) /\ item' = item
  BY <1>1 DEF Pending
<1>2. CASE /\ review[r].pc # "idle" /\ review'[r].at = review[r].at
           /\ ~(ApproveWrite(r) \/ RejectWrite(r))
  <2>1. review[r].at \in Items /\ item[review[r].at].state = "PENDING"
    BY <1>2, AtReview DEF ReadIsFresh, Pending, IInv
  <2>2. \A q \in Callers : q = r
    OBVIOUS
  <2>3. ~\E q \in Callers : ApproveWrite(q) \/ RejectWrite(q)
    BY <1>2, <2>2
  <2> QED BY <1>2, <2>1, <2>3, StateStep
<1> QED BY <1>1, <1>2, ReviewStep

LEMMA FreshThroughout ==
    ASSUME \A q, r \in Callers : q = r
    PROVE  Spec => []ReadIsFresh
<1>1. Init => ReadIsFresh
  BY NoReviewFacts DEF Init, ReadIsFresh
<1>2. IInv /\ ReadIsFresh /\ [Next]_vars => ReadIsFresh'
  BY FreshKept
<1> QED BY <1>1, <1>2, Invariance, PTL DEF Spec

(***************************************************************************)
(* Reviewed one at a time, a batch keeps the verdict it was given, through *)
(* every failure, restart and write of the two background writers: what    *)
(* overwrites a verdict of approveAgentInboxItem or rejectAgentInboxItem   *)
(* is only another review that had read the item before.                   *)
(***************************************************************************)
THEOREM VerdictIsFinalAlone ==
    ASSUME \A q, r \in Callers : q = r
    PROVE  Spec => [][\A i \in Items : item[i].state \in {"APPROVED", "REJECTED"}
                                          => item'[i].state = item[i].state]_vars
<1>1. ASSUME IInv, ReadIsFresh, [Next]_vars
      PROVE  \A i \in Items : item[i].state \in {"APPROVED", "REJECTED"}
                                => item'[i].state = item[i].state
  <2> SUFFICES ASSUME NEW i \in Items, item[i].state \in {"APPROVED", "REJECTED"}
               PROVE  item'[i].state = item[i].state
    OBVIOUS
  <2>1. ASSUME NEW r \in Callers, ApproveWrite(r) \/ RejectWrite(r), review[r].at = i
        PROVE  FALSE
    BY <1>1, <2>1 DEF ReadIsFresh, Pending, ApproveWrite, RejectWrite
  <2> QED BY <1>1, <2>1, StateStep
<1> QED BY <1>1, Invariance, FreshThroughout, PTL DEF Spec

(***************************************************************************)
(* "Nothing moves until a human approves": where batches are reviewed one  *)
(* at a time and no approval fails or dies, no thread of a rejected batch  *)
(* was ever moved or tagged by it.                                         *)
(***************************************************************************)
THEOREM RejectedMovedNothing ==
    ASSUME \A q, r \in Callers : q = r, MaxFaults = 0
    PROVE  Spec => [](\A i \in Items : item[i].state = "REJECTED" => i \notin touched)
<1> DEFINE NoneCrossed == crossed = {}
<1>1. Init => NoneCrossed
  BY DEF Init
<1>2. ASSUME IInv, ReadIsFresh, NoneCrossed, [Next]_vars
      PROVE  NoneCrossed'
  <2>1. ~Fault
    BY <1>2 DEF Fault, IInv, TypeOK
  <2>2. ASSUME NEW r \in Callers, RejectWrite(r) PROVE crossed' = crossed
    BY <1>2, <2>2 DEF RejectWrite, ReadIsFresh
  <2>3. ~Restart /\ \A r \in Callers : ~ApproveFails(r)
    BY <2>1 DEF Restart, ApproveFails
  <2>4. ASSUME Next, ~ \E r \in Callers : RejectWrite(r) PROVE crossed' = crossed
    BY <2>3, <2>4 DEF Next, Tick, StageNativeCleanup, ApproveRead, RejectRead, MoveThread,
       TagOverlay, ApproveWrite, ListAgentInbox, BackfillTargets, SweepPost, SweepStamp,
       FileThread, past
  <2> QED BY <1>2, <2>2, <2>4 DEF vars
<1>3. ASSUME IInv, ReadIsFresh, NoneCrossed
      PROVE  \A i \in Items : item[i].state = "REJECTED" => i \notin touched
  BY <1>3 DEF IInv, WorkInv, Approving, ReadIsFresh, Pending
<1> HIDE DEF NoneCrossed
<1> QED BY <1>1, <1>2, <1>3, Invariance, FreshThroughout, PTL DEF Spec
=============================================================================
