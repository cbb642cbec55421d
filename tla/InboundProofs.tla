--------------------------- MODULE InboundProofs ----------------------------
(***************************************************************************)
(* Proofs about Inbound, for any mail, rules, drafts, caps, window size    *)
(* and any number of failures and restarts.                                *)
(*                                                                         *)
(* That the cursor skips nothing without a cause is not inductive: it says *)
(* nothing of the batch in memory, which the cursor is about to pass.      *)
(* BatchInv accounts for every message up to the stamp the poll chose, and *)
(* StampInv says where that stamp and the cursor come from, so that a      *)
(* message arriving at that very second shares it with another.            *)
(***************************************************************************)
EXTENDS Inbound, FiniteSetTheorems, TLAPS

\* A message arrives once, and is in the Inbox or has been taken out.
MailInv ==
    \A m \in Messages :
       /\ arrived[m] <= clock
       /\ arrived[m] > 0 => m \in inbox \/ m \in strayed
       /\ m \in inbox => arrived[m] > 0

\* A reason for a message's never being classified.
Excused(m) ==
    \/ arrived[m] <= baseline
    \/ Cardinality({n \in Messages : arrived[n] >= arrived[m]}) > Limit
    \/ \E n \in Messages \ {m} : arrived[n] = arrived[m]
    \/ m \in strayed

Polled == sweep.pc \in {"batch", "judging", "judged", "filed"}

\* The cursor and the stamp of a poll are a message's, or the first poll's.
StampInv ==
    /\ cursor <= clock /\ baseline <= cursor
    /\ cursor > 0 => cursor <= baseline \/ \E n \in Messages : arrived[n] = cursor
    /\ sweep.pc # "idle" => sweep.since = cursor
    /\ Polled => /\ cursor <= sweep.top /\ sweep.top <= clock
                 /\ \/ cursor = 0
                    \/ sweep.top = cursor
                    \/ \E n \in Messages : arrived[n] = sweep.top

BatchInv ==
    /\ \A m \in sweep.todo : arrived[m] > 0
    /\ sweep.pc \in {"judging", "judged", "filed"} => sweep.at \in sweep.todo
    /\ sweep.pc \in {"judged", "filed"} => sweep.at \in judged
    /\ Polled /\ cursor > 0 =>
          \A m \in Messages :
             (cursor < arrived[m] /\ arrived[m] <= sweep.top /\ m \notin judged) =>
                m \in sweep.todo \/ Excused(m)

\* What the gate of a reply has granted.
DraftInv ==
    \A d \in Drafters :
       /\ draft[d].pc # "idle" => arrived[draft[d].at] > 0
       /\ draft[d].pc = "gated" =>
             /\ draft[d].wants = "SEND" => draft[d].sends < ThreadCap
             /\ draft[d].composes < MailboxCap

ReplyInv ==
    \A m \in Messages :
       /\ reply[m].times > 0 => arrived[m] > 0
       /\ reply[m].times = 0 => reply[m].mode = "none"

IInv ==
    /\ TypeOK /\ MailInv /\ StampInv /\ BatchInv /\ DraftInv /\ ReplyInv
    /\ AnsweredOnce /\ CapsHoldButForRaces /\ SkipsHaveACause

-----------------------------------------------------------------------------
(***************************************************************************)
(* Types.                                                                  *)
(***************************************************************************)
LEMMA AsleepFields ==
    /\ Asleep.pc = "idle" /\ Asleep.since = 0 /\ Asleep.top = 0 /\ Asleep.todo = {}
    /\ Asleep.at = NoMessage /\ Asleep.verdict = "keep" /\ Asleep.rules = {}
BY DEF Asleep

LEMMA BusySweep ==
    ASSUME TypeOK, sweep.pc # "idle"
    PROVE  /\ sweep \in Sweep
           /\ sweep.since \in Stamps /\ sweep.top \in Stamps /\ sweep.todo \subseteq Messages
BY DEF TypeOK, Asleep, Sweep

LEMMA StartTyped ==
    ASSUME TypeOK, StartSweep
    PROVE  /\ sweep' \in Sweep /\ sweep'.pc = "scanned" /\ sweep'.since = cursor
           /\ sweep'.todo = {}
<1>1. PICK rules \in {enabled, {}} :
        sweep' = [Asleep EXCEPT !.pc = "scanned", !.since = cursor, !.rules = rules]
  BY DEF StartSweep
<1>2. rules \in SUBSET Rules /\ cursor \in Stamps /\ 0 \in Stamps
  BY BoundsAssumption DEF TypeOK, Stamps
<1>3. sweep' = [pc |-> "scanned", since |-> cursor, top |-> 0, todo |-> {}, at |-> NoMessage,
                verdict |-> "keep", rules |-> rules]
  BY <1>1 DEF Asleep
<1> QED BY <1>2, <1>3 DEF Sweep

LEMMA PollTyped ==
    ASSUME TypeOK, PollInbound
    PROVE  /\ sweep' \in Sweep /\ sweep'.pc = "batch" /\ sweep'.since = sweep.since
           /\ \E W \in SUBSET inbox :
                 /\ Window(W)
                 /\ IF sweep.since = 0 /\ W = {} THEN sweep'.top = clock ELSE Newest(W, sweep'.top)
                 /\ sweep'.todo = IF sweep.since = 0 THEN {}
                                  ELSE {m \in W : arrived[m] > sweep.since}
<1>1. PICK W \in SUBSET inbox, top \in Stamps :
        /\ Window(W)
        /\ IF sweep.since = 0 /\ W = {} THEN top = clock ELSE Newest(W, top)
        /\ sweep' = [sweep EXCEPT !.pc = "batch", !.top = top,
                         !.todo = IF sweep.since = 0 THEN {}
                                  ELSE {m \in W : arrived[m] > sweep.since}]
  BY DEF PollInbound
<1>2. PICK todo : todo = IF sweep.since = 0 THEN {} ELSE {m \in W : arrived[m] > sweep.since}
  OBVIOUS
<1>3. todo \in SUBSET Messages
  BY <1>2 DEF TypeOK
<1>4. sweep' = [sweep EXCEPT !.pc = "batch", !.top = top, !.todo = todo]
  BY <1>1, <1>2
<1>5. sweep \in Sweep
  BY BusySweep DEF PollInbound
<1>6. sweep' \in Sweep /\ sweep'.pc = "batch" /\ sweep'.since = sweep.since
      /\ sweep'.top = top /\ sweep'.todo = todo
  BY <1>3, <1>4, <1>5 DEF Sweep
<1> QED BY <1>1, <1>2, <1>6

LEMMA JudgeTyped ==
    ASSUME TypeOK, JudgeNext
    PROVE  /\ sweep' \in Sweep /\ sweep'.pc = "judging" /\ sweep'.at \in sweep.todo
           /\ sweep'.since = sweep.since /\ sweep'.top = sweep.top /\ sweep'.todo = sweep.todo
<1>1. PICK m \in sweep.todo, verdict \in {"keep", "INBOX", "SPAM"} :
        sweep' = [sweep EXCEPT !.pc = "judging", !.at = m, !.verdict = verdict]
  BY DEF JudgeNext
<1>2. sweep \in Sweep /\ sweep.todo \subseteq Messages
  BY BusySweep DEF JudgeNext
<1> QED BY <1>1, <1>2 DEF Sweep

LEMMA OnTyped ==
    ASSUME TypeOK, WriteVerdict \/ ApplyRules
    PROVE  /\ sweep \in Sweep /\ sweep' \in Sweep
           /\ sweep'.pc = IF sweep.pc = "judging" THEN "judged" ELSE "filed"
           /\ sweep'.since = sweep.since /\ sweep'.top = sweep.top /\ sweep'.todo = sweep.todo
           /\ sweep'.at = sweep.at
<1>1. PICK pc \in {"judged", "filed"} : sweep' = [sweep EXCEPT !.pc = pc]
        /\ pc = IF sweep.pc = "judging" THEN "judged" ELSE "filed"
  BY DEF WriteVerdict, ApplyRules
<1>2. sweep \in Sweep
  BY BusySweep DEF WriteVerdict, ApplyRules
<1> QED BY <1>1, <1>2 DEF Sweep

LEMMA HandOffTyped ==
    ASSUME TypeOK, HandOff
    PROVE  /\ sweep' \in Sweep /\ sweep'.pc = "batch"
           /\ sweep'.since = sweep.since /\ sweep'.top = sweep.top
           /\ sweep'.todo = sweep.todo \ {sweep.at}
<1>1. PICK todo : todo = sweep.todo \ {sweep.at}
  OBVIOUS
<1>2. sweep' = [sweep EXCEPT !.pc = "batch", !.at = NoMessage, !.verdict = "keep",
                             !.todo = todo]
  BY <1>1 DEF HandOff
<1>3. sweep \in Sweep /\ todo \in SUBSET Messages
  BY <1>1, BusySweep DEF HandOff
<1> QED BY <1>1, <1>2, <1>3 DEF Sweep

\* The place of a draft, and what a draft in hand is.
LEMMA DraftFields ==
    ASSUME TypeOK, NEW d \in Drafters
    PROVE  /\ NoDraft.pc = "idle"
           /\ draft[d].pc # "idle" => draft[d] \in Draft
           /\ draft[d].pc # "idle" => /\ draft[d].at \in Messages /\ draft[d].wants \in {"SEND", "DRAFT"}
                                      /\ draft[d].sends \in Nat /\ draft[d].composes \in Nat
BY DEF TypeOK, NoDraft, Draft

LEMMA SetDraft ==
    ASSUME TypeOK, NEW d \in Drafters, NEW r \in Draft \cup {NoDraft},
           draft' = [draft EXCEPT ![d] = r]
    PROVE  /\ draft' \in [Drafters -> Draft \cup {NoDraft}]
           /\ draft'[d] = r
           /\ \A e \in Drafters \ {d} : draft'[e] = draft[e]
<1>1. draft \in [Drafters -> Draft \cup {NoDraft}]
  BY DEF TypeOK
<1> HIDE DEF Draft, NoDraft
<1> QED BY <1>1

LEMMA HandOffDraft ==
    ASSUME TypeOK, HandOff, sweep.at \in Messages
    PROVE  /\ draft' \in [Drafters -> Draft \cup {NoDraft}]
           /\ \A d \in Drafters : \/ draft'[d] = draft[d]
                                  \/ draft'[d].pc = "asked" /\ draft'[d].at = sweep.at
<1>1. CASE draft' = draft
  BY <1>1 DEF TypeOK
<1>2. CASE draft' # draft
  <2>1. PICK d \in Drafters :
          draft' = [draft EXCEPT ![d] = [NoDraft EXCEPT !.pc = "asked", !.at = sweep.at]]
    BY <1>2 DEF HandOff
  <2>2. PICK r : r = [NoDraft EXCEPT !.pc = "asked", !.at = sweep.at]
    OBVIOUS
  <2>3. r = [pc |-> "asked", at |-> sweep.at, wants |-> "DRAFT", sends |-> 0, composes |-> 0]
    BY <2>2 DEF NoDraft
  <2>4. r \in Draft /\ r.pc = "asked" /\ r.at = sweep.at
    BY <2>3 DEF Draft
  <2> QED BY <2>1, <2>2, <2>4, SetDraft
<1> QED BY <1>1, <1>2

\* The messages are finitely many, and so are the sends and composes.
LEMMA Counted ==
    /\ \A t \in Threads : IsFiniteSet(SendsOf(t)) /\ Cardinality(SendsOf(t)) \in Nat
    /\ IsFiniteSet(Composes) /\ Cardinality(Composes) \in Nat
<1>1. \A S \in SUBSET Messages : IsFiniteSet(S) /\ Cardinality(S) \in Nat
  BY MailAssumption, FS_Subset, FS_CardinalityType
<1> QED BY <1>1 DEF SendsOf, Composes

LEMMA ReadGateDraft ==
    ASSUME TypeOK, NEW d \in Drafters, ReadGate(d)
    PROVE  /\ draft' \in [Drafters -> Draft \cup {NoDraft}]
           /\ \A e \in Drafters \ {d} : draft'[e] = draft[e]
           /\ \/ draft'[d].pc = "idle"
              \/ /\ draft'[d].pc = "gated" /\ draft'[d].at = draft[d].at
                 /\ draft'[d].wants = "SEND" => draft'[d].sends < ThreadCap
                 /\ draft'[d].composes < MailboxCap
<1>1. draft[d].pc = "asked" /\ draft[d].at \in Messages
  BY DraftFields DEF ReadGate
<1>2. CASE Drop(d)
  BY <1>2, SetDraft, DraftFields DEF Drop
<1>3. CASE ~Drop(d)
  <2>1. PICK wants \in {"SEND", "DRAFT"} :
          /\ Ask(d, wants) /\ ~(Cardinality(Composes) >= MailboxCap)
          /\ wants = "SEND" => Cardinality(SendsOf(ThreadOf[draft[d].at])) < ThreadCap
    BY <1>3 DEF ReadGate
  <2>2. PICK sends, composes : /\ sends = Cardinality(SendsOf(ThreadOf[draft[d].at]))
                               /\ composes = Cardinality(Composes)
    OBVIOUS
  <2>3. sends \in Nat /\ composes \in Nat
    BY <1>1, <2>2, Counted, MailAssumption
  <2>4. PICK r : r = [pc |-> "gated", at |-> draft[d].at, wants |-> wants, sends |-> sends,
                      composes |-> composes]
    OBVIOUS
  <2>5. /\ r \in Draft /\ r.pc = "gated" /\ r.at = draft[d].at /\ r.wants = wants
        /\ r.sends = sends /\ r.composes = composes
    BY <1>1, <2>3, <2>4 DEF Draft
  <2>6. draft' = [draft EXCEPT ![d] = r]
    BY <2>1, <2>2, <2>4 DEF Ask
  <2>7. /\ draft' \in [Drafters -> Draft \cup {NoDraft}]
        /\ draft'[d] = r
        /\ \A e \in Drafters \ {d} : draft'[e] = draft[e]
    BY <2>5, <2>6, SetDraft
  <2>8. composes < MailboxCap /\ (wants = "SEND" => sends < ThreadCap)
    BY <2>1, <2>2, <2>3, BoundsAssumption
  <2> QED BY <2>5, <2>7, <2>8
<1> QED BY <1>2, <1>3

LEMMA DropDraft ==
    ASSUME TypeOK, NEW d \in Drafters, GiveUp(d) \/ ComposeReply(d)
    PROVE  /\ draft' \in [Drafters -> Draft \cup {NoDraft}]
           /\ draft'[d].pc = "idle"
           /\ \A e \in Drafters \ {d} : draft'[e] = draft[e]
BY SetDraft, DraftFields DEF GiveUp, ComposeReply, Drop

LEMMA ComposeTyped ==
    ASSUME TypeOK, NEW d \in Drafters, ComposeReply(d), reply' # reply
    PROVE  \E m \in Messages, mode \in {"SEND", "DRAFT"} :
              /\ m = draft[d].at /\ draft[d].pc = "gated"
              /\ ~\E n \in Messages : reply[n].times > 0 /\ Ref(n) = Ref(m)
              /\ mode = "SEND" => draft[d].wants = "SEND"
              /\ reply' \in [Messages -> Reply]
              /\ \A n \in Messages \ {m} : reply'[n] = reply[n]
              /\ reply'[m].mode = mode /\ reply'[m].times = reply[m].times + 1
              /\ reply'[m].lateThread = (Cardinality(SendsOf(ThreadOf[m])) # draft[d].sends)
              /\ reply'[m].lateBox = (Cardinality(Composes) # draft[d].composes)
<1>1. PICK mode \in {"DRAFT", draft[d].wants} : Record(d, mode)
  BY DEF ComposeReply
<1>2. draft[d].pc = "gated" /\ draft[d].at \in Messages /\ draft[d].wants \in {"SEND", "DRAFT"}
  BY DraftFields DEF ComposeReply
<1>3. PICK m \in Messages : m = draft[d].at
  BY <1>2
<1>4. PICK lt, lb \in BOOLEAN : /\ lt = (Cardinality(SendsOf(ThreadOf[m])) # draft[d].sends)
                                /\ lb = (Cardinality(Composes) # draft[d].composes)
  OBVIOUS
<1>5. PICK n \in Nat : n = reply[m].times + 1
  BY DEF TypeOK, Reply
<1>6. PICK r : r = [mode |-> mode, times |-> n, lateThread |-> lt, lateBox |-> lb]
  OBVIOUS
<1>7. r \in Reply /\ r.mode = mode /\ r.times = n /\ r.lateThread = lt /\ r.lateBox = lb
  BY <1>2, <1>6 DEF Reply
<1>8. reply' = [reply EXCEPT ![m] = r]
  BY <1>1, <1>3, <1>4, <1>5, <1>6 DEF Record
<1>9. /\ reply' \in [Messages -> Reply] /\ reply'[m] = r
      /\ \A x \in Messages \ {m} : reply'[x] = reply[x]
  <2> HIDE DEF Reply
  <2> QED BY <1>7, <1>8 DEF TypeOK
<1>10. ~\E x \in Messages : reply[x].times > 0 /\ Ref(x) = Ref(m)
  BY <1>3 DEF ComposeReply
<1>11. mode \in {"SEND", "DRAFT"} /\ (mode = "SEND" => draft[d].wants = "SEND")
  BY <1>2
<1> QED BY <1>2, <1>3, <1>4, <1>5, <1>7, <1>9, <1>10, <1>11

LEMMA InitIInv == Init => IInv
<1> SUFFICES ASSUME Init PROVE IInv
  OBVIOUS
<1> USE DEF Init
<1>0. 0 \in Stamps /\ 1 \in 1..MaxClock /\ 0 \in 0..MaxEdits /\ 0 \in 0..MaxFaults
  BY BoundsAssumption DEF Stamps
<1>1. TypeOK
  <2>1. reply \in [Messages -> Reply]
    BY DEF Unanswered, Reply
  <2> QED BY <1>0, <2>1 DEF TypeOK, Places
<1>2. MailInv /\ StampInv /\ ReplyInv
  BY <1>0, AsleepFields DEF MailInv, StampInv, ReplyInv, Polled, Unanswered
<1>3. BatchInv /\ DraftInv
  BY AsleepFields DEF BatchInv, DraftInv, Polled, NoDraft
<1>4. AnsweredOnce /\ SkipsHaveACause
  BY DEF AnsweredOnce, SkipsHaveACause, Unanswered
<1>5. CapsHoldButForRaces
  <2>1. (\A t \in Threads : SendsOf(t) = {}) /\ Composes = {}
    BY DEF SendsOf, Composes, Unanswered
  <2>2. /\ \A t \in Threads : {m \in SendsOf(t) : reply[m].lateThread} = {}
        /\ {m \in Composes : reply[m].lateBox} = {}
    BY <2>1
  <2>3. Cardinality({}) = 0
    BY FS_EmptySet
  <2>4. /\ \A t \in Threads : /\ Cardinality(SendsOf(t)) = 0
                              /\ Cardinality({m \in SendsOf(t) : reply[m].lateThread}) = 0
        /\ Cardinality(Composes) = 0 /\ Cardinality({m \in Composes : reply[m].lateBox}) = 0
    BY <2>1, <2>2, <2>3
  <2>5. 0 <= ThreadCap + 0 /\ 0 <= MailboxCap + 0
    BY BoundsAssumption
  <2> QED BY <2>4, <2>5 DEF CapsHoldButForRaces
<1> QED BY <1>1, <1>2, <1>3, <1>4, <1>5 DEF IInv

LEMMA TypeKept == ASSUME IInv, [Next]_vars PROVE TypeOK'
<1> SUFFICES ASSUME Next PROVE TypeOK'
  BY DEF vars, box, people, replies, TypeOK, IInv
<1> USE DEF box, people, replies
<1>0. TypeOK /\ BatchInv
  BY DEF IInv
<1>00. faults < MaxFaults /\ faults' = faults + 1 => faults' \in 0..MaxFaults
  BY <1>0, BoundsAssumption DEF TypeOK
<1>1. ASSUME NEW m \in Messages, Arrive(m) PROVE TypeOK'
  BY <1>0, <1>1 DEF Arrive, TypeOK, Stamps
<1>2. CASE Tick
  BY <1>0, <1>2, BoundsAssumption DEF Tick, TypeOK
<1>3. CASE StartSweep
  <2>1. faults' \in 0..MaxFaults
    BY <1>0, <1>00, <1>3 DEF StartSweep, TypeOK
  <2> QED BY <1>0, <1>3, <2>1, StartTyped DEF StartSweep, TypeOK
<1>4. CASE PollInbound
  BY <1>0, <1>4, PollTyped DEF PollInbound, TypeOK
<1>5. CASE JudgeNext
  BY <1>0, <1>5, JudgeTyped DEF JudgeNext, TypeOK
<1>6. CASE WriteVerdict
  <2>1. sweep.at \in Messages /\ sweep.verdict \in {"keep", "INBOX", "SPAM"}
    <3>1. sweep.pc = "judging" /\ sweep \in Sweep
      BY <1>0, <1>6, OnTyped DEF WriteVerdict
    <3>2. sweep.at \in sweep.todo
      BY <1>0, <3>1 DEF BatchInv
    <3> QED BY <3>1, <3>2 DEF Sweep
  <2>2. judged' \subseteq Messages /\ disposition' \in [Threads -> Places]
    BY <1>0, <1>6, <2>1, MailAssumption DEF WriteVerdict, TypeOK, Places
  <2> QED BY <1>0, <1>6, <2>2, OnTyped DEF WriteVerdict, TypeOK
<1>7. CASE ApplyRules
  <2>1. inbox' \subseteq Messages /\ strayed' \subseteq Messages
    BY <1>0, <1>7 DEF ApplyRules, TakeOut, Mail, TypeOK
  <2> QED BY <1>0, <1>7, <2>1, OnTyped DEF ApplyRules, TypeOK
<1>8. CASE HandOff
  <2>1. sweep.at \in Messages
    BY <1>0, <1>8, BusySweep DEF HandOff, BatchInv
  <2> QED BY <1>0, <1>8, <2>1, HandOffTyped, HandOffDraft DEF HandOff, TypeOK
<1>9. CASE AdvanceCursor
  <2>1. sweep.top \in Stamps
    BY <1>0, <1>9, BusySweep DEF AdvanceCursor
  <2>2. crowded' \in BOOLEAN
    BY <1>0, <1>9 DEF AdvanceCursor, ToTheEnd, TypeOK
  <2> QED BY <1>0, <1>9, <2>1, <2>2 DEF AdvanceCursor, TypeOK
<1>10. CASE SweepFails
  <2>1. faults' \in 0..MaxFaults
    BY <1>00, <1>10 DEF SweepFails
  <2> QED BY <1>0, <1>10, <2>1 DEF SweepFails, TypeOK
<1>11. CASE Restart
  <2>1. draft' \in [Drafters -> Draft \cup {NoDraft}]
    BY <1>0, <1>11 DEF Restart
  <2>2. faults' \in 0..MaxFaults
    BY <1>00, <1>11 DEF Restart
  <2> QED BY <1>0, <1>11, <2>1, <2>2 DEF Restart, TypeOK
<1>12. ASSUME NEW d \in Drafters, ReadGate(d) PROVE TypeOK'
  BY <1>0, <1>12, ReadGateDraft DEF ReadGate, TypeOK
<1>13. ASSUME NEW d \in Drafters, GiveUp(d) PROVE TypeOK'
  BY <1>0, <1>13, DropDraft DEF GiveUp, TypeOK
<1>14. ASSUME NEW d \in Drafters, ComposeReply(d) PROVE TypeOK'
  <2>1. reply' \in [Messages -> Reply]
    BY <1>0, <1>14, ComposeTyped DEF TypeOK
  <2> QED BY <1>0, <1>14, <2>1, DropDraft DEF ComposeReply, TypeOK
<1>15. ASSUME NEW p \in Patterns, NEW kind \in {"none", "ALLOW", "BLOCK"}, SetPolicy(p, kind)
       PROVE  TypeOK'
  BY <1>0, <1>15, BoundsAssumption DEF SetPolicy, Edit, TypeOK
<1>16. ASSUME NEW t \in Threads, NEW to \in Places \ {"none"}, MoveToFolder(t, to)
       PROVE  TypeOK'
  <2>1. inbox' \subseteq Messages /\ strayed' \subseteq Messages
    BY <1>0, <1>16 DEF MoveToFolder, TakeOut, BringBack, Mail, TypeOK
  <2>2. filing' \in [thread : Threads, to : Places \ {"none"}] \cup {NoFiling}
    BY <1>0, <1>16 DEF MoveToFolder
  <2> QED BY <1>0, <1>16, <2>1, <2>2, BoundsAssumption DEF MoveToFolder, Edit, TypeOK
<1>17. CASE WriteDisposition
  <2>1. filing.thread \in Threads /\ filing.to \in Places
    BY <1>0, <1>17 DEF WriteDisposition, TypeOK
  <2> QED BY <1>0, <1>17, <2>1 DEF WriteDisposition, TypeOK
<1>18. ASSUME NEW i \in Rules, SwitchRule(i) PROVE TypeOK'
  BY <1>0, <1>18, BoundsAssumption DEF SwitchRule, Edit, TypeOK
<1>19. CASE SwitchAgents
  BY <1>0, <1>19, BoundsAssumption DEF SwitchAgents, Edit, TypeOK
<1>20. CASE UpdateMailbox
  <2>1. crowded' \in BOOLEAN /\ edits' \in 0..MaxEdits
    <3>1. crowded' \in BOOLEAN
      BY <1>0, <1>20 DEF UpdateMailbox, ToTheEnd, TypeOK
    <3>2. edits' \in 0..MaxEdits
      BY <1>0, <1>20, BoundsAssumption DEF UpdateMailbox, Edit, TypeOK
    <3> QED BY <3>1, <3>2
  <2> QED BY <1>0, <1>20, <2>1 DEF UpdateMailbox, TypeOK
<1>21. CASE OthersMove
  BY <1>0, <1>21 DEF OthersMove, TypeOK
<1> QED BY <1>1, <1>2, <1>3, <1>4, <1>5, <1>6, <1>7, <1>8, <1>9, <1>10, <1>11, <1>12, <1>13,
           <1>14, <1>15, <1>16, <1>17, <1>18, <1>19, <1>20, <1>21 DEF Next, SweepStep, DraftStep

-----------------------------------------------------------------------------
(***************************************************************************)
(* Four kinds of step: an arrival, a step of the sweep, a step of a draft, *)
(* and everything else, which only moves threads about.                    *)
(***************************************************************************)
\* What no step takes back.
Onward ==
    /\ clock <= clock'
    /\ \A m \in Messages : arrived[m] > 0 => arrived'[m] = arrived[m]
    /\ judged \subseteq judged' /\ strayed \subseteq strayed'

LEMMA StepsOnward == ASSUME IInv, Next PROVE Onward
<1> USE DEF IInv, box, people, replies
<1>1. ASSUME NEW m \in Messages, Arrive(m) PROVE Onward
  BY <1>1 DEF Arrive, Onward, TypeOK
<1>2. CASE ApplyRules \/ \E t \in Threads, to \in Places \ {"none"} : MoveToFolder(t, to)
  BY <1>2 DEF ApplyRules, MoveToFolder, TakeOut, BringBack, Onward, TypeOK
<1>3. CASE Tick \/ WriteVerdict
  <2>1. clock <= clock' /\ arrived' = arrived /\ judged \subseteq judged' /\ strayed' = strayed
    BY <1>3 DEF Tick, WriteVerdict, TypeOK
  <2> QED BY <2>1 DEF Onward
<1>4. CASE UNCHANGED <<clock, arrived, judged, strayed>>
  BY <1>4 DEF Onward, TypeOK
<1> QED BY <1>1, <1>2, <1>3, <1>4 DEF Next, SweepStep, DraftStep, StartSweep, PollInbound,
     JudgeNext, HandOff, AdvanceCursor, SweepFails, Restart, ReadGate, GiveUp,
     ComposeReply, SetPolicy, WriteDisposition, SwitchRule, SwitchAgents,
     UpdateMailbox, OthersMove

LEMMA MailKept == ASSUME IInv, Next PROVE MailInv'
<1> USE DEF IInv, box, people, replies
<1>1. ASSUME NEW m \in Messages, Arrive(m) PROVE MailInv'
  BY <1>1 DEF Arrive, MailInv, TypeOK, Stamps
<1>2. CASE Tick
  BY <1>2, BoundsAssumption DEF Tick, MailInv, TypeOK, Stamps
<1>3. CASE ApplyRules \/ \E t \in Threads, to \in Places \ {"none"} : MoveToFolder(t, to)
  <2>1. /\ arrived' = arrived /\ clock' = clock
        /\ \/ UNCHANGED <<inbox, strayed>>
           \/ \E t \in Threads : TakeOut(t) \/ BringBack(t)
    <3>1. CASE ApplyRules
      <4>1. sweep.at \in Messages
        BY <3>1, BusySweep DEF ApplyRules, BatchInv
      <4> QED BY <3>1, <4>1, MailAssumption DEF ApplyRules
    <3> QED BY <1>3, <3>1 DEF MoveToFolder
  <2> QED BY <2>1 DEF TakeOut, BringBack, Mail, MailInv, TypeOK, Stamps
<1>4. CASE UNCHANGED <<arrived, clock, inbox, strayed>>
  BY <1>4 DEF MailInv
<1> QED BY <1>1, <1>2, <1>3, <1>4 DEF Next, SweepStep, DraftStep, StartSweep, PollInbound,
     JudgeNext, WriteVerdict, HandOff, AdvanceCursor, SweepFails, Restart, ReadGate, GiveUp,
     ComposeReply, SetPolicy, WriteDisposition, SwitchRule, SwitchAgents,
     UpdateMailbox, OthersMove

-----------------------------------------------------------------------------
(***************************************************************************)
(* Where the cursor and the stamp of a poll come from.                     *)
(***************************************************************************)
LEMMA StampKept == ASSUME IInv, Next PROVE StampInv'
<1> USE DEF box, people, replies
<1>0. TypeOK /\ MailInv /\ StampInv /\ Onward
  BY StepsOnward DEF IInv
<1>1. \A n \in Messages : arrived[n] \in Nat /\ arrived[n] <= clock
  BY <1>0, BoundsAssumption DEF TypeOK, MailInv, Stamps
<1>2. cursor \in Nat /\ baseline \in Nat /\ clock \in Nat /\ clock' \in Nat
  BY <1>0, TypeKept, BoundsAssumption DEF TypeOK, Stamps
<1>3. CASE PollInbound
  <2>1. PICK W \in SUBSET inbox :
          /\ IF sweep.since = 0 /\ W = {} THEN sweep'.top = clock ELSE Newest(W, sweep'.top)
          /\ sweep'.since = sweep.since /\ sweep'.pc = "batch"
    BY <1>0, <1>3, PollTyped
  <2>2. sweep.since = cursor /\ inbox \subseteq Messages
    BY <1>0, <1>3 DEF StampInv, PollInbound, TypeOK
  <2>3. UNCHANGED <<cursor, baseline, clock, arrived>>
    BY <1>3 DEF PollInbound
  <2>4. /\ cursor <= sweep'.top /\ sweep'.top <= clock
        /\ cursor = 0 \/ sweep'.top = cursor \/ \E n \in Messages : arrived[n] = sweep'.top
    <3>1. CASE sweep.since = 0 /\ W = {}
      BY <1>0, <1>2, <2>1, <2>2, <3>1 DEF StampInv
    <3>2. CASE Newest(W, sweep'.top)
      BY <1>0, <1>1, <1>2, <2>1, <2>2, <3>2 DEF StampInv, Newest
    <3> QED BY <2>1, <3>1, <3>2
  <2> QED BY <1>0, <2>1, <2>2, <2>3, <2>4 DEF StampInv, Polled
<1>4. CASE AdvanceCursor
  <2>1. /\ Polled /\ sweep.since = cursor /\ cursor' = sweep.top /\ sweep' = Asleep
        /\ baseline' = IF sweep.since = 0 THEN sweep.top ELSE baseline
        /\ clock' = clock /\ arrived' = arrived
    BY <1>0, <1>4 DEF AdvanceCursor, Polled, StampInv
  <2>2. sweep.top \in Nat /\ cursor <= sweep.top /\ sweep.top <= clock
    BY <1>0, <1>4, <2>1, BusySweep, BoundsAssumption DEF AdvanceCursor, StampInv, Stamps
  <2> QED BY <1>0, <1>2, <2>1, <2>2, AsleepFields DEF StampInv, Polled
<1>5. CASE StartSweep
  BY <1>0, <1>5, StartTyped DEF StampInv, Polled, StartSweep
<1>6. CASE SweepFails \/ Restart
  BY <1>0, <1>6, AsleepFields DEF StampInv, Polled, SweepFails, Restart
<1>7. CASE JudgeNext \/ WriteVerdict \/ ApplyRules \/ HandOff
  <2>1. /\ sweep'.since = sweep.since /\ sweep'.top = sweep.top
        /\ UNCHANGED <<cursor, baseline, clock, arrived>> /\ Polled
    BY <1>0, <1>7, JudgeTyped, OnTyped, HandOffTyped
       DEF JudgeNext, WriteVerdict, ApplyRules, HandOff, Polled
  <2> QED BY <1>0, <2>1 DEF StampInv, Polled
<1>8. CASE UNCHANGED <<sweep, cursor, baseline>>
  <2>1. ASSUME NEW c \in Nat, c > 0, \E n \in Messages : arrived[n] = c
        PROVE  \E n \in Messages : arrived'[n] = c
    BY <1>0, <2>1 DEF Onward
  <2>2. Polled => sweep.top \in Nat
    BY <1>0, BusySweep, BoundsAssumption DEF Polled, Stamps
  <2>3. cursor > 0 => cursor <= baseline \/ \E n \in Messages : arrived'[n] = cursor
    BY <1>0, <1>2, <2>1 DEF StampInv
  <2>4. Polled => cursor = 0 \/ sweep.top = cursor \/ \E n \in Messages : arrived'[n] = sweep.top
    BY <1>0, <1>2, <2>1, <2>2 DEF StampInv
  <2>5. cursor <= clock' /\ (Polled => sweep.top <= clock')
    BY <1>0, <1>2, <2>2 DEF StampInv, Onward
  <2> QED BY <1>0, <1>8, <2>3, <2>4, <2>5 DEF StampInv, Polled
<1> QED BY <1>3, <1>4, <1>5, <1>6, <1>7, <1>8 DEF Next, SweepStep, DraftStep, Arrive, Tick,
     ReadGate, GiveUp, ComposeReply, SetPolicy, MoveToFolder, WriteDisposition, SwitchRule,
     SwitchAgents, UpdateMailbox, OthersMove

-----------------------------------------------------------------------------
(***************************************************************************)
(* The batch in memory.                                                    *)
(***************************************************************************)
\* An excuse is for good, and a message arriving at a stamp already used has one.
LEMMA ExcuseKept ==
    ASSUME IInv, Next, NEW m \in Messages, arrived[m] > 0, Excused(m), baseline' = baseline
    PROVE  Excused(m)'
<1>0. TypeOK /\ MailInv /\ Onward /\ TypeOK'
  BY StepsOnward, TypeKept DEF IInv
<1>1. arrived'[m] = arrived[m]
  BY <1>0 DEF Onward
<1>2. \A n \in Messages : arrived[n] \in Nat /\ arrived'[n] \in Nat
                         /\ (arrived[n] > 0 => arrived'[n] = arrived[n])
  BY <1>0, BoundsAssumption DEF TypeOK, Stamps, Onward
<1>3. CASE Cardinality({n \in Messages : arrived[n] >= arrived[m]}) > Limit
  <2> DEFINE S == {n \in Messages : arrived[n] >= arrived[m]}
             T == {n \in Messages : arrived'[n] >= arrived[m]}
  <2>1. S \subseteq T /\ T \subseteq Messages
    BY <1>2
  <2>2. IsFiniteSet(T)
    BY <2>1, MailAssumption, FS_Subset
  <2> HIDE DEF S, T
  <2>3. IsFiniteSet(S) /\ Cardinality(S) <= Cardinality(T) /\ Cardinality(S) \in Nat
        /\ Cardinality(T) \in Nat
    BY <2>1, <2>2, FS_Subset, FS_CardinalityType
  <2>4. Cardinality(T) > Limit
    BY <1>3, <2>3, BoundsAssumption DEF S
  <2> QED BY <1>1, <2>4 DEF T, Excused
<1>4. CASE \E n \in Messages \ {m} : arrived[n] = arrived[m]
  BY <1>1, <1>2, <1>4 DEF Excused
<1>5. CASE arrived[m] <= baseline \/ m \in strayed
  BY <1>0, <1>1, <1>5 DEF Excused, Onward
<1> QED BY <1>3, <1>4, <1>5 DEF Excused

\* A message arriving in a second that is some other message's is excused.
LEMMA ArrivalExcused ==
    ASSUME IInv, Next, NEW m \in Messages, arrived[m] = 0, arrived'[m] > 0,
           NEW c \in Nat, c > 0, arrived'[m] <= c, c <= clock,
           c <= baseline' \/ \E n \in Messages : arrived[n] = c
    PROVE  Excused(m)'
<1>0. TypeOK /\ Onward /\ TypeOK'
  BY StepsOnward, TypeKept DEF IInv
<1>1. Arrive(m)
  <2>0. arrived' # arrived
    OBVIOUS
  <2>1. \E n \in Messages : Arrive(n)
    BY <2>0 DEF Next, SweepStep, DraftStep, Tick, StartSweep, PollInbound, JudgeNext, WriteVerdict,
       ApplyRules, HandOff, AdvanceCursor, SweepFails, Restart, ReadGate, GiveUp, ComposeReply,
       SetPolicy, MoveToFolder, WriteDisposition, SwitchRule, SwitchAgents,
     UpdateMailbox, OthersMove
  <2>2. PICK n \in Messages : Arrive(n)
    BY <2>1
  <2>3. n = m
    BY <1>0, <2>2 DEF Arrive, TypeOK
  <2> QED BY <2>2, <2>3
<1>2. arrived'[m] = clock /\ clock \in Nat
  BY <1>0, <1>1, BoundsAssumption DEF Arrive, TypeOK
<1>3. arrived'[m] = c
  BY <1>2
<1>4. CASE \E n \in Messages : arrived[n] = c
  <2>1. PICK n \in Messages : arrived[n] = c
    BY <1>4
  <2>2. n # m /\ arrived'[n] = c
    BY <1>0, <2>1 DEF Onward
  <2> QED BY <1>3, <2>2 DEF Excused
<1> QED BY <1>3, <1>4 DEF Excused

\* A poll leaves out only what has that many newer messages before it.
LEMMA PollLeaves ==
    ASSUME IInv, PollInbound, NEW m \in Messages, cursor > 0,
           cursor < arrived[m], m \notin sweep'.todo
    PROVE  Excused(m)
<1>0. TypeOK /\ MailInv /\ StampInv
  BY DEF IInv
<1>1. PICK W \in SUBSET inbox : Window(W) /\ sweep'.todo = IF sweep.since = 0 THEN {}
                                  ELSE {n \in W : arrived[n] > sweep.since}
  BY <1>0, PollTyped
<1>2. sweep.since = cursor /\ cursor \in Nat
  BY <1>0, BoundsAssumption DEF StampInv, PollInbound, TypeOK, Stamps
<1>3. m \notin W
  BY <1>1, <1>2
<1>4. CASE m \notin inbox
  BY <1>0, <1>2, <1>4, BoundsAssumption DEF MailInv, TypeOK, Stamps, Excused
<1>5. CASE m \in inbox
  <2>1. IsFiniteSet(inbox) /\ IsFiniteSet(W) /\ W # inbox
    BY <1>0, <1>3, <1>5, MailAssumption, FS_Subset DEF TypeOK
  <2>2. Cardinality(W) \in Nat /\ Cardinality(inbox) \in Nat /\ Cardinality(W) # Cardinality(inbox)
    BY <2>1, FS_CardinalityType, FS_Subset
  <2>3. Cardinality(W) = Limit
    BY <1>1, <2>2 DEF Window
  <2> DEFINE S == {n \in Messages : arrived[n] >= arrived[m]}
  <2>4. \A n \in W : arrived[m] <= arrived[n]
    BY <1>1, <1>3, <1>5 DEF Window
  <2>5. W \cup {m} \subseteq S /\ IsFiniteSet(S)
    <3>1. \A n \in Messages : arrived[n] \in Nat
      BY <1>0, BoundsAssumption DEF TypeOK, Stamps
    <3>2. W \cup {m} \subseteq S
      BY <1>0, <2>4, <3>1 DEF TypeOK
    <3>3. S \subseteq Messages
      OBVIOUS
    <3> HIDE DEF S
    <3> QED BY <3>2, <3>3, MailAssumption, FS_Subset
  <2> HIDE DEF S
  <2>6. Cardinality(W \cup {m}) = Limit + 1 /\ IsFiniteSet(W \cup {m})
    BY <1>3, <2>1, <2>3, FS_AddElement
  <2>7. Cardinality(W \cup {m}) <= Cardinality(S) /\ Cardinality(S) \in Nat
    BY <2>5, FS_Subset, FS_CardinalityType
  <2>8. Cardinality(S) > Limit
    BY <2>6, <2>7, BoundsAssumption
  <2> QED BY <2>8 DEF S, Excused
<1> QED BY <1>4, <1>5

LEMMA BatchKept == ASSUME IInv, Next PROVE BatchInv'
<1> USE DEF box, people, replies
<1>0. TypeOK /\ MailInv /\ StampInv /\ BatchInv /\ Onward /\ TypeOK'
  BY StepsOnward, TypeKept DEF IInv
<1>1. \A n \in Messages : arrived[n] \in Nat /\ arrived'[n] \in Nat
  BY <1>0, BoundsAssumption DEF TypeOK, Stamps
<1>2. CASE PollInbound
  <2>1. sweep'.pc = "batch" /\ UNCHANGED <<arrived, cursor, baseline, judged, strayed>>
    BY <1>0, <1>2, PollTyped DEF PollInbound
  <2>2. \A m \in sweep'.todo : arrived[m] > 0
    <3>1. PICK W \in SUBSET inbox : sweep'.todo = IF sweep.since = 0 THEN {}
                                      ELSE {n \in W : arrived[n] > sweep.since}
      BY <1>0, <1>2, PollTyped
    <3> QED BY <1>0, <3>1 DEF MailInv, TypeOK
  <2>3. \A m \in Messages : cursor > 0 /\ cursor < arrived[m] => m \in sweep'.todo \/ Excused(m)
    BY <1>2, PollLeaves
  <2>4. \A m \in Messages : Excused(m)' <=> Excused(m)
    BY <2>1 DEF Excused
  <2> QED BY <2>1, <2>2, <2>3, <2>4 DEF BatchInv
<1>3. CASE AdvanceCursor \/ SweepFails \/ Restart
  <2>1. sweep' = Asleep
    BY <1>3 DEF AdvanceCursor, SweepFails, Restart
  <2> QED BY <2>1, AsleepFields DEF BatchInv, Polled
<1>4. CASE StartSweep
  BY <1>0, <1>4, StartTyped DEF BatchInv, Polled
<1>5. CASE JudgeNext \/ WriteVerdict \/ ApplyRules \/ HandOff
  <2>1. /\ UNCHANGED <<arrived, cursor, baseline>>
        /\ sweep.pc \in {"batch", "judging", "judged", "filed"}
        /\ sweep'.pc \in {"batch", "judging", "judged", "filed"}
        /\ sweep'.top = sweep.top
    BY <1>0, <1>5, JudgeTyped, OnTyped, HandOffTyped DEF JudgeNext, WriteVerdict, ApplyRules, HandOff
  <2>2. /\ sweep'.todo \subseteq sweep.todo
        /\ \A m \in sweep.todo \ sweep'.todo : m \in judged'
        /\ sweep'.pc \in {"judging", "judged", "filed"} => sweep'.at \in sweep'.todo
        /\ sweep'.pc \in {"judged", "filed"} => sweep'.at \in judged'
    <3>1. CASE JudgeNext
      BY <1>0, <3>1, JudgeTyped DEF JudgeNext
    <3>2. CASE WriteVerdict
      <4>1. judged' = judged \cup {sweep.at} /\ sweep.pc = "judging"
        BY <3>2 DEF WriteVerdict
      <4> QED BY <1>0, <3>2, <4>1, OnTyped DEF BatchInv
    <3>3. CASE ApplyRules
      <4>1. judged' = judged /\ sweep.pc = "judged"
        BY <3>3 DEF ApplyRules
      <4> QED BY <1>0, <3>3, <4>1, OnTyped DEF BatchInv
    <3>4. CASE HandOff
      <4>1. judged' = judged /\ sweep.pc = "filed"
        BY <3>4 DEF HandOff
      <4> QED BY <1>0, <3>4, <4>1, HandOffTyped DEF BatchInv
    <3> QED BY <1>5, <3>1, <3>2, <3>3, <3>4
  <2>3. \A m \in Messages : arrived[m] > 0 /\ Excused(m) => Excused(m)'
    BY <2>1, ExcuseKept
  <2>4. cursor \in Nat
    BY <1>0, BoundsAssumption DEF TypeOK, Stamps
  <2>5. ASSUME NEW m \in Messages, cursor' > 0, cursor' < arrived'[m],
               arrived'[m] <= sweep'.top, m \notin judged', m \notin sweep'.todo
        PROVE  Excused(m)'
    <3>1. m \notin judged /\ m \notin sweep.todo
      BY <1>0, <2>2, <2>5 DEF Onward
    <3>2. Excused(m)
      BY <1>0, <2>1, <2>5, <3>1 DEF BatchInv, Polled
    <3> QED BY <1>1, <2>1, <2>3, <2>4, <2>5, <3>2
  <2>6. \A m \in sweep'.todo : arrived'[m] > 0
    BY <1>0, <2>1, <2>2 DEF BatchInv
  <2> QED BY <2>2, <2>5, <2>6 DEF BatchInv
<1>6. CASE UNCHANGED <<sweep, cursor, baseline, judged>>
  <2>1. Polled => sweep.top \in Nat /\ sweep.top <= clock /\ sweep.todo \subseteq Messages
    BY <1>0, BusySweep, BoundsAssumption DEF Polled, StampInv, Stamps
  <2>2. cursor \in Nat
    BY <1>0, BoundsAssumption DEF TypeOK, Stamps
  <2>3. \A m \in sweep.todo : arrived'[m] > 0
    <3>1. sweep.todo \subseteq Messages
      BY <1>0 DEF TypeOK, Asleep, Sweep
    <3> QED BY <1>0, <3>1 DEF BatchInv, Onward
  <2>4. ASSUME NEW m \in Messages, Polled, cursor > 0, cursor < arrived'[m],
               arrived'[m] <= sweep.top, m \notin judged, m \notin sweep.todo
        PROVE  Excused(m)'
    <3>1. CASE arrived[m] > 0
      <4>1. Excused(m)
        BY <1>0, <2>4, <3>1 DEF BatchInv, Onward
      <4> QED BY <1>6, <3>1, <4>1, ExcuseKept
    <3>2. CASE ~(arrived[m] > 0)
      <4>1. arrived[m] = 0 /\ arrived'[m] > 0 /\ sweep.top > 0 /\ sweep.top # cursor
        BY <1>1, <2>1, <2>2, <2>4, <3>2
      <4>2. \E n \in Messages : arrived[n] = sweep.top
        BY <1>0, <2>2, <2>4, <4>1 DEF StampInv
      <4> QED BY <2>1, <2>4, <4>1, <4>2, ArrivalExcused
    <3> QED BY <3>1, <3>2
  <2> QED BY <1>0, <1>6, <2>3, <2>4 DEF BatchInv, Polled
<1> QED BY <1>2, <1>3, <1>4, <1>5, <1>6 DEF Next, SweepStep, DraftStep, Arrive, Tick,
     ReadGate, GiveUp, ComposeReply, SetPolicy, MoveToFolder, WriteDisposition, SwitchRule,
     SwitchAgents, UpdateMailbox, OthersMove

LEMMA SkipsKept == ASSUME IInv, Next PROVE SkipsHaveACause'
<1> USE DEF box, people, replies
<1>0. /\ TypeOK /\ MailInv /\ StampInv /\ BatchInv /\ SkipsHaveACause /\ Onward /\ TypeOK'
      /\ StampInv'
  BY StepsOnward, TypeKept, StampKept DEF IInv
<1>1. \A n \in Messages : arrived[n] \in Nat /\ arrived'[n] \in Nat
  BY <1>0, BoundsAssumption DEF TypeOK, Stamps
<1>2. cursor \in Nat /\ cursor' \in Nat /\ clock \in Nat /\ baseline' \in Nat
  BY <1>0, BoundsAssumption DEF TypeOK, Stamps
<1> SUFFICES ASSUME NEW m \in Messages, 0 < arrived'[m], arrived'[m] <= cursor', m \notin judged'
             PROVE  Excused(m)'
  BY DEF SkipsHaveACause, Excused
<1>3. m \notin judged
  BY <1>0 DEF Onward
<1>4. arrived[m] > 0 /\ arrived[m] <= cursor => Excused(m)
  BY <1>0, <1>3 DEF SkipsHaveACause, Excused
<1>5. CASE AdvanceCursor
  <2>1. /\ cursor' = sweep.top /\ arrived' = arrived /\ sweep.todo = {} /\ sweep.since = cursor
        /\ baseline' = IF sweep.since = 0 THEN sweep.top ELSE baseline
        /\ Polled
    BY <1>0, <1>5 DEF AdvanceCursor, StampInv, Polled
  <2>2. CASE cursor = 0
    BY <2>1, <2>2 DEF Excused
  <2>3. CASE cursor > 0
    <3>1. Excused(m)
      BY <1>0, <1>1, <1>2, <1>3, <1>4, <2>1, <2>3 DEF BatchInv
    <3> QED BY <1>2, <2>1, <2>3, <3>1, ExcuseKept
  <2> QED BY <1>2, <2>2, <2>3
<1>6. CASE ~AdvanceCursor
  <2>1. cursor' = cursor /\ baseline' = baseline
    BY <1>6 DEF Next, SweepStep, DraftStep, Arrive, Tick, StartSweep, PollInbound, JudgeNext,
       WriteVerdict, ApplyRules, HandOff, SweepFails, Restart, ReadGate, GiveUp, ComposeReply,
       SetPolicy, MoveToFolder, WriteDisposition, SwitchRule, SwitchAgents,
     UpdateMailbox, OthersMove
  <2>2. CASE arrived[m] > 0
    <3>1. Excused(m)
      BY <1>0, <1>4, <2>1, <2>2 DEF Onward
    <3> QED BY <2>1, <2>2, <3>1, ExcuseKept
  <2>3. CASE arrived[m] = 0
    <3>1. cursor > 0 /\ cursor <= clock
          /\ (cursor <= baseline' \/ \E n \in Messages : arrived[n] = cursor)
      BY <1>0, <1>1, <1>2, <2>1 DEF StampInv
    <3> QED BY <1>2, <2>1, <2>3, <3>1, ArrivalExcused
  <2> QED BY <1>1, <2>2, <2>3
<1> QED BY <1>5, <1>6

-----------------------------------------------------------------------------
(***************************************************************************)
(* The replies.                                                            *)
(***************************************************************************)
\* A step that is not a compose leaves the replies alone.
LEMMA OnlyComposes ==
    ASSUME Next, \A d \in Drafters : ~ComposeReply(d)
    PROVE  reply' = reply
BY DEF Next, SweepStep, DraftStep, Arrive, Tick, StartSweep, PollInbound, JudgeNext, WriteVerdict,
   ApplyRules, HandOff, AdvanceCursor, SweepFails, Restart, ReadGate, GiveUp, SetPolicy,
   MoveToFolder, WriteDisposition, SwitchRule, SwitchAgents, UpdateMailbox, OthersMove,
   box, people, replies

LEMMA DraftKept == ASSUME IInv, Next PROVE DraftInv'
<1> USE DEF box, people, replies
<1>0. TypeOK /\ BatchInv /\ DraftInv /\ Onward
  BY StepsOnward DEF IInv
<1>1. ASSUME NEW d \in Drafters, draft[d].pc # "idle"
      PROVE  arrived'[draft[d].at] > 0
  BY <1>0, <1>1, DraftFields DEF DraftInv, Onward
<1>2. ASSUME NEW d \in Drafters, draft'[d] = draft[d]
      PROVE  /\ draft'[d].pc # "idle" => arrived'[draft'[d].at] > 0
             /\ draft'[d].pc = "gated" =>
                   /\ draft'[d].wants = "SEND" => draft'[d].sends < ThreadCap
                   /\ draft'[d].composes < MailboxCap
  BY <1>0, <1>1, <1>2 DEF DraftInv
<1>3. CASE HandOff
  <2>1. sweep.at \in Messages /\ arrived[sweep.at] > 0
    BY <1>0, <1>3, BusySweep DEF HandOff, BatchInv
  <2>2. arrived'[sweep.at] > 0
    BY <1>0, <2>1 DEF Onward
  <2>3. \A d \in Drafters : \/ draft'[d] = draft[d]
                            \/ draft'[d].pc = "asked" /\ draft'[d].at = sweep.at
    BY <1>0, <1>3, <2>1, HandOffDraft
  <2> QED BY <1>2, <2>2, <2>3 DEF DraftInv
<1>4. CASE Restart
  <2>1. \A d \in Drafters : draft'[d].pc = "idle"
    BY <1>4 DEF Restart, NoDraft
  <2> QED BY <2>1 DEF DraftInv
<1>5. ASSUME NEW d \in Drafters, ReadGate(d) PROVE DraftInv'
  <2>1. draft[d].pc = "asked"
    BY <1>5 DEF ReadGate
  <2>2. CASE draft'[d].pc = "idle"
    BY <1>0, <1>2, <1>5, <2>2, ReadGateDraft DEF DraftInv
  <2>3. CASE draft'[d].pc # "idle"
    <3>1. /\ draft'[d].pc = "gated" /\ draft'[d].at = draft[d].at
          /\ draft'[d].wants = "SEND" => draft'[d].sends < ThreadCap
          /\ draft'[d].composes < MailboxCap
          /\ \A e \in Drafters \ {d} : draft'[e] = draft[e]
      BY <1>0, <1>5, <2>3, ReadGateDraft
    <3>2. arrived'[draft'[d].at] > 0
      BY <1>1, <2>1, <3>1
    <3> QED BY <1>2, <3>1, <3>2 DEF DraftInv
  <2> QED BY <2>2, <2>3
<1>6. ASSUME NEW d \in Drafters, GiveUp(d) \/ ComposeReply(d) PROVE DraftInv'
  <2>1. draft'[d].pc = "idle" /\ \A e \in Drafters \ {d} : draft'[e] = draft[e]
    BY <1>0, <1>6, DropDraft
  <2> QED BY <1>2, <2>1 DEF DraftInv
<1>7. CASE draft' = draft
  BY <1>2, <1>7 DEF DraftInv
<1> QED BY <1>3, <1>4, <1>5, <1>6, <1>7 DEF Next, SweepStep, DraftStep, Arrive, Tick, StartSweep,
     PollInbound, JudgeNext, WriteVerdict, ApplyRules, AdvanceCursor, SweepFails, SetPolicy,
     MoveToFolder, WriteDisposition, SwitchRule, SwitchAgents,
     UpdateMailbox, OthersMove

LEMMA ReplyKept == ASSUME IInv, Next PROVE ReplyInv' /\ AnsweredOnce'
<1>0. TypeOK /\ DraftInv /\ ReplyInv /\ AnsweredOnce /\ Onward
  BY StepsOnward DEF IInv
<1>1. \A n \in Messages : reply[n].times \in Nat
  BY <1>0 DEF TypeOK, Reply
<1>2. ASSUME NEW n \in Messages, reply[n].times > 0
      PROVE  arrived[n] > 0 /\ arrived'[n] = arrived[n]
  BY <1>0, <1>2 DEF ReplyInv, Onward
<1>3. CASE reply' = reply
  <2>1. ReplyInv'
    BY <1>0, <1>2, <1>3 DEF ReplyInv
  <2>2. AnsweredOnce'
    BY <1>0, <1>2, <1>3 DEF AnsweredOnce, Ref
  <2> QED BY <2>1, <2>2
<1>4. CASE reply' # reply
  <2>1. PICK d \in Drafters : ComposeReply(d)
    BY <1>4, OnlyComposes
  <2>2. PICK m \in Messages, mode \in {"SEND", "DRAFT"} :
              /\ m = draft[d].at /\ draft[d].pc = "gated"
              /\ ~\E n \in Messages : reply[n].times > 0 /\ Ref(n) = Ref(m)
              /\ \A n \in Messages \ {m} : reply'[n] = reply[n]
              /\ reply'[m].mode = mode /\ reply'[m].times = reply[m].times + 1
    BY <1>0, <1>4, <2>1, ComposeTyped
  <2>3. reply[m].times = 0 /\ reply'[m].times = 1
    BY <1>1, <2>2
  <2>4. arrived[m] > 0 /\ arrived' = arrived
    BY <1>0, <2>1, <2>2 DEF DraftInv, ComposeReply
  <2>5. ReplyInv'
    BY <1>0, <2>2, <2>3, <2>4 DEF ReplyInv
  <2>6. \A n \in Messages : reply'[n].times <= 1
    BY <1>0, <2>2, <2>3 DEF AnsweredOnce
  <2>7. ASSUME NEW x \in Messages, NEW y \in Messages,
               reply'[x].times > 0, reply'[y].times > 0, Ref(x)' = Ref(y)'
        PROVE  x = y
    <3>1. Ref(x) = Ref(y)
      BY <2>4, <2>7 DEF Ref
    <3> QED BY <1>0, <2>2, <2>7, <3>1 DEF AnsweredOnce
  <2> QED BY <2>5, <2>6, <2>7 DEF AnsweredOnce
<1> QED BY <1>3, <1>4

(***************************************************************************)
(* Counting: one more send than were read is within the cap, or is late    *)
(* and counted on both sides.                                              *)
(***************************************************************************)
LEMMA OneMore ==
    ASSUME NEW S, NEW L, NEW S1, NEW L1, NEW m, NEW cap \in Nat,
           IsFiniteSet(S), L \subseteq S, m \notin S, S1 = S \cup {m},
           Cardinality(S) <= cap + Cardinality(L),
           (L1 = L \cup {m}) \/ (L1 = L /\ Cardinality(S) < cap)
    PROVE  Cardinality(S1) <= cap + Cardinality(L1)
<1>1. Cardinality(S1) = Cardinality(S) + 1 /\ Cardinality(S) \in Nat
  BY FS_AddElement, FS_CardinalityType
<1>2. IsFiniteSet(L) /\ Cardinality(L) \in Nat /\ m \notin L
  BY FS_Subset, FS_CardinalityType
<1>3. CASE L1 = L \cup {m}
  <2>1. Cardinality(L1) = Cardinality(L) + 1
    BY <1>2, <1>3, FS_AddElement
  <2> QED BY <1>1, <1>2, <2>1
<1>4. CASE L1 = L /\ Cardinality(S) < cap
  BY <1>1, <1>2, <1>4
<1> QED BY <1>3, <1>4

LEMMA CapsKept == ASSUME IInv, Next PROVE CapsHoldButForRaces'
<1>0. TypeOK /\ DraftInv /\ ReplyInv /\ CapsHoldButForRaces
  BY DEF IInv
<1>1. CASE reply' = reply
  BY <1>0, <1>1 DEF CapsHoldButForRaces, SendsOf, Composes
<1>2. CASE reply' # reply
  <2>1. PICK d \in Drafters : ComposeReply(d)
    BY <1>2, OnlyComposes
  <2>2. PICK m \in Messages, mode \in {"SEND", "DRAFT"} :
              /\ m = draft[d].at /\ draft[d].pc = "gated"
              /\ ~\E n \in Messages : reply[n].times > 0 /\ Ref(n) = Ref(m)
              /\ mode = "SEND" => draft[d].wants = "SEND"
              /\ \A n \in Messages \ {m} : reply'[n] = reply[n]
              /\ reply'[m].mode = mode
              /\ reply'[m].lateThread = (Cardinality(SendsOf(ThreadOf[m])) # draft[d].sends)
              /\ reply'[m].lateBox = (Cardinality(Composes) # draft[d].composes)
    BY <1>0, <1>2, <2>1, ComposeTyped
  <2>3. reply[m].mode = "none"
    BY <1>0, <2>2 DEF ReplyInv, TypeOK, Reply
  <2>4. /\ draft[d].sends \in Nat /\ draft[d].composes \in Nat
        /\ mode = "SEND" => draft[d].sends < ThreadCap
        /\ draft[d].composes < MailboxCap
    BY <1>0, <2>2, DraftFields DEF DraftInv
  <2>5. ASSUME NEW t \in Threads
        PROVE  Cardinality(SendsOf(t)') <=
                  ThreadCap + Cardinality({n \in SendsOf(t) : reply[n].lateThread}')
    <3>1. CASE t = ThreadOf[m] /\ mode = "SEND"
      <4>1. SendsOf(t)' = SendsOf(t) \cup {m} /\ m \notin SendsOf(t)
        BY <2>2, <2>3, <3>1 DEF SendsOf
      <4>2. \A n \in SendsOf(t) : n # m /\ reply'[n] = reply[n]
        BY <4>1, <2>2 DEF SendsOf
      <4>3. \/ {n \in SendsOf(t) : reply[n].lateThread}' =
                  {n \in SendsOf(t) : reply[n].lateThread} \cup {m}
            \/ /\ {n \in SendsOf(t) : reply[n].lateThread}' =
                     {n \in SendsOf(t) : reply[n].lateThread}
               /\ Cardinality(SendsOf(t)) < ThreadCap
        <5>1. CASE reply'[m].lateThread
          BY <4>1, <4>2, <5>1
        <5>2. CASE ~reply'[m].lateThread
          <6>1. {n \in SendsOf(t) : reply[n].lateThread}' =
                     {n \in SendsOf(t) : reply[n].lateThread}
            BY <4>1, <4>2, <5>2
          <6>2. Cardinality(SendsOf(t)) = draft[d].sends
            BY <2>2, <3>1, <5>2
          <6> QED BY <2>4, <3>1, <6>1, <6>2
        <5> QED BY <5>1, <5>2
      <4>4. IsFiniteSet(SendsOf(t)) /\ ThreadCap \in Nat
            /\ {n \in SendsOf(t) : reply[n].lateThread} \subseteq SendsOf(t)
        BY Counted, BoundsAssumption
      <4>5. Cardinality(SendsOf(t)) <=
               ThreadCap + Cardinality({n \in SendsOf(t) : reply[n].lateThread})
        BY <1>0 DEF CapsHoldButForRaces
      <4> QED BY <4>1, <4>3, <4>4, <4>5, OneMore
    <3>2. CASE ~(t = ThreadOf[m] /\ mode = "SEND")
      <4>1. /\ SendsOf(t)' = SendsOf(t)
            /\ \A n \in SendsOf(t) : reply'[n] = reply[n]
        BY <2>2, <2>3, <3>2 DEF SendsOf
      <4>2. {n \in SendsOf(t) : reply[n].lateThread}' = {n \in SendsOf(t) : reply[n].lateThread}
        BY <4>1
      <4> QED BY <1>0, <4>1, <4>2 DEF CapsHoldButForRaces
    <3> QED BY <3>1, <3>2
  <2>6. Cardinality(Composes') <=
           MailboxCap + Cardinality({n \in Composes : reply[n].lateBox}')
    <3>1. Composes' = Composes \cup {m} /\ m \notin Composes
      BY <2>2, <2>3 DEF Composes
    <3>2. \A n \in Composes : n # m /\ reply'[n] = reply[n]
      BY <3>1, <2>2 DEF Composes
    <3>3. \/ {n \in Composes : reply[n].lateBox}' = {n \in Composes : reply[n].lateBox} \cup {m}
          \/ /\ {n \in Composes : reply[n].lateBox}' = {n \in Composes : reply[n].lateBox}
             /\ Cardinality(Composes) < MailboxCap
      <4>1. CASE reply'[m].lateBox
        BY <3>1, <3>2, <4>1
      <4>2. CASE ~reply'[m].lateBox
        <5>1. {n \in Composes : reply[n].lateBox}' = {n \in Composes : reply[n].lateBox}
          BY <3>1, <3>2, <4>2
        <5>2. Cardinality(Composes) = draft[d].composes
          BY <2>2, <4>2
        <5> QED BY <2>4, <5>1, <5>2
      <4> QED BY <4>1, <4>2
    <3>4. IsFiniteSet(Composes) /\ MailboxCap \in Nat
          /\ {n \in Composes : reply[n].lateBox} \subseteq Composes
      BY Counted, BoundsAssumption
    <3>5. Cardinality(Composes) <= MailboxCap + Cardinality({n \in Composes : reply[n].lateBox})
      BY <1>0 DEF CapsHoldButForRaces
    <3> QED BY <3>1, <3>3, <3>4, <3>5, OneMore
  <2> QED BY <2>5, <2>6 DEF CapsHoldButForRaces
<1> QED BY <1>1, <1>2

-----------------------------------------------------------------------------
LEMMA IInvKept == ASSUME IInv, [Next]_vars PROVE IInv'
<1>1. CASE Next
  BY <1>1, TypeKept, MailKept, StampKept, BatchKept, DraftKept, ReplyKept, CapsKept, SkipsKept
     DEF IInv
<1>2. CASE UNCHANGED vars
  <2> USE <1>2 DEF vars, box, people, replies
  <2>1. TypeOK'
    BY TypeKept
  <2>2. MailInv' /\ StampInv' /\ BatchInv'
    BY DEF IInv, MailInv, StampInv, BatchInv, Polled, Excused
  <2>3. DraftInv' /\ ReplyInv' /\ AnsweredOnce'
    BY DEF IInv, DraftInv, ReplyInv, AnsweredOnce, Ref
  <2>4. CapsHoldButForRaces' /\ SkipsHaveACause'
    BY DEF IInv, CapsHoldButForRaces, SendsOf, Composes, SkipsHaveACause
  <2> QED BY <2>1, <2>2, <2>3, <2>4 DEF IInv
<1> QED BY <1>1, <1>2

THEOREM Invariance == Spec => []IInv
<1>1. Init => IInv
  BY InitIInv
<1>2. IInv /\ [Next]_vars => IInv'
  BY IInvKept
<1> QED BY <1>1, <1>2, PTL DEF Spec

(***************************************************************************)
(* Every state of the watcher and its replies is well formed.              *)
(***************************************************************************)
THEOREM TypeCorrect == Spec => []TypeOK
<1>1. IInv => TypeOK
  BY DEF IInv
<1> QED BY <1>1, Invariance, PTL

(***************************************************************************)
(* draftReplyForInbound makes one compose for a message, however often the *)
(* watcher polls it again.                                                 *)
(***************************************************************************)
THEOREM AnsweredAtMostOnce == Spec => []AnsweredOnce
<1>1. IInv => AnsweredOnce
  BY DEF IInv
<1> QED BY <1>1, Invariance, PTL

(***************************************************************************)
(* Both reply caps are exceeded only by replies decided on outdated counts.*)
(***************************************************************************)
THEOREM CapsHold == Spec => []CapsHoldButForRaces
<1>1. IInv => CapsHoldButForRaces
  BY DEF IInv
<1> QED BY <1>1, Invariance, PTL

(***************************************************************************)
(* The cursor of pollOne passes unclassified mail for three reasons only,  *)
(* through any failures and restarts.                                      *)
(***************************************************************************)
THEOREM NothingSkippedWithoutCause == Spec => []SkipsHaveACause
<1>1. IInv => SkipsHaveACause
  BY DEF IInv
<1> QED BY <1>1, Invariance, PTL

-----------------------------------------------------------------------------
(***************************************************************************)
(* Replies drafted one at a time.  The counts the gate has read are still  *)
(* the counts when the reply is composed, so that no reply is late.        *)
(***************************************************************************)
CountInv ==
    /\ \A d \in Drafters : draft[d].pc = "gated" =>
          /\ draft[d].sends = Cardinality(SendsOf(ThreadOf[draft[d].at]))
          /\ draft[d].composes = Cardinality(Composes)
    /\ \A m \in Messages : ~reply[m].lateThread /\ ~reply[m].lateBox

WithinCaps ==
    /\ \A t \in Threads : Cardinality(SendsOf(t)) <= ThreadCap
    /\ Cardinality(Composes) <= MailboxCap

LEMMA GateCounts ==
    ASSUME TypeOK, NEW d \in Drafters, ReadGate(d), draft'[d].pc = "gated"
    PROVE  /\ draft'[d].sends = Cardinality(SendsOf(ThreadOf[draft'[d].at]))
           /\ draft'[d].composes = Cardinality(Composes)
<1>1. ~Drop(d)
  BY SetDraft, DraftFields DEF Drop
<1>2. PICK wants \in {"SEND", "DRAFT"} : Ask(d, wants)
  BY <1>1 DEF ReadGate
<1>3. PICK sends, composes : /\ sends = Cardinality(SendsOf(ThreadOf[draft[d].at]))
                             /\ composes = Cardinality(Composes)
  OBVIOUS
<1>4. PICK r : r = [pc |-> "gated", at |-> draft[d].at, wants |-> wants, sends |-> sends,
                    composes |-> composes]
  OBVIOUS
<1>5. draft' = [draft EXCEPT ![d] = r]
  BY <1>2, <1>3, <1>4 DEF Ask
<1>6. draft'[d] = r
  BY <1>5 DEF TypeOK
<1>7. r.at = draft[d].at /\ r.sends = sends /\ r.composes = composes
  BY <1>4
<1> QED BY <1>3, <1>6, <1>7

\* Besides the hand-off and a restart only a reply's own steps move a draft.
LEMMA OnlyDrafting ==
    ASSUME Next, ~HandOff, ~Restart,
           \A d \in Drafters : ~ReadGate(d) /\ ~GiveUp(d) /\ ~ComposeReply(d)
    PROVE  draft' = draft
<1> USE DEF box, people, replies
<1>1. StartSweep \/ PollInbound \/ JudgeNext => draft' = draft
  <2>1. StartSweep => draft' = draft
    BY Zenon DEF StartSweep
  <2>2. PollInbound => draft' = draft
    BY Zenon DEF PollInbound
  <2>3. JudgeNext => draft' = draft
    BY Zenon DEF JudgeNext
  <2> QED BY <2>1, <2>2, <2>3
<1>2. WriteVerdict \/ ApplyRules \/ AdvanceCursor \/ SweepFails => draft' = draft
  BY DEF WriteVerdict, ApplyRules, AdvanceCursor, SweepFails
<1>3. Tick \/ WriteDisposition \/ SwitchAgents \/ UpdateMailbox \/ OthersMove => draft' = draft
  BY DEF Tick, WriteDisposition, SwitchAgents, UpdateMailbox, OthersMove
<1>4. /\ \A m \in Messages : Arrive(m) => draft' = draft
      /\ \A i \in Rules : SwitchRule(i) => draft' = draft
  BY DEF Arrive, SwitchRule
<1>5. /\ \A p \in Patterns, kind \in {"none", "ALLOW", "BLOCK"} :
            SetPolicy(p, kind) => draft' = draft
      /\ \A t \in Threads, to \in Places \ {"none"} : MoveToFolder(t, to) => draft' = draft
  BY DEF SetPolicy, MoveToFolder
<1> QED BY <1>1, <1>2, <1>3, <1>4, <1>5 DEF Next, SweepStep, DraftStep

LEMMA CountKept ==
    ASSUME \A d, e \in Drafters : d = e, IInv, CountInv, [Next]_vars
    PROVE  CountInv'
<1>0. TypeOK /\ BatchInv
  BY DEF IInv
<1>1. CASE UNCHANGED vars
  BY <1>1 DEF vars, replies, CountInv, SendsOf, Composes
<1>2. CASE Next /\ reply' = reply
  <2>1. (\A t \in Threads : SendsOf(t)' = SendsOf(t)) /\ Composes' = Composes
        /\ \A m \in Messages : ~reply'[m].lateThread /\ ~reply'[m].lateBox
    BY <1>2 DEF CountInv, SendsOf, Composes
  <2> SUFFICES ASSUME NEW d \in Drafters, draft'[d].pc = "gated"
               PROVE  /\ draft'[d].sends = Cardinality(SendsOf(ThreadOf[draft'[d].at]))
                      /\ draft'[d].composes = Cardinality(Composes)
                      /\ draft'[d].at \in Messages
    BY <2>1, MailAssumption DEF CountInv
  <2>2. CASE draft'[d] = draft[d]
    BY <1>0, <2>2, DraftFields DEF CountInv
  <2>3. CASE ReadGate(d)
    <3>1. draft'[d].at = draft[d].at /\ draft[d].at \in Messages
      BY <1>0, <2>3, ReadGateDraft, DraftFields DEF ReadGate
    <3> QED BY <1>0, <2>3, <3>1, GateCounts
  <2>4. CASE HandOff
    <3>1. sweep.at \in Messages
      BY <1>0, <2>4, BusySweep DEF HandOff, BatchInv
    <3> QED BY <1>0, <2>2, <2>4, <3>1, HandOffDraft
  <2>5. CASE Restart
    BY <2>5 DEF Restart, NoDraft
  <2>6. CASE GiveUp(d) \/ ComposeReply(d)
    BY <1>0, <2>6, DropDraft
  <2>7. CASE draft' = draft
    BY <2>2, <2>7
  <2>8. \/ draft' = draft \/ HandOff \/ Restart
        \/ \E e \in Drafters : ReadGate(e) \/ GiveUp(e) \/ ComposeReply(e)
    BY <1>2, OnlyDrafting
  <2>9. CASE \E e \in Drafters : ReadGate(e) \/ GiveUp(e) \/ ComposeReply(e)
    <3>1. PICK e \in Drafters : ReadGate(e) \/ GiveUp(e) \/ ComposeReply(e)
      BY <2>9
    <3>2. e = d
      OBVIOUS
    <3>3. ReadGate(d) \/ GiveUp(d) \/ ComposeReply(d)
      BY ONLY <3>1, <3>2
    <3> QED BY <2>3, <2>6, <3>3
  <2> QED BY <2>4, <2>5, <2>7, <2>8, <2>9
<1>3. CASE Next /\ reply' # reply
  <2>1. PICK d \in Drafters : ComposeReply(d)
    BY <1>3, OnlyComposes
  <2>2. \A e \in Drafters : draft'[e].pc = "idle"
    BY <1>0, <2>1, DropDraft
  <2>3. PICK m \in Messages :
              /\ m = draft[d].at /\ draft[d].pc = "gated"
              /\ \A n \in Messages \ {m} : reply'[n] = reply[n]
              /\ reply'[m].lateThread = (Cardinality(SendsOf(ThreadOf[m])) # draft[d].sends)
              /\ reply'[m].lateBox = (Cardinality(Composes) # draft[d].composes)
    BY <1>0, <1>3, <2>1, ComposeTyped
  <2>4. ~reply'[m].lateThread /\ ~reply'[m].lateBox
    BY <2>3 DEF CountInv
  <2> QED BY <2>2, <2>3, <2>4 DEF CountInv
<1> QED BY <1>1, <1>2, <1>3

(***************************************************************************)
(* A deployment that drafts one reply at a time keeps both caps of         *)
(* draftReplyForInbound exactly, through restarts, failures and messages   *)
(* polled again: the overruns of CapsHoldButForRaces need two replies in   *)
(* flight between the gate's read and the compose.                         *)
(***************************************************************************)
THEOREM CapsAreExactAlone ==
    ASSUME \A d, e \in Drafters : d = e
    PROVE  Spec => []WithinCaps
<1>1. Init => CountInv
  BY DEF Init, CountInv, NoDraft, Unanswered
<1>2. IInv /\ CountInv /\ [Next]_vars => CountInv'
  BY CountKept
<1>3. ASSUME IInv, CountInv PROVE WithinCaps
  <2>1. /\ \A t \in Threads : {m \in SendsOf(t) : reply[m].lateThread} = {}
        /\ {m \in Composes : reply[m].lateBox} = {}
    BY <1>3 DEF CountInv, SendsOf, Composes
  <2>2. /\ \A t \in Threads : Cardinality({m \in SendsOf(t) : reply[m].lateThread}) = 0
        /\ Cardinality({m \in Composes : reply[m].lateBox}) = 0
    BY <2>1, FS_EmptySet
  <2>3. ThreadCap + 0 = ThreadCap /\ MailboxCap + 0 = MailboxCap
    BY BoundsAssumption
  <2> QED BY <1>3, <2>2, <2>3 DEF IInv, CapsHoldButForRaces, WithinCaps
<1> QED BY <1>1, <1>2, <1>3, Invariance, PTL DEF Spec
=============================================================================
