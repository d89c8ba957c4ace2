------------------------ MODULE OutreachSenderProofs ------------------------
(* What the sender guarantees for any number of companies, follow-ups,       *)
(* workers, retries and crashes, when cycles do not overlap (the workflow's  *)
(* concurrency group) and drafts are not staged over existing rows.          *)
EXTENDS OutreachSender, SendGuardTheorems

Deployed == ~Overlap /\ ~Restage

\* At most one cycle runs; a worker off duty has nothing in hand.
OneCycle ==
  /\ \A v, w \in Workers : pc[v] # "off" /\ pc[w] # "off" => v = w
  /\ \A w \in Workers : /\ item[w] # {} => pc[w] \in Handling \cup {"bounce"}
                        /\ todo[w] # {} => pc[w] = "recovering"
                        /\ \A i, j \in item[w] : i = j

\* The row in hand is claimed, and how far its email got is known from where
\* the worker stands.
InHand ==
  \A w \in Workers : \A it \in item[w] : pc[w] \in Handling =>
    /\ qstate[it.row] = "claimed" /\ ~stale[it.row] /\ it.id = msgid[it.row]
    /\ pc[w] \in {"smtp", "file", "record", "lookup"} => it.id \in Ids
    /\ pc[w] \in {"claimed", "guarded", "smtp"} => delivered[it.row] = 0
    /\ pc[w] \in {"file", "record"} => delivered[it.row] = 1

\* The rows recover() read are still as it read them.
Selected ==
  \A w \in Workers : \A t \in todo[w] :
    qstate[t.row] = "claimed" /\ stale[t.row] /\ t.id = msgid[t.row]

\* A row whose email left carries its Message-ID and is not offered again.
Marked ==
  \A r \in Rows :
    /\ delivered[r] \in {0, 1}
    /\ delivered[r] = 1 => msgid[r] \in Ids /\ qstate[r] \in {"claimed", "sent", "ambiguous"}
    /\ qstate[r] = "sent" => delivered[r] = 1
    /\ qstate[r] = "claimed" => attempts[r] > 0

\* Sent only holds what left.
SentIsTrue == \A f \in filed : delivered[f[1]] = 1

Core == OneCycle /\ InHand /\ Selected /\ Marked /\ SentIsTrue

QueueType ==
  /\ qstate \in [Rows -> QueueStates] /\ msgid \in [Rows -> Ids \cup {NoId}]
  /\ attempts \in [Rows -> Nat] /\ stale \in [Rows -> BOOLEAN]
  /\ pc \in [Workers -> PCs] /\ item \in [Workers -> SUBSET Items]
  /\ todo \in [Workers -> SUBSET Recovered] /\ followups \in [Workers -> BOOLEAN]
  /\ delivered \in [Rows -> Nat] /\ filed \subseteq Rows \X Ids

IInv == QueueType /\ Core

LEMMA CoreInit == Init => IInv
BY SenderAssumption DEF Init, IInv, QueueType, Core, OneCycle, InHand, Selected, Marked, SentIsTrue,
   QueueStates, PCs, Items, Recovered

USE DEF Handling

\* claim() takes a row that has not left.
LEMMA StepClaim ==
  ASSUME IInv, Deployed, NEW w \in Workers, NEW r \in Rows, Claim(w, r)
  PROVE  IInv'
<1> USE DEF IInv, QueueType, Core, Claim, Goto, mail
<1>1. QueueType'
  BY DEF Items, Recovered, QueueStates, PCs, Marked, OneCycle, InHand, Selected
<1>2. OneCycle'
  BY DEF OneCycle, Deployed
<1>3. InHand'
  BY DEF OneCycle, InHand, Selected, Marked, Items
<1>4. Selected'
  BY DEF OneCycle, InHand, Selected, Recovered, Items
<1>5. Marked'
  BY DEF OneCycle, InHand, Selected, Marked, SentIsTrue, Recovered, Items, QueueStates
<1>6. SentIsTrue'
  BY DEF OneCycle, InHand, Selected, Marked, SentIsTrue, Items
<1> QED  BY <1>1, <1>2, <1>3, <1>4, <1>5, <1>6

LEMMA StepOpen ==
  ASSUME IInv, Deployed, NEW w \in Workers, OpenCycle(w)
  PROVE  IInv'
<1> USE DEF IInv, QueueType, Core, OpenCycle, Sweep, Goto, mail, queue, Deployed, Rows
<1>1. QueueType'
  BY DEF Items, Recovered, QueueStates, PCs, Marked, OneCycle, InHand, Selected
<1>2. OneCycle'
  BY DEF OneCycle, Deployed
<1>3. InHand'
  BY DEF OneCycle, InHand, Selected, Marked, Items
<1>4. Selected'
  BY DEF OneCycle, InHand, Selected, Recovered, Items
<1>5. Marked'
  BY DEF OneCycle, InHand, Selected, Marked, SentIsTrue, Recovered, Items, QueueStates
<1>6. SentIsTrue'
  BY DEF OneCycle, InHand, Selected, Marked, SentIsTrue, Items
<1> QED  BY <1>1, <1>2, <1>3, <1>4, <1>5, <1>6

\* Planning: a row becomes queued out of "absent" or "cancelled", the others
\* stay or, cancelled, are deleted.
LEMMA PlannedRows ==
  ASSUME NEW state, NEW known, NEW chosen \in SUBSET Plannable(state, known)
  PROVE  \A r \in Rows : \/ Planned(state, chosen)[r] = state[r]
                         \/ Planned(state, chosen)[r] = "queued" /\ state[r] = "absent"
<1> TAKE r \in Rows
<1>1. r = <<r[1], r[2]>>
  BY DEF Rows
<1>2. CASE r[1] \in chosen /\ r[2] = 0
  BY <1>1, <1>2 DEF Planned, Plannable
<1>3. CASE ~(r[1] \in chosen /\ r[2] = 0)
  BY <1>3 DEF Planned
<1> QED  BY <1>2, <1>3

LEMMA PlanRows ==
  ASSUME IInv, NEW w \in Workers, Plan(w) \/ Replenish(w)
  PROVE  /\ qstate' \in [Rows -> QueueStates]
         /\ \A r \in Rows : \/ qstate'[r] = qstate[r]
                            \/ qstate[r] \in {"absent", "cancelled"} /\ qstate'[r] \in {"absent", "queued"}
<1> USE DEF IInv, QueueType
<1>1. CASE Plan(w)
  <2> DEFINE left == [r \in Rows |-> IF qstate[r] = "cancelled" THEN "absent" ELSE qstate[r]]
  <2>1. PICK chosen \in SUBSET Plannable(left, conv) : qstate' = Planned(left, chosen)
    BY <1>1 DEF Plan
  <2>2. \A r \in Rows : qstate'[r] = left[r] \/ (qstate'[r] = "queued" /\ left[r] = "absent")
    BY <2>1, PlannedRows
  <2>3. \A r \in Rows : left[r] = IF qstate[r] = "cancelled" THEN "absent" ELSE qstate[r]
    OBVIOUS
  <2>4. qstate' = [r \in Rows |-> qstate'[r]]
    BY <2>1 DEF Planned
  <2> HIDE DEF left
  <2>5. \A r \in Rows : \/ qstate'[r] = qstate[r]
                        \/ qstate[r] \in {"absent", "cancelled"} /\ qstate'[r] \in {"absent", "queued"}
    BY <2>2, <2>3
  <2>6. \A r \in Rows : qstate'[r] \in QueueStates
    BY <2>5 DEF QueueStates
  <2> QED  BY <2>4, <2>5, <2>6
<1>2. CASE Replenish(w)
  <2>a. PICK chosen \in SUBSET Plannable(qstate, conv') : qstate' = Planned(qstate, chosen)
    BY <1>2 DEF Replenish
  <2>2. \A r \in Rows : qstate'[r] = qstate[r] \/ (qstate'[r] = "queued" /\ qstate[r] = "absent")
    <3> HIDE DEF IInv, QueueType
    <3> QED  BY <2>a, PlannedRows
  <2>3. qstate' = [r \in Rows |-> qstate'[r]]
    BY <2>a DEF Planned
  <2>4. \A r \in Rows : qstate'[r] \in QueueStates
    BY <2>2 DEF QueueStates
  <2> QED  BY <2>2, <2>3, <2>4
<1> QED  BY <1>1, <1>2

LEMMA StepPlan ==
  ASSUME IInv, Deployed, NEW w \in Workers, Plan(w) \/ Replenish(w)
  PROVE  IInv'
<1> USE DEF IInv, QueueType, Core, Goto
<1>1. /\ qstate' \in [Rows -> QueueStates]
      /\ \A r \in Rows : \/ qstate'[r] = qstate[r]
                         \/ qstate[r] \in {"absent", "cancelled"} /\ qstate'[r] \in {"absent", "queued"}
  BY PlanRows
<1>2. /\ pc[w] \in {"plan", "replenish"} /\ pc' = [pc EXCEPT ![w] = pc'[w]]
      /\ pc'[w] \in {"replenish", "recover"}
      /\ UNCHANGED <<stale, item, todo, followups, delivered, filed>>
  BY DEF Plan, Replenish, mail
<1>3. /\ msgid' \in [Rows -> Ids \cup {NoId}] /\ attempts' \in [Rows -> Nat]
      /\ \A r \in Rows : qstate[r] # "cancelled" => msgid'[r] = msgid[r] /\ attempts'[r] = attempts[r]
  BY DEF Plan, Replenish
<1>a. /\ pc' \in [Workers -> PCs]
      /\ \A v \in Workers : v # w => pc'[v] = pc[v]
  BY <1>2 DEF PCs
<1>4. QueueType'
  BY <1>1, <1>2, <1>3, <1>a
<1>5. OneCycle'
  BY <1>2, <1>a DEF OneCycle
<1>b. \A v \in Workers : \A it \in item[v] : it.row \in Rows
  BY DEF Items
<1>c. \A v \in Workers : \A t \in todo[v] : t.row \in Rows
  BY DEF Recovered
<1>6. InHand'
  BY <1>1, <1>2, <1>3, <1>a, <1>b DEF InHand, OneCycle
<1>7. Selected'
  BY <1>1, <1>2, <1>3, <1>c DEF Selected
<1>8. Marked'
  BY <1>1, <1>2, <1>3 DEF Marked
<1>9. SentIsTrue'
  BY <1>2 DEF SentIsTrue
<1> QED  BY <1>4, <1>5, <1>6, <1>7, <1>8, <1>9

LEMMA StepMove ==
  ASSUME IInv, Deployed, NEW w \in Workers, NoLogin(w) \/ StepFails(w) \/ PollFails(w) \/ Stop(w)
  PROVE  IInv'
<1> USE DEF IInv, QueueType, Core, NoLogin, StepFails, PollFails, Stop, Goto, mail, queue
<1>1. QueueType'
  <2>1. pc' \in [Workers -> PCs]
    BY DEF PCs
  <2>2. todo' \in [Workers -> SUBSET Recovered] /\ followups' \in [Workers -> BOOLEAN]
    OBVIOUS
  <2>3. UNCHANGED <<qstate, msgid, attempts, stale, item, delivered, filed>>
    OBVIOUS
  <2> QED  BY <2>1, <2>2, <2>3
<1>2. OneCycle'
  BY DEF OneCycle, Deployed
<1>3. InHand'
  BY DEF OneCycle, InHand, Selected, Marked, Items
<1>4. Selected'
  BY DEF OneCycle, InHand, Selected, Recovered, Items
<1>5. Marked'
  BY DEF OneCycle, InHand, Selected, Marked, SentIsTrue, Recovered, Items, QueueStates
<1>6. SentIsTrue'
  BY DEF OneCycle, InHand, Selected, Marked, SentIsTrue, Items
<1> QED  BY <1>1, <1>2, <1>3, <1>4, <1>5, <1>6

LEMMA StepPoll ==
  ASSUME IInv, Deployed, NEW w \in Workers, Poll(w)
  PROVE  IInv'
<1> USE DEF IInv, QueueType, Core, Poll, Goto, mail, queue
<1>1. QueueType'
  BY DEF Items, Recovered, QueueStates, PCs, Marked, OneCycle, InHand, Selected
<1>2. OneCycle'
  BY DEF OneCycle, Deployed
<1>3. InHand'
  BY DEF OneCycle, InHand, Selected, Marked, Items
<1>4. Selected'
  BY DEF OneCycle, InHand, Selected, Recovered, Items
<1>5. Marked'
  BY DEF OneCycle, InHand, Selected, Marked, SentIsTrue, Recovered, Items, QueueStates
<1>6. SentIsTrue'
  BY DEF OneCycle, InHand, Selected, Marked, SentIsTrue, Items
<1> QED  BY <1>1, <1>2, <1>3, <1>4, <1>5, <1>6

LEMMA StepSweep ==
  ASSUME IInv, Deployed, NEW w \in Workers, SweepAgain(w)
  PROVE  IInv'
<1> USE DEF IInv, QueueType, Core, SweepAgain, Sweep, Goto, mail
<1>1. QueueType'
  BY DEF Items, Recovered, QueueStates, PCs, Marked, OneCycle, InHand, Selected
<1>2. OneCycle'
  BY DEF OneCycle, Deployed
<1>3. InHand'
  BY DEF OneCycle, InHand, Selected, Marked, Items
<1>4. Selected'
  BY DEF OneCycle, InHand, Selected, Recovered, Items
<1>5. Marked'
  BY DEF OneCycle, InHand, Selected, Marked, SentIsTrue, Recovered, Items, QueueStates
<1>6. SentIsTrue'
  BY DEF OneCycle, InHand, Selected, Marked, SentIsTrue, Items
<1> QED  BY <1>1, <1>2, <1>3, <1>4, <1>5, <1>6

LEMMA StepSelect ==
  ASSUME IInv, Deployed, NEW w \in Workers, RecoverSelect(w)
  PROVE  IInv'
<1> USE DEF IInv, QueueType, Core, RecoverSelect, Goto, mail, queue
<1>1. QueueType'
  BY DEF Items, Recovered, QueueStates, PCs, Marked, OneCycle, InHand, Selected
<1>2. OneCycle'
  BY DEF OneCycle, Deployed
<1>3. InHand'
  BY DEF OneCycle, InHand, Selected, Marked, Items
<1>4. Selected'
  BY DEF OneCycle, InHand, Selected, Recovered, Items
<1>5. Marked'
  BY DEF OneCycle, InHand, Selected, Marked, SentIsTrue, Recovered, Items, QueueStates
<1>6. SentIsTrue'
  BY DEF OneCycle, InHand, Selected, Marked, SentIsTrue, Items
<1> QED  BY <1>1, <1>2, <1>3, <1>4, <1>5, <1>6

LEMMA StepUnsent ==
  ASSUME IInv, Deployed, NEW w \in Workers, NEW t \in todo[w], RecoverUnsent(w, t)
  PROVE  IInv'
<1> USE DEF IInv, QueueType, Core, RecoverUnsent, RecoverNext, Release, Goto, mail, queue
<1>1. QueueType'
  <2>1. t.row \in Rows
    BY DEF Items, Recovered
  <2>2. qstate' \in [Rows -> QueueStates] /\ stale' \in [Rows -> BOOLEAN]
    BY <2>1 DEF QueueStates
  <2>3. msgid' = msgid /\ attempts' \in [Rows -> Nat]
    BY <2>1 DEF Marked, InHand, Selected
  <2>4. /\ pc' \in [Workers -> PCs] /\ item' \in [Workers -> SUBSET Items]
        /\ todo' \in [Workers -> SUBSET Recovered] /\ followups' \in [Workers -> BOOLEAN]
    BY DEF PCs
  <2>5. delivered' = delivered /\ filed' = filed
    OBVIOUS
  <2> QED  BY <2>2, <2>3, <2>4, <2>5
<1>2. OneCycle'
  BY DEF OneCycle, Deployed
<1>3. InHand'
  BY DEF OneCycle, InHand, Selected, Marked, Items
<1>4. Selected'
  BY DEF OneCycle, InHand, Selected, Recovered, Items
<1>5. Marked'
  <2>1. /\ t.row \in Rows /\ qstate[t.row] = "claimed" /\ msgid[t.row] = NoId
    BY DEF Recovered, Selected
  <2>2. delivered[t.row] = 0
    BY <2>1, SenderAssumption DEF Marked
  <2>3. /\ qstate' = [qstate EXCEPT ![t.row] = "queued"]
        /\ attempts' = attempts /\ msgid' = msgid /\ delivered' = delivered
    BY <2>1
  <2> QED  BY <2>1, <2>2, <2>3 DEF Marked
<1>6. SentIsTrue'
  BY DEF OneCycle, InHand, Selected, Marked, SentIsTrue, Items
<1> QED  BY <1>1, <1>2, <1>3, <1>4, <1>5, <1>6

LEMMA StepDecided ==
  ASSUME IInv, Deployed, NEW w \in Workers, NEW t \in todo[w], RecoverDecided(w, t)
  PROVE  IInv'
<1> USE DEF IInv, QueueType, Core, RecoverDecided, RecoverNext, RecordSent, FinishAmbiguous, Finish, Goto, mail
<1>1. QueueType'
  <2>1. t.row \in Rows
    BY DEF Items, Recovered
  <2>2. qstate' \in [Rows -> QueueStates] /\ stale' \in [Rows -> BOOLEAN]
    <3>1. CASE RecordSent(t.row, t.id)
      BY <2>1, <3>1 DEF QueueStates
    <3>2. CASE FinishAmbiguous(t.row)
      BY <2>1, <3>2 DEF QueueStates
    <3> QED  BY <3>1, <3>2
  <2>3. msgid' = msgid /\ attempts' \in [Rows -> Nat]
    BY <2>1 DEF Marked, InHand, Selected
  <2>4. /\ pc' \in [Workers -> PCs] /\ item' \in [Workers -> SUBSET Items]
        /\ todo' \in [Workers -> SUBSET Recovered] /\ followups' \in [Workers -> BOOLEAN]
    BY DEF PCs
  <2>5. delivered' = delivered /\ filed' = filed
    OBVIOUS
  <2> QED  BY <2>2, <2>3, <2>4, <2>5
<1>2. OneCycle'
  BY DEF OneCycle, Deployed
<1>3. InHand'
  BY DEF OneCycle, InHand, Selected, Marked, Items
<1>4. Selected'
  BY DEF OneCycle, InHand, Selected, Recovered, Items
<1>5. Marked'
  BY DEF OneCycle, InHand, Selected, Marked, SentIsTrue, Recovered, Items, QueueStates
<1>6. SentIsTrue'
  BY DEF OneCycle, InHand, Selected, Marked, SentIsTrue, Items
<1> QED  BY <1>1, <1>2, <1>3, <1>4, <1>5, <1>6

LEMMA StepUnknown ==
  ASSUME IInv, Deployed, NEW w \in Workers, NEW t \in todo[w], RecoverUnknown(w, t)
  PROVE  IInv'
<1> USE DEF IInv, QueueType, Core, RecoverUnknown, RecoverNext, Goto, mail, queue
<1>1. QueueType'
  BY DEF Items, Recovered, QueueStates, PCs, Marked, OneCycle, InHand, Selected
<1>2. OneCycle'
  BY DEF OneCycle, Deployed
<1>3. InHand'
  BY DEF OneCycle, InHand, Selected, Marked, Items
<1>4. Selected'
  BY DEF OneCycle, InHand, Selected, Recovered, Items
<1>5. Marked'
  BY DEF OneCycle, InHand, Selected, Marked, SentIsTrue, Recovered, Items, QueueStates
<1>6. SentIsTrue'
  BY DEF OneCycle, InHand, Selected, Marked, SentIsTrue, Items
<1> QED  BY <1>1, <1>2, <1>3, <1>4, <1>5, <1>6

LEMMA StepGuardError ==
  ASSUME IInv, Deployed, NEW w \in Workers, NEW it \in item[w], GuardError(w, it) \/ TurnedAway(w, it)
  PROVE  IInv'
<1> USE DEF IInv, QueueType, Core, GuardError, TurnedAway, Release, LetGo, Goto, mail, queue
<1>1. QueueType'
  <2>1. it.row \in Rows
    BY DEF Items, Recovered
  <2>2. qstate' \in [Rows -> QueueStates] /\ stale' \in [Rows -> BOOLEAN]
    BY <2>1 DEF QueueStates
  <2>3. msgid' = msgid /\ attempts' \in [Rows -> Nat]
    BY <2>1 DEF Marked, InHand, Selected
  <2>4. /\ pc' \in [Workers -> PCs] /\ item' \in [Workers -> SUBSET Items]
        /\ todo' \in [Workers -> SUBSET Recovered] /\ followups' \in [Workers -> BOOLEAN]
    BY DEF PCs
  <2>5. delivered' = delivered /\ filed' = filed
    OBVIOUS
  <2> QED  BY <2>2, <2>3, <2>4, <2>5
<1>2. OneCycle'
  BY DEF OneCycle, Deployed
<1>3. InHand'
  BY DEF OneCycle, InHand, Selected, Marked, Items
<1>4. Selected'
  BY DEF OneCycle, InHand, Selected, Recovered, Items
<1>5. Marked'
  BY DEF OneCycle, InHand, Selected, Marked, SentIsTrue, Recovered, Items, QueueStates
<1>6. SentIsTrue'
  BY DEF OneCycle, InHand, Selected, Marked, SentIsTrue, Items
<1> QED  BY <1>1, <1>2, <1>3, <1>4, <1>5, <1>6

LEMMA StepRefuse ==
  ASSUME IInv, Deployed, NEW w \in Workers, NEW it \in item[w], Refuse(w, it)
  PROVE  IInv'
<1> USE DEF IInv, QueueType, Core, Refuse, Finish, LetGo, Goto, mail, queue
<1>1. QueueType'
  BY DEF Items, Recovered, QueueStates, PCs, Marked, OneCycle, InHand, Selected
<1>2. OneCycle'
  BY DEF OneCycle, Deployed
<1>3. InHand'
  BY DEF OneCycle, InHand, Selected, Marked, Items
<1>4. Selected'
  BY DEF OneCycle, InHand, Selected, Recovered, Items
<1>5. Marked'
  BY DEF OneCycle, InHand, Selected, Marked, SentIsTrue, Recovered, Items, QueueStates
<1>6. SentIsTrue'
  BY DEF OneCycle, InHand, Selected, Marked, SentIsTrue, Items
<1> QED  BY <1>1, <1>2, <1>3, <1>4, <1>5, <1>6

LEMMA StepPass ==
  ASSUME IInv, Deployed, NEW w \in Workers, NEW it \in item[w], PassGuard(w, it)
  PROVE  IInv'
<1> USE DEF IInv, QueueType, Core, PassGuard, Goto, mail, queue
<1>1. QueueType'
  BY DEF Items, Recovered, QueueStates, PCs, Marked, OneCycle, InHand, Selected
<1>2. OneCycle'
  BY DEF OneCycle, Deployed
<1>3. InHand'
  BY DEF OneCycle, InHand, Selected, Marked, Items
<1>4. Selected'
  BY DEF OneCycle, InHand, Selected, Recovered, Items
<1>5. Marked'
  BY DEF OneCycle, InHand, Selected, Marked, SentIsTrue, Recovered, Items, QueueStates
<1>6. SentIsTrue'
  BY DEF OneCycle, InHand, Selected, Marked, SentIsTrue, Items
<1> QED  BY <1>1, <1>2, <1>3, <1>4, <1>5, <1>6

LEMMA StepSaveId ==
  ASSUME IInv, Deployed, NEW w \in Workers, NEW it \in item[w], SaveId(w, it)
  PROVE  IInv'
<1> USE DEF IInv, QueueType, Core, SaveId, Goto, mail, queue
<1>1. QueueType'
  BY DEF Items, Recovered, QueueStates, PCs, Marked, OneCycle, InHand, Selected
<1>2. OneCycle'
  BY DEF OneCycle, Deployed
<1>3. InHand'
  BY DEF OneCycle, InHand, Selected, Marked, Items
<1>4. Selected'
  BY DEF OneCycle, InHand, Selected, Recovered, Items
<1>5. Marked'
  BY DEF OneCycle, InHand, Selected, Marked, SentIsTrue, Recovered, Items, QueueStates
<1>6. SentIsTrue'
  BY DEF OneCycle, InHand, Selected, Marked, SentIsTrue, Items
<1> QED  BY <1>1, <1>2, <1>3, <1>4, <1>5, <1>6

LEMMA StepLeave ==
  ASSUME IInv, Deployed, NEW w \in Workers, NEW it \in item[w], Accepted(w, it) \/ Interrupted(w, it)
  PROVE  IInv'
<1> USE DEF IInv, QueueType, Core, Accepted, Interrupted, Leave, Goto, mail, queue
<1>1. QueueType'
  BY DEF Items, Recovered, QueueStates, PCs, Marked, OneCycle, InHand, Selected
<1>2. OneCycle'
  BY DEF OneCycle, Deployed
<1>3. InHand'
  BY DEF OneCycle, InHand, Selected, Marked, Items
<1>4. Selected'
  BY DEF OneCycle, InHand, Selected, Recovered, Items
<1>5. Marked'
  BY DEF OneCycle, InHand, Selected, Marked, SentIsTrue, Recovered, Items, QueueStates
<1>6. SentIsTrue'
  BY DEF OneCycle, InHand, Selected, Marked, SentIsTrue, Items
<1> QED  BY <1>1, <1>2, <1>3, <1>4, <1>5, <1>6

LEMMA StepFile ==
  ASSUME IInv, Deployed, NEW w \in Workers, NEW it \in item[w], FileCopy(w, it)
  PROVE  IInv'
<1> USE DEF IInv, QueueType, Core, FileCopy, Goto, mail, queue
<1>1. QueueType'
  BY DEF Items, Recovered, QueueStates, PCs, Marked, OneCycle, InHand, Selected
<1>2. OneCycle'
  BY DEF OneCycle, Deployed
<1>3. InHand'
  BY DEF OneCycle, InHand, Selected, Marked, Items
<1>4. Selected'
  BY DEF OneCycle, InHand, Selected, Recovered, Items
<1>5. Marked'
  BY DEF OneCycle, InHand, Selected, Marked, SentIsTrue, Recovered, Items, QueueStates
<1>6. SentIsTrue'
  BY DEF OneCycle, InHand, Selected, Marked, SentIsTrue, Items
<1> QED  BY <1>1, <1>2, <1>3, <1>4, <1>5, <1>6

LEMMA StepRecord ==
  ASSUME IInv, Deployed, NEW w \in Workers, NEW it \in item[w], Record(w, it) \/ FoundInSent(w, it)
  PROVE  IInv'
<1> USE DEF IInv, QueueType, Core, Record, FoundInSent, RecordSent, LetGo, Goto, mail, queue
<1>1. QueueType'
  <2>1. it.row \in Rows
    BY DEF Items, Recovered
  <2>2. qstate' \in [Rows -> QueueStates] /\ stale' \in [Rows -> BOOLEAN]
    <3>1. RecordSent(it.row, it.id)
      BY DEF Record, FoundInSent
    <3> QED  BY <2>1, <3>1 DEF RecordSent, QueueStates
  <2>3. msgid' = msgid /\ attempts' \in [Rows -> Nat]
    BY <2>1 DEF Marked, InHand, Selected
  <2>4. /\ pc' \in [Workers -> PCs] /\ item' \in [Workers -> SUBSET Items]
        /\ todo' \in [Workers -> SUBSET Recovered] /\ followups' \in [Workers -> BOOLEAN]
    BY DEF PCs
  <2>5. delivered' = delivered /\ filed' = filed
    OBVIOUS
  <2> QED  BY <2>2, <2>3, <2>4, <2>5
<1>2. OneCycle'
  BY DEF OneCycle, Deployed
<1>3. InHand'
  BY DEF OneCycle, InHand, Selected, Marked, Items
<1>4. Selected'
  BY DEF OneCycle, InHand, Selected, Recovered, Items
<1>5. Marked'
  BY DEF OneCycle, InHand, Selected, Marked, SentIsTrue, Recovered, Items, QueueStates
<1>6. SentIsTrue'
  BY DEF OneCycle, InHand, Selected, Marked, SentIsTrue, Items
<1> QED  BY <1>1, <1>2, <1>3, <1>4, <1>5, <1>6

LEMMA StepNotInSent ==
  ASSUME IInv, Deployed, NEW w \in Workers, NEW it \in item[w], NotInSent(w, it)
  PROVE  IInv'
<1> USE DEF IInv, QueueType, Core, NotInSent, FinishAmbiguous, Finish, LetGo, Goto, mail, queue
<1>1. QueueType'
  BY DEF Items, Recovered, QueueStates, PCs, Marked, OneCycle, InHand, Selected
<1>2. OneCycle'
  BY DEF OneCycle, Deployed
<1>3. InHand'
  BY DEF OneCycle, InHand, Selected, Marked, Items
<1>4. Selected'
  BY DEF OneCycle, InHand, Selected, Recovered, Items
<1>5. Marked'
  BY DEF OneCycle, InHand, Selected, Marked, SentIsTrue, Recovered, Items, QueueStates
<1>6. SentIsTrue'
  BY DEF OneCycle, InHand, Selected, Marked, SentIsTrue, Items
<1> QED  BY <1>1, <1>2, <1>3, <1>4, <1>5, <1>6

LEMMA StepRejected ==
  ASSUME IInv, Deployed, NEW w \in Workers, NEW it \in item[w], Rejected(w, it)
  PROVE  IInv'
<1> USE DEF IInv, QueueType, Core, Rejected, Finish, Goto, mail, queue
<1>1. QueueType'
  BY DEF Items, Recovered, QueueStates, PCs, Marked, OneCycle, InHand, Selected
<1>2. OneCycle'
  BY DEF OneCycle, Deployed
<1>3. InHand'
  BY DEF OneCycle, InHand, Selected, Marked, Items
<1>4. Selected'
  BY DEF OneCycle, InHand, Selected, Recovered, Items
<1>5. Marked'
  BY DEF OneCycle, InHand, Selected, Marked, SentIsTrue, Recovered, Items, QueueStates
<1>6. SentIsTrue'
  BY DEF OneCycle, InHand, Selected, Marked, SentIsTrue, Items
<1> QED  BY <1>1, <1>2, <1>3, <1>4, <1>5, <1>6

LEMMA StepBounce ==
  ASSUME IInv, Deployed, NEW w \in Workers, NEW it \in item[w], Bounce(w, it)
  PROVE  IInv'
<1> USE DEF IInv, QueueType, Core, Bounce, LetGo, Goto, mail, queue
<1>1. QueueType'
  BY DEF Items, Recovered, QueueStates, PCs, Marked, OneCycle, InHand, Selected
<1>2. OneCycle'
  BY DEF OneCycle, Deployed
<1>3. InHand'
  BY DEF OneCycle, InHand, Selected, Marked, Items
<1>4. Selected'
  BY DEF OneCycle, InHand, Selected, Recovered, Items
<1>5. Marked'
  BY DEF OneCycle, InHand, Selected, Marked, SentIsTrue, Recovered, Items, QueueStates
<1>6. SentIsTrue'
  BY DEF OneCycle, InHand, Selected, Marked, SentIsTrue, Items
<1> QED  BY <1>1, <1>2, <1>3, <1>4, <1>5, <1>6

LEMMA StepTransient ==
  ASSUME IInv, Deployed, NEW w \in Workers, NEW it \in item[w], Transient(w, it)
  PROVE  IInv'
<1> USE DEF IInv, QueueType, Core, Transient, Finish, Release, LetGo, Goto, mail, queue
<1>1. QueueType'
  <2>1. it.row \in Rows
    BY DEF Items, Recovered
  <2>2. qstate' \in [Rows -> QueueStates] /\ stale' \in [Rows -> BOOLEAN]
    BY <2>1 DEF QueueStates
  <2>3. msgid' = msgid /\ attempts' \in [Rows -> Nat]
    BY <2>1 DEF Marked, InHand, Selected
  <2>4. /\ pc' \in [Workers -> PCs] /\ item' \in [Workers -> SUBSET Items]
        /\ todo' \in [Workers -> SUBSET Recovered] /\ followups' \in [Workers -> BOOLEAN]
    BY DEF PCs
  <2>5. delivered' = delivered /\ filed' = filed
    OBVIOUS
  <2> QED  BY <2>2, <2>3, <2>4, <2>5
<1>2. OneCycle'
  BY DEF OneCycle, Deployed
<1>3. InHand'
  BY DEF OneCycle, InHand, Selected, Marked, Items
<1>4. Selected'
  BY DEF OneCycle, InHand, Selected, Recovered, Items
<1>5. Marked'
  BY DEF OneCycle, InHand, Selected, Marked, SentIsTrue, Recovered, Items, QueueStates
<1>6. SentIsTrue'
  BY DEF OneCycle, InHand, Selected, Marked, SentIsTrue, Items
<1> QED  BY <1>1, <1>2, <1>3, <1>4, <1>5, <1>6

LEMMA StepCrash ==
  ASSUME IInv, Deployed, NEW w \in Workers, Crash(w)
  PROVE  IInv'
<1> USE DEF IInv, QueueType, Core, Crash, Goto, mail, queue
<1>1. QueueType'
  BY DEF Items, Recovered, QueueStates, PCs, Marked, OneCycle, InHand, Selected
<1>2. OneCycle'
  BY DEF OneCycle, Deployed
<1>3. InHand'
  BY DEF OneCycle, InHand, Selected, Marked, Items
<1>4. Selected'
  BY DEF OneCycle, InHand, Selected, Recovered, Items
<1>5. Marked'
  BY DEF OneCycle, InHand, Selected, Marked, SentIsTrue, Recovered, Items, QueueStates
<1>6. SentIsTrue'
  BY DEF OneCycle, InHand, Selected, Marked, SentIsTrue, Items
<1> QED  BY <1>1, <1>2, <1>3, <1>4, <1>5, <1>6

LEMMA StepAge ==
  ASSUME IInv, Deployed, NEW r \in Rows, Age(r)
  PROVE  IInv'
<1> USE DEF IInv, QueueType, Core, Age, mail, worker
<1>1. QueueType'
  BY DEF Items, Recovered, QueueStates, PCs, Marked, OneCycle, InHand, Selected
<1>2. OneCycle'
  BY DEF OneCycle, Deployed
<1>3. InHand'
  BY DEF OneCycle, InHand, Selected, Marked, Items
<1>4. Selected'
  BY DEF OneCycle, InHand, Selected, Recovered, Items
<1>5. Marked'
  BY DEF OneCycle, InHand, Selected, Marked, SentIsTrue, Recovered, Items, QueueStates
<1>6. SentIsTrue'
  BY DEF OneCycle, InHand, Selected, Marked, SentIsTrue, Items
<1> QED  BY <1>1, <1>2, <1>3, <1>4, <1>5, <1>6

LEMMA StepAnswer ==
  ASSUME IInv, Deployed, NEW c \in Companies, NEW l \in Replies, Answer(c, l) \/ AnsweredElsewhere(c, l)
  PROVE  IInv'
<1> USE DEF IInv, QueueType, Core, Answer, AnsweredElsewhere, mail, queue, worker
<1>1. QueueType'
  BY DEF Items, Recovered, QueueStates, PCs, Marked, OneCycle, InHand, Selected
<1>2. OneCycle'
  BY DEF OneCycle, Deployed
<1>3. InHand'
  BY DEF OneCycle, InHand, Selected, Marked, Items
<1>4. Selected'
  BY DEF OneCycle, InHand, Selected, Recovered, Items
<1>5. Marked'
  BY DEF OneCycle, InHand, Selected, Marked, SentIsTrue, Recovered, Items, QueueStates
<1>6. SentIsTrue'
  BY DEF OneCycle, InHand, Selected, Marked, SentIsTrue, Items
<1> QED  BY <1>1, <1>2, <1>3, <1>4, <1>5, <1>6

LEMMA StepStage ==
  ASSUME IInv, Deployed, NEW c \in Companies, StageDraft(c)
  PROVE  IInv'
<1> USE DEF IInv, QueueType, Core, mail, worker
<1> DEFINE first == <<c, 0>>
<1>0. first \in Rows /\ qstate[first] = "absent"
  BY SenderAssumption DEF Rows, Steps, Deployed, StageDraft
<1> HIDE DEF first
<1>a. /\ qstate' = [qstate EXCEPT ![first] = "queued"] /\ stale' = [stale EXCEPT ![first] = FALSE]
      /\ UNCHANGED <<msgid, attempts, worker, mail>>
  BY DEF first, StageDraft
<1>1. QueueType'
  BY <1>0, <1>a DEF Items, Recovered, QueueStates, PCs, Marked, OneCycle, InHand, Selected
<1>2. OneCycle'
  BY <1>a DEF OneCycle
<1>3. InHand'
  BY <1>0, <1>a DEF OneCycle, InHand, Selected, Marked, Items
<1>4. Selected'
  BY <1>0, <1>a DEF OneCycle, InHand, Selected, Recovered, Items
<1>5. Marked'
  BY <1>0, <1>a DEF OneCycle, InHand, Selected, Marked, SentIsTrue, Recovered, Items, QueueStates
<1>6. SentIsTrue'
  BY <1>0, <1>a DEF OneCycle, InHand, Selected, Marked, SentIsTrue, Items
<1> QED  BY <1>1, <1>2, <1>3, <1>4, <1>5, <1>6

\* One step of the system keeps the core.
LEMMA CoreStep ==
  ASSUME Deployed
  PROVE  IInv /\ [Next]_vars => IInv'
<1> SUFFICES ASSUME IInv, [Next]_vars PROVE IInv'
  OBVIOUS
<1>1. ASSUME NEW w \in Workers, Cycle(w) \/ StepFails(w) \/ NoLogin(w) \/ Stop(w) \/ Crash(w)
      PROVE IInv'
  BY <1>1, Deployed, StepOpen, StepPlan, StepMove, StepPoll, StepSweep, StepSelect, StepUnsent,
     StepDecided, StepUnknown, StepCrash DEF Cycle, Recovering
<1>2. ASSUME NEW w \in Workers, NEW r \in Rows, Claim(w, r) PROVE IInv'
  BY <1>2, Deployed, StepClaim
<1>3. ASSUME NEW w \in Workers, NEW it \in item[w], Sending(w, it) PROVE IInv'
  BY <1>3, Deployed, StepGuardError, StepRefuse, StepPass, StepSaveId, StepLeave, StepFile, StepRecord,
     StepNotInSent, StepRejected, StepBounce, StepTransient DEF Sending
<1>4. ASSUME NEW r \in Rows, Age(r) PROVE IInv'
  BY <1>4, Deployed, StepAge
<1>5. ASSUME NEW c \in Companies, StageDraft(c) PROVE IInv'
  BY <1>5, Deployed, StepStage
<1>6. ASSUME NEW c \in Companies, NEW l \in Replies, Answer(c, l) \/ AnsweredElsewhere(c, l)
      PROVE IInv'
  BY <1>6, Deployed, StepAnswer
<1>7. CASE UNCHANGED vars
  BY <1>7 DEF vars, queue, worker, mail, IInv, QueueType, Core, OneCycle, InHand, Selected, Marked,
     SentIsTrue
<1> QED  BY <1>1, <1>2, <1>3, <1>4, <1>5, <1>6, <1>7 DEF Next

LEMMA CoreInvariant ==
  ASSUME Deployed
  PROVE  Spec => []IInv
BY CoreInit, CoreStep, PTL DEF Spec

\* sender.py:17: a touch leaves at most once, whatever dies or is retried.
THEOREM SentOnce ==
  ASSUME Deployed
  PROVE  Spec => []AtMostOnce
<1>1. IInv => AtMostOnce
  BY DEF IInv, Core, Marked, AtMostOnce
<1> QED  BY <1>1, CoreInvariant, PTL

\* outreach_queue never claims a delivery that did not happen, and never
\* offers or drops one that did.
THEOREM QueueTruthful ==
  ASSUME Deployed
  PROVE  Spec => []QueueTellsTruth
<1>1. IInv => QueueTellsTruth
  BY DEF IInv, QueueType, Core, Marked, QueueTellsTruth
<1> QED  BY <1>1, CoreInvariant, PTL
-----------------------------------------------------------------------------
(* The sender implements MailPromise. Its steps move rows in six ways; each  *)
(* is one step of the promise or none, and keeps the touches of a company in *)
(* order.                                                                    *)

TouchBefore(r) == <<r[1], r[2] - 1>>

\* A follow-up has a row only behind a touch confirmed as sent.
Chained == \A r \in Rows : r[2] > 0 /\ qstate[r] # "absent" => qstate[TouchBefore(r)] = "sent"

Verdict == [r \in Rows |-> VerdictOf(qstate[r])]
Out == [r \in Rows |-> delivered[r] > 0]

\* What a step of the sender comes to.
Kept == Chained' /\ (Promise!Next \/ UNCHANGED Promise!promise)

LEMMA VerdictTable ==
  /\ \A state \in {"absent", "queued", "claimed"} : VerdictOf(state) = "open"
  /\ VerdictOf("sent") = "sent" /\ VerdictOf("ambiguous") = "unsure"
  /\ \A state \in {"failed", "cancelled"} : VerdictOf(state) = "dropped"
BY DEF VerdictOf

LEMMA RowBefore ==
  ASSUME NEW r \in Rows, r[2] > 0
  PROVE  TouchBefore(r) \in Rows
BY SenderAssumption DEF Rows, Steps, TouchBefore

LEMMA ChainKept ==
  ASSUME Chained, \A r \in Rows : qstate[r] = "sent" => qstate'[r] = "sent",
         \A r \in Rows : r[2] > 0 /\ qstate[r] = "absent" /\ qstate'[r] # "absent"
                           => qstate'[TouchBefore(r)] = "sent"
  PROVE  Chained'
<1> SUFFICES ASSUME NEW r \in Rows, r[2] > 0, qstate'[r] # "absent"
             PROVE  qstate'[TouchBefore(r)] = "sent"
  BY DEF Chained, TouchBefore
<1> QED  BY RowBefore DEF Chained

(* Rows change hands, or a first touch is queued.                            *)
LEMMA Shuffled ==
  ASSUME IInv, Chained, delivered' = delivered,
         \A r \in Rows : \/ qstate'[r] = qstate[r]
                         \/ qstate[r] \in {"queued", "claimed"} /\ qstate'[r] \in {"queued", "claimed"}
                         \/ r[2] = 0 /\ qstate[r] = "absent" /\ qstate'[r] = "queued"
  PROVE  Kept
<1>1. Chained'
  BY ChainKept
<1>2. \A r \in Rows : VerdictOf(qstate'[r]) = VerdictOf(qstate[r])
  BY VerdictTable
<1>3. UNCHANGED Promise!promise
  BY <1>2 DEF Promise!promise
<1> QED  BY <1>1, <1>3 DEF Kept

(* Rows whose email has not left are given up.                               *)
LEMMA Dropped ==
  ASSUME IInv, Chained, delivered' = delivered, NEW touches \in SUBSET Rows,
         \A r \in touches : /\ qstate[r] \in {"queued", "claimed"} /\ delivered[r] = 0
                            /\ qstate'[r] \in {"failed", "cancelled"},
         \A r \in Rows \ touches : qstate'[r] = qstate[r]
  PROVE  Kept
<1>1. Chained'
  BY ChainKept
<1>2. \A r \in touches : Verdict[r] = "open" /\ ~Out[r]
  <2> TAKE r \in touches
  <2>1. r \in Rows /\ Verdict[r] = VerdictOf(qstate[r]) /\ Out[r] = (delivered[r] > 0)
    BY DEF Verdict, Out
  <2>2. VerdictOf(qstate[r]) = "open" /\ ~(delivered[r] > 0)
    BY VerdictTable
  <2> QED  BY <2>1, <2>2
<1>3. Verdict' = [r \in Rows |-> IF r \in touches THEN "dropped" ELSE Verdict[r]]
  BY VerdictTable DEF Verdict
<1>4. Out' = Out
  BY DEF Out
<1>5. Promise!Drop(touches)
  BY <1>2, <1>3, <1>4 DEF Promise!Drop, Promise!Touches, Verdict, Out, Rows, Steps
<1>6. touches \in SUBSET Promise!Touches
  BY DEF Promise!Touches, Rows, Steps
<1> QED  BY <1>1, <1>5, <1>6 DEF Kept, Promise!Next

(* Dropped rows are deleted, and first touches planned anew.                 *)
LEMMA Replanned ==
  ASSUME IInv, Chained, NEW w \in Workers, Plan(w)
  PROVE  Kept
<1> DEFINE left == [r \in Rows |-> IF qstate[r] = "cancelled" THEN "absent" ELSE qstate[r]]
           touches == {r \in Rows : qstate[r] = "cancelled"}
<1>1. PICK chosen \in SUBSET Plannable(left, conv) : qstate' = Planned(left, chosen)
  BY DEF Plan
<1>2. \A r \in Rows : \/ qstate'[r] = left[r]
                      \/ r[2] = 0 /\ left[r] = "absent" /\ qstate'[r] = "queued"
  <2>1. \A r \in Rows : qstate'[r] = left[r] \/ (qstate'[r] = "queued" /\ left[r] = "absent")
    BY <1>1, PlannedRows
  <2>2. \A r \in Rows : r[2] # 0 => qstate'[r] = left[r]
    BY <1>1 DEF Planned
  <2> QED  BY <2>1, <2>2
<1>3. delivered' = delivered
  BY DEF Plan, mail
<1>4. \A r \in Rows : left[r] = IF qstate[r] = "cancelled" THEN "absent" ELSE qstate[r]
  OBVIOUS
<1> HIDE DEF left
<1>5. Chained'
  BY <1>2, <1>4, ChainKept
<1>6. \A r \in Rows : IF r \in touches THEN VerdictOf(qstate[r]) = "dropped" /\ VerdictOf(qstate'[r]) = "open"
                                       ELSE VerdictOf(qstate'[r]) = VerdictOf(qstate[r])
  BY <1>2, <1>4, VerdictTable
<1>7. Out' = Out
  BY <1>3 DEF Out
<1>8. CASE touches = {}
  <2>1. Verdict' = Verdict
    BY <1>6, <1>8 DEF Verdict
  <2> QED  BY <1>5, <1>7, <2>1 DEF Kept, Promise!promise, Verdict, Out
<1>9. CASE touches # {}
  <2>1. Verdict' = [r \in Rows |-> IF r \in touches THEN "open" ELSE Verdict[r]]
    BY <1>6 DEF Verdict
  <2>2. \A r \in touches : Verdict[r] = "dropped"
    BY <1>6 DEF Verdict
  <2>3. Promise!Reopen(touches)
    BY <1>7, <1>9, <2>1, <2>2 DEF Promise!Reopen, Promise!Touches, Verdict, Out, Rows, Steps
  <2>4. touches \in SUBSET Promise!Touches
    BY DEF Promise!Touches, Rows, Steps
  <2> QED  BY <1>5, <2>3, <2>4 DEF Kept, Promise!Next
<1> QED  BY <1>8, <1>9

(* The email of a row in hand leaves.                                        *)
LEMMA Gone ==
  ASSUME IInv, Chained, NEW r \in Rows, qstate[r] = "claimed", delivered[r] = 0, qstate' = qstate,
         delivered' = [delivered EXCEPT ![r] = @ + 1]
  PROVE  Kept
<1>1. Chained' /\ Verdict' = Verdict
  BY DEF Chained, TouchBefore, Verdict
<1>2. Out' = [Out EXCEPT ![r] = TRUE] /\ ~Out[r]
  <2>1. delivered \in [Rows -> Nat]
    BY DEF IInv, QueueType
  <2>2. \A q \in Rows : delivered'[q] = IF q = r THEN 1 ELSE delivered[q]
    BY <2>1
  <2>3. ASSUME NEW q \in Rows PROVE (delivered'[q] > 0) = IF q = r THEN TRUE ELSE delivered[q] > 0
    <3>1. CASE q = r
      <4>1. delivered'[q] = 1
        BY <2>2, <3>1
      <4>2. delivered'[q] > 0
        BY <4>1, SMT
      <4> QED  BY <3>1, <4>2, Zenon
    <3>2. CASE q # r
      <4>1. delivered'[q] = delivered[q]
        BY <2>2, <3>2
      <4>2. (delivered'[q] > 0) = (delivered[q] > 0)
        BY <4>1
      <4> QED  BY <3>2, <4>2, Zenon
    <3> QED  BY <3>1, <3>2
  <2>4. ~(delivered[r] > 0)
    OBVIOUS
  <2>5. Out' = [q \in Rows |-> IF q = r THEN TRUE ELSE delivered[q] > 0]
    BY <2>3 DEF Out
  <2>6. [Out EXCEPT ![r] = TRUE] = [q \in Rows |-> IF q = r THEN TRUE ELSE delivered[q] > 0]
    BY Zenon DEF Out
  <2> QED  BY <2>4, <2>5, <2>6 DEF Out
<1>3. Verdict[r] = "open" /\ (r[2] > 0 => Verdict[TouchBefore(r)] = "sent")
  BY RowBefore, VerdictTable DEF Verdict, Chained
<1>4. Promise!Deliver(r)
  BY <1>1, <1>2, <1>3 DEF Promise!Deliver, Promise!Before, TouchBefore, Verdict, Out
<1>5. r \in Promise!Touches
  BY DEF Promise!Touches, Rows, Steps
<1> QED  BY <1>1, <1>4, <1>5 DEF Kept, Promise!Next

(* Nobody can tell whether the row's email left.                             *)
LEMMA Unsure ==
  ASSUME IInv, Chained, NEW r \in Rows, qstate[r] = "claimed", FinishAmbiguous(r), delivered' = delivered
  PROVE  Kept
<1>1. qstate' = [qstate EXCEPT ![r] = "ambiguous"]
  BY DEF FinishAmbiguous, Finish, IInv, QueueType
<1>2. \A q \in Rows : qstate'[q] = IF q = r THEN "ambiguous" ELSE qstate[q]
  BY <1>1 DEF IInv, QueueType
<1>3. Chained'
  BY <1>2, ChainKept
<1>4. Verdict' = [Verdict EXCEPT ![r] = "unsure"]
  <2>1. \A q \in Rows : VerdictOf(qstate'[q]) = IF q = r THEN "unsure" ELSE VerdictOf(qstate[q])
    BY <1>2, VerdictTable
  <2> QED  BY <2>1 DEF Verdict
<1>a. Verdict[r] = "open" /\ Out' = Out
  BY VerdictTable DEF Verdict, Out
<1>5. Promise!GiveUp(r)
  BY <1>4, <1>a DEF Promise!GiveUp, Verdict, Out
<1>6. r \in Promise!Touches
  BY DEF Promise!Touches, Rows, Steps
<1> QED  BY <1>3, <1>5, <1>6 DEF Kept, Promise!Next

(* record_sent(): the touch is confirmed, and the next one planned, refused  *)
(* or not there.                                                             *)
LEMMA Settled ==
  ASSUME IInv, Chained, NEW r \in Rows, NEW id, qstate[r] = "claimed", delivered[r] = 1,
         RecordSent(r, id), delivered' = delivered
  PROVE  Kept
<1> DEFINE n == NextTouch(r)
<1>1. PICK planned \in {"absent", "queued", "cancelled"} :
        qstate' = [q \in Rows |-> IF q = r /\ qstate[q] # "absent" THEN "sent"
                                  ELSE IF q = n /\ qstate[q] = "absent" THEN planned
                                  ELSE qstate[q]]
  BY DEF RecordSent
<1>2. n # r /\ \A q \in Rows : q = n => TouchBefore(q) = r
  BY SenderAssumption DEF NextTouch, TouchBefore, Rows, Steps
<1> HIDE DEF n
<1>3. \A q \in Rows : qstate'[q] = IF q = r THEN "sent"
                                   ELSE IF q = n /\ qstate[q] = "absent" THEN planned
                                   ELSE qstate[q]
  BY <1>1, <1>2
<1>4. Chained'
  <2>1. \A q \in Rows : q[2] > 0 /\ qstate[q] = "absent" /\ qstate'[q] # "absent"
                          => qstate'[TouchBefore(q)] = "sent"
    BY <1>2, <1>3
  <2> QED  BY <1>3, <2>1, ChainKept
<1> DEFINE refused == {q \in Rows : q = n /\ qstate[q] = "absent" /\ planned = "cancelled"}
<1>5. \A q \in Rows : VerdictOf(qstate'[q]) = IF q = r THEN "sent" ELSE IF q \in refused THEN "dropped"
                                              ELSE VerdictOf(qstate[q])
  BY <1>3, VerdictTable
<1>6. Verdict' = [q \in Rows |-> IF q = r THEN "sent" ELSE IF q \in refused THEN "dropped" ELSE Verdict[q]]
  BY <1>5 DEF Verdict
<1>7. Verdict[r] = "open" /\ Out[r] /\ Out' = Out
  <2>1. delivered[r] > 0 /\ VerdictOf(qstate[r]) = "open"
    BY VerdictTable
  <2> QED  BY <2>1 DEF Verdict, Out
<1>8. \A q \in refused : q[1] = r[1] /\ q[2] = r[2] + 1 /\ Verdict[q] = "open" /\ ~Out[q]
  <2> TAKE q \in refused
  <2>1. q[1] = r[1] /\ q[2] = r[2] + 1
    BY DEF n, NextTouch
  <2>2. VerdictOf(qstate[q]) = "open" /\ ~(delivered[q] > 0)
    BY VerdictTable DEF IInv, Core, Marked
  <2>3. q \in Rows /\ Verdict[q] = VerdictOf(qstate[q]) /\ Out[q] = (delivered[q] > 0)
    BY DEF Verdict, Out
  <2> QED  BY <2>1, <2>2, <2>3
<1> HIDE DEF refused
<1>9. Promise!Confirm(r, refused)
  BY <1>6, <1>7, <1>8 DEF Promise!Confirm, Promise!Touches, Verdict, Out, Rows, Steps
<1>10. r \in Promise!Touches /\ refused \in SUBSET Promise!Touches
  BY DEF Promise!Touches, Rows, Steps, refused
<1> QED  BY <1>4, <1>9, <1>10 DEF Kept, Promise!Next

\* A row that waits, or whose worker has not called the server, has not left.
LEMMA NotGone ==
  ASSUME IInv
  PROVE  \A r \in Rows : /\ delivered[r] = 0 \/ delivered[r] = 1
                         /\ qstate[r] = "queued" => delivered[r] = 0
BY DEF IInv, Core, Marked

LEMMA Swept ==
  ASSUME IInv, Chained, Sweep, delivered' = delivered
  PROVE  Kept
<1> DEFINE touches == {r \in Rows : qstate[r] = "queued" /\ r[2] > 0 /\ Stopped(r[1])}
<1>1. \A r \in Rows : qstate'[r] = IF r \in touches THEN "cancelled" ELSE qstate[r]
  BY DEF Sweep
<1>2. \A r \in touches : qstate[r] = "queued" /\ delivered[r] = 0 /\ qstate'[r] = "cancelled"
  BY <1>1, NotGone
<1>3. touches \in SUBSET Rows /\ \A r \in Rows \ touches : qstate'[r] = qstate[r]
  BY <1>1
<1> HIDE DEF touches
<1> QED  BY <1>2, <1>3, Dropped

\* One row in hand is given up.
LEMMA DroppedOne ==
  ASSUME IInv, Chained, NEW r \in Rows, NEW state \in {"failed", "cancelled"}, qstate[r] = "claimed",
         delivered[r] = 0, Finish(r, state), delivered' = delivered
  PROVE  Kept
<1>1. \A q \in Rows : qstate'[q] = IF q = r THEN state ELSE qstate[q]
  BY DEF Finish, IInv, QueueType
<1> QED  BY <1>1, Dropped, {r} \in SUBSET Rows

\* One row in hand goes back to the queue.
LEMMA ReleasedOne ==
  ASSUME IInv, Chained, NEW r \in Rows, NEW undo, Release(r, undo), delivered' = delivered
  PROVE  Kept
<1>1. \A q \in Rows : \/ qstate'[q] = qstate[q]
                      \/ qstate[q] = "claimed" /\ qstate'[q] = "queued"
  BY DEF Release, queue, IInv, QueueType
<1> QED  BY <1>1, Shuffled

\* Steps that move no row.
LEMMA Still ==
  ASSUME IInv, Chained, UNCHANGED <<qstate, delivered>>
  PROVE  Kept
BY Shuffled

(* The steps of a cycle.                                                     *)
LEMMA CycleKept ==
  ASSUME IInv, Chained, NEW w \in Workers, Cycle(w)
  PROVE  Kept
<1>1. CASE OpenCycle(w) \/ SweepAgain(w)
  BY <1>1, Swept, Still DEF OpenCycle, SweepAgain, mail, queue
<1>2. CASE Plan(w)
  BY <1>2, Replanned
<1>3. CASE Replenish(w)
  <2>1. PICK chosen \in SUBSET Plannable(qstate, conv') : qstate' = Planned(qstate, chosen)
    BY <1>3 DEF Replenish
  <2>2. \A r \in Rows : qstate'[r] = qstate[r] \/ (r[2] = 0 /\ qstate[r] = "absent" /\ qstate'[r] = "queued")
    <3>1. \A r \in Rows : qstate'[r] = qstate[r] \/ (qstate'[r] = "queued" /\ qstate[r] = "absent")
      BY <2>1, PlannedRows
    <3>2. \A r \in Rows : r[2] # 0 => qstate'[r] = qstate[r]
      BY <2>1 DEF Planned
    <3> QED  BY <3>1, <3>2
  <2> QED  BY <1>3, <2>2, Shuffled DEF Replenish, mail
<1>4. CASE RecoverSelect(w) \/ Poll(w) \/ PollFails(w)
  BY <1>4, Still DEF RecoverSelect, Poll, PollFails, mail, queue
<1>5. ASSUME NEW t \in todo[w], Recovering(w, t)
      PROVE  Kept
  <2>1. /\ t.row \in Rows /\ qstate[t.row] = "claimed" /\ delivered' = delivered
        /\ <<t.row, t.id>> \in filed => delivered[t.row] = 1
    <3>1. t \in Recovered
      BY DEF IInv, QueueType
    <3>2. qstate[t.row] = "claimed" /\ (<<t.row, t.id>> \in filed => delivered[<<t.row, t.id>>[1]] = 1)
      BY DEF IInv, Core, Selected, SentIsTrue
    <3> QED  BY <1>5, <3>1, <3>2 DEF Recovered, Recovering, RecoverUnsent, RecoverDecided, RecoverUnknown,
                RecoverNext, mail
  <2>2. CASE RecoverUnsent(w, t)
    BY <2>1, <2>2, ReleasedOne DEF RecoverUnsent
  <2>3. CASE RecoverDecided(w, t)
    BY <2>1, <2>3, Settled, Unsure DEF RecoverDecided
  <2>4. CASE RecoverUnknown(w, t)
    BY <2>1, <2>4, Still DEF RecoverUnknown, queue
  <2> QED  BY <1>5, <2>2, <2>3, <2>4 DEF Recovering
<1> QED  BY <1>1, <1>2, <1>3, <1>4, <1>5 DEF Cycle

(* A worker with a row in hand.                                              *)
LEMMA SendingKept ==
  ASSUME IInv, Chained, NEW w \in Workers, NEW it \in item[w], Sending(w, it)
  PROVE  Kept
<1>1. it \in Items /\ it.row \in Rows
  BY DEF IInv, QueueType, Items
<1>2. pc[w] \in Handling =>
        /\ qstate[it.row] = "claimed"
        /\ pc[w] \in {"claimed", "guarded", "smtp"} => delivered[it.row] = 0
        /\ pc[w] \in {"file", "record"} => delivered[it.row] = 1
  BY DEF IInv, Core, InHand
<1>3. <<it.row, it.id>> \in filed => delivered[it.row] = 1
  <2>1. <<it.row, it.id>> \in filed => delivered[<<it.row, it.id>>[1]] = 1
    BY DEF IInv, Core, SentIsTrue
  <2> QED  BY <2>1
<1>4. CASE GuardError(w, it) \/ TurnedAway(w, it)
  BY <1>1, <1>4, ReleasedOne DEF GuardError, TurnedAway, mail
<1>5. CASE Refuse(w, it) \/ Rejected(w, it)
  BY <1>1, <1>2, <1>5, DroppedOne DEF Refuse, Rejected, mail
<1>6. CASE Transient(w, it)
  <2>1. delivered' = delivered /\ qstate[it.row] = "claimed" /\ delivered[it.row] = 0
    BY <1>2, <1>6 DEF Transient, mail
  <2>2. Finish(it.row, "failed") \/ Release(it.row, FALSE)
    BY <1>6 DEF Transient
  <2> QED  BY <1>1, <2>1, <2>2, DroppedOne, ReleasedOne
<1>7. CASE PassGuard(w, it) \/ SaveId(w, it) \/ FileCopy(w, it) \/ Bounce(w, it)
  BY <1>7, Still DEF PassGuard, SaveId, FileCopy, Bounce, mail, queue
<1>8. CASE Accepted(w, it) \/ Interrupted(w, it)
  <2>1. qstate' = qstate /\ qstate[it.row] = "claimed" /\ delivered[it.row] = 0
    BY <1>2, <1>8 DEF Accepted, Interrupted, queue
  <2>2. Leave(it) \/ delivered' = delivered
    BY <1>8 DEF Accepted, Interrupted, mail
  <2> QED  BY <1>1, <2>1, <2>2, Gone, Still DEF Leave
<1>9. CASE Record(w, it) \/ FoundInSent(w, it)
  <2>1. /\ RecordSent(it.row, it.id) /\ delivered' = delivered
        /\ qstate[it.row] = "claimed" /\ delivered[it.row] = 1
    BY <1>2, <1>3, <1>9 DEF Record, FoundInSent, mail
  <2> QED  BY <1>1, <2>1, Settled
<1>10. CASE NotInSent(w, it)
  BY <1>1, <1>2, <1>10, Unsure DEF NotInSent, mail
<1> QED  BY <1>4, <1>5, <1>6, <1>7, <1>8, <1>9, <1>10 DEF Sending

LEMMA StepKept ==
  ASSUME Deployed, IInv, Chained, [Next]_vars
  PROVE  Kept
<1>1. ASSUME NEW w \in Workers, StepFails(w) \/ NoLogin(w) \/ Stop(w) \/ Crash(w) PROVE Kept
  BY <1>1, Still DEF StepFails, NoLogin, Stop, Crash, mail, queue
<1>2. ASSUME NEW w \in Workers, NEW r \in Rows, Claim(w, r) PROVE Kept
  <2>1. \A q \in Rows : qstate'[q] = qstate[q] \/ (qstate[q] = "queued" /\ qstate'[q] = "claimed")
    BY <1>2 DEF Claim, IInv, QueueType
  <2> QED  BY <1>2, <2>1, Shuffled DEF Claim, mail
<1>3. ASSUME NEW c \in Companies, StageDraft(c) PROVE Kept
  <2>1. qstate[<<c, 0>>] = "absent" /\ qstate' = [qstate EXCEPT ![<<c, 0>>] = "queued"]
    BY <1>3, Deployed DEF StageDraft, Deployed
  <2>2. \A r \in Rows : qstate'[r] = qstate[r] \/ (r[2] = 0 /\ qstate[r] = "absent" /\ qstate'[r] = "queued")
    BY <2>1 DEF IInv, QueueType
  <2> QED  BY <1>3, <2>2, Shuffled DEF StageDraft, mail
<1>4. CASE \/ \E r \in Rows : Age(r)
           \/ \E c \in Companies : \E l \in Replies : Answer(c, l) \/ AnsweredElsewhere(c, l)
           \/ UNCHANGED vars
  BY <1>4, Still DEF Age, Answer, AnsweredElsewhere, vars, mail, queue
<1> QED  BY <1>1, <1>2, <1>3, <1>4, CycleKept, SendingKept DEF Next

LEMMA ChainInit == Init => Chained
<1>1. Init => \A r \in Rows : qstate[r] = "absent"
  BY DEF Init
<1> QED  BY <1>1 DEF Chained

\* Whatever crashes and is retried: every touch goes out at most once, only
\* behind its confirmed predecessor, and the queue's last word on it is true.
THEOREM PromiseKept ==
  ASSUME Deployed
  PROVE  Spec => KeepsPromise
<1>1. Init => Chained /\ Promise!Init
  <2> SUFFICES ASSUME Init PROVE Chained /\ Promise!Init
    OBVIOUS
  <2>1. Chained
    BY ChainInit
  <2>2. [r \in Rows |-> VerdictOf(qstate[r])] = [r \in Rows |-> "open"]
    BY VerdictTable DEF Init
  <2>3. [r \in Rows |-> delivered[r] > 0] = [r \in Rows |-> FALSE]
    <3>1. \A r \in Rows : delivered[r] = 0 /\ (0 > 0) = FALSE
      BY DEF Init
    <3> QED  BY <3>1
  <2> QED  BY <2>1, <2>2, <2>3 DEF Promise!Init, Promise!Touches, Rows, Steps
<1>2. IInv /\ Chained /\ [Next]_vars => Chained' /\ [Promise!Next]_Promise!promise
  BY Deployed, StepKept DEF Kept
<1> QED  BY <1>1, <1>2, CoreInvariant, PTL DEF Spec, KeepsPromise, Promise!Spec

\* record_sent() alone plans a follow-up: behind every one that left, the touch
\* before it left too and is on record as sent, never in doubt or dropped.
FollowUpsFollow ==
  \A r \in Rows : r[2] > 0 /\ delivered[r] > 0 =>
    qstate[TouchBefore(r)] = "sent" /\ delivered[TouchBefore(r)] = 1

\* However often the sender crashes between two touches of a company, plans
\* again what was cancelled or recovers what a dead worker held.
THEOREM SentInOrder ==
  ASSUME Deployed
  PROVE  Spec => []FollowUpsFollow
<1>1. IInv /\ Chained /\ [Next]_vars => Chained'
  BY Deployed, StepKept DEF Kept
<1>2. IInv /\ Chained => FollowUpsFollow
  <2> SUFFICES ASSUME IInv, Chained, NEW r \in Rows, r[2] > 0, delivered[r] > 0
               PROVE  qstate[TouchBefore(r)] = "sent" /\ delivered[TouchBefore(r)] = 1
    BY DEF FollowUpsFollow
  <2>1. qstate[r] # "absent"
    BY DEF IInv, Core, Marked
  <2> QED  BY <2>1, RowBefore DEF Chained, IInv, Core, Marked
<1> QED  BY <1>1, <1>2, ChainInit, CoreInvariant, PTL DEF Spec
-------------------------------------------------------------------------------
(* The company records while the sender runs: their type, that the guard     *)
(* knows of every touch that went or may have gone, and that a company which *)
(* answered is left alone.                                                   *)

RestType ==
  /\ conv \in [Companies -> Company]
  /\ recorded \subseteq Rows \X Ids
  /\ unread \in [Companies -> SUBSET Replies] /\ missed \subseteq Companies
  /\ crashes \in 0 .. MaxCrashes

\* Whoever was sent, or perhaps sent, an email is on record as contacted.
OnRecord ==
  /\ \A r \in Rows : qstate[r] \in {"sent", "ambiguous"} => conv[r[1]].contacted
  /\ \A f \in recorded : conv[f[1][1]].contacted

Full == IInv /\ RestType /\ OnRecord

\* What every step does to the company records: they stay records, forget
\* nothing, and a touch newly sent or ambiguous is known to its company.
Moves ==
  /\ RestType'
  /\ \A c \in Companies : Remembers(conv[c], conv'[c])
  /\ \A r \in Rows : qstate'[r] \in {"sent", "ambiguous"} =>
       qstate[r] \in {"sent", "ambiguous"} \/ conv'[r[1]].contacted
  /\ \A f \in recorded' : f \in recorded \/ conv'[f[1][1]].contacted

LEMMA SameRemembers == \A c : Remembers(c, c)
BY DEF Remembers

LEMMA CompanyOf ==
  ASSUME NEW r \in Rows
  PROVE  r[1] \in Companies /\ KindOf(r) \in Generic
BY DEF Rows, KindOf, Generic

\* Steps that write no company record.
LEMMA Quiet ==
  ASSUME Full, UNCHANGED <<conv, recorded>>,
         unread' \in [Companies -> SUBSET Replies], missed' \subseteq Companies,
         crashes' \in 0 .. MaxCrashes,
         \A r \in Rows : qstate'[r] \in {"sent", "ambiguous"} => qstate[r] \in {"sent", "ambiguous"}
  PROVE  Moves
BY SameRemembers DEF Full, RestType, Moves

\* record_sent() of a row in hand or recovered.
LEMMA RecordMoves ==
  ASSUME Full, NEW r \in Rows, NEW id \in Ids, RecordSent(r, id), UNCHANGED <<unread, missed, crashes>>
  PROVE  Moves
<1> DEFINE c == r[1]
           known == <<r, id>> \in recorded
           d == RecordedSend(conv[c], KindOf(r), known)
<1>1. c \in Companies /\ conv[c] \in Company /\ KindOf(r) \in Generic /\ known \in BOOLEAN
  BY CompanyOf DEF Full, RestType
<1>2. d \in Company /\ Remembers(conv[c], d) /\ (~known => d.contacted = TRUE)
  BY <1>1, SenderWritesAccepted, SenderWritesRemember
<1>3. known => conv[c].contacted
  BY DEF Full, OnRecord
<1>4. d.contacted
  BY <1>2, <1>3 DEF Remembers
<1> HIDE DEF d, c, known
<1>5. conv' = [conv EXCEPT ![c] = d] /\ recorded' = recorded \cup {<<r, id>>}
  BY DEF RecordSent, d, c, known
<1>6. conv'[c] = d /\ \A b \in Companies : b # c => conv'[b] = conv[b]
  BY <1>1, <1>5 DEF Full, RestType
<1>7. \A b \in Companies : Remembers(conv[b], conv'[b])
  BY <1>2, <1>6, SameRemembers
<1>8. RestType'
  BY <1>1, <1>2, <1>5 DEF Full, RestType
<1>9. \A q \in Rows : qstate'[q] \in {"sent", "ambiguous"} => qstate[q] \in {"sent", "ambiguous"} \/ q = r
  BY DEF RecordSent, NextTouch
<1>10. \A q \in Rows : qstate'[q] \in {"sent", "ambiguous"} =>
          qstate[q] \in {"sent", "ambiguous"} \/ conv'[q[1]].contacted
  BY <1>4, <1>6, <1>9 DEF c
<1>11. \A f \in recorded' : f \in recorded \/ conv'[f[1][1]].contacted
  BY <1>4, <1>5, <1>6 DEF c
<1> QED  BY <1>7, <1>8, <1>10, <1>11 DEF Moves

\* _finish(ambiguous) and the second half of a rejected address.
LEMMA WriteMoves ==
  ASSUME Full, NEW r \in Rows, NEW d \in {AddressRejected(conv[r[1]]), MaybeContacted(conv[r[1]])},
         conv' = [conv EXCEPT ![r[1]] = d],
         \A q \in Rows : qstate'[q] \in {"sent", "ambiguous"} =>
           qstate[q] \in {"sent", "ambiguous"} \/ (q = r /\ d = MaybeContacted(conv[r[1]])),
         UNCHANGED <<recorded, unread, missed, crashes>>
  PROVE  Moves
<1> DEFINE c == r[1]
<1>1. c \in Companies /\ conv[c] \in Company
  BY CompanyOf DEF Full, RestType
<1>2. "cold" \in Generic /\ TRUE \in BOOLEAN
  BY DEF Generic
<1>3. d \in Company /\ Remembers(conv[c], d) /\ (d = MaybeContacted(conv[c]) => d.contacted = TRUE)
  BY <1>1, <1>2, SenderWritesAccepted, SenderWritesRemember
<1>4. conv'[c] = d /\ \A b \in Companies : b # c => conv'[b] = conv[b]
  BY <1>1 DEF Full, RestType
<1>5. \A b \in Companies : Remembers(conv[b], conv'[b])
  BY <1>3, <1>4, SameRemembers
<1>6. RestType'
  BY <1>1, <1>3 DEF Full, RestType
<1> QED  BY <1>3, <1>4, <1>5, <1>6 DEF Moves

LEMMA AnsweredGood ==
  ASSUME Full, NEW c \in Companies, NEW l \in Replies
  PROVE  Answered(c, l) \in Company /\ Remembers(conv[c], Answered(c, l))
<1>1. conv[c] \in Company /\ l \in Labels /\ "none" \in Flags /\ TRUE \in BOOLEAN
  BY SenderAssumption DEF Full, RestType, Flags
<1> QED  BY <1>1, RepliedAccepted, RepliedRemembers, SameRemembers DEF Answered

LEMMA PollMoves ==
  ASSUME Full, NEW w \in Workers, Poll(w)
  PROVE  Moves
<1>1. \A c \in Companies : \A l \in unread[c] : l \in Replies
  BY DEF Full, RestType
<1>2. \A c \in Companies : conv'[c] \in Company /\ Remembers(conv[c], conv'[c])
  <2> TAKE c \in Companies
  <2>1. CASE \E l \in unread[c] : Reaches(conv[c], l)
    <3> DEFINE l == CHOOSE k \in unread[c] : TRUE
    <3>1. l \in unread[c]
      BY <2>1
    <3>2. conv'[c] = Answered(c, l)
      BY <2>1 DEF Poll
    <3> QED  BY <1>1, <3>1, <3>2, AnsweredGood
  <2>2. CASE ~\E l \in unread[c] : Reaches(conv[c], l)
    <3>1. conv'[c] = conv[c]
      BY <2>2 DEF Poll
    <3> QED  BY <3>1, SameRemembers DEF Full, RestType
  <2> QED  BY <2>1, <2>2
<1>3. conv' \in [Companies -> Company]
  BY <1>2 DEF Poll
<1>4. RestType'
  BY <1>3 DEF Full, RestType, Poll
<1>5. qstate' = qstate /\ recorded' = recorded
  BY DEF Poll, queue
<1>6. /\ \A r \in Rows : qstate'[r] \in {"sent", "ambiguous"} => qstate[r] \in {"sent", "ambiguous"}
      /\ \A f \in recorded' : f \in recorded
  BY <1>5
<1> QED  BY <1>2, <1>4, <1>6 DEF Moves

LEMMA ReplenishMoves ==
  ASSUME Full, NEW w \in Workers, Replenish(w)
  PROVE  Moves
<1>1. PICK scored \in SUBSET Companies, leads \in SUBSET Companies : conv' = Prepared(scored, leads)
  BY DEF Replenish
<1>2. ASSUME NEW c \in Companies PROVE conv'[c] \in Company /\ Remembers(conv[c], conv'[c])
  <2> DEFINE listed == IF c \in scored THEN Qualified(conv[c]) ELSE conv[c]
  <2>1. conv[c] \in Company /\ conv'[c] = IF c \in leads THEN Screened(listed) ELSE listed
    BY <1>1 DEF Full, RestType, Prepared
  <2>2. listed \in Company /\ Remembers(conv[c], listed)
    BY <2>1, QualifiedKeeps, SameRemembers
  <2> HIDE DEF listed
  <2>3. Screened(listed) \in Company /\ Remembers(listed, Screened(listed))
    BY <2>2, ScreenedKeeps
  <2> QED  BY <2>1, <2>2, <2>3 DEF Remembers
<1>3. UNCHANGED <<recorded, unread, missed, crashes>>
  BY DEF Replenish
<1>4. RestType'
  BY <1>1, <1>2, <1>3 DEF Full, RestType, Prepared
<1>5. \A r \in Rows : qstate'[r] \in {"sent", "ambiguous"} => qstate[r] \in {"sent", "ambiguous"}
  BY PlanRows DEF Full
<1> QED  BY <1>2, <1>3, <1>4, <1>5 DEF Moves

LEMMA ElsewhereMoves ==
  ASSUME Full, NEW c \in Companies, NEW l \in Replies, AnsweredElsewhere(c, l)
  PROVE  Moves
<1>1. conv' = [conv EXCEPT ![c] = Answered(c, l)]
      /\ UNCHANGED <<qstate, recorded, unread, missed, crashes>>
  BY DEF AnsweredElsewhere, queue
<1>2. Answered(c, l) \in Company /\ Remembers(conv[c], Answered(c, l))
  BY AnsweredGood
<1>3. \A b \in Companies : Remembers(conv[b], conv'[b])
  BY <1>1, <1>2, SameRemembers DEF Full, RestType
<1>4. RestType'
  BY <1>1, <1>2 DEF Full, RestType
<1> QED  BY <1>1, <1>3, <1>4 DEF Moves

\* The steps of a cycle that only move rows about, and everybody else's.
LEMMA QuietSteps ==
  ASSUME Full, Deployed,
         \/ \E w \in Workers :
              \/ OpenCycle(w) \/ Plan(w) \/ RecoverSelect(w) \/ PollFails(w) \/ SweepAgain(w)
              \/ StepFails(w) \/ NoLogin(w) \/ Stop(w) \/ Crash(w)
              \/ \E r \in Rows : Claim(w, r)
         \/ \E r \in Rows : Age(r)
         \/ \E c \in Companies : StageDraft(c) \/ \E l \in Replies : Answer(c, l)
         \/ UNCHANGED vars
  PROVE  Moves
<1> USE DEF Full, RestType
<1>1. UNCHANGED <<conv, recorded, missed>>
  BY DEF OpenCycle, Plan, RecoverSelect, PollFails, SweepAgain, StepFails, NoLogin, Stop, Crash, Claim,
     Age, StageDraft, Answer, vars, worker, queue, mail
<1>2. unread' \in [Companies -> SUBSET Replies]
  BY DEF OpenCycle, Plan, RecoverSelect, PollFails, SweepAgain, StepFails, NoLogin, Stop, Crash, Claim,
     Age, StageDraft, Answer, vars, worker, queue, mail
<1>3. crashes' \in 0 .. MaxCrashes
  <2>1. CASE \E w \in Workers : Crash(w)
    BY <2>1, SenderAssumption DEF Crash
  <2>2. CASE ~\E w \in Workers : Crash(w)
    BY <2>2 DEF OpenCycle, Plan, RecoverSelect, PollFails, SweepAgain, StepFails, NoLogin, Stop, Claim,
       Age, StageDraft, Answer, vars, worker, queue, mail
  <2> QED  BY <2>1, <2>2
<1>4. \A r \in Rows : qstate'[r] \in {"sent", "ambiguous"} => qstate[r] \in {"sent", "ambiguous"}
  <2> USE DEF IInv, QueueType
  <2>1. ASSUME NEW w \in Workers, Plan(w)
        PROVE \A r \in Rows : qstate'[r] \in {"sent", "ambiguous"} => qstate[r] = qstate'[r]
    BY <2>1, PlanRows
  <2>2. ASSUME NEW w \in Workers, OpenCycle(w) \/ SweepAgain(w)
        PROVE \A r \in Rows : qstate'[r] \in {"sent", "ambiguous"} => qstate[r] = qstate'[r]
    BY <2>2 DEF OpenCycle, SweepAgain, Sweep, queue
  <2>3. ASSUME NEW w \in Workers, NEW r \in Rows, Claim(w, r)
        PROVE \A q \in Rows : qstate'[q] \in {"sent", "ambiguous"} => qstate[q] = qstate'[q]
    BY <2>3 DEF Claim
  <2>4. ASSUME NEW c \in Companies, StageDraft(c)
        PROVE \A r \in Rows : qstate'[r] \in {"sent", "ambiguous"} => qstate[r] = qstate'[r]
    BY <2>4 DEF StageDraft
  <2>5. CASE qstate' = qstate
    BY <2>5
  <2> QED  BY <2>1, <2>2, <2>3, <2>4, <2>5 DEF RecoverSelect, PollFails, StepFails, NoLogin, Stop, Crash,
              Age, Answer, vars, queue
<1> QED  BY <1>1, <1>2, <1>3, <1>4, Quiet

LEMMA RecoverMoves ==
  ASSUME Full, NEW w \in Workers, NEW t \in todo[w], Recovering(w, t)
  PROVE  Moves
<1> USE DEF Full, IInv, QueueType, RestType
<1>a. t \in Recovered
  OBVIOUS
<1>b. UNCHANGED <<unread, missed, crashes>>
  BY DEF Recovering, RecoverUnsent, RecoverDecided, RecoverUnknown, RecoverNext
<1>1. t.row \in Rows /\ (t.id # NoId => t.id \in Ids) /\ UNCHANGED <<unread, missed, crashes>>
  BY <1>a, <1>b DEF Recovered
<1>2. CASE RecoverUnsent(w, t) \/ RecoverUnknown(w, t)
  <2>1. UNCHANGED <<conv, recorded>>
    BY <1>2 DEF RecoverUnsent, RecoverUnknown
  <2>2. \A r \in Rows : qstate'[r] \in {"sent", "ambiguous"} => qstate[r] \in {"sent", "ambiguous"}
    BY <1>1, <1>2 DEF RecoverUnsent, RecoverUnknown, Release, queue
  <2> QED  BY <1>1, <2>1, <2>2, Quiet
<1>3. CASE RecoverDecided(w, t)
  <2>1. CASE RecordSent(t.row, t.id)
    BY <1>1, <1>3, <2>1, RecordMoves DEF RecoverDecided
  <2>2. CASE FinishAmbiguous(t.row) /\ UNCHANGED recorded
    <3>1. /\ conv' = [conv EXCEPT ![t.row[1]] = MaybeContacted(conv[t.row[1]])]
          /\ recorded' = recorded
      BY <1>3, <2>2 DEF RecoverDecided, FinishAmbiguous
    <3>2. \A q \in Rows : qstate'[q] \in {"sent", "ambiguous"} =>
            qstate[q] \in {"sent", "ambiguous"} \/ q = t.row
      BY <1>1, <1>3, <2>2 DEF RecoverDecided, FinishAmbiguous, Finish
    <3> QED  BY <1>1, <3>1, <3>2, WriteMoves
  <2> QED  BY <1>3, <2>1, <2>2 DEF RecoverDecided
<1> QED  BY <1>2, <1>3 DEF Recovering

LEMMA SendMoves ==
  ASSUME Full, NEW w \in Workers, NEW it \in item[w], Sending(w, it)
  PROVE  Moves
<1> USE DEF Full, IInv, QueueType, RestType
<1>a. it \in Items
  OBVIOUS
<1>b. UNCHANGED <<unread, missed, crashes>>
  BY DEF Sending, GuardError, Refuse, PassGuard, SaveId, Accepted, FileCopy, Record, Interrupted,
     FoundInSent, NotInSent, TurnedAway, Rejected, Bounce, Transient, LetGo
<1>1. it.row \in Rows /\ UNCHANGED <<unread, missed, crashes>>
  BY <1>a, <1>b DEF Items
<1>2. CASE Record(w, it) \/ FoundInSent(w, it)
  <2>1. pc[w] \in {"record", "lookup"}
    BY <1>2 DEF Record, FoundInSent
  <2>2. InHand
    BY DEF Core
  <2>3. it.id \in Ids
    BY <2>1, <2>2 DEF InHand, Handling
  <2> QED  BY <1>1, <1>2, <2>3, RecordMoves DEF Record, FoundInSent
<1>3. CASE NotInSent(w, it)
  <2>1. /\ conv' = [conv EXCEPT ![it.row[1]] = MaybeContacted(conv[it.row[1]])]
        /\ recorded' = recorded
    BY <1>3 DEF NotInSent, FinishAmbiguous
  <2>2. \A q \in Rows : qstate'[q] \in {"sent", "ambiguous"} =>
          qstate[q] \in {"sent", "ambiguous"} \/ q = it.row
    BY <1>1, <1>3 DEF NotInSent, FinishAmbiguous, Finish
  <2> QED  BY <1>1, <2>1, <2>2, WriteMoves
<1>4. CASE Bounce(w, it)
  <2>1. /\ conv' = [conv EXCEPT ![it.row[1]] = AddressRejected(conv[it.row[1]])]
        /\ recorded' = recorded /\ qstate' = qstate
    BY <1>4 DEF Bounce, queue
  <2> QED  BY <1>1, <2>1, WriteMoves
<1>5. CASE \/ GuardError(w, it) \/ Refuse(w, it) \/ PassGuard(w, it) \/ SaveId(w, it)
           \/ Accepted(w, it) \/ FileCopy(w, it) \/ Interrupted(w, it)
           \/ TurnedAway(w, it) \/ Rejected(w, it) \/ Transient(w, it)
  <2>1. UNCHANGED <<conv, recorded>>
    BY <1>5 DEF GuardError, Refuse, PassGuard, SaveId, Accepted, FileCopy, Interrupted, TurnedAway,
       Rejected, Transient
  <2>2. \A r \in Rows : qstate'[r] \in {"sent", "ambiguous"} => qstate[r] \in {"sent", "ambiguous"}
    BY <1>1, <1>5 DEF GuardError, Refuse, PassGuard, SaveId, Accepted, FileCopy, Interrupted, TurnedAway,
       Rejected, Transient, Release, Finish, queue
  <2> QED  BY <1>1, <2>1, <2>2, Quiet
<1> QED  BY <1>2, <1>3, <1>4, <1>5 DEF Sending

LEMMA EveryStepMoves ==
  ASSUME Full, Deployed, [Next]_vars
  PROVE  Moves
<1>1. ASSUME NEW w \in Workers, Cycle(w) PROVE Moves
  BY <1>1, Deployed, QuietSteps, RecoverMoves, PollMoves, ReplenishMoves DEF Cycle
<1>2. ASSUME NEW w \in Workers, NEW it \in item[w], Sending(w, it) PROVE Moves
  BY <1>2, SendMoves
<1>3. ASSUME NEW c \in Companies, NEW l \in Replies, AnsweredElsewhere(c, l) PROVE Moves
  BY <1>3, ElsewhereMoves
<1> QED  BY <1>1, <1>2, <1>3, Deployed, QuietSteps DEF Next

LEMMA FullStep ==
  ASSUME Deployed
  PROVE  Full /\ [Next]_vars => Full'
<1> SUFFICES ASSUME Full, [Next]_vars PROVE Full'
  OBVIOUS
<1>1. IInv' /\ Moves
  BY Deployed, CoreStep, EveryStepMoves DEF Full
<1>2. OnRecord'
  <2>1. \A r \in Rows : qstate'[r] \in {"sent", "ambiguous"} => conv'[r[1]].contacted
    BY <1>1, CompanyOf DEF Full, OnRecord, Moves, Remembers
  <2>2. \A f \in recorded' : f[1] \in Rows
    BY <1>1 DEF Moves, RestType
  <2>3. \A f \in recorded' : conv'[f[1][1]].contacted
    BY <1>1, <2>2, CompanyOf DEF Full, OnRecord, Moves, Remembers
  <2> QED  BY <2>1, <2>3 DEF OnRecord
<1> QED  BY <1>1, <1>2 DEF Full, Moves

LEMMA FullInit == Init => Full
<1> SUFFICES ASSUME Init PROVE Full
  OBVIOUS
<1>1. PICK o \in {"outreach_ready", "handed_off"} : conv = [c \in Companies |-> FreshCompany(o)]
  BY DEF Init
<1>2. conv \in [Companies -> Company]
  BY <1>1, FreshType DEF OutreachStatuses
<1>3. RestType
  BY <1>2, SenderAssumption DEF Init, RestType
<1>4. OnRecord
  BY DEF Init, OnRecord
<1> QED  BY <1>3, <1>4, CoreInit DEF Full

LEMMA FullInvariant ==
  ASSUME Deployed
  PROVE  Spec => []Full
BY FullInit, FullStep, PTL DEF Spec

\* Every variable of the sender keeps its type.
THEOREM SenderTypes ==
  ASSUME Deployed
  PROVE  Spec => []TypeOK
<1>1. Full => TypeOK
  BY DEF Full, IInv, QueueType, RestType, TypeOK
<1> QED  BY <1>1, FullInvariant, PTL

\* The guard all senders share knows of every touch that went or may have gone.
THEOREM GuardIsTold ==
  ASSUME Deployed
  PROVE  Spec => []GuardKnows
<1>1. Full => GuardKnows
  BY DEF Full, OnRecord, GuardKnows, SendCheck
<1> QED  BY <1>1, FullInvariant, PTL
-----------------------------------------------------------------------------
(* A company that answered is left alone.                                    *)

\* No worker comes to stand behind the guard with a row it did not have there.
NoneNewPassed == \A w \in Workers : pc'[w] \in {"guarded", "smtp"} => pc'[w] = pc[w] /\ item'[w] = item[w]

LEMMA CyclePasses ==
  ASSUME Full, Deployed, NEW w \in Workers,
         \/ Cycle(w) \/ StepFails(w) \/ NoLogin(w) \/ Stop(w) \/ Crash(w)
         \/ \E r \in Rows : Claim(w, r)
  PROVE  NoneNewPassed /\ delivered' = delivered
<1> USE DEF Full, IInv, QueueType, Goto, mail
<1>1. delivered' = delivered
  BY DEF Cycle, OpenCycle, Plan, Replenish, RecoverSelect, Recovering, RecoverUnsent, RecoverDecided, RecoverUnknown,
     RecoverNext, Poll, PollFails, SweepAgain, StepFails, NoLogin, Stop, Crash, Claim
<1>2. CASE Crash(w) \/ \E r \in Rows : Claim(w, r)
  BY <1>2 DEF Crash, Claim, NoneNewPassed
<1>3. CASE Cycle(w) \/ StepFails(w) \/ NoLogin(w) \/ Stop(w)
  <2>1. item' = item
    BY <1>3 DEF Cycle, OpenCycle, Plan, Replenish, RecoverSelect, Recovering, RecoverUnsent, RecoverDecided,
       RecoverUnknown, RecoverNext, Poll, PollFails, SweepAgain, StepFails, NoLogin, Stop
  <2>2. \E p \in {"plan", "replenish", "recover", "recovering", "poll", "sweep", "run", "off"} : pc' = [pc EXCEPT ![w] = p]
    BY <1>3 DEF Cycle, OpenCycle, Plan, Replenish, RecoverSelect, Recovering, RecoverUnsent, RecoverDecided,
       RecoverUnknown, RecoverNext, Poll, PollFails, SweepAgain, StepFails, NoLogin, Stop
  <2> QED  BY <1>1, <2>1, <2>2 DEF NoneNewPassed
<1> QED  BY <1>1, <1>2, <1>3

\* Behind the guard a row moves on, or it passes the guard only when its
\* company is not silenced; and only a row that passed is handed over.
LEMMA SendPasses ==
  ASSUME Full, NEW w \in Workers, NEW it \in item[w], Sending(w, it), NEW c \in Companies, Silenced(c),
         ~Passed(c)
  PROVE  ~Passed(c)' /\ \A s \in Steps : delivered'[<<c, s>>] = delivered[<<c, s>>]
<1> USE DEF Full, IInv, QueueType, Goto, mail
<1>1. it \in Items /\ it.row \in Rows /\ it.row[1] \in Companies
  BY DEF Items, Rows
<1>2. CASE PassGuard(w, it)
  <2>1. it.row[1] # c
    BY <1>1, <1>2 DEF PassGuard, SendCheck, Silenced, KindOf, Generic
  <2>2. pc[w] = "claimed" /\ item' = item /\ delivered' = delivered
    BY <1>2 DEF PassGuard
  <2>3. \A i \in item[w] : i = it
    BY <2>2 DEF Core, OneCycle
  <2>4. \A v \in Workers : v # w => pc'[v] = pc[v]
    BY <1>2 DEF PassGuard
  <2> QED  BY <2>1, <2>2, <2>3, <2>4 DEF Passed
<1>3. CASE SaveId(w, it)
  <2>1. it.row[1] # c
    BY <1>3 DEF SaveId, Passed
  <2>2. PICK i \in Ids : item' = [item EXCEPT ![w] = {[it EXCEPT !.id = i]}]
    BY <1>3 DEF SaveId
  <2>3. \A k \in item'[w] : k.row = it.row
    BY <1>1, <2>2 DEF Items
  <2>4. \A v \in Workers : v # w => pc'[v] = pc[v] /\ item'[v] = item[v]
    BY <1>3, <2>2 DEF SaveId
  <2>5. delivered' = delivered
    BY <1>3 DEF SaveId
  <2> QED  BY <2>1, <2>3, <2>4, <2>5 DEF Passed
<1>4. CASE ~PassGuard(w, it) /\ ~SaveId(w, it)
  <2>1. NoneNewPassed
    BY <1>4 DEF Sending, GuardError, Refuse, Accepted, FileCopy, Record, Interrupted, FoundInSent,
       NotInSent, TurnedAway, Rejected, Bounce, Transient, LetGo, NoneNewPassed
  <2>2. delivered' = delivered \/ (pc[w] = "smtp" /\ delivered' = [delivered EXCEPT ![it.row] = @ + 1])
    BY <1>4 DEF Sending, GuardError, Refuse, Accepted, FileCopy, Record, Interrupted, FoundInSent,
       NotInSent, TurnedAway, Rejected, Bounce, Transient, LetGo, Leave
  <2>3. pc[w] = "smtp" => it.row[1] # c
    BY DEF Passed
  <2>4. pc[w] = "smtp" => \A s \in Steps : it.row # <<c, s>>
    BY <2>3
  <2>5. \A s \in Steps : <<c, s>> \in Rows
    BY DEF Rows
  <2> QED  BY <2>1, <2>2, <2>4, <2>5 DEF NoneNewPassed, Passed
<1> QED  BY <1>2, <1>3, <1>4

LEMMA SilenceStep ==
  ASSUME Deployed, Full, [Next]_vars, NEW c \in Companies, Silenced(c), ~Passed(c)
  PROVE  Silenced(c)' /\ ~Passed(c)' /\ \A s \in Steps : delivered'[<<c, s>>] = delivered[<<c, s>>]
<1>1. Silenced(c)'
  BY EveryStepMoves DEF Moves, Remembers, Silenced
<1>2. CASE NoneNewPassed /\ delivered' = delivered
  BY <1>1, <1>2 DEF NoneNewPassed, Passed
<1>3. ASSUME NEW w \in Workers, NEW it \in item[w], Sending(w, it)
      PROVE  ~Passed(c)' /\ \A s \in Steps : delivered'[<<c, s>>] = delivered[<<c, s>>]
  BY <1>3, SendPasses
<1>4. CASE \/ \E r \in Rows : Age(r)
           \/ \E d \in Companies : StageDraft(d) \/ \E l \in Replies : Answer(d, l) \/ AnsweredElsewhere(d, l)
           \/ UNCHANGED vars
  <2>1. UNCHANGED <<pc, item, delivered>>
    BY <1>4 DEF Age, StageDraft, Answer, AnsweredElsewhere, vars, worker, mail
  <2> QED  BY <1>2, <2>1 DEF NoneNewPassed
<1> QED  BY <1>1, <1>2, <1>3, <1>4, CyclePasses DEF Next

\* After an opt-out, a rejected address or a human answer is stored, nothing
\* more leaves for the company but what had passed the guard by then.
THEOREM Silence ==
  ASSUME Deployed
  PROVE  Spec => StoppedStaysSilent
<1>1. Full /\ [Next]_vars =>
        [\A c \in Companies : Silenced(c) /\ ~Passed(c) =>
           /\ Silenced(c)' /\ ~Passed(c)'
           /\ \A s \in Steps : delivered'[<<c, s>>] = delivered[<<c, s>>]]_vars
  BY SilenceStep
<1> QED  BY <1>1, FullInvariant, PTL DEF Spec, StoppedStaysSilent
=============================================================================
