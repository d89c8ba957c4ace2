--------------------------- MODULE JobQueueProofs ---------------------------
(* For any jobs, workers, numbers of tries, crashes and lost transactions:   *)
(* when no two processes run under one INSTANCE_NAME, a claimed row is its   *)
(* worker's alone, tries are counted, and the queue implements JobPromise.   *)
EXTENDS JobQueue, TLAPS

\* infra/oracle/RUNBOOK.md:103, the deployments' INSTANCE_NAME differs.
NamesDiffer == \A v, w \in Workers : NameOf[v] = NameOf[w] => v = w

\* A process handles one row at a time.
OneInHand == \A w \in Workers : \A g, h \in hand[w] : g = h

IInv == TypeOK /\ OneInHand /\ HolderOwns /\ TriesAreCounted

(* An empty queue and no process satisfy the invariant.                      *)
LEMMA InitGood == Init => IInv
BY QueueAssumption DEF Init, IInv, TypeOK, OneInHand, HolderOwns, TriesAreCounted, Statuses

(* create_job() and cancel_job() touch no row a worker holds.                *)
LEMMA ClientGood ==
  ASSUME IInv, NEW j \in Jobs, Enqueue(j) \/ Cancel(j)
  PROVE  IInv'
<1> USE DEF IInv, Enqueue, Cancel
<1>1. TypeOK'
  BY DEF TypeOK, Statuses
<1>2. OneInHand'
  BY DEF OneInHand
<1>3. HolderOwns'
  BY DEF HolderOwns, TypeOK, Claims
<1>4. TriesAreCounted'
  BY DEF TriesAreCounted, TypeOK
<1> QED  BY <1>1, <1>2, <1>3, <1>4

(* recover_stale() requeues no row a living worker holds: its name differs.  *)
LEMMA StartGood ==
  ASSUME IInv, NamesDiffer, NEW w \in Workers, Start(w)
  PROVE  IInv'
<1> USE DEF IInv, Start
<1>1. TypeOK'
  BY QueueAssumption DEF TypeOK, Recover, RecoverSkipped, Left, Statuses, jobs
<1>2. OneInHand'
  BY DEF OneInHand
<1>3. HolderOwns'
  <2>1. CASE RecoverSkipped(w)
    BY <2>1 DEF HolderOwns, RecoverSkipped, jobs
  <2>2. CASE Recover(w)
    <3>1. \A v \in Workers : \A h \in hand[v] : h.job \in Jobs /\ h.job \notin Left(w)
      BY DEF HolderOwns, NamesDiffer, Left, TypeOK, Claims
    <3>2. \A v \in Workers : \A h \in hand[v] : status'[h.job] = status[h.job]
                                              /\ lockedBy'[h.job] = lockedBy[h.job]
      BY <2>2, <3>1 DEF Recover
    <3> QED  BY <2>2, <3>2 DEF HolderOwns, Recover
  <2> QED  BY <2>1, <2>2
<1>4. TriesAreCounted'
  BY DEF TriesAreCounted, TypeOK, Recover, RecoverSkipped, Left, jobs
<1> QED  BY <1>1, <1>2, <1>3, <1>4

(* A process ends, with or without a row in hand.                            *)
LEMMA EndGood ==
  ASSUME IInv, NEW w \in Workers, Stop(w) \/ Crash(w)
  PROVE  IInv'
<1> USE DEF IInv, Stop, Crash, jobs
<1>1. TypeOK'
  BY QueueAssumption DEF TypeOK
<1>2. OneInHand'
  BY DEF OneInHand, TypeOK
<1>3. HolderOwns'
  BY DEF HolderOwns, TypeOK
<1>4. TriesAreCounted'
  BY DEF TriesAreCounted
<1> QED  BY <1>1, <1>2, <1>3, <1>4

(* claim_next() takes a queued row, which nobody holds.                      *)
LEMMA ClaimGood ==
  ASSUME IInv, NEW w \in Workers, NEW j \in Jobs, ClaimNext(w, j)
  PROVE  IInv'
<1> USE DEF IInv, ClaimNext
<1>1. TypeOK'
  BY QueueAssumption DEF TypeOK, Statuses, Claims
<1>2. OneInHand'
  BY DEF OneInHand, TypeOK
<1>3. HolderOwns'
  <2>1. \A v \in Workers : \A h \in hand[v] : h.job # j /\ h.job \in Jobs
    BY DEF HolderOwns, TypeOK, Claims
  <2>2. /\ status' = [status EXCEPT ![j] = "running"]
        /\ lockedBy' = [lockedBy EXCEPT ![j] = NameOf[w]]
        /\ attempts' = attempts /\ up' = up /\ w \in up
    OBVIOUS
  <2>3. \A v \in Workers : \A h \in hand'[v] :
          h \in hand[v] \/ (v = w /\ h = [job |-> j, tries |-> attempts[j]])
    BY DEF TypeOK
  <2> QED  BY <2>1, <2>2, <2>3 DEF HolderOwns, TypeOK
<1>4. TriesAreCounted'
  BY DEF TriesAreCounted, TypeOK
<1> QED  BY <1>1, <1>2, <1>3, <1>4

(* What every outcome does to the row and to the worker's hand.              *)
LEMMA OutcomeShape ==
  ASSUME IInv, NEW w \in Workers, NEW h \in hand[w],
         Complete(w, h) \/ Block(w, h) \/ Defer(w, h) \/ Fail(w, h)
  PROVE  /\ h.job \in Jobs /\ h.tries \in Nat /\ status[h.job] = "running"
         /\ attempts[h.job] = h.tries
         /\ \E s \in {"succeeded", "blocked", "queued", "failed"}, n \in Nat :
              /\ status' = [status EXCEPT ![h.job] = s]
              /\ attempts' = [attempts EXCEPT ![h.job] = n]
              /\ s \in {"blocked", "queued"} => n < MaxAttempts[h.job]
              /\ s = "failed" => n = MaxAttempts[h.job]
         /\ lockedBy' = [lockedBy EXCEPT ![h.job] = NoName]
         /\ Report(w, h)
<1> USE DEF IInv
<1>1. h \in Claims /\ h.job \in Jobs /\ h.tries \in Nat
  BY DEF TypeOK, Claims
<1>2. status[h.job] = "running" /\ attempts[h.job] = h.tries /\ h.tries < MaxAttempts[h.job]
  BY <1>1 DEF HolderOwns, TriesAreCounted
<1>3. MaxAttempts[h.job] \in Nat
  BY <1>1, QueueAssumption
<1>4. ASSUME NEW s, NEW n, Write(h, s, n)
      PROVE  /\ status' = [status EXCEPT ![h.job] = s]
             /\ attempts' = [attempts EXCEPT ![h.job] = n]
             /\ lockedBy' = [lockedBy EXCEPT ![h.job] = NoName]
  BY <1>1, <1>2, <1>4 DEF Write, TypeOK
<1>5. CASE Complete(w, h)
  BY <1>1, <1>2, <1>4, <1>5 DEF Complete
<1>6. CASE Block(w, h)
  BY <1>1, <1>2, <1>4, <1>6 DEF Block
<1>7. CASE Defer(w, h)
  BY <1>1, <1>2, <1>4, <1>7 DEF Defer
<1>8. CASE Fail(w, h)
  <2>1. CASE h.tries + 1 >= MaxAttempts[h.job]
    <3>1. Write(h, "failed", h.tries + 1) /\ Report(w, h)
      BY <1>8, <2>1 DEF Fail
    <3>2. h.tries + 1 = MaxAttempts[h.job] /\ h.tries + 1 \in Nat
      BY <1>1, <1>2, <1>3, <2>1
    <3> QED  BY <1>1, <1>2, <1>4, <3>1, <3>2
  <2>2. CASE ~(h.tries + 1 >= MaxAttempts[h.job])
    <3>1. Write(h, "queued", h.tries + 1) /\ Report(w, h)
      BY <1>8, <2>2 DEF Fail
    <3>2. h.tries + 1 < MaxAttempts[h.job] /\ h.tries + 1 \in Nat
      BY <1>1, <1>2, <1>3, <2>2
    <3> QED  BY <1>1, <1>2, <1>4, <3>1, <3>2
  <2> QED  BY <2>1, <2>2
<1> QED  BY <1>5, <1>6, <1>7, <1>8

(* An outcome is written to a row no other worker holds.                     *)
LEMMA OutcomeGood ==
  ASSUME IInv, NEW w \in Workers, NEW h \in hand[w],
         Complete(w, h) \/ Block(w, h) \/ Defer(w, h) \/ Fail(w, h)
  PROVE  IInv'
<1>1. PICK s \in {"succeeded", "blocked", "queued", "failed"}, n \in Nat :
        /\ status' = [status EXCEPT ![h.job] = s]
        /\ attempts' = [attempts EXCEPT ![h.job] = n]
        /\ s \in {"blocked", "queued"} => n < MaxAttempts[h.job]
        /\ s = "failed" => n = MaxAttempts[h.job]
  BY OutcomeShape
<1>2. /\ h.job \in Jobs /\ lockedBy' = [lockedBy EXCEPT ![h.job] = NoName]
      /\ hand' = [hand EXCEPT ![w] = {}]
      /\ UNCHANGED <<up, crashes, drops, dropped>>
  BY OutcomeShape DEF Report
<1> USE DEF IInv
<1>3. TypeOK'
  BY <1>1, <1>2 DEF TypeOK, Statuses
<1>4. OneInHand'
  BY <1>2 DEF OneInHand, TypeOK
<1>5. HolderOwns'
  <2>1. \A v \in Workers : \A g \in hand'[v] : v # w /\ g \in hand[v]
    BY <1>2 DEF TypeOK
  <2>2. \A v \in Workers : \A g \in hand'[v] : g.job # h.job
    BY <2>1 DEF HolderOwns
  <2>3. \A v \in Workers : \A g \in hand'[v] : g.job \in Jobs
    BY <2>1 DEF TypeOK, Claims
  <2>4. \A v \in Workers : \A g \in hand'[v] :
          /\ status'[g.job] = status[g.job] /\ attempts'[g.job] = attempts[g.job]
          /\ lockedBy'[g.job] = lockedBy[g.job]
    BY <1>1, <1>2, <2>2, <2>3 DEF TypeOK
  <2> QED  BY <1>2, <2>1, <2>4 DEF HolderOwns
<1>6. TriesAreCounted'
  BY <1>1, <1>2 DEF TriesAreCounted, TypeOK
<1> QED  BY <1>3, <1>4, <1>5, <1>6

(* The outcome is lost: the row stays running, in nobody's hand.             *)
LEMMA LostGood ==
  ASSUME IInv, NEW w \in Workers, NEW h \in hand[w], ReportLost(w, h)
  PROVE  IInv'
<1> USE DEF IInv, ReportLost, jobs
<1>1. TypeOK'
  BY QueueAssumption DEF TypeOK, Claims
<1>2. OneInHand'
  BY DEF OneInHand, TypeOK
<1>3. HolderOwns'
  BY DEF HolderOwns, TypeOK
<1>4. TriesAreCounted'
  BY DEF TriesAreCounted
<1> QED  BY <1>1, <1>2, <1>3, <1>4

(* Retention deletes finished rows, which nobody holds.                      *)
LEMMA PruneGood ==
  ASSUME IInv, NEW old \in SUBSET Jobs, Prune(old)
  PROVE  IInv'
<1> USE DEF IInv, Prune
<1>1. TypeOK'
  BY DEF TypeOK, Statuses
<1>2. OneInHand'
  BY DEF OneInHand
<1>3. HolderOwns'
  BY DEF HolderOwns, TypeOK, Claims
<1>4. TriesAreCounted'
  BY DEF TriesAreCounted, TypeOK
<1> QED  BY <1>1, <1>2, <1>3, <1>4

(* The invariant is inductive while names differ.                            *)
LEMMA StepGood ==
  ASSUME IInv, NamesDiffer, [Next]_vars
  PROVE  IInv'
<1>1. CASE \E j \in Jobs : Enqueue(j) \/ Cancel(j)
  BY <1>1, ClientGood
<1>2. CASE \E w \in Workers : Start(w) \/ Stop(w) \/ Crash(w)
  BY <1>2, StartGood, EndGood
<1>3. CASE \E w \in Workers : Outcome(w)
  BY <1>3, OutcomeGood, LostGood DEF Outcome
<1>4. CASE \E w \in Workers, j \in Jobs : ClaimNext(w, j)
  BY <1>4, ClaimGood
<1>5. CASE \E old \in SUBSET Jobs : Prune(old)
  BY <1>5, PruneGood
<1>6. CASE UNCHANGED vars
  BY <1>6 DEF vars, jobs, IInv, TypeOK, OneInHand, HolderOwns, TriesAreCounted
<1> QED  BY <1>1, <1>2, <1>3, <1>4, <1>5, <1>6 DEF Next

LEMMA Invariance ==
  ASSUME NamesDiffer
  PROVE  Spec => []IInv
<1>1. IInv /\ [Next]_vars => IInv'
  BY StepGood
<1> QED  BY <1>1, InitGood, PTL DEF Spec

(* The jobs table and the workers' copies stay well typed.                   *)
THEOREM QueueTypes ==
  ASSUME NamesDiffer
  PROVE  Spec => []TypeOK
BY Invariance, PTL DEF IInv

(* A claimed row is its worker's alone, whatever restarts around it.         *)
THEOREM HolderIsOwner ==
  ASSUME NamesDiffer
  PROVE  Spec => []HolderOwns
BY Invariance, PTL DEF IInv

(* No job fails while it has tries left, none is tried once it has none.     *)
THEOREM TriesCounted ==
  ASSUME NamesDiffer
  PROVE  Spec => []TriesAreCounted
BY Invariance, PTL DEF IInv
-----------------------------------------------------------------------------
(* What recover_stale() relies on: nothing else looks for a running row.     *)

\* A running row is in a worker's hand, or waits for the worker of its name to
\* start again, or a transaction about it was lost.
RunIsAnswered ==
  \A j \in Jobs : status[j] = "running" =>
    \/ j \in dropped
    \/ \E w \in Workers : \E h \in hand[w] : h.job = j
    \/ \E w \in Workers \ up : NameOf[w] = lockedBy[j]

(* A process that starts takes back what its last life left behind.          *)
LEMMA StartAnswers ==
  ASSUME IInv, NamesDiffer, RunIsAnswered, NEW w \in Workers, Start(w)
  PROVE  RunIsAnswered'
<1>1. SUFFICES ASSUME NEW j \in Jobs, status'[j] = "running", j \notin dropped',
                      \A v \in Workers : \A h \in hand[v] : h.job # j
               PROVE  \E v \in Workers \ up' : NameOf[v] = lockedBy'[j]
  BY DEF RunIsAnswered, Start
<1>2. up' = up \cup {w} /\ status[j] = "running" /\ lockedBy'[j] = lockedBy[j]
      /\ j \notin dropped /\ j \notin Left(w)
  <2>1. CASE Recover(w)
    BY <1>1, <2>1 DEF Start, Recover, Left
  <2>2. CASE RecoverSkipped(w)
    BY <1>1, <2>2 DEF Start, RecoverSkipped, jobs
  <2> QED  BY <2>1, <2>2 DEF Start
<1>3. lockedBy[j] # NameOf[w]
  BY <1>2 DEF Left
<1> QED  BY <1>1, <1>2, <1>3 DEF RunIsAnswered

(* A process that ends leaves its row under its name, and one that stops has *)
(* none.                                                                     *)
LEMMA EndAnswers ==
  ASSUME IInv, RunIsAnswered, NEW w \in Workers, Stop(w) \/ Crash(w)
  PROVE  RunIsAnswered'
<1>1. SUFFICES ASSUME NEW j \in Jobs, status[j] = "running", j \notin dropped,
                      \A v \in Workers : \A h \in hand'[v] : h.job # j
               PROVE  \E v \in Workers \ up' : NameOf[v] = lockedBy[j]
  BY DEF RunIsAnswered, Stop, Crash, jobs
<1>2. up' = up \ {w} /\ \A v \in Workers : v # w => hand'[v] = hand[v]
  BY DEF Stop, Crash, IInv, TypeOK
<1>3. CASE \E h \in hand[w] : h.job = j
  BY <1>2, <1>3 DEF IInv, HolderOwns
<1>4. CASE \A h \in hand[w] : h.job # j
  BY <1>1, <1>2, <1>4 DEF RunIsAnswered
<1> QED  BY <1>3, <1>4

(* Whoever lets his row go writes its outcome, or loses the transaction.     *)
LEMMA OutcomeAnswers ==
  ASSUME IInv, RunIsAnswered, NEW w \in Workers, Outcome(w)
  PROVE  RunIsAnswered'
<1>1. PICK h \in hand[w] : Complete(w, h) \/ Block(w, h) \/ Defer(w, h) \/ Fail(w, h) \/ ReportLost(w, h)
  BY DEF Outcome
<1>2. h.job \in Jobs /\ \A g \in hand[w] : g = h
  BY <1>1 DEF IInv, TypeOK, Claims, OneInHand
<1>3. CASE ReportLost(w, h)
  BY <1>2, <1>3 DEF ReportLost, jobs, IInv, TypeOK, RunIsAnswered
<1>4. CASE Complete(w, h) \/ Block(w, h) \/ Defer(w, h) \/ Fail(w, h)
  <2>1. /\ \E s \in {"succeeded", "blocked", "queued", "failed"} : status' = [status EXCEPT ![h.job] = s]
        /\ lockedBy' = [lockedBy EXCEPT ![h.job] = NoName]
        /\ hand' = [hand EXCEPT ![w] = {}] /\ UNCHANGED <<up, dropped>>
    BY <1>1, <1>4, OutcomeShape DEF Report
  <2>2. status'[h.job] # "running"
        /\ \A j \in Jobs : j # h.job => status'[j] = status[j] /\ lockedBy'[j] = lockedBy[j]
    BY <1>2, <2>1 DEF IInv, TypeOK
  <2>3. \A v \in Workers : v # w => hand'[v] = hand[v]
    BY <2>1 DEF IInv, TypeOK
  <2> QED  BY <1>2, <2>1, <2>2, <2>3 DEF RunIsAnswered
<1> QED  BY <1>1, <1>3, <1>4

LEMMA ClaimAnswers ==
  ASSUME IInv, RunIsAnswered, NEW w \in Workers, NEW j \in Jobs, ClaimNext(w, j)
  PROVE  RunIsAnswered'
<1>1. /\ status' = [status EXCEPT ![j] = "running"] /\ lockedBy' = [lockedBy EXCEPT ![j] = NameOf[w]]
      /\ up' = up /\ hand[w] = {}
  BY DEF ClaimNext
<1>2. /\ dropped \subseteq dropped'
      /\ j \in dropped' \/ \E h \in hand'[w] : h.job = j
      /\ \A v \in Workers : v # w => hand'[v] = hand[v]
  <2>1. CASE hand' = [hand EXCEPT ![w] = {[job |-> j, tries |-> attempts[j]]}] /\ dropped' = dropped
    <3>1. hand'[w] = {[job |-> j, tries |-> attempts[j]]}
      BY <2>1 DEF IInv, TypeOK
    <3>2. [job |-> j, tries |-> attempts[j]] \in hand'[w] /\ [job |-> j, tries |-> attempts[j]].job = j
      BY <3>1
    <3> QED  BY <2>1, <3>2 DEF IInv, TypeOK
  <2>2. CASE hand' = hand /\ dropped' = dropped \cup {j}
    BY <2>2
  <2> QED  BY <2>1, <2>2 DEF ClaimNext
<1> QED  BY <1>1, <1>2 DEF RunIsAnswered, IInv, TypeOK

(* FAILURE_MODES.md:15, a job left running by a crash is requeued on restart: *)
(* no running row is forgotten. It is being executed, or the next start of    *)
(* the worker that died with it requeues it - unless a transaction about it   *)
(* was lost while its worker lived on.                                        *)
THEOREM NoRunIsForgotten ==
  ASSUME NamesDiffer
  PROVE  Spec => []RunIsAnswered
<1>1. Init => RunIsAnswered
  BY DEF Init, RunIsAnswered
<1>2. IInv /\ RunIsAnswered /\ [Next]_vars => RunIsAnswered'
  <2> SUFFICES ASSUME IInv, RunIsAnswered, [Next]_vars PROVE RunIsAnswered'
    OBVIOUS
  <2>1. CASE UNCHANGED vars
    BY <2>1 DEF vars, jobs, RunIsAnswered
  <2>2. ASSUME NEW j \in Jobs, Enqueue(j) \/ Cancel(j) PROVE RunIsAnswered'
    BY <2>2 DEF Enqueue, Cancel, RunIsAnswered, IInv, TypeOK
  <2>3. ASSUME NEW old \in SUBSET Jobs, Prune(old) PROVE RunIsAnswered'
    BY <2>3 DEF Prune, RunIsAnswered
  <2> QED
    BY <2>1, <2>2, <2>3, StartAnswers, EndAnswers, OutcomeAnswers, ClaimAnswers DEF Next
<1> QED  BY <1>1, <1>2, Invariance, PTL DEF Spec
-----------------------------------------------------------------------------
(* The refinement: what JobPromise calls verdict and executing.              *)
VerdictNow == [j \in Jobs |-> VerdictOf(status[j])]
Executing == {j \in Jobs : \E w \in Workers : \E h \in hand[w] : h.job = j}

(* A worker that lets its row go ends the row's only execution.              *)
LEMMA Released ==
  ASSUME IInv, NEW w \in Workers, NEW h \in hand[w], hand' = [hand EXCEPT ![w] = {}]
  PROVE  h.job \in Executing /\ Executing' = Executing \ {h.job}
<1>1. h.job \in Jobs
  BY DEF IInv, TypeOK, Claims
<1>2. \A v \in Workers : hand'[v] = IF v = w THEN {} ELSE hand[v]
  BY DEF IInv, TypeOK
<1>3. \A g \in hand[w] : g.job = h.job
  BY DEF IInv, OneInHand
<1>4. \A v \in Workers : \A g \in hand[v] : g.job = h.job => v = w
  BY DEF IInv, HolderOwns
<1> QED  BY <1>1, <1>2, <1>3, <1>4 DEF Executing

(* What is executed is running; its verdict is open.                         *)
LEMMA ExecutingIsOpen ==
  ASSUME IInv, NEW j \in Executing
  PROVE  j \in Jobs /\ status[j] = "running" /\ VerdictNow[j] = "open"
BY DEF IInv, HolderOwns, Executing, VerdictNow, VerdictOf

(* An execution that ends leaves one of four verdicts.                       *)
LEMMA EndsWith ==
  ASSUME IInv, NEW w \in Workers, NEW h \in hand[w], hand' = [hand EXCEPT ![w] = {}],
         NEW v \in {"open", "succeeded", "failed", "blocked"},
         VerdictNow' = [VerdictNow EXCEPT ![h.job] = v]
  PROVE  Promise!Next
<1>1. /\ h.job \in Jobs /\ h.job \in Executing /\ Executing' = Executing \ {h.job}
      /\ VerdictNow[h.job] = "open"
  BY Released, ExecutingIsOpen
<1>2. Promise!End(h.job)
  BY <1>1 DEF Promise!End, VerdictNow, Executing
<1> QED  BY <1>1, <1>2 DEF Promise!Next

LEMMA SameView ==
  ASSUME VerdictNow' = VerdictNow, Executing' = Executing
  PROVE  UNCHANGED Promise!promise
BY DEF Promise!promise, VerdictNow, Executing

(* A process that ends with a row in hand ends the execution, no verdict.    *)
LEMMA LetGoRefines ==
  ASSUME IInv, NEW w \in Workers, UNCHANGED status, hand' = [hand EXCEPT ![w] = {}]
  PROVE  Promise!Next \/ UNCHANGED Promise!promise
<1>1. CASE hand[w] = {}
  <2>1. hand' = hand
    BY <1>1 DEF IInv, TypeOK
  <2> QED  BY <2>1, SameView DEF VerdictNow, Executing
<1>2. CASE hand[w] # {}
  <2>1. PICK h \in hand[w] : TRUE
    BY <1>2
  <2>2. h.job \in Executing /\ VerdictNow[h.job] = "open"
    BY Released, ExecutingIsOpen
  <2>3. VerdictNow' = [VerdictNow EXCEPT ![h.job] = "open"]
    BY <2>2 DEF VerdictNow
  <2> QED  BY <2>3, EndsWith
<1> QED  BY <1>1, <1>2

(* An outcome is the verdict of the execution that ends.                     *)
LEMMA OutcomeRefines ==
  ASSUME IInv, NEW w \in Workers, NEW h \in hand[w],
         Complete(w, h) \/ Block(w, h) \/ Defer(w, h) \/ Fail(w, h)
  PROVE  Promise!Next
<1>1. PICK s \in {"succeeded", "blocked", "queued", "failed"} :
        status' = [status EXCEPT ![h.job] = s]
  BY OutcomeShape
<1>2. h.job \in Jobs /\ hand' = [hand EXCEPT ![w] = {}]
  BY OutcomeShape DEF Report
<1>3. VerdictOf(s) \in {"open", "succeeded", "failed", "blocked"}
  BY DEF VerdictOf
<1>4. VerdictNow' = [VerdictNow EXCEPT ![h.job] = VerdictOf(s)]
  BY <1>1, <1>2 DEF VerdictNow, IInv, TypeOK
<1> QED  BY <1>2, <1>3, <1>4, EndsWith

(* A queued row is in nobody's hand: its execution may begin, or the owner   *)
(* may cancel it.                                                            *)
LEMMA QueuedRefines ==
  ASSUME IInv, NEW j \in Jobs, Cancel(j) \/ \E w \in Workers : ClaimNext(w, j)
  PROVE  Promise!Next \/ UNCHANGED Promise!promise
<1>1. status[j] = "queued" /\ j \notin Executing /\ VerdictNow[j] = "open"
  BY ExecutingIsOpen DEF Cancel, ClaimNext, VerdictNow, VerdictOf
<1>2. CASE Cancel(j)
  <2>1. VerdictNow' = [VerdictNow EXCEPT ![j] = "cancelled"] /\ Executing' = Executing
    BY <1>2 DEF Cancel, VerdictNow, VerdictOf, Executing, IInv, TypeOK
  <2>2. Promise!Cancel(j)
    BY <1>1, <2>1 DEF Promise!Cancel, VerdictNow, Executing
  <2> QED  BY <2>2 DEF Promise!Next
<1>3. ASSUME NEW w \in Workers, ClaimNext(w, j)
      PROVE  Promise!Next \/ UNCHANGED Promise!promise
  <2>1. VerdictNow' = VerdictNow
    BY <1>1, <1>3 DEF ClaimNext, VerdictNow, VerdictOf, IInv, TypeOK
  <2>2. CASE hand' = hand
    BY <2>1, <2>2, SameView DEF Executing
  <2>3. CASE hand' = [hand EXCEPT ![w] = {[job |-> j, tries |-> attempts[j]]}]
    <3>1. \A v \in Workers : hand'[v] = IF v = w THEN {[job |-> j, tries |-> attempts[j]]} ELSE hand[v]
      BY <2>3 DEF IInv, TypeOK
    <3>2. hand[w] = {}
      BY <1>3 DEF ClaimNext
    <3>3. \A i \in Jobs : (\E v \in Workers : \E h \in hand'[v] : h.job = i)
                         <=> (i = j \/ \E v \in Workers : \E h \in hand[v] : h.job = i)
      <4> DEFINE r == [job |-> j, tries |-> attempts[j]]
      <4>1. r.job = j /\ hand'[w] = {r}
        BY <3>1
      <4>2. \A v \in Workers \ {w} : hand'[v] = hand[v]
        BY <3>1
      <4> HIDE DEF r
      <4> QED  BY <3>2, <4>1, <4>2
    <3>4. Executing' = Executing \cup {j}
      BY <3>3 DEF Executing
    <3>5. Promise!Begin(j)
      BY <1>1, <2>1, <3>4 DEF Promise!Begin, VerdictNow, Executing
    <3> QED  BY <3>5 DEF Promise!Next
  <2> QED  BY <1>3, <2>2, <2>3 DEF ClaimNext
<1> QED  BY <1>2, <1>3

(* Retention forgets verdicts, never a blocked job's.                        *)
LEMMA PruneRefines ==
  ASSUME IInv, NEW old \in SUBSET Jobs, Prune(old)
  PROVE  Promise!Next
<1>1. \A j \in old : j \in Jobs /\ status[j] \in {"succeeded", "cancelled", "failed"}
  BY DEF Prune
<1>2. \A j \in old : VerdictNow[j] \in {"succeeded", "failed", "cancelled"} /\ j \notin Executing
  BY <1>1, ExecutingIsOpen DEF VerdictNow, VerdictOf
<1>3. VerdictNow' = [j \in Jobs |-> IF j \in old THEN "forgotten" ELSE VerdictNow[j]]
  BY DEF Prune, VerdictNow, VerdictOf
<1>4. Executing' = Executing
  BY DEF Prune, Executing
<1>5. Promise!Forget(old)
  BY <1>2, <1>3, <1>4 DEF Promise!Forget, VerdictNow, Executing
<1> QED  BY <1>5 DEF Promise!Next

(* Creating and recovering rows changes no verdict and no execution.         *)
LEMMA QuietRefines ==
  ASSUME IInv, (\E j \in Jobs : Enqueue(j)) \/ (\E w \in Workers : Start(w)) \/ UNCHANGED vars
  PROVE  UNCHANGED Promise!promise
<1>1. hand' = hand
  BY DEF Enqueue, Start, vars
<1>2. \A j \in Jobs : VerdictOf(status[j])' = VerdictOf(status[j])
  BY DEF Enqueue, Start, Recover, RecoverSkipped, Left, jobs, vars, VerdictOf, IInv, TypeOK
<1> QED  BY <1>1, <1>2, SameView DEF VerdictNow, Executing

(* The queue keeps its promise: one execution at a time, one verdict.        *)
THEOREM PromiseKept ==
  ASSUME NamesDiffer
  PROVE  Spec => KeepsPromise
<1>1. Init => Promise!Init
  BY DEF Init, Promise!Init, VerdictOf
<1>2. IInv /\ [Next]_vars => [Promise!Next]_Promise!promise
  <2> SUFFICES ASSUME IInv, [Next]_vars PROVE [Promise!Next]_Promise!promise
    OBVIOUS
  <2>1. CASE \E j \in Jobs : Cancel(j) \/ \E w \in Workers : ClaimNext(w, j)
    BY <2>1, QueuedRefines
  <2>2. CASE \E w \in Workers : Stop(w) \/ Crash(w) \/ \E h \in hand[w] : ReportLost(w, h)
    <3>1. PICK w \in Workers : Stop(w) \/ Crash(w) \/ \E h \in hand[w] : ReportLost(w, h)
      BY <2>2
    <3>2. UNCHANGED status /\ hand' = [hand EXCEPT ![w] = {}]
      BY <3>1 DEF Stop, Crash, ReportLost, jobs, IInv, TypeOK
    <3> QED  BY <3>2, LetGoRefines
  <2>3. CASE \E w \in Workers : \E h \in hand[w] :
               Complete(w, h) \/ Block(w, h) \/ Defer(w, h) \/ Fail(w, h)
    BY <2>3, OutcomeRefines
  <2>4. CASE \E old \in SUBSET Jobs : Prune(old)
    BY <2>4, PruneRefines
  <2>5. CASE (\E j \in Jobs : Enqueue(j)) \/ (\E w \in Workers : Start(w)) \/ UNCHANGED vars
    BY <2>5, QuietRefines
  <2> QED  BY <2>1, <2>2, <2>3, <2>4, <2>5 DEF Next, Outcome
<1> QED  BY <1>1, <1>2, Invariance, PTL DEF Spec, KeepsPromise, Promise!Spec
=============================================================================
