--------------------------- MODULE OutreachSender ---------------------------
(* The Hostinger outreach sender (outreach/sender.py, the campaign's         *)
(* planner, the reply poll and the order outreach_sender.cycle runs them in) *)
(* over the tables outreach_queue and companies, with a mail server that may *)
(* refuse, break off or accept, workers that may die between any two         *)
(* commits, and prospects who answer.                                        *)
(*                                                                           *)
(* A row of outreach_queue is named by its unique key <<company, step>>. Due *)
(* times, the send window, the caps and the pacing only choose among the     *)
(* rows a worker may claim and when a run stops: both are left open here.    *)
EXTENDS SendGuard, FiniteSets

CONSTANTS Companies,       \* prospects with approved copy
          MaxStep,         \* the last follow-up
          Workers,         \* processes that run cycles
          Ids, NoId,       \* Message-IDs one row may be given; NULL
          MaxAttempts,     \* pacing.max_attempts
          MaxCrashes,      \* bound: workers killed in the middle of a cycle
          Replies,         \* the labels prospects' answers may get
          AutoFiles,       \* the mail server files its own copy in Sent
          Overlap,         \* two cycles may run at once (the workflow forbids it)
          Restage          \* the owner re-stages drafts from the dashboard

ASSUME SenderAssumption ==
  /\ MaxStep \in Nat /\ MaxAttempts \in Nat \ {0} /\ MaxCrashes \in Nat
  /\ NoId \notin Ids
  /\ Replies \subseteq Labels
  /\ AutoFiles \in BOOLEAN /\ Overlap \in BOOLEAN /\ Restage \in BOOLEAN

Steps == 0 .. MaxStep
Rows == Companies \X Steps
QueueStates == {"absent", "queued", "claimed", "sent", "failed", "cancelled", "ambiguous"}

VARIABLES
  qstate, msgid, attempts, \* outreach_queue: state, message_id_header, attempts
  stale,                   \* its claimed_at is more than STALE_CLAIM ago
  conv,                    \* what the database knows of each company
  pc, item, todo, followups, \* per worker: where it is, the row it handles (at most
                           \* one), rows recover() selected, may it send follow-ups
  delivered, filed,        \* mail world: times a row's email went out, Sent's copies
  recorded,                \* Message-IDs stored in outreach_messages
  unread, missed,          \* answers not yet polled; opt-outs polled but not applied
  crashes

queue == <<qstate, msgid, attempts, stale>>
worker == <<pc, item, todo, followups>>
mail == <<delivered, filed>>
vars == <<queue, conv, worker, mail, recorded, unread, missed, crashes>>

Items == [row: Rows, id: Ids \cup {NoId}, tries: Nat]
Recovered == [row: Rows, id: Ids \cup {NoId}]
Handling == {"claimed", "guarded", "smtp", "file", "record", "lookup"}   \* a row in hand
PCs == Handling \cup {"off", "plan", "replenish", "recover", "recovering", "poll", "sweep", "run", "bounce"}

KindOf(r) == IF r[2] = 0 THEN "cold" ELSE "followup"

TypeOK ==
  /\ qstate \in [Rows -> QueueStates] /\ msgid \in [Rows -> Ids \cup {NoId}]
  /\ attempts \in [Rows -> Nat] /\ stale \in [Rows -> BOOLEAN]
  /\ conv \in [Companies -> Company]
  /\ pc \in [Workers -> PCs] /\ item \in [Workers -> SUBSET Items]
  /\ todo \in [Workers -> SUBSET Recovered] /\ followups \in [Workers -> BOOLEAN]
  /\ delivered \in [Rows -> Nat] /\ filed \subseteq Rows \X Ids /\ recorded \subseteq Rows \X Ids
  /\ unread \in [Companies -> SUBSET Replies] /\ missed \subseteq Companies
  /\ crashes \in 0 .. MaxCrashes

Init ==
  /\ qstate = [r \in Rows |-> "absent"] /\ msgid = [r \in Rows |-> NoId]
  /\ attempts = [r \in Rows |-> 0] /\ stale = [r \in Rows |-> FALSE]
  /\ \E o \in {"outreach_ready", "handed_off"} : conv = [c \in Companies |-> FreshCompany(o)]
  /\ pc = [w \in Workers |-> "off"] /\ item = [w \in Workers |-> {}]
  /\ todo = [w \in Workers |-> {}] /\ followups = [w \in Workers |-> FALSE]
  /\ delivered = [r \in Rows |-> 0] /\ filed = {} /\ recorded = {}
  /\ unread = [c \in Companies |-> {}] /\ missed = {}
  /\ crashes = 0
-----------------------------------------------------------------------------
(* Steps of sender.py on one queue row                                       *)

\* _release(): back to the queue, if the row is still claimed.
Release(r, undo) ==
  IF qstate[r] = "claimed"
  THEN /\ qstate' = [qstate EXCEPT ![r] = "queued"]
       /\ stale' = [stale EXCEPT ![r] = FALSE]
       /\ attempts' = [attempts EXCEPT ![r] = IF undo THEN @ - 1 ELSE @]
       /\ UNCHANGED msgid
  ELSE UNCHANGED queue

\* _finish(): whatever state the row is in.
Finish(r, state) ==
  /\ qstate' = [qstate EXCEPT ![r] = IF @ = "absent" THEN @ ELSE state]
  /\ stale' = [stale EXCEPT ![r] = FALSE]
  /\ UNCHANGED <<msgid, attempts>>

FinishAmbiguous(r) ==
  /\ Finish(r, "ambiguous")
  /\ conv' = [conv EXCEPT ![r[1]] = MaybeContacted(@)]

NextTouch(r) == <<r[1], r[2] + 1>>

\* record_sent(): store the email, mark the row, insert the next touch if
\* there is copy for it (cancelled if that copy fails the check). One transaction.
RecordSent(r, id) ==
  LET n == NextTouch(r) IN
  /\ \E planned \in {"absent", "queued", "cancelled"} :
       qstate' = [q \in Rows |-> IF q = r /\ qstate[q] # "absent" THEN "sent"
                                 ELSE IF q = n /\ qstate[q] = "absent" THEN planned
                                 ELSE qstate[q]]
  /\ stale' = [stale EXCEPT ![r] = FALSE]
  /\ conv' = [conv EXCEPT ![r[1]] = RecordedSend(@, KindOf(r), <<r, id>> \in recorded)]
  /\ recorded' = recorded \cup {<<r, id>>}
  /\ UNCHANGED <<msgid, attempts>>
-----------------------------------------------------------------------------
(* A cycle: sweep, plan, recover, poll, sweep again, then the send run       *)

Goto(w, p) == pc' = [pc EXCEPT ![w] = p]

\* config/outreach_sender.yaml stop_statuses
StopStatuses == {"replied", "interested", "qualified", "meeting_requested", "proposal_needed",
                 "proposal_sent", "negotiating", "won", "lost", "not_now", "do_not_contact",
                 "needs_review"}

Stopped(c) == /\ conv[c].status # NoRow
              /\ \/ conv[c].dnc \/ conv[c].bounced \/ conv[c].inbound
                 \/ conv[c].status \in StopStatuses

\* Mutant: rows a worker holds, or held when it died, are cancelled as well.
SweepHeld ==
  /\ qstate' = [r \in Rows |-> IF qstate[r] \in {"queued", "claimed"} /\ r[2] > 0 /\ Stopped(r[1])
                               THEN "cancelled" ELSE qstate[r]]
  /\ UNCHANGED <<msgid, attempts, stale>>

\* sweep(): one UPDATE over every waiting follow-up.
Sweep ==
  /\ qstate' = [r \in Rows |-> IF qstate[r] = "queued" /\ r[2] > 0 /\ Stopped(r[1])
                               THEN "cancelled" ELSE qstate[r]]
  /\ UNCHANGED <<msgid, attempts, stale>>

OpenCycle(w) ==
  /\ pc[w] = "off"
  /\ Overlap \/ \A v \in Workers : pc[v] = "off"
  /\ Sweep \/ UNCHANGED queue
  /\ Goto(w, "plan")
  /\ UNCHANGED <<conv, item, todo, followups, mail, recorded, unread, missed, crashes>>

Unqueued(state, c) == \A s \in Steps : state[<<c, s>>] \notin {"sent", "queued", "claimed"}

\* _enqueue_approved(): companies the planner finds and the guard passes get a
\* first touch. state and known are what its transaction sees.
Plannable(state, known) ==
  {c \in Companies : /\ Unqueued(state, c) /\ state[<<c, 0>>] = "absent"
                     /\ SendCheck(known[c], "cold")}

Planned(state, chosen) ==
  [r \in Rows |-> IF r[1] \in chosen /\ r[2] = 0 THEN "queued" ELSE state[r]]

\* queue_approved(), first transaction: cancelled rows are deleted.
Plan(w) ==
  /\ pc[w] = "plan"
  /\ LET left == [r \in Rows |-> IF qstate[r] = "cancelled" THEN "absent" ELSE qstate[r]]
         gone == {r \in Rows : qstate[r] = "cancelled"}
     IN /\ \E chosen \in SUBSET Plannable(left, conv) : qstate' = Planned(left, chosen)
        /\ msgid' = [r \in Rows |-> IF r \in gone THEN NoId ELSE msgid[r]]
        /\ attempts' = [r \in Rows |-> IF r \in gone THEN 0 ELSE attempts[r]]
  /\ Goto(w, "replenish")
  /\ UNCHANGED <<stale, conv, item, todo, followups, mail, recorded, unread, missed, crashes>>

\* auto_prepare_campaign(): companies that score well are put on the lead
\* engine's list, leads the guard refuses are taken off it.
Prepared(scored, leads) ==
  LET listed == [c \in Companies |-> IF c \in scored THEN Qualified(conv[c]) ELSE conv[c]]
  IN [c \in Companies |-> IF c \in leads THEN Screened(listed[c]) ELSE listed[c]]

\* The rest of queue_approved(), when approved copy runs low: the prepared
\* companies get copy and may be queued.
Replenish(w) ==
  /\ pc[w] = "replenish"
  /\ LET free == {c \in Companies : Unqueued(qstate, c)} IN
     \E scored \in SUBSET {c \in free : Eligible(conv[c])},
        leads \in SUBSET {c \in free : ~conv[c].contacted} :
       /\ conv' = Prepared(scored, leads)
       /\ \E chosen \in SUBSET Plannable(qstate, conv') : qstate' = Planned(qstate, chosen)
  /\ Goto(w, "recover")
  /\ UNCHANGED <<msgid, attempts, stale, item, todo, followups, mail, recorded, unread, missed,
                 crashes>>

\* cycle.step(): an error in one step is rolled back and the next step runs.
StepFails(w) ==
  /\ \/ pc[w] \in {"plan", "replenish"} /\ Goto(w, "recover")
     \/ pc[w] \in {"recover", "recovering"} /\ Goto(w, "poll")
     \/ pc[w] = "sweep" /\ Goto(w, "run")
  /\ todo' = [todo EXCEPT ![w] = {}]
  /\ UNCHANGED <<queue, conv, item, followups, mail, recorded, unread, missed, crashes>>

\* The mail server refuses the login or is down: nothing more this cycle.
NoLogin(w) ==
  /\ pc[w] = "recover"
  /\ Goto(w, "off")
  /\ UNCHANGED <<queue, conv, item, todo, followups, mail, recorded, unread, missed, crashes>>

\* Mutants: only rows that reached the SMTP step, or only those that did not.
RecoverSelectWhere(w, P(_)) ==
  /\ pc[w] = "recover"
  /\ LET dead == {r \in Rows : qstate[r] = "claimed" /\ stale[r] /\ P(r)} IN
     /\ todo' = [todo EXCEPT ![w] = {[row |-> r, id |-> msgid[r]] : r \in dead}]
     /\ Goto(w, IF dead = {} THEN "poll" ELSE "recovering")
  /\ UNCHANGED <<queue, conv, item, followups, mail, recorded, unread, missed, crashes>>
RecoverSelectWithId(w) == LET P(r) == msgid[r] # NoId IN RecoverSelectWhere(w, P)
RecoverSelectWithoutId(w) == LET P(r) == msgid[r] = NoId IN RecoverSelectWhere(w, P)

\* recover(): the rows a dead worker left, read once and then handled one by one.
RecoverSelect(w) ==
  /\ pc[w] = "recover"
  /\ LET dead == {r \in Rows : qstate[r] = "claimed" /\ stale[r]} IN
     /\ todo' = [todo EXCEPT ![w] = {[row |-> r, id |-> msgid[r]] : r \in dead}]
     /\ Goto(w, IF dead = {} THEN "poll" ELSE "recovering")
  /\ UNCHANGED <<queue, conv, item, followups, mail, recorded, unread, missed, crashes>>

RecoverNext(w, t) ==
  /\ todo' = [todo EXCEPT ![w] = @ \ {t}]
  /\ Goto(w, IF todo[w] = {t} THEN "poll" ELSE "recovering")
  /\ UNCHANGED <<item, followups, mail, unread, missed, crashes>>

\* Mutant: whatever the dead worker left is simply tried again.
RecoverRetried(w, t) ==
  /\ pc[w] = "recovering" /\ t \in todo[w]
  /\ Release(t.row, FALSE) /\ RecoverNext(w, t)
  /\ UNCHANGED <<conv, recorded>>

\* No Message-ID: it never reached the SMTP step.
RecoverUnsent(w, t) ==
  /\ pc[w] = "recovering" /\ t \in todo[w] /\ t.id = NoId
  /\ Release(t.row, FALSE)
  /\ RecoverNext(w, t)
  /\ UNCHANGED <<conv, recorded>>

\* Mutant: a Message-ID counts as proof.
RecoverBelieved(w, t) ==
  /\ pc[w] = "recovering" /\ t \in todo[w] /\ t.id # NoId
  /\ RecordSent(t.row, t.id) /\ RecoverNext(w, t)

\* The Sent folder decides; a search it refuses counts as no copy.
RecoverDecided(w, t) ==
  /\ pc[w] = "recovering" /\ t \in todo[w] /\ t.id # NoId
  /\ \/ <<t.row, t.id>> \in filed /\ RecordSent(t.row, t.id)
     \/ FinishAmbiguous(t.row) /\ UNCHANGED recorded
  /\ RecoverNext(w, t)

\* The Sent folder could not be read: left for the next cycle.
RecoverUnknown(w, t) ==
  /\ pc[w] = "recovering" /\ t \in todo[w] /\ t.id # NoId
  /\ RecoverNext(w, t)
  /\ UNCHANGED <<queue, conv, recorded>>

\* process_inbound() of a polled answer; a refused transition is rolled back.
Answered(c, l) == IF ReplyRaises(conv[c], l) THEN conv[c] ELSE Replied(conv[c], l, "none", TRUE)
Applied(c, l) == Reaches(conv[c], l) /\ ~ReplyRaises(conv[c], l)

\* replies.poll(): mail of companies nobody is known to have emailed is passed over.
Poll(w) ==
  /\ pc[w] = "poll"
  /\ conv' = [c \in Companies |-> IF \E l \in unread[c] : Reaches(conv[c], l)
                                  THEN Answered(c, CHOOSE l \in unread[c] : TRUE) ELSE conv[c]]
  /\ missed' = missed \cup {c \in Companies : "UNSUBSCRIBE" \in unread[c]
                                               /\ ~Applied(c, "UNSUBSCRIBE")}
  /\ unread' = [c \in Companies |-> {}]
  /\ followups' = [followups EXCEPT ![w] = TRUE]
  /\ Goto(w, "sweep")
  /\ UNCHANGED <<queue, item, todo, mail, recorded, crashes>>

\* The inbox could not be read: this run sends first touches only.
PollFails(w) ==
  /\ pc[w] = "poll"
  /\ followups' = [followups EXCEPT ![w] = FALSE]
  /\ Goto(w, "sweep")
  /\ UNCHANGED <<queue, conv, item, todo, mail, recorded, unread, missed, crashes>>

SweepAgain(w) ==
  /\ pc[w] = "sweep"
  /\ Sweep /\ Goto(w, "run")
  /\ UNCHANGED <<conv, item, todo, followups, mail, recorded, unread, missed, crashes>>
-----------------------------------------------------------------------------
(* run() and send_item()                                                     *)

Claim(w, r) ==
  /\ pc[w] = "run"
  /\ qstate[r] = "queued" /\ (followups[w] \/ r[2] = 0)
  /\ qstate' = [qstate EXCEPT ![r] = "claimed"]
  /\ attempts' = [attempts EXCEPT ![r] = @ + 1]
  /\ stale' = [stale EXCEPT ![r] = FALSE]
  /\ item' = [item EXCEPT ![w] = {[row |-> r, id |-> msgid[r], tries |-> attempts[r] + 1]}]
  /\ Goto(w, "claimed")
  /\ UNCHANGED <<msgid, conv, todo, followups, mail, recorded, unread, missed, crashes>>

\* Nothing due, a cap or the window reached, or three failures in a row.
Stop(w) ==
  /\ pc[w] = "run"
  /\ Goto(w, "off") /\ followups' = [followups EXCEPT ![w] = FALSE]
  /\ UNCHANGED <<queue, conv, item, todo, mail, recorded, unread, missed, crashes>>

\* The worker is done with its row and goes on to p.
LetGo(w, p) ==
  /\ item' = [item EXCEPT ![w] = {}]
  /\ Goto(w, p)
  /\ followups' = [followups EXCEPT ![w] = @ /\ p # "off"]
  /\ UNCHANGED <<todo, unread, missed, crashes>>

GuardError(w, it) ==
  /\ pc[w] = "claimed" /\ it \in item[w]
  /\ Release(it.row, TRUE)
  /\ LetGo(w, "run")
  /\ UNCHANGED <<conv, mail, recorded>>

\* The guard, the duplicate check or the copy check refuses.
Refuse(w, it) ==
  /\ pc[w] = "claimed" /\ it \in item[w]
  /\ Finish(it.row, "cancelled")
  /\ LetGo(w, "run")
  /\ UNCHANGED <<conv, mail, recorded>>

\* Mutant: a retry is not asked about again.
PassGuardOnce(w, it) ==
  /\ pc[w] = "claimed" /\ it \in item[w]
  /\ SendCheck(conv[it.row[1]], KindOf(it.row)) \/ it.id # NoId
  /\ Goto(w, IF it.id = NoId THEN "guarded" ELSE "smtp")
  /\ UNCHANGED <<queue, conv, item, todo, followups, mail, recorded, unread, missed, crashes>>

PassGuard(w, it) ==
  /\ pc[w] = "claimed" /\ it \in item[w]
  /\ SendCheck(conv[it.row[1]], KindOf(it.row))
  /\ Goto(w, IF it.id = NoId THEN "guarded" ELSE "smtp")
  /\ UNCHANGED <<queue, conv, item, todo, followups, mail, recorded, unread, missed, crashes>>

\* Message-IDs of the row somebody may still know.
IdsInUse(r) == {msgid[r]} \cup {i \in Ids : <<r, i>> \in filed \cup recorded}
                 \cup {it.id : it \in {j \in UNION {item[w] : w \in Workers} : j.row = r}}

\* A fresh Message-ID, committed before the SMTP call.
SaveId(w, it) ==
  /\ pc[w] = "guarded" /\ it \in item[w]
  /\ \E i \in Ids \ IdsInUse(it.row) :
       /\ msgid' = [msgid EXCEPT ![it.row] = i]
       /\ item' = [item EXCEPT ![w] = {[it EXCEPT !.id = i]}]
  /\ Goto(w, "smtp")
  /\ UNCHANGED <<qstate, attempts, stale, conv, todo, followups, mail, recorded, unread, missed,
                 crashes>>

\* The email of the row leaves; the server may keep a copy in Sent by itself.
Leave(it) ==
  /\ delivered' = [delivered EXCEPT ![it.row] = @ + 1]
  /\ filed' = IF AutoFiles THEN filed \cup {<<it.row, it.id>>} ELSE filed

Accepted(w, it) ==
  /\ pc[w] = "smtp" /\ it \in item[w]
  /\ Leave(it) /\ Goto(w, "file")
  /\ UNCHANGED <<queue, conv, item, todo, followups, recorded, unread, missed, crashes>>

\* _file_copy(): append a copy to Sent, which may fail without harm.
FileCopy(w, it) ==
  /\ pc[w] = "file" /\ it \in item[w]
  /\ filed' \in {filed, filed \cup {<<it.row, it.id>>}}
  /\ Goto(w, "record")
  /\ UNCHANGED <<queue, conv, item, todo, followups, delivered, recorded, unread, missed, crashes>>

Record(w, it) ==
  /\ pc[w] = "record" /\ it \in item[w]
  /\ RecordSent(it.row, it.id)
  /\ LetGo(w, "run")
  /\ UNCHANGED mail

\* The connection broke during DATA: delivered or not, nobody knows.
Interrupted(w, it) ==
  /\ pc[w] = "smtp" /\ it \in item[w]
  /\ Leave(it) \/ UNCHANGED mail
  /\ Goto(w, "lookup")
  /\ UNCHANGED <<queue, conv, item, todo, followups, recorded, unread, missed, crashes>>

FoundInSent(w, it) ==
  /\ pc[w] = "lookup" /\ it \in item[w] /\ <<it.row, it.id>> \in filed
  /\ RecordSent(it.row, it.id)
  /\ LetGo(w, "run")
  /\ UNCHANGED mail

\* No copy there, or Sent could not be read.
NotInSent(w, it) ==
  /\ pc[w] = "lookup" /\ it \in item[w]
  /\ FinishAmbiguous(it.row)
  /\ LetGo(w, "run")
  /\ UNCHANGED <<mail, recorded>>

\* auth or throttled: the try does not count and the run ends.
TurnedAway(w, it) ==
  /\ pc[w] = "smtp" /\ it \in item[w]
  /\ Release(it.row, TRUE)
  /\ LetGo(w, "off")
  /\ UNCHANGED <<conv, mail, recorded>>

\* A permanent refusal is written in two transactions.
Rejected(w, it) ==
  /\ pc[w] = "smtp" /\ it \in item[w]
  /\ Finish(it.row, "failed")
  /\ Goto(w, "bounce")
  /\ UNCHANGED <<conv, item, todo, followups, mail, recorded, unread, missed, crashes>>

Bounce(w, it) ==
  /\ pc[w] = "bounce" /\ it \in item[w]
  /\ conv' = [conv EXCEPT ![it.row[1]] = AddressRejected(@)]
  /\ LetGo(w, "run")
  /\ UNCHANGED <<queue, mail, recorded>>

\* Nothing was handed over: again later with the same Message-ID, or give up.
Transient(w, it) ==
  /\ pc[w] = "smtp" /\ it \in item[w]
  /\ IF it.tries >= MaxAttempts THEN Finish(it.row, "failed") ELSE Release(it.row, FALSE)
  /\ LetGo(w, "run")
  /\ UNCHANGED <<conv, mail, recorded>>
-----------------------------------------------------------------------------
(* Everybody else                                                            *)

\* The runner dies, or an exception ends the run step, between two commits.
Crash(w) ==
  /\ pc[w] # "off" /\ crashes < MaxCrashes
  /\ crashes' = crashes + 1
  /\ Goto(w, "off")
  /\ item' = [item EXCEPT ![w] = {}] /\ todo' = [todo EXCEPT ![w] = {}]
  /\ followups' = [followups EXCEPT ![w] = FALSE]
  /\ UNCHANGED <<queue, conv, mail, recorded, unread, missed>>

\* STALE_CLAIM passes. A worker handles a row in far less than that.
Age(r) ==
  /\ qstate[r] = "claimed" /\ ~stale[r]
  /\ \A w \in Workers : \A it \in item[w] : it.row # r
  /\ stale' = [stale EXCEPT ![r] = TRUE]
  /\ UNCHANGED <<qstate, msgid, attempts, conv, worker, mail, recorded, unread, missed, crashes>>

\* A prospect answers an email that reached them, or its server bounces it.
Answer(c, l) ==
  /\ unread[c] = {} /\ \E s \in Steps : delivered[<<c, s>>] > 0
  /\ unread' = [unread EXCEPT ![c] = {l}]
  /\ UNCHANGED <<queue, conv, worker, mail, recorded, missed, crashes>>

\* An answer read in the owner's other mailbox, by outreach_replies' own job.
AnsweredElsewhere(c, l) ==
  /\ Reaches(conv[c], l) /\ \E s \in Steps : delivered[<<c, s>>] > 0
  /\ conv' = [conv EXCEPT ![c] = Answered(c, l)]
  /\ UNCHANGED <<queue, worker, mail, recorded, unread, missed, crashes>>

\* dashboard.stage_draft_for_company(): an upsert to 'queued' in any state.
\* batch_stage_qualified_leads() calls it for companies without a row.
StageDraft(c) ==
  /\ Restage \/ (qstate[<<c, 0>>] = "absent" /\ conv[c].outreach = "outreach_ready")
  /\ qstate' = [qstate EXCEPT ![<<c, 0>>] = "queued"]
  /\ stale' = [stale EXCEPT ![<<c, 0>>] = FALSE]
  /\ UNCHANGED <<msgid, attempts, conv, worker, mail, recorded, unread, missed, crashes>>

Sending(w, it) ==
  \/ GuardError(w, it) \/ Refuse(w, it) \/ PassGuard(w, it) \/ SaveId(w, it)
  \/ Accepted(w, it) \/ FileCopy(w, it) \/ Record(w, it)
  \/ Interrupted(w, it) \/ FoundInSent(w, it) \/ NotInSent(w, it)
  \/ TurnedAway(w, it) \/ Rejected(w, it) \/ Bounce(w, it) \/ Transient(w, it)

Recovering(w, t) == RecoverUnsent(w, t) \/ RecoverDecided(w, t) \/ RecoverUnknown(w, t)

Cycle(w) ==
  \/ OpenCycle(w) \/ Plan(w) \/ Replenish(w) \/ RecoverSelect(w) \/ \E t \in todo[w] : Recovering(w, t)
  \/ Poll(w) \/ PollFails(w) \/ SweepAgain(w)

Next ==
  \/ \E w \in Workers :
       \/ Cycle(w) \/ StepFails(w) \/ NoLogin(w) \/ Stop(w) \/ Crash(w)
       \/ \E r \in Rows : Claim(w, r)
       \/ \E it \in item[w] : Sending(w, it)
  \/ \E r \in Rows : Age(r)
  \/ \E c \in Companies : \/ StageDraft(c)
                          \/ \E l \in Replies : Answer(c, l) \/ AnsweredElsewhere(c, l)

Spec == Init /\ [][Next]_vars

\* What a running cycle does next, as long as nobody kills it.
Work(w) ==
  \/ Cycle(w) \/ StepFails(w) \/ NoLogin(w) \/ Stop(w)
  \/ \E r \in Rows : Claim(w, r)
  \/ \E it \in item[w] : Sending(w, it)

\* recover() settles the row: no Message-ID, or the Sent folder answered.
Settles(r) ==
  \E w \in Workers : \E t \in todo[w] : t.row = r /\ (RecoverUnsent(w, t) \/ RecoverDecided(w, t))

(* The ticker starts cycles for ever and a started cycle goes on; its send   *)
(* run has a deadline; time passes; and a step that is tried again and again *)
(* (reading the dead rows, looking a row up in Sent) does not fail for ever. *)
Fairness ==
  /\ \A w \in Workers : WF_vars(Work(w)) /\ SF_vars(Stop(w)) /\ SF_vars(RecoverSelect(w))
  /\ \A r \in Rows : WF_vars(Age(r)) /\ SF_vars(Settles(r))

FairSpec == Spec /\ Fairness
-----------------------------------------------------------------------------
(* sender.py:17, "a worker that died mid-send never causes a resend": every  *)
(* touch leaves at most once, through crashes, retries, recovery, rows       *)
(* planned again and answers read elsewhere.                                 *)
AtMostOnce == \A r \in Rows : delivered[r] <= 1

(* The queue tells the truth about the outside world: "sent" only for what   *)
(* was accepted, and what it still offers or says it dropped has not left.   *)
QueueTellsTruth ==
  \A r \in Rows : /\ qstate[r] = "sent" => delivered[r] > 0
                  /\ qstate[r] \in {"absent", "queued", "failed", "cancelled"} => delivered[r] = 0

(* A company with a touch sent or possibly sent gets no first touch from any *)
(* sender: the shared guard refuses it from the moment the row is settled.   *)
GuardKnows ==
  \A r \in Rows : qstate[r] \in {"sent", "ambiguous"} => ~SendCheck(conv[r[1]], "cold")

\* A worker has asked the guard about the company and not yet heard from the server.
Passed(c) == \E w \in Workers : pc[w] \in {"guarded", "smtp"}
                                  /\ \E it \in item[w] : it.row[1] = c

Silenced(c) == conv[c].suppressed \/ conv[c].inbound

(* Once an opt-out, a rejected address or any human answer of the company is *)
(* on record, that stays so, no worker passes the guard for it again and     *)
(* nothing leaves, but for a row that had passed when it was stored.         *)
StoppedStaysSilent ==
  [][\A c \in Companies : Silenced(c) /\ ~Passed(c) =>
       /\ Silenced(c)' /\ ~Passed(c)'
       /\ \A s \in Steps : delivered'[<<c, s>>] = delivered[<<c, s>>]]_vars

(* replies.py:4-6, "Only mail that belongs to a conversation we started is   *)
(* ever stored: a reply to one of our Message-IDs, or mail from an address   *)
(* we emailed": no opt-out is passed over.                                   *)
OptOutIsHeard == missed = {}

(* A row a worker took, dead or alive, is some day given back or settled.    *)
EveryClaimEnds == \A r \in Rows : qstate[r] = "claimed" ~> qstate[r] # "claimed"

(* An email that left is some day on record as sent, or as perhaps sent:     *)
(* a worker that died behind the SMTP call loses nothing.                    *)
EveryMailIsSettled == \A r \in Rows : delivered[r] > 0 ~> qstate[r] \in {"sent", "ambiguous"}

\* The abstract view: a row's verdict, and whether its email left.
VerdictOf(state) == CASE state \in {"absent", "queued", "claimed"} -> "open"
                      [] state = "sent" -> "sent"
                      [] state = "ambiguous" -> "unsure"
                      [] state \in {"failed", "cancelled"} -> "dropped"

Promise == INSTANCE MailPromise WITH
             verdict <- [r \in Rows |-> VerdictOf(qstate[r])],
             out <- [r \in Rows |-> delivered[r] > 0]

(* The sender keeps what MailPromise promises of each touch.                 *)
KeepsPromise == Promise!Spec
=============================================================================
