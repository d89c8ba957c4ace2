------------------------------- MODULE LeadBatch -------------------------------
(* LeadBatchPipeline.run_batch() (leadgen/pipeline.py): one bounded batch of *)
(* companies under a lock in the database that is broken after 15 minutes,   *)
(* with a bookmark for the next batch; each company is read, judged, written *)
(* and, when it is ready, given a draft. The API and the command line start  *)
(* batches; a batch may die anywhere.                                        *)
EXTENDS LeadBook

CONSTANTS BatchRuns,      \* batches that may run
          BatchSize,
          SearchResults,  \* what the two searches of OpenStreetMap may return
          IdOrder,        \* listings in the order of their company ids
          MaxTokens       \* bound: locks that are taken

VARIABLES
  lock,         \* lead_engine_checkpoint: who runs, by token, and whether for 15 minutes
  bookmark,     \* last_processed_id, a listing or "none"
  run,          \* per batch: where it is, its token, its items, the last one
  draft,        \* outreach_queue: the recipient of the first touch, by company
  lost          \* history: ready new businesses whose row was rolled back
batchVars == <<lock, bookmark, run, draft, lost>>

FreeLock == [on |-> FALSE, token |-> 0, stale |-> FALSE]
IdleRun == [pc |-> "idle", token |-> 0, new |-> FALSE, items |-> <<>>, last |-> "none", outcome |-> "none"]

BatchInit ==
  /\ lock = FreeLock /\ bookmark = "none"
  /\ run = [b \in BatchRuns |-> IdleRun]
  /\ draft = [l \in Listings |-> {}]
  /\ lost = {}

Tokens == {lock.token} \cup {run[b].token : b \in BatchRuns}
NewToken == CHOOSE n \in 1 .. MaxTokens : \A t \in Tokens : t < n

\* acquire_batch_lock(): FOR UPDATE, a lock older than 15 minutes is broken.
Holding(token, last) == [IdleRun EXCEPT !.pc = "locked", !.token = token, !.last = last]
Acquire(b) ==
  /\ run[b].pc = "idle" /\ ~(lock.on /\ ~lock.stale)
  /\ \A t \in Tokens : t < MaxTokens
  /\ lock' = [on |-> TRUE, token |-> NewToken, stale |-> FALSE]
  /\ run' = [run EXCEPT ![b] = Holding(NewToken, bookmark)]
  /\ UNCHANGED <<bookVars, bookmark, draft, lost>>

\* The backlog: companies never reached and not rejected that are not ready, not
\* read, or without a contact.
Backlog ==
  {l \in KnownListings :
     /\ ~company[l].reached /\ company[l].level # "REJECT" /\ KeyOf[l].domain # ""
     /\ \/ company[l].status = "not_ready"
        \/ ~company[l].enriched
        \/ \A a \in Mailboxes : contact[a].of # l}
Place(l) == CHOOSE i \in DOMAIN IdOrder : IdOrder[i] = l
InOrder(set) == Keeping(IdOrder, set)
AtMost(seq, n) == SubSeq(seq, 1, IF Len(seq) < n THEN Len(seq) ELSE n)

\* After the bookmark first, then around from the start.
FromBookmark(set) ==
  IF bookmark = "none" THEN InOrder(set)
  ELSE InOrder({l \in set : Place(l) > Place(bookmark)}) \o InOrder({l \in set : Place(l) <= Place(bookmark)})

WithItems(f, new, items) == [f EXCEPT !.pc = "working", !.new = new, !.items = items]
TakeBacklog(b) ==
  /\ run[b].pc = "locked" /\ Backlog # {}
  /\ run' = [run EXCEPT ![b] = WithItems(@, FALSE, AtMost(FromBookmark(Backlog), BatchSize))]
  /\ UNCHANGED <<bookVars, lock, bookmark, draft, lost>>

\* With no backlog the searches of OpenStreetMap fill the batch; they are not
\* noted as run, so that the next batch runs the same two. What they write of the
\* source's health is in LeadSources (SearchedByBatch).
TakeNew(b) ==
  /\ run[b].pc = "locked" /\ Backlog = {}
  /\ \E found \in SearchResults :
       run' = [run EXCEPT ![b] = WithItems(@, TRUE, AtMost(found, BatchSize))]
  /\ UNCHANGED <<bookVars, lock, bookmark, draft, lost>>

Item(b) == Head(run[b].items)
ItemReadings(b) ==
  {EnrichWithSitemaps(s, IF run[b].new THEN ListedMail[Item(b)] ELSE {}) : s \in SitesOf[Item(b)]}
BestAddress(enr) == IF enr.emails = {} THEN {} ELSE {BestMail(enr)}
Working(b) == run[b].pc = "working" /\ run[b].items # <<>>
PastItem(f, last) == [f EXCEPT !.items = Tail(@), !.last = last]
NextItem(b, last) == [run EXCEPT ![b] = PastItem(@, last)]
Closing(f, outcome, last) == [f EXCEPT !.pc = "closing", !.outcome = outcome, !.last = last]

\* The row of a backlog company is written by id, whatever became of it since
\* it was selected; a ready one gets its draft, unless it has one.
WorkKnown(b, enr) ==
  LET l == Item(b)
      level == Qualify(TraitsOf[l], enr) IN
  /\ Working(b) /\ ~run[b].new /\ ~enr.raises
  /\ company' = [company EXCEPT ![l] = Judged(@, level)]
  /\ contact' = AddContacts(l, enr.emails, Checked)
  /\ draft' = IF level \in ReadyLevels /\ draft[l] = {} THEN [draft EXCEPT ![l] = BestAddress(enr)] ELSE draft
  /\ run' = NextItem(b, l)
  /\ UNCHANGED <<emailed, tray, lock, bookmark, lost>>

\* A new business that is known after all is passed over; one that is not ready
\* is inserted.
WorkNew(b, enr) ==
  LET l == Item(b)
      level == Qualify(TraitsOf[l], enr)
      twin == FindExisting(KeyOf[l], {}, BestAddress(enr)) # {} IN
  /\ Working(b) /\ run[b].new /\ ~enr.raises
  /\ twin \/ level \notin ReadyLevels
  /\ company' = IF twin THEN company
                ELSE [company EXCEPT ![l] = NewCompany(level, VerdictStatus(level), TRUE, {}, FALSE)]
  /\ contact' = IF twin THEN contact ELSE AddContacts(l, enr.emails, Checked)
  /\ run' = NextItem(b, IF twin THEN run[b].last ELSE l)
  /\ UNCHANGED <<emailed, tray, lock, bookmark, draft, lost>>

\* Staging the draft of a new business reads a company_id its item does not
\* have, and a refusing site with listed mail cannot be counted: the batch ends
\* in an error and the company is rolled back.
WorkRaises(b, enr) ==
  LET l == Item(b)
      ready == /\ run[b].new /\ Qualify(TraitsOf[l], enr) \in ReadyLevels
               /\ FindExisting(KeyOf[l], {}, BestAddress(enr)) = {} IN
  /\ Working(b) /\ (enr.raises \/ ready)
  /\ lost' = IF ready /\ ~enr.raises THEN lost \cup {l} ELSE lost
  /\ run' = [run EXCEPT ![b] = Closing(@, "error", IF ready /\ ~enr.raises THEN l ELSE run[b].last)]
  /\ UNCHANGED <<bookVars, lock, bookmark, draft>>

\* A statement of an item fails: its transaction is rolled back, and the lock is
\* released with the bookmark at that item, or before a new one.
DatabaseFails(b) ==
  /\ Working(b)
  /\ \E last \in {Item(b)} \cup (IF run[b].new THEN {run[b].last} ELSE {}) :
       run' = [run EXCEPT ![b] = Closing(@, "error", last)]
  /\ UNCHANGED <<bookVars, lock, bookmark, draft, lost>>

EndItems(b) ==
  /\ run[b].pc = "working" /\ run[b].items = <<>>
  /\ run' = [run EXCEPT ![b] = Closing(@, "completed", run[b].last)]
  /\ UNCHANGED <<bookVars, lock, bookmark, draft, lost>>

\* Mutant: released whoever holds it.
MayReleaseAny(b) == TRUE
\* release_batch_lock(): only one's own lock, or a free one.
MayRelease(b) == lock.token \in {run[b].token, 0}

Over(f) == [IdleRun EXCEPT !.token = f.token]
Release(b) ==
  /\ run[b].pc = "closing"
  /\ lock' = IF MayRelease(b) THEN FreeLock ELSE lock
  /\ bookmark' = IF MayRelease(b) /\ run[b].last # "none" THEN run[b].last ELSE bookmark
  /\ run' = [run EXCEPT ![b] = Over(@)]
  /\ UNCHANGED <<bookVars, draft, lost>>

\* The process dies, or the database does not answer before the first item:
\* nothing is released.
BatchDies(b) ==
  /\ run[b].pc # "idle"
  /\ run' = [run EXCEPT ![b] = Over(@)]
  /\ UNCHANGED <<bookVars, lock, bookmark, draft, lost>>

LockAges ==
  /\ lock.on /\ ~lock.stale
  /\ lock' = [lock EXCEPT !.stale = TRUE]
  /\ UNCHANGED <<bookVars, bookmark, run, draft, lost>>

BatchNext ==
  \/ \E b \in BatchRuns : Acquire(b) \/ TakeBacklog(b) \/ TakeNew(b) \/ DatabaseFails(b) \/ EndItems(b)
                          \/ Release(b) \/ BatchDies(b)
  \/ \E b \in BatchRuns :
       /\ Working(b)
       /\ \E enr \in ItemReadings(b) : WorkKnown(b, enr) \/ WorkNew(b, enr) \/ WorkRaises(b, enr)
  \/ LockAges
-------------------------------------------------------------------------------
\* However long batches last, whoever breaks whose lock, and wherever they die:
\* a batch whose lock is young and its own keeps it until it releases it itself.
HolderKeepsLock ==
  [][\A b \in BatchRuns :
       lock.on /\ ~lock.stale /\ lock.token = run[b].token /\ run'[b].pc # "idle"
         => lock'.on /\ lock'.token = run[b].token]_<<bookVars, batchVars>>

\* A new business that qualifies is stored ("persists leads and contacts",
\* leadgen/pipeline.py:5).
ReadyLeadsAreStored == lost = {}
===============================================================================
