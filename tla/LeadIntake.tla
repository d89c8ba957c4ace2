------------------------------- MODULE LeadIntake -------------------------------
(* The writers of the book: discovery batches of the engine and its recovery *)
(* of old companies (leadgen/engine.py), the import of old ledgers           *)
(* (leadgen/history_import.py) and requalify (lead_engine.py). Each reads    *)
(* the book, spends minutes on websites without a connection, and writes by  *)
(* id what it found.                                                         *)
EXTENDS LeadBook

CONSTANTS Intakes,        \* engine runs: the schedule's, the worker's, the owner's
          Batches,        \* what searches return: sequences of listings
          OldRecords      \* records of old ledgers (see OldRecord)

OldRecord == [id : STRING, key : Key, at : Listings, mail : SUBSET Mailboxes,
              status : {"contacted", "unsubscribed", "rejected", "not_ready"}, sent : BOOLEAN]

VARIABLES
  intake,       \* per run: where it is, its batch, what is left of it, what the
                \* sites said, and how often the connection was dropped
  recheck       \* a pass over known companies: which kind, which rows, their
                \* status and handoff_ref when they were picked, their sites

intakeVars == <<intake, recheck>>
NoRecheck == [kind |-> "none", rows |-> {}, refs |-> {}, was |-> [l \in Listings |-> "none"], read |-> [l \in Listings |-> Unread]]
Storing(pc, batch) == [pc |-> pc, all |-> batch, todo |-> batch, read |-> [l \in Listings |-> Unread], drops |-> 0]
IdleIntake == Storing("idle", <<>>)
IntakeInit == intake = [r \in Intakes |-> IdleIntake] /\ recheck = NoRecheck

\* _screen_candidates(): known companies and repeats of a domain are left out.
Unknown(batch) ==
  Keeping(batch, {l \in Listings :
    /\ FindExisting(KeyOf[l], {}, ListedMail[l]) = {}
    /\ \A i, j \in DOMAIN batch : batch[j] = l /\ i < j => KeyOf[batch[i]].domain # KeyOf[l].domain})

\* A search returned a batch; its sites are read with no connection held. Past
\* the deadline they are left unread.
TakeBatch(r) ==
  /\ intake[r].pc = "idle"
  /\ \E batch \in Batches :
       LET todo == Unknown(batch) IN
       intake' = [intake EXCEPT ![r] = Storing("reading", todo)]
  /\ UNCHANGED <<bookVars, recheck>>

WithSites(f, read) == [f EXCEPT !.read = read, !.pc = "storing"]
ReadSites(r) ==
  /\ intake[r].pc = "reading"
  /\ \E read \in [Listings -> AnyReading] :
       /\ \A l \in Listings :
            read[l] \in IF \E i \in DOMAIN intake[r].all : intake[r].all[i] = l THEN Readings(l) \cup {Unread} ELSE {Unread}
       /\ intake' = [intake EXCEPT ![r] = WithSites(@, read)]
  /\ UNCHANGED <<bookVars, recheck>>

Current(r) == Head(intake[r].todo)
NextCandidate(f) == [f EXCEPT !.todo = Tail(@), !.pc = "storing"]

\* _store_candidates(): looked up again with the mail that was found, then
\* inserted: another run may have come between.
LookUpAgain(r) ==
  /\ intake[r].pc = "storing" /\ intake[r].todo # <<>>
  /\ IF FindExisting(KeyOf[Current(r)], {}, intake[r].read[Current(r)].emails) # {}
     THEN intake' = [intake EXCEPT ![r] = NextCandidate(@)]
     ELSE intake' = [intake EXCEPT ![r].pc = "inserting"]
  /\ UNCHANGED <<bookVars, recheck>>

\* The domain is unique: the second to insert it fails, and its batch with it.
InsertCandidate(r) ==
  /\ intake[r].pc = "inserting"
  /\ LET l == Current(r)
         enr == intake[r].read[l]
         level == Qualify(TraitsOf[l], enr) IN
     IF \E m \in KnownListings : KeyOf[m].domain = KeyOf[l].domain
     THEN /\ intake' = [intake EXCEPT ![r] = IdleIntake]
          /\ UNCHANGED <<bookVars, recheck>>
     ELSE /\ company' = [company EXCEPT ![l] = NewCompany(level, VerdictStatus(level), enr # Unread, {}, FALSE)]
          /\ contact' = AddContacts(l, enr.emails, Checked)
          /\ intake' = [intake EXCEPT ![r] = NextCandidate(@)]
          /\ UNCHANGED <<emailed, tray, recheck>>

\* _db_call(): the pooler drops the connection, and the batch is stored again
\* from its start, once; what is stored already is then a duplicate.
FromStart(f) == IF f.drops = 1 THEN IdleIntake ELSE [f EXCEPT !.todo = f.all, !.drops = 1, !.pc = "storing"]
DropConnection(r) ==
  /\ intake[r].pc \in {"storing", "inserting"}
  /\ intake' = [intake EXCEPT ![r] = FromStart(@)]
  /\ UNCHANGED <<bookVars, recheck>>

\* The batch is over, or the run dies with what it has not stored.
EndBatch(r) ==
  /\ intake[r].pc # "idle"
  /\ intake' = [intake EXCEPT ![r] = IdleIntake]
  /\ UNCHANGED <<bookVars, recheck>>
-------------------------------------------------------------------------------
(* Passes over companies that are there                                      *)

\* _history_candidates(), and the rows cmd_requalify() selects.
Recoverable ==
  {l \in KnownListings : /\ company[l].historical /\ ~company[l].reached
                         /\ company[l].status = "not_ready" /\ ~company[l].enriched}
Requalifiable ==
  {l \in KnownListings : /\ company[l].status \in {"outreach_ready", "handed_off", "not_ready"}
                         /\ ~company[l].reached /\ ~company[l].historical}

PickRows ==
  /\ recheck.kind = "none"
  /\ \E kind \in {"recover", "requalify"} :
       LET rows == IF kind = "recover" THEN Recoverable ELSE Requalifiable IN
       /\ rows # {}
       /\ \E read \in [Listings -> AnyReading] :
            /\ \A l \in Listings : read[l] \in IF l \in rows THEN Readings(l) ELSE {Unread}
            /\ recheck' = [kind |-> kind, rows |-> rows, read |-> read,
                            refs |-> {l \in rows : company[l].tagged},
                            was |-> [l \in Listings |-> IF l \in rows THEN company[l].status ELSE "none"]]
  /\ UNCHANGED <<bookVars, intake>>

\* _apply_history(), a row: written by id, whatever became of the row since.
RecoverRow(l) ==
  /\ recheck.kind = "recover" /\ l \in recheck.rows
  /\ LET enr == recheck.read[l]
         level == Qualify(TraitsOf[l], enr)
         clash == \E a \in enr.emails : FindExisting(NoKey, {}, {a}) \ {l} # {} IN
     /\ company' = [company EXCEPT ![l] = Judged(@, IF clash THEN "REJECT" ELSE level)]
     /\ contact' = AddContacts(l, enr.emails, Checked)
  /\ recheck' = [recheck EXCEPT !.rows = @ \ {l}]
  /\ UNCHANGED <<emailed, tray, intake>>

\* cmd_requalify(), a row: whoever was handed off when the rows were picked stays
\* so when it still qualifies. Its contacts go before those of the site come: an
\* address of a row yet to come is still taken.
Requalified(l) ==
  LET level == Qualify(TraitsOf[l], recheck.read[l]) IN
  [Judged(company[l], level) EXCEPT
     !.status = IF level \in ReadyLevels /\ recheck.was[l] = "handed_off" THEN "handed_off" ELSE @]
RenewedContacts(rows) ==
  LET found(a) == {[of |-> l, status |-> Checked[a]] : l \in {m \in rows : a \in recheck.read[m].emails}}
      kept(a) == {c \in found(a) : c.of = contact[a].of}
      options(a) ==
        IF contact[a].of \notin rows \cup {"none"} THEN {contact[a]}
        ELSE IF kept(a) # {} THEN kept(a)
        ELSE IF contact[a] = NoContact /\ found(a) # {} THEN found(a)
        ELSE found(a) \cup {NoContact} IN
  {new \in [Mailboxes -> UNION {options(a) : a \in Mailboxes}] : \A a \in Mailboxes : new[a] \in options(a)}

\* All rows in one transaction; then the tray records of those that no longer
\* qualify are pulled back, as far as the requests get.
PullBack(fallen) ==
  {[i \in DOMAIN tray |-> IF i \in pulled THEN [tray[i] EXCEPT !.status = "Rejected"] ELSE tray[i]] :
     pulled \in SUBSET {i \in DOMAIN tray : tray[i].of \in fallen}}

RequalifyRows ==
  /\ recheck.kind = "requalify" /\ recheck.rows # {}
  /\ company' = [l \in Listings |-> IF l \in recheck.rows THEN Requalified(l) ELSE company[l]]
  /\ contact' \in RenewedContacts(recheck.rows)
  /\ tray' \in PullBack({l \in recheck.refs : Requalified(l).level \notin ReadyLevels})
  /\ recheck' = NoRecheck
  /\ UNCHANGED <<emailed, intake>>

EndRecheck ==
  /\ recheck.kind # "none"
  /\ recheck' = NoRecheck
  /\ UNCHANGED <<bookVars, intake>>
-------------------------------------------------------------------------------
(* Old ledgers                                                               *)

\* contacted_rank: any other status ranks below all of these.
ImportRank(status) ==
  CASE status = "not_ready" -> 1 [] status = "rejected" -> 2 [] status = "contacted" -> 3
    [] status = "unsubscribed" -> 4 [] OTHER -> 0

\* Importer.upsert(): what a record tells of a company that is there.
Told(c, rec) ==
  [c EXCEPT !.records = @ \cup {rec.id}, !.historical = TRUE, !.reached = @ \/ rec.sent,
            !.status = IF ImportRank(rec.status) > ImportRank(@) THEN rec.status ELSE @]
ImportRecord(rec) ==
  LET found == FindExisting(rec.key, {rec.id}, rec.mail)
      l == IF found = {} THEN rec.at ELSE CHOOSE m \in found : TRUE IN
  /\ found # {} \/ ~Known(l)
  /\ company' = [company EXCEPT ![l] =
       IF found = {}
       THEN NewCompany(IF rec.status = "not_ready" THEN "LOW" ELSE "REJECT", rec.status, FALSE, {rec.id}, rec.sent)
       ELSE Told(@, rec)]
  /\ contact' = AddContacts(l, rec.mail, Published)
  /\ emailed' = IF rec.sent THEN emailed \cup rec.mail ELSE emailed
  /\ UNCHANGED <<tray, intakeVars>>

SearchNext ==
  \E r \in Intakes : TakeBatch(r) \/ ReadSites(r) \/ LookUpAgain(r) \/ InsertCandidate(r)
                     \/ DropConnection(r) \/ EndBatch(r)
RecheckNext ==
  \/ PickRows \/ RequalifyRows \/ EndRecheck
  \/ \E l \in Listings : RecoverRow(l)
ImportNext == \E rec \in OldRecords : ImportRecord(rec)
===============================================================================
