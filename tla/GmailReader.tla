---------------------------- MODULE GmailReader ----------------------------
(* The reader of the outreach mailbox (conversations/gmail_sync.py): it goes *)
(* through All Mail by UID, stores what belongs to a conversation that we     *)
(* started, moves a watermark past each batch, and puts prepared answers      *)
(* among the Gmail drafts. Two readers may run at once.                       *)
EXTENDS Naturals, FiniteSets

CONSTANTS Kind,        \* per UID: "sent" (our outreach), "own" (a mail the owner wrote by hand to
                       \* somebody we know), "reply" to either, "personal"
          Unreadable,  \* UIDs whose handling raises
          Readers,     \* processes that run sync()
          Batch,       \* BATCH: mails whose headers are fetched at once
          MaxRebuilds, \* bound: changes of UIDVALIDITY
          MaxBreaks    \* bound: lost database connections and killed processes

UIDs == DOMAIN Kind
ASSUME GmailReaderAssumption ==
  /\ Unreadable \subseteq UIDs /\ Batch \in Nat \ {0} /\ "nobody" \notin Readers
  /\ MaxRebuilds \in Nat /\ MaxBreaks \in Nat
  /\ \A u \in UIDs : u \in Nat \ {0} /\ Kind[u] \in {"sent", "own", "reply", "personal"}

VARIABLES
  box,        \* the mailbox: how many mails have arrived, and its UIDVALIDITY
  poll,       \* reply_poll_state: last_uid and uidvalidity
  kept,       \* UIDs whose message is committed in outreach_messages
  skipped,    \* UIDs passed over: quarantined, and the owner told (or the telling lost), or
              \* "outbound_unresolved", and only counted in last_result
  reader,     \* per reader: where it is (see NotReading)
  prepared,   \* one prepared draft: who holds its row, whether it is marked
  effects,    \* history, per UID: times its effects were committed; drafts placed
  breaks

mailVars == <<box, poll, kept, skipped, reader, prepared, effects, breaks>>

\* validity and last: of this run; todo: UIDs it listed; chunk, wanted: the batch
\* in hand; knows: the sends whose thread and addressee it knows.
NotReading == [pc |-> "none", validity |-> 0, last |-> 0, todo |-> {}, chunk |-> {}, wanted |-> {}, knows |-> {}]

MailInit ==
  /\ box = [mails |-> 0, validity |-> 0]
  /\ poll = [uid |-> 0, validity |-> 0]
  /\ kept = {} /\ skipped = {}
  /\ reader = [r \in Readers |-> NotReading]
  /\ prepared = [holder |-> "nobody", marked |-> FALSE]
  /\ effects = [mail |-> [u \in UIDs |-> 0], drafts |-> 0, spoiled |-> FALSE]
  /\ breaks = 0

Smallest(s) == CHOOSE u \in s : \A v \in s : u <= v
Upto(n) == {u \in UIDs : u <= n}

MailComes ==
  /\ Upto(box.mails) # UIDs /\ box' = [box EXCEPT !.mails = @ + 1]
  /\ UNCHANGED <<poll, kept, skipped, reader, prepared, effects, breaks>>
MailboxRebuilt ==
  /\ box.validity < MaxRebuilds /\ box' = [box EXCEPT !.validity = @ + 1]
  /\ UNCHANGED <<poll, kept, skipped, reader, prepared, effects, breaks>>

\* The watermark counts only within its UIDVALIDITY.
Watermark == IF poll.validity = box.validity THEN poll.uid ELSE 0

\* sync(): the SEARCH and Known(conn).
StartRead(r) ==
  /\ reader[r].pc = "none"
  /\ reader' = [reader EXCEPT ![r] =
       [pc |-> "heads", validity |-> box.validity, last |-> Watermark,
        todo |-> Upto(box.mails) \ Upto(Watermark), chunk |-> {}, wanted |-> {},
        knows |-> {u \in kept : Kind[u] = "sent"}]]
  /\ UNCHANGED <<box, poll, kept, skipped, prepared, effects, breaks>>

FirstOf(s) == {u \in s : Cardinality({v \in s : v <= u}) <= Batch}
\* _relevant(), in the order of the batch: our own outreach, and what goes to or
\* comes from whoever got a send that is known or came earlier in the batch.
Relevant(chunk, knows) ==
  {u \in chunk : \/ Kind[u] = "sent"
                 \/ Kind[u] \in {"own", "reply"} /\ (knows # {} \/ \E v \in chunk : v < u /\ Kind[v] = "sent")}

FetchHeads(r) ==
  /\ reader[r].pc = "heads" /\ reader[r].todo # {}
  /\ LET chunk == FirstOf(reader[r].todo) IN
     reader' = [reader EXCEPT ![r].pc = "mail", ![r].chunk = chunk,
                              ![r].wanted = Relevant(chunk, reader[r].knows),
                              ![r].knows = @ \cup {u \in chunk : Kind[u] = "sent"}]
  /\ UNCHANGED <<box, poll, kept, skipped, prepared, effects, breaks>>

InMail(r, pc) == reader[r].pc = pc /\ reader[r].wanted # {}
Handled(r, u) == [reader EXCEPT ![r].pc = "mail", ![r].wanted = @ \ {u}]

\* _one(): a mail that is stored already is passed over; another one is worked
\* out, which takes the queries of process_inbound().
ReadMail(r) ==
  /\ InMail(r, "mail")
  /\ LET u == Smallest(reader[r].wanted) IN
     reader' = IF u \in kept THEN Handled(r, u) ELSE [reader EXCEPT ![r].pc = "write"]
  /\ UNCHANGED <<box, poll, kept, skipped, prepared, effects, breaks>>

\* Mutant: no unique index on provider_message_id.
InsertsAlways(u) == TRUE
\* insert_message(): ON CONFLICT (provider_message_id) DO NOTHING
Inserts(u) == u \notin kept

WriteMail(r) ==
  /\ InMail(r, "write")
  /\ LET u == Smallest(reader[r].wanted) IN
     /\ u \notin Unreadable
     /\ kept' = kept \cup {u}
     /\ effects' = IF Inserts(u) THEN [effects EXCEPT !.mail[u] = @ + 1] ELSE effects
     /\ reader' = Handled(r, u)
  /\ UNCHANGED <<box, poll, skipped, prepared, breaks>>

\* _outbound() finds no company for the owner's own mail, as the book is now: it is
\* not stored, and nobody is told.
LeaveUnresolved(r) ==
  /\ InMail(r, "write")
  /\ LET u == Smallest(reader[r].wanted) IN
     /\ u \notin Unreadable /\ Kind[u] = "own"
     /\ skipped' = skipped \cup {u}
     /\ reader' = Handled(r, u)
  /\ UNCHANGED <<box, poll, kept, prepared, effects, breaks>>

\* _quarantine(): one bad mail must never block every later poll.
Quarantine(r) ==
  /\ InMail(r, "write")
  /\ LET u == Smallest(reader[r].wanted) IN
     /\ u \in Unreadable
     /\ skipped' = skipped \cup {u}
     /\ reader' = Handled(r, u)
  /\ UNCHANGED <<box, poll, kept, prepared, effects, breaks>>

\* Mutant: the mail is passed over.
AfterLostConnectionOn(r) == [reader EXCEPT ![r].pc = "mail", ![r].wanted = @ \ {Smallest(@)}]
AfterLostConnection(r) == [reader EXCEPT ![r] = NotReading]
\* The database is unreachable: stop, and do not move past this mail.
LoseConnection(r) ==
  /\ InMail(r, "write") /\ breaks < MaxBreaks
  /\ breaks' = breaks + 1
  /\ reader' = AfterLostConnection(r)
  /\ UNCHANGED <<box, poll, kept, skipped, prepared, effects>>

\* The batch is done: the watermark of this run is written over the stored one,
\* which another reader may have moved further, or the other way.
MoveMark(r) ==
  /\ reader[r].pc = "mail" /\ reader[r].wanted = {}
  /\ LET rd == reader[r]
         last == IF \A u \in rd.chunk : u <= rd.last THEN rd.last
                 ELSE CHOOSE u \in rd.chunk : \A v \in rd.chunk : v <= u IN
     /\ poll' = [uid |-> last, validity |-> rd.validity]
     /\ reader' = [reader EXCEPT ![r] = [rd EXCEPT !.pc = "heads", !.last = last, !.todo = @ \ rd.chunk, !.chunk = {}]]
  /\ UNCHANGED <<box, kept, skipped, prepared, effects, breaks>>

EndRead(r) ==
  /\ reader[r].pc = "heads" /\ reader[r].todo = {}
  /\ reader' = [reader EXCEPT ![r] = [NotReading EXCEPT !.pc = "drafts"]]
  /\ UNCHANGED <<box, poll, kept, skipped, prepared, effects, breaks>>

\* FOR UPDATE SKIP LOCKED
Claimable == prepared.holder = "nobody" /\ ~prepared.marked

\* push_pending_drafts(): the prepared draft is claimed, or there is nothing to do.
ClaimDraft(r) ==
  /\ reader[r].pc = "drafts"
  /\ IF Claimable
     THEN prepared' = [prepared EXCEPT !.holder = r] /\ reader' = [reader EXCEPT ![r].pc = "append"]
     ELSE UNCHANGED prepared /\ reader' = [reader EXCEPT ![r] = NotReading]
  /\ UNCHANGED <<box, poll, kept, skipped, effects, breaks>>

\* imap.append(): in the folder, or refused.
AppendDraft(r) ==
  /\ reader[r].pc = "append"
  /\ \/ /\ effects' = [effects EXCEPT !.drafts = @ + 1]
        /\ reader' = [reader EXCEPT ![r].pc = "mark"] /\ UNCHANGED prepared
     \/ /\ reader' = [reader EXCEPT ![r] = NotReading]
        /\ prepared' = [prepared EXCEPT !.holder = "nobody"] /\ UNCHANGED effects
  /\ UNCHANGED <<box, poll, kept, skipped, breaks>>
MarkDraft(r) ==
  /\ reader[r].pc = "mark"
  /\ prepared' = [holder |-> "nobody", marked |-> TRUE]
  /\ reader' = [reader EXCEPT ![r] = NotReading]
  /\ UNCHANGED <<box, poll, kept, skipped, effects, breaks>>

\* A reader is killed: its transaction is rolled back and its claim falls.
ReaderDies(r) ==
  /\ reader[r].pc # "none" /\ breaks < MaxBreaks
  /\ breaks' = breaks + 1
  /\ reader' = [reader EXCEPT ![r] = NotReading]
  /\ prepared' = IF prepared.holder = r THEN [prepared EXCEPT !.holder = "nobody"] ELSE prepared
  /\ effects' = [effects EXCEPT !.spoiled = @ \/ reader[r].pc = "mark"]
  /\ UNCHANGED <<box, poll, kept, skipped>>

MailNext ==
  \/ MailComes \/ MailboxRebuilt
  \/ \E r \in Readers :
       \/ StartRead(r) \/ FetchHeads(r) \/ ReadMail(r) \/ WriteMail(r) \/ LeaveUnresolved(r)
       \/ Quarantine(r) \/ LoseConnection(r) \/ MoveMark(r) \/ EndRead(r)
       \/ ClaimDraft(r) \/ AppendDraft(r) \/ MarkDraft(r) \/ ReaderDies(r)

MailSpec == MailInit /\ [][MailNext]_mailVars
-------------------------------------------------------------------------------
MailTypeOK ==
  /\ box \in [mails : Nat, validity : 0 .. MaxRebuilds]
  /\ poll \in [uid : UIDs \cup {0}, validity : 0 .. MaxRebuilds]
  /\ kept \subseteq UIDs /\ skipped \subseteq UIDs
  /\ \A r \in Readers :
       reader[r] \in [pc : {"none", "heads", "mail", "write", "drafts", "append", "mark"},
                      validity : 0 .. MaxRebuilds, last : UIDs \cup {0}, todo : SUBSET UIDs,
                      chunk : SUBSET UIDs, wanted : SUBSET UIDs, knows : SUBSET UIDs]
  /\ prepared \in [holder : Readers \cup {"nobody"}, marked : BOOLEAN]
  /\ effects.mail \in [UIDs -> Nat] /\ effects.drafts \in Nat /\ breaks \in 0 .. MaxBreaks

\* A mail changes the conversation once, however many readers find it, in
\* whatever order their watermarks are written; and a prepared draft is placed
\* once, unless a reader died between the append and the mark.
EffectsOnce ==
  /\ \A u \in UIDs : effects.mail[u] <= 1
  /\ ~effects.spoiled => effects.drafts <= 1

\* The watermark never passes a mail of a conversation that is neither stored nor
\* quarantined - whatever connection was lost, whichever reader was killed, whoever
\* wrote the watermark last - but for one the owner wrote by hand and for which no
\* company was found: that one is only counted (gmail_sync.py:353-357).
PassedIsHandled ==
  \A u \in UIDs :
    /\ u <= Watermark
    /\ \/ Kind[u] = "sent"
       \/ Kind[u] \in {"own", "reply"} /\ \E v \in kept : v < u /\ Kind[v] = "sent"
    => u \in kept \/ (u \in skipped /\ (u \in Unreadable \/ Kind[u] = "own"))
===============================================================================
