------------------------------ MODULE LeadHandoff ------------------------------
(* sync_and_handoff() (leadgen/handoff.py): reads the tray, notes in the book *)
(* what the sender did, and tops the tray up with ready companies the send   *)
(* guard clears. The workflow, the worker's "lead.engine.cycle" and the      *)
(* owner's command each run it, and nothing keeps them apart. The sender, a  *)
(* program elsewhere, empties the tray meanwhile.                            *)
EXTENDS LeadBook

CONSTANTS Handoffs,       \* those who hand off: the workflow, a worker, the owner
          Window,         \* airtable_ready_window
          Ceiling,        \* airtable_record_ceiling
          Chunk           \* records per request (10)

VARIABLES
  handoff,      \* per hand-off: where it is, the tray it saw, its rows, the records made
  abreast,      \* history: the most hand-offs that were topping up at once
  barred        \* per address, why the send guard refuses it, but for an email
handoffVars == <<handoff, abreast, barred>>

IdleHandoff == [pc |-> "idle", seen |-> <<>>, rows |-> <<>>, made |-> <<>>]
HandoffInit ==
  /\ handoff = [h \in Handoffs |-> IdleHandoff]
  /\ abreast = 0
  /\ barred = [a \in Mailboxes |-> "not"]
Becomes(h, f) == handoff' = [handoff EXCEPT ![h] = f]

\* A hand-off that has listed the tray and may still create records.
ToppingUp == {h \in Handoffs : handoff[h].pc \in {"listed", "synced", "creating"}}

\* A record that carries the engine's tag. ref is what the book is told of it.
TrayRecord(l, a) == [of |-> l, mail |-> a, status |-> "Ready", sent |-> FALSE]

ListTray(h) ==
  /\ handoff[h].pc = "idle"
  /\ Becomes(h, [IdleHandoff EXCEPT !.pc = "listed", !.seen = tray])
  /\ abreast' = LET n == Cardinality(ToppingUp) + 1 IN IF n > abreast THEN n ELSE abreast
  /\ UNCHANGED <<bookVars, barred>>

SentTo(seen) == {i \in DOMAIN seen : seen[i].sent}
OptedOut(seen) == {i \in DOMAIN seen : ~seen[i].sent /\ seen[i].status = "Unsubscribed"}

\* The first half: a send is recorded, and the company contacted if it was on
\* its way; an opt-out counts when there was no send.
Synced(c, sent, out) ==
  [c EXCEPT !.reached = @ \/ sent,
            !.status = IF out THEN "unsubscribed"
                       ELSE IF sent /\ @ \in {"handed_off", "outreach_ready"} THEN "contacted" ELSE @]
SyncBook(h) ==
  /\ handoff[h].pc = "listed"
  /\ LET seen == handoff[h].seen
         sent(l) == \E i \in SentTo(seen) : seen[i].of = l
         out(l) == \E i \in OptedOut(seen) : seen[i].of = l IN
     /\ emailed' = emailed \cup {seen[i].mail : i \in SentTo(seen)}
     /\ company' = [l \in Listings |->
          IF Known(l) THEN Synced(company[l], sent(l), out(l)) ELSE company[l]]
  /\ Becomes(h, [handoff[h] EXCEPT !.pc = "synced"])
  /\ UNCHANGED <<contact, tray, abreast, barred>>

\* outreach_ready_rows(): a company that was reached, or has no mail of its own
\* that is published or validated, is not offered.
Offered(l) == {a \in Mailboxes : contact[a].of = l /\ contact[a].status \in {"validated", "published"}}
Ready == {l \in KnownListings : company[l].status = "outreach_ready" /\ ~company[l].reached /\ Offered(l) # {}}
OfferedMail(l) ==
  CHOOSE a \in Offered(l) : contact[a].status = "validated" \/ \A b \in Offered(l) : contact[b].status # "validated"

\* The guard, for a first touch, and the status a refused company gets: none of
\* its own when the reason is neither a suppression nor an email.
Refusal(a) ==
  CASE barred[a] = "suppressed"                     -> "do_not_contact"
    [] barred[a] # "suppressed" /\ a \in emailed     -> "contacted"
    [] barred[a] = "otherwise" /\ a \notin emailed   -> "outreach_ready"
    [] OTHER                                        -> "none"

\* Mutant: the room is what the book says is handed off.
SpaceByBook(seen) == Window - Cardinality({l \in KnownListings : company[l].status = "handed_off"})
\* The room that is left: waiting records count against the window.
Space(seen) ==
  LET waiting == Cardinality({i \in DOMAIN seen : ~seen[i].sent /\ seen[i].status = "Ready"})
      window == Window - waiting
      ceiling == Ceiling - Len(seen) IN
  IF window < ceiling THEN window ELSE ceiling

\* The second half: the first ready rows, three times the room, are taken in
\* turn until it is full; one that the guard refuses is corrected in the book.
\* All in one transaction.
AtMost3(room) == IF Cardinality(Ready) < 3 * room THEN Cardinality(Ready) ELSE 3 * room
PickReady(h) ==
  /\ handoff[h].pc = "synced" /\ Space(handoff[h].seen) > 0
  /\ \E order \in [1 .. AtMost3(Space(handoff[h].seen)) -> Ready] :
       /\ \A i, j \in DOMAIN order : order[i] = order[j] => i = j
       /\ LET cleared == Keeping(order, {l \in Ready : Refusal(OfferedMail(l)) = "none"})
              room == Space(handoff[h].seen)
              rows == SubSeq(cleared, 1, IF Len(cleared) < room THEN Len(cleared) ELSE room)
              looked(l) == \E i \in DOMAIN order :
                /\ order[i] = l
                /\ Len(cleared) < room \/ \E j \in DOMAIN order : order[j] = rows[room] /\ i < j IN
          /\ company' = [l \in Listings |->
               IF l \in Ready /\ Refusal(OfferedMail(l)) # "none" /\ looked(l)
               THEN [company[l] EXCEPT !.status = Refusal(OfferedMail(l))] ELSE company[l]]
          /\ Becomes(h, [handoff[h] EXCEPT !.pc = "creating",
                           !.rows = [i \in DOMAIN rows |-> TrayRecord(rows[i], OfferedMail(rows[i]))]])
  /\ UNCHANGED <<contact, emailed, tray, abreast, barred>>

\* Airtable.create(): the next chunk; a failed request ends the creating, though
\* its records may be there all the same.
NextChunk(f) == SubSeq(f.rows, Len(f.made) + 1, IF Len(f.made) + Chunk < Len(f.rows) THEN Len(f.made) + Chunk ELSE Len(f.rows))

CreateChunk(h) ==
  LET f == handoff[h] IN
  /\ f.pc = "creating" /\ Len(f.made) < Len(f.rows)
  /\ tray' = tray \o NextChunk(f)
  /\ Becomes(h, [f EXCEPT !.made = @ \o NextChunk(f)])
  /\ UNCHANGED <<company, contact, emailed, abreast, barred>>

CreateFails(h) ==
  LET f == handoff[h] IN
  /\ f.pc = "creating" /\ Len(f.made) < Len(f.rows)
  /\ tray' \in {tray, tray \o NextChunk(f)}
  /\ Becomes(h, [f EXCEPT !.pc = "marking"])
  /\ UNCHANGED <<company, contact, emailed, abreast, barred>>

CreateEnds(h) ==
  /\ handoff[h].pc = "creating" /\ Len(handoff[h].made) = Len(handoff[h].rows)
  /\ Becomes(h, [handoff[h] EXCEPT !.pc = "marking"])
  /\ UNCHANGED <<bookVars, abreast, barred>>

\* Mutant: every row that was sent for creation counts as created.
MarkedAll(f) == {f.rows[i].of : i \in DOMAIN f.rows}
\* _mark_handed_off(): rows and created records side by side, the first of each.
Marked(f) == {f.made[i].of : i \in DOMAIN f.made}

MarkHandedOff(h) ==
  /\ handoff[h].pc = "marking"
  /\ company' = [l \in Listings |->
       IF Known(l) /\ l \in Marked(handoff[h])
       THEN [company[l] EXCEPT !.status = "handed_off", !.tagged = TRUE] ELSE company[l]]
  /\ Becomes(h, IdleHandoff)
  /\ UNCHANGED <<contact, emailed, tray, abreast, barred>>

\* No room, an error in a listing or in the guard, or a dead process.
EndHandoff(h) ==
  /\ handoff[h].pc # "idle"
  /\ Becomes(h, IdleHandoff)
  /\ UNCHANGED <<bookVars, abreast, barred>>
-------------------------------------------------------------------------------
(* The sender of the tray, and the reply layer                               *)

SenderEmails(i) ==
  /\ tray[i].status = "Ready"
  /\ tray' = [tray EXCEPT ![i] = [@ EXCEPT !.sent = TRUE, !.status = "Contacted"]]
  /\ UNCHANGED <<company, contact, emailed, handoffVars>>

\* Somebody opts out by replying, and the sender's record says so.
SenderUnsubscribes(i) ==
  /\ tray[i].status # "Rejected"
  /\ tray' = [tray EXCEPT ![i].status = "Unsubscribed"]
  /\ UNCHANGED <<company, contact, emailed, handoffVars>>

\* A reply, a bounce, an opt-out, or something only the owner may settle.
GuardBars(a) ==
  /\ \E why \in {"suppressed", "otherwise"} : barred' = [barred EXCEPT ![a] = why]
  /\ UNCHANGED <<bookVars, handoff, abreast>>

HandoffNext ==
  \E h \in Handoffs : ListTray(h) \/ SyncBook(h) \/ PickReady(h) \/ CreateChunk(h) \/ CreateFails(h)
                      \/ CreateEnds(h) \/ MarkHandedOff(h) \/ EndHandoff(h)
SenderNext == \E i \in DOMAIN tray : SenderEmails(i) \/ SenderUnsubscribes(i)
GuardNext == \E a \in Mailboxes : GuardBars(a)
-------------------------------------------------------------------------------
\* docs/lead_engine/README.md:63, "the handoff keeps at most airtable_ready_window
\* engine leads waiting there", whatever the sender does meanwhile, however many
\* requests fail or are answered too late, and wherever an earlier hand-off died.
\* It holds for hand-offs that do not overlap. Those that do (the worker's and the
\* workflow's) each fill the window they saw: so many windows, and never more.
WindowKept ==
  Cardinality({i \in DOMAIN tray : tray[i].status = "Ready" /\ ~tray[i].sent}) <= Window * abreast

\* Whoever the book calls handed off has a record in the tray.
HandedOffIsInTray ==
  \A l \in KnownListings : company[l].status = "handed_off" => \E i \in DOMAIN tray : tray[i].of = l
===============================================================================
