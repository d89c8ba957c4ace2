------------------------------- MODULE BrightReach -------------------------------
(* The lead service of a client (brightreach/service.py) over its ledger, a  *)
(* file that is only appended to: what a lead's status is is what the last   *)
(* event of it says. The API serves one request at a time; its process may   *)
(* die within an append, which leaves a fragment without an end of line.     *)
EXTENDS Naturals, Sequences

CONSTANTS ClientLeads,          \* ids of leads
          LeadFacts,      \* what a lead and its client's setup come to (see LeadFact)
          MaxLedger       \* bound: events of the ledger

LeadFact == [optedOut : BOOLEAN, disqualified : BOOLEAN, inArea : BOOLEAN, fits : BOOLEAN,
         answers : SUBSET {"missing", "refused"}]
EventKinds == {"lead.created", "response.ready", "lead.qualified", "follow_up.ready", "booking.confirmed"}
ReachStatuses == {"opted_out", "responded", "QUALIFIED", "NOT_QUALIFIED", "NEEDS_HUMAN_REVIEW", "booked"}

VARIABLES
  ledger,       \* the events of the lines that can be parsed
  torn,         \* whether the file ends in a fragment
  fact          \* per lead that was posted: what it comes to

reachVars == <<ledger, torn, fact>>

ReachInit ==
  /\ ledger = <<>> /\ torn = FALSE
  /\ fact = [l \in {} |-> "none"]

LeadEvent(kind, l, status) == [kind |-> kind, lead |-> l, status |-> status]

\* Ledger.events() and BrightReachService._status(): the last event of a lead.
EventsOf(l) == {i \in DOMAIN ledger : ledger[i].lead = l}
StatusOf(l) ==
  IF EventsOf(l) = {} THEN "none" ELSE ledger[CHOOSE i \in EventsOf(l) : \A j \in EventsOf(l) : j <= i].status
\* _lead(): a lead is found by its first event.
KnownLead(l) == \E i \in DOMAIN ledger : ledger[i].kind = "lead.created" /\ ledger[i].lead = l

\* Ledger.append(): after a fragment the line is one with it, and lost.
Appended(log, broken, e) == IF broken THEN log ELSE Append(log, e)

\* One event is written, or the process dies and leaves a fragment of it.
WriteEvent(e) ==
  /\ Len(ledger) < MaxLedger
  /\ \/ torn' = FALSE /\ ledger' = Appended(ledger, torn, e)
     \/ torn' = TRUE /\ ledger' = ledger

\* create_lead(): a lead that did not opt out gets its answer in a second event.
CreateLead(l) ==
  /\ l \notin DOMAIN fact
  /\ \E f \in LeadFacts :
       LET status == IF f.optedOut THEN "opted_out" ELSE "responded"
           created == LeadEvent("lead.created", l, status)
           response == LeadEvent("response.ready", l, "responded") IN
       /\ fact' = [k \in (DOMAIN fact) \cup {l} |-> IF k = l THEN f ELSE fact[k]]
       /\ \/ WriteEvent(created)
          \/ /\ ~f.optedOut /\ Len(ledger) + 1 < MaxLedger
             /\ LET log == Appended(ledger, torn, created) IN
                \/ ledger' = Append(log, response) /\ torn' = FALSE
                \/ ledger' = log /\ torn' = TRUE

\* Mutant: a booked lead is qualified again.
ClosedButBooked == {"opted_out", "NOT_QUALIFIED"}
\* What qualify() and follow_up() leave alone; nothing sets "declined".
Closed == {"opted_out", "booked", "NOT_QUALIFIED"}

\* qualify(): only missing answers are left to a human.
QualifyVerdict(f) ==
  IF ~f.disqualified /\ f.inArea /\ f.fits /\ f.answers = {} THEN "QUALIFIED"
  ELSE IF ~f.disqualified /\ f.inArea /\ f.fits /\ "missing" \in f.answers THEN "NEEDS_HUMAN_REVIEW"
  ELSE "NOT_QUALIFIED"

QualifyLead(l) ==
  /\ KnownLead(l) /\ StatusOf(l) \notin Closed
  /\ WriteEvent(LeadEvent("lead.qualified", l, QualifyVerdict(fact[l])))
  /\ UNCHANGED fact

FollowUp(l) ==
  /\ KnownLead(l) /\ StatusOf(l) \notin Closed
  /\ WriteEvent(LeadEvent("follow_up.ready", l, "NEEDS_HUMAN_REVIEW"))
  /\ UNCHANGED fact

\* record_booking(), in the client's calendar.
RecordBooking(l) ==
  /\ KnownLead(l) /\ StatusOf(l) = "QUALIFIED"
  /\ WriteEvent(LeadEvent("booking.confirmed", l, "booked"))
  /\ UNCHANGED fact

ReachNext ==
  \E l \in ClientLeads : CreateLead(l) \/ QualifyLead(l) \/ FollowUp(l) \/ RecordBooking(l)
ReachSpec == ReachInit /\ [][ReachNext]_reachVars
-------------------------------------------------------------------------------
ReachTypeOK ==
  /\ \A i \in DOMAIN ledger :
       ledger[i].kind \in EventKinds /\ ledger[i].lead \in ClientLeads /\ ledger[i].status \in ReachStatuses
  /\ torn \in BOOLEAN /\ fact \in [DOMAIN fact -> LeadFacts]

\* Once the ledger says that a lead opted out, is not qualified or is booked,
\* no request and no fragment changes its status again.
ClosedStaysClosed ==
  [][\A l \in ClientLeads : StatusOf(l) \in {"opted_out", "booked", "NOT_QUALIFIED"} => UNCHANGED StatusOf(l)]_reachVars
===============================================================================
