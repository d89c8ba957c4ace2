------------------------------ MODULE MCLeads ------------------------------
EXTENDS LeadEngine

CONSTANT MCActors
VARIABLE actors

MCAddress(box, domain, mx) == [box |-> box, domain |-> domain, mx |-> mx, junk |-> FALSE]
MCOwn == MCAddress("info", "own", TRUE)
MCFree == MCAddress("joe", "freemail", TRUE)
MCListings == {"l1", "l2"}
MCKeyOf == [l \in MCListings |-> [domain |-> l, place |-> l, phone |-> l]]
MCTraits == [l \in MCListings |-> {}]
MCListed == [l \in MCListings |-> IF l = "l1" THEN {MCFree} ELSE {}]
MCSite(home, mail) ==
  [home |-> home, parked |-> FALSE, shared |-> FALSE, homeMail |-> mail, linkedMail |-> {}, mapMail |-> {},
   links |-> FALSE, facts |-> "rich"]
MCSites == [l \in MCListings |-> IF l = "l1" THEN {MCSite("page", {}), MCSite("refused", {})}
                                 ELSE {MCSite("page", {MCFree}), MCSite("page", {MCOwn}), MCSite("page", {})}]
MCBatches == {<<"l1", "l2">>}
MCOld == {[id |-> "o1", key |-> MCKeyOf["l1"], at |-> "l1", mail |-> {}, status |-> "not_ready", sent |-> FALSE],
          [id |-> "o2", key |-> MCKeyOf["l2"], at |-> "l2", mail |-> {MCFree}, status |-> "contacted", sent |-> TRUE]}
MCResults == {<<"l1", "l2">>}
MCOrder == <<"l1", "l2">>

\* A book that searches have filled.
MCFilled ==
  /\ company = [l \in Listings |-> NewCompany("MEDIUM", "outreach_ready", TRUE, {}, FALSE)]
  /\ contact = [a \in Mailboxes |-> [of |-> IF a = MCFree THEN "l1" ELSE "l2", status |-> "validated"]]
  /\ emailed = {} /\ tray = <<>>

\* Who runs beside whom, on an empty book or on a filled one: a set of actors is
\* chosen at the start. The worker hands off beside the workflow, when it is there.
MCInit ==
  /\ actors \in MCActors
  /\ IF "filled" \in actors THEN MCFilled ELSE BookInit
  /\ IntakeInit /\ BatchInit /\ HandoffInit
MCNext ==
  /\ UNCHANGED actors
  /\ \/ "search" \in actors /\ Searches
     \/ "recheck" \in actors /\ Rechecks
     \/ "import" \in actors /\ Imports
     \/ "batch" \in actors /\ RunsBatches
     \/ "handoff" \in actors /\ HandsOff /\ ("worker" \in actors \/ handoff'["worker"] = handoff["worker"])
     \/ "sender" \in actors /\ SenderWorks
     \/ "guard" \in actors /\ Guards
MCSpec == MCInit /\ [][MCNext]_<<actors, leadVars>>
=============================================================================
