------------------------------ MODULE OnceProofs ------------------------------
(* What must happen once. The job agent's applications, for any postings,    *)
(* runs and modes, with runs that die anywhere: only two runs that list a    *)
(* posting at the same time send it twice. The reviewed outbox's emails, for *)
(* any drafts, edits, errors and crashes: once, as shown, and with a receipt *)
(* that is true. The mails of the Gmail reader, for any mailbox, readers,    *)
(* deaths and lost connections: each counts once, and none is passed over.   *)
(* Whatever the owner is told of, by however many processes, flushes and     *)
(* runs: nothing counts as told that was not, and nothing is told twice but  *)
(* for a lost answer, a lost record, or two that had it in hand at once.     *)
EXTENDS JobAgent, EmailOutbox, GmailReader, EmailAlerts, Notifications, FiniteSetTheorems, TLAPS

-------------------------------------------------------------------------------
(* The job agent.                                                            *)

OnPosting == {"browse", "click", "confirm", "record"}
\* Once an application was begun its row never says again that it may be.
BegunStatuses == {"applying", "submitted", "skipped", "failed"}
Verdicts == {"none", "ready", "submitted", "failed", "timeout", "resume_unavailable", "captcha",
             "authentication_required", "sensitive_information_requested", "assessment_required",
             "unknown_answer", "application_too_long", "validation_failed", "unsupported_ats"}

AgentTypes ==
  /\ application \in [Postings -> [status : BegunStatuses \cup {"none", "rejected", "qualified"}, reason : Verdicts]]
  /\ agent \in [AgentRuns -> [pc : OnPosting \cup {"none", "discover", "next"}, mode : Modes, list : SUBSET Postings,
                              at : Nat, verdict : Verdicts]]
  /\ clicks \in [Postings -> Nat] /\ overlapped \subseteq Postings /\ starts \in Nat

Begun(p) == application[p].status \in BegunStatuses
\* A run works on a posting of its list, whose row it has begun unless it is dry.
ApplicationsAreOrdered ==
  \A a \in AgentRuns :
    /\ agent[a].pc \in {"none", "discover"} => agent[a].list = {}
    /\ agent[a].pc \in OnPosting => agent[a].at \in agent[a].list
    /\ agent[a].pc \in {"click", "confirm"} => agent[a].mode = "submit"
    /\ agent[a].pc \in OnPosting /\ agent[a].mode # "dry" => Begun(agent[a].at)
SentIsBegun == \A p \in Postings : clicks[p] > 0 => Begun(p)
HeldTwiceOverlaps ==
  \A a, b \in AgentRuns : a # b => \A p \in agent[a].list \cap agent[b].list : p \in overlapped
\* Who still has a posting on his list that was sent has just sent it.
HeldIsUnsent ==
  \A a \in AgentRuns : \A p \in agent[a].list :
    clicks[p] > 0 /\ p \notin overlapped => agent[a].pc \in {"confirm", "record"} /\ agent[a].at = p
AgentInv ==
  AgentTypes /\ ApplicationsAreOrdered /\ SentIsBegun /\ HeldTwiceOverlaps /\ HeldIsUnsent /\ SentOncePerPosting

LEMMA AgentInitGood == AgentInit => AgentInv
BY DEF AgentInit, AgentInv, AgentTypes, ApplicationsAreOrdered, SentIsBegun, HeldTwiceOverlaps, HeldIsUnsent,
       SentOncePerPosting, NotApplying, Verdicts, Modes, OnPosting, BegunStatuses, Begun

(* A posting that is found again keeps its status.                           *)
LEMMA DiscoverGood ==
  ASSUME AgentInv, NEW a \in AgentRuns, NEW p \in Postings, DiscoverPosting(a, p)
  PROVE  AgentInv'
<1>1. /\ application' \in [Postings -> [status : BegunStatuses \cup {"none", "rejected", "qualified"}, reason : Verdicts]]
      /\ \A q \in Postings : Begun(q) => Begun(q)'
  BY DEF DiscoverPosting, Upserted, JudgedPosting, AgentInv, AgentTypes, Begun, BegunStatuses
<1>2. UNCHANGED <<agent, clicks, overlapped, starts>>
  BY DEF DiscoverPosting
<1> QED
  BY <1>1, <1>2 DEF AgentInv, AgentTypes, ApplicationsAreOrdered, SentIsBegun, HeldTwiceOverlaps, HeldIsUnsent,
                    SentOncePerPosting

LEMMA StartRunGood ==
  ASSUME AgentInv, NEW a \in AgentRuns, NEW mode \in Modes, StartRun(a, mode)
  PROVE  AgentInv'
<1>1. AgentTypes'
  <2>1. [NotApplying EXCEPT !.pc = "discover", !.mode = mode]
          \in [pc : {"discover"}, mode : Modes, list : SUBSET Postings, at : Nat, verdict : Verdicts]
    BY DEF NotApplying, Verdicts
  <2>2. agent' = [agent EXCEPT ![a] = [NotApplying EXCEPT !.pc = "discover", !.mode = mode]]
    BY DEF StartRun
  <2>3. starts' \in Nat /\ UNCHANGED <<application, clicks, overlapped>>
    BY DEF StartRun, AgentInv, AgentTypes
  <2> QED  BY <2>1, <2>2, <2>3 DEF AgentInv, AgentTypes
<1>2. agent' = [agent EXCEPT ![a] = agent'[a]] /\ agent'[a].pc = "discover" /\ agent'[a].list = {}
  BY DEF AgentInv, AgentTypes, StartRun, NotApplying
<1>3. ApplicationsAreOrdered' /\ HeldTwiceOverlaps' /\ HeldIsUnsent'
  BY <1>2 DEF AgentInv, AgentTypes, StartRun, ApplicationsAreOrdered, HeldTwiceOverlaps, HeldIsUnsent, Begun, OnPosting
<1> QED  BY <1>1, <1>3 DEF AgentInv, StartRun, SentIsBegun, SentOncePerPosting, Begun

LEMMA EndRunGood ==
  ASSUME AgentInv, NEW a \in AgentRuns, EndRun(a)
  PROVE  AgentInv'
<1>1. AgentTypes'
  BY DEF AgentInv, AgentTypes, EndRun, NotApplying, Verdicts, Modes
<1>2. agent' = [agent EXCEPT ![a] = agent'[a]] /\ agent'[a].pc = "none" /\ agent'[a].list = {}
  BY DEF AgentInv, AgentTypes, EndRun, NotApplying
<1>3. ApplicationsAreOrdered' /\ HeldTwiceOverlaps' /\ HeldIsUnsent'
  BY <1>2 DEF AgentInv, AgentTypes, EndRun, ApplicationsAreOrdered, HeldTwiceOverlaps, HeldIsUnsent, Begun, OnPosting
<1> QED  BY <1>1, <1>3 DEF AgentInv, EndRun, SentIsBegun, SentOncePerPosting, Begun

(* What was sent is not listed again, and what another run lists is marked.  *)
LEMMA ListGood ==
  ASSUME AgentInv, NEW a \in AgentRuns, ListQualified(a)
  PROVE  AgentInv'
<1> DEFINE best == BestOf(QualifiedRows)
<1>1. best \subseteq Postings /\ \A p \in best : ~Begun(p) /\ clicks[p] = 0
  BY DEF BestOf, QualifiedRows, AgentInv, AgentTypes, SentIsBegun, Begun, BegunStatuses
<1>2. /\ agent' = [agent EXCEPT ![a] = agent'[a]] /\ agent'[a].pc = "next" /\ agent'[a].list = best
      /\ overlapped \subseteq overlapped' /\ overlapped' \subseteq Postings
      /\ \A p \in best, b \in AgentRuns : p \in agent[b].list => p \in overlapped'
  BY <1>1 DEF AgentInv, AgentTypes, ListQualified
<1>3. AgentTypes'
  BY <1>1, <1>2 DEF AgentInv, AgentTypes, ListQualified
<1>4. ApplicationsAreOrdered'
  BY <1>2 DEF AgentInv, AgentTypes, ListQualified, ApplicationsAreOrdered, Begun, OnPosting
<1>5. HeldTwiceOverlaps'
  BY <1>2 DEF AgentInv, AgentTypes, HeldTwiceOverlaps
<1>6. HeldIsUnsent'
  BY <1>1, <1>2 DEF AgentInv, AgentTypes, HeldIsUnsent, ListQualified
<1>7. SentIsBegun' /\ SentOncePerPosting'
  BY <1>2 DEF AgentInv, ListQualified, SentIsBegun, SentOncePerPosting, Begun
<1> QED  BY <1>3, <1>4, <1>5, <1>6, <1>7 DEF AgentInv

(* transition() of the posting in hand: its row is begun for good.           *)
LEMMA TransitionGood ==
  ASSUME AgentTypes, NEW a \in AgentRuns, NEW p \in Postings, NEW status \in BegunStatuses, NEW reason \in Verdicts,
         Transition(a, p, status, reason)
  PROVE  /\ application' \in [Postings -> [status : BegunStatuses \cup {"none", "rejected", "qualified"}, reason : Verdicts]]
         /\ \A q \in Postings : Begun(q) => Begun(q)'
         /\ agent[a].mode # "dry" => Begun(p)'
<1>1. CASE agent[a].mode = "dry"
  BY <1>1 DEF AgentTypes, Transition, Begun
<1>2. CASE agent[a].mode # "dry"
  <2>1. application' = [application EXCEPT ![p] = [status |-> status, reason |-> reason]]
    BY <1>2 DEF Transition
  <2>2. application'[p].status = status /\ \A q \in Postings : q # p => application'[q] = application[q]
    BY <2>1 DEF AgentTypes
  <2> QED  BY <2>1, <2>2 DEF AgentTypes, Begun
<1> QED  BY <1>1, <1>2

(* A run leaves a posting behind.                                            *)
LEMMA LeaveGood ==
  ASSUME AgentInv, NEW a \in AgentRuns, NEW p \in Postings, agent' = NextPosting(a, p),
         agent[a].pc \in OnPosting => agent[a].at = p,
         application' \in [Postings -> [status : BegunStatuses \cup {"none", "rejected", "qualified"}, reason : Verdicts]],
         \A q \in Postings : Begun(q) => Begun(q)', UNCHANGED <<clicks, overlapped, starts>>
  PROVE  AgentInv'
<1>1. /\ agent' = [agent EXCEPT ![a] = agent'[a]] /\ agent'[a].pc = "next" /\ agent'[a].list = agent[a].list \ {p}
      /\ agent' \in [AgentRuns -> [pc : OnPosting \cup {"none", "discover", "next"}, mode : Modes, list : SUBSET Postings,
                                   at : Nat, verdict : Verdicts]]
  <2> DEFINE k == [agent[a] EXCEPT !.pc = "next", !.at = 0, !.verdict = "none", !.list = agent[a].list \ {p}]
  <2>1. agent' = [agent EXCEPT ![a] = k]
    BY DEF NextPosting
  <2>2. k \in [pc : {"next"}, mode : Modes, list : {agent[a].list \ {p}}, at : Nat, verdict : Verdicts]
    <3>1. agent[a] \in [pc : OnPosting \cup {"none", "discover", "next"}, mode : Modes, list : SUBSET Postings,
                        at : Nat, verdict : Verdicts]
      BY DEF AgentInv, AgentTypes
    <3>2. "none" \in Verdicts /\ 0 \in Nat
      BY DEF Verdicts
    <3> QED  BY <3>1, <3>2 DEF k
  <2>3. agent[a].list \ {p} \in SUBSET Postings
    BY DEF AgentInv, AgentTypes
  <2> QED  BY <2>1, <2>2, <2>3 DEF AgentInv, AgentTypes
<1>2. AgentTypes'
  BY <1>1 DEF AgentInv, AgentTypes
<1>3. ApplicationsAreOrdered'
  BY <1>1 DEF AgentInv, AgentTypes, ApplicationsAreOrdered, OnPosting
<1>4. HeldTwiceOverlaps'
  BY <1>1 DEF AgentInv, AgentTypes, HeldTwiceOverlaps
<1>5. HeldIsUnsent'
  BY <1>1 DEF AgentInv, AgentTypes, HeldIsUnsent, OnPosting
<1>6. SentIsBegun' /\ SentOncePerPosting'
  BY DEF AgentInv, SentIsBegun, SentOncePerPosting
<1> QED  BY <1>2, <1>3, <1>4, <1>5, <1>6 DEF AgentInv

(* A run moves on with a posting whose row it has begun.                     *)
LEMMA MoveGood ==
  ASSUME AgentInv, NEW a \in AgentRuns, agent' = [agent EXCEPT ![a] = agent'[a]], NEW p \in agent[a].list,
         agent'[a] \in [pc : {"browse", "click", "record"}, mode : {agent[a].mode}, list : {agent[a].list},
                        at : {p}, verdict : Verdicts],
         agent'[a].pc = "click" => agent[a].mode = "submit",
         agent[a].pc \in {"browse", "confirm"} => agent[a].at = p,
         agent[a].pc = "confirm" => agent'[a].pc = "record",
         agent[a].pc \in {"next", "browse", "confirm"},
         agent[a].mode # "dry" => Begun(p)',
         application' \in [Postings -> [status : BegunStatuses \cup {"none", "rejected", "qualified"}, reason : Verdicts]],
         \A q \in Postings : Begun(q) => Begun(q)', UNCHANGED <<clicks, overlapped, starts>>
  PROVE  AgentInv'
<1>1. agent[a].list \subseteq Postings /\ agent[a].mode \in Modes /\ Postings \subseteq Nat
  BY AgentAssumption DEF AgentInv, AgentTypes
<1>2. AgentTypes'
  BY <1>1 DEF AgentInv, AgentTypes, OnPosting
<1>3. ApplicationsAreOrdered'
  <2>1. \A b \in AgentRuns : b # a =>
          /\ agent'[b] = agent[b]
          /\ agent[b].pc \in OnPosting => agent[b].at \in Postings
    BY DEF AgentInv, AgentTypes, ApplicationsAreOrdered
  <2>2. \A b \in AgentRuns : b # a =>
          /\ agent'[b].pc \in {"none", "discover"} => agent'[b].list = {}
          /\ agent'[b].pc \in OnPosting => agent'[b].at \in agent'[b].list
          /\ agent'[b].pc \in {"click", "confirm"} => agent'[b].mode = "submit"
          /\ agent'[b].pc \in OnPosting /\ agent'[b].mode # "dry" => application'[agent'[b].at].status \in BegunStatuses
    BY <2>1 DEF AgentInv, ApplicationsAreOrdered, Begun
  <2>3. agent'[a].at = p /\ (agent'[a].mode # "dry" => application'[p].status \in BegunStatuses)
    BY DEF Begun
  <2> QED  BY <2>2, <2>3 DEF ApplicationsAreOrdered, Begun, OnPosting
<1>4. HeldTwiceOverlaps'
  BY DEF AgentInv, AgentTypes, HeldTwiceOverlaps
<1>5. HeldIsUnsent'
  BY DEF AgentInv, AgentTypes, HeldIsUnsent, OnPosting
<1>6. SentIsBegun' /\ SentOncePerPosting'
  BY DEF AgentInv, SentIsBegun, SentOncePerPosting
<1> QED  BY <1>2, <1>3, <1>4, <1>5, <1>6 DEF AgentInv

LEMMA BeginApplicationGood ==
  ASSUME AgentInv, NEW a \in AgentRuns, BeginApplying(a)
  PROVE  AgentInv'
<1>1. PICK p \in agent[a].list :
        \/ /\ Transition(a, p, "applying", "none")
           /\ agent' = [agent EXCEPT ![a].pc = "browse", ![a].at = p]
        \/ Transition(a, p, "failed", "none") /\ agent' = NextPosting(a, p)
  BY DEF BeginApplying
<1>2. p \in Postings /\ agent[a].pc = "next" /\ UNCHANGED <<clicks, overlapped, starts>> /\ AgentTypes
  BY DEF AgentInv, AgentTypes, BeginApplying
<1>3. "none" \in Verdicts /\ "applying" \in BegunStatuses /\ "failed" \in BegunStatuses
  BY DEF Verdicts, BegunStatuses
<1>4. CASE Transition(a, p, "failed", "none") /\ agent' = NextPosting(a, p)
  <2>1. /\ application' \in [Postings -> [status : BegunStatuses \cup {"none", "rejected", "qualified"}, reason : Verdicts]]
        /\ \A q \in Postings : Begun(q) => Begun(q)'
    BY <1>2, <1>3, <1>4, TransitionGood
  <2> QED  BY <1>2, <1>4, <2>1, LeaveGood DEF OnPosting
<1>5. CASE /\ Transition(a, p, "applying", "none")
           /\ agent' = [agent EXCEPT ![a].pc = "browse", ![a].at = p]
  <2>1. /\ agent' = [agent EXCEPT ![a] = agent'[a]] /\ agent'[a].at = p
        /\ agent'[a] \in [pc : {"browse"}, mode : {agent[a].mode}, list : {agent[a].list},
                          at : {p}, verdict : Verdicts]
    BY <1>1, <1>2, <1>5, ZenonT(60) DEF AgentTypes
  <2>2. /\ application' \in [Postings -> [status : BegunStatuses \cup {"none", "rejected", "qualified"}, reason : Verdicts]]
        /\ \A q \in Postings : Begun(q) => Begun(q)'
        /\ agent[a].mode # "dry" => Begun(p)'
    BY <1>2, <1>3, <1>5, TransitionGood
  <2> QED  BY <1>2, <2>1, <2>2, MoveGood
<1> QED  BY <1>1, <1>4, <1>5

(* The page is read, or its confirmation.                                    *)
LEMMA ReadGood ==
  ASSUME AgentInv, NEW a \in AgentRuns, InspectPage(a) \/ ReadConfirmation(a)
  PROVE  AgentInv'
<1>1. AgentTypes /\ agent[a].pc \in {"browse", "confirm"} /\ UNCHANGED <<application, clicks, overlapped, starts>>
  BY DEF AgentInv, InspectPage, ReadConfirmation
<1>2. PICK verdict \in Verdicts, pc \in {"click", "record"} :
        /\ agent' = [agent EXCEPT ![a].pc = pc, ![a].verdict = verdict]
        /\ (pc = "click" => agent[a].mode = "submit")
        /\ (agent[a].pc = "confirm" => pc = "record")
  <2>1. CASE InspectPage(a)
    <3>1. Inspected(agent[a].at) \in Verdicts
      BY DEF Inspected, PageReason, StopReason, Verdicts
    <3>2. PICK verdict \in {Inspected(agent[a].at), "resume_unavailable", "timeout", "failed"} :
            agent' = [agent EXCEPT ![a].pc = IF verdict = "ready" /\ agent[a].mode = "submit" THEN "click" ELSE "record",
                                   ![a].verdict = verdict]
      BY <2>1 DEF InspectPage
    <3>3. verdict \in Verdicts /\ agent[a].pc = "browse"
      BY <2>1, <3>1, <3>2 DEF InspectPage, Verdicts
    <3>4. CASE verdict = "ready" /\ agent[a].mode = "submit"
      <4>1. agent' = [agent EXCEPT ![a].pc = "click", ![a].verdict = verdict]
        BY <3>2, <3>4
      <4> QED  BY <3>3, <3>4, <4>1
    <3>5. CASE ~(verdict = "ready" /\ agent[a].mode = "submit")
      <4>1. agent' = [agent EXCEPT ![a].pc = "record", ![a].verdict = verdict]
        BY <3>2, <3>5
      <4> QED  BY <3>3, <4>1
    <3> QED  BY <3>4, <3>5
  <2>2. CASE ReadConfirmation(a)
    <3>1. PICK verdict \in {"submitted", "failed", "timeout"} :
            agent' = [agent EXCEPT ![a].pc = "record", ![a].verdict = verdict]
      BY <2>2 DEF ReadConfirmation
    <3> QED  BY <3>1 DEF Verdicts
  <2> QED  BY <2>1, <2>2
<1>3. /\ agent' = [agent EXCEPT ![a] = agent'[a]] /\ agent'[a].at = agent[a].at /\ agent'[a].pc = pc
      /\ agent[a].at \in agent[a].list /\ (agent[a].mode # "dry" => Begun(agent[a].at))
      /\ agent'[a] \in [pc : {"browse", "click", "record"}, mode : {agent[a].mode}, list : {agent[a].list},
                        at : {agent[a].at}, verdict : Verdicts]
  BY <1>1, <1>2 DEF AgentInv, AgentTypes, ApplicationsAreOrdered, OnPosting
<1>4. /\ application' \in [Postings -> [status : BegunStatuses \cup {"none", "rejected", "qualified"}, reason : Verdicts]]
      /\ \A q \in Postings : Begun(q) => Begun(q)'
      /\ agent[a].mode # "dry" => Begun(agent[a].at)'
  BY <1>1, <1>3 DEF AgentTypes, Begun
<1> QED  BY <1>1, <1>2, <1>3, <1>4, MoveGood

(* The click: whoever else has the posting on his list had it already.       *)
LEMMA ClickGood ==
  ASSUME AgentInv, NEW a \in AgentRuns, ClickSubmit(a)
  PROVE  AgentInv'
<1> DEFINE p == agent[a].at
<1>1. p \in agent[a].list /\ p \in Postings /\ Begun(p) /\ agent[a].mode = "submit" /\ agent[a].pc = "click"
  BY DEF AgentInv, AgentTypes, ApplicationsAreOrdered, ClickSubmit, OnPosting
<1>2. /\ agent' = [agent EXCEPT ![a].pc = "confirm"] /\ clicks' = [clicks EXCEPT ![p] = clicks[p] + 1]
      /\ UNCHANGED <<application, overlapped, starts>>
  BY DEF ClickSubmit
<1>3. AgentTypes'
  <2>1. clicks' \in [Postings -> Nat]
    BY <1>1, <1>2 DEF AgentInv, AgentTypes
  <2>2. agent' \in [AgentRuns -> [pc : OnPosting \cup {"none", "discover", "next"}, mode : Modes, list : SUBSET Postings,
                                  at : Nat, verdict : Verdicts]]
    BY <1>2 DEF AgentInv, AgentTypes, OnPosting
  <2> QED  BY <1>2, <2>1, <2>2 DEF AgentInv, AgentTypes
<1>4. ApplicationsAreOrdered' /\ HeldTwiceOverlaps'
  BY <1>1, <1>2 DEF AgentInv, AgentTypes, ApplicationsAreOrdered, HeldTwiceOverlaps, Begun, OnPosting
<1>5. SentIsBegun'
  BY <1>1, <1>2 DEF AgentInv, AgentTypes, SentIsBegun, Begun
<1>6. HeldIsUnsent'
  <2>1. SUFFICES ASSUME NEW b \in AgentRuns, NEW q \in agent'[b].list, clicks'[q] > 0, q \notin overlapped
                 PROVE  agent'[b].pc \in {"confirm", "record"} /\ agent'[b].at = q
    BY <1>2 DEF HeldIsUnsent
  <2>2. q \in agent[b].list /\ q \in Postings /\ agent'[b].at = agent[b].at
    BY <1>2, <2>1 DEF AgentInv, AgentTypes
  <2>3. CASE q = p
    BY <1>1, <1>2, <2>1, <2>2, <2>3 DEF AgentInv, AgentTypes, HeldTwiceOverlaps
  <2>4. CASE q # p
    <3>1. clicks[q] > 0
      BY <1>2, <2>1, <2>2, <2>4 DEF AgentInv, AgentTypes
    <3>2. agent[b].pc \in {"confirm", "record"} /\ agent[b].at = q
      BY <2>1, <2>2, <3>1 DEF AgentInv, HeldIsUnsent
    <3> QED  BY <1>1, <1>2, <2>2, <3>2 DEF AgentInv, AgentTypes
  <2> QED  BY <2>3, <2>4
<1>7. SentOncePerPosting'
  <2>1. p \notin overlapped => clicks[p] = 0
    BY <1>1 DEF AgentInv, AgentTypes, HeldIsUnsent
  <2> QED  BY <1>1, <1>2, <2>1 DEF AgentInv, AgentTypes, SentOncePerPosting
<1> QED  BY <1>3, <1>4, <1>5, <1>6, <1>7 DEF AgentInv

LEMMA RecordGood ==
  ASSUME AgentInv, NEW a \in AgentRuns, RecordResult(a)
  PROVE  AgentInv'
<1> DEFINE p == agent[a].at
<1>1. p \in Postings /\ agent[a].verdict \in Verdicts /\ AgentTypes /\ agent' = NextPosting(a, p)
      /\ UNCHANGED <<clicks, overlapped, starts>>
  BY DEF AgentInv, AgentTypes, ApplicationsAreOrdered, RecordResult, OnPosting
<1>2. PICK status \in BegunStatuses, reason \in Verdicts : Transition(a, p, status, reason)
  BY <1>1 DEF RecordResult, BegunStatuses, Verdicts
<1>3. /\ application' \in [Postings -> [status : BegunStatuses \cup {"none", "rejected", "qualified"}, reason : Verdicts]]
      /\ \A q \in Postings : Begun(q) => Begun(q)'
  BY <1>1, <1>2, TransitionGood
<1> QED  BY <1>1, <1>3, LeaveGood

LEMMA AgentInvariance == AgentSpec => []AgentInv
<1>1. ASSUME AgentInv, [AgentNext]_agentVars
      PROVE  AgentInv'
  <2>1. CASE UNCHANGED agentVars
    BY <1>1, <2>1 DEF agentVars, AgentInv, AgentTypes, ApplicationsAreOrdered, SentIsBegun, HeldTwiceOverlaps, HeldIsUnsent,
                      SentOncePerPosting, Begun
  <2>2. CASE AgentNext
    BY <1>1, <2>2, StartRunGood, DiscoverGood, ListGood, BeginApplicationGood, ReadGood, ClickGood, RecordGood, EndRunGood DEF AgentNext
  <2> QED  BY <1>1, <2>1, <2>2
<1> QED  BY <1>1, AgentInitGood, PTL DEF AgentSpec

(* An application is sent twice only by two runs that listed it at once:     *)
(* rediscovery, crashes and unverified results never lead to a second click. *)
THEOREM SentOnce == AgentSpec => []SentOncePerPosting
BY AgentInvariance, PTL DEF AgentInv

(* No step makes a posting applicable again.                                 *)
LEMMA BegunIsKept ==
  ASSUME AgentInv, [AgentNext]_agentVars, NEW p \in Postings, Begun(p)
  PROVE  Begun(p)'
<1>1. CASE UNCHANGED application
  BY <1>1 DEF Begun
<1>2. ASSUME NEW a \in AgentRuns, NEW q \in Postings, DiscoverPosting(a, q) PROVE Begun(p)'
  BY <1>2 DEF DiscoverPosting, Upserted, JudgedPosting, AgentInv, AgentTypes, Begun, BegunStatuses
<1>3. ASSUME NEW a \in AgentRuns, BeginApplying(a) PROVE Begun(p)'
  <2>1. PICK q \in agent[a].list : Transition(a, q, "applying", "none") \/ Transition(a, q, "failed", "none")
    BY <1>3 DEF BeginApplying
  <2>2. q \in Postings /\ AgentTypes /\ "none" \in Verdicts /\ {"applying", "failed"} \subseteq BegunStatuses
    BY DEF AgentInv, AgentTypes, Verdicts, BegunStatuses
  <2> QED  BY <2>1, <2>2, TransitionGood
<1>4. ASSUME NEW a \in AgentRuns, RecordResult(a) PROVE Begun(p)'
  <2>1. agent[a].at \in Postings /\ agent[a].verdict \in Verdicts /\ AgentTypes
    BY <1>4 DEF AgentInv, AgentTypes, ApplicationsAreOrdered, RecordResult, OnPosting
  <2>2. PICK status \in BegunStatuses, reason \in Verdicts : Transition(a, agent[a].at, status, reason)
    BY <1>4, <2>1 DEF RecordResult, BegunStatuses, Verdicts
  <2> QED  BY <2>1, <2>2, TransitionGood
<1> QED
  BY <1>1, <1>2, <1>3, <1>4 DEF AgentNext, agentVars, StartRun, ListQualified, InspectPage, ClickSubmit,
                                ReadConfirmation, EndRun

\* docs/JOB_AGENT.md:24, "Submitted and failed rows are not returned to the apply
\* queue", nor is any other row an application was begun for.
BegunStaysBegun == [][\A p \in Postings : Begun(p) => Begun(p)']_agentVars

(* However often a posting is found again and whatever run dies over it: its *)
(* row never again says that it may be applied to.                           *)
THEOREM NotRetried == AgentSpec => BegunStaysBegun
<1>1. AgentInv /\ [AgentNext]_agentVars => [\A p \in Postings : Begun(p) => Begun(p)']_agentVars
  BY BegunIsKept
<1> QED  BY <1>1, AgentInvariance, PTL DEF AgentSpec, BegunStaysBegun

\* docs/JOB_AGENT.md:21, "A job is submitted only after a visible confirmation is
\* observed": a row that says "submitted" was clicked through, not in a dry run.
SubmittedWasSent == \A p \in Postings : application[p].status = "submitted" => clicks[p] > 0
ConfirmedWasSent ==
  \A a \in AgentRuns :
    (agent[a].pc = "confirm" \/ (agent[a].pc = "record" /\ agent[a].verdict = "submitted")) => clicks[agent[a].at] > 0

(* A verdict on a page is none on its confirmation.                          *)
LEMMA InspectedIsUnsent == ASSUME NEW p PROVE Inspected(p) # "submitted"
BY DEF Inspected, PageReason, StopReason

LEMMA SubmittedStep ==
  ASSUME AgentInv, SubmittedWasSent, ConfirmedWasSent, [AgentNext]_agentVars
  PROVE  SubmittedWasSent' /\ ConfirmedWasSent'
<1> USE DEF SubmittedWasSent, ConfirmedWasSent
<1>1. CASE UNCHANGED agentVars
  BY <1>1 DEF agentVars
<1>2. ASSUME NEW a \in AgentRuns,
             EndRun(a) \/ ListQualified(a) \/ (\E mode \in Modes : StartRun(a, mode))
      PROVE  SubmittedWasSent' /\ ConfirmedWasSent'
  <2>1. agent' = [agent EXCEPT ![a] = agent'[a]] /\ agent'[a].pc \in {"none", "next", "discover"}
        /\ UNCHANGED <<application, clicks>>
    <3>1. CASE EndRun(a)
      BY <3>1 DEF EndRun, NotApplying, AgentInv, AgentTypes
    <3>2. CASE ListQualified(a)
      BY <3>2 DEF ListQualified, AgentInv, AgentTypes
    <3>3. CASE \E mode \in Modes : StartRun(a, mode)
      BY <3>3 DEF StartRun, NotApplying, AgentInv, AgentTypes
    <3> QED  BY <1>2, <3>1, <3>2, <3>3
  <2> QED  BY <2>1 DEF AgentInv, AgentTypes
<1>3. ASSUME NEW a \in AgentRuns, NEW p \in Postings, DiscoverPosting(a, p)
      PROVE  SubmittedWasSent' /\ ConfirmedWasSent'
  BY <1>3 DEF DiscoverPosting, Upserted, JudgedPosting, AgentInv, AgentTypes
<1>4. ASSUME NEW a \in AgentRuns, ClickSubmit(a) PROVE SubmittedWasSent' /\ ConfirmedWasSent'
  <2>1. agent[a].at \in Postings /\ clicks \in [Postings -> Nat]
    BY <1>4 DEF ClickSubmit, AgentInv, AgentTypes, ApplicationsAreOrdered, OnPosting
  <2>2. /\ clicks' = [clicks EXCEPT ![agent[a].at] = clicks[agent[a].at] + 1] /\ application' = application
        /\ agent' = [agent EXCEPT ![a] = agent'[a]] /\ agent'[a].at = agent[a].at
    BY <1>4 DEF ClickSubmit, AgentInv, AgentTypes
  <2>3. clicks'[agent[a].at] > 0 /\ \A p \in Postings : clicks[p] > 0 => clicks'[p] > 0
    BY <2>1, <2>2
  <2>4. \A b \in AgentRuns : agent[b].pc \in {"confirm", "record"} => agent[b].at \in Postings
    BY DEF AgentInv, AgentTypes, ApplicationsAreOrdered, OnPosting
  <2> QED  BY <2>2, <2>3, <2>4 DEF AgentInv, AgentTypes
<1>5. ASSUME NEW a \in AgentRuns, InspectPage(a) PROVE SubmittedWasSent' /\ ConfirmedWasSent'
  <2>1. PICK verdict \in {Inspected(agent[a].at), "resume_unavailable", "timeout", "failed"} :
          agent' = [agent EXCEPT ![a].pc = IF verdict = "ready" /\ agent[a].mode = "submit" THEN "click" ELSE "record",
                                 ![a].verdict = verdict]
    BY <1>5 DEF InspectPage
  <2>2. verdict # "submitted"
    BY InspectedIsUnsent
  <2>3. agent' = [agent EXCEPT ![a] = agent'[a]] /\ agent'[a].pc \in {"click", "record"}
        /\ agent'[a].verdict # "submitted"
    BY <2>1, <2>2 DEF AgentInv, AgentTypes
  <2> QED  BY <1>5, <2>3 DEF InspectPage, AgentInv, AgentTypes
<1>6. ASSUME NEW a \in AgentRuns, ReadConfirmation(a) PROVE SubmittedWasSent' /\ ConfirmedWasSent'
  <2>1. agent' = [agent EXCEPT ![a] = agent'[a]] /\ agent'[a].at = agent[a].at /\ clicks[agent[a].at] > 0
        /\ UNCHANGED <<application, clicks>>
    BY <1>6 DEF ReadConfirmation, AgentInv, AgentTypes
  <2> QED  BY <2>1 DEF AgentInv, AgentTypes
<1>7. ASSUME NEW a \in AgentRuns, BeginApplying(a) PROVE SubmittedWasSent' /\ ConfirmedWasSent'
  <2>1. PICK p \in agent[a].list, status \in {"applying", "failed"} : Transition(a, p, status, "none")
    BY <1>7 DEF BeginApplying
  <2>2. \A q \in Postings : application'[q].status = "submitted" => application[q].status = "submitted"
    BY <2>1 DEF Transition, AgentInv, AgentTypes
  <2>3. agent' = [agent EXCEPT ![a] = agent'[a]] /\ agent'[a].pc \in {"browse", "next"} /\ clicks' = clicks
    BY <1>7 DEF BeginApplying, NextPosting, AgentInv, AgentTypes
  <2> QED  BY <2>2, <2>3 DEF AgentInv, AgentTypes
<1>8. ASSUME NEW a \in AgentRuns, RecordResult(a) PROVE SubmittedWasSent' /\ ConfirmedWasSent'
  <2> DEFINE at == agent[a].at
  <2>1. agent' = [agent EXCEPT ![a] = agent'[a]] /\ agent'[a].pc = "next" /\ clicks' = clicks
    BY <1>8 DEF RecordResult, NextPosting, AgentInv, AgentTypes
  <2>2. PICK status, reason : /\ Transition(a, at, status, reason)
                              /\ status = "submitted" => agent[a].verdict = "submitted"
    BY <1>8 DEF RecordResult
  <2>3. agent[a].verdict = "submitted" => clicks[at] > 0
    BY <1>8 DEF RecordResult
  <2>4. \A q \in Postings : application'[q].status = "submitted" => clicks[q] > 0
    BY <2>2, <2>3 DEF Transition, AgentInv, AgentTypes
  <2> QED  BY <2>1, <2>4 DEF AgentInv, AgentTypes
<1> QED  BY <1>1, <1>2, <1>3, <1>4, <1>5, <1>6, <1>7, <1>8 DEF AgentNext

(* Whatever runs overlap, run dry or die: the history says "submitted" only  *)
(* of applications that went out.                                            *)
THEOREM HistoryTellsTruth == AgentSpec => []SubmittedWasSent
<1>1. AgentInit => SubmittedWasSent /\ ConfirmedWasSent
  BY DEF AgentInit, SubmittedWasSent, ConfirmedWasSent, NotApplying
<1> QED  BY <1>1, SubmittedStep, AgentInvariance, PTL DEF AgentSpec

\* One application for each posting, and no posting on two lists.
NoOverlap == overlapped = {}
SentAtMostOnce == NoOverlap /\ \A p \in Postings : clicks[p] <= 1

(* Where one process applies at a time - the worker alone, without the CLI   *)
(* beside it - no posting is ever applied to twice.                          *)
THEOREM AloneSendsOnce ==
  ASSUME \A a, b \in AgentRuns : a = b
  PROVE  AgentSpec => []SentAtMostOnce
<1>1. AgentInit => NoOverlap
  BY DEF AgentInit, NoOverlap
<1>2. AgentInv /\ NoOverlap /\ [AgentNext]_agentVars => NoOverlap'
  <2> SUFFICES ASSUME AgentInv, overlapped = {}, [AgentNext]_agentVars PROVE overlapped' = {}
    BY DEF NoOverlap
  <2>1. ASSUME NEW a \in AgentRuns, ListQualified(a) PROVE overlapped' = {}
    <3>1. \A b \in AgentRuns : agent[b].list = {}
      BY <2>1 DEF ListQualified, AgentInv, ApplicationsAreOrdered
    <3> QED  BY <2>1, <3>1 DEF ListQualified
  <2> QED
    BY <2>1 DEF AgentNext, agentVars, StartRun, DiscoverPosting, BeginApplying, InspectPage, ClickSubmit,
                ReadConfirmation, RecordResult, EndRun
<1>3. AgentInv /\ NoOverlap => SentAtMostOnce
  BY DEF NoOverlap, AgentInv, AgentTypes, SentOncePerPosting, SentAtMostOnce
<1> QED  BY <1>1, <1>2, <1>3, AgentInvariance, PTL DEF AgentSpec
-------------------------------------------------------------------------------
(* The reviewed outbox.                                                      *)
Keys == Drafts \X DraftContents
ReceiptStatuses == {"none", "sending", "sent", "stopped_by_guard", "torn"}
Kinds == {"cold", "followup"}

BoxTypes ==
  /\ file \in [Drafts -> DraftContents \cup {NoDraft}]
  /\ shown \subseteq Keys
  /\ receipt \in [Keys -> [status : ReceiptStatuses, sent : Seq(STRING)]]
  /\ sending \in [pc : {"idle", "next", "noting"}, draft : Drafts \cup {"none"},
                  content : DraftContents \cup {NoDraft}, at : Nat]
  /\ sending.pc = "idle" => sending = NotSending
  /\ mail \in Seq([draft : Drafts, content : DraftContents, to : STRING, kind : Kinds])

\* A send() under way works on a draft that loads, was shown and has its receipt.
Underway ==
  sending.pc # "idle" =>
    /\ sending.draft \in Drafts /\ sending.content \in DraftContents /\ Loads(sending.content)
    /\ sending.at \in 1 .. Len(sending.content) + 1
    /\ sending.pc = "noting" => sending.at <= Len(sending.content)
    /\ MyReceipt \in shown
    /\ receipt[MyReceipt].status = "sending"

\* What left was shown, and has a receipt that bars another send().
Posted ==
  \A i \in DOMAIN mail : LET k == <<mail[i].draft, mail[i].content>> IN
    k \in shown /\ receipt[k].status # "none"

Once == \A i, j \in DOMAIN mail : mail[i] = mail[j] => i = j

\* The recipients of the first n emails of the content in hand.
FirstTo(n) == {sending.content[j].to : j \in 1 .. n}

\* What a send() has sent so far, and what its receipt names so far.
InStep ==
  sending.pc # "idle" =>
    /\ NamesIn(receipt[MyReceipt].sent) = FirstTo(sending.at - 1)
    /\ Delivered(MyReceipt) = FirstTo(IF sending.pc = "noting" THEN sending.at ELSE sending.at - 1)

\* A receipt nobody is writing.
Truthful(k) ==
  LET named == NamesIn(receipt[k].sent) IN
  /\ named \subseteq Delivered(k)
  /\ receipt[k].status # "torn" => \E to : Delivered(k) \ named \subseteq {to}
  /\ receipt[k].status = "sent" => Delivered(k) = {k[2][i].to : i \in DOMAIN k[2]}

Laid == \A k \in Keys : Truthful(k)

BoxInv == BoxTypes /\ Underway /\ Posted /\ Once /\ InStep /\ Laid

LEMMA BoxInitGood == OutboxInit => BoxInv
<1> SUFFICES ASSUME OutboxInit PROVE BoxInv
  OBVIOUS
<1>1. BoxTypes
  BY DEF OutboxInit, BoxTypes, NoReceipt, NotSending, NoDraft, Keys, ReceiptStatuses
<1>2. Underway /\ InStep /\ Posted /\ Once
  BY DEF OutboxInit, NotSending, Underway, InStep, Posted, Once
<1>3. ASSUME NEW k \in Keys PROVE Truthful(k)
  <2>1. receipt[k] = NoReceipt /\ mail = <<>>
    BY <1>3 DEF OutboxInit, Keys
  <2>2. NamesIn(receipt[k].sent) = {} /\ Delivered(k) = {} /\ receipt[k].status = "none"
    BY <2>1 DEF NamesIn, Delivered, NoReceipt
  <2> QED  BY <2>2 DEF Truthful
<1> QED  BY <1>1, <1>2, <1>3 DEF BoxInv, Laid

(* A draft is written, shown or edited, or the guard learns something.       *)
LEMMA BoxQuiet ==
  ASSUME BoxInv, UNCHANGED <<receipt, sending, mail>>, shown \subseteq shown', shown' \subseteq Keys,
         file' \in [Drafts -> DraftContents \cup {NoDraft}]
  PROVE  BoxInv'
<1> USE DEF BoxInv
<1>1. BoxTypes' /\ Once' /\ Posted'
  BY DEF BoxTypes, Once, Posted
<1>a. MyReceipt' = MyReceipt /\ (\A k : Delivered(k)' = Delivered(k)) /\ (\A n : FirstTo(n)' = FirstTo(n))
  BY DEF MyReceipt, Delivered, FirstTo
<1>2. Underway' /\ InStep'
  BY <1>a DEF Underway, InStep
<1>3. Laid'
  BY <1>a DEF Laid, Truthful
<1> QED  BY <1>1, <1>2, <1>3

\* The content in hand: rows with a recipient each, no recipient twice.
LEMMA HeldKey ==
  ASSUME BoxInv, sending.pc # "idle"
  PROVE  /\ MyReceipt \in Keys /\ sending.content \in Seq(OutRow)
         /\ sending.at \in Nat \ {0} /\ sending.at <= Len(sending.content) + 1
         /\ DOMAIN sending.content = 1 .. Len(sending.content)
         /\ \A i \in 1 .. Len(sending.content) : sending.content[i].to \in STRING /\ sending.content[i].kind \in Kinds
         /\ \A i, j \in 1 .. Len(sending.content) : sending.content[i].to = sending.content[j].to => i = j
<1>1. /\ sending.draft \in Drafts /\ sending.content \in DraftContents /\ sending.content \in Seq(OutRow)
      /\ Loads(sending.content) /\ sending.at \in 1 .. Len(sending.content) + 1
  BY OutboxAssumption DEF BoxInv, Underway
<1>2. DOMAIN sending.content = 1 .. Len(sending.content) /\ Len(sending.content) \in Nat
  BY <1>1
<1>3. \A i \in 1 .. Len(sending.content) : sending.content[i] \in OutRow
  BY <1>1
<1> QED  BY <1>1, <1>2, <1>3 DEF Loads, OutRow, Kinds, Keys, MyReceipt

\* What has left once the next email has.
LEMMA Leaves ==
  ASSUME BoxInv, sending.pc = "next", sending.at <= Len(sending.content), mail' = Append(mail, AsMail(NextRow))
  PROVE  /\ mail' \in Seq([draft : Drafts, content : DraftContents, to : STRING, kind : Kinds])
         /\ \A k : Delivered(k)' = IF k[1] = sending.draft /\ k[2] = sending.content
                                   THEN Delivered(k) \cup {NextRow.to} ELSE Delivered(k)
         /\ \A i \in DOMAIN mail' : \/ i \in DOMAIN mail /\ mail'[i] = mail[i]
                                    \/ mail'[i] = AsMail(NextRow)
         /\ Once'
<1>1. /\ sending.at \in 1 .. Len(sending.content) /\ NextRow.to \in STRING /\ NextRow.kind \in Kinds
      /\ sending.draft \in Drafts /\ sending.content \in DraftContents
  BY HeldKey DEF NextRow, BoxInv, Underway
<1>2. AsMail(NextRow) \in [draft : Drafts, content : DraftContents, to : STRING, kind : Kinds]
  BY <1>1 DEF AsMail
<1>3. mail \in Seq([draft : Drafts, content : DraftContents, to : STRING, kind : Kinds])
  BY DEF BoxInv, BoxTypes
<1>4. /\ DOMAIN mail = 1 .. Len(mail) /\ DOMAIN mail' = 1 .. Len(mail) + 1 /\ Len(mail) \in Nat
      /\ \A i \in 1 .. Len(mail) : mail'[i] = mail[i]
      /\ mail'[Len(mail) + 1] = AsMail(NextRow)
  BY <1>2, <1>3
<1>5. \A k : Delivered(k)' = IF k[1] = sending.draft /\ k[2] = sending.content
                             THEN Delivered(k) \cup {NextRow.to} ELSE Delivered(k)
  <2> TAKE k
  <2>1. Delivered(k)' = {mail'[i].to : i \in {j \in 1 .. Len(mail) + 1 : mail'[j].draft = k[1] /\ mail'[j].content = k[2]}}
    BY <1>4 DEF Delivered
  <2>2. Delivered(k) = {mail[i].to : i \in {j \in 1 .. Len(mail) : mail[j].draft = k[1] /\ mail[j].content = k[2]}}
    BY <1>4 DEF Delivered
  <2>3. AsMail(NextRow).draft = sending.draft /\ AsMail(NextRow).content = sending.content /\ AsMail(NextRow).to = NextRow.to
    BY DEF AsMail
  <2>4. 1 .. Len(mail) + 1 = 1 .. Len(mail) \cup {Len(mail) + 1} /\ Len(mail) + 1 \notin 1 .. Len(mail)
    BY <1>4
  <2> QED  BY <1>4, <2>1, <2>2, <2>3, <2>4
<1>6. \A i \in DOMAIN mail' : (i \in DOMAIN mail /\ mail'[i] = mail[i]) \/ mail'[i] = AsMail(NextRow)
  BY <1>4
<1>7. \A i \in DOMAIN mail : mail[i] # AsMail(NextRow)
  <2> SUFFICES ASSUME NEW i \in DOMAIN mail, mail[i] = AsMail(NextRow) PROVE FALSE
    OBVIOUS
  <2>1. mail[i].draft = MyReceipt[1] /\ mail[i].content = MyReceipt[2] /\ mail[i].to = sending.content[sending.at].to
    BY DEF AsMail, NextRow, MyReceipt
  <2>2. sending.content[sending.at].to \in Delivered(MyReceipt)
    BY <2>1 DEF Delivered
  <2>3. Delivered(MyReceipt) = FirstTo(sending.at - 1)
    BY DEF BoxInv, InStep
  <2>4. PICK j \in 1 .. sending.at - 1 : sending.content[j].to = sending.content[sending.at].to
    BY <2>2, <2>3 DEF FirstTo
  <2>5. j \in 1 .. Len(sending.content) /\ j # sending.at
    BY <1>1, HeldKey
  <2> QED  BY <1>1, <2>4, <2>5, HeldKey
<1>8. Once'
  BY <1>4, <1>7 DEF Once, BoxInv
<1> QED  BY <1>2, <1>3, <1>5, <1>6, <1>8

\* A receipt can be told to be true by what is delivered and what it names.
LEMMA StillTruthful ==
  ASSUME NEW k, Truthful(k), receipt'[k] = receipt[k], Delivered(k)' = Delivered(k)
  PROVE  Truthful(k)'
BY DEF Truthful

LEMMA SendStartsGood ==
  ASSUME BoxInv, NEW d \in Drafts, SendStart(d)
  PROVE  BoxInv'
<1>0. PICK k : k = <<d, file[d]>>
  OBVIOUS
<1>1. file[d] \in DraftContents /\ Loads(file[d]) /\ k \in Keys /\ k \in shown
  BY <1>0 DEF SendStart, Loads, BoxInv, BoxTypes, NoDraft, Keys, Confirms
<1>2. receipt[k].status = "none"
  BY <1>0 DEF SendStart, AttemptedBefore, NoReceipt
<1>3. /\ receipt' = [receipt EXCEPT ![k] = [status |-> "sending", sent |-> <<>>]]
      /\ sending' = [pc |-> "next", draft |-> d, content |-> file[d], at |-> 1]
      /\ UNCHANGED <<file, shown, mail>>
  BY <1>0 DEF SendStart
<1>4. receipt'[k] = [status |-> "sending", sent |-> <<>>] /\ \A q \in Keys : q # k => receipt'[q] = receipt[q]
  BY <1>1, <1>3 DEF BoxInv, BoxTypes
<1>5. BoxTypes'
  BY <1>0, <1>1, <1>3 DEF BoxInv, BoxTypes, ReceiptStatuses
<1>6. \A q : Delivered(q)' = Delivered(q)
  BY <1>3 DEF Delivered
<1>7. Delivered(k) = {}
  <2> SUFFICES ASSUME NEW i \in DOMAIN mail, mail[i].draft = k[1], mail[i].content = k[2] PROVE FALSE
    BY DEF Delivered
  <2>1. <<mail[i].draft, mail[i].content>> = k
    BY <1>0
  <2> QED  BY <1>2, <2>1 DEF BoxInv, Posted
<1>8. MyReceipt' = k
  BY <1>0, <1>3 DEF MyReceipt
<1>9. Underway'
  <2>1. Len(file[d]) \in Nat /\ Len(file[d]) > 0
    BY <1>1, OutboxAssumption DEF Loads
  <2> QED  BY <1>1, <1>3, <1>4, <1>8, <2>1 DEF Underway, Loads
<1>10. NamesIn(receipt'[k].sent) = {}
  BY <1>4 DEF NamesIn
<1>11. InStep'
  <2>1. \A n : FirstTo(n)' = {file[d][j].to : j \in 1 .. n}
    BY <1>3 DEF FirstTo
  <2>2. FirstTo(0)' = {}
    BY <2>1
  <2>3. sending'.at - 1 = 0 /\ sending'.pc = "next"
    BY <1>3
  <2> QED  BY <1>6, <1>7, <1>8, <1>10, <2>2, <2>3 DEF InStep
<1>12. Posted' /\ Once'
  BY <1>1, <1>3, <1>4 DEF BoxInv, BoxTypes, Posted, Once
<1>13. Laid'
  <2>1. Truthful(k)'
    BY <1>4, <1>6, <1>7, <1>10 DEF Truthful
  <2> QED  BY <1>4, <1>6, <2>1, StillTruthful DEF BoxInv, Laid
<1> QED  BY <1>5, <1>9, <1>11, <1>12, <1>13 DEF BoxInv

(* A send() ends, however: the receipt is left as it is or marked.           *)
LEMMA LetsGo ==
  ASSUME BoxInv, sending.pc # "idle", sending' = NotSending, UNCHANGED <<file, shown, mail>>,
         NEW k \in Keys, k = MyReceipt, NEW status \in ReceiptStatuses \ {"none"}, NEW names \in Seq(STRING),
         receipt' = [receipt EXCEPT ![k] = [status |-> status, sent |-> names]],
         Truthful(k)'
  PROVE  BoxInv'
<1>1. receipt'[k].status = status /\ \A q \in Keys : q # k => receipt'[q] = receipt[q]
  BY DEF BoxInv, BoxTypes
<1>2. BoxTypes'
  BY DEF BoxInv, BoxTypes, NotSending, NoDraft
<1>3. Underway' /\ InStep'
  BY DEF NotSending, Underway, InStep
<1>4. Posted' /\ Once'
  <2>1. \A i \in DOMAIN mail : <<mail[i].draft, mail[i].content>> \in Keys
    BY DEF BoxInv, BoxTypes, Posted
  <2> QED  BY <1>1, <2>1 DEF BoxInv, Posted, Once
<1>5. Laid'
  <2>1. \A q : Delivered(q)' = Delivered(q)
    BY DEF Delivered
  <2> QED  BY <1>1, <2>1, StillTruthful DEF BoxInv, Laid
<1> QED  BY <1>2, <1>3, <1>4, <1>5 DEF BoxInv

LEMMA OneMore ==
  ASSUME BoxInv, sending.pc # "idle"
  PROVE  FirstTo(sending.at) = FirstTo(sending.at - 1) \cup {sending.content[sending.at].to}
<1>1. 1 .. sending.at = 1 .. sending.at - 1 \cup {sending.at}
  BY HeldKey
<1> QED  BY <1>1 DEF FirstTo

\* An email has left and the receipt does not yet name it.
LEMMA LeftTruthful ==
  ASSUME BoxInv, sending.pc = "next", sending.at <= Len(sending.content), mail' = Append(mail, AsMail(NextRow)),
         UNCHANGED receipt
  PROVE  Laid'
<1> SUFFICES ASSUME NEW k \in Keys PROVE Truthful(k)'
  BY DEF Laid
<1>1. Delivered(k)' = IF k[1] = sending.draft /\ k[2] = sending.content
                      THEN Delivered(k) \cup {NextRow.to} ELSE Delivered(k)
  BY Leaves
<1>2. Truthful(k)
  BY DEF BoxInv, Laid
<1>3. CASE k = MyReceipt
  <2>1. Delivered(k)' = Delivered(k) \cup {NextRow.to}
    BY <1>1, <1>3 DEF MyReceipt
  <2>2. NamesIn(receipt[k].sent) = Delivered(k) /\ receipt[k].status = "sending"
    BY <1>3 DEF BoxInv, InStep, Underway
  <2> QED  BY <2>1, <2>2 DEF Truthful
<1>4. CASE k # MyReceipt
  <2>1. k = <<k[1], k[2]>>
    BY DEF Keys
  <2>2. Delivered(k)' = Delivered(k)
    BY <1>1, <1>4, <2>1 DEF MyReceipt
  <2> QED  BY <1>2, <2>2, StillTruthful
<1> QED  BY <1>3, <1>4

LEMMA LeftPosted ==
  ASSUME BoxInv, sending.pc = "next", sending.at <= Len(sending.content), mail' = Append(mail, AsMail(NextRow)),
         UNCHANGED <<receipt, shown>>
  PROVE  Posted'
<1>1. MyReceipt \in shown /\ receipt[MyReceipt].status # "none"
  BY DEF BoxInv, Underway
<1>2. \A i \in DOMAIN mail' : (i \in DOMAIN mail /\ mail'[i] = mail[i]) \/ mail'[i] = AsMail(NextRow)
  BY Leaves
<1>3. AsMail(NextRow).draft = MyReceipt[1] /\ AsMail(NextRow).content = MyReceipt[2]
      /\ MyReceipt = <<MyReceipt[1], MyReceipt[2]>>
  BY DEF AsMail, MyReceipt
<1> QED  BY <1>1, <1>2, <1>3 DEF BoxInv, Posted

LEMMA SmtpTakesGood ==
  ASSUME BoxInv, SendOne
  PROVE  BoxInv'
<1>1. /\ sending.pc = "next" /\ sending.at <= Len(sending.content) /\ mail' = Append(mail, AsMail(NextRow))
      /\ sending' = [sending EXCEPT !.pc = "noting"] /\ UNCHANGED <<file, shown, receipt>>
  BY DEF SendOne
<1>2. /\ sending'.pc = "noting" /\ sending'.draft = sending.draft /\ sending'.content = sending.content
      /\ sending'.at = sending.at
  BY <1>1 DEF BoxInv, BoxTypes
<1>3. MyReceipt' = MyReceipt /\ \A n : FirstTo(n)' = FirstTo(n)
  BY <1>2 DEF MyReceipt, FirstTo
<1>4. BoxTypes' /\ Once'
  BY <1>1, Leaves DEF BoxInv, BoxTypes
<1>5. Underway'
  BY <1>1, <1>2, <1>3 DEF BoxInv, Underway
<1>6. Posted' /\ Laid'
  BY <1>1, LeftPosted, LeftTruthful
<1>7. InStep'
  <2>1. PICK k : k = MyReceipt
    OBVIOUS
  <2>2. Delivered(k)' = Delivered(k) \cup {NextRow.to}
    BY <1>1, <2>1, Leaves DEF MyReceipt
  <2>3. NamesIn(receipt[k].sent) = FirstTo(sending.at - 1) /\ Delivered(k) = FirstTo(sending.at - 1)
    BY <1>1, <2>1 DEF BoxInv, InStep
  <2>4. Delivered(k)' = FirstTo(sending.at)
    BY <1>1, <2>2, <2>3, OneMore DEF NextRow
  <2> QED  BY <1>1, <1>2, <1>3, <2>1, <2>3, <2>4 DEF InStep
<1> QED  BY <1>4, <1>5, <1>6, <1>7 DEF BoxInv

LEMMA SmtpFailsGood ==
  ASSUME BoxInv, SmtpFails
  PROVE  BoxInv'
<1>1. /\ sending.pc = "next" /\ sending.at <= Len(sending.content) /\ mail' \in {mail, Append(mail, AsMail(NextRow))}
      /\ sending' = NotSending /\ UNCHANGED <<file, shown, receipt>>
  BY DEF SmtpFails
<1>2. Underway' /\ InStep'
  BY <1>1 DEF NotSending, Underway, InStep
<1>3. sending' \in [pc : {"idle", "next", "noting"}, draft : Drafts \cup {"none"},
                    content : DraftContents \cup {NoDraft}, at : Nat]
  BY <1>1 DEF NotSending, NoDraft
<1>4. CASE mail' = mail
  <2>1. \A q : Delivered(q)' = Delivered(q)
    BY <1>4 DEF Delivered
  <2>2. Laid'
    BY <1>1, <2>1, StillTruthful DEF BoxInv, Laid
  <2> QED  BY <1>1, <1>2, <1>3, <1>4, <2>2 DEF BoxInv, BoxTypes, Posted, Once
<1>5. CASE mail' = Append(mail, AsMail(NextRow))
  BY <1>1, <1>2, <1>3, <1>5, Leaves, LeftPosted, LeftTruthful DEF BoxInv, BoxTypes
<1> QED  BY <1>1, <1>4, <1>5

LEMMA NoteSentGood ==
  ASSUME BoxInv, NoteSent
  PROVE  BoxInv'
<1>0. PICK k : k = MyReceipt
  OBVIOUS
<1>1. /\ sending.pc = "noting" /\ sending.at <= Len(sending.content) /\ UNCHANGED <<file, shown, mail>>
      /\ k \in Keys /\ receipt' = [receipt EXCEPT ![k].sent = NotedSent]
      /\ sending' = [sending EXCEPT !.pc = "next", !.at = @ + 1]
  BY <1>0, HeldKey DEF NoteSent, BoxInv, Underway
<1>2. /\ sending'.pc = "next" /\ sending'.draft = sending.draft /\ sending'.content = sending.content
      /\ sending'.at = sending.at + 1
  BY <1>1 DEF BoxInv, BoxTypes
<1>3. MyReceipt' = MyReceipt /\ (\A n : FirstTo(n)' = FirstTo(n)) /\ \A q : Delivered(q)' = Delivered(q)
  BY <1>1, <1>2 DEF MyReceipt, FirstTo, Delivered
<1>4. NotedSent \in Seq(STRING) /\ NamesIn(NotedSent) = FirstTo(sending.at)
  <2>1. sending.at \in Nat /\ \A i \in 1 .. sending.at : sending.content[i].to \in STRING
    BY <1>1, HeldKey
  <2>2. NotedSent \in [1 .. sending.at -> STRING]
    BY <2>1 DEF NotedSent
  <2>3. NotedSent \in Seq(STRING)
    BY <2>1, <2>2
  <2>4. NamesIn(NotedSent) = FirstTo(sending.at)
    BY DEF NotedSent, NamesIn, FirstTo
  <2> QED  BY <2>3, <2>4
<1>5. /\ receipt'[k].sent = NotedSent /\ receipt'[k].status = receipt[k].status
      /\ \A q \in Keys : q # k => receipt'[q] = receipt[q]
  BY <1>1 DEF BoxInv, BoxTypes
<1>6. receipt' \in [Keys -> [status : ReceiptStatuses, sent : Seq(STRING)]]
  <2>1. receipt[k] \in [status : ReceiptStatuses, sent : Seq(STRING)]
    BY <1>1 DEF BoxInv, BoxTypes
  <2>2. [receipt[k] EXCEPT !.sent = NotedSent] \in [status : ReceiptStatuses, sent : Seq(STRING)]
    BY <1>4, <2>1
  <2> QED  BY <1>1, <2>2 DEF BoxInv, BoxTypes
<1>7. BoxTypes' /\ Once'
  <2>1. sending' \in [pc : {"idle", "next", "noting"}, draft : Drafts \cup {"none"},
                      content : DraftContents \cup {NoDraft}, at : Nat]
    <3>1. sending.draft \in Drafts \cup {"none"} /\ sending.content \in DraftContents \cup {NoDraft} /\ sending.at \in Nat
      BY DEF BoxInv, BoxTypes
    <3>2. sending' = [pc |-> "next", draft |-> sending.draft, content |-> sending.content, at |-> sending.at + 1]
      BY <1>1 DEF BoxInv, BoxTypes
    <3> QED  BY <3>1, <3>2
  <2> QED  BY <1>1, <1>2, <1>6, <2>1 DEF BoxInv, BoxTypes, Once
<1>8. Underway'
  BY <1>0, <1>1, <1>2, <1>3, <1>5, HeldKey DEF BoxInv, Underway
<1>9. Posted'
  <2>1. \A i \in DOMAIN mail : <<mail[i].draft, mail[i].content>> \in Keys
    BY DEF BoxInv, BoxTypes, Posted
  <2> QED  BY <1>1, <1>5, <2>1 DEF BoxInv, Posted
<1>10. Delivered(k) = FirstTo(sending.at) /\ receipt[k].status = "sending"
  BY <1>0, <1>1 DEF BoxInv, InStep, Underway
<1>11. InStep'
  <2>1. sending'.at - 1 = sending.at /\ MyReceipt' = k
    BY <1>0, <1>1, <1>2, <1>3, HeldKey
  <2>2. NamesIn(receipt'[k].sent) = FirstTo(sending.at) /\ Delivered(k)' = FirstTo(sending.at)
    BY <1>3, <1>4, <1>5, <1>10
  <2>3. FirstTo(sending.at - 1)' = FirstTo(sending.at)
    BY <1>2, <2>1 DEF FirstTo
  <2>4. NamesIn(receipt[MyReceipt].sent)' = NamesIn(receipt'[k].sent) /\ Delivered(MyReceipt)' = Delivered(k)'
    BY <2>1 DEF NamesIn, Delivered
  <2> QED  BY <1>2, <2>2, <2>3, <2>4 DEF InStep
<1>12. Laid'
  <2>1. Truthful(k)'
    BY <1>3, <1>4, <1>5, <1>10 DEF Truthful
  <2> QED  BY <1>3, <1>5, <2>1, StillTruthful DEF BoxInv, Laid
<1> QED  BY <1>7, <1>8, <1>9, <1>11, <1>12 DEF BoxInv

\* What a send() leaves behind that ends before, or dies behind, an email.
LEMMA HeldTruth ==
  ASSUME BoxInv, sending.pc # "idle", NEW k, k = MyReceipt
  PROVE  /\ NamesIn(receipt[k].sent) \subseteq Delivered(k)
         /\ \E to : Delivered(k) \ NamesIn(receipt[k].sent) \subseteq {to}
         /\ sending.pc = "next" => NamesIn(receipt[k].sent) = Delivered(k)
<1>1. NamesIn(receipt[k].sent) = FirstTo(sending.at - 1)
  BY DEF BoxInv, InStep
<1>2. CASE sending.pc = "next"
  BY <1>1, <1>2 DEF BoxInv, InStep
<1>3. CASE sending.pc = "noting"
  BY <1>1, <1>3, OneMore DEF BoxInv, InStep
<1> QED  BY <1>2, <1>3 DEF BoxInv, BoxTypes

LEMMA SendEndsGood ==
  ASSUME BoxInv, SendEnds \/ OutboxCrash \/ \E db \in BOOLEAN : StoppedByGuard(db)
  PROVE  BoxInv'
<1>0. PICK k : k = MyReceipt
  OBVIOUS
<1>1. sending.pc # "idle" /\ sending' = NotSending /\ UNCHANGED <<file, shown, mail>>
  <2>1. CASE OutboxCrash
    <3>1. sending # NotSending
      BY <2>1 DEF OutboxCrash
    <3> QED  BY <2>1, <3>1 DEF OutboxCrash, BoxInv, BoxTypes
  <2> QED  BY <2>1 DEF SendEnds, StoppedByGuard
<1>2. k \in Keys /\ receipt[k] \in [status : ReceiptStatuses, sent : Seq(STRING)] /\ receipt[k].status = "sending"
  BY <1>0, <1>1, HeldKey DEF BoxInv, BoxTypes, Underway
<1>3. \A q : Delivered(q)' = Delivered(q)
  BY <1>1 DEF Delivered
<1>4. ASSUME NEW status \in {"sent", "stopped_by_guard", "sending"},
             receipt' = [receipt EXCEPT ![k] = [status |-> status, sent |-> receipt[k].sent]],
             status = "sent" => Delivered(k) = {k[2][i].to : i \in DOMAIN k[2]}
      PROVE  BoxInv'
  <2>1. receipt'[k].status = status /\ receipt'[k].sent = receipt[k].sent
    BY <1>2, <1>4 DEF BoxInv, BoxTypes
  <2>2. Truthful(k)'
    BY <1>0, <1>1, <1>3, <1>4, <2>1, HeldTruth DEF Truthful
  <2>3. status \in ReceiptStatuses \ {"none"} /\ receipt[k].sent \in Seq(STRING)
    BY <1>2 DEF ReceiptStatuses
  <2> QED  BY <1>0, <1>1, <1>2, <1>4, <2>2, <2>3, LetsGo
<1>5. CASE SendEnds
  <2>1. sending.at = Len(sending.content) + 1 /\ sending.pc = "next"
    BY <1>1, <1>5, HeldKey DEF SendEnds
  <2>2. Delivered(k) = {k[2][i].to : i \in DOMAIN k[2]}
    <3>1. Delivered(k) = FirstTo(sending.at - 1)
      BY <1>0, <2>1 DEF BoxInv, InStep
    <3>2. sending.at - 1 = Len(sending.content) /\ DOMAIN k[2] = 1 .. Len(sending.content) /\ k[2] = sending.content
      BY <1>0, <1>1, <2>1, HeldKey DEF MyReceipt
    <3> QED  BY <3>1, <3>2 DEF FirstTo
  <2>3. receipt' = [receipt EXCEPT ![k].status = "sent"]
    BY <1>0, <1>5 DEF SendEnds
  <2>4. receipt' = [receipt EXCEPT ![k] = [status |-> "sent", sent |-> receipt[k].sent]]
    <3>1. [receipt[k] EXCEPT !.status = "sent"] = [status |-> "sent", sent |-> receipt[k].sent]
      BY <1>2
    <3> QED  BY <2>3, <3>1
  <2> QED  BY <1>4, <2>2, <2>4
<1>6. CASE \E db \in BOOLEAN : StoppedByGuard(db)
  <2>1. receipt' = [receipt EXCEPT ![k].status = "stopped_by_guard"]
    BY <1>0, <1>6 DEF StoppedByGuard
  <2>2. receipt' = [receipt EXCEPT ![k] = [status |-> "stopped_by_guard", sent |-> receipt[k].sent]]
    <3>1. [receipt[k] EXCEPT !.status = "stopped_by_guard"]
            = [status |-> "stopped_by_guard", sent |-> receipt[k].sent]
      BY <1>2
    <3> QED  BY <2>1, <3>1
  <2> QED  BY <1>4, <2>2
<1>7. CASE OutboxCrash
  <2>1. CASE receipt' = receipt
    <3>1. receipt' = [receipt EXCEPT ![k] = [status |-> "sending", sent |-> receipt[k].sent]]
      BY <1>2, <2>1 DEF BoxInv, BoxTypes
    <3> QED  BY <1>4, <3>1
  <2>2. CASE receipt' = [receipt EXCEPT ![k].status = "torn", ![k].sent = <<>>]
    <3>1. receipt' = [receipt EXCEPT ![k] = [status |-> "torn", sent |-> <<>>]]
      <4>2. receipt \in [Keys -> [status : ReceiptStatuses, sent : Seq(STRING)]]
        BY DEF BoxInv, BoxTypes
      <4>3. \A q \in Keys : receipt'[q] = IF q = k THEN [status |-> "torn", sent |-> <<>>] ELSE receipt[q]
        <5> DEFINE marked == [receipt EXCEPT ![k].status = "torn"]
        <5>1. \A q \in Keys : marked[q] = IF q = k THEN [status |-> "torn", sent |-> receipt[k].sent] ELSE receipt[q]
          <6>1. [receipt[k] EXCEPT !.status = "torn"] = [status |-> "torn", sent |-> receipt[k].sent]
            BY <1>2
          <6> QED  BY <1>2, <4>2, <6>1
        <5>2. receipt' = [marked EXCEPT ![k].sent = <<>>] /\ DOMAIN marked = Keys
          BY <2>2, <4>2
        <5> HIDE DEF marked
        <5>3. [marked[k] EXCEPT !.sent = <<>>] = [status |-> "torn", sent |-> <<>>]
          BY <1>2, <5>1
        <5> QED  BY <1>2, <5>1, <5>2, <5>3
      <4>4. receipt' = [q \in Keys |-> receipt'[q]]
        BY <2>2, <4>2
      <4> QED  BY <4>2, <4>3, <4>4
    <3>2. receipt'[k] = [status |-> "torn", sent |-> <<>>]
      BY <1>2, <3>1 DEF BoxInv, BoxTypes
    <3>3. NamesIn(receipt'[k].sent) = {}
      BY <3>2 DEF NamesIn
    <3>4. Truthful(k)'
      BY <3>2, <3>3 DEF Truthful
    <3>5. "torn" \in ReceiptStatuses \ {"none"} /\ <<>> \in Seq(STRING)
      BY DEF ReceiptStatuses
    <3> QED  BY <1>0, <1>1, <1>2, <3>1, <3>4, <3>5, LetsGo
  <2> QED  BY <1>0, <1>7, <2>1, <2>2 DEF OutboxCrash
<1> QED  BY <1>5, <1>6, <1>7

LEMMA BoxInvariance == OutboxSpec => []BoxInv
<1>1. BoxInv /\ [OutboxNext]_outboxVars => BoxInv'
  <2> SUFFICES ASSUME BoxInv, [OutboxNext]_outboxVars PROVE BoxInv'
    OBVIOUS
  <2>1. file \in [Drafts -> DraftContents \cup {NoDraft}] /\ shown \subseteq Keys
    BY DEF BoxInv, BoxTypes
  <2>2. ASSUME NEW d \in Drafts, NEW content \in DraftContents, CreateDraft(d, content) \/ EditDraft(d, content)
        PROVE  BoxInv'
    BY <2>1, <2>2, BoxQuiet DEF CreateDraft, EditDraft, Keys
  <2>3. ASSUME NEW d \in Drafts, PreviewDraft(d) PROVE BoxInv'
    <3>1. file[d] \in DraftContents
      BY <2>1, <2>3 DEF PreviewDraft, Loads, NoDraft
    <3> QED  BY <2>1, <2>3, <3>1, BoxQuiet DEF PreviewDraft, Keys
  <2>4. CASE \/ \E content \in DraftContents : \E i \in DOMAIN content : GuardLearns(content[i].to, content[i].kind)
             \/ ImportReceipts \/ UNCHANGED outboxVars
    BY <2>1, <2>4, BoxQuiet DEF GuardLearns, ImportReceipts, outboxVars
  <2> QED  BY <2>2, <2>3, <2>4, SendStartsGood, SmtpTakesGood, NoteSentGood, SmtpFailsGood, SendEndsGood DEF OutboxNext
<1> QED  BY <1>1, BoxInitGood, PTL DEF OutboxSpec

\* send() of email_outbox.py: whatever is edited, confirmed again or dies, each
\* email of a draft leaves at most once, with the content the owner was shown.
THEOREM ShownOnce == OutboxSpec => []SentOnceAsShown
<1>1. BoxInv => SentOnceAsShown
  BY DEF BoxInv, Posted, Once, SentOnceAsShown
<1> QED  BY <1>1, BoxInvariance, PTL

\* A receipt names nobody whose email stayed, and misses one at most.
THEOREM ReceiptsAreTrue == OutboxSpec => []ReceiptTellsTruth
<1>1. BoxInv => ReceiptTellsTruth
  <2> SUFFICES ASSUME BoxInv, NEW k \in Keys
               PROVE  LET named == NamesIn(receipt[k].sent) IN
                        /\ named \subseteq Delivered(k)
                        /\ receipt[k].status # "torn" => Cardinality(Delivered(k) \ named) <= 1
                        /\ receipt[k].status = "sent" => Delivered(k) = {k[2][i].to : i \in DOMAIN k[2]}
    BY DEF ReceiptTellsTruth, Keys
  <2>1. Truthful(k)
    BY DEF BoxInv, Laid
  <2>2. ASSUME NEW S, NEW to, S \subseteq {to} PROVE Cardinality(S) <= 1
    <3>1. IsFiniteSet({to}) /\ Cardinality({to}) = 1
      BY FS_Singleton
    <3>2. Cardinality(S) <= Cardinality({to})
      BY <2>2, <3>1, FS_Subset
    <3> QED  BY <3>1, <3>2
  <2> QED  BY <2>1, <2>2 DEF Truthful
<1> QED  BY <1>1, BoxInvariance, PTL

-------------------------------------------------------------------------------
(* The Gmail reader. First of all, numbers.                                  *)

\* A set of numbers has a least one.
LEMMA LeastNatural ==
  ASSUME NEW S \in SUBSET Nat, S # {}
  PROVE  \E x \in S : \A y \in S : x <= y
<1> DEFINE R == {ss \in Nat \X Nat : ss[1] < ss[2]}
<1>1. IsWellFoundedOn(R, Nat)
  BY NatLessThanWellFounded DEF OpToRel
<1> HIDE DEF R
<1>2. PICK x \in S : \A y \in S : ~ (<<y, x>> \in R)
  BY <1>1, WFMin
<1>3. ASSUME NEW y \in S PROVE x <= y
  <2>1. x \in Nat /\ y \in Nat /\ ~(<<y, x>> \in R)
    BY <1>2
  <2>2. ~ (y < x)
    BY <2>1 DEF R
  <2> QED  BY <2>1, <2>2
<1> QED  BY <1>3

\* A set of numbers up to a bound has a greatest one.
LEMMA GreatestNatural ==
  ASSUME NEW S \in SUBSET Nat, S # {}, NEW bound \in Nat, \A x \in S : x <= bound
  PROVE  \E x \in S : \A y \in S : y <= x
<1> DEFINE tops == {n \in Nat : \A x \in S : x <= n}
<1>1. PICK n \in tops : \A m \in tops : n <= m
  <2>1. tops \in SUBSET Nat /\ bound \in tops
    OBVIOUS
  <2> HIDE DEF tops
  <2> QED  BY <2>1, LeastNatural
<1>2. n \in S
  <2> SUFFICES ASSUME n \notin S PROVE FALSE
    OBVIOUS
  <2>1. n > 0
    <3>1. PICK x \in S : x <= n /\ x # n
      OBVIOUS
    <3> QED  BY <3>1
  <2>2. n - 1 \in tops
    BY <2>1
  <2> QED  BY <1>1, <2>2
<1> QED  BY <1>2

LEMMA FirstOfIsFirst ==
  ASSUME NEW S \in SUBSET Nat, NEW u \in FirstOf(S), NEW v \in S, v <= u
  PROVE  v \in FirstOf(S)
<1> DEFINE low == {w \in S : w <= v}
           high == {w \in S : w <= u}
<1>1. u \in Nat /\ v \in Nat
  BY DEF FirstOf
<1>2. IsFiniteSet(high)
  <2>1. high \in SUBSET Nat /\ \A w \in high : w <= u
    OBVIOUS
  <2> QED  BY <1>1, <2>1, FS_BoundedSetOfNaturals
<1>3. low \subseteq high
  <2>1. ASSUME NEW w \in S, w <= v PROVE w <= u
    <3>1. w \in Nat
      OBVIOUS
    <3> QED  BY <1>1, <2>1, <3>1
  <2> QED  BY <2>1
<1>4. Cardinality(low) <= Cardinality(high) /\ Cardinality(low) \in Nat /\ Cardinality(high) \in Nat
  BY <1>2, <1>3, FS_Subset, FS_CardinalityType
<1>5. Cardinality(high) <= Batch
  BY DEF FirstOf
<1>6. Cardinality(low) <= Batch
  BY <1>4, <1>5, GmailReaderAssumption
<1> QED  BY <1>6 DEF FirstOf

(* What a reader knows of the mailbox.                                       *)
\* A mail that a conversation owns, whatever order the readers work in.
Ours(u) ==
  \/ Kind[u] = "sent"
  \/ Kind[u] \in {"own", "reply"} /\ \E v \in UIDs \ Unreadable : v < u /\ Kind[v] = "sent"
\* A mail that may be passed over: it cannot be read, or has no company.
MayBeSkipped == Unreadable \cup {u \in UIDs : Kind[u] = "own"}

\* Everything of ours up to n is done with, that is stored or set aside.
Clear(n, done) == \A u \in UIDs : u <= n /\ Ours(u) => u \in done

\* What a reader lists follows its watermark without a gap, and behind the
\* watermark it knows every send.
OnTrack(rd, done, mails) ==
  rd.pc \in {"heads", "mail", "write"} =>
    /\ Clear(rd.last, done)
    /\ \A u \in rd.todo : u <= mails
    /\ \A u \in rd.todo, v \in UIDs : v < u => v <= rd.last \/ v \in rd.todo
    /\ \A v \in UIDs \ Unreadable : Kind[v] = "sent" /\ v <= rd.last => v \in rd.knows

\* A batch is the head of the list, and what is not wanted of it needs nothing.
InBatch(rd, done) ==
  rd.pc \in {"mail", "write"} =>
    /\ rd.chunk \subseteq rd.todo
    /\ \A u \in rd.chunk, v \in rd.todo : v <= u => v \in rd.chunk
    /\ \A v \in rd.chunk : Kind[v] = "sent" => v \in rd.knows
    /\ \A u \in rd.chunk \ rd.wanted : Ours(u) => u \in done

ReaderStates ==
  [pc : {"none", "heads", "mail", "write", "drafts", "append", "mark"}, validity : Nat, last : Nat,
   todo : SUBSET UIDs, chunk : SUBSET UIDs, wanted : SUBSET UIDs, knows : SUBSET UIDs]

MailTypes ==
  /\ box \in [mails : Nat, validity : Nat] /\ poll \in [uid : Nat, validity : Nat]
  /\ kept \subseteq UIDs \ Unreadable /\ skipped \subseteq MayBeSkipped
  /\ reader \in [Readers -> ReaderStates]
  /\ prepared \in [holder : Readers \cup {"nobody"}, marked : BOOLEAN]
  /\ effects \in [mail : [UIDs -> Nat], drafts : Nat, spoiled : BOOLEAN]

Done == kept \cup skipped
Reading == \A r \in Readers : OnTrack(reader[r], Done, box.mails) /\ InBatch(reader[r], Done)
Counted == \A u \in UIDs : effects.mail[u] = IF u \in kept THEN 1 ELSE 0

\* A draft between claim and mark is its reader's alone, and not marked.
HeldByOne ==
  \A r \in Readers : reader[r].pc \in {"append", "mark"} => prepared.holder = r /\ ~prepared.marked
Placed ==
  ~effects.spoiled =>
    \/ effects.drafts = 0
    \/ effects.drafts = 1 /\ (prepared.marked \/ \E r \in Readers : reader[r].pc = "mark")

MailInv == MailTypes /\ Clear(poll.uid, Done) /\ Reading /\ Counted /\ HeldByOne /\ Placed

LEMMA UIDsAreNumbers == UIDs \subseteq Nat \ {0}
BY GmailReaderAssumption

LEMMA SmallestIn ==
  ASSUME NEW S \in SUBSET UIDs, S # {}
  PROVE  Smallest(S) \in S
BY LeastNatural, UIDsAreNumbers DEF Smallest

LEMMA ClearGrows ==
  ASSUME NEW n, NEW done, NEW more, done \subseteq more, Clear(n, done)
  PROVE  Clear(n, more)
BY DEF Clear

LEMMA TrackGrows ==
  ASSUME NEW rd \in ReaderStates, NEW done, NEW more, done \subseteq more,
         NEW mails \in Nat, NEW many \in Nat, mails <= many,
         OnTrack(rd, done, mails), InBatch(rd, done)
  PROVE  OnTrack(rd, more, many) /\ InBatch(rd, more)
<1>1. rd.todo \subseteq Nat
  BY UIDsAreNumbers DEF ReaderStates
<1>2. ASSUME NEW u \in rd.todo, u <= mails PROVE u <= many
  BY <1>1, <1>2
<1>3. OnTrack(rd, more, many)
  BY <1>2, ClearGrows DEF OnTrack
<1>4. InBatch(rd, more)
  BY DEF InBatch
<1> QED  BY <1>3, <1>4

LEMMA MailInitGood == MailInit => MailInv
<1> SUFFICES ASSUME MailInit PROVE MailInv
  OBVIOUS
<1>1. NotReading \in ReaderStates /\ NotReading.pc = "none"
  BY DEF NotReading, ReaderStates
<1>2. MailTypes
  BY <1>1 DEF MailInit, MailTypes
<1>3. Clear(poll.uid, Done)
  BY UIDsAreNumbers DEF MailInit, Clear
<1>4. Reading /\ HeldByOne
  BY <1>1 DEF MailInit, Reading, HeldByOne, OnTrack, InBatch
<1>5. Counted /\ Placed
  BY DEF MailInit, Counted, Placed
<1> QED  BY <1>2, <1>3, <1>4, <1>5 DEF MailInv

\* A reader goes from one state to the next, and mails become done.
LEMMA ReaderGoes ==
  ASSUME MailInv, NEW r \in Readers, NEW rd \in ReaderStates, reader' = [reader EXCEPT ![r] = rd],
         box' = box, kept \subseteq kept', kept' \subseteq UIDs \ Unreadable,
         skipped \subseteq skipped', skipped' \subseteq MayBeSkipped,
         OnTrack(rd, Done', box.mails), InBatch(rd, Done'), Clear(poll'.uid, Done')
  PROVE  /\ reader' \in [Readers -> ReaderStates]
         /\ Clear(poll.uid, Done)' /\ Reading'
         /\ \A q \in Readers : reader'[q] = IF q = r THEN rd ELSE reader[q]
<1>1. reader \in [Readers -> ReaderStates] /\ box.mails \in Nat
  BY DEF MailInv, MailTypes
<1>2. \A q \in Readers : reader'[q] = IF q = r THEN rd ELSE reader[q]
  BY <1>1
<1>3. Done \subseteq Done'
  BY DEF Done
<1>4. ASSUME NEW q \in Readers, q # r
      PROVE  OnTrack(reader[q], Done', box.mails) /\ InBatch(reader[q], Done')
  <2>1. OnTrack(reader[q], Done, box.mails) /\ InBatch(reader[q], Done) /\ reader[q] \in ReaderStates
    BY <1>1 DEF MailInv, Reading
  <2>2. box.mails <= box.mails
    BY <1>1
  <2> QED  BY <1>1, <1>3, <2>1, <2>2, TrackGrows
<1>5. Reading'
  <2> SUFFICES ASSUME NEW q \in Readers
               PROVE  OnTrack(reader'[q], Done', box'.mails) /\ InBatch(reader'[q], Done')
    BY DEF Reading
  <2> QED  BY <1>2, <1>4
<1> QED  BY <1>1, <1>2, <1>5

\* A step of a reader that neither holds nor takes the draft.
LEMMA DraftAlone ==
  ASSUME MailInv, NEW r \in Readers, NEW rd \in ReaderStates,
         \A q \in Readers : reader'[q] = IF q = r THEN rd ELSE reader[q],
         reader[r].pc \notin {"append", "mark"}, rd.pc \notin {"append", "mark"},
         prepared' = prepared, effects'.drafts = effects.drafts, effects'.spoiled = effects.spoiled
  PROVE  HeldByOne' /\ Placed'
<1>1. HeldByOne'
  BY DEF MailInv, HeldByOne
<1>2. (\E q \in Readers : reader'[q].pc = "mark") <=> (\E q \in Readers : reader[q].pc = "mark")
  OBVIOUS
<1> QED  BY <1>1, <1>2 DEF MailInv, Placed

LEMMA ReadingGood ==
  ASSUME MailInv, NEW r \in Readers, NEW rd \in ReaderStates, reader' = [reader EXCEPT ![r] = rd],
         reader[r].pc \notin {"append", "mark"}, rd.pc \notin {"append", "mark"},
         UNCHANGED <<box, kept, skipped, prepared, effects>>,
         OnTrack(rd, Done, box.mails), InBatch(rd, Done),
         poll' \in [uid : Nat, validity : Nat], Clear(poll'.uid, Done)
  PROVE  MailInv'
<1>1. Done' = Done /\ kept \subseteq UIDs \ Unreadable /\ skipped \subseteq MayBeSkipped
  BY DEF Done, MailInv, MailTypes
<1>2. /\ reader' \in [Readers -> ReaderStates]
      /\ Clear(poll.uid, Done)' /\ Reading'
      /\ \A q \in Readers : reader'[q] = IF q = r THEN rd ELSE reader[q]
  BY <1>1, ReaderGoes
<1>3. HeldByOne' /\ Placed'
  BY <1>2, DraftAlone
<1>4. MailTypes' /\ Counted'
  BY <1>2 DEF MailInv, MailTypes, Counted
<1> QED  BY <1>2, <1>3, <1>4 DEF MailInv

LEMMA StartReadGood ==
  ASSUME MailInv, NEW r \in Readers, StartRead(r)
  PROVE  MailInv'
<1> DEFINE rd == [pc |-> "heads", validity |-> box.validity, last |-> Watermark,
                  todo |-> Upto(box.mails) \ Upto(Watermark), chunk |-> {}, wanted |-> {},
                  knows |-> {u \in kept : Kind[u] = "sent"}]
<1>1. box \in [mails : Nat, validity : Nat] /\ poll \in [uid : Nat, validity : Nat] /\ kept \subseteq UIDs
  BY DEF MailInv, MailTypes
<1>2. Watermark \in Nat /\ Clear(Watermark, Done)
  BY <1>1, UIDsAreNumbers DEF Watermark, MailInv, Clear
<1>3. rd \in ReaderStates
  BY <1>1, <1>2 DEF ReaderStates, Upto
<1>4. reader' = [reader EXCEPT ![r] = rd] /\ reader[r].pc = "none"
  BY DEF StartRead
<1>5. OnTrack(rd, Done, box.mails)
  <2>1. \A u \in rd.todo, v \in UIDs : v < u => v <= rd.last \/ v \in rd.todo
    BY <1>1, <1>2, UIDsAreNumbers DEF Upto
  <2>2. ASSUME NEW v \in UIDs \ Unreadable, Kind[v] = "sent", v <= Watermark PROVE v \in kept
    BY <1>2, <2>2 DEF Clear, Ours, Done, MailInv, MailTypes, MayBeSkipped
  <2>3. \A u \in rd.todo : u <= box.mails
    BY DEF Upto
  <2> QED  BY <1>2, <2>1, <2>2, <2>3 DEF OnTrack
<1>6. InBatch(rd, Done)
  BY DEF InBatch
<1>7. Clear(poll.uid, Done)
  BY DEF MailInv
<1> QED  BY <1>1, <1>3, <1>4, <1>5, <1>6, <1>7, ReadingGood DEF StartRead

\* What FetchHeads() and MoveMark() set, field by field.
LEMMA Fetched ==
  ASSUME NEW old \in ReaderStates, NEW chunk, NEW wanted, NEW knows
  PROVE  [old EXCEPT !.pc = "mail", !.chunk = chunk, !.wanted = wanted, !.knows = knows]
           = [pc |-> "mail", validity |-> old.validity, last |-> old.last, todo |-> old.todo,
              chunk |-> chunk, wanted |-> wanted, knows |-> knows]
<1> DEFINE first == [old EXCEPT !.pc = "mail"]
           second == [first EXCEPT !.chunk = chunk]
           third == [second EXCEPT !.wanted = wanted]
           fourth == [third EXCEPT !.knows = knows]
<1>1. [old EXCEPT !.pc = "mail", !.chunk = chunk, !.wanted = wanted, !.knows = knows] = fourth
  BY Zenon
<1>2. first = [pc |-> "mail", validity |-> old.validity, last |-> old.last, todo |-> old.todo,
               chunk |-> old.chunk, wanted |-> old.wanted, knows |-> old.knows]
  BY DEF ReaderStates
<1> HIDE DEF first
<1>3. second = [pc |-> "mail", validity |-> old.validity, last |-> old.last, todo |-> old.todo,
                chunk |-> chunk, wanted |-> old.wanted, knows |-> old.knows]
  BY <1>2
<1> HIDE DEF second
<1>4. third = [pc |-> "mail", validity |-> old.validity, last |-> old.last, todo |-> old.todo,
               chunk |-> chunk, wanted |-> wanted, knows |-> old.knows]
  BY <1>3
<1> HIDE DEF third
<1> QED  BY <1>1, <1>4

LEMMA Emptied ==
  ASSUME NEW old \in ReaderStates, NEW wanted
  PROVE  [old EXCEPT !.pc = "mail", !.wanted = wanted]
           = [pc |-> "mail", validity |-> old.validity, last |-> old.last, todo |-> old.todo,
              chunk |-> old.chunk, wanted |-> wanted, knows |-> old.knows]
<1> DEFINE first == [old EXCEPT !.pc = "mail"]
           second == [first EXCEPT !.wanted = wanted]
<1>1. [old EXCEPT !.pc = "mail", !.wanted = wanted] = second
  BY Zenon
<1>2. first = [pc |-> "mail", validity |-> old.validity, last |-> old.last, todo |-> old.todo,
               chunk |-> old.chunk, wanted |-> old.wanted, knows |-> old.knows]
  BY DEF ReaderStates
<1> HIDE DEF first
<1> QED  BY <1>1, <1>2

LEMMA MarkMoved ==
  ASSUME NEW old \in ReaderStates, NEW last, NEW todo
  PROVE  [old EXCEPT !.pc = "heads", !.last = last, !.todo = todo, !.chunk = {}]
           = [pc |-> "heads", validity |-> old.validity, last |-> last, todo |-> todo,
              chunk |-> {}, wanted |-> old.wanted, knows |-> old.knows]
<1> DEFINE first == [old EXCEPT !.pc = "heads"]
           second == [first EXCEPT !.last = last]
           third == [second EXCEPT !.todo = todo]
           fourth == [third EXCEPT !.chunk = {}]
<1>1. [old EXCEPT !.pc = "heads", !.last = last, !.todo = todo, !.chunk = {}] = fourth
  BY Zenon
<1>2. first = [pc |-> "heads", validity |-> old.validity, last |-> old.last, todo |-> old.todo,
               chunk |-> old.chunk, wanted |-> old.wanted, knows |-> old.knows]
  BY DEF ReaderStates
<1> HIDE DEF first
<1>3. second = [pc |-> "heads", validity |-> old.validity, last |-> last, todo |-> old.todo,
                chunk |-> old.chunk, wanted |-> old.wanted, knows |-> old.knows]
  BY <1>2
<1> HIDE DEF second
<1>4. third = [pc |-> "heads", validity |-> old.validity, last |-> last, todo |-> todo,
               chunk |-> old.chunk, wanted |-> old.wanted, knows |-> old.knows]
  BY <1>3
<1> HIDE DEF third
<1> QED  BY <1>1, <1>4

LEMMA FetchHeadsGood ==
  ASSUME MailInv, NEW r \in Readers, FetchHeads(r)
  PROVE  MailInv'
<1> DEFINE old == reader[r]
           chunk == FirstOf(old.todo)
           wanted == Relevant(chunk, old.knows)
           knows == old.knows \cup {u \in chunk : Kind[u] = "sent"}
           rd == [old EXCEPT !.pc = "mail", !.chunk = chunk, !.wanted = wanted, !.knows = knows]
<1>1. /\ old \in ReaderStates /\ OnTrack(old, Done, box.mails) /\ old.pc = "heads"
      /\ box.mails \in Nat /\ poll \in [uid : Nat, validity : Nat] /\ Clear(poll.uid, Done)
  BY DEF MailInv, MailTypes, Reading, FetchHeads
<1>2. chunk \subseteq old.todo /\ old.todo \subseteq UIDs /\ old.todo \in SUBSET Nat /\ old.knows \subseteq UIDs
  BY <1>1, UIDsAreNumbers DEF FirstOf, ReaderStates
<1>3. wanted \subseteq UIDs /\ knows \subseteq UIDs
  BY <1>2 DEF Relevant
<1>4. reader' = [reader EXCEPT ![r] = rd]
  BY <1>1 DEF FetchHeads, MailInv, MailTypes, ReaderStates
<1> HIDE DEF old, chunk, wanted, knows
<1>5. rd = [pc |-> "mail", validity |-> old.validity, last |-> old.last, todo |-> old.todo,
            chunk |-> chunk, wanted |-> wanted, knows |-> knows]
  <2>1. old \in ReaderStates
    BY <1>1
  <2> QED  BY <2>1, Fetched, Zenon
<1> HIDE DEF rd
<1>6. rd \in ReaderStates
  BY <1>1, <1>2, <1>3, <1>5 DEF ReaderStates
<1>7. OnTrack(rd, Done, box.mails)
  BY <1>1, <1>5 DEF OnTrack, knows
<1>8. InBatch(rd, Done)
  <2>1. \A u \in chunk, v \in old.todo : v <= u => v \in chunk
    BY <1>2, FirstOfIsFirst DEF chunk
  <2>2. ASSUME NEW u \in chunk \ wanted, Ours(u) PROVE u \in Done
    <3>1. PICK v \in UIDs \ Unreadable : v < u /\ Kind[v] = "sent" /\ Kind[u] \in {"own", "reply"}
      BY <2>2 DEF Ours, Relevant, wanted
    <3>2. v \notin old.knows /\ v \notin chunk
      BY <2>2, <3>1 DEF Relevant, wanted
    <3>3. v <= old.last \/ v \in old.todo
      BY <1>1, <1>2, <3>1 DEF OnTrack
    <3>4. v \in Nat /\ u \in Nat
      BY <1>2, UIDsAreNumbers
    <3> QED  BY <1>1, <2>1, <3>1, <3>2, <3>3, <3>4 DEF OnTrack
  <2>3. \A v \in chunk : Kind[v] = "sent" => v \in knows
    BY DEF knows
  <2> QED  BY <1>2, <1>5, <2>1, <2>2, <2>3 DEF InBatch
<1> QED  BY <1>1, <1>4, <1>5, <1>6, <1>7, <1>8, ReadingGood DEF FetchHeads, old

\* A mail of the batch is passed over, stored or set aside.
LEMMA HandledGood ==
  ASSUME MailInv, NEW r \in Readers, NEW u \in reader[r].wanted,
         reader[r].pc \in {"mail", "write"}, reader' = Handled(r, u), box' = box,
         kept \subseteq kept', kept' \subseteq UIDs \ Unreadable,
         skipped \subseteq skipped', skipped' \subseteq MayBeSkipped, u \in Done',
         poll' = poll, prepared' = prepared, effects'.drafts = effects.drafts,
         effects'.spoiled = effects.spoiled,
         effects' \in [mail : [UIDs -> Nat], drafts : Nat, spoiled : BOOLEAN], Counted'
  PROVE  MailInv'
<1> DEFINE old == reader[r]
           left == old.wanted \ {u}
           rd == [old EXCEPT !.pc = "mail", !.wanted = left]
<1>1. /\ old \in ReaderStates /\ OnTrack(old, Done, box.mails) /\ InBatch(old, Done)
      /\ box.mails \in Nat /\ Clear(poll.uid, Done) /\ reader \in [Readers -> ReaderStates]
  BY DEF MailInv, MailTypes, Reading
<1>3. reader' = [reader EXCEPT ![r] = rd]
  BY <1>1, Zenon DEF Handled
<1>4. rd = [pc |-> "mail", validity |-> old.validity, last |-> old.last, todo |-> old.todo,
            chunk |-> old.chunk, wanted |-> left, knows |-> old.knows]
  BY <1>1, Emptied, Zenon
<1> HIDE DEF rd
<1>5. rd \in ReaderStates
  BY <1>1, <1>4 DEF ReaderStates
<1>6. Done \subseteq Done' /\ box.mails <= box.mails
  BY <1>1 DEF Done
<1>7. OnTrack(old, Done', box.mails) /\ InBatch(old, Done')
  BY <1>1, <1>6, TrackGrows
<1>8. OnTrack(rd, Done', box.mails) /\ InBatch(rd, Done')
  BY <1>4, <1>7 DEF OnTrack, InBatch
<1>9. Clear(poll'.uid, Done')
  BY <1>1, <1>6, ClearGrows
<1>10. /\ reader' \in [Readers -> ReaderStates]
       /\ Clear(poll.uid, Done)' /\ Reading'
       /\ \A q \in Readers : reader'[q] = IF q = r THEN rd ELSE reader[q]
  BY <1>3, <1>5, <1>8, <1>9, ReaderGoes
<1>11. HeldByOne' /\ Placed'
  BY <1>4, <1>5, <1>10, DraftAlone
<1>12. MailTypes'
  BY <1>10 DEF MailInv, MailTypes
<1> QED  BY <1>10, <1>11, <1>12 DEF MailInv

LEMMA ReadMailGood ==
  ASSUME MailInv, NEW r \in Readers, ReadMail(r) \/ WriteMail(r) \/ LeaveUnresolved(r) \/ Quarantine(r)
  PROVE  MailInv'
<1> DEFINE old == reader[r]
           u == Smallest(old.wanted)
<1>1. /\ old \in ReaderStates /\ OnTrack(old, Done, box.mails) /\ InBatch(old, Done)
      /\ Clear(poll.uid, Done) /\ poll \in [uid : Nat, validity : Nat] /\ reader \in [Readers -> ReaderStates]
      /\ kept \subseteq UIDs \ Unreadable /\ skipped \subseteq MayBeSkipped /\ Unreadable \subseteq UIDs
      /\ effects \in [mail : [UIDs -> Nat], drafts : Nat, spoiled : BOOLEAN] /\ Counted
  BY GmailReaderAssumption DEF MailInv, MailTypes, Reading
<1>2. old.wanted # {} /\ old.pc \in {"mail", "write"}
  BY DEF ReadMail, WriteMail, LeaveUnresolved, Quarantine, InMail
<1>3. u \in old.wanted /\ u \in UIDs
  BY <1>1, <1>2, SmallestIn DEF ReaderStates
<1>4. CASE ReadMail(r) /\ u \in kept
  <2>1. reader' = Handled(r, u) /\ UNCHANGED <<box, poll, kept, skipped, prepared, effects>>
    BY <1>4 DEF ReadMail
  <2>2. u \in Done' /\ Counted'
    BY <1>1, <1>4, <2>1 DEF Done, Counted
  <2> QED  BY <1>1, <1>2, <1>3, <2>1, <2>2, HandledGood
<1>5. CASE ReadMail(r) /\ u \notin kept
  <2> DEFINE rd == [old EXCEPT !.pc = "write"]
  <2>1. reader' = [reader EXCEPT ![r] = rd] /\ old.pc = "mail" /\ UNCHANGED <<box, poll, kept, skipped, prepared, effects>>
    BY <1>1, <1>5 DEF ReadMail, InMail
  <2>2. rd = [pc |-> "write", validity |-> old.validity, last |-> old.last, todo |-> old.todo,
              chunk |-> old.chunk, wanted |-> old.wanted, knows |-> old.knows]
    BY <1>1 DEF ReaderStates
  <2> HIDE DEF rd
  <2>3. rd \in ReaderStates
    BY <1>1, <2>2 DEF ReaderStates
  <2>4. OnTrack(rd, Done, box.mails) /\ InBatch(rd, Done)
    BY <1>1, <2>1, <2>2 DEF OnTrack, InBatch
  <2> QED  BY <1>1, <2>1, <2>2, <2>3, <2>4, ReadingGood
<1>6. CASE WriteMail(r)
  <2>1. /\ reader' = Handled(r, u) /\ UNCHANGED <<box, poll, skipped, prepared>>
        /\ u \notin Unreadable /\ kept' = kept \cup {u}
        /\ effects' = IF u \notin kept THEN [effects EXCEPT !.mail[u] = @ + 1] ELSE effects
    BY <1>6 DEF WriteMail, Inserts
  <2>2. /\ effects' \in [mail : [UIDs -> Nat], drafts : Nat, spoiled : BOOLEAN]
        /\ effects'.drafts = effects.drafts /\ effects'.spoiled = effects.spoiled
        /\ \A v \in UIDs : effects'.mail[v] = IF v = u /\ u \notin kept THEN effects.mail[v] + 1 ELSE effects.mail[v]
    <3>1. CASE u \in kept
      BY <1>1, <2>1, <3>1
    <3>2. CASE u \notin kept
      <4>1. effects' = [mail |-> [effects.mail EXCEPT ![u] = @ + 1], drafts |-> effects.drafts, spoiled |-> effects.spoiled]
        BY <1>1, <2>1, <3>2
      <4> QED  BY <1>1, <1>3, <3>2, <4>1
    <3> QED  BY <3>1, <3>2
  <2>3. Counted'
    BY <1>1, <1>3, <2>1, <2>2 DEF Counted
  <2>4. u \in Done' /\ kept \subseteq kept' /\ kept' \subseteq UIDs \ Unreadable
    BY <1>1, <1>3, <2>1 DEF Done
  <2> QED  BY <1>1, <1>2, <1>3, <2>1, <2>2, <2>3, <2>4, HandledGood
<1>7. CASE Quarantine(r)
  <2>1. /\ reader' = Handled(r, u) /\ UNCHANGED <<box, poll, kept, prepared, effects>>
        /\ u \in Unreadable /\ skipped' = skipped \cup {u}
    BY <1>7 DEF Quarantine
  <2>2. u \in Done' /\ Counted' /\ skipped \subseteq skipped' /\ skipped' \subseteq MayBeSkipped
    BY <1>1, <2>1 DEF Done, Counted, MayBeSkipped
  <2> QED  BY <1>1, <1>2, <1>3, <2>1, <2>2, HandledGood
<1>8. CASE LeaveUnresolved(r)
  <2>1. /\ reader' = Handled(r, u) /\ UNCHANGED <<box, poll, kept, prepared, effects>>
        /\ Kind[u] = "own" /\ skipped' = skipped \cup {u}
    BY <1>8 DEF LeaveUnresolved
  <2>2. u \in Done' /\ Counted' /\ skipped \subseteq skipped' /\ skipped' \subseteq MayBeSkipped
    BY <1>1, <1>3, <2>1 DEF Done, Counted, MayBeSkipped
  <2> QED  BY <1>1, <1>2, <1>3, <2>1, <2>2, HandledGood
<1> QED  BY <1>4, <1>5, <1>6, <1>7, <1>8

\* The watermark moves to the end of a batch that needs nothing any more.
LEMMA MoveMarkGood ==
  ASSUME MailInv, NEW r \in Readers, MoveMark(r)
  PROVE  MailInv'
<1> DEFINE old == reader[r]
           last == IF \A u \in old.chunk : u <= old.last THEN old.last
                   ELSE CHOOSE u \in old.chunk : \A v \in old.chunk : v <= u
           todo == old.todo \ old.chunk
           rd == [old EXCEPT !.pc = "heads", !.last = last, !.todo = todo, !.chunk = {}]
<1>1. /\ old \in ReaderStates /\ OnTrack(old, Done, box.mails) /\ InBatch(old, Done)
      /\ box.mails \in Nat /\ reader \in [Readers -> ReaderStates]
      /\ old.pc = "mail" /\ old.wanted = {}
  BY DEF MailInv, MailTypes, Reading, MoveMark
<1>2. /\ reader' = [reader EXCEPT ![r] = rd] /\ poll' = [uid |-> last, validity |-> old.validity]
      /\ UNCHANGED <<box, kept, skipped, prepared, effects>>
  BY DEF MoveMark
<1>3. /\ old.chunk \subseteq old.todo /\ old.todo \subseteq UIDs /\ old.todo \in SUBSET Nat
      /\ old.last \in Nat /\ old.validity \in Nat
  BY <1>1, UIDsAreNumbers DEF InBatch, ReaderStates
<1>4. last \in Nat /\ old.last <= last /\ (\A u \in old.chunk : u <= last) /\ (last = old.last \/ last \in old.chunk)
  <2>1. CASE \A u \in old.chunk : u <= old.last
    BY <1>3, <2>1
  <2>2. CASE ~ \A u \in old.chunk : u <= old.last
    <3>1. \E u \in old.chunk : \A v \in old.chunk : v <= u
      <4>1. old.chunk \in SUBSET Nat /\ old.chunk # {} /\ \A u \in old.chunk : u <= box.mails
        BY <1>1, <1>3, <2>2 DEF OnTrack
      <4> QED  BY <1>1, <4>1, GreatestNatural
    <3>2. last \in old.chunk /\ \A v \in old.chunk : v <= last
      BY <2>2, <3>1
    <3>3. PICK u \in old.chunk : ~ (u <= old.last)
      BY <2>2
    <3>4. u \in Nat /\ last \in Nat /\ u <= last
      BY <1>3, <3>2
    <3> HIDE DEF last
    <3>5. old.last <= last
      BY <1>3, <3>3, <3>4
    <3> QED  BY <3>2, <3>4, <3>5
  <2> QED  BY <2>1, <2>2
<1> HIDE DEF last, todo
<1>5. rd = [pc |-> "heads", validity |-> old.validity, last |-> last, todo |-> todo,
            chunk |-> {}, wanted |-> old.wanted, knows |-> old.knows]
  <2> HIDE DEF old
  <2>1. old \in ReaderStates
    BY <1>1
  <2> QED  BY <2>1, MarkMoved, Zenon
<1> HIDE DEF rd
<1>6. rd \in ReaderStates
  BY <1>1, <1>3, <1>4, <1>5 DEF ReaderStates, todo
\* Up to the new mark there is what was behind the old one, and the batch.
<1>7. ASSUME NEW v \in UIDs, v <= last PROVE v <= old.last \/ v \in old.chunk
  <2>1. v \in Nat
    BY UIDsAreNumbers
  <2>2. CASE last = old.last
    BY <1>7, <2>2
  <2>3. CASE last \in old.chunk
    <3>1. last \in old.todo /\ (v = last \/ v < last)
      BY <1>3, <1>4, <1>7, <2>1, <2>3
    <3>2. v = last \/ v <= old.last \/ v \in old.todo
      BY <1>1, <3>1 DEF OnTrack
    <3> QED  BY <1>1, <1>7, <2>3, <3>2 DEF InBatch
  <2> QED  BY <1>4, <2>2, <2>3
<1>8. Clear(last, Done)
  BY <1>1, <1>7 DEF Clear, OnTrack, InBatch
<1>9. OnTrack(rd, Done, box.mails)
  <2>1. \A u \in todo : u <= box.mails
    BY <1>1 DEF OnTrack, todo
  <2>2. ASSUME NEW u \in todo, NEW v \in UIDs, v < u PROVE v <= last \/ v \in todo
    <3>1. v \in Nat /\ u \in old.todo
      BY UIDsAreNumbers DEF todo
    <3>2. v <= old.last \/ v \in old.todo
      BY <1>1, <2>2, <3>1 DEF OnTrack
    <3>3. v <= old.last => v <= last
      BY <1>3, <1>4, <3>1
    <3> QED  BY <1>4, <3>2, <3>3 DEF todo
  <2>3. ASSUME NEW v \in UIDs \ Unreadable, Kind[v] = "sent", v <= last PROVE v \in old.knows
    BY <1>1, <1>7, <2>3 DEF OnTrack, InBatch
  <2> QED  BY <1>5, <1>8, <2>1, <2>2, <2>3 DEF OnTrack
<1>10. InBatch(rd, Done)
  BY <1>5 DEF InBatch
<1>11. poll' \in [uid : Nat, validity : Nat] /\ poll'.uid = last
  BY <1>2, <1>3, <1>4
<1> QED  BY <1>1, <1>2, <1>5, <1>6, <1>8, <1>9, <1>10, <1>11, ReadingGood

LEMMA NotReadingGood ==
  /\ NotReading \in ReaderStates /\ NotReading.pc = "none"
  /\ \A done, mails : OnTrack(NotReading, done, mails) /\ InBatch(NotReading, done)
BY DEF NotReading, ReaderStates, OnTrack, InBatch

LEMMA StopsGood ==
  ASSUME MailInv, NEW r \in Readers, LoseConnection(r) \/ EndRead(r)
  PROVE  MailInv'
<1>1. Clear(poll.uid, Done) /\ poll \in [uid : Nat, validity : Nat]
  BY DEF MailInv, MailTypes
<1>2. CASE LoseConnection(r)
  <2>1. /\ reader' = [reader EXCEPT ![r] = NotReading] /\ reader[r].pc = "write"
        /\ UNCHANGED <<box, poll, kept, skipped, prepared, effects>>
    BY <1>2 DEF LoseConnection, AfterLostConnection, InMail
  <2> QED  BY <1>1, <2>1, NotReadingGood, ReadingGood
<1>3. CASE EndRead(r)
  <2> DEFINE rd == [NotReading EXCEPT !.pc = "drafts"]
  <2>1. /\ reader' = [reader EXCEPT ![r] = rd] /\ reader[r].pc = "heads"
        /\ UNCHANGED <<box, poll, kept, skipped, prepared, effects>>
    BY <1>3 DEF EndRead
  <2>2. rd = [pc |-> "drafts", validity |-> 0, last |-> 0, todo |-> {}, chunk |-> {}, wanted |-> {}, knows |-> {}]
    BY DEF NotReading
  <2> HIDE DEF rd
  <2>3. rd \in ReaderStates /\ OnTrack(rd, Done, box.mails) /\ InBatch(rd, Done)
    BY <2>2 DEF ReaderStates, OnTrack, InBatch
  <2> QED  BY <1>1, <2>1, <2>2, <2>3, ReadingGood
<1> QED  BY <1>2, <1>3

\* A step that concerns the draft, or ends a reader.
LEMMA DraftGood ==
  ASSUME MailInv, NEW r \in Readers, NEW rd \in ReaderStates, reader' = [reader EXCEPT ![r] = rd],
         rd.pc \notin {"heads", "mail", "write"}, UNCHANGED <<box, poll, kept, skipped>>,
         prepared' \in [holder : Readers \cup {"nobody"}, marked : BOOLEAN],
         effects' \in [mail : [UIDs -> Nat], drafts : Nat, spoiled : BOOLEAN], effects'.mail = effects.mail,
         HeldByOne', Placed'
  PROVE  MailInv'
<1>1. /\ Done' = Done /\ kept \subseteq UIDs \ Unreadable /\ skipped \subseteq MayBeSkipped
      /\ Clear(poll.uid, Done) /\ poll' = poll
  BY DEF Done, MailInv, MailTypes
<1>2. OnTrack(rd, Done', box.mails) /\ InBatch(rd, Done')
  BY DEF OnTrack, InBatch
<1>3. /\ reader' \in [Readers -> ReaderStates]
      /\ Clear(poll.uid, Done)' /\ Reading'
  BY <1>1, <1>2, ReaderGoes
<1>4. MailTypes' /\ Counted'
  BY <1>3 DEF MailInv, MailTypes, Counted
<1> QED  BY <1>3, <1>4 DEF MailInv

LEMMA ClaimDraftGood ==
  ASSUME MailInv, NEW r \in Readers, ClaimDraft(r)
  PROVE  MailInv'
<1> DEFINE rd == [reader[r] EXCEPT !.pc = "append"]
<1>1. /\ reader[r] \in ReaderStates /\ reader \in [Readers -> ReaderStates] /\ reader[r].pc = "drafts"
      /\ prepared \in [holder : Readers \cup {"nobody"}, marked : BOOLEAN]
      /\ effects \in [mail : [UIDs -> Nat], drafts : Nat, spoiled : BOOLEAN] /\ effects' = effects
      /\ HeldByOne /\ Placed /\ "nobody" \notin Readers
      /\ UNCHANGED <<box, poll, kept, skipped>>
  BY GmailReaderAssumption DEF MailInv, MailTypes, ClaimDraft
<1>2. CASE Claimable
  <2>1. reader' = [reader EXCEPT ![r] = rd] /\ prepared' = [prepared EXCEPT !.holder = r]
    BY <1>1, <1>2 DEF ClaimDraft
  <2>2. rd \in ReaderStates /\ rd.pc = "append"
    BY <1>1 DEF ReaderStates
  <2> HIDE DEF rd
  <2>3. prepared.holder = "nobody" /\ prepared.marked = FALSE
    BY <1>1, <1>2 DEF Claimable
  <2>4. prepared' = [holder |-> r, marked |-> FALSE]
    BY <1>1, <2>1, <2>3
  <2>5. \A q \in Readers : reader[q].pc \notin {"append", "mark"}
    BY <1>1, <2>3 DEF HeldByOne
  <2>6. \A q \in Readers : reader'[q] = IF q = r THEN rd ELSE reader[q]
    BY <1>1, <2>1
  <2>7. HeldByOne'
    BY <2>4, <2>5, <2>6 DEF HeldByOne
  <2>8. Placed'
    BY <1>1, <2>3, <2>5 DEF Placed
  <2> QED  BY <1>1, <2>1, <2>2, <2>4, <2>7, <2>8, DraftGood
<1>3. CASE ~Claimable
  <2>1. reader' = [reader EXCEPT ![r] = NotReading] /\ prepared' = prepared
    BY <1>1, <1>3 DEF ClaimDraft
  <2>2. Clear(poll.uid, Done) /\ poll \in [uid : Nat, validity : Nat]
    BY DEF MailInv, MailTypes
  <2> QED  BY <1>1, <2>1, <2>2, NotReadingGood, ReadingGood
<1> QED  BY <1>2, <1>3

LEMMA PlacingGood ==
  ASSUME MailInv, NEW r \in Readers, AppendDraft(r) \/ MarkDraft(r)
  PROVE  MailInv'
<1> DEFINE rd == [reader[r] EXCEPT !.pc = "mark"]
<1>1. /\ reader[r] \in ReaderStates /\ reader \in [Readers -> ReaderStates] /\ reader[r].pc \in {"append", "mark"}
      /\ prepared \in [holder : Readers \cup {"nobody"}, marked : BOOLEAN]
      /\ effects \in [mail : [UIDs -> Nat], drafts : Nat, spoiled : BOOLEAN]
      /\ HeldByOne /\ Placed
      /\ UNCHANGED <<box, poll, kept, skipped>>
  BY DEF MailInv, MailTypes, AppendDraft, MarkDraft
<1>2. /\ \A q \in Readers \ {r} : reader[q].pc \notin {"append", "mark"}
      /\ prepared.holder = r /\ prepared.marked = FALSE
  BY <1>1 DEF HeldByOne
<1>3. CASE AppendDraft(r) /\ effects' # effects
  <2>1. /\ reader' = [reader EXCEPT ![r] = rd] /\ prepared' = prepared /\ reader[r].pc = "append"
        /\ effects' = [effects EXCEPT !.drafts = @ + 1]
    BY <1>1, <1>3 DEF AppendDraft
  <2>2. rd \in ReaderStates /\ rd.pc = "mark"
    BY <1>1 DEF ReaderStates
  <2> HIDE DEF rd
  <2>3. \A q \in Readers : reader'[q] = IF q = r THEN rd ELSE reader[q]
    BY <1>1, <2>1
  <2>4. effects' = [mail |-> effects.mail, drafts |-> effects.drafts + 1, spoiled |-> effects.spoiled]
    BY <1>1, <2>1
  <2>5. ~effects.spoiled => effects.drafts = 0
    BY <1>1, <1>2, <2>1 DEF Placed
  <2>6. HeldByOne'
    BY <1>2, <2>1, <2>3 DEF HeldByOne
  <2>7. Placed'
    BY <2>2, <2>3, <2>4, <2>5 DEF Placed
  <2>8. effects' \in [mail : [UIDs -> Nat], drafts : Nat, spoiled : BOOLEAN] /\ effects'.mail = effects.mail
    BY <1>1, <2>4
  <2> QED  BY <1>1, <2>1, <2>2, <2>6, <2>7, <2>8, DraftGood
<1>4. CASE AppendDraft(r) /\ effects' = effects
  <2>1. /\ reader' = [reader EXCEPT ![r] = NotReading] /\ prepared' = [prepared EXCEPT !.holder = "nobody"]
        /\ reader[r].pc = "append"
    BY <1>1, <1>4 DEF AppendDraft
  <2>2. \A q \in Readers : reader'[q] = IF q = r THEN NotReading ELSE reader[q]
    BY <1>1, <2>1
  <2>3. prepared' = [holder |-> "nobody", marked |-> FALSE]
    BY <1>1, <1>2, <2>1
  <2>4. HeldByOne'
    BY <1>2, <2>2, NotReadingGood DEF HeldByOne
  <2>5. Placed'
    BY <1>1, <1>2, <1>4, <2>1 DEF Placed
  <2> QED  BY <1>1, <1>4, <2>1, <2>3, <2>4, <2>5, NotReadingGood, DraftGood
<1>5. CASE MarkDraft(r)
  <2>1. /\ reader' = [reader EXCEPT ![r] = NotReading] /\ prepared' = [holder |-> "nobody", marked |-> TRUE]
        /\ effects' = effects
    BY <1>5 DEF MarkDraft
  <2>2. \A q \in Readers : reader'[q] = IF q = r THEN NotReading ELSE reader[q]
    BY <1>1, <2>1
  <2>3. HeldByOne'
    BY <1>2, <2>2, NotReadingGood DEF HeldByOne
  <2>4. Placed'
    BY <1>1, <2>1 DEF Placed
  <2> QED  BY <1>1, <2>1, <2>3, <2>4, NotReadingGood, DraftGood
<1> QED  BY <1>3, <1>4, <1>5

LEMMA ReaderDiesGood ==
  ASSUME MailInv, NEW r \in Readers, ReaderDies(r)
  PROVE  MailInv'
<1>1. /\ reader[r] \in ReaderStates /\ reader \in [Readers -> ReaderStates]
      /\ prepared \in [holder : Readers \cup {"nobody"}, marked : BOOLEAN]
      /\ effects \in [mail : [UIDs -> Nat], drafts : Nat, spoiled : BOOLEAN]
      /\ HeldByOne /\ Placed
      /\ reader' = [reader EXCEPT ![r] = NotReading] /\ UNCHANGED <<box, poll, kept, skipped>>
      /\ effects' = [effects EXCEPT !.spoiled = @ \/ reader[r].pc = "mark"]
      /\ prepared' = IF prepared.holder = r THEN [prepared EXCEPT !.holder = "nobody"] ELSE prepared
  BY DEF MailInv, MailTypes, ReaderDies
<1>2. \A q \in Readers : reader'[q] = IF q = r THEN NotReading ELSE reader[q]
  BY <1>1
<1>3. /\ prepared' \in [holder : Readers \cup {"nobody"}, marked : BOOLEAN]
      /\ prepared'.marked = prepared.marked
      /\ prepared.holder # r => prepared'.holder = prepared.holder
  BY <1>1
<1>4. /\ effects' \in [mail : [UIDs -> Nat], drafts : Nat, spoiled : BOOLEAN]
      /\ effects'.mail = effects.mail /\ effects'.drafts = effects.drafts
      /\ ~effects'.spoiled => ~effects.spoiled /\ reader[r].pc # "mark"
  <2>1. effects' = [mail |-> effects.mail, drafts |-> effects.drafts,
                    spoiled |-> (effects.spoiled \/ reader[r].pc = "mark")]
    BY <1>1
  <2> QED  BY <1>1, <2>1
<1>5. HeldByOne'
  <2> SUFFICES ASSUME NEW q \in Readers, reader'[q].pc \in {"append", "mark"}
               PROVE  prepared'.holder = q /\ ~prepared'.marked
    BY DEF HeldByOne
  <2>1. q # r /\ reader'[q] = reader[q]
    BY <1>2, NotReadingGood
  <2>2. prepared.holder = q /\ ~prepared.marked
    BY <1>1, <2>1 DEF HeldByOne
  <2> QED  BY <1>3, <2>1, <2>2
<1>6. Placed'
  <2>1. ASSUME ~effects'.spoiled, effects.drafts # 0
        PROVE  effects.drafts = 1 /\ (prepared.marked \/ \E q \in Readers : reader'[q].pc = "mark")
    <3>1. ~effects.spoiled /\ reader[r].pc # "mark"
      BY <1>4, <2>1
    <3>2. effects.drafts = 1 /\ (prepared.marked \/ \E q \in Readers : reader[q].pc = "mark")
      BY <1>1, <2>1, <3>1 DEF Placed
    <3> QED  BY <1>2, <3>1, <3>2
  <2>2. effects'.drafts = effects.drafts /\ prepared'.marked = prepared.marked
    BY <1>3, <1>4
  <2> QED  BY <2>1, <2>2, Zenon DEF Placed
<1> QED  BY <1>1, <1>3, <1>4, <1>5, <1>6, NotReadingGood, DraftGood

\* The mailbox changes, or nothing does.
LEMMA MailboxGood ==
  ASSUME MailInv, MailComes \/ MailboxRebuilt \/ UNCHANGED mailVars
  PROVE  MailInv'
<1>1. /\ UNCHANGED <<poll, kept, skipped, reader, prepared, effects>>
      /\ box \in [mails : Nat, validity : Nat] /\ reader \in [Readers -> ReaderStates]
  BY DEF MailComes, MailboxRebuilt, mailVars, MailInv, MailTypes
<1>2. box' \in [mails : Nat, validity : Nat] /\ box.mails <= box'.mails
  <2>1. CASE box' = [box EXCEPT !.mails = @ + 1]
    BY <1>1, <2>1
  <2>2. CASE box' = [box EXCEPT !.validity = @ + 1]
    BY <1>1, <2>2
  <2>3. CASE box' = box
    BY <1>1, <2>3
  <2> QED  BY <2>1, <2>2, <2>3 DEF MailComes, MailboxRebuilt, mailVars
<1>3. Reading'
  <2> SUFFICES ASSUME NEW r \in Readers PROVE OnTrack(reader[r], Done, box'.mails) /\ InBatch(reader[r], Done)
    BY <1>1 DEF Reading, Done
  <2>1. reader[r] \in ReaderStates /\ OnTrack(reader[r], Done, box.mails) /\ InBatch(reader[r], Done)
    BY <1>1 DEF MailInv, Reading
  <2>2. box.mails \in Nat /\ box'.mails \in Nat
    BY <1>1, <1>2
  <2> QED  BY <1>2, <2>1, <2>2, TrackGrows
<1>4. MailTypes' /\ Clear(poll.uid, Done)' /\ Counted' /\ HeldByOne' /\ Placed'
  BY <1>1, <1>2 DEF MailInv, MailTypes, Done, Counted, HeldByOne, Placed
<1> QED  BY <1>3, <1>4 DEF MailInv

LEMMA MailInvariance == MailSpec => []MailInv
<1>1. MailInv /\ [MailNext]_mailVars => MailInv'
  <2> SUFFICES ASSUME MailInv, [MailNext]_mailVars PROVE MailInv'
    OBVIOUS
  <2>1. CASE MailComes \/ MailboxRebuilt \/ UNCHANGED mailVars
    BY <2>1, MailboxGood
  <2>2. ASSUME NEW r \in Readers, StartRead(r) \/ FetchHeads(r) \/ MoveMark(r) PROVE MailInv'
    BY <2>2, StartReadGood, FetchHeadsGood, MoveMarkGood
  <2>3. ASSUME NEW r \in Readers, ReadMail(r) \/ WriteMail(r) \/ LeaveUnresolved(r) \/ Quarantine(r) PROVE MailInv'
    BY <2>3, ReadMailGood
  <2>4. ASSUME NEW r \in Readers, LoseConnection(r) \/ EndRead(r) \/ ReaderDies(r) PROVE MailInv'
    BY <2>4, StopsGood, ReaderDiesGood
  <2>5. ASSUME NEW r \in Readers, ClaimDraft(r) \/ AppendDraft(r) \/ MarkDraft(r) PROVE MailInv'
    BY <2>5, ClaimDraftGood, PlacingGood
  <2> QED  BY <2>1, <2>2, <2>3, <2>4, <2>5 DEF MailNext
<1> QED  BY <1>1, MailInitGood, PTL DEF MailSpec

\* However many readers find a mail, in whatever order they write their
\* watermarks, it changes the conversation once; a prepared draft is placed once
\* unless a reader died between the append and the mark.
THEOREM MailCountsOnce == MailSpec => []EffectsOnce
<1>1. MailInv => EffectsOnce
  BY DEF MailInv, Counted, Placed, EffectsOnce
<1> QED  BY <1>1, MailInvariance, PTL

\* Lost connections, deaths and stale watermarks never put the watermark past a
\* mail of a conversation that is neither stored nor quarantined; but the owner's
\* own mail to no company in the book is passed over.
THEOREM NothingPassedOver == MailSpec => []PassedIsHandled
<1>1. MailInv => PassedIsHandled
  <2> SUFFICES ASSUME MailInv, NEW u \in UIDs, u <= Watermark,
                      \/ Kind[u] = "sent"
                      \/ Kind[u] \in {"own", "reply"} /\ \E v \in kept : v < u /\ Kind[v] = "sent"
               PROVE  u \in kept \/ (u \in skipped /\ (u \in Unreadable \/ Kind[u] = "own"))
    BY DEF PassedIsHandled
  <2>1. Ours(u)
    BY DEF Ours, MailInv, MailTypes
  <2>2. u <= poll.uid
    BY UIDsAreNumbers DEF Watermark
  <2>3. u \in Done
    BY <2>1, <2>2 DEF MailInv, Clear
  <2> QED  BY <2>3 DEF Done, MailInv, MailTypes, MayBeSkipped
<1> QED  BY <1>1, MailInvariance, PTL
-------------------------------------------------------------------------------
(* The email alerts.                                                         *)
RunTypes == [pc : {"none", "waits", "alert", "push"}, seen : SUBSET Mails, left : SUBSET Mails,
             told : SUBSET Mails, newest : BOOLEAN]
AlertTypes ==
  /\ record \subseteq Mails /\ disturbed \subseteq Mails
  /\ watch \in [WatchRuns -> RunTypes] /\ alerts \in [Mails -> Nat]

OneWatches == \A r, s \in WatchRuns : Watching(r) /\ Watching(s) => r = s
\* Only a run that watches has told or has mails left; what it has left is not
\* what it has seen or told.
WatchesAreOrdered ==
  \A r \in WatchRuns :
    /\ ~Watching(r) => watch[r].told = {} /\ watch[r].left = {}
    /\ watch[r].left \cap (watch[r].seen \cup watch[r].told) = {}
    /\ watch[r].pc # "none" /\ watch[r].newest => record \subseteq watch[r].seen
    /\ watch[r].told \subseteq watch[r].seen \cup disturbed
    /\ \A m \in watch[r].seen : alerts[m] > 0
ToldIsKept ==
  \A m \in Mails : alerts[m] > 0 => m \in record \cup disturbed \/ \E r \in WatchRuns : m \in watch[r].told
AlertInv ==
  AlertTypes /\ OneWatches /\ WatchesAreOrdered /\ ToldIsKept /\ SeenWasAlerted /\ AlertedTwiceOnlyWhenDisturbed

LEMMA AlertsInitGood == AlertsInit => AlertInv
<1>1. NotWatching \in RunTypes /\ NotWatching.pc = "none" /\ NotWatching.told = {} /\ NotWatching.left = {}
      /\ NotWatching.seen = {}
  BY DEF NotWatching, RunTypes
<1>2. SUFFICES ASSUME AlertsInit
               PROVE  AlertInv
  OBVIOUS
<1>3. AlertTypes
  BY <1>1, <1>2 DEF AlertsInit, AlertTypes
<1>4. OneWatches /\ WatchesAreOrdered
  BY <1>1, <1>2 DEF AlertsInit, OneWatches, WatchesAreOrdered, Watching
<1>5. ToldIsKept /\ SeenWasAlerted /\ AlertedTwiceOnlyWhenDisturbed
  <2>1. record = {} /\ \A m \in Mails : alerts[m] = 0
    BY <1>2 DEF AlertsInit
  <2> QED  BY <2>1 DEF ToldIsKept, SeenWasAlerted, AlertedTwiceOnlyWhenDisturbed
<1> QED  BY <1>3, <1>4, <1>5 DEF AlertInv

(* A run waits, in place of another: neither has told anything.              *)
LEMMA TriggerGood ==
  ASSUME AlertInv, NEW r \in WatchRuns, Trigger(r)
  PROVE  AlertInv'
<1>1. \A w \in WatchRuns :
        /\ watch'[w] \in RunTypes
        /\ watch'[w].told = watch[w].told /\ watch'[w].left = watch[w].left
        /\ \/ watch'[w] = watch[w]
           \/ watch'[w].pc = "none" /\ watch'[w].seen = {} /\ ~Watching(w)
           \/ watch'[w].pc = "waits" /\ watch'[w].seen = record /\ watch'[w].newest /\ ~Watching(w)
  BY DEF AlertInv, AlertTypes, RunTypes, WatchesAreOrdered, Trigger, NotWatching, Watching
<1>2. UNCHANGED <<record, alerts, disturbed>> /\ watch' \in [WatchRuns -> RunTypes]
  BY <1>1 DEF Trigger
<1>3. \A w \in WatchRuns : watch'[w].told # {} => watch'[w] = watch[w]
  BY <1>1 DEF AlertInv, WatchesAreOrdered
<1>4. AlertTypes' /\ OneWatches'
  BY <1>1, <1>2 DEF AlertInv, AlertTypes, OneWatches, Watching
<1>5. WatchesAreOrdered'
  BY <1>1, <1>2 DEF AlertInv, WatchesAreOrdered, SeenWasAlerted, Watching
<1>6. ToldIsKept' /\ SeenWasAlerted' /\ AlertedTwiceOnlyWhenDisturbed'
  BY <1>1, <1>2, <1>3 DEF AlertInv, ToldIsKept, SeenWasAlerted, AlertedTwiceOnlyWhenDisturbed
<1> QED  BY <1>4, <1>5, <1>6 DEF AlertInv

LEMMA StartWatchGood ==
  ASSUME AlertInv, NEW r \in WatchRuns, StartWatch(r)
  PROVE  AlertInv'
<1>1. /\ watch' = [watch EXCEPT ![r] = watch'[r]] /\ watch'[r] \in RunTypes /\ watch'[r].told = {}
      /\ \/ /\ watch'[r].seen = watch[r].seen /\ watch'[r].newest = watch[r].newest
            /\ watch'[r].left \cap watch[r].seen = {} /\ watch'[r].pc = "alert" /\ \A w \in WatchRuns : ~Watching(w)
         \/ watch'[r].pc = "none" /\ watch'[r].seen = {} /\ watch'[r].left = {}
  <2>1. CASE watch' = [watch EXCEPT ![r].pc = "alert", ![r].left = {m \in Unseen(r) : Important(m)}]
    <3>1. watch[r] \in RunTypes /\ watch[r].told = {} /\ \A w \in WatchRuns : ~Watching(w)
      BY DEF AlertInv, AlertTypes, WatchesAreOrdered, StartWatch, Watching
    <3>2. {m \in Unseen(r) : Important(m)} \subseteq Mails \ watch[r].seen
      BY DEF Unseen
    <3> DEFINE left == {m \in Unseen(r) : Important(m)}
    <3> HIDE DEF left
    <3>3. watch' = [watch EXCEPT ![r].pc = "alert", ![r].left = left] /\ left \subseteq Mails \ watch[r].seen
      BY <2>1, <3>2 DEF left
    <3> QED  BY <3>1, <3>3 DEF AlertInv, AlertTypes, RunTypes
  <2>2. CASE watch' = [watch EXCEPT ![r] = NotWatching]
    BY <2>2 DEF AlertInv, AlertTypes, RunTypes, NotWatching
  <2> QED  BY <2>1, <2>2 DEF StartWatch
<1>2. UNCHANGED <<record, alerts, disturbed>> /\ watch[r].pc = "waits" /\ watch[r].told = {}
  BY DEF StartWatch, AlertInv, WatchesAreOrdered, Watching
<1>3. AlertTypes' /\ OneWatches'
  BY <1>1, <1>2 DEF AlertInv, AlertTypes, OneWatches, Watching
<1>4. WatchesAreOrdered'
  BY <1>1, <1>2 DEF AlertInv, AlertTypes, WatchesAreOrdered, Watching
<1>5. ToldIsKept' /\ SeenWasAlerted' /\ AlertedTwiceOnlyWhenDisturbed'
  BY <1>1, <1>2 DEF AlertInv, AlertTypes, ToldIsKept, SeenWasAlerted, AlertedTwiceOnlyWhenDisturbed
<1> QED  BY <1>3, <1>4, <1>5 DEF AlertInv

(* One alert: whom it reaches a second time its run had not seen, and that   *)
(* run waited while another one pushed.                                      *)
LEMMA AlertGood ==
  ASSUME AlertInv, NEW r \in WatchRuns, NEW m \in Mails, Alert(r, m)
  PROVE  AlertInv'
<1>1. PICK taken \in BOOLEAN, answered \in BOOLEAN :
        /\ watch' = [watch EXCEPT ![r].left = @ \ {m},
                                  ![r].seen = IF SeenAfter(taken /\ answered) THEN @ \cup {m} ELSE @,
                                  ![r].told = IF taken THEN @ \cup {m} ELSE @]
        /\ alerts' = [alerts EXCEPT ![m] = IF taken THEN @ + 1 ELSE @]
        /\ disturbed' = IF taken /\ ~answered THEN disturbed \cup {m} ELSE disturbed
  BY DEF Alert
<1>2. record' = record /\ watch[r].pc = "alert" /\ m \in watch[r].left /\ m \notin watch[r].seen \cup watch[r].told
  BY DEF Alert, AlertInv, WatchesAreOrdered
<1>3. /\ watch' = [watch EXCEPT ![r] = watch'[r]] /\ watch'[r] \in RunTypes
      /\ watch'[r].pc = "alert" /\ watch'[r].newest = watch[r].newest /\ watch'[r].left = watch[r].left \ {m}
      /\ watch'[r].seen = IF taken /\ answered THEN watch[r].seen \cup {m} ELSE watch[r].seen
      /\ watch'[r].told = IF taken THEN watch[r].told \cup {m} ELSE watch[r].told
  BY <1>1, <1>2 DEF AlertInv, AlertTypes, RunTypes, SeenAfter
<1>4. /\ alerts' \in [Mails -> Nat] /\ disturbed \subseteq disturbed' /\ disturbed' \subseteq Mails
      /\ \A n \in Mails : alerts'[n] = IF n = m /\ taken THEN alerts[n] + 1 ELSE alerts[n]
      /\ taken /\ ~answered => m \in disturbed'
  BY <1>1 DEF AlertInv, AlertTypes
<1>5. AlertTypes' /\ OneWatches'
  BY <1>2, <1>3, <1>4 DEF AlertInv, AlertTypes, OneWatches, Watching
<1>6. WatchesAreOrdered'
  <2>1. \A s \in WatchRuns : s # r => watch'[s] = watch[s]
    BY <1>3 DEF AlertInv, AlertTypes
  <2>2. watch[r].seen \subseteq Mails /\ \A s \in WatchRuns : watch[s].seen \subseteq Mails
    BY DEF AlertInv, AlertTypes, RunTypes
  <2>3. \A n \in Mails : alerts[n] > 0 => alerts'[n] > 0
    BY <1>4 DEF AlertInv, AlertTypes
  <2>4. \A s \in WatchRuns : s # r =>
          /\ ~Watching(s)' => watch'[s].told = {} /\ watch'[s].left = {}
          /\ watch'[s].left \cap (watch'[s].seen \cup watch'[s].told) = {}
          /\ watch'[s].pc # "none" /\ watch'[s].newest => record' \subseteq watch'[s].seen
          /\ watch'[s].told \subseteq watch'[s].seen \cup disturbed'
          /\ \A n \in watch'[s].seen : alerts'[n] > 0
    BY <1>2, <1>4, <2>1, <2>2, <2>3 DEF AlertInv, WatchesAreOrdered, Watching
  <2>5. /\ Watching(r)'
        /\ watch'[r].left \cap (watch'[r].seen \cup watch'[r].told) = {}
        /\ watch'[r].newest => record' \subseteq watch'[r].seen
        /\ watch'[r].told \subseteq watch'[r].seen \cup disturbed'
    BY <1>2, <1>3, <1>4 DEF AlertInv, WatchesAreOrdered, Watching
  <2>6. \A n \in watch'[r].seen : alerts'[n] > 0
    BY <1>3, <1>4, <2>2, <2>3 DEF AlertInv, AlertTypes, WatchesAreOrdered
  <2> QED  BY <2>4, <2>5, <2>6 DEF WatchesAreOrdered
<1>7. ToldIsKept'
  BY <1>2, <1>3, <1>4 DEF AlertInv, AlertTypes, ToldIsKept
<1>8. SeenWasAlerted'
  BY <1>2, <1>4 DEF AlertInv, AlertTypes, SeenWasAlerted
<1>9. AlertedTwiceOnlyWhenDisturbed'
  <2>1. ASSUME taken, alerts[m] > 0, m \notin disturbed
        PROVE  ~watch[r].newest
    <3>1. \A s \in WatchRuns : m \in watch[s].told => s = r
      BY <1>2 DEF AlertInv, OneWatches, WatchesAreOrdered, Watching
    <3> QED  BY <1>2, <2>1, <3>1 DEF AlertInv, ToldIsKept, WatchesAreOrdered
  <2>2. \A s \in WatchRuns : watch'[s].newest = watch[s].newest /\ watch[s].told \subseteq watch'[s].told
    BY <1>3 DEF AlertInv, AlertTypes
  <2> QED  BY <1>3, <1>4, <2>1, <2>2 DEF AlertInv, AlertTypes, AlertedTwiceOnlyWhenDisturbed
<1> QED  BY <1>5, <1>6, <1>7, <1>8, <1>9 DEF AlertInv

LEMMA SaveGood ==
  ASSUME AlertInv, NEW r \in WatchRuns, SaveRecord(r)
  PROVE  AlertInv'
<1>1. /\ watch' = [watch EXCEPT ![r] = watch'[r]] /\ watch'[r] \in RunTypes /\ watch'[r].pc = "push"
      /\ watch'[r].seen = watch[r].seen /\ watch'[r].newest = watch[r].newest
      /\ watch'[r].left = watch[r].left /\ watch'[r].told = watch[r].told
      /\ watch[r].pc = "alert" /\ UNCHANGED <<record, alerts, disturbed>>
  BY DEF AlertInv, AlertTypes, RunTypes, SaveRecord
<1>2. AlertTypes' /\ OneWatches' /\ WatchesAreOrdered'
  BY <1>1 DEF AlertInv, AlertTypes, OneWatches, WatchesAreOrdered, Watching
<1>3. ToldIsKept' /\ SeenWasAlerted' /\ AlertedTwiceOnlyWhenDisturbed'
  BY <1>1 DEF AlertInv, AlertTypes, ToldIsKept, SeenWasAlerted, AlertedTwiceOnlyWhenDisturbed
<1> QED  BY <1>2, <1>3 DEF AlertInv

(* What is pushed holds the record of everybody else, and what it told.      *)
LEMMA PushGood ==
  ASSUME AlertInv, NEW r \in WatchRuns, PushRecord(r)
  PROVE  AlertInv'
<1>1. /\ record \subseteq watch[r].seen /\ record' = watch[r].seen /\ Watching(r)
      /\ watch[r].newest /\ UNCHANGED <<alerts, disturbed>>
  BY DEF AlertInv, WatchesAreOrdered, PushRecord, Pushable, Watching
<1>2. \A w \in WatchRuns : w # r =>
        /\ watch'[w] \in RunTypes /\ watch'[w].pc = watch[w].pc /\ watch'[w].seen = watch[w].seen
        /\ watch'[w].left = watch[w].left /\ watch'[w].told = watch[w].told
        /\ watch[w].told = {} /\ ~Watching(w) /\ (watch'[w].newest <=> watch[w].pc = "none")
  <2>1. SUFFICES ASSUME NEW w \in WatchRuns, w # r
                 PROVE  /\ watch'[w] \in RunTypes /\ watch'[w].pc = watch[w].pc /\ watch'[w].seen = watch[w].seen
                        /\ watch'[w].left = watch[w].left /\ watch'[w].told = watch[w].told
                        /\ watch[w].told = {} /\ ~Watching(w) /\ (watch'[w].newest <=> watch[w].pc = "none")
    OBVIOUS
  <2>2. watch'[w] = [watch[w] EXCEPT !.newest = (watch[w].pc = "none")] /\ watch[w] \in RunTypes
    BY <2>1 DEF AlertInv, AlertTypes, PushRecord
  <2>3. (watch[w].pc = "none") \in BOOLEAN
    OBVIOUS
  <2>4. watch[w].told = {} /\ ~Watching(w)
    BY <1>1, <2>1 DEF AlertInv, WatchesAreOrdered, OneWatches
  <2>5. CASE watch[w].pc = "none"
    <3>1. watch'[w] = [watch[w] EXCEPT !.newest = TRUE]
      BY <2>2, <2>5
    <3> QED  BY <2>2, <2>4, <2>5, <3>1 DEF RunTypes
  <2>6. CASE watch[w].pc # "none"
    <3>1. watch'[w] = [watch[w] EXCEPT !.newest = FALSE]
      BY <2>2, <2>6
    <3> QED  BY <2>2, <2>4, <2>6, <3>1 DEF RunTypes
  <2> QED  BY <2>5, <2>6
<1>3. watch'[r] = NotWatching /\ watch' \in [WatchRuns -> RunTypes]
  BY <1>2 DEF PushRecord, NotWatching, RunTypes
<1>4. AlertTypes' /\ OneWatches'
  BY <1>1, <1>2, <1>3 DEF AlertInv, AlertTypes, RunTypes, OneWatches, Watching, NotWatching
<1>5. WatchesAreOrdered'
  BY <1>1, <1>2, <1>3 DEF AlertInv, WatchesAreOrdered, Watching, NotWatching
<1>6. ToldIsKept'
  BY <1>1, <1>2 DEF AlertInv, ToldIsKept, WatchesAreOrdered
<1>7. SeenWasAlerted' /\ AlertedTwiceOnlyWhenDisturbed'
  BY <1>1, <1>2 DEF AlertInv, WatchesAreOrdered, SeenWasAlerted, AlertedTwiceOnlyWhenDisturbed
<1> QED  BY <1>4, <1>5, <1>6, <1>7 DEF AlertInv

LEMMA LoseGood ==
  ASSUME AlertInv, NEW r \in WatchRuns, LoseRecord(r)
  PROVE  AlertInv'
<1>1. /\ watch' = [watch EXCEPT ![r] = NotWatching] /\ disturbed' = disturbed \cup watch[r].told
      /\ UNCHANGED <<record, alerts>> /\ NotWatching \in RunTypes /\ watch[r].told \subseteq Mails
  BY DEF AlertInv, AlertTypes, RunTypes, LoseRecord, NotWatching
<1>2. AlertTypes' /\ OneWatches'
  BY <1>1 DEF AlertInv, AlertTypes, OneWatches, Watching, NotWatching
<1>3. WatchesAreOrdered'
  BY <1>1 DEF AlertInv, AlertTypes, WatchesAreOrdered, Watching, NotWatching
<1>4. ToldIsKept' /\ SeenWasAlerted' /\ AlertedTwiceOnlyWhenDisturbed'
  BY <1>1 DEF AlertInv, AlertTypes, ToldIsKept, SeenWasAlerted, AlertedTwiceOnlyWhenDisturbed
<1> QED  BY <1>2, <1>3, <1>4 DEF AlertInv

LEMMA AlertInvariance == AlertsSpec => []AlertInv
<1>1. ASSUME AlertInv, [AlertsNext]_alertVars
      PROVE  AlertInv'
  <2>1. CASE UNCHANGED alertVars \/ \E m \in Mails : MailAges(m)
    BY <1>1, <2>1 DEF alertVars, MailAges, AlertInv, AlertTypes, OneWatches, WatchesAreOrdered, ToldIsKept,
                      SeenWasAlerted, AlertedTwiceOnlyWhenDisturbed, Watching
  <2> QED
    BY <1>1, <2>1, TriggerGood, StartWatchGood, AlertGood, SaveGood, PushGood, LoseGood DEF AlertsNext
<1> QED  BY <1>1, AlertsInitGood, PTL DEF AlertsSpec

(* The committed record names only mails whose alert was delivered.          *)
THEOREM RecordTellsTruth == AlertsSpec => []SeenWasAlerted
BY AlertInvariance, PTL DEF AlertInv

(* A mail is alerted twice only after a lost answer or record, or by a run   *)
(* whose checkout another run had overtaken.                                 *)
THEOREM AlertedOnce == AlertsSpec => []AlertedTwiceOnlyWhenDisturbed
BY AlertInvariance, PTL DEF AlertInv

-------------------------------------------------------------------------------
(* The notices.                                                              *)
TellerTypes == [job : {"none", "owner", "once", "flush", "notify.flush"}, left : SUBSET Notices,
                at : {"post", "note"}, ok : BOOLEAN]
NoticeTypes ==
  /\ row \in [Notices -> [there : BOOLEAN, delivered : BOOLEAN, attempts : Nat, old : BOOLEAN]]
  /\ teller \in [Tellers -> TellerTypes]
  /\ posts \in [Notices -> Nat] /\ spoiled \subseteq Notices

\* This process has just posted the notice, and was told so.
JustTold(t, n) == teller[t].at = "note" /\ teller[t].ok /\ Next1(t) = n
\* Only notify_owner() has a notice in hand that is in no row, and that one alone.
TellersAreOrdered ==
  \A t \in Tellers :
    /\ teller[t].left # {} => teller[t].job # "none"
    /\ \A n \in teller[t].left : teller[t].job # "owner" => row[n].there
    /\ teller[t].at = "note" /\ teller[t].ok => posts[Next1(t)] > 0
RowsAreOrdered == \A n \in Notices : row[n].delivered => row[n].there
\* An undisturbed notice is in one hand, and unposted there or just posted.
HandsAreOne ==
  \A n \in Notices \ spoiled :
    /\ \A t, s \in Tellers : n \in teller[t].left \cap teller[s].left => t = s
    /\ \A t \in Tellers : n \in teller[t].left /\ posts[n] > 0 => JustTold(t, n)
PostedIsKnown ==
  \A n \in Notices \ spoiled : posts[n] > 0 => row[n].delivered \/ InHand(n)
NoticeInv ==
  /\ NoticeTypes /\ TellersAreOrdered /\ RowsAreOrdered /\ HandsAreOne /\ PostedIsKnown
  /\ DeliveredWasTold /\ TwiceOnlyWhenSpoiled

LEMMA OldestIsThere ==
  ASSUME NEW s, s \subseteq Notices, s # {}
  PROVE  Oldest(s) \in s
<1>1. \E n \in s : \A m \in s : n <= m
  BY NotificationsAssumption DEF NotificationsAssumption
<1> QED  BY <1>1 DEF Oldest

LEMMA NoticesInitGood == NoticesInit => NoticeInv
<1>1. Resting \in TellerTypes /\ Resting.left = {} /\ Resting.at = "post"
  BY DEF Resting, TellerTypes
<1>2. NoNotice \in [there : BOOLEAN, delivered : BOOLEAN, attempts : Nat, old : BOOLEAN] /\ ~NoNotice.delivered
  BY DEF NoNotice
<1>3. SUFFICES ASSUME NoticesInit
               PROVE  NoticeInv
  OBVIOUS
<1>4. NoticeTypes
  BY <1>1, <1>2, <1>3 DEF NoticesInit, NoticeTypes
<1>5. (\A t \in Tellers : teller[t].left = {} /\ teller[t].at = "post")
      /\ (\A n \in Notices : ~row[n].delivered /\ posts[n] = 0)
  BY <1>1, <1>2, <1>3 DEF NoticesInit
<1> QED
  BY <1>4, <1>5 DEF NoticeInv, TellersAreOrdered, RowsAreOrdered, HandsAreOne, PostedIsKnown, DeliveredWasTold,
                    TwiceOnlyWhenSpoiled

(* A process at rest takes notices in hand that nobody was told of.          *)
LEMMA TakeGood ==
  ASSUME NoticeInv, NEW t \in Tellers, NEW job \in {"owner", "once", "flush", "notify.flush"},
         NEW notices \in SUBSET Notices, teller[t] = Resting, Take(t, job, notices),
         row' \in [Notices -> [there : BOOLEAN, delivered : BOOLEAN, attempts : Nat, old : BOOLEAN]],
         \A n \in Notices : /\ row[n].there => row'[n].there
                            /\ row'[n].delivered <=> row[n].delivered,
         \A n \in notices : ~row[n].delivered /\ (job # "owner" => row'[n].there), posts' = posts
  PROVE  NoticeInv'
<1>1. /\ teller' = [teller EXCEPT ![t] = teller'[t]]
      /\ teller'[t] \in TellerTypes /\ teller'[t].job = job /\ teller'[t].left = notices /\ teller'[t].at = "post"
  BY DEF Take, NoticeInv, NoticeTypes, TellerTypes
<1>2. spoiled' = spoiled \cup {n \in notices : InHand(n)} /\ teller[t].left = {}
  BY DEF Take, Resting
<1>3. NoticeTypes'
  BY <1>1, <1>2 DEF NoticeInv, NoticeTypes
<1>4. \A s \in Tellers : s # t => teller'[s] = teller[s] /\ (Next1(s))' = Next1(s)
  BY <1>1 DEF NoticeInv, NoticeTypes, Next1
<1>5. TellersAreOrdered'
  <2>1. \A s \in Tellers : teller[s].left \subseteq Notices
    BY DEF NoticeInv, NoticeTypes, TellerTypes
  <2> QED  BY <1>1, <1>4, <2>1 DEF NoticeInv, TellersAreOrdered
<1>6. RowsAreOrdered' /\ DeliveredWasTold' /\ TwiceOnlyWhenSpoiled'
  BY <1>2 DEF NoticeInv, RowsAreOrdered, DeliveredWasTold, TwiceOnlyWhenSpoiled
<1>7. HandsAreOne'
  <2>1. SUFFICES ASSUME NEW n \in Notices, n \notin spoiled'
                 PROVE  /\ \A s, u \in Tellers : n \in teller'[s].left \cap teller'[u].left => s = u
                        /\ \A s \in Tellers : n \in teller'[s].left /\ posts[n] > 0 => JustTold(s, n)'
    BY DEF HandsAreOne
  <2>2. n \notin spoiled /\ (n \in notices => \A s \in Tellers : n \notin teller[s].left)
    BY <1>2, <2>1 DEF InHand
  <2>3. n \in notices => posts[n] = 0
    BY <2>1, <2>2 DEF NoticeInv, NoticeTypes, PostedIsKnown, InHand
  <2>4. \A s \in Tellers : s # t => (JustTold(s, n)' <=> JustTold(s, n))
    BY <1>4 DEF JustTold
  <2>5. CASE n \in notices
    BY <1>1, <1>4, <2>2, <2>3, <2>5
  <2>6. CASE n \notin notices
    BY <1>1, <1>4, <2>1, <2>2, <2>4, <2>6 DEF NoticeInv, HandsAreOne
  <2> QED  BY <2>5, <2>6
<1>8. PostedIsKnown'
  <2>1. \A n \in Notices : InHand(n) => InHand(n)'
    BY <1>2, <1>4 DEF InHand
  <2> QED  BY <1>2, <2>1 DEF NoticeInv, PostedIsKnown
<1> QED  BY <1>3, <1>5, <1>6, <1>7, <1>8 DEF NoticeInv

(* Whoever takes notices in hand.                                            *)
Takes(t) ==
  \/ \E n \in Notices : TellOwner(t, n) \/ TellOnce(t, n) \/ Retry(t, n)
  \/ \E c \in Channels : StartFlush(t, c)
  \/ StartNotifyFlush(t)
LEMMA TakesGood ==
  ASSUME NoticeInv, NEW t \in Tellers, Takes(t)
  PROVE  NoticeInv'
<1>1. CASE \E n \in Notices : TellOwner(t, n)
  <2>1. PICK n \in Notices : TellOwner(t, n)
    BY <1>1
  <2>2. ~row[n].delivered
    BY <2>1 DEF TellOwner, NoNotice
  <2> QED  BY <2>1, <2>2, TakeGood DEF TellOwner, NoticeInv, NoticeTypes
<1>2. CASE \E n \in Notices : TellOnce(t, n)
  <2>1. PICK n \in Notices : TellOnce(t, n)
    BY <1>2
  <2>2. ~row[n].delivered /\ ~row[n].there /\ NewNotice(FALSE).there /\ ~NewNotice(FALSE).delivered
        /\ NewNotice(FALSE) \in [there : BOOLEAN, delivered : BOOLEAN, attempts : Nat, old : BOOLEAN]
    BY <2>1 DEF TellOnce, KeyTaken, NoticeInv, RowsAreOrdered, NewNotice
  <2>3. /\ row' = [row EXCEPT ![n] = NewNotice(FALSE)] /\ posts' = posts
        /\ row' \in [Notices -> [there : BOOLEAN, delivered : BOOLEAN, attempts : Nat, old : BOOLEAN]]
        /\ \A m \in Notices : (row[m].there => row'[m].there) /\ (row'[m].delivered <=> row[m].delivered)
        /\ row'[n].there
    BY <2>1, <2>2 DEF TellOnce, NoticeInv, NoticeTypes
  <2>4. CASE Take(t, "once", {n})
    <3>1. teller[t] = Resting /\ {n} \in SUBSET Notices
      BY <2>1 DEF TellOnce
    <3>2. \A m \in {n} : ~row[m].delivered /\ row'[m].there
      BY <2>2, <2>3
    <3> QED  BY <2>3, <2>4, <3>1, <3>2, TakeGood, ZenonT(60)
  <2>5. CASE UNCHANGED <<teller, spoiled>>
    <3>1. \A s \in Tellers : (Next1(s))' = Next1(s) /\ teller[s].left \subseteq Notices
      BY <2>5 DEF Next1, NoticeInv, NoticeTypes, TellerTypes
    <3>2. NoticeTypes' /\ TellersAreOrdered' /\ RowsAreOrdered'
      BY <2>3, <2>5, <3>1 DEF NoticeInv, NoticeTypes, TellersAreOrdered, RowsAreOrdered
    <3>3. HandsAreOne' /\ PostedIsKnown' /\ DeliveredWasTold' /\ TwiceOnlyWhenSpoiled'
      BY <2>3, <2>5, <3>1 DEF NoticeInv, HandsAreOne, PostedIsKnown, DeliveredWasTold, TwiceOnlyWhenSpoiled, JustTold, InHand
    <3> QED  BY <3>2, <3>3 DEF NoticeInv
  <2> QED  BY <2>1, <2>4, <2>5 DEF TellOnce
<1>3. CASE \E n \in Notices : Retry(t, n)
  <2>1. PICK n \in Notices : Retry(t, n)
    BY <1>3
  <2> QED  BY <2>1, TakeGood DEF Retry, NoticeInv, NoticeTypes
<1>4. CASE \E c \in Channels : StartFlush(t, c)
  BY <1>4, TakeGood DEF StartFlush, Flushable, NoticeInv, NoticeTypes
<1>5. CASE StartNotifyFlush(t)
  BY <1>5, TakeGood DEF StartNotifyFlush, Undelivered, NoticeInv, NoticeTypes
<1> QED  BY <1>1, <1>2, <1>3, <1>4, <1>5 DEF Takes

(* One web request. Nobody was told of an undisturbed notice before it.      *)
LEMMA PostGood ==
  ASSUME NoticeInv, NEW t \in Tellers, Post(t) \/ TellOnDiscord(t)
  PROVE  NoticeInv'
<1> DEFINE n == Next1(t)
<1>1. n \in teller[t].left /\ n \in Notices /\ teller[t].at = "post"
  BY OldestIsThere DEF Post, TellOnDiscord, ToPost, Next1, NoticeInv, NoticeTypes, TellerTypes
<1>2. PICK taken \in BOOLEAN, answered \in BOOLEAN :
        /\ posts' = [posts EXCEPT ![n] = IF taken THEN @ + 1 ELSE @]
        /\ teller' = [teller EXCEPT ![t].at = "note", ![t].ok = taken /\ answered]
        /\ spoiled' = IF taken /\ ~answered THEN spoiled \cup {n} ELSE spoiled
  <2>1. CASE Post(t)
    BY <2>1 DEF Post
  <2>2. CASE TellOnDiscord(t)
    <3>1. /\ posts' = [posts EXCEPT ![n] = IF TRUE THEN @ + 1 ELSE @]
          /\ teller' = [teller EXCEPT ![t].at = "note", ![t].ok = TRUE /\ FALSE]
          /\ spoiled' = IF TRUE /\ ~FALSE THEN spoiled \cup {n} ELSE spoiled
      BY <2>2 DEF TellOnDiscord
    <3> QED  BY <3>1
  <2> QED  BY <2>1, <2>2
<1>3. /\ posts' \in [Notices -> Nat] /\ spoiled \subseteq spoiled' /\ spoiled' \subseteq Notices /\ row' = row
      /\ posts'[n] = IF taken THEN posts[n] + 1 ELSE posts[n]
      /\ \A m \in Notices : m # n => posts'[m] = posts[m]
  <2>1. row' = row
    BY DEF Post, TellOnDiscord
  <2> QED  BY <1>1, <1>2, <2>1 DEF NoticeInv, NoticeTypes
<1>4. /\ teller' = [teller EXCEPT ![t] = teller'[t]] /\ teller'[t] \in TellerTypes
      /\ teller'[t].left = teller[t].left /\ teller'[t].job = teller[t].job
      /\ teller'[t].at = "note" /\ (teller'[t].ok <=> taken /\ answered)
  BY <1>2 DEF NoticeInv, NoticeTypes, TellerTypes
<1>5. \A s \in Tellers : (Next1(s))' = Next1(s) /\ teller'[s].left = teller[s].left /\ teller'[s].job = teller[s].job
                         /\ (s # t => teller'[s] = teller[s])
  BY <1>4 DEF NoticeInv, NoticeTypes, Next1
<1>6. NoticeTypes'
  BY <1>3, <1>4 DEF NoticeInv, NoticeTypes
<1>7. \A m \in Notices : posts[m] > 0 => posts'[m] > 0
  BY <1>1, <1>3 DEF NoticeInv, NoticeTypes
<1>8. n \notin spoiled => posts[n] = 0
  BY <1>1 DEF NoticeInv, NoticeTypes, HandsAreOne, JustTold
<1>9. TellersAreOrdered'
  <2>1. \A s \in Tellers : s # t /\ teller[s].at = "note" /\ teller[s].ok => posts'[Next1(s)] > 0
    <3>1. SUFFICES ASSUME NEW s \in Tellers, s # t, teller[s].at = "note", teller[s].ok
                   PROVE  posts'[Next1(s)] > 0
      OBVIOUS
    <3>2. posts[Next1(s)] > 0
      BY <3>1 DEF NoticeInv, TellersAreOrdered
    <3>3. CASE Next1(s) \in Notices
      BY <1>7, <3>2, <3>3
    <3>4. CASE Next1(s) \notin Notices
      BY <1>1, <1>2, <3>2, <3>4 DEF NoticeInv, NoticeTypes
    <3> QED  BY <3>3, <3>4
  <2>2. teller'[t].ok => posts'[n] > 0
    BY <1>1, <1>3, <1>4 DEF NoticeInv, NoticeTypes
  <2> QED  BY <1>3, <1>5, <2>1, <2>2 DEF NoticeInv, TellersAreOrdered
<1>10. RowsAreOrdered' /\ DeliveredWasTold'
  BY <1>3, <1>7 DEF NoticeInv, RowsAreOrdered, DeliveredWasTold
<1>11. TwiceOnlyWhenSpoiled'
  BY <1>3, <1>8 DEF NoticeInv, NoticeTypes, TwiceOnlyWhenSpoiled
<1>12. PostedIsKnown'
  <2>1. \A m \in Notices : InHand(m)' <=> InHand(m)
    BY <1>5 DEF InHand
  <2>2. InHand(n)
    BY <1>1 DEF InHand
  <2> QED  BY <1>3, <2>1, <2>2 DEF NoticeInv, PostedIsKnown
<1>13. HandsAreOne'
  <2>1. SUFFICES ASSUME NEW m \in Notices, m \notin spoiled'
                 PROVE  /\ \A s, u \in Tellers : m \in teller'[s].left \cap teller'[u].left => s = u
                        /\ \A s \in Tellers : m \in teller'[s].left /\ posts'[m] > 0 => JustTold(s, m)'
    BY DEF HandsAreOne
  <2>2. m \notin spoiled /\ \A s, u \in Tellers : m \in teller'[s].left \cap teller'[u].left => s = u
    BY <1>3, <1>5, <2>1 DEF NoticeInv, HandsAreOne
  <2>3. CASE m = n
    <3>1. posts'[m] > 0 => taken /\ answered
      BY <1>2, <1>3, <1>8, <2>1, <2>2, <2>3
    <3>2. posts'[m] > 0 => JustTold(t, m)'
      BY <1>4, <1>5, <2>3, <3>1 DEF JustTold
    <3> QED  BY <1>1, <1>5, <2>2, <2>3, <3>2
  <2>4. CASE m # n
    <3>1. ASSUME NEW s \in Tellers, m \in teller[s].left, posts[m] > 0
          PROVE  JustTold(s, m)'
      <4>1. JustTold(s, m)
        BY <2>2, <3>1 DEF NoticeInv, HandsAreOne
      <4>2. s # t
        BY <1>1, <4>1 DEF JustTold
      <4> QED  BY <1>5, <4>1, <4>2 DEF JustTold
    <3> QED  BY <1>3, <1>5, <2>2, <2>4, <3>1
  <2> QED  BY <2>3, <2>4
<1> QED  BY <1>6, <1>9, <1>10, <1>11, <1>12, <1>13 DEF NoticeInv

(* What is noted is what was answered; the notice leaves the hand.           *)
LEMMA NoteGood ==
  ASSUME NoticeInv, NEW t \in Tellers, Note(t)
  PROVE  NoticeInv'
<1> DEFINE n == Next1(t)
<1>1. n \in teller[t].left /\ n \in Notices /\ teller[t].at = "note" /\ UNCHANGED <<posts, spoiled>>
      /\ teller[t].job # "none" /\ teller[t] \in TellerTypes
  BY OldestIsThere DEF Note, Noting, Next1, NoticeInv, NoticeTypes, TellerTypes
<1>2. /\ Noted(t, row[n]) \in [there : BOOLEAN, delivered : BOOLEAN, attempts : Nat, old : BOOLEAN]
      /\ Noted(t, row[n]).there
      /\ Noted(t, row[n]).delivered => teller[t].ok \/ row[n].delivered
      /\ teller[t].ok => Noted(t, row[n]).delivered
  <2>1. row[n] \in [there : BOOLEAN, delivered : BOOLEAN, attempts : Nat, old : BOOLEAN] /\ teller[t].ok \in BOOLEAN
    BY <1>1 DEF NoticeInv, NoticeTypes, TellerTypes
  <2>2. CASE teller[t].job = "owner"
    BY <2>1, <2>2 DEF Noted, NewNotice
  <2>3. CASE teller[t].job = "notify.flush"
    <3>1. row[n].there
      BY <1>1, <2>3 DEF NoticeInv, TellersAreOrdered
    <3> QED  BY <2>1, <2>3, <3>1 DEF Noted
  <2>4. CASE teller[t].job \notin {"owner", "notify.flush"}
    <3>1. row[n].there /\ Noted(t, row[n]) = NotedOwn(t, row[n])
      BY <1>1, <2>4 DEF NoticeInv, TellersAreOrdered, Noted
    <3>2. (IF row[n].attempts < TriesOf[ChannelOf[Next1(t)]] THEN row[n].attempts + 1 ELSE row[n].attempts) \in Nat
      BY <2>1
    <3> QED  BY <2>1, <3>1, <3>2 DEF NotedOwn
  <2> QED  BY <2>2, <2>3, <2>4
<1>3. row' = [row EXCEPT ![n] = Noted(t, row[n])] /\ teller' = [teller EXCEPT ![t] = Done1(t)]
  BY DEF Note
<1>4. Done1(t) \in TellerTypes /\ Done1(t).left = teller[t].left \ {n} /\ Done1(t).at = "post"
      /\ (Done1(t).left # {} => Done1(t).job = teller[t].job)
  BY <1>1 DEF Done1, Resting, TellerTypes
<1>5. NoticeTypes'
  BY <1>1, <1>2, <1>3, <1>4 DEF NoticeInv, NoticeTypes
<1>6. \A s \in Tellers : s # t => teller'[s] = teller[s] /\ (Next1(s))' = Next1(s)
  BY <1>3 DEF NoticeInv, NoticeTypes, Next1
<1>7. teller'[t] = Done1(t) /\ row'[n] = Noted(t, row[n]) /\ \A m \in Notices : m # n => row'[m] = row[m]
  BY <1>1, <1>3 DEF NoticeInv, NoticeTypes
<1>8. TellersAreOrdered'
  <2>1. \A m \in Notices : row[m].there => row'[m].there
    BY <1>2, <1>7
  <2>2. \A s \in Tellers : teller[s].left \subseteq Notices
    BY DEF NoticeInv, NoticeTypes, TellerTypes
  <2>3. \A s \in Tellers : s # t =>
          /\ teller'[s].left # {} => teller'[s].job # "none"
          /\ \A m \in teller'[s].left : teller'[s].job # "owner" => row'[m].there
          /\ teller'[s].at = "note" /\ teller'[s].ok => posts'[(Next1(s))'] > 0
    BY <1>1, <1>6, <2>1, <2>2 DEF NoticeInv, TellersAreOrdered
  <2>4. /\ teller'[t].left # {} => teller'[t].job # "none"
        /\ \A m \in teller'[t].left : teller'[t].job # "owner" => row'[m].there
        /\ teller'[t].at = "post"
    BY <1>1, <1>4, <1>7, <2>1, <2>2 DEF NoticeInv, TellersAreOrdered
  <2> QED  BY <2>3, <2>4 DEF TellersAreOrdered
<1>9. RowsAreOrdered'
  BY <1>2, <1>7 DEF NoticeInv, RowsAreOrdered
<1>10. DeliveredWasTold'
  <2>1. teller[t].ok => posts[n] > 0
    BY <1>1 DEF NoticeInv, TellersAreOrdered
  <2> QED  BY <1>1, <1>2, <1>7, <2>1 DEF NoticeInv, DeliveredWasTold
<1>11. TwiceOnlyWhenSpoiled'
  BY <1>1 DEF NoticeInv, TwiceOnlyWhenSpoiled
<1>12. HandsAreOne'
  <2>1. SUFFICES ASSUME NEW m \in Notices, m \notin spoiled
                 PROVE  /\ \A s, u \in Tellers : m \in teller'[s].left \cap teller'[u].left => s = u
                        /\ \A s \in Tellers : m \in teller'[s].left /\ posts[m] > 0 => JustTold(s, m)'
    BY <1>1 DEF HandsAreOne
  <2>2. \A s \in Tellers : teller'[s].left \subseteq teller[s].left
    BY <1>4, <1>6, <1>7
  <2>3. ASSUME NEW s \in Tellers, m \in teller'[s].left, posts[m] > 0
        PROVE  JustTold(s, m)'
    <3>1. JustTold(s, m)
      BY <2>1, <2>2, <2>3 DEF NoticeInv, HandsAreOne
    <3>2. s # t
      BY <1>4, <1>7, <2>3, <3>1 DEF JustTold
    <3> QED  BY <1>6, <3>1, <3>2 DEF JustTold
  <2> QED  BY <2>1, <2>2, <2>3 DEF NoticeInv, HandsAreOne
<1>13. PostedIsKnown'
  <2>1. SUFFICES ASSUME NEW m \in Notices, m \notin spoiled, posts[m] > 0
                 PROVE  row'[m].delivered \/ InHand(m)'
    BY <1>1 DEF PostedIsKnown
  <2>2. CASE m = n
    <3>1. teller[t].ok
      BY <1>1, <2>1, <2>2 DEF NoticeInv, HandsAreOne, JustTold
    <3> QED  BY <1>2, <1>7, <2>2, <3>1
  <2>3. CASE m # n
    <3>1. \A s \in Tellers : m \in teller[s].left => m \in teller'[s].left
      BY <1>4, <1>6, <1>7, <2>3
    <3> QED  BY <1>7, <2>1, <2>3, <3>1 DEF NoticeInv, PostedIsKnown, InHand
  <2> QED  BY <2>2, <2>3
<1> QED  BY <1>5, <1>8, <1>9, <1>10, <1>11, <1>12, <1>13 DEF NoticeInv

(* A process dies: what it had just told and not noted is disturbed.         *)
LEMMA DeathGood ==
  ASSUME NoticeInv, NEW t \in Tellers, TellerDies(t)
  PROVE  NoticeInv'
<1>1. /\ teller' = [teller EXCEPT ![t] = Resting] /\ UNCHANGED <<row, posts>>
      /\ spoiled' = IF Noting(t) /\ teller[t].ok THEN spoiled \cup {Next1(t)} ELSE spoiled
      /\ Resting \in TellerTypes /\ Resting.left = {} /\ Resting.at = "post"
  BY DEF TellerDies, Resting, TellerTypes
<1>2. \A s \in Tellers : s # t => teller'[s] = teller[s] /\ (Next1(s))' = Next1(s)
  BY <1>1 DEF NoticeInv, NoticeTypes, Next1
<1>3. teller'[t].left = {} /\ teller'[t].at = "post"
  BY <1>1 DEF NoticeInv, NoticeTypes
<1>4. spoiled \subseteq spoiled' /\ spoiled' \subseteq Notices
  BY <1>1, OldestIsThere DEF Noting, Next1, NoticeInv, NoticeTypes, TellerTypes
<1>5. NoticeTypes' /\ TellersAreOrdered'
  BY <1>1, <1>2, <1>3, <1>4 DEF NoticeInv, NoticeTypes, TellersAreOrdered
<1>6. RowsAreOrdered' /\ DeliveredWasTold' /\ TwiceOnlyWhenSpoiled'
  BY <1>1, <1>4 DEF NoticeInv, RowsAreOrdered, DeliveredWasTold, TwiceOnlyWhenSpoiled
<1>7. HandsAreOne'
  <2>1. \A s \in Tellers, m \in Notices : m \in teller'[s].left => s # t /\ (JustTold(s, m)' <=> JustTold(s, m))
    BY <1>2, <1>3 DEF JustTold
  <2> QED  BY <1>1, <1>2, <1>4, <2>1 DEF NoticeInv, HandsAreOne
<1>8. PostedIsKnown'
  <2>1. SUFFICES ASSUME NEW m \in Notices, m \notin spoiled', posts[m] > 0
                 PROVE  row[m].delivered \/ InHand(m)'
    BY <1>1 DEF PostedIsKnown
  <2>2. m \notin teller[t].left
    BY <1>1, <1>4, <2>1 DEF NoticeInv, HandsAreOne, JustTold, Noting, TellersAreOrdered
  <2> QED  BY <1>2, <1>4, <2>1, <2>2 DEF NoticeInv, PostedIsKnown, InHand
<1> QED  BY <1>5, <1>6, <1>7, <1>8 DEF NoticeInv

LEMMA QuietGood ==
  ASSUME NoticeInv, UNCHANGED noticeVars \/ \E n \in Notices : DayPasses(n)
  PROVE  NoticeInv'
<1>1. /\ row' \in [Notices -> [there : BOOLEAN, delivered : BOOLEAN, attempts : Nat, old : BOOLEAN]]
      /\ \A m \in Notices : row'[m].there = row[m].there /\ row'[m].delivered = row[m].delivered
      /\ UNCHANGED <<teller, posts, spoiled>>
  BY DEF noticeVars, DayPasses, NoticeInv, NoticeTypes
<1>2. \A s \in Tellers : (Next1(s))' = Next1(s) /\ teller[s].left \subseteq Notices
  BY <1>1 DEF Next1, NoticeInv, NoticeTypes, TellerTypes
<1>3. NoticeTypes' /\ TellersAreOrdered' /\ RowsAreOrdered'
  BY <1>1, <1>2 DEF NoticeInv, NoticeTypes, TellersAreOrdered, RowsAreOrdered
<1>4. HandsAreOne' /\ PostedIsKnown' /\ DeliveredWasTold' /\ TwiceOnlyWhenSpoiled'
  BY <1>1, <1>2 DEF NoticeInv, HandsAreOne, PostedIsKnown, DeliveredWasTold, TwiceOnlyWhenSpoiled, JustTold, InHand
<1> QED  BY <1>3, <1>4 DEF NoticeInv

LEMMA NoticeInvariance == NoticesSpec => []NoticeInv
<1>1. ASSUME NoticeInv, [NoticesNext]_noticeVars
      PROVE  NoticeInv'
  BY <1>1, TakesGood, PostGood, NoteGood, DeathGood, QuietGood DEF NoticesNext, Takes
<1> QED  BY <1>1, NoticesInitGood, PTL DEF NoticesSpec

(* A notice that counts as delivered reached the owner.                      *)
THEOREM ToldWhenDelivered == NoticesSpec => []DeliveredWasTold
BY NoticeInvariance, PTL DEF NoticeInv

(* A notice reaches the owner twice only when an answer was lost, a process  *)
(* died between the post and its mark, two had it in hand at once, or a mail *)
(* went over Discord for want of a key.                                      *)
THEOREM ToldOnce == NoticesSpec => []TwiceOnlyWhenSpoiled
BY NoticeInvariance, PTL DEF NoticeInv
===============================================================================
