------------------------------ MODULE JobAgent ------------------------------
(* The job agent (job_agent/): a run discovers postings, scores them, and     *)
(* applies to the best qualified ones in a browser, one after the other. What *)
(* it did is one row per posting, which every step overwrites by its id;      *)
(* nothing keeps two runs apart, and a click cannot be taken back.            *)
EXTENDS Naturals, FiniteSets, Sequences

CONSTANTS Postings,      \* numbered from the best score downwards
          PostingOf,     \* per posting: what discovery finds (see AgentAssumption)
          AgentRuns,     \* processes: the worker's job.agent.run and the CLI
          PerRun,        \* max_applications_per_run
          MaxCustom,     \* max_custom_questions
          MaxStarts      \* bound: runs in all

\* unknown and disqualifying: of a required field; optional: left empty
FieldKinds == {"verified", "optional", "generative", "unknown", "disqualifying", "sensitive",
               "assessment", "resume"}
ASSUME AgentAssumption ==
  /\ Postings \subseteq Nat /\ MaxStarts \in Nat
  /\ \A p \in Postings :
       PostingOf[p] \in [legitimate : BOOLEAN, rejected : BOOLEAN, good : BOOLEAN,
                         page : {"form", "no url", "captcha", "login", "sensitive", "assessment"},
                         fields : Seq(FieldKinds), long : BOOLEAN, button : {"submit", "next", "none"},
                         enabled : BOOLEAN, complete : BOOLEAN]

VARIABLES
  application,   \* per posting: its row of job_applications
  agent,         \* per run: where it is and what it has left
  clicks,        \* history, per posting: final clicks
  overlapped,    \* history: postings that two runs had on their lists at once
  starts

agentVars == <<application, agent, clicks, overlapped, starts>>

\* Modes: DRY_RUN; without AUTO_SUBMIT the final click is suppressed too.
Modes == {"dry", "review", "submit"}
NotApplying == [pc |-> "none", mode |-> "dry", list |-> {}, at |-> 0, verdict |-> "none"]

AgentInit ==
  /\ application = [p \in Postings |-> [status |-> "none", reason |-> "none"]]
  /\ agent = [a \in AgentRuns |-> NotApplying]
  /\ clicks = [p \in Postings |-> 0] /\ overlapped = {} /\ starts = 0

\* JobAgent.run() and the dry run; the CLI may also go straight to apply_jobs().
StartRun(a, mode) ==
  /\ agent[a].pc = "none" /\ starts < MaxStarts
  /\ starts' = starts + 1
  /\ agent' = [agent EXCEPT ![a] = [NotApplying EXCEPT !.pc = "discover", !.mode = mode]]
  /\ UNCHANGED <<application, clicks, overlapped>>

\* discover_jobs(): verify_legitimacy(), score_job(), and the threshold.
Promising(f) == ~f.rejected /\ f.good
JudgedPosting(p) ==
  LET f == PostingOf[p] IN
  IF f.legitimate /\ Promising(f) THEN "qualified" ELSE "rejected"

\* Mutant: a posting that is found again starts afresh.
UpsertedAgain(p, row) == [row EXCEPT !.status = JudgedPosting(p)]
\* upsert_discovered(): ON CONFLICT the status is left alone.
Upserted(p, row) == IF row.status = "none" THEN [row EXCEPT !.status = JudgedPosting(p)] ELSE row

\* DiscoveryService.discover(): the postings of the feeds that answer, by the id
\* of Job.job_id; a dead feed only leaves its own out.
Listed == Postings
\* One posting at a time; a bad one is left out.
DiscoverPosting(a, p) ==
  /\ agent[a].pc = "discover" /\ p \in Listed
  /\ application' = [application EXCEPT ![p] = Upserted(p, @)]
  /\ application' # application
  /\ UNCHANGED <<agent, clicks, overlapped, starts>>

\* qualified(limit): the best rows, as they are at this moment.
QualifiedRows == {p \in Postings : application[p].status = "qualified"}
BestOf(s) == {p \in s : Cardinality({q \in s : q <= p}) <= PerRun}
ListQualified(a) ==
  /\ agent[a].pc = "discover"
  /\ agent' = [agent EXCEPT ![a].pc = "next", ![a].list = BestOf(QualifiedRows)]
  /\ overlapped' = overlapped \cup {p \in BestOf(QualifiedRows) : \E b \in AgentRuns : p \in agent[b].list}
  /\ UNCHANGED <<application, clicks, starts>>

\* The run is done with a posting.
NextPosting(a, p) ==
  [agent EXCEPT ![a].pc = "next", ![a].at = 0, ![a].verdict = "none", ![a].list = @ \ {p}]
\* transition(): by id, whatever the row says now; a dry run writes nothing.
Transition(a, p, status, reason) ==
  IF agent[a].mode = "dry" THEN UNCHANGED application
  ELSE application' = [application EXCEPT ![p] = [status |-> status, reason |-> reason]]

\* _apply_one(): the row is "applying" before the browser opens; without its
\* resume the posting fails.
BeginApplying(a) ==
  /\ agent[a].pc = "next"
  /\ \E p \in agent[a].list :
       /\ \A q \in agent[a].list : p <= q
       /\ \/ /\ Transition(a, p, "applying", "none")
             /\ agent' = [agent EXCEPT ![a].pc = "browse", ![a].at = p]
          \/ Transition(a, p, "failed", "none") /\ agent' = NextPosting(a, p)
  /\ UNCHANGED <<clicks, overlapped, starts>>

\* QuestionClassifier.classify() and the loop over the fields
Stops(k) == k \in {"sensitive", "assessment", "unknown", "disqualifying"}
StopReason(k) ==
  IF k = "sensitive" THEN "sensitive_information_requested"
  ELSE IF k = "assessment" THEN "assessment_required" ELSE "unknown_answer"

\* _inspect_fill_submit() up to the final click: the page's text, the fields in
\* their order, the length, the button (another page behind the first makes it
\* long), and whether the browser still finds a field invalid.
PageReason(page) ==
  IF page = "no url" THEN "unsupported_ats"
  ELSE IF page = "captcha" THEN "captcha" ELSE IF page = "login" THEN "authentication_required"
  ELSE IF page = "sensitive" THEN "sensitive_information_requested" ELSE "assessment_required"
TooLong(f, custom) == custom > MaxCustom \/ f.long
Inspected(p) ==
  LET f == PostingOf[p]
      stop == {i \in DOMAIN f.fields : Stops(f.fields[i])}
      custom == Cardinality({i \in DOMAIN f.fields : f.fields[i] = "generative"}) IN
  IF f.page # "form" THEN PageReason(f.page)
  ELSE IF stop # {} THEN StopReason(f.fields[CHOOSE i \in stop : \A j \in stop : i <= j])
  ELSE IF TooLong(f, custom) \/ f.button = "next" THEN "application_too_long"
  ELSE IF f.button = "none" \/ ~f.enabled THEN "validation_failed"
  ELSE IF ~f.complete THEN "unknown_answer"
  ELSE "ready"

\* The page is inspected and filled in; or its resume is not there, the browser
\* fails, or takes too long.
InspectPage(a) ==
  /\ agent[a].pc = "browse"
  /\ \E verdict \in {Inspected(agent[a].at), "resume_unavailable", "timeout", "failed"} :
       agent' = [agent EXCEPT ![a].pc = IF verdict = "ready" /\ agent[a].mode = "submit" THEN "click" ELSE "record",
                              ![a].verdict = verdict]
  /\ UNCHANGED <<application, clicks, overlapped, starts>>

ClickSubmit(a) ==
  /\ agent[a].pc = "click"
  /\ clicks' = [clicks EXCEPT ![agent[a].at] = @ + 1]
  /\ agent' = [agent EXCEPT ![a].pc = "confirm"]
  /\ UNCHANGED <<application, overlapped, starts>>

\* The confirmation is read, or is not there, or the page cannot be read in time,
\* or the browser fails.
ReadConfirmation(a) ==
  /\ agent[a].pc = "confirm"
  /\ \E verdict \in {"submitted", "failed", "timeout"} :
       agent' = [agent EXCEPT ![a].pc = "record", ![a].verdict = verdict]
  /\ UNCHANGED <<application, clicks, overlapped, starts>>

\* The result becomes the row (a form that only waited for its click is a failure
\* too), and the owner is told; if that raises, apply_jobs() notes a failure.
RecordResult(a) ==
  /\ agent[a].pc = "record"
  /\ LET v == agent[a].verdict
         p == agent[a].at IN
     /\ \/ IF v \in {"submitted", "failed"} THEN Transition(a, p, v, "none")
           ELSE IF v = "ready" THEN Transition(a, p, "failed", "none")
           ELSE Transition(a, p, "skipped", v)
        \/ Transition(a, p, "failed", "none")
     /\ agent' = NextPosting(a, p)
  /\ UNCHANGED <<clicks, overlapped, starts>>

\* The list is done; or the run is killed, or loses the database, anywhere.
EndRun(a) ==
  /\ agent[a].pc # "none"
  /\ agent' = [agent EXCEPT ![a] = NotApplying]
  /\ UNCHANGED <<application, clicks, overlapped, starts>>

AgentNext ==
  \E a \in AgentRuns :
    \/ \E mode \in Modes : StartRun(a, mode)
    \/ \E p \in Postings : DiscoverPosting(a, p)
    \/ ListQualified(a) \/ BeginApplying(a) \/ InspectPage(a) \/ ClickSubmit(a)
    \/ ReadConfirmation(a) \/ RecordResult(a) \/ EndRun(a)

AgentSpec == AgentInit /\ [][AgentNext]_agentVars
-------------------------------------------------------------------------------
AgentTypeOK ==
  /\ \A p \in Postings :
       application[p].status \in
         {"none", "rejected", "qualified", "applying", "submitted", "skipped", "failed"}
  /\ \A a \in AgentRuns :
       /\ agent[a].pc \in {"none", "discover", "next", "browse", "click", "confirm", "record"}
       /\ agent[a].list \subseteq Postings /\ agent[a].mode \in Modes
  /\ clicks \in [Postings -> Nat] /\ overlapped \subseteq Postings /\ starts \in 0 .. MaxStarts

\* An application is sent at most once, over any number of runs, rediscoveries,
\* crashes and unverified results ("not automatically retried",
\* docs/JOB_AGENT.md:22) - except by two runs that had it on their lists at once.
SentOncePerPosting == \A p \in Postings : clicks[p] > 1 => p \in overlapped

\* "An unverified post-click result is marked failed" (docs/JOB_AGENT.md:22): a
\* row of a posting that was sent never says that it was passed over.
UnverifiedIsFailed ==
  \A p \in Postings : clicks[p] > 0 => application[p].status # "skipped"
===============================================================================
