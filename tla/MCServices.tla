------------------------------ MODULE MCServices ------------------------------
(* What runs beside the outreach core, the workers' queue and the services,  *)
(* each with its own instance: one is chosen at the start, and the variables *)
(* of the others stay as they are.                                           *)
EXTENDS MCJobQueue, Services, TLC

CONSTANT Chosen
VARIABLE service

\* The requests are alike, and so are the walks over the vault.
Symmetric == Permutations(Requests) \cup Permutations(Indexers)

\* AiRouter
MCOrder == <<"codex", "gemini">>
MCAsk(task, paid, hint, label, secret) ==
  [task |-> task, text |-> TRUE, paid |-> paid, hint |-> hint, label |-> label, secret |-> secret]
MCAsks == {MCAsk("general", FALSE, "none", "internal", FALSE),
           MCAsk("general", FALSE, "gemini", "internal", FALSE),
           MCAsk("general", FALSE, "gemini", "public", FALSE),
           MCAsk("general", FALSE, "none", "personal", FALSE),
           MCAsk("general", FALSE, "none", "public", TRUE),
           MCAsk("general", FALSE, "unknown", "public", FALSE),
           MCAsk("general", TRUE, "none", "public", FALSE),
           [MCAsk("general", FALSE, "none", "public", FALSE) EXCEPT !.text = FALSE],
           MCAsk("echo", FALSE, "none", "secret", TRUE)}
MCSetups == [p \in {"codex", "gemini"} |->
  IF p = "codex" THEN {{"binary", "chatgpt login"}, {"binary", "chatgpt login", "api key in auth.json"}}
  ELSE {{}, {"binary", "google login"}}]

\* SecondBrain: the second content has the first one's time stamp; privacy.yaml
\* allows the first path, and comes to block it
MCPolicy(config, blocked) ==
  [config |-> config, path |-> <<[blocked |-> blocked, allowed |-> TRUE], [blocked |-> FALSE, allowed |-> FALSE]>>]
MCPrivacyFiles == {MCPolicy("read", FALSE), MCPolicy("read", TRUE)}
MCNote(hash, mtime, declared, secret) ==
  [hash |-> hash, mtime |-> mtime, fence |-> "ok", declared |-> declared, secret |-> secret, score |-> hash]
MCNoteContents == {[MCNote(1, 1, "personal", FALSE) EXCEPT !.fence = "broken"], MCNote(2, 1, "personal", FALSE),
                   MCNote(3, 2, "public", TRUE)}

\* EmailOutbox
MCRow(to, kind) == [to |-> to, kind |-> kind, good |-> TRUE]
MCDraftContents == {<<MCRow("ann", "cold"), MCRow("bob", "followup")>>, <<MCRow("bob", "cold"), MCRow("me", "cold")>>,
                    <<[MCRow("ann", "cold") EXCEPT !.good = FALSE]>>}

\* BrightReach
MCLead(optedOut, disqualified, answers) ==
  [optedOut |-> optedOut, disqualified |-> disqualified, inArea |-> TRUE, fits |-> TRUE, answers |-> answers]
MCLeadFacts == {MCLead(FALSE, FALSE, {}), MCLead(TRUE, FALSE, {}), MCLead(FALSE, FALSE, {"missing"}),
                MCLead(FALSE, TRUE, {"refused"})}

MCChannelOf == <<"mail", "webhook">>
MCMailOnly == <<"mail">>
MCTriesOf == [c \in Channels |-> 2]
MCCatalog == [s \in {"osm"} |-> <<"q1", "q2">>]
MCFeaturesOf == <<{"money", "bulk", "noise", "urgent"}, {"school", "edu", "bulk", "deadline"}, {"security", "self"}>>
MCKind == <<"sent", "reply", "own">>

\* JobAgent: one form that is sent, and one that asks what no application answers
MCPosting(fields) ==
  [legitimate |-> TRUE, rejected |-> FALSE, good |-> TRUE, page |-> "form", fields |-> fields, long |-> FALSE,
   button |-> "submit", enabled |-> TRUE, complete |-> TRUE]
MCPostingOf == <<MCPosting(<<"resume", "verified", "generative", "optional">>),
                 MCPosting(<<"resume", "sensitive", "verified">>)>>

MCInit ==
  /\ service \in Chosen
  /\ RouterInit /\ (service = "router" \/ facts = [p \in Providers |-> CHOOSE f \in Setups[p] : TRUE])
  /\ BrainInit /\ OutboxInit /\ ReachInit /\ NoticesInit /\ SourcesInit
  /\ AlertsInit /\ MailInit /\ AgentInit /\ RevenueInit /\ Init

Router == service = "router" /\ RouterNext
Brain == service = "brain" /\ BrainNext
Outbox == service = "outbox" /\ OutboxNext
Reach == service = "brightreach" /\ ReachNext
Notifies == service = "notifications" /\ NoticesNext
Finds == service = "lead sources" /\ SourcesNext
Watches == service = "email alerts" /\ AlertsNext
Reads == service = "gmail" /\ MailNext
Applies == service = "job agent" /\ AgentNext
Earns == service = "revenue" /\ RevenueNext
Works == service = "jobs" /\ Next

Keep(s, v) == IF service = s THEN TRUE ELSE UNCHANGED v
MCNext ==
  /\ UNCHANGED service
  /\ \/ Router \/ Brain \/ Outbox \/ Reach \/ Notifies \/ Finds \/ Watches \/ Reads \/ Applies \/ Earns
     \/ Works
  /\ Keep("router", routerVars) /\ Keep("brain", brainVars) /\ Keep("outbox", outboxVars)
  /\ Keep("brightreach", reachVars) /\ Keep("notifications", noticeVars) /\ Keep("lead sources", sourceVars)
  /\ Keep("email alerts", alertVars) /\ Keep("gmail", mailVars) /\ Keep("job agent", agentVars)
  /\ Keep("revenue", revenueVars) /\ Keep("jobs", vars)

\* The fairness of each module, for the service that was chosen.
MCFairness ==
  /\ \A t \in Tellers : WF_noticeVars(service = "notifications" /\ (Post(t) \/ Note(t)))
  /\ \A c \in Channels : SF_noticeVars(service = "notifications" /\ \E t \in Tellers : StartFlush(t, c))
  /\ \A r \in FindRuns : WF_sourceVars(service = "lead sources" /\ FindWork(r))
  /\ WF_sourceVars(service = "lead sources" /\ ClockTicks)
  /\ \A c \in Cycles : WF_revenueVars(service = "revenue" /\ CycleSteps(c))
  /\ \A w \in Workers : WF_vars(service = "jobs" /\ Start(w)) /\ WF_vars(service = "jobs" /\ Outcome(w))

MCVars == <<service, routerVars, brainVars, outboxVars, reachVars, noticeVars, sourceVars, alertVars, mailVars,
            agentVars, revenueVars, vars>>
MCSpec == MCInit /\ [][MCNext]_MCVars
MCFairSpec == MCSpec /\ MCFairness
=============================================================================
