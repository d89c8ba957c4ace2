------------------------------- MODULE AiRouter -------------------------------
(* The router of AI requests (router/levels.py) over the subscription CLIs   *)
(* (router/providers/): requests of the API and of the workers run at the    *)
(* same time, each walks the providers in order, and all share one row of    *)
(* provider_status per provider, read before a call and overwritten after    *)
(* it. A call takes minutes; the owner signs in and out, and anyone may      *)
(* probe the providers, meanwhile.                                           *)
EXTENDS PrivacyGate, Naturals, Sequences

CONSTANTS Requests,       \* ids of requests
          Providers,      \* subset of {"claude", "codex", "gemini"}
          Order,          \* SUBSCRIPTION_PROVIDERS: the providers in order
          Asks,           \* what requests ask (see Ask)
          Setups,         \* per provider: what its files and binary may look like
          QuotaTicks, AuthTicks,  \* lengths of the two cooldowns
          MaxTime       \* bound: ticks of the clock

Trusted == {"claude", "codex"}
\* A request; its prompt may be no string at all (text is FALSE).
Ask == [task : {"echo", "general"}, text : BOOLEAN, paid : BOOLEAN, hint : Providers \cup {"none", "unknown"},
        label : Labels, secret : BOOLEAN]

ASSUME RouterAssumption ==
  /\ Providers \subseteq {"claude", "codex", "gemini"} /\ Order \in Seq(Providers) /\ Asks \subseteq Ask
  /\ QuotaTicks \in Nat \ {0} /\ AuthTicks \in Nat \ {0} /\ MaxTime \in Nat

\* Every read and write of the database is best effort: db is whether it answers
\* in a step. Unread, no provider cools; unwritten, a row stays as it was.
VARIABLES
  facts,        \* per provider: what the machine holds for its CLI
  until,        \* provider_status.cooldown_until, 0 when it is null
  now,          \* the clock
  req,          \* per request: where it is and what it met
  sent          \* history: <<request, provider>> prompts handed to a CLI

routerVars == <<facts, until, now, req, sent>>

Failures == {"QUOTA_EXHAUSTED", "AUTH_REQUIRED", "BILLING_RISK", "UNAVAILABLE"}
States == Failures \cup {"AVAILABLE"}
\* What a request may have met at a provider; "cooling" counts as exhausted.
Met == {"nothing", "cooling", "blocked", "served"} \cup Failures
Outcomes == {"none", "deterministic", "served", "VALIDATION_ERROR", "INTERNAL_ERROR", "PAID_DISABLED", "MODEL_NOT_ALLOWED",
             "DEPENDENCY_UNAVAILABLE", "PRIVACY_BLOCKED", "SECRET_DETECTED",
             "QUOTA_EXHAUSTED", "AUTH_REQUIRED", "BILLING_RISK"}
Fresh == [pc |-> "new", ask |-> CHOOSE a \in Ask : TRUE, at |-> 1, began |-> 0,
          met |-> [p \in Providers |-> "nothing"], outcome |-> "none", runs |-> 0]

RouterInit ==
  /\ facts \in [Providers -> UNION {Setups[p] : p \in Providers}]
  /\ \A p \in Providers : facts[p] \in Setups[p]
  /\ until = [p \in Providers |-> 0] /\ now = 1
  /\ req = [r \in Requests |-> Fresh]
  /\ sent = {}
-------------------------------------------------------------------------------
(* The providers                                                             *)

\* claude_cli.probe(): files that may bill come before the credentials.
ClaudeProbe(f) ==
  IF "binary" \notin f THEN "UNAVAILABLE"
  ELSE IF f \cap {"api key helper", "bad settings", "profile"} # {} THEN "BILLING_RISK"
  ELSE IF "oauth token" \in f THEN "AVAILABLE"
  ELSE IF "credentials" \notin f THEN "AUTH_REQUIRED"
  ELSE IF "claude.ai login" \notin f THEN "BILLING_RISK" ELSE "AVAILABLE"

\* codex_cli.probe(): an API key in auth.json wins over what the CLI says.
CodexProbe(f) ==
  IF "binary" \notin f THEN "UNAVAILABLE"
  ELSE IF f \cap {"api key in auth.json", "bad auth.json", "api key login"} # {} THEN "BILLING_RISK"
  ELSE IF "chatgpt login" \in f THEN "AVAILABLE" ELSE "AUTH_REQUIRED"

\* google_cli.probe()
GeminiProbe(f) ==
  IF "binary" \notin f THEN "UNAVAILABLE"
  ELSE IF "google login" \in f THEN "AVAILABLE" ELSE "AUTH_REQUIRED"

Probe(p, f) ==
  CASE p = "claude" -> ClaudeProbe(f) [] p = "codex" -> CodexProbe(f) [] p = "gemini" -> GeminiProbe(f)

\* What a failed or empty run prints, as the markers the code looks for; no
\* marker is a timeout or any other exit.
Markers == {"limit", "login", "metered demand"}

\* _classify_failure(): a plan limit is looked for first; gemini's demand for a
\* metered login makes it unavailable.
ClassifyFailure(p, marks) ==
  IF "limit" \in marks THEN "QUOTA_EXHAUSTED"
  ELSE IF p = "gemini" /\ "metered demand" \in marks THEN "UNAVAILABLE"
  ELSE IF "login" \in marks THEN "AUTH_REQUIRED" ELSE "UNAVAILABLE"
-------------------------------------------------------------------------------
(* One request                                                               *)

\* The providers a request walks: the hinted one only, or all.
Enabled(ask) == IF ask.hint = "none" THEN Order ELSE <<ask.hint>>
Walks(ask) == {Enabled(ask)[i] : i \in DOMAIN Enabled(ask)}

\* _privacy_gate_or_raise() before the loop: internal text may go to the
\* owner's own subscriptions.
BaselineGate(ask) == Gate(ask.label, ask.label = "internal", ask.secret)

\* Mutant: the strict gate is left to the baseline one.
StrictGateForgotten(ask) == Gate(ask.label, ask.label = "internal", ask.secret)

\* The same for a provider that is not trusted with internal text.
StrictGate(ask) == Gate(ask.label, FALSE, ask.secret)

\* The outcome before any provider, or "none".
Early(ask) ==
  IF ~ask.text THEN "VALIDATION_ERROR"
  ELSE IF ask.paid THEN "PAID_DISABLED"
  ELSE IF ask.hint = "unknown" \/ (ask.hint # "none" /\ \A i \in DOMAIN Order : Order[i] # ask.hint)
       THEN "MODEL_NOT_ALLOWED"
  ELSE IF ask.task = "echo" THEN "deterministic"
  ELSE IF Order = <<>> THEN "DEPENDENCY_UNAVAILABLE"
  ELSE IF BaselineGate(ask) = "allowed" THEN "none"
  ELSE IF BaselineGate(ask) = "secret_detected" THEN "SECRET_DETECTED" ELSE "PRIVACY_BLOCKED"

\* _record_run(): one row of agent_runs, unless the database is down, which never
\* fails the route.
RunsAfter(q, db) == q.runs + (IF db THEN 1 ELSE 0)

\* route() records the run however it ends.
Ended(q, outcome, db) ==
  [q EXCEPT !.pc = "done", !.outcome = outcome, !.runs = RunsAfter(q, db)]

Begin(r, ask, db) ==
  /\ req[r].pc = "new"
  /\ LET q == [req[r] EXCEPT !.ask = ask, !.began = now, !.pc = "looking"] IN
     req' = [req EXCEPT ![r] = IF Early(ask) = "none" THEN q ELSE Ended(q, Early(ask), db)]
  /\ UNCHANGED <<facts, until, now, sent>>

At(r) == Enabled(req[r].ask)[req[r].at]
InLoop(r) == req[r].at <= Len(Enabled(req[r].ask))

\* One provider is done with.
Skip(r, p, what) == [req[r] EXCEPT !.met[p] = what, !.at = @ + 1, !.pc = "looking"]

\* _cooldown_until(), as read now, against the time at which the request began:
\* a cooldown that ran out meanwhile still counts.
Cools(r, db) == db /\ until[At(r)] > req[r].began

\* The provider cools down, or the strict gate refuses the label: on to the next.
PassOver(r, db) ==
  /\ req[r].pc = "looking" /\ InLoop(r)
  /\ LET p == At(r) IN
     \/ /\ Cools(r, db)
        /\ req' = [req EXCEPT ![r] = Skip(r, p, "cooling")]
     \/ /\ ~Cools(r, db) /\ p \notin Trusted /\ StrictGate(req[r].ask) # "allowed"
        /\ req' = [req EXCEPT ![r] = Skip(r, p, "blocked")]
  /\ UNCHANGED <<facts, until, now, sent>>

Reaches(r, db) ==
  /\ req[r].pc = "looking" /\ InLoop(r)
  /\ ~Cools(r, db)
  /\ At(r) \in Trusted \/ StrictGate(req[r].ask) = "allowed"

\* generate(): the machine looks signed in and the CLI gets the prompt.
StartCall(r, db) ==
  /\ Reaches(r, db)
  /\ Probe(At(r), facts[At(r)]) = "AVAILABLE"
  /\ sent' = sent \cup {<<r, At(r)>>}
  /\ req' = [req EXCEPT ![r].pc = "waiting"]
  /\ UNCHANGED <<facts, until, now>>

\* _update_provider_status(): the row is overwritten, its cooldown with it.
CooldownUntil(state) ==
  CASE state = "QUOTA_EXHAUSTED" -> now + QuotaTicks
    [] state = "AUTH_REQUIRED" -> now + AuthTicks
    [] OTHER -> 0

Overwritten(p, state, db) == IF db THEN [until EXCEPT ![p] = CooldownUntil(state)] ELSE until

\* Mutant: a billing risk moves on like the others.
FailedGoesOn(r, state, db) ==
  /\ until' = Overwritten(At(r), state, db)
  /\ req' = [req EXCEPT ![r] = Skip(r, At(r), state)]

\* A provider failed, before the CLI ran or in it: only a billing risk ends the
\* request, every other failure moves on.
Failed(r, state, db) ==
  LET p == At(r) IN
  /\ until' = Overwritten(p, state, db)
  /\ req' = [req EXCEPT ![r] = IF state = "BILLING_RISK"
                                THEN Ended([req[r] EXCEPT !.met[p] = state], "BILLING_RISK", db)
                                ELSE Skip(r, p, state)]

\* generate() finds the machine not signed in.
NoCall(r, db) ==
  /\ Reaches(r, db)
  /\ Probe(At(r), facts[At(r)]) # "AVAILABLE"
  /\ Failed(r, Probe(At(r), facts[At(r)]), db)
  /\ UNCHANGED <<facts, now, sent>>

CallFails(r, marks, db) ==
  /\ req[r].pc = "waiting"
  /\ Failed(r, ClassifyFailure(At(r), marks), db)
  /\ UNCHANGED <<facts, now, sent>>

CallServes(r, db) ==
  /\ req[r].pc = "waiting"
  /\ LET p == At(r) IN
     /\ until' = Overwritten(p, "AVAILABLE", db)
     /\ req' = [req EXCEPT ![r] = Ended([req[r] EXCEPT !.met[p] = "served"], "served", db)]
  /\ UNCHANGED <<facts, now, sent>>

\* Mutant: a provider's state is passed on as the error code.
VerdictRaw(met) ==
  IF \E p \in DOMAIN met : met[p] = "QUOTA_EXHAUSTED" THEN "QUOTA_EXHAUSTED" ELSE "UNAVAILABLE"

\* Nothing served: what can be retried later is said first.
Verdict(met) ==
  LET saw(S) == \E p \in DOMAIN met : met[p] \in S IN
  IF saw({"cooling", "QUOTA_EXHAUSTED"}) THEN "QUOTA_EXHAUSTED"
  ELSE IF saw({"AUTH_REQUIRED"}) THEN "AUTH_REQUIRED"
  ELSE IF saw({"blocked"}) /\ ~saw({"UNAVAILABLE"}) THEN "PRIVACY_BLOCKED"
  ELSE "DEPENDENCY_UNAVAILABLE"

Conclude(r, db) ==
  /\ req[r].pc = "looking" /\ ~InLoop(r)
  /\ req' = [req EXCEPT ![r] = Ended(req[r], Verdict(req[r].met), db)]
  /\ UNCHANGED <<facts, until, now, sent>>

\* An exception nobody foresaw, on the way or out of generate() (an answer that
\* parses to something else, a binary that is gone): no row of provider_status.
RouterBreaks(r, db) ==
  /\ req[r].pc \in {"looking", "waiting"}
  /\ req' = [req EXCEPT ![r] = Ended(req[r], "INTERNAL_ERROR", db)]
  /\ UNCHANGED <<facts, until, now, sent>>
-------------------------------------------------------------------------------
(* The rest of the world                                                     *)

\* GET /v1/providers?probe=true: probe_all() writes the row with no cooldown.
ProbeAll(p) ==
  /\ until' = [until EXCEPT ![p] = 0]
  /\ UNCHANGED <<facts, now, req, sent>>

Tick ==
  /\ now < MaxTime /\ now' = now + 1
  /\ UNCHANGED <<facts, until, req, sent>>

\* The owner signs in or out, or changes a settings file.
OwnerChanges(p) ==
  /\ \E f \in Setups[p] : facts' = [facts EXCEPT ![p] = f]
  /\ UNCHANGED <<until, now, req, sent>>

Work(r, db) ==
  \/ PassOver(r, db) \/ StartCall(r, db) \/ NoCall(r, db)
  \/ CallServes(r, db) \/ Conclude(r, db) \/ RouterBreaks(r, db)
  \/ \E marks \in SUBSET Markers : CallFails(r, marks, db)

RouterNext ==
  \/ \E r \in Requests, ask \in Asks, db \in BOOLEAN : Begin(r, ask, db)
  \/ \E r \in Requests, db \in BOOLEAN : Work(r, db)
  \/ \E p \in Providers : ProbeAll(p) \/ OwnerChanges(p)
  \/ Tick

RouterSpec == RouterInit /\ [][RouterNext]_routerVars
-------------------------------------------------------------------------------
RouterTypeOK ==
  /\ facts \in [Providers -> UNION {Setups[p] : p \in Providers}]
  /\ until \in [Providers -> Nat] /\ now \in Nat
  /\ \A r \in Requests :
       /\ req[r] \in [pc : {"new", "looking", "waiting", "done"}, ask : Ask, at : Nat \ {0}, began : Nat,
                      met : [Providers -> Met], outcome : Outcomes, runs : {0, 1}]
       /\ req[r].at <= Len(Order) + 1
  /\ sent \subseteq Requests \X Providers

\* A prompt that a CLI was handed held no secret, its label was public or
\* internal, and an internal one went to a trusted subscription only, whatever
\* the other requests, the cooldowns and the sign-ins did in between.
PromptPrivacy ==
  \A s \in sent :
    LET ask == req[s[1]].ask IN
    /\ ~ask.secret
    /\ \/ ask.label = "public"
       \/ ask.label = "internal" /\ s[2] \in {"claude", "codex"}

\* A provider that shows a billing risk before its call never gets the prompt of
\* that request, nor does any provider behind it: the request ends with the risk.
\* (Time-outs and failed calls are not such an end; they go on down the order.)
RiskEndsIt ==
  \A r \in Requests, p \in Providers :
    req[r].met[p] = "BILLING_RISK" =>
      /\ req[r].outcome = "BILLING_RISK"
      /\ \A i \in DOMAIN Enabled(req[r].ask) :
           i >= req[r].at => <<r, Enabled(req[r].ask)[i]>> \notin sent
===============================================================================
