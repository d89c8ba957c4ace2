----------------------------- MODULE RevenueLoop -----------------------------
(* The revenue controller (revenue_os.py): a scheduled flow asks it what to do *)
(* next, calls it for one action after the other, and each call leaves what    *)
(* came of it in revenue_os_state: the product's milestone, and the bottlenecks *)
(* that the next decision looks at. Cycles of the flow overlap; the calls are   *)
(* made one at a time, for run() keeps the API's only thread.                   *)
EXTENDS Naturals, Sequences

CONSTANTS Cycles,      \* executions of the flow at once
          Faulty       \* bound: actions that may fail on their own

Failing == {"research", "plan", "build", "troubleshoot", "product_verify", "lead_cycle",
            "outreach_qa", "reply_check", "send"}
ASSUME RevenueAssumption == Faulty \subseteq Failing

VARIABLES
  product,     \* research done; the build spec; the last build
  runtime,     \* revenue_os_runtime_bottlenecks: actions, and whether the owner is needed
  market,      \* interested: a prospect once was; full: 4000 companies are known
  owner,       \* armed: REVENUE_OS_SEND_ENABLED; planner: what status.blockers() lists
  healthy,     \* nothing fails, and no call outlasts the flow's patience
  cycle        \* per execution: the calls it has to make, and whether it repairs

revenueVars == <<product, runtime, market, owner, healthy, cycle>>

Idle == [todo |-> <<>>, repairing |-> FALSE]
RevenueInit ==
  /\ product = [research |-> FALSE, spec |-> "none", build |-> "none"]
  /\ runtime = {}
  /\ market = [interested |-> FALSE, full |-> FALSE]
  /\ owner = [armed |-> FALSE, planner |-> "clear"] /\ healthy = FALSE
  /\ cycle = [c \in Cycles |-> Idle]

\* A real failed execution comes before the product, and the owner's blockers do
\* not stop what can go on without him.
NeedsOwner == \E b \in runtime : b.owner
NextMilestone ==
  IF ~product.research THEN "RESEARCH" ELSE IF product.spec = "none" THEN "PLAN"
  ELSE IF product.build # "verified" THEN "BUILD" ELSE "none"
BesidesOwner ==
  IF NextMilestone \in {"RESEARCH", "PLAN"} THEN NextMilestone
  ELSE IF ~market.full THEN "FIND_LEADS" ELSE "NOTIFY"
\* ready: whether qualified leads wait
Decision(ready) ==
  IF market.interested THEN "PROCESS_REPLIES"
  ELSE IF NeedsOwner THEN BesidesOwner
  ELSE IF runtime # {} THEN "TROUBLESHOOT"
  ELSE IF NextMilestone # "none" THEN NextMilestone
  ELSE IF ~market.full THEN "FIND_LEADS"
  ELSE IF owner.planner = "owner" THEN "NOTIFY"
  ELSE IF ready THEN "SEND"
  ELSE IF owner.planner = "service" THEN "TROUBLESHOOT" ELSE "MEASURE"

\* The calls of the flow, from the decision on.
BuildCalls == <<"build", "product_verify">>
SendCalls == <<"outreach_qa", "send", "reply_check">>
Calls(decision) ==
  CASE decision = "NOTIFY" -> <<>>
    [] decision = "TROUBLESHOOT" -> <<"troubleshoot">> \o BuildCalls
    [] decision = "RESEARCH" -> <<"research", "plan">> \o BuildCalls
    [] decision = "PLAN" -> <<"plan">> \o BuildCalls
    [] decision = "BUILD" -> BuildCalls
    [] decision = "PROCESS_REPLIES" -> <<"reply_check">>
    [] decision = "FIND_LEADS" -> <<"lead_cycle">> \o SendCalls
    [] decision \in {"SEND", "MEASURE"} -> SendCalls

\* Every ten minutes, whatever still runs.
Decide(c, ready) ==
  /\ cycle[c] = Idle
  /\ cycle' = [cycle EXCEPT ![c] = [todo |-> Calls(Decision(ready)) \o <<"notify">>,
                                    repairing |-> Decision(ready) = "TROUBLESHOOT"]]
  /\ UNCHANGED <<product, runtime, market, owner, healthy>>

\* Mutant: only its own success ends a bottleneck.
ClearedByOwn(action) == {b \in runtime : b.action # action}
\* A verified build, repair or test run clears all of them, another success none.
Cleared(action) == IF action \in {"build", "troubleshoot", "product_verify"} THEN {} ELSE runtime

\* _set_runtime_bottleneck(): a failure takes the place of the action's older
\* one; the owner is needed when its text says so.
RuntimeAfter(action, ok, needsOwner) ==
  IF ok THEN Cleared(action)
  ELSE {b \in runtime : b.action # action} \cup {[action |-> action, owner |-> needsOwner]}

\* What a call leaves of the milestone.
ProductAfter(action, ok) ==
  IF action = "build" /\ product.spec # "none"
  THEN [product EXCEPT !.build = IF ok THEN "verified" ELSE "failed"]
  ELSE IF ~ok THEN product
  ELSE IF action = "research" THEN [product EXCEPT !.research = TRUE]
  ELSE IF action = "plan" THEN [product EXCEPT !.spec = "planned"]
  ELSE IF action = "troubleshoot" THEN [product EXCEPT !.spec = "repair"]
  ELSE product

Rest(c) == [cycle[c] EXCEPT !.todo = Tail(@)]
\* The flow looks at the outcome of the tests alone; when a repair fails them the
\* cycle is blocked and ends there.
Goes(c, action, ok) ==
  LET failsTests == action = "product_verify" /\ ~ok IN
  IF action = "notify" \/ (failsTests /\ cycle[c].repairing) THEN Idle
  ELSE IF failsTests THEN [todo |-> Calls("TROUBLESHOOT") \o <<"notify">>, repairing |-> TRUE]
  ELSE Rest(c)

\* run(): a build needs a spec and a send the owner's switch; everything else
\* succeeds, or fails where it may.
Call(c, ok, needsOwner) ==
  /\ cycle[c].todo # <<>>
  /\ LET action == Head(cycle[c].todo)
         barred == action = "send" /\ ~owner.armed
         may == ok => ~barred /\ (action = "build" => product.spec # "none")
         must == ~ok => barred \/ (action = "build" /\ product.spec = "none")
                               \/ (~healthy /\ action \in Faulty) IN
     /\ may /\ must
     /\ (needsOwner => ~ok) /\ (barred => needsOwner)
     /\ (needsOwner /\ ~barred) => action \in Faulty /\ ~healthy
     /\ product' = ProductAfter(action, ok)
     /\ runtime' = IF action = "notify" THEN runtime ELSE RuntimeAfter(action, ok, needsOwner)
     /\ cycle' = [cycle EXCEPT ![c] = Goes(c, action, ok)]
     /\ \/ UNCHANGED market
        \/ action = "lead_cycle" /\ ok /\ market' = [market EXCEPT !.full = TRUE]
        \/ action = "reply_check" /\ ok /\ market' = [market EXCEPT !.interested = TRUE]
  /\ UNCHANGED <<owner, healthy>>

\* The flow gives a call up, or n8n stops: the cycle ends there.
Abandon(c) ==
  /\ cycle[c] # Idle /\ ~healthy
  /\ cycle' = [cycle EXCEPT ![c] = Idle]
  /\ UNCHANGED <<product, runtime, market, owner, healthy>>

OwnerActs ==
  /\ \/ \E armed \in BOOLEAN : owner' = [owner EXCEPT !.armed = armed]
     \/ \E planner \in {"clear", "owner", "service"} : owner' = [owner EXCEPT !.planner = planner]
  /\ UNCHANGED <<product, runtime, market, healthy, cycle>>
HealthTurns ==
  /\ healthy' = ~healthy
  /\ UNCHANGED <<product, runtime, market, owner, cycle>>

CycleSteps(c) ==
  (\E ready \in BOOLEAN : Decide(c, ready)) \/ (\E ok, needsOwner \in BOOLEAN : Call(c, ok, needsOwner))
RevenueNext ==
  \/ \E c \in Cycles : CycleSteps(c) \/ Abandon(c)
  \/ OwnerActs \/ HealthTurns

RevenueSpec == RevenueInit /\ [][RevenueNext]_revenueVars
\* The schedule starts a cycle every ten minutes, and every call is answered.
RevenueFairness == \A c \in Cycles : WF_revenueVars(CycleSteps(c))
-------------------------------------------------------------------------------
RevenueTypeOK ==
  /\ product \in [research : BOOLEAN, spec : {"none", "planned", "repair"}, build : {"none", "failed", "verified"}]
  /\ \A b \in runtime : b.action \in Failing /\ b.owner \in BOOLEAN
  /\ \A b1, b2 \in runtime : b1.action = b2.action => b1 = b2
  /\ market \in [interested : BOOLEAN, full : BOOLEAN]
  /\ owner \in [armed : BOOLEAN, planner : {"clear", "owner", "service"}]
  /\ \A c \in Cycles : cycle[c].todo \in Seq(Failing \cup {"notify"}) /\ cycle[c].repairing \in BOOLEAN

\* A send that run() recorded as verified.
Sends == \E c \in Cycles : cycle[c].todo # <<>> /\ Head(cycle[c].todo) = "send" /\ Call(c, TRUE, FALSE)
\* What failed is repaired and the work goes on: when nothing fails any more, and
\* neither a prospect nor the owner was ever needed, it sends again and again -
\* whatever failed before, in whichever of the overlapping cycles.
FailuresAreRepaired ==
  (/\ <>[](healthy /\ owner.armed /\ owner.planner = "clear")
   /\ []~NeedsOwner /\ []~market.interested) => []<><<Sends>>_revenueVars
===============================================================================
