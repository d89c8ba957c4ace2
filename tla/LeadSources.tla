------------------------------ MODULE LeadSources ------------------------------
(* LeadEngine.cycle() and discover() (leadgen/engine.py) over the shared     *)
(* health and query tables of the lead sources (leadgen/store.py): runs of   *)
(* the schedule, of the worker and of the owner overlap, each until it found *)
(* what it wants, its time is over, or no source is left. What a search      *)
(* stores is LeadIntake's; here it is a number of companies.                 *)
EXTENDS Naturals, Sequences, FiniteSets, SequenceFilter

CONSTANTS FindRuns,       \* runs of the engine
          Catalog,        \* per source: its queries, in their order
          BatchSources,   \* sources that run_batch() of leadgen/pipeline.py searches too
          BatchLimit,     \* queries_per_source
          DisableAfter, BenchTicks,   \* failure_policy; every bench lasts alike
          LowWatermark, TargetReady, DailyTarget,   \* inventory
          RunTicks,       \* max_minutes
          MaxYield,       \* ready companies one query adds at most
          MaxReady,       \* bound: ready companies, and those of one day
          MaxClock        \* bound: ticks of the clock

SourceNames == DOMAIN Catalog
InCatalog(s) == {Catalog[s][i] : i \in DOMAIN Catalog[s]}
LeadQueries == UNION {InCatalog(s) : s \in SourceNames}
ASSUME LeadSourcesAssumption ==
  /\ BatchSources \subseteq SourceNames
  /\ BatchLimit \in Nat \ {0} /\ DisableAfter \in Nat \ {0} /\ BenchTicks \in Nat \ {0}
  /\ RunTicks \in Nat /\ LowWatermark <= TargetReady
  /\ LowWatermark \in Nat /\ TargetReady \in Nat /\ DailyTarget \in Nat
  /\ MaxYield \in Nat /\ MaxReady \in Nat /\ MaxClock \in Nat \ {0}
  /\ \A s \in SourceNames : Catalog[s] \in Seq(InCatalog(s))

VARIABLES
  health,       \* lead_source_health: consecutive_failures, disabled_until (0 when null)
  asked,        \* lead_queries: "never", "done", "old" (may be repeated) or "error"
  ready, today, \* available_inventory; companies that became ready today
  find,         \* per run: where it is, what it wants and found, what it may still ask
  clock,
  late          \* history, per run and source: failed searches since the source is
                \* benched by another run's failure or its own

sourceVars == <<health, asked, ready, today, find, clock, late>>

NotFinding == [pc |-> "idle", want |-> 0, found |-> 0, deadline |-> 0, out |-> {}, turn |-> {},
               src |-> "none", batch |-> <<>>, progressed |-> FALSE]
SourcesInit ==
  /\ health = [s \in SourceNames |-> [fails |-> 0, until |-> 0]]
  /\ asked = [q \in LeadQueries |-> "never"]
  /\ ready = 0 /\ today = 0 /\ clock = 1
  /\ find = [r \in FindRuns |-> NotFinding]
  /\ late = [r \in FindRuns |-> [s \in SourceNames |-> 0]]

Benched(s) == health[s].until > clock
Larger(a, b) == IF a > b THEN a ELSE b
Less(a, b) == IF a > b THEN a - b ELSE 0

NeedsRefill(force) == force \/ ready < LowWatermark
DailyGap == Less(DailyTarget, today)
\* cycle(): what today's quota lacks, or a low inventory.
Wanted(force) ==
  Larger(Larger(DailyGap, IF NeedsRefill(force) THEN Less(TargetReady, ready) ELSE 0), IF force THEN 1 ELSE 0)

StartFinding(r, force) ==
  /\ find[r].pc = "idle" /\ Wanted(force) > 0 /\ clock + RunTicks <= MaxClock
  /\ find' = [find EXCEPT ![r] = [NotFinding EXCEPT !.pc = "round", !.want = Wanted(force),
                                    !.deadline = clock + RunTicks, !.turn = SourceNames]]
  /\ UNCHANGED <<health, asked, ready, today, clock, late>>

\* Mutant: the time is looked at between searches only.
GoesOnWithoutClock(r) == find[r].found < find[r].want
\* Both loops ask this before they go on.
GoesOn(r) == clock < find[r].deadline /\ find[r].found < find[r].want
Ends(r) == [find EXCEPT ![r] = NotFinding]

\* A source of this round: benched or without queries it is out for this run; a
\* database that does not answer leaves it for the next round.
NextSource(r, s) == [find[r] EXCEPT !.turn = @ \ {s}]
\* next_queries(): what never ran or failed comes first, in catalog order, then
\* what is old.
Due(s) ==
  LET fresh == Keeping(Catalog[s], {q \in LeadQueries : asked[q] \in {"never", "error"}})
      all == fresh \o Keeping(Catalog[s], {q \in LeadQueries : asked[q] = "old"}) IN
  SubSeq(all, 1, IF Len(all) < BatchLimit THEN Len(all) ELSE BatchLimit)

PlanSource(r, s, db) ==
  /\ find[r].pc = "round" /\ s \in find[r].turn
  /\ find' = [find EXCEPT ![r] =
       IF s \in find[r].out \/ ~GoesOn(r) \/ ~db THEN NextSource(r, s)
       ELSE IF Benched(s) \/ Due(s) = <<>> THEN [NextSource(r, s) EXCEPT !.out = @ \cup {s}]
       ELSE [NextSource(r, s) EXCEPT !.pc = "search", !.src = s, !.batch = Due(s)]]
  /\ UNCHANGED <<health, asked, ready, today, clock, late>>

\* All sources had their turn.
EndRound(r) ==
  /\ find[r].pc = "round" /\ find[r].turn = {}
  /\ find' = IF GoesOn(r) /\ (find[r].progressed \/ find[r].out # SourceNames)
             THEN [find EXCEPT ![r].turn = SourceNames, ![r].progressed = FALSE] ELSE Ends(r)
  /\ UNCHANGED <<health, asked, ready, today, clock, late>>

\* The batch is over, or the run wants no more of it.
Back(f) == [f EXCEPT !.pc = "round", !.src = "none", !.batch = <<>>]
EndQueries(r) ==
  /\ find[r].pc = "search" /\ (find[r].batch = <<>> \/ ~GoesOn(r))
  /\ find' = [find EXCEPT ![r] = Back(@)]
  /\ UNCHANGED <<health, asked, ready, today, clock, late>>

Query(r) == Head(find[r].batch)
Searching(r) == find[r].pc = "search" /\ find[r].batch # <<>> /\ GoesOn(r)
NextQuery(f) == [f EXCEPT !.batch = Tail(@)]

\* Mutant: the run does not look at what the failure came to.
LeavesNever(s, h) == FALSE
\* source_failure() told the run that the source is benched.
LeavesSource(s, h) == h[s].until # 0

\* source_failure(): counted, and from DisableAfter on the source is benched;
\* every bench lasts alike here, so that the count may stop there.
FailureOf(h, s, times) ==
  LET sum == h[s].fails + times
      n == IF sum < DisableAfter THEN sum ELSE DisableAfter IN
  [h EXCEPT ![s] = [fails |-> n, until |-> IF n >= DisableAfter THEN clock + BenchTicks ELSE h[s].until]]

\* source_success(): the count and the bench end.
SuccessOf(h, s) == [h EXCEPT ![s] = [fails |-> 0, until |-> 0]]

\* _overpass(): every endpoint refused twice, or the time was over before the next
\* request; how often the failure is counted.
Losses == 0 .. 2
\* search(): companies with a name and a website, of which screening leaves these.
Yields == 0 .. MaxYield

\* The search fails (which a deadline that ends the request also counts as), and
\* the failure is written; twice when the answer to the commit was lost; or not
\* at all, and then the run leaves the batch.
SearchFails(r, times) ==
  /\ Searching(r)
  /\ LET s == find[r].src
         h == IF times = 0 THEN health ELSE FailureOf(health, s, times) IN
     /\ health' = h
     /\ asked' = IF times = 0 THEN asked ELSE [asked EXCEPT ![Query(r)] = "error"]
     /\ late' = IF Benched(s) THEN [late EXCEPT ![r][s] = @ + 1] ELSE late
     /\ find' = [find EXCEPT ![r] =
          IF times = 0 THEN Back(find[r])
          ELSE IF LeavesSource(s, h) THEN [Back(find[r]) EXCEPT !.out = @ \cup {s}] ELSE NextQuery(find[r])]
  /\ UNCHANGED <<ready, today, clock>>

\* The search answers: source_success() ends a bench; what it found is screened
\* and stored, the query is done - or one of the two writes fails.
SearchAnswers(r, n, fails) ==
  /\ Searching(r) /\ ready + n <= MaxReady /\ today + n <= MaxReady
  /\ LET s == find[r].src IN
     /\ health' = IF fails = "screening" THEN health ELSE SuccessOf(health, s)
     /\ late' = IF fails = "screening" THEN late ELSE [t \in FindRuns |-> [late[t] EXCEPT ![s] = 0]]
     /\ IF fails # "none"
        THEN /\ find' = [find EXCEPT ![r] = NextQuery(@)]
             /\ UNCHANGED <<asked, ready, today>>
        ELSE /\ asked' = [asked EXCEPT ![Query(r)] = "done"]
             /\ ready' = ready + n /\ today' = today + n
             /\ find' = [find EXCEPT ![r] = [NextQuery(find[r]) EXCEPT !.found = @ + n, !.progressed = TRUE]]
  /\ UNCHANGED clock

\* run_batch() (leadgen/pipeline.py) searches whether or not the source is benched,
\* and notes a success or one failure; the queries stay as they are.
SearchedByBatch(s) ==
  /\ \/ /\ health' = SuccessOf(health, s)
        /\ late' = [t \in FindRuns |-> [late[t] EXCEPT ![s] = 0]]
     \/ health' = FailureOf(health, s, 1) /\ late' = late
  /\ UNCHANGED <<asked, ready, today, find, clock>>

\* The clock; a bench that is over is forgotten by the history.
ClockTicks ==
  /\ clock < MaxClock /\ clock' = clock + 1
  /\ late' = [r \in FindRuns |-> [s \in SourceNames |-> IF health[s].until > clock + 1 THEN late[r][s] ELSE 0]]
  /\ \/ UNCHANGED <<asked, today>>
     \/ today' = 0 /\ asked' = [q \in LeadQueries |-> IF asked[q] = "done" THEN "old" ELSE asked[q]]
  /\ UNCHANGED <<health, ready, find>>

\* Companies leave the inventory by being contacted.
InventoryShrinks ==
  /\ ready > 0 /\ ready' = ready - 1
  /\ UNCHANGED <<health, asked, today, find, clock, late>>

FindWork(r) ==
  \/ EndRound(r) \/ EndQueries(r)
  \/ \E s \in SourceNames, db \in BOOLEAN : PlanSource(r, s, db)
  \/ \E times \in Losses : SearchFails(r, times)
  \/ \E n \in Yields, fails \in {"none", "screening", "storing"} : SearchAnswers(r, n, fails)

SourcesNext ==
  \/ \E r \in FindRuns, force \in BOOLEAN : StartFinding(r, force)
  \/ \E r \in FindRuns : FindWork(r)
  \/ \E s \in BatchSources : SearchedByBatch(s)
  \/ ClockTicks \/ InventoryShrinks

SourcesSpec == SourcesInit /\ [][SourcesNext]_sourceVars
\* Searches and writes have time limits, and time passes.
SourcesFairness == (\A r \in FindRuns : WF_sourceVars(FindWork(r))) /\ WF_sourceVars(ClockTicks)
-------------------------------------------------------------------------------
SourcesTypeOK ==
  /\ \A s \in SourceNames : health[s].fails \in Nat /\ health[s].until \in Nat
  /\ asked \in [LeadQueries -> {"never", "done", "old", "error"}]
  /\ ready \in 0 .. MaxReady /\ today \in Nat /\ clock \in 1 .. MaxClock
  /\ \A r \in FindRuns :
       /\ find[r].pc \in {"idle", "round", "search"} /\ find[r].out \subseteq SourceNames
       /\ find[r].turn \subseteq SourceNames /\ find[r].batch \in Seq(LeadQueries)

\* A source that is benched is spared: each run of the engine that overlaps the
\* bench, with a batch it planned before, meets at most one more failure there,
\* whatever part of the bookkeeping fails meanwhile. (run_batch() of
\* leadgen/pipeline.py does not ask; it may end a bench, or prolong it.)
BenchSpares == \A r \in FindRuns, s \in SourceNames : late[r][s] <= 1

\* Every run ends: though every search fails, every source stays open and the
\* database never answers, its time is over some day.
RunsEnd == \A r \in FindRuns : find[r].pc # "idle" ~> find[r].pc = "idle"
===============================================================================
