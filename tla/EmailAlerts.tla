---------------------------- MODULE EmailAlerts ----------------------------
(* The important-mail watcher (email_alerts/, run by a scheduled workflow):  *)
(* every run is a fresh checkout that reads the mailbox, alerts what scores   *)
(* high enough and is not in the committed record, and pushes the record.     *)
(* Runs queue behind each other, and a queued run checks out the commit it    *)
(* was triggered at.                                                          *)
EXTENDS Integers, FiniteSets

CONSTANTS Mails,       \* messages, by Message-ID
          FeaturesOf,  \* per mail: what the patterns of filter.py find in it
          WatchRuns,   \* runs of the workflow
          MaxAlerts    \* bound: times one mail is alerted

Features == {"self", "code", "money", "bill", "security", "school", "edu", "action", "job",
             "automation", "quota", "deadline", "urgent", "noise", "bulk", "bulk sender"}
ASSUME EmailAlertsAssumption == FeaturesOf \in [Mails -> SUBSET Features] /\ MaxAlerts \in Nat

VARIABLES
  age,        \* per mail: to come, recent (26 hours, among the last 120), or old
  record,     \* seen of state/email_alerts_seen.json on the master branch
  watch,      \* per run: where it is, the record it works on, the mails left to
              \* look at, and whether its checkout is still the newest record
  alerts,     \* history, per mail: alerts that reached the channel
  disturbed   \* history: mails of which an answer or a record was lost

alertVars == <<age, record, watch, alerts, disturbed>>

NotWatching == [pc |-> "none", seen |-> {}, left |-> {}, told |-> {}, newest |-> TRUE]

AlertsInit ==
  /\ age = [m \in Mails |-> "to come"] /\ record = {}
  /\ watch = [r \in WatchRuns |-> NotWatching]
  /\ alerts = [m \in Mails |-> 0] /\ disturbed = {}

\* classify() over the features of a mail.
Given(f, set, points) == IF set \cap f # {} THEN points ELSE 0
StrongCategories == {"money", "security", "automation", "quota", "job"}
Categories == StrongCategories \cup {"school", "deadline"}
Score(f) ==
    Given(f, {"money"}, 55) + (IF "money" \notin f THEN Given(f, {"bill"}, 15) ELSE 0)
  + Given(f, {"security"}, 55)
  + (IF "school" \in f THEN 45 + Given(f, {"edu"}, 15) + Given(f, {"action"}, 10)
     ELSE Given(f, {"edu"}, 20))
  + Given(f, {"job"}, 50) + Given(f, {"automation", "quota"}, 50) + Given(f, {"deadline"}, 25)
  + Given(f, {"urgent"}, 20) - Given(f, {"noise"}, 35)
  - (IF f \cap StrongCategories = {} THEN Given(f, {"bulk"}, 30) ELSE 0)
  - (IF f \cap Categories = {} THEN Given(f, {"bulk sender"}, 10) ELSE 0)
Important(m) ==
  LET f == FeaturesOf[m] IN
  /\ "self" \notin f
  /\ "code" \in f => "security" \in f
  /\ Score(f) >= 50

\* It arrives; the window of 26 hours passes over it, or 120 newer mails do.
MailAges(m) ==
  /\ \/ age[m] = "to come" /\ age' = [age EXCEPT ![m] = "recent"]
     \/ age[m] = "recent" /\ age' = [age EXCEPT ![m] = "old"]
  /\ UNCHANGED <<record, watch, alerts, disturbed>>

Watching(r) == watch[r].pc \in {"alert", "push"}
\* The schedule: a run waits with the commit of that moment; it takes the place
\* of another one that waits.
Trigger(r) ==
  /\ watch[r].pc = "none"
  /\ watch' = [w \in WatchRuns |->
                 IF w = r THEN [NotWatching EXCEPT !.pc = "waits", !.seen = record]
                 ELSE IF watch[w].pc = "waits" THEN NotWatching ELSE watch[w]]
  /\ UNCHANGED <<age, record, alerts, disturbed>>

\* Mutant: the record is not looked at.
UnseenAny(r) == {m \in Mails : age[m] = "recent"}
\* fetch_recent(), without what the record holds
Unseen(r) == {m \in Mails : age[m] = "recent"} \ watch[r].seen

\* One run at a time: it reads the mailbox, or ends because it cannot.
StartWatch(r) ==
  /\ watch[r].pc = "waits" /\ ~\E w \in WatchRuns : Watching(w)
  /\ \/ watch' = [watch EXCEPT ![r].pc = "alert", ![r].left = {m \in Unseen(r) : Important(m)}]
     \/ watch' = [watch EXCEPT ![r] = NotWatching]
  /\ UNCHANGED <<age, record, alerts, disturbed>>

\* Mutant: what was tried is seen.
SeenTried(ok) == TRUE
SeenAfter(ok) == ok

\* One alert: taken and answered, taken and not answered, not taken.
Alert(r, m) ==
  /\ watch[r].pc = "alert" /\ m \in watch[r].left
  /\ \E taken \in (IF alerts[m] < MaxAlerts THEN BOOLEAN ELSE {FALSE}), answered \in BOOLEAN :
       /\ watch' = [watch EXCEPT ![r].left = @ \ {m},
                                 ![r].seen = IF SeenAfter(taken /\ answered) THEN @ \cup {m} ELSE @,
                                 ![r].told = IF taken THEN @ \cup {m} ELSE @]
       /\ alerts' = [alerts EXCEPT ![m] = IF taken THEN @ + 1 ELSE @]
       /\ disturbed' = IF taken /\ ~answered THEN disturbed \cup {m} ELSE disturbed
  /\ UNCHANGED <<age, record>>

\* save_state() and its commit; what it forgets (14 days, 800 mails) is outside
\* the window.
SaveRecord(r) ==
  /\ watch[r].pc = "alert" /\ watch[r].left = {}
  /\ watch' = [watch EXCEPT ![r].pc = "push"]
  /\ UNCHANGED <<age, record, alerts, disturbed>>

\* The record carries the time of its run, so that two commits of it conflict,
\* and the rebase of the later one is given up.
Pushable(r) == watch[r].newest

PushRecord(r) ==
  /\ watch[r].pc = "push" /\ Pushable(r)
  /\ record' = watch[r].seen
  /\ watch' = [w \in WatchRuns |-> IF w = r THEN NotWatching
                                   ELSE [watch[w] EXCEPT !.newest = watch[w].pc = "none"]]
  /\ UNCHANGED <<age, alerts, disturbed>>

\* The push is refused (a conflict, or three other commits in a row), or the run
\* is stopped anywhere before: what it told is in no record.
LoseRecord(r) ==
  /\ Watching(r)
  /\ disturbed' = disturbed \cup watch[r].told
  /\ watch' = [watch EXCEPT ![r] = NotWatching]
  /\ UNCHANGED <<age, record, alerts>>

AlertsNext ==
  \/ \E m \in Mails : MailAges(m)
  \/ \E r \in WatchRuns : Trigger(r) \/ StartWatch(r) \/ SaveRecord(r) \/ PushRecord(r) \/ LoseRecord(r)
  \/ \E r \in WatchRuns, m \in Mails : Alert(r, m)

AlertsSpec == AlertsInit /\ [][AlertsNext]_alertVars
-------------------------------------------------------------------------------
AlertsTypeOK ==
  /\ age \in [Mails -> {"to come", "recent", "old"}]
  /\ record \subseteq Mails /\ disturbed \subseteq Mails
  /\ \A r \in WatchRuns :
       watch[r] \in [pc : {"none", "waits", "alert", "push"}, seen : SUBSET Mails, left : SUBSET Mails,
                     told : SUBSET Mails, newest : BOOLEAN]
  /\ alerts \in [Mails -> 0 .. MaxAlerts]

\* A mail is only ever recorded as seen once its alert was delivered: an alert
\* that fails is tried again by the next run while the mail is in the window.
SeenWasAlerted == \A m \in record : alerts[m] > 0

\* "The same email is never sent twice" (docs/EMAIL_ALERTS.md:104), as far as the
\* code goes: only after a lost answer, a lost record, or by a run that waited
\* while another one pushed.
AlertedTwiceOnlyWhenDisturbed ==
  \A m \in Mails :
    alerts[m] > 1 => \/ m \in disturbed
                     \/ \E r \in WatchRuns : m \in watch[r].told /\ ~watch[r].newest
===============================================================================
