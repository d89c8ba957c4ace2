----------------------------- MODULE JobPromise -----------------------------
(* What the job queue promises its clients of every job: one execution at a  *)
(* time, one verdict, and no verdict but the execution's own or, while       *)
(* nobody executes the job, the owner's.                                     *)

CONSTANT Jobs

Verdicts == {"open", "succeeded", "failed", "blocked", "cancelled", "forgotten"}

VARIABLES verdict,         \* what a client is told of the job
          executing        \* jobs whose handler is running

promise == <<verdict, executing>>

Init == verdict = [j \in Jobs |-> "open"] /\ executing = {}

Begin(j) ==
  /\ verdict[j] = "open" /\ j \notin executing
  /\ executing' = executing \cup {j}
  /\ UNCHANGED verdict

\* An execution ends with a verdict, or without one: to be tried again.
End(j) ==
  /\ j \in executing
  /\ executing' = executing \ {j}
  /\ \E v \in {"open", "succeeded", "failed", "blocked"} :
       verdict[j] = "open" /\ verdict' = [verdict EXCEPT ![j] = v]

Cancel(j) ==
  /\ verdict[j] = "open" /\ j \notin executing
  /\ verdict' = [verdict EXCEPT ![j] = "cancelled"]
  /\ UNCHANGED executing

\* A blocked job is kept until the owner has seen to it.
Forget(old) ==
  /\ \A j \in old : verdict[j] \in {"succeeded", "failed", "cancelled"} /\ j \notin executing
  /\ verdict' = [j \in Jobs |-> IF j \in old THEN "forgotten" ELSE verdict[j]]
  /\ UNCHANGED executing

Next ==
  \/ \E j \in Jobs : Begin(j) \/ End(j) \/ Cancel(j)
  \/ \E old \in SUBSET Jobs : Forget(old)

Spec == Init /\ [][Next]_promise
=============================================================================
