------------------------------ MODULE JobQueue ------------------------------
(* The job queue of the workers (worker/queue.py, worker/loop.py, the        *)
(* deletions of worker/retention.py, and the API's create and cancel): the   *)
(* jobs table, and workers that claim one row, run its handler without any   *)
(* lock, and write the outcome by the row's id alone.                        *)
(*                                                                           *)
(* Priority and run_at only choose among the queued rows: left open.         *)
EXTENDS Naturals

CONSTANTS Jobs,            \* ids of jobs; an id is used once
          Workers,         \* worker processes, each restarted by its supervisor
          Names, NoName,   \* INSTANCE_NAMEs; NULL
          NameOf,          \* the name each process runs under
          MaxAttempts,     \* max_attempts of each job
          MaxCrashes,      \* bound: processes killed
          MaxDrops         \* bound: transactions lost with their connection

ASSUME QueueAssumption ==
  /\ NameOf \in [Workers -> Names] /\ NoName \notin Names
  /\ MaxAttempts \in [Jobs -> Nat \ {0}]
  /\ MaxCrashes \in Nat /\ MaxDrops \in Nat

VARIABLES
  status, attempts, lockedBy,   \* the columns of jobs
  up,                      \* processes whose loop runs
  hand,                    \* per process: the row claim_next returned, at most one
  crashes, drops,
  dropped                  \* running rows nobody knows of: a transaction was lost

jobs == <<status, attempts, lockedBy>>
vars == <<jobs, up, hand, crashes, drops, dropped>>

Statuses == {"absent", "queued", "running", "succeeded", "failed", "blocked", "cancelled", "deleted"}
Claims == [job: Jobs, tries: Nat]

TypeOK ==
  /\ status \in [Jobs -> Statuses]
  /\ attempts \in [Jobs -> Nat] /\ lockedBy \in [Jobs -> Names \cup {NoName}]
  /\ up \subseteq Workers /\ hand \in [Workers -> SUBSET Claims]
  /\ crashes \in 0 .. MaxCrashes /\ drops \in 0 .. MaxDrops
  /\ dropped \subseteq Jobs

Init ==
  /\ status = [j \in Jobs |-> "absent"] /\ attempts = [j \in Jobs |-> 0]
  /\ lockedBy = [j \in Jobs |-> NoName]
  /\ up = {} /\ hand = [w \in Workers |-> {}]
  /\ crashes = 0 /\ drops = 0 /\ dropped = {}
-----------------------------------------------------------------------------
(* Clients                                                                   *)

\* create_job(), enqueue()
Enqueue(j) ==
  /\ status[j] = "absent"
  /\ status' = [status EXCEPT ![j] = "queued"]
  /\ UNCHANGED <<attempts, lockedBy, up, hand, crashes, drops, dropped>>

\* Mutant: whatever is not finished can be cancelled.
CancelUnfinished(j) ==
  /\ status[j] \in {"queued", "running"}
  /\ status' = [status EXCEPT ![j] = "cancelled"]
  /\ UNCHANGED <<attempts, lockedBy, up, hand, crashes, drops, dropped>>

\* cancel_job(): only while it is queued.
Cancel(j) ==
  /\ status[j] = "queued"
  /\ status' = [status EXCEPT ![j] = "cancelled"]
  /\ UNCHANGED <<attempts, lockedBy, up, hand, crashes, drops, dropped>>
-----------------------------------------------------------------------------
(* A worker's life                                                           *)

\* Mutants: recovery takes every running row for a dead one; or only those
\* that failed before.
RecoverAll(w) ==
  /\ status' = [j \in Jobs |-> IF status[j] = "running" THEN "queued" ELSE status[j]]
  /\ lockedBy' = [j \in Jobs |-> IF status[j] = "running" THEN NoName ELSE lockedBy[j]]
  /\ UNCHANGED <<attempts, drops, dropped>>
RecoverFailed(w) ==
  LET mine == {j \in Jobs : status[j] = "running" /\ lockedBy[j] = NameOf[w] /\ attempts[j] > 0} IN
  /\ status' = [j \in Jobs |-> IF j \in mine THEN "queued" ELSE status[j]]
  /\ lockedBy' = [j \in Jobs |-> IF j \in mine THEN NoName ELSE lockedBy[j]]
  /\ dropped' = dropped \ mine
  /\ UNCHANGED <<attempts, drops>>

\* Running rows under the process's name: those its last life left behind.
Left(w) == {j \in Jobs : status[j] = "running" /\ lockedBy[j] = NameOf[w]}

\* recover_stale()
Recover(w) ==
  /\ status' = [j \in Jobs |-> IF j \in Left(w) THEN "queued" ELSE status[j]]
  /\ lockedBy' = [j \in Jobs |-> IF j \in Left(w) THEN NoName ELSE lockedBy[j]]
  /\ dropped' = dropped \ Left(w)
  /\ UNCHANGED <<attempts, drops>>

\* run_forever() starts, and goes on when the recovery fails.
RecoverSkipped(w) ==
  /\ drops < MaxDrops /\ drops' = drops + 1
  /\ dropped' = dropped \cup Left(w)
  /\ UNCHANGED jobs

Start(w) ==
  /\ w \notin up
  /\ Recover(w) \/ RecoverSkipped(w)
  /\ up' = up \cup {w}
  /\ UNCHANGED <<hand, crashes>>

\* A requested stop is honoured between two jobs.
Stop(w) ==
  /\ w \in up /\ hand[w] = {}
  /\ up' = up \ {w}
  /\ UNCHANGED <<jobs, hand, crashes, drops, dropped>>

Crash(w) ==
  /\ w \in up /\ crashes < MaxCrashes
  /\ crashes' = crashes + 1
  /\ up' = up \ {w} /\ hand' = [hand EXCEPT ![w] = {}]
  /\ UNCHANGED <<jobs, drops, dropped>>

\* claim_next(). The answer may be lost with the connection: the row is
\* claimed and the loop goes on without it.
ClaimNext(w, j) ==
  /\ w \in up /\ hand[w] = {} /\ status[j] = "queued"
  /\ status' = [status EXCEPT ![j] = "running"]
  /\ lockedBy' = [lockedBy EXCEPT ![j] = NameOf[w]]
  /\ \/ /\ hand' = [hand EXCEPT ![w] = {[job |-> j, tries |-> attempts[j]]}]
        /\ UNCHANGED <<drops, dropped>>
     \/ /\ drops < MaxDrops /\ drops' = drops + 1
        /\ dropped' = dropped \cup {j}
        /\ UNCHANGED hand
  /\ UNCHANGED <<attempts, up, crashes>>
-----------------------------------------------------------------------------
(* process_one(): the handler has ended, its outcome is written              *)

\* UPDATE jobs SET status = s WHERE id = ...: nothing else is asked.
Write(h, s, tries) ==
  /\ status' = [status EXCEPT ![h.job] = IF @ = "deleted" THEN @ ELSE s]
  /\ attempts' = [attempts EXCEPT ![h.job] = tries]
  /\ lockedBy' = [lockedBy EXCEPT ![h.job] = NoName]

Report(w, h) ==
  /\ h \in hand[w]
  /\ hand' = [hand EXCEPT ![w] = {}]
  /\ UNCHANGED <<up, crashes, drops, dropped>>

Complete(w, h) == Report(w, h) /\ Write(h, "succeeded", attempts[h.job])

\* block(): a code of FAIL_CLOSED_CODES, no retry.
Block(w, h) == Report(w, h) /\ Write(h, "blocked", attempts[h.job])

\* Mutant: the deferral gives a try back.
DeferRefunds(w, h) == Report(w, h) /\ Write(h, "queued", attempts[h.job] - 1)

\* defer(): a code of DEFER_CODES, the try does not count.
Defer(w, h) == Report(w, h) /\ Write(h, "queued", attempts[h.job])

\* Mutant: one try too many.
FailLate(w, h) ==
  /\ Report(w, h)
  /\ Write(h, IF h.tries + 1 > MaxAttempts[h.job] THEN "failed" ELSE "queued", h.tries + 1)

\* fail(): any other error, counted from the row as it was claimed.
Fail(w, h) ==
  /\ Report(w, h)
  /\ Write(h, IF h.tries + 1 >= MaxAttempts[h.job] THEN "failed" ELSE "queued", h.tries + 1)

\* The connection is gone when the outcome is to be written: the exception
\* leaves process_one(), the loop catches it and goes on.
ReportLost(w, h) ==
  /\ h \in hand[w] /\ drops < MaxDrops
  /\ hand' = [hand EXCEPT ![w] = {}]
  /\ drops' = drops + 1 /\ dropped' = dropped \cup {h.job}
  /\ UNCHANGED <<jobs, up, crashes>>

\* retention.prune() as some worker's handler deletes old rows, never blocked ones.
Prune(old) ==
  /\ \E w \in Workers : hand[w] # {}
  /\ old # {} /\ \A j \in old : status[j] \in {"succeeded", "cancelled", "failed"}
  /\ status' = [j \in Jobs |-> IF j \in old THEN "deleted" ELSE status[j]]
  /\ UNCHANGED <<attempts, lockedBy, up, hand, crashes, drops, dropped>>

Outcome(w) ==
  \E h \in hand[w] : Complete(w, h) \/ Block(w, h) \/ Defer(w, h) \/ Fail(w, h) \/ ReportLost(w, h)

Next ==
  \/ \E j \in Jobs : Enqueue(j) \/ Cancel(j)
  \/ \E w \in Workers :
       \/ Start(w) \/ Stop(w) \/ Crash(w) \/ Outcome(w)
       \/ \E j \in Jobs : ClaimNext(w, j)
  \/ \E old \in SUBSET Jobs : Prune(old)

Spec == Init /\ [][Next]_vars

(* Supervisors start a worker again that ended (compose restart: always,     *)
(* host_worker_supervisor.py), and handlers are time-boxed, so they end.     *)
Fairness == \A w \in Workers : WF_vars(Start(w)) /\ WF_vars(Outcome(w))

FairSpec == Spec /\ Fairness
-----------------------------------------------------------------------------
(* queue.py:93, "concurrent workers never claim the same job", and keep it:  *)
(* a row in a worker's hand is nobody else's, is running under the worker's  *)
(* name and is as it was claimed - across restarts, recoveries of other      *)
(* workers, cancellation and retention.                                      *)
HolderOwns ==
  \A w \in Workers : \A h \in hand[w] :
    /\ w \in up /\ status[h.job] = "running" /\ lockedBy[h.job] = NameOf[w]
    /\ attempts[h.job] = h.tries
    /\ \A v \in Workers : \A g \in hand[v] : g.job = h.job => v = w /\ g = h

(* A job is tried while tries are left and has failed only when none is:     *)
(* deferrals, crashes, lost transactions and recoveries in between included. *)
TriesAreCounted ==
  \A j \in Jobs : /\ status[j] \in {"absent", "queued", "running", "blocked"} => attempts[j] < MaxAttempts[j]
                  /\ status[j] = "failed" => attempts[j] = MaxAttempts[j]

(* FAILURE_MODES.md:15, a job left running by a crash is requeued on restart: *)
(* every running row some day leaves that state, unless a transaction about  *)
(* it was lost while its worker lived on.                                    *)
EveryRunEnds == \A j \in Jobs : status[j] = "running" ~> (status[j] # "running" \/ j \in dropped)

(* FAILURE_MODES.md:14, "DB connection dropped mid-job": "Worker catches,    *)
(* job attempts+1, retried with backoff to max_attempts". A row that was in  *)
(* a worker's hand some day leaves the state running.                        *)
DroppedIsRetried ==
  \A j \in Jobs : (\E w \in Workers : \E h \in hand[w] : h.job = j) ~> status[j] # "running"

VerdictOf(s) == CASE s \in {"absent", "queued", "running"} -> "open"
                  [] s = "deleted" -> "forgotten"
                  [] OTHER -> s

Promise == INSTANCE JobPromise WITH
             verdict <- [j \in Jobs |-> VerdictOf(status[j])],
             executing <- {j \in Jobs : \E w \in Workers : \E h \in hand[w] : h.job = j}

(* The queue keeps what JobPromise promises its clients.                     *)
KeepsPromise == Promise!Spec
=============================================================================
