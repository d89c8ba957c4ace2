---------------------------- MODULE MailPromise ----------------------------
(* What the outreach sender promises of every touch of every sequence,       *)
(* whatever crashes: it goes out at most once, only after the touch before   *)
(* it was confirmed, and what the queue finally says of it is true.          *)
EXTENDS Naturals

CONSTANTS Companies, MaxStep

Touches == Companies \X (0 .. MaxStep)
Verdicts == {"open", "sent", "unsure", "dropped"}

VARIABLES verdict,         \* what the queue says of the touch
          out              \* it has left for the recipient

promise == <<verdict, out>>

Init == verdict = [t \in Touches |-> "open"] /\ out = [t \in Touches |-> FALSE]

Before(t) == <<t[1], t[2] - 1>>

Deliver(t) ==
  /\ verdict[t] = "open" /\ ~out[t]
  /\ t[2] > 0 => verdict[Before(t)] = "sent"
  /\ out' = [out EXCEPT ![t] = TRUE]
  /\ UNCHANGED verdict

\* Nobody can tell any more whether it went out.
GiveUp(t) ==
  /\ verdict[t] = "open"
  /\ verdict' = [verdict EXCEPT ![t] = "unsure"]
  /\ UNCHANGED out

\* Dropped touches may be planned again, several at a time.
Reopen(touches) ==
  /\ touches # {} /\ \A t \in touches : verdict[t] = "dropped"
  /\ verdict' = [t \in Touches |-> IF t \in touches THEN "open" ELSE verdict[t]]
  /\ UNCHANGED out

\* A touch is given up before it left, or a stopped sequence drops them all.
Drop(touches) ==
  /\ \A t \in touches : verdict[t] = "open" /\ ~out[t]
  /\ verdict' = [t \in Touches |-> IF t \in touches THEN "dropped" ELSE verdict[t]]
  /\ UNCHANGED out

\* A confirmed touch may come with its successor refused by the copy check.
Confirm(t, refused) ==
  /\ verdict[t] = "open" /\ out[t]
  /\ \A u \in refused : u[1] = t[1] /\ u[2] = t[2] + 1 /\ verdict[u] = "open" /\ ~out[u]
  /\ verdict' = [u \in Touches |-> IF u = t THEN "sent"
                                   ELSE IF u \in refused THEN "dropped" ELSE verdict[u]]
  /\ UNCHANGED out

Next ==
  \/ \E t \in Touches : \/ Deliver(t)
                        \/ GiveUp(t)
                        \/ \E refused \in SUBSET Touches : Confirm(t, refused)
  \/ \E touches \in SUBSET Touches : Reopen(touches) \/ Drop(touches)

Spec == Init /\ [][Next]_promise
=============================================================================
