---------------------------- MODULE Notifications ----------------------------
(* What the owner is told (notify.py, conversations/notify.py,               *)
(* outreach/agentmail.py) and the three flushes over the one table: a notice *)
(* is a row that stays undelivered until somebody posted it and said so, in  *)
(* a transaction of its own. Posting is a web request, whose answer may be   *)
(* lost.                                                                     *)
EXTENDS Naturals, FiniteSets

CONSTANTS Notices,        \* events the owner is told of, numbered as they are created
          ChannelOf,      \* per event: who tells it (see Channels)
          Tellers,        \* processes: workers and mailbox jobs
          TriesOf,        \* per channel: attempts its own flush makes
          MaxPosts,       \* bound: times one notice is accepted
          MaxDeaths       \* bound: processes that die telling

\* notify_owner(); notify_once(); agentmail.notify()
Channels == {"webhook", "card", "mail"}
ASSUME NotificationsAssumption ==
  /\ ChannelOf \in [Notices -> Channels] /\ TriesOf \in [Channels -> Nat \ {0}]
  /\ MaxPosts \in Nat /\ MaxDeaths \in Nat
  /\ \A s \in SUBSET Notices : s # {} => \E n \in s : \A m \in s : n <= m

VARIABLES
  row,          \* per event: its row in notifications, or NoRow
  teller,       \* per process: what it does, for which notices, and whether the
                \* post in hand was answered with success
  posts,        \* history, per event: how often it reached the owner
  spoiled,      \* history: events whose telling was disturbed (see below)
  deaths

noticeVars == <<row, teller, posts, spoiled, deaths>>

\* old: more than a day has passed. attempts are told apart up to the limit.
NoNotice == [there |-> FALSE, delivered |-> FALSE, attempts |-> 0, old |-> FALSE]
NewNotice(delivered) == [there |-> TRUE, delivered |-> delivered, attempts |-> 0, old |-> FALSE]
\* Jobs: "owner" posts first and writes then; the others post what is written.
Resting == [job |-> "none", left |-> {}, at |-> "post", ok |-> FALSE]

NoticesInit ==
  /\ row = [n \in Notices |-> NoNotice]
  /\ teller = [t \in Tellers |-> Resting]
  /\ posts = [n \in Notices |-> 0]
  /\ spoiled = {} /\ deaths = 0

\* A notice that two processes have in hand at once is disturbed.
InHand(n) == \E t \in Tellers : n \in teller[t].left
Take(t, job, notices) ==
  /\ teller' = [teller EXCEPT ![t] = [job |-> job, left |-> notices, at |-> "post", ok |-> FALSE]]
  /\ spoiled' = spoiled \cup {n \in notices : InHand(n)}

\* notify_owner(): nothing is written before the post.
TellOwner(t, n) ==
  /\ teller[t] = Resting /\ ChannelOf[n] = "webhook" /\ row[n] = NoNotice /\ ~InHand(n)
  /\ Take(t, "owner", {n})
  /\ UNCHANGED <<row, posts, deaths>>

\* Mutant: the key is not looked at.
KeyTakenNever(n) == FALSE
\* ON CONFLICT (dedupe_key) DO NOTHING
KeyTaken(n) == row[n].there

\* notify_once() and agentmail.notify(), as often as the event is met: the first
\* writes the row, commits it and delivers it, or (deliver=False) leaves that to
\* a flush.
TellOnce(t, n) ==
  /\ teller[t] = Resting /\ ChannelOf[n] \in {"card", "mail"} /\ ~KeyTaken(n)
  /\ row' = [row EXCEPT ![n] = NewNotice(FALSE)]
  /\ Take(t, "once", {n}) \/ UNCHANGED <<teller, spoiled>>
  /\ UNCHANGED <<posts, deaths>>

\* flush(): rows of its own channel with attempts left; mail of more than a day
\* ago is stale news, which its flush leaves to the daily digest. A process that
\* has no key for the mail returns before it looks at a row.
GivenUp(n) == row[n].attempts >= TriesOf[ChannelOf[n]] \/ (ChannelOf[n] = "mail" /\ row[n].old)
Flushable(c) ==
  {n \in Notices : ChannelOf[n] = c /\ row[n].there /\ ~row[n].delivered /\ ~GivenUp(n)}
StartFlush(t, c) ==
  /\ teller[t] = Resting /\ c # "webhook" /\ Flushable(c) # {}
  /\ Take(t, "flush", Flushable(c))
  /\ UNCHANGED <<row, posts, deaths>>

\* agentmail.retry(): one saved mail that never went out, however often tried;
\* like a flush it has no other way out.
Retry(t, n) ==
  /\ teller[t] = Resting /\ ChannelOf[n] = "mail" /\ row[n].there /\ ~row[n].delivered
  /\ Take(t, "flush", {n})
  /\ UNCHANGED <<row, posts, deaths>>

\* handle_notify_flush(): every undelivered row, the others' too, without limit.
Undelivered == {n \in Notices : row[n].there /\ ~row[n].delivered}
StartNotifyFlush(t) ==
  /\ teller[t] = Resting /\ Undelivered # {}
  /\ Take(t, "notify.flush", Undelivered)
  /\ UNCHANGED <<row, posts, deaths>>

Oldest(s) == CHOOSE n \in s : \A m \in s : n <= m
Next1(t) == Oldest(teller[t].left)
ToPost(t) == teller[t].job # "none" /\ teller[t].left # {} /\ teller[t].at = "post"
Noting(t) == teller[t].job # "none" /\ teller[t].left # {} /\ teller[t].at = "note"

\* One web request: taken and answered; taken, and the answer lost; not taken
\* (or no address and no key is configured).
Post(t) ==
  /\ ToPost(t)
  /\ LET n == Next1(t) IN
     \E taken \in (IF posts[n] < MaxPosts THEN BOOLEAN ELSE {FALSE}), answered \in BOOLEAN :
       /\ posts' = [posts EXCEPT ![n] = IF taken THEN @ + 1 ELSE @]
       /\ teller' = [teller EXCEPT ![t].at = "note", ![t].ok = taken /\ answered]
       /\ spoiled' = IF taken /\ ~answered THEN spoiled \cup {n} ELSE spoiled
  /\ UNCHANGED <<row, deaths>>

\* agentmail.notify() in a process without a key: the news goes out over Discord,
\* and the mail stays undelivered, for a flush with the key to send as well.
TellOnDiscord(t) ==
  /\ ToPost(t) /\ teller[t].job = "once" /\ ChannelOf[Next1(t)] = "mail"
  /\ LET n == Next1(t) IN
     /\ posts[n] < MaxPosts /\ posts' = [posts EXCEPT ![n] = @ + 1]
     /\ spoiled' = spoiled \cup {n}
  /\ teller' = [teller EXCEPT ![t].at = "note", ![t].ok = FALSE]
  /\ UNCHANGED <<row, deaths>>

\* Mutant: delivered whatever came back.
NotedDelivered2(t, r) == [r EXCEPT !.delivered = TRUE]
\* Mutant: the attempt is not counted.
NotedUncounted(t, r) == [r EXCEPT !.delivered = teller[t].ok]
\* The UPDATE of _deliver(), which overwrites what others noted meanwhile.
NotedOwn(t, r) == [r EXCEPT !.delivered = teller[t].ok,
                            !.attempts = IF @ < TriesOf[ChannelOf[Next1(t)]] THEN @ + 1 ELSE @]
\* The row after its post, by the job: notify.flush only ever sets the mark.
Noted(t, r) ==
  IF teller[t].job = "owner" THEN NewNotice(teller[t].ok)
  ELSE IF teller[t].job = "notify.flush" THEN [r EXCEPT !.delivered = @ \/ teller[t].ok]
  ELSE NotedOwn(t, r)

Done1(t) ==
  LET rest == teller[t].left \ {Next1(t)} IN
  IF rest = {} THEN Resting ELSE [teller[t] EXCEPT !.left = rest, !.at = "post", !.ok = FALSE]

Note(t) ==
  /\ Noting(t)
  /\ row' = [row EXCEPT ![Next1(t)] = Noted(t, @)]
  /\ teller' = [teller EXCEPT ![t] = Done1(t)]
  /\ UNCHANGED <<posts, spoiled, deaths>>

DayPasses(n) ==
  /\ row[n].there /\ ~row[n].old /\ ChannelOf[n] = "mail"
  /\ row' = [row EXCEPT ![n].old = TRUE]
  /\ UNCHANGED <<teller, posts, spoiled, deaths>>

\* The process dies or loses its connection; notify_owner() swallows the error
\* of its INSERT, and the event is in no row.
TellerDies(t) ==
  /\ teller[t] # Resting /\ deaths < MaxDeaths
  /\ deaths' = deaths + 1
  /\ spoiled' = IF Noting(t) /\ teller[t].ok THEN spoiled \cup {Next1(t)} ELSE spoiled
  /\ teller' = [teller EXCEPT ![t] = Resting]
  /\ UNCHANGED <<row, posts>>

NoticesNext ==
  \/ \E t \in Tellers, n \in Notices : TellOwner(t, n) \/ TellOnce(t, n) \/ Retry(t, n)
  \/ \E n \in Notices : DayPasses(n)
  \/ \E t \in Tellers, c \in Channels : StartFlush(t, c)
  \/ \E t \in Tellers : StartNotifyFlush(t) \/ Post(t) \/ TellOnDiscord(t) \/ Note(t) \/ TellerDies(t)

NoticesSpec == NoticesInit /\ [][NoticesNext]_noticeVars
\* What a process has in hand it goes through, and the schedules of the mailbox
\* jobs flush what waits, some of them with the key: without one no mail is sent.
NoticesFairness ==
  /\ \A t \in Tellers : WF_noticeVars(Post(t) \/ Note(t))
  /\ \A c \in Channels : SF_noticeVars(\E t \in Tellers : StartFlush(t, c))
-------------------------------------------------------------------------------
NoticesTypeOK ==
  /\ row \in [Notices -> [there : BOOLEAN, delivered : BOOLEAN, attempts : Nat, old : BOOLEAN]]
  /\ \A t \in Tellers :
       teller[t] \in [job : {"none", "owner", "once", "flush", "notify.flush"}, left : SUBSET Notices,
                      at : {"post", "note"}, ok : BOOLEAN]
  /\ posts \in [Notices -> 0 .. MaxPosts] /\ spoiled \subseteq Notices /\ deaths \in 0 .. MaxDeaths

\* No notice counts as delivered that never reached the owner, whichever of the
\* three flushes overlap on it and whatever is lost: at most he is told again.
DeliveredWasTold == \A n \in Notices : row[n].delivered => posts[n] > 0

\* "Exactly once per event" (conversations/notify.py:1), as far as it goes: a
\* card or a mail reaches the owner twice only when an answer was lost, a
\* process died between the post and its mark, two flushes overlapped, or a mail
\* went over Discord for want of a key - however often the event itself is met.
TwiceOnlyWhenSpoiled == \A n \in Notices : posts[n] > 1 => n \in spoiled

\* Every card and mail that is written is settled: delivered, or given up by its
\* flush after all its attempts, or (mail) after a day.
NoticesSettle ==
  \A n \in Notices :
    (row[n].there /\ ChannelOf[n] # "webhook")
      ~> (row[n].delivered \/ GivenUp(n))
===============================================================================
