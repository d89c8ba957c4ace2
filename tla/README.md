# Cloud AI OS in TLA+

This directory holds a formal model of Cloud AI OS. Its core is the part that decides
**who is emailed, when, and what is remembered of it** - the conversation layer
(`src/src/cloudos/conversations`), the outreach sender
(`src/src/cloudos/outreach`, `src/outreach_sender.py`) and the review campaign
that feeds it - and the **job queue** its workers live on (`src/src/cloudos/worker`).
Around the core stand models of the **lead engine**, which fills the book of companies,
and of the **services**: AI router, second brain, email outbox, BrightReach,
notifications, email alerts, Gmail reader, job agent, revenue loop. TLC checks the
modules on small instances; TLAPS proves the theorems for every value of the constants.

Run in this directory: `tlc -workers 2 -config sender.cfg MCOutreachSender`,
`tlapm OutreachSenderProofs.tla`, and so on. Paths below are relative to the
repository's root.

## 1. Inventory

| Component | State it keeps | Operations | Talks to |
|---|---|---|---|
| **Conversation layer** `conversations/{status,store,pipeline,guard}.py`, migrations 007, 008 | `company_conversation_state`, `outreach_messages`, `outreach_history`, `email_suppressions`, `attention_items`; mirrors the status into `companies.outreach_status` | `outreach_send_check`, `record_confirmed_send`, `process_inbound`, `owner_set_status`, `mark_won`, `mark_lost`, `set_status`, `ensure_state` | every sender asks it before, and tells it after |
| **Outreach sender** `outreach/{sender,replies,transport}.py`, `outreach_sender.py`, migration 009 | `outreach_queue`, reply watermark, local copy of a claimed row | cycle = sweep, plan, recover, poll, sweep, run; `claim`, `send_item`, `record_sent`, `_finish`, `_release` | planner, guard, SMTP, IMAP |
| **Review campaign** `outreach/review_campaign.py` | campaign copy, approvals; deletes and inserts queue rows; writes `companies.outreach_status` | `queue_approved`, `auto_prepare_campaign`, `qualify`, `_sendable` | queue, companies, guard |
| **Reply readers** `conversations/{gmail_sync,classify,match}.py`, `outreach_replies.py` | watermark per mailbox, quarantine, claims of prepared drafts | `sync`, `_one`, `push_pending_drafts`, `classify`, `match` | conversation layer, Gmail |
| **Lead dashboard** `leadgen/dashboard.py` | none of its own; upserts queue rows | `stage_draft_for_company`, `batch_stage_qualified_leads` | queue |
| **Worker job queue** `worker/{queue,loop,retention}.py`, `api/store.py`, migration 001 | `jobs`, `checkpoints` | enqueue, claim, complete, fail, defer, block, cancel, `recover_stale`, prune | handlers, notifications |
| **AI router** `router/levels.py`, `router/providers/` | `provider_status` (cooldowns), `quota_usage` | route over providers, strict privacy gate, probe | provider CLIs |
| **Second brain, privacy filter** `second_brain/core.py`, `privacy/rules.py` | `sb_index`, the notes | index walk, `get_context`, gate | external AIs |
| **Email outbox** `email_outbox.py` | draft files, receipts | create, preview, send, import of receipts | guard, SMTP |
| **BrightReach** `brightreach/service.py` | append-only ledger | create lead, qualify, follow up, book | requests |
| **Notifications** `notify.py`, `conversations/notify.py`, `outreach/agentmail.py`, `notify.flush` | `notifications` (delivered, attempts, dedupe key) | tell, flush (three of them) | Discord, AgentMail |
| **Lead engine** `leadgen/{engine,pipeline,handoff,store,enrich,...}.py`, `lead_engine.py` | `companies`, `contacts`, `lead_queries`, `lead_source_health`, batch lock and bookmark, the Airtable tray | search, recheck, history import, batch, hand-off | planner, sender, guard |
| **Email alerts** `email_alerts/`, its workflow | `state/email_alerts_seen.json` on a branch | read, score, alert, push | IMAP, Discord, git |
| **Job agent** `job_agent/` | `job_applications` | discover, list, apply, record | job boards by browser |
| **Revenue loop** `revenue_os.py`, `n8n/revenue_os_main.json` | `revenue_os_state` (milestone, bottlenecks) | decide, run one action | nearly everything |
| HTTP API, Discord bot, optimizer, employees, ingress worker, n8n, infra | little | adapters | over the above |

How they interact: the sender's cycle runs from a ticker in a GitHub workflow with a
concurrency group, another workflow reads the owner's Gmail, a third one finds leads, the
dashboard and the worker run on other machines. All of them share one Postgres database,
and nothing else: there are no locks held across a network call (but one in the lead
batch, which times out), so **every hazard is an interleaving of short transactions with
slow outside calls**.

What is hard here, and the properties that make each part right:

* *An outside call cannot be rolled back* - an SMTP call, a post, a click in a browser, a
  prompt handed to a CLI, a record created in Airtable. A process may die before it, during
  it, after it was accepted, before it is recorded; an answer may be lost. Right means:
  nothing happens twice that must not, what the tables say is true, nothing is left
  hanging for ever.
* *Two tables hold one truth.* The conversation's status and the lead engine's column
  are written by ten functions. Right means: they never disagree in a way that offers a
  contacted company again. The same between the book and the tray in Airtable.
* *Replies race sends.* An opt-out may be stored between the guard's answer and the
  SMTP call, or between the SMTP call and its record. Right means: nothing but that
  one email goes, and the record of it does not undo the opt-out.
* *A job runs without any lock.* The claim is a short transaction, the outcome another
  one that names the row by its id alone; restarts, cancellation and retention come in
  between. Right means: one execution at a time, one verdict, no reported failure lost from
  or added to the count of tries, no job left running.
* *A status machine with a table of transitions and a second table of targets.* Right
  means: no legal event ever asks for a transition the first table refuses, because the
  refusal rolls back the event.
* *What is cached is stale.* The index of notes, a provider's cooldown, a run's list of
  postings, a checkout of the seen-record, a batch of queries planned before a source was
  benched. Right means: the decision that cannot be taken back looks at the thing itself,
  or the damage is bounded.
* *A list of failures steers what is done next.* Right means: a failure that can be
  repaired is repaired some day, and does not stop everything behind it.

Every hazard found is in `PROJECT.json`, at its line, with the properties that cover it
or the reason none does.

## 2. Modules

| Module | Models | Depends on |
|---|---|---|
| `SendGuard` | the company record as a value; `status.py`, `store.py`, the effect of `process_inbound`, `outreach_send_check`, the small writers of `sender.py` and `review_campaign.py` as operators on it. No variables. | - |
| `Conversation` | one company's record under slow sends, replies, bounces, owner decisions and the planner | `SendGuard` |
| `OutreachSender` | `outreach_queue`, the cycle and `send_item` by several workers, the mail server, the Sent folder, the poll, the companies' records | `SendGuard`, `MailPromise` |
| `MailPromise` | abstract: what the sender promises of a touch | - |
| `JobQueue` | the `jobs` table, workers that claim, execute and report, their restarts, cancel, retention | `JobPromise` |
| `JobPromise` | abstract: what the queue promises a client of a job | - |
| `LeadSite` | what a reading of a website comes to: addresses, facts, verdict, status. No variables. | - |
| `SequenceFilter` | `Keeping`, the elements of a sequence that are in a set, as a recursive function (`SelectSeq` is `RECURSIVE`). No variables. | - |
| `LeadBook` | `companies`, `contacts`, recorded emails, the tray: the state the lead modules share | `LeadSite`, `SequenceFilter` |
| `LeadIntake` | search, recheck of stored companies, import of the history | `LeadBook` |
| `LeadBatch` | `run_batch` with its lock, bookmark and drafts | `LeadBook` |
| `LeadHandoff` | any number of hand-offs (workflow, worker, owner) that sync with Airtable and top up its tray, the sender and the guard beside them | `LeadBook` |
| `LeadEngine` | composes `LeadIntake`, `LeadBatch`, `LeadHandoff` over one book: `LeadSpec`, everybody side by side | the three |
| `LeadSources` | health of the sources, queries, runs of the engine that plan by them, batches that search without asking | `SequenceFilter` |
| `PrivacyGate` | labels, the label of a note, the gate, as operators | - |
| `AiRouter` | requests that walk the providers, cooldowns, probes | `PrivacyGate` |
| `SecondBrain` | notes, index walks, contexts | `PrivacyGate` |
| `EmailOutbox`, `BrightReach`, `Notifications`, `EmailAlerts`, `GmailReader`, `JobAgent`, `RevenueLoop` | the services of those names | - |
| `MCConversation`, `MCOutreachSender`, `MCJobQueue` | values of the constants for TLC | |
| `MCLeads` | `LeadEngine` on small values, in mixes of actors | `LeadEngine` |
| `Services` | `JobQueue` and the ten services of one installation, all at once: `ServicesSpec` | all of them |
| `MCServices` | values for `Services`; of its eleven specifications a behaviour runs one of `Chosen` | `MCJobQueue`, `Services` |
| `SendGuardTheorems` | lemmas on the operators of `SendGuard` | `SendGuard` |
| `ConversationProofs` | theorems on `Conversation` | both |
| `OutreachSenderProofs` | theorems on `OutreachSender`: the queue with the refinement of `MailPromise`, then the company records | both |
| `JobQueueProofs` | theorems on `JobQueue`, the refinement included | `JobQueue` |
| `PrivacyProofs` | theorems on what leaves for an external AI, and on the index | `AiRouter`, `SecondBrain` |
| `OnceProofs` | what the owner is told, and how often; an application is sent once, and the history says so truly; a reviewed email leaves once, as it was shown, and its receipt is true; a mail counts once and none is passed over | `EmailAlerts`, `Notifications`, `JobAgent`, `EmailOutbox`, `GmailReader` |
| `LeadProofs` | theorems on book, tray and lock with all writers at once; on benched sources; on BrightReach's ledger | `LeadEngine`, `LeadSources`, `BrightReach` |
| `ServicesProofs` | the cycles of the revenue loop; the types of all services at once | `Services` and the proof modules of its parts |

### State and code: the core

*The company record.* `status`, `cold`, `dnc`, `bounced`, `proposal` are the columns of
`company_conversation_state` (`NoRow`: `ensure_state` has not created it), `outreach` is
`companies.outreach_status`, `inbound` stands for a human row in `outreach_messages`,
`suppressed` for a row of `email_suppressions`, `hold` for an open attention item of the
kinds the guard refuses on. `contacted` merges three sources the guard and the planner
look at (a sent message, a history row, `first_contacted_at`), since every writer that
sets one sets one the guard reads as well.

*The queue.* A row is named by its unique key `<<company, step>>`; `"absent"` means no
row. `qstate`, `msgid`, `attempts` are its columns; `stale` says that `claimed_at` is
older than `STALE_CLAIM` (15 minutes). Rows deleted and created again keep the
name, so `AtMostOnce` counts a touch's deliveries through deletions.

*A worker* has a program counter `pc`, the row in hand (`item`, as `claim` returned it:
the code goes on with these values, not with the table's), the rows `recover` read
(`todo`, likewise a copy) and whether its run may send follow-ups. A crash loses
exactly these.

*The mail world.* `delivered` counts how often a row's email left, `filed` is the
Sent folder. An answer waits in `unread` until it is polled.

*The job queue.* `status`, `attempts`, `lockedBy` are columns of `jobs`; `"absent"` and
`"deleted"` stand for no row. `hand` is the row `claim_next` returned to a process: the
code counts tries from this copy, not from the table. A process of `Workers` runs under
`NameOf` it (`INSTANCE_NAME`); a crash empties its hand, `Start` is `run_forever` up to
its loop, with `recover_stale`. `dropped` (no column) remembers rows that stayed running
because a transaction was lost with its connection, so that the liveness property can
except them. A job's verdict in `JobPromise` is its status as far as it is final; it is
executing while it is in some hand.

### State and code: leads and services

*The book.* `company` is a row of `companies` by the listing it came from (`reached` is
`first_contacted_at`, `records` the ledgers it was imported from), `contact` a row of
`contacts` by its unique address, `emailed` the addresses in `outreach_history`, `tray` the
engine's records in Airtable in the order they were created. A site is what its pages hold
(`SitesOf` lists what it may be at a reading), and `EnrichWebsite` and `Qualify`
work out what the code does of it. `run` is a batch with its token, its selected
items and the bookmark it will write, `handoff` what each hand-off has listed, picked and
created so far. `lost` (history) collects companies that were rolled back, `abreast` (history)
is the most hand-offs that were topping up at once.

*Sources.* `health` and `asked` are `lead_source_health` and `lead_queries`; `find` is a run
with the batch it planned, which it keeps although the source may be benched meanwhile.
`late` (history) counts failures it meets there after that. `SearchedByBatch` is the search of
`run_batch`, which does not ask `source_available` but writes its successes and failures all the
same.

*Router.* A request walks `Enabled`; `until` is `cooldown_until`, read before a call and
overwritten after it (`Overwritten`), with nothing when the call succeeded. `facts` is what
the three `probe()` functions look at on the machine. `sent` (history) is what a CLI was
handed. A request may also end with a prompt that is no string (`VALIDATION_ERROR`) or with
an exception nobody foresaw (`RouterBreaks`: `INTERNAL_ERROR`).

*Second brain.* `index` is `sb_index`. A walk keeps the index it loaded at its start and the
rows it upserted, which are committed when it is over; it skips notes it cannot read
(`SkipFile`). Each process reads `privacy.yaml` once and keeps what it read
(`docs/SECURITY.md:114-116`), so a walk, and a call of `get_context()`, labels by any of the
rules in `PrivacyFiles`. `get_context()` writes nothing: it is the operator `GetContext` of the
notes and the index, and the property about it quantifies over every call that could be made.

*Outbox.* A fingerprint is the content it is the hash of (the preview itself shows the first
240 characters of a body; what the owner confirms is the fingerprint of all of it); `receipt` is the file named by
draft and fingerprint, `"torn"` when it was being written at a crash. *BrightReach.*
`ledger` are the lines that can be parsed, `torn` whether the file ends in a fragment.

*Notifications.* `row` is a row of `notifications`; a process has a list of notices in hand,
posts one, and writes what came of it, by the flush's own rule (`Noted`). A process without a
mail key posts a mail notice to Discord and leaves the row undelivered (`TellOnDiscord`), so that
the next flush with a key sends it as well. `posts` and `spoiled` are history. *Email alerts.* `record` is the committed file; a run works on the
copy of its checkout, and `newest` says whether another push has overtaken it. *Gmail
reader.* `poll` is the stored watermark; `knows` is what `Known(conn)` loaded, plus what the
batch brought. A mail the owner wrote by hand and for which no company is found is passed and
stored nowhere (`LeaveUnresolved`, `outbound_unresolved` in the code). *Job agent.* `application` is a row of `job_applications`, `list` what
`qualified()` returned, `clicks` (history) the final clicks. *Revenue loop.* `runtime` is the
list of bottlenecks, `product` the milestone, `cycle` the calls an execution of the flow
still makes.

### Atomicity

An action is one database transaction, or one outside call together with the local
steps up to the next transaction. `send_item` is therefore several actions:
`Claim`, `PassGuard`/`Refuse`/`GuardError`, `SaveId`, the SMTP call (`Accepted`,
`Interrupted`, `TurnedAway`, `Rejected`, `Transient`), `FileCopy`, `Record` or
`FoundInSent`/`NotInSent`, and `Bounce`, which the code commits apart from `Rejected`.
`recover` is `RecoverSelect` and one action per row. `Plan` is the first transaction of
`queue_approved`, `Replenish` the rest of it. `Replenish` joins
the commits of `auto_prepare_campaign`, import and enqueue; the race inside `qualify`
(read, score, write) is modelled in `Conversation` (`FindEligible`, `Qualify`) instead.
`GuardError`, `StepFails` and `NoLogin` are the `except` paths. In `JobQueue` the claim,
each outcome, the recovery and a deletion are one transaction each; the handler runs
between `ClaimNext` and `Outcome`. A commit whose answer is lost is `ClaimNext`'s second
alternative or `ReportLost`; one that is lost before it took effect changes nothing.

The services follow the same rule: a provider call is `StartCall` and what it ends in; an
index walk is a step per note and a commit; an email of a draft is `SendOne` and `NoteSent`; a
notice is `Post` and `Note`; a mail is `ReadMail` (the duplicate check) and `WriteMail`;
an application is `InspectPage`, `ClickSubmit`, `ReadConfirmation`, `RecordResult`; a chunk
of records is `CreateChunk` or `CreateFails`, and `MarkHandedOff` comes when all were made. A
company of a batch or a search is one transaction in the code, and one action. `BrightReach`
and `send()` of the outbox run within the API, which serves one request at a time.

### Left open (nondeterministic)

Due times, the daily cap, the send window and the pacing only choose which queued row is
claimed and when a run stops: `Claim` and `Stop` leave both open. The duplicate-business
check and the copy check are reasons for `Refuse`. Which companies score well, which
have copy, what a reply says, and what a bounce notice contains are inputs. A poll that
breaks in the middle is a poll of a part of the mail: `PollFails`, with the applied
answers as `AnsweredElsewhere` steps. In a reply, the wording decides the label and the
flag (`FlagsOf` lists the pairs `classify` can return). Priority, `run_at` and backoff
only choose which queued job is claimed; which rows are old enough to be deleted, and how
a handler ends, are inputs. So are web pages, what patterns find in a mail or a note, what a
CLI prints, what a form asks, and how a score comes about. Where the code is best effort with
the database (`db` in `AiRouter`, `LeadSources`, `EmailOutbox`), the database may fail at
every single step.

## 3. Runs

| Run | Checks | Bounds | States |
|---|---|---|---|
| `conversation` | `TypeOK`, `RowConstraints`, `LeadEngineAgrees`, `WordIsKept`, `OnlyOwnerReopens` | one company, all ten starting statuses, all labels and flags, three kinds of email at once, a planner that scores meanwhile | 429,509 |
| `sender` | `TypeOK`, `AtMostOnce`, `QueueTellsTruth`, `GuardKnows`, `StoppedStaysSilent`, refinement `KeepsPromise` | one company, a cold email and one follow-up, two workers, two Message-IDs per row, two attempts, two crashes, three reply labels | 252,168 |
| `sender_liveness` | `EveryClaimEnds`, `EveryMailIsSettled` | two companies, cold email only, one worker, two crashes | 49,344 |
| `leads` | `BookTypeOK`, `WindowKept`, `HandedOffIsInTray`, `HolderKeepsLock` | two listings and two imported records, one search or recheck, two batches, two locks, two hand-offs with room for two records each in chunks of one; eight mixes of actors on an empty or a filled book | 1,649,148 |
| `services` | `ServicesTypeOK` and eighteen safety properties of the queue and the services, the queue's refinement `KeepsPromise` among them | below; symmetry of the router's requests and of the index walks | 820,034 |
| `services_live` | `NoticesSettle`, `RunsEnd`, `FailuresAreRepaired`, `EveryRunEnds` | as `services`, one notice, one ready company | 108,735 |
| `conversation_lost_reply` | finds `HumanReplyIsKept` violated | as `conversation` | |
| `conversation_lost_send` | finds `ConfirmedSendIsKept` violated | as `conversation` | |
| `sender_restage` | finds `AtMostOnce` violated with the dashboard's upsert | as `sender`, `Restage` | |
| `sender_optout` | finds `OptOutIsHeard` violated | as `sender` | |
| `leads_rolled_back` | finds `ReadyLeadsAreStored` violated | as `leads`, batches only | |
| `jobagent_unverified` | finds `UnverifiedIsFailed` violated | as `services`, one run of the job agent | |

What the safety properties of `services` say, each over every interleaving of its service:

| Property | Service, with | Says |
|---|---|---|
| `HolderOwns`, `TriesAreCounted`, `KeepsPromise` | job queue: two workers, two jobs (one try, two tries), two crashes, two lost transactions | a row in hand is running and locked by its holder; a failure that is reported is counted, neither more nor less (a try cut off by a crash is not counted); it implements `JobPromise` |
| `PromptPrivacy`, `RiskEndsIt` | AI router: two requests of nine sorts, two providers, two ticks | no prompt reaches a CLI that may not have it; a provider with a billing risk found before its call does not get the prompt, nor does any behind it (time-outs and failed calls do go on) |
| `OnlyPublicGoesOut`, `CalmWalkRenews` | second brain: two notes, three contents, two versions of `privacy.yaml`, two walks, two edits | stale index or not, every text that goes out is public under the rules the answering process has; an undisturbed walk leaves a current row of every note it could read |
| `SentOnceAsShown`, `ReceiptTellsTruth` | outbox: one draft, three contents, three emails | an email of a draft leaves once, as the owner saw it; the receipt names nobody wrongly and lacks one at most |
| `ClosedStaysClosed` | BrightReach: two leads of four sorts, four events | no request and no torn line reopens a closed lead |
| `DeliveredWasTold`, `TwiceOnlyWhenSpoiled` | notifications: a mail and a webhook notice, two processes, one death | delivered means told; told twice only after a disturbance or by the fallback to Discord |
| `BenchSpares` | lead sources: one source, two queries, two runs | a benched source sees one more failure per run at most |
| `SeenWasAlerted`, `AlertedTwiceOnlyWhenDisturbed` | email alerts: three mails, two runs | seen means alerted; alerted twice only after a disturbance |
| `EffectsOnce`, `PassedIsHandled` | Gmail reader: three mails (a send that may be unreadable, a reply, one the owner wrote by hand), two readers, one rebuild, one break | a mail changes the conversation once; the watermark passes none unhandled, but for the owner's own without a company |
| `SentOncePerPosting` | job agent: two postings, two runs, three starts | an application is sent twice only by overlapping runs |

Why the bounds are enough. One company suffices for safety in `sender`: no
transaction reads one company's rows to write another's, except that a worker handles one
row at a time, which two workers and two steps of one company already show. Two steps
show the only relation between steps (the next touch is created by the confirmation
of the one before). Two workers take turns, so a dead worker's row meets a fresh
worker. Two crashes let a row die, be recovered, retried, and die again; a
third changes nothing, since a crash leaves no trace but the row (tried: 468,846 states,
no error, as with `AutoFiles = TRUE`, 123,460 states). `Ids` bounds how often one row
is sent: a fresh Message-ID per try, two tries. `INTERESTED`,
`UNSUBSCRIBE` and `DELIVERY_FAILURE` are the three sorts of answer (a human one, one that
suppresses, one nobody wrote); all labels are covered in `conversation`. In
`conversation` three kinds of email stand for eight: `followup` and `cold` are the generic
ones, which the guard tells apart, and of the others only `proposal` moves a status.
In the job queue, rows meet only in a worker's hand and in the set-wise
updates of recovery and retention: two jobs and two workers show a recovery beside a
living claim and a job handed from one worker to the other. A job of one try
fails at once, one of two is retried first. Symmetry (workers, Message-IDs) is used in the
safety runs of the sender (and in `services` for requests and walks, which no property tells apart)
and not for liveness.

In `leads`, the two listings differ in what their sites may meet (a page without mail, with
mail of its own, one that refuses) and share an address with the imported records, so that
the keys of `find_existing` collide. The mixes pair every writer of the book with every
other one whose rows it touches; all writers at once are out of TLC's reach and add no
pair. In `services`, the services share no state with each other (what they share with the
core - guard, queue, book - enters each as its environment), so one is chosen at the
start and the run is the sum of eleven small ones; two processes of each sort show every race,
since each writes from a copy of its own, and one or two deaths or lost answers each fault.
The theorems of section 5 hold for any number of them.

Constants that name an assumption of deployment:

* `Overlap = FALSE`: `.github/workflows/outreach-send.yml` puts cycles into one
  concurrency group. The code's own claim (`sender.py:14`) is stronger; section 4 says
  what happens otherwise.
* `Restage = FALSE`: the owner does not press "stage" for a company that already has
  a row. `batch_stage_qualified_leads` checks that, `stage_draft_for_company` does not.
* `Age` needs that nobody has the row in hand: a worker handles one row in far less than
  15 minutes (SMTP and IMAP time-outs are seconds).
* Names differ (`MCNameOf`; `NamesDiffer` in the proofs): two worker processes never
  share an `INSTANCE_NAME`, as `infra/oracle/RUNBOOK.md:103` has it. `recover_stale`
  relies on it, and nothing in the code enforces it.
* One alert run at a time: `email-alerts.yml` has a concurrency group; its runs wait for each
  other. Hand-offs have no such assumption: `lead-engine.yml` keeps its own runs apart, but the
  worker's `lead.engine.cycle` (`worker/handlers.py:158`) and the owner's command run beside it.
* One request at a time in `EmailOutbox`, `BrightReach` and the calls of `RevenueLoop`: the
  routes that call them block the API's event loop.

Deadlock is checked in the conversation and sender runs. It is not in the others
(`CHECK_DEADLOCK FALSE`): a service without requests, a list without rows and a clock or
counter at its bound really stop.

### Fairness

`sender_liveness`: the ticker starts cycles for ever and a started cycle goes on unless it
is killed: weak fairness of `Work`. A run has a deadline, so it ends again and again although
there may always be another row to claim: strong fairness of `Stop`. Time passes: weak
fairness of `Age`. Reading the dead rows and looking a row up in Sent are tried in each cycle
and do not fail for ever: strong fairness of `RecoverSelect` and `Settles`. If a Sent folder
could be unreadable for ever, `RecoverUnknown` would repeat for ever: that is the code's
decision (an unproven row is never guessed), and the reason the last assumption is needed.

`services_live`, per service:

* *Jobs.* Every worker is started again when it ended (`restart: always` in the compose
  files, `scripts/host_worker_supervisor.py`): weak fairness of `Start`. Handlers are
  time-boxed (subprocess and HTTP time-outs), so an execution ends: weak fairness of
  `Outcome`. Nothing is assumed of claims, crashes or stops. `EveryRunEnds` excepts a row
  whose transaction was lost while its worker lived on.
* *Notifications.* A process goes through what it has in hand (posts have time-outs): weak
  fairness of `Post` and `Note`. The mailbox jobs flush on a schedule, between other jobs:
  strong fairness of `StartFlush`, per channel. Some of these jobs have the mail key: a flush
  without one returns early and counts no attempt (`agentmail.py:153-156`), and is a flush that
  does not happen. No post is assumed to succeed: a notice settles by being given up as well.
* *Lead sources.* Searches and writes have time limits: weak fairness of `FindWork`. Time
  passes: weak fairness of `ClockTicks`. No search is assumed to succeed.
* *Revenue loop.* The schedule starts a cycle every ten minutes and every call is answered:
  weak fairness of `CycleSteps`. `FailuresAreRepaired` speaks of runs in which nothing fails
  from some moment on.

## 4. What is found

Each violation run is a disagreement between a sentence in the repository and what the code
does; `PROJECT.json` quotes both.

1. A human reply of a company whose row says `discovered` or `ready` is refused by the status
   machine and rolled back with its message (`conversation_lost_reply`). In TLC's trace the owner
   resets an imported company (contacted or bounced) to `discovered`. What is asked for there is
   `replied`; opt-outs and bounces go through, since `do_not_contact` is allowed from everywhere.
2. A confirmed proposal from `interested`, `qualified` or `meeting_requested` is refused
   likewise, so a sent email is on no record (`conversation_lost_send`).
3. Re-staging a claimed or settled row makes it leave twice (`sender_restage`).
4. An opt-out that answers an email not yet recorded is passed over for good
   (`sender_optout`).
5. A batch that finds a new business and judges it ready fails on a missing `company_id`
   and loses the business (`leads_rolled_back`).
6. A browser time-out behind the final click records a sent application as skipped
   (`jobagent_unverified`).

Known besides (they have no violation run of their own):

* `_release` does not ask whose claim it frees: `Overlap = TRUE` in `sender.cfg` breaks
  `AtMostOnce`.
* A job whose connection breaks before its outcome is written stays running as long as
  its worker lives: `DroppedIsRetried` of `JobQueue` instead of `EveryRunEnds` in
  `services_live.cfg` fails.
* `FailuresAreRepaired` needs `[]~NeedsOwner` and `[]~market.interested`. A bottleneck that
  needs the owner (live sending was switched off, `revenue_os.py:459`) is cleared by no
  success of the sender, and `_decide` answers `NOTIFY` once research, spec and 4000
  companies are there; and `interested_total` counts all interested prospects there ever
  were, so that from the first on every decision is `PROCESS_REPLIES`.
* "The same email is never sent twice" (`docs/EMAIL_ALERTS.md:104`) and "exactly once per event"
  (`conversations/notify.py:1`) hold up to the exceptions that
  `AlertedTwiceOnlyWhenDisturbed` and `TwiceOnlyWhenSpoiled` name.
* The records of a chunk whose answer was lost stay in the tray although their companies
  are still ready, so that the next hand-off may create them again: `WindowKept` counts both.
* `qualify` reads eligible companies, scores them, and writes `outreach_ready` without looking
  again (`review_campaign.py:272-278`): a send, reply or opt-out stored meanwhile is overwritten in
  the lead engine's column. The race is in every run of `Conversation`; `LeadEngineAgrees` excepts
  exactly the companies it struck, until somebody writes the column again (history variable
  `overwrote`). The guard goes on refusing them (`WordIsKept`).
* Hand-offs that overlap each fill the window they saw. `docs/lead_engine/README.md:63` promises
  one window, which holds as long as one tops up at a time; `WindowKept` states what the code keeps in
  general, one window per hand-off that was at work at once.
* A walk over the notes keeps the label of a row whose hash and time agree
  (`second_brain/core.py:273-280`), although `privacy.yaml` may have changed; only `get_context()`,
  which labels again, decides what goes out, by the rules its process cached.
* A process without a mail key tells the owner over Discord and leaves the row undelivered, so that
  he is told again by mail (`agentmail.py:122-131`).

## 5. Proofs

| Theorem | Module | Assumes |
|---|---|---|
| `TargetForAllowed` | `SendGuardTheorems` | - |
| `TypeCorrect`, `RowsAccepted`, `EnginesAgree`, `WordKept`, `OwnerReopens` | `ConversationProofs` | - |
| `SentOnce`, `QueueTruthful`, `PromiseKept`, `SenderTypes`, `GuardIsTold`, `Silence`, `SentInOrder` | `OutreachSenderProofs` | `~Overlap`, `~Restage` |
| `QueueTypes`, `HolderIsOwner`, `TriesCounted`, `PromiseKept`, `NoRunIsForgotten` | `JobQueueProofs` | `NamesDiffer` |
| `ContextIsPublic` | `PrivacyProofs` | - |
| `PromptsArePrivate`, `RiskIsTheEnd` | `PrivacyProofs` | `OrderDiffers` |
| `CalmWalksRenew` | `PrivacyProofs` | `HashAssumption` |
| `RecordTellsTruth`, `AlertedOnce`, `ToldWhenDelivered`, `ToldOnce` | `OnceProofs` | - |
| `SentOnce`, `ShownOnce`, `ReceiptsAreTrue`, `MailCountsOnce`, `NothingPassedOver` | `OnceProofs` | - |
| `NotRetried`, `HistoryTellsTruth` | `OnceProofs` | - |
| `AloneSendsOnce` | `OnceProofs` | one run of the job agent at a time |
| `LeadBookTypes`, `TrayKeepsItsWindow`, `HandedOffAreInTray`, `HoldersKeepTheirLock` | `LeadProofs` | - |
| `BenchedAreSpared`, `SourcesTypes` | `LeadProofs` | - |
| `ClosedForGood`, `LedgerTypes` | `LeadProofs` | - |
| `CyclesEnd` | `ServicesProofs` | - |
| `ServicesAreTyped` | `ServicesProofs` | `NamesDiffer`, `OrderDiffers` |

The named assumptions on constants (`ConversationAssumption`, `SenderAssumption`,
`QueueAssumption`, `RouterAssumption`, `BrainAssumption`, `NotificationsAssumption`,
`EmailAlertsAssumption`, `AgentAssumption`, `OutboxAssumption`,
`GmailReaderAssumption`, `LeadAssumption`, `LeadSourcesAssumption`, `RevenueAssumption`,
`HashAssumption`) are the only axioms; the number of companies, steps, workers, Message-IDs, jobs, attempts, crashes,
requests, notes, notices, mails, postings, runs, drafts, readers, batches, tokens, sources
and leads is arbitrary, and so are what sites hold, what searches return, old ledgers, and
the tray's window, ceiling and chunk. `OrderDiffers` says that `SUBSCRIPTION_PROVIDERS` names
no provider twice. The bounds of the models (`Max...`) are only assumed to be
naturals. `LeadAssumption` and `LeadSourcesAssumption` give types only, and that
there are finitely many listings. `HashAssumption` says of SHA-256 (`second_brain/core.py`)
that texts with different front matter have different hashes.

*Operators.* `SendGuardTheorems` shows of each writer that it returns a company
record, that the record is one the database accepts (`RowAccepted`), that the two
status columns go on agreeing (`EngineAgrees`), and that it forgets nothing the guard
relies on. The heart is `TargetForAllowed`: `target_for` never leaves what
`ALLOWED` permits.

*Conversation.* `RowConstraints` is not inductive alone: `Heard` says something
about history, and the record must go on bearing it out. The invariant is
`IInv == TypeOK /\ RowConstraints /\ Remembered`, where `Remembered` ties `heard` to
`suppressed` and `inbound`. For `EnginesAgree`, every writer beside the planner
keeps the two columns together (`Together`), and either leaves the lead engine's one or takes the
company off the lists (`KeptOrTaken`, by `WritersKeepOrTake` of `SendGuardTheorems`); so the
only step that parts them is `Qualify` over a company that is not eligible any more, and that is
what sets `overwrote`, and the only step that clears it takes the company off the lists.

*Sender.* `AtMostOnce` follows from `Marked`: an email that left has a Message-ID in its
row, and a row that may still be sent has none delivered. To carry it through a step one must know
that a worker's copy of a row agrees with the table (`InHand`), that recovery's copies
still describe claimed rows nobody holds (`Selected`), and that only one cycle is open
(`OneCycle`); these four and `SentIsTrue` are `Core`, and
`IInv == QueueType /\ Core`. Its last part adds the company records
(`RestType`, `OnRecord`): its lemmas show that every step `Moves`, that is, changes
company records only by writers that remember, and marks a row sent or ambiguous only
together with its company. `Silence` then needs only that a silenced company is refused
by `SendCheck` for both generic kinds.

`PromiseKept` adds `Chained`: a follow-up has a row only behind a touch confirmed as sent.
Each step of the sender comes to one of six: rows change hands or a first touch is queued
(`Shuffled`), rows are given up (`Dropped`), deleted and planned again (`Replanned`), an
email leaves (`Gone`), a row ends unresolved (`Unsure`) or as sent (`Settled`). For each a
lemma shows that `Chained` is kept and that `MailPromise` makes one step or stutters;
`Core` supplies what they need, namely that a row which is given up has not left, and that a
row which is written as sent has. `Chained` also gives `SentInOrder`: by `Marked` a
follow-up that left still has its row, so the touch before it is recorded as sent, and by
`Marked` again it left exactly once.

*Job queue.* The invariant is `IInv == TypeOK /\ OneInHand /\ HolderOwns /\
TriesAreCounted`. The step that needs `HolderOwns` is `Recover`: a row it requeues is
locked by the starting worker's name, a row in somebody's hand by the holder's, and the
holder is up while the starting worker is not, so by `NamesDiffer` they are different rows.
Outcomes write by id alone, and are safe because `HolderOwns` says that the row still is
what was claimed; the same fact makes the tries counted from the copy the tries of
the row. `PromiseKept` maps each step: a claim is `Begin` or, when its answer is lost, a
stutter; outcomes, lost reports, crashes and stops are `End` or a stutter; creating and
recovering rows change neither verdict nor execution.

`NoRunIsForgotten` is what makes `recover_stale()` enough, since nothing else looks for a
running row: such a row is in a hand, or locked by the name of a worker that is down and will
requeue it when it starts, or a transaction about it was lost while its worker lived on.
(`dropped` is the hole that `DroppedIsRetried`, above, is about.) A claim and an outcome change
one row; a death hands the row in hand over to the next start, because `HolderOwns` says that it
carries the dying worker's name.

*Lead engine.* The theorems are about `LeadSpec`, in which all writers of the book run side
by side (TLC sees them in pairs). The invariant is `LeadInv == LeadType /\ TokensDiffer /\
RoomIsLeft /\ HandedOffHasRecord`. `WindowKept` is not inductive: a hand-off decides by a
listing that is old when it creates, and others create meanwhile. So each hand-off that has
listed the tray is said to own places: as many as the listing left room for, then as many as
its rows are not created yet (`Owed`, `Reserved`). `RoomIsLeft` says that what waits in the tray,
with all places owned, fits into `abreast` windows, where no more than `abreast` hand-offs top up
at once. Listing claims one window at most and is counted by `abreast`; creating a record turns a place into a
waiting record; the sender only uses records up. A chunk may be created although its
answer is lost, since that hand-off then creates no more. `HandedOffIsInTray` needs to know the same of two copies: what the hand-off remembers
as made (`made`) and the status a requalify read minutes ago and may restore
(`recheck.was`); no record ever leaves the tray. `HolderKeepsLock` needs `TokensDiffer`: no
two batches have one token, not even if one is dead or late, so that a release frees
only one's own lock or a free one; `uuid4` is modelled as a token above all in use.
What the model filters (`_screen_candidates`, the guard over ready rows, the backlog in
order) is `Keeping`, a recursive function. That it unfolds is no induction over data but a
least counterexample: were there a first step the function does not reach, that of
the step before could be extended to it (`KeepingUnfolds`).

*Sources.* `LateLeaves` strengthens `BenchSpares`: a run that met a failure at a benched source
does not search there any more while the bench lasts. `source_failure()` tells it so
(`LeavesSource`), planning skips benched sources, and a bench only ends by time or by
somebody's success, both of which begin a new count.

*BrightReach.* `ClosedStaysClosed` is about the last event of a lead. Each request appends
events of one lead only, and only when that lead is not closed (`GrowsFor`); the last event of every
other one stays where it is. That there is a last one comes from well-foundedness again.

*The index.* `CalmWalks` says that a walk which nothing disturbed so far has loaded what the
index still is, and holds for each note behind it that it could read a row of its present content
under its own rules, or none because the loaded row agrees in hash and time; of a row in the index
the invariant knows that some process's rules gave its label to a content of that hash. It is there that the hash matters: an unchanged hash
makes the walk keep the label it has (`core.py`), which is right only if the front
matter is the same.

*Privacy.* `ContextIsPublic` needs no more than the type of `note`: `get_context()`
gates each note as it reads it by the rules its process holds, and nothing of the index enters
the label. The router's
invariant `RouterInv` says of every request (`GoodRequest`) that one which
has got into the loop passed the baseline gate (`Early`), that what lies
behind its place has met nothing, and that a billing risk is only met by a finished
request; together with `OrderDiffers` a provider that met something is never walked to
again, and `Unhanded` says that from a provider with a billing risk on nobody was handed the
prompt. A prompt is then sent only where `Reaches` asked the strict gate, or to a trusted provider.

*Telling.* Email alerts: `AlertInv` says that only one run works at a time (`OneWatches`),
that what a run adds to its copy it has alerted, and that everything a run told is in its copy,
in the record, or disturbed (`ToldIsKept`); the run that pushes is the newest, so nothing of the
record is taken back. Notifications: `HandsAreOne` says that a notice in two hands is spoiled,
`PostedIsKnown` that one which was posted and is not spoiled is either marked delivered or
about to be, by the one process that has it in hand; so nobody takes it up again.

*Job agent.* `HeldIsUnsent` says that a posting on a run's list which was clicked is
the one this run is at, beyond its click, or was on two lists; `SentIsBegun` that a clicked
posting's row has left `qualified`, which no rediscovery undoes; so no later list has it. That `SentIsBegun` lasts is a theorem of its own, `NotRetried`: what
`docs/JOB_AGENT.md:24` says of submitted and failed rows holds of every row an application was begun for.
`HistoryTellsTruth` (`docs/JOB_AGENT.md:21`) carries `ConfirmedWasSent` along: a run that reads a
confirmation, or is about to record `submitted`, has clicked. `AloneSendsOnce` shows that the exception of
`SentOncePerPosting`, a posting on two lists, needs two processes: a run alone
has ended before the next one lists.

*Outbox.* `BoxInv` says that a `send()` under way works on content that loads and was shown
and has the receipt "sending" (`Underway`), that what it has sent and what the receipt names
are the first rows of that content, up to the row in hand (`InStep`), and that whatever left
has a receipt which bars another `send()` (`Posted`). No recipient stands twice in a draft
that loads, so the next row's email is new. `Laid` is `ReceiptTellsTruth` with the bound of
one stated by a witness; a lemma on cardinality turns it back.

*Gmail reader.* `Ours` says which mails a conversation owns without looking at what was
stored so far, so that everything said of it is kept by whatever another reader stores:
`Clear(n, done)`, all of ours up to `n` is stored or set aside, holds of the stored
watermark and of every reader's own one, and it does not matter which of them is written last. A reader
is `OnTrack`: its list follows its watermark without a gap, and it knows every send behind
it; so a reply that it does not want answers no send of ours (`InBatch`). `Counted` and
`HeldByOne` give `EffectsOnce`. That a batch has a last mail, and a set of UIDs a smallest
one, comes from the library's theorem that `<` is well-founded on the naturals.

*Revenue loop.* `CyclesEnd` says that the controller does not loop within a cycle: a cycle which is not
over has a call to make, since its list ends in the notice (`ListsEnd`), and each call lowers
`CallsLeft`, the length of the list and four more while no repair was started. Four is what a repair
puts on the list; a repair whose tests fail ends the cycle and starts
no other. The invariant `RevenueInv` supplies that every list consists of calls.

*All services.* `ServicesSpec` is the conjunction of the eleven specifications, whose variables are
disjoint; the type invariant of each comes from the invariant above that implies it, and
where that one left out a counter or a copy (`BrainTyped`, `OutboxTyped`, `NoticesTyped`,
`AlertsTyped`, `MailTyped`, `AgentTyped`), from a lemma that adds it.

The formulas of `NoRunIsForgotten`, `SentInOrder`, `NotRetried`, `HistoryTellsTruth`, `AloneSendsOnce` and
`CyclesEnd` are stated beside their proofs and checked by no run.

*Not proved, only checked by TLC:* the liveness properties `EveryClaimEnds`,
`EveryMailIsSettled`, `NoticesSettle`, `RunsEnd`, `FailuresAreRepaired` and `EveryRunEnds`
(fairness and `ENABLED` are beyond TLAPS). Of two the safety half is proved: of `EveryRunEnds`
by `NoRunIsForgotten`, which says that something is left that can end a run; of `FailuresAreRepaired`
by `CyclesEnd`, which says that a cycle cannot go on for ever. Every invariant and action property
of the runs is a theorem.

## 6. Mutants

Next to some operators stands a mutant of it: for every property of a passing run, a
plausible bug that breaks it. In the core: statuses copied over verbatim
(`MirroredVerbatim`) or only for replies (`MirroredRepliesOnly`), a bounce forgotten
(`SetStatusForgetsBounce`), an opt-out that suppresses nothing (`RepliedUnsuppressed`), a
confirmation that rewinds the status (`ConfirmedSendRewinds`), a possible delivery not
logged (`MaybeContactedUnlogged`), recovery that retries everything (`RecoverRetried`) or
believes every Message-ID (`RecoverBelieved`), that selects only half of the dead rows
(`RecoverSelectWithId`, `RecoverSelectWithoutId`), a guard asked only at the first try
(`PassGuardOnce`), a sweep that cancels claimed rows (`SweepHeld`). In the queue: one try too
many, a deferral that gives a try back, a recovery that requeues every running row or only
those that failed before, a cancellation of running jobs. In the leads: room counted by
the book instead of the tray (`SpaceByBook`), every planned record marked as created
(`MarkedAll`), a lock released by anybody (`MayReleaseAny`). In the services: the strict gate
forgotten (`StrictGateForgotten`), the label taken from the index (`NotePassesByIndex`), a time
stamp taken for content (`SameStamp`), any fingerprint accepted (`ConfirmsAny`), a dedupe
key not looked at (`KeyTakenNever`), the record of alerts not looked at (`UnseenAny`), no
unique index on messages (`InsertsAlways`), a watermark moved past a lost mail
(`AfterLostConnectionOn`), a rediscovered posting started afresh (`UpsertedAgain`), a
loop without its clock (`GoesOnWithoutClock`), a bottleneck cleared only by its own success
(`ClearedByOwn`), and so on; `PROJECT.json` lists all. They are not part of any
specification.

## 7. Not modelled

* Counting: the daily cap and the digest. It needs send times.
* Two readers of one email in different mailboxes (Gmail, Hostinger): `GmailReader` has two
  readers of one mailbox; the unique Message-ID stops the second in both cases.
* The legacy planner (`sender.plan`): inactive, since the configured campaign is
  `google_reviews_maps_299`; rows the dashboard stages carry the same campaign and
  are deleted and planned again like the campaign's own.
* The self test mails, the one-off migrations 013 to 015 that seed or delete queue rows,
  and the text of copy, digests, cards, pages and prompts.
* The daily scheduling of retention, `checkpoints`, and the events written beside a job's
  outcome; `quota_usage`, which nothing reads to decide.
* `proposal_status = 'declined'`, which nothing writes.
* Patterns and scores: which words make a reply an opt-out, a mail important, a text secret,
  a company good. They are inputs of the models, and unit tests reach them.
* The second brain's captures and proposals, the outbox's extraction of a draft, browsers,
  scrapers, CLIs: outside calls, seen only through what they may answer.
* The services that run on the core (hand-off and outbox ask the guard, the Gmail reader
  feeds the conversation) are modelled against an environment that may answer anything
  the core may; their composition with `OutreachSender` is beyond TLC.
* HTTP API, Discord bot, optimizer, employees, ingress worker, other n8n flows and
  infrastructure: adapters and scheduled reports without a protocol of their own.

## 8. Plan

Done: everything of section 2. What is left, by worth:

1. The daily cap with send times; the composition of hand-off and conversation layer
   over one book of companies.
2. The optimizer's experiments, once two of its cycles can overlap.
