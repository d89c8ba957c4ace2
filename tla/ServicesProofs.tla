---------------------------- MODULE ServicesProofs ----------------------------
(* The installation: for any jobs, requests, notes, drafts, leads, notices,  *)
(* sources, mails, postings and overlapping runs, whatever the services do   *)
(* beside each other, every one keeps its types. And a cycle of the revenue  *)
(* loop runs out of calls, the last of which is its notice.                  *)
EXTENDS Services, JobQueueProofs, PrivacyProofs, OnceProofs, LeadProofs

-------------------------------------------------------------------------------
(* The bounds of the services: what the invariants of the proofs leave out.  *)

\* The edits of notes are within their bound.
LEMMA BrainTyped == BrainSpec => []BrainTypeOK
<1> DEFINE Bounds == edits \in 0 .. MaxEdits
<1>1. BrainInit => Bounds
  BY BrainAssumption DEF BrainInit
<1>2. Bounds /\ [BrainNext]_brainVars => Bounds'
  <2> SUFFICES ASSUME Bounds, [BrainNext]_brainVars PROVE Bounds'
    OBVIOUS
  <2>1. CASE UNCHANGED edits
    BY <2>1
  <2>2. ASSUME NEW n \in Notes, EditNote(n) PROVE Bounds'
    BY <2>2, BrainAssumption DEF EditNote
  <2> QED
    BY <2>1, <2>2 DEF BrainNext, brainVars, StartWalk, CommitWalk, LoseWalk, WalkFile, SkipFile
<1>3. IndexInv /\ Bounds => BrainTypeOK
  <2> SUFFICES ASSUME IndexInv, Bounds PROVE BrainTypeOK
    OBVIOUS
  <2>1. ASSUME NEW n \in Notes PROVE index[n] = NoRow \/ index[n].label \in Labels
    <3>1. index[n] = NoRow \/ \E f \in PrivacyFiles, c \in NoteContents : index[n] = RowOf(f, n, c)
      BY DEF IndexInv, IndexType, RowFunctions, RowsOf
    <3>2. ASSUME NEW f \in PrivacyFiles, NEW c \in NoteContents PROVE LabelUnder(f, n, c) \in Labels
      <4>1. f.path[n] \in Paths /\ ParsedLabel(c) \in Declared
        BY BrainAssumption DEF Policy, NoteContent, ParsedLabel, Declared
      <4> QED  BY <4>1 DEF LabelUnder, Classify, PathLabel, DefaultLabel, Labels, Declared
    <3>3. CASE index[n] = NoRow
      BY <3>3
    <3>4. ASSUME NEW f \in PrivacyFiles, NEW c \in NoteContents, index[n] = RowOf(f, n, c)
          PROVE  index[n].label \in Labels
      BY <3>2, <3>4 DEF RowOf
    <3> QED  BY <3>1, <3>3, <3>4
  <2>2. NoPolicy \in Policy
    BY DEF NoPolicy, Policy, Configs, Paths
  <2>3. \A i \in Indexers : pass[i].policy \in Policy /\ pass[i].left \subseteq Notes /\ pass[i].read \subseteq Notes
    BY <2>2, BrainAssumption DEF IndexInv, IndexType, WalkState
  <2> QED  BY <2>1, <2>3 DEF BrainTypeOK, IndexInv, IndexType
<1> QED  BY <1>1, <1>2, <1>3, IndexInvariance, PTL DEF BrainSpec

\* The emails that left are within their bound.
LEMMA OutboxTyped == OutboxSpec => []OutboxTypeOK
<1> DEFINE Bounds == Len(mail) <= MaxMail
<1>1. OutboxInit => Bounds
  BY OutboxAssumption DEF OutboxInit
<1>2. BoxTypes /\ Bounds /\ [OutboxNext]_outboxVars => Bounds'
  <2> SUFFICES ASSUME BoxTypes, Bounds, [OutboxNext]_outboxVars PROVE Bounds'
    OBVIOUS
  <2>1. CASE UNCHANGED mail
    BY <2>1
  <2>2. ASSUME NEW m, Len(mail) < MaxMail, mail' = Append(mail, m) PROVE Bounds'
    <3>1. Len(mail) \in Nat /\ Len(mail') = Len(mail) + 1
      BY <2>2 DEF BoxTypes
    <3> QED  BY <2>2, <3>1, OutboxAssumption
  <2> QED
    BY <2>1, <2>2 DEF OutboxNext, outboxVars, CreateDraft, EditDraft, PreviewDraft, SendStart, SendOne, NoteSent,
       SmtpFails, SendEnds, OutboxCrash, StoppedByGuard, GuardLearns, ImportReceipts
<1>3. BoxInv => BoxTypes
  BY DEF BoxInv
<1>4. BoxTypes /\ Bounds => OutboxTypeOK
  BY DEF BoxTypes, OutboxTypeOK, Keys, ReceiptStatuses
<1> QED  BY <1>1, <1>2, <1>3, <1>4, BoxInvariance, PTL DEF OutboxSpec

\* A notice is accepted, and processes die, as often as the bounds say.
LEMMA NoticesTyped == NoticesSpec => []NoticesTypeOK
<1> DEFINE Bounds == posts \in [Notices -> 0 .. MaxPosts] /\ deaths \in 0 .. MaxDeaths
<1>1. NoticesInit => Bounds
  BY NotificationsAssumption DEF NoticesInit
<1>2. NoticeInv /\ Bounds /\ [NoticesNext]_noticeVars => Bounds'
  <2> SUFFICES ASSUME NoticeInv, Bounds, [NoticesNext]_noticeVars PROVE Bounds'
    OBVIOUS
  <2>1. CASE UNCHANGED <<posts, deaths>>
    BY <2>1
  <2>2. ASSUME NEW t \in Tellers, Post(t) \/ TellOnDiscord(t) PROVE Bounds'
    <3>1. UNCHANGED deaths /\ \E n : posts' = [posts EXCEPT ![n] = @]
                                   \/ (posts[n] < MaxPosts /\ posts' = [posts EXCEPT ![n] = @ + 1])
      BY <2>2 DEF Post, TellOnDiscord
    <3> QED  BY <3>1, NotificationsAssumption
  <2>3. ASSUME NEW t \in Tellers, TellerDies(t) PROVE Bounds'
    BY <2>3, NotificationsAssumption DEF TellerDies
  <2> QED
    BY <2>1, <2>2, <2>3 DEF NoticesNext, noticeVars, TellOwner, TellOnce, Retry, DayPasses, StartFlush,
       StartNotifyFlush, Note
<1>3. NoticeInv /\ Bounds => NoticesTypeOK
  BY DEF NoticeInv, NoticeTypes, TellerTypes, NoticesTypeOK
<1> QED  BY <1>1, <1>2, <1>3, NoticeInvariance, PTL DEF NoticesSpec

\* A mail has an age.
LEMMA AgesTyped == AlertsSpec => [](age \in [Mails -> {"to come", "recent", "old"}])
<1> DEFINE Ages == {"to come", "recent", "old"}
<1>1. "to come" \in Ages /\ "recent" \in Ages /\ "old" \in Ages
  OBVIOUS
<1> DEFINE Aged == age \in [Mails -> Ages]
<1> HIDE DEF Ages
<1>2. AlertsInit => Aged
  BY <1>1 DEF AlertsInit
<1>3. Aged /\ [AlertsNext]_alertVars => Aged'
  <2> SUFFICES ASSUME Aged, [AlertsNext]_alertVars PROVE Aged'
    OBVIOUS
  <2>1. UNCHANGED age \/ \E m \in Mails, a \in Ages : age' = [age EXCEPT ![m] = a]
    BY <1>1 DEF AlertsNext, alertVars, MailAges, Alert, Trigger, StartWatch, SaveRecord, PushRecord, LoseRecord
  <2> QED  BY <2>1
<1>4. AlertsSpec => []Aged
  BY <1>2, <1>3, PTL DEF AlertsSpec
<1> QED  BY <1>4 DEF Ages

\* A mail is alerted as often as the bound says.
LEMMA AlertsTyped == AlertsSpec => []AlertsTypeOK
<1> DEFINE Bounds == alerts \in [Mails -> 0 .. MaxAlerts]
<1>1. AlertsInit => Bounds
  <2>1. AlertsInit => alerts = [m \in Mails |-> 0]
    BY Zenon DEF AlertsInit
  <2> QED  BY <2>1, EmailAlertsAssumption
<1>2. Bounds /\ [AlertsNext]_alertVars => Bounds'
  <2> SUFFICES ASSUME Bounds, [AlertsNext]_alertVars PROVE Bounds'
    OBVIOUS
  <2>1. CASE UNCHANGED alerts
    BY <2>1
  <2>2. ASSUME NEW r \in WatchRuns, NEW m \in Mails, Alert(r, m) PROVE Bounds'
    <3>1. \E n : /\ alerts' = [alerts EXCEPT ![m] = n]
                 /\ n = alerts[m] \/ (alerts[m] < MaxAlerts /\ n = alerts[m] + 1)
      BY <2>2 DEF Alert
    <3> QED  BY <3>1, EmailAlertsAssumption
  <2> QED
    BY <2>1, <2>2 DEF AlertsNext, alertVars, MailAges, Trigger, StartWatch, SaveRecord, PushRecord, LoseRecord
<1>3. AlertInv /\ Bounds /\ age \in [Mails -> {"to come", "recent", "old"}] => AlertsTypeOK
  BY Zenon DEF AlertInv, AlertTypes, RunTypes, AlertsTypeOK
<1> QED  BY <1>1, <1>2, <1>3, AlertInvariance, AgesTyped, PTL DEF AlertsSpec

\* Runs start as often as the bound says.
LEMMA AgentTyped == AgentSpec => []AgentTypeOK
<1> DEFINE Bounds == starts \in 0 .. MaxStarts
<1>0. MaxStarts \in Nat
  BY AgentAssumption
<1>1. AgentInit => Bounds
  BY <1>0 DEF AgentInit
<1>2. Bounds /\ [AgentNext]_agentVars => Bounds'
  <2> SUFFICES ASSUME Bounds, [AgentNext]_agentVars PROVE Bounds'
    OBVIOUS
  <2>1. UNCHANGED starts \/ (starts < MaxStarts /\ starts' = starts + 1)
    BY DEF AgentNext, agentVars, StartRun, DiscoverPosting, ListQualified, BeginApplying, InspectPage, ClickSubmit,
       ReadConfirmation, RecordResult, EndRun
  <2> QED  BY <1>0, <2>1
<1>3. AgentInv /\ Bounds => AgentTypeOK
  BY DEF AgentInv, AgentTypes, AgentTypeOK, OnPosting, BegunStatuses
<1> QED  BY <1>1, <1>2, <1>3, AgentInvariance, PTL DEF AgentSpec
-------------------------------------------------------------------------------
(* The mailbox: every watermark is that of a mail, under an identity the     *)
(* mailbox had.                                                              *)
MarkFits(uid, validity) == uid \in UIDs \cup {0} /\ validity \in 0 .. MaxRebuilds
MarksFit ==
  /\ box.validity \in 0 .. MaxRebuilds /\ breaks \in 0 .. MaxBreaks
  /\ MarkFits(poll.uid, poll.validity)
  /\ \A r \in Readers : MarkFits(reader[r].last, reader[r].validity)

\* A reader goes on, and whatever it writes down fits.
LEMMA ReaderFits ==
  ASSUME MarksFit, MailTypes, NEW r \in Readers, NEW rd, reader' = [reader EXCEPT ![r] = rd],
         MarkFits(rd.last, rd.validity), box' = box, MarkFits(poll'.uid, poll'.validity), breaks' \in 0 .. MaxBreaks
  PROVE  MarksFit'
BY DEF MarksFit, MailTypes, MarkFits

LEMMA NotReadingFits == MarkFits(NotReading.last, NotReading.validity)
BY GmailReaderAssumption DEF NotReading, MarkFits

\* The mark of a batch is the old one, or that of its last mail.
LEMMA BatchFits ==
  ASSUME MailInv, MarksFit, NEW r \in Readers, MoveMark(r)
  PROVE  MarksFit'
<1> DEFINE old == reader[r]
           last == IF \A u \in old.chunk : u <= old.last THEN old.last
                   ELSE CHOOSE u \in old.chunk : \A v \in old.chunk : v <= u
           rd == [old EXCEPT !.pc = "heads", !.last = last, !.todo = old.todo \ old.chunk, !.chunk = {}]
<1>1. /\ old \in ReaderStates /\ old.chunk \subseteq old.todo /\ \A u \in old.todo : u <= box.mails
      /\ box.mails \in Nat /\ old.pc = "mail" /\ MarkFits(old.last, old.validity) /\ MailTypes
  BY DEF MailInv, MailTypes, Reading, MoveMark, OnTrack, InBatch, MarksFit
<1>2. /\ reader' = [reader EXCEPT ![r] = rd] /\ poll' = [uid |-> last, validity |-> old.validity]
      /\ UNCHANGED <<box, breaks>>
  BY DEF MoveMark
<1>3. old.chunk \in SUBSET Nat /\ old.chunk \subseteq UIDs
  BY <1>1, UIDsAreNumbers DEF ReaderStates
<1>4. last = old.last \/ last \in old.chunk
  <2>1. CASE old.chunk = {}
    BY <2>1
  <2>2. CASE old.chunk # {}
    <3>1. \E u \in old.chunk : \A v \in old.chunk : v <= u
      BY <1>1, <1>3, <2>2, GreatestNatural
    <3> QED  BY <3>1
  <2> QED  BY <2>1, <2>2
<1> HIDE DEF last
<1>5. MarkFits(last, old.validity)
  BY <1>1, <1>3, <1>4 DEF MarkFits
<1>6. rd.last = last /\ rd.validity = old.validity
  BY <1>1 DEF ReaderStates
<1> HIDE DEF rd, old
<1> QED  BY <1>1, <1>2, <1>5, <1>6, ReaderFits DEF MarksFit

LEMMA MarksFitAlways == MailSpec => []MarksFit
<1>1. MailInit => MarksFit
  BY NotReadingFits, GmailReaderAssumption DEF MailInit, MarksFit, MarkFits
<1>2. MailInv /\ MarksFit /\ [MailNext]_mailVars => MarksFit'
  <2> SUFFICES ASSUME MailInv, MarksFit, [MailNext]_mailVars PROVE MarksFit'
    OBVIOUS
  <2>1. MailTypes
    BY DEF MailInv
  <2>2. CASE UNCHANGED mailVars
    BY <2>2 DEF mailVars, MarksFit
  <2>3. CASE MailComes \/ MailboxRebuilt
    <3>1. UNCHANGED <<poll, reader, breaks>> /\ box'.validity \in 0 .. MaxRebuilds
      BY <2>1, <2>3, GmailReaderAssumption DEF MailComes, MailboxRebuilt, MarksFit, MailTypes
    <3> QED  BY <3>1 DEF MarksFit
  <2>4. ASSUME NEW r \in Readers, StartRead(r) PROVE MarksFit'
    <3> DEFINE rd == [pc |-> "heads", validity |-> box.validity, last |-> Watermark,
                      todo |-> Upto(box.mails) \ Upto(Watermark), chunk |-> {}, wanted |-> {},
                      knows |-> {u \in kept : Kind[u] = "sent"}]
    <3>1. reader' = [reader EXCEPT ![r] = rd] /\ rd.last = Watermark /\ rd.validity = box.validity
      BY <2>4 DEF StartRead
    <3> HIDE DEF rd
    <3>2. MarkFits(Watermark, box.validity)
      BY DEF Watermark, MarksFit, MarkFits
    <3> QED  BY <2>1, <2>4, <3>1, <3>2, ReaderFits DEF StartRead, MarksFit
  <2>5. ASSUME NEW r \in Readers, FetchHeads(r) \/ ReadMail(r) \/ WriteMail(r) \/ LeaveUnresolved(r) \/ Quarantine(r)
                                  \/ LoseConnection(r) \/ EndRead(r) \/ ClaimDraft(r) \/ AppendDraft(r) \/ MarkDraft(r) \/ ReaderDies(r)
        PROVE MarksFit'
    <3>1. UNCHANGED <<box, poll>> /\ breaks' \in 0 .. MaxBreaks
      BY <2>5, GmailReaderAssumption DEF MarksFit, FetchHeads, ReadMail, WriteMail, LeaveUnresolved, Quarantine, LoseConnection, EndRead,
         ClaimDraft, AppendDraft, MarkDraft, ReaderDies
    <3>2. \E rd : /\ reader' = [reader EXCEPT ![r] = rd]
                  /\ \/ rd.last = reader[r].last /\ rd.validity = reader[r].validity
                     \/ rd.last = NotReading.last /\ rd.validity = NotReading.validity
      BY <2>1, <2>5 DEF MailTypes, ReaderStates, NotReading, FetchHeads, ReadMail, WriteMail, LeaveUnresolved, Quarantine, LoseConnection,
         EndRead, ClaimDraft, AppendDraft, MarkDraft, ReaderDies, Handled, AfterLostConnection
    <3> QED  BY <2>1, <3>1, <3>2, NotReadingFits, ReaderFits DEF MarksFit
  <2> QED  BY <2>2, <2>3, <2>4, <2>5, BatchFits DEF MailNext
<1> QED  BY <1>1, <1>2, MailInvariance, PTL DEF MailSpec

LEMMA MailTyped == MailSpec => []MailTypeOK
<1>1. MailInv /\ MarksFit => MailTypeOK
  <2> SUFFICES ASSUME MailInv, MarksFit PROVE MailTypeOK
    OBVIOUS
  <2>1. box \in [mails : Nat, validity : 0 .. MaxRebuilds] /\ poll \in [uid : UIDs \cup {0}, validity : 0 .. MaxRebuilds]
    BY DEF MailInv, MailTypes, MarksFit, MarkFits
  <2>2. ASSUME NEW r \in Readers
        PROVE  reader[r] \in [pc : {"none", "heads", "mail", "write", "drafts", "append", "mark"},
                              validity : 0 .. MaxRebuilds, last : UIDs \cup {0}, todo : SUBSET UIDs,
                              chunk : SUBSET UIDs, wanted : SUBSET UIDs, knows : SUBSET UIDs]
    BY DEF MailInv, MailTypes, ReaderStates, MarksFit, MarkFits
  <2>3. kept \subseteq UIDs /\ skipped \subseteq UIDs /\ effects.mail \in [UIDs -> Nat] /\ effects.drafts \in Nat
    BY GmailReaderAssumption DEF MailInv, MailTypes, MayBeSkipped
  <2>4. prepared \in [holder : Readers \cup {"nobody"}, marked : BOOLEAN] /\ breaks \in 0 .. MaxBreaks
    BY DEF MailInv, MailTypes, MarksFit
  <2> QED  BY <2>1, <2>2, <2>3, <2>4 DEF MailTypeOK
<1> QED  BY <1>1, MailInvariance, MarksFitAlways, PTL
-------------------------------------------------------------------------------
(* The revenue loop.                                                         *)
CallNames == Failing \cup {"notify"}
Decisions == {"NOTIFY", "TROUBLESHOOT", "RESEARCH", "PLAN", "BUILD", "PROCESS_REPLIES", "FIND_LEADS", "SEND", "MEASURE"}
CycleState == [todo : Seq(CallNames), repairing : BOOLEAN]

\* A build that was tried had a plan; one bottleneck stands for each action.
RevenueInv ==
  /\ product \in [research : BOOLEAN, spec : {"none", "planned", "repair"}, build : {"none", "failed", "verified"}]
  /\ product.build # "none" => product.spec # "none"
  /\ runtime \subseteq [action : Failing, owner : BOOLEAN]
  /\ \A b1, b2 \in runtime : b1.action = b2.action => b1 = b2
  /\ market \in [interested : BOOLEAN, full : BOOLEAN]
  /\ owner \in [armed : BOOLEAN, planner : {"clear", "owner", "service"}] /\ healthy \in BOOLEAN
  /\ cycle \in [Cycles -> CycleState]

LEMMA DecisionIsOne == ASSUME NEW waiting PROVE Decision(waiting) \in Decisions
BY DEF Decision, Decisions, BesidesOwner, NextMilestone

LEMMA CallsAreLists ==
  ASSUME NEW d \in Decisions
  PROVE  Calls(d) \in Seq(CallNames)
<1>1. <<"notify">> \in Seq(CallNames) /\ <<"troubleshoot">> \in Seq(CallNames) /\ <<"research", "plan">> \in Seq(CallNames)
      /\ <<"plan">> \in Seq(CallNames) /\ <<"lead_cycle">> \in Seq(CallNames) /\ <<"reply_check">> \in Seq(CallNames)
      /\ BuildCalls \in Seq(CallNames) /\ SendCalls \in Seq(CallNames) /\ <<>> \in Seq(CallNames)
  BY DEF CallNames, Failing, BuildCalls, SendCalls
<1>2. \A s, t \in Seq(CallNames) : s \o t \in Seq(CallNames)
  BY ConcatProperties
<1> QED  BY <1>1, <1>2 DEF Decisions, Calls

LEMMA CallsType ==
  ASSUME NEW d \in Decisions
  PROVE  Calls(d) \o <<"notify">> \in Seq(CallNames)
<1>1. <<"notify">> \in Seq(CallNames)
  BY DEF CallNames
<1> QED  BY <1>1, CallsAreLists, ConcatProperties

LEMMA IdleCycleType == Idle \in CycleState
BY DEF Idle, CycleState

LEMMA DecideGood ==
  ASSUME RevenueInv, NEW c \in Cycles, NEW waiting \in BOOLEAN, Decide(c, waiting)
  PROVE  RevenueInv'
<1>1. [todo |-> Calls(Decision(waiting)) \o <<"notify">>, repairing |-> Decision(waiting) = "TROUBLESHOOT"] \in CycleState
  BY DecisionIsOne, CallsType DEF CycleState
<1>2. cycle' \in [Cycles -> CycleState]
  BY <1>1 DEF Decide, RevenueInv
<1> QED  BY <1>2 DEF Decide, RevenueInv

\* A call of the loop takes the head of its list, and its outcome becomes the
\* action's one bottleneck, or clears.
LEMMA CallGood ==
  ASSUME RevenueInv, NEW c \in Cycles, NEW ok \in BOOLEAN, NEW needsOwner \in BOOLEAN, Call(c, ok, needsOwner)
  PROVE  RevenueInv'
<1> DEFINE action == Head(cycle[c].todo)
<1>1. cycle[c] \in CycleState /\ cycle[c].todo \in Seq(CallNames) /\ cycle[c].todo # <<>>
  BY DEF Call, RevenueInv, CycleState
<1>2. action \in CallNames /\ Tail(cycle[c].todo) \in Seq(CallNames)
  BY <1>1, HeadTailProperties
<1>3. /\ action = "build" /\ ok => product.spec # "none"
      /\ product' = ProductAfter(action, ok)
      /\ runtime' = IF action = "notify" THEN runtime ELSE RuntimeAfter(action, ok, needsOwner)
      /\ cycle' = [cycle EXCEPT ![c] = Goes(c, action, ok)]
      /\ market' \in [interested : BOOLEAN, full : BOOLEAN] /\ UNCHANGED <<owner, healthy>>
  BY DEF Call, RevenueInv
<1> HIDE DEF action
<1>4. /\ product' \in [research : BOOLEAN, spec : {"none", "planned", "repair"}, build : {"none", "failed", "verified"}]
      /\ product'.build # "none" => product'.spec # "none"
  BY <1>3 DEF ProductAfter, RevenueInv
<1>5. /\ runtime' \subseteq [action : Failing, owner : BOOLEAN]
      /\ \A b1, b2 \in runtime' : b1.action = b2.action => b1 = b2
  <2>1. CASE action = "notify"
    BY <1>3, <2>1 DEF RevenueInv
  <2>2. CASE action # "notify" /\ ok
    BY <1>3, <2>2 DEF RuntimeAfter, Cleared, RevenueInv
  <2>3. CASE action # "notify" /\ ~ok
    <3>1. [action |-> action, owner |-> needsOwner] \in [action : Failing, owner : BOOLEAN]
      BY <1>2, <2>3 DEF CallNames
    <3>2. runtime' = {b \in runtime : b.action # action} \cup {[action |-> action, owner |-> needsOwner]}
      BY <1>3, <2>3 DEF RuntimeAfter
    <3> QED  BY <3>1, <3>2 DEF RevenueInv
  <2> QED  BY <2>1, <2>2, <2>3
<1>6. Goes(c, action, ok) \in CycleState
  <2>1. Rest(c) \in CycleState
    BY <1>1, <1>2 DEF Rest, CycleState
  <2>2. [todo |-> Calls("TROUBLESHOOT") \o <<"notify">>, repairing |-> TRUE] \in CycleState
    BY CallsType DEF CycleState, Decisions
  <2> QED  BY <2>1, <2>2, IdleCycleType DEF Goes
<1> QED  BY <1>3, <1>4, <1>5, <1>6 DEF RevenueInv

LEMMA RevenueInvariance == RevenueSpec => []RevenueInv
<1>1. RevenueInit => RevenueInv
  <2> SUFFICES ASSUME RevenueInit PROVE RevenueInv
    OBVIOUS
  <2>1. runtime = {} /\ product.build = "none"
    BY DEF RevenueInit
  <2>2. cycle \in [Cycles -> CycleState]
    BY IdleCycleType DEF RevenueInit
  <2>3. /\ product \in [research : BOOLEAN, spec : {"none", "planned", "repair"}, build : {"none", "failed", "verified"}]
        /\ market \in [interested : BOOLEAN, full : BOOLEAN]
        /\ owner \in [armed : BOOLEAN, planner : {"clear", "owner", "service"}] /\ healthy \in BOOLEAN
    BY DEF RevenueInit
  <2> QED  BY <2>1, <2>2, <2>3 DEF RevenueInv
<1>2. RevenueInv /\ [RevenueNext]_revenueVars => RevenueInv'
  <2> SUFFICES ASSUME RevenueInv, [RevenueNext]_revenueVars PROVE RevenueInv'
    OBVIOUS
  <2>1. CASE UNCHANGED revenueVars
    BY <2>1 DEF revenueVars, RevenueInv
  <2>2. ASSUME NEW c \in Cycles, Abandon(c) PROVE RevenueInv'
    BY <2>2, IdleCycleType DEF Abandon, RevenueInv
  <2>3. CASE OwnerActs \/ HealthTurns
    BY <2>3 DEF OwnerActs, HealthTurns, RevenueInv
  <2> QED  BY <2>1, <2>2, <2>3, DecideGood, CallGood DEF RevenueNext, CycleSteps
<1> QED  BY <1>1, <1>2, PTL DEF RevenueSpec

LEMMA RevenueTyped == RevenueSpec => []RevenueTypeOK
<1>1. RevenueInv => RevenueTypeOK
  BY DEF RevenueInv, RevenueTypeOK, CycleState, CallNames
<1> QED  BY <1>1, RevenueInvariance, PTL
-------------------------------------------------------------------------------
(* How a cycle of the revenue loop ends.                                     *)

\* A cycle that is not idle has a call left, at last the flow's notice.
EndsInNotice(todo) == todo # <<>> /\ todo[Len(todo)] = "notify"
ListsEnd == \A c \in Cycles : cycle[c] # Idle => EndsInNotice(cycle[c].todo)

\* No cycle is left with nothing to do and not over.
CallWaits == \A c \in Cycles : cycle[c] # Idle => cycle[c].todo # <<>>

\* The calls a cycle can still make: its list, and one repair if it has had none.
CallsLeft(todo, repairing) == Len(todo) + (IF repairing THEN 0 ELSE 4)

\* A call leaves the cycle fewer calls: a repair that fails its tests does not
\* start another repair, whatever fails and however cycles overlap.
CallsRunOut ==
  [][\A c \in Cycles : cycle[c] # Idle /\ cycle'[c] # cycle[c] /\ cycle'[c] # Idle =>
       CallsLeft(cycle'[c].todo, cycle'[c].repairing) < CallsLeft(cycle[c].todo, cycle[c].repairing)]_revenueVars

LEMMA ConcatLists ==
  /\ \A s, t \in Seq(CallNames) : s \o t \in Seq(CallNames)
  /\ \A s, t \in Seq(CallNames) : Len(s \o t) = Len(s) + Len(t)
  /\ \A s, t \in Seq(CallNames) : \A i \in 1 .. (Len(s) + Len(t)) :
       (s \o t)[i] = IF i <= Len(s) THEN s[i] ELSE t[i - Len(s)]
BY ConcatProperties

LEMMA NoticeIsList == <<"notify">> \in Seq(CallNames) /\ Len(<<"notify">>) = 1 /\ <<"notify">>[1] = "notify"
BY DEF CallNames

LEMMA ListsEndTelling ==
  ASSUME NEW calls \in Seq(CallNames)
  PROVE  EndsInNotice(calls \o <<"notify">>)
<1> DEFINE notice == <<"notify">>
<1>1. notice \in Seq(CallNames) /\ Len(notice) = 1 /\ notice[1] = "notify"
  BY NoticeIsList
<1> HIDE DEF notice
<1>2. Len(calls) \in Nat
  OBVIOUS
<1>3. /\ Len(calls \o notice) = Len(calls) + 1 /\ calls \o notice \in Seq(CallNames)
      /\ (calls \o notice)[Len(calls) + 1] = notice[1]
  <2> DEFINE both == calls \o notice
             last == Len(calls) + 1
  <2>1. both \in Seq(CallNames)
    BY <1>1, ConcatLists, Zenon
  <2>2. Len(both) = Len(calls) + Len(notice)
    BY <1>1, ConcatLists, Zenon
  <2>3. \A i \in 1 .. (Len(calls) + Len(notice)) :
       both[i] = IF i <= Len(calls) THEN calls[i] ELSE notice[i - Len(calls)]
    BY <1>1, ConcatLists, Zenon
  <2> HIDE DEF both
  <2>4. last \in 1 .. (Len(calls) + Len(notice)) /\ ~(last <= Len(calls)) /\ last - Len(calls) = 1
    BY <1>1, <1>2
  <2>5. both[last] = notice[1]
    BY <2>3, <2>4
  <2> QED  BY <1>1, <2>1, <2>2, <2>5 DEF both
<1>4. calls \o notice # <<>>
  BY <1>2, <1>3
<1> QED  BY <1>1, <1>3, <1>4 DEF EndsInNotice, notice

LEMMA RepairLength == Len(Calls("TROUBLESHOOT") \o <<"notify">>) = 4
<1>1. Calls("TROUBLESHOOT") = <<"troubleshoot">> \o BuildCalls
  BY DEF Calls
<1>2. /\ <<"troubleshoot">> \in Seq(CallNames) /\ BuildCalls \in Seq(CallNames) /\ <<"notify">> \in Seq(CallNames)
      /\ Len(<<"troubleshoot">>) = 1 /\ Len(BuildCalls) = 2 /\ Len(<<"notify">>) = 1
  BY DEF BuildCalls, CallNames, Failing
<1> DEFINE call == <<"troubleshoot">>
           calls == BuildCalls
           notice == <<"notify">>
<1>3. /\ call \in Seq(CallNames) /\ calls \in Seq(CallNames) /\ notice \in Seq(CallNames)
      /\ Len(call) = 1 /\ Len(calls) = 2 /\ Len(notice) = 1 /\ Calls("TROUBLESHOOT") = call \o calls
  BY <1>1, <1>2
<1> HIDE DEF call, calls, notice
<1>4. call \o calls \in Seq(CallNames) /\ Len(call \o calls) = 3
  <2>1. call \o calls \in Seq(CallNames)
    BY <1>3, ConcatLists, Zenon
  <2>2. Len(call \o calls) = Len(call) + Len(calls)
    BY <1>3, ConcatLists, Zenon
  <2> QED  BY <1>3, <2>1, <2>2
<1>5. Len((call \o calls) \o notice) = 4
  <2>1. Len((call \o calls) \o notice) = Len(call \o calls) + Len(notice)
    BY <1>3, <1>4, ConcatLists, Zenon
  <2> QED  BY <1>3, <1>4, <2>1
<1> QED  BY <1>3, <1>5 DEF notice

\* Taking the first of several calls leaves the last one last.
LEMMA TailEnds ==
  ASSUME NEW todo \in Seq(CallNames), EndsInNotice(todo), Head(todo) # "notify"
  PROVE  EndsInNotice(Tail(todo)) /\ Len(Tail(todo)) = Len(todo) - 1
<1>1. todo # <<>> /\ Len(todo) \in Nat /\ Len(todo) > 0 /\ Head(todo) = todo[1]
  BY DEF EndsInNotice
<1>2. Len(todo) > 1
  BY <1>1 DEF EndsInNotice
<1> DEFINE rest == Tail(todo)
<1>3. /\ rest \in Seq(CallNames) /\ Len(rest) = Len(todo) - 1
      /\ \A i \in 1 .. Len(rest) : rest[i] = todo[i + 1]
  BY <1>1, HeadTailProperties
<1> HIDE DEF rest
<1>4. rest # <<>> /\ rest[Len(rest)] = todo[Len(todo)]
  BY <1>1, <1>2, <1>3
<1> QED  BY <1>3, <1>4 DEF EndsInNotice, rest

\* The list another one became: it ends in telling and is worth fewer calls.
Fewer(c, next) ==
  /\ EndsInNotice(next.todo)
  /\ CallsLeft(next.todo, next.repairing) < CallsLeft(cycle[c].todo, cycle[c].repairing)

\* A cycle after one of its calls.
LEMMA CallShortens ==
  ASSUME RevenueInv, ListsEnd, NEW c \in Cycles, cycle[c].todo # <<>>, NEW ok \in BOOLEAN
  PROVE  Goes(c, Head(cycle[c].todo), ok) = Idle \/ Fewer(c, Goes(c, Head(cycle[c].todo), ok))
<1> DEFINE todo == cycle[c].todo
           repair == [todo |-> Calls("TROUBLESHOOT") \o <<"notify">>, repairing |-> TRUE]
           next == Goes(c, Head(todo), ok)
<1>1. todo \in Seq(CallNames) /\ EndsInNotice(todo) /\ cycle[c].repairing \in BOOLEAN
  BY DEF RevenueInv, CycleState, ListsEnd, Idle
<1>2. Len(todo) \in Nat /\ Len(todo) > 0
  BY <1>1 DEF EndsInNotice
<1>3. \/ next = Idle
      \/ next = repair /\ ~cycle[c].repairing
      \/ next = Rest(c) /\ Head(todo) # "notify"
  BY DEF Goes
<1>4. EndsInNotice(repair.todo) /\ Len(repair.todo) = 4 /\ repair.repairing = TRUE
  BY CallsAreLists, ListsEndTelling, RepairLength DEF Decisions
<1>5. Rest(c).todo = Tail(todo) /\ Rest(c).repairing = cycle[c].repairing
  BY DEF Rest, RevenueInv, CycleState
<1> SUFFICES next = Idle \/ Fewer(c, next)
  OBVIOUS
<1> HIDE DEF todo, repair, next
<1>6. CASE next = repair /\ ~cycle[c].repairing
  <2>1. EndsInNotice(next.todo) /\ CallsLeft(next.todo, next.repairing) = 4
    <3>1. Len(next.todo) = 4 /\ next.repairing /\ EndsInNotice(next.todo)
      BY <1>4, <1>6
    <3>2. CallsLeft(next.todo, next.repairing) = 4 + 0
      BY <3>1 DEF CallsLeft
    <3>3. 4 + 0 = 4
      OBVIOUS
    <3> QED  BY <3>1, <3>2, <3>3, Zenon
  <2>2. CallsLeft(todo, cycle[c].repairing) = Len(todo) + 4
    BY <1>6 DEF CallsLeft
  <2> QED  BY <1>2, <2>1, <2>2 DEF Fewer, todo
<1>7. CASE next = Rest(c) /\ Head(todo) # "notify"
  <2>1. EndsInNotice(Tail(todo)) /\ Len(Tail(todo)) = Len(todo) - 1
    BY <1>1, <1>7, TailEnds
  <2>2. CallsLeft(Tail(todo), cycle[c].repairing) < CallsLeft(todo, cycle[c].repairing)
    <3> DEFINE old == Len(todo)
               new == Len(Tail(todo))
    <3>1. new = old - 1 /\ old \in Nat
      BY <1>2, <2>1
    <3> HIDE DEF old, new
    <3>2. CASE cycle[c].repairing
      BY <3>1, <3>2 DEF CallsLeft, old, new
    <3>3. CASE ~cycle[c].repairing
      BY <3>1, <3>3 DEF CallsLeft, old, new
    <3> QED  BY <3>2, <3>3
  <2> QED  BY <1>5, <1>7, <2>1, <2>2 DEF Fewer, todo
<1> QED  BY <1>3, <1>6, <1>7

\* One step of the loop: a list is only ever begun, shortened or put away.
LEMMA CycleMoves ==
  ASSUME RevenueInv, ListsEnd, [RevenueNext]_revenueVars, NEW c \in Cycles
  PROVE  \/ cycle'[c] = cycle[c] \/ cycle'[c] = Idle
         \/ Fewer(c, cycle'[c])
         \/ cycle[c] = Idle /\ EndsInNotice(cycle'[c].todo)
<1>1. CASE UNCHANGED cycle
  BY <1>1
<1>2. ASSUME NEW d \in Cycles, Abandon(d) PROVE cycle'[c] = cycle[c] \/ cycle'[c] = Idle
  BY <1>2 DEF Abandon, RevenueInv
<1>3. ASSUME NEW d \in Cycles, NEW waiting \in BOOLEAN, Decide(d, waiting)
      PROVE  cycle'[c] = cycle[c] \/ (cycle[c] = Idle /\ EndsInNotice(cycle'[c].todo))
  <2> DEFINE todo == Calls(Decision(waiting)) \o <<"notify">>
             repairing == Decision(waiting) = "TROUBLESHOOT"
  <2>1. EndsInNotice(todo)
    BY DecisionIsOne, CallsAreLists, ListsEndTelling
  <2>2. cycle[d] = Idle /\ cycle' = [cycle EXCEPT ![d] = [todo |-> todo, repairing |-> repairing]]
    BY <1>3 DEF Decide
  <2> HIDE DEF todo, repairing
  <2>3. cycle'[c] = cycle[c] \/ (c = d /\ cycle'[c].todo = todo)
    BY <2>2 DEF RevenueInv
  <2> QED  BY <2>1, <2>2, <2>3
<1>4. ASSUME NEW d \in Cycles, NEW ok \in BOOLEAN, NEW needsOwner \in BOOLEAN, Call(d, ok, needsOwner)
      PROVE  cycle'[c] = cycle[c] \/ cycle'[c] = Idle \/ Fewer(c, cycle'[c])
  <2>1. cycle[d].todo # <<>> /\ cycle' = [cycle EXCEPT ![d] = Goes(d, Head(cycle[d].todo), ok)]
    BY <1>4 DEF Call
  <2>2. cycle'[c] = cycle[c] \/ (c = d /\ cycle'[c] = Goes(c, Head(cycle[c].todo), ok))
    BY <2>1 DEF RevenueInv
  <2> QED  BY <2>1, <2>2, CallShortens
<1> QED
  BY <1>1, <1>2, <1>3, <1>4 DEF RevenueNext, CycleSteps, OwnerActs, HealthTurns, revenueVars

LEMMA ListsInvariance == RevenueSpec => [](RevenueInv /\ ListsEnd)
<1>1. RevenueInit => ListsEnd
  BY DEF RevenueInit, ListsEnd
<1>2. RevenueInv /\ ListsEnd /\ [RevenueNext]_revenueVars => ListsEnd'
  <2> SUFFICES ASSUME RevenueInv, ListsEnd, [RevenueNext]_revenueVars, NEW c \in Cycles, cycle'[c] # Idle
               PROVE  EndsInNotice(cycle'[c].todo)
    BY DEF ListsEnd
  <2> QED  BY CycleMoves DEF ListsEnd, Fewer
<1> QED  BY <1>1, <1>2, RevenueInvariance, PTL DEF RevenueSpec

\* A cycle of the flow (n8n/revenue_os_main.json) never stands still and never
\* loops: until it is idle it has a call to make, and each call leaves it fewer. A failed product is
\* repaired once in a cycle, however often the tests of its repairs fail.
THEOREM CyclesEnd == RevenueSpec => []CallWaits /\ CallsRunOut
<1>1. RevenueInv /\ ListsEnd /\ [RevenueNext]_revenueVars =>
        [\A c \in Cycles : cycle[c] # Idle /\ cycle'[c] # cycle[c] /\ cycle'[c] # Idle =>
           CallsLeft(cycle'[c].todo, cycle'[c].repairing)
             < CallsLeft(cycle[c].todo, cycle[c].repairing)]_revenueVars
  BY CycleMoves DEF Fewer
<1>2. ListsEnd => CallWaits
  BY DEF ListsEnd, CallWaits, EndsInNotice
<1> QED  BY <1>1, <1>2, ListsInvariance, PTL DEF RevenueSpec, CallsRunOut
-------------------------------------------------------------------------------
(* All of them.                                                              *)

\* The tables, files and variables of every service keep their types, whatever
\* the others do beside it: the services of one installation share its machine
\* and its database, and none writes what another one keeps.
THEOREM ServicesAreTyped ==
  ASSUME NamesDiffer, OrderDiffers
  PROVE  ServicesSpec => []ServicesTypeOK
<1>1. Spec => []TypeOK
  BY QueueTypes
<1>2. RouterSpec => []RouterTypeOK
  BY RouterInvariance, RouterInvTells, PTL
<1>3. ReachSpec => []ReachTypeOK
  BY LedgerTypes
<1>4. SourcesSpec => []SourcesTypeOK
  BY SourcesTypes
<1> QED
  BY <1>1, <1>2, <1>3, <1>4, BrainTyped, OutboxTyped, NoticesTyped, AlertsTyped, MailTyped, AgentTyped, RevenueTyped,
     PTL DEF ServicesSpec, ServicesTypeOK
===============================================================================
