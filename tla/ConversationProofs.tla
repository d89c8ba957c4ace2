------------------------ MODULE ConversationProofs --------------------------
(* The invariants of Conversation, for every set of email kinds and every    *)
(* lead engine status a company may come with.                               *)
EXTENDS Conversation, SendGuardTheorems

\* What a reply said stays visible to the guard.
Remembered == /\ heard = "opt out" => conv.suppressed
              /\ heard = "reply" => conv.inbound

IInv == TypeOK /\ RowConstraints /\ Remembered

\* What a writer beside the planner does to the two tables: they agree if they
\* did, and the lead engine's column is left or takes the company off the lists.
Together == /\ EngineAgrees(conv) => EngineAgrees(conv')
            /\ KeptOrTaken(conv, conv')

\* A record whose status and flags were not touched is as good as before.
LEMMA SameRow ==
  ASSUME NEW c, NEW d, d.status = c.status, d.cold = c.cold, d.dnc = c.dnc,
         d.bounced = c.bounced, d.outreach = c.outreach
  PROVE  (RowAccepted(c) => RowAccepted(d)) /\ (EngineAgrees(c) => EngineAgrees(d))
BY DEF RowAccepted, EngineAgrees

LEMMA InitGood == Init => IInv /\ LeadEngineAgrees
<1> SUFFICES ASSUME Init PROVE IInv /\ LeadEngineAgrees
  OBVIOUS
<1>1. PICK o \in Starts : conv = [FreshCompany(o) EXCEPT
                                   !.contacted = o \in {"contacted", "replied", "bounced"}]
  BY DEF Init
<1>2. /\ FreshCompany(o) \in Company
      /\ RowAccepted(FreshCompany(o)) /\ EngineAgrees(FreshCompany(o))
  BY ConversationAssumption, FreshType
<1> DEFINE known == o \in {"contacted", "replied", "bounced"}
<1>a. known \in BOOLEAN /\ conv = [FreshCompany(o) EXCEPT !.contacted = known]
  BY <1>1
<1> HIDE DEF known
<1>3. /\ conv \in Company
      /\ conv.status = FreshCompany(o).status /\ conv.cold = FreshCompany(o).cold
      /\ conv.dnc = FreshCompany(o).dnc /\ conv.bounced = FreshCompany(o).bounced
      /\ conv.outreach = FreshCompany(o).outreach
  BY <1>2, <1>a DEF Company
<1>4. RowConstraints /\ LeadEngineAgrees
  BY <1>2, <1>3, SameRow DEF RowConstraints, LeadEngineAgrees
<1> QED  BY <1>3, <1>4 DEF Init, IInv, TypeOK, Remembered

\* Each action leads from a good state to a good one, and keeps the two tables
\* together if they were.
LEMMA ReplyGood ==
  ASSUME IInv, NEW l \in Labels, NEW f \in FlagsOf(l), NEW p \in BOOLEAN, ReceiveReply(l, f, p), UNCHANGED scoring, overwrote' \in BOOLEAN
  PROVE  IInv' /\ Together
<1>1. f \in Flags
  BY DEF FlagsOf, Flags
<1>2. CASE ReplyRaises(conv, l)
  BY <1>2 DEF IInv, TypeOK, ReceiveReply, RowConstraints, Remembered, Together, KeptOrTaken
<1>3. CASE ~ReplyRaises(conv, l)
  <2>1. conv' = Replied(conv, l, f, p) /\ heard' = Heard(l) /\ UNCHANGED <<sending, lostReply, lostSend>>
    BY <1>3 DEF ReceiveReply
  <2>2. conv' \in Company /\ RowAccepted(conv') /\ Together
    BY <1>1, <1>3, <2>1, RepliedAccepted, WritersKeepOrTake DEF IInv, TypeOK, RowConstraints, Together
  <2>3. /\ conv'.inbound = (conv.inbound \/ l \notin Machine)
        /\ conv.suppressed \/ l = "UNSUBSCRIBE" => conv'.suppressed
    <3> DEFINE st  == EnsureState(conv)
               set == SetStatus(st, ReplyStatus(conv, l), FALSE, st.cold, l = "DELIVERY_FAILURE")
    <3>1. /\ st \in Company /\ st.cold \in BOOLEAN
          /\ st.inbound = conv.inbound /\ st.suppressed = conv.suppressed
      BY EnsureStateType, EnsureStateKeeps DEF Company, IInv, TypeOK
    <3>2. set \in Company
      <4>1. ReplyStatus(conv, l) \in STATUSES /\ (l = "DELIVERY_FAILURE") \in BOOLEAN
        BY ReplyStatusType DEF IInv, TypeOK
      <4> QED  BY <3>1, <4>1, SetStatusType
    <3>3. set.inbound = conv.inbound /\ set.suppressed = conv.suppressed
      BY <3>1 DEF SetStatus, Company
    <3> QED  BY <2>1, <3>2, <3>3 DEF Replied, Company
  <2>4. heard' \in {"nothing", "reply", "opt out"}
    BY <2>1 DEF Heard, IInv, TypeOK
  <2>5. Remembered'
    BY <2>1, <2>3 DEF Heard, Remembered, IInv
  <2> QED  BY <2>1, <2>2, <2>4, <2>5 DEF IInv, TypeOK, RowConstraints
<1> QED  BY <1>2, <1>3

LEMMA ConfirmGood ==
  ASSUME IInv, NEW k \in SendKinds, ConfirmSend(k), UNCHANGED scoring, overwrote' \in BOOLEAN
  PROVE  IInv' /\ Together
<1>1. CASE ConfirmRaises(conv, k)
  BY <1>1 DEF IInv, TypeOK, ConfirmSend, RowConstraints, Remembered, Together, KeptOrTaken
<1>2. CASE ~ConfirmRaises(conv, k)
  <2>1. conv' = ConfirmedSend(conv, k) /\ UNCHANGED <<heard, lostReply, lostSend>>
    BY <1>2 DEF ConfirmSend
  <2>2. conv' \in Company /\ RowAccepted(conv') /\ Together
    BY <1>2, <2>1, ConfirmedSendAccepted, WritersKeepOrTake, ConversationAssumption
       DEF IInv, TypeOK, RowConstraints, Together
  <2>3. conv'.inbound = conv.inbound /\ conv'.suppressed = conv.suppressed
    BY <2>1, EnsureStateType, ZenonT(60) DEF ConfirmedSend, SetStatus, EnsureState, Company, IInv, TypeOK
  <2> QED  BY <2>1, <2>2, <2>3
           DEF IInv, TypeOK, RowConstraints, Remembered, ConfirmSend
<1> QED  BY <1>1, <1>2

LEMMA SenderGood ==
  ASSUME IInv, RejectAddress \/ InterruptedSend, UNCHANGED scoring, overwrote' \in BOOLEAN
  PROVE  IInv' /\ Together
<1>1. PICK d \in {AddressRejected(conv), MaybeContacted(conv)} : conv' = d
  BY DEF RejectAddress, InterruptedSend
<1>2. "cold" \in Generic /\ FALSE \in BOOLEAN
  BY DEF Generic
<1>3. conv' \in Company /\ RowAccepted(conv') /\ Together
  BY <1>1, <1>2, SenderWritesAccepted, WritersKeepOrTake DEF IInv, TypeOK, RowConstraints, Together
<1>4. conv'.inbound = conv.inbound /\ (conv.suppressed => conv'.suppressed)
  <2>1. conv \in Company /\ EnsureState(conv) \in Company
    BY EnsureStateType DEF IInv, TypeOK
  <2>2. /\ AddressRejected(conv).inbound = conv.inbound
        /\ AddressRejected(conv).suppressed = TRUE
    BY <2>1, EnsureStateKeeps DEF AddressRejected, Company
  <2>3. /\ MaybeContacted(conv).inbound = conv.inbound
        /\ MaybeContacted(conv).suppressed = conv.suppressed
    BY <2>1 DEF MaybeContacted, Company
  <2> QED  BY <1>1, <2>2, <2>3
<1>5. sending' \subseteq SendKinds /\ UNCHANGED <<heard, lostReply, lostSend>>
  BY DEF RejectAddress, InterruptedSend, IInv, TypeOK
<1> QED  BY <1>3, <1>4, <1>5 DEF IInv, TypeOK, RowConstraints, Remembered

LEMMA OwnerGood ==
  ASSUME IInv, NEW to \in STATUSES, NEW a \in BOOLEAN, OwnerSet(to, a), UNCHANGED scoring, overwrote' \in BOOLEAN
  PROVE  IInv' /\ Together
<1> DEFINE st  == EnsureState(conv)
           set == SetStatus(st, to, TRUE, st.cold, FALSE)
<1>1. conv \in Company /\ st \in Company /\ st.cold \in BOOLEAN
  BY EnsureStateType DEF IInv, TypeOK, Company
<1>2. set \in Company
  BY <1>1, SetStatusType
<1>3. RowAccepted(set) /\ (EngineAgrees(conv) => EngineAgrees(set))
  BY <1>1, EnsureStateAccepted, SetStatusAccepted, SetStatusAgrees
     DEF IInv, RowConstraints, Check
<1>4. set.inbound = conv.inbound /\ set.suppressed = conv.suppressed
  BY <1>1 DEF SetStatus, EnsureState, Company
<1>5. /\ conv' = [set EXCEPT !.hold = FALSE, !.proposal = IF a THEN "accepted" ELSE set.proposal]
      /\ UNCHANGED <<sending, heard, lostReply, lostSend>>
  BY <1>2 DEF OwnerSet, Company
<1> HIDE DEF set
<1>6. /\ conv' \in Company
      /\ conv'.status = set.status /\ conv'.cold = set.cold /\ conv'.dnc = set.dnc
      /\ conv'.bounced = set.bounced /\ conv'.outreach = set.outreach
      /\ conv'.inbound = set.inbound /\ conv'.suppressed = set.suppressed
  BY <1>2, <1>5 DEF Company, ProposalStates
<1>7. RowAccepted(conv') /\ (EngineAgrees(conv) => EngineAgrees(conv'))
  BY <1>3, <1>6, SameRow
<1>8. KeptOrTaken(conv, set)
  BY <1>1, WritersKeepOrTake DEF set
<1>9. Together
  BY <1>6, <1>7, <1>8 DEF Together, KeptOrTaken
<1> QED  BY <1>4, <1>5, <1>6, <1>7, <1>9
         DEF IInv, TypeOK, RowConstraints, Remembered

LEMMA EventGood ==
  ASSUME IInv, Event
  PROVE  IInv' /\ Together
<1>a. UNCHANGED scoring /\ overwrote' \in BOOLEAN
  BY DEF Event
<1> USE <1>a
<1>1. ASSUME NEW k \in SendKinds, PassGuard(k) \/ NotSent(k)
      PROVE  IInv' /\ Together
  BY <1>1 DEF PassGuard, NotSent, IInv, TypeOK, RowConstraints, Remembered, Together, KeptOrTaken
<1>2. ASSUME NEW k \in SendKinds, ConfirmSend(k)
      PROVE  IInv' /\ Together
  BY <1>2, ConfirmGood
<1>3. CASE AnyReply
  BY <1>3, ReplyGood DEF AnyReply, Parses
<1>4. CASE RejectAddress \/ InterruptedSend
  BY <1>4, SenderGood
<1>5. CASE SuppressByDomain
  <2>1. /\ conv' = [conv EXCEPT !.suppressed = TRUE]
        /\ UNCHANGED <<sending, heard, lostReply, lostSend>>
    BY <1>5 DEF SuppressByDomain
  <2>2. /\ conv' \in Company /\ conv'.suppressed = TRUE /\ conv'.inbound = conv.inbound
        /\ conv'.status = conv.status /\ conv'.cold = conv.cold /\ conv'.dnc = conv.dnc
        /\ conv'.bounced = conv.bounced /\ conv'.outreach = conv.outreach
    BY <2>1 DEF IInv, TypeOK, Company
  <2>3. (RowAccepted(conv) => RowAccepted(conv')) /\ (EngineAgrees(conv) => EngineAgrees(conv'))
    BY <2>2, SameRow
  <2> QED  BY <2>1, <2>2, <2>3
           DEF IInv, TypeOK, RowConstraints, Remembered, Together, KeptOrTaken
<1>6. CASE Owner
  BY <1>6, OwnerGood DEF Owner
<1>7. CASE ScreenLead
  <2>1. conv' = Screened(conv) /\ UNCHANGED <<sending, heard, lostReply, lostSend>>
    BY <1>7 DEF ScreenLead
  <2> QED  BY <2>1, ScreenedKeeps, WritersKeepOrTake
           DEF IInv, TypeOK, RowConstraints, Remembered, Together
<1> QED  BY <1>1, <1>2, <1>3, <1>4, <1>5, <1>6, <1>7 DEF Event

\* The planner's read and write: safe for the row whatever came in between.
LEMMA PlannerGood ==
  ASSUME IInv, FindEligible \/ Qualify
  PROVE  /\ IInv'
         /\ LeadEngineAgrees => LeadEngineAgrees'
<1>1. conv \in Company /\ conv' \in {conv, Qualified(conv)}
      /\ UNCHANGED <<sending, heard, lostReply, lostSend>> /\ scoring' \in BOOLEAN
      /\ overwrote' \in BOOLEAN
  BY DEF FindEligible, Qualify, IInv, TypeOK
<1>2. IInv'
  BY <1>1, QualifiedKeeps DEF IInv, TypeOK, RowConstraints, Remembered
<1>3. CASE UNCHANGED <<conv, overwrote>>
  BY <1>2, <1>3 DEF LeadEngineAgrees
<1>4. CASE conv' = Qualified(conv) /\ overwrote' = (overwrote \/ ~Eligible(conv))
  BY <1>1, <1>2, <1>4, QualifiedKeeps DEF LeadEngineAgrees
<1> QED  BY <1>2, <1>3, <1>4 DEF FindEligible, Qualify

LEMMA StepGood == IInv /\ [Next]_vars => IInv'
<1>1. IInv /\ UNCHANGED vars => IInv'
  BY DEF vars, IInv, TypeOK, RowConstraints, Remembered
<1> QED  BY <1>1, EventGood, PlannerGood DEF Next

LEMMA Invariance == Spec => []IInv
BY InitGood, StepGood, PTL DEF Spec

\* The variables keep their types: no writer invents a status, an
\* outreach_status or a proposal_status the tables do not know.
THEOREM TypeCorrect == Spec => []TypeOK
BY Invariance, PTL DEF IInv

\* The constraints of 007_conversation_memory.sql are never hit.
THEOREM RowsAccepted == Spec => []RowConstraints
BY Invariance, PTL DEF IInv

\* Reply layer and lead engine never disagree about who was contacted, but where
\* qualify() wrote over what others wrote while it scored, and only as long as
\* its word stands.
THEOREM EnginesAgree == Spec => []LeadEngineAgrees
<1>1. ASSUME IInv, LeadEngineAgrees, Event  PROVE LeadEngineAgrees'
  <2>1. Together /\ overwrote' = (overwrote /\ conv'.outreach = conv.outreach)
    BY <1>1, EventGood DEF Event
  <2>2. CASE conv'.outreach = conv.outreach
    BY <1>1, <2>1, <2>2 DEF Together, LeadEngineAgrees
  <2>3. CASE conv'.outreach # conv.outreach
    BY <2>1, <2>3 DEF Together, KeptOrTaken, LeadEngineAgrees, EngineAgrees
  <2> QED  BY <2>2, <2>3
<1>2. LeadEngineAgrees /\ UNCHANGED vars => LeadEngineAgrees'
  BY DEF vars, LeadEngineAgrees
<1>3. IInv /\ LeadEngineAgrees /\ [Next]_vars => LeadEngineAgrees'
  BY <1>1, <1>2, PlannerGood DEF Next
<1> QED  BY <1>3, InitGood, StepGood, PTL DEF Spec

\* An opt-out closes every kind of email for good, any human reply the cold
\* sequence, whatever the owner does later and whatever was being sent.
THEOREM WordKept == Spec => []WordIsKept
<1>1. IInv => WordIsKept
  BY DEF IInv, Remembered, WordIsKept, SendCheck
<1> QED  BY <1>1, Invariance, PTL

LEMMA StepOnlyOwner ==
  ASSUME IInv, [Next]_vars
  PROVE  /\ conv.dnc /\ ~conv'.dnc => Owner
         /\ Backwards(conv.status, conv'.status) => Owner \/ ConfirmSend("proposal")
<1> DEFINE Kept == (conv.dnc => conv'.dnc) /\ ~Backwards(conv.status, conv'.status)
<1>1. conv \in Company /\ conv' \in Company /\ RowAccepted(conv) /\ RowAccepted(conv')
  BY StepGood DEF IInv, TypeOK, RowConstraints
<1>2. (conv.dnc => conv.status = "do_not_contact") /\ (conv'.status = "do_not_contact" => conv'.dnc)
  BY <1>1 DEF RowAccepted
<1>3. NoRow \notin DOMAIN RANK /\ NoRow # "do_not_contact"
  BY Ranks DEF NoRow, STATUSES
<1>4. \A s : ~Backwards(NoRow, s) /\ ~Backwards(s, s)
  BY <1>3, Ranks, Forwards DEF Backwards
<1>5. ASSUME conv'.status = conv.status \/ conv.status = NoRow  PROVE Kept
  BY <1>2, <1>3, <1>4, <1>5
<1>6. ASSUME NEW l \in Labels, NEW f \in FlagsOf(l), NEW p \in BOOLEAN, ReceiveReply(l, f, p)
      PROVE Kept
  <2>1. CASE ReplyRaises(conv, l) \/ conv.status = NoRow
    BY <1>5, <1>6, <2>1 DEF ReceiveReply
  <2>2. CASE ~ReplyRaises(conv, l) /\ conv.status # NoRow
    <3>1. conv' = Replied(conv, l, f, p)
      BY <1>6, <2>2 DEF ReceiveReply
    <3> DEFINE st == EnsureState(conv)
               set == SetStatus(st, ReplyStatus(conv, l), FALSE, st.cold, l = "DELIVERY_FAILURE")
    <3>2. st \in Company /\ st.cold \in BOOLEAN /\ (l = "DELIVERY_FAILURE") \in BOOLEAN
      BY <1>1, EnsureStateType DEF Company
    <3>3. set \in Company
      BY <1>1, <3>2, ReplyStatusType, SetStatusType
    <3>4. conv'.status = set.status /\ set.status = ReplyStatus(conv, l)
      BY <3>1, <3>2, <3>3 DEF Replied, SetStatus, Company
    <3> QED  BY <1>1, <1>2, <2>2, <3>4, ReplyForward
  <2> QED  BY <2>1, <2>2
<1>7. ASSUME NEW k \in SendKinds \ {"proposal"}, ConfirmSend(k)  PROVE Kept
  <2>1. CASE conv.status = NoRow \/ conv' = conv
    BY <1>5, <2>1
  <2>2. CASE conv.status # NoRow /\ conv' = ConfirmedSend(conv, k)
    <3>1. EnsureState(conv) = conv
      BY <2>2 DEF EnsureState
    <3>2. conv'.status = IF conv.status \in {"discovered", "ready"} THEN "emailed" ELSE conv.status
      BY <1>1, <2>2, <3>1 DEF ConfirmedSend, SetStatus, Company
    <3>3. "discovered" # "do_not_contact" /\ "ready" # "do_not_contact"
      OBVIOUS
    <3> QED  BY <1>2, <1>4, <3>2, <3>3, Forwards
  <2> QED  BY <1>7, <2>1, <2>2 DEF ConfirmSend
<1>8. CASE RejectAddress \/ InterruptedSend
  <2>1. conv.status # NoRow => EnsureState(conv) = conv
    BY DEF EnsureState
  <2>2. conv' \in {AddressRejected(conv), MaybeContacted(conv)}
    BY <1>8 DEF RejectAddress, InterruptedSend
  <2>3. /\ conv.status # NoRow => AddressRejected(conv).status = conv.status
        /\ MaybeContacted(conv).status = conv.status
    BY <1>1, <2>1 DEF AddressRejected, MaybeContacted, Company
  <2> QED  BY <1>5, <2>2, <2>3
<1>9. ASSUME NEW k \in SendKinds, PassGuard(k) \/ NotSent(k)  PROVE Kept
  BY <1>5, <1>9 DEF PassGuard, NotSent
<1>10. CASE SuppressByDomain \/ ScreenLead \/ FindEligible \/ Qualify \/ UNCHANGED vars
  <2>1. conv'.status = conv.status
    BY <1>1, <1>10, ScreenedKeeps, QualifiedKeeps
       DEF SuppressByDomain, ScreenLead, FindEligible, Qualify, vars, Company
  <2> QED  BY <1>5, <2>1
<1>11. CASE ConfirmSend("proposal")
  <2>1. conv.dnc => EnsureState(conv) = conv /\ conv.status = "do_not_contact"
    BY <1>2, <1>3 DEF EnsureState
  <2>2. conv.dnc => ConfirmedSend(conv, "proposal").dnc = conv.dnc
    BY <1>1, <2>1 DEF ConfirmedSend, ProposalMoves, Company
  <2>3. conv' = conv \/ conv' = ConfirmedSend(conv, "proposal")
    BY <1>11 DEF ConfirmSend
  <2>4. conv.dnc => conv'.dnc
    BY <2>2, <2>3
  <2> QED  BY <1>11, <2>4
<1>12. Kept \/ Owner \/ ConfirmSend("proposal")
  BY <1>6, <1>7, <1>8, <1>9, <1>10 DEF Next, Event, AnyReply, Parses
<1> QED  BY <1>11, <1>12

\* Only the owner takes a company out of do_not_contact or back down the
\* funnel, a new proposal sent while negotiating aside.
THEOREM OwnerReopens == Spec => OnlyOwnerReopens
<1>1. IInv /\ [Next]_vars
        => [/\ conv.dnc /\ ~conv'.dnc => Owner
            /\ Backwards(conv.status, conv'.status) => Owner \/ ConfirmSend("proposal")]_vars
  BY StepOnlyOwner
<1> QED  BY <1>1, Invariance, PTL DEF Spec, OnlyOwnerReopens
=============================================================================
