------------------------- MODULE SendGuardTheorems --------------------------
(* What the writers of a company record return: a record, and one the        *)
(* database accepts.                                                         *)
EXTENDS SendGuard, TLAPS

LEMMA PreReplyStatuses == PRE_REPLY \subseteq STATUSES /\ NoRow \notin STATUSES
BY DEF PRE_REPLY, STATUSES, NoRow

\* The status machine stays inside its statuses.
LEMMA AllowedType == \A s \in STATUSES : ALLOWED[s] \subseteq STATUSES
BY DEF ALLOWED, STATUSES

LEMMA NothingAfterDnc == ALLOWED["do_not_contact"] = {}
BY DEF ALLOWED, STATUSES

\* A classified reply asks for the current status or an allowed one, never
\* for a status outside the machine, and never leaves do_not_contact.
LEMMA TargetForAllowed ==
  ASSUME NEW l \in Labels, NEW s \in STATUSES
  PROVE  /\ TargetFor(l, s) \in STATUSES
         /\ Check(s, TargetFor(l, s), FALSE)
         /\ s = "do_not_contact" => TargetFor(l, s) = s
<1>1. TargetFor(l, s) = s \/ TargetFor(l, s) \in ALLOWED[s]
  BY DEF TargetFor
<1>2. s = "do_not_contact" => TargetFor(l, s) = s
  BY DEF TargetFor
<1> QED  BY <1>1, <1>2, AllowedType DEF Check

LEMMA EnsureStateType ==
  ASSUME NEW c \in Company
  PROVE  EnsureState(c) \in Company /\ EnsureState(c).status \in STATUSES
<1>1. OUTREACH_TO_STATUS[c.outreach] \in STATUSES
  BY DEF Company, OUTREACH_TO_STATUS, OutreachStatuses, STATUSES
<1>2. CASE c.status = NoRow
  BY <1>1, <1>2 DEF EnsureState, Company
<1>3. CASE c.status # NoRow
  BY <1>3 DEF EnsureState, Company
<1> QED  BY <1>2, <1>3

LEMMA Ranks ==
  /\ DOMAIN RANK = STATUSES \ {"lost", "not_now", "do_not_contact", "needs_review"}
  /\ RANK["discovered"] = 0 /\ RANK["ready"] = 1 /\ RANK["emailed"] = 2 /\ RANK["replied"] = 3
  /\ RANK["interested"] = 4 /\ RANK["qualified"] = 5 /\ RANK["meeting_requested"] = 6
  /\ RANK["proposal_needed"] = 7 /\ RANK["proposal_sent"] = 8 /\ RANK["negotiating"] = 9
  /\ RANK["won"] = 10
BY DEF RANK, STATUSES

\* Nothing is behind itself, and "emailed" and "replied" are ahead of what
\* they are set from.
LEMMA Forwards ==
  /\ \A s \in STATUSES : ~Backwards(s, s)
  /\ ~Backwards("discovered", "emailed") /\ ~Backwards("ready", "emailed")
  /\ \A s \in PRE_REPLY : ~Backwards(s, "replied")
BY Ranks DEF Backwards, STATUSES, PRE_REPLY

\* A reply moves an existing row forward or leaves it, and a row that is
\* do_not_contact stays.
LEMMA ReplyForward ==
  ASSUME NEW c \in Company, c.status # NoRow, NEW l \in Labels
  PROVE  /\ ~Backwards(c.status, ReplyStatus(c, l))
         /\ c.status = "do_not_contact" => ReplyStatus(c, l) = "do_not_contact"
<1>1. EnsureState(c) = c /\ c.status \in STATUSES
  BY DEF EnsureState, Company
<1>2. ~Backwards(c.status, TargetFor(l, c.status))
  BY <1>1, Forwards DEF TargetFor
<1>3. "do_not_contact" \notin PRE_REPLY
  BY DEF PRE_REPLY
<1> QED  BY <1>1, <1>2, <1>3, TargetForAllowed, Forwards DEF ReplyStatus

\* Creating the row changes what the row holds and nothing else.
LEMMA EnsureStateKeeps ==
  ASSUME NEW c \in Company
  PROVE  /\ EnsureState(c).inbound = c.inbound
         /\ EnsureState(c).suppressed = c.suppressed
         /\ EnsureState(c).outreach = c.outreach
<1>1. CASE c.status = NoRow
  BY <1>1 DEF EnsureState, Company
<1>2. CASE c.status # NoRow
  BY <1>2 DEF EnsureState
<1> QED  BY <1>1, <1>2

LEMMA FreshType ==
  ASSUME NEW o \in OutreachStatuses
  PROVE  FreshCompany(o) \in Company /\ RowAccepted(FreshCompany(o)) /\ EngineAgrees(FreshCompany(o))
<1>1. FreshCompany(o) \in Company
  BY DEF FreshCompany, Company, ProposalStates
<1>2. /\ FreshCompany(o).status = NoRow /\ FreshCompany(o).cold = FALSE
      /\ FreshCompany(o).dnc = FALSE /\ FreshCompany(o).bounced = FALSE
  BY DEF FreshCompany
<1> QED  BY <1>1, <1>2 DEF RowAccepted, EngineAgrees, Offered, NoRow

LEMMA MirroredType ==
  ASSUME NEW o \in OutreachStatuses, NEW to
  PROVE  Mirrored(o, to) \in OutreachStatuses
BY DEF Mirrored, OutreachStatuses

LEMMA SetStatusType ==
  ASSUME NEW c \in Company, NEW to \in STATUSES, NEW override \in BOOLEAN,
         NEW cold \in BOOLEAN, NEW bounced \in BOOLEAN
  PROVE  SetStatus(c, to, override, cold, bounced) \in Company
<1>1. Mirrored(c.outreach, to) \in OutreachStatuses
  BY MirroredType DEF Company
<1> QED  BY <1>1 DEF SetStatus, Company

\* An accepted transition leaves a row the database accepts.
LEMMA SetStatusAccepted ==
  ASSUME NEW c \in Company, RowAccepted(c), NEW to \in STATUSES, NEW override \in BOOLEAN,
         Check(c.status, to, override), NEW cold \in BOOLEAN, NEW bounced \in BOOLEAN
  PROVE  RowAccepted(SetStatus(c, to, override, cold, bounced))
<1> DEFINE s == SetStatus(c, to, override, cold, bounced)
<1>1. /\ s.status = to
      /\ s.cold = (cold /\ to \in PRE_REPLY /\ ~bounced /\ ~c.bounced)
      /\ s.dnc = (to = "do_not_contact" \/ (c.dnc /\ ~override))
      /\ s.bounced = (bounced \/ c.bounced)
  BY DEF SetStatus, Company
<1>2. c.dnc /\ ~override => to = "do_not_contact"
  BY NothingAfterDnc DEF RowAccepted, Check
<1>3. "do_not_contact" \notin PRE_REPLY
  BY DEF PRE_REPLY
<1> QED  BY <1>1, <1>2, <1>3 DEF RowAccepted

LEMMA EnsureStateAccepted ==
  ASSUME NEW c \in Company, RowAccepted(c)
  PROVE  RowAccepted(EnsureState(c))
<1>1. CASE c.status = NoRow
  <2> DEFINE st == OUTREACH_TO_STATUS[c.outreach]
             e  == EnsureState(c)
  <2>1. /\ e.status = st
        /\ e.dnc = (st = "do_not_contact")
        /\ e.bounced = (c.outreach = "bounced")
        /\ e.cold = (st = "emailed" /\ c.outreach # "bounced")
    BY <1>1 DEF EnsureState, Company
  <2>2. "emailed" \in PRE_REPLY
    BY DEF PRE_REPLY
  <2> QED  BY <2>1, <2>2 DEF RowAccepted
<1>2. CASE c.status # NoRow
  BY <1>2 DEF EnsureState
<1> QED  BY <1>1, <1>2

\* A written status and the lead engine's column agree, whatever they were.
LEMMA SetStatusAgrees ==
  ASSUME NEW c \in Company, NEW to \in STATUSES, NEW override \in BOOLEAN,
         NEW cold \in BOOLEAN, NEW bounced \in BOOLEAN
  PROVE  EngineAgrees(SetStatus(c, to, override, cold, bounced))
<1> DEFINE s == SetStatus(c, to, override, cold, bounced)
<1>1. s.status = to /\ s.outreach = Mirrored(c.outreach, to)
  BY DEF SetStatus, Company
<1>2. to \notin {"discovered", "ready"} =>
        Mirrored(c.outreach, to) \in {"contacted", "do_not_contact", "unsubscribed", "replied"}
  BY DEF Mirrored, PRE_REPLY
<1>3. EngineAgrees(s)
  <2> HIDE DEF s
  <2> QED  BY <1>1, <1>2 DEF EngineAgrees, Offered
<1> QED  BY <1>3

LEMMA EnsureStateAgrees ==
  ASSUME NEW c \in Company, EngineAgrees(c)
  PROVE  EngineAgrees(EnsureState(c))
<1>1. CASE c.status = NoRow
  <2> DEFINE e == EnsureState(c)
  <2>1. e.status = OUTREACH_TO_STATUS[c.outreach] /\ e.outreach = c.outreach
    BY <1>1 DEF EnsureState, Company
  <2>2. \A o \in {"new", "not_ready", "rejected", "outreach_ready", "handed_off"} :
          OUTREACH_TO_STATUS[o] \in {"discovered", "ready"}
    BY DEF OUTREACH_TO_STATUS, OutreachStatuses
  <2>3. EngineAgrees(e)
    <3> HIDE DEF e
    <3> QED  BY <2>1, <2>2 DEF EngineAgrees, Offered
  <2> QED  BY <2>3
<1>2. CASE c.status # NoRow
  BY <1>2 DEF EnsureState
<1> QED  BY <1>1, <1>2

\* The status a reply asks for is one of the machine.
LEMMA ReplyStatusType ==
  ASSUME NEW c \in Company, NEW l \in Labels
  PROVE  ReplyStatus(c, l) \in STATUSES
<1>1. TargetFor(l, EnsureState(c).status) \in STATUSES
  BY EnsureStateType, TargetForAllowed
<1>2. "replied" \in STATUSES
  BY DEF STATUSES
<1> QED  BY <1>1, <1>2 DEF ReplyStatus

\* process_inbound() writes a record, and one the database accepts.
LEMMA RepliedAccepted ==
  ASSUME NEW c \in Company, NEW l \in Labels, NEW f \in Flags, NEW parsed \in BOOLEAN
  PROVE  /\ Replied(c, l, f, parsed) \in Company
         /\ RowAccepted(c) /\ ~ReplyRaises(c, l) => RowAccepted(Replied(c, l, f, parsed))
         /\ EngineAgrees(Replied(c, l, f, parsed))
<1> DEFINE st  == EnsureState(c)
           set == SetStatus(st, ReplyStatus(c, l), FALSE, st.cold, l = "DELIVERY_FAILURE")
           r   == Replied(c, l, f, parsed)
<1>1. st \in Company /\ st.status \in STATUSES
  BY EnsureStateType
<1>2. st.cold \in BOOLEAN
  BY <1>1 DEF Company
<1>3. set \in Company
  BY <1>1, <1>2, ReplyStatusType, SetStatusType
<1>4. ProposalAfter(st, l) \in ProposalStates
  BY <1>1 DEF ProposalAfter, ProposalStates, Company
<1>5. r \in Company
  <2> DEFINE out  == IF l = "DELIVERY_FAILURE" /\ set.outreach \in {"contacted", "handed_off", "outreach_ready"}
                     THEN "bounced" ELSE set.outreach
             hold == set.hold \/ f = "legal"
                       \/ (f = "conflict" /\ l = "NEEDS_REVIEW" /\ st.status # "do_not_contact")
             supp == set.suppressed \/ l = "UNSUBSCRIBE" \/ (l = "DELIVERY_FAILURE" /\ parsed)
             inb  == set.inbound \/ l \notin Machine
  <2>1. r = [set EXCEPT !.proposal = ProposalAfter(st, l), !.outreach = out, !.inbound = inb,
                        !.suppressed = supp, !.hold = hold]
    BY <1>3 DEF Replied, Company
  <2>2. out \in OutreachStatuses
    BY <1>3 DEF Company, OutreachStatuses
  <2>3. hold \in BOOLEAN /\ supp \in BOOLEAN /\ inb \in BOOLEAN
    OBVIOUS
  <2> HIDE DEF out, hold, supp, inb, set
  <2> QED  BY <1>3, <1>4, <2>1, <2>2, <2>3 DEF Company
<1>6. RowAccepted(c) /\ ~ReplyRaises(c, l) => RowAccepted(set)
  BY <1>1, <1>2, ReplyStatusType, EnsureStateAccepted, SetStatusAccepted DEF ReplyRaises
<1>7. r.status = set.status /\ r.cold = set.cold /\ r.dnc = set.dnc /\ r.bounced = set.bounced
  BY <1>3 DEF Replied, Company
<1>8. EngineAgrees(set)
  BY <1>1, <1>2, ReplyStatusType, SetStatusAgrees
<1>9. r.outreach = set.outreach \/ r.outreach = "bounced"
  BY <1>3 DEF Replied, Company
<1>10. RowAccepted(c) /\ ~ReplyRaises(c, l) => RowAccepted(r)
  <2> HIDE DEF r, set
  <2> QED  BY <1>6, <1>7 DEF RowAccepted
<1>11. EngineAgrees(r)
  <2> HIDE DEF r, set
  <2> QED  BY <1>7, <1>8, <1>9 DEF EngineAgrees, Offered
<1> QED  BY <1>5, <1>10, <1>11

\* So does record_confirmed_send().
LEMMA ConfirmedSendAccepted ==
  ASSUME NEW c \in Company, NEW k \in Kinds
  PROVE  /\ ConfirmedSend(c, k) \in Company
         /\ RowAccepted(c) /\ ~ConfirmRaises(c, k) => RowAccepted(ConfirmedSend(c, k))
         /\ EngineAgrees(c) => EngineAgrees(ConfirmedSend(c, k))
<1> DEFINE st == EnsureState(c)
           emailed == IF st.status \in {"discovered", "ready"}
                      THEN SetStatus(st, "emailed", FALSE, k \in Generic, FALSE) ELSE st
           sent == IF k = "proposal" /\ emailed.status \in ProposalMoves
                   THEN SetStatus(emailed, "proposal_sent", FALSE, emailed.cold, FALSE) ELSE emailed
           r == ConfirmedSend(c, k)
<1>1. st \in Company /\ st.status \in STATUSES
  BY EnsureStateType
<1>2. "emailed" \in STATUSES /\ "proposal_sent" \in STATUSES
  BY DEF STATUSES
<1>b. (k \in Generic) \in BOOLEAN
  OBVIOUS
<1>3. emailed \in Company
  <2>1. SetStatus(st, "emailed", FALSE, k \in Generic, FALSE) \in Company
    BY <1>1, <1>2, <1>b, SetStatusType
  <2> QED  BY <1>1, <2>1
<1>4. emailed.cold \in BOOLEAN
  BY <1>3 DEF Company
<1>5. sent \in Company
  BY <1>2, <1>3, <1>4, SetStatusType
<1>6. r \in Company
  BY <1>5 DEF ConfirmedSend, Company, ProposalStates
<1>7. ASSUME RowAccepted(c), ~ConfirmRaises(c, k)  PROVE RowAccepted(r)
  <2>1. RowAccepted(st)
    BY <1>7, EnsureStateAccepted
  <2>2. st.status \in {"discovered", "ready"} => Check(st.status, "emailed", FALSE)
    BY DEF Check, ALLOWED, STATUSES
  <2>3. RowAccepted(emailed)
    <3>1. CASE st.status \in {"discovered", "ready"}
      <4>1. RowAccepted(SetStatus(st, "emailed", FALSE, k \in Generic, FALSE))
        BY <1>1, <1>2, <1>b, <2>1, <2>2, <3>1, SetStatusAccepted
      <4> QED  BY <3>1, <4>1
    <3> QED  BY <2>1, <3>1
  <2>4. emailed.status \in ProposalMoves => emailed.status = st.status
    BY <1>1 DEF SetStatus, Company, ProposalMoves
  <2>5. k = "proposal" /\ emailed.status \in ProposalMoves
          => Check(emailed.status, "proposal_sent", FALSE)
    BY <1>7, <2>4 DEF ConfirmRaises
  <2>6. RowAccepted(sent)
    BY <1>2, <1>3, <1>4, <2>3, <2>5, SetStatusAccepted
  <2>7. r.status = sent.status /\ r.cold = sent.cold /\ r.dnc = sent.dnc /\ r.bounced = sent.bounced
    BY <1>5 DEF ConfirmedSend, Company
  <2> HIDE DEF sent, r
  <2> QED  BY <2>6, <2>7 DEF RowAccepted
<1>8. ASSUME EngineAgrees(c)  PROVE EngineAgrees(r)
  <2>1. EngineAgrees(st)
    BY <1>8, EnsureStateAgrees
  <2>2. EngineAgrees(SetStatus(st, "emailed", FALSE, k \in Generic, FALSE))
    BY <1>1, <1>2, <1>b, SetStatusAgrees
  <2>3. EngineAgrees(emailed)
    BY <2>1, <2>2
  <2>4. EngineAgrees(SetStatus(emailed, "proposal_sent", FALSE, emailed.cold, FALSE))
    BY <1>2, <1>3, <1>4, SetStatusAgrees
  <2>5. EngineAgrees(sent)
    BY <2>3, <2>4
  <2>6. r.status = sent.status /\ r.outreach = sent.outreach
    BY <1>5 DEF ConfirmedSend, Company
  <2> HIDE DEF sent, r
  <2> QED  BY <2>5, <2>6 DEF EngineAgrees, Offered
<1> QED  BY <1>6, <1>7, <1>8

\* And the sender's own writers.
LEMMA SenderWritesAccepted ==
  ASSUME NEW c \in Company, NEW k \in Generic, NEW known \in BOOLEAN
  PROVE  /\ AddressRejected(c) \in Company
         /\ MaybeContacted(c) \in Company
         /\ RecordedSend(c, k, known) \in Company
         /\ RowAccepted(c) => /\ RowAccepted(AddressRejected(c))
                              /\ RowAccepted(MaybeContacted(c))
                              /\ RowAccepted(RecordedSend(c, k, known))
         /\ EngineAgrees(c) => /\ EngineAgrees(AddressRejected(c))
                               /\ EngineAgrees(MaybeContacted(c))
                               /\ EngineAgrees(RecordedSend(c, k, known))
<1>1. EnsureState(c) \in Company
  BY EnsureStateType
<1>2. AddressRejected(c) \in Company
  BY <1>1 DEF AddressRejected, Company, OutreachStatuses
<1>3. MaybeContacted(c) \in Company
  BY DEF MaybeContacted, Company, OutreachStatuses
<1>4. k \in Kinds /\ k # "proposal"
  BY DEF Generic, Kinds
<1> DEFINE s == IF known THEN c ELSE ConfirmedSend(c, k)
<1>5. s \in Company
  BY <1>4, ConfirmedSendAccepted
<1>6. RecordedSend(c, k, known) \in Company
  BY <1>5 DEF RecordedSend, Company, OutreachStatuses
<1>7. ASSUME RowAccepted(c)  PROVE RowAccepted(AddressRejected(c))
  <2> DEFINE e == EnsureState(c)
             a == AddressRejected(c)
  <2>1. a.status = e.status /\ a.dnc = e.dnc /\ a.cold = FALSE /\ a.bounced = TRUE
    BY <1>1 DEF AddressRejected, Company
  <2> QED  BY <1>7, <2>1, EnsureStateAccepted DEF RowAccepted
<1>8. RowAccepted(c) => RowAccepted(MaybeContacted(c))
  BY DEF MaybeContacted, Company, RowAccepted
<1>9. ASSUME RowAccepted(c)  PROVE RowAccepted(RecordedSend(c, k, known))
  <2> DEFINE r == RecordedSend(c, k, known)
  <2>1. RowAccepted(s)
    BY <1>4, <1>9, ConfirmedSendAccepted DEF ConfirmRaises
  <2>2. r.status = s.status /\ r.dnc = s.dnc /\ r.cold = s.cold /\ r.bounced = s.bounced
    BY <1>5 DEF RecordedSend, Company
  <2> QED  BY <2>1, <2>2 DEF RowAccepted
<1>10. EngineAgrees(AddressRejected(c))
  BY <1>1 DEF AddressRejected, Company, EngineAgrees, Offered
<1>11. EngineAgrees(c) => EngineAgrees(MaybeContacted(c))
  BY DEF MaybeContacted, Company, EngineAgrees, Offered
<1>12. EngineAgrees(c) => EngineAgrees(RecordedSend(c, k, known))
  <2>1. EngineAgrees(c) => EngineAgrees(s)
    BY <1>4, ConfirmedSendAccepted
  <2> HIDE DEF s
  <2>2. ASSUME EngineAgrees(s)
        PROVE EngineAgrees([s EXCEPT !.outreach = IF @ \in {"outreach_ready", "handed_off"}
                                                  THEN "contacted" ELSE @])
    BY <1>5, <2>2 DEF Company, EngineAgrees, Offered
  <2> QED  BY <2>1, <2>2 DEF RecordedSend, s
<1> QED  BY <1>2, <1>3, <1>6, <1>7, <1>8, <1>9, <1>10, <1>11, <1>12
-----------------------------------------------------------------------------
(* What a company record never forgets.                                      *)
Remembers(c, d) == /\ c.contacted => d.contacted
                   /\ c.inbound => d.inbound
                   /\ c.suppressed => d.suppressed

LEMMA EnsureStateRemembers ==
  ASSUME NEW c \in Company
  PROVE  Remembers(c, EnsureState(c))
<1>1. CASE c.status = NoRow
  BY <1>1 DEF EnsureState, Company, Remembers
<1>2. CASE c.status # NoRow
  BY <1>2 DEF EnsureState, Remembers
<1> QED  BY <1>1, <1>2

LEMMA SetStatusRemembers ==
  ASSUME NEW c \in Company, NEW to \in STATUSES, NEW override \in BOOLEAN,
         NEW cold \in BOOLEAN, NEW bounced \in BOOLEAN
  PROVE  Remembers(c, SetStatus(c, to, override, cold, bounced))
BY DEF SetStatus, Company, Remembers

\* Neither a reply, a confirmed send nor a rejected address makes the record
\* forget a send, a human answer or a suppression.
LEMMA RepliedRemembers ==
  ASSUME NEW c \in Company, NEW l \in Labels, NEW f \in Flags, NEW parsed \in BOOLEAN
  PROVE  Remembers(c, Replied(c, l, f, parsed))
<1> DEFINE st  == EnsureState(c)
           set == SetStatus(st, ReplyStatus(c, l), FALSE, st.cold, l = "DELIVERY_FAILURE")
           r   == Replied(c, l, f, parsed)
<1>1. st \in Company /\ st.cold \in BOOLEAN /\ (l = "DELIVERY_FAILURE") \in BOOLEAN
  BY EnsureStateType DEF Company
<1>2. set \in Company /\ Remembers(st, set)
  BY <1>1, ReplyStatusType, SetStatusType, SetStatusRemembers
<1>3. Remembers(set, r)
  BY <1>2 DEF Replied, Company, Remembers
<1>4. Remembers(c, st)
  BY EnsureStateRemembers
<1> QED  BY <1>2, <1>3, <1>4 DEF Remembers

LEMMA ConfirmedSendRemembers ==
  ASSUME NEW c \in Company, NEW k \in Kinds
  PROVE  Remembers(c, ConfirmedSend(c, k)) /\ ConfirmedSend(c, k).contacted = TRUE
<1> DEFINE st == EnsureState(c)
           emailed == IF st.status \in {"discovered", "ready"}
                      THEN SetStatus(st, "emailed", FALSE, k \in Generic, FALSE) ELSE st
           sent == IF k = "proposal" /\ emailed.status \in ProposalMoves
                   THEN SetStatus(emailed, "proposal_sent", FALSE, emailed.cold, FALSE) ELSE emailed
           r == ConfirmedSend(c, k)
<1>1. st \in Company /\ (k \in Generic) \in BOOLEAN
  BY EnsureStateType
<1>2. "emailed" \in STATUSES /\ "proposal_sent" \in STATUSES
  BY DEF STATUSES
<1>3. SetStatus(st, "emailed", FALSE, k \in Generic, FALSE) \in Company
      /\ Remembers(st, SetStatus(st, "emailed", FALSE, k \in Generic, FALSE))
  BY <1>1, <1>2, SetStatusType, SetStatusRemembers
<1>4. emailed \in Company /\ Remembers(st, emailed)
  BY <1>1, <1>3 DEF Remembers
<1>5. emailed.cold \in BOOLEAN
  BY <1>4 DEF Company
<1>6. SetStatus(emailed, "proposal_sent", FALSE, emailed.cold, FALSE) \in Company
      /\ Remembers(emailed, SetStatus(emailed, "proposal_sent", FALSE, emailed.cold, FALSE))
  BY <1>2, <1>4, <1>5, SetStatusType, SetStatusRemembers
<1>7. sent \in Company /\ Remembers(emailed, sent)
  BY <1>4, <1>6 DEF Remembers
<1>8. Remembers(sent, r) /\ r.contacted = TRUE
  BY <1>7 DEF ConfirmedSend, Company, Remembers
<1>9. Remembers(c, st)
  BY EnsureStateRemembers
<1> QED  BY <1>4, <1>7, <1>8, <1>9 DEF Remembers

LEMMA SenderWritesRemember ==
  ASSUME NEW c \in Company, NEW k \in Generic, NEW known \in BOOLEAN
  PROVE  /\ Remembers(c, AddressRejected(c))
         /\ Remembers(c, MaybeContacted(c)) /\ MaybeContacted(c).contacted = TRUE
         /\ Remembers(c, RecordedSend(c, k, known))
         /\ ~known => RecordedSend(c, k, known).contacted = TRUE
<1>1. Remembers(c, EnsureState(c)) /\ EnsureState(c) \in Company
  BY EnsureStateRemembers, EnsureStateType
<1>2. Remembers(c, AddressRejected(c))
  BY <1>1 DEF AddressRejected, Company, Remembers
<1>3. Remembers(c, MaybeContacted(c)) /\ MaybeContacted(c).contacted = TRUE
  BY DEF MaybeContacted, Company, Remembers
<1>4. k \in Kinds
  BY DEF Generic, Kinds
<1> DEFINE s == IF known THEN c ELSE ConfirmedSend(c, k)
<1>5. s \in Company /\ Remembers(c, s) /\ (~known => s.contacted = TRUE)
  BY <1>4, ConfirmedSendAccepted, ConfirmedSendRemembers DEF Remembers
<1>6. RecordedSend(c, k, known) = [s EXCEPT !.outreach = IF s.outreach \in {"outreach_ready", "handed_off"}
                                                         THEN "contacted" ELSE s.outreach]
  BY <1>5 DEF RecordedSend, Company
<1> HIDE DEF s
<1>7. /\ Remembers(c, RecordedSend(c, k, known))
      /\ ~known => RecordedSend(c, k, known).contacted = TRUE
  BY <1>5, <1>6 DEF Company, Remembers
<1> QED  BY <1>2, <1>3, <1>7

\* Screening a lead only takes it off the lead engine's list.
LEMMA ScreenedKeeps ==
  ASSUME NEW c \in Company
  PROVE  /\ Screened(c) \in Company
         /\ Screened(c).status = c.status /\ Screened(c).inbound = c.inbound
         /\ Screened(c).suppressed = c.suppressed
         /\ RowAccepted(c) => RowAccepted(Screened(c))
         /\ EngineAgrees(c) => EngineAgrees(Screened(c))
         /\ Remembers(c, Screened(c))
<1>1. PICK o \in OutreachStatuses :
        /\ Screened(c) = [c EXCEPT !.outreach = o]
        /\ o = c.outreach \/ o \in {"do_not_contact", "contacted"}
  <2>1. c = [c EXCEPT !.outreach = c.outreach] /\ c.outreach \in OutreachStatuses
    BY DEF Company
  <2>2. "do_not_contact" \in OutreachStatuses /\ "contacted" \in OutreachStatuses
    BY DEF OutreachStatuses
  <2> QED  BY <2>1, <2>2 DEF Screened
<1>2. Screened(c) \in Company
  BY <1>1 DEF Company
<1>3. /\ Screened(c).status = c.status /\ Screened(c).cold = c.cold /\ Screened(c).dnc = c.dnc
      /\ Screened(c).bounced = c.bounced /\ Screened(c).inbound = c.inbound
      /\ Screened(c).suppressed = c.suppressed /\ Screened(c).contacted = c.contacted
      /\ Screened(c).outreach = o
  BY <1>1 DEF Company
<1>4. RowAccepted(c) => RowAccepted(Screened(c))
  BY <1>3 DEF RowAccepted
<1>5. EngineAgrees(c) => EngineAgrees(Screened(c))
  BY <1>1, <1>3 DEF EngineAgrees, Offered
<1> QED  BY <1>2, <1>3, <1>4, <1>5 DEF Remembers

\* Putting a company nobody contacted on the list does no harm.
LEMMA QualifiedKeeps ==
  ASSUME NEW c \in Company
  PROVE  /\ Qualified(c) \in Company
         /\ Qualified(c).status = c.status /\ Qualified(c).inbound = c.inbound
         /\ Qualified(c).suppressed = c.suppressed /\ Qualified(c).dnc = c.dnc
         /\ RowAccepted(c) => RowAccepted(Qualified(c))
         /\ EngineAgrees(c) /\ Eligible(c) => EngineAgrees(Qualified(c))
         /\ Remembers(c, Qualified(c))
<1>1. /\ Qualified(c) = [c EXCEPT !.outreach = "outreach_ready"]
      /\ "outreach_ready" \in OutreachStatuses /\ "outreach_ready" \in Offered
  BY DEF Qualified, OutreachStatuses, Offered
<1>2. /\ Qualified(c) \in Company
      /\ Qualified(c).status = c.status /\ Qualified(c).cold = c.cold /\ Qualified(c).dnc = c.dnc
      /\ Qualified(c).bounced = c.bounced /\ Qualified(c).inbound = c.inbound
      /\ Qualified(c).suppressed = c.suppressed /\ Qualified(c).contacted = c.contacted
      /\ Qualified(c).outreach = "outreach_ready"
  BY <1>1 DEF Company
<1> QED  BY <1>1, <1>2 DEF RowAccepted, EngineAgrees, Eligible, Remembers

\* Every writer but qualify() either leaves the lead engine's column as it is or
\* takes the company off the planner's lists.
KeptOrTaken(c, d) == d.outreach = c.outreach \/ d.outreach \notin Offered

LEMMA WritersKeepOrTake ==
  ASSUME NEW c \in Company
  PROVE  /\ \A to \in STATUSES, v, w, b \in BOOLEAN :
              KeptOrTaken(c, SetStatus(EnsureState(c), to, v, w, b))
         /\ \A l \in Labels, f \in Flags, p \in BOOLEAN : KeptOrTaken(c, Replied(c, l, f, p))
         /\ \A k : KeptOrTaken(c, ConfirmedSend(c, k))
         /\ KeptOrTaken(c, AddressRejected(c)) /\ KeptOrTaken(c, MaybeContacted(c))
         /\ KeptOrTaken(c, Screened(c))
<1>1. \A o \in OutreachStatuses, to \in STATUSES :
        Mirrored(o, to) = o \/ Mirrored(o, to) \in {"contacted", "do_not_contact", "replied"}
  BY DEF Mirrored
<1>2. "contacted" \notin Offered /\ "do_not_contact" \notin Offered /\ "replied" \notin Offered
      /\ "bounced" \notin Offered
  BY DEF Offered
<1>3. \A d \in Company, to \in STATUSES, v, w, b \in BOOLEAN :
        /\ SetStatus(d, to, v, w, b) \in Company
        /\ SetStatus(d, to, v, w, b).outreach = Mirrored(d.outreach, to)
  <2> SUFFICES ASSUME NEW d \in Company, NEW to \in STATUSES, NEW v \in BOOLEAN, NEW w \in BOOLEAN,
                      NEW b \in BOOLEAN
               PROVE  /\ SetStatus(d, to, v, w, b) \in Company
                      /\ SetStatus(d, to, v, w, b).outreach = Mirrored(d.outreach, to)
    OBVIOUS
  <2>1. SetStatus(d, to, v, w, b).outreach = Mirrored(d.outreach, to)
    BY DEF SetStatus, Company
  <2> QED  BY <2>1, SetStatusType
<1> DEFINE st == EnsureState(c)
<1>4. st \in Company /\ st.outreach = c.outreach /\ c.outreach \in OutreachStatuses
  BY EnsureStateType, EnsureStateKeeps DEF Company
<1>5. st.status \in STATUSES /\ st.cold \in BOOLEAN
  BY <1>4, EnsureStateType DEF Company
<1>6. ASSUME NEW d \in Company, d.outreach = c.outreach \/ d.outreach \notin Offered,
             NEW to \in STATUSES, NEW v \in BOOLEAN, NEW w \in BOOLEAN, NEW b \in BOOLEAN
      PROVE  KeptOrTaken(c, SetStatus(d, to, v, w, b))
  BY <1>1, <1>2, <1>3, <1>6 DEF KeptOrTaken, Company
<1>7. \A to \in STATUSES, v, w, b \in BOOLEAN : KeptOrTaken(c, SetStatus(st, to, v, w, b))
  BY <1>4, <1>6
<1>8. ASSUME NEW l \in Labels, NEW f \in Flags, NEW p \in BOOLEAN
      PROVE  KeptOrTaken(c, Replied(c, l, f, p))
  <2> DEFINE set == SetStatus(st, ReplyStatus(c, l), FALSE, st.cold, l = "DELIVERY_FAILURE")
  <2>1. (l = "DELIVERY_FAILURE") \in BOOLEAN /\ ReplyStatus(c, l) \in STATUSES
    BY ReplyStatusType
  <2>2. set \in Company /\ KeptOrTaken(c, set)
    BY <1>3, <1>4, <1>5, <1>7, <2>1
  <2>3. Replied(c, l, f, p).outreach
          = IF l = "DELIVERY_FAILURE" /\ set.outreach \in {"contacted", "handed_off", "outreach_ready"}
            THEN "bounced" ELSE set.outreach
    <3> HIDE DEF set
    <3>1. Replied(c, l, f, p) = [set EXCEPT
            !.proposal   = ProposalAfter(st, l),
            !.outreach   = IF l = "DELIVERY_FAILURE" /\ set.outreach \in {"contacted", "handed_off", "outreach_ready"}
                           THEN "bounced" ELSE set.outreach,
            !.inbound    = set.inbound \/ l \notin Machine,
            !.suppressed = set.suppressed \/ l = "UNSUBSCRIBE" \/ (l = "DELIVERY_FAILURE" /\ p),
            !.hold       = set.hold \/ f = "legal"
                             \/ (f = "conflict" /\ l = "NEEDS_REVIEW"
                                   /\ st.status # "do_not_contact")]
      BY <2>2 DEF Replied, set
    <3> QED  BY <2>2, <3>1 DEF Company
  <2> QED  BY <1>2, <2>2, <2>3 DEF KeptOrTaken
<1>9. ASSUME NEW k  PROVE KeptOrTaken(c, ConfirmedSend(c, k))
  <2> DEFINE emailed == IF st.status \in {"discovered", "ready"}
                        THEN SetStatus(st, "emailed", FALSE, k \in Generic, FALSE) ELSE st
             sent == IF k = "proposal" /\ emailed.status \in ProposalMoves
                     THEN SetStatus(emailed, "proposal_sent", FALSE, emailed.cold, FALSE) ELSE emailed
  <2>1. "emailed" \in STATUSES /\ "proposal_sent" \in STATUSES /\ (k \in Generic) \in BOOLEAN
    BY DEF STATUSES
  <2>2. emailed \in Company /\ KeptOrTaken(c, emailed)
    BY <1>3, <1>4, <1>7, <2>1 DEF KeptOrTaken
  <2>3. emailed.cold \in BOOLEAN
    BY <2>2 DEF Company
  <2>4. sent \in Company /\ KeptOrTaken(c, sent)
    BY <1>3, <1>6, <2>1, <2>2, <2>3 DEF KeptOrTaken
  <2>5. ConfirmedSend(c, k).outreach = sent.outreach
    <3>1. ConfirmedSend(c, k) = [sent EXCEPT !.contacted = TRUE,
            !.proposal = IF k = "proposal" THEN "sent" ELSE sent.proposal]
      BY <2>4 DEF ConfirmedSend, Company
    <3> HIDE DEF sent
    <3> QED  BY <2>4, <3>1 DEF Company
  <2> HIDE DEF sent
  <2> QED  BY <2>4, <2>5 DEF KeptOrTaken
<1>10. KeptOrTaken(c, AddressRejected(c)) /\ KeptOrTaken(c, MaybeContacted(c))
  <2>1. AddressRejected(c).outreach = "bounced"
    BY <1>4 DEF AddressRejected, Company
  <2>2. MaybeContacted(c).outreach \in {c.outreach, "contacted"}
    BY DEF MaybeContacted, Company
  <2> QED  BY <1>2, <2>1, <2>2 DEF KeptOrTaken
<1>11. KeptOrTaken(c, Screened(c))
  <2>1. Screened(c).outreach \in {c.outreach, "contacted", "do_not_contact"}
    BY DEF Screened, Company
  <2> QED  BY <1>2, <2>1 DEF KeptOrTaken
<1> QED  BY <1>7, <1>8, <1>9, <1>10, <1>11
=============================================================================
