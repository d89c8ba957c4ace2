----------------------------- MODULE SendGuard -----------------------------
(* What the database knows of one prospect company, the status machine of    *)
(* conversations/status.py, the writers of conversations/store.py and        *)
(* pipeline.py, and outreach_send_check, the guard every sender asks before  *)
(* an email leaves. No variables: the modules that keep such a record per    *)
(* company (Conversation, OutreachSender) apply these operators to it.       *)
(*                                                                           *)
(* A company record has the fields                                           *)
(*   status     current_status of its conversation row, NoRow before there   *)
(*              is a row                                                     *)
(*   cold, dnc, bounced, proposal   the columns of that row the code tests   *)
(*   outreach   companies.outreach_status, the lead engine's own column      *)
(*   inbound    a human reply is stored in outreach_messages                 *)
(*   suppressed an email_suppressions row names its address or the company   *)
(*   contacted  a send is on record (message, history or first_contacted_at) *)
(*   hold       an attention item only the owner may settle is open          *)
EXTENDS Naturals

STATUSES == {"discovered", "ready", "emailed", "replied", "interested", "qualified",
             "meeting_requested", "proposal_needed", "proposal_sent", "negotiating",
             "won", "lost", "not_now", "do_not_contact", "needs_review"}

PRE_REPLY == {"discovered", "ready", "emailed"}

RANK == [s \in STATUSES \ {"lost", "not_now", "do_not_contact", "needs_review"} |->
           CASE s = "discovered"        -> 0
             [] s = "ready"             -> 1
             [] s = "emailed"           -> 2
             [] s = "replied"           -> 3
             [] s = "interested"        -> 4
             [] s = "qualified"         -> 5
             [] s = "meeting_requested" -> 6
             [] s = "proposal_needed"   -> 7
             [] s = "proposal_sent"     -> 8
             [] s = "negotiating"       -> 9
             [] s = "won"               -> 10]

\* Where an ordinary event may take a company from each status. Every status
\* but do_not_contact may go to do_not_contact and to needs_review.
ALLOWED == [s \in STATUSES |->
  CASE s = "discovered"  -> {"ready", "emailed", "lost", "do_not_contact", "needs_review"}
    [] s = "ready"       -> {"emailed", "lost", "do_not_contact", "needs_review"}
    [] s = "emailed"     -> {"replied", "interested", "qualified", "meeting_requested",
                             "proposal_needed", "not_now", "lost", "do_not_contact", "needs_review"}
    [] s = "replied"     -> {"interested", "qualified", "meeting_requested", "proposal_needed",
                             "negotiating", "not_now", "lost", "do_not_contact", "needs_review"}
    [] s = "interested"  -> {"qualified", "meeting_requested", "proposal_needed", "negotiating",
                             "not_now", "lost", "do_not_contact", "needs_review"}
    [] s = "qualified"   -> {"meeting_requested", "proposal_needed", "negotiating", "not_now",
                             "lost", "do_not_contact", "needs_review"}
    [] s = "meeting_requested" -> {"qualified", "proposal_needed", "negotiating", "not_now",
                                   "lost", "do_not_contact", "needs_review"}
    [] s = "proposal_needed"   -> {"proposal_sent", "negotiating", "not_now", "lost",
                                   "do_not_contact", "needs_review"}
    [] s = "proposal_sent"     -> {"negotiating", "won", "lost", "not_now", "do_not_contact",
                                   "needs_review"}
    [] s = "negotiating"       -> {"proposal_needed", "proposal_sent", "won", "lost", "not_now",
                                   "do_not_contact", "needs_review"}
    [] s = "not_now"     -> {"replied", "interested", "qualified", "meeting_requested",
                             "proposal_needed", "negotiating", "lost", "do_not_contact",
                             "needs_review"}
    [] s = "lost"        -> {"replied", "interested", "meeting_requested", "proposal_needed",
                             "do_not_contact", "needs_review"}
    [] s = "won"         -> {"do_not_contact", "needs_review"}
    [] s = "do_not_contact" -> {}
    [] s = "needs_review"   -> STATUSES \ {"needs_review"}]

Machine == {"AUTO_REPLY", "DELIVERY_FAILURE"}      \* replies nobody wrote
Labels == {"INTERESTED", "PRICE_QUESTION", "MORE_INFORMATION", "MEETING_REQUEST", "READY_TO_BUY",
           "OBJECTION", "NOT_NOW", "REFERRAL", "WRONG_PERSON", "NOT_INTERESTED", "UNSUBSCRIBE",
           "OTHER", "NEEDS_REVIEW"} \cup Machine

\* The status a classified reply points at; machine mail points nowhere.
TARGET == [l \in Labels \ Machine |->
  CASE l \in {"INTERESTED", "PRICE_QUESTION", "MORE_INFORMATION"} -> "interested"
    [] l = "MEETING_REQUEST" -> "meeting_requested"
    [] l = "READY_TO_BUY"    -> "proposal_needed"
    [] l = "OBJECTION"       -> "negotiating"
    [] l = "NOT_NOW"         -> "not_now"
    [] l \in {"REFERRAL", "WRONG_PERSON", "OTHER"} -> "replied"
    [] l = "NOT_INTERESTED"  -> "lost"
    [] l = "UNSUBSCRIBE"     -> "do_not_contact"
    [] l = "NEEDS_REVIEW"    -> "needs_review"]

NoRow == "none"
Kinds == {"cold", "followup", "reply", "pricing", "audit", "proposal", "manual", "other"}
Generic == {"cold", "followup"}
ProposalStates == {"none", "needed", "drafted", "sent", "accepted"}
OutreachStatuses == {"new", "not_ready", "rejected", "outreach_ready", "handed_off", "contacted",
                     "replied", "bounced", "unsubscribed", "do_not_contact"}

Company == [status: STATUSES \cup {NoRow}, cold: BOOLEAN, dnc: BOOLEAN, bounced: BOOLEAN,
            proposal: ProposalStates, outreach: OutreachStatuses, inbound: BOOLEAN,
            suppressed: BOOLEAN, contacted: BOOLEAN, hold: BOOLEAN]

\* The constraints the tables put on the row (007_conversation_memory.sql:
\* cold_sequence_only_before_reply, dnc_is_terminal, bounced_stops_sequence),
\* and the flag do_not_contact says what the status says.
RowAccepted(c) ==
  /\ c.cold => c.status \in PRE_REPLY
  /\ c.dnc <=> c.status = "do_not_contact"
  /\ c.dnc \/ c.bounced => ~c.cold

\* The lead engine may still offer the company to a planner.
Offered == {"new", "not_ready", "rejected", "outreach_ready", "handed_off"}

\* Past "ready", the lead engine's own column no longer offers the company.
EngineAgrees(c) == c.status \notin {NoRow, "discovered", "ready"} => c.outreach \notin Offered

\* A company as the lead engine hands it over: no conversation row yet.
FreshCompany(outreach) ==
  [status |-> NoRow, cold |-> FALSE, dnc |-> FALSE, bounced |-> FALSE, proposal |-> "none",
   outreach |-> outreach, inbound |-> FALSE, suppressed |-> FALSE, contacted |-> FALSE,
   hold |-> FALSE]
-----------------------------------------------------------------------------
(* status.py                                                                 *)

\* check(): the transitions set_status accepts. The owner may take any.
Check(frm, to, override) == frm = to \/ override \/ to \in ALLOWED[frm]

Backwards(frm, to) == frm \in DOMAIN RANK /\ to \in DOMAIN RANK /\ RANK[to] < RANK[frm]

\* Where the label alone would take the company: an objection to a cold email
\* is a reply, and accepting a sent proposal is still a negotiation.
PointedAt(label, current) ==
  IF label = "OBJECTION" /\ current \in PRE_REPLY THEN "replied"
  ELSE IF label = "OBJECTION" /\ current = "replied" THEN current
  ELSE IF label = "READY_TO_BUY" /\ current \in {"proposal_sent", "negotiating"} THEN "negotiating"
  ELSE TARGET[label]

TargetFor(label, current) ==
  IF current = "do_not_contact" \/ label \in Machine THEN current
  ELSE LET tgt == PointedAt(label, current) IN
    IF \/ Backwards(current, tgt)
       \/ current = "won" /\ tgt \notin {"do_not_contact", "needs_review"}
       \/ tgt \notin ALLOWED[current]
    THEN current ELSE tgt
-----------------------------------------------------------------------------
(* store.py                                                                  *)

OUTREACH_TO_STATUS == [o \in OutreachStatuses |->
  CASE o \in {"new", "not_ready", "rejected"}       -> "discovered"
    [] o \in {"outreach_ready", "handed_off"}       -> "ready"
    [] o \in {"contacted", "bounced"}               -> "emailed"
    [] o = "replied"                                -> "replied"
    [] o \in {"unsubscribed", "do_not_contact"}     -> "do_not_contact"]

\* ensure_state(): the row is created from the lead engine's status.
EnsureState(c) ==
  IF c.status # NoRow THEN c
  ELSE LET st == OUTREACH_TO_STATUS[c.outreach] IN
       [c EXCEPT !.status = st, !.dnc = st = "do_not_contact", !.bounced = c.outreach = "bounced",
                 !.cold = st = "emailed" /\ c.outreach # "bounced"]

\* Mutants: the conversation's own status is copied over; a first send is
\* not copied at all.
MirroredVerbatim(outreach, to) == IF to \in PRE_REPLY THEN outreach ELSE to
MirroredRepliesOnly(outreach, to) ==
  IF to = "do_not_contact" THEN to ELSE IF to \notin PRE_REPLY THEN "replied" ELSE outreach

Mirrored(outreach, to) ==
  IF outreach \in {"do_not_contact", "unsubscribed"} THEN outreach
  ELSE IF to = "emailed" THEN "contacted"
  ELSE IF to = "do_not_contact" THEN "do_not_contact"
  ELSE IF to \notin PRE_REPLY THEN "replied"
  ELSE outreach

\* Mutant: an earlier bounce no longer ends the cold sequence.
SetStatusForgetsBounce(c, to, override, cold, bounced) ==
  [c EXCEPT !.status = to, !.cold = cold /\ to \in PRE_REPLY /\ ~bounced,
            !.dnc = to = "do_not_contact" \/ (c.dnc /\ ~override),
            !.bounced = bounced \/ c.bounced, !.outreach = Mirrored(c.outreach, to)]

\* set_status() on an existing row whose transition was accepted. cold and
\* bounced are the values the caller asks for.
SetStatus(c, to, override, cold, bounced) ==
  [c EXCEPT !.status = to,
            !.cold = cold /\ to \in PRE_REPLY /\ ~bounced /\ ~c.bounced,
            !.dnc = to = "do_not_contact" \/ (c.dnc /\ ~override),
            !.bounced = bounced \/ c.bounced,
            !.outreach = Mirrored(c.outreach, to)]

\* Statuses from which a confirmed proposal moves the company on.
ProposalMoves == {"proposal_needed", "negotiating", "interested", "qualified", "meeting_requested"}

\* record_confirmed_send() raises TransitionError, and its caller's
\* transaction rolls back, when the proposal's transition is not allowed.
ConfirmRaises(c, kind) ==
  LET st == EnsureState(c).status IN
  kind = "proposal" /\ st \in ProposalMoves /\ ~Check(st, "proposal_sent", FALSE)

\* Mutant: the confirmation does not look whether a reply came first.
ConfirmedSendRewinds(c, kind) ==
  [SetStatus(EnsureState(c), "emailed", FALSE, kind \in Generic, FALSE) EXCEPT !.contacted = TRUE]

\* record_confirmed_send() of a Message-ID not stored before.
ConfirmedSend(c, kind) ==
  LET st == EnsureState(c)
      emailed == IF st.status \in {"discovered", "ready"}
                 THEN SetStatus(st, "emailed", FALSE, kind \in Generic, FALSE) ELSE st
      sent == IF kind = "proposal" /\ emailed.status \in ProposalMoves
              THEN SetStatus(emailed, "proposal_sent", FALSE, emailed.cold, FALSE) ELSE emailed
  IN [sent EXCEPT !.contacted = TRUE, !.proposal = IF kind = "proposal" THEN "sent" ELSE @]
-----------------------------------------------------------------------------
(* pipeline.py, process_inbound() for a reply matched to this company        *)

Flags == {"none", "legal", "conflict"}     \* why only the owner may answer

\* The status process_inbound asks for: any human reply ends the sequence.
ReplyStatus(c, label) ==
  LET prev == EnsureState(c).status
      new  == TargetFor(label, prev)
  IN IF label \notin Machine /\ prev \in PRE_REPLY /\ new \in PRE_REPLY THEN "replied" ELSE new

\* gmail_sync.Known: the reader only hands over mail from a company some table
\* says we have emailed.
Known(c) == c.contacted \/ c.outreach \in {"contacted", "replied", "bounced", "unsubscribed",
                                            "do_not_contact"}

\* A delivery failure is read whoever it concerns, and matched on the address that failed.
Reaches(c, label) == Known(c) \/ label = "DELIVERY_FAILURE"

ReplyRaises(c, label) == ~Check(EnsureState(c).status, ReplyStatus(c, label), FALSE)

\* proposal_status after the reply and after _drafts() prepared the proposal.
ProposalAfter(st, label) ==
  IF label # "READY_TO_BUY" THEN st.proposal
  ELSE IF st.proposal = "sent" THEN "accepted"
  ELSE IF st.dnc THEN "needed" ELSE "drafted"

\* Mutant: an opt-out only sets the status, nothing is suppressed.
RepliedUnsuppressed(c, label, flag, parsed) ==
  LET st == EnsureState(c) IN
  [SetStatus(st, ReplyStatus(c, label), FALSE, st.cold, FALSE) EXCEPT
     !.inbound = @ \/ label \notin Machine]

\* The record after the transaction. parsed: a bounce notice named the address
\* that failed. flag: the wording calls for the owner.
Replied(c, label, flag, parsed) ==
  LET st   == EnsureState(c)
      fail == label = "DELIVERY_FAILURE"
      set  == SetStatus(st, ReplyStatus(c, label), FALSE, st.cold, fail)
  IN [set EXCEPT
        !.proposal   = ProposalAfter(st, label),
        !.outreach   = IF fail /\ @ \in {"contacted", "handed_off", "outreach_ready"}
                       THEN "bounced" ELSE @,
        !.inbound    = @ \/ label \notin Machine,
        !.suppressed = @ \/ label = "UNSUBSCRIBE" \/ (fail /\ parsed),
        !.hold       = @ \/ flag = "legal"
                         \/ (flag = "conflict" /\ label = "NEEDS_REVIEW"
                               /\ st.status # "do_not_contact")]
-----------------------------------------------------------------------------
(* 008_send_guard_normalized.sql                                             *)

\* outreach_send_check(): may an email of this kind go to the company now?
SendCheck(c, kind) ==
  /\ ~c.suppressed
  /\ ~c.hold
  /\ IF c.status = NoRow
     THEN c.outreach \notin {"unsubscribed", "do_not_contact"}
     ELSE /\ ~c.dnc
          /\ c.status \notin {"do_not_contact", "needs_review"}
          /\ kind \in Generic => ~c.bounced /\ c.status \in PRE_REPLY
          /\ kind = "followup" /\ c.status = "emailed" => c.cold
  /\ kind \in Generic => ~c.inbound
  /\ kind = "cold" => ~c.contacted
-----------------------------------------------------------------------------
(* What review_campaign.py and sender.py write to a company                  *)

\* _eligible_rows() finds companies nobody contacted; qualify() puts those that
\* score well on the lead engine's list.
Eligible(c) == ~c.contacted /\ c.outreach \in Offered
Qualified(c) == [c EXCEPT !.outreach = "outreach_ready"]

\* _sendable(): a lead the guard refuses is taken off the lead engine's list.
Screened(c) ==
  IF c.outreach \notin {"outreach_ready", "handed_off"} THEN c
  ELSE IF c.suppressed \/ c.dnc \/ c.bounced THEN [c EXCEPT !.outreach = "do_not_contact"]
  ELSE IF c.contacted THEN [c EXCEPT !.outreach = "contacted"] ELSE c

\* send_item(), the address was rejected: suppressed for good, sequence off.
AddressRejected(c) ==
  [EnsureState(c) EXCEPT !.bounced = TRUE, !.cold = FALSE, !.suppressed = TRUE,
                         !.outreach = "bounced"]

\* Mutant: only the lead engine is told of it, not the guard's history.
MaybeContactedUnlogged(c) ==
  [c EXCEPT !.outreach = IF @ \in {"outreach_ready", "handed_off"} THEN "contacted" ELSE @]

\* _finish(ambiguous): it may have been delivered, so it counts as contacted.
MaybeContacted(c) ==
  [c EXCEPT !.contacted = TRUE,
            !.outreach = IF @ \in {"outreach_ready", "handed_off"} THEN "contacted" ELSE @]

\* record_sent(): a confirmed send (recorded once), then the lead engine's column.
RecordedSend(c, kind, known) ==
  LET s == IF known THEN c ELSE ConfirmedSend(c, kind) IN
  [s EXCEPT !.outreach = IF @ \in {"outreach_ready", "handed_off"} THEN "contacted" ELSE @]
=============================================================================
