---------------------------- MODULE Conversation ----------------------------
(* The life of one prospect company in the reply layer: senders ask the      *)
(* guard and later confirm what the provider took, replies are classified    *)
(* and applied, addresses bounce, and the owner sets the status by hand.     *)
(* Sends are slow: between the guard's answer and the confirmation a reply,  *)
(* a bounce or the owner may get in first. Scoring is slow as well: between  *)
(* the planner's read of a company and its write anybody may write to it.    *)
EXTENDS SendGuard

CONSTANTS SendKinds,       \* the kinds of email senders try
          Starts           \* the lead engine statuses a company may come with

ASSUME ConversationAssumption == SendKinds \subseteq Kinds /\ Starts \subseteq OutreachStatuses

VARIABLES conv,            \* the company record (see SendGuard)
          scoring,         \* the planner read the company as eligible and scores it
          sending,         \* kinds that passed the guard and are with the provider
          overwrote,       \* history: qualify() wrote over what others wrote since it
                           \* read, and its word still stands
          heard,           \* history: the most final thing a processed reply said
          lostReply,       \* history: a human reply was rolled back
          lostSend         \* history: a confirmed send was rolled back

vars == <<conv, scoring, sending, overwrote, heard, lostReply, lostSend>>

TypeOK ==
  /\ conv \in Company
  /\ scoring \in BOOLEAN /\ overwrote \in BOOLEAN /\ sending \subseteq SendKinds
  /\ heard \in {"nothing", "reply", "opt out"}
  /\ lostReply \in BOOLEAN /\ lostSend \in BOOLEAN

Init ==
  /\ \E o \in Starts :
       conv = [FreshCompany(o) EXCEPT !.contacted = o \in {"contacted", "replied", "bounced"}]
  /\ scoring = FALSE /\ overwrote = FALSE /\ sending = {}
  /\ heard = "nothing"
  /\ lostReply = FALSE /\ lostSend = FALSE

\* guard.check_fail_closed() lets an email of this kind go.
PassGuard(k) ==
  /\ k \notin sending /\ SendCheck(conv, k)
  /\ sending' = sending \cup {k}
  /\ UNCHANGED <<conv, heard, lostReply, lostSend>>

\* The provider confirmed it and record_confirmed_send() stores it, or the
\* status machine refuses the transition and the transaction is rolled back.
ConfirmSend(k) ==
  /\ k \in sending
  /\ sending' = sending \ {k}
  /\ IF ConfirmRaises(conv, k)
     THEN conv' = conv /\ lostSend' = TRUE
     ELSE conv' = ConfirmedSend(conv, k) /\ lostSend' = lostSend
  /\ UNCHANGED <<heard, lostReply>>

\* The provider did not take it.
NotSent(k) ==
  /\ k \in sending
  /\ sending' = sending \ {k}
  /\ UNCHANGED <<conv, heard, lostReply, lostSend>>

Heard(label) ==
  IF label = "UNSUBSCRIBE" THEN "opt out"
  ELSE IF label \notin Machine /\ heard = "nothing" THEN "reply" ELSE heard

\* classify() marks legal wording only on these, contradictions only on review.
FlagsOf(label) ==
  CASE label = "NEEDS_REVIEW" -> Flags
    [] label \in {"UNSUBSCRIBE", "NOT_INTERESTED"} -> {"none", "legal"}
    [] OTHER -> {"none"}

\* Only a bounce notice is searched for an address.
Parses(label) == IF label = "DELIVERY_FAILURE" THEN BOOLEAN ELSE {FALSE}

\* process_inbound() of a matched reply, in one transaction.
ReceiveReply(label, flag, parsed) ==
  /\ Reaches(conv, label)
  /\ IF ReplyRaises(conv, label)
     THEN conv' = conv /\ heard' = heard /\ lostReply' = TRUE
     ELSE conv' = Replied(conv, label, flag, parsed) /\ heard' = Heard(label)
            /\ lostReply' = lostReply
  /\ UNCHANGED <<sending, lostSend>>

\* The sender's rejected address, and its interrupted hand-over.
RejectAddress ==
  /\ sending \cap Generic # {}
  /\ \E k \in sending \cap Generic : sending' = sending \ {k}
  /\ conv' = AddressRejected(conv)
  /\ UNCHANGED <<heard, lostReply, lostSend>>

InterruptedSend ==
  /\ sending \cap Generic # {}
  /\ \E k \in sending \cap Generic : sending' = sending \ {k}
  /\ conv' = MaybeContacted(conv)
  /\ UNCHANGED <<heard, lostReply, lostSend>>

\* An opt-out matched only by the company's website domain (_suppress_unmatched).
SuppressByDomain ==
  /\ conv' = [conv EXCEPT !.suppressed = TRUE]
  /\ UNCHANGED <<sending, heard, lostReply, lostSend>>

\* owner_set_status(), mark_won(), mark_lost(): any transition, attention settled.
OwnerSet(to, accepted) ==
  /\ accepted => to = "won"
  /\ LET st == EnsureState(conv) IN
     conv' = [SetStatus(st, to, TRUE, st.cold, FALSE) EXCEPT
                !.hold = FALSE, !.proposal = IF accepted THEN "accepted" ELSE @]
  /\ UNCHANGED <<sending, heard, lostReply, lostSend>>

\* The campaign planner screens a lead (_sendable()).
ScreenLead ==
  /\ conv' = Screened(conv)
  /\ UNCHANGED <<sending, heard, lostReply, lostSend>>

\* qualify(): reads the companies nobody contacted, scores them, and puts the
\* good ones on the list whatever happened to them meanwhile.
FindEligible ==
  /\ ~scoring /\ Eligible(conv)
  /\ scoring' = TRUE
  /\ UNCHANGED <<conv, overwrote, sending, heard, lostReply, lostSend>>

Qualify ==
  /\ scoring
  /\ scoring' = FALSE
  /\ \/ UNCHANGED <<conv, overwrote>>
     \/ conv' = Qualified(conv) /\ overwrote' = (overwrote \/ ~Eligible(conv))
  /\ UNCHANGED <<sending, heard, lostReply, lostSend>>

AnyReply == \E l \in Labels : \E f \in FlagsOf(l), p \in Parses(l) : ReceiveReply(l, f, p)
Owner == \E to \in STATUSES, a \in BOOLEAN : OwnerSet(to, a)

\* Everything but qualify(), which it may overlap.
Event ==
  /\ UNCHANGED scoring
  /\ \/ \E k \in SendKinds : PassGuard(k) \/ ConfirmSend(k) \/ NotSent(k)
     \/ AnyReply
     \/ RejectAddress
     \/ InterruptedSend
     \/ SuppressByDomain
     \/ ScreenLead
     \/ Owner
  /\ overwrote' = (overwrote /\ conv'.outreach = conv.outreach)

Next == Event \/ FindEligible \/ Qualify

Spec == Init /\ [][Next]_vars
-----------------------------------------------------------------------------
(* No order of sends, bounces, replies and owner decisions makes the database *)
(* refuse a row: the constraints of 007_conversation_memory.sql are never    *)
(* hit, and flag and status of do-not-contact never part.                    *)
RowConstraints == RowAccepted(conv)

(* store.py:17, "keep the lead engine's own column consistent (it excludes   *)
(* these from new outreach)": once the conversation is past "ready", that    *)
(* column no longer offers the company to a planner. The one exception is    *)
(* qualify() of review_campaign.py, whose update has no condition on what it *)
(* read: then the two part until the next write of the column.               *)
LeadEngineAgrees == EngineAgrees(conv) \/ overwrote

(* An opt-out that was processed closes every kind of email for good, the    *)
(* owner's later status changes included; any human reply closes the cold    *)
(* sequence for good, even when a send was with the provider at the time.    *)
WordIsKept ==
  /\ heard = "opt out" => \A k \in Kinds : ~SendCheck(conv, k)
  /\ heard = "reply" => \A k \in Generic : ~SendCheck(conv, k)

(* Only the owner takes a company out of do_not_contact; and no reply, bounce *)
(* or guard answer drags it backwards in the funnel - only the owner does, or *)
(* a new proposal sent while negotiating.                                     *)
OnlyOwnerReopens ==
  [][/\ conv.dnc /\ ~conv'.dnc => Owner
     /\ Backwards(conv.status, conv'.status) => Owner \/ ConfirmSend("proposal")]_vars

(* pipeline.py:149, "any human reply ends the generic sequence": a human     *)
(* reply is always recorded, never rolled back by the status machine.        *)
HumanReplyIsKept == ~lostReply

(* store.py:155, record_confirmed_send() stores "a send the provider         *)
(* CONFIRMED": no confirmed send is rolled back by the status machine.       *)
ConfirmedSendIsKept == ~lostSend
=============================================================================
