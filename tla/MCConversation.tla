--------------------------- MODULE MCConversation ---------------------------
(* Three kinds of email stand for all: cold and followup are the generic     *)
(* ones, proposal the only other kind whose confirmation moves the status.   *)
EXTENDS Conversation
MCKinds == {"cold", "followup", "proposal"}
MCStarts == OutreachStatuses
=============================================================================
