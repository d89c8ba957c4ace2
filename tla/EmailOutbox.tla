------------------------------ MODULE EmailOutbox ------------------------------
(* The reviewable outbox (email_outbox.py): an employee's answer becomes a   *)
(* draft in a file, the owner is shown it with the fingerprint of its        *)
(* content, confirms, and send() mails it once, leaving a receipt. The API   *)
(* serves one request at a time; the guard's verdicts change meanwhile, the  *)
(* process may die at any point, and history_import reads the receipts.      *)
EXTENDS Naturals, Sequences, FiniteSets

CONSTANTS Drafts,         \* draft ids
          DraftContents,       \* what a file may hold: sequences of rows (see OutRow)
          OwnAddresses,          \* the owner's own addresses, which no guard is asked for
          MaxEmails,      \* MAX_EMAILS_PER_DRAFT
          MaxMail         \* bound: emails that leave

OutRow == [to : STRING, kind : {"cold", "followup"}, good : BOOLEAN]

ASSUME OutboxAssumption == DraftContents \subseteq Seq(OutRow) /\ MaxEmails \in Nat /\ MaxMail \in Nat

VARIABLES
  file,         \* per draft: the content of pending/<id>.json, or NoDraft
  shown,        \* history: <<draft, content>> whose preview the owner was shown: every
                \* recipient and subject, 240 characters of each text, and the
                \* fingerprint of it all
  receipt,      \* sent/<id>.<fingerprint>.json by <<draft, content>>
  refusing,     \* <<address, kind>> the guard refuses, contacted ones among them
  sending,      \* the send() that is under way, or NotSending
  mail          \* history: what the server accepted, in order

outboxVars == <<file, shown, receipt, refusing, sending, mail>>

\* A fingerprint stands for the content it is the hash of.
NoDraft == <<>>
NoReceipt == [status |-> "none", sent |-> <<>>]
NotSending == [pc |-> "idle", draft |-> "none", content |-> <<>>, at |-> 0]

OutboxInit ==
  /\ file = [d \in Drafts |-> NoDraft]
  /\ shown = {}
  /\ receipt = [k \in Drafts \X DraftContents |-> NoReceipt]
  /\ refusing = {} /\ sending = NotSending /\ mail = <<>>

\* _load(): 1 to MAX_EMAILS_PER_DRAFT good rows, no recipient twice.
Loads(content) ==
  /\ Len(content) \in 1 .. MaxEmails
  /\ \A i \in DOMAIN content : content[i].good
  /\ \A i, j \in DOMAIN content : content[i].to = content[j].to => i = j

\* create_draft(): the file is written, read again, and taken away if it does
\* not load - with whatever the draft held before.
CreateDraft(d, content) ==
  /\ sending = NotSending /\ Len(content) \in 1 .. MaxEmails
  /\ file' = [file EXCEPT ![d] = IF Loads(content) THEN content ELSE NoDraft]
  /\ shown' = IF Loads(content) THEN shown \cup {<<d, content>>} ELSE shown
  /\ UNCHANGED <<receipt, refusing, sending, mail>>

PreviewDraft(d) ==
  /\ sending = NotSending /\ Loads(file[d])
  /\ shown' = shown \cup {<<d, file[d]>>}
  /\ UNCHANGED <<file, receipt, refusing, sending, mail>>

\* The file is edited by hand.
EditDraft(d, content) ==
  /\ file' = [file EXCEPT ![d] = content]
  /\ UNCHANGED <<shown, receipt, refusing, sending, mail>>
-------------------------------------------------------------------------------
(* send()                                                                    *)

\* outreach_allowed(), which refuses when the database does not answer.
Allowed(row, db) == db /\ <<row.to, row.kind>> \notin refusing
\* _guard(): nobody is asked for the owner's own addresses.
Clears(row, db) == row.to \in OwnAddresses \/ Allowed(row, db)

\* Mutant: any fingerprint will do.
ConfirmsAny(d, content) == \E k \in shown : k[1] = d
\* The owner types the fingerprint of a draft he was shown.
Confirms(d, content) == <<d, content>> \in shown

AttemptedBefore(d, content) == receipt[<<d, content>>] # NoReceipt

\* Everything is checked before the receipt, the receipt is there before the
\* first email. A check that fails changes nothing.
SendStart(d) ==
  /\ sending = NotSending /\ Loads(file[d]) /\ Confirms(d, file[d])
  /\ \A i \in DOMAIN file[d] : Clears(file[d][i], TRUE)
  /\ ~AttemptedBefore(d, file[d])
  /\ receipt' = [receipt EXCEPT ![<<d, file[d]>>] = [status |-> "sending", sent |-> <<>>]]
  /\ sending' = [pc |-> "next", draft |-> d, content |-> file[d], at |-> 1]
  /\ UNCHANGED <<file, shown, refusing, mail>>

MyReceipt == <<sending.draft, sending.content>>
NextRow == sending.content[sending.at]
AsMail(row) == [draft |-> sending.draft, content |-> sending.content, to |-> row.to, kind |-> row.kind]

\* The guard is asked again right before each email.
SendOne ==
  /\ sending.pc = "next" /\ sending.at <= Len(sending.content) /\ Len(mail) < MaxMail
  /\ Clears(NextRow, TRUE)
  /\ mail' = Append(mail, AsMail(NextRow))
  /\ sending' = [sending EXCEPT !.pc = "noting"]
  /\ UNCHANGED <<file, shown, receipt, refusing>>

\* Mutant: every row up to here counts as sent, the owner's refusal or not.
NoteAll == [i \in DOMAIN sending.content |-> sending.content[i].to]
NotedSent == [i \in 1 .. sending.at |-> sending.content[i].to]

NoteSent ==
  /\ sending.pc = "noting"
  /\ receipt' = [receipt EXCEPT ![MyReceipt].sent = NotedSent]
  /\ sending' = [sending EXCEPT !.pc = "next", !.at = @ + 1]
  /\ UNCHANGED <<file, shown, refusing, mail>>

\* Refused this time (or the database is away): the rest of the draft stays.
StoppedByGuard(db) ==
  /\ sending.pc = "next" /\ sending.at <= Len(sending.content)
  /\ ~Clears(NextRow, db)
  /\ receipt' = [receipt EXCEPT ![MyReceipt].status = "stopped_by_guard"]
  /\ sending' = NotSending
  /\ UNCHANGED <<file, shown, refusing, mail>>

\* No connection, no login, or an SMTP error, behind which the email may have
\* left all the same: the receipt keeps saying "sending".
SmtpFails ==
  /\ sending.pc = "next" /\ sending.at <= Len(sending.content) /\ Len(mail) < MaxMail
  /\ mail' \in {mail, Append(mail, AsMail(NextRow))}
  /\ sending' = NotSending
  /\ UNCHANGED <<file, shown, receipt, refusing>>

SendEnds ==
  /\ sending.pc = "next" /\ sending.at > Len(sending.content)
  /\ receipt' = [receipt EXCEPT ![MyReceipt].status = "sent"]
  /\ sending' = NotSending
  /\ UNCHANGED <<file, shown, refusing, mail>>

\* The process dies; a receipt that was being written is left torn.
OutboxCrash ==
  /\ sending # NotSending
  /\ \/ receipt' = receipt
     \/ receipt' = [receipt EXCEPT ![MyReceipt].status = "torn", ![MyReceipt].sent = <<>>]
  /\ sending' = NotSending
  /\ UNCHANGED <<file, shown, refusing, mail>>
-------------------------------------------------------------------------------
\* A reply, a bounce or another sender's email: the guard refuses from now on.
GuardLearns(to, kind) ==
  /\ <<to, kind>> \notin refusing
  /\ refusing' = refusing \cup {<<to, kind>>}
  /\ UNCHANGED <<file, shown, receipt, sending, mail>>

NamesIn(s) == {s[i] : i \in DOMAIN s}

\* import_outbox(): only receipts that say "sent" make their recipients known.
ImportReceipts ==
  LET whole == {k \in DOMAIN receipt : receipt[k].status = "sent"} IN
  /\ refusing' = refusing \cup {<<a, "cold">> : a \in UNION {NamesIn(receipt[k].sent) : k \in whole}}
  /\ UNCHANGED <<file, shown, receipt, sending, mail>>

OutboxNext ==
  \/ \E d \in Drafts, content \in DraftContents : CreateDraft(d, content) \/ EditDraft(d, content)
  \/ \E d \in Drafts : PreviewDraft(d) \/ SendStart(d)
  \/ SendOne \/ NoteSent \/ SmtpFails \/ SendEnds \/ OutboxCrash
  \/ \E db \in BOOLEAN : StoppedByGuard(db)
  \/ \E content \in DraftContents : \E i \in DOMAIN content : GuardLearns(content[i].to, content[i].kind)
  \/ ImportReceipts

OutboxSpec == OutboxInit /\ [][OutboxNext]_outboxVars
-------------------------------------------------------------------------------
OutboxTypeOK ==
  /\ file \in [Drafts -> DraftContents \cup {NoDraft}]
  /\ shown \subseteq Drafts \X DraftContents
  /\ \A k \in Drafts \X DraftContents :
       receipt[k].status \in {"none", "sending", "sent", "stopped_by_guard", "torn"}
  /\ sending.pc \in {"idle", "next", "noting"}
  /\ Len(mail) <= MaxMail

Delivered(k) == {mail[i].to : i \in {j \in DOMAIN mail : mail[j].draft = k[1] /\ mail[j].content = k[2]}}

\* Whatever crashes, SMTP errors, edits of the file and repeated confirmations
\* come between: each email of a draft leaves at most once, and only with the
\* very content whose fingerprint the owner was shown.
SentOnceAsShown ==
  /\ \A i, j \in DOMAIN mail : mail[i] = mail[j] => i = j
  /\ \A i \in DOMAIN mail : <<mail[i].draft, mail[i].content>> \in shown

\* The receipt names nobody whose email did not leave, lacks at most one whose
\* email did (unless it is torn), and says "sent" only of a whole draft.
ReceiptTellsTruth ==
  \A k \in Drafts \X DraftContents :
    LET named == NamesIn(receipt[k].sent) IN
    /\ named \subseteq Delivered(k)
    /\ receipt[k].status # "torn" => Cardinality(Delivered(k) \ named) <= 1
    /\ receipt[k].status = "sent" => Delivered(k) = {k[2][i].to : i \in DOMAIN k[2]}
===============================================================================
