-------------------------------- MODULE LeadBook --------------------------------
(* The companies and contacts of the lead engine (leadgen/store.py, migration *)
(* 006) and the Airtable tray of the sender: what every writer of leads shares. *)
EXTENDS LeadSite, Sequences, SequenceFilter

CONSTANTS Listings,       \* businesses as the sources list them
          KeyOf,          \* per listing: its domain, place and phone (see Key)
          TraitsOf,       \* per listing: what speaks against it
          ListedMail,     \* per listing: addresses in the listing itself
          SitesOf         \* per listing: what a read of its site may meet

Key == [domain : STRING, place : STRING, phone : STRING]
LeadStatuses == {"not_ready", "rejected", "outreach_ready", "handed_off", "contacted", "replied",
             "bounced", "unsubscribed", "do_not_contact"}

\* A company is known by the listing it came from: its row keeps those keys.
\* tagged: it carries the handoff_ref of a record in the tray.
NoCompany == [status |-> "none", level |-> "none", reached |-> FALSE, enriched |-> FALSE,
              records |-> {}, historical |-> FALSE, tagged |-> FALSE]
NoContact == [of |-> "none", status |-> "none"]

VARIABLES
  company,      \* companies by listing, or NoCompany
  contact,      \* contacts by address, or NoContact: the address is unique
  emailed,      \* outreach_history: addresses an email to whom is recorded
  tray          \* Airtable, oldest first: the engine's records and what became of them

bookVars == <<company, contact, emailed, tray>>

Mailboxes == UNION ({UNION {s.homeMail, s.linkedMail, s.mapMail} : s \in UNION {SitesOf[l] : l \in Listings}}
                    \cup {ListedMail[l] : l \in Listings})

BookInit ==
  /\ company = [l \in Listings |-> NoCompany]
  /\ contact = [a \in Mailboxes |-> NoContact]
  /\ emailed = {} /\ tray = <<>>

Known(l) == company[l] # NoCompany
KnownListings == {l \in Listings : Known(l)}

\* find_existing(): the companies that share the strongest key that any shares:
\* domain, name and place, a record of an old ledger, phone, email.
Strongest(sets) ==
  LET found == {i \in DOMAIN sets : sets[i] # {}} IN
  IF found = {} THEN {} ELSE sets[CHOOSE i \in found : \A j \in found : i <= j]
FindExisting(key, records, mail) ==
  LET sharing(f) == {l \in KnownListings : key[f] # "" /\ KeyOf[l][f] = key[f]} IN
  Strongest(<<sharing("domain"), sharing("place"),
              {l \in KnownListings : company[l].records \cap records # {}},
              sharing("phone"),
              {l \in KnownListings : \E a \in mail \cap Mailboxes : contact[a].of = l}>>)
NoKey == [domain |-> "", place |-> "", phone |-> ""]

\* add_contact(): an address that some company has stays with it.
AddContacts(l, mail, status) ==
  [a \in Mailboxes |->
     IF a \in mail /\ contact[a] = NoContact THEN [of |-> l, status |-> status[a]] ELSE contact[a]]
Checked == [a \in Mailboxes |-> IF a.mx THEN "validated" ELSE "invalid"]
Published == [a \in Mailboxes |-> "published"]

\* insert_company()
NewCompany(level, status, enriched, records, reached) ==
  [status |-> status, level |-> level, reached |-> reached, enriched |-> enriched,
   records |-> records, historical |-> records # {}, tagged |-> FALSE]

\* What every pass over a company that is there writes of its verdict.
Judged(c, level) == [c EXCEPT !.level = level, !.status = VerdictStatus(level), !.enriched = TRUE]

\* A read of the site now.
Readings(l) == {EnrichWebsite(s, ListedMail[l]) : s \in SitesOf[l]}
AnyReading == (UNION {Readings(l) : l \in Listings}) \cup {Unread}

BookTypeOK ==
  /\ \A l \in Listings : company[l] = NoCompany \/ (company[l].status \in LeadStatuses /\ company[l].level \in Levels)
  /\ \A a \in Mailboxes : contact[a] = NoContact \/ contact[a].of \in Listings
  /\ emailed \subseteq Mailboxes
  /\ \A i \in DOMAIN tray : tray[i].of \in Listings /\ tray[i].mail \in Mailboxes
===============================================================================
