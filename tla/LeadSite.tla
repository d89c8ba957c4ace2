-------------------------------- MODULE LeadSite --------------------------------
(* What the lead engine makes of a business's website: the addresses it      *)
(* keeps (leadgen/enrich.py, and leadgen/pipeline.py for the batch) and the  *)
(* verdict (leadgen/qualify.py). A site is what a read of it comes to.       *)
EXTENDS Naturals, FiniteSets

\* An address on a page: whose domain it is under, whether mail can reach it
\* (mx_ok) and whether it is a placeholder or a mailbox for something else.
Address == [box : STRING, domain : {"own", "freemail", "legacy", "third"}, mx : BOOLEAN, junk : BOOLEAN]

\* What a read of a site meets: its home page, whether that is a parked or empty
\* one or one of many under a shared host, and what mail is on which pages.
Site == [home : {"unreachable", "refused", "unreadable", "page"}, parked : BOOLEAN, shared : BOOLEAN,
         homeMail : SUBSET Address, linkedMail : SUBSET Address, mapMail : SUBSET Address,
         links : BOOLEAN, facts : {"thin", "rich", "enterprise"}]

\* Enrichment, or "unread" when there was no site or no time left. raises is a
\* result that breaks its reader.
Enrichment(answer, mail, facts) ==
  [answer |-> answer, emails |-> mail, facts |-> facts, raises |-> FALSE]
Unread == Enrichment("unread", {}, "thin")

\* extract_emails(), rank_emails(): placeholders and other people's domains go.
Kept(mail) == {a \in mail : ~a.junk /\ a.domain # "third"}

\* The pages of a site that are read: the home page, and the contact pages it
\* links to unless the host is shared; the batch asks the sitemap when there are
\* none.
PagesMail(site, sitemap) ==
  IF site.shared THEN site.homeMail
  ELSE IF site.links THEN site.homeMail \cup site.linkedMail
  ELSE IF sitemap THEN site.homeMail \cup site.mapMail ELSE site.homeMail

ReadSite(site, listed, sitemap) ==
  IF site.home = "refused"
  THEN IF sitemap /\ listed # {}
       THEN [Enrichment("blocked", {}, "thin") EXCEPT !.raises = TRUE]
       ELSE Enrichment("blocked", listed, "thin")
  ELSE IF site.home # "page" THEN Enrichment("dead", {}, "thin")
  ELSE IF site.parked THEN Enrichment("parked", {}, "thin")
  ELSE Enrichment("read", Kept(PagesMail(site, sitemap) \cup listed), site.facts)

\* enrich_website()
EnrichWebsite(site, listed) == ReadSite(site, listed, FALSE)
\* enrich_with_sitemaps(): a listing's mail of a site that refuses to be read is
\* appended as None, over which the caller stumbles.
EnrichWithSitemaps(site, listed) == ReadSite(site, listed, TRUE)

\* best_email: mail that arrives before mail that does not, the company's own
\* domain before a mailbox provider's. Among equals the inbox is any.
Rank(a) == (IF a.mx THEN 0 ELSE 2) + (IF a.domain = "own" THEN 0 ELSE 1)
BestMail(enr) == CHOOSE a \in enr.emails : \A b \in enr.emails : Rank(a) <= Rank(b)

\* What speaks against a business before its site is looked at.
Traits == {"no website", "directory", "public body", "chain", "dealership", "location page",
           "supplier", "city page", "too large"}

\* qualify()
Qualify(traits, enr) ==
  IF traits # {} THEN "REJECT"
  ELSE IF enr.answer = "unread" \/ (enr.answer = "blocked" /\ enr.emails = {}) THEN "LOW"
  ELSE IF enr.answer \in {"dead", "parked"} \/ enr.facts = "enterprise" THEN "REJECT"
  ELSE IF enr.emails = {} THEN "LOW"
  ELSE IF ~BestMail(enr).mx \/ BestMail(enr).domain = "legacy" THEN "LOW"
  ELSE IF BestMail(enr).domain # "freemail" /\ enr.facts = "rich" THEN "HIGH" ELSE "MEDIUM"

Levels == {"HIGH", "MEDIUM", "LOW", "REJECT"}
ReadyLevels == {"HIGH", "MEDIUM"}

\* Mutant: the level itself is stored.
VerdictStatusRaw(level) == level
\* The outreach status every writer derives from a verdict.
VerdictStatus(level) ==
  IF level = "REJECT" THEN "rejected" ELSE IF level \in ReadyLevels THEN "outreach_ready" ELSE "not_ready"
===============================================================================
