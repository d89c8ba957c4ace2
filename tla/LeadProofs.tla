------------------------------- MODULE LeadProofs -------------------------------
(* What the lead engine guarantees for any listings, runs, batches, records  *)
(* of old ledgers and sizes of the window: the types of the book, the lock   *)
(* of a batch, the window of the tray, and that the book and the tray agree  *)
(* on who was handed off. Then the sources that its runs share, for any      *)
(* catalog, and the ledger of BrightReach, which answers leads.              *)
EXTENDS LeadEngine, LeadSources, BrightReach, FiniteSetTheorems, NaturalsInduction, SequenceTheorems, TLAPS

CompanyRow == [status : LeadStatuses \cup {"none"}, level : Levels \cup {"none"}, reached : BOOLEAN,
               enriched : BOOLEAN, records : SUBSET STRING, historical : BOOLEAN, tagged : BOOLEAN]
CompanyRows == {c \in CompanyRow : c = NoCompany \/ (c.status \in LeadStatuses /\ c.level \in Levels)}
ContactRow == [of : Listings, status : {"validated", "invalid", "published"}]
TrayRow == [of : Listings, mail : Mailboxes, status : {"Ready", "Contacted", "Rejected", "Unsubscribed"}, sent : BOOLEAN]

IntakeState == [pc : {"idle", "reading", "storing", "inserting"}, all : Seq(Listings), todo : Seq(Listings),
                read : [Listings -> AnyReading], drops : {0, 1}]
RecheckState == [kind : {"none", "recover", "requalify"}, rows : SUBSET Listings, refs : SUBSET Listings,
                 was : [Listings -> LeadStatuses \cup {"none"}], read : [Listings -> AnyReading]]
RunState == [pc : {"idle", "locked", "working", "closing"}, token : Nat, new : BOOLEAN, items : Seq(Listings),
             last : Listings \cup {"none"}, outcome : {"none", "completed", "error"}]
HandoffState == [pc : {"idle", "listed", "synced", "creating", "marking"}, seen : Seq(TrayRow), rows : Seq(TrayRow),
                 made : Seq(TrayRow)]

BookType ==
  /\ company \in [Listings -> CompanyRows]
  /\ contact \in [Mailboxes -> ContactRow \cup {NoContact}]
  /\ emailed \subseteq Mailboxes
  /\ tray \in Seq(TrayRow)
IntakeType ==
  /\ intake \in [Intakes -> IntakeState]
  /\ \A r \in Intakes : intake[r].pc = "inserting" => intake[r].todo # <<>>
RecheckType == recheck \in RecheckState
BatchType ==
  /\ lock \in [on : BOOLEAN, token : Nat, stale : BOOLEAN]
  /\ bookmark \in Listings \cup {"none"}
  /\ run \in [BatchRuns -> RunState]
HandoffType == handoff \in [Handoffs -> HandoffState] /\ abreast \in Nat
LeadType == BookType /\ IntakeType /\ RecheckType /\ BatchType /\ HandoffType

\* Whoever holds the lock took it under a token of its own.
TokensDiffer ==
  /\ lock.on => lock.token > 0
  /\ \A b, c \in BatchRuns : b # c /\ run[b].token = run[c].token => run[b].token = 0

\* The records of a tray that wait for the sender.
WaitingIn(t) == {i \in DOMAIN t : t[i].status = "Ready" /\ ~t[i].sent}
\* How many records a hand-off may still create: as many as the tray it saw left
\* room for, then its rows that are not created yet.
Owed(f) ==
  IF f.pc \in {"listed", "synced"} /\ Window > Cardinality(WaitingIn(f.seen)) THEN Window - Cardinality(WaitingIn(f.seen))
  ELSE IF f.pc = "creating" THEN Len(f.rows) - Len(f.made) ELSE 0
WellFormed(f) ==
  /\ f.pc \in {"listed", "synced"} => f.made = <<>>
  /\ f.pc = "creating" => Len(f.made) <= Len(f.rows) /\ Len(f.rows) - Len(f.made) <= Window
\* The places that the hand-offs have taken: with what waits in the tray they fit
\* in as many windows as there were hand-offs topping up at once.
Reserved == {p \in Handoffs \X (1 .. Window) : p[2] <= Owed(handoff[p[1]])}
RoomIsLeft ==
  /\ \A h \in Handoffs : WellFormed(handoff[h])
  /\ Cardinality(WaitingIn(tray)) + Cardinality(Reserved) <= Window * abreast
  /\ Cardinality(ToppingUp) <= abreast

\* Whoever is handed off, was when a pass over the rows began, or is about to be
\* marked so, has a record.
HasRecord(t, l) == \E i \in DOMAIN t : t[i].of = l
InTray(l) == HasRecord(tray, l)
HandedOffHasRecord ==
  /\ \A l \in Listings : company[l].status = "handed_off" => InTray(l)
  /\ \A l \in Listings : recheck.was[l] = "handed_off" => InTray(l)
  /\ \A h \in Handoffs : \A i \in DOMAIN handoff[h].made : InTray(handoff[h].made[i].of)
-------------------------------------------------------------------------------
(* Natural numbers and sequences                                             *)

LEMMA LeastNumber ==
  ASSUME NEW S \in SUBSET Nat, S # {}
  PROVE  \E x \in S : \A y \in S : x <= y
<1> DEFINE R == {ss \in Nat \X Nat : ss[1] < ss[2]}
<1>1. IsWellFoundedOn(R, Nat)
  BY NatLessThanWellFounded DEF OpToRel
<1> HIDE DEF R
<1>2. PICK x \in S : \A y \in S : ~ (<<y, x>> \in R)
  BY <1>1, WFMin
<1>3. ASSUME NEW y \in S PROVE x <= y
  <2>1. x \in Nat /\ y \in Nat /\ ~(<<y, x>> \in R)
    BY <1>2
  <2>2. ~ (y < x)
    BY <2>1 DEF R
  <2> QED  BY <2>1, <2>2
<1> QED  BY <1>3

\* f is the first m steps of the function that Keeping takes its value from.
KeptUpTo(f, seq, set, m) ==
  f = [n \in 0 .. m |-> IF n = 0 THEN <<>>
                        ELSE IF seq[n] \in set THEN Append(f[n - 1], seq[n]) ELSE f[n - 1]]

\* That function exists: were there a first step that it does not reach, the
\* function of the step before could be extended to it.
LEMMA KeepingUnfolds ==
  ASSUME NEW A, NEW seq \in Seq(A), NEW set
  PROVE  \E f : KeptUpTo(f, seq, set, Len(seq)) /\ Keeping(seq, set) = f[Len(seq)]
<1> DEFINE Have(m) == \E f : KeptUpTo(f, seq, set, m)
           lack == {m \in 0 .. Len(seq) : ~Have(m)}
<1>1. lack = {}
  <2> SUFFICES ASSUME lack # {} PROVE FALSE
    OBVIOUS
  <2>1. PICK m \in lack : \A k \in lack : m <= k
    <3> HIDE DEF Have
    <3>1. lack \in SUBSET Nat
      OBVIOUS
    <3> HIDE DEF lack
    <3> QED BY <3>1, LeastNumber
  <2>2. Have(0)
    <3>1. KeptUpTo([n \in 0 .. 0 |-> <<>>], seq, set, 0)
      BY DEF KeptUpTo
    <3> QED BY <3>1
  <2>3. m \in Nat /\ m # 0 /\ m <= Len(seq)
    BY <2>1, <2>2
  <2>4. Have(m - 1)
    <3> HIDE DEF Have
    <3> QED BY <2>1, <2>3
  <2>5. PICK g : KeptUpTo(g, seq, set, m - 1)
    BY <2>4
  <2> DEFINE last == IF seq[m] \in set THEN Append(g[m - 1], seq[m]) ELSE g[m - 1]
             f == [n \in 0 .. m |-> IF n = m THEN last ELSE g[n]]
  <2>6. \A n \in 0 .. m - 1 : f[n] = g[n]
    BY <2>3
  <2>7. \A n \in 0 .. m - 1 : g[n] = IF n = 0 THEN <<>> ELSE IF seq[n] \in set THEN Append(g[n - 1], seq[n]) ELSE g[n - 1]
    BY <2>5 DEF KeptUpTo
  <2>8. f[m] = last
    BY <2>3
  <2>9. ASSUME NEW n \in 0 .. m
        PROVE  f[n] = IF n = 0 THEN <<>> ELSE IF seq[n] \in set THEN Append(f[n - 1], seq[n]) ELSE f[n - 1]
    <3> HIDE DEF f
    <3>1. CASE n = m
      <4>1. f[m - 1] = g[m - 1]
        BY <2>3, <2>6
      <4> QED  BY <3>1, <2>3, <2>8, <4>1
    <3>2. CASE n # m
      <4>1. n \in 0 .. m - 1 /\ (n # 0 => n - 1 \in 0 .. m - 1)
        BY <3>2, <2>3
      <4> QED  BY <4>1, <2>6, <2>7
    <3> QED BY <3>1, <3>2
  <2>10. f = [n \in 0 .. m |-> f[n]]
    OBVIOUS
  <2>11. KeptUpTo(f, seq, set, m)
    <3> HIDE DEF f
    <3> QED  BY <2>9, <2>10 DEF KeptUpTo
  <2> QED  BY <2>1, <2>11
<1>2. \E f : KeptUpTo(f, seq, set, Len(seq))
  <2>1. Len(seq) \in 0 .. Len(seq)
    OBVIOUS
  <2> HIDE DEF Have
  <2>2. Have(Len(seq))
    BY <1>1, <2>1
  <2> QED  BY <2>2 DEF Have
<1> DEFINE k == CHOOSE f : KeptUpTo(f, seq, set, Len(seq))
<1>3. Keeping(seq, set) = k[Len(seq)]
  BY DEF Keeping, KeptUpTo
<1> QED  BY <1>2, <1>3

\* What is kept is a sequence of the same elements, all of them in the set.
LEMMA KeepingType ==
  ASSUME NEW A, NEW seq \in Seq(A), NEW set
  PROVE  Keeping(seq, set) \in Seq(A \cap set)
<1>1. PICK f : KeptUpTo(f, seq, set, Len(seq)) /\ Keeping(seq, set) = f[Len(seq)]
  BY KeepingUnfolds
<1>2. \A n \in 0 .. Len(seq) :
        f[n] = IF n = 0 THEN <<>> ELSE IF seq[n] \in set THEN Append(f[n - 1], seq[n]) ELSE f[n - 1]
  BY <1>1 DEF KeptUpTo
<1> DEFINE fits(n) == f[n] \in Seq(A \cap set)
           odd == {n \in 0 .. Len(seq) : ~fits(n)}
<1>3. odd = {}
  <2> SUFFICES ASSUME odd # {} PROVE FALSE
    OBVIOUS
  <2>1. PICK m \in odd : \A k \in odd : m <= k
    <3>1. odd \in SUBSET Nat
      OBVIOUS
    <3> HIDE DEF odd
    <3> QED  BY <3>1, LeastNumber
  <2>2. m \in Nat /\ m <= Len(seq) /\ ~fits(m)
    <3> HIDE DEF fits
    <3> QED  BY <2>1
  <2>3. m # 0
    <3>1. <<>> \in Seq(A \cap set)
      OBVIOUS
    <3> QED  BY <1>2, <2>2, <3>1
  <2>4. m - 1 \in 0 .. Len(seq) /\ ~(m <= m - 1)
    BY <2>2, <2>3
  <2>5. f[m - 1] \in Seq(A \cap set)
    <3> HIDE DEF fits
    <3>1. fits(m - 1)
      BY <2>1, <2>4
    <3> QED  BY <3>1 DEF fits
  <2>6. seq[m] \in A
    BY <2>2, <2>3
  <2>7. seq[m] \in set => Append(f[m - 1], seq[m]) \in Seq(A \cap set)
    <3> HIDE DEF fits, odd
    <3> QED  BY <2>5, <2>6
  <2> HIDE DEF odd
  <2>8. fits(m)
    <3>1. m \in 0 .. Len(seq)
      BY <2>2
    <3> QED  BY <1>2, <2>3, <2>5, <2>7, <3>1
  <2> QED  BY <2>2, <2>8
<1> QED
  <2>1. Len(seq) \in 0 .. Len(seq)
    OBVIOUS
  <2> HIDE DEF fits
  <2>2. fits(Len(seq))
    BY <1>3, <2>1
  <2> QED  BY <1>1, <2>2 DEF fits
-------------------------------------------------------------------------------
(* The types of what is written                                              *)

LEMMA VerdictTypes ==
  ASSUME NEW traits, NEW enr
  PROVE  Qualify(traits, enr) \in Levels
BY Zenon DEF Qualify, Levels

LEMMA VerdictStatuses ==
  ASSUME NEW level
  PROVE  VerdictStatus(level) \in LeadStatuses /\ VerdictStatus(level) # "handed_off"
BY DEF VerdictStatus, LeadStatuses

LEMMA JudgedType ==
  ASSUME NEW c \in CompanyRows, NEW level \in Levels
  PROVE  Judged(c, level) \in CompanyRows /\ Judged(c, level).status = VerdictStatus(level)
<1> DEFINE first == [c EXCEPT !.level = level]
           second == [first EXCEPT !.status = VerdictStatus(level)]
           third == [second EXCEPT !.enriched = TRUE]
<1>1. Judged(c, level) = third
  BY Zenon DEF Judged
<1>2. c \in CompanyRow /\ VerdictStatus(level) \in LeadStatuses
  BY VerdictStatuses DEF CompanyRows
<1>3. first \in CompanyRow /\ first.level = level
  BY <1>2 DEF CompanyRow
<1> HIDE DEF first
<1>4. second \in CompanyRow /\ second.level = level /\ second.status = VerdictStatus(level)
  BY <1>2, <1>3 DEF CompanyRow
<1> HIDE DEF second
<1>5. third \in CompanyRow /\ third.level = level /\ third.status = VerdictStatus(level)
  BY <1>4 DEF CompanyRow
<1> HIDE DEF third
<1> QED  BY <1>1, <1>2, <1>5 DEF CompanyRows

LEMMA NewCompanyType ==
  ASSUME NEW level \in Levels, NEW status \in LeadStatuses, NEW enriched \in BOOLEAN,
         NEW records \in SUBSET STRING, NEW reached \in BOOLEAN
  PROVE  NewCompany(level, status, enriched, records, reached) \in CompanyRows
         /\ NewCompany(level, status, enriched, records, reached).status = status
<1> DEFINE c == NewCompany(level, status, enriched, records, reached)
<1>1. (records # {}) \in BOOLEAN
  OBVIOUS
<1>2. c \in CompanyRow
  BY Zenon, <1>1 DEF NewCompany, CompanyRow
<1>3. c.status = status /\ c.level = level
  BY DEF NewCompany
<1>4. c \in CompanyRows
  <2> HIDE DEF c
  <2> QED  BY <1>2, <1>3 DEF CompanyRows
<1> QED  BY <1>3, <1>4

LEMMA StatusSet ==
  ASSUME NEW c \in CompanyRows, c # NoCompany, NEW status \in LeadStatuses
  PROVE  [c EXCEPT !.status = status] \in CompanyRows /\ [c EXCEPT !.status = status].status = status
BY DEF CompanyRows, CompanyRow

LEMMA ContactsType ==
  ASSUME BookType, NEW l \in Listings, NEW mail, NEW status,
         \A a \in Mailboxes : status[a] \in {"validated", "invalid", "published"}
  PROVE  AddContacts(l, mail, status) \in [Mailboxes -> ContactRow \cup {NoContact}]
BY DEF BookType, AddContacts, ContactRow

LEMMA CheckedType == \A a \in Mailboxes : Checked[a] \in {"validated", "invalid", "published"}
BY DEF Checked

LEMMA PublishedType == \A a \in Mailboxes : Published[a] \in {"validated", "invalid", "published"}
BY DEF Published
-------------------------------------------------------------------------------
(* Searches                                                                  *)

LEMMA UnreadReading == [l \in Listings |-> Unread] \in [Listings -> AnyReading]
BY DEF AnyReading

LEMMA IdleIntakeType == IdleIntake \in IntakeState /\ IdleIntake.pc = "idle"
<1> HIDE DEF AnyReading, Unread
<1> QED  BY UnreadReading DEF IdleIntake, Storing, IntakeState

LEMMA WithSitesType ==
  ASSUME NEW f \in IntakeState, NEW read \in [Listings -> AnyReading]
  PROVE  WithSites(f, read) \in IntakeState /\ WithSites(f, read).pc = "storing"
<1> DEFINE first == [f EXCEPT !.read = read]
           second == [first EXCEPT !.pc = "storing"]
<1>1. WithSites(f, read) = second
  BY Zenon DEF WithSites
<1>2. first \in IntakeState
  BY DEF IntakeState
<1> HIDE DEF first
<1>3. second \in IntakeState /\ second.pc = "storing"
  BY <1>2 DEF IntakeState
<1> QED  BY <1>1, <1>3, Zenon

LEMMA NextCandidateType ==
  ASSUME NEW f \in IntakeState, f.todo # <<>>
  PROVE  NextCandidate(f) \in IntakeState /\ NextCandidate(f).pc = "storing"
<1> DEFINE first == [f EXCEPT !.todo = Tail(f.todo)]
           second == [first EXCEPT !.pc = "storing"]
<1>1. NextCandidate(f) = second
  BY Zenon DEF NextCandidate
<1>2. f.todo \in Seq(Listings)
  BY DEF IntakeState
<1>3. Tail(f.todo) \in Seq(Listings)
  BY <1>2
<1>4. first \in IntakeState
  BY <1>3 DEF IntakeState
<1> HIDE DEF first
<1>5. second \in IntakeState /\ second.pc = "storing"
  BY <1>4 DEF IntakeState
<1> QED  BY <1>1, <1>5, Zenon

LEMMA FromStartType ==
  ASSUME NEW f \in IntakeState
  PROVE  FromStart(f) \in IntakeState /\ FromStart(f).pc # "inserting"
<1> DEFINE first == [f EXCEPT !.todo = f.all]
           second == [first EXCEPT !.drops = 1]
           third == [second EXCEPT !.pc = "storing"]
<1>1. FromStart(f) \in {IdleIntake, third}
  BY Zenon DEF FromStart
<1>2. first \in IntakeState
  BY DEF IntakeState
<1> HIDE DEF first
<1>3. second \in IntakeState
  BY <1>2 DEF IntakeState
<1> HIDE DEF second
<1>4. third \in IntakeState /\ third.pc = "storing"
  BY <1>3 DEF IntakeState
<1> HIDE DEF third
<1> QED  BY <1>1, <1>4, IdleIntakeType

LEMMA BatchTaken ==
  ASSUME NEW batch \in Batches
  PROVE  Storing("reading", Unknown(batch)) \in IntakeState
<1>1. batch \in Seq(Listings)
  BY LeadAssumption
<1>2. ASSUME NEW set \in SUBSET Listings PROVE Keeping(batch, set) \in Seq(Listings)
  <2>1. Keeping(batch, set) \in Seq(Listings \cap set) /\ Listings \cap set \subseteq Listings
    BY <1>1, KeepingType
  <2> QED  BY <2>1
<1>3. Unknown(batch) \in Seq(Listings)
  BY <1>2 DEF Unknown
<1> HIDE DEF Unread
<1> QED  BY <1>3, UnreadReading DEF Storing, IntakeState

\* A run's step keeps what its steps write.
LEMMA SearchTypes ==
  ASSUME LeadType, Searches
  PROVE  BookType' /\ IntakeType'
<1> USE DEF LeadType
<1>1. PICK r \in Intakes : TakeBatch(r) \/ ReadSites(r) \/ LookUpAgain(r) \/ InsertCandidate(r)
                          \/ DropConnection(r) \/ EndBatch(r)
  BY DEF Searches, SearchNext
<1>2. intake[r] \in IntakeState /\ IntakeType
  BY DEF IntakeType
<1>3. ASSUME NEW new \in IntakeState, intake' = [intake EXCEPT ![r] = new],
             new.pc = "inserting" => new.todo # <<>>
      PROVE  IntakeType'
  BY <1>2, <1>3 DEF IntakeType
<1>4. CASE TakeBatch(r)
  <2>1. PICK batch \in Batches : intake' = [intake EXCEPT ![r] = Storing("reading", Unknown(batch))]
    BY <1>4 DEF TakeBatch
  <2>2. Storing("reading", Unknown(batch)).pc # "inserting"
    BY DEF Storing
  <2>3. IntakeType'
    BY <2>1, <2>2, <1>3, BatchTaken
  <2> QED  BY <1>4, <2>3 DEF TakeBatch, BookType, bookVars
<1>5. CASE ReadSites(r)
  <2>1. PICK read \in [Listings -> AnyReading] : intake' = [intake EXCEPT ![r] = WithSites(intake[r], read)]
    BY <1>5 DEF ReadSites
  <2>2. WithSites(intake[r], read) \in IntakeState /\ WithSites(intake[r], read).pc # "inserting"
    BY <1>2, WithSitesType
  <2>3. IntakeType'
    BY <2>1, <2>2, <1>3
  <2> QED  BY <1>5, <2>3 DEF ReadSites, BookType, bookVars
<1>6. CASE LookUpAgain(r)
  <2>1. \/ intake' = [intake EXCEPT ![r] = NextCandidate(intake[r])]
        \/ intake' = [intake EXCEPT ![r].pc = "inserting"]
    BY <1>6 DEF LookUpAgain
  <2>2. intake[r].todo # <<>>
    BY <1>6 DEF LookUpAgain
  <2>3. NextCandidate(intake[r]) \in IntakeState /\ NextCandidate(intake[r]).pc # "inserting"
    BY <1>2, <2>2, NextCandidateType
  <2>4. ASSUME intake' = [intake EXCEPT ![r] = NextCandidate(intake[r])] PROVE IntakeType'
    BY <2>3, <2>4, <1>3
  <2>5. ASSUME intake' = [intake EXCEPT ![r].pc = "inserting"] PROVE IntakeType'
    BY <1>2, <2>2, <2>5 DEF IntakeType, IntakeState
  <2> QED  BY <1>6, <2>1, <2>4, <2>5 DEF LookUpAgain, BookType, bookVars
<1>7. CASE InsertCandidate(r)
  <2> DEFINE l == Current(r)
             enr == intake[r].read[l]
             level == Qualify(TraitsOf[l], enr)
             stored == NewCompany(level, VerdictStatus(level), enr # Unread, {}, FALSE)
             inserts == /\ company' = [company EXCEPT ![l] = stored]
                        /\ contact' = AddContacts(l, enr.emails, Checked)
                        /\ intake' = [intake EXCEPT ![r] = NextCandidate(intake[r])]
                        /\ UNCHANGED <<emailed, tray, recheck>>
             fails == intake' = [intake EXCEPT ![r] = IdleIntake] /\ UNCHANGED <<bookVars, recheck>>
  <2>1. intake[r].todo \in Seq(Listings) /\ intake[r].todo # <<>>
    BY <1>2, <1>7 DEF InsertCandidate, IntakeType, IntakeState
  <2>2. l \in Listings
    BY <2>1 DEF Current
  <2>3. stored \in CompanyRows
    <3>1. (enr # Unread) \in BOOLEAN /\ FALSE \in BOOLEAN /\ {} \in SUBSET STRING
      OBVIOUS
    <3> HIDE DEF l, enr
    <3> QED  BY <3>1, VerdictTypes, VerdictStatuses, NewCompanyType
  <2>4. AddContacts(l, enr.emails, Checked) \in [Mailboxes -> ContactRow \cup {NoContact}]
    BY <2>2, ContactsType, CheckedType
  <2>5. inserts \/ fails
    BY Zenon, <1>7 DEF InsertCandidate
  <2>6. CASE fails
    BY <2>6, <1>3, IdleIntakeType DEF BookType, bookVars
  <2>7. CASE inserts
    <3>1. NextCandidate(intake[r]) \in IntakeState /\ NextCandidate(intake[r]).pc # "inserting"
      BY <1>2, <2>1, NextCandidateType
    <3>2. IntakeType'
      BY <2>7, <3>1, <1>3
    <3> HIDE DEF l, enr, stored
    <3> QED  BY <2>7, <2>3, <2>4, <3>2 DEF BookType
  <2> QED  BY <2>5, <2>6, <2>7
<1>8. CASE DropConnection(r)
  <2>1. intake' = [intake EXCEPT ![r] = FromStart(intake[r])]
    BY <1>8 DEF DropConnection
  <2>2. IntakeType'
    BY <2>1, <1>2, <1>3, FromStartType
  <2> QED  BY <1>8, <2>2 DEF DropConnection, BookType, bookVars
<1>9. CASE EndBatch(r)
  <2>1. IntakeType'
    BY <1>9, <1>3, IdleIntakeType DEF EndBatch
  <2> QED  BY <1>9, <2>1 DEF EndBatch, BookType, bookVars
<1> QED  BY <1>1, <1>4, <1>5, <1>6, <1>7, <1>8, <1>9
-------------------------------------------------------------------------------
(* Passes over known companies, and old ledgers                              *)

LEMMA NoRecheckType == NoRecheck \in RecheckState
<1> HIDE DEF Unread, AnyReading
<1> QED  BY UnreadReading DEF NoRecheck, RecheckState

\* Records keep what they are of; only their status changes.
SameRecords(new, old) ==
  /\ new \in Seq(TrayRow) /\ Len(new) = Len(old)
  /\ \A i \in DOMAIN old : new[i].of = old[i].of
  /\ WaitingIn(new) \subseteq WaitingIn(old)

LEMMA RecordsStay == ASSUME BookType PROVE SameRecords(tray, tray)
BY DEF BookType, SameRecords

LEMMA PulledBack ==
  ASSUME BookType, NEW fallen, NEW new \in PullBack(fallen)
  PROVE  SameRecords(new, tray)
<1>1. PICK pulled : new = [i \in DOMAIN tray |-> IF i \in pulled THEN [tray[i] EXCEPT !.status = "Rejected"] ELSE tray[i]]
  BY DEF PullBack
<1>2. tray \in Seq(TrayRow) /\ DOMAIN tray = 1 .. Len(tray) /\ Len(tray) \in Nat
  BY DEF BookType
<1>3. ASSUME NEW i \in DOMAIN tray
      PROVE  /\ new[i] \in TrayRow /\ new[i].of = tray[i].of
             /\ new[i].status = "Ready" => new[i] = tray[i]
  <2> DEFINE row == tray[i]
  <2>1. row \in TrayRow
    BY <1>2
  <2>2. new[i] = row \/ new[i] = [row EXCEPT !.status = "Rejected"]
    BY <1>1
  <2> HIDE DEF row
  <2>3. [row EXCEPT !.status = "Rejected"] \in TrayRow /\ [row EXCEPT !.status = "Rejected"].of = row.of
        /\ [row EXCEPT !.status = "Rejected"].status # "Ready"
    BY <2>1 DEF TrayRow
  <2>4. new[i] \in TrayRow /\ new[i].of = row.of /\ (new[i].status = "Ready" => new[i] = row)
    BY <2>1, <2>2, <2>3
  <2> QED  BY <2>4 DEF row
<1>4. new \in [1 .. Len(tray) -> TrayRow]
  <2>1. new = [i \in 1 .. Len(tray) |-> new[i]]
    BY <1>1, <1>2
  <2> QED  BY <1>2, <1>3, <2>1
<1>5. new \in Seq(TrayRow) /\ Len(new) = Len(tray) /\ DOMAIN new = DOMAIN tray
  BY <1>2, <1>4
<1> QED  BY <1>3, <1>5, Zenon DEF SameRecords, WaitingIn

LEMMA RenewedType ==
  ASSUME BookType, NEW rows \in SUBSET Listings, NEW new \in RenewedContacts(rows)
  PROVE  new \in [Mailboxes -> ContactRow \cup {NoContact}]
<1> DEFINE found(a) == {[of |-> l, status |-> Checked[a]] : l \in {m \in rows : a \in recheck.read[m].emails}}
           kept(a) == {c \in found(a) : c.of = contact[a].of}
           options(a) ==
             IF contact[a].of \notin rows \cup {"none"} THEN {contact[a]}
             ELSE IF kept(a) # {} THEN kept(a)
             ELSE IF contact[a] = NoContact /\ found(a) # {} THEN found(a)
             ELSE found(a) \cup {NoContact}
<1>1. \A a \in Mailboxes : found(a) \subseteq ContactRow
  BY CheckedType DEF ContactRow
<1>2. \A a \in Mailboxes : kept(a) \subseteq found(a) /\ contact[a] \in ContactRow \cup {NoContact}
  BY DEF BookType
<1> HIDE DEF found, kept
<1>3. \A a \in Mailboxes : options(a) \subseteq ContactRow \cup {NoContact}
  BY <1>1, <1>2
<1>4. new \in {n \in [Mailboxes -> UNION {options(a) : a \in Mailboxes}] : \A a \in Mailboxes : n[a] \in options(a)}
  BY DEF RenewedContacts, found, kept
<1> HIDE DEF options
<1> QED  BY <1>3, <1>4

LEMMA RequalifiedType ==
  ASSUME NEW l \in Listings, company[l] \in CompanyRows
  PROVE  /\ Requalified(l) \in CompanyRows
         /\ Requalified(l).status = "handed_off" => recheck.was[l] = "handed_off"
<1> DEFINE level == Qualify(TraitsOf[l], recheck.read[l])
           c == Judged(company[l], level)
           status == IF level \in ReadyLevels /\ recheck.was[l] = "handed_off" THEN "handed_off" ELSE c.status
<1>1. c \in CompanyRows /\ c.status = VerdictStatus(level) /\ level \in Levels
  BY VerdictTypes, JudgedType
<1>2. Requalified(l) = [c EXCEPT !.status = status]
  BY DEF Requalified
<1>3. status \in LeadStatuses /\ (status = "handed_off" => recheck.was[l] = "handed_off")
  BY <1>1, VerdictStatuses DEF LeadStatuses
<1>4. c # NoCompany
  BY <1>1, VerdictStatuses DEF NoCompany, LeadStatuses
<1> HIDE DEF c, status
<1>5. [c EXCEPT !.status = status] \in CompanyRows /\ [c EXCEPT !.status = status].status = status
  BY <1>1, <1>3, <1>4, StatusSet
<1> QED  BY <1>2, <1>3, <1>5

LEMMA RecheckTypes ==
  ASSUME LeadType, Rechecks
  PROVE  BookType' /\ RecheckType'
<1> USE DEF LeadType
<1>1. recheck \in RecheckState /\ recheck.rows \subseteq Listings /\ company \in [Listings -> CompanyRows]
  BY DEF RecheckType, RecheckState, BookType
<1>2. CASE PickRows
  <2>1. PICK kind \in {"recover", "requalify"}, rows \in SUBSET Listings, read \in [Listings -> AnyReading] :
          /\ rows \subseteq KnownListings
          /\ recheck' = [kind |-> kind, rows |-> rows, read |-> read, refs |-> {l \in rows : company[l].tagged},
                         was |-> [l \in Listings |-> IF l \in rows THEN company[l].status ELSE "none"]]
    <3>1. Recoverable \subseteq KnownListings /\ Requalifiable \subseteq KnownListings /\ KnownListings \subseteq Listings
      BY DEF Recoverable, Requalifiable, KnownListings
    <3>2. PICK kind \in {"recover", "requalify"} :
            LET rows == IF kind = "recover" THEN Recoverable ELSE Requalifiable IN
            \E read \in [Listings -> AnyReading] :
              recheck' = [kind |-> kind, rows |-> rows, read |-> read, refs |-> {l \in rows : company[l].tagged},
                          was |-> [l \in Listings |-> IF l \in rows THEN company[l].status ELSE "none"]]
      BY Zenon, <1>2 DEF PickRows
    <3> DEFINE rows == IF kind = "recover" THEN Recoverable ELSE Requalifiable
    <3>3. rows \subseteq KnownListings /\ rows \in SUBSET Listings
      BY <3>1
    <3>4. PICK read \in [Listings -> AnyReading] :
            recheck' = [kind |-> kind, rows |-> rows, read |-> read, refs |-> {l \in rows : company[l].tagged},
                        was |-> [l \in Listings |-> IF l \in rows THEN company[l].status ELSE "none"]]
      BY <3>2
    <3> HIDE DEF rows
    <3> QED  BY <3>3, <3>4
  <2>2. \A l \in rows : company[l].status \in LeadStatuses
    BY <1>1, <2>1 DEF KnownListings, Known, CompanyRows
  <2>3. [l \in Listings |-> IF l \in rows THEN company[l].status ELSE "none"] \in [Listings -> LeadStatuses \cup {"none"}]
    BY <2>2
  <2>4. recheck' \in RecheckState
    BY <2>1, <2>3 DEF RecheckState
  <2> QED  BY <1>2, <2>4 DEF PickRows, BookType, bookVars, RecheckType
<1>3. CASE RequalifyRows
  <2>1. /\ company' = [l \in Listings |-> IF l \in recheck.rows THEN Requalified(l) ELSE company[l]]
        /\ contact' \in RenewedContacts(recheck.rows)
        /\ recheck' = NoRecheck /\ emailed' = emailed
    BY <1>3 DEF RequalifyRows
  <2>2. PICK fallen : tray' \in PullBack(fallen)
    BY <1>3 DEF RequalifyRows
  <2>3. company' \in [Listings -> CompanyRows]
    BY <1>1, <2>1, RequalifiedType
  <2>4. contact' \in [Mailboxes -> ContactRow \cup {NoContact}]
    BY <1>1, <2>1, RenewedType
  <2>5. tray' \in Seq(TrayRow)
    BY <2>2, PulledBack DEF SameRecords
  <2> QED  BY <2>1, <2>3, <2>4, <2>5, NoRecheckType DEF BookType, RecheckType
<1>4. CASE EndRecheck
  BY <1>4, NoRecheckType DEF EndRecheck, BookType, bookVars, RecheckType
<1>5. ASSUME NEW l \in Listings, RecoverRow(l) PROVE BookType' /\ RecheckType'
  <2> DEFINE enr == recheck.read[l]
             level == Qualify(TraitsOf[l], enr)
             clash == \E a \in enr.emails : FindExisting(NoKey, {}, {a}) \ {l} # {}
             final == IF clash THEN "REJECT" ELSE level
  <2>1. /\ company' = [company EXCEPT ![l] = Judged(company[l], final)]
        /\ contact' = AddContacts(l, enr.emails, Checked)
        /\ recheck' = [recheck EXCEPT !.rows = recheck.rows \ {l}]
        /\ UNCHANGED <<emailed, tray>>
    BY Zenon, <1>5 DEF RecoverRow
  <2>2. final \in Levels
    BY VerdictTypes DEF Levels
  <2> HIDE DEF final
  <2>3. Judged(company[l], final) \in CompanyRows
    BY <1>1, <2>2, JudgedType
  <2>4. AddContacts(l, enr.emails, Checked) \in [Mailboxes -> ContactRow \cup {NoContact}]
    BY ContactsType, CheckedType
  <2> HIDE DEF enr
  <2>5. recheck' \in RecheckState
    BY <1>1, <2>1 DEF RecheckState
  <2> QED  BY <1>1, <2>1, <2>3, <2>4, <2>5 DEF BookType, RecheckType
<1> QED  BY <1>2, <1>3, <1>4, <1>5 DEF Rechecks, RecheckNext

LEMMA FoundAreKnown ==
  ASSUME NEW key, NEW records, NEW mail
  PROVE  FindExisting(key, records, mail) \subseteq KnownListings
<1> DEFINE sharing(f) == {l \in KnownListings : key[f] # "" /\ KeyOf[l][f] = key[f]}
           sets == <<sharing("domain"), sharing("place"),
                     {l \in KnownListings : company[l].records \cap records # {}},
                     sharing("phone"),
                     {l \in KnownListings : \E a \in mail \cap Mailboxes : contact[a].of = l}>>
           found == {i \in DOMAIN sets : sets[i] # {}}
<1>1. DOMAIN sets = 1 .. 5 /\ \A i \in 1 .. 5 : sets[i] \subseteq KnownListings
  <2>1. \A f : sharing(f) \subseteq KnownListings
    OBVIOUS
  <2> HIDE DEF sharing
  <2> QED  BY <2>1
<1>2. FindExisting(key, records, mail) = Strongest(sets)
  BY DEF FindExisting
<1> HIDE DEF sets
<1>3. found \subseteq 1 .. 5
  BY <1>1
<1>4. Strongest(sets) = IF found = {} THEN {} ELSE sets[CHOOSE i \in found : \A j \in found : i <= j]
  BY DEF Strongest
<1>5. CASE found = {}
  BY <1>2, <1>4, <1>5
<1>6. CASE found # {}
  <2>1. found \in SUBSET Nat
    BY <1>3
  <2> HIDE DEF found
  <2>2. \E i \in found : \A j \in found : i <= j
    BY <1>6, <2>1, LeastNumber
  <2>3. (CHOOSE i \in found : \A j \in found : i <= j) \in found
    BY <2>2
  <2> QED  BY <1>1, <1>2, <1>3, <1>4, <1>6, <2>3
<1> QED  BY <1>5, <1>6

LEMMA ToldType ==
  ASSUME NEW c \in CompanyRows, c # NoCompany, NEW rec \in OldRecords
  PROVE  /\ Told(c, rec) \in CompanyRows
         /\ Told(c, rec).status = "handed_off" => c.status = "handed_off"
<1>1. rec.id \in STRING /\ rec.sent \in BOOLEAN /\ rec.status \in LeadStatuses /\ rec.status # "handed_off"
  BY LeadAssumption DEF OldRecord, LeadStatuses
<1> DEFINE records == c.records \cup {rec.id}
           reached == c.reached \/ rec.sent
           status == IF ImportRank(rec.status) > ImportRank(c.status) THEN rec.status ELSE c.status
           first == [c EXCEPT !.records = records]
           second == [first EXCEPT !.historical = TRUE]
           third == [second EXCEPT !.reached = reached]
           fourth == [third EXCEPT !.status = status]
<1>2. Told(c, rec) = fourth
  BY Zenon DEF Told
<1>3. c \in CompanyRow /\ c.status \in LeadStatuses /\ c.level \in Levels
  BY DEF CompanyRows
<1>4. records \in SUBSET STRING /\ reached \in BOOLEAN /\ status \in LeadStatuses
      /\ (status = "handed_off" => c.status = "handed_off")
  BY <1>1, <1>3 DEF CompanyRow
<1> HIDE DEF records, reached, status
<1>5. first \in CompanyRow /\ first.level = c.level
  BY <1>3, <1>4 DEF CompanyRow
<1> HIDE DEF first
<1>6. second \in CompanyRow /\ second.level = c.level
  BY <1>5 DEF CompanyRow
<1> HIDE DEF second
<1>7. third \in CompanyRow /\ third.level = c.level
  BY <1>4, <1>6, Zenon DEF CompanyRow
<1> HIDE DEF third
<1>8. fourth \in CompanyRow /\ fourth.level = c.level /\ fourth.status = status
  BY <1>4, <1>7 DEF CompanyRow
<1> HIDE DEF fourth
<1>9. fourth \in CompanyRows
  BY <1>3, <1>4, <1>8 DEF CompanyRows
<1> QED  BY <1>2, <1>4, <1>8, <1>9

LEMMA ImportTypes ==
  ASSUME LeadType, Imports
  PROVE  BookType'
<1> USE DEF LeadType
<1>1. PICK rec \in OldRecords : ImportRecord(rec)
  BY DEF Imports, ImportNext
<1>2. /\ rec.id \in STRING /\ rec.at \in Listings /\ rec.mail \subseteq Mailboxes /\ rec.sent \in BOOLEAN
      /\ rec.status \in {"contacted", "unsubscribed", "rejected", "not_ready"}
  BY LeadAssumption DEF OldRecord
<1> DEFINE found == FindExisting(rec.key, {rec.id}, rec.mail)
           l == IF found = {} THEN rec.at ELSE CHOOSE m \in found : TRUE
           fresh == NewCompany(IF rec.status = "not_ready" THEN "LOW" ELSE "REJECT", rec.status, FALSE, {rec.id}, rec.sent)
<1>3. /\ company' = [company EXCEPT ![l] = IF found = {} THEN fresh ELSE Told(company[l], rec)]
      /\ contact' = AddContacts(l, rec.mail, Published)
      /\ emailed' = IF rec.sent THEN emailed \cup rec.mail ELSE emailed
      /\ tray' = tray
  BY Zenon, <1>1 DEF ImportRecord
<1>4. found \subseteq KnownListings
  BY FoundAreKnown
<1>5. l \in Listings /\ (found # {} => l \in KnownListings)
  <2> HIDE DEF found
  <2> QED  BY <1>2, <1>4 DEF KnownListings
<1> HIDE DEF l
<1>6. fresh \in CompanyRows
  <2>1. /\ (IF rec.status = "not_ready" THEN "LOW" ELSE "REJECT") \in Levels /\ rec.status \in LeadStatuses
        /\ {rec.id} \in SUBSET STRING /\ FALSE \in BOOLEAN
    BY <1>2 DEF Levels, LeadStatuses
  <2> QED  BY <1>2, <2>1, NewCompanyType
<1>7. found # {} => Told(company[l], rec) \in CompanyRows
  BY <1>1, <1>5, ToldType DEF KnownListings, Known, BookType
<1> HIDE DEF found, fresh
<1>8. AddContacts(l, rec.mail, Published) \in [Mailboxes -> ContactRow \cup {NoContact}]
  BY <1>5, ContactsType, PublishedType
<1> QED  BY <1>2, <1>3, <1>5, <1>6, <1>7, <1>8 DEF BookType
-------------------------------------------------------------------------------
(* Batches                                                                   *)

LEMMA IdleRunType == IdleRun \in RunState /\ IdleRun.pc = "idle" /\ IdleRun.token = 0
<1>1. <<>> \in Seq(Listings)
  OBVIOUS
<1> QED  BY <1>1 DEF IdleRun, RunState

LEMMA HoldingType ==
  ASSUME NEW token \in Nat, NEW last \in Listings \cup {"none"}
  PROVE  Holding(token, last) \in RunState /\ Holding(token, last).token = token
<1> DEFINE first == [IdleRun EXCEPT !.pc = "locked"]
           second == [first EXCEPT !.token = token]
           third == [second EXCEPT !.last = last]
<1>1. Holding(token, last) = third
  BY Zenon DEF Holding
<1>2. first \in RunState
  BY IdleRunType DEF RunState
<1> HIDE DEF first
<1>3. second \in RunState /\ second.token = token
  BY <1>2 DEF RunState
<1> HIDE DEF second
<1>4. third \in RunState /\ third.token = token
  BY <1>3 DEF RunState
<1> QED  BY <1>1, <1>4, Zenon

LEMMA OverType ==
  ASSUME NEW f \in RunState
  PROVE  Over(f) \in RunState /\ Over(f).token = f.token /\ Over(f).pc = "idle"
BY IdleRunType DEF Over, RunState

LEMMA WithItemsType ==
  ASSUME NEW f \in RunState, NEW new \in BOOLEAN, NEW items \in Seq(Listings)
  PROVE  WithItems(f, new, items) \in RunState /\ WithItems(f, new, items).token = f.token
<1> DEFINE first == [f EXCEPT !.pc = "working"]
           second == [first EXCEPT !.new = new]
           third == [second EXCEPT !.items = items]
<1>1. WithItems(f, new, items) = third
  BY Zenon DEF WithItems
<1>2. first \in RunState /\ first.token = f.token
  BY DEF RunState
<1> HIDE DEF first
<1>3. second \in RunState /\ second.token = f.token
  BY <1>2, Zenon DEF RunState
<1> HIDE DEF second
<1>4. third \in RunState /\ third.token = f.token
  BY <1>3 DEF RunState
<1> QED  BY <1>1, <1>4, Zenon

LEMMA PastItemType ==
  ASSUME NEW f \in RunState, f.items # <<>>, NEW last \in Listings \cup {"none"}
  PROVE  PastItem(f, last) \in RunState /\ PastItem(f, last).token = f.token
<1> DEFINE first == [f EXCEPT !.items = Tail(f.items)]
           second == [first EXCEPT !.last = last]
<1>1. PastItem(f, last) = second
  BY Zenon DEF PastItem
<1>2. f.items \in Seq(Listings)
  BY DEF RunState
<1>3. Tail(f.items) \in Seq(Listings)
  BY <1>2
<1>4. first \in RunState /\ first.token = f.token
  BY <1>3 DEF RunState
<1> HIDE DEF first
<1>5. second \in RunState /\ second.token = f.token
  BY <1>4 DEF RunState
<1> QED  BY <1>1, <1>5, Zenon

LEMMA ClosingType ==
  ASSUME NEW f \in RunState, NEW outcome \in {"completed", "error"}, NEW last \in Listings \cup {"none"}
  PROVE  Closing(f, outcome, last) \in RunState /\ Closing(f, outcome, last).token = f.token
<1> DEFINE first == [f EXCEPT !.pc = "closing"]
           second == [first EXCEPT !.outcome = outcome]
           third == [second EXCEPT !.last = last]
<1>1. Closing(f, outcome, last) = third
  BY Zenon DEF Closing
<1>2. first \in RunState /\ first.token = f.token
  BY DEF RunState
<1> HIDE DEF first
<1>3. second \in RunState /\ second.token = f.token
  BY <1>2 DEF RunState
<1> HIDE DEF second
<1>4. third \in RunState /\ third.token = f.token
  BY <1>3 DEF RunState
<1> QED  BY <1>1, <1>4, Zenon

LEMMA InOrderType ==
  ASSUME NEW set
  PROVE  InOrder(set) \in Seq(Listings)
<1>1. Keeping(IdOrder, set) \in Seq(Listings \cap set) /\ Listings \cap set \subseteq Listings
  BY LeadAssumption, KeepingType
<1> QED  BY <1>1 DEF InOrder

LEMMA BacklogOrderType == FromBookmark(Backlog) \in Seq(Listings)
<1> DEFINE after == InOrder({l \in Backlog : Place(l) > Place(bookmark)})
           before == InOrder({l \in Backlog : Place(l) <= Place(bookmark)})
<1>1. after \in Seq(Listings) /\ before \in Seq(Listings) /\ InOrder(Backlog) \in Seq(Listings)
  BY InOrderType
<1>2. FromBookmark(Backlog) \in {InOrder(Backlog), after \o before}
  BY Zenon DEF FromBookmark
<1> HIDE DEF after, before
<1>3. after \o before \in Seq(Listings)
  BY <1>1
<1> QED  BY <1>1, <1>2, <1>3, Zenon

LEMMA AtMostType ==
  ASSUME NEW seq \in Seq(Listings)
  PROVE  AtMost(seq, BatchSize) \in Seq(Listings)
BY LeadAssumption DEF AtMost

\* A token is taken only while a larger one is left: it is nobody's yet.
LEMMA TokenIsNew ==
  ASSUME BatchType, \A t \in Tokens : t < MaxTokens
  PROVE  NewToken \in Nat /\ NewToken > 0 /\ \A t \in Tokens : t < NewToken
<1>1. Tokens \subseteq Nat /\ lock.token \in Tokens
  BY DEF BatchType, Tokens, RunState
<1>2. MaxTokens \in 1 .. MaxTokens
  <2>1. lock.token < MaxTokens /\ lock.token \in Nat /\ MaxTokens \in Nat
    BY <1>1, LeadAssumption
  <2> QED  BY <2>1
<1>3. NewToken \in 1 .. MaxTokens /\ \A t \in Tokens : t < NewToken
  BY <1>2 DEF NewToken
<1> QED  BY <1>3, LeadAssumption

\* A lock that is young and one's own stays so until one releases it.
LockKept ==
  \A b \in BatchRuns :
    lock.on /\ ~lock.stale /\ lock.token = run[b].token /\ run'[b].pc # "idle"
      => lock'.on /\ lock'.token = run[b].token

\* Steps that leave the tokens and the lock as they are.
LEMMA SameTokens ==
  ASSUME BatchType, TokensDiffer, NEW b \in BatchRuns, NEW f \in RunState, f.token = run[b].token,
         run' = [run EXCEPT ![b] = f], lock' = lock, bookmark' = bookmark
  PROVE  BatchType' /\ TokensDiffer' /\ LockKept
<1>1. run' \in [BatchRuns -> RunState] /\ \A c \in BatchRuns : run'[c].token = run[c].token
  BY DEF BatchType
<1>2. BatchType'
  BY <1>1 DEF BatchType
<1>3. TokensDiffer'
  BY <1>1 DEF TokensDiffer
<1>4. LockKept
  BY DEF LockKept
<1> QED  BY <1>2, <1>3, <1>4

LEMMA BatchLock ==
  ASSUME LeadType, TokensDiffer, RunsBatches
  PROVE  BatchType' /\ TokensDiffer' /\ LockKept
<1> USE DEF LeadType
<1>1. /\ lock \in [on : BOOLEAN, token : Nat, stale : BOOLEAN] /\ bookmark \in Listings \cup {"none"}
      /\ run \in [BatchRuns -> RunState]
  BY DEF BatchType
<1>2. \A b \in BatchRuns : run[b] \in RunState /\ run[b].last \in Listings \cup {"none"} /\ run[b].items \in Seq(Listings)
  BY <1>1 DEF RunState
<1>3. ASSUME NEW b \in BatchRuns, Acquire(b) PROVE BatchType' /\ TokensDiffer' /\ LockKept
  <2>1. /\ lock' = [on |-> TRUE, token |-> NewToken, stale |-> FALSE]
        /\ run' = [run EXCEPT ![b] = Holding(NewToken, bookmark)]
        /\ bookmark' = bookmark /\ ~(lock.on /\ ~lock.stale) /\ \A t \in Tokens : t < MaxTokens
    BY <1>3 DEF Acquire
  <2>2. NewToken \in Nat /\ NewToken > 0 /\ \A t \in Tokens : t < NewToken
    BY <2>1, TokenIsNew
  <2>3. Holding(NewToken, bookmark) \in RunState /\ Holding(NewToken, bookmark).token = NewToken
    BY <1>1, <2>2, HoldingType
  <2>4. BatchType'
    BY <1>1, <2>1, <2>2, <2>3 DEF BatchType
  <2>5. \A c \in BatchRuns : run[c].token \in Tokens
    BY DEF Tokens
  <2>6. \A c \in BatchRuns : run[c].token # NewToken
    BY <1>2, <2>2, <2>5 DEF RunState
  <2>7. run'[b].token = NewToken /\ \A c \in BatchRuns : c # b => run'[c] = run[c]
    BY <1>1, <2>1, <2>3
  <2>8. TokensDiffer'
    BY <2>1, <2>2, <2>6, <2>7 DEF TokensDiffer
  <2>9. LockKept
    BY <2>1 DEF LockKept
  <2> QED  BY <2>4, <2>8, <2>9
<1>4. ASSUME NEW b \in BatchRuns, TakeBacklog(b) PROVE BatchType' /\ TokensDiffer' /\ LockKept
  <2>1. AtMost(FromBookmark(Backlog), BatchSize) \in Seq(Listings)
    BY BacklogOrderType, AtMostType
  <2>2. /\ run' = [run EXCEPT ![b] = WithItems(run[b], FALSE, AtMost(FromBookmark(Backlog), BatchSize))]
        /\ lock' = lock /\ bookmark' = bookmark
    BY <1>4 DEF TakeBacklog
  <2> QED  BY <1>2, <2>1, <2>2, WithItemsType, SameTokens
<1>5. ASSUME NEW b \in BatchRuns, TakeNew(b) PROVE BatchType' /\ TokensDiffer' /\ LockKept
  <2>1. PICK found \in SearchResults : run' = [run EXCEPT ![b] = WithItems(run[b], TRUE, AtMost(found, BatchSize))]
    BY <1>5 DEF TakeNew
  <2>2. AtMost(found, BatchSize) \in Seq(Listings)
    BY LeadAssumption, AtMostType
  <2>3. lock' = lock /\ bookmark' = bookmark
    BY <1>5 DEF TakeNew
  <2> QED  BY <1>2, <2>1, <2>2, <2>3, WithItemsType, SameTokens
<1>6. ASSUME NEW b \in BatchRuns, EndItems(b) PROVE BatchType' /\ TokensDiffer' /\ LockKept
  BY <1>2, <1>6, ClosingType, SameTokens DEF EndItems
<1>7. ASSUME NEW b \in BatchRuns, BatchDies(b) PROVE BatchType' /\ TokensDiffer' /\ LockKept
  BY <1>2, <1>7, OverType, SameTokens DEF BatchDies
<1>8. ASSUME NEW b \in BatchRuns, Release(b) PROVE BatchType' /\ TokensDiffer' /\ LockKept
  <2>1. /\ lock' = IF MayRelease(b) THEN FreeLock ELSE lock
        /\ bookmark' = IF MayRelease(b) /\ run[b].last # "none" THEN run[b].last ELSE bookmark
        /\ run' = [run EXCEPT ![b] = Over(run[b])]
    BY <1>8 DEF Release
  <2>2. Over(run[b]) \in RunState /\ Over(run[b]).token = run[b].token /\ Over(run[b]).pc = "idle"
    BY <1>2, OverType
  <2>3. run' \in [BatchRuns -> RunState] /\ \A c \in BatchRuns : run'[c].token = run[c].token
    BY <1>1, <2>1, <2>2
  <2>4. BatchType'
    BY <1>1, <1>2, <2>1, <2>3 DEF BatchType, FreeLock
  <2>5. TokensDiffer'
    BY <2>1, <2>3 DEF TokensDiffer, FreeLock
  <2>6. ASSUME NEW c \in BatchRuns, lock.on, lock.token = run[c].token, run'[c].pc # "idle"
        PROVE  lock' = lock
    <3>1. c # b
      BY <1>1, <2>1, <2>2, <2>6
    <3>2. lock.token > 0 /\ lock.token \in Nat
      BY <1>1, <2>6 DEF TokensDiffer
    <3>3. run[c].token # run[b].token
      BY <2>6, <3>1, <3>2 DEF TokensDiffer
    <3> QED  BY <2>1, <2>6, <3>2, <3>3 DEF MayRelease
  <2>7. LockKept
    BY <2>6 DEF LockKept
  <2> QED  BY <2>4, <2>5, <2>7
<1>9. ASSUME NEW b \in BatchRuns, Working(b), NEW enr, WorkKnown(b, enr) \/ WorkNew(b, enr) \/ WorkRaises(b, enr)
      PROVE  BatchType' /\ TokensDiffer' /\ LockKept
  <2>1. run[b].items # <<>> /\ Item(b) \in Listings
    BY <1>2, <1>9 DEF Working, Item
  <2>2. \E last \in Listings \cup {"none"} :
          run' \in {[run EXCEPT ![b] = PastItem(run[b], last)], [run EXCEPT ![b] = Closing(run[b], "error", last)]}
    <3>1. ASSUME WorkKnown(b, enr) PROVE run' = [run EXCEPT ![b] = PastItem(run[b], Item(b))]
      BY <3>1 DEF WorkKnown, NextItem
    <3>2. ASSUME WorkNew(b, enr)
          PROVE  \E last \in {run[b].last, Item(b)} : run' = [run EXCEPT ![b] = PastItem(run[b], last)]
      BY <3>2, Zenon DEF WorkNew, NextItem
    <3>3. ASSUME WorkRaises(b, enr)
          PROVE  \E last \in {run[b].last, Item(b)} : run' = [run EXCEPT ![b] = Closing(run[b], "error", last)]
      BY <3>3, Zenon DEF WorkRaises
    <3> QED  BY <1>2, <1>9, <2>1, <3>1, <3>2, <3>3
  <2>3. lock' = lock /\ bookmark' = bookmark
    BY <1>9 DEF WorkKnown, WorkNew, WorkRaises
  <2>4. PICK last \in Listings \cup {"none"} :
          run' \in {[run EXCEPT ![b] = PastItem(run[b], last)], [run EXCEPT ![b] = Closing(run[b], "error", last)]}
    BY <2>2
  <2>5. CASE run' = [run EXCEPT ![b] = PastItem(run[b], last)]
    BY <1>2, <2>1, <2>3, <2>5, PastItemType, SameTokens
  <2>6. CASE run' = [run EXCEPT ![b] = Closing(run[b], "error", last)]
    BY <1>2, <2>3, <2>6, ClosingType, SameTokens
  <2> QED  BY <2>4, <2>5, <2>6
<1>11. ASSUME NEW b \in BatchRuns, DatabaseFails(b) PROVE BatchType' /\ TokensDiffer' /\ LockKept
  <2>1. run[b].items # <<>> /\ Item(b) \in Listings
    BY <1>2, <1>11 DEF DatabaseFails, Working, Item
  <2>2. \E last \in {Item(b), run[b].last} : run' = [run EXCEPT ![b] = Closing(run[b], "error", last)]
    BY <1>11, Zenon DEF DatabaseFails
  <2>3. PICK last \in Listings \cup {"none"} : run' = [run EXCEPT ![b] = Closing(run[b], "error", last)]
    BY <1>2, <2>1, <2>2
  <2>4. lock' = lock /\ bookmark' = bookmark
    BY <1>11 DEF DatabaseFails
  <2> QED  BY <1>2, <2>3, <2>4, ClosingType, SameTokens
<1>10. CASE LockAges
  <2>1. lock' = [lock EXCEPT !.stale = TRUE] /\ bookmark' = bookmark /\ run' = run
    BY <1>10 DEF LockAges
  <2>2. lock' \in [on : BOOLEAN, token : Nat, stale : BOOLEAN] /\ lock'.on = lock.on /\ lock'.token = lock.token
    BY <1>1, <2>1
  <2> QED  BY <1>1, <2>1, <2>2 DEF BatchType, TokensDiffer, LockKept
<1> QED  BY <1>3, <1>4, <1>5, <1>6, <1>7, <1>8, <1>9, <1>10, <1>11 DEF RunsBatches, BatchNext

LEMMA BatchTypes ==
  ASSUME LeadType, RunsBatches
  PROVE  BookType' /\ tray' = tray
         /\ \A l \in Listings : company'[l].status = "handed_off" => company[l].status = "handed_off"
<1> USE DEF LeadType
<1>1. company \in [Listings -> CompanyRows]
  BY DEF BookType
<1>2. ASSUME UNCHANGED bookVars PROVE BookType' /\ tray' = tray /\ company' = company
  BY <1>2 DEF BookType, bookVars
<1>3. ASSUME NEW b \in BatchRuns, Working(b), NEW enr, WorkKnown(b, enr) \/ WorkNew(b, enr)
      PROVE  BookType' /\ tray' = tray
             /\ \A l \in Listings : company'[l].status = "handed_off" => company[l].status = "handed_off"
  <2> DEFINE m == Item(b)
             level == Qualify(TraitsOf[m], enr)
             fresh == NewCompany(level, VerdictStatus(level), TRUE, {}, FALSE)
             row == Judged(company[m], level)
  <2>1. m \in Listings
    BY <1>3 DEF Working, Item, BatchType, RunState
  <2>2. level \in Levels /\ VerdictStatus(level) \in LeadStatuses /\ VerdictStatus(level) # "handed_off"
    BY VerdictTypes, VerdictStatuses
  <2>3. \/ company' = company
        \/ company' = [company EXCEPT ![m] = row]
        \/ company' = [company EXCEPT ![m] = fresh]
    BY <1>3, Zenon DEF WorkKnown, WorkNew
  <2>4. contact' = contact \/ contact' = AddContacts(m, enr.emails, Checked)
    BY <1>3, Zenon DEF WorkKnown, WorkNew
  <2>5. emailed' = emailed /\ tray' = tray
    BY <1>3 DEF WorkKnown, WorkNew
  <2> HIDE DEF m, level
  <2>6. row \in CompanyRows /\ row.status = VerdictStatus(level)
    BY <1>1, <2>1, <2>2, JudgedType
  <2>7. fresh \in CompanyRows /\ fresh.status = VerdictStatus(level)
    <3>1. {} \in SUBSET STRING /\ TRUE \in BOOLEAN /\ FALSE \in BOOLEAN
      OBVIOUS
    <3> QED  BY <2>2, <3>1, NewCompanyType
  <2>8. AddContacts(m, enr.emails, Checked) \in [Mailboxes -> ContactRow \cup {NoContact}]
    BY <2>1, ContactsType, CheckedType
  <2> HIDE DEF row, fresh
  <2>9. company' \in [Listings -> CompanyRows]
    BY <1>1, <2>1, <2>3, <2>6, <2>7
  <2>10. BookType'
    BY <2>4, <2>5, <2>8, <2>9 DEF BookType
  <2>11. \A l \in Listings : company'[l].status = "handed_off" => company[l].status = "handed_off"
    BY <1>1, <2>1, <2>2, <2>3, <2>6, <2>7
  <2> QED  BY <2>5, <2>10, <2>11
<1>4. UNCHANGED bookVars \/ \E b \in BatchRuns : Working(b) /\ \E enr : WorkKnown(b, enr) \/ WorkNew(b, enr)
  BY Zenon DEF RunsBatches, BatchNext, Acquire, TakeBacklog, TakeNew, DatabaseFails, EndItems, Release, BatchDies, LockAges, WorkRaises
<1> QED  BY <1>2, <1>3, <1>4

\* What every step but a handoff's own leaves as it is, for the sake of the tray.
Untouched ==
  /\ SameRecords(tray', tray)
  /\ \A l \in Listings : company'[l].status = "handed_off" =>
       company[l].status = "handed_off" \/ recheck.was[l] = "handed_off"
  /\ \A l \in Listings : recheck'.was[l] = "handed_off" =>
       company[l].status = "handed_off" \/ recheck.was[l] = "handed_off"

LEMMA BatchUntouched == ASSUME LeadType, RunsBatches PROVE Untouched
<1>1. recheck' = recheck
  BY DEF RunsBatches, intakeVars
<1> QED  BY <1>1, BatchTypes, RecordsStay DEF LeadType, Untouched

LEMMA SearchUntouched ==
  ASSUME LeadType, Searches
  PROVE  Untouched
<1>1. PICK r \in Intakes : TakeBatch(r) \/ ReadSites(r) \/ LookUpAgain(r) \/ InsertCandidate(r)
                          \/ DropConnection(r) \/ EndBatch(r)
  BY DEF Searches, SearchNext
<1> DEFINE l == Current(r)
           level == Qualify(TraitsOf[l], intake[r].read[l])
           fresh == NewCompany(level, VerdictStatus(level), intake[r].read[l] # Unread, {}, FALSE)
<1>2. tray' = tray /\ recheck' = recheck
  BY <1>1 DEF TakeBatch, ReadSites, LookUpAgain, InsertCandidate, DropConnection, EndBatch, bookVars
<1>3. company' = company \/ company' = [company EXCEPT ![l] = fresh]
  BY <1>1, Zenon DEF TakeBatch, ReadSites, LookUpAgain, InsertCandidate, DropConnection, EndBatch, bookVars
<1>4. fresh.status # "handed_off"
  BY VerdictStatuses DEF NewCompany
<1> HIDE DEF l, fresh
<1>5. company \in [Listings -> CompanyRows] /\ SameRecords(tray, tray)
  BY RecordsStay DEF LeadType, BookType
<1> QED  BY <1>2, <1>3, <1>4, <1>5 DEF Untouched

LEMMA RecheckUntouched ==
  ASSUME LeadType, Rechecks
  PROVE  Untouched
<1>1. company \in [Listings -> CompanyRows] /\ SameRecords(tray, tray) /\ recheck \in RecheckState
  BY RecordsStay DEF LeadType, BookType, RecheckType
<1>2. CASE PickRows
  <2>1. \A l \in Listings : recheck'.was[l] \in {company[l].status, "none"}
    <3>1. PICK kind \in {"recover", "requalify"} :
            LET rows == IF kind = "recover" THEN Recoverable ELSE Requalifiable IN
            \E read \in [Listings -> AnyReading] :
              recheck' = [kind |-> kind, rows |-> rows, read |-> read, refs |-> {l \in rows : company[l].tagged},
                          was |-> [l \in Listings |-> IF l \in rows THEN company[l].status ELSE "none"]]
      BY Zenon, <1>2 DEF PickRows
    <3> DEFINE rows == IF kind = "recover" THEN Recoverable ELSE Requalifiable
    <3>2. PICK read \in [Listings -> AnyReading] :
            recheck' = [kind |-> kind, rows |-> rows, read |-> read, refs |-> {l \in rows : company[l].tagged},
                        was |-> [l \in Listings |-> IF l \in rows THEN company[l].status ELSE "none"]]
      BY <3>1
    <3> HIDE DEF rows
    <3> QED  BY <3>2
  <2>2. tray' = tray /\ company' = company
    BY <1>2 DEF PickRows, bookVars
  <2> QED  BY <1>1, <2>1, <2>2 DEF Untouched
<1>3. CASE RequalifyRows
  <2>1. /\ company' = [l \in Listings |-> IF l \in recheck.rows THEN Requalified(l) ELSE company[l]]
        /\ recheck' = NoRecheck
    BY <1>3 DEF RequalifyRows
  <2>2. SameRecords(tray', tray)
    BY <1>3, PulledBack DEF RequalifyRows, LeadType
  <2>3. \A l \in Listings : NoRecheck.was[l] = "none"
    BY DEF NoRecheck
  <2> QED  BY <1>1, <2>1, <2>2, <2>3, RequalifiedType DEF Untouched
<1>4. CASE EndRecheck
  <2>1. \A l \in Listings : NoRecheck.was[l] = "none"
    BY DEF NoRecheck
  <2> QED  BY <1>1, <1>4, <2>1 DEF EndRecheck, bookVars, Untouched
<1>5. ASSUME NEW m \in Listings, RecoverRow(m) PROVE Untouched
  <2>1. PICK level \in Levels : company' = [company EXCEPT ![m] = Judged(company[m], level)]
    <3>1. PICK level \in {"REJECT", Qualify(TraitsOf[m], recheck.read[m])} :
            company' = [company EXCEPT ![m] = Judged(company[m], level)]
      BY <1>5, Zenon DEF RecoverRow
    <3> QED  BY <3>1, VerdictTypes DEF Levels
  <2>2. Judged(company[m], level).status # "handed_off"
    BY <1>1, JudgedType, VerdictStatuses
  <2>3. tray' = tray /\ recheck' = [recheck EXCEPT !.rows = recheck.rows \ {m}]
    BY <1>5 DEF RecoverRow
  <2>4. recheck'.was = recheck.was
    BY <1>1, <2>3 DEF RecheckState
  <2> QED  BY <1>1, <2>1, <2>2, <2>3, <2>4 DEF Untouched
<1> QED  BY <1>2, <1>3, <1>4, <1>5 DEF Rechecks, RecheckNext

LEMMA ImportUntouched ==
  ASSUME LeadType, Imports
  PROVE  Untouched
<1>1. company \in [Listings -> CompanyRows] /\ SameRecords(tray, tray)
  BY RecordsStay DEF LeadType, BookType
<1>2. PICK rec \in OldRecords : ImportRecord(rec)
  BY DEF Imports, ImportNext
<1> DEFINE found == FindExisting(rec.key, {rec.id}, rec.mail)
           l == IF found = {} THEN rec.at ELSE CHOOSE m \in found : TRUE
           fresh == NewCompany(IF rec.status = "not_ready" THEN "LOW" ELSE "REJECT", rec.status, FALSE, {rec.id}, rec.sent)
           new == IF found = {} THEN fresh ELSE Told(company[l], rec)
<1>3. company' = [company EXCEPT ![l] = new] /\ tray' = tray /\ recheck' = recheck
  BY <1>2, Zenon DEF ImportRecord, intakeVars
<1>4. found # {} => l \in KnownListings
  <2>1. found \subseteq KnownListings
    BY FoundAreKnown
  <2> HIDE DEF found
  <2> QED  BY <2>1
<1>5. fresh.status # "handed_off"
  BY LeadAssumption DEF NewCompany, OldRecord
<1> HIDE DEF found, l
<1>6. new.status = "handed_off" => company[l].status = "handed_off"
  <2>1. CASE found = {}
    BY <1>5, <2>1
  <2>2. CASE found # {}
    BY <1>1, <1>4, <2>2, ToldType DEF KnownListings, Known
  <2> QED  BY <2>1, <2>2
<1> HIDE DEF new
<1> QED  BY <1>1, <1>3, <1>6 DEF Untouched
-------------------------------------------------------------------------------
(* The hand-off                                                              *)

\* How many records wait, and what a shorter or longer tray does to it.
LEMMA WaitingIsNumber ==
  ASSUME NEW t \in Seq(TrayRow)
  PROVE  IsFiniteSet(WaitingIn(t)) /\ Cardinality(WaitingIn(t)) \in Nat
<1>1. IsFiniteSet(1 .. Len(t)) /\ WaitingIn(t) \subseteq 1 .. Len(t)
  BY FS_Interval DEF WaitingIn
<1> QED  BY <1>1, FS_Subset, FS_CardinalityType

LEMMA FewerWait ==
  ASSUME NEW new, NEW old \in Seq(TrayRow), SameRecords(new, old)
  PROVE  Cardinality(WaitingIn(new)) <= Cardinality(WaitingIn(old))
BY WaitingIsNumber, FS_Subset DEF SameRecords

LEMMA ChunkWaits ==
  ASSUME NEW t \in Seq(TrayRow), NEW chunk \in Seq(TrayRow)
  PROVE  Cardinality(WaitingIn(t \o chunk)) <= Cardinality(WaitingIn(t)) + Len(chunk)
<1> DEFINE added == (Len(t) + 1) .. (Len(t) + Len(chunk))
<1>1. IsFiniteSet(added) /\ Cardinality(added) = Len(chunk)
  <2> DEFINE first == Len(t) + 1
             last == Len(t) + Len(chunk)
  <2>1. Len(t) \in Nat /\ Len(chunk) \in Nat
    OBVIOUS
  <2>2. first \in Int /\ last \in Int /\ (first > last <=> Len(chunk) = 0) /\ last - first + 1 = Len(chunk)
    BY <2>1
  <2> HIDE DEF first, last
  <2>3. IsFiniteSet(first .. last) /\ Cardinality(first .. last) = IF first > last THEN 0 ELSE last - first + 1
    BY <2>2, FS_Interval
  <2> QED  BY <2>2, <2>3 DEF first, last
<1>2. WaitingIn(t \o chunk) \subseteq WaitingIn(t) \cup added
  <2> SUFFICES ASSUME NEW i \in WaitingIn(t \o chunk), i \notin added
               PROVE  i \in WaitingIn(t)
    OBVIOUS
  <2>1. i \in 1 .. Len(t) /\ (t \o chunk)[i] = t[i]
    BY DEF WaitingIn
  <2> QED  BY <2>1 DEF WaitingIn
<1> HIDE DEF added
<1>3. IsFiniteSet(WaitingIn(t)) /\ Cardinality(WaitingIn(t)) \in Nat
  BY WaitingIsNumber
<1>4. /\ IsFiniteSet(WaitingIn(t) \cup added)
      /\ Cardinality(WaitingIn(t) \cup added) <= Cardinality(WaitingIn(t)) + Cardinality(added)
  <2>1. /\ IsFiniteSet(WaitingIn(t) \cup added)
        /\ Cardinality(WaitingIn(t) \cup added)
             = Cardinality(WaitingIn(t)) + Cardinality(added) - Cardinality(WaitingIn(t) \cap added)
    BY <1>1, <1>3, FS_Union
  <2>2. Cardinality(WaitingIn(t) \cap added) \in Nat
    BY <1>3, FS_Subset, FS_CardinalityType
  <2>3. Cardinality(added) \in Nat
    BY <1>1, FS_CardinalityType
  <2> QED  BY <1>3, <2>1, <2>2, <2>3
<1>5. Cardinality(WaitingIn(t \o chunk)) <= Cardinality(WaitingIn(t) \cup added) /\ Cardinality(WaitingIn(t \o chunk)) \in Nat
      /\ Cardinality(WaitingIn(t) \cup added) \in Nat
  BY <1>2, <1>4, FS_Subset, FS_CardinalityType
<1> QED  BY <1>1, <1>3, <1>4, <1>5

\* The room that a hand-off takes to be left, as numbers.
LEMMA SpaceIsLeft ==
  ASSUME NEW seen \in Seq(TrayRow)
  PROVE  Space(seen) \in Int /\ Space(seen) + Cardinality(WaitingIn(seen)) <= Window
<1>1. {i \in DOMAIN seen : ~seen[i].sent /\ seen[i].status = "Ready"} = WaitingIn(seen)
  BY Zenon DEF WaitingIn
<1>2. Cardinality(WaitingIn(seen)) \in Nat /\ Len(seen) \in Nat /\ Window \in Nat /\ Ceiling \in Nat
  BY WaitingIsNumber, LeadAssumption
<1> DEFINE waiting == Cardinality(WaitingIn(seen))
<1>3. Space(seen) = IF Window - waiting < Ceiling - Len(seen) THEN Window - waiting ELSE Ceiling - Len(seen)
  BY <1>1 DEF Space
<1> HIDE DEF waiting
<1> QED  BY <1>2, <1>3 DEF waiting

\* What a hand-off may still create is a number, at most a window, and something
\* only while it is topping up.
LEMMA OwedIsNumber ==
  ASSUME NEW f \in HandoffState, WellFormed(f)
  PROVE  Owed(f) \in 0 .. Window /\ (Owed(f) > 0 => f.pc \in {"listed", "synced", "creating"})
<1>1. Window \in Nat
  BY LeadAssumption
<1>2. CASE f.pc \in {"listed", "synced"}
  <2>1. f.seen \in Seq(TrayRow)
    BY DEF HandoffState
  <2> DEFINE w == Cardinality(WaitingIn(f.seen))
  <2>2. w \in Nat
    BY <2>1, WaitingIsNumber
  <2>3. Owed(f) = IF Window > w THEN Window - w ELSE 0
    BY <1>2 DEF Owed
  <2> HIDE DEF w
  <2>4. Owed(f) \in 0 .. Window
    BY <1>1, <2>2, <2>3
  <2> QED  BY <1>2, <2>4
<1>3. CASE f.pc = "creating"
  <2>1. Len(f.rows) \in Nat /\ Len(f.made) \in Nat
    BY DEF HandoffState
  <2> QED  BY <1>1, <1>3, <2>1 DEF Owed, WellFormed
<1>4. CASE f.pc \notin {"listed", "synced", "creating"}
  <2>1. Owed(f) = 0
    BY <1>4 DEF Owed
  <2> QED  BY <1>1, <2>1
<1> QED  BY <1>2, <1>3, <1>4

LEMMA ReservedIsFinite ==
  /\ IsFiniteSet(Reserved) /\ Cardinality(Reserved) \in Nat
  /\ IsFiniteSet(ToppingUp) /\ Cardinality(ToppingUp) \in Nat
<1>1. IsFiniteSet(Handoffs) /\ Window \in Nat /\ 1 \in Int
  BY LeadAssumption
<1>2. IsFiniteSet(1 .. Window)
  BY <1>1, FS_Interval
<1>3. IsFiniteSet(Handoffs \X (1 .. Window))
  BY <1>1, <1>2, FS_Product
<1>4. Reserved \subseteq Handoffs \X (1 .. Window) /\ ToppingUp \subseteq Handoffs
  BY DEF Reserved, ToppingUp
<1> QED  BY <1>1, <1>3, <1>4, FS_Subset, FS_CardinalityType

\* A hand-off that gives up n of its places leaves n places fewer taken.
LEMMA ReservedShrinks ==
  ASSUME HandoffType, NEW h \in Handoffs, NEW f \in HandoffState, WellFormed(f), WellFormed(handoff[h]),
         handoff' = [handoff EXCEPT ![h] = f], NEW n \in Nat, Owed(f) + n <= Owed(handoff[h])
  PROVE  Cardinality(Reserved') + n <= Cardinality(Reserved) /\ Cardinality(Reserved') \in Nat
<1> DEFINE now == Owed(handoff[h])
           then == Owed(f)
           given == (then + 1) .. (then + n)
           slice == {h} \X given
<1>1. handoff[h] \in HandoffState
  BY DEF HandoffType
<1>2. now \in 0 .. Window /\ then \in 0 .. Window /\ Window \in Nat
  BY <1>1, OwedIsNumber, LeadAssumption
<1>3. then + n <= now
  OBVIOUS
<1>4. \A g \in Handoffs : handoff'[g] = IF g = h THEN f ELSE handoff[g]
  BY DEF HandoffType
<1>5. Reserved' = {p \in Handoffs \X (1 .. Window) : p[2] <= Owed(handoff'[p[1]])}
  BY DEF Reserved
<1> HIDE DEF now, then
<1>6. IsFiniteSet(given) /\ Cardinality(given) = n
  <2>1. then + 1 \in Int /\ then + n \in Int /\ (then + 1 > then + n <=> n = 0) /\ (then + n) - (then + 1) + 1 = n
    BY <1>2
  <2>2. IsFiniteSet(given) /\ Cardinality(given) = IF then + 1 > then + n THEN 0 ELSE (then + n) - (then + 1) + 1
    BY <2>1, FS_Interval
  <2> QED  BY <2>1, <2>2
<1>7. given \subseteq 1 .. Window /\ \A k \in given : k <= now /\ ~(k <= then)
  BY <1>2, <1>3
<1> HIDE DEF given
<1>8. IsFiniteSet(slice) /\ Cardinality(slice) = n
  <2>1. IsFiniteSet({h}) /\ Cardinality({h}) = 1
    BY FS_Singleton
  <2>2. IsFiniteSet(slice) /\ Cardinality(slice) = 1 * Cardinality(given)
    BY <1>6, <2>1, FS_Product
  <2> QED  BY <1>6, <2>2
<1>9. slice \subseteq Reserved
  <2> SUFFICES ASSUME NEW p \in slice PROVE p \in Reserved
    OBVIOUS
  <2>1. p \in Handoffs \X (1 .. Window) /\ p[1] = h /\ p[2] \in given
    BY <1>7
  <2>2. p[2] <= Owed(handoff[p[1]])
    BY <1>7, <2>1 DEF now
  <2> QED  BY <2>1, <2>2 DEF Reserved
<1>10. Reserved' \subseteq Reserved
  <2> SUFFICES ASSUME NEW p \in Reserved' PROVE p \in Reserved
    OBVIOUS
  <2>1. p \in Handoffs \X (1 .. Window) /\ p[1] \in Handoffs /\ p[2] \in 1 .. Window /\ p[2] <= Owed(handoff'[p[1]])
    BY <1>5
  <2>2. p[2] <= Owed(handoff[p[1]])
    <3>1. CASE p[1] = h
      <4>1. p[2] <= then
        BY <1>4, <2>1, <3>1 DEF then
      <4>2. p[2] <= now
        BY <1>2, <1>3, <2>1, <4>1
      <4> QED  BY <3>1, <4>2 DEF now
    <3>2. CASE p[1] # h
      BY <1>4, <2>1, <3>2
    <3> QED  BY <3>1, <3>2
  <2> QED  BY <2>1, <2>2 DEF Reserved
<1>11. Reserved' \cap slice = {}
  <2> SUFFICES ASSUME NEW p \in Reserved', p \in slice PROVE FALSE
    OBVIOUS
  <2>1. p[1] = h /\ p[2] \in given
    OBVIOUS
  <2>2. p[2] <= Owed(handoff'[p[1]])
    BY <1>5
  <2>3. p[2] <= then
    BY <1>4, <2>1, <2>2 DEF then
  <2> QED  BY <1>7, <2>1, <2>3
<1> HIDE DEF slice
<1>12. IsFiniteSet(Reserved) /\ Cardinality(Reserved) \in Nat
  BY ReservedIsFinite
<1>13. IsFiniteSet(Reserved') /\ Cardinality(Reserved') \in Nat
  BY <1>10, <1>12, FS_Subset, FS_CardinalityType
<1>14. Cardinality(Reserved' \cup slice) = Cardinality(Reserved') + Cardinality(slice) - Cardinality(Reserved' \cap slice)
  BY <1>8, <1>13, FS_Union
<1>15. Cardinality(Reserved' \cap slice) = 0
  BY <1>11, FS_EmptySet
<1>16. Reserved' \cup slice \in SUBSET Reserved
  BY <1>9, <1>10
<1>17. Cardinality(Reserved' \cup slice) <= Cardinality(Reserved)
  BY <1>12, <1>16, FS_Subset
<1> QED  BY <1>8, <1>12, <1>13, <1>14, <1>15, <1>17
LeadInv == LeadType /\ TokensDiffer /\ RoomIsLeft /\ HandedOffHasRecord

\* What a step of the hand-off owes.
HandoffKept == BookType' /\ HandoffType' /\ RoomIsLeft' /\ HandedOffHasRecord'

\* Whoever was handed off still has a record, and nobody is without one.
RecordsKept ==
  /\ \A l \in Listings : InTray(l) => HasRecord(tray', l)
  /\ \A l \in Listings : company'[l].status = "handed_off" => company[l].status = "handed_off" \/ HasRecord(tray', l)

LEMMA RecordsInTrayStay == ASSUME tray' = tray PROVE \A l \in Listings : InTray(l) => HasRecord(tray', l)
BY DEF InTray

\* A step of one hand-off that adds at most n records and gives up as many of
\* the places that were its own.
LEMMA StepKeeps ==
  ASSUME LeadInv, NEW h \in Handoffs, NEW f \in HandoffState, handoff' = [handoff EXCEPT ![h] = f], WellFormed(f),
         f.pc \in {"listed", "synced", "creating"} => h \in ToppingUp,
         NEW n \in Nat, Owed(f) + n <= Owed(handoff[h]),
         Cardinality(WaitingIn(tray')) <= Cardinality(WaitingIn(tray)) + n,
         abreast' = abreast, recheck' = recheck, BookType', RecordsKept,
         \A i \in DOMAIN f.made : HasRecord(tray', f.made[i].of)
  PROVE  HandoffKept
<1>1. handoff \in [Handoffs -> HandoffState] /\ abreast \in Nat /\ \A g \in Handoffs : WellFormed(handoff[g])
  BY DEF LeadInv, LeadType, HandoffType, RoomIsLeft
<1>2. HandoffType'
  BY <1>1 DEF HandoffType
<1>3. \A g \in Handoffs : handoff'[g] = IF g = h THEN f ELSE handoff[g]
  BY <1>1
<1>4. RoomIsLeft'
  <2>1. \A g \in Handoffs : WellFormed(handoff'[g])
    BY <1>1, <1>3
  <2>2. ToppingUp' \in SUBSET ToppingUp
    BY <1>3 DEF ToppingUp
  <2>3. Cardinality(ToppingUp') <= Cardinality(ToppingUp) /\ Cardinality(ToppingUp') \in Nat
    BY <2>2, ReservedIsFinite, FS_Subset, FS_CardinalityType
  <2>4. Cardinality(Reserved') + n <= Cardinality(Reserved) /\ Cardinality(Reserved') \in Nat
    BY <1>1, ReservedShrinks DEF LeadInv, LeadType
  <2>5. Cardinality(WaitingIn(tray)) \in Nat /\ Cardinality(WaitingIn(tray')) \in Nat
    BY WaitingIsNumber DEF LeadInv, LeadType, BookType
  <2>6. Cardinality(Reserved) \in Nat /\ Cardinality(ToppingUp) \in Nat
    BY ReservedIsFinite
  <2> DEFINE most == Window * abreast
  <2>7. most \in Int
    BY <1>1, LeadAssumption
  <2>8. Cardinality(WaitingIn(tray)) + Cardinality(Reserved) <= most /\ Cardinality(ToppingUp) <= abreast
    BY DEF LeadInv, RoomIsLeft
  <2> HIDE DEF most
  <2>9. Cardinality(WaitingIn(tray')) + Cardinality(Reserved') <= most /\ Cardinality(ToppingUp') <= abreast
    BY <1>1, <2>3, <2>4, <2>5, <2>6, <2>7, <2>8
  <2> QED  BY <2>1, <2>9 DEF RoomIsLeft, most
<1>5. HandedOffHasRecord'
  <2>1. \A g \in Handoffs : \A i \in DOMAIN handoff[g].made : handoff[g].made[i].of \in Listings /\ InTray(handoff[g].made[i].of)
    <3> SUFFICES ASSUME NEW g \in Handoffs, NEW i \in DOMAIN handoff[g].made
                 PROVE  handoff[g].made[i].of \in Listings /\ InTray(handoff[g].made[i].of)
      OBVIOUS
    <3>1. handoff[g].made \in Seq(TrayRow)
      BY <1>1 DEF HandoffState
    <3>2. handoff[g].made[i] \in TrayRow
      BY <3>1
    <3> QED  BY <3>2 DEF TrayRow, LeadInv, HandedOffHasRecord
  <2>2. \A g \in Handoffs : \A i \in DOMAIN handoff'[g].made : HasRecord(tray', handoff'[g].made[i].of)
    BY <1>3, <2>1 DEF RecordsKept
  <2> QED  BY <2>2 DEF LeadInv, HandedOffHasRecord, RecordsKept, InTray
<1> QED  BY <1>2, <1>4, <1>5 DEF HandoffKept

LEMMA IdleHandoffType ==
  /\ IdleHandoff \in HandoffState /\ IdleHandoff.pc = "idle" /\ IdleHandoff.made = <<>>
  /\ WellFormed(IdleHandoff) /\ Owed(IdleHandoff) = 0
BY DEF IdleHandoff, HandoffState, WellFormed, Owed

LEMMA SyncedType ==
  ASSUME NEW c \in CompanyRows, c # NoCompany, NEW sent \in BOOLEAN, NEW out \in BOOLEAN
  PROVE  Synced(c, sent, out) \in CompanyRows /\ (Synced(c, sent, out).status = "handed_off" => c.status = "handed_off")
<1> DEFINE told == c.reached \/ sent
           status == IF out THEN "unsubscribed"
                     ELSE IF sent /\ c.status \in {"handed_off", "outreach_ready"} THEN "contacted" ELSE c.status
           first == [c EXCEPT !.reached = told]
           second == [first EXCEPT !.status = status]
<1>1. c \in CompanyRow /\ c.status \in LeadStatuses /\ c.level \in Levels
  BY DEF CompanyRows
<1>2. told \in BOOLEAN /\ status \in LeadStatuses /\ (status = "handed_off" => c.status = "handed_off")
  BY <1>1 DEF CompanyRow, LeadStatuses
<1>3. Synced(c, sent, out) = second
  BY <1>1 DEF Synced, CompanyRow
<1> HIDE DEF told
<1>4. first \in CompanyRow /\ first.level = c.level
  BY <1>1, <1>2 DEF CompanyRow
<1> HIDE DEF status, first
<1>5. second \in CompanyRow /\ second.status = status /\ second.level = c.level
  <2>1. status \in LeadStatuses \cup {"none"}
    BY <1>2
  <2> QED  BY <1>4, <2>1 DEF CompanyRow
<1> HIDE DEF second
<1> QED  BY <1>1, <1>2, <1>3, <1>5 DEF CompanyRows

\* A company is offered by a mail of its own.
LEMMA OfferedMailType ==
  ASSUME NEW l \in Ready
  PROVE  OfferedMail(l) \in Mailboxes
<1>1. \E a \in Offered(l) : contact[a].status = "validated" \/ \A b \in Offered(l) : contact[b].status # "validated"
  BY DEF Ready
<1>2. OfferedMail(l) \in Offered(l)
  BY <1>1 DEF OfferedMail
<1> QED  BY <1>2 DEF Offered

LEMMA RefusalType ==
  ASSUME NEW a, Refusal(a) # "none"
  PROVE  Refusal(a) \in LeadStatuses /\ Refusal(a) # "handed_off"
BY DEF Refusal, LeadStatuses

\* A hand-off that is done with the tray, or gives up, needs no room.
LEMMA DoneKeeps ==
  ASSUME LeadInv, NEW h \in Handoffs, NEW f \in HandoffState, handoff' = [handoff EXCEPT ![h] = f],
         f.pc \in {"idle", "marking"}, UNCHANGED bookVars, abreast' = abreast, recheck' = recheck,
         f.made = handoff[h].made \/ f.made = <<>>
  PROVE  HandoffKept
<1>1. BookType' /\ company' = company /\ tray' = tray
  BY DEF LeadInv, LeadType, BookType, bookVars
<1>2. WellFormed(f) /\ Owed(f) = 0
  BY DEF WellFormed, Owed
<1>3. Owed(handoff[h]) \in 0 .. Window
  BY OwedIsNumber DEF LeadInv, LeadType, HandoffType, RoomIsLeft
<1>4. Owed(f) + 0 <= Owed(handoff[h])
  BY <1>2, <1>3, LeadAssumption
<1>5. Cardinality(WaitingIn(tray)) \in Nat
  BY WaitingIsNumber DEF LeadInv, LeadType, BookType
<1>6. Cardinality(WaitingIn(tray')) <= Cardinality(WaitingIn(tray)) + 0
  BY <1>1, <1>5
<1>7. RecordsKept
  BY <1>1, RecordsInTrayStay DEF RecordsKept
<1>8. \A i \in DOMAIN f.made : HasRecord(tray', f.made[i].of)
  BY <1>1 DEF LeadInv, HandedOffHasRecord, InTray
<1>9. 0 \in Nat
  OBVIOUS
<1>10. HandoffKept
  BY <1>1, <1>2, <1>4, <1>6, <1>7, <1>8, <1>9, StepKeeps
<1> QED  BY <1>10

\* One more hand-off tops up: its places come on top of those of the others, and
\* all of them fit in as many windows as there are hand-offs.
LEMMA ListTrayKeeps ==
  ASSUME LeadInv, NEW h \in Handoffs, ListTray(h), recheck' = recheck
  PROVE  HandoffKept
<1> DEFINE first == [IdleHandoff EXCEPT !.pc = "listed"]
           f == [first EXCEPT !.seen = tray]
           waiting == Cardinality(WaitingIn(tray))
           count == Cardinality(ToppingUp)
<1>1. /\ handoff' = [handoff EXCEPT ![h] = f] /\ UNCHANGED bookVars /\ handoff[h].pc = "idle"
      /\ abreast' = IF count + 1 > abreast THEN count + 1 ELSE abreast
  BY Zenon DEF ListTray, Becomes
<1>2. /\ tray \in Seq(TrayRow) /\ handoff \in [Handoffs -> HandoffState] /\ abreast \in Nat /\ Window \in Nat
      /\ \A g \in Handoffs : WellFormed(handoff[g])
  BY LeadAssumption DEF LeadInv, LeadType, BookType, HandoffType, RoomIsLeft
<1>3. first \in HandoffState /\ first.pc = "listed" /\ first.made = <<>>
  BY IdleHandoffType DEF HandoffState
<1> HIDE DEF first
<1>4. f \in HandoffState /\ f.pc = "listed" /\ f.made = <<>> /\ f.seen = tray
  BY <1>2, <1>3 DEF HandoffState
<1> HIDE DEF f
<1>5. waiting \in Nat
  BY <1>2, WaitingIsNumber
<1>6. Owed(f) = (IF Window > waiting THEN Window - waiting ELSE 0) /\ WellFormed(f)
  BY <1>4 DEF Owed, WellFormed
<1>7. \A g \in Handoffs : handoff'[g] = IF g = h THEN f ELSE handoff[g]
  BY <1>1, <1>2
<1>8. h \notin ToppingUp /\ ToppingUp' = ToppingUp \cup {h}
  BY <1>1, <1>4, <1>7 DEF ToppingUp
<1>9. /\ IsFiniteSet(Reserved) /\ Cardinality(Reserved) \in Nat
      /\ IsFiniteSet(ToppingUp) /\ count \in Nat
  BY ReservedIsFinite
<1>10. Cardinality(ToppingUp') = count + 1
  BY <1>8, <1>9, FS_AddElement
<1> DEFINE places == 1 .. Owed(f)
           mine == {h} \X places
<1>11. IsFiniteSet(places) /\ Cardinality(places) = Owed(f) /\ Owed(f) \in 0 .. Window
  <2>1. Owed(f) \in 0 .. Window /\ 1 \in Int
    BY <1>2, <1>5, <1>6
  <2>2. IsFiniteSet(1 .. Owed(f)) /\ Cardinality(1 .. Owed(f)) = IF 1 > Owed(f) THEN 0 ELSE Owed(f) - 1 + 1
    BY <2>1, FS_Interval
  <2> QED  BY <2>1, <2>2
<1>12. Reserved' = {p \in Handoffs \X (1 .. Window) : p[2] <= Owed(handoff'[p[1]])}
  BY DEF Reserved
<1>13. Reserved' \subseteq Reserved \cup mine
  <2> SUFFICES ASSUME NEW p \in Reserved' PROVE p \in Reserved \cup mine
    OBVIOUS
  <2>1. /\ p \in Handoffs \X (1 .. Window) /\ p = <<p[1], p[2]>> /\ p[1] \in Handoffs /\ p[2] \in 1 .. Window
        /\ p[2] <= Owed(handoff'[p[1]])
    BY <1>12
  <2>2. CASE p[1] = h
    <3>1. p[2] <= Owed(f)
      BY <1>7, <2>1, <2>2
    <3>2. p[2] \in places
      BY <1>2, <1>11, <2>1, <3>1
    <3> QED  BY <2>1, <2>2, <3>2
  <2>3. CASE p[1] # h
    BY <1>7, <2>1, <2>3 DEF Reserved
  <2> QED  BY <2>2, <2>3
<1> HIDE DEF places
<1>14. IsFiniteSet(mine) /\ Cardinality(mine) = Owed(f)
  <2>1. IsFiniteSet({h}) /\ Cardinality({h}) = 1
    BY FS_Singleton
  <2>2. IsFiniteSet(mine) /\ Cardinality(mine) = 1 * Cardinality(places)
    BY <1>11, <2>1, FS_Product
  <2> QED  BY <1>11, <2>2
<1> HIDE DEF mine
<1>15. Cardinality(Reserved') <= Cardinality(Reserved) + Owed(f) /\ Cardinality(Reserved') \in Nat
  <2>1. IsFiniteSet(Reserved \cup mine)
        /\ Cardinality(Reserved \cup mine) = Cardinality(Reserved) + Cardinality(mine) - Cardinality(Reserved \cap mine)
    BY <1>9, <1>14, FS_Union
  <2>2. Cardinality(Reserved \cap mine) \in Nat
    BY <1>9, FS_Subset, FS_CardinalityType
  <2>3. Cardinality(Reserved') <= Cardinality(Reserved \cup mine) /\ IsFiniteSet(Reserved')
    BY <1>13, <2>1, FS_Subset
  <2>4. Cardinality(Reserved') \in Nat
    BY <2>3, FS_CardinalityType
  <2>5. Cardinality(Reserved \cup mine) \in Int
    BY <1>9, <1>11, <1>14, <2>1, <2>2
  <2> QED  BY <1>9, <1>11, <1>14, <2>1, <2>2, <2>3, <2>4, <2>5
<1>16. Cardinality(Reserved) <= count * Window
  <2>1. IsFiniteSet(1 .. Window) /\ Cardinality(1 .. Window) = Window
    <3>1. 1 \in Int /\ Window \in Int
      BY <1>2
    <3>2. IsFiniteSet(1 .. Window) /\ Cardinality(1 .. Window) = IF 1 > Window THEN 0 ELSE Window - 1 + 1
      BY <3>1, FS_Interval
    <3> QED  BY <1>2, <3>2
  <2>2. Reserved \subseteq ToppingUp \X (1 .. Window)
    <3> SUFFICES ASSUME NEW p \in Reserved PROVE p \in ToppingUp \X (1 .. Window)
      OBVIOUS
    <3>1. p = <<p[1], p[2]>> /\ p[1] \in Handoffs /\ p[2] \in 1 .. Window /\ p[2] <= Owed(handoff[p[1]])
      BY DEF Reserved
    <3>2. Owed(handoff[p[1]]) \in 0 .. Window /\ (Owed(handoff[p[1]]) > 0 => p[1] \in ToppingUp)
      BY <1>2, <3>1, OwedIsNumber DEF ToppingUp
    <3>3. Owed(handoff[p[1]]) > 0
      BY <1>2, <3>1, <3>2
    <3> QED  BY <3>1, <3>2, <3>3
  <2>3. IsFiniteSet(ToppingUp \X (1 .. Window)) /\ Cardinality(ToppingUp \X (1 .. Window)) = count * Window
    BY <1>9, <2>1, FS_Product
  <2> QED  BY <2>2, <2>3, FS_Subset
<1>17. abreast' \in Nat /\ abreast <= abreast' /\ count + 1 <= abreast'
  BY <1>1, <1>2, <1>9
<1> DEFINE most == Window * abreast
           more == Window * abreast'
           others == count * Window
<1>18. most \in Nat /\ more \in Nat /\ others \in Nat /\ most <= more /\ others + Window <= more
  <2>1. \A w, x, y \in Nat : x <= y => w * x <= w * y
    <3> SUFFICES ASSUME NEW w \in Nat, NEW x \in Nat, NEW y \in Nat, x <= y PROVE w * x <= w * y
      OBVIOUS
    <3>1. y - x \in Nat /\ w * (y - x) >= 0
      OBVIOUS
    <3>2. w * y = w * x + w * (y - x)
      BY <3>1
    <3>3. w * x \in Nat /\ w * y \in Nat /\ w * (y - x) \in Nat
      BY <3>1
    <3> QED  BY <3>1, <3>2, <3>3
  <2>2. Window * (count + 1) = others + Window
    BY <1>2, <1>9
  <2>3. most <= more
    BY <1>2, <1>17, <2>1
  <2>4. Window * (count + 1) <= more
    BY <1>2, <1>9, <1>17, <2>1
  <2>5. most \in Nat /\ more \in Nat /\ others \in Nat
    <3>1. \A x, y \in Nat : x * y \in Nat
      OBVIOUS
    <3> QED  BY <1>2, <1>9, <1>17, <3>1
  <2> QED  BY <2>2, <2>3, <2>4, <2>5
<1>19. waiting + Cardinality(Reserved) <= most
  BY DEF LeadInv, RoomIsLeft
<1>20. Cardinality(Reserved) <= others
  BY <1>16
<1> HIDE DEF most, more, others
<1>21. waiting + Cardinality(Reserved') <= more
  <2> DEFINE held == Cardinality(Reserved)
             held2 == Cardinality(Reserved')
             new == Owed(f)
  <2>1. held \in Nat /\ held2 \in Nat /\ new \in 0 .. Window /\ held2 <= held + new
    BY <1>9, <1>11, <1>15
  <2>2. new = IF Window > waiting THEN Window - waiting ELSE 0
    BY <1>6
  <2>3. waiting + held <= most /\ held <= others
    BY <1>19, <1>20
  <2> HIDE DEF held, held2, new, waiting
  <2>4. waiting + held2 <= more
    BY <1>2, <1>5, <1>18, <2>1, <2>2, <2>3 DEF waiting
  <2> QED  BY <2>4 DEF held2
<1>22. company' = company /\ tray' = tray /\ BookType'
  BY <1>1 DEF LeadInv, LeadType, BookType, bookVars
<1>23. HandoffType'
  BY <1>1, <1>2, <1>4, <1>17 DEF HandoffType
<1>24. RoomIsLeft'
  <2>1. \A g \in Handoffs : WellFormed(handoff'[g])
    BY <1>2, <1>6, <1>7
  <2> QED  BY <1>10, <1>17, <1>21, <1>22, <2>1 DEF RoomIsLeft, more
<1>25. HandedOffHasRecord'
  <2>1. \A g \in Handoffs : \A i \in DOMAIN handoff'[g].made : InTray(handoff'[g].made[i].of)
    BY <1>4, <1>7 DEF LeadInv, HandedOffHasRecord
  <2> QED  BY <1>22, <2>1 DEF LeadInv, HandedOffHasRecord, InTray
<1> QED  BY <1>22, <1>23, <1>24, <1>25 DEF HandoffKept

LEMMA SyncBookKeeps ==
  ASSUME LeadInv, NEW h \in Handoffs, SyncBook(h), recheck' = recheck
  PROVE  HandoffKept
<1> DEFINE hf == handoff[h]
           seen == hf.seen
           sent(l) == \E i \in SentTo(seen) : seen[i].of = l
           out(l) == \E i \in OptedOut(seen) : seen[i].of = l
           next == [hf EXCEPT !.pc = "synced"]
<1>1. /\ company' = [l \in Listings |-> IF Known(l) THEN Synced(company[l], sent(l), out(l)) ELSE company[l]]
      /\ emailed' = emailed \cup {seen[i].mail : i \in SentTo(seen)}
      /\ handoff' = [handoff EXCEPT ![h] = next] /\ contact' = contact /\ tray' = tray /\ abreast' = abreast
      /\ hf.pc = "listed"
  BY Zenon DEF SyncBook, Becomes
<1>2. hf \in HandoffState /\ company \in [Listings -> CompanyRows] /\ emailed \subseteq Mailboxes /\ WellFormed(hf)
  BY DEF LeadInv, LeadType, BookType, HandoffType, RoomIsLeft
<1>3. \A i \in DOMAIN hf.made : InTray(hf.made[i].of)
  BY DEF LeadInv, HandedOffHasRecord
<1>4. h \in ToppingUp
  BY <1>1 DEF ToppingUp
<1> HIDE DEF hf
<1>5. \A i \in SentTo(seen) : seen[i].mail \in Mailboxes
  <2>1. seen \in Seq(TrayRow)
    BY <1>2 DEF HandoffState
  <2> HIDE DEF seen
  <2>2. \A i \in DOMAIN seen : seen[i] \in TrayRow
    BY <2>1
  <2> QED  BY <2>2 DEF SentTo, TrayRow
<1>6. next \in HandoffState /\ next.pc = "synced" /\ next.seen = hf.seen /\ next.made = hf.made
  BY <1>2 DEF HandoffState
<1> HIDE DEF seen, next
<1>7. WellFormed(next) /\ Owed(next) = Owed(hf) /\ next.made = <<>>
  BY <1>1, <1>2, <1>6 DEF WellFormed, Owed
<1>8. Owed(hf) \in 0 .. Window /\ Window \in Nat
  BY <1>2, OwedIsNumber, LeadAssumption
<1>9. \A l \in Listings : sent(l) \in BOOLEAN /\ out(l) \in BOOLEAN
  OBVIOUS
<1> HIDE DEF sent, out
<1>10. \A l \in Listings : company'[l] \in CompanyRows
                           /\ (company'[l].status = "handed_off" => company[l].status = "handed_off")
  <2> SUFFICES ASSUME NEW l \in Listings
               PROVE  company'[l] \in CompanyRows /\ (company'[l].status = "handed_off" => company[l].status = "handed_off")
    OBVIOUS
  <2>1. CASE Known(l)
    BY <1>1, <1>2, <1>9, <2>1, SyncedType DEF Known
  <2>2. CASE ~Known(l)
    BY <1>1, <1>2, <2>2
  <2> QED  BY <2>1, <2>2
<1>11. company' \in [Listings -> CompanyRows]
  BY <1>1, <1>10
<1>12. BookType'
  BY <1>1, <1>2, <1>5, <1>11 DEF LeadInv, LeadType, BookType
<1>13. RecordsKept
  BY <1>1, <1>10, RecordsInTrayStay DEF RecordsKept
<1>14. Cardinality(WaitingIn(tray)) \in Nat /\ 0 \in Nat
  BY WaitingIsNumber DEF LeadInv, LeadType, BookType
<1>15. Cardinality(WaitingIn(tray')) <= Cardinality(WaitingIn(tray)) + 0
  BY <1>1, <1>14
<1>16. Owed(next) + 0 <= Owed(handoff[h])
  BY <1>7, <1>8 DEF hf
<1>17. \A i \in DOMAIN next.made : HasRecord(tray', next.made[i].of)
  BY <1>7
<1>18. HandoffKept
  BY <1>1, <1>4, <1>6, <1>7, <1>12, <1>13, <1>14, <1>15, <1>16, <1>17, StepKeeps
<1> QED  BY <1>18

LEMMA PickReadyKeeps ==
  ASSUME LeadInv, NEW h \in Handoffs, PickReady(h), recheck' = recheck
  PROVE  HandoffKept
<1> DEFINE hf == handoff[h]
           clear == {l \in Ready : Refusal(OfferedMail(l)) = "none"}
           room == Space(hf.seen)
           n == AtMost3(room)
<1>1. PICK order \in [1 .. n -> Ready] :
        LET cleared == Keeping(order, clear)
            rows == SubSeq(cleared, 1, IF Len(cleared) < room THEN Len(cleared) ELSE room)
            looked(l) == \E i \in DOMAIN order :
              /\ order[i] = l
              /\ Len(cleared) < room \/ \E j \in DOMAIN order : order[j] = rows[room] /\ i < j IN
        /\ company' = [l \in Listings |->
             IF l \in Ready /\ Refusal(OfferedMail(l)) # "none" /\ looked(l)
             THEN [company[l] EXCEPT !.status = Refusal(OfferedMail(l))] ELSE company[l]]
        /\ handoff' = [handoff EXCEPT ![h] = [hf EXCEPT !.pc = "creating",
                         !.rows = [i \in DOMAIN rows |-> TrayRecord(rows[i], OfferedMail(rows[i]))]]]
  BY Zenon DEF PickReady, Becomes
<1> DEFINE cleared == Keeping(order, clear)
           rows == SubSeq(cleared, 1, IF Len(cleared) < room THEN Len(cleared) ELSE room)
           looked(l) == \E i \in DOMAIN order :
             /\ order[i] = l
             /\ Len(cleared) < room \/ \E j \in DOMAIN order : order[j] = rows[room] /\ i < j
           made == [i \in DOMAIN rows |-> TrayRecord(rows[i], OfferedMail(rows[i]))]
           first == [hf EXCEPT !.pc = "creating"]
           second == [first EXCEPT !.rows = made]
<1>2. /\ company' = [l \in Listings |->
             IF l \in Ready /\ Refusal(OfferedMail(l)) # "none" /\ looked(l)
             THEN [company[l] EXCEPT !.status = Refusal(OfferedMail(l))] ELSE company[l]]
      /\ handoff' = [handoff EXCEPT ![h] = second]
  BY <1>1, Zenon
<1>3. /\ hf.pc = "synced" /\ room > 0
      /\ contact' = contact /\ emailed' = emailed /\ tray' = tray /\ abreast' = abreast
  BY DEF PickReady
<1>4. hf \in HandoffState /\ company \in [Listings -> CompanyRows] /\ tray \in Seq(TrayRow) /\ WellFormed(hf)
  BY DEF LeadInv, LeadType, BookType, HandoffType, RoomIsLeft
<1>5. h \in ToppingUp
  BY <1>3 DEF ToppingUp
<1> HIDE DEF hf
<1>6. hf.seen \in Seq(TrayRow) /\ hf.made = <<>>
  BY <1>3, <1>4 DEF HandoffState, WellFormed
<1>7. room \in Int /\ room + Cardinality(WaitingIn(hf.seen)) <= Window /\ Cardinality(WaitingIn(hf.seen)) \in Nat
  BY <1>6, SpaceIsLeft, WaitingIsNumber
<1>8. order \in Seq(Ready) /\ Ready \subseteq Listings
  <2>1. Ready \subseteq Listings
    BY DEF Ready, KnownListings
  <2>2. Cardinality(Ready) \in Nat
    BY <2>1, LeadAssumption, FS_Subset, FS_CardinalityType
  <2> HIDE DEF room
  <2>3. n \in Nat
    BY <1>3, <1>7, <2>2 DEF AtMost3
  <2> HIDE DEF n
  <2> QED  BY <2>1, <2>3
<1> HIDE DEF n, clear, room
<1>9. cleared \in Seq(Ready)
  <2>1. cleared \in Seq(Ready \cap clear)
    BY <1>8, KeepingType
  <2> HIDE DEF cleared
  <2> QED  BY <2>1
<1> HIDE DEF cleared
<1>10. rows \in Seq(Ready) /\ Len(rows) <= room
  <2>1. Len(cleared) \in Nat
    BY <1>9
  <2> QED  BY <1>3, <1>7, <1>9, <2>1
<1> HIDE DEF rows, looked
<1>11. made \in Seq(TrayRow) /\ Len(made) = Len(rows)
  <2>1. \A i \in DOMAIN rows : rows[i] \in Ready
    BY <1>10
  <2>2. \A i \in DOMAIN rows : TrayRecord(rows[i], OfferedMail(rows[i])) \in TrayRow
    BY <1>8, <2>1, OfferedMailType DEF TrayRecord, TrayRow
  <2>3. DOMAIN rows = 1 .. Len(rows) /\ Len(rows) \in Nat
    BY <1>10
  <2> QED  BY <2>2, <2>3
<1> HIDE DEF made
<1>12. first \in HandoffState /\ first.pc = "creating" /\ first.made = <<>>
  BY <1>4, <1>6 DEF HandoffState
<1> HIDE DEF first
<1>13. second \in HandoffState /\ second.pc = "creating" /\ second.made = <<>> /\ second.rows = made
  BY <1>11, <1>12 DEF HandoffState
<1> HIDE DEF second
<1>14. Len(made) \in Nat /\ Len(made) <= room /\ Window \in Nat /\ Len(<<>>) = 0
  BY <1>10, <1>11, LeadAssumption
<1>15. Len(made) <= Window /\ Owed(hf) = Window - Cardinality(WaitingIn(hf.seen)) /\ Len(made) <= Owed(hf)
  <2> DEFINE waiting == Cardinality(WaitingIn(hf.seen))
  <2>1. Owed(hf) = IF Window > waiting THEN Window - waiting ELSE 0
    BY <1>3 DEF Owed
  <2>2. room + waiting <= Window /\ waiting \in Nat
    BY <1>7
  <2> HIDE DEF waiting
  <2> QED  BY <1>3, <1>7, <1>14, <2>1, <2>2 DEF waiting
<1>16. WellFormed(second) /\ Owed(second) = Len(made)
  BY <1>13, <1>14, <1>15 DEF WellFormed, Owed
<1>17. \A l \in Listings : company'[l] \in CompanyRows
                           /\ (company'[l].status = "handed_off" => company[l].status = "handed_off")
  <2> SUFFICES ASSUME NEW l \in Listings
               PROVE  company'[l] \in CompanyRows /\ (company'[l].status = "handed_off" => company[l].status = "handed_off")
    OBVIOUS
  <2>1. CASE l \in Ready /\ Refusal(OfferedMail(l)) # "none" /\ looked(l)
    <3>1. Refusal(OfferedMail(l)) \in LeadStatuses /\ Refusal(OfferedMail(l)) # "handed_off"
      BY <2>1, RefusalType
    <3>2. company[l] \in CompanyRows /\ company[l] # NoCompany
      BY <1>4, <2>1 DEF Ready, KnownListings, Known
    <3> QED  BY <1>2, <2>1, <3>1, <3>2, StatusSet
  <2>2. CASE ~(l \in Ready /\ Refusal(OfferedMail(l)) # "none" /\ looked(l))
    <3>1. company'[l] = company[l]
      BY <1>2, <2>2
    <3> QED  BY <1>4, <3>1
  <2> QED  BY <2>1, <2>2
<1>18. company' \in [Listings -> CompanyRows]
  BY <1>2, <1>17
<1>19. BookType'
  BY <1>3, <1>18 DEF LeadInv, LeadType, BookType
<1>20. RecordsKept
  BY <1>3, <1>17, RecordsInTrayStay DEF RecordsKept
<1>21. Cardinality(WaitingIn(tray)) \in Nat /\ 0 \in Nat
  BY <1>4, WaitingIsNumber
<1>22. Cardinality(WaitingIn(tray')) <= Cardinality(WaitingIn(tray)) + 0
  BY <1>3, <1>21
<1>23. Owed(second) + 0 <= Owed(handoff[h])
  BY <1>14, <1>15, <1>16 DEF hf
<1>24. \A i \in DOMAIN second.made : HasRecord(tray', second.made[i].of)
  BY <1>13
<1>25. HandoffKept
  BY <1>2, <1>3, <1>5, <1>13, <1>16, <1>19, <1>20, <1>21, <1>22, <1>23, <1>24, StepKeeps
<1> QED  BY <1>25

LEMMA NextChunkType ==
  ASSUME NEW f \in HandoffState, Len(f.made) <= Len(f.rows)
  PROVE  NextChunk(f) \in Seq(TrayRow) /\ Len(f.made) + Len(NextChunk(f)) <= Len(f.rows)
<1> DEFINE m == Len(f.made)
           n == Len(f.rows)
           high == IF m + Chunk < n THEN m + Chunk ELSE n
<1>1. f.rows \in Seq(TrayRow) /\ f.made \in Seq(TrayRow)
  BY DEF HandoffState
<1>2. m \in Nat /\ n \in Nat /\ m <= n /\ Chunk \in Nat
  BY <1>1, LeadAssumption
<1>3. NextChunk(f) = SubSeq(f.rows, m + 1, high)
  BY DEF NextChunk
<1>4. \A i \in 1 .. n : f.rows[i] \in TrayRow
  BY <1>1
<1> HIDE DEF m, n
<1>5. high \in Int /\ m <= high /\ high <= n
  BY <1>2
<1> HIDE DEF high
<1>6. m + 1 \in Int /\ \A i \in m + 1 .. high : f.rows[i] \in TrayRow
  BY <1>2, <1>4, <1>5
<1>7. NextChunk(f) \in Seq(TrayRow) /\ Len(NextChunk(f)) = IF m + 1 <= high THEN high - (m + 1) + 1 ELSE 0
  BY <1>3, <1>5, <1>6, SubSeqProperties
<1>8. m + Len(NextChunk(f)) <= n
  <2> DEFINE k == Len(NextChunk(f))
  <2>1. k = IF m + 1 <= high THEN high - (m + 1) + 1 ELSE 0
    BY <1>7
  <2> HIDE DEF k
  <2>2. m + k <= n
    BY <1>2, <1>5, <2>1
  <2> QED  BY <2>2 DEF k
<1> QED  BY <1>7, <1>8 DEF m, n

\* A longer tray has the records that the shorter one has.
LEMMA TrayGrows ==
  ASSUME NEW t \in Seq(TrayRow), NEW chunk \in Seq(TrayRow)
  PROVE  /\ \A l \in Listings : HasRecord(t, l) => HasRecord(t \o chunk, l)
         /\ \A i \in DOMAIN chunk : HasRecord(t \o chunk, chunk[i].of)
<1> DEFINE new == t \o chunk
<1>1. \A i \in DOMAIN t : i \in DOMAIN new /\ new[i] = t[i]
  OBVIOUS
<1>2. \A i \in DOMAIN chunk : Len(t) + i \in DOMAIN new /\ new[Len(t) + i] = chunk[i]
  OBVIOUS
<1>3. t \o chunk = new
  OBVIOUS
<1> HIDE DEF new
<1> QED  BY <1>1, <1>2, <1>3 DEF HasRecord

\* What is so of a hand-off that creates records.
LEMMA CreatingFits ==
  ASSUME LeadInv, NEW h \in Handoffs, handoff[h].pc = "creating"
  PROVE  LET f == handoff[h] IN
         /\ f \in HandoffState /\ f.made \in Seq(TrayRow) /\ f.rows \in Seq(TrayRow)
         /\ Len(f.made) <= Len(f.rows) /\ Len(f.rows) - Len(f.made) <= Window
         /\ Owed(f) = Len(f.rows) - Len(f.made) /\ h \in ToppingUp
         /\ \A i \in DOMAIN f.made : f.made[i].of \in Listings /\ InTray(f.made[i].of)
         /\ NextChunk(f) \in Seq(TrayRow) /\ Len(f.made) + Len(NextChunk(f)) <= Len(f.rows)
         /\ tray \in Seq(TrayRow) /\ tray \o NextChunk(f) \in Seq(TrayRow)
         /\ Cardinality(WaitingIn(tray \o NextChunk(f))) <= Cardinality(WaitingIn(tray)) + Len(NextChunk(f))
<1> DEFINE f == handoff[h]
<1>1. f \in HandoffState /\ WellFormed(f) /\ h \in ToppingUp /\ tray \in Seq(TrayRow)
  BY DEF LeadInv, LeadType, BookType, HandoffType, RoomIsLeft, ToppingUp
<1>2. \A i \in DOMAIN f.made : InTray(f.made[i].of)
  BY DEF LeadInv, HandedOffHasRecord
<1>3. f.pc = "creating"
  OBVIOUS
<1> HIDE DEF f
<1>4. f.made \in Seq(TrayRow) /\ f.rows \in Seq(TrayRow)
  BY <1>1 DEF HandoffState
<1>5. /\ Len(f.made) <= Len(f.rows) /\ Len(f.rows) - Len(f.made) <= Window
      /\ Owed(f) = Len(f.rows) - Len(f.made)
  BY <1>1, <1>3 DEF WellFormed, Owed
<1>6. \A i \in DOMAIN f.made : f.made[i].of \in Listings
  <2>1. \A i \in DOMAIN f.made : f.made[i] \in TrayRow
    BY <1>4
  <2> QED  BY <2>1 DEF TrayRow
<1>7. NextChunk(f) \in Seq(TrayRow) /\ Len(f.made) + Len(NextChunk(f)) <= Len(f.rows)
  BY <1>1, <1>5, NextChunkType
<1>8. tray \o NextChunk(f) \in Seq(TrayRow)
  BY <1>1, <1>7
<1>9. Cardinality(WaitingIn(tray \o NextChunk(f))) <= Cardinality(WaitingIn(tray)) + Len(NextChunk(f))
  BY <1>1, <1>7, ChunkWaits
<1> QED  BY <1>1, <1>2, <1>4, <1>5, <1>6, <1>7, <1>8, <1>9 DEF f

LEMMA CreateChunkKeeps ==
  ASSUME LeadInv, NEW h \in Handoffs, CreateChunk(h), recheck' = recheck
  PROVE  HandoffKept
<1> DEFINE hf == handoff[h]
           chunk == NextChunk(hf)
           made == hf.made \o chunk
           next == [hf EXCEPT !.made = made]
<1>1. /\ handoff' = [handoff EXCEPT ![h] = next] /\ tray' = tray \o chunk /\ hf.pc = "creating"
      /\ UNCHANGED <<company, contact, emailed, abreast>>
  BY Zenon DEF CreateChunk, Becomes
<1>2. /\ hf \in HandoffState /\ hf.made \in Seq(TrayRow) /\ hf.rows \in Seq(TrayRow)
      /\ Len(hf.made) <= Len(hf.rows) /\ Len(hf.rows) - Len(hf.made) <= Window
      /\ Owed(hf) = Len(hf.rows) - Len(hf.made) /\ h \in ToppingUp
      /\ \A i \in DOMAIN hf.made : hf.made[i].of \in Listings /\ InTray(hf.made[i].of)
      /\ chunk \in Seq(TrayRow) /\ Len(hf.made) + Len(chunk) <= Len(hf.rows)
      /\ tray \in Seq(TrayRow) /\ tray \o chunk \in Seq(TrayRow)
      /\ Cardinality(WaitingIn(tray \o chunk)) <= Cardinality(WaitingIn(tray)) + Len(chunk)
  BY <1>1, CreatingFits
<1> HIDE DEF hf, chunk
<1>3. made \in Seq(TrayRow) /\ Len(made) = Len(hf.made) + Len(chunk)
  BY <1>2
<1>4. \A i \in DOMAIN made : (\E j \in DOMAIN hf.made : made[i] = hf.made[j]) \/ \E j \in DOMAIN chunk : made[i] = chunk[j]
  <2> SUFFICES ASSUME NEW i \in DOMAIN made, i > Len(hf.made)
               PROVE  \E j \in DOMAIN chunk : made[i] = chunk[j]
    BY <1>2
  <2>1. i - Len(hf.made) \in DOMAIN chunk /\ made[i] = chunk[i - Len(hf.made)]
    BY <1>2
  <2> QED  BY <2>1
<1> HIDE DEF made
<1>5. next \in HandoffState /\ next.pc = "creating" /\ next.rows = hf.rows /\ next.made = made
  BY <1>1, <1>2, <1>3 DEF HandoffState
<1> HIDE DEF next
<1>6. Len(made) \in Nat /\ Len(hf.rows) \in Nat /\ Len(hf.made) \in Nat /\ Len(chunk) \in Nat /\ Window \in Nat
  BY <1>2, <1>3, LeadAssumption
<1>7. WellFormed(next) /\ Owed(next) = Len(hf.rows) - Len(made)
  <2> DEFINE m == Len(made)
             n == Len(hf.rows)
             old == Len(hf.made)
             k == Len(chunk)
  <2>2. m \in Nat /\ n \in Nat /\ old \in Nat /\ k \in Nat /\ Window \in Nat /\ m = old + k /\ old + k <= n
        /\ n - old <= Window
    BY <1>2, <1>3, <1>6
  <2> HIDE DEF m, n, old, k
  <2>3. m <= n /\ n - m <= Window
    BY <2>2
  <2>1. Len(made) <= Len(hf.rows) /\ Len(hf.rows) - Len(made) <= Window
    BY <2>3 DEF m, n
  <2> QED  BY <1>5, <2>1 DEF WellFormed, Owed
<1>8. Owed(next) + Len(chunk) <= Owed(handoff[h])
  <2>1. Owed(next) + Len(chunk) <= Owed(hf)
    BY <1>2, <1>3, <1>6, <1>7
  <2> QED  BY <2>1 DEF hf
<1>9. BookType'
  BY <1>1, <1>2 DEF LeadInv, LeadType, BookType
<1>10. /\ \A l \in Listings : HasRecord(tray, l) => HasRecord(tray', l)
       /\ \A i \in DOMAIN chunk : HasRecord(tray', chunk[i].of)
  BY <1>1, <1>2, TrayGrows
<1>11. RecordsKept
  BY <1>1, <1>10 DEF RecordsKept, InTray
<1>12. \A i \in DOMAIN next.made : HasRecord(tray', next.made[i].of)
  BY <1>2, <1>4, <1>5, <1>10 DEF InTray
<1>13. Cardinality(WaitingIn(tray')) <= Cardinality(WaitingIn(tray)) + Len(chunk)
  BY <1>1, <1>2
<1>14. HandoffKept
  BY <1>1, <1>2, <1>5, <1>6, <1>7, <1>8, <1>9, <1>11, <1>12, <1>13, StepKeeps
<1> QED  BY <1>14

LEMMA CreateFailsKeeps ==
  ASSUME LeadInv, NEW h \in Handoffs, CreateFails(h), recheck' = recheck
  PROVE  HandoffKept
<1> DEFINE hf == handoff[h]
           chunk == NextChunk(hf)
           next == [hf EXCEPT !.pc = "marking"]
<1>1. /\ handoff' = [handoff EXCEPT ![h] = next] /\ tray' \in {tray, tray \o chunk} /\ hf.pc = "creating"
      /\ UNCHANGED <<company, contact, emailed, abreast>>
  BY Zenon DEF CreateFails, Becomes
<1>2. /\ hf \in HandoffState /\ hf.made \in Seq(TrayRow) /\ hf.rows \in Seq(TrayRow)
      /\ Owed(hf) = Len(hf.rows) - Len(hf.made)
      /\ \A i \in DOMAIN hf.made : hf.made[i].of \in Listings /\ InTray(hf.made[i].of)
      /\ chunk \in Seq(TrayRow) /\ Len(hf.made) + Len(chunk) <= Len(hf.rows)
      /\ tray \in Seq(TrayRow) /\ tray \o chunk \in Seq(TrayRow)
      /\ Cardinality(WaitingIn(tray \o chunk)) <= Cardinality(WaitingIn(tray)) + Len(chunk)
  BY <1>1, CreatingFits
<1> HIDE DEF hf, chunk
<1>3. next \in HandoffState /\ next.pc = "marking" /\ next.made = hf.made
  BY <1>2 DEF HandoffState
<1> HIDE DEF next
<1>4. Len(hf.rows) \in Nat /\ Len(hf.made) \in Nat /\ Len(chunk) \in Nat /\ Cardinality(WaitingIn(tray)) \in Nat
  BY <1>2, WaitingIsNumber
<1>5. WellFormed(next) /\ Owed(next) = 0
  BY <1>3 DEF WellFormed, Owed
<1>6. Owed(next) + Len(chunk) <= Owed(handoff[h])
  <2>1. Owed(next) + Len(chunk) <= Owed(hf)
    BY <1>2, <1>4, <1>5
  <2> QED  BY <2>1 DEF hf
<1>7. BookType'
  BY <1>1, <1>2 DEF LeadInv, LeadType, BookType
<1>8. \A l \in Listings : HasRecord(tray, l) => HasRecord(tray', l)
  BY <1>1, <1>2, TrayGrows
<1>9. RecordsKept
  BY <1>1, <1>8 DEF RecordsKept, InTray
<1>10. \A i \in DOMAIN next.made : HasRecord(tray', next.made[i].of)
  BY <1>2, <1>3, <1>8 DEF InTray
<1>11. Cardinality(WaitingIn(tray')) <= Cardinality(WaitingIn(tray)) + Len(chunk)
  <2>1. CASE tray' = tray
    <3>1. Cardinality(WaitingIn(tray)) <= Cardinality(WaitingIn(tray)) + Len(chunk)
      BY <1>4
    <3> QED  BY <2>1, <3>1
  <2>2. CASE tray' = tray \o chunk
    BY <1>2, <2>2
  <2> QED  BY <1>1, <2>1, <2>2
<1>12. HandoffKept
  BY <1>1, <1>3, <1>4, <1>5, <1>6, <1>7, <1>9, <1>10, <1>11, StepKeeps
<1> QED  BY <1>12

LEMMA TaggedType ==
  ASSUME NEW c \in CompanyRows, c # NoCompany
  PROVE  [c EXCEPT !.status = "handed_off", !.tagged = TRUE] \in CompanyRows
<1> DEFINE first == [c EXCEPT !.status = "handed_off"]
           second == [first EXCEPT !.tagged = TRUE]
<1>1. [c EXCEPT !.status = "handed_off", !.tagged = TRUE] = second
  BY Zenon
<1>2. c \in CompanyRow /\ c.level \in Levels /\ "handed_off" \in LeadStatuses
  BY DEF CompanyRows, LeadStatuses
<1>3. first \in CompanyRow /\ first.level = c.level /\ first.status = "handed_off"
  BY <1>2 DEF CompanyRow
<1> HIDE DEF first
<1>4. second \in CompanyRow /\ second.level = c.level /\ second.status = "handed_off"
  BY <1>3 DEF CompanyRow
<1> HIDE DEF second
<1> QED  BY <1>1, <1>2, <1>4 DEF CompanyRows

LEMMA MarkHandedOffKeeps ==
  ASSUME LeadInv, NEW h \in Handoffs, MarkHandedOff(h), recheck' = recheck
  PROVE  HandoffKept
<1> DEFINE marked == Marked(handoff[h])
<1>1. /\ company' = [l \in Listings |->
            IF Known(l) /\ l \in marked
            THEN [company[l] EXCEPT !.status = "handed_off", !.tagged = TRUE] ELSE company[l]]
      /\ handoff' = [handoff EXCEPT ![h] = IdleHandoff] /\ UNCHANGED <<contact, emailed, tray, abreast>>
  BY Zenon DEF MarkHandedOff, Becomes
<1>2. company \in [Listings -> CompanyRows]
  BY DEF LeadInv, LeadType, BookType
<1>3. \A l \in marked : InTray(l)
  BY DEF Marked, LeadInv, HandedOffHasRecord
<1> HIDE DEF marked
<1>4. \A l \in Listings : company'[l] \in CompanyRows
                          /\ (company'[l].status = "handed_off" => company[l].status = "handed_off" \/ InTray(l))
  <2> SUFFICES ASSUME NEW l \in Listings
               PROVE  company'[l] \in CompanyRows
                      /\ (company'[l].status = "handed_off" => company[l].status = "handed_off" \/ InTray(l))
    OBVIOUS
  <2>1. CASE Known(l) /\ l \in marked
    BY <1>1, <1>2, <1>3, <2>1, TaggedType DEF Known
  <2>2. CASE ~(Known(l) /\ l \in marked)
    BY <1>1, <1>2, <2>2
  <2> QED  BY <2>1, <2>2
<1>5. company' \in [Listings -> CompanyRows]
  BY <1>1, <1>4
<1>6. BookType'
  BY <1>1, <1>5 DEF LeadInv, LeadType, BookType
<1>7. RecordsKept
  BY <1>1, <1>4, RecordsInTrayStay DEF RecordsKept
<1>8. Owed(handoff[h]) \in 0 .. Window
  BY OwedIsNumber DEF LeadInv, LeadType, HandoffType, RoomIsLeft
<1>9. Owed(IdleHandoff) + 0 <= Owed(handoff[h]) /\ 0 \in Nat
  BY <1>8, IdleHandoffType, LeadAssumption
<1>10. Cardinality(WaitingIn(tray)) \in Nat
  BY WaitingIsNumber DEF LeadInv, LeadType, BookType
<1>11. Cardinality(WaitingIn(tray')) <= Cardinality(WaitingIn(tray)) + 0
  <2>1. tray' = tray
    BY <1>1
  <2> QED  BY <1>10, <2>1
<1>12. \A i \in DOMAIN IdleHandoff.made : HasRecord(tray', IdleHandoff.made[i].of)
  BY IdleHandoffType
<1>13. IdleHandoff \in HandoffState /\ WellFormed(IdleHandoff) /\ IdleHandoff.pc = "idle" /\ abreast' = abreast
  BY <1>1, IdleHandoffType
<1>14. HandoffKept
  BY <1>1, <1>6, <1>7, <1>9, <1>11, <1>12, <1>13, StepKeeps
<1> QED  BY <1>14

LEMMA HandsOffKeeps ==
  ASSUME LeadInv, HandsOff
  PROVE  HandoffKept
<1>1. recheck' = recheck
  BY DEF HandsOff, intakeVars
<1>2. PICK h \in Handoffs : ListTray(h) \/ SyncBook(h) \/ PickReady(h) \/ CreateChunk(h) \/ CreateFails(h)
                            \/ CreateEnds(h) \/ MarkHandedOff(h) \/ EndHandoff(h)
  BY DEF HandsOff, HandoffNext
<1>3. CASE CreateEnds(h)
  <2> DEFINE next == [handoff[h] EXCEPT !.pc = "marking"]
  <2>1. handoff' = [handoff EXCEPT ![h] = next] /\ UNCHANGED bookVars /\ abreast' = abreast
    BY <1>3, Zenon DEF CreateEnds, Becomes
  <2>2. next \in HandoffState /\ next.pc = "marking" /\ next.made = handoff[h].made
    BY DEF HandoffState, LeadInv, LeadType, HandoffType
  <2> HIDE DEF next
  <2> QED  BY <1>1, <2>1, <2>2, DoneKeeps
<1>4. CASE EndHandoff(h)
  <2>1. handoff' = [handoff EXCEPT ![h] = IdleHandoff] /\ UNCHANGED bookVars /\ abreast' = abreast
    BY <1>4, Zenon DEF EndHandoff, Becomes
  <2> QED  BY <1>1, <2>1, IdleHandoffType, DoneKeeps
<1> QED  BY <1>1, <1>2, <1>3, <1>4, ListTrayKeeps, SyncBookKeeps, PickReadyKeeps, CreateChunkKeeps, CreateFailsKeeps,
            MarkHandedOffKeeps
-------------------------------------------------------------------------------
(* The sender, the guard, and all of them together                           *)

\* The sender only ever takes records out of the window.
LEMMA SendsUntouched ==
  ASSUME LeadInv, SenderWorks
  PROVE  BookType' /\ Untouched /\ UNCHANGED <<handoff, abreast>>
<1>1. tray \in Seq(TrayRow) /\ company' = company /\ contact' = contact /\ emailed' = emailed
      /\ recheck' = recheck /\ UNCHANGED <<handoff, abreast>>
  BY DEF SenderWorks, SenderNext, SenderEmails, SenderUnsubscribes, handoffVars, intakeVars, LeadInv, LeadType, BookType
<1>2. PICK i \in DOMAIN tray : SenderEmails(i) \/ SenderUnsubscribes(i)
  BY DEF SenderWorks, SenderNext
<1>3. tray[i] \in TrayRow
  BY <1>1, <1>2
<1>4. PICK row \in TrayRow : /\ tray' = [tray EXCEPT ![i] = row]
                             /\ row.of = tray[i].of /\ ~(row.status = "Ready" /\ ~row.sent)
  <2>1. CASE SenderEmails(i)
    <3> DEFINE first == [tray[i] EXCEPT !.sent = TRUE]
               second == [first EXCEPT !.status = "Contacted"]
    <3>1. tray' = [tray EXCEPT ![i] = second]
      BY <2>1, Zenon DEF SenderEmails
    <3>2. first \in TrayRow /\ first.of = tray[i].of
      BY <1>3 DEF TrayRow
    <3> HIDE DEF first
    <3>3. second \in TrayRow /\ second.of = tray[i].of /\ second.status = "Contacted"
      BY <3>2 DEF TrayRow
    <3> QED  BY <3>1, <3>3
  <2>2. CASE SenderUnsubscribes(i)
    <3> DEFINE first == [tray[i] EXCEPT !.status = "Unsubscribed"]
    <3>1. tray' = [tray EXCEPT ![i] = first]
      BY <2>2 DEF SenderUnsubscribes
    <3>2. first \in TrayRow /\ first.of = tray[i].of /\ first.status = "Unsubscribed"
      BY <1>3 DEF TrayRow
    <3> QED  BY <3>1, <3>2
  <2> QED  BY <1>2, <2>1, <2>2
<1>5. tray' \in Seq(TrayRow) /\ Len(tray') = Len(tray) /\ DOMAIN tray' = DOMAIN tray
  BY <1>1, <1>4
<1>6. \A j \in DOMAIN tray : tray'[j] = IF j = i THEN row ELSE tray[j]
  BY <1>1, <1>4
<1>7. SameRecords(tray', tray)
  BY <1>4, <1>5, <1>6 DEF SameRecords, WaitingIn
<1>8. BookType'
  BY <1>1, <1>5 DEF LeadInv, LeadType, BookType
<1> QED  BY <1>1, <1>7, <1>8 DEF Untouched

LEMMA GuardsUntouched ==
  ASSUME LeadInv, Guards
  PROVE  BookType' /\ Untouched /\ UNCHANGED <<handoff, abreast>>
<1>1. UNCHANGED <<company, contact, emailed, tray, recheck, handoff, abreast>>
  BY DEF Guards, GuardNext, GuardBars, bookVars, intakeVars
<1>2. SameRecords(tray, tray) /\ BookType'
  BY <1>1, RecordsStay DEF LeadInv, LeadType, BookType
<1> QED  BY <1>1, <1>2 DEF Untouched

\* A step that leaves the hand-offs alone: there is as much room, and no record less.
LEMMA UntouchedKeeps ==
  ASSUME LeadInv, Untouched, UNCHANGED <<handoff, abreast>>
  PROVE  RoomIsLeft' /\ HandedOffHasRecord'
<1>1. tray \in Seq(TrayRow) /\ handoff \in [Handoffs -> HandoffState] /\ abreast \in Nat
  BY DEF LeadInv, LeadType, BookType, HandoffType
<1>2. tray' \in Seq(TrayRow) /\ SameRecords(tray', tray) /\ DOMAIN tray' = DOMAIN tray
  BY <1>1 DEF Untouched, SameRecords
<1>3. RoomIsLeft'
  <2>1. Cardinality(WaitingIn(tray')) <= Cardinality(WaitingIn(tray))
    BY <1>1, <1>2, FewerWait
  <2>2. Cardinality(WaitingIn(tray')) \in Nat /\ Cardinality(WaitingIn(tray)) \in Nat /\ Cardinality(Reserved) \in Nat
    BY <1>1, <1>2, WaitingIsNumber, ReservedIsFinite
  <2>3. Reserved' = Reserved /\ ToppingUp' = ToppingUp
    BY DEF Reserved, ToppingUp
  <2> DEFINE most == Window * abreast
  <2>4. most \in Int /\ Window * abreast' = most
    BY <1>1, LeadAssumption
  <2>5. Cardinality(WaitingIn(tray)) + Cardinality(Reserved) <= most
    BY DEF LeadInv, RoomIsLeft
  <2> HIDE DEF most
  <2>6. Cardinality(WaitingIn(tray')) + Cardinality(Reserved) <= most
    BY <2>1, <2>2, <2>4, <2>5
  <2> QED  BY <2>3, <2>4, <2>6 DEF LeadInv, RoomIsLeft
<1>4. HandedOffHasRecord'
  <2>1. \A l \in Listings : HasRecord(tray, l) => HasRecord(tray', l)
    BY <1>2 DEF HasRecord, SameRecords
  <2>2. \A h \in Handoffs : \A i \in DOMAIN handoff[h].made : handoff[h].made[i].of \in Listings
    <3> SUFFICES ASSUME NEW h \in Handoffs, NEW i \in DOMAIN handoff[h].made PROVE handoff[h].made[i].of \in Listings
      OBVIOUS
    <3>1. handoff[h].made \in Seq(TrayRow)
      BY <1>1 DEF HandoffState
    <3>2. handoff[h].made[i] \in TrayRow
      BY <3>1
    <3> QED  BY <3>2 DEF TrayRow
  <2> QED  BY <2>1, <2>2 DEF LeadInv, HandedOffHasRecord, Untouched, InTray
<1> QED  BY <1>3, <1>4

LEMMA LeadInvInit == LeadInit => LeadInv
<1> SUFFICES ASSUME LeadInit PROVE LeadInv
  OBVIOUS
<1>1. /\ company = [l \in Listings |-> NoCompany] /\ contact = [a \in Mailboxes |-> NoContact]
      /\ emailed = {} /\ tray = <<>> /\ intake = [r \in Intakes |-> IdleIntake] /\ recheck = NoRecheck
      /\ lock = FreeLock /\ bookmark = "none" /\ run = [b \in BatchRuns |-> IdleRun]
      /\ handoff = [h \in Handoffs |-> IdleHandoff] /\ abreast = 0
  BY DEF LeadInit, BookInit, IntakeInit, BatchInit, HandoffInit
<1>2. NoCompany \in CompanyRows /\ NoCompany.status # "handed_off"
  BY DEF NoCompany, CompanyRows, CompanyRow
<1>3. BookType
  BY <1>1, <1>2 DEF BookType
<1>4. IntakeType
  BY <1>1, IdleIntakeType DEF IntakeType
<1>5. RecheckType
  BY <1>1, NoRecheckType DEF RecheckType
<1>6. BatchType
  BY <1>1, IdleRunType DEF BatchType, FreeLock
<1>7. HandoffType
  BY <1>1, IdleHandoffType DEF HandoffType
<1>8. TokensDiffer
  BY <1>1, IdleRunType DEF TokensDiffer, FreeLock
<1>9. RoomIsLeft
  <2>1. WaitingIn(tray) = {}
    BY <1>1 DEF WaitingIn
  <2>2. ToppingUp = {}
    BY <1>1, IdleHandoffType DEF ToppingUp
  <2>3. Reserved = {}
    <3>1. \A p \in Handoffs \X (1 .. Window) : p[2] \in 1 .. Window /\ Owed(handoff[p[1]]) = 0
      BY <1>1, IdleHandoffType
    <3> QED  BY <3>1, LeadAssumption DEF Reserved
  <2>4. Cardinality(WaitingIn(tray)) = 0 /\ Cardinality(ToppingUp) = 0 /\ Cardinality(Reserved) = 0
    BY <2>1, <2>2, <2>3, FS_EmptySet
  <2>5. Window * abreast = 0
    BY <1>1, LeadAssumption
  <2>6. \A h \in Handoffs : WellFormed(handoff[h])
    BY <1>1, IdleHandoffType
  <2> QED  BY <1>1, <2>4, <2>5, <2>6 DEF RoomIsLeft
<1>10. HandedOffHasRecord
  <2>1. \A l \in Listings : recheck.was[l] = "none"
    BY <1>1 DEF NoRecheck
  <2> QED  BY <1>1, <1>2, <2>1, IdleHandoffType DEF HandedOffHasRecord
<1> QED  BY <1>3, <1>4, <1>5, <1>6, <1>7, <1>8, <1>9, <1>10 DEF LeadInv, LeadType

\* The parts of the state that a step of somebody else leaves alone.
LEMMA IntakeAlone == ASSUME LeadType, UNCHANGED intakeVars PROVE IntakeType' /\ RecheckType'
BY DEF LeadType, IntakeType, RecheckType, intakeVars

LEMMA BatchAlone == ASSUME LeadInv, UNCHANGED batchVars PROVE BatchType' /\ TokensDiffer'
BY DEF LeadInv, LeadType, BatchType, TokensDiffer, batchVars

LEMMA HandoffAlone == ASSUME LeadType, UNCHANGED handoffVars PROVE HandoffType' /\ UNCHANGED <<handoff, abreast>>
BY DEF LeadType, HandoffType, handoffVars

LEMMA LeadInvStep == LeadInv /\ [LeadNext]_leadVars => LeadInv'
<1> SUFFICES ASSUME LeadInv, [LeadNext]_leadVars PROVE LeadInv'
  OBVIOUS
<1>1. LeadType
  BY DEF LeadInv
<1>2. ASSUME Searches PROVE LeadInv'
  <2>1. recheck' = recheck
    BY <1>2 DEF Searches, SearchNext, TakeBatch, ReadSites, LookUpAgain, InsertCandidate, DropConnection, EndBatch
  <2>2. RecheckType'
    BY <1>1, <2>1 DEF LeadType, RecheckType
  <2>3. UNCHANGED batchVars /\ UNCHANGED handoffVars
    BY <1>2 DEF Searches
  <2> QED  BY <1>1, <1>2, <2>2, <2>3, SearchTypes, SearchUntouched, BatchAlone, HandoffAlone, UntouchedKeeps
              DEF LeadInv, LeadType
<1>3. ASSUME Rechecks PROVE LeadInv'
  <2>1. intake' = intake
    BY <1>3 DEF Rechecks, RecheckNext, PickRows, RecoverRow, RequalifyRows, EndRecheck
  <2>2. IntakeType'
    BY <1>1, <2>1 DEF LeadType, IntakeType
  <2>3. UNCHANGED batchVars /\ UNCHANGED handoffVars
    BY <1>3 DEF Rechecks
  <2> QED  BY <1>1, <1>3, <2>2, <2>3, RecheckTypes, RecheckUntouched, BatchAlone, HandoffAlone, UntouchedKeeps
              DEF LeadInv, LeadType
<1>4. ASSUME Imports PROVE LeadInv'
  <2>1. UNCHANGED intakeVars
    BY <1>4 DEF Imports, ImportNext, ImportRecord
  <2>2. UNCHANGED batchVars /\ UNCHANGED handoffVars
    BY <1>4 DEF Imports
  <2> QED  BY <1>1, <1>4, <2>1, <2>2, ImportTypes, ImportUntouched, IntakeAlone, BatchAlone, HandoffAlone, UntouchedKeeps
              DEF LeadInv, LeadType
<1>5. ASSUME RunsBatches PROVE LeadInv'
  <2>1. UNCHANGED intakeVars /\ UNCHANGED handoffVars
    BY <1>5 DEF RunsBatches
  <2> QED  BY <1>1, <1>5, <2>1, BatchTypes, BatchLock, BatchUntouched, IntakeAlone, HandoffAlone, UntouchedKeeps
              DEF LeadInv, LeadType
<1>6. ASSUME HandsOff PROVE LeadInv'
  <2>1. UNCHANGED intakeVars /\ UNCHANGED batchVars
    BY <1>6 DEF HandsOff
  <2> QED  BY <1>1, <1>6, <2>1, HandsOffKeeps, IntakeAlone, BatchAlone DEF LeadInv, LeadType, HandoffKept
<1>7. ASSUME SenderWorks \/ Guards PROVE LeadInv'
  <2>1. UNCHANGED intakeVars /\ UNCHANGED batchVars
    BY <1>7 DEF SenderWorks, Guards
  <2>2. BookType' /\ Untouched /\ UNCHANGED <<handoff, abreast>>
    BY <1>7, SendsUntouched, GuardsUntouched
  <2>3. HandoffType'
    BY <1>1, <2>2 DEF LeadType, HandoffType
  <2> QED  BY <1>1, <2>1, <2>2, <2>3, IntakeAlone, BatchAlone, UntouchedKeeps DEF LeadInv, LeadType
<1>8. ASSUME UNCHANGED leadVars PROVE LeadInv'
  <2>1. UNCHANGED intakeVars /\ UNCHANGED batchVars /\ UNCHANGED handoffVars /\ UNCHANGED bookVars
    BY <1>8 DEF leadVars
  <2>2. BookType' /\ Untouched
    BY <1>1, <2>1, RecordsStay DEF LeadType, BookType, bookVars, intakeVars, Untouched
  <2> QED  BY <1>1, <2>1, <2>2, IntakeAlone, BatchAlone, HandoffAlone, UntouchedKeeps DEF LeadInv, LeadType
<1> QED  BY <1>2, <1>3, <1>4, <1>5, <1>6, <1>7, <1>8 DEF LeadNext

\* What the theorems below rest on: it holds at first, every step keeps it.
LEMMA LeadInvHolds == LeadSpec => []LeadInv
<1> QED  BY LeadInvInit, LeadInvStep, PTL DEF LeadSpec
-------------------------------------------------------------------------------
\* The rows of the book are of known listings with a known status and level, an
\* address belongs to one of them, and the tray holds records of them, whoever
\* writes (leadgen/store.py, migration 006).
THEOREM LeadBookTypes == LeadSpec => []BookTypeOK
<1>1. LeadInv => BookTypeOK
  <2> SUFFICES ASSUME LeadInv PROVE BookTypeOK
    OBVIOUS
  <2>1. BookType
    BY DEF LeadInv, LeadType
  <2>2. \A l \in Listings : company[l] \in CompanyRows
    BY <2>1 DEF BookType
  <2>3. \A a \in Mailboxes : contact[a] \in ContactRow \cup {NoContact}
    BY <2>1 DEF BookType
  <2>4. \A i \in DOMAIN tray : tray[i] \in TrayRow
    BY <2>1 DEF BookType
  <2> QED  BY <2>1, <2>2, <2>3, <2>4 DEF BookTypeOK, BookType, CompanyRows, ContactRow, TrayRow
<1> QED  BY <1>1, LeadInvHolds, PTL

\* Records that wait in the tray are never more than one window for each of the
\* hand-offs that ever topped it up at once, whatever the sender takes out
\* meanwhile, however many requests fail or are answered too late, and wherever a
\* hand-off dies: one window while hand-offs do not overlap, which is what
\* docs/lead_engine/README.md:63 says.
THEOREM TrayKeepsItsWindow == LeadSpec => []WindowKept
<1>1. LeadInv => WindowKept
  <2> SUFFICES ASSUME LeadInv PROVE WindowKept
    OBVIOUS
  <2>1. {i \in DOMAIN tray : tray[i].status = "Ready" /\ ~tray[i].sent} = WaitingIn(tray)
    BY Zenon DEF WaitingIn
  <2>2. Cardinality(WaitingIn(tray)) \in Nat /\ Cardinality(Reserved) \in Nat
    BY WaitingIsNumber, ReservedIsFinite DEF LeadInv, LeadType, BookType
  <2> DEFINE most == Window * abreast
  <2>3. most \in Int
    BY LeadAssumption DEF LeadInv, LeadType, HandoffType
  <2>4. Cardinality(WaitingIn(tray)) + Cardinality(Reserved) <= most
    BY DEF LeadInv, RoomIsLeft
  <2> HIDE DEF most
  <2>5. Cardinality(WaitingIn(tray)) <= most
    BY <2>2, <2>3, <2>4
  <2> QED  BY <2>1, <2>5 DEF WindowKept, most
<1> QED  BY <1>1, LeadInvHolds, PTL

\* A company that the book calls handed off has a record in the tray, though
\* searches, passes over the rows, imports and batches write the book as well.
THEOREM HandedOffAreInTray == LeadSpec => []HandedOffIsInTray
<1>1. LeadInv => HandedOffIsInTray
  BY DEF LeadInv, HandedOffHasRecord, HandedOffIsInTray, InTray, HasRecord, KnownListings
<1> QED  BY <1>1, LeadInvHolds, PTL

\* A batch whose lock is young and its own keeps it until it releases it itself,
\* however many others run, break stale locks, or die.
THEOREM HoldersKeepTheirLock == LeadSpec => HolderKeepsLock
<1>1. LeadInv /\ [LeadNext]_leadVars =>
        [\A b \in BatchRuns :
           lock.on /\ ~lock.stale /\ lock.token = run[b].token /\ run'[b].pc # "idle"
             => lock'.on /\ lock'.token = run[b].token]_<<bookVars, batchVars>>
  <2> SUFFICES ASSUME LeadInv, [LeadNext]_leadVars PROVE LockKept \/ UNCHANGED <<bookVars, batchVars>>
    BY Zenon DEF LockKept
  <2>1. CASE RunsBatches
    BY <2>1, BatchLock DEF LeadInv
  <2>2. CASE UNCHANGED batchVars
    BY <2>2 DEF batchVars, LockKept
  <2> QED  BY <2>1, <2>2 DEF LeadNext, leadVars, Searches, Rechecks, Imports, HandsOff, SenderWorks, Guards
<1> QED  BY <1>1, LeadInvHolds, PTL DEF LeadSpec, HolderKeepsLock
-------------------------------------------------------------------------------
(* The sources                                                               *)

FindState == [pc : {"idle", "round", "search"}, want : Nat, found : Nat, deadline : Nat, out : SUBSET SourceNames,
              turn : SUBSET SourceNames, src : SourceNames \cup {"none"}, batch : Seq(LeadQueries), progressed : BOOLEAN]
SourcesType ==
  /\ health \in [SourceNames -> [fails : Nat, until : Nat]]
  /\ asked \in [LeadQueries -> {"never", "done", "old", "error"}]
  /\ ready \in 0 .. MaxReady /\ today \in Nat /\ clock \in 1 .. MaxClock
  /\ find \in [FindRuns -> FindState]
  /\ \A r \in FindRuns : find[r].pc = "search" => find[r].src \in SourceNames
  /\ late \in [FindRuns -> [SourceNames -> Nat]]

\* Who failed at a benched source does not search there while the bench lasts.
SearchesAt(r, s) == find[r].pc = "search" /\ find[r].src = s
LateLeaves ==
  \A r \in FindRuns, s \in SourceNames :
    late[r][s] <= 1 /\ (late[r][s] # 0 => Benched(s) /\ ~SearchesAt(r, s))
SourcesInv == SourcesType /\ LateLeaves

LEMMA DueType ==
  ASSUME NEW s \in SourceNames
  PROVE  Due(s) \in Seq(LeadQueries)
<1> DEFINE never == {q \in LeadQueries : asked[q] \in {"never", "error"}}
           old == {q \in LeadQueries : asked[q] = "old"}
           fresh == Keeping(Catalog[s], never)
           rest == Keeping(Catalog[s], old)
           all == fresh \o rest
           n == IF Len(all) < BatchLimit THEN Len(all) ELSE BatchLimit
<1>1. Catalog[s] \in Seq(InCatalog(s)) /\ BatchLimit \in Nat
  BY LeadSourcesAssumption
<1>2. Due(s) = SubSeq(all, 1, n)
  BY Zenon DEF Due
<1> HIDE DEF never, old
<1>3. fresh \in Seq(InCatalog(s) \cap never) /\ rest \in Seq(InCatalog(s) \cap old)
  BY <1>1, KeepingType
<1>4. InCatalog(s) \subseteq LeadQueries
  BY DEF LeadQueries
<1> HIDE DEF fresh, rest
<1>5. fresh \in Seq(LeadQueries) /\ rest \in Seq(LeadQueries)
  BY <1>3, <1>4
<1>6. all \in Seq(LeadQueries)
  BY <1>5
<1> HIDE DEF all
<1>7. n \in 0 .. Len(all)
  BY <1>1, <1>6
<1> HIDE DEF n
<1> QED  BY <1>2, <1>6, <1>7

LEMMA NotFindingType == NotFinding \in FindState /\ NotFinding.pc = "idle"
BY DEF NotFinding, FindState

LEMMA WantedType ==
  ASSUME SourcesType, NEW force \in BOOLEAN
  PROVE  Wanted(force) \in Nat
<1>1. ready \in Nat /\ today \in Nat /\ TargetReady \in Nat /\ DailyTarget \in Nat
  BY LeadSourcesAssumption DEF SourcesType
<1>2. \A a, b \in Nat : Less(a, b) \in Nat /\ Larger(a, b) \in Nat
  BY DEF Less, Larger
<1>3. DailyGap \in Nat /\ Less(TargetReady, ready) \in Nat
  BY <1>1, <1>2 DEF DailyGap
<1> DEFINE room == IF NeedsRefill(force) THEN Less(TargetReady, ready) ELSE 0
           least == IF force THEN 1 ELSE 0
           most == Larger(DailyGap, room)
<1>4. room \in Nat /\ least \in Nat
  BY <1>3
<1>5. Wanted(force) = Larger(most, least)
  BY Zenon DEF Wanted
<1> HIDE DEF room, least
<1>6. most \in Nat
  BY <1>2, <1>3, <1>4
<1> HIDE DEF most
<1> QED  BY <1>2, <1>4, <1>5, <1>6

\* The small steps of a run keep its form, and where it searches.
LEMMA NextSourceType ==
  ASSUME NEW r \in FindRuns, find[r] \in FindState, NEW s
  PROVE  NextSource(r, s) \in FindState /\ NextSource(r, s).pc = find[r].pc /\ NextSource(r, s).src = find[r].src
         /\ NextSource(r, s).out = find[r].out
BY DEF NextSource, FindState

LEMMA BackType ==
  ASSUME NEW f \in FindState
  PROVE  Back(f) \in FindState /\ Back(f).pc = "round" /\ Back(f).out = f.out
<1> DEFINE first == [f EXCEPT !.pc = "round"]
           second == [first EXCEPT !.src = "none"]
           third == [second EXCEPT !.batch = <<>>]
<1>1. Back(f) = third
  BY Zenon DEF Back
<1>2. first \in FindState /\ first.pc = "round" /\ first.out = f.out
  BY DEF FindState
<1> HIDE DEF first
<1>3. second \in FindState /\ second.pc = "round" /\ second.out = f.out
  BY <1>2 DEF FindState
<1> HIDE DEF second
<1>4. <<>> \in Seq(LeadQueries)
  OBVIOUS
<1>5. third \in FindState /\ third.pc = "round" /\ third.out = f.out
  BY <1>3, <1>4 DEF FindState
<1> HIDE DEF third
<1> QED  BY <1>1, <1>5

LEMMA NextQueryType ==
  ASSUME NEW f \in FindState, f.batch # <<>>
  PROVE  NextQuery(f) \in FindState /\ NextQuery(f).pc = f.pc /\ NextQuery(f).src = f.src
         /\ NextQuery(f).found = f.found
<1>1. Tail(f.batch) \in Seq(LeadQueries)
  BY DEF FindState
<1> QED  BY <1>1 DEF NextQuery, FindState

LEMMA OutType ==
  ASSUME NEW f \in FindState, NEW s \in SourceNames
  PROVE  [f EXCEPT !.out = f.out \cup {s}] \in FindState /\ [f EXCEPT !.out = f.out \cup {s}].pc = f.pc
         /\ [f EXCEPT !.out = f.out \cup {s}].src = f.src
BY DEF FindState

\* A step of one run, which leaves the others and what is shared alone.
LEMMA RunMoves ==
  ASSUME SourcesInv, NEW r \in FindRuns, NEW f \in FindState,
         find' = [find EXCEPT ![r] = f], UNCHANGED <<health, asked, ready, today, clock, late>>,
         f.pc = "search" => f.src \in SourceNames /\ (~Benched(f.src) \/ SearchesAt(r, f.src))
  PROVE  SourcesInv'
<1>1. find' \in [FindRuns -> FindState] /\ find'[r] = f /\ \A t \in FindRuns : t # r => find'[t] = find[t]
  BY DEF SourcesInv, SourcesType
<1>2. SourcesType'
  BY <1>1 DEF SourcesInv, SourcesType
<1>3. \A s \in SourceNames : Benched(s)' = Benched(s)
  BY DEF Benched
<1>4. LateLeaves'
  <2> SUFFICES ASSUME NEW t \in FindRuns, NEW s \in SourceNames, late[t][s] # 0 PROVE Benched(s) /\ ~SearchesAt(t, s)'
    BY <1>3 DEF SourcesInv, LateLeaves
  <2>1. Benched(s) /\ ~SearchesAt(t, s)
    BY DEF SourcesInv, LateLeaves
  <2> QED  BY <1>1, <2>1 DEF SearchesAt
<1> QED  BY <1>2, <1>4 DEF SourcesInv

LEMMA StartFindingKeeps ==
  ASSUME SourcesInv, NEW r \in FindRuns, NEW force \in BOOLEAN, StartFinding(r, force)
  PROVE  SourcesInv'
<1> DEFINE first == [NotFinding EXCEPT !.pc = "round"]
           second == [first EXCEPT !.want = Wanted(force)]
           third == [second EXCEPT !.deadline = clock + RunTicks]
           next == [third EXCEPT !.turn = SourceNames]
<1>1. find' = [find EXCEPT ![r] = next] /\ UNCHANGED <<health, asked, ready, today, clock, late>>
  BY Zenon DEF StartFinding
<1>2. Wanted(force) \in Nat /\ clock + RunTicks \in Nat
  BY WantedType, LeadSourcesAssumption DEF SourcesInv, SourcesType
<1>3. first \in FindState /\ first.pc = "round"
  BY NotFindingType DEF FindState
<1> HIDE DEF first
<1>4. second \in FindState /\ second.pc = "round"
  BY <1>2, <1>3 DEF FindState
<1> HIDE DEF second
<1>5. third \in FindState /\ third.pc = "round"
  BY <1>2, <1>4 DEF FindState
<1> HIDE DEF third
<1>6. next \in FindState /\ next.pc = "round"
  BY <1>5 DEF FindState
<1> HIDE DEF next
<1> QED  BY <1>1, <1>6, RunMoves

\* A run goes to search a source only when the source is not benched.
LEMMA PlanSourceKeeps ==
  ASSUME SourcesInv, NEW r \in FindRuns, NEW s \in SourceNames, NEW db \in BOOLEAN, PlanSource(r, s, db)
  PROVE  SourcesInv'
<1> DEFINE on == NextSource(r, s)
           first == [on EXCEPT !.pc = "search"]
           second == [first EXCEPT !.src = s]
           third == [second EXCEPT !.batch = Due(s)]
<1>1. /\ \/ find' = [find EXCEPT ![r] = on]
         \/ find' = [find EXCEPT ![r] = [on EXCEPT !.out = @ \cup {s}]]
         \/ find' = [find EXCEPT ![r] = third] /\ ~Benched(s)
      /\ UNCHANGED <<health, asked, ready, today, clock, late>> /\ find[r].pc = "round"
  BY Zenon DEF PlanSource
<1>2. on \in FindState /\ on.pc = "round"
  BY <1>1, NextSourceType DEF SourcesInv, SourcesType
<1> HIDE DEF on
<1>3. [on EXCEPT !.out = on.out \cup {s}] \in FindState /\ [on EXCEPT !.out = on.out \cup {s}].pc = "round"
  BY <1>2, OutType
<1>4. first \in FindState /\ first.pc = "search"
  BY <1>2 DEF FindState
<1> HIDE DEF first
<1>5. second \in FindState /\ second.pc = "search" /\ second.src = s
  BY <1>4 DEF FindState
<1> HIDE DEF second
<1>6. third \in FindState /\ third.pc = "search" /\ third.src = s
  BY <1>5, DueType DEF FindState
<1> HIDE DEF third
<1>7. CASE find' = [find EXCEPT ![r] = on]
  BY <1>1, <1>2, <1>7, RunMoves
<1>8. CASE find' = [find EXCEPT ![r] = [on EXCEPT !.out = @ \cup {s}]]
  <2> DEFINE out == [on EXCEPT !.out = on.out \cup {s}]
  <2>1. find' = [find EXCEPT ![r] = out]
    BY <1>8
  <2>2. out \in FindState /\ out.pc = "round"
    BY <1>3
  <2> HIDE DEF out
  <2> QED  BY <1>1, <2>1, <2>2, RunMoves
<1>9. CASE find' = [find EXCEPT ![r] = third] /\ ~Benched(s)
  BY <1>1, <1>6, <1>9, RunMoves
<1> QED  BY <1>1, <1>7, <1>8, <1>9

LEMMA EndRoundKeeps ==
  ASSUME SourcesInv, NEW r \in FindRuns, EndRound(r)
  PROVE  SourcesInv'
<1> DEFINE first == [find[r] EXCEPT !.turn = SourceNames]
           next == [first EXCEPT !.progressed = FALSE]
<1>1. find[r] \in FindState /\ find[r].pc = "round" /\ UNCHANGED <<health, asked, ready, today, clock, late>>
  BY DEF EndRound, SourcesInv, SourcesType
<1>2. find' = [find EXCEPT ![r] = next] \/ find' = [find EXCEPT ![r] = NotFinding]
  BY DEF EndRound, Ends, SourcesInv, SourcesType
<1>3. first \in FindState /\ first.pc = "round"
  BY <1>1 DEF FindState
<1> HIDE DEF first
<1>4. next \in FindState /\ next.pc = "round"
  BY <1>3 DEF FindState
<1> HIDE DEF next
<1>5. CASE find' = [find EXCEPT ![r] = next]
  BY <1>1, <1>4, <1>5, RunMoves
<1>6. CASE find' = [find EXCEPT ![r] = NotFinding]
  BY <1>1, <1>6, NotFindingType, RunMoves
<1> QED  BY <1>2, <1>5, <1>6

LEMMA EndQueriesKeeps ==
  ASSUME SourcesInv, NEW r \in FindRuns, EndQueries(r)
  PROVE  SourcesInv'
<1>1. find' = [find EXCEPT ![r] = Back(find[r])] /\ UNCHANGED <<health, asked, ready, today, clock, late>>
  BY Zenon DEF EndQueries
<1>2. Back(find[r]) \in FindState /\ Back(find[r]).pc = "round"
  BY BackType DEF SourcesInv, SourcesType
<1> QED  BY <1>1, <1>2, RunMoves

LEMMA FailureType ==
  ASSUME SourcesType, NEW s \in SourceNames, NEW times \in Losses
  PROVE  /\ FailureOf(health, s, times) \in [SourceNames -> [fails : Nat, until : Nat]]
         /\ \A o \in SourceNames : o # s => FailureOf(health, s, times)[o] = health[o]
         /\ FailureOf(health, s, times)[s].until \in {health[s].until, clock + BenchTicks}
<1> DEFINE sum == health[s].fails + times
           n == IF sum < DisableAfter THEN sum ELSE DisableAfter
           row == [fails |-> n, until |-> IF n >= DisableAfter THEN clock + BenchTicks ELSE health[s].until]
<1>1. FailureOf(health, s, times) = [health EXCEPT ![s] = row]
  BY Zenon DEF FailureOf
<1>2. /\ health \in [SourceNames -> [fails : Nat, until : Nat]] /\ clock \in Nat /\ times \in Nat
      /\ DisableAfter \in Nat /\ BenchTicks \in Nat
  BY LeadSourcesAssumption DEF SourcesType, Losses
<1>3. n \in Nat
  BY <1>2
<1> HIDE DEF n
<1>4. row \in [fails : Nat, until : Nat] /\ row.until \in {health[s].until, clock + BenchTicks}
  BY <1>2, <1>3
<1> HIDE DEF row
<1> QED  BY <1>1, <1>2, <1>4

\* A failure at a benched source makes the run leave it: the one late failure
\* is the last one while the bench lasts.
LEMMA SearchFailsKeeps ==
  ASSUME SourcesInv, NEW r \in FindRuns, NEW times \in Losses, SearchFails(r, times)
  PROVE  SourcesInv'
<1> DEFINE s == find[r].src
           h == IF times = 0 THEN health ELSE FailureOf(health, s, times)
           back == Back(find[r])
           left == [back EXCEPT !.out = back.out \cup {s}]
           on == NextQuery(find[r])
<1>1. /\ health' = h /\ UNCHANGED <<ready, today, clock>>
      /\ asked' = IF times = 0 THEN asked ELSE [asked EXCEPT ![Query(r)] = "error"]
      /\ late' = IF Benched(s) THEN [late EXCEPT ![r][s] = @ + 1] ELSE late
      /\ find' = [find EXCEPT ![r] = IF times = 0 THEN back ELSE IF LeavesSource(s, h) THEN left ELSE on]
      /\ Searching(r)
  BY Zenon DEF SearchFails
<1>2. /\ find \in [FindRuns -> FindState] /\ find[r] \in FindState /\ s \in SourceNames /\ find[r].batch # <<>>
      /\ SearchesAt(r, s) /\ clock \in Nat \ {0} /\ health \in [SourceNames -> [fails : Nat, until : Nat]]
      /\ late \in [FindRuns -> [SourceNames -> Nat]]
  BY <1>1 DEF SourcesInv, SourcesType, Searching, SearchesAt
<1>3. back \in FindState /\ back.pc = "round"
  BY <1>2, BackType
<1>4. on \in FindState /\ on.pc = "search" /\ on.src = s
  BY <1>2, NextQueryType DEF SearchesAt
<1> HIDE DEF back, on
<1>5. left \in FindState /\ left.pc = "round"
  BY <1>2, <1>3, OutType
<1> HIDE DEF left
<1>6. /\ h \in [SourceNames -> [fails : Nat, until : Nat]]
      /\ \A o \in SourceNames : o # s => h[o] = health[o]
      /\ h[s].until \in {health[s].until, clock + BenchTicks}
  BY <1>2, FailureType DEF SourcesInv
<1> HIDE DEF h
<1>7. /\ \A o \in SourceNames : Benched(o) => Benched(o)'
      /\ Benched(s) => LeavesSource(s, h)
  <2>1. clock' = clock /\ health' = h /\ BenchTicks \in Nat \ {0} /\ h[s].until \in Nat
    BY <1>1, <1>2, <1>6, LeadSourcesAssumption
  <2>2. \A o \in SourceNames : health[o].until \in Nat
    BY <1>2
  <2>3. health[s].until > clock => h[s].until > clock /\ h[s].until # 0
    BY <1>2, <1>6, <2>1, <2>2
  <2> HIDE DEF s
  <2> QED  BY <1>6, <2>1, <2>3 DEF Benched, LeavesSource
<1>8. late[r][s] = 0
  BY <1>2 DEF SourcesInv, LateLeaves
<1>9. /\ late' \in [FindRuns -> [SourceNames -> Nat]]
      /\ \A t \in FindRuns, o \in SourceNames :
           late'[t][o] = IF t = r /\ o = s /\ Benched(s) THEN 1 ELSE late[t][o]
  BY <1>1, <1>2, <1>8
<1>10. PICK f \in {back, left, on} : find' = [find EXCEPT ![r] = f]
  BY <1>1
<1>11. f \in FindState /\ (f.pc = "search" => f.src = s)
  BY <1>3, <1>4, <1>5, <1>10
<1>12. /\ find' \in [FindRuns -> FindState] /\ find'[r] = f
       /\ \A t \in FindRuns : t # r => find'[t] = find[t]
  BY <1>2, <1>10, <1>11
<1>13. Benched(s) => find'[r].pc = "round"
  BY <1>1, <1>2, <1>3, <1>5, <1>7
<1>14. asked' \in [LeadQueries -> {"never", "done", "old", "error"}]
  BY <1>1 DEF SourcesInv, SourcesType
<1>15. SourcesType'
  BY <1>1, <1>2, <1>6, <1>9, <1>11, <1>12, <1>14 DEF SourcesInv, SourcesType
<1> HIDE DEF s
<1>16. LateLeaves'
  <2> SUFFICES ASSUME NEW t \in FindRuns, NEW o \in SourceNames
               PROVE  late'[t][o] <= 1 /\ (late'[t][o] # 0 => Benched(o)' /\ ~SearchesAt(t, o)')
    BY DEF LateLeaves
  <2>1. late[t][o] <= 1 /\ (late[t][o] # 0 => Benched(o) /\ ~SearchesAt(t, o))
    BY DEF SourcesInv, LateLeaves
  <2>2. CASE t = r /\ o = s /\ Benched(s)
    BY <1>7, <1>9, <1>13, <2>2 DEF SearchesAt
  <2>3. CASE ~(t = r /\ o = s /\ Benched(s))
    <3>1. late'[t][o] = late[t][o]
      BY <1>9, <2>3
    <3>2. late[t][o] # 0 => ~(t = r /\ o = s)
      BY <2>1, <2>3
    <3>3. ~(t = r /\ o = s) /\ ~SearchesAt(t, o) => ~SearchesAt(t, o)'
      BY <1>11, <1>12 DEF SearchesAt
    <3> QED  BY <1>7, <2>1, <3>1, <3>2, <3>3
  <2> QED  BY <2>2, <2>3
<1> QED  BY <1>15, <1>16 DEF SourcesInv

LEMMA SearchAnswersKeeps ==
  ASSUME SourcesInv, NEW r \in FindRuns, NEW n \in Yields, NEW fails, SearchAnswers(r, n, fails)
  PROVE  SourcesInv'
<1> DEFINE s == find[r].src
           on == NextQuery(find[r])
           first == [on EXCEPT !.found = on.found + n]
           next == [first EXCEPT !.progressed = TRUE]
<1>1. /\ Searching(r) /\ ready + n <= MaxReady /\ clock' = clock
      /\ health' = IF fails = "screening" THEN health ELSE SuccessOf(health, s)
      /\ late' = IF fails = "screening" THEN late ELSE [t \in FindRuns |-> [late[t] EXCEPT ![s] = 0]]
      /\ find' = [find EXCEPT ![r] = on] \/ find' = [find EXCEPT ![r] = next]
      /\ asked' = asked \/ asked' = [asked EXCEPT ![Query(r)] = "done"]
      /\ (ready' = ready \/ ready' = ready + n) /\ (today' = today \/ today' = today + n)
  BY Zenon DEF SearchAnswers
<1>2. /\ find \in [FindRuns -> FindState] /\ find[r] \in FindState /\ s \in SourceNames /\ find[r].batch # <<>>
      /\ SearchesAt(r, s) /\ health \in [SourceNames -> [fails : Nat, until : Nat]]
      /\ late \in [FindRuns -> [SourceNames -> Nat]] /\ n \in Nat
  <2>1. n \in Nat
    BY LeadSourcesAssumption DEF Yields
  <2> QED  BY <1>1, <2>1 DEF SourcesInv, SourcesType, Searching, SearchesAt
<1>3. on \in FindState /\ on.pc = "search" /\ on.src = s
  BY <1>2, NextQueryType DEF SearchesAt
<1> HIDE DEF on
<1>4. on.found + n \in Nat
  BY <1>2, <1>3 DEF FindState
<1>5. first \in FindState /\ first.pc = "search" /\ first.src = s
  <2> DEFINE total == on.found + n
  <2>1. total \in Nat
    BY <1>4
  <2> HIDE DEF total, s
  <2>2. [on EXCEPT !.found = total] \in FindState /\ [on EXCEPT !.found = total].pc = "search"
        /\ [on EXCEPT !.found = total].src = s
    BY <1>3, <2>1 DEF FindState
  <2> QED  BY <2>2 DEF total
<1> HIDE DEF first
<1>6. next \in FindState /\ next.pc = "search" /\ next.src = s
  BY <1>5 DEF FindState
<1> HIDE DEF next
<1>7. PICK f \in {on, next} : find' = [find EXCEPT ![r] = f]
  BY <1>1
<1>8. f \in FindState /\ f.pc = "search" /\ f.src = s
  BY <1>3, <1>6, <1>7
<1>9. /\ find' \in [FindRuns -> FindState] /\ find'[r] = f
      /\ \A t \in FindRuns : t # r => find'[t] = find[t]
  BY <1>2, <1>7, <1>8
<1>10. /\ health' \in [SourceNames -> [fails : Nat, until : Nat]]
       /\ \A o \in SourceNames : o # s => health'[o] = health[o]
       /\ fails = "screening" => health' = health
  BY <1>1, <1>2 DEF SuccessOf
<1>11. /\ late' \in [FindRuns -> [SourceNames -> Nat]]
       /\ \A t \in FindRuns, o \in SourceNames :
            late'[t][o] = IF fails # "screening" /\ o = s THEN 0 ELSE late[t][o]
  BY <1>1, <1>2
<1>12. ready' \in 0 .. MaxReady /\ today' \in Nat
  BY <1>1, <1>2, LeadSourcesAssumption DEF SourcesInv, SourcesType
<1>13. SourcesType'
  BY <1>1, <1>2, <1>8, <1>9, <1>10, <1>11, <1>12 DEF SourcesInv, SourcesType
<1> HIDE DEF s
<1>14. LateLeaves'
  <2> SUFFICES ASSUME NEW t \in FindRuns, NEW o \in SourceNames
               PROVE  late'[t][o] <= 1 /\ (late'[t][o] # 0 => Benched(o)' /\ ~SearchesAt(t, o)')
    BY DEF LateLeaves
  <2>1. late[t][o] <= 1 /\ (late[t][o] # 0 => Benched(o) /\ ~SearchesAt(t, o))
    BY DEF SourcesInv, LateLeaves
  <2>2. CASE fails # "screening" /\ o = s
    BY <1>11, <2>2
  <2>3. CASE ~(fails # "screening" /\ o = s)
    <3>1. late'[t][o] = late[t][o] /\ health'[o] = health[o]
      BY <1>10, <1>11, <2>3
    <3>2. Benched(o)' = Benched(o)
      BY <1>1, <3>1 DEF Benched
    <3>3. SearchesAt(t, o)' => SearchesAt(t, o)
      BY <1>2, <1>8, <1>9 DEF SearchesAt
    <3> QED  BY <2>1, <3>1, <3>2, <3>3
  <2> QED  BY <2>2, <2>3
<1> QED  BY <1>13, <1>14 DEF SourcesInv

\* A tick ends benches, and forgets what was late there.
\* A batch of leadgen/pipeline.py may end a bench, which ends what is late there, or
\* prolong it.
LEMMA SearchedByBatchKeeps ==
  ASSUME SourcesInv, NEW s \in SourceNames, SearchedByBatch(s)
  PROVE  SourcesInv'
<1>1. UNCHANGED <<asked, ready, today, find, clock>>
  BY DEF SearchedByBatch
<1>2. /\ health \in [SourceNames -> [fails : Nat, until : Nat]] /\ late \in [FindRuns -> [SourceNames -> Nat]]
      /\ clock \in Nat
  BY DEF SourcesInv, SourcesType
<1>3. CASE health' = SuccessOf(health, s) /\ late' = [t \in FindRuns |-> [late[t] EXCEPT ![s] = 0]]
  <2>1. [fails |-> 0, until |-> 0] \in [fails : Nat, until : Nat]
    OBVIOUS
  <2>2. /\ health' \in [SourceNames -> [fails : Nat, until : Nat]]
        /\ \A o \in SourceNames : o # s => health'[o] = health[o]
    BY <1>2, <1>3, <2>1 DEF SuccessOf
  <2>3. /\ late' \in [FindRuns -> [SourceNames -> Nat]]
        /\ \A t \in FindRuns, o \in SourceNames : late'[t][o] = IF o = s THEN 0 ELSE late[t][o]
    BY <1>2, <1>3
  <2>4. SourcesType'
    BY <1>1, <2>2, <2>3 DEF SourcesInv, SourcesType
  <2>5. LateLeaves'
    BY <1>1, <2>2, <2>3 DEF SourcesInv, LateLeaves, Benched, SearchesAt
  <2> QED  BY <2>4, <2>5 DEF SourcesInv
<1>4. CASE health' = FailureOf(health, s, 1) /\ late' = late
  <2>1. /\ health' \in [SourceNames -> [fails : Nat, until : Nat]]
        /\ \A o \in SourceNames : o # s => health'[o] = health[o]
        /\ health'[s].until \in {health[s].until, clock + BenchTicks}
    BY <1>4, FailureType DEF SourcesInv, Losses
  <2>2. \A o \in SourceNames : Benched(o) => Benched(o)'
    <3>1. BenchTicks \in Nat \ {0} /\ clock' = clock
      BY <1>1, LeadSourcesAssumption
    <3>2. \A o \in SourceNames : health[o].until \in Nat /\ health'[o].until \in Nat
      BY <1>2, <2>1
    <3>3. \A o \in SourceNames : health[o].until > clock => health'[o].until > clock
      <4> SUFFICES ASSUME NEW o \in SourceNames, health[o].until > clock PROVE health'[o].until > clock
        OBVIOUS
      <4>1. CASE o = s
        <5>1. health'[s].until = health[s].until \/ health'[s].until = clock + BenchTicks
          BY <2>1
        <5>2. clock + BenchTicks > clock
          BY <1>2, <3>1
        <5> QED  BY <4>1, <5>1, <5>2
      <4>2. CASE o # s
        BY <2>1, <4>2
      <4> QED  BY <4>1, <4>2
    <3> QED  BY <3>1, <3>3 DEF Benched
  <2>3. SourcesType'
    BY <1>1, <1>4, <2>1 DEF SourcesInv, SourcesType
  <2>4. LateLeaves'
    BY <1>1, <1>4, <2>2 DEF SourcesInv, LateLeaves, SearchesAt
  <2> QED  BY <2>3, <2>4 DEF SourcesInv
<1> QED  BY <1>3, <1>4 DEF SearchedByBatch

LEMMA ClockTicksKeeps ==
  ASSUME SourcesInv, ClockTicks
  PROVE  SourcesInv'
<1>1. /\ clock \in 1 .. MaxClock /\ clock < MaxClock /\ clock' = clock + 1 /\ UNCHANGED <<health, ready, find>>
      /\ late' = [r \in FindRuns |-> [s \in SourceNames |-> IF health[s].until > clock + 1 THEN late[r][s] ELSE 0]]
      /\ today' \in Nat /\ asked' \in [LeadQueries -> {"never", "done", "old", "error"}]
  BY DEF ClockTicks, SourcesInv, SourcesType
<1>2. clock' \in 1 .. MaxClock
  BY <1>1, LeadSourcesAssumption
<1>3. late \in [FindRuns -> [SourceNames -> Nat]]
  BY DEF SourcesInv, SourcesType
<1>4. /\ late' \in [FindRuns -> [SourceNames -> Nat]]
      /\ \A r \in FindRuns, s \in SourceNames :
           late'[r][s] = IF health[s].until > clock + 1 THEN late[r][s] ELSE 0
  BY <1>1, <1>3
<1>5. SourcesType'
  BY <1>1, <1>2, <1>4 DEF SourcesInv, SourcesType
<1>6. LateLeaves'
  BY <1>1, <1>4 DEF SourcesInv, LateLeaves, Benched, SearchesAt
<1> QED  BY <1>5, <1>6 DEF SourcesInv

LEMMA SourcesInvariance == SourcesSpec => []SourcesInv
<1>1. SourcesInit => SourcesInv
  <2> SUFFICES ASSUME SourcesInit PROVE SourcesInv
    OBVIOUS
  <2>1. SourcesType
    BY NotFindingType, LeadSourcesAssumption DEF SourcesInit, SourcesType
  <2>2. LateLeaves
    BY DEF SourcesInit, LateLeaves
  <2> QED  BY <2>1, <2>2 DEF SourcesInv
<1>2. SourcesInv /\ [SourcesNext]_sourceVars => SourcesInv'
  <2> SUFFICES ASSUME SourcesInv, [SourcesNext]_sourceVars PROVE SourcesInv'
    OBVIOUS
  <2>1. CASE InventoryShrinks
    <3>1. UNCHANGED <<health, asked, today, find, clock, late>> /\ ready' \in 0 .. MaxReady
      BY <2>1, LeadSourcesAssumption DEF InventoryShrinks, SourcesInv, SourcesType
    <3> QED  BY <3>1 DEF SourcesInv, SourcesType, LateLeaves, Benched, SearchesAt
  <2>2. CASE UNCHANGED sourceVars
    BY <2>2 DEF sourceVars, SourcesInv, SourcesType, LateLeaves, Benched, SearchesAt
  <2>3. ASSUME NEW r \in FindRuns, FindWork(r) PROVE SourcesInv'
    BY <2>3, EndRoundKeeps, EndQueriesKeeps, PlanSourceKeeps, SearchFailsKeeps, SearchAnswersKeeps DEF FindWork
  <2>4. ASSUME NEW s \in BatchSources, SearchedByBatch(s) PROVE SourcesInv'
    BY <2>4, SearchedByBatchKeeps, LeadSourcesAssumption
  <2> QED  BY <2>1, <2>2, <2>3, <2>4, StartFindingKeeps, ClockTicksKeeps DEF SourcesNext
<1> QED  BY <1>1, <1>2, PTL DEF SourcesSpec

\* A source that is benched (source_failure(), leadgen/store.py) meets at most
\* one more failure of each run that planned it before, however many runs
\* overlap and whatever write of the bookkeeping is lost or done twice.
THEOREM BenchedAreSpared == SourcesSpec => []BenchSpares
<1>1. SourcesInv => BenchSpares
  BY DEF SourcesInv, LateLeaves, BenchSpares
<1> QED  BY <1>1, SourcesInvariance, PTL

\* Health, queries, runs and the inventory keep their types (leadgen/store.py).
THEOREM SourcesTypes == SourcesSpec => []SourcesTypeOK
<1>1. SourcesInv => SourcesTypeOK
  <2> SUFFICES ASSUME SourcesInv PROVE SourcesTypeOK
    OBVIOUS
  <2>1. SourcesType /\ \A r \in FindRuns : find[r] \in FindState
    BY DEF SourcesInv, SourcesType
  <2> QED  BY <2>1 DEF SourcesType, SourcesTypeOK, FindState
<1> QED  BY <1>1, SourcesInvariance, PTL
-------------------------------------------------------------------------------
(* The ledger of BrightReach                                                 *)

ReachEvent == [kind : EventKinds, lead : ClientLeads, status : ReachStatuses]
\* Whoever the ledger knows was posted once.
ReachInv ==
  /\ ledger \in Seq(ReachEvent) /\ torn \in BOOLEAN
  /\ fact \in [DOMAIN fact -> LeadFacts]
  /\ \A i \in DOMAIN ledger : ledger[i].lead \in DOMAIN fact

\* What is new in the ledger is of one lead.
GrowsFor(log, l) ==
  /\ log \in Seq(ReachEvent) /\ Len(ledger) <= Len(log)
  /\ \A i \in DOMAIN log : IF i <= Len(ledger) THEN log[i] = ledger[i] ELSE log[i].lead = l

LEMMA EventType ==
  ASSUME NEW kind \in EventKinds, NEW l \in ClientLeads, NEW status \in ReachStatuses
  PROVE  LeadEvent(kind, l, status) \in ReachEvent /\ LeadEvent(kind, l, status).lead = l
BY DEF LeadEvent, ReachEvent

LEMMA AppendGrows ==
  ASSUME ledger \in Seq(ReachEvent), NEW l, NEW log, GrowsFor(log, l), NEW e \in ReachEvent, e.lead = l
  PROVE  GrowsFor(Append(log, e), l)
<1> DEFINE new == Append(log, e)
<1>1. new \in Seq(ReachEvent) /\ Len(new) = Len(log) + 1 /\ new[Len(log) + 1] = e
      /\ \A i \in DOMAIN log : new[i] = log[i]
  BY DEF GrowsFor
<1>2. \A i \in DOMAIN new : i \in DOMAIN log \/ i = Len(log) + 1
  BY <1>1 DEF GrowsFor
<1>3. Len(log) + 1 > Len(ledger) /\ Len(ledger) <= Len(new)
  BY <1>1 DEF GrowsFor
<1> HIDE DEF new
<1>4. GrowsFor(new, l)
  BY <1>1, <1>2, <1>3 DEF GrowsFor
<1> QED  BY <1>4 DEF new

LEMMA WriteGrows ==
  ASSUME ReachInv, NEW l, NEW e \in ReachEvent, e.lead = l, WriteEvent(e)
  PROVE  GrowsFor(ledger', l) /\ torn' \in BOOLEAN
<1>1. GrowsFor(ledger, l)
  BY DEF GrowsFor, ReachInv
<1>2. ledger' = ledger \/ ledger' = Append(ledger, e)
  BY DEF WriteEvent, Appended
<1>3. torn' \in BOOLEAN
  BY DEF WriteEvent
<1> QED  BY <1>1, <1>2, <1>3, AppendGrows DEF ReachInv

\* A step writes of one lead, which was never posted or is still open.
LEMMA ReachSteps ==
  ASSUME ReachInv, ReachNext
  PROVE  \E l \in ClientLeads :
           /\ GrowsFor(ledger', l) /\ StatusOf(l) \notin Closed
           /\ torn' \in BOOLEAN
           /\ \/ fact' = fact /\ l \in DOMAIN fact
              \/ \E f \in LeadFacts : fact' = [k \in (DOMAIN fact) \cup {l} |-> IF k = l THEN f ELSE fact[k]]
<1>1. PICK l \in ClientLeads : CreateLead(l) \/ QualifyLead(l) \/ FollowUp(l) \/ RecordBooking(l)
  BY DEF ReachNext
<1>2. KnownLead(l) => l \in DOMAIN fact
  BY DEF KnownLead, ReachInv
<1>3. CASE CreateLead(l)
  <2>1. PICK f \in LeadFacts :
          LET status == IF f.optedOut THEN "opted_out" ELSE "responded"
              created == LeadEvent("lead.created", l, status)
              response == LeadEvent("response.ready", l, "responded") IN
          /\ fact' = [k \in (DOMAIN fact) \cup {l} |-> IF k = l THEN f ELSE fact[k]]
          /\ \/ WriteEvent(created)
             \/ /\ ~f.optedOut /\ Len(ledger) + 1 < MaxLedger
                /\ LET log == Appended(ledger, torn, created) IN
                   \/ ledger' = Append(log, response) /\ torn' = FALSE
                   \/ ledger' = log /\ torn' = TRUE
    BY <1>3, Zenon DEF CreateLead
  <2> DEFINE status == IF f.optedOut THEN "opted_out" ELSE "responded"
             created == LeadEvent("lead.created", l, status)
             response == LeadEvent("response.ready", l, "responded")
             log == Appended(ledger, torn, created)
  <2>2. status \in ReachStatuses /\ "responded" \in ReachStatuses
        /\ "lead.created" \in EventKinds /\ "response.ready" \in EventKinds
    BY DEF ReachStatuses, EventKinds
  <2>3. fact' = [k \in (DOMAIN fact) \cup {l} |-> IF k = l THEN f ELSE fact[k]]
    BY <2>1
  <2>4. \/ WriteEvent(created)
        \/ ledger' = Append(log, response) /\ torn' = FALSE
        \/ ledger' = log /\ torn' = TRUE
    BY <2>1
  <2> HIDE DEF status
  <2>5. created \in ReachEvent /\ created.lead = l /\ response \in ReachEvent /\ response.lead = l
    BY <2>2, EventType
  <2> HIDE DEF created, response
  <2>6. GrowsFor(ledger, l) /\ ledger \in Seq(ReachEvent)
    BY DEF GrowsFor, ReachInv
  <2>7. GrowsFor(log, l)
    BY <2>5, <2>6, AppendGrows DEF Appended
  <2> HIDE DEF log
  <2>8. GrowsFor(Append(log, response), l)
    BY <2>5, <2>6, <2>7, AppendGrows
  <2>9. GrowsFor(ledger', l) /\ torn' \in BOOLEAN
    BY <2>4, <2>5, <2>7, <2>8, WriteGrows
  <2>10. StatusOf(l) = "none"
    BY <1>3 DEF CreateLead, StatusOf, EventsOf, ReachInv
  <2> QED  BY <1>1, <2>3, <2>9, <2>10 DEF Closed
<1>4. CASE QualifyLead(l) \/ FollowUp(l) \/ RecordBooking(l)
  <2>1. PICK e \in ReachEvent : WriteEvent(e) /\ e.lead = l
    <3>1. /\ QualifyVerdict(fact[l]) \in ReachStatuses
          /\ "NEEDS_HUMAN_REVIEW" \in ReachStatuses /\ "booked" \in ReachStatuses
          /\ "lead.qualified" \in EventKinds /\ "follow_up.ready" \in EventKinds /\ "booking.confirmed" \in EventKinds
      BY DEF QualifyVerdict, ReachStatuses, EventKinds
    <3> QED  BY <1>1, <1>4, <3>1, EventType, Zenon DEF QualifyLead, FollowUp, RecordBooking
  <2>2. fact' = fact /\ KnownLead(l) /\ StatusOf(l) \notin Closed
    BY <1>4 DEF QualifyLead, FollowUp, RecordBooking, Closed
  <2> QED  BY <1>1, <1>2, <2>1, <2>2, WriteGrows
<1> QED  BY <1>1, <1>3, <1>4

LEMMA ReachInvariance == ReachSpec => []ReachInv
<1>1. ReachInit => ReachInv
  <2> SUFFICES ASSUME ReachInit PROVE ReachInv
    OBVIOUS
  <2>1. ledger = <<>> /\ torn = FALSE /\ fact = [l \in {} |-> "none"]
    BY DEF ReachInit
  <2>2. DOMAIN fact = {} /\ fact = [l \in DOMAIN fact |-> fact[l]]
    BY <2>1
  <2>3. fact \in [DOMAIN fact -> LeadFacts]
    BY <2>2
  <2>4. ledger \in Seq(ReachEvent) /\ DOMAIN ledger = {}
    BY <2>1
  <2> QED  BY <2>1, <2>3, <2>4 DEF ReachInv
<1>2. ReachInv /\ [ReachNext]_reachVars => ReachInv'
  <2>1. CASE UNCHANGED reachVars
    BY <2>1 DEF reachVars, ReachInv
  <2>2. ASSUME ReachInv, ReachNext PROVE ReachInv'
    <3>1. PICK l \in ClientLeads :
           /\ GrowsFor(ledger', l) /\ torn' \in BOOLEAN
           /\ \/ fact' = fact /\ l \in DOMAIN fact
              \/ \E f \in LeadFacts : fact' = [k \in (DOMAIN fact) \cup {l} |-> IF k = l THEN f ELSE fact[k]]
      BY <2>2, ReachSteps
    <3>2. fact' \in [DOMAIN fact' -> LeadFacts] /\ DOMAIN fact' = (DOMAIN fact) \cup {l}
      BY <2>2, <3>1 DEF ReachInv
    <3>3. \A i \in DOMAIN ledger' : ledger'[i].lead \in DOMAIN fact'
      <4> SUFFICES ASSUME NEW i \in DOMAIN ledger' PROVE ledger'[i].lead \in DOMAIN fact'
        OBVIOUS
      <4>1. CASE i <= Len(ledger)
        <5>1. i \in DOMAIN ledger
          BY <2>2, <3>1, <4>1 DEF GrowsFor, ReachInv
        <5> QED  BY <2>2, <3>1, <3>2, <4>1, <5>1 DEF GrowsFor, ReachInv
      <4>2. CASE ~(i <= Len(ledger))
        BY <3>1, <3>2, <4>2 DEF GrowsFor
      <4> QED  BY <4>1, <4>2
    <3> QED  BY <3>1, <3>2, <3>3 DEF ReachInv, GrowsFor
  <2> QED  BY <2>1, <2>2
<1> QED  BY <1>1, <1>2, PTL DEF ReachSpec

\* Of the events of a lead one is the last.
LEMMA LastEvent ==
  ASSUME ledger \in Seq(ReachEvent), NEW l, EventsOf(l) # {}
  PROVE  \E i \in EventsOf(l) : \A j \in EventsOf(l) : j <= i
<1> DEFINE n == Len(ledger)
           S == {n - i : i \in EventsOf(l)}
<1>1. n \in Nat /\ EventsOf(l) \subseteq 1 .. n
  BY DEF EventsOf
<1> HIDE DEF n
<1>2. S \in SUBSET Nat /\ S # {}
  BY <1>1
<1>3. PICK x \in S : \A y \in S : x <= y
  <2> HIDE DEF S
  <2> QED  BY <1>2, LeastNumber
<1>4. PICK i \in EventsOf(l) : x = n - i
  BY <1>3
<1>5. \A j \in EventsOf(l) : n - i <= n - j
  BY <1>3, <1>4
<1>6. \A j \in EventsOf(l) : j <= i
  BY <1>1, <1>5
<1> QED  BY <1>4, <1>6

\* Events of one lead leave the status of another as it is.
LEMMA OthersKeepStatus ==
  ASSUME ReachInv, NEW l \in ClientLeads, NEW k \in ClientLeads, k # l, GrowsFor(ledger', l)
  PROVE  StatusOf(k)' = StatusOf(k)
<1>1. /\ ledger \in Seq(ReachEvent) /\ ledger' \in Seq(ReachEvent) /\ Len(ledger) <= Len(ledger')
      /\ \A i \in DOMAIN ledger' : IF i <= Len(ledger) THEN ledger'[i] = ledger[i] ELSE ledger'[i].lead = l
  BY DEF ReachInv, GrowsFor
<1>2. \A i \in DOMAIN ledger : i \in DOMAIN ledger' /\ ledger'[i] = ledger[i]
  BY <1>1
<1>3. \A i \in DOMAIN ledger' : i \in DOMAIN ledger \/ ledger'[i].lead = l
  BY <1>1
<1>4. EventsOf(k)' = EventsOf(k)
  BY <1>2, <1>3 DEF EventsOf
<1> DEFINE last == CHOOSE i \in EventsOf(k) : \A j \in EventsOf(k) : j <= i
<1>5. CASE EventsOf(k) = {}
  BY <1>4, <1>5 DEF StatusOf
<1>6. CASE EventsOf(k) # {}
  <2>1. last \in EventsOf(k)
    BY <1>1, <1>6, LastEvent
  <2>2. StatusOf(k) = ledger[last].status /\ StatusOf(k)' = ledger'[last].status
    BY <1>4, <1>6 DEF StatusOf
  <2> HIDE DEF last
  <2> QED  BY <1>2, <2>1, <2>2 DEF EventsOf
<1> QED  BY <1>5, <1>6

\* A lead that the ledger calls opted out, not qualified or booked stays so
\* (brightreach/service.py), whatever is requested of it and wherever the
\* process dies within an append.
THEOREM ClosedForGood == ReachSpec => ClosedStaysClosed
<1>1. ReachInv /\ [ReachNext]_reachVars =>
        [\A l \in ClientLeads : StatusOf(l) \in {"opted_out", "booked", "NOT_QUALIFIED"} => UNCHANGED StatusOf(l)]_reachVars
  <2> SUFFICES ASSUME ReachInv, ReachNext, NEW k \in ClientLeads, StatusOf(k) \in {"opted_out", "booked", "NOT_QUALIFIED"}
               PROVE  StatusOf(k)' = StatusOf(k)
    OBVIOUS
  <2>1. PICK l \in ClientLeads : GrowsFor(ledger', l) /\ StatusOf(l) \notin Closed
    BY ReachSteps
  <2>2. k # l
    BY <2>1 DEF Closed
  <2> QED  BY <2>1, <2>2, OthersKeepStatus
<1> QED  BY <1>1, ReachInvariance, PTL DEF ReachSpec, ClosedStaysClosed

\* The ledger holds whole events of known leads, torn lines or not.
THEOREM LedgerTypes == ReachSpec => []ReachTypeOK
<1>1. ReachInv => ReachTypeOK
  <2> SUFFICES ASSUME ReachInv PROVE ReachTypeOK
    OBVIOUS
  <2>1. \A i \in DOMAIN ledger : ledger[i] \in ReachEvent
    BY DEF ReachInv
  <2> QED  BY <2>1 DEF ReachInv, ReachTypeOK, ReachEvent
<1> QED  BY <1>1, ReachInvariance, PTL
===============================================================================
