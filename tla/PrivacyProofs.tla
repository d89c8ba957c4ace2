---------------------------- MODULE PrivacyProofs ----------------------------
(* For any requests, providers, notes and indexers: what the router hands to *)
(* a CLI and what the context API gives to an external AI passes the gate,   *)
(* and a billing risk ends its request.                                      *)
EXTENDS AiRouter, SecondBrain, TLAPS

\* SUBSCRIPTION_PROVIDERS names no provider twice (config.py:215).
OrderDiffers == \A i, j \in DOMAIN Order : Order[i] = Order[j] => i = j

(* What the gate lets pass without a secret's trace: public, or internal when *)
(* the caller may have it.                                                   *)
LEMMA GateAllows ==
  ASSUME NEW label, NEW ok \in BOOLEAN, NEW hasSecret \in BOOLEAN, Gate(label, ok, hasSecret) = "allowed"
  PROVE  ~hasSecret /\ (label = "public" \/ (label = "internal" /\ ok))
BY DEF Gate, Labels, HardBlocked

(* A public note says so, or says nothing under an allowed path.             *)
LEMMA PublicNote ==
  ASSUME NEW f \in PrivacyFiles, NEW n \in Notes, NEW c \in NoteContent, LabelUnder(f, n, c) = "public"
  PROVE  \/ ParsedLabel(c) = "public"
         \/ ParsedLabel(c) = "absent" /\ f.config = "read" /\ f.path[n] = [blocked |-> FALSE, allowed |-> TRUE]
<1>1. f.path[n] \in Paths /\ f.config \in Configs
  BY BrainAssumption DEF Policy
<1>2. ParsedLabel(c) \in Declared
  BY DEF ParsedLabel, NoteContent, Declared, Labels
<1> QED  BY <1>1, <1>2 DEF LabelUnder, Classify, PathLabel, DefaultLabel, Paths, Configs, Declared, Labels
-------------------------------------------------------------------------------
(* The context API                                                           *)

NotesTyped == note \in [Notes -> NoteContents \cup {GoneNote}]

(* Every text that is chosen for an external AI passes the gate as it is read. *)
LEMMA ChosenIsPublic ==
  ASSUME NotesTyped
  PROVE  OnlyPublicGoesOut
<1> SUFFICES ASSUME NEW f \in PrivacyFiles, NEW db \in BOOLEAN, NEW lost \in SUBSET Notes,
                    NEW b \in GetContext(TRUE, f, db, lost).text
             PROVE  /\ ~b[2].secret
                    /\ \/ ParsedLabel(b[2]) = "public"
                       \/ /\ ParsedLabel(b[2]) = "absent" /\ f.config = "read"
                          /\ f.path[b[1]] = [blocked |-> FALSE, allowed |-> TRUE]
  BY DEF OnlyPublicGoesOut
<1>1. PICK n \in ChosenNotes(TRUE, f, Ranked(db, lost)) : b = <<n, note[n]>>
  BY DEF GetContext, Assembled
<1>2. n \in Notes /\ note[n] # GoneNote /\ NotePasses(f, n)
  BY <1>1 DEF ChosenNotes, Ranked, Candidates
<1>3. note[n] \in NoteContent /\ note[n].secret \in BOOLEAN
  BY <1>2, BrainAssumption DEF NotesTyped, NoteContent
<1>4. ~note[n].secret /\ LabelUnder(f, n, note[n]) = "public"
  BY <1>2, <1>3, GateAllows DEF NotePasses
<1> QED  BY <1>1, <1>2, <1>3, <1>4, PublicNote

(* However old the index is, however notes and privacy.yaml change while they *)
(* are indexed, an external context holds public text without secrets only.  *)
THEOREM ContextIsPublic == BrainSpec => []OnlyPublicGoesOut
<1>1. BrainInit => NotesTyped
  BY DEF BrainInit, NotesTyped
<1>2. NotesTyped /\ [BrainNext]_brainVars => NotesTyped'
  BY DEF NotesTyped, BrainNext, brainVars, EditNote, StartWalk, CommitWalk, LoseWalk, WalkFile, SkipFile
<1>3. NotesTyped => OnlyPublicGoesOut
  BY ChosenIsPublic
<1> QED  BY <1>1, <1>2, <1>3, PTL DEF BrainSpec
-------------------------------------------------------------------------------
(* The index                                                                 *)

RowOf(f, n, c) == [hash |-> c.hash, mtime |-> c.mtime, label |-> LabelUnder(f, n, c)]
\* What a row of a note may be: nothing, or what some rules made of a text it had.
RowsOf(n) == {RowOf(f, n, c) : f \in PrivacyFiles, c \in NoteContents} \cup {NoRow}
IndexRows == UNION {RowsOf(n) : n \in Notes}
RowFunctions == {f \in [Notes -> IndexRows] : \A n \in Notes : f[n] \in RowsOf(n)}
WalkState == [on : BOOLEAN, policy : PrivacyFiles \cup {NoPolicy}, loaded : RowFunctions, left : SUBSET Notes,
              rows : RowFunctions, read : SUBSET Notes, calm : BOOLEAN]

IndexType ==
  /\ note \in [Notes -> NoteContents \cup {GoneNote}]
  /\ index \in RowFunctions
  /\ pass \in [Indexers -> WalkState]
  /\ \A i \in Indexers : pass[i].on => pass[i].policy \in PrivacyFiles

\* A walk that nothing disturbed so far loaded what the index still is, and has
\* a current row for each note it could read, or need not have one.
Renewed(w, n) ==
  \/ w.rows[n] = RowOf(w.policy, n, note[n])
  \/ w.rows[n] = NoRow /\ (note[n] = GoneNote \/ SameRow(w.loaded[n], note[n]))
CalmWalks ==
  \A i \in Indexers : pass[i].on /\ pass[i].calm =>
    /\ pass[i].loaded = index
    /\ \A n \in Notes : n \in pass[i].left => pass[i].rows[n] = NoRow /\ n \notin pass[i].read
    /\ \A n \in pass[i].read : Renewed(pass[i], n)
IndexInv == IndexType /\ CalmWalks

LEMMA NoRows == [n \in Notes |-> NoRow] \in RowFunctions
BY DEF RowFunctions, IndexRows, RowsOf

LEMMA IdleWalkType == IdleWalk \in WalkState /\ ~IdleWalk.on
BY NoRows DEF IdleWalk, WalkState

\* WalkState that are disturbed stay where they are, and are calm no more.
LEMMA DisturbedType ==
  ASSUME pass \in [Indexers -> WalkState]
  PROVE  /\ DisturbedWalks(pass) \in [Indexers -> WalkState]
         /\ \A i \in Indexers : LET w == DisturbedWalks(pass)[i] IN
              ~w.calm /\ w.on = pass[i].on /\ w.policy = pass[i].policy
<1>1. \A i \in Indexers : LET w == [pass[i] EXCEPT !.calm = FALSE] IN
        w \in WalkState /\ ~w.calm /\ w.on = pass[i].on /\ w.policy = pass[i].policy
  BY DEF WalkState
<1> QED  BY <1>1 DEF DisturbedWalks

\* One walk goes on, by the rules it has: what it owes is what it owed.
LEMMA WalkGoesOn ==
  ASSUME IndexInv, NEW i \in Indexers, NEW next \in WalkState,
         pass' = [pass EXCEPT ![i] = next], note' = note, index' = index,
         pass[i].on, next.on, next.policy = pass[i].policy,
         next.calm => pass[i].calm /\ next.loaded = pass[i].loaded,
         next.calm => \A n \in Notes : n \in next.left => next.rows[n] = NoRow /\ n \notin next.read,
         next.calm => \A n \in next.read : Renewed(next, n)
  PROVE  IndexInv'
<1>1. pass \in [Indexers -> WalkState] /\ pass'[i] = next /\ \A j \in Indexers : j # i => pass'[j] = pass[j]
  BY DEF IndexInv, IndexType
<1>2. IndexType'
  BY <1>1 DEF IndexInv, IndexType
<1>3. CalmWalks'
  <2> SUFFICES ASSUME NEW j \in Indexers, pass'[j].on, pass'[j].calm
               PROVE  /\ pass'[j].loaded = index'
                      /\ \A m \in Notes : m \in pass'[j].left => pass'[j].rows[m] = NoRow /\ m \notin pass'[j].read
                      /\ \A m \in pass'[j].read : Renewed(pass[j], m)'
    BY DEF CalmWalks
  <2>1. CASE j # i
    BY <1>1, <2>1 DEF IndexInv, CalmWalks, Renewed
  <2>2. CASE j = i
    BY <1>1, <2>2 DEF IndexInv, CalmWalks, Renewed
  <2> QED  BY <2>1, <2>2
<1> QED  BY <1>2, <1>3 DEF IndexInv

\* One file: its row is that of what the note is now, or is left out.
LEMMA WalkFileKeeps ==
  ASSUME IndexInv, NEW i \in Indexers, NEW n \in Notes, WalkFile(i, n)
  PROVE  IndexInv'
<1> DEFINE w == pass[i]
           row == IF note[n] = GoneNote \/ SameRow(w.loaded[n], note[n]) THEN w.rows[n] ELSE RowOf(w.policy, n, note[n])
           rows == [w.rows EXCEPT ![n] = row]
           left == w.left \ {n}
           read == w.read \cup {n}
           first == [w EXCEPT !.left = left]
           second == [first EXCEPT !.read = read]
           next == [second EXCEPT !.rows = rows]
<1>1. w \in WalkState /\ pass \in [Indexers -> WalkState] /\ note[n] \in NoteContents \cup {GoneNote}
  BY DEF IndexInv, IndexType
<1>2. /\ w.loaded \in RowFunctions /\ w.rows \in RowFunctions /\ w.left \in SUBSET Notes /\ w.read \in SUBSET Notes
  BY <1>1 DEF WalkState
<1>3. w.on /\ n \in w.left /\ w.policy \in PrivacyFiles /\ note' = note /\ index' = index
  BY DEF WalkFile, NextFile, IndexInv, IndexType
<1>4. row \in RowsOf(n)
  <2>1. w.rows[n] \in RowsOf(n)
    BY <1>2 DEF RowFunctions
  <2> QED  BY <1>1, <1>3, <2>1 DEF RowsOf
<1>5. pass' = [pass EXCEPT ![i] = next]
  BY <1>1, <1>2 DEF WalkFile, RowOf, WalkState, RowFunctions
<1> HIDE DEF row
<1>6. rows \in RowFunctions /\ rows[n] = row /\ \A m \in Notes : m # n => rows[m] = w.rows[m]
  BY <1>2, <1>4 DEF RowFunctions, IndexRows
<1> HIDE DEF rows
<1>7. /\ next \in WalkState /\ next.on = w.on /\ next.calm = w.calm /\ next.loaded = w.loaded
      /\ next.left = left /\ next.rows = rows /\ next.read = read /\ next.policy = w.policy
  BY <1>1, <1>2, <1>6 DEF WalkState
<1> HIDE DEF next
<1>8. ASSUME w.calm
      PROVE  /\ \A m \in Notes : m \in left => rows[m] = NoRow /\ m \notin read
             /\ \A m \in read : Renewed(next, m)
  <2>1. /\ \A m \in Notes : m \in w.left => w.rows[m] = NoRow /\ m \notin w.read
        /\ \A m \in w.read : Renewed(w, m)
    BY <1>3, <1>8 DEF IndexInv, CalmWalks
  <2>2. \A m \in w.read : m # n /\ Renewed(next, m)
    BY <1>2, <1>3, <1>6, <1>7, <2>1 DEF Renewed
  <2>3. Renewed(next, n)
    BY <1>3, <1>6, <1>7, <2>1 DEF Renewed, row
  <2> QED  BY <1>2, <1>3, <1>6, <2>1, <2>2, <2>3
<1> QED  BY <1>3, <1>5, <1>7, <1>8, WalkGoesOn

\* A note that cannot be read keeps its row.
LEMMA SkipFileKeeps ==
  ASSUME IndexInv, NEW i \in Indexers, NEW n \in Notes, SkipFile(i, n)
  PROVE  IndexInv'
<1> DEFINE w == pass[i]
           next == [w EXCEPT !.left = w.left \ {n}]
<1>1. w \in WalkState /\ pass \in [Indexers -> WalkState]
  BY DEF IndexInv, IndexType
<1>2. pass' = [pass EXCEPT ![i] = next] /\ note' = note /\ index' = index /\ w.on
  BY <1>1 DEF SkipFile, NextFile, WalkState
<1>3. /\ next \in WalkState /\ next.on = w.on /\ next.calm = w.calm /\ next.loaded = w.loaded
      /\ next.left = w.left \ {n} /\ next.rows = w.rows /\ next.read = w.read /\ next.policy = w.policy
  BY <1>1 DEF WalkState
<1> HIDE DEF next
<1>4. ASSUME w.calm
      PROVE  /\ \A m \in Notes : m \in next.left => next.rows[m] = NoRow /\ m \notin next.read
             /\ \A m \in next.read : Renewed(next, m)
  BY <1>2, <1>3, <1>4 DEF IndexInv, CalmWalks, Renewed
<1> QED  BY <1>2, <1>3, <1>4, WalkGoesOn

\* An edit ends the calm of every walk.
LEMMA EditNoteKeeps ==
  ASSUME IndexInv, NEW n \in Notes, EditNote(n)
  PROVE  IndexInv'
<1>1. PICK c \in NoteContents \cup {GoneNote} : note' = [note EXCEPT ![n] = c]
  BY DEF EditNote
<1>2. pass' = DisturbedWalks(pass) /\ index' = index
  BY DEF EditNote
<1>3. IndexType'
  BY <1>1, <1>2, DisturbedType DEF IndexInv, IndexType
<1>4. CalmWalks'
  BY <1>2, DisturbedType DEF IndexInv, IndexType, CalmWalks
<1> QED  BY <1>3, <1>4 DEF IndexInv

LEMMA StartWalkKeeps ==
  ASSUME IndexInv, NEW i \in Indexers, NEW f \in PrivacyFiles, StartWalk(i, f)
  PROVE  IndexInv'
<1> DEFINE next == [on |-> TRUE, policy |-> f, loaded |-> index, left |-> Notes,
                    rows |-> [n \in Notes |-> NoRow], read |-> {}, calm |-> TRUE]
<1>1. pass' = [pass EXCEPT ![i] = next] /\ note' = note /\ index' = index
  BY DEF StartWalk
<1>2. pass \in [Indexers -> WalkState] /\ index \in RowFunctions
  BY DEF IndexInv, IndexType
<1>3. /\ next \in WalkState /\ next.loaded = index /\ next.policy = f /\ next.read = {}
      /\ \A n \in Notes : next.rows[n] = NoRow
  BY <1>2, NoRows DEF WalkState
<1> HIDE DEF next
<1>4. pass'[i] = next /\ \A j \in Indexers : j # i => pass'[j] = pass[j]
  BY <1>1, <1>2
<1>5. IndexType'
  BY <1>1, <1>2, <1>3, <1>4 DEF IndexInv, IndexType
<1>6. CalmWalks'
  <2> SUFFICES ASSUME NEW j \in Indexers, pass'[j].on, pass'[j].calm
               PROVE  /\ pass'[j].loaded = index'
                      /\ \A m \in Notes : m \in pass'[j].left => pass'[j].rows[m] = NoRow /\ m \notin pass'[j].read
                      /\ \A m \in pass'[j].read : Renewed(pass[j], m)'
    BY DEF CalmWalks
  <2>1. CASE j # i
    BY <1>1, <1>4, <2>1 DEF IndexInv, CalmWalks, Renewed
  <2>2. CASE j = i
    BY <1>1, <1>3, <1>4, <2>2
  <2> QED  BY <2>1, <2>2
<1> QED  BY <1>5, <1>6 DEF IndexInv

\* The commit of a walk, which another one has not loaded.
LEMMA CommitWalkKeeps ==
  ASSUME IndexInv, NEW i \in Indexers, CommitWalk(i)
  PROVE  IndexInv'
<1>1. /\ index' = [n \in Notes |-> IF pass[i].rows[n] # NoRow THEN pass[i].rows[n] ELSE index[n]]
      /\ pass' = [DisturbedWalks(pass) EXCEPT ![i] = IdleWalk] /\ note' = note
  BY DEF CommitWalk
<1>2. /\ pass \in [Indexers -> WalkState] /\ index \in RowFunctions /\ pass[i].rows \in RowFunctions
  BY DEF IndexInv, IndexType, WalkState
<1>3. index' \in RowFunctions
  BY <1>1, <1>2 DEF RowFunctions
<1>4. /\ pass' \in [Indexers -> WalkState] /\ \A j \in Indexers : ~(pass'[j].on /\ pass'[j].calm)
      /\ \A j \in Indexers : pass'[j].on => pass'[j].policy \in PrivacyFiles
  BY <1>1, <1>2, DisturbedType, IdleWalkType DEF IndexInv, IndexType
<1> QED  BY <1>1, <1>3, <1>4 DEF IndexInv, IndexType, CalmWalks

LEMMA LoseWalkKeeps ==
  ASSUME IndexInv, NEW i \in Indexers, LoseWalk(i)
  PROVE  IndexInv'
<1>1. pass' = [pass EXCEPT ![i] = IdleWalk] /\ note' = note /\ index' = index
  BY DEF LoseWalk
<1>2. pass \in [Indexers -> WalkState]
  BY DEF IndexInv, IndexType
<1>3. pass' \in [Indexers -> WalkState] /\ pass'[i] = IdleWalk /\ \A j \in Indexers : j # i => pass'[j] = pass[j]
  BY <1>1, <1>2, IdleWalkType
<1>4. CalmWalks'
  BY <1>1, <1>3, IdleWalkType DEF IndexInv, CalmWalks, Renewed
<1>5. \A j \in Indexers : pass'[j].on => pass'[j].policy \in PrivacyFiles
  BY <1>3, IdleWalkType DEF IndexInv, IndexType
<1> QED  BY <1>1, <1>3, <1>4, <1>5 DEF IndexInv, IndexType

LEMMA IndexInvariance == BrainSpec => []IndexInv
<1>1. BrainInit => IndexInv
  <2> SUFFICES ASSUME BrainInit PROVE IndexInv
    OBVIOUS
  <2>1. IndexType
    BY NoRows, IdleWalkType DEF BrainInit, IndexType
  <2>2. CalmWalks
    BY IdleWalkType DEF BrainInit, CalmWalks
  <2> QED  BY <2>1, <2>2 DEF IndexInv
<1>2. IndexInv /\ [BrainNext]_brainVars => IndexInv'
  <2> SUFFICES ASSUME IndexInv, [BrainNext]_brainVars PROVE IndexInv'
    OBVIOUS
  <2>1. ASSUME UNCHANGED <<note, index, pass>> PROVE IndexInv'
    BY <2>1 DEF IndexInv, IndexType, CalmWalks, Renewed
  <2>2. CASE UNCHANGED brainVars
    BY <2>1, <2>2 DEF brainVars
  <2> QED  BY <2>2, EditNoteKeeps, StartWalkKeeps, CommitWalkKeeps, LoseWalkKeeps, WalkFileKeeps, SkipFileKeeps DEF BrainNext
<1> QED  BY <1>1, <1>2, PTL DEF BrainSpec

\* A note that a calm walk left out has the text of its row: one hash, one front
\* matter, and so the label that the rules of that row give it now.
LEMMA CalmCommitRenews ==
  ASSUME IndexInv, NEW i \in Indexers, CommitWalk(i), pass[i].calm, NEW n \in pass[i].read, note[n] # GoneNote
  PROVE  \/ index'[n] = RowUnder(pass[i].policy, n)
         \/ index'[n] = index[n] /\ \E f \in PrivacyFiles : index[n] = RowUnder(f, n)
<1>1. /\ index' = [m \in Notes |-> IF pass[i].rows[m] # NoRow THEN pass[i].rows[m] ELSE index[m]]
      /\ pass[i].on /\ pass[i] \in WalkState
  BY DEF CommitWalk, IndexInv, IndexType
<1>2. n \in Notes
  BY <1>1 DEF WalkState
<1>3. pass[i].loaded = index /\ Renewed(pass[i], n)
  BY <1>1 DEF IndexInv, CalmWalks
<1>4. note[n] \in NoteContents /\ index[n] \in RowsOf(n)
  BY <1>2 DEF IndexInv, IndexType, RowFunctions
<1>5. CASE pass[i].rows[n] # NoRow
  BY <1>1, <1>2, <1>3, <1>5 DEF Renewed, RowUnder, RowOf
<1>6. CASE pass[i].rows[n] = NoRow
  <2>1. index'[n] = index[n]
    BY <1>1, <1>2, <1>6
  <2>2. RowOf(pass[i].policy, n, note[n]) # NoRow
    BY <1>4, HashAssumption DEF RowOf, NoRow
  <2>3. SameRow(index[n], note[n])
    BY <1>3, <1>6, <2>2 DEF Renewed
  <2>4. index[n] # NoRow
    BY <1>4, <2>3, HashAssumption DEF SameRow, NoRow
  <2>5. PICK f \in PrivacyFiles, c \in NoteContents : index[n] = RowOf(f, n, c)
    BY <1>4, <2>4 DEF RowsOf
  <2>6. c.hash = note[n].hash /\ c.mtime = note[n].mtime
    BY <2>3, <2>5 DEF SameRow, RowOf
  <2>7. LabelUnder(f, n, c) = LabelUnder(f, n, note[n])
    BY <1>4, <2>6, HashAssumption DEF LabelUnder, ParsedLabel
  <2>8. index[n] = RowUnder(f, n)
    BY <2>5, <2>6, <2>7 DEF RowUnder, RowOf
  <2> QED  BY <2>1, <2>8
<1> QED  BY <1>5, <1>6

\* A walk of reindex() (second_brain/core.py) that no edit and no other commit
\* disturbs renews the row of every note it could read, whatever the index held:
\* by its own rules, or by the rules that made the row it keeps.
THEOREM CalmWalksRenew == BrainSpec => CalmWalkRenews
<1>1. IndexInv /\ [BrainNext]_brainVars =>
        [\A i \in Indexers : CommitWalk(i) /\ pass[i].calm =>
           \A n \in pass[i].read : note[n] # GoneNote =>
             \/ index'[n] = RowUnder(pass[i].policy, n)
             \/ index'[n] = index[n] /\ \E f \in PrivacyFiles : index[n] = RowUnder(f, n)]_brainVars
  BY CalmCommitRenews
<1> QED  BY <1>1, IndexInvariance, PTL DEF BrainSpec, CalmWalkRenews
-------------------------------------------------------------------------------
(* The router                                                                *)

\* A request on its way passed the first checks, one that waits does so at a
\* provider, nobody behind the present provider was met, and a risk is the end.
GoodRequest(q) ==
  /\ q \in [pc : {"new", "looking", "waiting", "done"}, ask : Ask, at : Nat \ {0}, began : Nat,
            met : [Providers -> Met], outcome : Outcomes, runs : {0, 1}]
  /\ q.at <= Len(Order) + 1
  /\ q.pc \in {"looking", "waiting"} => Early(q.ask) = "none"
  /\ q.pc = "waiting" => q.at <= Len(Enabled(q.ask))
  /\ q.pc # "done" => q.runs = 0
  /\ q.pc = "new" => q.met = [p \in Providers |-> "nothing"]
  /\ \A i \in DOMAIN Enabled(q.ask) :
       i > q.at => (Enabled(q.ask)[i] \in Providers => q.met[Enabled(q.ask)[i]] = "nothing")
  /\ \A p \in Providers : q.met[p] = "BILLING_RISK" =>
       q.pc = "done" /\ q.outcome = "BILLING_RISK" /\ Early(q.ask) = "none"

\* The shared part of the state; prompts left for requests that have begun.
GoodShared ==
  /\ facts \in [Providers -> UNION {Setups[p] : p \in Providers}]
  /\ until \in [Providers -> Nat] /\ now \in Nat /\ DOMAIN req = Requests
  /\ sent \subseteq Requests \X Providers
  /\ \A s \in sent : req[s[1]].pc # "new"

\* The prompt went to nobody behind the present provider, and not to this one
\* while the request looks at it or if it ended there with a billing risk.
Unhanded(r, q) ==
  \A i \in DOMAIN Enabled(q.ask) :
    (i > q.at \/ (i = q.at /\ (q.pc = "looking" \/ (q.pc = "done" /\ q.outcome = "BILLING_RISK"))))
      => <<r, Enabled(q.ask)[i]>> \notin sent
RouterInv ==
  (\A r \in Requests : GoodRequest(req[r]) /\ Unhanded(r, req[r])) /\ GoodShared /\ PromptPrivacy

LEMMA EnabledType ==
  ASSUME NEW ask \in Ask, Early(ask) = "none"
  PROVE  Enabled(ask) \in Seq(Providers) /\ Len(Enabled(ask)) <= Len(Order)
<1>1. Order \in Seq(Providers) /\ Order # <<>>
  BY RouterAssumption DEF Early, BaselineGate, Gate
<1>2. CASE ask.hint = "none"
  BY <1>1, <1>2 DEF Enabled
<1>3. CASE ask.hint # "none"
  <2>1. ask.hint \in Providers
    BY <1>3 DEF Early, Ask
  <2>2. Len(Order) >= 1
    BY <1>1
  <2> QED  BY <1>3, <2>1, <2>2 DEF Enabled
<1> QED  BY <1>2, <1>3

(* An enabled provider comes once.                                           *)
LEMMA EnabledOnce ==
  ASSUME OrderDiffers, NEW ask \in Ask, Early(ask) = "none",
         NEW i \in DOMAIN Enabled(ask), NEW j \in DOMAIN Enabled(ask), i # j
  PROVE  Enabled(ask)[i] # Enabled(ask)[j]
BY DEF Enabled, OrderDiffers

(* The first checks let internal and public requests without a secret pass.  *)
LEMMA EarlyIsGated ==
  ASSUME NEW ask \in Ask, Early(ask) = "none"
  PROVE  ~ask.secret /\ ask.label \in {"public", "internal"}
<1>1. BaselineGate(ask) = "allowed"
  BY DEF Early
<1> QED  BY <1>1, GateAllows DEF BaselineGate, Ask

LEMMA StrictIsPublic ==
  ASSUME NEW ask \in Ask, StrictGate(ask) = "allowed"
  PROVE  ask.label = "public"
BY GateAllows DEF StrictGate, Ask

LEMMA RouterInitGood == RouterInit => RouterInv
<1> SUFFICES ASSUME RouterInit PROVE RouterInv
  OBVIOUS
<1>1. (CHOOSE a \in Ask : TRUE) \in Ask
  <2>1. [task |-> "echo", text |-> TRUE, paid |-> FALSE, hint |-> "none", label |-> "public", secret |-> FALSE] \in Ask
    BY DEF Ask, Labels
  <2> QED  BY <2>1
<1>2. GoodRequest(Fresh)
  <2>1. Fresh.ask \in Ask /\ Fresh.at = 1 /\ Fresh.met = [p \in Providers |-> "nothing"]
    BY <1>1 DEF Fresh
  <2>2. \A i \in DOMAIN Enabled(Fresh.ask) : Enabled(Fresh.ask)[i] \in Providers
          => Fresh.met[Enabled(Fresh.ask)[i]] = "nothing"
    BY <2>1
  <2>3. Fresh \in [pc : {"new", "looking", "waiting", "done"}, ask : Ask, at : Nat \ {0}, began : Nat,
                   met : [Providers -> Met], outcome : Outcomes, runs : {0, 1}]
    BY <1>1 DEF Fresh, Met, Outcomes
  <2>4. Len(Order) \in Nat
    BY RouterAssumption
  <2> QED  BY <2>1, <2>2, <2>3, <2>4 DEF GoodRequest, Fresh
<1>3. GoodShared /\ PromptPrivacy
  BY RouterAssumption DEF RouterInit, GoodShared, PromptPrivacy
<1>4. \A r \in Requests : Unhanded(r, req[r])
  BY DEF RouterInit, Unhanded
<1> QED  BY <1>2, <1>3, <1>4 DEF RouterInv, RouterInit

(* Handing on from one provider keeps a request good.                        *)
LEMMA SkipGood ==
  ASSUME RouterInv, OrderDiffers, NEW r \in Requests, req[r].pc \in {"looking", "waiting"}, InLoop(r),
         NEW what \in Met, what # "BILLING_RISK"
  PROVE  /\ GoodRequest(Skip(r, At(r), what)) /\ Unhanded(r, Skip(r, At(r), what))
         /\ Skip(r, At(r), what).ask = req[r].ask
<1> DEFINE q == req[r]
           e == Enabled(q.ask)
           k == Skip(r, At(r), what)
<1>1. GoodRequest(q) /\ q.ask \in Ask /\ q.at \in Nat \ {0}
  BY DEF RouterInv, GoodRequest
<1>2. e \in Seq(Providers) /\ Len(e) <= Len(Order) /\ q.at \in DOMAIN e /\ Len(Order) \in Nat
  BY <1>1, EnabledType, RouterAssumption DEF GoodRequest, InLoop
<1>3. /\ k.ask = q.ask /\ k.at = q.at + 1 /\ k.pc = "looking" /\ k.began = q.began /\ k.runs = q.runs
      /\ k.outcome = q.outcome /\ k.met = [q.met EXCEPT ![e[q.at]] = what]
  BY <1>1 DEF Skip, At, GoodRequest
<1>4. k \in [pc : {"new", "looking", "waiting", "done"}, ask : Ask, at : Nat \ {0}, began : Nat,
             met : [Providers -> Met], outcome : Outcomes, runs : {0, 1}]
  <2>3. q.met \in [Providers -> Met]
    BY <1>1 DEF GoodRequest
  <2>4. [q.met EXCEPT ![e[q.at]] = what] \in [Providers -> Met]
    BY <2>3
  <2>1. [q.met EXCEPT ![e[q.at]] = what] \in [Providers -> Met] /\ q.at + 1 \in Nat \ {0}
    BY <1>1, <2>4
  <2>2. k = [q EXCEPT !.met = [q.met EXCEPT ![e[q.at]] = what], !.at = q.at + 1, !.pc = "looking"]
    BY DEF Skip, At
  <2> QED  BY <1>1, <2>1, <2>2 DEF GoodRequest
<1>5. \A i \in DOMAIN e : i > k.at => (e[i] \in Providers => k.met[e[i]] = "nothing")
  <2>1. SUFFICES ASSUME NEW i \in DOMAIN e, i > k.at PROVE k.met[e[i]] = "nothing"
    OBVIOUS
  <2>2. i \in Nat /\ i > q.at /\ e[i] \in Providers
    BY <2>1, <1>1, <1>2, <1>3
  <2>3. e[i] # e[q.at]
    BY <2>2, <1>1, <1>2, EnabledOnce DEF GoodRequest
  <2>4. q.met[e[i]] = "nothing" /\ q.met \in [Providers -> Met]
    BY <1>1, <2>2 DEF GoodRequest
  <2> QED  BY <2>2, <2>3, <2>4, <1>3
<1>6. \A p \in Providers : k.met[p] # "BILLING_RISK"
  BY <1>1, <1>3 DEF GoodRequest
<1>7. Early(k.ask) = "none" /\ k.at <= Len(Order) + 1 /\ k.runs = 0
  BY <1>1, <1>2, <1>3 DEF GoodRequest
<1>8. Unhanded(r, q) => Unhanded(r, k)
  <2>1. \A i \in DOMAIN e : i >= k.at => i > q.at
    BY <1>1, <1>2, <1>3
  <2> QED  BY <1>1, <1>2, <1>3, <2>1 DEF Unhanded
<1>9. Unhanded(r, q)
  BY DEF RouterInv
<1> QED  BY <1>3, <1>4, <1>5, <1>6, <1>7, <1>8, <1>9 DEF GoodRequest

(* Ending keeps a request good, unless a risk would stay unsaid.             *)
LEMMA EndedGood ==
  ASSUME NEW q, GoodRequest(q), q.pc # "done", NEW outcome \in Outcomes, NEW db \in BOOLEAN
  PROVE  GoodRequest(Ended(q, outcome, db)) /\ Ended(q, outcome, db).ask = q.ask
<1> DEFINE k == Ended(q, outcome, db)
<1>1. q.runs + (IF db THEN 1 ELSE 0) \in {0, 1}
  BY DEF GoodRequest
<1>2. k = [q EXCEPT !.pc = "done", !.outcome = outcome, !.runs = q.runs + (IF db THEN 1 ELSE 0)]
  BY DEF Ended, RunsAfter
<1>3. /\ k.ask = q.ask /\ k.at = q.at /\ k.pc = "done" /\ k.met = q.met /\ k.outcome = outcome
      /\ k \in [pc : {"new", "looking", "waiting", "done"}, ask : Ask, at : Nat \ {0}, began : Nat,
                met : [Providers -> Met], outcome : Outcomes, runs : {0, 1}]
  BY <1>1, <1>2 DEF GoodRequest
<1> QED  BY <1>3 DEF GoodRequest

(* Ending hands no prompt to anybody.                                        *)
LEMMA EndedUnhanded ==
  ASSUME NEW r, NEW q, GoodRequest(q), Unhanded(r, q), NEW outcome \in Outcomes, NEW db \in BOOLEAN,
         outcome = "BILLING_RISK" => q.pc = "looking"
  PROVE  Unhanded(r, Ended(q, outcome, db))
<1> DEFINE k == Ended(q, outcome, db)
<1>1. k.ask = q.ask /\ k.at = q.at /\ k.outcome = outcome
  BY DEF Ended, RunsAfter, GoodRequest
<1>2. k.pc = "done"
  BY DEF Ended, RunsAfter, GoodRequest
<1> HIDE DEF k
<1>3. Unhanded(r, k)
  BY <1>1, <1>2 DEF Unhanded
<1> QED  BY <1>3 DEF k

(* A request that has not begun handed its prompt to nobody.                 *)
LEMMA NewUnhanded ==
  ASSUME RouterInv, NEW r \in Requests, req[r].pc = "new", NEW q
  PROVE  Unhanded(r, q)
<1>1. \A x : <<r, x>> \notin sent
  BY DEF RouterInv, GoodShared
<1> QED  BY <1>1 DEF Unhanded

(* A step of one request that sends nothing and leaves its ask alone.        *)
LEMMA OneRequest ==
  ASSUME RouterInv, NEW r \in Requests, NEW q, GoodRequest(q), Unhanded(r, q), q.pc # "new",
         q.ask = req[r].ask \/ req[r].pc = "new",
         req' = [req EXCEPT ![r] = q], sent' = sent, facts' = facts, now' = now,
         until' \in [Providers -> Nat]
  PROVE  RouterInv'
<1>1. \A t \in Requests : GoodRequest(req'[t])
  BY DEF RouterInv, GoodShared
<1>4. \A t \in Requests : Unhanded(t, req[t])'
  <2>1. \A t \in Requests : Unhanded(t, req'[t])
    BY DEF RouterInv, GoodShared
  <2> QED  BY <2>1 DEF Unhanded
<1>2. GoodShared'
  BY DEF RouterInv, GoodShared
<1>3. PromptPrivacy'
  BY DEF RouterInv, GoodShared, PromptPrivacy
<1> QED  BY <1>1, <1>2, <1>3, <1>4 DEF RouterInv, GoodRequest

LEMMA BeginGood ==
  ASSUME RouterInv, NEW r \in Requests, NEW ask \in Asks, NEW db \in BOOLEAN, Begin(r, ask, db)
  PROVE  RouterInv'
<1> DEFINE q == [req[r] EXCEPT !.ask = ask, !.began = now, !.pc = "looking"]
<1>1. ask \in Ask /\ GoodRequest(req[r]) /\ req[r].pc = "new" /\ now \in Nat
  BY RouterAssumption DEF RouterInv, GoodShared, Begin
<1>2. /\ q.ask = ask /\ q.at = req[r].at /\ q.met = req[r].met /\ q.pc = "looking" /\ q.runs = 0
      /\ q \in [pc : {"new", "looking", "waiting", "done"}, ask : Ask, at : Nat \ {0}, began : Nat,
                met : [Providers -> Met], outcome : Outcomes, runs : {0, 1}]
  BY <1>1 DEF GoodRequest
<1>3. CASE Early(ask) = "none"
  <2>1. GoodRequest(q)
    BY <1>1, <1>2, <1>3 DEF GoodRequest
  <2>2. req' = [req EXCEPT ![r] = q]
    BY <1>3 DEF Begin
  <2> QED  BY <1>1, <1>2, <2>1, <2>2, NewUnhanded, OneRequest DEF Begin, RouterInv, GoodShared
<1>4. CASE Early(ask) # "none"
  <2>1. q.runs + (IF db THEN 1 ELSE 0) \in {0, 1}
    BY <1>2
  <2>2. Early(ask) \in Outcomes
    BY DEF Early, Outcomes
  <2>3. Ended(q, Early(ask), db) = [q EXCEPT !.pc = "done", !.outcome = Early(ask),
                                            !.runs = q.runs + (IF db THEN 1 ELSE 0)]
    BY DEF Ended, RunsAfter
  <2> DEFINE k == Ended(q, Early(ask), db)
  <2>4. /\ k.pc = "done" /\ k.ask = ask /\ k.at = req[r].at /\ k.met = req[r].met
        /\ k \in [pc : {"new", "looking", "waiting", "done"}, ask : Ask, at : Nat \ {0}, began : Nat,
                  met : [Providers -> Met], outcome : Outcomes, runs : {0, 1}]
    BY <1>2, <2>1, <2>2, <2>3
  <2>6. GoodRequest(k)
    BY <1>1, <2>4 DEF GoodRequest
  <2>5. req' = [req EXCEPT ![r] = Ended(q, Early(ask), db)]
    BY <1>4 DEF Begin
  <2> QED  BY <1>1, <2>4, <2>5, <2>6, NewUnhanded, OneRequest DEF Begin, RouterInv, GoodShared
<1> QED  BY <1>3, <1>4

LEMMA PassOverGood ==
  ASSUME RouterInv, OrderDiffers, NEW r \in Requests, NEW db \in BOOLEAN, PassOver(r, db)
  PROVE  RouterInv'
<1>1. PICK what \in {"cooling", "blocked"} : req' = [req EXCEPT ![r] = Skip(r, At(r), what)]
  BY DEF PassOver
<1>2. /\ GoodRequest(Skip(r, At(r), what)) /\ Unhanded(r, Skip(r, At(r), what))
      /\ Skip(r, At(r), what).ask = req[r].ask
  BY SkipGood DEF PassOver, Met
<1>3. Skip(r, At(r), what).pc = "looking"
  BY DEF Skip, RouterInv, GoodRequest
<1> QED  BY <1>1, <1>2, <1>3, OneRequest DEF PassOver, RouterInv, GoodShared

(* A failure moves on, or ends the request with a billing risk.              *)
LEMMA FailedGood ==
  ASSUME RouterInv, OrderDiffers, NEW r \in Requests, NEW state \in Failures, NEW db \in BOOLEAN,
         req[r].pc \in {"looking", "waiting"}, InLoop(r), Failed(r, state, db),
         sent' = sent, facts' = facts, now' = now, state = "BILLING_RISK" => req[r].pc = "looking"
  PROVE  RouterInv'
<1>1. GoodRequest(req[r]) /\ Unhanded(r, req[r])
  BY DEF RouterInv
<1>2. until' \in [Providers -> Nat]
  <2>1. CooldownUntil(state) \in Nat
    BY RouterAssumption DEF CooldownUntil, RouterInv, GoodShared, Failures
  <2> QED  BY <2>1 DEF Failed, Overwritten, RouterInv, GoodShared
<1>3. CASE state # "BILLING_RISK"
  <2>1. /\ GoodRequest(Skip(r, At(r), state)) /\ Unhanded(r, Skip(r, At(r), state))
        /\ Skip(r, At(r), state).ask = req[r].ask
    BY <1>3, SkipGood DEF Met
  <2>2. Skip(r, At(r), state).pc = "looking"
    BY <1>1 DEF Skip, GoodRequest
  <2> QED  BY <1>2, <1>3, <2>1, <2>2, OneRequest DEF Failed
<1>4. CASE state = "BILLING_RISK"
  <2> DEFINE q == req[r]
             k == Ended([q EXCEPT !.met[At(r)] = state], "BILLING_RISK", db)
             e == Enabled(q.ask)
  <2>1. e \in Seq(Providers) /\ q.at \in DOMAIN e /\ At(r) = e[q.at]
    BY <1>1, EnabledType DEF GoodRequest, InLoop, At
  <2>2. q.runs + (IF db THEN 1 ELSE 0) \in {0, 1} /\ q.met \in [Providers -> Met] /\ state \in Met
    BY <1>1 DEF GoodRequest, Met
  <2>3. [q.met EXCEPT ![At(r)] = state] \in [Providers -> Met] /\ "BILLING_RISK" \in Outcomes
    BY <2>2 DEF Outcomes
  <2>4. k = [q EXCEPT !.met = [q.met EXCEPT ![At(r)] = state], !.pc = "done", !.outcome = "BILLING_RISK",
                      !.runs = q.runs + (IF db THEN 1 ELSE 0)]
    BY <1>1 DEF Ended, RunsAfter, GoodRequest
  <2>5. /\ k.ask = q.ask /\ k.at = q.at /\ k.pc = "done" /\ k.outcome = "BILLING_RISK"
        /\ k.met = [q.met EXCEPT ![At(r)] = state]
        /\ k \in [pc : {"new", "looking", "waiting", "done"}, ask : Ask, at : Nat \ {0}, began : Nat,
                  met : [Providers -> Met], outcome : Outcomes, runs : {0, 1}]
    BY <1>1, <2>2, <2>3, <2>4 DEF GoodRequest
  <2>6. \A i \in DOMAIN e : i > q.at => k.met[e[i]] = "nothing"
    <3>1. SUFFICES ASSUME NEW i \in DOMAIN e, i > q.at PROVE k.met[e[i]] = "nothing"
      OBVIOUS
    <3>2. e[i] \in Providers /\ q.met[e[i]] = "nothing"
      BY <1>1, <2>1, <3>1 DEF GoodRequest
    <3>3. e[i] # e[q.at]
      BY <1>1, <2>1, <3>1, EnabledOnce DEF GoodRequest
    <3> QED  BY <2>1, <2>2, <2>5, <3>2, <3>3
  <2>7. GoodRequest(k)
    BY <1>1, <2>5, <2>6 DEF GoodRequest
  <2>8. req' = [req EXCEPT ![r] = k]
    BY <1>4 DEF Failed
  <2>9. Unhanded(r, k)
    <3>1. q.pc = "looking"
      BY <1>4
    <3> HIDE DEF k
    <3> QED  BY <1>1, <2>5, <3>1 DEF Unhanded
  <2> QED  BY <1>2, <2>5, <2>7, <2>8, <2>9, OneRequest
<1> QED  BY <1>3, <1>4

(* The prompt goes to a provider that may have it.                           *)
LEMMA StartCallGood ==
  ASSUME RouterInv, OrderDiffers, NEW r \in Requests, NEW db \in BOOLEAN, StartCall(r, db)
  PROVE  RouterInv'
<1> DEFINE q == req[r]
           ask == q.ask
<1>1. GoodRequest(q) /\ ask \in Ask /\ Early(ask) = "none" /\ q.pc = "looking" /\ InLoop(r)
  BY DEF RouterInv, StartCall, Reaches, GoodRequest
<1>2. /\ req'[r].ask = ask /\ req'[r].pc = "waiting" /\ DOMAIN req' = Requests
      /\ \A t \in Requests : t # r => req'[t] = req[t]
      /\ req'[r] = [q EXCEPT !.pc = "waiting"]
  BY <1>1 DEF StartCall, RouterInv, GoodShared, GoodRequest
<1>3. At(r) \in Providers /\ q.at <= Len(Enabled(ask))
  <2>1. Enabled(ask) \in Seq(Providers) /\ q.at \in Nat \ {0}
    BY <1>1, EnabledType DEF GoodRequest
  <2> QED  BY <1>1, <2>1 DEF At, InLoop
<1>4. \A t \in Requests : GoodRequest(req'[t])
  <2>1. GoodRequest(req'[r])
    BY <1>1, <1>2, <1>3 DEF GoodRequest
  <2> QED  BY <1>2, <2>1 DEF RouterInv
<1>5. GoodShared'
  BY <1>2, <1>3 DEF StartCall, RouterInv, GoodShared
<1>6. ~ask.secret /\ ask.label \in {"public", "internal"} /\ (At(r) \in {"claude", "codex"} \/ ask.label = "public")
  BY <1>1, EarlyIsGated, StrictIsPublic DEF StartCall, Reaches, Trusted
<1>7. PromptPrivacy'
  <2>1. \A t \in Requests : req'[t].ask = req[t].ask
    BY <1>2
  <2> QED  BY <1>6, <2>1 DEF PromptPrivacy, RouterInv, GoodShared, StartCall
<1>8. \A t \in Requests : Unhanded(t, req[t])'
  <2>1. SUFFICES ASSUME NEW t \in Requests, NEW i \in DOMAIN Enabled(req'[t].ask),
                        i > req'[t].at \/ (i = req'[t].at /\ (req'[t].pc = "looking"
                          \/ (req'[t].pc = "done" /\ req'[t].outcome = "BILLING_RISK")))
                 PROVE  <<t, Enabled(req'[t].ask)[i]>> \notin sent'
    BY DEF Unhanded
  <2>2. CASE t # r
    <3>1. <<t, Enabled(req[t].ask)[i]>> \notin sent
      BY <1>2, <2>1, <2>2 DEF RouterInv, Unhanded
    <3> QED  BY <1>2, <2>2, <3>1 DEF StartCall
  <2>3. CASE t = r
    <3>1. req'[r].at = q.at
      BY <1>1, <1>2 DEF GoodRequest
    <3>2. i \in DOMAIN Enabled(ask) /\ i > q.at
      BY <1>2, <2>1, <2>3, <3>1
    <3>3. <<r, Enabled(ask)[i]>> \notin sent
      BY <3>2 DEF RouterInv, Unhanded
    <3>4. Enabled(ask)[i] # At(r)
      <4>1. Enabled(ask) \in Seq(Providers) /\ q.at \in DOMAIN Enabled(ask) /\ i # q.at
        BY <1>1, <3>2, EnabledType DEF GoodRequest, InLoop
      <4> QED  BY <1>1, <3>2, <4>1, EnabledOnce DEF At
    <3> QED  BY <1>2, <2>3, <3>3, <3>4 DEF StartCall
  <2> QED  BY <2>2, <2>3
<1> QED  BY <1>4, <1>5, <1>7, <1>8 DEF RouterInv, GoodRequest

(* The CLI answered: served, or a failure by what it printed.                *)
LEMMA AnswerGood ==
  ASSUME RouterInv, OrderDiffers, NEW r \in Requests, NEW db \in BOOLEAN,
         \/ NoCall(r, db) \/ CallServes(r, db) \/ Conclude(r, db) \/ RouterBreaks(r, db)
         \/ \E marks \in SUBSET Markers : CallFails(r, marks, db)
  PROVE  RouterInv'
<1>1. GoodRequest(req[r]) /\ Unhanded(r, req[r])
  BY DEF RouterInv
<1>2. CASE NoCall(r, db)
  <2>1. Probe(At(r), facts[At(r)]) \in Failures
    <3>1. At(r) \in Providers
      <4>1. Enabled(req[r].ask) \in Seq(Providers) /\ req[r].at \in Nat \ {0}
        BY <1>1, <1>2, EnabledType DEF GoodRequest, NoCall, Reaches
      <4> QED  BY <1>2, <4>1 DEF At, InLoop, NoCall, Reaches
    <3> QED  BY <1>2, <3>1, RouterAssumption DEF NoCall, Probe, ClaudeProbe, CodexProbe, GeminiProbe, Failures
  <2> QED  BY <1>2, <2>1, FailedGood DEF NoCall, Reaches
<1>3. CASE \E marks \in SUBSET Markers : CallFails(r, marks, db)
  <2>1. PICK marks \in SUBSET Markers : CallFails(r, marks, db)
    BY <1>3
  <2>2. ClassifyFailure(At(r), marks) \in Failures /\ ClassifyFailure(At(r), marks) # "BILLING_RISK"
    BY DEF ClassifyFailure, Failures
  <2>3. InLoop(r)
    BY <1>1, <2>1 DEF CallFails, GoodRequest, InLoop
  <2> QED  BY <2>1, <2>2, <2>3, FailedGood DEF CallFails
<1>4. CASE Conclude(r, db)
  <2>1. Verdict(req[r].met) \in Outcomes /\ Verdict(req[r].met) # "BILLING_RISK"
    BY DEF Verdict, Outcomes
  <2>2. GoodRequest(Ended(req[r], Verdict(req[r].met), db)) /\ Ended(req[r], Verdict(req[r].met), db).ask = req[r].ask
    BY <1>1, <1>4, <2>1, EndedGood DEF Conclude
  <2>3. Ended(req[r], Verdict(req[r].met), db).pc = "done"
    BY <1>1 DEF Ended, RunsAfter, GoodRequest
  <2>4. Unhanded(r, Ended(req[r], Verdict(req[r].met), db))
    BY <1>1, <2>1, EndedUnhanded
  <2> QED  BY <1>4, <2>2, <2>3, <2>4, OneRequest DEF Conclude, RouterInv, GoodShared
<1>6. CASE RouterBreaks(r, db)
  <2> DEFINE k == Ended(req[r], "INTERNAL_ERROR", db)
  <2>1. "INTERNAL_ERROR" \in Outcomes
    BY DEF Outcomes
  <2>2. GoodRequest(k) /\ k.ask = req[r].ask
    BY <1>1, <1>6, <2>1, EndedGood DEF RouterBreaks
  <2>3. k.pc = "done"
    BY <1>1 DEF Ended, RunsAfter, GoodRequest
  <2>4. Unhanded(r, k)
    BY <1>1, <2>1, EndedUnhanded
  <2>5. req' = [req EXCEPT ![r] = k]
    BY <1>6 DEF RouterBreaks
  <2> HIDE DEF k
  <2> QED  BY <1>6, <2>2, <2>3, <2>4, <2>5, OneRequest DEF RouterBreaks, RouterInv, GoodShared
<1>5. CASE CallServes(r, db)
  <2> DEFINE q == [req[r] EXCEPT !.met[At(r)] = "served"]
             k == Ended(q, "served", db)
             e == Enabled(req[r].ask)
  <2>1. e \in Seq(Providers) /\ req[r].at \in DOMAIN e /\ At(r) = e[req[r].at] /\ req[r].met \in [Providers -> Met]
    BY <1>1, <1>5, EnabledType DEF GoodRequest, CallServes, At
  <2>2. [req[r].met EXCEPT ![At(r)] = "served"] \in [Providers -> Met]
    BY <2>1 DEF Met
  <2>3. /\ q = [req[r] EXCEPT !.met = [req[r].met EXCEPT ![At(r)] = "served"]]
        /\ q.met = [req[r].met EXCEPT ![At(r)] = "served"] /\ q.at = req[r].at /\ q.ask = req[r].ask /\ q.pc = "waiting"
    BY <1>1, <1>5 DEF GoodRequest, CallServes
  <2>4. \A i \in DOMAIN e : i > q.at => q.met[e[i]] = "nothing"
    <3>1. SUFFICES ASSUME NEW i \in DOMAIN e, i > q.at PROVE q.met[e[i]] = "nothing"
      OBVIOUS
    <3>2. e[i] \in Providers /\ req[r].met[e[i]] = "nothing"
      BY <1>1, <2>1, <2>3, <3>1 DEF GoodRequest
    <3>3. e[i] # e[req[r].at]
      BY <1>1, <1>5, <2>1, <2>3, <3>1, EnabledOnce DEF GoodRequest, CallServes
    <3> QED  BY <2>1, <2>3, <3>2, <3>3
  <2>5. q \in [pc : {"new", "looking", "waiting", "done"}, ask : Ask, at : Nat \ {0}, began : Nat,
               met : [Providers -> Met], outcome : Outcomes, runs : {0, 1}] /\ q.runs = 0
    BY <1>1, <1>5, <2>2, <2>3 DEF GoodRequest, CallServes
  <2>6. \A p \in Providers : q.met[p] # "BILLING_RISK"
    BY <1>1, <1>5, <2>1, <2>3 DEF GoodRequest, CallServes
  <2>7. GoodRequest(q)
    BY <1>1, <1>5, <2>3, <2>4, <2>5, <2>6 DEF GoodRequest, CallServes
  <2>8. GoodRequest(k) /\ k.ask = req[r].ask
    BY <2>3, <2>7, EndedGood DEF Outcomes
  <2>9. k.pc = "done"
    BY <2>5 DEF Ended, RunsAfter
  <2>10. until' \in [Providers -> Nat]
    BY <1>5 DEF CallServes, Overwritten, CooldownUntil, RouterInv, GoodShared
  <2>11. Unhanded(r, q)
    BY <1>1, <1>5, <2>3 DEF Unhanded, CallServes
  <2>12. Unhanded(r, k)
    BY <2>7, <2>11, EndedUnhanded DEF Outcomes
  <2> QED  BY <1>5, <2>8, <2>9, <2>10, <2>12, OneRequest DEF CallServes
<1> QED  BY <1>2, <1>3, <1>4, <1>5, <1>6

(* Probes, the clock and the owner touch no request.                         *)
LEMMA WorldGood ==
  ASSUME RouterInv, Tick \/ \E p \in Providers : ProbeAll(p) \/ OwnerChanges(p)
  PROVE  RouterInv'
<1>1. req' = req /\ sent' = sent
  BY DEF Tick, ProbeAll, OwnerChanges
<1>2. GoodShared'
  BY <1>1 DEF Tick, ProbeAll, OwnerChanges, RouterInv, GoodShared
<1>3. \A t \in Requests : Unhanded(t, req[t])'
  BY <1>1 DEF RouterInv, Unhanded
<1> QED  BY <1>1, <1>2, <1>3 DEF RouterInv, PromptPrivacy, GoodRequest

LEMMA RouterStep ==
  ASSUME RouterInv, OrderDiffers, [RouterNext]_routerVars
  PROVE  RouterInv'
<1>1. CASE UNCHANGED routerVars
  <2>1. facts' = facts /\ until' = until /\ now' = now /\ req' = req /\ sent' = sent
    BY <1>1 DEF routerVars
  <2>2. GoodShared'
    BY <2>1 DEF RouterInv, GoodShared
  <2>3. \A t \in Requests : Unhanded(t, req[t])'
    BY <2>1 DEF RouterInv, Unhanded
  <2> QED  BY <2>1, <2>2, <2>3 DEF RouterInv, PromptPrivacy, GoodRequest
<1>2. CASE \E r \in Requests, ask \in Asks, db \in BOOLEAN : Begin(r, ask, db)
  BY <1>2, BeginGood
<1>3. CASE \E r \in Requests, db \in BOOLEAN : Work(r, db)
  <2>1. PICK r \in Requests, db \in BOOLEAN : Work(r, db)
    BY <1>3
  <2>2. \/ PassOver(r, db) \/ StartCall(r, db)
        \/ NoCall(r, db) \/ CallServes(r, db) \/ Conclude(r, db) \/ RouterBreaks(r, db) \/ \E marks \in SUBSET Markers : CallFails(r, marks, db)
    BY <2>1 DEF Work
  <2> QED  BY <2>2, PassOverGood, StartCallGood, AnswerGood
<1>4. CASE Tick \/ \E p \in Providers : ProbeAll(p) \/ OwnerChanges(p)
  BY <1>4, WorldGood
<1> QED  BY <1>1, <1>2, <1>3, <1>4 DEF RouterNext

LEMMA RouterInvTells == RouterInv => RouterTypeOK /\ PromptPrivacy /\ RiskEndsIt
<1> SUFFICES ASSUME RouterInv PROVE RouterTypeOK /\ PromptPrivacy /\ RiskEndsIt
  OBVIOUS
<1>1. RouterTypeOK
  BY DEF RouterInv, GoodRequest, GoodShared, RouterTypeOK
<1>2. RiskEndsIt
  <2>1. SUFFICES ASSUME NEW r \in Requests, NEW p \in Providers, req[r].met[p] = "BILLING_RISK",
                        NEW i \in DOMAIN Enabled(req[r].ask), i >= req[r].at
                 PROVE  <<r, Enabled(req[r].ask)[i]>> \notin sent
    BY DEF RiskEndsIt, RouterInv, GoodRequest
  <2>2. GoodRequest(req[r]) /\ Unhanded(r, req[r]) /\ Enabled(req[r].ask) \in Seq(Providers)
    BY <2>1, EnabledType DEF RouterInv, GoodRequest
  <2>3. req[r].pc = "done" /\ req[r].outcome = "BILLING_RISK" /\ (i > req[r].at \/ i = req[r].at)
    BY <2>1, <2>2 DEF GoodRequest
  <2> QED  BY <2>2, <2>3 DEF Unhanded
<1> QED  BY <1>1, <1>2 DEF RouterInv

LEMMA RouterInvariance ==
  ASSUME OrderDiffers
  PROVE  RouterSpec => []RouterInv
<1>1. RouterInit => RouterInv
  BY RouterInitGood
<1>2. RouterInv /\ [RouterNext]_routerVars => RouterInv'
  BY RouterStep
<1> QED  BY <1>1, <1>2, PTL DEF RouterSpec

(* For any providers in any order: no prompt that a CLI is handed holds a    *)
(* secret, and an internal one goes to the trusted subscriptions only.       *)
THEOREM PromptsArePrivate ==
  ASSUME OrderDiffers
  PROVE  RouterSpec => []PromptPrivacy
BY RouterInvariance, RouterInvTells, PTL

(* A provider in whose setup a billing risk shows before its call is never   *)
(* handed the prompt, nor is any provider behind it; the request ends. Says  *)
(* nothing of time-outs and failed calls, after which the next one is asked. *)
THEOREM RiskIsTheEnd ==
  ASSUME OrderDiffers
  PROVE  RouterSpec => []RiskEndsIt
BY RouterInvariance, RouterInvTells, PTL

===============================================================================
