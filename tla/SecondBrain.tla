------------------------------ MODULE SecondBrain ------------------------------
(* The context API over the notes (second_brain/core.py): reindex jobs copy  *)
(* what they need of every note into sb_index, in a transaction each, while  *)
(* the notes are edited; get_context() finds notes through the index, reads  *)
(* them again, and gates what goes to an external AI. Each process labels    *)
(* notes by privacy.yaml as it was when that process first needed it: by any *)
(* of PrivacyFiles, whatever its owner made of the file since.               *)
EXTENDS PrivacyGate, Naturals, FiniteSets

CONSTANTS Notes,          \* 1 .. n: paths in their order
          PrivacyFiles,   \* what a process may have cached of privacy.yaml (see Policy)
          NoteContents,   \* what a note may hold (see NoteContent)
          Indexers,       \* workers that run sb.reindex
          MaxFiles,       \* max_files of a context
          MaxEdits        \* bound: edits of notes

NoteContent == [hash : Nat, mtime : Nat, fence : {"ok", "broken"}, declared : Declared,
            secret : BOOLEAN, score : Nat]
\* Read or not, and what it says of each path.
Policy == [config : Configs, path : [Notes -> Paths]]
ASSUME BrainAssumption ==
  /\ Notes \subseteq Nat /\ PrivacyFiles \subseteq Policy
  /\ NoteContents \subseteq NoteContent /\ MaxEdits \in Nat
\* The hash is SHA-256 of the whole text: it is that of one front matter only.
ASSUME HashAssumption ==
  /\ \A c \in NoteContents : c.hash # 0
  /\ \A c, d \in NoteContents : c.hash = d.hash => c.fence = d.fence /\ c.declared = d.declared
NoRow == [hash |-> 0, mtime |-> 0, label |-> "none"]
GoneNote == [hash |-> 0, mtime |-> 0, fence |-> "ok", declared |-> "absent", secret |-> FALSE, score |-> 0]

VARIABLES
  note,         \* per path: the file, or GoneNote
  index,        \* sb_index per path, or NoRow
  pass,         \* per indexer: whether it walks, by which rules, the index it loaded, what is
                \* left, what it wrote, and (history) what it could read, and whether
                \* nothing else happened meanwhile
  edits
brainVars == <<note, index, pass, edits>>

NoPolicy == [config |-> "unreadable", path |-> [n \in Notes |-> [blocked |-> FALSE, allowed |-> FALSE]]]
IdleWalk == [on |-> FALSE, policy |-> NoPolicy, loaded |-> [n \in Notes |-> NoRow], left |-> {},
             rows |-> [n \in Notes |-> NoRow], read |-> {}, calm |-> FALSE]
DisturbedWalks(ps) == [i \in Indexers |-> [ps[i] EXCEPT !.calm = FALSE]]

BrainInit ==
  /\ note = [n \in Notes |-> GoneNote]
  /\ index = [n \in Notes |-> NoRow]
  /\ pass = [i \in Indexers |-> IdleWalk]
  /\ edits = 0

\* parse_frontmatter(): front matter that does not parse is no front matter.
ParsedLabel(c) == IF c.fence = "broken" THEN "absent" ELSE c.declared
LabelUnder(f, n, c) == Classify(f.config, f.path[n], ParsedLabel(c))

EditNote(n) ==
  /\ edits < MaxEdits /\ edits' = edits + 1
  /\ \E c \in NoteContents \cup {GoneNote} : c # note[n] /\ note' = [note EXCEPT ![n] = c]
  /\ pass' = DisturbedWalks(pass)
  /\ UNCHANGED index
-------------------------------------------------------------------------------
(* reindex()                                                                 *)

\* The process that takes the job reads the index, and labels by the rules f.
StartWalk(i, f) ==
  /\ ~pass[i].on
  /\ pass' = [pass EXCEPT ![i] = [on |-> TRUE, policy |-> f, loaded |-> index, left |-> Notes,
                                  rows |-> [n \in Notes |-> NoRow], read |-> {}, calm |-> TRUE]]
  /\ UNCHANGED <<note, index, edits>>

\* Mutant: the time stamp alone tells whether a note changed.
SameStamp(row, c) == row.mtime = c.mtime
\* A row of the index that a walk may skip: same content and same time.
SameRow(row, c) == row.hash = c.hash /\ row.mtime = c.mtime

\* The next file of the walk: a note that is gone or unchanged is skipped, others
\* are upserted. (Each note has a directory of its own, listed when its turn comes.)
NextFile(i, n) == pass[i].on /\ n \in pass[i].left /\ \A m \in pass[i].left : n <= m
WalkFile(i, n) ==
  /\ NextFile(i, n)
  /\ LET c == note[n]
         row == [hash |-> c.hash, mtime |-> c.mtime, label |-> LabelUnder(pass[i].policy, n, c)] IN
     pass' = [pass EXCEPT ![i].left = @ \ {n},
                          ![i].read = @ \cup {n},
                          ![i].rows[n] = IF c = GoneNote \/ SameRow(pass[i].loaded[n], c) THEN @ ELSE row]
  /\ UNCHANGED <<note, index, edits>>

\* A note that cannot be read is skipped too, and its row left as it is.
SkipFile(i, n) ==
  /\ NextFile(i, n)
  /\ pass' = [pass EXCEPT ![i].left = @ \ {n}]
  /\ UNCHANGED <<note, index, edits>>

\* The connection commits when the walk is over.
CommitWalk(i) ==
  /\ pass[i].on /\ pass[i].left = {}
  /\ index' = [n \in Notes |-> IF pass[i].rows[n] # NoRow THEN pass[i].rows[n] ELSE index[n]]
  /\ pass' = [DisturbedWalks(pass) EXCEPT ![i] = IdleWalk]
  /\ UNCHANGED <<note, edits>>

\* The job dies, or the connection with it: nothing was written.
LoseWalk(i) ==
  /\ pass[i].on
  /\ pass' = [pass EXCEPT ![i] = IdleWalk]
  /\ UNCHANGED <<note, index, edits>>
-------------------------------------------------------------------------------
(* get_context()                                                             *)

\* The notes the index names, or all of them when it is empty or the database
\* does not answer.
Candidates(db) ==
  IF db /\ \E n \in Notes : index[n] # NoRow THEN {n \in Notes : index[n] # NoRow} ELSE Notes

\* Notes that can still be read and say something of the query, best first; the
\* shortlist is long enough for all of them.
Ranked(db, lost) == {n \in Candidates(db) \ lost : note[n] # GoneNote /\ note[n].score > 0}
RanksBefore(m, n) == note[m].score > note[n].score \/ (note[m].score = note[n].score /\ m < n)

\* Mutant: the label the index holds is taken for the note's.
NotePassesByIndex(f, n) == Gate(index[n].label, FALSE, note[n].secret) = "allowed"
\* A note goes out when the gate lets its text go under the label it has now, by
\* the rules f of the process that answers.
NotePasses(f, n) == Gate(LabelUnder(f, n, note[n]), FALSE, note[n].secret) = "allowed"

ChosenNotes(external, f, ranked) ==
  LET good == IF external THEN {n \in ranked : NotePasses(f, n)} ELSE ranked IN
  {n \in good : Cardinality({m \in good : RanksBefore(m, n)}) < MaxFiles}
ExcludedNotes(f, ranked) ==
  {n \in ranked : ~NotePasses(f, n) /\ Cardinality({m \in ranked : NotePasses(f, m) /\ RanksBefore(m, n)}) < MaxFiles}

\* The assembled text is gated once more, as public.
Assembled(external, f, ranked) ==
  LET chosen == ChosenNotes(external, f, ranked)
      verdict == Gate("public", FALSE, \E n \in chosen : note[n].secret)
      text == {<<n, note[n]>> : n \in chosen} IN
  IF external /\ chosen # {} /\ verdict # "allowed"
  THEN [text |-> {}, excluded |-> ExcludedNotes(f, ranked), external |-> external, outcome |-> "SECRET_DETECTED"]
  ELSE [text |-> text, excluded |-> IF external THEN ExcludedNotes(f, ranked) ELSE {}, external |-> external,
        outcome |-> "ok"]

\* What a call answers now: external, or for the owner's own use; by the rules f
\* its process has cached; db: the database answers; lost: notes that cannot be
\* read. A call changes nothing.
GetContext(external, f, db, lost) == Assembled(external, f, Ranked(db, lost))

BrainNext ==
  \/ \E n \in Notes : EditNote(n)
  \/ \E i \in Indexers, f \in PrivacyFiles : StartWalk(i, f)
  \/ \E i \in Indexers : CommitWalk(i) \/ LoseWalk(i)
  \/ \E i \in Indexers, n \in Notes : WalkFile(i, n) \/ SkipFile(i, n)

BrainSpec == BrainInit /\ [][BrainNext]_brainVars
-------------------------------------------------------------------------------
BrainTypeOK ==
  /\ note \in [Notes -> NoteContents \cup {GoneNote}]
  /\ \A n \in Notes : index[n] = NoRow \/ index[n].label \in Labels
  /\ \A i \in Indexers : pass[i].policy \in Policy /\ pass[i].left \subseteq Notes /\ pass[i].read \subseteq Notes
  /\ edits \in 0 .. MaxEdits

\* Whatever is asked for an external AI, and whenever, every text of the answer is
\* free of secrets and public: it says so itself, or it says nothing and lies under
\* an allowed and no blocked glob of the rules the answering process has cached.
\* The index may be as old as it likes, or gone. (What the owner blocked since that
\* process started still goes out: docs/SECURITY.md:114-116.)
OnlyPublicGoesOut ==
  \A f \in PrivacyFiles, db \in BOOLEAN, lost \in SUBSET Notes :
    \A b \in GetContext(TRUE, f, db, lost).text :
      /\ ~b[2].secret
      /\ \/ ParsedLabel(b[2]) = "public"
         \/ /\ ParsedLabel(b[2]) = "absent" /\ f.config = "read"
            /\ f.path[b[1]] = [blocked |-> FALSE, allowed |-> TRUE]

\* A walk that nothing disturbs - no edit and no other walk's commit between its
\* start and its own - leaves every note it could read with a row of its present
\* content and time, however old the index was. Its label is the one the rules of
\* this walk's process give the note, or, in a row that is kept because content and
\* time agree, the one the rules of some process gave this very content. (An older
\* walk that commits late may put old rows back; the next walk sees the difference.)
RowUnder(f, n) == [hash |-> note[n].hash, mtime |-> note[n].mtime, label |-> LabelUnder(f, n, note[n])]
CalmWalkRenews ==
  [][\A i \in Indexers : CommitWalk(i) /\ pass[i].calm =>
       \A n \in pass[i].read : note[n] # GoneNote =>
         \/ index'[n] = RowUnder(pass[i].policy, n)
         \/ index'[n] = index[n] /\ \E f \in PrivacyFiles : index[n] = RowUnder(f, n)]_brainVars
===============================================================================
