--------------------------- MODULE ReviewGateProofs ---------------------------
(***************************************************************************)
(* Proofs about ReviewGate, for any files, sources, slugs, writers, limit  *)
(* and bounds.                                                             *)
(***************************************************************************)
EXTENDS ReviewGate, TLAPS

Reviewing == review.pc \in {"sources", "audit", "list", "load"}

WriterState == [pc : {"idle", "diff", "open", "write"},
                name : Name \cup {None}, note : Note \cup {None}]

(* A writer knows its file and, once it has run git, its note; a review that *)
(* loads notes wants more of them.                                           *)
Ready ==
  /\ \A w \in Writer : /\ writing[w].pc # "idle" => writing[w].name \in Name
                       /\ writing[w].pc \in {"open", "write"} => writing[w].note \in Note
  /\ review.pc = "load" => review.loaded < Limit

(* What is yet to be read covers what has been defective throughout.         *)
AuditFits ==
  /\ Reviewing => /\ defects.throughout \subseteq Defective
                  /\ Defective # {} => defects.ever
  /\ review.pc # "idle" => review.audit \/ defects.ever
  /\ review.pc = "audit" /\ review.audit => defects.throughout \subseteq review.sources
  /\ review.pc \in {"list", "load", "done"} /\ review.audit => defects.throughout = {}

NotedFits ==
  /\ review.pc # "idle" =>
       \A f \in changedThroughout \ movedAway : Lists(review.changed, f)
  /\ review.pc = "done" => review.ok = (review.audit /\ Covers(review.noted, review.changed))

(* A note lists what git listed of what it was taken of.                     *)
Truthful(note) == note.paths = Listed(note.taken)

NotesFit ==
  /\ \A n \in Readable : Truthful(notes[n])
  /\ \A w \in Writer : writing[w].pc \in {"open", "write"} => Truthful(writing[w].note)

(* A note that stayed current is loaded before any other.                    *)
CurrentFits ==
  /\ Reviewing => currentThroughout \subseteq Current
  /\ Reviewing /\ currentThroughout # {} => review.changed = Changed
  /\ review.pc \in {"sources", "audit", "list"} => review.loaded = 0
  /\ review.pc = "load" =>
       \A n \in currentThroughout : \/ n \in review.todo /\ review.loaded = 0
                                    \/ review.changed \subseteq review.noted
  /\ review.pc = "done" /\ currentThroughout # {} =>
       Limit = 0 \/ review.changed \subseteq review.noted

IInv == TypeOK /\ Ready /\ AuditFits /\ NotedFits /\ NotesFit /\ CurrentFits

-----------------------------------------------------------------------------
(* The audit of a source is what Unfit says of it.                           *)
LEMMA UnfitFails == ASSUME NEW s \in Source PROVE Unfit(s) <=> ~Passes(s)
<1>1. ASSUME NEW d \in s.definitions
      PROVE  SymbolOk(d) <=>
               /\ d.docstring /\ d.lines <= 200
               /\ d.kind = "function" =>
                    /\ d.lines <= 80 /\ d.returns
                    /\ \A p \in d.parameters : p.annotated \/ (p.receiver /\ ~p.starred)
  <2>1. d \in Definition
    BY <1>1 DEF Source
  <2>2. CASE d.kind = "class"
    BY <2>1, <2>2 DEF SymbolOk, MissingAnnotations, BodyLineLimit, Definition
  <2>3. CASE d.kind = "function"
    <3>1. MissingAnnotations(d) = {} <=>
            /\ {p \in d.parameters : ~p.annotated /\ (p.starred \/ ~p.receiver)} = {}
            /\ d.returns
      BY <2>1, <2>3 DEF MissingAnnotations, Definition
    <3>2. \A p \in d.parameters : p \in Parameter
      BY <2>1 DEF Definition
    <3> QED BY <2>1, <2>3, <3>1, <3>2 DEF SymbolOk, BodyLineLimit, Definition, Parameter
  <2> QED BY <2>1, <2>2, <2>3 DEF Definition
<1>2. \A d \in s.definitions : d \in Definition /\ \A p \in d.parameters : p \in Parameter
  BY DEF Source, Definition
<1>3. TreeOk(s) <=> s.docstring /\ \A d \in s.definitions : d.private \/ SymbolOk(d)
  BY DEF TreeOk
<1>4. Passes(s) <=> s.parses /\ TreeOk(s)
  BY DEF Passes
<1>5. ASSUME NEW d \in s.definitions
      PROVE  (d.private \/ SymbolOk(d)) <=>
             ~(/\ ~d.private
               /\ \/ ~d.docstring \/ d.lines > 200
                  \/ d.kind = "function" /\ (d.lines > 80 \/ ~d.returns)
                  \/ d.kind = "function" /\ \E p \in d.parameters :
                                            ~p.annotated /\ (p.receiver => p.starred))
  BY <1>1, <1>2, <1>5 DEF Definition, Parameter
<1> QED BY <1>3, <1>4, <1>5 DEF Unfit

LEMMA DefectiveFails ==
  ASSUME TypeOK, NEW f \in Python
  PROVE  f \in Defective <=> work[f] # Gone /\ ~Passes(Code[work[f]])
<1>1. work[f] # Gone => work[f] \in DOMAIN Code
  <2>1. work \in Contents /\ f \in File
    BY PathAssumption DEF TypeOK, Snapshot, Now
  <2> QED BY <2>1 DEF Contents, Content
<1> QED BY <1>1, CodeAssumption, UnfitFails DEF Defective

(* What git lists are paths.                                                 *)
LEMMA ListedPaths == ASSUME NEW t PROVE Listed(t) \subseteq Path
<1>1. \A f \in File : ListedAs(t, f) \subseteq Path
  BY DEF ListedAs, UntrackedDirs, Path
<1> QED BY <1>1 DEF Listed, Staged, Unstaged, Untracked, Path

(* An untracked file is listed, by itself or by one directory.               *)
LEMMA UntrackedIsListed ==
  ASSUME NEW t, NEW f \in File PROVE Lists(ListedAs(t, f), f)
<1> DEFINE dirs == UntrackedDirs(t, f)
<1>1. CASE dirs = {}
  BY <1>1 DEF ListedAs, Lists
<1>2. CASE dirs # {}
  <2>1. dirs \in SUBSET {d \in Dir : f \in Holds[d]}
    BY DEF UntrackedDirs
  <2>2. PICK d \in dirs : \A e \in dirs \ {d} : Holds[e] \subseteq Holds[d] /\ Holds[e] # Holds[d]
    BY <1>2, <2>1, DirAssumption
  <2>3. d \in ListedAs(t, f) /\ d \in Dir /\ f \in Holds[d]
    BY <1>2, <2>1, <2>2 DEF ListedAs
  <2> QED BY <2>3 DEF Lists
<1> QED BY <1>1, <1>2

(* git lists every file that is not what HEAD says, but for the old names of *)
(* renames.                                                                  *)
LEMMA AlteredIsListed ==
  \A f \in Altered \ Renamed(committed, index) : Lists(Changed, f)
<1> SUFFICES ASSUME NEW f \in File, work[f] # committed[f], f \notin Renamed(committed, index)
             PROVE  Lists(Changed, f)
  BY DEF Altered
<1>1. Now.work = work /\ Now.index = index /\ Now.committed = committed
  BY DEF Now
<1>2. CASE index[f] # committed[f]
  BY <1>1, <1>2 DEF Changed, Listed, Staged, Lists
<1>3. CASE index[f] = committed[f] /\ index[f] # Gone
  BY <1>1, <1>3 DEF Changed, Listed, Unstaged, Lists
<1>4. CASE index[f] = committed[f] /\ index[f] = Gone
  <2>1. f \in Untracked(Now)
    BY <1>1, <1>4 DEF Untracked
  <2>2. ListedAs(Now, f) \subseteq Changed
    BY <2>1 DEF Changed, Listed
  <2> QED BY <2>2, UntrackedIsListed DEF Lists
<1> QED BY <1>2, <1>3, <1>4

(* What is readable is a note.                                               *)
LEMMA ReadableNotes == ASSUME TypeOK, NEW n \in Readable PROVE n \in Name /\ notes[n] \in Note
  BY DEF TypeOK, Readable

LEMMA InitIInv == Init => IInv
<1> SUFFICES ASSUME Init PROVE IInv
  OBVIOUS
<1>1. TypeOK
  BY BoundAssumption, CodeAssumption
  DEF Init, TypeOK, Contents, Content, Snapshot, Now, NoWriting, NoReview
<1>2. Readable = {}
  BY DEF Init, Readable
<1> QED BY <1>1, <1>2 DEF Init, IInv, Ready, AuditFits, NotedFits, NotesFit, CurrentFits,
      Reviewing, NoWriting, NoReview

-----------------------------------------------------------------------------
(* What a step of the developer or of a writer keeps.                        *)
Kept == /\ Now' \in Snapshot
        /\ changes' \in 0..MaxChanges
        /\ second' \in 0..MaxSecond
        /\ notes' \in [Name -> Note \cup {Blank, None}]
        /\ writing' \in [Writer -> WriterState]
        /\ \A w \in Writer : /\ writing'[w].pc # "idle" => writing'[w].name \in Name
                             /\ writing'[w].pc \in {"open", "write"} => writing'[w].note \in Note
        /\ NotesFit'
        /\ (\E n \in Current : n \in Current') => Now' = Now

(* The tree, the index and HEAD hold contents of files whatever is done.     *)
LEMMA DeveloperTypes ==
  ASSUME TypeOK, (\E f \in File : Edit(f) \/ Revert(f)) \/ Stage \/ Commit
  PROVE  /\ work' \in Contents /\ index' \in Contents /\ committed' \in Contents
         /\ changes' \in 0..MaxChanges /\ UNCHANGED <<second, notes, writing>>
<1>1. work \in Contents /\ index \in Contents /\ committed \in Contents
  BY DEF TypeOK, Snapshot, Now
<1>2. Change => changes' \in 0..MaxChanges /\ UNCHANGED <<second, notes, writing>>
  BY BoundAssumption DEF Change, TypeOK
<1>3. ASSUME NEW f \in File, Edit(f)
      PROVE  Change /\ work' \in Contents /\ UNCHANGED <<index, committed>>
  BY <1>1, <1>3 DEF Edit, Contents
<1>4. ASSUME NEW f \in File, Revert(f)
      PROVE  Change /\ work' \in Contents /\ UNCHANGED <<index, committed>>
  BY <1>1, <1>4 DEF Revert, Contents
<1>5. CASE Stage
  <2>1. PICK fs \in SUBSET File, from \in {work, committed, [f \in File |-> Gone]} :
          index' = [f \in File |-> IF f \in fs THEN from[f] ELSE index[f]]
    BY <1>5 DEF Stage
  <2>2. from \in Contents
    BY <1>1 DEF Contents, Content
  <2>3. index' \in Contents
    BY <1>1, <2>1, <2>2 DEF Contents
  <2> QED BY <1>1, <1>2, <1>5, <2>3 DEF Stage
<1>6. CASE Commit
  BY <1>1, <1>2, <1>6 DEF Commit
<1> QED BY <1>1, <1>2, <1>3, <1>4, <1>5, <1>6

LEMMA DeveloperKeeps ==
  ASSUME TypeOK, Ready, NotesFit,
         (\E f \in File : Edit(f) \/ Revert(f)) \/ Stage \/ Commit \/ Tick
  PROVE  Kept
<1>1. /\ Now' \in Snapshot /\ UNCHANGED <<notes, writing>>
      /\ changes' \in 0..MaxChanges /\ second' \in 0..MaxSecond
  <2>1. CASE Tick
    BY <2>1, BoundAssumption DEF Tick, tree, TypeOK, Now
  <2>2. CASE ~Tick
    BY <2>2, DeveloperTypes DEF Now, Snapshot, TypeOK
  <2> QED BY <2>1, <2>2
<1>2. NotesFit'
  BY <1>1 DEF NotesFit, Truthful, Readable
<1>3. ASSUME NEW n \in Current, n \in Current' PROVE Now' = Now
  BY <1>1, <1>3 DEF Current
<1> QED BY <1>1, <1>2, <1>3 DEF Kept, TypeOK, Ready, WriterState

(* A step of a writer w that leaves the tree alone, with its new state r.    *)
LEMMA WriterKeeps ==
  ASSUME TypeOK, Ready, NotesFit, UNCHANGED <<tree, second>>,
         NEW w \in Writer, NEW r \in WriterState, writing' = [writing EXCEPT ![w] = r],
         r.pc # "idle" => r.name \in Name,
         r.pc \in {"open", "write"} => r.note \in Note /\ Truthful(r.note),
         notes' \in [Name -> Note \cup {Blank, None}],
         \A n \in Name : \/ notes'[n] \in {notes[n], Blank}
                         \/ notes'[n] \in Note /\ Truthful(notes'[n])
  PROVE  Kept
<1>1. UNCHANGED <<changes, second>> /\ Now' = Now
  BY DEF tree, Now
<1>3. \A v \in Writer : writing'[v] = IF v = w THEN r ELSE writing[v]
  BY DEF TypeOK
<1>4. \A n \in Readable' : Truthful(notes'[n])
  BY DEF Readable, NotesFit
<1>5. NotesFit'
  BY <1>3, <1>4 DEF NotesFit, Truthful
<1>6. writing' \in [Writer -> WriterState]
  BY DEF TypeOK, WriterState
<1>7. \A v \in Writer : /\ writing'[v].pc # "idle" => writing'[v].name \in Name
                        /\ writing'[v].pc \in {"open", "write"} => writing'[v].note \in Note
  BY <1>3 DEF Ready
<1> QED BY <1>1, <1>5, <1>6, <1>7 DEF Kept, TypeOK

LEMMA NamingKeeps ==
  ASSUME TypeOK, Ready, NotesFit, NEW w \in Writer,
         NameNote(w) \/ DiffNote(w) \/ KillNote(w)
  PROVE  Kept
<1>1. CASE NameNote(w)
  <2>1. PICK s \in Slug : writing' = [writing EXCEPT ![w] = [pc |-> "diff", name |-> <<second, s>>,
                                                             note |-> None]]
    BY <1>1 DEF NameNote
  <2>2. <<second, s>> \in Name
    BY DEF Name, TypeOK
  <2> QED BY <1>1, <2>1, <2>2, WriterKeeps DEF NameNote, TypeOK, WriterState
<1>2. CASE DiffNote(w)
  <2> DEFINE note == [paths |-> Changed, taken |-> Now]
             r == [writing[w] EXCEPT !.pc = "open", !.note = note]
  <2>1. note \in Note /\ Truthful(note)
    BY ListedPaths DEF TypeOK, Note, Changed, Truthful
  <2>2. writing[w] \in WriterState
    BY DEF TypeOK, WriterState
  <2>3. writing' = [writing EXCEPT ![w] = r]
    BY <1>2, <2>2 DEF DiffNote, TypeOK, WriterState
  <2>4. r.name = writing[w].name /\ r.name \in Name /\ r.note = note /\ r.pc = "open"
    BY <1>2, <2>2 DEF DiffNote, Ready, WriterState
  <2>5. r \in WriterState
    BY <2>1, <2>2 DEF WriterState
  <2>6. UNCHANGED <<tree, second, notes>>
    BY <1>2 DEF DiffNote
  <2>7. r.note \in Note /\ Truthful(r.note)
    BY <2>1, <2>4
  <2> HIDE DEF r
  <2> QED BY <2>3, <2>4, <2>5, <2>6, <2>7, WriterKeeps DEF TypeOK
<1>3. CASE KillNote(w)
  BY <1>3, WriterKeeps DEF KillNote, NoWriting, TypeOK, WriterState
<1> QED BY <1>1, <1>2, <1>3

LEMMA WritingKeeps ==
  ASSUME TypeOK, Ready, NotesFit, NEW w \in Writer, OpenNote(w) \/ WriteNote(w)
  PROVE  Kept
<1>1. /\ writing[w] \in WriterState
      /\ writing[w].name \in Name /\ writing[w].note \in Note /\ Truthful(writing[w].note)
  BY DEF OpenNote, WriteNote, TypeOK, Ready, NotesFit, WriterState
<1>2. CASE OpenNote(w)
  <2> DEFINE r == [writing[w] EXCEPT !.pc = "write"]
  <2>1. writing' = [writing EXCEPT ![w] = r]
    BY <1>1, <1>2 DEF OpenNote, TypeOK, WriterState
  <2>2. r \in WriterState /\ r.name = writing[w].name /\ r.note = writing[w].note
    BY <1>1 DEF WriterState
  <2>3. notes' = [notes EXCEPT ![writing[w].name] = Blank]
    BY <1>2 DEF OpenNote
  <2>4. /\ notes' \in [Name -> Note \cup {Blank, None}]
        /\ \A n \in Name : notes'[n] \in {notes[n], Blank}
    BY <2>3 DEF TypeOK
  <2> QED BY <1>1, <1>2, <2>1, <2>2, <2>4, WriterKeeps DEF OpenNote
<1>3. CASE WriteNote(w)
  <2>1. PICK note \in {writing[w].note, Blank} : notes' = [notes EXCEPT ![writing[w].name] = note]
    BY <1>3 DEF WriteNote
  <2>2. /\ notes' \in [Name -> Note \cup {Blank, None}]
        /\ \A n \in Name : \/ notes'[n] \in {notes[n], Blank}
                           \/ notes'[n] \in Note /\ Truthful(notes'[n])
    BY <1>1, <2>1 DEF TypeOK
  <2> QED BY <1>3, <2>2, WriterKeeps DEF WriteNote, NoWriting, WriterState
<1> QED BY <1>2, <1>3

-----------------------------------------------------------------------------
(* Whatever happens around a review is no harm to it.                        *)
LEMMA AroundPreserves ==
  ASSUME IInv, Kept, UNCHANGED review,
         IF review.pc \in {"idle", "done"} THEN UNCHANGED history
         ELSE /\ changedThroughout' = changedThroughout \cap Altered'
              /\ UNCHANGED movedAway
              /\ currentThroughout' = currentThroughout \cap Current'
              /\ defects' = [throughout |-> defects.throughout \cap Defective',
                             ever |-> defects.ever \/ Defective' # {}]
  PROVE  IInv'
<1>1. Reviewing' <=> Reviewing
  BY DEF Reviewing
<1>2. CASE ~Reviewing
  <2>1. UNCHANGED history
    BY <1>2 DEF Reviewing, IInv, TypeOK
  <2> QED BY <1>1, <1>2, <2>1 DEF IInv, TypeOK, Ready, AuditFits, NotedFits, CurrentFits, Kept,
        history, Covers, Reviewing, WriterState
<1>3. CASE Reviewing
  <2>1. /\ changedThroughout' = changedThroughout \cap Altered'
        /\ UNCHANGED movedAway
        /\ currentThroughout' = currentThroughout \cap Current'
        /\ defects' = [throughout |-> defects.throughout \cap Defective',
                       ever |-> defects.ever \/ Defective' # {}]
    BY <1>3 DEF Reviewing
  <2>2. TypeOK'
    BY <2>1 DEF IInv, TypeOK, Kept, WriterState
  <2>3. Ready'
    BY DEF IInv, Ready, Kept
  <2>4. AuditFits'
    BY <1>1, <1>3, <2>1 DEF IInv, TypeOK, AuditFits, Reviewing
  <2>5. NotedFits'
    BY <1>3, <2>1 DEF IInv, NotedFits, Reviewing
  <2>6. CurrentFits'
    <3>1. currentThroughout' \subseteq currentThroughout /\ currentThroughout' \subseteq Current'
      BY <2>1
    <3>2. currentThroughout' # {} => review.changed = Changed'
      BY <1>3, <3>1 DEF IInv, CurrentFits, Kept, Changed
    <3> QED BY <1>3, <3>1, <3>2 DEF IInv, CurrentFits, Reviewing
  <2> QED BY <2>2, <2>3, <2>4, <2>5, <2>6 DEF IInv, Kept
<1> QED BY <1>2, <1>3

LEMMA EnvironmentPreserves ==
  ASSUME IInv,
         \/ \E f \in File : Around(Edit(f)) \/ Around(Revert(f))
         \/ Around(Stage) \/ Around(Commit) \/ Around(Tick)
         \/ \E w \in Writer : \/ Around(NameNote(w)) \/ Around(DiffNote(w))
                              \/ Around(OpenNote(w)) \/ Around(WriteNote(w))
                              \/ Around(KillNote(w))
  PROVE  IInv'
<1>1. Kept
  <2>1. CASE \/ \E f \in File : Around(Edit(f)) \/ Around(Revert(f))
             \/ Around(Stage) \/ Around(Commit) \/ Around(Tick)
    BY <2>1, DeveloperKeeps DEF Around, IInv
  <2>2. CASE \E w \in Writer : \/ Around(NameNote(w)) \/ Around(DiffNote(w))
                               \/ Around(OpenNote(w)) \/ Around(WriteNote(w))
                               \/ Around(KillNote(w))
    BY <2>2, NamingKeeps, WritingKeeps DEF Around, IInv
  <2> QED BY <2>1, <2>2
<1> QED BY <1>1, AroundPreserves DEF Around

-----------------------------------------------------------------------------
LEMMA ReadStatusPreserves == ASSUME IInv, ReadStatus PROVE IInv'
<1> USE DEF IInv
<1>1. /\ UNCHANGED <<tree, second, notes, writing>> /\ Now' = Now
      /\ UNCHANGED <<Changed, Current, Defective, Readable>>
  BY DEF ReadStatus, tree, Changed, Now, Current, Newest, Defective, Readable
<1>2. /\ review' = [NoReview EXCEPT !.pc = "sources", !.changed = Changed]
      /\ changedThroughout' = Altered /\ movedAway' = Renamed(committed, index)
      /\ currentThroughout' = Current
      /\ defects' = [throughout |-> Defective, ever |-> Defective # {}]
  BY DEF ReadStatus
<1>3. review' = [pc |-> "sources", changed |-> Changed, sources |-> {}, audit |-> TRUE,
                 todo |-> {}, loaded |-> 0, noted |-> {}, ok |-> FALSE]
  BY <1>2 DEF NoReview
<1>4. TypeOK'
  <2>1. Changed \subseteq Path /\ Current \subseteq Name /\ Defective \subseteq Python
    BY ListedPaths DEF Changed, Current, Newest, Readable, Defective
  <2>2. Altered \subseteq File /\ Renamed(committed, index) \subseteq File
    <3>1. committed \in Contents /\ index \in Contents
      BY DEF TypeOK, Snapshot, Now
    <3> QED BY <3>1, RenameAssumption DEF Altered
  <2>3. UNCHANGED <<changes, second, notes, writing>>
    BY <1>1 DEF tree
  <2>4. review' \in [pc : {"sources"}, changed : SUBSET Path, sources : SUBSET Python,
                     audit : BOOLEAN, todo : SUBSET Name, loaded : 0..Limit,
                     noted : SUBSET Path, ok : BOOLEAN]
    BY <1>3, <2>1, BoundAssumption
  <2>5. /\ changedThroughout' \in SUBSET File /\ movedAway' \in SUBSET File
        /\ currentThroughout' \in SUBSET Name
        /\ defects' \in [throughout : SUBSET Python, ever : BOOLEAN]
    BY <1>2, <2>1, <2>2
  <2> QED BY <1>1, <2>3, <2>4, <2>5 DEF TypeOK
<1>5. Ready' /\ NotesFit'
  BY <1>1, <1>3 DEF Ready, NotesFit, Truthful, tree
<1>6. AuditFits' /\ CurrentFits'
  <2>1. Changed' = Changed /\ Current' = Current /\ Defective' = Defective
    BY <1>1
  <2>2. /\ review'.pc = "sources" /\ review'.changed = Changed
        /\ review'.audit /\ review'.loaded = 0
    BY <1>3
  <2>3. AuditFits'
    BY <1>2, <2>1, <2>2 DEF AuditFits, Reviewing
  <2>4. CurrentFits'
    BY <1>2, <2>1, <2>2 DEF CurrentFits, Reviewing
  <2> QED BY <2>3, <2>4
<1>7. NotedFits'
  BY <1>2, <1>3, AlteredIsListed DEF NotedFits
<1> QED BY <1>4, <1>5, <1>6, <1>7

(* What a step of a review leaves alone.                                     *)
LEMMA ReadingKeeps ==
  ASSUME TypeOK, NotesFit, Reading
  PROVE  /\ NotesFit' /\ Now' = Now
         /\ UNCHANGED <<work, index, committed, changes, second, notes, writing>>
         /\ UNCHANGED <<changedThroughout, movedAway, currentThroughout, defects>>
         /\ Changed' = Changed /\ Current' = Current
         /\ Defective' = Defective /\ Readable' = Readable
<1>1. /\ UNCHANGED <<work, index, committed, changes, second, notes, writing>>
      /\ UNCHANGED <<changedThroughout, movedAway, currentThroughout, defects>>
  BY DEF Reading, tree, history
<1>2. Now' = Now
  BY <1>1 DEF Now
<1> QED BY <1>1, <1>2 DEF NotesFit, Truthful, Changed, Current, Newest, Defective, Readable

(* The audit goes on with what is left in r.                                 *)
LEMMA AuditFromPreserves ==
  ASSUME IInv, Reading, Reviewing,
         NEW r \in [pc : {"sources", "audit"}, changed : SUBSET Path, sources : SUBSET Python,
                    audit : BOOLEAN, todo : SUBSET Name, loaded : 0..Limit,
                    noted : SUBSET Path, ok : BOOLEAN],
         r.changed = review.changed, r.loaded = 0,
         r.audit \/ defects.ever,
         r.audit => defects.throughout \subseteq r.sources,
         AuditFrom(r)
  PROVE  IInv'
<1> USE DEF IInv
<1>1. /\ review' = [r EXCEPT !.pc = IF r.sources = {} THEN "list" ELSE "audit"]
      /\ review'.pc \in {"audit", "list"}
      /\ review'.pc = "list" => r.sources = {}
  BY DEF AuditFrom
<1>2. TypeOK'
  BY <1>1, ReadingKeeps DEF TypeOK
<1>3. Ready'
  BY <1>1, ReadingKeeps DEF Ready
<1>4. AuditFits'
  BY <1>1, ReadingKeeps DEF AuditFits, Reviewing, TypeOK
<1>5. NotedFits'
  BY <1>1, ReadingKeeps DEF NotedFits, Reviewing
<1>6. CurrentFits'
  BY <1>1, ReadingKeeps DEF CurrentFits, Reviewing
<1> QED BY <1>2, <1>3, <1>4, <1>5, <1>6, ReadingKeeps

LEMMA ListSourcesPreserves == ASSUME IInv, ListSources PROVE IInv'
<1> DEFINE r == [review EXCEPT !.sources = {f \in Python : work[f] # Gone}]
<1>1. /\ review.pc = "sources" /\ Reading /\ AuditFrom(r) /\ Reviewing
      /\ r.pc = "sources" /\ r.changed = review.changed /\ r.loaded = 0
      /\ r.audit = review.audit /\ r.sources = {f \in Python : work[f] # Gone}
  BY DEF ListSources, Reviewing, IInv, TypeOK, CurrentFits
<1>2. r \in [pc : {"sources", "audit"}, changed : SUBSET Path, sources : SUBSET Python,
             audit : BOOLEAN, todo : SUBSET Name, loaded : 0..Limit,
             noted : SUBSET Path, ok : BOOLEAN]
  BY <1>1 DEF IInv, TypeOK
<1>3. r.audit \/ defects.ever
  BY <1>1 DEF IInv, AuditFits
<1>4. defects.throughout \subseteq r.sources
  BY <1>1 DEF IInv, AuditFits, Defective
<1> HIDE DEF r
<1> QED BY <1>1, <1>2, <1>3, <1>4, AuditFromPreserves

LEMMA AuditSourcePreserves == ASSUME IInv, AuditSource PROVE IInv'
<1>1. PICK f \in review.sources :
        IF work[f] = Gone THEN review' = NoReview
        ELSE AuditFrom([review EXCEPT !.sources = @ \ {f},
                                      !.audit = @ /\ Passes(Code[work[f]])])
  BY DEF AuditSource
<1>2. review.pc = "audit" /\ Reading /\ Reviewing /\ f \in Python
  BY DEF AuditSource, Reviewing, IInv, TypeOK
<1>3. CASE work[f] = Gone
  <2>1. review' = NoReview
    BY <1>1, <1>3
  <2>2. TypeOK'
    BY <2>1, <1>2, ReadingKeeps, BoundAssumption DEF IInv, TypeOK, NoReview
  <2> QED BY <2>1, <2>2, <1>2, ReadingKeeps
        DEF IInv, Ready, AuditFits, NotedFits, CurrentFits, Reviewing, NoReview
<1>4. CASE work[f] # Gone
  <2> DEFINE r == [review EXCEPT !.sources = @ \ {f},
                                 !.audit = @ /\ Passes(Code[work[f]])]
  <2>1. AuditFrom(r)
    BY <1>1, <1>4
  <2>2. /\ r.pc = "audit" /\ r.changed = review.changed /\ r.loaded = 0
        /\ r.sources = review.sources \ {f}
        /\ r.audit = (review.audit /\ Passes(Code[work[f]]))
    BY <1>2 DEF IInv, TypeOK, CurrentFits
  <2>3. r \in [pc : {"sources", "audit"}, changed : SUBSET Path, sources : SUBSET Python,
               audit : BOOLEAN, todo : SUBSET Name, loaded : 0..Limit,
               noted : SUBSET Path, ok : BOOLEAN]
    BY <1>2 DEF IInv, TypeOK
  <2>4. f \in Defective <=> ~Passes(Code[work[f]])
    BY <1>2, <1>4, DefectiveFails DEF IInv
  <2>5. r.audit \/ defects.ever
    BY <1>2, <2>2, <2>4 DEF IInv, AuditFits
  <2>6. r.audit => defects.throughout \subseteq r.sources
    BY <1>2, <2>2, <2>4 DEF IInv, AuditFits
  <2> HIDE DEF r
  <2> QED BY <1>2, <2>1, <2>2, <2>3, <2>5, <2>6, AuditFromPreserves
<1> QED BY <1>3, <1>4

(* A review that goes on loading from r, or ends.                            *)
LEMMA LoadFromPreserves ==
  ASSUME IInv, Reading, review.pc \in {"list", "load"},
         NEW r \in [pc : {"list", "load"}, changed : SUBSET Path, sources : SUBSET Python,
                    audit : BOOLEAN, todo : SUBSET Name, loaded : 0..Limit,
                    noted : SUBSET Path, ok : BOOLEAN],
         r.changed = review.changed, r.audit = review.audit,
         \A n \in currentThroughout : \/ n \in r.todo /\ r.loaded = 0
                                      \/ r.changed \subseteq r.noted,
         LoadFrom(r)
  PROVE  IInv'
<1> USE DEF IInv
<1>1. CASE r.todo = {} \/ r.loaded >= Limit
  <2>1. review' = [r EXCEPT !.pc = "done", !.ok = r.audit /\ Covers(r.noted, r.changed)]
    BY <1>1 DEF LoadFrom
  <2>2. /\ review'.pc = "done" /\ review'.audit = review.audit
        /\ review'.changed = review.changed /\ review'.noted = r.noted
        /\ review'.ok = (review.audit /\ Covers(r.noted, review.changed))
    BY <2>1
  <2>3. Covers(r.noted, r.changed) \in BOOLEAN
    BY DEF Covers
  <2>4. review' \in [pc : {"done"}, changed : SUBSET Path, sources : SUBSET Python,
                     audit : BOOLEAN, todo : SUBSET Name, loaded : 0..Limit,
                     noted : SUBSET Path, ok : BOOLEAN]
    BY <2>1, <2>3
  <2>5. TypeOK'
    BY <2>4, ReadingKeeps DEF TypeOK
  <2>6. Ready' /\ AuditFits' /\ NotedFits'
    BY <2>2, ReadingKeeps DEF Ready, AuditFits, NotedFits, Reviewing, Covers
  <2>7. CurrentFits'
    BY <1>1, <2>2, ReadingKeeps, BoundAssumption DEF CurrentFits, Reviewing
  <2> QED BY <2>5, <2>6, <2>7, ReadingKeeps
<1>2. CASE ~(r.todo = {} \/ r.loaded >= Limit)
  <2>1. review' = [r EXCEPT !.pc = "load"]
    BY <1>2 DEF LoadFrom
  <2>2. TypeOK'
    BY <2>1, ReadingKeeps DEF TypeOK
  <2>3. Ready' /\ AuditFits' /\ NotedFits'
    BY <1>2, <2>1, ReadingKeeps, BoundAssumption DEF Ready, AuditFits, NotedFits, Reviewing
  <2>4. CurrentFits'
    BY <2>1, ReadingKeeps DEF CurrentFits, Reviewing
  <2> QED BY <2>2, <2>3, <2>4, ReadingKeeps
<1> QED BY <1>1, <1>2

LEMMA ListNotesPreserves == ASSUME IInv, ListNotes PROVE IInv'
<1> DEFINE r == [review EXCEPT !.todo = {n \in Name : notes[n] # None}]
<1>1. /\ review.pc = "list" /\ Reading /\ LoadFrom(r)
      /\ r.changed = review.changed /\ r.audit = review.audit /\ r.loaded = 0
      /\ r.todo = {n \in Name : notes[n] # None}
  BY DEF ListNotes, IInv, TypeOK, CurrentFits
<1>2. r \in [pc : {"list", "load"}, changed : SUBSET Path, sources : SUBSET Python,
             audit : BOOLEAN, todo : SUBSET Name, loaded : 0..Limit,
             noted : SUBSET Path, ok : BOOLEAN]
  BY <1>1 DEF IInv, TypeOK
<1>3. currentThroughout \subseteq r.todo
  BY <1>1 DEF IInv, CurrentFits, Reviewing, Current, Newest, Readable
<1> HIDE DEF r
<1> QED BY <1>1, <1>2, <1>3, LoadFromPreserves

LEMMA LoadNotePreserves == ASSUME IInv, LoadNote PROVE IInv'
<1>1. PICK n \in Newest(review.todo) :
        LET rest == [review EXCEPT !.todo = @ \ {n}] IN
        LoadFrom(IF n \in Readable
                 THEN [rest EXCEPT !.loaded = @ + 1, !.noted = @ \cup notes[n].paths]
                 ELSE rest)
  BY DEF LoadNote, NextNote
<1>2. review.pc = "load" /\ Reading /\ Reviewing /\ n \in review.todo /\ n \in Name
  BY <1>1 DEF LoadNote, Reviewing, Newest, IInv, TypeOK
<1> DEFINE r == [review EXCEPT !.todo = review.todo \ {n},
                               !.loaded = IF n \in Readable THEN @ + 1 ELSE @,
                               !.noted = IF n \in Readable THEN @ \cup notes[n].paths ELSE @]
<1>3. LoadFrom(r)
  <2>1. CASE n \in Readable
    BY <1>1, <2>1 DEF IInv, TypeOK
  <2>2. CASE n \notin Readable
    <3>1. r = [review EXCEPT !.todo = @ \ {n}]
      BY <2>2 DEF IInv, TypeOK
    <3> QED BY <1>1, <2>2, <3>1
  <2> QED BY <2>1, <2>2
<1>4. /\ r.pc = "load" /\ r.changed = review.changed /\ r.audit = review.audit
      /\ r.todo = review.todo \ {n}
      /\ r.loaded = IF n \in Readable THEN review.loaded + 1 ELSE review.loaded
      /\ r.noted = IF n \in Readable THEN review.noted \cup notes[n].paths ELSE review.noted
  BY <1>2 DEF IInv, TypeOK
<1>5. n \in Readable => notes[n].paths \subseteq Path
  BY ReadableNotes DEF IInv, Note
<1>6. r \in [pc : {"list", "load"}, changed : SUBSET Path, sources : SUBSET Python,
             audit : BOOLEAN, todo : SUBSET Name, loaded : 0..Limit,
             noted : SUBSET Path, ok : BOOLEAN]
  <2>1. review.loaded \in 0..Limit /\ review.loaded < Limit
    BY <1>2 DEF IInv, TypeOK, Ready
  <2>2. review.loaded + 1 \in 0..Limit
    BY <2>1, BoundAssumption
  <2>3. (IF n \in Readable THEN review.loaded + 1 ELSE review.loaded) \in 0..Limit
    BY <2>1, <2>2
  <2>4. (IF n \in Readable THEN review.noted \cup notes[n].paths ELSE review.noted) \in SUBSET Path
    BY <1>5 DEF IInv, TypeOK
  <2> QED BY <1>2, <2>3, <2>4 DEF IInv, TypeOK
<1>7. ASSUME NEW c \in currentThroughout
      PROVE  (c \in r.todo /\ r.loaded = 0) \/ r.changed \subseteq r.noted
  <2>1. /\ c \in Current /\ review.changed = Changed
        /\ (c \in review.todo /\ review.loaded = 0) \/ review.changed \subseteq review.noted
    BY <1>2 DEF IInv, CurrentFits
  <2>2. CASE review.changed \subseteq review.noted
    BY <1>4, <2>2
  <2>3. CASE c = n
    <3>1. c \in Readable /\ notes[c].taken = Now
      BY <2>1 DEF Current, Newest
    <3>2. notes[c].paths = Changed
      BY <3>1 DEF IInv, NotesFit, Truthful, Changed
    <3> QED BY <1>4, <2>1, <2>3, <3>1, <3>2
  <2>4. CASE c # n /\ c \in review.todo /\ review.loaded = 0
    <3>1. c \in Name /\ ~Newer(c, n)
      BY <1>1, <2>4 DEF Newest, IInv, TypeOK
    <3>2. Newer(n, c)
      <4>1. PICK a \in 0..MaxSecond, s \in Slug : n = <<a, s>>
        BY <1>2 DEF Name
      <4>2. PICK b \in 0..MaxSecond, t \in Slug : c = <<b, t>>
        BY <3>1 DEF Name
      <4>3. s \in Nat /\ t \in Nat
        BY BoundAssumption
      <4> QED BY <2>4, <3>1, <4>1, <4>2, <4>3 DEF Newer
    <3>3. n \notin Readable
      BY <2>1, <3>2 DEF Current, Newest
    <3> QED BY <1>4, <2>4, <3>3
  <2> QED BY <2>1, <2>2, <2>3, <2>4
<1> HIDE DEF r
<1> QED BY <1>2, <1>3, <1>4, <1>6, <1>7, LoadFromPreserves

-----------------------------------------------------------------------------
LEMMA NextIInv == ASSUME IInv, [Next]_vars PROVE IInv'
<1>1. CASE UNCHANGED vars
  <2>1. /\ UNCHANGED <<work, index, committed, changes, second, notes, writing, review>>
        /\ UNCHANGED <<changedThroughout, movedAway, currentThroughout, defects>>
    BY <1>1 DEF vars, tree, history
  <2>2. Now' = Now
    BY <2>1 DEF Now
  <2>3. UNCHANGED <<Changed, Current, Defective, Readable>>
    BY <2>1, <2>2 DEF Changed, Current, Newest, Defective, Readable
  <2> QED BY <2>1, <2>2, <2>3 DEF IInv, TypeOK, Ready, AuditFits, NotedFits, NotesFit,
        CurrentFits, Reviewing, Truthful, Covers
<1>2. CASE Next
  BY <1>2, EnvironmentPreserves, ReadStatusPreserves, ListSourcesPreserves, AuditSourcePreserves,
    ListNotesPreserves, LoadNotePreserves DEF Next
<1> QED BY <1>1, <1>2

THEOREM Invariance == Spec => []IInv
BY InitIInv, NextIInv, PTL DEF Spec

(* The type invariant, for any files, contents, writers and bounds.          *)
THEOREM TypeCorrect == Spec => []TypeOK
<1>1. IInv => TypeOK
  BY DEF IInv
<1> QED BY <1>1, Invariance, PTL

(* A ready review leaves no file out that differed from HEAD during all of   *)
(* it, but for those under a noted untracked directory and the old names of  *)
(* renames, whatever the developer and the writers of notes do meanwhile.    *)
THEOREM ReadyIsNoted == Spec => []ReadyMeansNoted
<1>1. IInv => ReadyMeansNoted
  <2> SUFFICES ASSUME IInv, review.pc = "done", review.ok,
                      NEW f \in changedThroughout \ (Internal \cup movedAway)
               PROVE  Lists(review.noted, f)
    BY DEF ReadyMeansNoted
  <2>1. review.changed \ InternalPath \subseteq review.noted
    BY DEF IInv, NotedFits, Covers
  <2>2. Lists(review.changed, f)
    BY DEF IInv, NotedFits
  <2>3. f \in File /\ f \notin Dir
    BY DirAssumption DEF IInv, TypeOK
  <2>4. CASE f \in review.changed
    BY <2>1, <2>3, <2>4 DEF InternalPath, Lists
  <2>5. ASSUME NEW d \in review.changed \cap Dir, f \in Holds[d] PROVE Lists(review.noted, f)
    <3>1. d \notin InternalPath
      BY <2>5, DirAssumption, PathAssumption DEF InternalPath
    <3> QED BY <2>1, <2>5, <3>1 DEF Lists
  <2> QED BY <2>2, <2>4, <2>5 DEF Lists
<1> QED BY <1>1, Invariance, PTL

(* The audit of build_review_pack and of gither gate misses no source that   *)
(* stays defective, and blames none when there was no defect.                *)
THEOREM AuditIsSound == Spec => []AuditSound
<1>1. IInv => AuditSound
  BY DEF IInv, AuditFits, AuditSound
<1> QED BY <1>1, Invariance, PTL

(* A note of the tree, the index and HEAD as they stay unblocks the review,  *)
(* provided the review loads any note at all.                                *)
THEOREM NoteIsEnough == ASSUME Limit # 0 PROVE Spec => []NoteUnblocks
<1>1. IInv => NoteUnblocks
  BY DEF IInv, NotedFits, CurrentFits, NoteUnblocks, Covers
<1> QED BY <1>1, Invariance, PTL
=============================================================================
