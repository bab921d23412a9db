----------------------------- MODULE ReviewGate -----------------------------
(***************************************************************************)
(* Change notes and the review pack: write_change_note (changebook.py),    *)
(* build_review_pack (review.py), the git commands they read the working   *)
(* tree with (gitops.py) and the audit of its sources.  A developer edits, *)
(* deletes, stages, reverts and commits while notes are written and        *)
(* reviews are built; each git command, each source read and each access   *)
(* to a note's file is a step of its own.                                  *)
(***************************************************************************)
EXTENDS PythonAudit

CONSTANTS File,        \* paths of the files of the repository
          Dir,         \* paths of its directories, each with a / at its end; of
                       \*   those that hold the same files, the outermost
          Holds,       \* directory -> the files below it
          Internal,    \* the files under .gither/
          Renamed(_, _),  \* the deleted files that git takes for the old names of
                       \*   added ones, between two states of the files
          Python,      \* sources under the Python root, no part of whose path,
                       \*   from the root of the file system on, is ignored
          Code,        \* contents of files -> the source each is
          Original,    \* file -> what it holds at first
          Tracked,     \* the files committed at first, as they are
          Gone,        \* the content of a file that is not there
          Slug,        \* slugs of note summaries, numbered as they sort
          Writer,      \* runs of "gither change-note"
          Limit,       \* max_change_notes, the notes a review loads
          MaxChanges, MaxSecond,  \* bounds on the developer's steps and the clock
          None

Content == DOMAIN Code \cup {Gone}
Contents == [File -> Content]
Path == File \cup Dir

ASSUME PathAssumption == {Internal, Python, Tracked} \subseteq SUBSET File
ASSUME DirAssumption ==
  /\ Dir \cap File = {}
  /\ Holds \in [Dir -> SUBSET File \ {{}}]
  /\ \A f \in File : \A ds \in SUBSET {d \in Dir : f \in Holds[d]} :
       ds # {} => \E d \in ds : \A e \in ds \ {d} :
                      Holds[e] \subseteq Holds[d] /\ Holds[e] # Holds[d]
  /\ \A d \in Dir : Holds[d] \subseteq Internal \/ Holds[d] \cap Internal = {}
ASSUME CodeAssumption == /\ Original \in Contents /\ Gone \notin DOMAIN Code
                         /\ \A c \in DOMAIN Code : Code[c] \in Source
ASSUME RenameAssumption ==
  \A old, new \in Contents :
    Renamed(old, new) \subseteq {f \in File : old[f] # Gone /\ new[f] = Gone}
ASSUME BoundAssumption == /\ Slug \subseteq Nat \ {0}
                          /\ Limit \in Nat
                          /\ {MaxChanges, MaxSecond} \subseteq Nat

VARIABLES
  work,      \* file -> content in the working tree
  index,     \* file -> content in git's index
  committed, \* file -> content at HEAD
  changes,   \* how many there were
  second,    \* the clock change notes are named after
  notes,     \* <<second, slug>> -> the note of that file name
  writing,   \* writer -> its program counter and locals
  review,    \* the review that is being built, or was built last
  changedThroughout, \* history: files changed during the whole review
  movedAway,         \* history: the old names of renames at its git status
  currentThroughout, \* history: notes that were current during the whole review
  defects            \* history: sources that were defective throughout it, and whether any ever was

tree == <<work, index, committed, changes>>
history == <<changedThroughout, movedAway, currentThroughout, defects>>
vars == <<tree, second, notes, writing, review, history>>

Name == (0..MaxSecond) \X Slug
Snapshot == [work : Contents, index : Contents, committed : Contents]
Now == [work |-> work, index |-> index, committed |-> committed]
(* A note lists the changed paths; taken is what it was taken of (history).  *)
Note == [paths : SUBSET Path, taken : Snapshot]

(* A file that does not parse: emptied, or written by two runs at once.      *)
Blank == [paths |-> None, taken |-> None]

(* What "git status --porcelain" tells apart: files whose index differs from *)
(* HEAD, tracked files changed since, and untracked ones.                    *)
Staged(s) == {f \in File : s.index[f] # s.committed[f]}
Unstaged(s) == {f \in File : s.index[f] # Gone /\ s.work[f] # s.index[f]}
Untracked(s) == {f \in File : s.index[f] = Gone /\ s.work[f] # Gone}

(* An untracked file is listed by the outermost directory above it that      *)
(* holds no tracked file, if there is one.                                   *)
UntrackedDirs(s, f) ==
  {d \in Dir : f \in Holds[d] /\ \A g \in Holds[d] : s.index[g] = Gone}
ListedAs(s, f) ==
  LET dirs == UntrackedDirs(s, f) IN
  IF dirs = {} THEN {f} ELSE {d \in dirs : \A e \in dirs : Holds[e] \subseteq Holds[d]}

(* The paths _status_entries returns: of a rename, the new one only.         *)
Listed(s) == (Staged(s) \ Renamed(s.committed, s.index)) \cup Unstaged(s)
               \cup UNION {ListedAs(s, f) : f \in Untracked(s)}
Changed == Listed(Now)

(* What a list of paths stands for: files, and all that directories hold.    *)
Lists(paths, f) == f \in paths \/ \E d \in paths \cap Dir : f \in Holds[d]

(* Paths that start with .gither/. *)
InternalPath == Internal \cup {d \in Dir : Holds[d] \subseteq Internal}

NoWriting == [pc |-> "idle", name |-> None, note |-> None]
NoReview == [pc |-> "idle", changed |-> {}, sources |-> {}, audit |-> TRUE,
             todo |-> {}, loaded |-> 0, noted |-> {}, ok |-> FALSE]

(* What the audit is to find (history).                                      *)
Unfit(source) ==
  \/ ~source.parses \/ ~source.docstring
  \/ \E d \in source.definitions :
       /\ ~d.private
       /\ \/ ~d.docstring \/ d.lines > 200
          \/ d.kind = "function" /\ (d.lines > 80 \/ ~d.returns)
          \/ d.kind = "function" /\ \E p \in d.parameters :
                                     ~p.annotated /\ (p.receiver => p.starred)

Defective == {f \in Python : work[f] # Gone /\ Unfit(Code[work[f]])}

TypeOK ==
  /\ Now \in Snapshot
  /\ changes \in 0..MaxChanges
  /\ second \in 0..MaxSecond
  /\ notes \in [Name -> Note \cup {Blank, None}]
  /\ writing \in [Writer -> [pc : {"idle", "diff", "open", "write"},
                             name : Name \cup {None}, note : Note \cup {None}]]
  /\ review \in [pc : {"idle", "sources", "audit", "list", "load", "done"},
                 changed : SUBSET Path, sources : SUBSET Python,
                 audit : BOOLEAN, todo : SUBSET Name,
                 loaded : 0..Limit, noted : SUBSET Path, ok : BOOLEAN]
  /\ changedThroughout \in SUBSET File
  /\ movedAway \in SUBSET File
  /\ currentThroughout \in SUBSET Name
  /\ defects \in [throughout : SUBSET Python, ever : BOOLEAN]

Init ==
  /\ work = Original
  /\ index = [f \in File |-> IF f \in Tracked THEN Original[f] ELSE Gone]
  /\ committed = index
  /\ changes = 0
  /\ second = 0
  /\ notes = [n \in Name |-> None]
  /\ writing = [w \in Writer |-> NoWriting]
  /\ review = NoReview
  /\ changedThroughout = {} /\ movedAway = {} /\ currentThroughout = {}
  /\ defects = [throughout |-> {}, ever |-> FALSE]

-----------------------------------------------------------------------------
(* The developer's next step. *)
Change ==
  /\ changes < MaxChanges
  /\ changes' = changes + 1
  /\ UNCHANGED <<second, notes, writing>>

(* A file is edited, deleted or made (anew), *)
Edit(f) ==
  /\ Change
  /\ \E c \in Content \ {work[f]} : work' = [work EXCEPT ![f] = c]
  /\ UNCHANGED <<index, committed>>

(* files are staged (git add, git mv), unstaged (git reset) or untracked     *)
(* (git rm --cached),                                                        *)
Stage ==
  /\ Change
  /\ \E fs \in SUBSET File, from \in {work, committed, [f \in File |-> Gone]} :
       index' = [f \in File |-> IF f \in fs THEN from[f] ELSE index[f]]
  /\ UNCHANGED <<work, committed>>

(* a file is reverted (git restore), or what is staged is committed.         *)
Revert(f) ==
  /\ Change
  /\ f \in Unstaged(Now)
  /\ work' = [work EXCEPT ![f] = index[f]]
  /\ UNCHANGED <<index, committed>>

Commit ==
  /\ Change
  /\ Staged(Now) # {}
  /\ committed' = index
  /\ UNCHANGED <<work, index>>

Tick ==
  /\ second < MaxSecond
  /\ second' = second + 1
  /\ UNCHANGED <<tree, notes, writing>>

-----------------------------------------------------------------------------
(* write_change_note: the file name is made of the second and the slug of    *)
(* the summary ...                                                           *)
NameNote(w) ==
  /\ writing[w].pc = "idle"
  /\ \E s \in Slug :
       writing' = [writing EXCEPT ![w] = [pc |-> "diff", name |-> <<second, s>>,
                                          note |-> None]]
  /\ UNCHANGED <<tree, second, notes>>

(* ... then diff_name_status lists every changed path ... *)
DiffNote(w) ==
  /\ writing[w].pc = "diff"
  /\ writing' = [writing EXCEPT ![w].pc = "open",
                                ![w].note = [paths |-> Changed, taken |-> Now]]
  /\ UNCHANGED <<tree, second, notes>>

(* ... and write_text empties the file of that name, then writes it.         *)
OpenNote(w) ==
  /\ writing[w].pc = "open"
  /\ notes' = [notes EXCEPT ![writing[w].name] = Blank]
  /\ writing' = [writing EXCEPT ![w].pc = "write"]
  /\ UNCHANGED <<tree, second>>

WriteNote(w) ==
  /\ writing[w].pc = "write"
  /\ LET written == {writing[w].note}
         left == IF notes[writing[w].name] = Blank THEN written ELSE written \cup {Blank}
     IN \E n \in left : notes' = [notes EXCEPT ![writing[w].name] = n]
  /\ writing' = [writing EXCEPT ![w] = NoWriting]
  /\ UNCHANGED <<tree, second>>

(* A run of change-note is killed; what it wrote stays. *)
KillNote(w) ==
  /\ writing[w].pc # "idle"
  /\ writing' = [writing EXCEPT ![w] = NoWriting]
  /\ UNCHANGED <<tree, second, notes>>

-----------------------------------------------------------------------------
Readable == {n \in Name : notes[n] \notin {None, Blank}}

(* The order of the file names, newest first.                                *)
Newer(m, n) == m[1] > n[1] \/ (m[1] = n[1] /\ m[2] > n[2])

Newest(ns) == {n \in ns : \A m \in ns : ~Newer(m, n)}
Oldest(ns) == {n \in ns : \A m \in ns : ~Newer(n, m)}

(* The last note, if it was taken of tree, index and HEAD as they are        *)
(* (history).                                                                *)
Current == {n \in Newest(Readable) : notes[n].taken = Now}

(* The files that are not what HEAD says (history). *)
Altered == {f \in File : work[f] # committed[f]}

Reading == UNCHANGED <<tree, second, notes, writing, history>>

(* build_review_pack: snapshot_repo runs git status, then git commands no    *)
(* blocker depends on; then the sources are audited, then the notes loaded.  *)
(* gither gate does the same, without the notes.                             *)
ReadStatus ==
  /\ review.pc \in {"idle", "done"}
  /\ review' = [NoReview EXCEPT !.pc = "sources", !.changed = Changed]
  /\ changedThroughout' = Altered
  /\ movedAway' = Renamed(committed, index)
  /\ currentThroughout' = Current
  /\ defects' = [throughout |-> Defective, ever |-> Defective # {}]
  /\ UNCHANGED <<tree, second, notes, writing>>

(* The audit goes on to the next source, and from the last one to the notes. *)
AuditFrom(r) == review' = [r EXCEPT !.pc = IF r.sources = {} THEN "list" ELSE "audit"]

(* audit_python lists the sources there are ...                              *)
ListSources ==
  /\ review.pc = "sources"
  /\ AuditFrom([review EXCEPT !.sources = {f \in Python : work[f] # Gone}])
  /\ Reading

(* ... then reads them one by one (the order is of no account); one that is  *)
(* gone by then raises.                                                      *)
AuditSource ==
  /\ review.pc = "audit"
  /\ \E f \in review.sources :
       IF work[f] = Gone THEN review' = NoReview
       ELSE AuditFrom([review EXCEPT !.sources = @ \ {f},
                                     !.audit = @ /\ Passes(Code[work[f]])])
  /\ Reading

(* Variant: any note will do. *)
CoversByAny(noted, changed) == changed \ InternalPath = {} \/ noted # {}

(* _change_notes_cover_dirty_state: every changed path that is not under     *)
(* .gither/ is listed by a loaded note, whichever.                           *)
Covers(noted, changed) == changed \ InternalPath \subseteq noted

(* The review goes on to the next note, or, when no note is left or enough   *)
(* of them are loaded, is done.                                              *)
LoadFrom(r) ==
  review' = IF r.todo = {} \/ r.loaded >= Limit
            THEN [r EXCEPT !.pc = "done", !.ok = r.audit /\ Covers(r.noted, r.changed)]
            ELSE [r EXCEPT !.pc = "load"]

(* load_change_note_summaries: the names of the notes there are ...          *)
ListNotes ==
  /\ review.pc = "list"
  /\ LoadFrom([review EXCEPT !.todo = {n \in Name : notes[n] # None}])
  /\ Reading

(* Variant: the notes are loaded oldest first. *)
OldestNext(ns) == Oldest(ns)

NextNote(ns) == Newest(ns)

(* ... then one note after the other, skipping what does not parse.          *)
LoadNote ==
  /\ review.pc = "load"
  /\ \E n \in NextNote(review.todo) :
       LET rest == [review EXCEPT !.todo = @ \ {n}] IN
       LoadFrom(IF n \in Readable
                THEN [rest EXCEPT !.loaded = @ + 1, !.noted = @ \cup notes[n].paths]
                ELSE rest)
  /\ Reading

(* Whatever happens around a review, its histories follow.                   *)
Around(action) ==
  /\ action
  /\ UNCHANGED review
  /\ IF review.pc \in {"idle", "done"} THEN UNCHANGED history
     ELSE /\ changedThroughout' = changedThroughout \cap Altered'
          /\ UNCHANGED movedAway
          /\ currentThroughout' = currentThroughout \cap Current'
          /\ defects' = [throughout |-> defects.throughout \cap Defective',
                         ever |-> defects.ever \/ Defective' # {}]

Next == \/ \E f \in File : Around(Edit(f)) \/ Around(Revert(f))
        \/ Around(Stage) \/ Around(Commit) \/ Around(Tick)
        \/ \E w \in Writer : \/ Around(NameNote(w)) \/ Around(DiffNote(w))
                             \/ Around(OpenNote(w)) \/ Around(WriteNote(w))
                             \/ Around(KillNote(w))
        \/ ReadStatus \/ ListSources \/ AuditSource \/ ListNotes \/ LoadNote

Spec == Init /\ [][Next]_vars
-----------------------------------------------------------------------------
(* Properties *)

(* A review that is ready leaves no file out that differed from HEAD during  *)
(* all of it, whatever was edited, staged, committed or written meanwhile: a *)
(* note the review has read lists the file, or a directory above it that was *)
(* untracked, or git showed it as the old name of a rename, which lists the  *)
(* new name only.                                                            *)
ReadyMeansNoted ==
  review.pc = "done" /\ review.ok =>
    \A f \in changedThroughout \ (Internal \cup movedAway) : Lists(review.noted, f)

(* The audit can be relied on, by the gate and by the review: no source that *)
(* was defective from the first git command on passes unseen, however the    *)
(* others are edited, deleted and made anew, and what blocks a review was    *)
(* a defect at some moment of it.                                            *)
AuditSound ==
  review.pc \in {"list", "load", "done"} =>
    IF review.audit THEN defects.throughout = {} ELSE defects.ever

(* A note unblocks the review: when the last note was taken of the tree, the *)
(* index and HEAD as they were during the whole review, the review finds     *)
(* every change noted, however many notes came before it or were left half   *)
(* written after it.                                                         *)
NoteUnblocks ==
  review.pc = "done" /\ review.audit /\ currentThroughout # {} => review.ok

=============================================================================
