--------------------------- MODULE CodeGraphStore ---------------------------
(***************************************************************************)
(* Incremental code-graph snapshots: build_repo_snapshot, the snapshot     *)
(* file and RepoAnalysis.resolve_calls (src/gither/codegraph), as          *)
(* "gither analyze-python" runs them while the sources are edited.         *)
(*                                                                         *)
(* The content of a source file is what the analyzer finds in it: the      *)
(* names it defines and the names it calls.  A digest is as good as the    *)
(* content.  Two contents may have the same size, and two edits the same   *)
(* modification time.                                                      *)
(***************************************************************************)
EXTENDS Naturals, FiniteSets

CONSTANTS File,       \* paths the glob matches
          Name,       \* names of functions
          Contents,   \* contents the files take
          MaxEdits, MaxTime, MaxRuns, MaxKills,  \* bounds
          None,       \* no file, no snapshot
          Blank       \* a file that was truncated and not written yet

Content == [defs : SUBSET Name, calls : SUBSET Name]

ASSUME ContentAssumption == Contents \subseteq Content
ASSUME FiniteAssumption == IsFiniteSet(File) /\ IsFiniteSet(Name)
ASSUME BoundAssumption == {MaxEdits, MaxTime, MaxRuns, MaxKills} \subseteq Nat
Size(c) == Cardinality(c.defs) + Cardinality(c.calls)

(* FileSnapshot: the fingerprint of a file (time and size of its stat, digest *)
(* of what was read) and its analysis; resolved is the set of its calls that  *)
(* are marked as resolved.                                                    *)
FileSnapshot == [mtime : 0..MaxTime, size : Nat, content : Contents,
                 defs : SUBSET Name, calls : SUBSET Name, resolved : SUBSET Name]

(* RepoSnapshot.files, by path.                                              *)
Snapshot == [File -> FileSnapshot \cup {None}]
NoFiles == [f \in File |-> None]

ASSUME NoneAssumption == /\ None \notin Content \cup FileSnapshot \cup Snapshot
                         /\ Blank \notin Snapshot

VARIABLES
  source,  \* file -> its content and modification time, or None
  edits, time,
  disk,    \* the snapshot file: None, Blank or a snapshot
  pc,      \* where the run is
  previous,\* the snapshot the run reuses from
  todo,    \* the files it listed and has not read yet
  stat,    \* the file it has called stat on, and the time and size it got
  snap,    \* the snapshot object, also after the run
  text,    \* what is about to be written to the snapshot file
  printed, \* the number of resolved calls the run printed
  runs, kills

tree == <<source, edits, time>>
locals == <<previous, todo, stat>>
vars == <<tree, disk, pc, locals, snap, text, printed, runs, kills>>

NoStat == [file |-> None, mtime |-> 0, size |-> 0]

TypeOK ==
  /\ source \in [File -> [content : Contents, mtime : 0..MaxTime] \cup {None}]
  /\ edits \in 0..MaxEdits /\ time \in 0..MaxTime
  /\ disk \in Snapshot \cup {None, Blank}
  /\ pc \in {"idle", "scan", "read", "truncate", "write", "print", "failed"}
  /\ previous \in Snapshot
  /\ todo \in SUBSET File
  /\ stat \in [file : File \cup {None}, mtime : 0..MaxTime, size : Nat]
  /\ snap \in Snapshot /\ text \in Snapshot
  /\ printed \in Nat
  /\ runs \in 0..MaxRuns /\ kills \in 0..MaxKills

Init ==
  /\ source \in [File -> {[content |-> c, mtime |-> 0] : c \in Contents}]
  /\ edits = 0 /\ time = 0
  /\ disk = None
  /\ pc = "idle"
  /\ previous = NoFiles /\ todo = {} /\ stat = NoStat
  /\ snap = NoFiles /\ text = NoFiles
  /\ printed = 0
  /\ runs = 0 /\ kills = 0

-----------------------------------------------------------------------------
(* The sources are edited and deleted at any time; the clock of the file     *)
(* system may not have advanced between two edits.                           *)
Edit(f) ==
  /\ edits < MaxEdits
  /\ edits' = edits + 1
  /\ \E c \in Contents, t \in {time, time + 1} :
       /\ t <= MaxTime
       /\ time' = t
       /\ source' = [source EXCEPT ![f] = [content |-> c, mtime |-> t]]
  /\ UNCHANGED <<disk, pc, locals, snap, text, printed, runs, kills>>

Delete(f) ==
  /\ edits < MaxEdits
  /\ source[f] # None
  /\ edits' = edits + 1
  /\ source' = [source EXCEPT ![f] = None]
  /\ UNCHANGED <<time, disk, pc, locals, snap, text, printed, runs, kills>>

-----------------------------------------------------------------------------
(* handle_analyze_python loads the snapshot file if there is one (a truncated*)
(* one does not parse, and the run fails); build_repo_snapshot lists the     *)
(* files.                                                                    *)
Begin ==
  /\ pc \in {"idle", "failed"}
  /\ runs < MaxRuns
  /\ runs' = runs + 1
  /\ previous' = IF disk \in {None, Blank} THEN NoFiles ELSE disk
  /\ IF disk = Blank
     THEN pc' = "failed" /\ todo' = {}
     ELSE pc' = "scan" /\ todo' = {f \in File : source[f] # None}
  /\ snap' = NoFiles
  /\ stat' = NoStat
  /\ UNCHANGED <<tree, disk, text, printed, kills>>

(* An exception ends the command. *)
Fail == pc' = "failed" /\ snap' = NoFiles

(* path.stat(); a file that is gone by now raises.  The files are visited in *)
(* any order here.                                                           *)
Stat ==
  /\ pc = "scan"
  /\ \E f \in todo :
       IF source[f] = None
       THEN Fail /\ UNCHANGED stat
       ELSE /\ pc' = "read"
            /\ stat' = [file |-> f, mtime |-> source[f].mtime,
                        size |-> Size(source[f].content)]
            /\ UNCHANGED snap
  /\ UNCHANGED <<tree, disk, previous, todo, text, printed, runs, kills>>

(* Variant: the digest is not compared. *)
ReusableByStat(old, st, c) ==
  old # None /\ c \in Contents /\ old.mtime = st.mtime /\ old.size = st.size

(* A file is reused when time, size and digest are those of the snapshot.    *)
Reusable(old, st, c) ==
  /\ old # None
  /\ old.mtime = st.mtime
  /\ old.size = st.size
  /\ old.content = c

(* The analysis of a reused file is copied with its resolved marks; a fresh  *)
(* one has none.  The fingerprint is always the one just taken.              *)
Analysis(old, st, c) ==
  IF Reusable(old, st, c)
  THEN [defs |-> old.defs, calls |-> old.calls, resolved |-> old.resolved]
  ELSE [defs |-> c.defs, calls |-> c.calls, resolved |-> {}]

Fingerprinted(old, st, c) ==
  LET found == Analysis(old, st, c) IN
  [mtime |-> st.mtime, size |-> st.size, content |-> c,
   defs |-> found.defs, calls |-> found.calls, resolved |-> found.resolved]

(* path.read_bytes(), then reuse or analysis. *)
Read ==
  /\ pc = "read"
  /\ LET f == stat.file IN
     IF source[f] = None
     THEN Fail /\ UNCHANGED todo
     ELSE /\ pc' = "scan"
          /\ todo' = todo \ {f}
          /\ snap' = [snap EXCEPT ![f] =
                        Fingerprinted(previous[f], stat, source[f].content)]
  /\ UNCHANGED <<tree, disk, previous, stat, text, printed, runs, kills>>

Present(s) == {f \in File : s[f] # None}
Defined(s) == UNION {s[f].defs : f \in Present(s)}

(* resolve_calls marks the calls of a name that is defined; it clears none.  *)
Resolve(s) ==
  [f \in File |-> IF s[f] = None THEN None
                  ELSE [s[f] EXCEPT !.resolved = @ \cup (s[f].calls \cap Defined(s))]]

ResolvedCalls(s) ==
  {call \in File \X Name : s[call[1]] # None /\ call[2] \in s[call[1]].resolved}

(* Variant: the statistics are computed before the files are rendered. *)
RenderedResolved(s) == Resolve(s)

(* save_repo_snapshot: to_json renders the files as they are, and computes   *)
(* the statistics, which resolves the calls of the object in place, after    *)
(* that; then the file is truncated, then written.                           *)
Rendered(s) == s

Serialize ==
  /\ pc = "scan" /\ todo = {}
  /\ text' = Rendered(snap)
  /\ snap' = Resolve(snap)
  /\ pc' = "truncate"
  /\ UNCHANGED <<tree, disk, locals, printed, runs, kills>>

Truncate ==
  /\ pc = "truncate"
  /\ disk' = Blank
  /\ pc' = "write"
  /\ UNCHANGED <<tree, locals, snap, text, printed, runs, kills>>

Write ==
  /\ pc = "write"
  /\ disk' = text
  /\ pc' = "print"
  /\ UNCHANGED <<tree, locals, snap, text, printed, runs, kills>>

(* The statistics are computed once more and printed. *)
PrintReport ==
  /\ pc = "print"
  /\ snap' = Resolve(snap)
  /\ printed' = Cardinality(ResolvedCalls(snap'))
  /\ pc' = "idle"
  /\ UNCHANGED <<tree, disk, locals, text, runs, kills>>

Kill ==
  /\ pc \notin {"idle", "failed"}
  /\ kills < MaxKills
  /\ kills' = kills + 1
  /\ pc' = "failed"
  /\ snap' = NoFiles
  /\ UNCHANGED <<tree, disk, locals, text, printed, runs>>

Next == \/ \E f \in File : Edit(f) \/ Delete(f)
        \/ Begin \/ Stat \/ Read \/ Serialize \/ Truncate \/ Write \/ PrintReport \/ Kill

Spec == Init /\ [][Next]_vars
-----------------------------------------------------------------------------
(* Properties *)

(* Whatever is reused, the analysis kept with a digest is the analysis of    *)
(* the content of that digest: an edit within the resolution of the file     *)
(* clock, of the same size, or between stat and read, is never missed.       *)
AnalysisOfDigest(s) ==
  \A f \in Present(s) : s[f].defs = s[f].content.defs /\ s[f].calls = s[f].content.calls

ReuseSound == /\ AnalysisOfDigest(snap)
              /\ disk \notin {None, Blank} => AnalysisOfDigest(disk)

(* What a run prints is the number of calls of a name the sources it read    *)
(* define, whatever earlier runs found and wherever they were killed.        *)
PrintedExact ==
  [][ PrintReport => printed' =
        Cardinality({call \in File \X Name :
          /\ snap[call[1]] # None
          /\ call[2] \in snap[call[1]].content.calls
          /\ \E g \in Present(snap) : call[2] \in snap[g].content.defs}) ]_vars

=============================================================================
