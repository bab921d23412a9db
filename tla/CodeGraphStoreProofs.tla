------------------------ MODULE CodeGraphStoreProofs ------------------------
(***************************************************************************)
(* Proofs about CodeGraphStore, for every finite set of files and names,   *)
(* every set of contents and every bound.                                  *)
(***************************************************************************)
EXTENDS CodeGraphStore, FiniteSetTheorems, TLAPS

(* A run that reads has called stat on a file. *)
StatOK == pc = "read" => stat.file \in File

(* Wherever a snapshot is kept, its analyses are those of their digests.     *)
AnalysesOK == AnalysisOfDigest(previous) /\ AnalysisOfDigest(text) /\ ReuseSound

Unmarked(s) == \A f \in Present(s) : s[f].resolved = {}

MarksMeanDefined(s) ==
  \A f \in Present(s) : s[f].resolved \subseteq s[f].calls \cap Defined(s)

(* No mark gets into the file, hence none into a later run: to_json renders  *)
(* before it resolves.                                                       *)
MarksOK == /\ Unmarked(previous) /\ Unmarked(text)
           /\ disk \notin {None, Blank} => Unmarked(disk)
           /\ pc \in {"scan", "read"} => Unmarked(snap)
           /\ MarksMeanDefined(snap)

IInv == TypeOK /\ StatOK /\ AnalysesOK /\ MarksOK

-----------------------------------------------------------------------------
(* The size of a content is a number. *)
LEMMA SizeType == \A c \in Contents : Size(c) \in Nat
<1> TAKE c \in Contents
<1>1. c.defs \in SUBSET Name /\ c.calls \in SUBSET Name
  BY ContentAssumption DEF Content
<1>2. IsFiniteSet(c.defs) /\ IsFiniteSet(c.calls)
  BY <1>1, FiniteAssumption, FS_Subset
<1>3. Cardinality(c.defs) \in Nat /\ Cardinality(c.calls) \in Nat
  BY <1>2, FS_CardinalityType
<1> QED BY <1>3 DEF Size

(* The snapshot of an empty repository has nothing wrong in it. *)
LEMMA NoFilesOK == /\ NoFiles \in Snapshot
                   /\ AnalysisOfDigest(NoFiles)
                   /\ Unmarked(NoFiles) /\ MarksMeanDefined(NoFiles)
BY DEF NoFiles, Snapshot, AnalysisOfDigest, Unmarked, MarksMeanDefined, Present

(* Whether a file is reused or not, what is kept of it is its analysis,      *)
(* without a mark.                                                           *)
LEMMA FingerprintedOK ==
  ASSUME NEW old \in FileSnapshot \cup {None}, NEW c \in Contents,
         NEW st \in [file : File \cup {None}, mtime : 0..MaxTime, size : Nat],
         old # None => /\ old.defs = old.content.defs
                       /\ old.calls = old.content.calls
                       /\ old.resolved = {}
  PROVE  LET new == Fingerprinted(old, st, c) IN
         /\ new \in FileSnapshot /\ new # None
         /\ new.defs = new.content.defs /\ new.calls = new.content.calls
         /\ new.resolved = {}
<1> DEFINE new == Fingerprinted(old, st, c)
<1>1. c.defs \in SUBSET Name /\ c.calls \in SUBSET Name
  BY ContentAssumption DEF Content
<1>2. new = [mtime |-> st.mtime, size |-> st.size, content |-> c,
             defs |-> c.defs, calls |-> c.calls, resolved |-> {}]
  BY DEF Fingerprinted, Analysis, Reusable
<1>3. new \in FileSnapshot
  BY <1>1, <1>2 DEF FileSnapshot
<1>4. new # None
  BY <1>3, NoneAssumption
<1> QED BY <1>2, <1>3, <1>4

(* resolve_calls adds marks, of calls whose definition is there, and changes *)
(* nothing else.                                                             *)
LEMMA ResolveOK ==
  ASSUME NEW s \in Snapshot
  PROVE  LET r == Resolve(s) IN
         /\ r \in Snapshot
         /\ Present(r) = Present(s) /\ Defined(r) = Defined(s)
         /\ \A f \in Present(s) :
              /\ r[f].content = s[f].content
              /\ r[f].defs = s[f].defs /\ r[f].calls = s[f].calls
              /\ r[f].resolved = s[f].resolved \cup (s[f].calls \cap Defined(s))
<1> DEFINE r == Resolve(s)
           marked(f) == s[f].resolved \cup (s[f].calls \cap Defined(s))
<1>1. ASSUME NEW f \in Present(s)
      PROVE  /\ s[f] \in FileSnapshot /\ r[f] \in FileSnapshot /\ r[f] # None
             /\ r[f].content = s[f].content
             /\ r[f].defs = s[f].defs /\ r[f].calls = s[f].calls
             /\ r[f].resolved = marked(f)
  <2>1. f \in File /\ s[f] \in FileSnapshot /\ s[f] # None
    BY DEF Present, Snapshot
  <2>2. r[f] = [s[f] EXCEPT !.resolved = marked(f)]
    BY <2>1 DEF Resolve
  <2>3. marked(f) \in SUBSET Name
    BY <2>1 DEF FileSnapshot
  <2> HIDE DEF marked, r
  <2>4. r[f] \in FileSnapshot
    BY <2>1, <2>2, <2>3 DEF FileSnapshot
  <2> QED BY <2>1, <2>2, <2>4, NoneAssumption DEF FileSnapshot
<1>2. \A f \in File : s[f] = None => r[f] = None
  BY DEF Resolve
<1>3. r \in Snapshot
  <2>1. \A f \in File : r[f] \in FileSnapshot \cup {None}
    BY <1>1, <1>2 DEF Present
  <2> QED BY <2>1 DEF Resolve, Snapshot
<1>4. Present(r) = Present(s)
  BY <1>1, <1>2 DEF Present
<1>5. Defined(r) = Defined(s)
  BY <1>1, <1>4 DEF Defined
<1> QED BY <1>1, <1>3, <1>4, <1>5

(* Once resolved, what is marked is exactly what is called and defined.      *)
LEMMA ResolvedExactly ==
  ASSUME NEW s \in Snapshot, MarksMeanDefined(s)
  PROVE  /\ MarksMeanDefined(Resolve(s))
         /\ \A f \in Present(s) : Resolve(s)[f].resolved = s[f].calls \cap Defined(s)
BY ResolveOK DEF MarksMeanDefined

(* Resolving does not touch the analyses. *)
LEMMA ResolveKeepsAnalyses ==
  ASSUME NEW s \in Snapshot, AnalysisOfDigest(s)
  PROVE  AnalysisOfDigest(Resolve(s))
BY ResolveOK DEF AnalysisOfDigest

-----------------------------------------------------------------------------
(* Before the first run there is no snapshot file. *)
LEMMA InitIInv == Init => IInv
<1> SUFFICES ASSUME Init PROVE IInv
  OBVIOUS
<1>1. TypeOK
  BY NoFilesOK, BoundAssumption DEF Init, TypeOK, NoStat
<1> QED BY <1>1, NoFilesOK DEF Init, IInv, StatOK, AnalysesOK, ReuseSound, MarksOK

(* Edits and deletions touch no snapshot. *)
LEMMA TreePreserves ==
  ASSUME IInv, NEW f \in File, Edit(f) \/ Delete(f)
  PROVE  IInv'
<1>1. UNCHANGED <<disk, pc, locals, snap, text, printed, runs, kills>>
  BY DEF Edit, Delete
<1>2. /\ source' \in [File -> [content : Contents, mtime : 0..MaxTime] \cup {None}]
      /\ edits' \in 0..MaxEdits /\ time' \in 0..MaxTime
  <2>1. CASE Edit(f)
    <3>1. PICK c \in Contents, t \in {time, time + 1} :
            /\ t <= MaxTime /\ time' = t
            /\ source' = [source EXCEPT ![f] = [content |-> c, mtime |-> t]]
      BY <2>1 DEF Edit
    <3>2. t \in 0..MaxTime
      BY <3>1, BoundAssumption DEF IInv, TypeOK
    <3>3. edits' \in 0..MaxEdits
      BY <2>1, BoundAssumption DEF Edit, IInv, TypeOK
    <3> QED BY <3>1, <3>2, <3>3 DEF IInv, TypeOK
  <2>2. CASE Delete(f)
    <3>1. edits' \in 0..MaxEdits
      BY <2>2, BoundAssumption DEF Delete, IInv, TypeOK
    <3> QED BY <2>2, <3>1 DEF Delete, IInv, TypeOK
  <2> QED BY <2>1, <2>2
<1>3. TypeOK'
  BY <1>1, <1>2 DEF IInv, TypeOK, locals
<1> QED BY <1>1, <1>3 DEF IInv, StatOK, AnalysesOK, ReuseSound, MarksOK, AnalysisOfDigest,
                          Unmarked, MarksMeanDefined, Present, Defined, locals

(* A run starts from the snapshot file, or from nothing. *)
LEMMA BeginPreserves ==
  ASSUME IInv, Begin
  PROVE  IInv'
<1>1. /\ UNCHANGED <<tree, disk, text, printed, kills>>
      /\ snap' = NoFiles /\ stat' = NoStat /\ runs < MaxRuns /\ runs' = runs + 1
      /\ previous' = IF disk \in {None, Blank} THEN NoFiles ELSE disk
      /\ pc' \in {"scan", "failed"} /\ todo' \in SUBSET File
  BY DEF Begin
<1>2. /\ previous' \in Snapshot
      /\ AnalysisOfDigest(previous') /\ Unmarked(previous')
  BY <1>1, NoFilesOK DEF IInv, TypeOK, AnalysesOK, ReuseSound, MarksOK
<1>3. TypeOK'
  <2>1. runs' \in 0..MaxRuns
    BY <1>1, BoundAssumption DEF IInv, TypeOK
  <2>2. stat' \in [file : File \cup {None}, mtime : 0..MaxTime, size : Nat]
    BY <1>1, BoundAssumption DEF NoStat
  <2> QED BY <1>1, <1>2, <2>1, <2>2, NoFilesOK DEF IInv, TypeOK, tree
<1>4. AnalysesOK' /\ MarksOK'
  BY <1>1, <1>2, NoFilesOK DEF IInv, AnalysesOK, ReuseSound, MarksOK
<1> QED BY <1>1, <1>3, <1>4 DEF IInv, StatOK

(* Wherever a run fails or is killed, its snapshot object is gone. *)
LEMMA FailPreserves ==
  ASSUME IInv, Fail, UNCHANGED <<tree, disk, locals, text, printed, runs>>,
         kills' \in 0..MaxKills
  PROVE  IInv'
<1>1. pc' = "failed" /\ snap' = NoFiles
  BY DEF Fail
<1>2. TypeOK'
  BY <1>1, NoFilesOK DEF IInv, TypeOK, tree, locals
<1>3. AnalysesOK' /\ MarksOK'
  BY <1>1, NoFilesOK DEF IInv, AnalysesOK, ReuseSound, MarksOK, locals
<1> QED BY <1>1, <1>2, <1>3 DEF IInv, StatOK

(* stat takes nothing into the snapshot. *)
LEMMA StatPreserves ==
  ASSUME IInv, Stat
  PROVE  IInv'
<1>1. PICK f \in todo :
        IF source[f] = None
        THEN Fail /\ UNCHANGED stat
        ELSE /\ pc' = "read"
             /\ stat' = [file |-> f, mtime |-> source[f].mtime,
                         size |-> Size(source[f].content)]
             /\ UNCHANGED snap
  BY DEF Stat
<1>2. UNCHANGED <<tree, disk, previous, todo, text, printed, runs, kills>> /\ pc = "scan"
  BY DEF Stat
<1>3. f \in File
  BY DEF IInv, TypeOK
<1>4. CASE source[f] = None
  BY <1>1, <1>2, <1>4, FailPreserves DEF IInv, TypeOK, locals
<1>5. CASE source[f] # None
  <2>1. source[f] \in [content : Contents, mtime : 0..MaxTime]
    BY <1>3, <1>5 DEF IInv, TypeOK
  <2>2. /\ stat' \in [file : File \cup {None}, mtime : 0..MaxTime, size : Nat]
        /\ stat'.file \in File
    BY <1>1, <1>3, <1>5, <2>1, SizeType
  <2>3. TypeOK'
    BY <1>1, <1>2, <1>5, <2>2 DEF IInv, TypeOK, tree
  <2> QED BY <1>1, <1>2, <1>5, <2>2, <2>3 DEF IInv, StatOK, AnalysesOK, ReuseSound, MarksOK
<1> QED BY <1>4, <1>5

(* A file read: reused or analysed, what is kept is the analysis of what was *)
(* read, whatever stat said before.                                          *)
LEMMA ReadPreserves ==
  ASSUME IInv, Read
  PROVE  IInv'
<1> DEFINE f == stat.file
           new == Fingerprinted(previous[f], stat, source[f].content)
<1>1. /\ UNCHANGED <<tree, disk, previous, stat, text, printed, runs, kills>>
      /\ pc = "read" /\ f \in File
  BY DEF Read, IInv, StatOK
<1>2. CASE source[f] = None
  BY <1>1, <1>2, FailPreserves DEF Read, IInv, TypeOK, locals
<1>3. CASE source[f] # None
  <2>1. /\ pc' = "scan" /\ todo' = todo \ {f} /\ snap' = [snap EXCEPT ![f] = new]
    BY <1>3 DEF Read
  <2>2. source[f].content \in Contents
    BY <1>1, <1>3 DEF IInv, TypeOK
  <2>3. /\ previous[f] \in FileSnapshot \cup {None}
        /\ previous[f] # None => /\ previous[f].defs = previous[f].content.defs
                                 /\ previous[f].calls = previous[f].content.calls
                                 /\ previous[f].resolved = {}
    BY <1>1 DEF IInv, TypeOK, Snapshot, AnalysesOK, AnalysisOfDigest, MarksOK, Unmarked,
                Present
  <2>4. stat \in [file : File \cup {None}, mtime : 0..MaxTime, size : Nat]
    BY DEF IInv, TypeOK
  <2>5. /\ new \in FileSnapshot /\ new # None
        /\ new.defs = new.content.defs /\ new.calls = new.content.calls
        /\ new.resolved = {}
    BY <2>2, <2>3, <2>4, FingerprintedOK
  <2> HIDE DEF new
  <2>6. /\ snap' \in Snapshot
        /\ \A g \in File : snap'[g] = IF g = f THEN new ELSE snap[g]
    BY <1>1, <2>1, <2>5 DEF IInv, TypeOK, Snapshot
  <2>7. AnalysisOfDigest(snap') /\ Unmarked(snap')
    BY <1>1, <2>5, <2>6
       DEF IInv, AnalysesOK, ReuseSound, AnalysisOfDigest, MarksOK, Unmarked, Present
  <2>8. MarksMeanDefined(snap')
    BY <2>7 DEF Unmarked, MarksMeanDefined
  <2>9. TypeOK'
    BY <1>1, <2>1, <2>6 DEF IInv, TypeOK, tree
  <2> QED BY <1>1, <2>1, <2>7, <2>8, <2>9 DEF IInv, StatOK, AnalysesOK, ReuseSound, MarksOK
<1> QED BY <1>2, <1>3

(* The files are rendered without marks, and the object is resolved after.   *)
LEMMA SerializePreserves ==
  ASSUME IInv, Serialize
  PROVE  IInv'
<1>1. /\ UNCHANGED <<tree, disk, locals, printed, runs, kills>>
      /\ pc = "scan" /\ pc' = "truncate" /\ text' = snap /\ snap' = Resolve(snap)
  BY DEF Serialize, Rendered
<1>2. snap \in Snapshot /\ AnalysisOfDigest(snap) /\ Unmarked(snap) /\ MarksMeanDefined(snap)
  BY <1>1 DEF IInv, TypeOK, AnalysesOK, ReuseSound, MarksOK
<1>3. snap' \in Snapshot /\ AnalysisOfDigest(snap') /\ MarksMeanDefined(snap')
  BY <1>1, <1>2, ResolveOK, ResolveKeepsAnalyses, ResolvedExactly
<1>4. TypeOK'
  BY <1>1, <1>2, <1>3 DEF IInv, TypeOK, tree, locals
<1> QED BY <1>1, <1>2, <1>3, <1>4
        DEF IInv, StatOK, AnalysesOK, ReuseSound, MarksOK, locals

(* The file is emptied, then holds what was rendered. *)
LEMMA SavePreserves ==
  ASSUME IInv, Truncate \/ Write
  PROVE  IInv'
<1>1. /\ UNCHANGED <<tree, locals, snap, text, printed, runs, kills>>
      /\ pc' \in {"write", "print"}
      /\ disk' = Blank \/ disk' = text
  BY DEF Truncate, Write
<1>2. TypeOK'
  BY <1>1 DEF IInv, TypeOK, tree, locals
<1> QED BY <1>1, <1>2 DEF IInv, StatOK, AnalysesOK, ReuseSound, MarksOK, locals

(* The figure is the number of marks, a finite number. *)
LEMMA PrintPreserves ==
  ASSUME IInv, PrintReport
  PROVE  IInv'
<1>1. /\ UNCHANGED <<tree, disk, locals, text, runs, kills>>
      /\ pc' = "idle" /\ snap' = Resolve(snap)
      /\ printed' = Cardinality(ResolvedCalls(snap'))
  BY DEF PrintReport
<1>2. snap' \in Snapshot /\ AnalysisOfDigest(snap') /\ MarksMeanDefined(snap')
  BY <1>1, ResolveOK, ResolveKeepsAnalyses, ResolvedExactly
     DEF IInv, TypeOK, AnalysesOK, ReuseSound, MarksOK
<1>3. printed' \in Nat
  <2>1. IsFiniteSet(File \X Name)
    BY FiniteAssumption, FS_Product
  <2>2. ResolvedCalls(snap') \subseteq File \X Name
    BY DEF ResolvedCalls
  <2> QED BY <1>1, <2>1, <2>2, FS_Subset, FS_CardinalityType
<1>4. TypeOK'
  BY <1>1, <1>2, <1>3 DEF IInv, TypeOK, tree, locals
<1> QED BY <1>1, <1>2, <1>4 DEF IInv, StatOK, AnalysesOK, ReuseSound, MarksOK, locals

(* Every step preserves the inductive invariant. *)
LEMMA NextIInv == IInv /\ [Next]_vars => IInv'
<1> SUFFICES ASSUME IInv, [Next]_vars PROVE IInv'
  OBVIOUS
<1>1. CASE Kill
  <2>1. kills' \in 0..MaxKills
    BY <1>1, BoundAssumption DEF Kill, IInv, TypeOK
  <2> QED BY <1>1, <2>1, FailPreserves DEF Kill, Fail
<1>2. CASE UNCHANGED vars
  BY <1>2 DEF vars, tree, locals, IInv, TypeOK, StatOK, AnalysesOK, ReuseSound,
              MarksOK, AnalysisOfDigest, Unmarked, MarksMeanDefined, Present, Defined
<1> QED BY <1>1, <1>2, TreePreserves, BeginPreserves, StatPreserves, ReadPreserves,
        SerializePreserves, SavePreserves, PrintPreserves DEF Next

(* The inductive invariant holds of every behaviour. *)
THEOREM Invariance == Spec => []IInv
BY InitIInv, NextIInv, PTL DEF Spec

(* Type correctness. *)
THEOREM TypeCorrect == Spec => []TypeOK
BY Invariance, PTL DEF IInv

(* The analysis kept with a digest is the analysis of that content, in the   *)
(* snapshot of a run and in the file, however the tree is edited meanwhile.  *)
THEOREM ReuseIsSound == Spec => []ReuseSound
BY Invariance, PTL DEF IInv, AnalysesOK

(* The figure a run prints counts the calls of a name the sources it read    *)
(* define, whatever earlier runs left in the file.                           *)
THEOREM FigureIsExact == Spec => PrintedExact
<1> DEFINE Exact ==
      {call \in File \X Name :
         /\ snap[call[1]] # None
         /\ call[2] \in snap[call[1]].content.calls
         /\ \E g \in Present(snap) : call[2] \in snap[g].content.defs}
<1>1. ASSUME IInv, PrintReport PROVE printed' = Cardinality(Exact)
  <2>1. snap' = Resolve(snap) /\ printed' = Cardinality(ResolvedCalls(snap'))
    BY <1>1 DEF PrintReport
  <2>2. snap \in Snapshot /\ AnalysisOfDigest(snap) /\ MarksMeanDefined(snap)
    BY <1>1 DEF IInv, TypeOK, AnalysesOK, ReuseSound, MarksOK
  <2>3. /\ Present(snap') = Present(snap)
        /\ \A f \in Present(snap) :
             snap'[f].resolved = snap[f].content.calls \cap Defined(snap)
    BY <2>1, <2>2, ResolveOK, ResolvedExactly DEF AnalysisOfDigest
  <2>4. \A n : n \in Defined(snap) <=> \E g \in Present(snap) : n \in snap[g].content.defs
    BY <2>2 DEF Defined, AnalysisOfDigest
  <2>5. ResolvedCalls(snap') = Exact
    BY <2>3, <2>4 DEF ResolvedCalls, Present
  <2> QED BY <2>1, <2>5
<1>2. IInv /\ [Next]_vars => [PrintReport => printed' = Cardinality(Exact)]_vars
  BY <1>1
<1> QED BY <1>2, Invariance, PTL DEF Spec, PrintedExact
=============================================================================
