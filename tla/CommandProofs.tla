---------------------------- MODULE CommandProofs ----------------------------
(***************************************************************************)
(* Proofs about the commands.  First NodeIdentity, for every set of        *)
(* processes, commands and strangers, and every bound, when the user keeps *)
(* commands that create a key apart from the others (Serial); then the     *)
(* sessions of Tools: discover, route and graph for every tree, catalogue  *)
(* and request, enrichment-score for every export, and Node IDs.           *)
(***************************************************************************)
EXTENDS NodeIdentity, Tools, OrderingProofs

Making == {"generate", "truncate_key", "write_key"}
Using == {"use", "truncate", "write"}
Ended == {"done", "raised"}

(* What a command in state r relies on: the key it uses is the one on disk,  *)
(* a key is only made when there is none or the user asks for another.       *)
NodeFits(r) ==
  /\ r.pc \in {"truncate_key", "write_key"} => r.node \in Key
  /\ r.pc \in Using => key \in Key /\ r.node = key
  /\ r.pc = "load" => key # Absent
  /\ r.pc \in {"generate", "truncate_key"} /\ r.command # "peer --new" => key = Absent
  /\ r.pc = "write_key" => key = Blank

(* The document it is about to write is signed by no other key than its own, *)
(* and verifies when there are no delegates on other hosts.                  *)
DocFits(r) ==
  r.command = "rad-id --name" /\ r.pc \in {"truncate", "write"} =>
    /\ r.doc \in SignedDoc /\ r.doc.sigs \subseteq {r.node}
    /\ r.doc.doc.delegates \subseteq Key => Verified(r.doc)

(* A command that makes a key, or that runs before there is one, is alone.   *)
Exclusive ==
  \A p, q \in Process :
    p # q /\ ~Idle(p) /\ ~Idle(q) =>
      key \in Key /\ run[p].pc \notin Making /\ run[p].command # "peer --new"

RunsFit == \A p \in Process : NodeFits(run[p]) /\ DocFits(run[p])

IInv == /\ TypeOK
        /\ Exclusive
        /\ RunsFit
        /\ KeyHeld
        /\ reported \subseteq {key} \cup retired

(* Others are no obstacle to p being in state r. *)
Compatible(p, r) ==
  \/ r.pc \in Ended
  \/ \A q \in Process \ {p} : Idle(q)
  \/ /\ key \in Key /\ r.pc \notin Making /\ r.command # "peer --new"
     /\ \A q \in Process \ {p} :
          Idle(q) \/ (run[q].pc \notin Making /\ run[q].command # "peer --new")

-----------------------------------------------------------------------------
(* No mark of a missing or torn file is a key or a document. *)
LEMMA Marks == /\ Absent \notin Key /\ Blank \notin Key /\ Absent # Blank
               /\ None \notin Key
               /\ \A d \in SignedDoc : d \notin Unreadable
<1>1. Absent # Blank
  <2> SUFFICES ASSUME Absent = Blank PROVE FALSE
    OBVIOUS
  <2>1. {Absent, Blank, Garbled} = {Blank, Garbled}
    OBVIOUS
  <2>2. IsFiniteSet({Blank}) /\ Cardinality({Blank}) = 1
    BY FS_Singleton
  <2>3. {Blank, Garbled} = {Blank} \cup {Garbled}
    OBVIOUS
  <2>4. Cardinality({Blank} \cup {Garbled}) \in {1, 2}
    BY <2>2, FS_AddElement
  <2> QED BY <2>1, <2>3, <2>4, FileAssumption
<1> QED BY <1>1, FileAssumption, KeyAssumption DEF Key, Unreadable

(* A step of one command that leaves the key alone. *)
LEMMA MovePreserves ==
  ASSUME IInv, NEW p \in Process, NEW r \in Run,
         run' = [run EXCEPT ![p] = r],
         key' = key,
         NodeFits(r), DocFits(r), Compatible(p, r)
  PROVE  run' \in [Process -> Run] /\ Exclusive' /\ RunsFit'
<1>1. /\ run' \in [Process -> Run]
      /\ \A q \in Process : run'[q] = IF q = p THEN r ELSE run[q]
  BY DEF IInv, TypeOK
<1>2. RunsFit'
  BY <1>1 DEF IInv, RunsFit, NodeFits, DocFits, Verified
<1>3. Exclusive'
  BY <1>1 DEF IInv, Exclusive, Compatible, Idle, Ended
<1> QED BY <1>1, <1>2, <1>3

(* What Goto does to the record of a command. *)
LEMMA GotoRecord ==
  ASSUME TypeOK, NEW p \in Process, NEW x, Goto(p, x)
  PROVE  run' = [run EXCEPT ![p] = [command |-> run[p].command, pc |-> x,
                                    node |-> run[p].node, doc |-> run[p].doc]]
<1>1. run[p] \in Run
  BY DEF TypeOK
<1>2. [run[p] EXCEPT !.pc = x] = [command |-> run[p].command, pc |-> x,
                                  node |-> run[p].node, doc |-> run[p].doc]
  BY <1>1 DEF Run
<1>3. run' = [run EXCEPT ![p] = [run[p] EXCEPT !.pc = x]]
  BY DEF Goto
<1> QED BY <1>2, <1>3

(* Likewise when a command moves and gets its node. *)
LEMMA NodeRecord ==
  ASSUME TypeOK, NEW p \in Process, NEW x, NEW n,
         run' = [run EXCEPT ![p].pc = x, ![p].node = n]
  PROVE  run' = [run EXCEPT ![p] = [command |-> run[p].command, pc |-> x, node |-> n,
                                    doc |-> run[p].doc]]
<1> DEFINE moved == [run EXCEPT ![p].pc = x]
<1>1. run[p] \in Run /\ p \in DOMAIN run
  BY DEF TypeOK
<1>2. moved[p] = [run[p] EXCEPT !.pc = x]
  BY <1>1
<1>3. moved[p] = [command |-> run[p].command, pc |-> x, node |-> run[p].node,
                  doc |-> run[p].doc]
  BY <1>1, <1>2 DEF Run
<1>4. [moved[p] EXCEPT !.node = n] = [command |-> run[p].command, pc |-> x, node |-> n,
                                      doc |-> run[p].doc]
  BY <1>3
<1>5. run' = [run EXCEPT ![p] = [moved[p] EXCEPT !.node = n]]
  BY <1>1
<1> QED BY <1>4, <1>5

(* Likewise when a command moves and gets its document. *)
LEMMA DocRecord ==
  ASSUME TypeOK, NEW p \in Process, NEW x, NEW n,
         run' = [run EXCEPT ![p].pc = x, ![p].doc = n]
  PROVE  run' = [run EXCEPT ![p] = [command |-> run[p].command, pc |-> x,
                                    node |-> run[p].node, doc |-> n]]
<1> DEFINE moved == [run EXCEPT ![p].pc = x]
<1>1. run[p] \in Run /\ p \in DOMAIN run
  BY DEF TypeOK
<1>2. moved[p] = [run[p] EXCEPT !.pc = x]
  BY <1>1
<1>3. moved[p] = [command |-> run[p].command, pc |-> x, node |-> run[p].node,
                  doc |-> run[p].doc]
  BY <1>1, <1>2 DEF Run
<1>4. [moved[p] EXCEPT !.doc = n] = [command |-> run[p].command, pc |-> x,
                                     node |-> run[p].node, doc |-> n]
  BY <1>3
<1>5. run' = [run EXCEPT ![p] = [moved[p] EXCEPT !.doc = n]]
  BY <1>1
<1> QED BY <1>4, <1>5

(* A busy command stays compatible with the others while it makes no key. *)
LEMMA BusyCompatible ==
  ASSUME IInv, NEW p \in Process, ~Idle(p), NEW r, r.command = run[p].command,
         r.pc \notin Making
  PROVE  Compatible(p, r)
BY DEF IInv, Exclusive, Compatible

(* Of two commands at work neither makes a key, and there is one. *)
LEMMA MakingAlone ==
  ASSUME IInv, NEW p \in Process, ~Idle(p),
         run[p].pc \in Making \/ run[p].command = "peer --new" \/ key \notin Key
  PROVE  \A q \in Process \ {p} : Idle(q)
BY DEF IInv, Exclusive

(* A step that touches no file and reports nothing. *)
LEMMA QuietPreserves ==
  ASSUME IInv, NEW p \in Process, NEW r \in Run,
         run' = [run EXCEPT ![p] = r],
         UNCHANGED <<key, rad, sigrefs, reported, retired>>,
         made' \in 0..MaxKeys, runs' \in 0..MaxRuns, kills' \in 0..MaxKills,
         NodeFits(r), DocFits(r), Compatible(p, r)
  PROVE  IInv'
<1>1. run' \in [Process -> Run] /\ Exclusive' /\ RunsFit'
  BY MovePreserves
<1>2. TypeOK'
  BY <1>1 DEF IInv, TypeOK
<1>3. KeyHeld' /\ (reported \subseteq {key} \cup retired)'
  BY DEF IInv, KeyHeld, Verified
<1> QED BY <1>1, <1>2, <1>3 DEF IInv

(* A step that, for p, only changes where it is, to a place that asks nothing *)
(* new of it, and leaves the key alone.                                      *)
LEMMA GotoFits ==
  ASSUME IInv, NEW p \in Process, ~Idle(p),
         NEW x \in {"done", "raised", "check", "use", "truncate", "write"}, Goto(p, x),
         x \in Using => run[p].pc \in Using,
         x \in {"truncate", "write"} /\ run[p].command = "rad-id --name"
           => run[p].pc \in {"truncate", "write"},
         key' = key
  PROVE  run' \in [Process -> Run] /\ Exclusive' /\ RunsFit'
<1> DEFINE r == [command |-> run[p].command, pc |-> x, node |-> run[p].node,
                 doc |-> run[p].doc]
<1>1. run' = [run EXCEPT ![p] = r]
  BY GotoRecord DEF IInv
<1>2. r \in Run
  BY DEF IInv, TypeOK, Run
<1>3. NodeFits(r) /\ DocFits(r)
  BY DEF NodeFits, DocFits, Using, IInv, RunsFit
<1>4. Compatible(p, r)
  <2>1. r.command = run[p].command /\ r.pc \notin Making
    BY DEF Making
  <2> HIDE DEF r
  <2> QED BY <2>1, BusyCompatible
<1> HIDE DEF r
<1> QED BY <1>1, <1>2, <1>3, <1>4, MovePreserves

(* Such a step that touches no file either. *)
LEMMA GotoPreserves ==
  ASSUME IInv, NEW p \in Process, run' \in [Process -> Run], Exclusive', RunsFit',
         UNCHANGED <<key, rad, sigrefs, made, runs, kills, retired>>,
         reported' \subseteq reported \cup ({key} \cap Key)
  PROVE  IInv'
<1>1. TypeOK'
  BY DEF IInv, TypeOK
<1>2. KeyHeld' /\ (reported \subseteq {key} \cup retired)'
  BY DEF IInv, KeyHeld, Verified
<1> QED BY <1>1, <1>2 DEF IInv

-----------------------------------------------------------------------------
(* No command, no key, no file. *)
LEMMA InitIInv == Init => IInv
<1> SUFFICES ASSUME Init PROVE IInv
  OBVIOUS
<1>1. NoRun \in Run
  BY DEF NoRun, Run
<1>2. TypeOK
  BY <1>1, KeyAssumption, BoundAssumption DEF Init, TypeOK, Unreadable
<1>3. Exclusive /\ RunsFit
  BY <1>1 DEF Init, Exclusive, RunsFit, NodeFits, DocFits, NoRun, Idle, Using
<1>4. KeyHeld
  BY Marks DEF Init, KeyHeld, Unreadable
<1> QED BY <1>2, <1>3, <1>4 DEF Init, IInv

(* What a command starts with. *)
LEMMA StartRecord ==
  ASSUME NEW c, NEW x
  PROVE  [NoRun EXCEPT !.command = c, !.pc = x] =
           [command |-> c, pc |-> x, node |-> None, doc |-> None]
<1> DEFINE named == [command |-> c, pc |-> "done", node |-> None, doc |-> None]
<1>1. [NoRun EXCEPT !.command = c] = named
  BY DEF NoRun
<1>2. [NoRun EXCEPT !.command = c, !.pc = x] = [named EXCEPT !.pc = x]
  BY <1>1 DEF NoRun
<1> QED BY <1>2

(* The user starts a command when those at work allow it. *)
LEMMA StartPreserves ==
  ASSUME Serial, IInv, NEW p \in Process, Start(p)
  PROVE  IInv'
<1>1. PICK command \in Command :
        /\ Alone(p, command)
        /\ run' = [run EXCEPT ![p] = [NoRun EXCEPT !.command = command,
                                                  !.pc = FirstStep(command)]]
  BY DEF Start
<1> DEFINE r == [command |-> command, pc |-> FirstStep(command), node |-> None,
                 doc |-> None]
<1>2. run' = [run EXCEPT ![p] = r]
  <2>1. [NoRun EXCEPT !.command = command, !.pc = FirstStep(command)] = r
    BY StartRecord
  <2> QED BY <1>1, <2>1
<1>3. FirstStep(command) \in {"read_rad", "read_sigrefs", "generate", "check"}
  BY CommandAssumption DEF FirstStep
<1>4. FirstStep(command) = "generate" <=> command = "peer --new"
  BY CommandAssumption DEF FirstStep
<1>5. r \in Run
  BY <1>3 DEF Run
<1>6. NodeFits(r) /\ DocFits(r)
  BY <1>3, <1>4 DEF NodeFits, DocFits, Using
<1>7. Compatible(p, r)
  <2>1. CASE \A q \in Process \ {p} : Idle(q)
    BY <2>1 DEF Compatible
  <2>2. CASE /\ key \in Key /\ command # "peer --new"
             /\ \A q \in Process : Idle(q) \/ ~Is(q, {"peer --new"})
    <3>1. ASSUME NEW q \in Process, ~Idle(q)
          PROVE  run[q].pc \notin Making /\ run[q].command # "peer --new"
      <4>1. run[q].command # "peer --new"
        BY <2>2, <3>1 DEF Is
      <4>2. key # Absent /\ key # Blank
        BY <2>2, Marks
      <4> QED BY <4>1, <4>2 DEF IInv, RunsFit, NodeFits, Making
    <3>2. r.pc \notin Making
      BY <1>3, <1>4, <2>2 DEF Making
    <3> QED BY <2>2, <3>1, <3>2 DEF Compatible
  <2> QED BY <1>1, <2>1, <2>2 DEF Alone
<1>8. /\ UNCHANGED <<key, rad, sigrefs, reported, retired>>
      /\ made' \in 0..MaxKeys /\ runs' \in 0..MaxRuns /\ kills' \in 0..MaxKills
  BY BoundAssumption DEF Start, IInv, TypeOK
<1> HIDE DEF r
<1> QED BY <1>2, <1>5, <1>6, <1>7, <1>8, QuietPreserves

(* The key is looked for and loaded, or one is made when there is none.      *)
LEMMA FindKeyPreserves ==
  ASSUME IInv, NEW p \in Process, CheckKey(p) \/ LoadKey(p) \/ GenerateKey(p)
  PROVE  IInv'
<1>0. /\ ~Idle(p) /\ run[p] \in Run /\ key \in Key \cup {Absent, Blank}
      /\ made \in 0..MaxKeys /\ runs \in 0..MaxRuns /\ kills \in 0..MaxKills
  BY DEF CheckKey, LoadKey, GenerateKey, At, Idle, IInv, TypeOK
<1>1. CASE CheckKey(p)
  <2> DEFINE x == IF key = Absent THEN "generate" ELSE "load"
             r == [command |-> run[p].command, pc |-> x, node |-> run[p].node,
                   doc |-> run[p].doc]
  <2>1. run' = [run EXCEPT ![p] = r]
    BY <1>1, GotoRecord DEF CheckKey, IInv
  <2>2. r \in Run
    BY <1>0 DEF Run
  <2>3. NodeFits(r) /\ DocFits(r)
    BY DEF NodeFits, DocFits, Using
  <2>4. Compatible(p, r)
    <3>1. CASE key = Absent
      BY <1>0, <3>1, MakingAlone, Marks DEF Compatible
    <3>2. CASE key # Absent
      BY <1>0, <3>2, BusyCompatible DEF Making
    <3> QED BY <3>1, <3>2
  <2> HIDE DEF r
  <2> QED BY <1>0, <1>1, <2>1, <2>2, <2>3, <2>4, QuietPreserves DEF CheckKey
<1>2. CASE LoadKey(p)
  <2> DEFINE r == [command |-> run[p].command,
                   pc |-> IF key = Blank THEN "raised" ELSE "use",
                   node |-> IF key = Blank THEN None ELSE key, doc |-> run[p].doc]
  <2>1. run' = [run EXCEPT ![p] = r]
    BY <1>2, NodeRecord DEF LoadKey, IInv
  <2>2. key # Absent
    BY <1>2 DEF LoadKey, At, IInv, RunsFit, NodeFits
  <2>3. r \in Run
    BY <1>0, <2>2 DEF Run
  <2>4. NodeFits(r) /\ DocFits(r)
    BY <1>0, <2>2 DEF NodeFits, DocFits, Using
  <2>5. Compatible(p, r)
    BY <1>0, BusyCompatible DEF Making
  <2> HIDE DEF r
  <2> QED BY <1>0, <1>2, <2>1, <2>3, <2>4, <2>5, QuietPreserves DEF LoadKey
<1>3. CASE GenerateKey(p)
  <2> DEFINE r == [command |-> run[p].command, pc |-> "truncate_key", node |-> made + 1,
                   doc |-> run[p].doc]
  <2>1. run' = [run EXCEPT ![p] = r]
    BY <1>3, NodeRecord DEF GenerateKey, IInv
  <2>2. made + 1 \in Key /\ made' \in 0..MaxKeys
    BY <1>0, <1>3, KeyAssumption DEF GenerateKey, Key
  <2>3. r \in Run
    BY <1>0, <2>2 DEF Run
  <2>4. NodeFits(r) /\ DocFits(r)
    BY <1>3, <2>2 DEF GenerateKey, At, IInv, RunsFit, NodeFits, DocFits, Using
  <2>5. Compatible(p, r)
    BY <1>0, <1>3, MakingAlone DEF GenerateKey, At, Making, Compatible
  <2> HIDE DEF r
  <2> QED BY <1>0, <1>3, <2>1, <2>2, <2>3, <2>4, <2>5, QuietPreserves DEF GenerateKey
<1> QED BY <1>1, <1>2, <1>3

(* The key file is replaced by a command that is alone, and what was signed  *)
(* or reported with the key it held is retired with it.                      *)
LEMMA ReplaceKeyPreserves ==
  ASSUME IInv, NEW p \in Process, TruncateKey(p) \/ WriteKey(p)
  PROVE  IInv'
<1>0. /\ ~Idle(p) /\ run[p] \in Run /\ run[p].pc \in Making
      /\ \A q \in Process \ {p} : Idle(q)
  BY MakingAlone DEF TruncateKey, WriteKey, At, Idle, Making, IInv, TypeOK
<1> DEFINE r(x) == [command |-> run[p].command, pc |-> x, node |-> run[p].node,
                    doc |-> run[p].doc]
<1>1. ASSUME NEW x \in {"write_key", "use"}, Goto(p, x)
      PROVE  /\ run' \in [Process -> Run]
             /\ run'[p] = r(x) /\ \A q \in Process \ {p} : run'[q] = run[q]
             /\ Exclusive'
  <2>1. run' = [run EXCEPT ![p] = r(x)]
    BY <1>1, GotoRecord DEF IInv
  <2>2. r(x) \in Run
    BY <1>0 DEF Run
  <2> HIDE DEF r
  <2>3. /\ run' \in [Process -> Run]
        /\ run'[p] = r(x) /\ \A q \in Process \ {p} : run'[q] = run[q]
    BY <2>1, <2>2 DEF IInv, TypeOK
  <2>4. Exclusive'
    BY <1>0, <2>3 DEF Exclusive, Idle
  <2> QED BY <2>3, <2>4
<1>2. \A q \in Process \ {p} : run[q].pc \in Ended
  BY <1>0 DEF Idle, Ended
<1>3. ASSUME NEW x \in {"write_key", "use"}, Goto(p, x), NodeFits(r(x))'
      PROVE  RunsFit'
  <2>1. /\ run'[p] = r(x) /\ r(x).pc = x
        /\ \A q \in Process \ {p} : run'[q] = run[q] /\ run[q].pc \in Ended
    BY <1>1, <1>2, <1>3
  <2>2. NodeFits(run[p])'
    BY <1>0, <1>3, <2>1 DEF NodeFits
  <2>3. DocFits(run[p])'
    BY <2>1 DEF DocFits
  <2>4. \A q \in Process \ {p} : NodeFits(run[q])' /\ DocFits(run[q])'
    BY <2>1 DEF NodeFits, DocFits, Ended, Using
  <2> QED BY <2>2, <2>3, <2>4 DEF RunsFit
<1>4. CASE TruncateKey(p)
  <2>1. /\ key' = Blank /\ Goto(p, "write_key") /\ run[p].pc = "truncate_key"
        /\ UNCHANGED <<rad, sigrefs, made, runs, kills, reported>>
    BY <1>4 DEF TruncateKey, At
  <2>2. retired' = retired \cup ({key} \cap Key)
    <3>1. CASE run[p].command = "peer --new"
      BY <1>4, <3>1 DEF TruncateKey, Is
    <3>2. CASE run[p].command # "peer --new"
      <4>1. key = Absent
        BY <2>1, <3>2 DEF IInv, RunsFit, NodeFits
      <4> QED BY <1>4, <3>2, <4>1, Marks DEF TruncateKey, Is
    <3> QED BY <3>1, <3>2
  <2>3. run[p].node \in Key
    BY <2>1 DEF IInv, RunsFit, NodeFits
  <2>4. NodeFits(r("write_key"))'
    BY <1>1, <2>1, <2>3 DEF NodeFits, Using
  <2>5. TypeOK'
    BY <1>1, <2>1, <2>2 DEF IInv, TypeOK
  <2>6. KeyHeld' /\ (reported \subseteq {key} \cup retired)'
    BY <2>1, <2>2 DEF IInv, TypeOK, KeyHeld, SignedDoc, Verified
  <2> QED BY <1>1, <1>3, <2>1, <2>4, <2>5, <2>6 DEF IInv
<1>5. CASE WriteKey(p)
  <2>1. /\ key' = run[p].node /\ Goto(p, "use") /\ run[p].pc = "write_key"
        /\ UNCHANGED <<rad, sigrefs, made, runs, kills, reported, retired>>
    BY <1>5 DEF WriteKey, At
  <2>2. key = Blank /\ run[p].node \in Key
    BY <2>1 DEF IInv, RunsFit, NodeFits
  <2>3. NodeFits(r("use"))'
    BY <1>1, <2>1, <2>2 DEF NodeFits
  <2>4. TypeOK'
    BY <1>1, <2>1, <2>2 DEF IInv, TypeOK
  <2>5. KeyHeld' /\ (reported \subseteq {key} \cup retired)'
    BY <2>1, <2>2, Marks DEF IInv, TypeOK, KeyHeld, SignedDoc, Verified
  <2> QED BY <1>1, <1>3, <2>1, <2>3, <2>4, <2>5 DEF IInv
<1> QED BY <1>4, <1>5

(* Commands that only read, print or sign in memory. *)
LEMMA UsePreserves ==
  ASSUME IInv, NEW p \in Process,
         PrintNode(p) \/ ShowIdentity(p) \/ SignRefs(p) \/ VerifySigrefs(p) \/ ReadRad(p)
  PROVE  IInv'
<1>1. /\ ~Idle(p)
      /\ UNCHANGED <<key, rad, sigrefs, made, runs, kills, retired>>
  BY DEF PrintNode, ShowIdentity, SignRefs, VerifySigrefs, ReadRad, At, Idle
<1>2. PICK x \in {"done", "raised", "check", "truncate"} :
        /\ Goto(p, x)
        /\ x = "truncate" => run[p].pc = "use" /\ run[p].command = "sigrefs"
  BY DEF PrintNode, ShowIdentity, SignRefs, VerifySigrefs, ReadRad, At, Is, Goto
<1>3. reported' \subseteq reported \cup ({key} \cap Key)
  BY DEF PrintNode, ShowIdentity, SignRefs, VerifySigrefs, ReadRad, At, Report,
         IInv, RunsFit, NodeFits, Using
<1>4. run' \in [Process -> Run] /\ Exclusive' /\ RunsFit'
  BY <1>1, <1>2, GotoFits DEF Using
<1> QED BY <1>1, <1>3, <1>4, GotoPreserves

(* A document a node makes for itself alone has a threshold of one. *)
LEMMA OwnDocVerified ==
  ASSUME NEW n \in Key, NEW d \in Doc,
         d.delegates \subseteq Stranger \cup {n}, d.delegates \subseteq Key
  PROVE  Verified(SignDoc(d, n))
<1>1. d.delegates = {n}
  BY KeyAssumption DEF Doc, Key
<1>2. Cardinality({n}) = 1
  BY FS_Singleton
<1>3. d.threshold <= 1 /\ d.threshold \in Nat
  BY <1>1, <1>2 DEF Doc
<1>4. SignDoc(d, n).sigs \cap SignDoc(d, n).doc.delegates = {n}
  BY <1>1 DEF SignDoc
<1>5. SignDoc(d, n).doc.threshold = d.threshold
  BY DEF SignDoc
<1> QED BY <1>2, <1>3, <1>4, <1>5 DEF Verified

(* rad-id --name makes a document with the key that is on disk. *)
LEMMA BuildPreserves ==
  ASSUME IInv, NEW p \in Process, BuildIdentity(p)
  PROVE  IInv'
<1>0. /\ ~Idle(p) /\ run[p] \in Run /\ run[p].pc = "use"
      /\ run[p].command = "rad-id --name"
      /\ key \in Key /\ run[p].node = key
      /\ UNCHANGED <<key, rad, sigrefs, made, runs, kills, reported, retired>>
  BY DEF BuildIdentity, At, Is, Idle, IInv, TypeOK, RunsFit, NodeFits, Using
<1>1. PICK ds \in Delegates(p), threshold \in 1..(Cardinality(Stranger) + 1) :
        LET d == [delegates |-> ds, threshold |-> threshold] IN
        run' = IF d \in Doc
               THEN [run EXCEPT ![p].pc = "truncate", ![p].doc = SignDoc(d, run[p].node)]
               ELSE [run EXCEPT ![p].pc = "raised"]
  BY DEF BuildIdentity
<1> DEFINE d == [delegates |-> ds, threshold |-> threshold]
           signed == SignDoc(d, run[p].node)
           r == [command |-> run[p].command, pc |-> "truncate", node |-> run[p].node,
                 doc |-> signed]
<1>2. CASE d \notin Doc
  <2>1. Goto(p, "raised")
    BY <1>1, <1>2 DEF Goto
  <2> QED BY <1>0, <2>1, GotoFits, GotoPreserves DEF Using
<1>3. CASE d \in Doc
  <2>1. run' = [run EXCEPT ![p].pc = "truncate", ![p].doc = signed]
    BY <1>1, <1>3
  <2>2. signed \in SignedDoc /\ signed.sigs \subseteq {run[p].node} /\ signed.doc = d
    BY <1>0, <1>3 DEF SignDoc, SignedDoc
  <2>3. d.delegates \subseteq Key => Verified(signed)
    BY <1>0, <1>3, OwnDocVerified DEF Delegates
  <2> HIDE DEF signed, d
  <2>4. run' = [run EXCEPT ![p] = r]
    BY <2>1, DocRecord DEF IInv
  <2>5. r \in Run
    BY <1>0, <2>2 DEF Run
  <2>6. NodeFits(r) /\ DocFits(r)
    BY <1>0, <2>2, <2>3 DEF NodeFits, DocFits, Using
  <2>7. Compatible(p, r)
    <3>1. r.command = run[p].command /\ r.pc \notin Making
      BY DEF Making
    <3> HIDE DEF r
    <3> QED BY <1>0, <3>1, BusyCompatible
  <2> HIDE DEF r
  <2>8. run' \in [Process -> Run] /\ Exclusive' /\ RunsFit'
    BY <1>0, <2>4, <2>5, <2>6, <2>7, MovePreserves
  <2> QED BY <1>0, <2>8, GotoPreserves
<1> QED BY <1>2, <1>3

(* The identity document and the signed refs are written by a command whose  *)
(* key is on disk.                                                           *)
LEMMA WritePreserves ==
  ASSUME IInv, NEW p \in Process,
         TruncateRad(p) \/ WriteRad(p) \/ TruncateSigrefs(p) \/ WriteSigrefs(p)
  PROVE  IInv'
<1>0. /\ ~Idle(p) /\ run[p] \in Run /\ run[p].pc \in {"truncate", "write"}
      /\ key \in Key /\ run[p].node = key
      /\ UNCHANGED <<key, made, runs, kills, retired>>
  BY DEF TruncateRad, WriteRad, TruncateSigrefs, WriteSigrefs, At, Idle, Using,
         IInv, TypeOK, RunsFit, NodeFits
<1>1. PICK x \in {"write", "done"} : Goto(p, x)
  BY DEF TruncateRad, WriteRad, TruncateSigrefs, WriteSigrefs
<1>2. run' \in [Process -> Run] /\ Exclusive' /\ RunsFit'
  BY <1>0, <1>1, GotoFits DEF Using
<1>3. reported' = reported \/ reported' = reported \cup {key}
  BY <1>0 DEF TruncateRad, WriteRad, TruncateSigrefs, WriteSigrefs, Report
<1>4. \/ rad' = rad
      \/ rad' \in {Blank, Garbled}
      \/ /\ rad' = run[p].doc /\ rad' \in SignedDoc
         /\ rad'.sigs \subseteq {key}
         /\ rad'.doc.delegates \subseteq Key => Verified(rad')
  <2>1. CASE TruncateRad(p) \/ TruncateSigrefs(p) \/ WriteSigrefs(p)
    BY <2>1 DEF TruncateRad, TruncateSigrefs, WriteSigrefs
  <2>2. CASE WriteRad(p)
    <3>1. rad' \in {run[p].doc, Garbled}
      BY <2>2 DEF WriteRad, Overwritten
    <3>2. /\ run[p].doc \in SignedDoc /\ run[p].doc.sigs \subseteq {key}
          /\ run[p].doc.doc.delegates \subseteq Key => Verified(run[p].doc)
      BY <1>0, <2>2 DEF WriteRad, Is, At, IInv, RunsFit, DocFits
    <3> QED BY <3>1, <3>2
  <2> QED BY <2>1, <2>2
<1>5. sigrefs' = sigrefs \/ sigrefs' \in {Blank, Garbled, key}
  BY <1>0 DEF TruncateRad, WriteRad, TruncateSigrefs, WriteSigrefs, Overwritten
<1>6. TypeOK'
  BY <1>0, <1>2, <1>3, <1>4, <1>5 DEF IInv, TypeOK, Unreadable
<1>7. KeyHeld'
  <2>1. rad' \in SignedDoc =>
          /\ rad'.sigs \subseteq {key} \cup retired
          /\ rad'.doc.delegates \subseteq Key => Verified(rad')
    BY <1>4, Marks DEF IInv, KeyHeld, Unreadable
  <2>2. sigrefs' \in Key => sigrefs' \in {key} \cup retired
    BY <1>5, FileAssumption DEF IInv, KeyHeld
  <2> QED BY <1>0, <2>1, <2>2 DEF KeyHeld, Verified
<1>8. (reported \subseteq {key} \cup retired)'
  BY <1>0, <1>3 DEF IInv
<1> QED BY <1>2, <1>6, <1>7, <1>8 DEF IInv

(* A command that is killed leaves the files as they are. *)
LEMMA KillPreserves ==
  ASSUME IInv, NEW p \in Process, Kill(p)
  PROVE  IInv'
<1>1. NoRun \in Run /\ NodeFits(NoRun) /\ DocFits(NoRun) /\ Compatible(p, NoRun)
  BY DEF NoRun, Run, NodeFits, DocFits, Compatible, Using, Ended
<1>2. /\ run' = [run EXCEPT ![p] = NoRun]
      /\ UNCHANGED <<key, rad, sigrefs, reported, retired>>
      /\ made' \in 0..MaxKeys /\ runs' \in 0..MaxRuns /\ kills' \in 0..MaxKills
  BY BoundAssumption DEF Kill, IInv, TypeOK
<1> QED BY <1>1, <1>2, QuietPreserves

(* Every step preserves the inductive invariant. *)
LEMMA NextIInv == ASSUME Serial, IInv, [Next]_vars PROVE IInv'
<1>1. CASE UNCHANGED vars
  BY <1>1 DEF vars, IInv, TypeOK, Exclusive, Idle, RunsFit, NodeFits, DocFits, KeyHeld,
              Verified
<1> QED BY <1>1, StartPreserves, FindKeyPreserves, ReplaceKeyPreserves, UsePreserves,
        BuildPreserves, WritePreserves, KillPreserves DEF Next, Step

(* The inductive invariant holds of every behaviour in which commands that   *)
(* make a key run alone.                                                     *)
THEOREM Invariance == ASSUME Serial PROVE Spec => []IInv
BY InitIInv, NextIInv, PTL DEF Spec

(* Type correctness of commands, files and what was reported. *)
THEOREM TypeCorrect == ASSUME Serial PROVE Spec => []TypeOK
BY Invariance, PTL DEF IInv

(* One identity is reported, however commands follow one another and         *)
(* wherever they are killed.                                                 *)
THEOREM IdentityIsOne == ASSUME Serial PROVE Spec => []OneIdentity
<1>1. IInv => OneIdentity
  BY DEF IInv, OneIdentity
<1> QED BY <1>1, Invariance, PTL

(* The identity document and the signed refs are signed with keys that were  *)
(* on disk before they were used; with the one that is, unless peer --new    *)
(* replaced it since (what it had signed stays).                             *)
THEOREM KeysAreHeld == ASSUME Serial PROVE Spec => []KeyHeld
BY Invariance, PTL DEF IInv

-----------------------------------------------------------------------------
(* Directories that have nothing in common. *)
Apart(a, b) == a \notin Below(b) /\ b \notin Below(a)

Entry == {RepoSpec(NameOf[d], d) : d \in Dir}

WalkTypeOK ==
  /\ present \in SUBSET Dir /\ git \in SUBSET present
  /\ stayed \in SUBSET git /\ ever \in SUBSET Dir
  /\ walk \in [pc : {"idle", "list", "look", "remote", "saved", "failed"}, stack : Seq(Dir),
               at : Dir, inside : Seq(Dir), found : Seq(Entry)]
  /\ file \in Seq(Entry)

(* A directory that is there is in one that is. *)
InPresent == \A d \in present \ {Root} : Parent[d] \in present

(* What is still to visit and what was found lie apart, so nothing is found  *)
(* twice and no repository within another.                                   *)
Visiting == walk.pc \in {"look", "remote"}

WalkApart ==
  LET stack == walk.stack
      found == walk.found
  IN /\ \A i, j \in DOMAIN stack : i # j => Apart(stack[i], stack[j])
     /\ \A i, j \in DOMAIN found : i # j => Apart(found[i].path, found[j].path)
     /\ \A i \in DOMAIN stack, j \in DOMAIN found : Apart(stack[i], found[j].path)
     /\ Visiting => /\ \A i \in DOMAIN stack : Apart(stack[i], walk.at)
                    /\ \A i \in DOMAIN found : Apart(found[i].path, walk.at)

WalkFits ==
  /\ \A i \in DOMAIN walk.found : walk.found[i].path \in ever
  /\ walk.pc = "idle" => stayed = {}
  /\ walk.pc \in {"list", "look", "remote"} => git \subseteq ever
  /\ walk.pc = "remote" => walk.at \in ever
  /\ walk.pc = "look" => /\ \A i \in DOMAIN walk.inside : walk.inside[i] \in Children(walk.at)
                         /\ \A i, j \in DOMAIN walk.inside : walk.inside[i] = walk.inside[j] => i = j

(* A repository that stayed and is within no other was found or is still to  *)
(* be reached.                                                               *)
ToReach(d) ==
  \/ \E i \in DOMAIN walk.stack : d \in Below(walk.stack[i])
  \/ Visiting /\ d = walk.at
  \/ walk.pc = "look" /\ \E i \in DOMAIN walk.inside : d \in Below(walk.inside[i])

WalkCovers ==
  walk.pc # "failed" =>
    \A d \in stayed : Reachable(d) => ToReach(d) \/ \E i \in DOMAIN walk.found : walk.found[i].path = d

WInv == WalkTypeOK /\ InPresent /\ WalkApart /\ WalkFits /\ WalkCovers /\ DiscoveredExactly

-----------------------------------------------------------------------------
(* What is below a directory: itself, and what is in it. *)
LEMMA BelowClosed ==
  ASSUME NEW d \in Dir
  PROVE  Below(d) \subseteq Dir /\ d \in Below(d) /\ Closed(Below(d))
<1>1. Below(d) = {c \in Dir : \A S \in SUBSET Dir : d \in S /\ Closed(S) => c \in S}
  BY DEF Below, Within
<1> QED BY <1>1 DEF Closed, Children

(* Nothing else is. *)
LEMMA BelowLeast ==
  ASSUME NEW d \in Dir, NEW S \in SUBSET Dir, d \in S, Closed(S)
  PROVE  Below(d) \subseteq S
BY DEF Below, Within

LEMMA BelowTransitive ==
  ASSUME NEW d \in Dir, NEW c \in Below(d)
  PROVE  Below(c) \subseteq Below(d)
BY BelowClosed, BelowLeast

(* A directory below another one is in one that is. *)
LEMMA ParentBelow ==
  ASSUME NEW d \in Dir, NEW c \in Below(d), c # d
  PROVE  c # Root /\ Parent[c] \in Below(d)
<1> DEFINE S == {x \in Below(d) : x = d \/ (x # Root /\ Parent[x] \in Below(d))}
<1>1. S \in SUBSET Dir /\ d \in S
  BY BelowClosed
<1>2. Closed(S)
  BY BelowClosed DEF Closed, Children
<1>3. c \in S
  BY <1>1, <1>2, BelowLeast
<1> QED BY <1>3

(* No directory is in itself. *)
LEMMA NotInItself ==
  ASSUME NEW d \in Dir, NEW c \in Children(d)
  PROVE  d \notin Below(c)
<1> SUFFICES ASSUME d \in Below(c) PROVE FALSE
  OBVIOUS
<1>1. c \in Dir /\ c # Root /\ Parent[c] = d
  BY DEF Children
<1> DEFINE S == Dir \ Below(c)
<1>2. Root \in S
  BY <1>1, ParentBelow, TreeAssumption
<1>3. Closed(S)
  BY <1>1, ParentBelow DEF Closed, Children
<1>4. Below(Root) \subseteq S
  BY <1>2, <1>3, BelowLeast
<1> QED BY <1>1, <1>4, BelowClosed, TreeAssumption

(* Directories in one have nothing in common. *)
LEMMA SiblingsApart ==
  ASSUME NEW d \in Dir, NEW b \in Children(d), NEW c \in Children(d), b # c
  PROVE  Apart(b, c)
BY NotInItself, ParentBelow DEF Apart, Children

(* What lies apart from a directory lies apart from those in it. *)
LEMMA ChildApart ==
  ASSUME NEW d \in Dir, NEW a \in Dir, Apart(a, d), NEW c \in Children(d)
  PROVE  Apart(a, c)
<1>1. c \in Dir /\ c # Root /\ Parent[c] = d /\ c \in Below(d)
  BY BelowClosed DEF Children, Closed
<1>2. a \notin Below(c)
  BY <1>1, BelowTransitive DEF Apart
<1>3. c # a
  BY <1>1 DEF Apart
<1>4. c \notin Below(a)
  BY <1>1, <1>3, ParentBelow DEF Apart
<1> QED BY <1>2, <1>4 DEF Apart

(* What is below a directory is the directory or below one in it. *)
LEMMA BelowChild ==
  ASSUME NEW d \in Dir, NEW x \in Below(d), x # d
  PROVE  \E c \in Children(d) : x \in Below(c)
<1> DEFINE S == {d} \cup UNION {Below(c) : c \in Children(d)}
<1>1. S \in SUBSET Dir
  BY BelowClosed DEF Children
<1>2. Closed(S)
  <2> SUFFICES ASSUME NEW y \in S, NEW z \in Children(y) PROVE z \in S
    BY DEF Closed
  <2>1. CASE y = d
    BY <2>1, BelowClosed DEF Children
  <2>2. ASSUME NEW c \in Children(d), y \in Below(c) PROVE z \in S
    BY <2>2, BelowClosed DEF Closed, Children
  <2> QED BY <2>1, <2>2
<1>3. Below(d) \subseteq S
  BY <1>1, <1>2, BelowLeast
<1> QED BY <1>3

(* A directory in one that is gone is gone. *)
LEMMA GoneBelow ==
  ASSUME InPresent, present \in SUBSET Dir, NEW d \in Dir, d \notin present
  PROVE  Below(d) \cap present = {}
<1> DEFINE S == Dir \ present
<1>1. Closed(S)
  BY DEF InPresent, Closed, Children
<1>2. Below(d) \subseteq S
  BY <1>1, BelowLeast
<1> QED BY <1>2

(* A repository can only become harder to reach. *)
LEMMA ReachableBefore ==
  ASSUME NEW d \in Dir, ever \subseteq ever', Reachable(d)'
  PROVE  Reachable(d)
BY DEF Reachable

LEMMA EntryOf ==
  ASSUME NEW d \in Dir
  PROVE  RepoSpec(NameOf[d], d) \in Entry /\ RepoSpec(NameOf[d], d).path = d
BY DEF Entry, RepoSpec

LEMMA EntryPath ==
  ASSUME NEW e \in Entry
  PROVE  e.path \in Dir
BY DEF Entry, RepoSpec

(* The orders of a finite set. *)
LEMMA SetToSeqsOf ==
  ASSUME NEW T, NEW S \in SUBSET T, IsFiniteSet(S), NEW s \in SetToSeqs(S)
  PROVE  /\ s \in Seq(T) /\ s \in [1..Cardinality(S) -> S] /\ Cardinality(S) \in Nat
         /\ DOMAIN s = 1..Cardinality(S) /\ \A i \in DOMAIN s : s[i] \in S
         /\ \A i, j \in DOMAIN s : s[i] = s[j] => i = j
         /\ \A x \in S : \E i \in DOMAIN s : s[i] = x
<1> DEFINE n == Cardinality(S)
<1>1. n \in Nat
  BY FS_CardinalityType
<1>2. s \in [1..n -> S] /\ \A i, j \in 1..n : i # j => s[i] # s[j]
  BY DEF SetToSeqs
<1>3. \A x \in S : \E i \in 1..n : s[i] = x
  <2>1. s \in Injection(1..n, S)
    BY <1>2 DEF Injection, IsInjective
  <2>2. IsFiniteSet(1..n) /\ Cardinality(1..n) = n
    BY <1>1, FS_Interval
  <2>3. s \in Surjection(1..n, S)
    BY <2>1, <2>2, FS_Injection
  <2> QED BY <2>3 DEF Surjection
<1> HIDE DEF n
<1>4. s \in Seq(S) /\ DOMAIN s = 1..n
  BY <1>1, <1>2
<1>5. s \in Seq(T)
  BY <1>4
<1> QED BY <1>1, <1>2, <1>3, <1>4, <1>5 DEF n

-----------------------------------------------------------------------------
(* Sorting: an order in which some are equal. *)
WeakOn(S, B) ==
  /\ \A x, y \in S : <<x, y>> \in B => <<y, x>> \notin B
  /\ \A x, y, z \in S : <<x, y>> \in B => <<x, z>> \in B \/ <<z, y>> \in B

(* A sorted sequence has each place of the given one once, and none before   *)
(* another that must come first.                                             *)
PlacesOf(e, s, B) ==
  /\ e \in [DOMAIN s -> DOMAIN s]
  /\ \A k \in DOMAIN s : StablySorted(s, B)[k] = s[e[k]]
  /\ \A i \in DOMAIN s : \E k \in DOMAIN s : e[k] = i
  /\ \A k, l \in DOMAIN s : k < l => <<e[l], e[k]>> \notin B
  /\ \A k, l \in DOMAIN s : e[k] = e[l] => k = l

LEMMA StablySortedOf ==
  ASSUME NEW S, NEW s \in Seq(S), NEW B, WeakOn(DOMAIN s, B)
  PROVE  /\ StablySorted(s, B) \in Seq(S) /\ DOMAIN StablySorted(s, B) = DOMAIN s
         /\ \E e : PlacesOf(e, s, B)
<1> DEFINE places == DOMAIN s
           first == {p \in places \X places :
                       p \in B \/ (<<p[2], p[1]>> \notin B /\ p[1] < p[2])}
           e == InOrder(places, first)
<1>1. IsFiniteSet(places) /\ Cardinality(places) = Len(s) /\ places = 1..Len(s) /\ Len(s) \in Nat
  <2>1. Len(s) \in Nat /\ places = 1..Len(s)
    OBVIOUS
  <2>2. IsFiniteSet(1..Len(s)) /\ Cardinality(1..Len(s)) = Len(s)
    BY <2>1, FS_Interval
  <2> HIDE DEF places
  <2> QED BY <2>1, <2>2
<1>2. TotalOn(places, first)
  <2>1. \A i, j \in places : <<i, j>> \in first <=> <<i, j>> \in B \/ (<<j, i>> \notin B /\ i < j)
    OBVIOUS
  <2>2. \A i \in places : i \in Nat
    <3> HIDE DEF places
    <3> QED BY <1>1
  <2>3. WeakOn(places, B)
    OBVIOUS
  <2> HIDE DEF places, first
  <2>4. \A i \in places : <<i, i>> \notin first
    BY <2>1, <2>2, <2>3 DEF WeakOn
  <2>5. \A i, j \in places : i = j \/ <<i, j>> \in first \/ <<j, i>> \in first
    <3> TAKE i, j \in places
    <3>1. i \in Nat /\ j \in Nat
      BY <2>2
    <3>2. i = j \/ i < j \/ j < i
      BY <3>1
    <3> QED BY <2>1, <3>2
  <2>6. \A i, j, k \in places : <<i, j>> \in first /\ <<j, k>> \in first => <<i, k>> \in first
    <3> TAKE i, j, k \in places
    <3> HAVE <<i, j>> \in first /\ <<j, k>> \in first
    <3>1. /\ <<i, j>> \in B \/ (<<j, i>> \notin B /\ i < j)
          /\ <<j, k>> \in B \/ (<<k, j>> \notin B /\ j < k)
      BY <2>1
    <3>2. i < j /\ j < k => i < k
      BY <2>2
    <3>3. <<k, i>> \in B => <<k, j>> \in B \/ <<j, i>> \in B
      BY <2>3 DEF WeakOn
    <3>4. <<i, j>> \in B => <<i, k>> \in B \/ <<k, j>> \in B
      BY <2>3 DEF WeakOn
    <3>5. <<j, k>> \in B => <<j, i>> \in B \/ <<i, k>> \in B
      BY <2>3 DEF WeakOn
    <3>6. (<<i, j>> \in B => <<j, i>> \notin B) /\ (<<j, k>> \in B => <<k, j>> \notin B)
      BY <2>3 DEF WeakOn
    <3> QED BY <2>1, <3>1, <3>2, <3>3, <3>4, <3>5, <3>6
  <2> QED BY <2>4, <2>5, <2>6 DEF TotalOn
<1> HIDE DEF e
<1>3. /\ e \in [places -> places]
      /\ \A i \in places : \E k \in places : e[k] = i
      /\ \A k, l \in places : k < l => <<e[k], e[l]>> \in first
      /\ \A k, l \in places : e[k] = e[l] => k = l
  <2>2. e = InOrder(places, first)
    BY DEF e
  <2> HIDE DEF places, first
  <2>1. /\ e \in [1..Cardinality(places) -> places]
        /\ \A i \in places : \E k \in 1..Cardinality(places) : e[k] = i
        /\ \A k, l \in 1..Cardinality(places) : k < l => <<e[k], e[l]>> \in first
        /\ \A k, l \in 1..Cardinality(places) : e[k] = e[l] => k = l
    BY <1>1, <1>2, <2>2, InOrderSorted
  <2> QED BY <1>1, <2>1
<1>4. StablySorted(s, B) = [k \in places |-> s[e[k]]]
  BY DEF StablySorted, e
<1>5. \A k, l \in places : k < l => <<e[l], e[k]>> \notin B
  <2> TAKE k, l \in places
  <2> HAVE k < l
  <2>1. <<e[k], e[l]>> \in first /\ e[k] \in places /\ e[l] \in places
    BY <1>3
  <2> QED BY <2>1 DEF WeakOn
<1>6. StablySorted(s, B) \in Seq(S) /\ DOMAIN StablySorted(s, B) = places
  <2>1. \A k \in places : s[e[k]] \in S
    BY <1>3
  <2>2. StablySorted(s, B) \in [1..Len(s) -> S]
    BY <1>1, <1>4, <2>1
  <2> QED BY <1>1, <1>4, <2>2
<1>7. PlacesOf(e, s, B)
  BY <1>3, <1>4, <1>5 DEF PlacesOf
<1> QED BY <1>6, <1>7

LEMMA InitWInv == DiscoveryInit => WInv
<1> SUFFICES ASSUME DiscoveryInit PROVE WInv
  OBVIOUS
<1>1. WalkTypeOK
  BY TreeAssumption DEF DiscoveryInit, WalkTypeOK, NoWalk
<1>2. InPresent
  BY TreeAssumption DEF DiscoveryInit, InPresent
<1>3. WalkApart
  BY DEF DiscoveryInit, WalkApart, NoWalk, Visiting
<1>4. WalkFits /\ WalkCovers /\ DiscoveredExactly
  BY DEF DiscoveryInit, WalkFits, WalkCovers, DiscoveredExactly, NoWalk
<1> QED BY <1>1, <1>2, <1>3, <1>4 DEF WInv

(* What a walk relies on when the owners of the directories act. *)
LEMMA OwnersStep ==
  ASSUME WInv, walk.pc \notin {"idle", "saved", "failed"}, Owners
  PROVE  WInv'
<1>1. UNCHANGED <<walk, file>>
  BY DEF Owners, MakeRepository, RemoveDirectory
<1>2. /\ ever \subseteq ever' /\ ever' \in SUBSET Dir
      /\ stayed' \subseteq stayed /\ git' \subseteq ever'
      /\ present' \subseteq present /\ git' \subseteq present' /\ stayed' \subseteq git'
  <2>1. /\ ever \in SUBSET Dir /\ git \subseteq ever /\ stayed \subseteq git
        /\ git \subseteq present
    BY DEF WInv, WalkTypeOK, WalkFits
  <2>2. ASSUME NEW d \in Dir, MakeRepository(d)
        PROVE  /\ ever \subseteq ever' /\ ever' \in SUBSET Dir
               /\ stayed' \subseteq stayed /\ git' \subseteq ever'
               /\ present' \subseteq present /\ git' \subseteq present' /\ stayed' \subseteq git'
    BY <2>1, <2>2 DEF MakeRepository
  <2>3. ASSUME NEW d \in Dir, RemoveDirectory(d)
        PROVE  /\ ever \subseteq ever' /\ ever' \in SUBSET Dir
               /\ stayed' \subseteq stayed /\ git' \subseteq ever'
               /\ present' \subseteq present /\ git' \subseteq present' /\ stayed' \subseteq git'
    BY <2>1, <2>3 DEF RemoveDirectory
  <2> QED BY <2>2, <2>3 DEF Owners
<1>3. InPresent'
  <2>1. ASSUME NEW d \in Dir, MakeRepository(d) PROVE InPresent'
    BY <2>1 DEF MakeRepository, WInv, InPresent
  <2>2. ASSUME NEW d \in Dir, RemoveDirectory(d) PROVE InPresent'
    <3>1. \A x \in Dir \ {Root} : Parent[x] \in Below(d) => x \in Below(d)
      BY BelowClosed DEF Closed, Children
    <3>2. present \in SUBSET Dir
      BY DEF WInv, WalkTypeOK
    <3> QED BY <2>2, <3>1, <3>2 DEF RemoveDirectory, WInv, InPresent
  <2> QED BY <2>1, <2>2 DEF Owners
<1>4. WalkTypeOK'
  BY <1>1, <1>2 DEF WInv, WalkTypeOK
<1>5. WalkApart'
  BY <1>1 DEF WInv, WalkApart, Visiting
<1>6. WalkFits'
  BY <1>1, <1>2 DEF WInv, WalkFits
<1>7. WalkCovers'
  <2> SUFFICES ASSUME NEW d \in stayed', Reachable(d)'
               PROVE  ToReach(d)' \/ \E i \in DOMAIN walk'.found : walk'.found[i].path = d
    BY DEF WalkCovers
  <2>1. d \in stayed /\ d \in Dir
    BY <1>2 DEF WInv, WalkTypeOK
  <2>2. Reachable(d)
    BY <1>2, <2>1, ReachableBefore
  <2> QED BY <1>1, <2>1, <2>2 DEF WInv, WalkCovers, ToReach, Visiting
<1>8. DiscoveredExactly'
  BY <1>1 DEF DiscoveredExactly
<1> QED BY <1>3, <1>4, <1>5, <1>6, <1>7, <1>8 DEF WInv

(* A walk begins at the root. *)
LEMMA BeginWalkStep == ASSUME WInv, BeginWalk PROVE WInv'
<1>1. /\ walk' = [NoWalk EXCEPT !.pc = "list", !.stack = <<Root>>]
      /\ stayed' = git /\ ever' = git /\ UNCHANGED <<present, git, file>>
  BY DEF BeginWalk, treevars
<1>2. WalkTypeOK'
  <2>1. walk' = [pc |-> "list", stack |-> <<Root>>, at |-> Root, inside |-> <<>>, found |-> <<>>]
    BY <1>1 DEF NoWalk
  <2>2. <<Root>> \in Seq(Dir) /\ <<>> \in Seq(Dir) /\ <<>> \in Seq(Entry) /\ Root \in Dir
    BY TreeAssumption
  <2>3. git \in SUBSET Dir
    BY DEF WInv, WalkTypeOK
  <2>4. /\ walk' \in [pc : {"idle", "list", "look", "remote", "saved", "failed"}, stack : Seq(Dir),
                      at : Dir, inside : Seq(Dir), found : Seq(Entry)]
    BY <2>1, <2>2
  <2> QED BY <1>1, <2>3, <2>4 DEF WInv, WalkTypeOK
<1>3. InPresent'
  BY <1>1 DEF WInv, InPresent
<1>4. WalkApart'
  BY <1>1 DEF WalkApart, NoWalk, Visiting
<1>5. WalkFits' /\ DiscoveredExactly'
  BY <1>1 DEF WalkFits, NoWalk, DiscoveredExactly
<1>6. WalkCovers'
  <2>1. walk'.stack = <<Root>>
    BY <1>1 DEF NoWalk
  <2>2. \A d \in stayed' : d \in Below(walk'.stack[1])
    BY <1>1, <2>1, TreeAssumption DEF WInv, WalkTypeOK
  <2>3. 1 \in DOMAIN walk'.stack
    BY <2>1
  <2>4. \A d \in stayed' : ToReach(d)'
    BY <2>2, <2>3 DEF ToReach
  <2> QED BY <2>4 DEF WalkCovers
<1> QED BY <1>2, <1>3, <1>4, <1>5, <1>6 DEF WInv

(* One directory is listed; a directory that is gone is passed over. *)
LEMMA ListDirectoryStep == ASSUME WInv, ListDirectory PROVE WInv'
<1> DEFINE d == Head(walk.stack)
           entered == {c \in Children(d) \cap present : NameOf[c] \notin Skipped}
<1>1. /\ walk.pc = "list" /\ walk.stack # <<>> /\ walk.stack \in Seq(Dir)
      /\ UNCHANGED <<present, git, stayed, ever, file>>
  BY DEF ListDirectory, treevars, WInv, WalkTypeOK
<1>2. /\ d \in Dir /\ d = walk.stack[1] /\ 1 \in DOMAIN walk.stack
      /\ Tail(walk.stack) \in Seq(Dir)
      /\ \A i \in DOMAIN Tail(walk.stack) : /\ i + 1 \in DOMAIN walk.stack
                                            /\ Tail(walk.stack)[i] = walk.stack[i + 1]
      /\ \A i \in DOMAIN walk.stack : i = 1 \/ (/\ i - 1 \in DOMAIN Tail(walk.stack)
                                                /\ Tail(walk.stack)[i - 1] = walk.stack[i])
  BY <1>1
<1> HIDE DEF d
<1>3. ASSUME NEW x \in stayed', Reachable(x)',
             ~\E i \in DOMAIN walk.found : walk.found[i].path = x
      PROVE  /\ x \in Dir /\ Reachable(x)
             /\ \/ x \in Below(d)
                \/ \E i \in DOMAIN Tail(walk.stack) : x \in Below(Tail(walk.stack)[i])
  <2>1. x \in stayed /\ x \in Dir
    BY <1>1 DEF WInv, WalkTypeOK
  <2>2. Reachable(x)
    BY <1>1, <1>3, <2>1, ReachableBefore
  <2>3. \E i \in DOMAIN walk.stack : x \in Below(walk.stack[i])
    BY <1>1, <1>3, <2>1, <2>2 DEF WInv, WalkCovers, ToReach, Visiting
  <2> QED BY <1>2, <2>1, <2>2, <2>3
<1>4. InPresent'
  BY <1>1 DEF WInv, InPresent
<1>5. \A i \in DOMAIN Tail(walk.stack) : Apart(Tail(walk.stack)[i], d)
  BY <1>1, <1>2 DEF WInv, WalkApart
<1>6. \A i, j \in DOMAIN Tail(walk.stack) : i # j => Apart(Tail(walk.stack)[i], Tail(walk.stack)[j])
  BY <1>1, <1>2 DEF WInv, WalkApart
<1>7. \A i \in DOMAIN Tail(walk.stack), j \in DOMAIN walk.found :
         Apart(Tail(walk.stack)[i], walk.found[j].path)
  BY <1>1, <1>2 DEF WInv, WalkApart
<1>8. \A j \in DOMAIN walk.found : Apart(walk.found[j].path, d)
  BY <1>1, <1>2 DEF WInv, WalkApart, Apart
<1>9. CASE d \notin present
  <2>1. walk' = [walk EXCEPT !.stack = Tail(@)]
    BY <1>9 DEF ListDirectory, d
  <2>2. walk'.stack = Tail(walk.stack) /\ walk'.pc = "list" /\ walk'.found = walk.found
    BY <1>1, <2>1 DEF WInv, WalkTypeOK
  <2>3. WalkTypeOK'
    BY <1>1, <1>2, <2>1 DEF WInv, WalkTypeOK
  <2>4. WalkApart'
    BY <1>6, <1>7, <2>2 DEF WInv, WalkApart, Visiting
  <2>5. WalkFits' /\ DiscoveredExactly'
    BY <1>1, <2>2 DEF WInv, WalkFits, DiscoveredExactly
  <2>6. WalkCovers'
    <3> SUFFICES ASSUME NEW x \in stayed', Reachable(x)',
                        ~\E i \in DOMAIN walk.found : walk.found[i].path = x
                 PROVE  ToReach(x)'
      BY <2>2 DEF WalkCovers
    <3>1. x \notin Below(d)
      BY <1>1, <1>2, <1>9, GoneBelow DEF WInv, WalkTypeOK
    <3> QED BY <1>3, <2>2, <3>1 DEF ToReach
  <2> QED BY <1>4, <2>3, <2>4, <2>5, <2>6 DEF WInv
<1>10. CASE d \in present
  <2>1. PICK order \in SetToSeqs(entered) :
          walk' = [walk EXCEPT !.pc = "look", !.at = d, !.inside = order, !.stack = Tail(@)]
    BY <1>10 DEF ListDirectory, d
  <2>2. /\ order \in Seq(Dir)
        /\ \A i \in DOMAIN order : order[i] \in entered
        /\ \A i, j \in DOMAIN order : order[i] = order[j] => i = j
        /\ \A c \in entered : \E i \in DOMAIN order : order[i] = c
    <3>1. entered \in SUBSET Dir /\ IsFiniteSet(entered)
      BY TreeAssumption, FS_Subset DEF Children
    <3> HIDE DEF entered
    <3> QED BY <3>1, SetToSeqsOf
  <2>3. /\ walk'.stack = Tail(walk.stack) /\ walk'.pc = "look" /\ walk'.found = walk.found
        /\ walk'.at = d /\ walk'.inside = order
    BY <1>1, <2>1 DEF WInv, WalkTypeOK
  <2>4. WalkTypeOK'
    BY <1>1, <1>2, <2>1, <2>2 DEF WInv, WalkTypeOK
  <2>5. WalkApart'
    BY <1>5, <1>6, <1>7, <1>8, <2>3 DEF WInv, WalkApart, Visiting
  <2>6. WalkFits' /\ DiscoveredExactly'
    BY <1>1, <2>2, <2>3 DEF WInv, WalkFits, DiscoveredExactly
  <2>7. WalkCovers'
    <3> SUFFICES ASSUME NEW x \in stayed', Reachable(x)',
                        ~\E i \in DOMAIN walk.found : walk.found[i].path = x
                 PROVE  ToReach(x)'
      BY <2>3 DEF WalkCovers
    <3>1. CASE x \in Below(d) /\ x # d
      <4>1. PICK c \in Children(d) : x \in Below(c)
        BY <1>2, <3>1, BelowChild
      <4>2. c \in Dir /\ c \in Below(d) /\ c # d
        BY <1>2, <4>1, BelowClosed, NotInItself DEF Children, Closed
      <4>3. c \in present
        BY <1>1, <4>1, <4>2, GoneBelow DEF WInv, WalkTypeOK
      <4>4. NameOf[c] \notin Skipped
        BY <1>2, <1>3, <3>1, <4>1, <4>2 DEF Reachable
      <4>5. c \in entered
        BY <4>1, <4>3, <4>4
      <4> QED BY <2>2, <2>3, <4>1, <4>5 DEF ToReach
    <3>2. CASE x = d
      BY <2>3, <3>2 DEF ToReach, Visiting
    <3>3. CASE x \notin Below(d)
      BY <1>3, <2>3, <3>3 DEF ToReach
    <3> QED BY <3>1, <3>2, <3>3
  <2> QED BY <1>4, <2>4, <2>5, <2>6, <2>7 DEF WInv
<1> QED BY <1>9, <1>10

(* A directory that is no repository is entered. *)
LEMMA LookForGitStep == ASSUME WInv, LookForGit PROVE WInv'
<1> DEFINE d == walk.at
           s == walk.inside \o walk.stack
           n == Len(walk.inside)
<1>1. /\ walk.pc = "look" /\ UNCHANGED <<present, git, stayed, ever, file>>
      /\ d \in Dir /\ walk.inside \in Seq(Dir) /\ walk.stack \in Seq(Dir)
  BY DEF LookForGit, treevars, WInv, WalkTypeOK
<1>2. InPresent'
  BY <1>1 DEF WInv, InPresent
<1>3. CASE d \in git
  <2>1. /\ walk' = [walk EXCEPT !.pc = "remote"]
        /\ walk'.stack = walk.stack /\ walk'.pc = "remote" /\ walk'.found = walk.found
        /\ walk'.at = d /\ walk'.inside = walk.inside
    BY <1>1, <1>3 DEF LookForGit, WInv, WalkTypeOK
  <2>2. WalkTypeOK'
    BY <1>1, <2>1 DEF WInv, WalkTypeOK
  <2>3. WalkApart'
    BY <1>1, <2>1 DEF WInv, WalkApart, Visiting
  <2>4. WalkFits' /\ DiscoveredExactly'
    BY <1>1, <1>3, <2>1 DEF WInv, WalkFits, DiscoveredExactly
  <2>5. WalkCovers'
    <3> SUFFICES ASSUME NEW x \in stayed', Reachable(x)'
                 PROVE  ToReach(x)' \/ \E i \in DOMAIN walk'.found : walk'.found[i].path = x
      BY DEF WalkCovers
    <3>1. x \in stayed /\ x \in Dir
      BY <1>1 DEF WInv, WalkTypeOK
    <3>2. Reachable(x)
      BY <1>1, <3>1, ReachableBefore
    <3>3. d \in ever
      BY <1>1, <1>3 DEF WInv, WalkFits
    <3>4. ASSUME NEW i \in DOMAIN walk.inside, x \in Below(walk.inside[i]) PROVE FALSE
      <4>1. walk.inside[i] \in Children(d)
        BY <1>1 DEF WInv, WalkFits
      <4>2. x \in Below(d) /\ x # d
        BY <1>1, <3>4, <4>1, BelowClosed, BelowTransitive, NotInItself DEF Children, Closed
      <4> QED BY <1>1, <3>2, <3>3, <4>2 DEF Reachable
    <3> QED BY <1>1, <2>1, <3>1, <3>2, <3>4 DEF WInv, WalkCovers, ToReach, Visiting
  <2> QED BY <1>2, <2>2, <2>3, <2>4, <2>5 DEF WInv
<1>4. CASE d \notin git
  <2>1. /\ walk' = [walk EXCEPT !.pc = "list", !.stack = s]
        /\ walk'.stack = s /\ walk'.pc = "list" /\ walk'.found = walk.found
    BY <1>1, <1>4 DEF LookForGit, WInv, WalkTypeOK
  <2>2. /\ s \in Seq(Dir) /\ n \in Nat
        /\ \A i \in DOMAIN s : \/ i \in DOMAIN walk.inside /\ s[i] = walk.inside[i]
                               \/ i - n \in DOMAIN walk.stack /\ s[i] = walk.stack[i - n]
        /\ \A i \in DOMAIN walk.inside : i \in DOMAIN s /\ s[i] = walk.inside[i]
        /\ \A i \in DOMAIN walk.stack : i + n \in DOMAIN s /\ s[i + n] = walk.stack[i]
    <3>1. /\ Len(walk.stack) \in Nat /\ DOMAIN walk.stack = 1..Len(walk.stack)
          /\ n \in Nat /\ DOMAIN walk.inside = 1..n
      BY <1>1
    <3>2. /\ s \in Seq(Dir) /\ Len(s) = n + Len(walk.stack)
          /\ \A i \in 1..(n + Len(walk.stack)) :
               s[i] = IF i <= n THEN walk.inside[i] ELSE walk.stack[i - n]
      BY <1>1, ConcatProperties
    <3>3. DOMAIN s = 1..(n + Len(walk.stack))
      BY <3>1, <3>2
    <3> HIDE DEF s, n
    <3> QED BY <3>1, <3>2, <3>3
  <2>3. \A i \in DOMAIN s : i \in Nat
    BY <2>2
  <2> HIDE DEF s, n
  <2>4. WalkTypeOK'
    BY <1>1, <2>1, <2>2 DEF WInv, WalkTypeOK
  <2>5. \A i \in DOMAIN walk.inside : walk.inside[i] \in Children(d)
    BY <1>1 DEF WInv, WalkFits
  <2>6. WalkApart'
    <3>1. \A i \in DOMAIN walk.stack, j \in DOMAIN walk.inside : Apart(walk.stack[i], walk.inside[j])
      BY <1>1, <2>5, ChildApart DEF WInv, WalkApart, Visiting
    <3>2. \A i \in DOMAIN walk.found, j \in DOMAIN walk.inside : Apart(walk.found[i].path, walk.inside[j])
      <4> TAKE i \in DOMAIN walk.found, j \in DOMAIN walk.inside
      <4>1. walk.found[i].path \in Dir
        BY EntryPath DEF WInv, WalkTypeOK
      <4>2. Apart(walk.found[i].path, d)
        BY <1>1 DEF WInv, WalkApart, Visiting
      <4> QED BY <1>1, <2>5, <4>1, <4>2, ChildApart
    <3>3. \A i, j \in DOMAIN walk.inside : i # j => Apart(walk.inside[i], walk.inside[j])
      BY <1>1, <2>5, SiblingsApart DEF WInv, WalkFits
    <3>4. \A i, j \in DOMAIN s : i # j => Apart(s[i], s[j])
      <4> TAKE i, j \in DOMAIN s
      <4> HAVE i # j
      <4>1. CASE i \in DOMAIN walk.inside /\ s[i] = walk.inside[i] /\ j \in DOMAIN walk.inside /\ s[j] = walk.inside[j]
        BY <3>3, <4>1
      <4>2. CASE /\ i \in DOMAIN walk.inside /\ s[i] = walk.inside[i]
                 /\ j - n \in DOMAIN walk.stack /\ s[j] = walk.stack[j - n]
        BY <3>1, <4>2 DEF Apart
      <4>3. CASE /\ j \in DOMAIN walk.inside /\ s[j] = walk.inside[j]
                 /\ i - n \in DOMAIN walk.stack /\ s[i] = walk.stack[i - n]
        BY <3>1, <4>3 DEF Apart
      <4>4. CASE /\ j - n \in DOMAIN walk.stack /\ s[j] = walk.stack[j - n]
                 /\ i - n \in DOMAIN walk.stack /\ s[i] = walk.stack[i - n]
        <5>1. i - n # j - n
          BY <2>2, <2>3
        <5> QED BY <4>4, <5>1 DEF WInv, WalkApart
      <4> QED BY <2>2, <4>1, <4>2, <4>3, <4>4
    <3>5. \A i \in DOMAIN s, j \in DOMAIN walk.found : Apart(s[i], walk.found[j].path)
      <4>1. \A i \in DOMAIN walk.stack, j \in DOMAIN walk.found : Apart(walk.stack[i], walk.found[j].path)
        BY DEF WInv, WalkApart
      <4> QED BY <2>2, <3>2, <4>1 DEF Apart
    <3> QED BY <2>1, <3>4, <3>5 DEF WInv, WalkApart, Visiting
  <2>7. WalkFits' /\ DiscoveredExactly'
    BY <1>1, <2>1 DEF WInv, WalkFits, DiscoveredExactly
  <2>8. WalkCovers'
    <3> SUFFICES ASSUME NEW x \in stayed', Reachable(x)',
                        ~\E i \in DOMAIN walk.found : walk.found[i].path = x
                 PROVE  \E i \in DOMAIN s : x \in Below(s[i])
      BY <2>1 DEF WalkCovers, ToReach
    <3>1. x \in stayed /\ x \in Dir /\ x # d
      BY <1>1, <1>4 DEF WInv, WalkTypeOK
    <3>2. Reachable(x)
      BY <1>1, <3>1, ReachableBefore
    <3>3. \/ \E i \in DOMAIN walk.stack : x \in Below(walk.stack[i])
          \/ \E i \in DOMAIN walk.inside : x \in Below(walk.inside[i])
      BY <1>1, <3>1, <3>2 DEF WInv, WalkCovers, ToReach
    <3> QED BY <2>2, <3>3
  <2> QED BY <1>2, <2>4, <2>6, <2>7, <2>8 DEF WInv
<1> QED BY <1>3, <1>4

(* A repository is found. *)
LEMMA AskRemoteStep == ASSUME WInv, AskRemote PROVE WInv'
<1> DEFINE e == RepoSpec(NameOf[walk.at], walk.at)
           f == Append(walk.found, e)
           m == Len(walk.found)
<1>1. /\ walk.pc = "remote" /\ UNCHANGED <<present, git, stayed, ever, file>>
      /\ walk.at \in Dir /\ walk.found \in Seq(Entry)
  BY DEF AskRemote, treevars, WInv, WalkTypeOK
<1>2. e \in Entry /\ e.path = walk.at
  BY <1>1, EntryOf
<1> HIDE DEF e
<1>3. /\ f \in Seq(Entry) /\ m + 1 \in DOMAIN f /\ f[m + 1] = e
      /\ \A i \in DOMAIN f : i = m + 1 \/ (i \in DOMAIN walk.found /\ f[i] = walk.found[i])
      /\ \A i \in DOMAIN walk.found : i \in DOMAIN f /\ f[i] = walk.found[i]
  BY <1>1, <1>2
<1>4. /\ walk' = [walk EXCEPT !.pc = "list", !.found = f]
      /\ walk'.stack = walk.stack /\ walk'.pc = "list" /\ walk'.found = f
  BY <1>1 DEF AskRemote, WInv, WalkTypeOK, e
<1> HIDE DEF f, m
<1>5. WalkTypeOK' /\ InPresent'
  BY <1>1, <1>3, <1>4 DEF WInv, WalkTypeOK, InPresent
<1>6. WalkApart'
  <2>1. /\ \A i \in DOMAIN walk.stack : Apart(walk.stack[i], walk.at)
        /\ \A i \in DOMAIN walk.found : Apart(walk.found[i].path, walk.at)
    BY <1>1 DEF WInv, WalkApart, Visiting
  <2>2. \A i, j \in DOMAIN f : i # j => Apart(f[i].path, f[j].path)
    BY <1>2, <1>3, <2>1 DEF WInv, WalkApart, Apart
  <2>3. \A i \in DOMAIN walk.stack, j \in DOMAIN f : Apart(walk.stack[i], f[j].path)
    BY <1>2, <1>3, <2>1 DEF WInv, WalkApart
  <2> QED BY <1>4, <2>2, <2>3 DEF WInv, WalkApart, Visiting
<1>7. WalkFits' /\ DiscoveredExactly'
  BY <1>1, <1>2, <1>3, <1>4 DEF WInv, WalkFits, DiscoveredExactly
<1>8. WalkCovers'
  <2> SUFFICES ASSUME NEW x \in stayed', Reachable(x)'
               PROVE  ToReach(x)' \/ \E i \in DOMAIN f : f[i].path = x
    BY <1>4 DEF WalkCovers
  <2>1. x \in stayed /\ x \in Dir
    BY <1>1 DEF WInv, WalkTypeOK
  <2>2. Reachable(x)
    BY <1>1, <2>1, ReachableBefore
  <2>3. \/ \E i \in DOMAIN walk.stack : x \in Below(walk.stack[i])
        \/ x = walk.at \/ \E i \in DOMAIN walk.found : walk.found[i].path = x
    BY <1>1, <2>1, <2>2 DEF WInv, WalkCovers, ToReach
  <2> QED BY <1>2, <1>3, <1>4, <2>3 DEF ToReach
<1> QED BY <1>5, <1>6, <1>7, <1>8 DEF WInv

(* The workspace file lists what was found. *)
LEMMA ByNameOf ==
  ASSUME NEW repos \in Seq(Entry)
  PROVE  /\ ByName(repos) \in Seq(Entry) /\ DOMAIN ByName(repos) = DOMAIN repos
         /\ \E e \in [DOMAIN repos -> DOMAIN repos] :
              /\ \A k \in DOMAIN repos : ByName(repos)[k] = repos[e[k]]
              /\ \A i \in DOMAIN repos : \E k \in DOMAIN repos : e[k] = i
              /\ \A k, l \in DOMAIN repos : e[k] = e[l] => k = l
<1> DEFINE B == {p \in (DOMAIN repos) \X (DOMAIN repos) : repos[p[1]].name < repos[p[2]].name}
<1>1. \A i \in DOMAIN repos : repos[i].name \in Nat
  <2>1. \A d \in Dir : NameOf[d] \in Nat
    BY NameAssumption, TreeAssumption
  <2>2. \A r \in Entry : r.name \in Nat
    BY <2>1 DEF Entry, RepoSpec
  <2> QED BY <2>2
<1>2. WeakOn(DOMAIN repos, B)
  <2>1. \A i, j \in DOMAIN repos : <<i, j>> \in B <=> repos[i].name < repos[j].name
    OBVIOUS
  <2> HIDE DEF B
  <2> QED BY <1>1, <2>1 DEF WeakOn
<1>3. ByName(repos) = StablySorted(repos, B)
  BY DEF ByName
<1> HIDE DEF B
<1>4. PICK e : PlacesOf(e, repos, B)
  BY <1>2, StablySortedOf
<1>5. /\ StablySorted(repos, B) \in Seq(Entry)
      /\ DOMAIN StablySorted(repos, B) = DOMAIN repos
  BY <1>2, StablySortedOf
<1>6. /\ e \in [DOMAIN repos -> DOMAIN repos]
      /\ \A k \in DOMAIN repos : ByName(repos)[k] = repos[e[k]]
      /\ \A i \in DOMAIN repos : \E k \in DOMAIN repos : e[k] = i
      /\ \A k, l \in DOMAIN repos : e[k] = e[l] => k = l
  BY <1>3, <1>4 DEF PlacesOf
<1>7. ByName(repos) \in Seq(Entry) /\ DOMAIN ByName(repos) = DOMAIN repos
  BY <1>3, <1>5
<1> HIDE <1>3, <1>4, <1>5
<1>8. \E e2 \in [DOMAIN repos -> DOMAIN repos] :
        /\ \A k \in DOMAIN repos : ByName(repos)[k] = repos[e2[k]]
        /\ \A i \in DOMAIN repos : \E k \in DOMAIN repos : e2[k] = i
        /\ \A k, l \in DOMAIN repos : e2[k] = e2[l] => k = l
  <2> USE <1>6
  <2> WITNESS e \in [DOMAIN repos -> DOMAIN repos]
  <2> QED OBVIOUS
<1> QED BY <1>7, <1>8

LEMMA SaveWorkspaceStep == ASSUME WInv, SaveWorkspace PROVE WInv'
<1>1. /\ walk.pc = "list" /\ walk.stack = <<>> /\ walk' = [walk EXCEPT !.pc = "saved"]
      /\ file' = ByName(walk.found) /\ UNCHANGED <<present, git, stayed, ever>>
      /\ walk.found \in Seq(Entry)
  BY DEF SaveWorkspace, treevars, WInv, WalkTypeOK
<1>2. walk'.pc = "saved" /\ walk'.stack = walk.stack /\ walk'.found = walk.found
  BY <1>1 DEF WInv, WalkTypeOK
<1>3. WalkTypeOK' /\ InPresent'
  BY <1>1, ByNameOf DEF WInv, WalkTypeOK, InPresent
<1>4. WalkApart' /\ WalkFits'
  BY <1>1, <1>2 DEF WInv, WalkApart, WalkFits, Visiting
<1>5. ASSUME NEW x \in stayed, Reachable(x)
      PROVE  \E i \in DOMAIN walk.found : walk.found[i].path = x
  BY <1>1, <1>5 DEF WInv, WalkCovers, ToReach, Visiting
<1>6. \A x \in stayed' : x \in stayed /\ (Reachable(x)' => Reachable(x))
  BY <1>1, ReachableBefore DEF WInv, WalkTypeOK
<1>7. WalkCovers'
  BY <1>2, <1>5, <1>6 DEF WalkCovers
<1>8. DiscoveredExactly'
  <2>1. PICK e \in [DOMAIN walk.found -> DOMAIN walk.found] :
          /\ \A k \in DOMAIN walk.found : ByName(walk.found)[k] = walk.found[e[k]]
          /\ \A i \in DOMAIN walk.found : \E k \in DOMAIN walk.found : e[k] = i
          /\ \A k, l \in DOMAIN walk.found : e[k] = e[l] => k = l
    BY <1>1, ByNameOf
  <2>2. DOMAIN file' = DOMAIN walk.found /\ \A k \in DOMAIN walk.found : file'[k] = walk.found[e[k]]
    BY <1>1, <2>1, ByNameOf
  <2>3. \A d \in stayed' : Reachable(d)' => \E i \in DOMAIN file' : file'[i].path = d
    BY <1>5, <1>6, <2>1, <2>2
  <2>4. \A i, j \in DOMAIN file' : i # j => Apart(file'[i].path, file'[j].path)
    BY <2>1, <2>2 DEF WInv, WalkApart
  <2>5. \A i \in DOMAIN file' : file'[i].path \in ever' /\ file'[i].path \in Dir
    <3>1. \A i \in DOMAIN walk.found : walk.found[i].path \in ever /\ ever \subseteq Dir
      BY DEF WInv, WalkFits, WalkTypeOK
    <3>2. \A i \in DOMAIN file' : e[i] \in DOMAIN walk.found /\ file'[i] = walk.found[e[i]]
      BY <2>2
    <3> QED BY <1>1, <3>1, <3>2
  <2>6. \A i, j \in DOMAIN file' : file'[i].path = file'[j].path => i = j
    BY <2>4, <2>5, BelowClosed DEF Apart
  <2> QED BY <2>3, <2>4, <2>5, <2>6 DEF DiscoveredExactly, Apart
<1> QED BY <1>3, <1>4, <1>7, <1>8 DEF WInv

(* What leaves the walk alone, and a git that raises. *)
LEMMA OtherWalkSteps == ASSUME WInv, RemoteRaises \/ Route \/ Graph \/ UNCHANGED discoveryvars PROVE WInv'
<1>1. CASE RemoteRaises
  <2>1. /\ walk' = [walk EXCEPT !.pc = "failed"] /\ UNCHANGED <<present, git, stayed, ever, file>>
    BY <1>1 DEF RemoteRaises, treevars
  <2>2. walk'.pc = "failed" /\ walk'.stack = walk.stack /\ walk'.found = walk.found
    BY <2>1 DEF WInv, WalkTypeOK
  <2>3. WalkTypeOK' /\ InPresent'
    BY <2>1 DEF WInv, WalkTypeOK, InPresent
  <2>4. WalkApart' /\ WalkFits' /\ WalkCovers' /\ DiscoveredExactly'
    BY <2>1, <2>2 DEF WInv, WalkApart, WalkFits, WalkCovers, DiscoveredExactly, Visiting
  <2> QED BY <2>3, <2>4 DEF WInv
<1>2. CASE Route \/ Graph \/ UNCHANGED discoveryvars
  <2>1. UNCHANGED <<present, git, walk, stayed, ever, file>>
    BY <1>2 DEF Route, Graph, discoveryvars, treevars, walkvars
  <2>2. WalkTypeOK' /\ InPresent' /\ WalkApart' /\ WalkFits'
    BY <2>1 DEF WInv, WalkTypeOK, InPresent, WalkApart, WalkFits, Visiting
  <2>3. WalkCovers' /\ DiscoveredExactly'
    BY <2>1 DEF WInv, WalkCovers, ToReach, Visiting, Reachable, DiscoveredExactly
  <2> QED BY <2>2, <2>3 DEF WInv
<1> QED BY <1>1, <1>2

LEMMA NextWInv == WInv /\ [DiscoveryNext]_discoveryvars => WInv'
BY OwnersStep, BeginWalkStep, ListDirectoryStep, LookForGitStep, AskRemoteStep,
   SaveWorkspaceStep, OtherWalkSteps DEF DiscoveryNext

-----------------------------------------------------------------------------
(* Two lists of the same things in one strict order are one list. *)
StrictOn(S, R) ==
  /\ \A x \in S : <<x, x>> \notin R
  /\ \A x, y, z \in S : <<x, y>> \in R /\ <<y, z>> \in R => <<x, z>> \in R

Ascending(s, n, S, R) ==
  /\ \A k \in 1..n : s[k] \in S
  /\ \A k, l \in 1..n : k < l => <<s[k], s[l]>> \in R

Occur(s, t, n) == \A k \in 1..n : \E l \in 1..n : t[l] = s[k]

LEMMA OneOrder ==
  ASSUME NEW n \in Nat, NEW S, NEW R, NEW s, NEW t,
         StrictOn(S, R), Ascending(s, n, S, R), Ascending(t, n, S, R),
         Occur(s, t, n), Occur(t, s, n)
  PROVE  \A k \in 1..n : s[k] = t[k]
<1> DEFINE Differ == {k \in 1..n : s[k] # t[k]}
<1>0. Differ \in SUBSET Nat
  OBVIOUS
<1> SUFFICES ASSUME Differ # {} PROVE FALSE
  OBVIOUS
<1>1. PICK k \in Differ : \A m \in Differ : k <= m
  <2> HIDE DEF Differ
  <2> QED BY <1>0, NatMin
<1>2. \A m \in 1..(k - 1) : m \in 1..n /\ s[m] = t[m]
  BY <1>1
<1>n. k \in 1..n /\ s[k] # t[k]
  BY <1>1
<1>3. PICK l \in 1..n : t[l] = s[k]
  BY <1>n DEF Occur
<1>4. PICK m \in 1..n : s[m] = t[k]
  BY <1>n DEF Occur
<1> HIDE DEF Differ
<1>5. k < l
  <2>1. ASSUME l < k PROVE FALSE
    <3>1. l \in 1..(k - 1)
      BY <1>n, <2>1
    <3>2. s[l] = s[k] /\ s[k] \in S /\ <<s[l], s[k]>> \in R
      BY <1>2, <1>3, <1>n, <2>1, <3>1 DEF Ascending
    <3> QED BY <3>2 DEF StrictOn
  <2>2. k # l
    BY <1>n, <1>3
  <2> QED BY <1>n, <2>1, <2>2
<1>6. k < m
  <2>1. ASSUME m < k PROVE FALSE
    <3>1. m \in 1..(k - 1)
      BY <1>n, <2>1
    <3>2. t[m] = t[k] /\ t[k] \in S /\ <<t[m], t[k]>> \in R
      BY <1>2, <1>4, <1>n, <2>1, <3>1 DEF Ascending
    <3> QED BY <3>2 DEF StrictOn
  <2>2. k # m
    BY <1>n, <1>4
  <2> QED BY <1>n, <2>1, <2>2
<1>7. <<t[k], s[k]>> \in R /\ <<s[k], t[k]>> \in R
  BY <1>n, <1>3, <1>4, <1>5, <1>6 DEF Ascending
<1> QED BY <1>n, <1>7 DEF Ascending, StrictOn

(* What a repository scores is a number. *)
LEMMA MatchesType ==
  ASSUME NEW T, NEW terms \in Seq(T), NEW found
  PROVE  Matches(terms, found) \in Nat
<1> DEFINE hits == {i \in DOMAIN terms : terms[i] \in found}
<1>1. IsFiniteSet(1..Len(terms)) /\ DOMAIN terms = 1..Len(terms)
  BY FS_Interval
<1>2. IsFiniteSet(hits)
  BY <1>1, FS_Subset, hits \in SUBSET (1..Len(terms))
<1> QED BY <1>2, FS_CardinalityType DEF Matches

LEMMA OverlapType ==
  ASSUME NEW T, NEW roles \in Seq(T), NEW found, \A i \in DOMAIN roles : IsFiniteSet(roles[i])
  PROVE  Overlap(roles, found) \in Nat
<1> DEFINE hits == [i \in 1..Len(roles) |-> {i} \X (roles[i] \cap found)]
           parts == {{i} \X (roles[i] \cap found) : i \in DOMAIN roles}
<1>1. IsFiniteSet(1..Len(roles)) /\ DOMAIN roles = 1..Len(roles)
  BY FS_Interval
<1>2. \A i \in 1..Len(roles) : IsFiniteSet({i} \X (roles[i] \cap found))
  <2> TAKE i \in 1..Len(roles)
  <2>1. IsFiniteSet(roles[i] \cap found)
    BY <1>1, FS_Subset, (roles[i] \cap found) \in SUBSET roles[i]
  <2>2. IsFiniteSet({i})
    BY FS_Singleton
  <2> QED BY <2>1, <2>2, FS_Product
<1>3. parts = {hits[i] : i \in 1..Len(roles)}
  BY <1>1
<1>4. hits \in Surjection(1..Len(roles), parts)
  BY <1>3 DEF Surjection
<1>5. IsFiniteSet(parts)
  BY <1>1, <1>4, FS_Surjection
<1>6. IsFiniteSet(UNION parts)
  BY <1>1, <1>2, <1>5, FS_UNION
<1> QED BY <1>6, FS_CardinalityType DEF Overlap

LEMMA ScoreType ==
  ASSUME NEW repo \in Entry, NEW query
  PROVE  Score(repo, query) \in Int
<1>1. PICK d \in Dir : repo = RepoSpec(NameOf[d], d)
  BY DEF Entry
<1> DEFINE name == NameOf[d]
<1>2. /\ repo.name = name /\ repo.keywords = Keywords(name) /\ repo.roles = Roles(name)
      /\ repo.docs = <<Readme>>
  BY <1>1 DEF RepoSpec
<1> HIDE DEF name
<1>3. Matches(repo.docs, query.text) \in Nat
  BY <1>2, MatchesType, <<Readme>> \in Seq({Readme})
<1>4. Matches(repo.keywords, query.words \cup query.text) \in Nat
  <2>1. CASE name \notin DOMAIN Catalogue
    BY <1>2, <2>1, MatchesType, <<name>> \in Seq({name}) DEF Keywords
  <2>2. CASE name \in DOMAIN Catalogue
    <3> DEFINE known == Catalogue[name].keywords
               T == ToSet(known) \cup {name}
    <3>1. known \in Seq(ToSet(known))
      BY <2>2, CatalogueAssumption
    <3>2. known \in Seq(T) /\ Append(known, name) \in Seq(T)
      <4> HIDE DEF known
      <4> QED BY <3>1
    <3>3. repo.keywords \in Seq(T)
      BY <1>2, <2>2, <3>2 DEF Keywords
    <3> QED BY <3>3, MatchesType
  <2> QED BY <2>1, <2>2
<1>5. Overlap(repo.roles, query.words) \in Nat
  <2>1. CASE name \notin DOMAIN Catalogue
    <3>1. repo.roles = <<{Repository}>> /\ <<{Repository}>> \in Seq({{Repository}})
      BY <1>2, <2>1 DEF Roles
    <3>2. \A i \in DOMAIN repo.roles : repo.roles[i] = {Repository}
      BY <3>1
    <3>3. \A i \in DOMAIN repo.roles : IsFiniteSet(repo.roles[i])
      BY <3>2, FS_Singleton
    <3> QED BY <3>1, <3>3, OverlapType
  <2>2. CASE name \in DOMAIN Catalogue
    <3> DEFINE known == Catalogue[name].roles
    <3>1. known \in Seq(ToSet(known)) /\ \A role \in ToSet(known) : IsFiniteSet(role)
      BY <2>2, CatalogueAssumption
    <3>2. repo.roles = known
      BY <1>2, <2>2 DEF Roles
    <3>3. \A i \in DOMAIN known : IsFiniteSet(known[i])
      BY <3>1 DEF ToSet
    <3> HIDE DEF known
    <3> QED BY <3>1, <3>2, <3>3, OverlapType
  <2> QED BY <2>1, <2>2
<1> HIDE <1>2
<1> DEFINE a == Matches(repo.keywords, query.words \cup query.text)
           b == Overlap(repo.roles, query.words)
           c == Matches(repo.docs, query.text)
<1>6. Score(repo, query) = (IF repo.name \in query.text THEN 8 ELSE 0) + 4 * a + 2 * b + 3 * c
  BY DEF Score
<1> HIDE DEF a, b, c
<1>7. a \in Nat /\ b \in Nat /\ c \in Nat
  BY <1>3, <1>4, <1>5 DEF a, b, c
<1> QED BY <1>6, <1>7

(* The rows of an answer, best first. *)
Row == [name : Nat, path : Dir, score : Int]

LEMMA ScoredOf ==
  ASSUME NEW repos \in Seq(Entry), NEW query
  PROVE  /\ Scored(repos, query) \in Seq(Row) /\ DOMAIN Scored(repos, query) = DOMAIN repos
         /\ \A i \in DOMAIN repos :
              Scored(repos, query)[i] = [name |-> repos[i].name, path |-> repos[i].path,
                                         score |-> Score(repos[i], query)]
<1> DEFINE row(i) == [name |-> repos[i].name, path |-> repos[i].path, score |-> Score(repos[i], query)]
<1>1. \A i \in DOMAIN repos : row(i) \in Row
  <2> TAKE i \in DOMAIN repos
  <2>1. repos[i] \in Entry
    OBVIOUS
  <2>2. PICK d \in Dir : repos[i] = RepoSpec(NameOf[d], d)
    BY <2>1 DEF Entry
  <2>3. repos[i].name = NameOf[d] /\ repos[i].path = d
    BY <2>2 DEF RepoSpec
  <2>5. NameOf[d] \in Nat
    BY NameAssumption, TreeAssumption
  <2>4. Score(repos[i], query) \in Int
    BY <2>1, ScoreType
  <2> QED BY <2>3, <2>4, <2>5 DEF Row
<1>2. Scored(repos, query) = [i \in DOMAIN repos |-> row(i)]
  BY DEF Scored
<1>3. DOMAIN repos = 1..Len(repos) /\ Len(repos) \in Nat
  OBVIOUS
<1>4. \A i \in DOMAIN repos : Scored(repos, query)[i] = row(i)
  BY <1>2
<1> HIDE DEF row
<1>5. Scored(repos, query) \in Seq(Row)
  BY <1>1, <1>2, <1>3
<1> QED BY <1>2, <1>4, <1>5 DEF row

OncePerName(q) == \A i, j \in DOMAIN q : q[i].name = q[j].name => i = j

RanksOf(q, routes) ==
  /\ q \in [DOMAIN routes -> Row]
  /\ \A k \in DOMAIN routes : \E i \in DOMAIN routes : q[k] = routes[i]
  /\ \A i \in DOMAIN routes : \E k \in DOMAIN routes : q[k] = routes[i]
  /\ \A k, l \in DOMAIN routes : k < l => Better(q[k], q[l])

LEMMA RankedOf ==
  ASSUME NEW routes \in Seq(Row), OncePerName(routes)
  PROVE  RanksOf(Ranked(routes), routes)
<1> DEFINE B == {p \in (DOMAIN routes) \X (DOMAIN routes) : Better(routes[p[1]], routes[p[2]])}
<1>1. \A i \in DOMAIN routes : routes[i].name \in Int /\ routes[i].score \in Int
  <2>1. \A r \in Row : r.name \in Int /\ r.score \in Int
    BY DEF Row
  <2> QED BY <2>1
<1>2. \A i, j \in DOMAIN routes : <<i, j>> \in B <=> Better(routes[i], routes[j])
  OBVIOUS
<1>3. Ranked(routes) = StablySorted(routes, B)
  BY DEF Ranked
<1> HIDE DEF B
<1>4. WeakOn(DOMAIN routes, B)
  <2> DEFINE N == DOMAIN routes
  <2>1. ASSUME NEW x \in N, NEW y \in N, <<x, y>> \in B PROVE <<y, x>> \notin B
    BY <1>1, <1>2, <2>1 DEF Better
  <2>2. ASSUME NEW x \in N, NEW y \in N, NEW z \in N, <<x, y>> \in B
        PROVE  <<x, z>> \in B \/ <<z, y>> \in B
    <3>1. Better(routes[x], routes[y])
      BY <1>2, <2>2
    <3>2. Better(routes[x], routes[z]) \/ Better(routes[z], routes[y])
      BY <1>1, <3>1 DEF Better
    <3> QED BY <1>2, <3>2
  <2> QED BY <2>1, <2>2 DEF WeakOn
<1>0. PICK e : PlacesOf(e, routes, B)
  BY <1>4, StablySortedOf
<1>5. /\ e \in [DOMAIN routes -> DOMAIN routes]
      /\ \A k \in DOMAIN routes : StablySorted(routes, B)[k] = routes[e[k]]
      /\ \A i \in DOMAIN routes : \E k \in DOMAIN routes : e[k] = i
      /\ \A k, l \in DOMAIN routes : k < l => <<e[l], e[k]>> \notin B
      /\ \A k, l \in DOMAIN routes : e[k] = e[l] => k = l
  BY <1>0 DEF PlacesOf
<1>6. StablySorted(routes, B) \in Seq(Row) /\ DOMAIN StablySorted(routes, B) = DOMAIN routes
  BY <1>4, StablySortedOf
<1>7. Ranked(routes) \in [DOMAIN routes -> Row]
  <2>1. Ranked(routes) \in Seq(Row) /\ DOMAIN Ranked(routes) = DOMAIN routes
    BY <1>3, <1>6
  <2> QED BY <2>1
<1>8. \A k \in DOMAIN routes : e[k] \in DOMAIN routes /\ Ranked(routes)[k] = routes[e[k]]
  BY <1>3, <1>5
<1>9. ASSUME NEW k \in DOMAIN routes, NEW l \in DOMAIN routes, k < l
      PROVE  Better(Ranked(routes)[k], Ranked(routes)[l])
  <2>1. e[k] # e[l] /\ ~Better(routes[e[l]], routes[e[k]])
    <3>1. k # l
      BY <1>9
    <3> QED BY <1>2, <1>5, <1>9, <3>1
  <2>2. e[k] \in DOMAIN routes /\ e[l] \in DOMAIN routes
    BY <1>8
  <2>3. routes[e[k]].name # routes[e[l]].name
    BY <2>1, <2>2 DEF OncePerName
  <2>4. /\ routes[e[k]].name \in Int /\ routes[e[k]].score \in Int
        /\ routes[e[l]].name \in Int /\ routes[e[l]].score \in Int
    BY <1>1, <2>2
  <2>5. Better(routes[e[k]], routes[e[l]])
    BY <2>1, <2>3, <2>4 DEF Better
  <2> QED BY <1>8, <2>5
<1> QED BY <1>5, <1>7, <1>8, <1>9 DEF RanksOf

(* Another order of a workspace's entries. *)
LEMMA OtherOrderOf ==
  ASSUME NEW repos \in Seq(Entry), NEW other \in SetToSeqs(ToSet(repos)),
         \A i, j \in DOMAIN repos : repos[i].name = repos[j].name => i = j
  PROVE  /\ other \in Seq(Entry) /\ DOMAIN other = DOMAIN repos
         /\ \A i \in DOMAIN repos : \E j \in DOMAIN repos : other[j] = repos[i]
         /\ \A i \in DOMAIN repos : \E j \in DOMAIN repos : other[i] = repos[j]
         /\ \A i, j \in DOMAIN repos : other[i].name = other[j].name => i = j
<1> DEFINE S == ToSet(repos)
<1>1. Len(repos) \in Nat /\ DOMAIN repos = 1..Len(repos) /\ repos \in [1..Len(repos) -> S]
  BY DEF ToSet
<1>2. IsFiniteSet(1..Len(repos)) /\ Cardinality(1..Len(repos)) = Len(repos)
  BY <1>1, FS_Interval
<1>3. repos \in Injection(1..Len(repos), S) /\ repos \in Surjection(1..Len(repos), S)
  BY <1>1 DEF Injection, IsInjective, Surjection, ToSet
<1>4. IsFiniteSet(S) /\ Cardinality(S) = Len(repos)
  BY <1>2, <1>3, FS_Surjection
<1>5. S \in SUBSET Entry
  BY DEF ToSet
<1> HIDE DEF S
<1>6. /\ other \in Seq(Entry) /\ DOMAIN other = 1..Cardinality(S) /\ \A i \in DOMAIN other : other[i] \in S
      /\ \A i, j \in DOMAIN other : other[i] = other[j] => i = j
      /\ \A x \in S : \E i \in DOMAIN other : other[i] = x
  BY <1>4, <1>5, SetToSeqsOf DEF S
<1>7. \A x \in S : \E i \in DOMAIN repos : repos[i] = x
  BY DEF S, ToSet
<1>8. \A i \in DOMAIN repos : repos[i] \in S
  BY <1>1
<1>9. DOMAIN other = DOMAIN repos
  BY <1>1, <1>4, <1>6
<1>10. \A i \in DOMAIN repos : \E j \in DOMAIN repos : other[j] = repos[i]
  BY <1>6, <1>8, <1>9
<1>11. \A i \in DOMAIN repos : \E j \in DOMAIN repos : other[i] = repos[j]
  BY <1>6, <1>7, <1>9
<1>12. ASSUME NEW i \in DOMAIN repos, NEW j \in DOMAIN repos, other[i].name = other[j].name PROVE i = j
  <2>1. PICK k \in DOMAIN repos : other[i] = repos[k]
    BY <1>11
  <2>2. PICK l \in DOMAIN repos : other[j] = repos[l]
    BY <1>11
  <2>3. other[i] = other[j]
    BY <1>12, <2>1, <2>2
  <2> QED BY <1>6, <1>9, <2>3
<1> QED BY <1>6, <1>9, <1>10, <1>11, <1>12

(* A route is the same for every order of the entries. *)
LEMMA RouteOrderFree ==
  ASSUME NEW repos \in Seq(Entry), NEW other \in SetToSeqs(ToSet(repos)), NEW query, NEW limit,
         \A i, j \in DOMAIN repos : repos[i].name = repos[j].name => i = j
  PROVE  RouteChange(repos, query, limit) = RouteChange(other, query, limit)
<1> DEFINE R == {p \in Row \X Row : Better(p[1], p[2])}
<1>1. PICK n \in Nat : DOMAIN repos = 1..n
  BY Len(repos) \in Nat /\ DOMAIN repos = 1..Len(repos)
<1>o. other \in Seq(Entry) /\ DOMAIN other = 1..n
  BY <1>1, OtherOrderOf
<1>2. /\ \A i \in 1..n : \E j \in 1..n : other[j] = repos[i]
      /\ \A i \in 1..n : \E j \in 1..n : other[i] = repos[j]
      /\ \A i, j \in 1..n : other[i].name = other[j].name => i = j
  <2>1. /\ other \in Seq(Entry) /\ DOMAIN other = DOMAIN repos
        /\ \A i \in DOMAIN repos : \E j \in DOMAIN repos : other[j] = repos[i]
        /\ \A i \in DOMAIN repos : \E j \in DOMAIN repos : other[i] = repos[j]
        /\ \A i, j \in DOMAIN repos : other[i].name = other[j].name => i = j
    BY OtherOrderOf
  <2> QED BY <1>1, <2>1
<1>h. PICK here \in Seq(Row) :
        /\ here = Scored(repos, query) /\ DOMAIN here = DOMAIN repos
        /\ \A i \in DOMAIN repos : here[i] = [name |-> repos[i].name, path |-> repos[i].path,
                                              score |-> Score(repos[i], query)]
  BY ScoredOf
<1>t. PICK there \in Seq(Row) :
        /\ there = Scored(other, query) /\ DOMAIN there = DOMAIN other
        /\ \A i \in DOMAIN other : there[i] = [name |-> other[i].name, path |-> other[i].path,
                                               score |-> Score(other[i], query)]
  BY <1>o, ScoredOf
<1>r. PICK s, t : s = Ranked(here) /\ t = Ranked(there)
  OBVIOUS
<1>3. /\ here \in Seq(Row) /\ DOMAIN here = 1..n
      /\ \A i \in 1..n : here[i].name = repos[i].name
  BY <1>1, <1>h
<1>4. /\ there \in Seq(Row) /\ DOMAIN there = 1..n
      /\ \A i \in 1..n : there[i].name = other[i].name
  BY <1>o, <1>t
<1>5. /\ \A i \in 1..n : \E j \in 1..n : here[i] = there[j]
      /\ \A i \in 1..n : \E j \in 1..n : there[i] = here[j]
  <2>1. /\ \A i \in 1..n : here[i] = [name |-> repos[i].name, path |-> repos[i].path,
                                      score |-> Score(repos[i], query)]
        /\ \A i \in 1..n : there[i] = [name |-> other[i].name, path |-> other[i].path,
                                       score |-> Score(other[i], query)]
    BY <1>1, <1>o, <1>h, <1>t
  <2>2. ASSUME NEW i \in 1..n, NEW j \in 1..n, other[j] = repos[i] PROVE there[j] = here[i]
    BY <2>1, <2>2
  <2>3. ASSUME NEW i \in 1..n PROVE \E j \in 1..n : here[i] = there[j]
    <3>1. PICK j \in 1..n : other[j] = repos[i]
      BY <1>2
    <3> QED BY <2>2, <3>1
  <2>4. ASSUME NEW j \in 1..n PROVE \E i \in 1..n : there[j] = here[i]
    <3>1. PICK i \in 1..n : other[j] = repos[i]
      BY <1>2
    <3> QED BY <2>2, <3>1
  <2> QED BY <2>3, <2>4
<1>6. /\ s \in [1..n -> Row]
      /\ \A k \in 1..n : \E i \in 1..n : s[k] = here[i]
      /\ \A i \in 1..n : \E k \in 1..n : s[k] = here[i]
      /\ \A k, l \in 1..n : k < l => Better(s[k], s[l])
  <2>1. OncePerName(here)
    BY <1>1, <1>3 DEF OncePerName
  <2>2. RanksOf(s, here)
    BY <1>3, <1>r, <2>1, RankedOf
  <2> QED BY <1>3, <2>2 DEF RanksOf
<1>7. /\ t \in [1..n -> Row]
      /\ \A k \in 1..n : \E i \in 1..n : t[k] = there[i]
      /\ \A i \in 1..n : \E k \in 1..n : t[k] = there[i]
      /\ \A k, l \in 1..n : k < l => Better(t[k], t[l])
  <2>1. OncePerName(there)
    BY <1>2, <1>4 DEF OncePerName
  <2>2. RanksOf(t, there)
    BY <1>4, <1>r, <2>1, RankedOf
  <2> QED BY <1>4, <2>2 DEF RanksOf
<1>8. Occur(s, t, n) /\ Occur(t, s, n)
  <2> SUFFICES ASSUME NEW k \in 1..n
               PROVE  (\E l \in 1..n : t[l] = s[k]) /\ (\E l \in 1..n : s[l] = t[k])
    BY DEF Occur
  <2>1. PICK i \in 1..n : s[k] = here[i]
    BY <1>6
  <2>2. PICK j \in 1..n : here[i] = there[j]
    BY <1>5
  <2>3. PICK f \in 1..n : t[k] = there[f]
    BY <1>7
  <2>4. PICK g \in 1..n : there[f] = here[g]
    BY <1>5
  <2>5. \E l \in 1..n : t[l] = s[k]
    BY <1>7, <2>1, <2>2
  <2>6. \E l \in 1..n : s[l] = t[k]
    BY <1>6, <2>3, <2>4
  <2> QED BY <2>5, <2>6
<1>9. \A x \in Row : x.name \in Int /\ x.score \in Int
  BY DEF Row
<1>10. \A x, y \in Row : <<x, y>> \in R <=> Better(x, y)
  OBVIOUS
<1> HIDE DEF R
<1>11. StrictOn(Row, R)
  <2>1. \A x \in Row : ~Better(x, x)
    BY <1>9 DEF Better
  <2>2. \A x, y, z \in Row : Better(x, y) /\ Better(y, z) => Better(x, z)
    BY <1>9 DEF Better
  <2> QED BY <1>10, <2>1, <2>2 DEF StrictOn
<1>12. Ascending(s, n, Row, R) /\ Ascending(t, n, Row, R)
  <2>1. \A k \in 1..n : s[k] \in Row /\ t[k] \in Row
    BY <1>6, <1>7
  <2> QED BY <1>6, <1>7, <1>10, <2>1 DEF Ascending
<1>13. s = t
  <2>1. n \in Nat
    BY <1>1
  <2>2. \A k \in 1..n : s[k] = t[k]
    BY <2>1, <1>8, <1>11, <1>12, OneOrder
  <2> QED BY <1>6, <1>7, <2>2
<1>14. Ranked(Scored(repos, query)) = Ranked(Scored(other, query))
  BY <1>13, <1>h, <1>t, <1>r
<1> QED BY <1>14 DEF RouteChange

(* Nor does a link depend on it, but for its direction. *)
LEMMA LinksOf ==
  ASSUME NEW repos \in Seq(Entry), NEW other \in Seq(Entry), DOMAIN other = DOMAIN repos,
         \A i, j \in DOMAIN repos : repos[i] = repos[j] => i = j,
         \A i \in DOMAIN repos : \E j \in DOMAIN repos : other[j] = repos[i]
  PROVE  Undirected(RepoGraph(repos)) \subseteq Undirected(RepoGraph(other))
<1> DEFINE link(q, p) == [source |-> q[p[1]].name, target |-> q[p[2]].name,
                          terms |-> Shared(q[p[1]], q[p[2]])]
<1>1. \A r1, r2 : Shared(r1, r2) = Shared(r2, r1)
  BY DEF Shared
<1> SUFFICES ASSUME NEW x \in Undirected(RepoGraph(repos))
             PROVE  x \in Undirected(RepoGraph(other))
  OBVIOUS
<1>2. PICK l \in RepoGraph(repos) : x = <<{l.source, l.target}, l.terms>>
  BY DEF Undirected
<1>3. PICK p \in (DOMAIN repos) \X (DOMAIN repos) :
        /\ p[1] < p[2] /\ Shared(repos[p[1]], repos[p[2]]) # {}
        /\ l = link(repos, p)
  BY DEF RepoGraph
<1>4. /\ p[1] \in DOMAIN repos /\ p[2] \in DOMAIN repos /\ p[1] # p[2]
      /\ repos[p[1]] # repos[p[2]]
  BY <1>3
<1>5. PICK i \in DOMAIN repos : other[i] = repos[p[1]]
  BY <1>4
<1>6. PICK j \in DOMAIN repos : other[j] = repos[p[2]]
  BY <1>4
<1>7. i # j /\ i \in Int /\ j \in Int
  <2>1. i # j
    BY <1>4, <1>5, <1>6
  <2>2. DOMAIN repos \subseteq Int
    BY DOMAIN repos = 1..Len(repos)
  <2> QED BY <2>1, <2>2
<1>8. \A a, b \in DOMAIN other :
        a < b /\ Shared(other[a], other[b]) # {} =>
          [source |-> other[a].name, target |-> other[b].name, terms |-> Shared(other[a], other[b])]
             \in RepoGraph(other)
  <2> TAKE a, b \in DOMAIN other
  <2> HAVE a < b /\ Shared(other[a], other[b]) # {}
  <2>1. <<a, b>> \in {q \in (DOMAIN other) \X (DOMAIN other) :
                        q[1] < q[2] /\ Shared(other[q[1]], other[q[2]]) # {}}
    OBVIOUS
  <2>2. /\ <<a, b>>[1] = a /\ <<a, b>>[2] = b
    OBVIOUS
  <2> QED BY <2>1, <2>2 DEF RepoGraph
<1>9. CASE i < j
  <2>1. link(other, <<i, j>>) \in RepoGraph(other) /\ link(other, <<i, j>>) = l
    BY <1>3, <1>5, <1>6, <1>8, <1>9
  <2> QED BY <1>2, <2>1 DEF Undirected
<1>10. CASE j < i
  <2>1. link(other, <<j, i>>) \in RepoGraph(other)
    <3>1. Shared(other[j], other[i]) # {}
      BY <1>1, <1>3, <1>5, <1>6
    <3> QED BY <1>8, <1>10, <3>1
  <2>2. /\ link(other, <<j, i>>).source = l.target /\ link(other, <<j, i>>).target = l.source
        /\ link(other, <<j, i>>).terms = l.terms
    BY <1>1, <1>3, <1>5, <1>6
  <2>3. {l.source, l.target} = {link(other, <<j, i>>).source, link(other, <<j, i>>).target}
    BY <2>2
  <2> HIDE DEF link
  <2> QED BY <1>2, <2>1, <2>2, <2>3 DEF Undirected
<1> QED BY <1>7, <1>9, <1>10

LEMMA GraphOrderFree ==
  ASSUME NEW repos \in Seq(Entry), NEW other \in SetToSeqs(ToSet(repos)),
         \A i, j \in DOMAIN repos : repos[i].name = repos[j].name => i = j
  PROVE  Undirected(RepoGraph(repos)) = Undirected(RepoGraph(other))
<1>1. /\ other \in Seq(Entry) /\ DOMAIN other = DOMAIN repos
      /\ \A i \in DOMAIN repos : \E j \in DOMAIN repos : other[j] = repos[i]
      /\ \A i \in DOMAIN repos : \E j \in DOMAIN repos : other[i] = repos[j]
      /\ \A i, j \in DOMAIN repos : other[i].name = other[j].name => i = j
  BY OtherOrderOf
<1>2. Undirected(RepoGraph(repos)) \subseteq Undirected(RepoGraph(other))
  BY <1>1, LinksOf
<1>3. \A i \in DOMAIN other : \E j \in DOMAIN other : repos[j] = other[i]
  BY <1>1
<1>4. \A i, j \in DOMAIN other : other[i] = other[j] => i = j
  BY <1>1
<1>5. Undirected(RepoGraph(other)) \subseteq Undirected(RepoGraph(repos))
  BY <1>1, <1>3, <1>4, LinksOf
<1> QED BY <1>2, <1>5

(* An answer is made from the file as it stands. *)
AnswerFits ==
  answer # NoAnswer =>
    /\ walk.pc = "saved"
    /\ \/ \E q \in Request, n \in Limit :
            answer = [kind |-> "route", query |-> q, limit |-> n, result |-> RouteChange(file, q, n)]
       \/ answer = [kind |-> "graph", result |-> RepoGraph(file)]

LEMMA NextAnswerFits ==
  ASSUME WInv, AnswerFits, [DiscoveryNext]_discoveryvars
  PROVE  AnswerFits'
<1>1. CASE walk.pc \notin {"idle", "saved", "failed"} /\ Owners
  <2>1. answer' = answer /\ walk' = walk /\ file' = file
    BY <1>1 DEF Owners, MakeRepository, RemoveDirectory
  <2> QED BY <2>1 DEF AnswerFits
<1>2. CASE BeginWalk \/ ListDirectory \/ LookForGit \/ AskRemote \/ RemoteRaises \/ SaveWorkspace
  <2>1. answer' = answer /\ walk.pc # "saved"
    BY <1>2 DEF BeginWalk, ListDirectory, LookForGit, AskRemote, RemoteRaises, SaveWorkspace
  <2> QED BY <2>1 DEF AnswerFits
<1>3. CASE Route \/ Graph
  <2>1. walk' = walk /\ file' = file /\ walk.pc = "saved"
    BY <1>3 DEF Route, Graph, walkvars
  <2>2. \/ \E q \in Request, n \in Limit :
             answer' = [kind |-> "route", query |-> q, limit |-> n, result |-> RouteChange(file, q, n)]
        \/ answer' = [kind |-> "graph", result |-> RepoGraph(file)]
    BY <1>3 DEF Route, Graph
  <2> QED BY <2>1, <2>2 DEF AnswerFits
<1>4. CASE UNCHANGED discoveryvars
  <2>1. answer' = answer /\ walk' = walk /\ file' = file
    BY <1>4 DEF discoveryvars, walkvars
  <2> QED BY <2>1 DEF AnswerFits
<1> QED BY <1>1, <1>2, <1>3, <1>4 DEF DiscoveryNext

LEMMA FitsOrderOfNoAccount == WInv /\ AnswerFits => OrderOfNoAccount
<1> SUFFICES ASSUME WInv, AnswerFits, answer # NoAnswer, DistinctNames,
                    NEW other \in SetToSeqs(ToSet(file))
             PROVE  \/ /\ answer.kind = "route"
                       /\ answer.result = RouteChange(other, answer.query, answer.limit)
                    \/ /\ answer.kind = "graph"
                       /\ Undirected(answer.result) = Undirected(RepoGraph(other))
  BY DEF OrderOfNoAccount
<1>1. file \in Seq(Entry) /\ \A i, j \in DOMAIN file : file[i].name = file[j].name => i = j
  BY DEF WInv, WalkTypeOK, DistinctNames
<1>2. ASSUME NEW q \in Request, NEW n \in Limit,
             answer = [kind |-> "route", query |-> q, limit |-> n, result |-> RouteChange(file, q, n)]
      PROVE  /\ answer.kind = "route"
             /\ answer.result = RouteChange(other, answer.query, answer.limit)
  <2>1. RouteChange(file, q, n) = RouteChange(other, q, n)
    BY <1>1, RouteOrderFree
  <2> QED BY <1>2, <2>1
<1>3. ASSUME answer = [kind |-> "graph", result |-> RepoGraph(file)]
      PROVE  /\ answer.kind = "graph"
             /\ Undirected(answer.result) = Undirected(RepoGraph(other))
  <2>1. Undirected(RepoGraph(file)) = Undirected(RepoGraph(other))
    BY <1>1, GraphOrderFree
  <2>2. answer.kind = "graph" /\ answer.result = RepoGraph(file)
    BY <1>3
  <2> QED BY <2>1, <2>2
<1> QED BY <1>2, <1>3 DEF AnswerFits

-----------------------------------------------------------------------------
(* What is mapped one to one has as many elements. *)
LEMMA OneToOne ==
  ASSUME NEW S, NEW T, IsFiniteSet(S), NEW h \in [S -> T],
         \A x, y \in S : h[x] = h[y] => x = y, \A z \in T : \E x \in S : h[x] = z
  PROVE  IsFiniteSet(T) /\ Cardinality(T) = Cardinality(S)
<1>1. h \in Injection(S, T) /\ h \in Surjection(S, T)
  BY DEF Injection, IsInjective, Surjection
<1> QED BY <1>1, FS_Surjection

(* A finite number of parts, each finite, one for each place. *)
LEMMA FiniteParts ==
  ASSUME NEW S, IsFiniteSet(S), NEW part, \A i \in S : IsFiniteSet(part[i])
  PROVE  IsFiniteSet(UNION {{i} \X part[i] : i \in S})
<1> DEFINE h == [i \in S |-> {i} \X part[i]]
           parts == {{i} \X part[i] : i \in S}
<1>1. \A i \in S : IsFiniteSet({i} \X part[i])
  <2> TAKE i \in S
  <2>1. IsFiniteSet({i})
    BY FS_Singleton
  <2> QED BY <2>1, FS_Product
<1>2. h \in Surjection(S, parts)
  BY DEF Surjection
<1>3. IsFiniteSet(parts)
  BY <1>2, FS_Surjection
<1> QED BY <1>1, <1>3, FS_UNION

LEMMA PairsFinite ==
  ASSUME NEW S, IsFiniteSet(S), NEW number, \A i \in S : number[i] \in Nat
  PROVE  IsFiniteSet(UNION {{i} \X (1..number[i]) : i \in S})
<1>1. PICK part : part = [i \in S |-> 1..number[i]]
  OBVIOUS
<1>2. \A i \in S : part[i] = 1..number[i] /\ IsFiniteSet(part[i])
  BY <1>1, FS_Interval
<1>3. {{i} \X (1..number[i]) : i \in S} = {{i} \X part[i] : i \in S}
  BY <1>2
<1>4. IsFiniteSet(UNION {{i} \X part[i] : i \in S})
  BY <1>2, FiniteParts
<1> QED BY <1>3, <1>4

LEMMA SumType ==
  ASSUME NEW S, IsFiniteSet(S), NEW number, \A i \in S : number[i] \in Nat
  PROVE  SumOver(S, number) \in Nat
BY PairsFinite, FS_CardinalityType DEF SumOver

(* A sum over more is no less. *)
LEMMA SumGrows ==
  ASSUME NEW S, IsFiniteSet(S), NEW number, \A i \in S : number[i] \in Nat,
         NEW T \in SUBSET S, NEW other, \A i \in T : other[i] = number[i]
  PROVE  SumOver(T, other) <= SumOver(S, number)
<1>1. UNION {{i} \X (1..other[i]) : i \in T} \in SUBSET (UNION {{i} \X (1..number[i]) : i \in S})
  OBVIOUS
<1> QED BY <1>1, PairsFinite, FS_Subset DEF SumOver

(* A sum is the same in another order. *)
LEMMA SumSame ==
  ASSUME NEW S, NEW T, IsFiniteSet(S), NEW h \in [S -> T],
         \A x, y \in S : h[x] = h[y] => x = y, \A z \in T : \E x \in S : h[x] = z,
         NEW number, \A i \in S : number[i] \in Nat,
         NEW other, \A i \in S : other[h[i]] = number[i]
  PROVE  SumOver(T, other) = SumOver(S, number)
<1> DEFINE P == UNION {{i} \X (1..number[i]) : i \in S}
           R == UNION {{j} \X (1..other[j]) : j \in T}
           g == [p \in P |-> <<h[p[1]], p[2]>>]
<1>1. \A p \in P : p = <<p[1], p[2]>> /\ p[1] \in S /\ p[2] \in 1..number[p[1]]
  OBVIOUS
<1>2. \A i \in S : \A k \in 1..number[i] : <<i, k>> \in P
  OBVIOUS
<1>3. \A p \in R : p = <<p[1], p[2]>> /\ p[1] \in T /\ p[2] \in 1..other[p[1]]
  OBVIOUS
<1>4. \A j \in T : \A k \in 1..other[j] : <<j, k>> \in R
  OBVIOUS
<1>5. IsFiniteSet(P)
  BY PairsFinite
<1> HIDE DEF P, R
<1>6. g \in [P -> R]
  BY <1>1, <1>4
<1>7. ASSUME NEW p \in P, NEW q \in P, g[p] = g[q] PROVE p = q
  BY <1>1, <1>7
<1>8. ASSUME NEW r \in R PROVE \E p \in P : g[p] = r
  <2>1. PICK i \in S : h[i] = r[1]
    BY <1>3
  <2>2. <<i, r[2]>> \in P
    BY <1>2, <1>3, <2>1
  <2> QED BY <1>3, <2>1, <2>2
<1> HIDE DEF g
<1>9. Cardinality(R) = Cardinality(P)
  BY <1>5, <1>6, <1>7, <1>8, OneToOne
<1> QED BY <1>9 DEF P, R, SumOver

-----------------------------------------------------------------------------
(* What is counted of a pull request is a number. *)
LEMMA CountsType ==
  ASSUME NEW raw \in RawRecord
  PROVE  LET pr == Evidence(raw) IN
         /\ pr.churn \in Nat /\ pr.changed_files \in Nat /\ pr.reviews \in Nat /\ pr.receipts \in Nat
         /\ Points(pr) \in Nat
<1> DEFINE pr == Evidence(raw)
<1>1. \A value \in Int \cup {Missing} : PositiveInt(value) \in Nat
  <2> TAKE value \in Int \cup {Missing}
  <2>1. Or(value, 0) \in Int
    BY DEF Or
  <2> QED BY <2>1 DEF PositiveInt
<1>2. /\ PositiveInt(raw.additions) \in Nat /\ PositiveInt(raw.deletions) \in Nat
      /\ PositiveInt(raw.changed_files) \in Nat /\ PositiveInt(raw.review_count) \in Nat
      /\ PositiveInt(raw.reviews) \in Nat /\ PositiveInt(raw.usage_receipts) \in Nat
  BY <1>1, RecordAssumption
<1>3. Len(raw.files) \in Nat
  BY RecordAssumption
<1>4. /\ pr.churn = PositiveInt(raw.additions) + PositiveInt(raw.deletions)
      /\ pr.changed_files = (IF PositiveInt(raw.changed_files) > 0
                             THEN PositiveInt(raw.changed_files) ELSE Len(raw.files))
      /\ pr.reviews = ReviewCount(raw) /\ pr.receipts = PositiveInt(raw.usage_receipts)
  BY DEF Evidence
<1>5. ReviewCount(raw) \in Nat
  BY <1>2 DEF ReviewCount
<1> HIDE DEF pr
<1>6. pr.churn \in Nat /\ pr.changed_files \in Nat /\ pr.reviews \in Nat /\ pr.receipts \in Nat
  BY <1>2, <1>3, <1>4, <1>5
<1>7. \A n \in Nat, bound \in Nat : AtMost(n, bound) \in Nat
  BY DEF AtMost
<1>8. pr.churn \div 100 \in Nat
  BY <1>6
<1>9. /\ AtMost(pr.reviews, 4) \in Nat /\ AtMost(pr.receipts, 12) \in Nat
      /\ AtMost(pr.changed_files, 6) \in Nat /\ AtMost(pr.churn \div 100, 6) \in Nat
  BY <1>6, <1>7, <1>8
<1>10. Points(pr) \in Nat
  <2> DEFINE f == AtMost(pr.reviews, 4)
             g == AtMost(pr.receipts, 12)
             k == AtMost(pr.changed_files, 6)
             l == AtMost(pr.churn \div 100, 6)
  <2>1. Points(pr) = IF ~pr.merged THEN 0
                     ELSE 40 + f * 6 + (IF pr.gate THEN 18 ELSE 0)
                             + (IF "docs" \in pr.touched THEN 8 ELSE 0)
                             + (IF "tests" \in pr.touched THEN 12 ELSE 0)
                             + (IF "dependency" \in pr.touched THEN 14 ELSE 0)
                             + g * 4 + k * 2 + l
    BY DEF Points
  <2>2. f \in Nat /\ g \in Nat /\ k \in Nat /\ l \in Nat
    BY <1>9
  <2> HIDE DEF f, g, k, l
  <2> QED BY <2>1, <2>2
<1> QED BY <1>6, <1>10 DEF pr

(* A list of pull requests whose points and receipts are numbers. *)
Countable(prs) ==
  /\ \E n \in Nat : DOMAIN prs = 1..n
  /\ \A i \in DOMAIN prs : Points(prs[i]) \in Nat /\ prs[i].receipts \in Nat

LEMMA LoadedOf ==
  ASSUME NEW records \in Seq(RawRecord)
  PROVE  /\ Countable(Loaded(records)) /\ DOMAIN Loaded(records) = DOMAIN records
         /\ \A i \in DOMAIN records : Loaded(records)[i] = Evidence(records[i])
<1>1. \A i \in DOMAIN records : Loaded(records)[i] = Evidence(records[i]) /\ records[i] \in RawRecord
  BY DEF Loaded
<1>2. DOMAIN Loaded(records) = DOMAIN records /\ DOMAIN records = 1..Len(records) /\ Len(records) \in Nat
  BY DEF Loaded
<1> QED BY <1>1, <1>2, CountsType DEF Countable

LEMMA BucketFinite ==
  ASSUME NEW prs, Countable(prs), NEW a
  PROVE  /\ Bucket(prs, a) \in SUBSET DOMAIN prs /\ IsFiniteSet(Bucket(prs, a))
         /\ Bucket(prs, a) \in SUBSET Nat
<1>1. PICK n \in Nat : DOMAIN prs = 1..n
  BY DEF Countable
<1>2. Bucket(prs, a) \in SUBSET (1..n) /\ IsFiniteSet(1..n)
  BY <1>1, FS_Interval DEF Bucket
<1> QED BY <1>1, <1>2, FS_Subset

(* The score of one author. *)
ScoreSum(prs, a) == SumOver(Bucket(prs, a), [i \in Bucket(prs, a) |-> Points(prs[i])])

LEMMA ScoreSumType ==
  ASSUME NEW prs, Countable(prs), NEW a
  PROVE  ScoreSum(prs, a) \in Nat
<1>1. PICK B : B = Bucket(prs, a)
  OBVIOUS
<1>2. PICK number : number = [i \in B |-> Points(prs[i])]
  OBVIOUS
<1>3. IsFiniteSet(B) /\ \A i \in B : number[i] \in Nat
  BY <1>1, <1>2, BucketFinite DEF Countable
<1>4. SumOver(B, number) \in Nat
  BY <1>3, SumType
<1> QED BY <1>1, <1>2, <1>4 DEF ScoreSum

(* The standing: each author of a merged pull request once. *)
AuthorsOf(prs) == {a \in Author : Bucket(prs, a) # {}}
ScoresOf(prs) == [a \in AuthorsOf(prs) |-> ScoreAuthor(a, prs, Bucket(prs, a))]
OrderOf(prs) == InOrder(AuthorsOf(prs), Ahead(prs, AuthorsOf(prs), ScoresOf(prs)))

LEMMA ScoresOfAuthor ==
  ASSUME NEW prs, NEW a \in AuthorsOf(prs)
  PROVE  /\ ScoresOf(prs)[a] = ScoreAuthor(a, prs, Bucket(prs, a))
         /\ ScoresOf(prs)[a].author = a /\ ScoresOf(prs)[a].score = ScoreSum(prs, a)
<1>1. ScoresOf(prs)[a] = ScoreAuthor(a, prs, Bucket(prs, a))
  BY DEF ScoresOf
<1>2. /\ ScoreAuthor(a, prs, Bucket(prs, a)).author = a
      /\ ScoreAuthor(a, prs, Bucket(prs, a)).score = ScoreSum(prs, a)
  BY DEF ScoreAuthor, ScoreSum
<1> QED BY <1>1, <1>2

LEMMA AuthorsFinite ==
  ASSUME NEW prs, Countable(prs)
  PROVE  IsFiniteSet(AuthorsOf(prs))
<1>1. PICK A : A = AuthorsOf(prs)
  OBVIOUS
<1>2. PICK n \in Nat : DOMAIN prs = 1..n
  BY DEF Countable
<1> DEFINE D1 == {i \in 1..n : prs[i].author \in A}
           h == [i \in D1 |-> prs[i].author]
<1>3. IsFiniteSet(D1)
  <2>1. IsFiniteSet(1..n) /\ D1 \in SUBSET (1..n)
    BY FS_Interval
  <2> HIDE DEF D1
  <2> QED BY <2>1, FS_Subset
<1>4. \A a \in A : \E i \in D1 : prs[i].author = a
  BY <1>1, <1>2 DEF AuthorsOf, Bucket
<1>5. h \in Surjection(D1, A)
  <2>1. h \in [D1 -> A] /\ \A i \in D1 : h[i] = prs[i].author
    OBVIOUS
  <2> HIDE DEF h
  <2> QED BY <1>4, <2>1 DEF Surjection
<1> HIDE DEF h, D1
<1>6. IsFiniteSet(A)
  BY <1>3, <1>5, FS_Surjection
<1> QED BY <1>1, <1>6

(* The first pull request of an author. *)
LEMMA FirstOf ==
  ASSUME NEW prs, Countable(prs), NEW a \in AuthorsOf(prs)
  PROVE  Min(Bucket(prs, a)) \in Bucket(prs, a) /\ Min(Bucket(prs, a)) \in Nat
<1>1. PICK B : B = Bucket(prs, a)
  OBVIOUS
<1>2. B \in SUBSET Nat /\ B # {}
  BY <1>1, BucketFinite DEF AuthorsOf
<1>3. \E n \in B : \A m \in B : n <= m
  BY <1>2, NatMin
<1>4. Min(B) \in B
  BY <1>3 DEF Min
<1> QED BY <1>1, <1>2, <1>4

LEMMA AheadOf ==
  ASSUME NEW prs, NEW a \in AuthorsOf(prs), NEW b \in AuthorsOf(prs)
  PROVE  <<a, b>> \in Ahead(prs, AuthorsOf(prs), ScoresOf(prs)) <=>
           \/ ScoreSum(prs, a) > ScoreSum(prs, b)
           \/ ScoreSum(prs, a) = ScoreSum(prs, b) /\ Fold[a] < Fold[b]
           \/ /\ ScoreSum(prs, a) = ScoreSum(prs, b) /\ Fold[a] = Fold[b]
              /\ Min(Bucket(prs, a)) < Min(Bucket(prs, b))
<1>1. PICK A, score : A = AuthorsOf(prs) /\ score = ScoresOf(prs)
  OBVIOUS
<1>2. PICK first : first = [x \in A |-> Min(Bucket(prs, x))]
  OBVIOUS
<1>3. Ahead(prs, A, score) =
        {p \in A \X A : \/ score[p[1]].score > score[p[2]].score
                        \/ score[p[1]].score = score[p[2]].score /\ Fold[p[1]] < Fold[p[2]]
                        \/ score[p[1]].score = score[p[2]].score /\ Fold[p[1]] = Fold[p[2]]
                             /\ first[p[1]] < first[p[2]]}
  BY <1>2 DEF Ahead
<1>4. /\ score[a].score = ScoreSum(prs, a) /\ score[b].score = ScoreSum(prs, b)
      /\ first[a] = Min(Bucket(prs, a)) /\ first[b] = Min(Bucket(prs, b))
      /\ a \in A /\ b \in A
  BY <1>1, <1>2, ScoresOfAuthor
<1> QED BY <1>1, <1>3, <1>4

LEMMA AheadTotal ==
  ASSUME NEW prs, Countable(prs)
  PROVE  TotalOn(AuthorsOf(prs), Ahead(prs, AuthorsOf(prs), ScoresOf(prs)))
<1>1. PICK A, R : A = AuthorsOf(prs) /\ R = Ahead(prs, AuthorsOf(prs), ScoresOf(prs))
  OBVIOUS
<1>2. PICK sum, first : /\ sum = [a \in A |-> ScoreSum(prs, a)]
                        /\ first = [a \in A |-> Min(Bucket(prs, a))]
  OBVIOUS
<1>3. \A a \in A : sum[a] \in Nat /\ first[a] \in Nat /\ Fold[a] \in Nat
  BY <1>1, <1>2, ScoreSumType, FirstOf, AuthorAssumption DEF AuthorsOf
<1>4. \A a, b \in A : first[a] = first[b] => a = b
  BY <1>1, <1>2, FirstOf DEF Bucket
<1>5. \A a, b \in A : <<a, b>> \in R <=>
         \/ sum[a] > sum[b]
         \/ sum[a] = sum[b] /\ Fold[a] < Fold[b]
         \/ sum[a] = sum[b] /\ Fold[a] = Fold[b] /\ first[a] < first[b]
  <2> TAKE a, b \in A
  <2>1. /\ sum[a] = ScoreSum(prs, a) /\ sum[b] = ScoreSum(prs, b)
        /\ first[a] = Min(Bucket(prs, a)) /\ first[b] = Min(Bucket(prs, b))
    BY <1>2
  <2>2. a \in AuthorsOf(prs) /\ b \in AuthorsOf(prs)
    BY <1>1
  <2> QED BY <1>1, <2>1, <2>2, AheadOf
<1>6. \A a \in A : <<a, a>> \notin R
  BY <1>3, <1>5
<1>7. ASSUME NEW a \in A, NEW b \in A, a # b PROVE <<a, b>> \in R \/ <<b, a>> \in R
  <2>1. first[a] # first[b] /\ first[a] \in Nat /\ first[b] \in Nat
    BY <1>3, <1>4, <1>7
  <2>2. sum[a] \in Nat /\ sum[b] \in Nat /\ Fold[a] \in Nat /\ Fold[b] \in Nat
    BY <1>3
  <2> QED BY <1>5, <2>1, <2>2
<1>8. ASSUME NEW a \in A, NEW b \in A, NEW c \in A, <<a, b>> \in R, <<b, c>> \in R PROVE <<a, c>> \in R
  BY <1>3, <1>5, <1>8
<1>9. TotalOn(A, R)
  BY <1>6, <1>7, <1>8 DEF TotalOn
<1> QED BY <1>1, <1>9

LEMMA StandingOf ==
  ASSUME NEW prs, Countable(prs)
  PROVE  LET there == ScoreContributors(prs)
             n == Cardinality(AuthorsOf(prs))
             order == OrderOf(prs)
         IN  /\ n \in Nat /\ order \in [1..n -> AuthorsOf(prs)] /\ DOMAIN there = 1..n
             /\ \A a \in AuthorsOf(prs) : \E k \in 1..n : order[k] = a
             /\ \A k, l \in 1..n : order[k] = order[l] => k = l
             /\ \A k \in 1..n : there[k] = ScoresOf(prs)[order[k]] /\ there[k].author = order[k]
<1>1. PICK A, R : A = AuthorsOf(prs) /\ R = Ahead(prs, AuthorsOf(prs), ScoresOf(prs))
  OBVIOUS
<1>2. PICK n, order : n = Cardinality(A) /\ order = InOrder(A, R)
  OBVIOUS
<1>3. IsFiniteSet(A) /\ TotalOn(A, R)
  BY <1>1, AuthorsFinite, AheadTotal
<1>4. /\ n \in Nat /\ order \in [1..n -> A]
      /\ \A a \in A : \E k \in 1..n : order[k] = a
      /\ \A k, l \in 1..n : order[k] = order[l] => k = l
  BY <1>2, <1>3, InOrderSorted
<1>5. order = OrderOf(prs)
  BY <1>1, <1>2 DEF OrderOf
<1>6. ScoreContributors(prs) = [k \in DOMAIN order |-> ScoresOf(prs)[order[k]]]
  BY <1>5 DEF ScoreContributors, OrderOf, ScoresOf, AuthorsOf
<1>7. DOMAIN order = 1..n /\ \A k \in 1..n : order[k] \in A
  BY <1>4
<1>8. PICK there : there = ScoreContributors(prs)
  OBVIOUS
<1>9. DOMAIN there = 1..n /\ \A k \in 1..n : there[k] = ScoresOf(prs)[order[k]]
  BY <1>6, <1>7, <1>8
<1>10. \A k \in 1..n : there[k].author = order[k]
  BY <1>1, <1>7, <1>9, ScoresOfAuthor
<1> QED BY <1>1, <1>2, <1>4, <1>5, <1>8, <1>9, <1>10

-----------------------------------------------------------------------------
(* What the standing says of an author. *)
LEMMA ScoreOfAuthor ==
  ASSUME NEW prs, Countable(prs), NEW a \in Author
  PROVE  ScoreOf(ScoreContributors(prs), a) = ScoreSum(prs, a)
<1>1. PICK there, n, order : /\ there = ScoreContributors(prs) /\ n = Cardinality(AuthorsOf(prs))
                             /\ order = OrderOf(prs)
  OBVIOUS
<1>2. /\ n \in Nat /\ order \in [1..n -> AuthorsOf(prs)] /\ DOMAIN there = 1..n
      /\ \A b \in AuthorsOf(prs) : \E k \in 1..n : order[k] = b
      /\ \A k \in 1..n : there[k] = ScoresOf(prs)[order[k]] /\ there[k].author = order[k]
  BY <1>1, StandingOf
<1> DEFINE own == {i \in DOMAIN there : there[i].author = a}
<1>3. CASE a \in AuthorsOf(prs)
  <2>1. own # {}
    BY <1>2, <1>3
  <2>2. PICK i : i = CHOOSE k \in own : TRUE
    OBVIOUS
  <2>3. i \in own
    BY <2>1, <2>2
  <2>4. there[i] = ScoresOf(prs)[a]
    BY <1>2, <2>3
  <2>5. ScoreOf(there, a) = there[i].score
    BY <2>1, <2>2 DEF ScoreOf
  <2> QED BY <1>1, <1>3, <2>4, <2>5, ScoresOfAuthor
<1>4. CASE a \notin AuthorsOf(prs)
  <2>1. own = {}
    BY <1>2, <1>4
  <2>2. ScoreOf(there, a) = 0
    BY <2>1 DEF ScoreOf
  <2>3. Bucket(prs, a) = {}
    BY <1>4 DEF AuthorsOf
  <2>4. ScoreSum(prs, a) = 0
    BY <2>3, FS_EmptySet DEF ScoreSum, SumOver
  <2> QED BY <1>1, <2>2, <2>4
<1> QED BY <1>3, <1>4

(* The records exported when the scores were taken. *)
FirstOnes(s, n) == [i \in 1..n |-> s[i]]

LEMMA SumsGrow ==
  ASSUME NEW records \in Seq(RawRecord), NEW n \in 0..Len(records), NEW a \in Author
  PROVE  /\ Countable(Loaded(FirstOnes(records, n)))
         /\ ScoreSum(Loaded(FirstOnes(records, n)), a) <= ScoreSum(Loaded(records), a)
<1>1. PICK prs, old : prs = Loaded(records) /\ old = Loaded(FirstOnes(records, n))
  OBVIOUS
<1>2. /\ FirstOnes(records, n) \in Seq(RawRecord) /\ DOMAIN FirstOnes(records, n) = 1..n
      /\ \A i \in 1..n : FirstOnes(records, n)[i] = records[i] /\ i \in DOMAIN records
  BY DEF FirstOnes
<1>3. /\ Countable(prs) /\ DOMAIN prs = DOMAIN records
      /\ \A i \in DOMAIN records : prs[i] = Evidence(records[i])
  BY <1>1, LoadedOf
<1>4. /\ Countable(old) /\ DOMAIN old = 1..n
      /\ \A i \in 1..n : old[i] = Evidence(FirstOnes(records, n)[i])
  BY <1>1, <1>2, LoadedOf
<1>5. \A i \in 1..n : old[i] = prs[i] /\ i \in DOMAIN prs
  BY <1>2, <1>3, <1>4
<1>6. PICK B, C : B = Bucket(prs, a) /\ C = Bucket(old, a)
  OBVIOUS
<1>7. C \in SUBSET B /\ \A i \in C : old[i] = prs[i]
  BY <1>4, <1>5, <1>6 DEF Bucket
<1>8. PICK number, other : /\ number = [i \in B |-> Points(prs[i])]
                           /\ other = [i \in C |-> Points(old[i])]
  OBVIOUS
<1>9. /\ IsFiniteSet(B) /\ \A i \in B : number[i] \in Nat
      /\ \A i \in C : other[i] = number[i]
  BY <1>3, <1>6, <1>7, <1>8, BucketFinite DEF Countable
<1>10. SumOver(C, other) <= SumOver(B, number)
  BY <1>7, <1>9, SumGrows
<1> QED BY <1>1, <1>4, <1>6, <1>8, <1>10 DEF ScoreSum

(* The scores are those of the records there were at some time. *)
Taken ==
  /\ export \in Seq(RawRecord)
  /\ \/ scores = <<>>
     \/ \E n \in 0..Len(export) : scores = ScoreContributors(Loaded(FirstOnes(export, n)))

LEMMA TakenScores ==
  ASSUME Taken, NEW a \in Author
  PROVE  ScoreOf(scores, a) \in Nat /\ ScoreOf(scores, a) <= ScoreSum(Loaded(export), a)
<1>1. ScoreSum(Loaded(export), a) \in Nat
  BY LoadedOf, ScoreSumType DEF Taken
<1>2. CASE scores = <<>>
  <2>1. {i \in DOMAIN scores : scores[i].author = a} = {}
    BY <1>2
  <2> QED BY <1>1, <2>1 DEF ScoreOf
<1>3. ASSUME NEW n \in 0..Len(export), scores = ScoreContributors(Loaded(FirstOnes(export, n)))
      PROVE  ScoreOf(scores, a) \in Nat /\ ScoreOf(scores, a) <= ScoreSum(Loaded(export), a)
  BY <1>3, SumsGrow, ScoreOfAuthor, ScoreSumType DEF Taken
<1> QED BY <1>2, <1>3 DEF Taken

LEMMA TakenNext ==
  ASSUME Taken, ContributionsNext
  PROVE  Taken' /\ \A a \in Author : ScoreOf(scores', a) >= ScoreOf(scores, a)
<1>1. ASSUME Export PROVE Taken' /\ \A a \in Author : ScoreOf(scores', a) >= ScoreOf(scores, a)
  <2>1. PICK raw \in RawRecord : export' = Append(export, raw) /\ scores' = scores
    BY <1>1 DEF Export
  <2>2. /\ export' \in Seq(RawRecord) /\ Len(export') = Len(export) + 1
        /\ \A i \in 1..Len(export) : export'[i] = export[i]
    BY <2>1 DEF Taken
  <2>3. \A n \in 0..Len(export) : n \in 0..Len(export') /\ FirstOnes(export', n) = FirstOnes(export, n)
    <3> TAKE n \in 0..Len(export)
    <3>1. Len(export) \in Nat /\ \A i \in 1..n : i \in 1..Len(export)
      BY DEF Taken
    <3> QED BY <2>2, <3>1 DEF FirstOnes
  <2>4. Taken'
    BY <2>1, <2>2, <2>3 DEF Taken
  <2>5. \A a \in Author : ScoreOf(scores, a) \in Nat
    BY TakenScores
  <2> QED BY <2>1, <2>4, <2>5
<1>2. ASSUME EnrichmentScore PROVE Taken' /\ \A a \in Author : ScoreOf(scores', a) >= ScoreOf(scores, a)
  <2>1. scores' = ScoreContributors(Loaded(export)) /\ export' = export /\ export \in Seq(RawRecord)
    BY <1>2 DEF EnrichmentScore, Taken
  <2>2. FirstOnes(export, Len(export)) = export /\ Len(export) \in 0..Len(export)
    BY <2>1 DEF FirstOnes
  <2>3. Taken'
    BY <2>1, <2>2 DEF Taken
  <2>4. ASSUME NEW a \in Author PROVE ScoreOf(scores', a) >= ScoreOf(scores, a)
    <3>1. Countable(Loaded(export))
      BY <2>1, LoadedOf
    <3>2. ScoreOf(scores', a) = ScoreSum(Loaded(export), a) /\ ScoreSum(Loaded(export), a) \in Nat
      BY <2>1, <3>1, ScoreOfAuthor, ScoreSumType
    <3>3. ScoreOf(scores, a) \in Nat /\ ScoreOf(scores, a) <= ScoreSum(Loaded(export), a)
      BY TakenScores
    <3> QED BY <3>2, <3>3
  <2> QED BY <2>3, <2>4
<1> QED BY <1>1, <1>2 DEF ContributionsNext

-----------------------------------------------------------------------------
(* The same pull requests at other places: other has those of prs that       *)
(* count, one at h[k] at the place k.                                        *)
Moved(prs, other, h) ==
  /\ Countable(prs) /\ Countable(other) /\ h \in [DOMAIN other -> DOMAIN prs]
  /\ \A k \in DOMAIN other : other[k] = prs[h[k]]
  /\ \A k, l \in DOMAIN other : h[k] = h[l] => k = l
  /\ \A i \in DOMAIN prs : prs[i].merged /\ prs[i].author # Missing => \E k \in DOMAIN other : h[k] = i

LEMMA CountSame ==
  ASSUME NEW prs, NEW other, NEW h, Moved(prs, other, h),
         NEW S \in SUBSET DOMAIN other, IsFiniteSet(S), NEW T \in SUBSET DOMAIN prs,
         \A k \in S : h[k] \in T, \A i \in T : \E k \in S : h[k] = i
  PROVE  Cardinality(T) = Cardinality(S)
<1>1. PICK g : g = [k \in S |-> h[k]]
  OBVIOUS
<1>2. /\ g \in [S -> T] /\ \A k, l \in S : g[k] = g[l] => k = l
      /\ \A i \in T : \E k \in S : g[k] = i
  BY <1>1 DEF Moved
<1> QED BY <1>2, OneToOne

LEMMA BucketMoved ==
  ASSUME NEW prs, NEW other, NEW h, Moved(prs, other, h), NEW a \in Author
  PROVE  /\ \A k \in Bucket(other, a) : h[k] \in Bucket(prs, a)
         /\ \A i \in Bucket(prs, a) : \E k \in Bucket(other, a) : h[k] = i
<1>1. ASSUME NEW k \in Bucket(other, a) PROVE h[k] \in Bucket(prs, a)
  BY DEF Moved, Bucket
<1>2. ASSUME NEW i \in Bucket(prs, a) PROVE \E k \in Bucket(other, a) : h[k] = i
  <2>1. i \in DOMAIN prs /\ prs[i].merged /\ prs[i].author = a /\ a # Missing
    BY AuthorAssumption DEF Bucket
  <2>2. PICK k \in DOMAIN other : h[k] = i
    BY <2>1 DEF Moved
  <2> QED BY <2>1, <2>2 DEF Moved, Bucket
<1> QED BY <1>1, <1>2

(* An author's score is what it was. *)
LEMMA ScoreMoved ==
  ASSUME NEW prs, NEW other, NEW h, Moved(prs, other, h), NEW a \in Author
  PROVE  ScoreAuthor(a, other, Bucket(other, a)) = ScoreAuthor(a, prs, Bucket(prs, a))
<1>1. PICK S, T : S = Bucket(other, a) /\ T = Bucket(prs, a)
  OBVIOUS
<1>2. /\ S \in SUBSET DOMAIN other /\ IsFiniteSet(S)
      /\ T \in SUBSET DOMAIN prs /\ IsFiniteSet(T)
  BY <1>1, BucketFinite DEF Moved
<1>3. /\ \A k \in S : h[k] \in T /\ other[k] = prs[h[k]]
      /\ \A i \in T : \E k \in S : h[k] = i
  BY <1>1, <1>2, BucketMoved DEF Moved
<1>4. Cardinality(T) = Cardinality(S)
  BY <1>2, <1>3, CountSame
<1>5. Cardinality({k \in S : other[k].reviews > 0}) = Cardinality({i \in T : prs[i].reviews > 0})
  <2>1. PICK V, U : V = {k \in S : other[k].reviews > 0} /\ U = {i \in T : prs[i].reviews > 0}
    OBVIOUS
  <2>2. /\ V \in SUBSET DOMAIN other /\ IsFiniteSet(V) /\ U \in SUBSET DOMAIN prs
        /\ \A k \in V : h[k] \in U
        /\ \A i \in U : \E k \in V : h[k] = i
    BY <1>2, <1>3, <2>1, FS_Subset
  <2> QED BY <2>1, <2>2, CountSame
<1>6. Cardinality({k \in S : other[k].gate}) = Cardinality({i \in T : prs[i].gate})
  <2>1. PICK V, U : V = {k \in S : other[k].gate} /\ U = {i \in T : prs[i].gate}
    OBVIOUS
  <2>2. V \in SUBSET DOMAIN other /\ IsFiniteSet(V) /\ U \in SUBSET DOMAIN prs
    BY <1>2, <2>1, FS_Subset
  <2>3. /\ \A k \in V : h[k] \in U
        /\ \A i \in U : \E k \in V : h[k] = i
    BY <1>3, <2>1, Zenon
  <2> QED BY <2>1, <2>2, <2>3, CountSame
<1>7. ASSUME NEW surface
      PROVE  Cardinality({k \in S : surface \in other[k].touched})
               = Cardinality({i \in T : surface \in prs[i].touched})
  <2>1. PICK V, U : /\ V = {k \in S : surface \in other[k].touched}
                    /\ U = {i \in T : surface \in prs[i].touched}
    OBVIOUS
  <2>2. /\ V \in SUBSET DOMAIN other /\ IsFiniteSet(V) /\ U \in SUBSET DOMAIN prs
        /\ \A k \in V : h[k] \in U
        /\ \A i \in U : \E k \in V : h[k] = i
    BY <1>2, <1>3, <2>1, FS_Subset
  <2> QED BY <2>1, <2>2, CountSame
<1>8. PICK g : g = [k \in S |-> h[k]]
  OBVIOUS
<1>9. /\ g \in [S -> T] /\ \A k, l \in S : g[k] = g[l] => k = l
      /\ \A i \in T : \E k \in S : g[k] = i
  BY <1>2, <1>3, <1>8 DEF Moved
<1>10. SumOver(T, [i \in T |-> Points(prs[i])]) = SumOver(S, [k \in S |-> Points(other[k])])
  <2>1. PICK m, n : m = [k \in S |-> Points(other[k])] /\ n = [i \in T |-> Points(prs[i])]
    OBVIOUS
  <2>2. /\ \A k \in S : m[k] \in Nat
        /\ \A k \in S : n[g[k]] = m[k]
    BY <1>2, <1>3, <1>8, <2>1 DEF Moved, Countable
  <2>3. SumOver(T, n) = SumOver(S, m)
    BY <1>2, <1>9, <2>2, SumSame
  <2> QED BY <2>1, <2>3
<1>11. SumOver(T, [i \in T |-> prs[i].receipts]) = SumOver(S, [k \in S |-> other[k].receipts])
  <2>1. PICK m, n : m = [k \in S |-> other[k].receipts] /\ n = [i \in T |-> prs[i].receipts]
    OBVIOUS
  <2>2. /\ \A k \in S : m[k] \in Nat
        /\ \A k \in S : n[g[k]] = m[k]
    BY <1>2, <1>3, <1>8, <2>1 DEF Moved, Countable
  <2>3. SumOver(T, n) = SumOver(S, m)
    BY <1>2, <1>9, <2>2, SumSame
  <2> QED BY <2>1, <2>3
<1>12. {other[k].merged_at : k \in S} = {prs[i].merged_at : i \in T}
  BY <1>3
<1>13. ScoreAuthor(a, other, S) = ScoreAuthor(a, prs, T)
  BY <1>4, <1>5, <1>6, <1>7, <1>10, <1>11, <1>12 DEF ScoreAuthor
<1> QED BY <1>1, <1>13

LEMMA StandingMoved ==
  ASSUME NEW prs, NEW other, NEW h, Moved(prs, other, h)
  PROVE  AuthorsOf(other) = AuthorsOf(prs) /\ ScoresOf(other) = ScoresOf(prs)
<1>1. \A a \in Author : Bucket(other, a) # {} <=> Bucket(prs, a) # {}
  BY BucketMoved
<1>2. AuthorsOf(other) = AuthorsOf(prs)
  BY <1>1 DEF AuthorsOf
<1>3. \A a \in AuthorsOf(prs) : ScoreAuthor(a, other, Bucket(other, a)) = ScoreAuthor(a, prs, Bucket(prs, a))
  BY ScoreMoved DEF AuthorsOf
<1> QED BY <1>2, <1>3 DEF ScoresOf

(* The standings have the same lines, and where no two names are one in      *)
(* lower case, in the same order.                                            *)
LEMMA SameStanding ==
  ASSUME NEW prs, NEW other, NEW h, Moved(prs, other, h)
  PROVE  LET there == ScoreContributors(prs)
             back == ScoreContributors(other)
         IN  /\ ToSet(there) = ToSet(back)
             /\ (\A i, j \in DOMAIN there : Fold[there[i].author] = Fold[there[j].author] => i = j)
                  => there = back
<1>1. PICK there, back : there = ScoreContributors(prs) /\ back = ScoreContributors(other)
  OBVIOUS
<1>2. PICK A, score, n : A = AuthorsOf(prs) /\ score = ScoresOf(prs) /\ n = Cardinality(A)
  OBVIOUS
<1>3. AuthorsOf(other) = A /\ ScoresOf(other) = score
  BY <1>2, StandingMoved
<1>4. PICK e, f : e = OrderOf(prs) /\ f = OrderOf(other)
  OBVIOUS
<1>5. Countable(prs) /\ Countable(other)
  BY DEF Moved
<1>6. /\ n \in Nat /\ e \in [1..n -> A] /\ DOMAIN there = 1..n
      /\ \A a \in A : \E k \in 1..n : e[k] = a
      /\ \A k \in 1..n : there[k] = score[e[k]] /\ there[k].author = e[k]
  BY <1>1, <1>2, <1>4, <1>5, StandingOf
<1>7. /\ f \in [1..n -> A] /\ DOMAIN back = 1..n
      /\ \A a \in A : \E k \in 1..n : f[k] = a
      /\ \A k \in 1..n : back[k] = score[f[k]]
  BY <1>1, <1>2, <1>3, <1>4, <1>5, StandingOf
<1>8. ToSet(there) = ToSet(back)
  <2>1. ToSet(there) = {score[a] : a \in A}
    BY <1>6 DEF ToSet
  <2>2. ToSet(back) = {score[a] : a \in A}
    BY <1>7 DEF ToSet
  <2> QED BY <2>1, <2>2
<1>9. ASSUME \A i, j \in DOMAIN there : Fold[there[i].author] = Fold[there[j].author] => i = j
      PROVE  there = back
  <2>1. \A a, b \in A : Fold[a] = Fold[b] => a = b
    BY <1>6, <1>9
  <2>2. ASSUME NEW a \in A, NEW b \in A
        PROVE  <<a, b>> \in Ahead(prs, A, score) <=> <<a, b>> \in Ahead(other, A, score)
    <3>1. ScoreSum(prs, a) = ScoreSum(other, a) /\ ScoreSum(prs, b) = ScoreSum(other, b)
      BY <1>2, <1>3, ScoresOfAuthor
    <3>2. CASE a = b
      <4>1. <<a, a>> \notin Ahead(prs, A, score) /\ <<a, a>> \notin Ahead(other, A, score)
        BY <1>2, <1>3, <1>5, AheadTotal DEF TotalOn
      <4> QED BY <3>2, <4>1
    <3>3. CASE a # b
      <4>1. Fold[a] # Fold[b]
        BY <2>1, <3>3
      <4>2. <<a, b>> \in Ahead(prs, A, score) <=>
              \/ ScoreSum(prs, a) > ScoreSum(prs, b)
              \/ ScoreSum(prs, a) = ScoreSum(prs, b) /\ Fold[a] < Fold[b]
        BY <1>2, <4>1, AheadOf
      <4>3. <<a, b>> \in Ahead(other, A, score) <=>
              \/ ScoreSum(other, a) > ScoreSum(other, b)
              \/ ScoreSum(other, a) = ScoreSum(other, b) /\ Fold[a] < Fold[b]
        BY <1>2, <1>3, <4>1, AheadOf
      <4> QED BY <3>1, <4>2, <4>3
    <3> QED BY <3>2, <3>3
  <2>3. Ahead(prs, A, score) = Ahead(other, A, score)
    <3>1. /\ Ahead(prs, A, score) \subseteq A \X A
          /\ Ahead(other, A, score) \subseteq A \X A
      BY DEF Ahead
    <3> QED BY <2>2, <3>1
  <2>4. e = f
    BY <1>2, <1>3, <1>4, <2>3 DEF OrderOf
  <2>5. ScoreContributors(prs) = [k \in DOMAIN e |-> score[e[k]]]
    BY <1>2, <1>4 DEF ScoreContributors, OrderOf, ScoresOf, AuthorsOf
  <2>6. ScoreContributors(other) = [k \in DOMAIN f |-> score[f[k]]]
    <3>1. ScoreContributors(other) = [k \in DOMAIN f |-> ScoresOf(other)[f[k]]]
      BY <1>4 DEF ScoreContributors, OrderOf, ScoresOf, AuthorsOf
    <3> QED BY <1>3, <3>1
  <2> QED BY <1>1, <2>4, <2>5, <2>6
<1> QED BY <1>1, <1>8, <1>9

LEMMA ScoresOrderFree == Taken => OrderFree
<1> SUFFICES ASSUME Taken PROVE OrderFree
  OBVIOUS
<1>1. PICK prs : prs = Loaded(export)
  OBVIOUS
<1>2. PICK M : M = {i \in DOMAIN prs : prs[i].merged /\ prs[i].author # Missing}
  OBVIOUS
<1>3. PICK merged : merged = Kept(prs, M)
  OBVIOUS
<1>4. PICK back : back = Reverse(merged)
  OBVIOUS
<1>5. Countable(prs) /\ M \in SUBSET DOMAIN prs
  BY <1>1, <1>2, LoadedOf DEF Taken
<1>6. \E S : prs \in Seq(S)
  <2>1. PICK n \in Nat : DOMAIN prs = 1..n
    BY <1>5 DEF Countable
  <2>2. prs = [i \in DOMAIN prs |-> prs[i]]
    BY <1>1 DEF Loaded
  <2>3. prs \in Seq({prs[i] : i \in DOMAIN prs})
    BY <2>1, <2>2
  <2> QED BY <2>3
<1>7. PICK c, places : KeepsPlaces(prs, M, c, places)
  BY <1>5, <1>6, KeptBy
<1>8. /\ c \in Nat /\ places \in [1..c -> M] /\ merged = [n \in 1..c |-> prs[places[n]]]
      /\ \A x \in M : \E n \in 1..c : places[n] = x
      /\ \A m, n \in 1..c : places[m] = places[n] => m = n
  BY <1>3, <1>7 DEF KeepsPlaces
<1>9. Len(merged) = c /\ \A n \in 1..c : merged[n] = prs[places[n]]
  BY <1>8
<1>10. DOMAIN back = 1..c /\ \A k \in 1..c : back[k] = merged[c - k + 1]
  BY <1>4, <1>8, <1>9 DEF Reverse
<1>11. PICK h : h = [k \in 1..c |-> places[c - k + 1]]
  OBVIOUS
<1>12. /\ h \in [DOMAIN back -> DOMAIN prs] /\ \A k \in DOMAIN back : back[k] = prs[h[k]]
       /\ \A k \in 1..c : c - k + 1 \in 1..c /\ h[k] = places[c - k + 1] /\ h[k] \in M
  BY <1>2, <1>8, <1>9, <1>10, <1>11
<1>13. \A k, l \in DOMAIN back : h[k] = h[l] => k = l
  <2> SUFFICES ASSUME NEW k \in 1..c, NEW l \in 1..c, h[k] = h[l] PROVE k = l
    BY <1>10
  <2>1. c - k + 1 = c - l + 1
    BY <1>8, <1>12
  <2> QED BY <1>8, <2>1
<1>14. ASSUME NEW i \in M PROVE \E k \in DOMAIN back : h[k] = i
  <2>1. PICK n \in 1..c : places[n] = i
    BY <1>8
  <2>2. c - n + 1 \in 1..c /\ c - (c - n + 1) + 1 = n
    BY <1>8
  <2>3. h[c - n + 1] = i
    BY <1>12, <2>1, <2>2
  <2> QED BY <1>10, <2>2, <2>3
<1>15. Countable(back)
  <2>1. \A k \in DOMAIN back : h[k] \in DOMAIN prs /\ back[k] = prs[h[k]]
    BY <1>12
  <2>2. \A k \in DOMAIN back : Points(back[k]) \in Nat /\ back[k].receipts \in Nat
    BY <1>5, <2>1 DEF Countable
  <2> QED BY <1>8, <1>10, <2>2 DEF Countable
<1>16. Moved(prs, back, h)
  BY <1>2, <1>5, <1>12, <1>13, <1>14, <1>15 DEF Moved
<1> QED BY <1>1, <1>2, <1>3, <1>4, <1>16, SameStanding DEF OrderFree

-----------------------------------------------------------------------------
(* Every step of a session keeps the walk's invariant. *)
LEMMA SessionWInv == /\ SessionInit => WInv
                     /\ WInv /\ [SessionNext]_sessionvars => WInv'
<1>1. SessionInit => WInv
  BY InitWInv DEF SessionInit
<1>2. WInv /\ [SessionNext]_sessionvars => WInv'
  BY NextWInv DEF SessionNext, Keys, Discover, Scores, sessionvars
<1> QED BY <1>1, <1>2

(* Discovery: a workspace lists every repository that stayed and lies within *)
(* no other, once, and nothing else, whatever came and went meanwhile.       *)
THEOREM DiscoveriesExact == SessionSpec => []DiscoveredExactly
<1>1. WInv => DiscoveredExactly
  BY DEF WInv
<1> QED BY <1>1, SessionWInv, PTL DEF SessionSpec

(* gither route and gither graph: their answers do not depend on the order   *)
(* of the workspace's entries.                                               *)
THEOREM AnswersOrderFree == SessionSpec => []OrderOfNoAccount
<1>1. SessionInit => AnswerFits
  BY DEF SessionInit, DiscoveryInit, AnswerFits
<1>2. WInv /\ AnswerFits /\ [SessionNext]_sessionvars => AnswerFits'
  BY NextAnswerFits DEF SessionNext, Keys, Discover, Scores, sessionvars
<1>3. WInv /\ AnswerFits => OrderOfNoAccount
  BY FitsOrderOfNoAccount
<1> QED BY <1>1, <1>2, <1>3, SessionWInv, PTL DEF SessionSpec

LEMMA SessionTaken == /\ SessionInit => Taken
                      /\ Taken /\ [SessionNext]_sessionvars => Taken'
<1>1. SessionInit => Taken
  BY DEF SessionInit, ContributionsInit, Taken
<1>2. ASSUME Taken, [SessionNext]_sessionvars PROVE Taken'
  <2>1. ASSUME UNCHANGED scorevars PROVE Taken'
    <3>1. export' = export /\ scores' = scores
      BY <2>1 DEF scorevars
    <3> QED BY <1>2, <3>1 DEF Taken
  <2> QED BY <1>2, <2>1, TakenNext DEF SessionNext, Keys, Discover, Scores, sessionvars
<1> QED BY <1>1, <1>2

(* enrichment-score: the standing does not depend on the order of the        *)
(* export, nor on records that are not merged or have no author.             *)
THEOREM StandingsOrderFree == SessionSpec => []OrderFree
BY SessionTaken, ScoresOrderFree, PTL DEF SessionSpec

(* enrichment-score: nobody loses points as the export grows. *)
THEOREM ScoresGrow == SessionSpec => ScoresOnlyGrow
<1>1. Taken /\ [SessionNext]_sessionvars =>
        [\A a \in Author : ScoreOf(scores', a) >= ScoreOf(scores, a)]_scorevars
  BY TakenNext DEF SessionNext, Keys, Discover, Scores, sessionvars
<1> QED BY <1>1, SessionTaken, PTL DEF SessionSpec, ScoresOnlyGrow

-----------------------------------------------------------------------------
(* Node IDs: the digits of a number, to the base 58 or 256, determine it.    *)
Bases == {58, 256}
Digit(base) == 0..(base - 1)

(* The digits of a number: those of its quotient, then its remainder. *)
LEMMA DigitsOf ==
  ASSUME NEW base \in Bases, NEW n \in Nat
  PROVE  /\ Digits(n, base) \in Seq(Digit(base))
         /\ Digits(n, base) = IF n = 0 THEN <<>> ELSE Append(Digits(n \div base, base), n % base)
<1> DEFINE Eq(f) == f = [m \in Nat |-> IF m = 0 THEN <<>> ELSE Append(f[m \div base], m % base)]
<1>0. PICK T : T = Seq(Digit(base))
  OBVIOUS
<1>1. \A m \in Nat : /\ m % base \in Digit(base) /\ m \div base \in Nat
                     /\ m # 0 => m \div base \in 0..(m - 1)
  <2>1. CASE base = 58
    BY <2>1 DEF Digit
  <2>2. CASE base = 256
    BY <2>2 DEF Digit
  <2> QED BY <2>1, <2>2 DEF Bases
<1>2. PICK step : step = [p \in Nat \X T |-> Append(p[2], p[1] % base)]
  OBVIOUS
<1>3. PICK before : before = [m \in Nat |-> m \div base]
  OBVIOUS
<1>4. \A m \in Nat, x \in T : step[<<m, x>>] = Append(x, m % base)
  BY <1>2
<1>a. \A m \in Nat, x \in T : step[<<m, x>>] \in T
  <2> SUFFICES ASSUME NEW m \in Nat, NEW x \in T PROVE step[<<m, x>>] \in T
    OBVIOUS
  <2>1. m % base \in Digit(base)
    BY <1>1
  <2>2. Append(x, m % base) \in Seq(Digit(base))
    BY <1>0, <2>1
  <2>3. step[<<m, x>>] = Append(x, m % base)
    BY <1>4
  <2> QED BY <1>0, <2>2, <2>3
<1>5. PICK f : Recursive(f, T, <<>>, step, before)
  <2>1. <<>> \in T
    BY <1>0
  <2>2. \A m \in Nat \ {0} : before[m] \in 0..(m - 1)
    BY <1>1, <1>3
  <2>3. \A m \in Nat, x \in T : step[<<m, x>>] \in T
    BY <1>a
  <2> QED BY <2>1, <2>2, <2>3, RecursiveExists
<1>6. \A m \in Nat : f[m] \in T /\ f[m] = IF m = 0 THEN <<>> ELSE Append(f[m \div base], m % base)
  <2> SUFFICES ASSUME NEW m \in Nat
               PROVE  f[m] \in T /\ f[m] = IF m = 0 THEN <<>> ELSE Append(f[m \div base], m % base)
    OBVIOUS
  <2>1. f[m] \in T /\ f[m \div base] \in T
    BY <1>1, <1>5 DEF Recursive
  <2>2. f[m] = IF m = 0 THEN <<>> ELSE step[<<m, f[before[m]]>>]
    BY <1>5 DEF Recursive
  <2>3. before[m] = m \div base /\ step[<<m, f[m \div base]>>] = Append(f[m \div base], m % base)
    <3>1. before[m] = m \div base
      BY <1>3
    <3>2. step[<<m, f[m \div base]>>] = Append(f[m \div base], m % base)
      BY <1>4, <2>1
    <3> QED BY <3>1, <3>2
  <2> QED BY <2>1, <2>2, <2>3
<1>7. \E g : Eq(g)
  <2>1. f = [m \in Nat |-> f[m]]
    BY <1>5 DEF Recursive
  <2>2. f = [m \in Nat |-> IF m = 0 THEN <<>> ELSE Append(f[m \div base], m % base)]
    BY <1>6, <2>1
  <2> QED BY <2>2
<1> DEFINE d == CHOOSE g : Eq(g)
<1>8. Eq(d)
  BY <1>7
<1>9. \A m \in Nat : Digits(m, base) = d[m]
  BY DEF Digits
<1> HIDE DEF d
<1>10. \A m \in Nat : d[m] = IF m = 0 THEN <<>> ELSE Append(d[m \div base], m % base)
  <2> DEFINE e(m) == IF m = 0 THEN <<>> ELSE Append(d[m \div base], m % base)
  <2>1. d = [m \in Nat |-> e(m)]
    BY <1>8
  <2> HIDE DEF e
  <2>2. \A m \in Nat : d[m] = e(m)
    BY <2>1
  <2> QED BY <2>2 DEF e
<1> DEFINE E == {m \in Nat : d[m] = f[m]}
<1>11. ASSUME NEW m \in Nat, \A k \in Nat : k < m => k \in E PROVE m \in E
  <2>1. m # 0 => m \div base \in Nat /\ m \div base < m
    BY <1>1
  <2>2. m # 0 => d[m \div base] = f[m \div base]
    BY <1>11, <2>1
  <2> QED BY <1>6, <1>10, <2>2
<1>12. \A m \in Nat : d[m] = f[m]
  <2>1. Nat \subseteq E
    <3> HIDE DEF E
    <3> QED BY <1>11, SetStrongInduction
  <2> QED BY <2>1
<1>13. /\ Digits(n, base) = d[n] /\ d[n] \in T
       /\ d[n] = IF n = 0 THEN <<>> ELSE Append(d[n \div base], n % base)
  BY <1>6, <1>9, <1>10, <1>12
<1>14. Digits(n \div base, base) = d[n \div base]
  BY <1>1, <1>9
<1> QED BY <1>0, <1>13, <1>14

(* The partial values of a list of digits. *)
Partial(v, s, base) ==
  /\ v[0] = 0
  /\ \A n \in 1..Len(s) : v[n] = v[n - 1] * base + s[n]

(* The value is the last partial one, whatever they are taken from. *)
LEMMA ValueOf ==
  ASSUME NEW s \in Seq(Nat), NEW base \in Bases
  PROVE  \E v : /\ Partial(v, s, base) /\ \A n \in 0..Len(s) : v[n] \in Nat
                /\ Value(s, base) = v[Len(s)]
<1> DEFINE N == Len(s)
           Eq(v) == v = [n \in 0..N |-> IF n = 0 THEN 0 ELSE v[n - 1] * base + s[n]]
<1>0. N \in Nat /\ \A n \in 1..N : s[n] \in Nat
  OBVIOUS
<1>1. PICK step : step = [p \in Nat \X Nat |-> IF p[1] \in 1..N THEN p[2] * base + s[p[1]] ELSE 0]
  OBVIOUS
<1>2. PICK before : before = [n \in Nat |-> n - 1]
  OBVIOUS
<1>3. \A n \in Nat, x \in Nat : step[<<n, x>>] = IF n \in 1..N THEN x * base + s[n] ELSE 0
  BY <1>1
<1>a. \A n \in Nat, x \in Nat : step[<<n, x>>] \in Nat
  <2> SUFFICES ASSUME NEW n \in Nat, NEW x \in Nat PROVE step[<<n, x>>] \in Nat
    OBVIOUS
  <2>1. step[<<n, x>>] = IF n \in 1..N THEN x * base + s[n] ELSE 0
    BY <1>3
  <2>2. x * base \in Nat
    <3>1. CASE base = 58
      BY <3>1
    <3>2. CASE base = 256
      BY <3>2
    <3> QED BY <3>1, <3>2 DEF Bases
  <2> QED BY <1>0, <2>1, <2>2
<1>4. PICK f : Recursive(f, Nat, 0, step, before)
  <2>1. \A n \in Nat \ {0} : before[n] \in 0..(n - 1)
    BY <1>2
  <2> QED BY <1>a, <2>1, 0 \in Nat, RecursiveExists
<1>b. \A n \in Nat : f[n] \in Nat /\ f[n] = IF n = 0 THEN 0 ELSE step[<<n, f[before[n]]>>]
  BY <1>4 DEF Recursive
<1>5. PICK h : h = [n \in 0..N |-> f[n]]
  OBVIOUS
<1>6. \A n \in 0..N : h[n] = IF n = 0 THEN 0 ELSE h[n - 1] * base + s[n]
  <2> SUFFICES ASSUME NEW n \in 0..N PROVE h[n] = IF n = 0 THEN 0 ELSE h[n - 1] * base + s[n]
    OBVIOUS
  <2>1. f[n] = IF n = 0 THEN 0 ELSE step[<<n, f[before[n]]>>]
    BY <1>0, <1>b
  <2>2. ASSUME n # 0
        PROVE  /\ n \in 1..N /\ n - 1 \in 0..N /\ before[n] = n - 1
               /\ f[n - 1] \in Nat /\ h[n - 1] = f[n - 1]
    <3>1. n \in 1..N /\ n - 1 \in 0..N /\ n - 1 \in Nat /\ n \in Nat
      BY <1>0, <2>2
    <3> QED BY <1>2, <1>5, <1>b, <3>1
  <2>3. h[n] = f[n]
    BY <1>5
  <2> QED BY <1>3, <2>1, <2>2, <2>3
<1>7. \E v : Eq(v)
  <2>1. h = [n \in 0..N |-> h[n]]
    BY <1>5
  <2>2. h = [n \in 0..N |-> IF n = 0 THEN 0 ELSE h[n - 1] * base + s[n]]
    BY <1>6, <2>1
  <2> QED BY <2>2
<1> DEFINE w == CHOOSE v : Eq(v)
<1>8. Eq(w)
  BY <1>7
<1>9. Value(s, base) = w[N]
  BY DEF Value
<1> HIDE DEF w
<1>10. \A n \in 0..N : w[n] = IF n = 0 THEN 0 ELSE w[n - 1] * base + s[n]
  BY <1>8
<1> DEFINE E == {n \in Nat : n <= N => w[n] = h[n]}
<1>11. \A n \in 0..N : w[n] = h[n]
  <2>1. 0 \in E
    BY <1>0, <1>6, <1>10
  <2>2. ASSUME NEW n \in Nat, n \in E PROVE n + 1 \in E
    <3> SUFFICES ASSUME n + 1 <= N PROVE w[n + 1] = h[n + 1]
      OBVIOUS
    <3>0. n <= N
      BY <1>0
    <3>1. n + 1 \in 0..N /\ n + 1 # 0 /\ (n + 1) - 1 = n /\ w[n] = h[n]
      BY <1>0, <2>2, <3>0
    <3>2. w[n + 1] = w[(n + 1) - 1] * base + s[n + 1] /\ h[n + 1] = h[(n + 1) - 1] * base + s[n + 1]
      BY <3>1, <1>6, <1>10
    <3> QED BY <3>1, <3>2
  <2>3. Nat \subseteq E
    <3> HIDE DEF E
    <3> QED BY <2>1, <2>2, SetInduction
  <2> QED BY <1>0, <2>3
<1>12. Partial(w, s, base)
  <2>1. w[0] = 0
    BY <1>0, <1>10
  <2>2. ASSUME NEW n \in 1..N PROVE w[n] = w[n - 1] * base + s[n]
    BY <1>10
  <2> QED BY <2>1, <2>2 DEF Partial
<1>13. \A n \in 0..N : w[n] \in Nat
  <2> TAKE n \in 0..N
  <2>1. n \in Nat /\ w[n] = h[n] /\ h[n] = f[n]
    BY <1>0, <1>5, <1>11
  <2> QED BY <2>1, <1>b
<1> QED BY <1>9, <1>12, <1>13

LEMMA ValueFrom ==
  ASSUME NEW s \in Seq(Nat), NEW base \in Bases, NEW w, Partial(w, s, base)
  PROVE  Value(s, base) = w[Len(s)] /\ Value(s, base) \in Nat
<1>0. Len(s) \in Nat
  OBVIOUS
<1>1. PICK v : /\ Partial(v, s, base) /\ \A n \in 0..Len(s) : v[n] \in Nat
               /\ Value(s, base) = v[Len(s)]
  BY ValueOf
<1> DEFINE E == {n \in Nat : n <= Len(s) => w[n] = v[n]}
<1>2. 0 \in E
  BY <1>1 DEF Partial
<1>3. ASSUME NEW n \in Nat, n \in E PROVE n + 1 \in E
  <2> SUFFICES ASSUME n + 1 <= Len(s) PROVE w[n + 1] = v[n + 1]
    OBVIOUS
  <2>1. n + 1 \in 1..Len(s) /\ (n + 1) - 1 = n /\ w[n] = v[n]
    BY <1>0, <1>3
  <2>2. w[n + 1] = w[(n + 1) - 1] * base + s[n + 1] /\ v[n + 1] = v[(n + 1) - 1] * base + s[n + 1]
    BY <1>1, <2>1 DEF Partial
  <2> QED BY <2>1, <2>2
<1>4. Nat \subseteq E
  <2> HIDE DEF E
  <2> QED BY <1>2, <1>3, SetInduction
<1> QED BY <1>0, <1>1, <1>4

(* One digit more. *)
LEMMA ValueAppend ==
  ASSUME NEW s \in Seq(Nat), NEW d \in Nat, NEW base \in Bases
  PROVE  /\ Value(s, base) \in Nat /\ Value(<<>>, base) = 0
         /\ Value(Append(s, d), base) = Value(s, base) * base + d
<1> DEFINE N == Len(s)
<1>0. N \in Nat
  OBVIOUS
<1>1. PICK v : /\ Partial(v, s, base) /\ \A n \in 0..Len(s) : v[n] \in Nat
               /\ Value(s, base) = v[Len(s)]
  BY ValueOf
<1>2. PICK w : w = [n \in 0..(N + 1) |-> IF n = N + 1 THEN v[N] * base + d ELSE v[n]]
  OBVIOUS
<1>3. Append(s, d) \in Seq(Nat) /\ Len(Append(s, d)) = N + 1
  OBVIOUS
<1>4. Partial(w, Append(s, d), base)
  <2>1. w[0] = 0
    BY <1>0, <1>1, <1>2 DEF Partial
  <2>2. ASSUME NEW n \in 1..(N + 1) PROVE w[n] = w[n - 1] * base + Append(s, d)[n]
    <3>1. CASE n = N + 1
      <4>1. w[n] = v[N] * base + d /\ w[n - 1] = v[N] /\ Append(s, d)[n] = d
        BY <1>0, <1>2, <3>1
      <4> QED BY <4>1
    <3>2. CASE n # N + 1
      <4>1. n \in 1..N /\ w[n] = v[n] /\ w[n - 1] = v[n - 1] /\ Append(s, d)[n] = s[n]
        BY <1>0, <1>2, <3>2
      <4> QED BY <1>1, <4>1 DEF Partial
    <3> QED BY <3>1, <3>2
  <2> QED BY <1>3, <2>1, <2>2 DEF Partial
<1>5. Value(Append(s, d), base) = w[N + 1]
  <2>1. PICK t \in Seq(Nat) : t = Append(s, d)
    BY <1>3
  <2>2. Partial(w, t, base)
    BY <1>4, <2>1
  <2>3. Value(t, base) = w[Len(t)]
    BY <2>2, ValueFrom
  <2> QED BY <1>3, <2>1, <2>3
<1>6. w[N + 1] = Value(s, base) * base + d
  BY <1>0, <1>1, <1>2
<1>7. Value(s, base) \in Nat
  BY <1>0, <1>1
<1>8. Value(<<>>, base) = 0
  <2>1. PICK u : Partial(u, <<>>, base) /\ Value(<<>>, base) = u[Len(<<>>)]
    <3>0. PICK e : e = <<>>
      OBVIOUS
    <3>1. e \in Seq(Nat)
      BY <3>0
    <3>2. PICK u : Partial(u, e, base) /\ Value(e, base) = u[Len(e)]
      BY <3>1, ValueOf
    <3> QED BY <3>0, <3>2
  <2> QED BY <2>1 DEF Partial
<1> QED BY <1>5, <1>6, <1>7, <1>8

LEMMA ValueEmpty == ASSUME NEW base, base \in Bases PROVE Value(<<>>, base) = 0
<1>1. PICK s : s = <<>>
  OBVIOUS
<1>2. s \in Seq(Nat)
  BY <1>1
<1> QED BY <1>2, 0 \in Nat, ValueAppend

(* A last digit can be taken off again. *)
LEMMA LastDigit ==
  ASSUME NEW base, base \in Bases, NEW v \in Nat, NEW d \in Digit(base)
  PROVE  /\ v * base + d \in Nat /\ (v # 0 \/ d # 0 => v * base + d # 0)
         /\ (v * base + d) \div base = v /\ (v * base + d) % base = d
<1>1. base = 58 \/ base = 256
  BY DEF Bases
<1>2. \A e \in 0..57 : /\ v * 58 + e \in Nat /\ (v # 0 \/ e # 0 => v * 58 + e # 0)
                      /\ (v * 58 + e) \div 58 = v /\ (v * 58 + e) % 58 = e
  OBVIOUS
<1>3. \A e \in 0..255 : /\ v * 256 + e \in Nat /\ (v # 0 \/ e # 0 => v * 256 + e # 0)
                       /\ (v * 256 + e) \div 256 = v /\ (v * 256 + e) % 256 = e
  OBVIOUS
<1>4. Digit(58) = 0..57 /\ Digit(256) = 0..255
  BY DEF Digit
<1>5. CASE base = 58
  <2>1. d \in 0..57
    BY <1>4, <1>5
  <2>2. /\ v * 58 + d \in Nat /\ (v # 0 \/ d # 0 => v * 58 + d # 0)
        /\ (v * 58 + d) \div 58 = v /\ (v * 58 + d) % 58 = d
    BY <1>2, <2>1
  <2> QED BY <1>5, <2>2
<1>6. CASE base = 256
  <2>1. d \in 0..255
    BY <1>4, <1>6
  <2>2. /\ v * 256 + d \in Nat /\ (v # 0 \/ d # 0 => v * 256 + d # 0)
        /\ (v * 256 + d) \div 256 = v /\ (v * 256 + d) % 256 = d
    BY <1>3, <2>1
  <2> QED BY <1>6, <2>2
<1> QED BY <1>1, <1>5, <1>6

(* What follows some zeros. *)
LEMMA ZerosThen ==
  ASSUME NEW S, 0 \in S, NEW s \in Seq(S), NEW k \in Nat
  PROVE  /\ Zeros(k) \o s \in Seq(S) /\ Len(Zeros(k) \o s) = k + Len(s)
         /\ \A n \in 1..(k + Len(s)) : (Zeros(k) \o s)[n] = IF n <= k THEN 0 ELSE s[n - k]
<1>1. PICK z : z = Zeros(k)
  OBVIOUS
<1>2. z \in Seq(S) /\ Len(z) = k /\ \A n \in 1..k : z[n] = 0
  BY <1>1 DEF Zeros
<1>3. /\ z \o s \in Seq(S) /\ Len(z \o s) = Len(z) + Len(s)
      /\ \A i \in 1..(Len(z) + Len(s)) : (z \o s)[i] = IF i <= Len(z) THEN z[i] ELSE s[i - Len(z)]
  BY <1>2, ConcatProperties
<1>4. \A n \in 1..(k + Len(s)) : n <= k => n \in 1..k
  OBVIOUS
<1> QED BY <1>1, <1>2, <1>3, <1>4

(* Digits of which the first is not 0, or none. *)
Lean(s) == s = <<>> \/ s[1] # 0

(* The digits of a number are lean, and mean the number. *)
LEMMA DigitsMean ==
  ASSUME NEW base, base \in Bases, NEW n \in Nat
  PROVE  Lean(Digits(n, base)) /\ Value(Digits(n, base), base) = n
<1> DEFINE Good(m) == /\ m # 0 => Digits(m, base) # <<>> /\ Digits(m, base)[1] # 0
                      /\ Value(Digits(m, base), base) = m
           E == {m \in Nat : Good(m)}
<1>1. ASSUME NEW m \in Nat, \A k \in Nat : k < m => k \in E PROVE m \in E
  <2>1. CASE m = 0
    <3>1. Digits(m, base) = <<>>
      BY <2>1, DigitsOf
    <3>3. Value(<<>>, base) = 0
      BY ValueEmpty
    <3> QED BY <2>1, <3>1, <3>3
  <2>2. CASE m # 0
    <3>1. PICK q, r : q = m \div base /\ r = m % base
      OBVIOUS
    <3>2. /\ q \in Nat /\ q < m /\ r \in 0..(base - 1) /\ r \in Nat /\ m = q * base + r
      <4>1. CASE base = 58
        BY <2>2, <3>1, <4>1
      <4>2. CASE base = 256
        BY <2>2, <3>1, <4>2
      <4> QED BY <4>1, <4>2 DEF Bases
    <3>3. PICK front : front = Digits(q, base)
      OBVIOUS
    <3>4. front \in Seq(Nat)
      <4>1. front \in Seq(Digit(base))
        BY <3>2, <3>3, DigitsOf
      <4>2. Digit(base) \subseteq Nat
        BY DEF Digit, Bases
      <4> QED BY <4>1, <4>2, SeqMonotonic
    <3>5. Digits(m, base) = Append(front, r)
      BY <2>2, <3>1, <3>3, DigitsOf
    <3>6. Value(Append(front, r), base) = Value(front, base) * base + r
      BY <3>2, <3>4, ValueAppend
    <3>7. Good(q)
      BY <1>1, <3>2
    <3>8. Value(Digits(m, base), base) = m
      BY <3>2, <3>3, <3>5, <3>6, <3>7
    <3>9. CASE q = 0
      <4>1. front = <<>>
        BY <3>2, <3>3, <3>9, DigitsOf
      <4>2. r # 0
        <5>1. CASE base = 58
          BY <2>2, <3>2, <3>9, <5>1
        <5>2. CASE base = 256
          BY <2>2, <3>2, <3>9, <5>2
        <5> QED BY <5>1, <5>2 DEF Bases
      <4>3. Append(<<>>, r)[1] = r /\ Append(<<>>, r) # <<>>
        OBVIOUS
      <4> QED BY <2>2, <3>5, <3>8, <4>1, <4>2, <4>3
    <3>10. CASE q # 0
      <4>1. front # <<>> /\ front[1] # 0
        BY <3>3, <3>7, <3>10
      <4>2. Append(front, r)[1] = front[1] /\ Append(front, r) # <<>>
        BY <3>2, <3>4, <4>1
      <4> QED BY <2>2, <3>5, <3>8, <4>1, <4>2
    <3> QED BY <3>9, <3>10
  <2> QED BY <2>1, <2>2
<1>2. n \in E
  <2> HIDE DEF E
  <2> QED BY <1>1, SetStrongInduction
<1>3. Good(n)
  BY <1>2
<1>4. n = 0 => Digits(n, base) = <<>>
  BY DigitsOf
<1> QED BY <1>3, <1>4 DEF Lean

(* Lean digits are those of the number they mean. *)
LEMMA DigitsOfValue ==
  ASSUME NEW base, base \in Bases, NEW s \in Seq(Digit(base)), Lean(s)
  PROVE  Digits(Value(s, base), base) = s
<1>0. Digit(base) \subseteq Nat /\ base \in Nat /\ base > 1
  BY DEF Digit, Bases
<1> DEFINE E == {m \in Nat : \A t \in Seq(Digit(base)) :
                   Len(t) = m /\ Lean(t) => Digits(Value(t, base), base) = t}
<1>1. 0 \in E
  <2> SUFFICES ASSUME NEW t \in Seq(Digit(base)), Len(t) = 0
               PROVE  Digits(Value(t, base), base) = t
    OBVIOUS
  <2>1. t = <<>>
    OBVIOUS
  <2>3. Value(<<>>, base) = 0
    BY ValueEmpty
  <2> QED BY <2>1, <2>3, DigitsOf
<1>2. ASSUME NEW m \in Nat, m \in E PROVE m + 1 \in E
  <2> SUFFICES ASSUME NEW t \in Seq(Digit(base)), Len(t) = m + 1, Lean(t)
               PROVE  Digits(Value(t, base), base) = t
    OBVIOUS
  <2>0. t \in [1..(m + 1) -> Digit(base)]
    OBVIOUS
  <2>1. PICK front, last : front = SubSeq(t, 1, m) /\ last = t[m + 1]
    OBVIOUS
  <2>2. /\ front \in Seq(Digit(base)) /\ Len(front) = m /\ last \in Digit(base)
        /\ t = Append(front, last)
        /\ m > 0 => front[1] = t[1]
    BY <2>1
  <2>3. Lean(front)
    <3>1. CASE m = 0
      BY <2>2, <3>1 DEF Lean
    <3>2. CASE m > 0
      BY <2>2, <3>2 DEF Lean
    <3> QED BY <3>1, <3>2
  <2>4. Digits(Value(front, base), base) = front
    <3> HIDE <2>1
    <3> QED BY <1>2, <2>2, <2>3
  <2>5. front \in Seq(Nat) /\ last \in Nat
    BY <1>0, <2>2, SeqMonotonic
  <2>6. PICK v : v = Value(front, base)
    OBVIOUS
  <2>7. v \in Nat /\ Value(t, base) = v * base + last
    BY <2>2, <2>5, <2>6, ValueAppend
  <2>8. v # 0 \/ last # 0
    <3>1. CASE m = 0
      <4>1. t[1] = last /\ t # <<>>
        <5>1. Len(t) = 1 /\ m + 1 = 1
          BY <3>1
        <5>2. t # <<>>
          BY <5>1
        <5> QED BY <2>1, <5>1, <5>2
      <4> QED BY <4>1 DEF Lean
    <3>2. CASE m > 0
      <4>1. v = 0 => Digits(v, base) = <<>>
        BY <2>7, DigitsOf
      <4>2. front # <<>>
        BY <2>2, <3>2
      <4> QED BY <2>4, <2>6, <4>1, <4>2
    <3> QED BY <3>1, <3>2
  <2>9. /\ v * base + last \in Nat /\ v * base + last # 0
        /\ (v * base + last) \div base = v /\ (v * base + last) % base = last
    BY <2>2, <2>7, <2>8, LastDigit
  <2>10. Digits(v * base + last, base) = Append(Digits(v, base), last)
    BY <2>9, DigitsOf
  <2> QED BY <2>2, <2>4, <2>6, <2>7, <2>10
<1>3. Len(s) \in E
  <2>1. Nat \subseteq E
    <3> HIDE DEF E
    <3> QED BY <1>1, <1>2, SetInduction
  <2> QED BY <2>1
<1> QED BY <1>3

(* Leading zeros do not count. *)
LEMMA ValueZeros ==
  ASSUME NEW base, base \in Bases, NEW s \in Seq(Nat), NEW k \in Nat
  PROVE  Value(Zeros(k) \o s, base) = Value(s, base)
<1> DEFINE N == Len(s)
<1>0. N \in Nat /\ base \in Nat
  BY DEF Bases
<1>1. PICK v : /\ Partial(v, s, base) /\ \A n \in 0..Len(s) : v[n] \in Nat
               /\ Value(s, base) = v[Len(s)]
  BY ValueOf
<1>2. PICK w : w = [n \in 0..(k + N) |-> IF n <= k THEN 0 ELSE v[n - k]]
  OBVIOUS
<1>3. PICK t : t = Zeros(k) \o s
  OBVIOUS
<1>4. /\ t \in Seq(Nat) /\ Len(t) = k + N
      /\ \A n \in 1..(k + N) : t[n] = IF n <= k THEN 0 ELSE s[n - k]
  BY <1>3, 0 \in Nat, ZerosThen
<1>5. Partial(w, t, base)
  <2>1. w[0] = 0
    BY <1>0, <1>2
  <2>2. ASSUME NEW n \in 1..(k + N) PROVE w[n] = w[n - 1] * base + t[n]
    <3>1. CASE n <= k
      <4>1. w[n] = 0 /\ w[n - 1] = 0 /\ t[n] = 0
        BY <1>0, <1>2, <1>4, <3>1
      <4> QED BY <1>0, <4>1
    <3>2. CASE n > k
      <4>1. w[n] = v[n - k] /\ t[n] = s[n - k] /\ n - k \in 1..N
        BY <1>0, <1>2, <1>4, <3>2
      <4>2. v[n - k] = v[(n - k) - 1] * base + s[n - k]
        BY <1>1, <4>1 DEF Partial
      <4>3. w[n - 1] = v[(n - k) - 1]
        <5>1. CASE n - 1 <= k
          <6>1. w[n - 1] = 0 /\ (n - k) - 1 = 0
            BY <1>0, <1>2, <3>2, <5>1
          <6> QED BY <1>1, <6>1 DEF Partial
        <5>2. CASE n - 1 > k
          BY <1>0, <1>2, <5>2
        <5> QED BY <5>1, <5>2
      <4> QED BY <4>1, <4>2, <4>3
    <3> QED BY <3>1, <3>2
  <2> QED BY <1>4, <2>1, <2>2 DEF Partial
<1>6. Value(t, base) = w[Len(t)]
  BY <1>4, <1>5, ValueFrom
<1>7. w[k + N] = v[N]
  <2>1. CASE N = 0
    BY <1>0, <1>1, <1>2, <2>1 DEF Partial
  <2>2. CASE N # 0
    BY <1>0, <1>2, <2>2
  <2> QED BY <2>1, <2>2
<1> QED BY <1>1, <1>3, <1>4, <1>6, <1>7

(* The leading zeros of a sequence, and what follows them. *)
LEMMA LeadingZerosOf ==
  ASSUME NEW s \in Seq(Nat), NEW k \in Nat, Lean(s)
  PROVE  LeadingZeros(Zeros(k) \o s) = k
<1>1. PICK t : t = Zeros(k) \o s
  OBVIOUS
<1>2. /\ t \in Seq(Nat) /\ Len(t) = k + Len(s) /\ Len(s) \in Nat
      /\ \A n \in 1..(k + Len(s)) : t[n] = IF n <= k THEN 0 ELSE s[n - k]
  <2>1. Len(s) \in Nat
    OBVIOUS
  <2>2. PICK z : z = Zeros(k) \o s
    OBVIOUS
  <2>3. /\ z \in Seq(Nat) /\ Len(z) = k + Len(s)
        /\ \A n \in 1..(k + Len(s)) : z[n] = IF n <= k THEN 0 ELSE s[n - k]
    BY <2>2, 0 \in Nat, ZerosThen
  <2> QED BY <1>1, <2>1, <2>2, <2>3
<1> DEFINE Z0 == {i \in 1..Len(t) : \A j \in 1..i : t[j] = 0}
<1>3. Z0 = 1..k
  <2>1. ASSUME NEW i \in 1..k PROVE i \in Z0
    BY <1>2
  <2>2. ASSUME NEW i \in Z0 PROVE i \in 1..k
    <3> SUFFICES ASSUME i > k PROVE FALSE
      BY <1>2
    <3>1. k + 1 \in 1..i /\ k + 1 \in 1..(k + Len(s)) /\ Len(s) > 0
      BY <1>2
    <3>2. t[k + 1] = 0
      BY <3>1
    <3>3. t[k + 1] = s[1]
      BY <1>2, <3>1
    <3>4. s # <<>>
      BY <3>1
    <3> QED BY <3>2, <3>3, <3>4 DEF Lean
  <2> HIDE DEF Z0
  <2> QED BY <2>1, <2>2
<1>4. Cardinality(1..k) = k
  BY FS_Interval
<1> HIDE DEF Z0
<1>5. LeadingZeros(t) = Cardinality(Z0)
  BY DEF LeadingZeros, Z0
<1> QED BY <1>1, <1>3, <1>4, <1>5

LEMMA ZerosAndLean ==
  ASSUME NEW base, base \in Bases, NEW s \in Seq(Digit(base))
  PROVE  \E k \in Nat, r \in Seq(Digit(base)) : Lean(r) /\ s = Zeros(k) \o r
<1> DEFINE N == Len(s)
           T == {i \in Nat : i \in 1..N /\ s[i] # 0}
<1>0. N \in Nat /\ 0 \in Digit(base) /\ <<>> \in Seq(Digit(base))
  BY DEF Digit, Bases
<1>1. CASE T = {}
  <2>1. \A i \in 1..N : s[i] = 0
    BY <1>1
  <2>2. PICK k, r : k = N /\ r = <<>>
    OBVIOUS
  <2>z. PICK z : z = Zeros(k) \o r
    OBVIOUS
  <2>3. k \in Nat /\ r \in Seq(Digit(base)) /\ Len(r) = 0
    BY <1>0, <2>2
  <2>4. /\ z \in Seq(Digit(base)) /\ Len(z) = k + Len(r)
        /\ \A i \in 1..(k + Len(r)) : z[i] = IF i <= k THEN 0 ELSE r[i - k]
    <3>1. 0 \in Digit(base)
      BY <1>0
    <3> QED BY <2>z, <2>3, <3>1, ZerosThen
  <2>5. Len(z) = N /\ \A i \in 1..N : z[i] = s[i]
    BY <1>0, <2>1, <2>2, <2>3, <2>4
  <2>6. s = z
    BY <2>4, <2>5, SeqEqual
  <2> QED BY <2>2, <2>z, <2>3, <2>6 DEF Lean
<1>2. CASE T # {}
  <2>1. PICK m \in T : \A i \in T : m <= i
    BY <1>2, NatMin, T \subseteq Nat
  <2>2. m \in 1..N /\ s[m] # 0 /\ \A i \in 1..N : i < m => s[i] = 0
    BY <1>0, <2>1
  <2>3. PICK k, r : k = m - 1 /\ r = SubSeq(s, m, N)
    OBVIOUS
  <2>4. /\ k \in Nat /\ r \in Seq(Digit(base)) /\ Len(r) = N - k
        /\ \A i \in 1..(N - k) : r[i] = s[k + i]
    BY <1>0, <2>2, <2>3
  <2>5. Lean(r)
    <3>1. 1 \in 1..(N - k) /\ k + 1 = m
      BY <1>0, <2>2, <2>3
    <3>2. r[1] = s[m]
      BY <2>4, <3>1
    <3> QED BY <2>2, <3>2 DEF Lean
  <2>6. PICK z : z = Zeros(k) \o r
    OBVIOUS
  <2>7. /\ z \in Seq(Digit(base)) /\ Len(z) = k + Len(r)
        /\ \A i \in 1..(k + Len(r)) : z[i] = IF i <= k THEN 0 ELSE r[i - k]
    BY <1>0, <2>4, <2>6, ZerosThen
  <2>8. Len(z) = N
    BY <1>0, <2>2, <2>3, <2>4, <2>7
  <2>9. ASSUME NEW i \in 1..N PROVE z[i] = s[i]
    <3>0. z[i] = IF i <= k THEN 0 ELSE r[i - k]
      BY <1>0, <2>4, <2>7, <2>8
    <3>1. CASE i <= k
      BY <2>2, <2>3, <3>0, <3>1
    <3>2. CASE i > k
      <4>1. i - k \in 1..(N - k) /\ k + (i - k) = i
        BY <1>0, <2>2, <2>3, <2>4, <3>2
      <4> QED BY <2>4, <3>0, <3>2, <4>1
    <3> QED BY <2>4, <3>1, <3>2
  <2>10. s = z
    BY <2>7, <2>8, <2>9, SeqEqual
  <2> QED BY <2>4, <2>5, <2>6, <2>10
<1> QED BY <1>1, <1>2

(* Written again to the other base, a sequence keeps its zeros and its value. *)
Rewritten(s, from, to) == Zeros(LeadingZeros(s)) \o Digits(Value(s, from), to)

LEMMA RewrittenBack ==
  ASSUME NEW from, from \in Bases, NEW to, to \in Bases, NEW s \in Seq(Digit(from))
  PROVE  /\ Rewritten(s, from, to) \in Seq(Digit(to))
         /\ Rewritten(Rewritten(s, from, to), to, from) = s
<1>0. /\ Digit(from) \subseteq Nat /\ Digit(to) \subseteq Nat /\ 0 \in Digit(to)
  BY DEF Digit, Bases
<1>1. PICK k \in Nat, r \in Seq(Digit(from)) : Lean(r) /\ s = Zeros(k) \o r
  BY ZerosAndLean
<1>2. r \in Seq(Nat)
  BY <1>0, SeqMonotonic
<1>3. PICK v : v = Value(r, from)
  OBVIOUS
<1>4. v \in Nat /\ Value(s, from) = v /\ LeadingZeros(s) = k
  BY <1>1, <1>2, <1>3, 0 \in Nat, ValueAppend, ValueZeros, LeadingZerosOf
<1>5. PICK d : d = Digits(v, to)
  OBVIOUS
<1>6. Rewritten(s, from, to) = Zeros(k) \o d
  BY <1>4, <1>5 DEF Rewritten
<1>7. d \in Seq(Digit(to)) /\ Lean(d) /\ Value(d, to) = v
  BY <1>4, <1>5, DigitsOf, DigitsMean
<1>8. d \in Seq(Nat)
  BY <1>0, <1>7, SeqMonotonic
<1>9. Zeros(k) \o d \in Seq(Digit(to))
  BY <1>0, <1>7, ZerosThen
<1>10. Value(Zeros(k) \o d, to) = v /\ LeadingZeros(Zeros(k) \o d) = k
  BY <1>7, <1>8, ValueZeros, LeadingZerosOf
<1>11. Digits(v, from) = r
  BY <1>1, <1>3, DigitsOfValue
<1>12. Rewritten(Zeros(k) \o d, to, from) = Zeros(k) \o r
  BY <1>10, <1>11 DEF Rewritten
<1> QED BY <1>1, <1>6, <1>9, <1>12

(* _b58encode and _b58decode undo each other. *)
LEMMA Base58 ==
  /\ \A data \in Seq(Digit(256)) : /\ B58Encode(data) \in Seq(Digit(58))
                                   /\ B58Decode(B58Encode(data)) = data
  /\ \A text \in Seq(Digit(58)) : /\ B58Decode(text) \in Seq(Digit(256))
                                  /\ B58Encode(B58Decode(text)) = text
<1>0. 58 \in Bases /\ 256 \in Bases
  BY DEF Bases
<1>1. ASSUME NEW text \in Seq(Digit(58)) PROVE B58Decode(text) = Rewritten(text, 58, 256)
  <2>1. NoDigit \notin Digit(58)
    BY DEF NoDigit, Digit
  <2>2. NoDigit \notin ToSet(text)
    BY <2>1 DEF ToSet
  <2> QED BY <2>2 DEF B58Decode, Rewritten
<1>2. \A data : B58Encode(data) = Rewritten(data, 256, 58)
  BY DEF B58Encode, Rewritten
<1>3. ASSUME NEW data \in Seq(Digit(256))
      PROVE  B58Encode(data) \in Seq(Digit(58)) /\ B58Decode(B58Encode(data)) = data
  <2>1. /\ Rewritten(data, 256, 58) \in Seq(Digit(58))
        /\ Rewritten(Rewritten(data, 256, 58), 58, 256) = data
    BY <1>0, RewrittenBack
  <2> QED BY <1>1, <1>2, <2>1
<1>4. ASSUME NEW text \in Seq(Digit(58))
      PROVE  B58Decode(text) \in Seq(Digit(256)) /\ B58Encode(B58Decode(text)) = text
  <2>1. /\ Rewritten(text, 58, 256) \in Seq(Digit(256))
        /\ Rewritten(Rewritten(text, 58, 256), 256, 58) = text
    BY <1>0, RewrittenBack
  <2> QED BY <1>1, <1>2, <2>1
<1> QED BY <1>3, <1>4

Texts == Seq(0..NoDigit)

LEMMA MulticodecSeq ==
  /\ Multicodec \in Seq(Digit(256)) /\ Len(Multicodec) = 2
  /\ Multicodec[1] = 237 /\ Multicodec[2] = 1
  /\ SubSeq(Multicodec, 1, 2) = Multicodec
<1>1. Multicodec \in Seq(Digit(256)) /\ Len(Multicodec) = 2
  BY DEF Multicodec, Digit
<1>2. SubSeq(Multicodec, 1, Len(Multicodec)) = Multicodec
  BY <1>1, SubSeqFull
<1> QED BY <1>1, <1>2 DEF Multicodec

(* A key is decoded from one text only. *)
LEMMA OneText ==
  ASSUME NEW did, did.multibase \in Texts, DecodeDid(did) # NoKey
  PROVE  /\ did.multibase = NodeId(DecodeDid(did)).multibase
         /\ DecodeDid(did) \in Seq(Digit(256)) /\ Len(DecodeDid(did)) = KeyLen
<1>1. PICK text, tail, raw, public :
        /\ text = did.multibase /\ tail = Tail(text)
        /\ raw = B58Decode(tail) /\ public = SubSeq(raw, 3, Len(raw))
  OBVIOUS
<1>2. /\ text \in Seq(0..58) /\ text # <<>> /\ Head(text) = Z
      /\ IsPrefix(Multicodec, raw) /\ Len(raw) = 2 + KeyLen
      /\ DecodeDid(did) = public
  BY <1>1 DEF DecodeDid, Texts, NoDigit
<1>3. tail \in Seq(0..58) /\ text = <<Z>> \o tail
  BY <1>1, <1>2
<1>4. raw # <<>>
  BY <1>2, KeyLenAssumption
<1>5. tail \in Seq(Digit(58))
  <2>1. NoDigit \notin ToSet(tail)
    BY <1>1, <1>4 DEF B58Decode
  <2>2. \A i \in 1..Len(tail) : tail[i] \in Digit(58)
    <3> TAKE i \in 1..Len(tail)
    <3>1. tail[i] \in 0..58
      BY <1>3, ElementOfSeq
    <3>2. i \in DOMAIN tail
      BY <1>3
    <3>3. tail[i] # NoDigit
      BY <2>1, <3>2 DEF ToSet
    <3> QED BY <3>1, <3>3 DEF NoDigit, Digit
  <2>3. tail \in [1..Len(tail) -> Digit(58)] /\ Len(tail) \in Nat
    BY <1>3, <2>2
  <2> QED BY <2>3
<1>6. raw \in Seq(Digit(256)) /\ B58Encode(raw) = tail
  BY <1>1, <1>5, Base58
<1>7. raw = Multicodec \o public
  <2>1. SubSeq(raw, 1, 2) = Multicodec
    BY <1>2, MulticodecSeq DEF IsPrefix
  <2>2. Len(raw) \in Nat /\ Len(raw) >= 2
    BY <1>2, KeyLenAssumption
  <2>3. SubSeq(raw, 1, 2) \o SubSeq(raw, 3, Len(raw)) = SubSeq(raw, 1, Len(raw))
    <3>1. PICK m, k, n : m = 1 /\ k = 2 /\ n = Len(raw)
      OBVIOUS
    <3>2. m \in 1..(Len(raw) + 1) /\ k \in (m - 1)..Len(raw) /\ n \in k..Len(raw)
      BY <2>2, <3>1
    <3>3. SubSeq(raw, m, k) \o SubSeq(raw, k + 1, n) = SubSeq(raw, m, n)
      BY <1>6, <3>2, ConcatAdjacentSubSeq
    <3>4. k + 1 = 3
      BY <3>1
    <3> QED BY <3>1, <3>3, <3>4
  <2>4. SubSeq(raw, 1, Len(raw)) = raw
    BY <1>6, SubSeqFull
  <2> QED BY <1>1, <2>1, <2>3, <2>4
<1>8. NodeId(public).multibase = <<Z>> \o B58Encode(Multicodec \o public)
  BY DEF NodeId, EncodeDid
<1>9. public \in Seq(Digit(256)) /\ Len(public) = KeyLen
  BY <1>1, <1>2, <1>6, KeyLenAssumption
<1> QED BY <1>1, <1>2, <1>3, <1>6, <1>7, <1>8, <1>9

(* A key is decoded from its own Node ID. *)
LEMMA OwnText ==
  ASSUME NEW public \in Seq(Digit(256))
  PROVE  /\ EncodeDid(public).multibase \in Texts /\ EncodeDid(public).multibase # <<>>
         /\ Len(public) = KeyLen => /\ DecodeDid(EncodeDid(public)) = public
                                    /\ DecodeDid(NodeId(public)) = public
<1>1. PICK raw, tail, text : raw = Multicodec \o public /\ tail = B58Encode(raw) /\ text = <<Z>> \o tail
  OBVIOUS
<1>2. /\ raw \in Seq(Digit(256)) /\ Len(raw) = 2 + Len(public) /\ Len(public) \in Nat
      /\ raw[1] = 237 /\ raw[2] = 1
      /\ \A i \in 1..Len(public) : raw[2 + i] = public[i]
  <2>2. Len(public) \in Nat
    OBVIOUS
  <2>0. PICK c : c = Multicodec
    OBVIOUS
  <2>1. c \in Seq(Digit(256)) /\ Len(c) = 2 /\ c[1] = 237 /\ c[2] = 1
    BY <2>0, MulticodecSeq
  <2>b. c \in Seq(Digit(256))
    BY <2>1
  <2>a. /\ c \o public \in Seq(Digit(256)) /\ Len(c \o public) = Len(c) + Len(public)
        /\ \A i \in 1..(Len(c) + Len(public)) :
             (c \o public)[i] = IF i <= Len(c) THEN c[i] ELSE public[i - Len(c)]
    BY <2>b, ConcatProperties
  <2>3. /\ raw \in Seq(Digit(256)) /\ Len(raw) = 2 + Len(public)
        /\ \A i \in 1..(2 + Len(public)) : raw[i] = IF i <= 2 THEN c[i] ELSE public[i - 2]
    BY <1>1, <2>0, <2>1, <2>a
  <2>4. raw[1] = 237 /\ raw[2] = 1
    BY <2>1, <2>2, <2>3
  <2>5. ASSUME NEW i \in 1..Len(public) PROVE raw[2 + i] = public[i]
    <3>1. 2 + i \in 1..(2 + Len(public)) /\ ~(2 + i <= 2) /\ (2 + i) - 2 = i
      BY <2>2
    <3> QED BY <2>3, <3>1
  <2> QED BY <1>1, <2>2, <2>3, <2>4, <2>5
<1>3. tail \in Seq(Digit(58)) /\ B58Decode(tail) = raw
  BY <1>1, <1>2, Base58
<1>4. text \in Texts /\ text # <<>> /\ Head(text) = Z /\ Tail(text) = tail
  <2>1. tail \in Seq(0..58)
    <3>1. Digit(58) \subseteq 0..58
      BY DEF Digit
    <3> QED BY <1>3, <3>1, SeqMonotonic
  <2> QED BY <1>1, <2>1 DEF Texts, NoDigit, Z
<1>5. EncodeDid(public).multibase = text /\ NodeId(public).multibase = text
  BY <1>1 DEF EncodeDid, NodeId
<1>6. ASSUME Len(public) = KeyLen, NEW did, did.multibase = text
      PROVE  DecodeDid(did) = public
  <2>1. IsPrefix(Multicodec, raw)
    <3>1. PICK c : c = Multicodec /\ c \in Seq(Digit(256)) /\ Len(c) = 2 /\ c[1] = 237 /\ c[2] = 1
      BY MulticodecSeq
    <3>2. PICK s : s = SubSeq(raw, 1, 2)
      OBVIOUS
    <3>3. s \in Seq(Digit(256)) /\ Len(s) = 2 /\ s[1] = raw[1] /\ s[2] = raw[2]
      BY <1>2, <3>2
    <3>4. s = c
      BY <1>2, <3>1, <3>3, SeqEqual
    <3> QED BY <1>2, <3>1, <3>2, <3>4, MulticodecSeq DEF IsPrefix
  <2>2. SubSeq(raw, 3, Len(raw)) = public
    <3>1. PICK s : s = SubSeq(raw, 3, Len(raw))
      OBVIOUS
    <3>2. /\ s \in Seq(Digit(256)) /\ Len(s) = Len(public)
          /\ \A i \in 1..Len(public) : s[i] = raw[2 + i]
      BY <1>2, <3>1
    <3>3. \A i \in 1..Len(s) : s[i] = public[i]
      BY <1>2, <3>2
    <3> QED BY <3>1, <3>2, <3>3, SeqEqual
  <2> QED BY <1>2, <1>3, <1>4, <1>6, <2>1, <2>2 DEF DecodeDid
<1> QED BY <1>1, <1>4, <1>5, <1>6

(* Powers of two count sets. *)
LEMMA TwoTo ==
  ASSUME NEW n \in Nat
  PROVE  2^n \in Nat /\ 2^n >= 1 /\ (n >= 3 => 2^n >= 8)
<1>1. IsFiniteSet(1..n) /\ Cardinality(1..n) = n
  BY FS_Interval
<1>2. IsFiniteSet(SUBSET (1..n)) /\ Cardinality(SUBSET (1..n)) = 2^n
  BY <1>1, FS_SUBSET
<1>3. Cardinality(SUBSET (1..n)) \in Nat
  BY <1>2, FS_CardinalityType
<1>4. Cardinality(SUBSET (1..n)) # 0
  <2>1. {} \in SUBSET (1..n)
    OBVIOUS
  <2> QED BY <1>2, <2>1, FS_EmptySet
<1>5. ASSUME n >= 3 PROVE 2^n >= 8
  <2>0. PICK three : three = 3
    OBVIOUS
  <2>1. IsFiniteSet(1..three) /\ Cardinality(1..three) = three
    <3>1. three \in Int /\ 1 \in Int /\ 1 <= three /\ three - 1 + 1 = three
      BY <2>0
    <3>2. IsFiniteSet(1..three) /\ Cardinality(1..three) = IF 1 > three THEN 0 ELSE three - 1 + 1
      BY <3>1, FS_Interval
    <3> QED BY <3>1, <3>2
  <2>2. Cardinality(SUBSET (1..3)) = 2^3
    BY <2>0, <2>1, FS_SUBSET
  <2>3. SUBSET (1..3) \in SUBSET (SUBSET (1..n))
    BY <1>5
  <2>4. Cardinality(SUBSET (1..3)) <= Cardinality(SUBSET (1..n))
    BY <1>2, <2>3, FS_Subset
  <2>5. 2^3 = 8
    OBVIOUS
  <2> QED BY <1>2, <1>3, <2>2, <2>4, <2>5
<1> QED BY <1>2, <1>3, <1>4, <1>5

LEMMA FieldSize == /\ Q \in Nat /\ Q >= 5 /\ Q - 2 \in Nat
                   /\ (Q - 1) \div 4 \in Nat /\ (Q + 3) \div 8 \in Nat
                   /\ D \in Int /\ BaseY \in Int
BY CurveAssumption

(* Division with remainder, for every divisor. *)
LEMMA Remainder ==
  ASSUME NEW n \in Nat \ {0}, NEW a \in Int
  PROVE  /\ a % n \in 0..(n - 1) /\ a \div n \in Int
         /\ a = n * (a \div n) + (a % n)
OBVIOUS

LEMMA RemainderUnique ==
  ASSUME NEW n \in Nat \ {0}, NEW a \in Int, NEW k \in Int, NEW r \in 0..(n - 1), a = n * k + r
  PROVE  a % n = r
<1>1. PICK d, s : d = a \div n /\ s = a % n
  OBVIOUS
<1>2. d \in Int /\ s \in 0..(n - 1) /\ a = n * d + s
  BY <1>1, Remainder
<1>3. PICK e \in Int : e = k - d
  BY <1>2
<1>4. n * e = s - r
  BY <1>2, <1>3
<1>5. ASSUME e >= 1 PROVE FALSE
  <2>1. n * e >= n
    BY <1>5
  <2> QED BY <1>2, <1>4, <2>1
<1>6. ASSUME e <= -1 PROVE FALSE
  <2>1. n * e <= -n
    BY <1>6
  <2> QED BY <1>2, <1>4, <2>1
<1>7. e = 0
  BY <1>5, <1>6
<1> QED BY <1>1, <1>2, <1>4, <1>7

MultipleOf(n, a) == \E k \in Int : a = n * k

(* Numbers are congruent when they have the same remainder, which is when    *)
(* their difference is a multiple; congruent numbers may be exchanged in     *)
(* sums, differences and products.                                           *)
LEMMA Congruent ==
  ASSUME NEW n \in Nat \ {0}, NEW a \in Int, NEW b \in Int
  PROVE  a % n = b % n <=> MultipleOf(n, a - b)
<1>1. a = n * (a \div n) + (a % n) /\ a \div n \in Int /\ a % n \in 0..(n - 1)
  BY Remainder
<1>2. b = n * (b \div n) + (b % n) /\ b \div n \in Int /\ b % n \in 0..(n - 1)
  BY Remainder
<1>3. ASSUME a % n = b % n PROVE MultipleOf(n, a - b)
  <2>1. a - b = n * ((a \div n) - (b \div n))
    BY <1>1, <1>2, <1>3
  <2>2. (a \div n) - (b \div n) \in Int
    BY <1>1, <1>2
  <2> QED BY <2>1, <2>2 DEF MultipleOf
<1>4. ASSUME NEW k \in Int, a - b = n * k PROVE a % n = b % n
  <2>1. a = n * ((b \div n) + k) + (b % n)
    BY <1>2, <1>4
  <2>2. (b \div n) + k \in Int
    BY <1>2
  <2> QED BY <1>2, <2>1, <2>2, RemainderUnique
<1> QED BY <1>3, <1>4 DEF MultipleOf

Cong(n, a, b) == a % n = b % n

LEMMA CongruentBy ==
  ASSUME NEW n \in Nat \ {0}, NEW a \in Int, NEW b \in Int
  PROVE  Cong(n, a, b) <=> MultipleOf(n, a - b)
BY Congruent DEF Cong

LEMMA CongruentSum ==
  ASSUME NEW n \in Nat \ {0}, NEW a \in Int, NEW b \in Int, NEW c \in Int, NEW d \in Int,
         Cong(n, a, b), Cong(n, c, d)
  PROVE  Cong(n, a + c, b + d) /\ Cong(n, a - c, b - d)
<1>1. PICK k \in Int : a - b = n * k
  BY CongruentBy DEF MultipleOf
<1>2. PICK j \in Int : c - d = n * j
  BY CongruentBy DEF MultipleOf
<1>3. (a + c) - (b + d) = n * (k + j) /\ k + j \in Int
  BY <1>1, <1>2
<1>4. (a - c) - (b - d) = n * (k - j) /\ k - j \in Int
  BY <1>1, <1>2
<1>5. a + c \in Int /\ b + d \in Int /\ a - c \in Int /\ b - d \in Int
  OBVIOUS
<1>6. Cong(n, a + c, b + d)
  <2>1. MultipleOf(n, (a + c) - (b + d))
    BY <1>3 DEF MultipleOf
  <2> QED BY <1>5, <2>1, CongruentBy
<1>7. Cong(n, a - c, b - d)
  <2>1. MultipleOf(n, (a - c) - (b - d))
    BY <1>4 DEF MultipleOf
  <2> QED BY <1>5, <2>1, CongruentBy
<1> QED BY <1>6, <1>7

LEMMA CongruentProduct ==
  ASSUME NEW n \in Nat \ {0}, NEW a \in Int, NEW b \in Int, NEW c \in Int, NEW d \in Int,
         Cong(n, a, b), Cong(n, c, d)
  PROVE  Cong(n, a * c, b * d)
<1>1. PICK k \in Int : a - b = n * k
  BY CongruentBy DEF MultipleOf
<1>2. PICK j \in Int : c - d = n * j
  BY CongruentBy DEF MultipleOf
<1>3. a = b + n * k /\ c = d + n * j
  BY <1>1, <1>2
<1>4. a * c - b * d = n * (k * d + b * j + n * k * j)
  BY <1>3
<1>5. k * d + b * j + n * k * j \in Int /\ a * c \in Int /\ b * d \in Int
  OBVIOUS
<1>6. MultipleOf(n, a * c - b * d)
  BY <1>4, <1>5 DEF MultipleOf
<1> QED BY <1>5, <1>6, CongruentBy

LEMMA RemainderTwice ==
  ASSUME NEW n \in Nat \ {0}, NEW a \in Int
  PROVE  (a % n) % n = a % n
<1>1. a % n \in 0..(n - 1)
  BY Remainder
<1>2. a % n = n * 0 + (a % n)
  BY <1>1
<1> QED BY <1>1, <1>2, RemainderUnique

LEMMA RemainderSmall ==
  ASSUME NEW n \in Nat \ {0}, NEW a \in 0..(n - 1)
  PROVE  a % n = a
<1>1. a = n * 0 + a
  OBVIOUS
<1> QED BY <1>1, RemainderUnique

LEMMA PowOf ==
  ASSUME NEW b \in Int
  PROVE  \A e \in Nat :
           /\ Pow(b, e) \in 0..(Q - 1)
           /\ Pow(b, e) = IF e = 0 THEN 1
                          ELSE (((Pow(b, e \div 2) * Pow(b, e \div 2)) % Q)
                                  * (IF e % 2 = 1 THEN b % Q ELSE 1)) % Q
<1> DEFINE next(k, h) == (((h * h) % Q) * (IF k % 2 = 1 THEN b % Q ELSE 1)) % Q
           Eq(f) == f = [k \in Nat |-> IF k = 0 THEN 1 ELSE next(k, f[k \div 2])]
<1>0. \A k \in Nat : k \div 2 \in Nat /\ (k # 0 => k \div 2 \in 0..(k - 1))
  OBVIOUS
<1>1. \A k \in Nat, h \in Int : next(k, h) \in 0..(Q - 1)
  <2> TAKE k \in Nat, h \in Int
  <2>1. Q \in Nat /\ Q > 0
    BY FieldSize
  <2>2. (h * h) % Q \in Int /\ b % Q \in Int
    BY <2>1
  <2>3. PICK g : g = ((h * h) % Q) * (IF k % 2 = 1 THEN b % Q ELSE 1)
    OBVIOUS
  <2>4. g \in Int
    BY <2>2, <2>3
  <2> QED BY <2>1, <2>3, <2>4, Remainder
<1> HIDE DEF next
<1>2. PICK step : step = [p \in Nat \X Int |-> next(p[1], p[2])]
  OBVIOUS
<1>3. PICK before : before = [k \in Nat |-> k \div 2]
  OBVIOUS
<1>4. \A k \in Nat, h \in Int : step[<<k, h>>] = next(k, h)
  BY <1>2
<1>5. PICK f : Recursive(f, 0..(Q - 1), 1, step, before)
  <2>1. \A k \in Nat \ {0} : before[k] \in 0..(k - 1)
    BY <1>0, <1>3
  <2>2. \A k \in Nat, h \in 0..(Q - 1) : step[<<k, h>>] \in 0..(Q - 1)
    <3> TAKE k \in Nat, h \in 0..(Q - 1)
    <3>1. h \in Int
      OBVIOUS
    <3> QED BY <1>1, <1>4, <3>1
  <2>3. 1 \in 0..(Q - 1)
    BY FieldSize
  <2> QED BY <2>1, <2>2, <2>3, RecursiveExists
<1>6. \A k \in Nat : f[k] \in 0..(Q - 1)
  BY <1>5 DEF Recursive
<1>7. \A k \in Nat : f[k] = IF k = 0 THEN 1 ELSE next(k, f[k \div 2])
  <2> TAKE k \in Nat
  <2>1. f[k] = IF k = 0 THEN 1 ELSE step[<<k, f[before[k]]>>]
    BY <1>5 DEF Recursive
  <2>2. before[k] = k \div 2 /\ f[k \div 2] \in Int
    BY <1>0, <1>3, <1>6
  <2>3. step[<<k, f[k \div 2]>>] = next(k, f[k \div 2])
    BY <1>4, <2>2
  <2> QED BY <2>1, <2>2, <2>3
<1>8. \E g : Eq(g)
  <2>1. f = [k \in Nat |-> f[k]]
    BY <1>5 DEF Recursive
  <2>2. f = [k \in Nat |-> IF k = 0 THEN 1 ELSE next(k, f[k \div 2])]
    BY <1>7, <2>1
  <2> QED BY <2>2
<1> DEFINE d == CHOOSE g : Eq(g)
<1>9. Eq(d)
  BY <1>8
<1>10. \A k \in Nat : Pow(b, k) = d[k]
  BY DEF Pow, next
<1> HIDE DEF d
<1>11. \A k \in Nat : d[k] = IF k = 0 THEN 1 ELSE next(k, d[k \div 2])
  BY <1>9
<1> DEFINE E == {k \in Nat : d[k] = f[k]}
<1>12. ASSUME NEW k \in Nat, \A j \in Nat : j < k => j \in E PROVE k \in E
  <2>1. k # 0 => k \div 2 \in Nat /\ k \div 2 < k
    BY <1>0
  <2>2. k # 0 => d[k \div 2] = f[k \div 2]
    BY <1>12, <2>1
  <2> QED BY <1>7, <1>11, <2>2
<1>13. Nat \subseteq E
  <2> HIDE DEF E
  <2> QED BY <1>12, SetStrongInduction
<1> TAKE e \in Nat
<1>14. e \div 2 \in Nat
  BY <1>0
<1>15. Pow(b, e) = d[e] /\ Pow(b, e \div 2) = d[e \div 2] /\ d[e] = f[e]
  BY <1>10, <1>13, <1>14
<1>16. d[e] = IF e = 0 THEN 1 ELSE next(e, d[e \div 2])
  BY <1>11
<1>17. Pow(b, e) = IF e = 0 THEN 1 ELSE next(e, Pow(b, e \div 2))
  BY <1>15, <1>16
<1> QED BY <1>6, <1>15, <1>17 DEF next

LEMMA PowType ==
  ASSUME NEW b \in Int, NEW e \in Nat
  PROVE  Pow(b, e) \in Int
BY PowOf, FieldSize

LEMMA InvType == ASSUME NEW a \in Int PROVE Inv(a) \in Int
<1>1. a % Q \in 0..(Q - 1)
  BY FieldSize
<1>2. Inv(a) = Pow(a % Q, Q - 2)
  BY <1>1 DEF Inv, InvTable
<1> QED BY <1>1, <1>2, FieldSize, PowType

LEMMA RecoverXType == ASSUME NEW y \in Int PROVE RecoverX(y) \in Int
<1>1. PICK i : i = Inv(D * ((y * y) % Q) + 1)
  OBVIOUS
<1>2. i \in Int
  <2>1. (y * y) % Q \in Int
    BY FieldSize
  <2>2. D * ((y * y) % Q) + 1 \in Int
    BY <2>1, FieldSize
  <2> QED BY <1>1, <2>2, InvType
<1>3. PICK xx : xx = ((y * y - 1) * i) % Q
  OBVIOUS
<1>4. xx \in Int
  <2>1. (y * y - 1) * i \in Int
    BY <1>2
  <2> QED BY <1>3, <2>1, FieldSize
<1>5. PICK r : r = Pow(xx, (Q + 3) \div 8)
  OBVIOUS
<1>6. r \in Int /\ SqrtM1 \in Int
  <2>1. r \in Int
    BY <1>4, <1>5, FieldSize, PowType
  <2>2. Pow(2, (Q - 1) \div 4) \in Int
    BY FieldSize, PowType
  <2> QED BY <2>1, <2>2 DEF SqrtM1
<1>7. PICK x : x = IF (r * r - xx) % Q # 0 THEN (r * SqrtM1) % Q ELSE r
  OBVIOUS
<1>8. x \in Int
  <2>1. r * SqrtM1 \in Int
    BY <1>6
  <2>2. (r * SqrtM1) % Q \in Int
    BY <2>1, FieldSize
  <2> QED BY <1>6, <1>7, <2>2
<1>9. RecoverX(y) = IF x % 2 # 0 THEN Q - x ELSE x
  BY <1>1, <1>3, <1>5, <1>7 DEF RecoverX
<1> QED BY <1>8, <1>9, FieldSize

LEMMA AddType == ASSUME NEW p \in Point, NEW q \in Point PROVE Add(p, q) \in Point
<1>1. p[1] \in Int /\ p[2] \in Int /\ q[1] \in Int /\ q[2] \in Int
  BY DEF Point
<1>2. PICK p1, p2, q1, q2 : p1 = p[1] /\ p2 = p[2] /\ q1 = q[1] /\ q2 = q[2]
  OBVIOUS
<1>3. p1 \in Int /\ p2 \in Int /\ q1 \in Int /\ q2 \in Int
  BY <1>1, <1>2
<1>4. PICK xy : xy = (((p1 * q1) % Q) * ((p2 * q2) % Q)) % Q
  OBVIOUS
<1>5. xy \in Int
  <2>1. p1 * q1 \in Int /\ p2 * q2 \in Int
    BY <1>3
  <2>2. (p1 * q1) % Q \in Int /\ (p2 * q2) % Q \in Int
    BY <2>1, FieldSize
  <2>3. ((p1 * q1) % Q) * ((p2 * q2) % Q) \in Int
    BY <2>2
  <2> QED BY <1>4, <2>3, FieldSize
<1>6. Inv(1 + D * xy) \in Int /\ Inv(1 - D * xy) \in Int
  <2>1. 1 + D * xy \in Int /\ 1 - D * xy \in Int
    BY <1>5, FieldSize
  <2> QED BY <2>1, InvType
<1>7. PICK i, j : i = Inv(1 + D * xy) /\ j = Inv(1 - D * xy)
  OBVIOUS
<1>8. Add(p, q) = << ((p1 * q2 + q1 * p2) % Q) * i % Q, ((p2 * q2 + p1 * q1) % Q) * j % Q >>
  BY <1>2, <1>4, <1>7 DEF Add
<1>9. \A u, v \in Int : (u % Q) * v % Q \in Int
  <2> TAKE u, v \in Int
  <2>1. u % Q \in Int
    BY FieldSize
  <2>2. (u % Q) * v \in Int
    BY <2>1
  <2> QED BY <2>2, FieldSize
<1>10. p1 * q2 + q1 * p2 \in Int /\ p2 * q2 + p1 * q1 \in Int
  BY <1>3
<1> QED BY <1>6, <1>7, <1>8, <1>9, <1>10 DEF Point

(* Double and add, as a function of the result, the addend and the bits left. *)
Doubling(f) ==
  f = [s \in Point \X Point \X Nat |->
         IF s[3] = 0 THEN s[1]
         ELSE f[<<IF s[3] % 2 = 1 THEN Add(s[1], s[2]) ELSE s[1], Add(s[2], s[2]), s[3] \div 2>>]]
Mult == CHOOSE f : Doubling(f)

LEMMA ScalarMultOf == ASSUME NEW p, NEW e PROVE ScalarMult(p, e) = Mult[<<Neutral, p, e>>]
BY DEF ScalarMult, Mult, Doubling

LEMMA MultOf ==
  \A r, a \in Point, k \in Nat :
    /\ Mult[<<r, a, k>>] \in Point
    /\ Mult[<<r, a, k>>] = IF k = 0 THEN r
                           ELSE Mult[<<IF k % 2 = 1 THEN Add(r, a) ELSE r, Add(a, a), k \div 2>>]
<1> DEFINE first(r, a, k) == IF k % 2 = 1 THEN Add(r, a) ELSE r
           States == Point \X Point \X Nat
           after(s) == <<first(s[1], s[2], s[3]), Add(s[2], s[2]), s[3] \div 2>>
           Eq(f) == f = [s \in States |-> IF s[3] = 0 THEN s[1] ELSE f[after(s)]]
<1>0. \A k \in Nat : k \div 2 \in Nat /\ (k # 0 => k \div 2 \in 0..(k - 1))
  OBVIOUS
<1>1. \A r, a \in Point, k \in Nat : first(r, a, k) \in Point /\ Add(a, a) \in Point
  BY AddType
<1>2. PICK T : T = [Point \X Point -> Point]
  OBVIOUS
<1>3. PICK start : start = [x \in Point \X Point |-> x[1]]
  OBVIOUS
<1> DEFINE then(k, g) == [x \in Point \X Point |-> g[<<first(x[1], x[2], k), Add(x[2], x[2])>>]]
<1>4. \A k \in Nat, g \in T : then(k, g) \in T
  <2> TAKE k \in Nat, g \in T
  <2>1. ASSUME NEW x \in Point \X Point
        PROVE  g[<<first(x[1], x[2], k), Add(x[2], x[2])>>] \in Point
    <3>1. x[1] \in Point /\ x[2] \in Point
      OBVIOUS
    <3>2. first(x[1], x[2], k) \in Point /\ Add(x[2], x[2]) \in Point
      BY <1>1, <3>1
    <3> HIDE DEF first
    <3> QED BY <1>2, <3>2
  <2> HIDE DEF first
  <2> QED BY <1>2, <2>1
<1>5. start \in T
  BY <1>2, <1>3
<1> HIDE DEF then
<1>6. PICK step : step = [q \in Nat \X T |-> then(q[1], q[2])]
  OBVIOUS
<1>7. PICK before : before = [k \in Nat |-> k \div 2]
  OBVIOUS
<1>8. \A k \in Nat, g \in T : step[<<k, g>>] = then(k, g)
  BY <1>6
<1>9. PICK G : Recursive(G, T, start, step, before)
  <2>1. \A k \in Nat \ {0} : before[k] \in 0..(k - 1)
    BY <1>0, <1>7
  <2>2. \A k \in Nat, g \in T : step[<<k, g>>] \in T
    BY <1>4, <1>8
  <2> QED BY <1>5, <2>1, <2>2, RecursiveExists
<1>10. \A k \in Nat : G[k] \in T
  BY <1>9 DEF Recursive
<1>11. \A k \in Nat : G[k] = IF k = 0 THEN start ELSE then(k, G[k \div 2])
  <2> TAKE k \in Nat
  <2>1. G[k] = IF k = 0 THEN start ELSE step[<<k, G[before[k]]>>]
    BY <1>9 DEF Recursive
  <2>2. before[k] = k \div 2 /\ G[k \div 2] \in T
    BY <1>0, <1>7, <1>10
  <2>3. step[<<k, G[k \div 2]>>] = then(k, G[k \div 2])
    BY <1>8, <2>2
  <2> QED BY <2>1, <2>2, <2>3
<1>12. \A s \in States : after(s) \in States
  <2> TAKE s \in States
  <2>1. s[1] \in Point /\ s[2] \in Point /\ s[3] \in Nat
    OBVIOUS
  <2>2. first(s[1], s[2], s[3]) \in Point /\ Add(s[2], s[2]) \in Point /\ s[3] \div 2 \in Nat
    BY <1>0, <1>1, <2>1
  <2> HIDE DEF first
  <2> QED BY <2>2
<1>13. PICK h : h = [s \in States |-> G[s[3]][<<s[1], s[2]>>]]
  OBVIOUS
<1>14. \A s \in States : h[s] = IF s[3] = 0 THEN s[1] ELSE h[after(s)]
  <2> TAKE s \in States
  <2>1. s[1] \in Point /\ s[2] \in Point /\ s[3] \in Nat
    OBVIOUS
  <2>2. h[s] = G[s[3]][<<s[1], s[2]>>]
    BY <1>13
  <2>3. h[after(s)] = G[s[3] \div 2][<<first(s[1], s[2], s[3]), Add(s[2], s[2])>>]
    <3>1. h[after(s)] = G[after(s)[3]][<<after(s)[1], after(s)[2]>>]
      <4> HIDE DEF after
      <4> QED BY <1>12, <1>13
    <3> HIDE DEF first
    <3> QED BY <3>1
  <2> HIDE DEF first, after
  <2>4. start[<<s[1], s[2]>>] = s[1]
    BY <1>3, <2>1
  <2>5. then(s[3], G[s[3] \div 2])[<<s[1], s[2]>>]
          = G[s[3] \div 2][<<first(s[1], s[2], s[3]), Add(s[2], s[2])>>]
    BY <2>1 DEF then
  <2> QED BY <1>11, <2>1, <2>2, <2>3, <2>4, <2>5
<1>15. \E g : Eq(g)
  <2> HIDE DEF after
  <2>1. h = [s \in States |-> h[s]]
    BY <1>13
  <2>2. h = [s \in States |-> IF s[3] = 0 THEN s[1] ELSE h[after(s)]]
    BY <1>14, <2>1
  <2> QED BY <2>2
<1>16. Eq(Mult)
  <2>1. \A g : Doubling(g) <=> Eq(g)
    BY DEF Doubling
  <2> HIDE DEF Eq
  <2> QED BY <1>15, <2>1 DEF Mult
<1>18. \A s \in States : Mult[s] = IF s[3] = 0 THEN s[1] ELSE Mult[after(s)]
  <2> HIDE DEF after
  <2> QED BY <1>16
<1> DEFINE E == {k \in Nat : \A s \in States : s[3] = k => Mult[s] \in Point}
<1>19. ASSUME NEW k \in Nat, \A j \in Nat : j < k => j \in E PROVE k \in E
  <2> SUFFICES ASSUME NEW s \in States, s[3] = k PROVE Mult[s] \in Point
    OBVIOUS
  <2>1. s[1] \in Point
    OBVIOUS
  <2>2. ASSUME k # 0 PROVE Mult[after(s)] \in Point
    <3>1. after(s)[3] = k \div 2 /\ after(s) \in States
      BY <1>12
    <3>2. k \div 2 \in E
      BY <1>0, <1>19, <2>2
    <3> HIDE DEF after
    <3> QED BY <3>1, <3>2
  <2> HIDE DEF after
  <2> QED BY <1>18, <2>1, <2>2
<1>20. Nat \subseteq E
  <2> HIDE DEF E
  <2> QED BY <1>19, SetStrongInduction
<1> TAKE r, a \in Point, k \in Nat
<1>21. <<r, a, k>> \in States /\ <<r, a, k>>[1] = r /\ <<r, a, k>>[2] = a /\ <<r, a, k>>[3] = k
  OBVIOUS
<1>22. Mult[<<r, a, k>>] \in Point
  BY <1>20, <1>21
<1>23. Mult[<<r, a, k>>] = IF k = 0 THEN r ELSE Mult[after(<<r, a, k>>)]
  <2> HIDE DEF after
  <2> QED BY <1>18, <1>21
<1> QED BY <1>21, <1>22, <1>23

LEMMA NeutralType == Neutral \in Point
BY DEF Neutral, Point

LEMMA ScalarMultType ==
  ASSUME NEW p \in Point, NEW e \in Nat
  PROVE  ScalarMult(p, e) \in Point
BY ScalarMultOf, MultOf, NeutralType

(* A secret scalar is a number, and so is the public key. *)
LEMMA SecretType == ASSUME NEW seed \in Seed PROVE Secret(seed) \in Nat
<1>0. KeyBits \in Nat /\ KeyBits - 2 \in Nat /\ KeyBits - 2 >= 3
  BY CurveAssumption
<1>1. PICK quarter, all : quarter = 2^(KeyBits - 2) /\ all = 2^KeyBits
  OBVIOUS
<1>2. quarter \in Nat /\ quarter >= 8 /\ all \in Nat /\ all >= 1
  BY <1>0, <1>1, TwoTo
<1>3. PICK h : h = Hash(<<seed>>) % all
  OBVIOUS
<1>4. h \in Nat
  <2>1. Hash(<<seed>>) \in Nat
    BY SecretAssumption
  <2> QED BY <1>2, <1>3, <2>1
<1>5. Secret(seed) = (h % quarter) - (h % 8) + quarter
  BY <1>1, <1>3 DEF Secret, Clamp
<1>6. h % quarter \in Nat /\ h % 8 \in 0..7
  BY <1>2, <1>4
<1> QED BY <1>2, <1>5, <1>6

LEMMA PublicType == ASSUME NEW seed \in Seed PROVE PublicFromSeed(seed) \in Nat
<1>1. PICK half : half = 2^(KeyBits - 1)
  OBVIOUS
<1>2. half \in Nat /\ half >= 1
  <2>1. KeyBits - 1 \in Nat
    BY CurveAssumption
  <2> QED BY <1>1, <2>1, TwoTo
<1>3. Base \in Point
  BY FieldSize, RecoverXType DEF Base, Point
<1>4. PICK p : p = ScalarMult(Base, Secret(seed))
  OBVIOUS
<1>5. p[1] \in Int /\ p[2] \in Int
  <2>1. p \in Point
    BY <1>3, <1>4, SecretType, ScalarMultType
  <2> QED BY <2>1 DEF Point
<1>6. PublicFromSeed(seed) = (p[2] % half) + (p[1] % 2) * half
  BY <1>1, <1>4 DEF PublicFromSeed, EncodePoint
<1>7. p[2] % half \in Nat /\ p[1] % 2 \in {0, 1}
  BY <1>2, <1>5
<1> QED BY <1>2, <1>6, <1>7

LEMMA BytesType == ASSUME NEW n \in Nat PROVE Bytes(n) \in Seq(Digit(256))
<1>0. 256 \in Bases /\ 0 \in Digit(256)
  BY DEF Bases, Digit
<1>1. PICK d : d = Digits(n, 256)
  OBVIOUS
<1>2. d \in Seq(Digit(256))
  BY <1>0, <1>1, DigitsOf
<1>3. PICK j : j = KeyLen - Len(d)
  OBVIOUS
<1>4. j \in Int
  BY <1>2, <1>3, KeyLenAssumption
<1>5. Zeros(j) \in Seq(Digit(256))
  <2>1. CASE j \in Nat
    BY <1>0, <2>1 DEF Zeros
  <2>2. CASE j \notin Nat
    <3>1. 1..j = {} /\ 1..0 = {}
      BY <1>4, <2>2
    <3>2. Zeros(j) = [i \in 1..0 |-> 0]
      BY <3>1 DEF Zeros
    <3>3. [i \in 1..0 |-> 0] \in Seq(Digit(256))
      OBVIOUS
    <3> QED BY <3>2, <3>3
  <2> QED BY <2>1, <2>2
<1>6. Zeros(j) \o d \in Seq(Digit(256))
  BY <1>2, <1>5, ConcatProperties
<1> QED BY <1>1, <1>3, <1>6 DEF Bytes

(* What is sent: a Node ID that is some text, one that begins with z as long *)
(* as nobody has altered it, and what belongs to it.                         *)
DidOf(b, t) == [scheme |-> b, multibase |-> t]
LetterOf(d, m, s) == [did |-> d, message |-> m, signature |-> s]

IsText(d) == \E b, t : d = DidOf(b, t) /\ t \in Texts

Lettered ==
  /\ peer # Unset => peer.public \in Nat
  /\ letter # Unset =>
       \E d, m, s : /\ letter = LetterOf(d, m, s) /\ IsText(d)
                    /\ altered = Nothing => d.multibase # <<>>

(* Texts that differ from a Node ID are texts. *)
LEMMA NearTexts ==
  ASSUME NEW did, IsText(did), did.multibase # <<>>, NEW d \in NearDids(did)
  PROVE  IsText(d)
<1>1. PICK b, text : did = DidOf(b, text) /\ text \in Texts
  BY DEF IsText
<1>2. did.multibase = text /\ text # <<>>
  BY <1>1 DEF DidOf
<1>3. text \in Seq(0..58) /\ NoDigit = 58 /\ Z \in 0..58 /\ Texts = Seq(0..58)
  BY <1>1 DEF Texts, NoDigit, Z
<1>4. \A t : [did EXCEPT !.multibase = t] = DidOf(b, t)
  BY <1>1 DEF DidOf
<1>5. CASE d = [did EXCEPT !.scheme = FALSE]
  <2>1. d = DidOf(FALSE, text)
    BY <1>1, <1>5 DEF DidOf
  <2> QED BY <1>1, <2>1 DEF IsText
<1>6. CASE \E i \in DOMAIN did.multibase, c \in 0..NoDigit : d = [did EXCEPT !.multibase[i] = c]
  <2>1. PICK i \in DOMAIN text, c \in 0..NoDigit : d = [did EXCEPT !.multibase[i] = c]
    BY <1>2, <1>6
  <2>2. d = DidOf(b, [text EXCEPT ![i] = c])
    BY <1>1, <2>1 DEF DidOf
  <2>3. [text EXCEPT ![i] = c] \in Seq(0..58)
    <3>1. i \in 1..Len(text) /\ c \in 0..58
      BY <1>3, <2>1
    <3> QED BY <1>3, <3>1, ExceptSeq
  <2> QED BY <1>3, <2>2, <2>3 DEF IsText
<1>7. CASE \E t \in Changed(did.multibase) : d = [did EXCEPT !.multibase = t]
  <2>1. PICK t \in Changed(text) : d = [did EXCEPT !.multibase = t]
    BY <1>2, <1>7
  <2>2. Front(text) \in Seq(0..58)
    <3>0. Len(text) \in Nat /\ \A i \in 1..Len(text) : text[i] \in 0..58
      BY <1>3, ElementOfSeq
    <3>1. Len(text) - 1 \in Int /\ \A i \in 1..(Len(text) - 1) : text[i] \in 0..58
      BY <3>0
    <3>2. SubSeq(text, 1, Len(text) - 1) \in Seq(0..58)
      BY <3>1, SubSeqProperties
    <3> QED BY <3>2 DEF Front
  <2>3. Tail(text) \in Seq(0..58)
    BY <1>2, <1>3
  <2>4. <<>> \in Seq(0..58) /\ Append(text, 0) \in Seq(0..58)
    BY <1>3
  <2>5. <<Z>> \o Zeros(1) \o Tail(text) \in Seq(0..58)
    <3>1. <<Z>> \in Seq(0..58) /\ Zeros(1) \in Seq(0..58)
      BY <1>3 DEF Zeros
    <3> QED BY <2>3, <3>1
  <2>6. t \in Seq(0..58)
    BY <2>1, <2>2, <2>3, <2>4, <2>5 DEF Changed
  <2>7. d = DidOf(b, t)
    BY <1>4, <2>1
  <2> QED BY <1>3, <2>6, <2>7 DEF IsText
<1> QED BY <1>5, <1>6, <1>7 DEF NearDids

LEMMA NextLettered == ASSUME Lettered, [KeysNext]_keyvars PROVE Lettered'
<1>1. CASE FromSeed
  <2>1. PICK seed \in Seed : peer' = [seed |-> seed, public |-> PublicFromSeed(seed)]
    BY <1>1 DEF FromSeed
  <2>2. peer'.public \in Nat
    BY <2>1, PublicType
  <2> QED BY <1>1, <2>2 DEF FromSeed, Lettered
<1>2. CASE SignMessage
  <2>1. PICK m \in Message :
          letter' = [did |-> EncodeDid(Bytes(peer.public)), message |-> m,
                     signature |-> SignRaw(m, peer.seed, peer.public)]
    BY <1>2 DEF SignMessage
  <2>2. PICK d : d = EncodeDid(Bytes(peer.public))
    OBVIOUS
  <2>3. letter' = LetterOf(d, m, SignRaw(m, peer.seed, peer.public))
    BY <2>1, <2>2 DEF LetterOf
  <2>4. Bytes(peer.public) \in Seq(Digit(256))
    BY <1>2, BytesType DEF SignMessage, Lettered
  <2>5. d.multibase \in Texts /\ d.multibase # <<>>
    BY <2>2, <2>4, OwnText
  <2>6. d = DidOf(TRUE, d.multibase)
    BY <2>2 DEF EncodeDid, DidOf
  <2>7. IsText(d)
    BY <2>5, <2>6 DEF IsText
  <2>8. UNCHANGED <<peer, altered>>
    BY <1>2 DEF SignMessage
  <2> QED BY <2>3, <2>5, <2>7, <2>8 DEF Lettered
<1>3. CASE Alter
  <2>1. letter # Unset /\ altered = Nothing /\ UNCHANGED <<peer, verdict>>
    BY <1>3 DEF Alter
  <2>2. PICK d, m, s : letter = LetterOf(d, m, s) /\ IsText(d) /\ d.multibase # <<>>
    BY <2>1 DEF Lettered
  <2>3. altered' # Nothing
    BY <1>3 DEF Alter, Nothing
  <2>4. letter.did = d
    BY <2>2 DEF LetterOf
  <2>5. \/ \E e \in NearDids(letter.did) : letter' = [letter EXCEPT !.did = e]
        \/ \E n \in Message : letter' = [letter EXCEPT !.message = n]
        \/ \E t : letter' = [letter EXCEPT !.signature = t]
    BY <1>3 DEF Alter
  <2>6. \E e, n, t : letter' = LetterOf(e, n, t) /\ IsText(e)
    <3>1. ASSUME NEW e \in NearDids(letter.did), letter' = [letter EXCEPT !.did = e]
          PROVE  letter' = LetterOf(e, m, s) /\ IsText(e)
      <4>1. IsText(e)
        BY <2>2, <2>4, <3>1, NearTexts
      <4>2. letter' = LetterOf(e, m, s)
        BY <2>2, <3>1 DEF LetterOf
      <4> QED BY <4>1, <4>2
    <3>2. ASSUME NEW n, letter' = [letter EXCEPT !.message = n]
          PROVE  letter' = LetterOf(d, n, s)
      BY <2>2, <3>2 DEF LetterOf
    <3>3. ASSUME NEW t, letter' = [letter EXCEPT !.signature = t]
          PROVE  letter' = LetterOf(d, m, t)
      BY <2>2, <3>3 DEF LetterOf
    <3> QED BY <2>2, <2>5, <3>1, <3>2, <3>3
  <2> QED BY <2>1, <2>3, <2>6 DEF Lettered
<1>4. CASE Verify
  BY <1>4 DEF Verify, Lettered
<1>5. CASE UNCHANGED keyvars
  BY <1>5 DEF keyvars, Lettered
<1> QED BY <1>1, <1>2, <1>3, <1>4, <1>5 DEF KeysNext

LEMMA LetteredOneText == Lettered => OneNodeId
<1> SUFFICES ASSUME Lettered, letter # Unset, DecodeDid(letter.did) # NoKey
             PROVE  letter.did.multibase = NodeId(DecodeDid(letter.did)).multibase
  BY DEF OneNodeId
<1>1. PICK d, m, s : letter = LetterOf(d, m, s) /\ IsText(d)
  BY DEF Lettered
<1>2. letter.did = d /\ d.multibase \in Texts
  BY <1>1 DEF LetterOf, IsText, DidOf
<1> QED BY <1>2, OneText

LEMMA SessionLettered == /\ SessionInit => Lettered
                         /\ Lettered /\ [SessionNext]_sessionvars => Lettered'
<1>1. SessionInit => Lettered
  BY DEF SessionInit, KeysInit, Lettered
<1>2. ASSUME Lettered, [SessionNext]_sessionvars PROVE Lettered'
  <2>1. [KeysNext]_keyvars
    BY <1>2 DEF SessionNext, Keys, Discover, Scores, sessionvars
  <2> QED BY <1>2, <2>1, NextLettered
<1> QED BY <1>1, <1>2

(* A key has one Node ID (decode_did_key, peer.py): whatever text is         *)
(* altered on its way, one that still decodes to a key is that key's own.    *)
THEOREM NodeIdsUnique == SessionSpec => []OneNodeId
BY SessionLettered, LetteredOneText, PTL DEF SessionSpec

(* Every key of the right length is decoded from the Node ID it is encoded   *)
(* to, with the scheme and without it (encode_did_key, node_id_from_public). *)
THEOREM NodeIdsDecode ==
  \A public \in Seq(Digit(256)) : Len(public) = KeyLen =>
    DecodeDid(EncodeDid(public)) = public /\ DecodeDid(NodeId(public)) = public
BY OwnText

-----------------------------------------------------------------------------
(* Congruence modulo Q. *)
Same(a, b) == a % Q = b % Q

LEMMA SameCong == Q \in Nat \ {0} /\ \A a, b : Same(a, b) <=> Cong(Q, a, b)
BY FieldSize DEF Same, Cong

LEMMA SameRefl == \A a : Same(a, a)
BY DEF Same

LEMMA SameSym == \A a, b : Same(a, b) => Same(b, a)
BY DEF Same

LEMMA SameTrans == \A a, b, c : Same(a, b) /\ Same(b, c) => Same(a, c)
BY DEF Same

LEMMA SameSum ==
  ASSUME NEW a \in Int, NEW b \in Int, NEW c \in Int, NEW d \in Int, Same(a, b), Same(c, d)
  PROVE  Same(a + c, b + d) /\ Same(a - c, b - d)
BY SameCong, CongruentSum

LEMMA SameProduct ==
  ASSUME NEW a \in Int, NEW b \in Int, NEW c \in Int, NEW d \in Int, Same(a, b), Same(c, d)
  PROVE  Same(a * c, b * d)
BY SameCong, CongruentProduct

LEMMA SameTimes ==
  ASSUME NEW a \in Int, NEW b \in Int, NEW c \in Int, Same(a, b)
  PROVE  Same(a * c, b * c) /\ Same(c * a, c * b)
BY SameRefl, SameProduct

LEMMA SameRemainder ==
  \A a \in Int : a % Q \in 0..(Q - 1) /\ a % Q \in Int /\ Same(a % Q, a) /\ Same(a, a % Q)
<1>1. Q \in Nat \ {0}
  BY FieldSize
<1> TAKE a \in Int
<1>2. a % Q \in 0..(Q - 1)
  BY <1>1, Remainder
<1>3. (a % Q) % Q = a % Q
  BY <1>1, RemainderTwice
<1> QED BY <1>1, <1>2, <1>3 DEF Same

LEMMA SameSmall == \A a, b \in 0..(Q - 1) : Same(a, b) => a = b
<1>1. Q \in Nat \ {0}
  BY FieldSize
<1> QED BY <1>1, RemainderSmall DEF Same

LEMMA SameZero == \A a \in Int : Same(a, 0) <=> a % Q = 0
<1>1. Q \in Nat \ {0}
  BY FieldSize
<1>2. 0 % Q = 0
  BY <1>1, RemainderSmall
<1> QED BY <1>2 DEF Same

LEMMA InverseOf ==
  ASSUME NEW a \in Int, ~Same(a, 0)
  PROVE  Inv(a) \in Int /\ Same(a * Inv(a), 1)
<1>0. Q \in Nat \ {0} /\ 1 \in 0..(Q - 1)
  BY FieldSize
<1>1. PICK b : b = a % Q
  OBVIOUS
<1>2. b \in 1..(Q - 1)
  BY <1>0, <1>1, SameRemainder, SameZero
<1>3. b % Q = b
  BY <1>0, <1>2, RemainderSmall
<1>4. Inv(b) = Inv(a)
  BY <1>1, <1>3 DEF Inv
<1>5. (b * Inv(b)) % Q = 1
  BY <1>2, FieldAssumption
<1>6. Inv(a) \in Int
  BY InvType
<1>7. Same(b * Inv(a), 1)
  BY <1>0, <1>4, <1>5, RemainderSmall DEF Same
<1>8. Same(a, b)
  BY <1>1, SameRemainder
<1>9. Same(a * Inv(a), b * Inv(a))
  <2>1. Same(Inv(a), Inv(a))
    BY SameRefl
  <2> QED BY <1>2, <1>6, <1>8, <2>1, SameProduct
<1>10. a * Inv(a) \in Int /\ b * Inv(a) \in Int /\ 1 \in Int
  BY <1>2, <1>6
<1> QED BY <1>6, <1>7, <1>9, <1>10, SameSym, SameTrans

LEMMA NoZeroDivisors ==
  ASSUME NEW a \in Int, NEW b \in Int, Same(a * b, 0)
  PROVE  Same(a, 0) \/ Same(b, 0)
<1> SUFFICES ASSUME ~Same(a, 0) PROVE Same(b, 0)
  OBVIOUS
<1>0. PICK i : i = Inv(a)
  OBVIOUS
<1>1. i \in Int /\ Same(a * i, 1)
  BY <1>0, InverseOf
<1>2. i \in Int /\ a * i \in Int /\ a * b \in Int /\ 0 \in Int /\ 1 \in Int
  BY <1>1
<1>3. Same((a * i) * b, 1 * b)
  BY <1>1, <1>2, SameTimes
<1>4. Same((a * b) * i, 0 * i)
  BY <1>1, <1>2, SameTimes
<1>5. (a * i) * b = (a * b) * i /\ 1 * b = b /\ 0 * i = 0
  BY <1>1
<1>6. (a * b) * i \in Int
  BY <1>1
<1> QED BY <1>2, <1>3, <1>4, <1>5, <1>6, SameSym, SameTrans

LEMMA PowDouble ==
  ASSUME NEW b \in Int, NEW k \in Nat
  PROVE  /\ Same(Pow(b, 2 * k), Pow(b, k) * Pow(b, k))
         /\ Same(Pow(b, 2 * k + 1), (Pow(b, k) * Pow(b, k)) * b)
<1>1. \A e \in Nat : Pow(b, e) \in Int
  BY PowOf
<1>2. PICK h : h = Pow(b, k)
  OBVIOUS
<1>3. h \in Int /\ h * h \in Int /\ (h * h) * b \in Int /\ (h * h) * 1 \in Int
  BY <1>1, <1>2
<1>4. (h * h) % Q \in Int /\ Same((h * h) % Q, h * h) /\ b % Q \in Int /\ Same(b % Q, b)
  BY <1>3, SameRemainder
<1>5. \A c \in Int : Same(((h * h) % Q) * c, (h * h) * c)
  <2> TAKE c \in Int
  <2>1. Same(c, c)
    BY SameRefl
  <2> QED BY <1>3, <1>4, <2>1, SameProduct
<1>6. Same((((h * h) % Q) * (b % Q)) % Q, (h * h) * b)
  <2>1. Same(((h * h) % Q) * (b % Q), (h * h) * b)
    BY <1>3, <1>4, SameProduct
  <2>2. ((h * h) % Q) * (b % Q) \in Int
    BY <1>4
  <2> QED BY <2>1, <2>2, SameRemainder, SameTrans
<1>7. Same((((h * h) % Q) * 1) % Q, h * h)
  <2>1. ((h * h) % Q) * 1 = (h * h) % Q
    BY <1>4
  <2> QED BY <1>4, <2>1, SameRemainder, SameTrans
<1>8. Same(Pow(b, 2 * k + 1), (h * h) * b)
  <2>1. 2 * k + 1 \in Nat /\ 2 * k + 1 # 0 /\ (2 * k + 1) \div 2 = k /\ (2 * k + 1) % 2 = 1
    OBVIOUS
  <2>2. Pow(b, 2 * k + 1) = (((h * h) % Q) * (b % Q)) % Q
    BY <1>2, <2>1, PowOf
  <2> QED BY <1>6, <2>2
<1>9. Same(Pow(b, 2 * k), h * h)
  <2>1. CASE k = 0
    <3>1. Pow(b, 0) = 1
      BY PowOf
    <3>2. 2 * k = 0 /\ h = 1 /\ h * h = 1
      BY <1>2, <2>1, <3>1
    <3> QED BY <3>1, <3>2, SameRefl
  <2>2. CASE k # 0
    <3>1. 2 * k \in Nat /\ 2 * k # 0 /\ (2 * k) \div 2 = k /\ (2 * k) % 2 = 0
      BY <2>2
    <3>2. Pow(b, 2 * k) = (((h * h) % Q) * 1) % Q
      BY <1>2, <3>1, PowOf
    <3> QED BY <1>7, <3>2
  <2> QED BY <2>1, <2>2
<1> QED BY <1>2, <1>8, <1>9

LEMMA PowNext ==
  ASSUME NEW b \in Int
  PROVE  \A n \in Nat : Same(Pow(b, n + 1), Pow(b, n) * b)
<1>1. \A e \in Nat : Pow(b, e) \in Int
  BY PowOf
<1> DEFINE E == {n \in Nat : Same(Pow(b, n + 1), Pow(b, n) * b)}
<1>2. ASSUME NEW n \in Nat, \A j \in Nat : j < n => j \in E PROVE n \in E
  <2>1. PICK k \in Nat : n = 2 * k \/ n = 2 * k + 1
    <3>1. n \div 2 \in Nat /\ (n = 2 * (n \div 2) \/ n = 2 * (n \div 2) + 1)
      OBVIOUS
    <3> QED BY <3>1
  <2>2. PICK h : h = Pow(b, k)
    OBVIOUS
  <2>3. h \in Int /\ Same(Pow(b, 2 * k), h * h) /\ Same(Pow(b, 2 * k + 1), (h * h) * b)
    BY <1>1, <2>2, PowDouble
  <2>4. h * h \in Int /\ (h * h) * b \in Int /\ h * b \in Int /\ Pow(b, n) \in Int /\ Same(b, b)
    BY <1>1, <2>3, SameRefl
  <2>5. CASE n = 2 * k
    <3>1. Same(Pow(b, n) * b, (h * h) * b)
      BY <2>3, <2>4, <2>5, SameProduct
    <3> QED BY <2>3, <2>5, <3>1, SameSym, SameTrans
  <2>6. CASE n = 2 * k + 1
    <3>1. PICK g : g = Pow(b, k + 1)
      OBVIOUS
    <3>2. g \in Int /\ Same(g, h * b)
      BY <1>1, <1>2, <2>2, <2>6, <3>1, k < n
    <3>3. Same(Pow(b, n + 1), g * g)
      <4>1. n + 1 = 2 * (k + 1) /\ k + 1 \in Nat
        BY <2>6
      <4> QED BY <3>1, <4>1, PowDouble
    <3>4. Same(g * g, (h * b) * (h * b))
      BY <2>4, <3>2, SameProduct
    <3>5. Same(Pow(b, n) * b, ((h * h) * b) * b)
      BY <2>3, <2>4, <2>6, SameProduct
    <3>6. (h * b) * (h * b) = ((h * h) * b) * b
      BY <2>3
    <3> QED BY <3>3, <3>4, <3>5, <3>6, SameSym, SameTrans
  <2> QED BY <2>1, <2>5, <2>6
<1>3. Nat \subseteq E
  <2> HIDE DEF E
  <2> QED BY <1>2, SetStrongInduction
<1> QED BY <1>3

LEMMA PowSum ==
  ASSUME NEW b \in Int, NEW m \in Nat
  PROVE  \A n \in Nat : Same(Pow(b, m + n), Pow(b, m) * Pow(b, n))
<1>1. \A e \in Nat : Pow(b, e) \in Int
  BY PowOf
<1> DEFINE E == {n \in Nat : Same(Pow(b, m + n), Pow(b, m) * Pow(b, n))}
<1>2. 0 \in E
  <2>1. Pow(b, 0) = 1
    BY PowOf
  <2>2. m + 0 = m /\ Pow(b, m) * 1 = Pow(b, m)
    BY <1>1
  <2> QED BY <2>1, <2>2, SameRefl
<1>3. ASSUME NEW n \in Nat, n \in E PROVE n + 1 \in E
  <2>1. PICK h, g, f : h = Pow(b, m) /\ g = Pow(b, n) /\ f = Pow(b, m + n)
    OBVIOUS
  <2>2. h \in Int /\ g \in Int /\ f \in Int /\ h * g \in Int /\ g * b \in Int /\ Same(f, h * g)
    BY <1>1, <1>3, <2>1
  <2>3. Same(Pow(b, m + (n + 1)), f * b)
    <3>1. m + (n + 1) = (m + n) + 1 /\ m + n \in Nat
      OBVIOUS
    <3> QED BY <2>1, <3>1, PowNext
  <2>4. Same(f * b, (h * g) * b)
    <3>1. Same(b, b)
      BY SameRefl
    <3> QED BY <2>2, <3>1, SameProduct
  <2>5. Same(h * Pow(b, n + 1), h * (g * b))
    <3>1. Same(h, h) /\ Same(Pow(b, n + 1), g * b) /\ Pow(b, n + 1) \in Int
      BY <1>1, <2>1, SameRefl, PowNext
    <3> QED BY <2>2, <3>1, SameProduct
  <2>6. (h * g) * b = h * (g * b)
    BY <2>2
  <2> QED BY <2>1, <2>3, <2>4, <2>5, <2>6, SameSym, SameTrans
<1>4. Nat \subseteq E
  <2> HIDE DEF E
  <2> QED BY <1>2, <1>3, SetInduction
<1> QED BY <1>4

(* A power of a square. *)
LEMMA PowSquare ==
  ASSUME NEW b \in Int, NEW c \in Int, Same(c, b * b)
  PROVE  \A n \in Nat : Same(Pow(c, n), Pow(b, 2 * n))
<1>1. \A e \in Nat : Pow(b, e) \in Int /\ Pow(c, e) \in Int
  BY PowType
<1> DEFINE E == {n \in Nat : Same(Pow(c, n), Pow(b, 2 * n))}
<1>2. 0 \in E
  <2>1. Pow(b, 0) = 1 /\ Pow(c, 0) = 1 /\ 2 * 0 = 0
    BY PowOf
  <2> QED BY <2>1, SameRefl
<1>3. ASSUME NEW n \in Nat, n \in E PROVE n + 1 \in E
  <2>1. PICK g, h : g = Pow(c, n) /\ h = Pow(b, 2 * n)
    OBVIOUS
  <2>2. g \in Int /\ h \in Int /\ Same(g, h) /\ b * b \in Int
    BY <1>1, <1>3, <2>1
  <2>3. Same(Pow(c, n + 1), g * c)
    BY <2>1, PowNext
  <2>4. Same(g * c, h * (b * b))
    BY <2>2, SameProduct
  <2>5. PICK f : f = Pow(b, 2 * n + 1)
    OBVIOUS
  <2>6. f \in Int /\ Same(f, h * b)
    BY <1>1, <2>1, <2>5, PowNext
  <2>7. Same(Pow(b, 2 * (n + 1)), f * b)
    <3>1. 2 * (n + 1) = (2 * n + 1) + 1
      OBVIOUS
    <3> QED BY <2>5, <3>1, PowNext
  <2>8. Same(f * b, (h * b) * b)
    <3>1. Same(b, b) /\ h * b \in Int
      BY <2>2, SameRefl
    <3> QED BY <2>6, <3>1, SameProduct
  <2>9. (h * b) * b = h * (b * b)
    BY <2>2
  <2> QED BY <2>3, <2>4, <2>7, <2>8, <2>9, SameSym, SameTrans
<1>4. Nat \subseteq E
  <2> HIDE DEF E
  <2> QED BY <1>2, <1>3, SetInduction
<1> QED BY <1>4

(* Fermat's theorem, from the inverse. *)
LEMMA Fermat ==
  ASSUME NEW x \in 1..(Q - 1)
  PROVE  Same(Pow(x, Q - 1), 1)
<1>0. Q \in Nat \ {0} /\ Q - 2 \in Nat /\ 1 \in 0..(Q - 1)
  BY FieldSize
<1>1. x % Q = x
  BY <1>0, RemainderSmall
<1>2. Inv(x) = Pow(x, Q - 2)
  BY <1>1 DEF Inv, InvTable
<1>3. (x * Inv(x)) % Q = 1
  BY FieldAssumption
<1>4. Same(x * Inv(x), 1)
  BY <1>0, <1>3, RemainderSmall DEF Same
<1>5. Pow(x, Q - 2) \in Int
  BY <1>0, PowOf
<1>6. Same(Pow(x, Q - 1), Pow(x, Q - 2) * x)
  <2>1. (Q - 2) + 1 = Q - 1
    BY <1>0
  <2> QED BY <1>0, <2>1, PowNext
<1>7. x * Pow(x, Q - 2) = Pow(x, Q - 2) * x
  BY <1>5
<1> QED BY <1>2, <1>4, <1>6, <1>7, SameTrans

(* The power the code takes is a root up to the sign of its square. *)
LEMMA FourthPower ==
  ASSUME NEW x \in 0..(Q - 1), NEW xx \in Int, Same(xx, x * x)
  PROVE  LET r == Pow(xx, (Q + 3) \div 8)
         IN  Same((r * r) * (r * r), xx * xx)
<1>0. PICK e : e = (Q + 3) \div 8
  OBVIOUS
<1>1. e \in Nat /\ 4 * e \in Nat /\ 2 * e \in Nat /\ 8 * e = Q + 3
  BY <1>0, CurveAssumption
<1>2. PICK r : r = Pow(xx, e)
  OBVIOUS
<1>3. \A n \in Nat : Pow(xx, n) \in Int
  BY PowOf
<1>4. r \in Int /\ r * r \in Int /\ (r * r) * (r * r) \in Int /\ xx * xx \in Int
  BY <1>1, <1>2, <1>3
<1>5. Same(Pow(xx, 4 * e), (r * r) * (r * r))
  <2>1. PICK s : s = Pow(xx, 2 * e)
    OBVIOUS
  <2>2. s \in Int /\ Same(s, r * r)
    BY <1>1, <1>2, <1>3, <2>1, PowDouble
  <2>3. Same(Pow(xx, 4 * e), s * s)
    <3>1. 4 * e = 2 * (2 * e)
      BY <1>1
    <3> QED BY <1>1, <2>1, <3>1, PowDouble
  <2>4. Same(s * s, (r * r) * (r * r))
    BY <1>4, <2>2, SameProduct
  <2> QED BY <2>3, <2>4, SameTrans
<1>6. Same(Pow(xx, 4 * e), xx * xx)
  <2>1. PICK h \in Nat : 4 * e = h + 2 /\ 2 * h = Q - 1
    <3>1. 4 * e - 2 \in Nat /\ 4 * e = (4 * e - 2) + 2 /\ 2 * (4 * e - 2) = Q - 1
      BY <1>1, FieldSize
    <3> QED BY <3>1
  <2>2. PICK t : t = Pow(xx, h)
    OBVIOUS
  <2>3. t \in Int /\ Pow(xx, 2) \in Int
    BY <1>3, <2>2
  <2>4. Same(Pow(xx, 4 * e), t * Pow(xx, 2))
    BY <2>1, <2>2, PowSum
  <2>5. Same(Pow(xx, 2), xx * xx)
    <3>1. Same(Pow(xx, 1), Pow(xx, 0) * xx) /\ Same(Pow(xx, 2), Pow(xx, 1) * xx)
      <4>1. 0 + 1 = 1 /\ 1 + 1 = 2 /\ 0 \in Nat /\ 1 \in Nat
        OBVIOUS
      <4> QED BY <4>1, PowNext
    <3>2. Pow(xx, 0) = 1 /\ 1 * xx = xx
      BY PowOf
    <3>3. Same(Pow(xx, 1), xx) /\ Same(xx, xx) /\ Pow(xx, 1) \in Int
      BY <1>3, <3>1, <3>2, SameRefl
    <3>4. Same(Pow(xx, 1) * xx, xx * xx)
      BY <3>3, SameProduct
    <3> QED BY <3>1, <3>4, SameTrans
  <2>6. Same(t * Pow(xx, 2), t * (xx * xx))
    BY <1>4, <2>3, <2>5, SameRefl, SameProduct
  <2>7. CASE x = 0
    <3>1. Same(xx, 0)
      BY <2>7
    <3>2. Same(xx * xx, 0 * 0)
      BY <3>1, SameProduct
    <3>3. Same(t * (xx * xx), t * 0)
      <4>1. Same(t, t) /\ Same(xx * xx, 0) /\ 0 \in Int
        BY <3>2, SameRefl
      <4> QED BY <1>4, <2>3, <4>1, SameProduct
    <3>4. t * 0 = 0 /\ 0 * 0 = 0
      BY <2>3
    <3> QED BY <2>4, <2>6, <3>2, <3>3, <3>4, SameSym, SameTrans
  <2>8. CASE x # 0
    <3>1. Same(t, 1)
      <4>1. Same(t, Pow(x, Q - 1))
        BY <2>1, <2>2, PowSquare
      <4> QED BY <2>8, <4>1, Fermat, SameTrans
    <3>2. Same(t * (xx * xx), 1 * (xx * xx))
      <4>1. Same(xx * xx, xx * xx)
        BY SameRefl
      <4> QED BY <1>4, <2>3, <3>1, <4>1, SameProduct
    <3>3. 1 * (xx * xx) = xx * xx
      BY <1>4
    <3> QED BY <2>4, <2>6, <3>2, <3>3, SameTrans
  <2> QED BY <2>7, <2>8
<1> QED BY <1>0, <1>2, <1>5, <1>6, SameSym, SameTrans

(* What RecoverX finds squares to xx when xx is a square. *)
LEMMA SquareRoot ==
  ASSUME NEW x \in 0..(Q - 1), NEW xx \in 0..(Q - 1), Same(xx, x * x),
         NEW r, r = Pow(xx, (Q + 3) \div 8),
         NEW z, z = IF (r * r - xx) % Q # 0 THEN (r * SqrtM1) % Q ELSE r
  PROVE  z \in 0..(Q - 1) /\ Same(z * z, x * x)
<1>1. r \in 0..(Q - 1) /\ r \in Int /\ x \in Int /\ xx \in Int
  BY FieldSize, PowOf
<1>2. r * r \in Int /\ xx * xx \in Int /\ r * r - xx \in Int /\ r * r + xx \in Int /\ x * x \in Int
  BY <1>1
<1>3. Same((r * r) * (r * r), xx * xx)
  BY <1>1, FourthPower
<1>4. CASE (r * r - xx) % Q = 0
  <2>1. Same(r * r - xx, 0)
    BY <1>2, <1>4, SameZero
  <2>2. Same((r * r - xx) + xx, 0 + xx)
    <3>1. Same(xx, xx)
      BY SameRefl
    <3> QED BY <1>1, <1>2, <2>1, <3>1, SameSum
  <2>3. (r * r - xx) + xx = r * r /\ 0 + xx = xx
    BY <1>1, <1>2
  <2>4. Same(r * r, x * x)
    BY <2>2, <2>3, SameTrans
  <2>5. z = r
    BY <1>4
  <2> QED BY <1>1, <2>4, <2>5
<1>5. CASE (r * r - xx) % Q # 0
  <2>1. ~Same(r * r - xx, 0)
    BY <1>2, <1>5, SameZero
  <2>2. Same((r * r) * (r * r) - xx * xx, xx * xx - xx * xx)
    <3>1. Same(xx * xx, xx * xx) /\ (r * r) * (r * r) \in Int
      BY <1>2, SameRefl
    <3> QED BY <1>2, <1>3, <3>1, SameSum
  <2>3. (r * r) * (r * r) - xx * xx = (r * r - xx) * (r * r + xx) /\ xx * xx - xx * xx = 0
    BY <1>1, <1>2
  <2>4. Same(r * r + xx, 0)
    BY <1>2, <2>1, <2>2, <2>3, NoZeroDivisors
  <2>5. SqrtM1 \in Int /\ SqrtM1 * SqrtM1 + 1 \in Int /\ SqrtM1 * SqrtM1 \in Int
    <3>1. SqrtM1 \in Int
      BY FieldSize, PowType DEF SqrtM1
    <3> QED BY <3>1
  <2>6. PICK i : i = SqrtM1
    OBVIOUS
  <2>7. Same(i * i + 1, 0)
    BY <2>5, <2>6, FieldAssumption, SameZero
  <2>8. Same((r * i) * (r * i), xx)
    <3>1. Same((i * i + 1) * (r * r), 0 * (r * r))
      <4>1. Same(r * r, r * r) /\ i * i + 1 \in Int /\ 0 \in Int
        BY <1>2, <2>5, <2>6, <2>7, SameRefl
      <4> QED BY <1>2, <2>5, <2>6, <2>7, <4>1, SameProduct
    <3>2. Same((i * i + 1) * (r * r) - (r * r + xx), 0 * (r * r) - 0)
      <4>1. (i * i + 1) * (r * r) \in Int /\ 0 * (r * r) \in Int
        BY <1>2, <2>5, <2>6
      <4> QED BY <1>2, <2>4, <3>1, <4>1, SameSum
    <3>3. Same(((i * i + 1) * (r * r) - (r * r + xx)) + xx, (0 * (r * r) - 0) + xx)
      <4>1. (i * i + 1) * (r * r) - (r * r + xx) \in Int /\ 0 * (r * r) - 0 \in Int /\ Same(xx, xx)
        BY <1>2, <2>5, <2>6, SameRefl
      <4> QED BY <1>1, <3>2, <4>1, SameSum
    <3>4. ((i * i + 1) * (r * r) - (r * r + xx)) + xx = (r * i) * (r * i) /\ (0 * (r * r) - 0) + xx = xx
      BY <1>1, <2>5, <2>6
    <3> QED BY <3>3, <3>4
  <2>9. r * i \in Int /\ z = (r * i) % Q
    BY <1>1, <1>5, <2>5, <2>6
  <2>10. z \in 0..(Q - 1) /\ z \in Int /\ Same(z, r * i)
    BY <2>9, SameRemainder
  <2>11. Same(z * z, (r * i) * (r * i))
    BY <2>9, <2>10, SameProduct
  <2> QED BY <2>8, <2>10, <2>11, SameTrans
<1> QED BY <1>4, <1>5

(* There are two of them. *)
LEMMA TwoRoots ==
  ASSUME NEW x \in 0..(Q - 1), NEW z \in 0..(Q - 1), Same(z * z, x * x)
  PROVE  z = x \/ (x # 0 /\ z = Q - x)
<1>0. Q \in Nat \ {0} /\ x \in Int /\ z \in Int
  BY FieldSize
<1>1. z * z \in Int /\ x * x \in Int /\ z - x \in Int /\ z + x \in Int
  BY <1>0
<1>2. Same(z * z - x * x, x * x - x * x)
  BY <1>1, SameRefl, SameSum
<1>3. z * z - x * x = (z - x) * (z + x) /\ x * x - x * x = 0
  BY <1>0
<1>4. Same(z - x, 0) \/ Same(z + x, 0)
  BY <1>1, <1>2, <1>3, NoZeroDivisors
<1>5. CASE Same(z - x, 0)
  <2>1. Same((z - x) + x, 0 + x)
    <3>1. Same(x, x)
      BY SameRefl
    <3> QED BY <1>0, <1>1, <1>5, <3>1, SameSum
  <2>2. (z - x) + x = z /\ 0 + x = x
    BY <1>0
  <2> QED BY <2>1, <2>2, SameSmall
<1>6. CASE Same(z + x, 0)
  <2>1. CASE x = 0
    <3>1. Same(z, x)
      BY <1>0, <1>6, <2>1
    <3> QED BY <3>1, SameSmall
  <2>2. CASE x # 0
    <3>1. Same((z + x) - x, 0 - x)
      <4>1. Same(x, x)
        BY SameRefl
      <4> QED BY <1>0, <1>1, <1>6, <4>1, SameSum
    <3>2. Same(Q - x, 0 - x)
      <4>1. Same(Q, 0)
        <5>1. Q % Q = 0
          <6>1. Q = Q * 1 + 0
            BY <1>0
          <6> QED BY <1>0, <6>1, RemainderUnique
        <5> QED BY <1>0, <5>1, SameZero
      <4>2. Same(x, x)
        BY SameRefl
      <4> QED BY <1>0, <4>1, <4>2, SameSum
    <3>3. (z + x) - x = z /\ Q - x \in 0..(Q - 1)
      BY <1>0, <2>2
    <3>4. Same(z, Q - x)
      BY <3>1, <3>2, <3>3, SameSym, SameTrans
    <3> QED BY <2>2, <3>3, <3>4, SameSmall
  <2> QED BY <2>1, <2>2
<1> QED BY <1>4, <1>5, <1>6

LEMMA EvenRoot ==
  ASSUME NEW p \in CurvePoint
  PROVE  /\ RecoverX(p[2]) % 2 = 0
         /\ RecoverX(p[2]) = p[1] \/ (p[1] # 0 /\ RecoverX(p[2]) = Q - p[1])
<1>0. Q \in Nat \ {0} /\ D \in Int
  BY FieldSize
<1>1. PICK x, y : x = p[1] /\ y = p[2]
  OBVIOUS
<1>2. x \in 0..(Q - 1) /\ y \in 0..(Q - 1) /\ x \in Int /\ y \in Int
  BY <1>1 DEF CurvePoint
<1>3. PICK x2, y2 : x2 = (x * x) % Q /\ y2 = (y * y) % Q
  OBVIOUS
<1>4. /\ x * x \in Int /\ y * y \in Int /\ y * y - 1 \in Int
      /\ x2 \in Int /\ Same(x2, x * x) /\ y2 \in Int /\ Same(y2, y * y)
  <2>1. x * x \in Int /\ y * y \in Int
    BY <1>2
  <2> QED BY <1>3, <2>1, SameRemainder, SameSym
<1>5. Same(y2 - x2 - 1 - D * ((x2 * y2) % Q), 0)
  <2>1. (y2 - x2 - 1 - D * ((x2 * y2) % Q)) % Q = 0
    BY <1>1, <1>3 DEF CurvePoint, OnCurve
  <2>2. (x2 * y2) % Q \in Int
    BY <1>0, <1>4, SameRemainder
  <2>3. y2 - x2 - 1 - D * ((x2 * y2) % Q) \in Int
    BY <1>0, <1>4, <2>2
  <2> QED BY <2>1, <2>3, SameZero
<1>6. PICK d : d = D * y2 + 1
  OBVIOUS
<1>7. d \in Int /\ ~Same(d, 0)
  <2>1. d \in Int
    BY <1>0, <1>4, <1>6
  <2>2. d % Q # 0
    BY <1>2, <1>3, <1>6, FieldAssumption
  <2> QED BY <2>1, <2>2, SameZero
<1>8. PICK i : i = Inv(d)
  OBVIOUS
<1>9. i \in Int /\ Same(d * i, 1)
  BY <1>7, <1>8, InverseOf
<1>10. PICK w : w = (y * y - 1) * i
  OBVIOUS
<1>11. PICK xx : xx = w % Q
  OBVIOUS
<1>12. w \in Int /\ xx \in 0..(Q - 1) /\ xx \in Int /\ Same(xx, w)
  <2>1. w \in Int
    BY <1>4, <1>9, <1>10
  <2> QED BY <1>11, <2>1, SameRemainder
<1>13. Same(y * y - 1, (x * x) * d)
  <2>1. PICK m : m = (x2 * y2) % Q
    OBVIOUS
  <2>2. x2 * y2 \in Int /\ m \in Int /\ Same(m, x2 * y2)
    <3>1. x2 * y2 \in Int
      BY <1>4
    <3> QED BY <2>1, <3>1, SameRemainder
  <2>3. Same(D * m, D * (x2 * y2))
    BY <1>0, <2>2, SameRefl, SameProduct
  <2>4. D * m \in Int /\ D * (x2 * y2) \in Int /\ y2 - x2 - 1 - D * m \in Int
    BY <1>0, <1>4, <2>2
  <2>5. Same((y2 - x2 - 1 - D * m) + D * m, 0 + D * (x2 * y2))
    BY <1>5, <2>1, <2>3, <2>4, SameSum
  <2>6. Same(((y2 - x2 - 1 - D * m) + D * m) + x2, (0 + D * (x2 * y2)) + x2)
    <3>1. Same(x2, x2)
      BY SameRefl
    <3> QED BY <1>4, <2>4, <2>5, <3>1, SameSum
  <2>7. ((y2 - x2 - 1 - D * m) + D * m) + x2 = y2 - 1 /\ (0 + D * (x2 * y2)) + x2 = x2 * d
    BY <1>0, <1>4, <1>6, <2>2
  <2>8. Same(y2 - 1, y * y - 1)
    <3>1. Same(1, 1)
      BY SameRefl
    <3> QED BY <1>4, <3>1, SameSum
  <2>9. Same(x2 * d, (x * x) * d)
    BY <1>4, <1>7, SameRefl, SameProduct
  <2> QED BY <2>6, <2>7, <2>8, <2>9, SameSym, SameTrans
<1>14. Same(xx, x * x)
  <2>1. Same(w, ((x * x) * d) * i)
    <3>1. (x * x) * d \in Int /\ Same(i, i)
      BY <1>4, <1>7, SameRefl
    <3> QED BY <1>4, <1>9, <1>10, <1>13, <3>1, SameProduct
  <2>2. ((x * x) * d) * i = (x * x) * (d * i)
    BY <1>4, <1>7, <1>9
  <2>3. Same((x * x) * (d * i), (x * x) * 1)
    <3>1. d * i \in Int /\ Same(x * x, x * x)
      BY <1>7, <1>9, SameRefl
    <3> QED BY <1>4, <1>9, <3>1, SameProduct
  <2>4. (x * x) * 1 = x * x
    BY <1>4
  <2> QED BY <1>12, <2>1, <2>2, <2>3, <2>4, SameTrans
<1>15. PICK r : r = Pow(xx, (Q + 3) \div 8)
  OBVIOUS
<1>16. PICK z : z = IF (r * r - xx) % Q # 0 THEN (r * SqrtM1) % Q ELSE r
  OBVIOUS
<1>17. z \in 0..(Q - 1) /\ (z = x \/ (x # 0 /\ z = Q - x))
  BY <1>2, <1>12, <1>14, <1>15, <1>16, SquareRoot, TwoRoots
<1>18. RecoverX(y) = IF z % 2 # 0 THEN Q - z ELSE z
  BY <1>3, <1>6, <1>8, <1>10, <1>11, <1>15, <1>16 DEF RecoverX
<1>19. Q % 2 = 1
  BY CurveAssumption
<1>20. RecoverX(y) % 2 = 0 /\ (RecoverX(y) = x \/ (x # 0 /\ RecoverX(y) = Q - x))
  BY <1>0, <1>2, <1>17, <1>18, <1>19
<1> QED BY <1>1, <1>20

(* A point is decoded from what it was encoded to. *)
LEMMA DecodeEncode ==
  ASSUME NEW p \in CurvePoint
  PROVE  DecodePoint(EncodePoint(p)) = p
<1>0. KeyBits - 1 \in Nat /\ Q \in Nat \ {0} /\ Q % 2 = 1
  BY CurveAssumption
<1>1. PICK half : half = 2^(KeyBits - 1)
  OBVIOUS
<1>2. half \in Nat /\ Q < half
  BY <1>0, <1>1, TwoTo, CurveAssumption
<1>3. PICK x, y : p = <<x, y>>
  BY DEF CurvePoint
<1>4. x \in 0..(Q - 1) /\ y \in 0..(Q - 1) /\ p[1] = x /\ p[2] = y
  BY <1>3 DEF CurvePoint
<1>5. PICK n, s : n = EncodePoint(p) /\ s = x % 2
  OBVIOUS
<1>6. s \in {0, 1} /\ y % half = y
  <2>1. half \in Nat \ {0} /\ y \in 0..(half - 1)
    BY <1>0, <1>2, <1>4
  <2> QED BY <1>4, <1>5, <2>1, RemainderSmall
<1>7. n = y + s * half
  BY <1>1, <1>4, <1>5, <1>6 DEF EncodePoint
<1>8. n % half = y /\ n \div half = s
  <2>1. half \in Nat \ {0} /\ y \in 0..(half - 1) /\ n \in Int /\ n = half * s + y
    BY <1>0, <1>2, <1>4, <1>6, <1>7
  <2>2. n % half = y
    BY <1>6, <2>1, RemainderUnique
  <2>3. n \div half = s
    BY <1>6, <2>1, <2>2, Remainder
  <2> QED BY <2>2, <2>3
<1>9. PICK even : even = RecoverX(y)
  OBVIOUS
<1>10. even % 2 = 0 /\ (even = x \/ (x # 0 /\ even = Q - x))
  BY <1>4, <1>9, EvenRoot
<1>11. (IF even % 2 # s THEN Q - even ELSE even) = x
  BY <1>0, <1>4, <1>5, <1>6, <1>10
<1>12. OnCurve(<<x, y>>)
  BY <1>3 DEF CurvePoint
<1>13. DecodePoint(n) = IF OnCurve(<<x, y>>) THEN <<x, y>> ELSE NoPoint
  BY <1>1, <1>8, <1>9, <1>11 DEF DecodePoint
<1> QED BY <1>3, <1>5, <1>12, <1>13

-----------------------------------------------------------------------------
(* Points and the multiples of the base point. *)
LEMMA CurveType == \A p \in CurvePoint : /\ p \in Point /\ p = <<p[1], p[2]>>
                                          /\ p[1] \in 0..(Q - 1) /\ p[2] \in 0..(Q - 1)
BY DEF CurvePoint, Point

LEMMA AddCommutes == ASSUME NEW p \in Point, NEW q \in Point PROVE Add(p, q) = Add(q, p)
<1>1. PICK p1, p2, q1, q2 : p1 = p[1] /\ p2 = p[2] /\ q1 = q[1] /\ q2 = q[2]
  OBVIOUS
<1>2. p1 \in Int /\ p2 \in Int /\ q1 \in Int /\ q2 \in Int
  BY <1>1 DEF Point
<1>3. p1 * q1 = q1 * p1 /\ p2 * q2 = q2 * p2 /\ p1 * q2 + q1 * p2 = q1 * p2 + p1 * q2
  BY <1>2
<1> QED BY <1>1, <1>3 DEF Add

Residue(p) == <<p[1] % Q, p[2] % Q>>

LEMMA AddResidue ==
  ASSUME NEW p \in Point, NEW q \in Point
  PROVE  Add(p, q) = Add(Residue(p), Residue(q))
<1>1. PICK p1, p2, q1, q2 : p1 = p[1] /\ p2 = p[2] /\ q1 = q[1] /\ q2 = q[2]
  OBVIOUS
<1>2. p1 \in Int /\ p2 \in Int /\ q1 \in Int /\ q2 \in Int
  BY <1>1 DEF Point
<1>3. PICK r1, r2, s1, s2 : r1 = p1 % Q /\ r2 = p2 % Q /\ s1 = q1 % Q /\ s2 = q2 % Q
  OBVIOUS
<1>4. /\ r1 \in Int /\ r2 \in Int /\ s1 \in Int /\ s2 \in Int
      /\ Same(p1, r1) /\ Same(p2, r2) /\ Same(q1, s1) /\ Same(q2, s2)
  BY <1>2, <1>3, SameRemainder
<1>5. Same(p1 * q1, r1 * s1) /\ Same(p2 * q2, r2 * s2)
  BY <1>2, <1>4, SameProduct
<1>6. Same(p1 * q2, r1 * s2) /\ Same(q1 * p2, s1 * r2)
  BY <1>2, <1>4, SameProduct
<1>7. Same(p1 * q2 + q1 * p2, r1 * s2 + s1 * r2) /\ Same(p2 * q2 + p1 * q1, r2 * s2 + r1 * s1)
  <2>1. /\ p1 * q1 \in Int /\ r1 * s1 \in Int /\ p2 * q2 \in Int /\ r2 * s2 \in Int
        /\ p1 * q2 \in Int /\ r1 * s2 \in Int /\ q1 * p2 \in Int /\ s1 * r2 \in Int
    BY <1>2, <1>4
  <2>2. Same(p1 * q2 + q1 * p2, r1 * s2 + s1 * r2)
    BY <1>6, <2>1, SameSum
  <2>3. Same(p2 * q2 + p1 * q1, r2 * s2 + r1 * s1)
    BY <1>5, <2>1, SameSum
  <2> QED BY <2>2, <2>3
<1>8. /\ (p1 * q1) % Q = (r1 * s1) % Q /\ (p2 * q2) % Q = (r2 * s2) % Q
      /\ (p1 * q2 + q1 * p2) % Q = (r1 * s2 + s1 * r2) % Q
      /\ (p2 * q2 + p1 * q1) % Q = (r2 * s2 + r1 * s1) % Q
  BY <1>5, <1>7 DEF Same
<1>9. /\ Residue(p)[1] = r1 /\ Residue(p)[2] = r2
      /\ Residue(q)[1] = s1 /\ Residue(q)[2] = s2
  BY <1>1, <1>3 DEF Residue
<1> QED BY <1>1, <1>8, <1>9 DEF Add

LEMMA ResidueCurve == \A p \in CurvePoint : Residue(p) = p
<1> TAKE p \in CurvePoint
<1>1. p[1] % Q = p[1] /\ p[2] % Q = p[2]
  BY FieldSize, CurveType, RemainderSmall
<1> QED BY <1>1, CurveType DEF Residue

LEMMA NeutralOnCurve == Neutral \in CurvePoint
<1>1. Q \in Nat \ {0} /\ 0 \in 0..(Q - 1) /\ 1 \in 0..(Q - 1) /\ D \in Int
  BY FieldSize
<1>2. 0 % Q = 0 /\ 1 % Q = 1
  BY <1>1, RemainderSmall
<1>3. 0 * 0 = 0 /\ 1 * 1 = 1 /\ 0 * 1 = 0 /\ D * 0 = 0 /\ 1 - 0 - 1 - 0 = 0
  BY <1>1
<1>4. OnCurve(<<0, 1>>)
  BY <1>2, <1>3 DEF OnCurve
<1> QED BY <1>1, <1>4 DEF CurvePoint, Neutral

LEMMA AddNeutral == ASSUME NEW p \in CurvePoint PROVE Add(Neutral, p) = p /\ Add(p, Neutral) = p
<1>1. Q \in Nat \ {0} /\ 0 \in 0..(Q - 1) /\ 1 \in 0..(Q - 1) /\ D \in Int
  BY FieldSize
<1>2. 0 % Q = 0 /\ 1 % Q = 1
  BY <1>1, RemainderSmall
<1>3. PICK x, y : p = <<x, y>> /\ x \in 0..(Q - 1) /\ y \in 0..(Q - 1)
  BY CurveType
<1>4. x \in Int /\ y \in Int /\ x % Q = x /\ y % Q = y
  BY <1>1, <1>3, RemainderSmall
<1>5. Inv(1) \in Int /\ Same(Inv(1), 1)
  <2>1. ~Same(1, 0)
    BY <1>2 DEF Same
  <2>2. Inv(1) \in Int /\ Same(1 * Inv(1), 1)
    BY <2>1, InverseOf
  <2>3. 1 * Inv(1) = Inv(1)
    BY <2>2
  <2> QED BY <2>2, <2>3
<1>6. \A u \in 0..(Q - 1) : (u * Inv(1)) % Q = u
  <2> TAKE u \in 0..(Q - 1)
  <2>1. u \in Int /\ Same(u, u) /\ u * 1 = u
    BY SameRefl
  <2>2. Same(u * Inv(1), u * 1)
    BY <1>5, <2>1, SameProduct
  <2> QED BY <1>1, <2>1, <2>2, RemainderSmall DEF Same
<1>7. /\ 0 * x = 0 /\ 1 * y = y /\ 0 * y + x * 1 = x /\ 1 * y + 0 * x = y
      /\ 0 * y = 0 /\ D * 0 = 0 /\ 1 + 0 = 1 /\ 1 - 0 = 1
  BY <1>1, <1>4
<1>8. Add(<<0, 1>>, <<x, y>>) = <<(x * Inv(1)) % Q, (y * Inv(1)) % Q>>
  BY <1>2, <1>4, <1>7 DEF Add
<1>9. Add(Neutral, p) = p
  BY <1>3, <1>6, <1>8 DEF Neutral
<1> QED BY <1>9, AddCommutes, NeutralType, CurveType

(* Multiples of a point are points, also of one that is not reduced. *)
LEMMA CurveMult ==
  ASSUME NEW p \in Point, Residue(p) \in CurvePoint, NEW e \in Nat
  PROVE  ScalarMult(p, e) \in CurvePoint
<1> DEFINE E == {k \in Nat : \A r \in CurvePoint, a \in Point :
                               Residue(a) \in CurvePoint => Mult[<<r, a, k>>] \in CurvePoint}
<1>1. ASSUME NEW k \in Nat, \A j \in Nat : j < k => j \in E PROVE k \in E
  <2> SUFFICES ASSUME NEW r \in CurvePoint, NEW a \in Point, Residue(a) \in CurvePoint
               PROVE  Mult[<<r, a, k>>] \in CurvePoint
    OBVIOUS
  <2>1. CASE k = 0
    <3>1. r \in Point
      BY CurveType
    <3>2. Mult[<<r, a, k>>] = r
      BY <2>1, <3>1, MultOf
    <3> QED BY <3>2
  <2>2. CASE k # 0
    <3>1. k \div 2 \in Nat /\ k \div 2 < k
      BY <2>2
    <3>2. Add(r, a) \in CurvePoint
      <4>1. Add(r, a) = Add(r, Residue(a))
        BY AddResidue, ResidueCurve, CurveType
      <4> QED BY <4>1, GroupAssumption
    <3>3. Add(a, a) \in CurvePoint
      <4>1. Add(a, a) = Add(Residue(a), Residue(a))
        BY AddResidue
      <4> QED BY <4>1, GroupAssumption
    <3>4. Residue(Add(a, a)) \in CurvePoint /\ Add(a, a) \in Point
      BY <3>3, ResidueCurve, CurveType
    <3>5. PICK s : s = IF k % 2 = 1 THEN Add(r, a) ELSE r
      OBVIOUS
    <3>6. s \in CurvePoint
      BY <3>2, <3>5
    <3>7. Mult[<<r, a, k>>] = Mult[<<s, Add(a, a), k \div 2>>]
      BY <2>2, <3>5, MultOf, CurveType
    <3>8. k \div 2 \in E
      BY <1>1, <3>1
    <3> QED BY <3>4, <3>6, <3>7, <3>8
  <2> QED BY <2>1, <2>2
<1>2. e \in E
  <2> HIDE DEF E
  <2> QED BY <1>1, SetStrongInduction
<1> QED BY <1>2, ScalarMultOf, NeutralOnCurve

LEMMA SubgroupOf ==
  /\ Subgroup \subseteq CurvePoint /\ Subgroup \subseteq Point
  /\ Neutral \in Subgroup /\ Base \in Subgroup
  /\ \A p, q \in Subgroup : Add(p, q) \in Subgroup /\ Add(p, q) = Add(q, p)
  /\ \A p, q, r \in Subgroup : Add(Add(p, q), r) = Add(p, Add(q, r))
<1>0. L \in Nat /\ L > 1
  BY FieldSize, CurveAssumption, GroupAssumption
<1>1. Base \in CurvePoint /\ Base \in Point /\ Residue(Base) \in CurvePoint
  BY GroupAssumption, ResidueCurve, CurveType
<1>2. Subgroup \subseteq CurvePoint
  <2> SUFFICES ASSUME NEW p \in Subgroup PROVE p \in CurvePoint
    OBVIOUS
  <2>1. PICK n \in 0..(L - 1) : p = ScalarMult(Base, n)
    BY DEF Subgroup
  <2>2. n \in Nat
    BY <1>0
  <2> QED BY <1>1, <2>1, <2>2, CurveMult
<1>3. Subgroup \subseteq Point
  BY <1>2, CurveType
<1>4. Neutral \in Subgroup
  <2>1. ScalarMult(Base, 0) = Neutral
    BY <1>1, ScalarMultOf, MultOf, NeutralType
  <2>2. 0 \in 0..(L - 1)
    BY <1>0
  <2> QED BY <2>1, <2>2 DEF Subgroup
<1>5. Base \in Subgroup
  <2>1. 1 \in Nat /\ 1 # 0 /\ 1 % 2 = 1 /\ 1 \div 2 = 0
    OBVIOUS
  <2>2. Mult[<<Neutral, Base, 1>>] = Mult[<<Add(Neutral, Base), Add(Base, Base), 0>>]
    BY <1>1, <2>1, MultOf, NeutralType
  <2>3. Add(Neutral, Base) = Base /\ Add(Base, Base) \in Point
    BY <1>1, AddNeutral, AddType
  <2>4. ScalarMult(Base, 1) = Base
    BY <1>1, <2>2, <2>3, ScalarMultOf, MultOf
  <2>5. 1 \in 0..(L - 1)
    BY <1>0
  <2> QED BY <2>4, <2>5 DEF Subgroup
<1>6. \A p, q \in Subgroup : Add(p, q) \in Subgroup /\ Add(p, q) = Add(q, p)
  BY <1>3, GroupAssumption, AddCommutes
<1>7. \A p, q, r \in Subgroup : Add(Add(p, q), r) = Add(p, Add(q, r))
  BY <1>2, GroupAssumption
<1> QED BY <1>2, <1>3, <1>4, <1>5, <1>6, <1>7

(* One round of double and add, and the halves of a scalar. *)
LEMMA Halves ==
  \A k \in Nat : /\ k \div 2 \in Nat /\ (k # 0 => k \div 2 < k) /\ k % 2 \in {0, 1}
                 /\ k = 2 * (k \div 2) + (k % 2)
                 /\ (2 * k) \div 2 = k /\ (2 * k) % 2 = 0
                 /\ (2 * k + 1) \div 2 = k /\ (2 * k + 1) % 2 = 1
OBVIOUS

LEMMA MultRound ==
  ASSUME NEW r \in Point, NEW a \in Point, NEW k \in Nat
  PROVE  /\ Mult[<<r, a, 0>>] = r
         /\ (k # 0 /\ k % 2 = 0) => Mult[<<r, a, k>>] = Mult[<<r, Add(a, a), k \div 2>>]
         /\ (k # 0 /\ k % 2 = 1) => Mult[<<r, a, k>>] = Mult[<<Add(r, a), Add(a, a), k \div 2>>]
<1>1. Mult[<<r, a, 0>>] = r
  BY MultOf
<1>2. Mult[<<r, a, k>>] = IF k = 0 THEN r
                          ELSE Mult[<<IF k % 2 = 1 THEN Add(r, a) ELSE r, Add(a, a), k \div 2>>]
  BY MultOf
<1>3. (k # 0 /\ k % 2 = 0) => Mult[<<r, a, k>>] = Mult[<<r, Add(a, a), k \div 2>>]
  BY <1>2
<1>4. (k # 0 /\ k % 2 = 1) => Mult[<<r, a, k>>] = Mult[<<Add(r, a), Add(a, a), k \div 2>>]
  BY <1>2
<1> QED BY <1>1, <1>3, <1>4

(* A result that has begun is added to the multiple. *)
LEMMA MultFrom ==
  \A k \in Nat : \A r, a \in Subgroup :
    /\ Mult[<<r, a, k>>] \in Subgroup
    /\ Mult[<<r, a, k>>] = Add(r, Mult[<<Neutral, a, k>>])
<1> DEFINE Holds(k) == \A r, a \in Subgroup :
                         /\ Mult[<<r, a, k>>] \in Subgroup
                         /\ Mult[<<r, a, k>>] = Add(r, Mult[<<Neutral, a, k>>])
           E == {k \in Nat : Holds(k)}
<1>1. ASSUME NEW k \in Nat, \A j \in Nat : j < k => j \in E PROVE k \in E
  <2> SUFFICES ASSUME NEW r \in Subgroup, NEW a \in Subgroup
               PROVE  /\ Mult[<<r, a, k>>] \in Subgroup
                      /\ Mult[<<r, a, k>>] = Add(r, Mult[<<Neutral, a, k>>])
    OBVIOUS
  <2>0. /\ r \in Point /\ a \in Point /\ Neutral \in Point /\ Neutral \in Subgroup
        /\ Add(Neutral, r) = r /\ Add(r, Neutral) = r
        /\ Add(Neutral, a) = a /\ Add(a, a) \in Subgroup /\ Add(r, a) \in Subgroup
    BY SubgroupOf, AddNeutral
  <2>1. CASE k = 0
    <3>1. Mult[<<r, a, k>>] = r /\ Mult[<<Neutral, a, k>>] = Neutral
      BY <2>0, <2>1, MultRound
    <3> QED BY <2>0, <3>1
  <2>2. CASE k # 0
    <3>1. PICK h, b : h = k \div 2 /\ b = Add(a, a)
      OBVIOUS
    <3>2. h \in E /\ h \in Nat /\ b \in Subgroup /\ b \in Point
      BY <1>1, <2>0, <2>2, <3>1, Halves, SubgroupOf
    <3>3. Holds(h)
      BY <3>2
    <3>4. CASE k % 2 = 0
      <4>1. Mult[<<r, a, k>>] = Mult[<<r, b, h>>]
        BY <2>0, <2>2, <3>1, <3>4, MultRound
      <4>2. Mult[<<Neutral, a, k>>] = Mult[<<Neutral, b, h>>]
        BY <2>0, <2>2, <3>1, <3>4, MultRound
      <4> QED BY <3>2, <3>3, <4>1, <4>2
    <3>5. CASE k % 2 = 1
      <4>1. Mult[<<r, a, k>>] = Mult[<<Add(r, a), b, h>>]
        BY <2>0, <2>2, <3>1, <3>5, MultRound
      <4>2. Mult[<<Neutral, a, k>>] = Mult[<<a, b, h>>]
        <5>1. Mult[<<Neutral, a, k>>] = Mult[<<Add(Neutral, a), Add(a, a), k \div 2>>]
          BY <2>0, <2>2, <3>5, MultRound
        <5> QED BY <2>0, <3>1, <5>1
      <4>3. PICK f : f = Mult[<<Neutral, b, h>>]
        OBVIOUS
      <4>4. f \in Subgroup /\ Mult[<<a, b, h>>] = Add(a, f)
        BY <2>0, <3>2, <3>3, <4>3
      <4>5. Mult[<<Add(r, a), b, h>>] = Add(Add(r, a), f) /\ Mult[<<Add(r, a), b, h>>] \in Subgroup
        BY <2>0, <3>2, <3>3, <4>3
      <4>6. Add(Add(r, a), f) = Add(r, Add(a, f))
        BY <4>4, SubgroupOf
      <4> QED BY <4>1, <4>2, <4>4, <4>5, <4>6
    <3> QED BY <3>4, <3>5, Halves
  <2> QED BY <2>1, <2>2
<1>2. Nat \subseteq E
  <2> HIDE DEF E
  <2> QED BY <1>1, SetStrongInduction
<1> QED BY <1>2

(* Multiples by scalars, as what double and add computes of them. *)
LEMMA Multiples ==
  \A a \in Subgroup :
    /\ ScalarMult(a, 0) = Neutral
    /\ \A k \in Nat : /\ ScalarMult(a, k) \in Subgroup
                      /\ ScalarMult(a, 2 * k) = ScalarMult(Add(a, a), k)
                      /\ ScalarMult(a, 2 * k + 1) = Add(a, ScalarMult(Add(a, a), k))
<1> TAKE a \in Subgroup
<1>0. /\ a \in Point /\ Neutral \in Point /\ Neutral \in Subgroup
      /\ Add(Neutral, a) = a /\ Add(a, a) \in Subgroup
  BY SubgroupOf, AddNeutral
<1>1. ScalarMult(a, 0) = Neutral
  BY <1>0, MultRound, ScalarMultOf
<1>2. ASSUME NEW k \in Nat
      PROVE  /\ ScalarMult(a, k) \in Subgroup
             /\ ScalarMult(a, 2 * k) = ScalarMult(Add(a, a), k)
             /\ ScalarMult(a, 2 * k + 1) = Add(a, ScalarMult(Add(a, a), k))
  <2>0. PICK b, m, n : b = Add(a, a) /\ m = 2 * k /\ n = 2 * k + 1
    OBVIOUS
  <2>1. b \in Subgroup /\ b \in Point
    BY <1>0, <2>0, SubgroupOf
  <2>2. ScalarMult(a, k) \in Subgroup
    BY <1>0, MultFrom, ScalarMultOf
  <2>3. m \in Nat /\ n \in Nat /\ n # 0 /\ m \div 2 = k /\ m % 2 = 0 /\ n \div 2 = k /\ n % 2 = 1
    BY <2>0, Halves
  <2>4. Mult[<<Neutral, a, m>>] = Mult[<<Neutral, b, k>>]
    <3>1. CASE k = 0
      <4>1. m = 0
        BY <2>0, <3>1
      <4>2. Mult[<<Neutral, a, 0>>] = Neutral /\ Mult[<<Neutral, b, 0>>] = Neutral
        BY <1>0, <2>1, MultRound
      <4> QED BY <3>1, <4>1, <4>2
    <3>2. CASE k # 0
      <4>1. m # 0
        BY <2>0, <3>2
      <4>2. Mult[<<Neutral, a, m>>] = Mult[<<Neutral, Add(a, a), m \div 2>>]
        BY <1>0, <2>3, <4>1, MultRound
      <4> QED BY <2>0, <2>3, <4>2
    <3> QED BY <3>1, <3>2
  <2>5. Mult[<<Neutral, a, n>>] = Mult[<<a, b, k>>]
    <3>1. Mult[<<Neutral, a, n>>] = Mult[<<Add(Neutral, a), Add(a, a), n \div 2>>]
      BY <1>0, <2>3, MultRound
    <3> QED BY <1>0, <2>0, <2>3, <3>1
  <2>6. Mult[<<a, b, k>>] = Add(a, Mult[<<Neutral, b, k>>])
    BY <2>1, MultFrom
  <2>7. /\ Mult[<<Neutral, a, m>>] = ScalarMult(a, m) /\ Mult[<<Neutral, a, n>>] = ScalarMult(a, n)
        /\ Mult[<<Neutral, b, k>>] = ScalarMult(b, k)
    BY ScalarMultOf
  <2> QED BY <2>0, <2>2, <2>4, <2>5, <2>6, <2>7
<1> QED BY <1>1, <1>2

(* One multiple more. *)
LEMMA MultipleNext ==
  \A k \in Nat : \A a \in Subgroup : ScalarMult(a, k + 1) = Add(ScalarMult(a, k), a)
<1> DEFINE Holds(k) == \A a \in Subgroup : ScalarMult(a, k + 1) = Add(ScalarMult(a, k), a)
           E == {k \in Nat : Holds(k)}
<1>1. ASSUME NEW k \in Nat, \A j \in Nat : j < k => j \in E PROVE k \in E
  <2> SUFFICES ASSUME NEW a \in Subgroup
               PROVE  ScalarMult(a, k + 1) = Add(ScalarMult(a, k), a)
    OBVIOUS
  <2>1. PICK h, b : h = k \div 2 /\ b = Add(a, a)
    OBVIOUS
  <2>2. h \in Nat /\ b \in Subgroup /\ (k # 0 => h < k) /\ k % 2 \in {0, 1} /\ k = 2 * h + (k % 2)
    BY <2>1, Halves, SubgroupOf
  <2>3. PICK f : f = ScalarMult(b, h)
    OBVIOUS
  <2>4. f \in Subgroup /\ ScalarMult(a, 2 * h) = f /\ ScalarMult(a, 2 * h + 1) = Add(a, f)
    BY <2>1, <2>2, <2>3, Multiples
  <2>5. CASE k % 2 = 0
    <3>1. k = 2 * h
      BY <2>2, <2>5
    <3> QED BY <2>4, <3>1, SubgroupOf
  <2>6. CASE k % 2 = 1
    <3>1. k = 2 * h + 1 /\ k + 1 = 2 * (h + 1) /\ h + 1 \in Nat /\ k # 0
      BY <2>2, <2>6
    <3>2. h \in E
      BY <1>1, <2>2, <3>1
    <3>3. Holds(h)
      BY <3>2
    <3>4. ScalarMult(b, h + 1) = Add(f, b)
      BY <2>2, <2>3, <3>3
    <3>5. ScalarMult(a, k + 1) = ScalarMult(b, h + 1)
      <4>1. PICK n : n = h + 1
        OBVIOUS
      <4>2. n \in Nat /\ k + 1 = 2 * n
        BY <3>1, <4>1
      <4>3. ScalarMult(a, 2 * n) = ScalarMult(Add(a, a), n)
        BY <4>2, Multiples
      <4> QED BY <2>1, <4>1, <4>2, <4>3
    <3>6. ScalarMult(a, k) = Add(a, f)
      BY <2>4, <3>1
    <3>7. Add(f, b) = Add(Add(a, f), a)
      <4>1. Add(a, f) = Add(f, a) /\ Add(Add(f, a), a) = Add(f, Add(a, a))
        BY <2>4, SubgroupOf
      <4> QED BY <2>1, <4>1
    <3> QED BY <3>4, <3>5, <3>6, <3>7
  <2> QED BY <2>2, <2>5, <2>6
<1>2. Nat \subseteq E
  <2> HIDE DEF E
  <2> QED BY <1>1, SetStrongInduction
<1> QED BY <1>2

LEMMA MultipleSum ==
  ASSUME NEW a \in Subgroup, NEW m \in Nat
  PROVE  \A n \in Nat : ScalarMult(a, m + n) = Add(ScalarMult(a, m), ScalarMult(a, n))
<1> DEFINE E == {n \in Nat : ScalarMult(a, m + n) = Add(ScalarMult(a, m), ScalarMult(a, n))}
<1>0. \A k \in Nat : ScalarMult(a, k) \in Subgroup
  BY Multiples
<1>1. 0 \in E
  <2>1. m + 0 = m
    OBVIOUS
  <2>2. Add(ScalarMult(a, m), Neutral) = ScalarMult(a, m)
    BY <1>0, AddNeutral, SubgroupOf
  <2>3. ScalarMult(a, 0) = Neutral
    BY Multiples
  <2> QED BY <2>1, <2>2, <2>3
<1>2. ASSUME NEW n \in Nat, n \in E PROVE n + 1 \in E
  <2>1. PICK f, g : f = ScalarMult(a, m) /\ g = ScalarMult(a, n)
    OBVIOUS
  <2>2. f \in Subgroup /\ g \in Subgroup
    BY <1>0, <2>1
  <2>3. ScalarMult(a, n + 1) = Add(g, a)
    BY <2>1, MultipleNext
  <2>4. ScalarMult(a, m + (n + 1)) = Add(ScalarMult(a, m + n), a)
    <3>1. PICK k : k = m + n
      OBVIOUS
    <3>2. k \in Nat /\ m + (n + 1) = k + 1
      BY <3>1
    <3>3. ScalarMult(a, k + 1) = Add(ScalarMult(a, k), a)
      BY <3>2, MultipleNext
    <3> QED BY <3>1, <3>2, <3>3
  <2>5. ScalarMult(a, m + n) = Add(f, g)
    BY <1>2, <2>1
  <2>6. Add(Add(f, g), a) = Add(f, Add(g, a))
    BY <2>2, SubgroupOf
  <2> QED BY <2>1, <2>3, <2>4, <2>5, <2>6
<1>3. Nat \subseteq E
  <2> HIDE DEF E
  <2> QED BY <1>1, <1>2, SetInduction
<1> QED BY <1>3

LEMMA MultipleTimes ==
  ASSUME NEW a \in Subgroup, NEW m \in Nat
  PROVE  \A n \in Nat : ScalarMult(ScalarMult(a, m), n) = ScalarMult(a, m * n)
<1>0. PICK b : b = ScalarMult(a, m)
  OBVIOUS
<1>1. b \in Subgroup
  BY <1>0, Multiples
<1> DEFINE E == {n \in Nat : ScalarMult(b, n) = ScalarMult(a, m * n)}
<1>2. 0 \in E
  <2>1. m * 0 = 0
    OBVIOUS
  <2>2. ScalarMult(b, 0) = Neutral /\ ScalarMult(a, 0) = Neutral
    BY <1>1, Multiples
  <2> QED BY <2>1, <2>2
<1>3. ASSUME NEW n \in Nat, n \in E PROVE n + 1 \in E
  <2>1. ScalarMult(b, n + 1) = Add(ScalarMult(b, n), b)
    BY <1>1, MultipleNext
  <2>2. PICK k : k = m * n
    OBVIOUS
  <2>3. k \in Nat /\ m * (n + 1) = k + m
    BY <2>2
  <2>4. ScalarMult(a, k + m) = Add(ScalarMult(a, k), ScalarMult(a, m))
    BY <2>3, MultipleSum
  <2> QED BY <1>0, <1>3, <2>1, <2>2, <2>3, <2>4
<1>4. Nat \subseteq E
  <2> HIDE DEF E
  <2> QED BY <1>2, <1>3, SetInduction
<1> QED BY <1>0, <1>4

(* The multiples of the base point go by the scalar modulo L. *)
LEMMA MultipleModL ==
  /\ \A n \in Nat : ScalarMult(Base, n) = ScalarMult(Base, n % L)
  /\ \A m, n \in Nat : ScalarMult(Base, m) = ScalarMult(Base, n) => m % L = n % L
<1>0. L \in Nat \ {0} /\ Base \in Subgroup /\ ScalarMult(Base, L) = Neutral
  BY FieldSize, CurveAssumption, GroupAssumption, SubgroupOf
<1>1. \A d \in Nat : ScalarMult(Neutral, d) = Neutral
  <2> DEFINE E == {d \in Nat : ScalarMult(Neutral, d) = Neutral}
  <2>1. Neutral \in Subgroup /\ Add(Neutral, Neutral) = Neutral
    BY AddNeutral, SubgroupOf
  <2>2. 0 \in E
    BY <2>1, Multiples
  <2>3. \A d \in Nat : d \in E => d + 1 \in E
    BY <2>1, MultipleNext
  <2>4. Nat \subseteq E
    <3> HIDE DEF E
    <3> QED BY <2>2, <2>3, SetInduction
  <2> QED BY <2>4
<1>2. ASSUME NEW n \in Nat PROVE ScalarMult(Base, n) = ScalarMult(Base, n % L) /\ n % L \in 0..(L - 1)
  <2>1. PICK d, r, k : d = n \div L /\ r = n % L /\ k = L * d
    OBVIOUS
  <2>2. r \in 0..(L - 1) /\ d \in Int /\ n = L * d + r
    BY <1>0, <2>1, Remainder
  <2>3. d \in Nat /\ r \in Nat
    <3>1. ASSUME d < 0 PROVE FALSE
      <4>1. L * d <= L * (-1)
        BY <1>0, <2>2, <3>1
      <4> QED BY <1>0, <2>2, <4>1
    <3> QED BY <2>2, <3>1
  <2>4. k \in Nat /\ n = k + r
    BY <1>0, <2>1, <2>2, <2>3
  <2>5. ScalarMult(Base, k) = Neutral
    <3>1. ScalarMult(ScalarMult(Base, L), d) = ScalarMult(Base, L * d)
      BY <1>0, <2>3, MultipleTimes
    <3> QED BY <1>0, <1>1, <2>1, <2>3, <3>1
  <2>6. ScalarMult(Base, k + r) = Add(ScalarMult(Base, k), ScalarMult(Base, r))
    BY <1>0, <2>3, <2>4, MultipleSum
  <2>7. ScalarMult(Base, r) \in CurvePoint
    BY <1>0, <2>3, Multiples, SubgroupOf
  <2>8. Add(Neutral, ScalarMult(Base, r)) = ScalarMult(Base, r)
    BY <2>7, AddNeutral
  <2> QED BY <2>1, <2>2, <2>4, <2>5, <2>6, <2>8
<1>3. ASSUME NEW m \in Nat, NEW n \in Nat, ScalarMult(Base, m) = ScalarMult(Base, n)
      PROVE  m % L = n % L
  <2>1. PICK u, v : u = m % L /\ v = n % L
    OBVIOUS
  <2>2. u \in 0..(L - 1) /\ v \in 0..(L - 1) /\ ScalarMult(Base, u) = ScalarMult(Base, v)
    BY <1>2, <1>3, <2>1
  <2> QED BY <2>1, <2>2, GroupAssumption
<1> QED BY <1>2, <1>3

(* What is added to one multiple of the base point is determined by the sum. *)
LEMMA AddCancel ==
  ASSUME NEW p \in Subgroup, NEW q \in CurvePoint, NEW r \in CurvePoint, Add(p, q) = Add(p, r)
  PROVE  q = r
<1>0. L \in Nat \ {0} /\ Base \in Subgroup /\ ScalarMult(Base, L) = Neutral
  BY FieldSize, CurveAssumption, GroupAssumption, SubgroupOf
<1>1. PICK n \in 0..(L - 1) : p = ScalarMult(Base, n)
  BY DEF Subgroup
<1>2. PICK k : k = L - n
  OBVIOUS
<1>3. k \in Nat /\ n \in Nat /\ k + n = L
  BY <1>0, <1>2
<1>4. PICK w : w = ScalarMult(Base, k)
  OBVIOUS
<1>5. w \in Subgroup
  BY <1>0, <1>3, <1>4, Multiples
<1>6. Add(w, p) = Neutral
  <2>1. ScalarMult(Base, k + n) = Add(ScalarMult(Base, k), ScalarMult(Base, n))
    BY <1>0, <1>3, MultipleSum
  <2> QED BY <1>0, <1>1, <1>3, <1>4, <2>1
<1>7. ASSUME NEW c \in CurvePoint PROVE Add(w, Add(p, c)) = c
  <2>1. Add(Add(w, p), c) = Add(w, Add(p, c))
    BY <1>5, GroupAssumption
  <2> QED BY <1>6, <2>1, AddNeutral
<1> QED BY <1>7

(* A multiple of the base point is multiplied differently by each scalar      *)
(* below L, unless it is the neutral point: L is a prime.                     *)
LEMMA MultipleUnique ==
  ASSUME NEW a \in Nat, a % L # 0, NEW c \in 0..(L - 1), NEW d \in 0..(L - 1),
         ScalarMult(ScalarMult(Base, a), c) = ScalarMult(ScalarMult(Base, a), d)
  PROVE  c = d
<1>0. L \in Nat \ {0} /\ Base \in Subgroup
  BY FieldSize, CurveAssumption, GroupAssumption, SubgroupOf
<1>1. PICK p, b : p = ScalarMult(Base, a) /\ b = a % L
  OBVIOUS
<1>2. p \in Subgroup /\ b \in 1..(L - 1) /\ b \in Nat /\ p = ScalarMult(Base, b)
  <2>1. b \in 0..(L - 1)
    BY <1>0, <1>1, Remainder
  <2>2. b # 0
    BY <1>1
  <2>3. p = ScalarMult(Base, b) /\ p \in Subgroup
    BY <1>0, <1>1, MultipleModL, Multiples
  <2> QED BY <1>0, <2>1, <2>2, <2>3
<1>3. ASSUME NEW m \in 0..(L - 1), NEW n \in 0..(L - 1), m < n,
             ScalarMult(p, m) = ScalarMult(p, n)
      PROVE  FALSE
  <2>1. PICK e : e = n - m
    OBVIOUS
  <2>2. e \in 1..(L - 1) /\ e \in Nat /\ m \in Nat /\ n = m + e
    BY <1>0, <1>3, <2>1
  <2>3. PICK u, v : u = ScalarMult(p, m) /\ v = ScalarMult(p, e)
    OBVIOUS
  <2>4. u \in Subgroup /\ v \in Subgroup
    BY <1>2, <2>2, <2>3, Multiples
  <2>5. ScalarMult(p, m + e) = Add(u, v)
    BY <1>2, <2>2, <2>3, MultipleSum
  <2>6. Add(u, v) = Add(u, Neutral)
    <3>1. Add(u, Neutral) = u
      BY <2>4, SubgroupOf, AddNeutral
    <3> QED BY <1>3, <2>2, <2>3, <2>5, <3>1
  <2>7. v = Neutral
    BY <2>4, <2>6, AddCancel, SubgroupOf
  <2>8. PICK k : k = b * e
    OBVIOUS
  <2>9. k \in Nat
    BY <1>2, <2>2, <2>8
  <2>10. v = ScalarMult(Base, k)
    <3>1. ScalarMult(ScalarMult(Base, b), e) = ScalarMult(Base, b * e)
      BY <1>0, <1>2, <2>2, MultipleTimes
    <3> QED BY <1>2, <2>3, <2>8, <3>1
  <2>11. k % L = 0
    <3>1. ScalarMult(Base, 0) = Neutral
      BY <1>0, Multiples
    <3>2. 0 \in Nat /\ 0 \in 0..(L - 1)
      BY <1>0
    <3>3. k % L = 0 % L
      BY <2>7, <2>9, <2>10, <3>1, <3>2, MultipleModL
    <3>4. 0 % L = 0
      BY <1>0, <3>2, RemainderSmall
    <3> QED BY <3>3, <3>4
  <2> QED BY <1>2, <2>2, <2>8, <2>11, GroupAssumption
<1>4. c \in Int /\ d \in Int /\ (c < d \/ d < c \/ c = d)
  BY <1>0
<1> QED BY <1>1, <1>3, <1>4

-----------------------------------------------------------------------------
(* Public keys and their bytes. *)

(* A power of two is twice the one before. *)
LEMMA TwoNext ==
  ASSUME NEW n \in Nat
  PROVE  2^(n + 1) = 2 * 2^n
<1>1. PICK m : m = n + 1
  OBVIOUS
<1>2. PICK S, T, A, B : /\ S = 1..n /\ T = 1..m /\ A = SUBSET S
                        /\ B = {s \in SUBSET T : m \in s}
  OBVIOUS
<1>3. IsFiniteSet(S) /\ Cardinality(S) = n /\ IsFiniteSet(T) /\ Cardinality(T) = m /\ m \in Nat
  BY <1>1, <1>2, FS_Interval
<1>4. /\ IsFiniteSet(A) /\ Cardinality(A) = 2^n
      /\ IsFiniteSet(SUBSET T) /\ Cardinality(SUBSET T) = 2^m
  BY <1>2, <1>3, FS_SUBSET
<1>5. IsFiniteSet(B) /\ Cardinality(B) = Cardinality(A)
  <2>1. PICK h : h = [s \in A |-> s \cup {m}]
    OBVIOUS
  <2>2. m \notin S /\ T = S \cup {m}
    BY <1>1, <1>2
  <2>3. h \in [A -> B]
    BY <1>2, <2>1, <2>2
  <2>4. \A x, y \in A : h[x] = h[y] => x = y
    <3>1. \A x \in A : x = h[x] \ {m}
      BY <1>2, <2>1, <2>2
    <3> QED BY <3>1
  <2>5. ASSUME NEW z \in B PROVE \E x \in A : h[x] = z
    <3>1. z \ {m} \in A /\ h[z \ {m}] = z
      BY <1>2, <2>1, <2>2
    <3> QED BY <3>1
  <2> QED BY <1>4, <2>3, <2>4, <2>5, OneToOne
<1>6. SUBSET T = A \cup B /\ A \cap B = {}
  <2>1. m \notin S /\ T = S \cup {m}
    BY <1>1, <1>2
  <2> QED BY <1>2, <2>1
<1>7. Cardinality(A \cup B) = Cardinality(A) + Cardinality(B) - Cardinality(A \cap B)
  BY <1>4, <1>5, FS_Union
<1>8. Cardinality(A \cap B) = 0 /\ Cardinality(A) \in Nat
  BY <1>4, <1>6, FS_EmptySet, FS_CardinalityType
<1>9. PICK c, d : c = 2^n /\ d = 2^m
  OBVIOUS
<1>10. d = c + c - 0 /\ c \in Nat
  BY <1>4, <1>5, <1>6, <1>7, <1>8, <1>9
<1>11. d = 2 * c
  BY <1>10
<1> QED BY <1>1, <1>9, <1>11

LEMMA ByteMore ==
  ASSUME NEW n \in Nat
  PROVE  2^(n + 8) = 256 * 2^n
<1>1. \A k \in Nat : 2^k \in Nat /\ 2^(k + 1) = 2 * 2^k
  BY TwoTo, TwoNext
<1>2. PICK n1, n2, n3, n4, n5, n6, n7, n8 :
        /\ n1 = n + 1 /\ n2 = n1 + 1 /\ n3 = n2 + 1 /\ n4 = n3 + 1
        /\ n5 = n4 + 1 /\ n6 = n5 + 1 /\ n7 = n6 + 1 /\ n8 = n7 + 1
  OBVIOUS
<1>3. /\ n1 \in Nat /\ n2 \in Nat /\ n3 \in Nat /\ n4 \in Nat
      /\ n5 \in Nat /\ n6 \in Nat /\ n7 \in Nat /\ n8 = n + 8
  BY <1>2
<1>4. /\ 2^n1 = 2 * 2^n /\ 2^n2 = 2 * 2^n1 /\ 2^n3 = 2 * 2^n2 /\ 2^n4 = 2 * 2^n3
      /\ 2^n5 = 2 * 2^n4 /\ 2^n6 = 2 * 2^n5 /\ 2^n7 = 2 * 2^n6 /\ 2^n8 = 2 * 2^n7
  BY <1>1, <1>2, <1>3
<1>5. PICK p, q : p = 2^n /\ q = 2^n8
  OBVIOUS
<1>6. p \in Nat
  BY <1>1, <1>5
<1>7. q = 2 * (2 * (2 * (2 * (2 * (2 * (2 * (2 * p)))))))
  BY <1>4, <1>5
<1>8. q = 256 * p
  BY <1>6, <1>7
<1> QED BY <1>3, <1>5, <1>8

(* As many bytes as its bits fill. *)
LEMMA DigitsFit ==
  \A k \in Nat : \A n \in Nat : n < 2^(8 * k) => Len(Digits(n, 256)) <= k
<1>0. 256 \in Bases
  BY DEF Bases
<1> DEFINE Holds(k) == \A n \in Nat : n < 2^(8 * k) => Len(Digits(n, 256)) <= k
           E == {k \in Nat : Holds(k)}
<1>1. 0 \in E
  <2>1. 8 * 0 = 0 /\ 2^0 = 1
    OBVIOUS
  <2>2. ASSUME NEW n \in Nat, n < 2^(8 * 0) PROVE Len(Digits(n, 256)) <= 0
    <3>1. n = 0
      BY <2>1, <2>2
    <3>2. Digits(n, 256) = <<>>
      BY <1>0, <3>1, DigitsOf
    <3> QED BY <3>2
  <2> QED BY <2>2
<1>2. ASSUME NEW k \in Nat, k \in E PROVE k + 1 \in E
  <2>1. PICK b, c : b = 2^(8 * k) /\ c = 2^(8 * (k + 1))
    OBVIOUS
  <2>2. b \in Nat /\ c = 256 * b
    <3>1. 8 * k \in Nat /\ 8 * (k + 1) = 8 * k + 8
      OBVIOUS
    <3> QED BY <2>1, <3>1, TwoTo, ByteMore
  <2>3. ASSUME NEW n \in Nat, n < c PROVE Len(Digits(n, 256)) <= k + 1
    <3>1. CASE n = 0
      <4>1. Digits(n, 256) = <<>>
        BY <1>0, <3>1, DigitsOf
      <4> QED BY <4>1
    <3>2. CASE n # 0
      <4>1. PICK h, d : h = n \div 256 /\ d = Digits(h, 256)
        OBVIOUS
      <4>2. h \in Nat /\ h < b
        BY <2>2, <2>3, <4>1
      <4>3. d \in Seq(Digit(256)) /\ Len(d) <= k
        <5>1. d \in Seq(Digit(256))
          BY <1>0, <4>1, <4>2, DigitsOf
        <5>2. Holds(k)
          BY <1>2
        <5> QED BY <2>1, <4>1, <4>2, <5>1, <5>2
      <4>4. Digits(n, 256) = Append(d, n % 256)
        BY <1>0, <3>2, <4>1, DigitsOf
      <4>5. Len(Append(d, n % 256)) = Len(d) + 1 /\ Len(d) \in Nat
        BY <4>3
      <4> QED BY <4>3, <4>4, <4>5
    <3> QED BY <3>1, <3>2
  <2>4. Holds(k + 1)
    BY <2>1, <2>3
  <2> QED BY <2>4
<1>3. Nat \subseteq E
  <2> HIDE DEF E
  <2> QED BY <1>1, <1>2, SetInduction
<1> QED BY <1>3

(* The bytes of an encoded point are KeyLen and mean it. *)
LEMMA BytesOf ==
  ASSUME NEW n \in Nat, n < 2^KeyBits
  PROVE  /\ Bytes(n) \in Seq(Digit(256)) /\ Len(Bytes(n)) = KeyLen
         /\ Value(Bytes(n), 256) = n
<1>0. 256 \in Bases /\ 0 \in Digit(256) /\ Digit(256) \subseteq Nat /\ KeyLen \in Nat
  BY KeyLenAssumption DEF Bases, Digit
<1>1. PICK d : d = Digits(n, 256)
  OBVIOUS
<1>2. d \in Seq(Digit(256)) /\ Len(d) \in Nat
  BY <1>0, <1>1, DigitsOf
<1>3. Len(d) <= KeyLen
  BY <1>0, <1>1, DigitsFit, KeySizeAssumption
<1>4. PICK j : j = KeyLen - Len(d)
  OBVIOUS
<1>5. j \in Nat /\ j + Len(d) = KeyLen
  BY <1>0, <1>2, <1>3, <1>4
<1>6. Bytes(n) = Zeros(j) \o d
  BY <1>1, <1>4 DEF Bytes
<1>7. Zeros(j) \o d \in Seq(Digit(256)) /\ Len(Zeros(j) \o d) = KeyLen
  BY <1>0, <1>2, <1>5, ZerosThen
<1>8. Value(Zeros(j) \o d, 256) = Value(d, 256)
  <2>1. d \in Seq(Nat)
    BY <1>0, <1>2, SeqMonotonic
  <2> QED BY <1>0, <1>5, <2>1, ValueZeros
<1>9. Value(d, 256) = n
  BY <1>0, <1>1, DigitsMean
<1> QED BY <1>6, <1>7, <1>8, <1>9

(* A point is encoded in KeyBits bits. *)
LEMMA EncodedSize ==
  ASSUME NEW p \in CurvePoint
  PROVE  EncodePoint(p) \in Nat /\ EncodePoint(p) < 2^KeyBits
<1>1. PICK k, half, all : k = KeyBits - 1 /\ half = 2^k /\ all = 2^KeyBits
  OBVIOUS
<1>2. k \in Nat /\ k + 1 = KeyBits
  BY <1>1, CurveAssumption
<1>3. half \in Nat /\ half >= 1 /\ all = 2 * half
  BY <1>1, <1>2, TwoTo, TwoNext
<1>4. p[1] \in Int /\ p[2] \in Int
  BY CurveType, FieldSize
<1>5. p[2] % half \in 0..(half - 1) /\ p[1] % 2 \in {0, 1}
  BY <1>3, <1>4
<1>6. EncodePoint(p) = (p[2] % half) + (p[1] % 2) * half
  BY <1>1 DEF EncodePoint
<1>7. (p[1] % 2) * half \in {0, half}
  BY <1>3, <1>5
<1> QED BY <1>1, <1>3, <1>5, <1>6, <1>7

(* The secret scalar and the public key of a seed. *)
LEMMA SeedOf ==
  ASSUME NEW seed \in Seed
  PROVE  /\ Secret(seed) \in Nat /\ Secret(seed) % L # 0
         /\ ScalarMult(Base, Secret(seed)) \in Subgroup
         /\ DecodePoint(PublicFromSeed(seed)) = ScalarMult(Base, Secret(seed))
         /\ PublicFromSeed(seed) \in Nat
         /\ Bytes(PublicFromSeed(seed)) \in Seq(Digit(256))
         /\ Len(Bytes(PublicFromSeed(seed))) = KeyLen
         /\ Value(Bytes(PublicFromSeed(seed)), 256) = PublicFromSeed(seed)
<1>1. Secret(seed) \in Nat
  BY SecretType
<1>2. Secret(seed) % L # 0
  BY SecretAssumption
<1>3. PICK p : p = ScalarMult(Base, Secret(seed))
  OBVIOUS
<1>4. p \in Subgroup /\ p \in CurvePoint
  BY <1>1, <1>3, SubgroupOf, Multiples
<1>5. PublicFromSeed(seed) = EncodePoint(p)
  BY <1>3 DEF PublicFromSeed
<1> QED BY <1>1, <1>2, <1>3, <1>4, <1>5, DecodeEncode, EncodedSize, BytesOf

-----------------------------------------------------------------------------
(* Signatures. *)

LEMMA PointIsSome == ASSUME NEW p \in Point PROVE p # NoPoint
BY DEF Point, NoPoint

(* What verify computes of a signature of two halves, the first of which is   *)
(* an encoded multiple of the base point.                                     *)
LEMMA VerifyOf ==
  ASSUME NEW m, NEW p \in Subgroup, NEW s, NEW public
  PROVE  VerifyRaw(m, <<EncodePoint(p), s>>, public)
           <=> /\ DecodePoint(public) # NoPoint /\ s < L
               /\ ScalarMult(Base, s)
                    = Add(p, ScalarMult(DecodePoint(public),
                                        Challenge(EncodePoint(p), public, m)))
<1>1. PICK R : R = EncodePoint(p)
  OBVIOUS
<1>2. DecodePoint(R) = p
  BY <1>1, DecodeEncode, SubgroupOf
<1>3. p # NoPoint
  BY SubgroupOf, PointIsSome
<1>4. Len(<<R, s>>) = 2 /\ <<R, s>>[1] = R /\ <<R, s>>[2] = s
  OBVIOUS
<1> QED BY <1>1, <1>2, <1>3, <1>4 DEF VerifyRaw

(* A signature of one half is refused. *)
LEMMA HalfRefused == ASSUME NEW m, NEW R, NEW public PROVE ~VerifyRaw(m, <<R>>, public)
<1>1. Len(<<R>>) = 1
  OBVIOUS
<1> QED BY <1>1 DEF VerifyRaw

(* What signing a message makes. *)
LEMMA SignedOf ==
  ASSUME NEW m \in Message, NEW seed \in Seed
  PROVE  \E p \in Subgroup, s \in 0..(L - 1) :
           /\ SignRaw(m, seed, PublicFromSeed(seed)) = <<EncodePoint(p), s>>
           /\ Challenge(EncodePoint(p), PublicFromSeed(seed), m) \in 0..(L - 1)
           /\ ScalarMult(Base, s)
                = Add(p, ScalarMult(ScalarMult(Base, Secret(seed)),
                                    Challenge(EncodePoint(p), PublicFromSeed(seed), m)))
<1>0. L \in Nat \ {0} /\ Base \in Subgroup
  BY FieldSize, CurveAssumption, GroupAssumption, SubgroupOf
<1>1. PICK r, a, p, R, public, c, x, s :
        /\ r = Hash(<<Prefix(seed), m>>) % L /\ a = Secret(seed)
        /\ p = ScalarMult(Base, r) /\ R = EncodePoint(p) /\ public = PublicFromSeed(seed)
        /\ c = Challenge(R, public, m) /\ x = r + c * a /\ s = x % L
  OBVIOUS
<1>2. r \in 0..(L - 1) /\ r \in Nat /\ a \in Nat
  <2>1. Hash(<<Prefix(seed), m>>) \in Nat
    BY DigestAssumption
  <2>2. r \in 0..(L - 1)
    BY <1>0, <1>1, <2>1, Remainder
  <2> QED BY <1>0, <1>1, <2>2, SeedOf
<1>3. p \in Subgroup
  BY <1>0, <1>1, <1>2, Multiples
<1>4. c \in 0..(L - 1) /\ c \in Nat
  <2>1. PICK b : b = Bytes(public)
    OBVIOUS
  <2>2. b \in Seq(0..255) /\ Len(b) = KeyLen /\ Value(b, 256) = public
    BY <1>1, <2>1, SeedOf DEF Digit
  <2>3. b \in [1..KeyLen -> 0..255]
    BY <2>2, LenProperties
  <2>4. PICK h : h = Hash(<<R, public, m>>)
    OBVIOUS
  <2>5. c = h % L
    BY <1>1, <2>4 DEF Challenge
  <2>6. h \in Int
    <3>1. Hash(<<R, Value(b, 256), m>>) \in Nat
      BY <1>1, <1>3, <2>3, DigestAssumption
    <3> QED BY <2>2, <2>4, <3>1
  <2>7. c \in 0..(L - 1)
    BY <1>0, <2>5, <2>6, Remainder
  <2> QED BY <1>0, <2>7
<1>5. PICK k : k = c * a
  OBVIOUS
<1>6. k \in Nat /\ x \in Nat /\ x = r + k /\ k = a * c
  BY <1>1, <1>2, <1>4, <1>5
<1>7. s \in 0..(L - 1) /\ ScalarMult(Base, s) = ScalarMult(Base, x)
  <2>1. s = x % L /\ x \in Int
    BY <1>1, <1>6
  <2>2. s \in 0..(L - 1)
    BY <1>0, <2>1, Remainder
  <2>3. ScalarMult(Base, x) = ScalarMult(Base, x % L)
    BY <1>6, MultipleModL
  <2> QED BY <2>1, <2>2, <2>3
<1>8. ScalarMult(Base, r + k) = Add(ScalarMult(Base, r), ScalarMult(Base, k))
  BY <1>0, <1>2, <1>6, MultipleSum
<1>9. ScalarMult(ScalarMult(Base, a), c) = ScalarMult(Base, a * c)
  BY <1>0, <1>2, <1>4, MultipleTimes
<1>10. ScalarMult(Base, s) = Add(p, ScalarMult(ScalarMult(Base, a), c))
  BY <1>1, <1>6, <1>7, <1>8, <1>9
<1>11. SignRaw(m, seed, public) = <<R, s>>
  BY <1>1 DEF SignRaw
<1> QED BY <1>1, <1>3, <1>4, <1>7, <1>10, <1>11

(* A key that is decoded, and the challenge made with it. *)
LEMMA KeyOf ==
  ASSUME NEW did, did.multibase \in Texts, DecodeDid(did) # NoKey, NEW m \in Message, NEW p \in Subgroup
  PROVE  /\ Value(DecodeDid(did), 256) \in Nat
         /\ Challenge(EncodePoint(p), Value(DecodeDid(did), 256), m) \in 0..(L - 1)
<1>1. PICK b : b = DecodeDid(did)
  OBVIOUS
<1>2. b \in Seq(0..255) /\ Len(b) = KeyLen
  BY <1>1, OneText DEF Digit
<1>3. b \in [1..KeyLen -> 0..255] /\ b \in Seq(Nat)
  <2>1. 0..255 \subseteq Nat
    OBVIOUS
  <2>2. b \in [1..KeyLen -> 0..255]
    BY <1>2, LenProperties
  <2> QED BY <1>2, <2>1, <2>2, SeqMonotonic
<1>4. Hash(<<EncodePoint(p), Value(b, 256), m>>) \in Nat
  BY <1>3, DigestAssumption
<1>5. Value(b, 256) \in Nat
  <2>1. 256 \in Bases
    BY DEF Bases
  <2> QED BY <1>3, <2>1, ValueAppend
<1>6. L \in Nat \ {0}
  BY FieldSize, CurveAssumption, GroupAssumption
<1>7. PICK h, c : h = Hash(<<EncodePoint(p), Value(b, 256), m>>) /\ c = h % L
  OBVIOUS
<1>8. c \in 0..(L - 1)
  <2>1. h \in Int
    BY <1>4, <1>7
  <2> QED BY <1>6, <1>7, <2>1, Remainder
<1>9. Challenge(EncodePoint(p), Value(b, 256), m) = c
  BY <1>7 DEF Challenge
<1> QED BY <1>1, <1>5, <1>8, <1>9

(* A number decodes to no point or to one of the curve: its multiples are     *)
(* points of the curve.                                                       *)
LEMMA DecodedMultiples ==
  ASSUME NEW n \in Nat, DecodePoint(n) # NoPoint, NEW c \in Nat
  PROVE  ScalarMult(DecodePoint(n), c) \in CurvePoint
<1>0. Q \in Nat \ {0} /\ D \in Int /\ KeyBits - 1 \in Nat
  BY FieldSize, CurveAssumption
<1>1. PICK half, y, even, x :
        /\ half = 2^(KeyBits - 1) /\ y = n % half /\ even = RecoverX(y)
        /\ x = IF even % 2 # n \div half THEN Q - even ELSE even
  OBVIOUS
<1>2. half \in Nat \ {0}
  BY <1>0, <1>1, TwoTo
<1>3. y \in Int /\ x \in Int
  <2>1. y \in Int
    BY <1>1, <1>2
  <2>2. even \in Int
    BY <1>1, <2>1, RecoverXType
  <2> QED BY <1>0, <1>1, <2>1, <2>2
<1>4. DecodePoint(n) = IF OnCurve(<<x, y>>) THEN <<x, y>> ELSE NoPoint
  BY <1>1 DEF DecodePoint
<1>5. DecodePoint(n) = <<x, y>> /\ OnCurve(<<x, y>>)
  BY <1>4
<1>6. PICK u, v : u = x % Q /\ v = y % Q
  OBVIOUS
<1>7. u \in 0..(Q - 1) /\ v \in 0..(Q - 1) /\ u \in Int /\ v \in Int /\ Same(x, u) /\ Same(y, v)
  BY <1>0, <1>3, <1>6, Remainder, SameRemainder
<1>8. (x * x) % Q = (u * u) % Q /\ (y * y) % Q = (v * v) % Q
  <2>1. Same(x * x, u * u) /\ Same(y * y, v * v)
    BY <1>3, <1>7, SameProduct
  <2> QED BY <2>1 DEF Same
<1>9. OnCurve(<<u, v>>)
  BY <1>5, <1>8 DEF OnCurve
<1>10. <<u, v>> \in CurvePoint
  BY <1>7, <1>9 DEF CurvePoint
<1>11. <<x, y>> \in Point /\ Residue(<<x, y>>) = <<u, v>>
  BY <1>3, <1>6 DEF Point, Residue
<1> QED BY <1>5, <1>10, <1>11, CurveMult

-----------------------------------------------------------------------------
(* A letter is one a key has signed, with at most the part altered that is    *)
(* said to be, and the verdict is that of verify on it.                       *)
OwnLetter(m) ==
  LetterOf(EncodeDid(Bytes(peer.public)), m, SignRaw(m, peer.seed, peer.public))

VerdictOf(l) ==
  LET public == DecodeDid(l.did) IN
  IF public = NoKey THEN "refused"
  ELSE IF VerifyRaw(l.message, l.signature, Value(public, 256)) THEN "accepted" ELSE "refused"

AsSigned(m) == altered = Nothing /\ letter = OwnLetter(m)
DidAltered(m) ==
  /\ altered = "did" /\ letter = LetterOf(letter.did, m, OwnLetter(m).signature)
  /\ letter.did.multibase \in Texts
MessageAltered(m) ==
  /\ altered = "message" /\ letter.message \in Message \ {m}
  /\ letter = LetterOf(OwnLetter(m).did, letter.message, OwnLetter(m).signature)
ScalarAltered(m) ==
  /\ altered = "scalar"
  /\ LET own == OwnLetter(m).signature IN
     \/ letter = LetterOf(OwnLetter(m).did, m, <<own[1]>>)
     \/ \E x \in Nat \ {own[2]} : letter = LetterOf(OwnLetter(m).did, m, <<own[1], x>>)

Signed ==
  /\ peer # Unset => \E seed \in Seed : peer = [seed |-> seed, public |-> PublicFromSeed(seed)]
  /\ letter = Unset => altered = Nothing /\ verdict = NotYet
  /\ letter # Unset => /\ peer # Unset
                       /\ \E m \in Message : \/ AsSigned(m) \/ DidAltered(m)
                                             \/ MessageAltered(m) \/ ScalarAltered(m)
  /\ verdict # NotYet => verdict = VerdictOf(letter)

(* An own letter is accepted, under either form of the Node ID. *)
LEMMA OwnAccepted ==
  ASSUME NEW seed \in Seed, peer = [seed |-> seed, public |-> PublicFromSeed(seed)],
         NEW m \in Message, NEW l, l.message = m, l.signature = OwnLetter(m).signature,
         DecodeDid(l.did) # NoKey, Value(DecodeDid(l.did), 256) = peer.public
  PROVE  VerdictOf(l) = "accepted"
<1>1. PICK public : public = PublicFromSeed(seed)
  OBVIOUS
<1>2. PICK p \in Subgroup, s \in 0..(L - 1) :
        /\ SignRaw(m, seed, public) = <<EncodePoint(p), s>>
        /\ ScalarMult(Base, s) = Add(p, ScalarMult(ScalarMult(Base, Secret(seed)),
                                                   Challenge(EncodePoint(p), public, m)))
  BY <1>1, SignedOf
<1>3. l.signature = <<EncodePoint(p), s>> /\ peer.public = public
  BY <1>1, <1>2 DEF OwnLetter, LetterOf
<1>4. DecodePoint(public) = ScalarMult(Base, Secret(seed)) /\ DecodePoint(public) # NoPoint
  <2>1. PICK q : q = DecodePoint(public)
    OBVIOUS
  <2>2. q = ScalarMult(Base, Secret(seed))
    BY <1>1, <2>1, SeedOf
  <2>3. q \in Point
    BY <1>1, <2>2, SeedOf, SubgroupOf
  <2>4. q # NoPoint
    BY <2>3, PointIsSome
  <2> QED BY <2>1, <2>2, <2>4
<1>5. s < L
  BY CurveAssumption
<1>6. VerifyRaw(m, <<EncodePoint(p), s>>, public)
  BY <1>2, <1>4, <1>5, VerifyOf
<1> QED BY <1>3, <1>6 DEF VerdictOf

(* The own Node ID decodes to the own key. *)
LEMMA OwnKey ==
  ASSUME NEW seed \in Seed, NEW did,
         \/ did = EncodeDid(Bytes(PublicFromSeed(seed)))
         \/ did = NodeId(Bytes(PublicFromSeed(seed)))
  PROVE  DecodeDid(did) # NoKey /\ Value(DecodeDid(did), 256) = PublicFromSeed(seed)
<1>1. PICK b : b = Bytes(PublicFromSeed(seed))
  OBVIOUS
<1>2. b \in Seq(Digit(256)) /\ Len(b) = KeyLen /\ Value(b, 256) = PublicFromSeed(seed)
  BY <1>1, SeedOf
<1>3. DecodeDid(did) = b
  BY <1>1, <1>2, OwnText
<1>4. b # NoKey
  BY <1>2, KeyLenAssumption DEF NoKey
<1> QED BY <1>2, <1>3, <1>4

LEMMA SignedGenuine == Signed => GenuineAccepted
<1> SUFFICES ASSUME Signed, verdict # NotYet,
                    altered = Nothing \/ letter.did = NodeId(Bytes(peer.public))
             PROVE  verdict = "accepted"
  BY DEF GenuineAccepted
<1>1. letter # Unset /\ peer # Unset /\ verdict = VerdictOf(letter)
  BY DEF Signed
<1>2. PICK seed \in Seed : peer = [seed |-> seed, public |-> PublicFromSeed(seed)]
  BY <1>1 DEF Signed
<1>3. peer.public = PublicFromSeed(seed)
  BY <1>2
<1>4. PICK m \in Message : AsSigned(m) \/ DidAltered(m) \/ MessageAltered(m) \/ ScalarAltered(m)
  BY <1>1 DEF Signed
<1>5. PICK e : e = EncodeDid(Bytes(peer.public))
  OBVIOUS
<1>6. e # NodeId(Bytes(peer.public))
  <2>1. e.scheme = TRUE /\ NodeId(Bytes(peer.public)).scheme = FALSE
    BY <1>5 DEF NodeId, EncodeDid
  <2> QED BY <2>1
<1>7. OwnLetter(m).did = e
  BY <1>5 DEF OwnLetter, LetterOf
<1>8. letter.message = m /\ letter.signature = OwnLetter(m).signature
      /\ (letter.did = e \/ letter.did = NodeId(Bytes(peer.public)))
  <2>1. CASE AsSigned(m)
    BY <1>7, <2>1 DEF AsSigned, OwnLetter, LetterOf
  <2>2. CASE DidAltered(m)
    BY <2>2 DEF DidAltered, LetterOf, Nothing
  <2>3. CASE MessageAltered(m)
    <3>1. altered # Nothing /\ letter.did = e
      BY <1>7, <2>3 DEF MessageAltered, LetterOf, Nothing
    <3> QED BY <1>6, <3>1
  <2>4. CASE ScalarAltered(m)
    <3>1. altered # Nothing /\ letter.did = e
      BY <1>7, <2>4 DEF ScalarAltered, LetterOf, Nothing
    <3> QED BY <1>6, <3>1
  <2> QED BY <1>4, <2>1, <2>2, <2>3, <2>4
<1>9. DecodeDid(letter.did) # NoKey /\ Value(DecodeDid(letter.did), 256) = peer.public
  BY <1>3, <1>5, <1>8, OwnKey
<1> QED BY <1>1, <1>2, <1>8, <1>9, OwnAccepted

(* What an accepted letter satisfies, whatever has been altered of it. *)
LEMMA SignedRefused == Signed => AlteredRefused
<1> SUFFICES ASSUME Signed, verdict = "accepted" PROVE AlteredRefused
  BY DEF AlteredRefused
<1>1. letter # Unset /\ peer # Unset /\ VerdictOf(letter) = "accepted"
  BY DEF Signed, NotYet
<1>2. PICK seed \in Seed : peer = [seed |-> seed, public |-> PublicFromSeed(seed)]
  BY <1>1 DEF Signed
<1>3. PICK m \in Message : AsSigned(m) \/ DidAltered(m) \/ MessageAltered(m) \/ ScalarAltered(m)
  BY <1>1 DEF Signed
<1>4. PICK own, mine, a, e : /\ own = PublicFromSeed(seed) /\ a = Secret(seed)
                            /\ mine = ScalarMult(Base, a) /\ e = EncodeDid(Bytes(own))
  OBVIOUS
<1>5. /\ a \in Nat /\ a % L # 0 /\ mine \in Subgroup /\ mine \in CurvePoint
      /\ DecodePoint(own) = mine /\ peer.public = own /\ peer.seed = seed
  BY <1>2, <1>4, SeedOf, SubgroupOf
<1>6. PICK p \in Subgroup, s \in 0..(L - 1) :
        /\ SignRaw(m, seed, own) = <<EncodePoint(p), s>>
        /\ Challenge(EncodePoint(p), own, m) \in 0..(L - 1)
        /\ ScalarMult(Base, s) = Add(p, ScalarMult(mine, Challenge(EncodePoint(p), own, m)))
  BY <1>4, SignedOf
<1>7. PICK R, c : R = EncodePoint(p) /\ c = Challenge(R, own, m)
  OBVIOUS
<1>8. c \in 0..(L - 1) /\ c \in Nat /\ ScalarMult(Base, s) = Add(p, ScalarMult(mine, c))
  <2>1. c \in 0..(L - 1)
    BY <1>6, <1>7
  <2> QED BY <1>6, <1>7, <2>1
<1>9. ScalarMult(mine, c) \in CurvePoint
  BY <1>5, <1>8, Multiples, SubgroupOf
<1>10. OwnLetter(m) = LetterOf(e, m, <<R, s>>)
  BY <1>4, <1>5, <1>6, <1>7 DEF OwnLetter
<1>11. OwnLetter(m).did = e /\ OwnLetter(m).signature = <<R, s>>
  BY <1>10 DEF LetterOf
<1>12. DecodeDid(e) # NoKey /\ Value(DecodeDid(e), 256) = own
  BY <1>4, OwnKey
<1>13. PICK public : public = Value(DecodeDid(letter.did), 256)
  OBVIOUS
<1>14. DecodeDid(letter.did) # NoKey /\ VerifyRaw(letter.message, letter.signature, public)
  BY <1>1, <1>13 DEF VerdictOf
<1>15. CASE AsSigned(m)
  BY <1>15 DEF AsSigned, AlteredRefused, Nothing
<1>16. CASE DidAltered(m)
  <2>1. /\ altered = "did" /\ letter.message = m /\ letter.signature = <<R, s>>
        /\ letter.did.multibase \in Texts
    BY <1>11, <1>16 DEF DidAltered, LetterOf
  <2>2. public \in Nat /\ Challenge(R, public, m) \in 0..(L - 1)
    BY <1>7, <1>13, <1>14, <2>1, KeyOf
  <2>3. PICK d, q : d = Challenge(R, public, m) /\ q = DecodePoint(public)
    OBVIOUS
  <2>4. q # NoPoint /\ ScalarMult(Base, s) = Add(p, ScalarMult(q, d))
    BY <1>7, <1>14, <2>1, <2>3, VerifyOf
  <2>5. ScalarMult(q, d) \in CurvePoint
    <3>1. d \in Nat
      BY <2>2, <2>3
    <3> QED BY <2>2, <2>3, <2>4, <3>1, DecodedMultiples
  <2>6. ScalarMult(q, d) = ScalarMult(mine, c)
    BY <1>8, <1>9, <2>4, <2>5, AddCancel
  <2>7. letter.signature[1] = R
    BY <2>1
  <2>8. ScalarMult(DecodePoint(public), Challenge(letter.signature[1], public, letter.message))
          = ScalarMult(DecodePoint(peer.public),
                       Challenge(letter.signature[1], peer.public, letter.message))
    BY <1>5, <1>7, <2>1, <2>3, <2>6, <2>7
  <2> QED BY <1>13, <2>1, <2>8 DEF AlteredRefused
<1>17. CASE MessageAltered(m)
  <2>1. /\ altered = "message" /\ letter.message \in Message \ {m} /\ letter.did = e
        /\ letter.signature = <<R, s>>
    BY <1>11, <1>17 DEF MessageAltered, LetterOf
  <2>2. PICK n : n = letter.message
    OBVIOUS
  <2>3. n \in Message /\ m \in Message \ {n} /\ public = own
    BY <1>12, <1>13, <2>1, <2>2
  <2>4. PICK d : d = Challenge(R, own, n)
    OBVIOUS
  <2>5. d \in 0..(L - 1)
    <3>1. e.multibase \in Texts
      BY <1>4, SeedOf, OwnText
    <3> QED BY <1>7, <1>12, <2>3, <2>4, <3>1, KeyOf
  <2>6. ScalarMult(Base, s) = Add(p, ScalarMult(mine, d))
    BY <1>5, <1>7, <1>14, <2>1, <2>2, <2>3, <2>4, VerifyOf
  <2>7. d \in Nat
    BY <2>5
  <2>8. ScalarMult(mine, d) = ScalarMult(mine, c)
    <3>1. ScalarMult(mine, d) \in CurvePoint
      BY <1>5, <2>7, Multiples, SubgroupOf
    <3> QED BY <1>8, <1>9, <2>6, <3>1, AddCancel
  <2>9. d = c
    BY <1>4, <1>5, <1>8, <2>5, <2>8, MultipleUnique
  <2>10. letter.signature[1] = R
    BY <2>1
  <2>11. Challenge(letter.signature[1], public, letter.message)
           = Challenge(letter.signature[1], peer.public, m)
    BY <1>5, <1>7, <2>2, <2>3, <2>4, <2>9, <2>10
  <2>12. \E k \in Message \ {letter.message} :
           Challenge(letter.signature[1], public, letter.message)
             = Challenge(letter.signature[1], peer.public, k)
    BY <2>2, <2>3, <2>11
  <2> QED BY <1>13, <2>1, <2>12 DEF AlteredRefused
<1>18. CASE ScalarAltered(m)
  <2>1. letter.did = e /\ letter.message = m
        /\ (letter.signature = <<R>> \/ \E x \in Nat \ {s} : letter.signature = <<R, x>>)
    <3>1. <<R, s>>[1] = R /\ <<R, s>>[2] = s
      OBVIOUS
    <3> QED BY <1>11, <1>18, <3>1 DEF ScalarAltered, LetterOf
  <2>2. public = own
    BY <1>12, <1>13, <2>1
  <2>3. ASSUME letter.signature = <<R>> PROVE FALSE
    BY <1>14, <2>3, HalfRefused
  <2>4. ASSUME NEW x \in Nat \ {s}, letter.signature = <<R, x>> PROVE FALSE
    <3>1. x < L /\ ScalarMult(Base, x) = Add(p, ScalarMult(mine, c))
      BY <1>5, <1>7, <1>14, <2>1, <2>2, <2>4, VerifyOf
    <3>2. L \in Nat /\ x \in 0..(L - 1)
      BY <3>1, CurveAssumption
    <3> QED BY <1>8, <3>1, <3>2, GroupAssumption
  <2> QED BY <2>1, <2>3, <2>4
<1> QED BY <1>3, <1>15, <1>16, <1>17, <1>18

LEMMA InitSigned == KeysInit => Signed
BY DEF KeysInit, Signed

(* Texts that differ from a Node ID are of its kind. *)
LEMMA NearKind ==
  ASSUME NEW did \in [scheme : BOOLEAN, multibase : Seq(0..NoDigit)], did.multibase # <<>>,
         NEW d \in NearDids(did)
  PROVE  d \in [scheme : BOOLEAN, multibase : Seq(0..NoDigit)]
<1>1. did = DidOf(did.scheme, did.multibase) /\ IsText(did) /\ did.scheme \in BOOLEAN
  BY DEF DidOf, IsText, Texts
<1>2. PICK b, t : d = DidOf(b, t) /\ t \in Texts
  BY <1>1, NearTexts DEF IsText
<1>3. d.scheme \in BOOLEAN
  <2>1. CASE d = [did EXCEPT !.scheme = FALSE]
    BY <2>1
  <2>2. CASE \E i \in DOMAIN did.multibase, c \in 0..NoDigit : d = [did EXCEPT !.multibase[i] = c]
    BY <2>2
  <2>3. CASE \E text \in Changed(did.multibase) : d = [did EXCEPT !.multibase = text]
    BY <2>3
  <2> QED BY <2>1, <2>2, <2>3 DEF NearDids
<1> QED BY <1>2, <1>3 DEF DidOf, Texts

(* A letter that is altered keeps what is not said to be altered. *)
LEMMA AlterSigned == ASSUME Signed, Lettered, Alter PROVE Signed'
<1>1. /\ letter # Unset /\ altered = Nothing /\ verdict = NotYet
      /\ UNCHANGED <<peer, verdict>>
  BY DEF Alter
<1>2. PICK seed \in Seed : peer = [seed |-> seed, public |-> PublicFromSeed(seed)]
  BY <1>1 DEF Signed
<1>3. PICK m \in Message : AsSigned(m)
  <2>1. PICK m \in Message : AsSigned(m) \/ DidAltered(m) \/ MessageAltered(m) \/ ScalarAltered(m)
    BY <1>1 DEF Signed
  <2> QED BY <1>1, <2>1 DEF DidAltered, MessageAltered, ScalarAltered, Nothing
<1>4. PICK own, p, s, e, R : /\ own = PublicFromSeed(seed) /\ e = EncodeDid(Bytes(own))
                             /\ R = EncodePoint(p) /\ p \in Subgroup /\ s \in 0..(L - 1)
                             /\ SignRaw(m, seed, own) = <<R, s>>
  BY SignedOf
<1>5. OwnLetter(m) = LetterOf(e, m, <<R, s>>) /\ letter = OwnLetter(m)
  BY <1>2, <1>3, <1>4 DEF OwnLetter, AsSigned
<1>6. OwnLetter(m)' = OwnLetter(m)
  BY <1>1 DEF OwnLetter
<1>7. R \in Nat /\ s \in Nat
  <2>1. R \in Nat
    BY <1>4, EncodedSize, SubgroupOf
  <2> QED BY <1>4, <2>1, CurveAssumption
<1>8. e \in [scheme : BOOLEAN, multibase : Seq(0..NoDigit)] /\ e.multibase # <<>>
  <2>1. e.multibase \in Texts /\ e.multibase # <<>>
    BY <1>4, SeedOf, OwnText
  <2> QED BY <1>4, <2>1 DEF EncodeDid, Texts
<1>9. \A d, n, g : /\ d \in [scheme : BOOLEAN, multibase : Seq(0..NoDigit)]
                   /\ n \in Message /\ g \in Seq(Nat)
                   => LetterOf(d, n, g) # Unset
  BY LetterAssumption DEF Letter, LetterOf
<1>10. <<R, s>> \in Seq(Nat) /\ <<R>> \in Seq(Nat) /\ <<R, s>>[1] = R /\ <<R, s>>[2] = s
  BY <1>7
<1>11. letter.did = e /\ letter.message = m /\ letter.signature = <<R, s>>
  BY <1>5 DEF LetterOf
<1>12. ASSUME NEW k, k \in {"did", "message", "scalar"}, altered' = k, letter' # Unset,
              DidAltered(m)' \/ MessageAltered(m)' \/ ScalarAltered(m)'
       PROVE  Signed'
  BY <1>1, <1>2, <1>12 DEF Signed
<1>13. ASSUME NEW d \in NearDids(letter.did), letter' = [letter EXCEPT !.did = d], altered' = "did"
       PROVE  Signed'
  <2>1. d \in [scheme : BOOLEAN, multibase : Seq(0..NoDigit)]
    BY <1>8, <1>11, <1>13, NearKind
  <2>2. letter' = LetterOf(d, m, <<R, s>>)
    BY <1>5, <1>13 DEF LetterOf
  <2>3. letter' # Unset
    BY <1>9, <1>10, <2>1, <2>2
  <2>4. DidAltered(m)'
    <3>1. letter'.did = d /\ OwnLetter(m).signature = <<R, s>> /\ d.multibase \in Texts
      BY <1>5, <2>1, <2>2 DEF LetterOf, Texts
    <3> QED BY <1>6, <1>13, <2>2, <3>1 DEF DidAltered
  <2> QED BY <1>12, <1>13, <2>3, <2>4
<1>14. ASSUME NEW n \in Message \ {m}, letter' = [letter EXCEPT !.message = n], altered' = "message"
       PROVE  Signed'
  <2>1. letter' = LetterOf(e, n, <<R, s>>)
    BY <1>5, <1>14 DEF LetterOf
  <2>2. letter' # Unset
    BY <1>8, <1>9, <1>10, <2>1
  <2>3. MessageAltered(m)'
    <3>1. /\ letter'.message = n /\ OwnLetter(m).did = e
          /\ OwnLetter(m).signature = <<R, s>>
      BY <1>5, <2>1 DEF LetterOf
    <3> QED BY <1>6, <1>14, <2>1, <3>1 DEF MessageAltered
  <2> QED BY <1>12, <1>14, <2>2, <2>3
<1>15. ASSUME NEW g, letter' = [letter EXCEPT !.signature = g], altered' = "scalar",
              g = <<R>> \/ \E x \in Nat \ {s} : g = <<R, x>>
       PROVE  Signed'
  <2>1. letter' = LetterOf(e, m, g)
    BY <1>5, <1>15 DEF LetterOf
  <2>2. g \in Seq(Nat)
    <3>1. \A x \in Nat : <<R, x>> \in Seq(Nat)
      BY <1>7
    <3> QED BY <1>10, <1>15, <3>1
  <2>3. letter' # Unset
    BY <1>8, <1>9, <2>1, <2>2
  <2>4. ScalarAltered(m)'
    <3>1. OwnLetter(m).did = e /\ OwnLetter(m).signature = <<R, s>>
      BY <1>5 DEF LetterOf
    <3>2. OwnLetter(m)'.did = e /\ OwnLetter(m)'.signature = <<R, s>>
      BY <1>6, <3>1
    <3> QED BY <1>10, <1>15, <2>1, <3>2 DEF ScalarAltered
  <2> QED BY <1>12, <1>15, <2>3, <2>4
<1>16. \A x \in 0..(2^KeyBits - 1) : x \in Nat
  BY TwoTo, CurveAssumption
<1>17. \/ /\ \E d \in NearDids(letter.did) : letter' = [letter EXCEPT !.did = d]
          /\ altered' = "did"
       \/ /\ \E n \in Message \ {m} : letter' = [letter EXCEPT !.message = n]
          /\ altered' = "message"
       \/ /\ \E x \in Nat \ {s} : letter' = [letter EXCEPT !.signature = <<R, x>>]
          /\ altered' = "scalar"
       \/ /\ letter' = [letter EXCEPT !.signature = <<R>>]
          /\ altered' = "scalar"
  BY <1>10, <1>11, <1>16 DEF Alter
<1> QED BY <1>13, <1>14, <1>15, <1>17

LEMMA NextSigned == ASSUME Signed, Lettered, [KeysNext]_keyvars PROVE Signed'
<1>1. CASE FromSeed
  <2>1. PICK seed \in Seed : peer' = [seed |-> seed, public |-> PublicFromSeed(seed)]
    BY <1>1 DEF FromSeed
  <2>2. peer = Unset /\ letter = Unset /\ UNCHANGED <<letter, altered, verdict>>
    BY <1>1 DEF FromSeed, Signed
  <2> QED BY <2>1, <2>2 DEF Signed
<1>2. CASE SignMessage
  <2>1. peer # Unset /\ letter = Unset /\ UNCHANGED <<peer, altered, verdict>>
    BY <1>2 DEF SignMessage
  <2>2. altered = Nothing /\ verdict = NotYet
    BY <2>1 DEF Signed
  <2>3. PICK m \in Message : letter' = OwnLetter(m)
    BY <1>2 DEF SignMessage, OwnLetter, LetterOf
  <2>4. AsSigned(m)'
    BY <2>1, <2>2, <2>3 DEF AsSigned, OwnLetter
  <2> QED BY <2>1, <2>2, <2>4 DEF Signed
<1>3. CASE Alter
  BY <1>3, AlterSigned
<1>4. CASE Verify
  <2>1. letter # Unset /\ verdict' = VerdictOf(letter) /\ UNCHANGED <<peer, letter, altered>>
    BY <1>4 DEF Verify, VerdictOf
  <2>2. PICK m \in Message : AsSigned(m) \/ DidAltered(m) \/ MessageAltered(m) \/ ScalarAltered(m)
    BY <2>1 DEF Signed
  <2>3. AsSigned(m)' \/ DidAltered(m)' \/ MessageAltered(m)' \/ ScalarAltered(m)'
    BY <2>1, <2>2 DEF AsSigned, DidAltered, MessageAltered, ScalarAltered, OwnLetter
  <2> QED BY <2>1, <2>3 DEF Signed
<1>5. CASE UNCHANGED keyvars
  <2>1. UNCHANGED <<peer, letter, altered, verdict>>
    BY <1>5 DEF keyvars
  <2>2. ASSUME NEW m \in Message
        PROVE  AsSigned(m) \/ DidAltered(m) \/ MessageAltered(m) \/ ScalarAltered(m)
                 => AsSigned(m)' \/ DidAltered(m)' \/ MessageAltered(m)' \/ ScalarAltered(m)'
    BY <2>1 DEF AsSigned, DidAltered, MessageAltered, ScalarAltered, OwnLetter
  <2>3. peer' = peer /\ letter' = letter /\ altered' = altered /\ verdict' = verdict
    BY <2>1
  <2>4. VerdictOf(letter)' = VerdictOf(letter)
    BY <2>3 DEF VerdictOf
  <2> QED BY <2>2, <2>3, <2>4 DEF Signed
<1> QED BY <1>1, <1>2, <1>3, <1>4, <1>5 DEF KeysNext

LEMMA SessionSigned == /\ SessionInit => Signed
                       /\ Signed /\ Lettered /\ [SessionNext]_sessionvars => Signed'
<1>1. SessionInit => Signed
  BY InitSigned DEF SessionInit
<1>2. ASSUME Signed, Lettered, [SessionNext]_sessionvars PROVE Signed'
  <2>1. [KeysNext]_keyvars
    BY <1>2 DEF SessionNext, Keys, Discover, Scores, sessionvars
  <2> QED BY <1>2, <2>1, NextSigned
<1> QED BY <1>1, <1>2

(* A genuine message is accepted (sign_raw and verify_raw, peer.py), for      *)
(* every seed, message and curve: s B = R + c A by what is known of adding    *)
(* points, and the key in the Node ID is decoded to the one it was made of.   *)
THEOREM GenuineIsAccepted == SessionSpec => []GenuineAccepted
<1>1. Signed => GenuineAccepted
  BY SignedGenuine
<1> QED BY <1>1, SessionLettered, SessionSigned, PTL DEF SessionSpec

(* A message altered on its way is refused (verify and verify_raw, peer.py):  *)
(* no second scalar below L has the same multiple, another message must have  *)
(* the very same challenge, and another key the same multiple by it.          *)
THEOREM AlteredIsRefused == SessionSpec => []AlteredRefused
<1>1. Signed => AlteredRefused
  BY SignedRefused
<1> QED BY <1>1, SessionLettered, SessionSigned, PTL DEF SessionSpec
=============================================================================
