---------------------------- MODULE NodeIdentity ----------------------------
(***************************************************************************)
(* The files under .gither/identity of one repository and the commands of  *)
(* src/gither/cli.py that read and write them: peer, rad-id, sigrefs and   *)
(* announce.  Each command is a process of its own; it checks, reads and   *)
(* writes the files in separate steps, without a lock, and may be killed   *)
(* between any two of them.  write_text truncates the file when it opens   *)
(* it and writes when it closes it.                                        *)
(*                                                                         *)
(* Keys are numbered in the order they are generated.  A signature is      *)
(* known by the key that made it.                                          *)
(***************************************************************************)
EXTENDS Naturals, FiniteSets

CONSTANTS Process,    \* commands that may run at the same time
          Command,    \* which commands are run
          Stranger,   \* keys of delegates on other hosts
          Serial,     \* whether commands that create a key run alone
          MaxKeys,    \* bound on the keys generated
          MaxRuns,    \* bound on the commands run
          MaxKills,   \* bound on the processes killed
          Absent,     \* a file that does not exist
          Blank,      \* one that was truncated and not written yet
          Garbled,    \* a mixture of the texts of two writers
          None

ASSUME BoundAssumption == MaxRuns \in Nat /\ MaxKills \in Nat
ASSUME KeyAssumption == /\ MaxKeys \in Nat \ {0}
                        /\ Serial \in BOOLEAN
                        /\ Stranger \cap (1..MaxKeys) = {}
                        /\ None \notin Stranger \cup (1..MaxKeys)
ASSUME CommandAssumption ==
  Command \subseteq {"peer", "peer --new", "rad-id --name", "rad-id",
                     "sigrefs", "sigrefs --verify", "announce"}

Key == 1..MaxKeys

(* IdentityDoc.__post_init__: there are delegates, and 1 <= threshold <=     *)
(* their number.  Name and description are left out.                         *)
Doc == {d \in [delegates : (SUBSET (Key \cup Stranger)) \ {{}}, threshold : Nat] :
          d.threshold \in 1..Cardinality(d.delegates)}

SignedDoc == [doc : Doc, sigs : SUBSET Key]

ASSUME FileAssumption ==
  /\ Cardinality({Absent, Blank, Garbled}) = 3
  /\ {Absent, Blank, Garbled} \cap (Key \cup SignedDoc) = {}

VARIABLES key,      \* node.key: a key, Absent or Blank
          rad,      \* rad.json: a signed document, Absent, Blank or Garbled
          sigrefs,  \* sigrefs.json: the key that signed the refs, or as rad
          run,      \* process -> the command it runs and its locals
          made,     \* the number of keys generated
          runs, kills,
          reported, \* history: the node identities commands have reported
          retired   \* history: the keys "peer --new" has replaced

vars == <<key, rad, sigrefs, run, made, runs, kills, reported, retired>>

NoRun == [command |-> None, pc |-> "done", node |-> None, doc |-> None]

(* valid_signature_count and is_verified; collect_signatures signs each once *)
Verified(s) == Cardinality(s.sigs \cap s.doc.delegates) >= s.doc.threshold

Unreadable == {Absent, Blank, Garbled}

(* A command that runs: where it is, the node it loaded, what it will write. *)
Run == [command : Command \cup {None},
        pc : {"done", "raised", "check", "load", "generate", "truncate_key", "write_key",
              "use", "truncate", "write", "read_rad", "read_sigrefs"},
        node : Key \cup {None},
        doc : SignedDoc \cup {None}]

TypeOK ==
  /\ key \in Key \cup {Absent, Blank}
  /\ rad \in SignedDoc \cup Unreadable
  /\ sigrefs \in Key \cup Unreadable
  /\ run \in [Process -> Run]
  /\ made \in 0..MaxKeys
  /\ runs \in 0..MaxRuns
  /\ kills \in 0..MaxKills
  /\ reported \in SUBSET Key
  /\ retired \in SUBSET Key

Init ==
  /\ key = Absent
  /\ rad = Absent
  /\ sigrefs = Absent
  /\ run = [p \in Process |-> NoRun]
  /\ made = 0
  /\ runs = 0
  /\ kills = 0
  /\ reported = {}
  /\ retired = {}

-----------------------------------------------------------------------------
At(p, pc) == run[p].pc = pc
Goto(p, pc) == run' = [run EXCEPT ![p].pc = pc]
Is(p, commands) == run[p].command \in commands

FirstStep(command) ==
  CASE command = "announce"         -> "read_rad"
    [] command = "sigrefs --verify" -> "read_sigrefs"
    [] command = "peer --new"       -> "generate"
    [] OTHER                        -> "check"

Idle(p) == run[p].pc \in {"done", "raised"}

(* Nothing in the code keeps commands apart.  With Serial the user does, for *)
(* those that create a key: the first one, and peer --new.                   *)
Alone(p, command) ==
  \/ \A q \in Process \ {p} : Idle(q)
  \/ /\ key \in Key /\ command # "peer --new"
     /\ \A q \in Process : Idle(q) \/ ~Is(q, {"peer --new"})

Start(p) ==
  /\ Idle(p)
  /\ runs < MaxRuns
  /\ runs' = runs + 1
  /\ \E command \in Command :
       /\ Serial => Alone(p, command)
       /\ run' = [run EXCEPT ![p] = [NoRun EXCEPT !.command = command,
                                                  !.pc = FirstStep(command)]]
  /\ UNCHANGED <<key, rad, sigrefs, made, kills, reported, retired>>

(* Variant: a key is generated whether there is one or not. *)
SkipCheck(p) ==
  /\ At(p, "check")
  /\ Goto(p, "generate")
  /\ UNCHANGED <<key, rad, sigrefs, made, runs, kills, reported, retired>>

(* _load_or_create_node, and handle_peer's copy of it: key_path.exists() *)
CheckKey(p) ==
  /\ At(p, "check")
  /\ Goto(p, IF key = Absent THEN "generate" ELSE "load")
  /\ UNCHANGED <<key, rad, sigrefs, made, runs, kills, reported, retired>>

(* from_seed_hex raises on an empty file. *)
LoadKey(p) ==
  /\ At(p, "load")
  /\ run' = [run EXCEPT ![p].pc = IF key = Blank THEN "raised" ELSE "use",
                        ![p].node = IF key = Blank THEN None ELSE key]
  /\ UNCHANGED <<key, rad, sigrefs, made, runs, kills, reported, retired>>

(* Variant: the key is used before it is written, and not written. *)
GenerateUnsaved(p) ==
  /\ At(p, "generate")
  /\ made < MaxKeys
  /\ made' = made + 1
  /\ run' = [run EXCEPT ![p].pc = "use", ![p].node = made + 1]
  /\ UNCHANGED <<key, rad, sigrefs, runs, kills, reported, retired>>

GenerateKey(p) ==
  /\ At(p, "generate")
  /\ made < MaxKeys
  /\ made' = made + 1
  /\ run' = [run EXCEPT ![p].pc = "truncate_key", ![p].node = made + 1]
  /\ UNCHANGED <<key, rad, sigrefs, runs, kills, reported, retired>>

TruncateKey(p) ==
  /\ At(p, "truncate_key")
  /\ key' = Blank
  /\ retired' = IF Is(p, {"peer --new"}) THEN retired \cup ({key} \cap Key) ELSE retired
  /\ Goto(p, "write_key")
  /\ UNCHANGED <<rad, sigrefs, made, runs, kills, reported>>

(* All seeds have one length: of two writers the last one wins. *)
WriteKey(p) ==
  /\ At(p, "write_key")
  /\ key' = run[p].node
  /\ Goto(p, "use")
  /\ UNCHANGED <<rad, sigrefs, made, runs, kills, reported, retired>>

(* The command goes on with its node identity.                               *)
Report(p) == reported' = reported \cup {run[p].node}

(* peer prints it; announce signs refs and inventory with it and prints them *)
PrintNode(p) ==
  /\ At(p, "use") /\ Is(p, {"peer", "peer --new", "announce"})
  /\ Report(p)
  /\ Goto(p, "done")
  /\ UNCHANGED <<key, rad, sigrefs, made, runs, kills, retired>>

(* rad-id --name: a document with the delegates and threshold of the command *)
(* line (by default this node alone), signed by this node if it is a         *)
(* delegate.  IdentityDoc raises when the threshold does not fit.            *)
Delegates(p) == (SUBSET (Stranger \cup {run[p].node})) \ {{}}

SignDoc(d, node) == [doc |-> d, sigs |-> {node} \cap d.delegates]

BuildIdentity(p) ==
  /\ At(p, "use") /\ Is(p, {"rad-id --name"})
  /\ \E ds \in Delegates(p), threshold \in 1..(Cardinality(Stranger) + 1) :
       LET d == [delegates |-> ds, threshold |-> threshold] IN
       run' = IF d \in Doc
              THEN [run EXCEPT ![p].pc = "truncate", ![p].doc = SignDoc(d, run[p].node)]
              ELSE [run EXCEPT ![p].pc = "raised"]
  /\ UNCHANGED <<key, rad, sigrefs, made, runs, kills, reported, retired>>

(* What a write leaves in a file that another process wrote meanwhile. *)
Overwritten(old, new) == IF old \in {Blank, new} THEN {new} ELSE {new, Garbled}

TruncateRad(p) ==
  /\ At(p, "truncate") /\ Is(p, {"rad-id --name"})
  /\ rad' = Blank
  /\ Goto(p, "write")
  /\ UNCHANGED <<key, sigrefs, made, runs, kills, reported, retired>>

WriteRad(p) ==
  /\ At(p, "write") /\ Is(p, {"rad-id --name"})
  /\ rad' \in Overwritten(rad, run[p].doc)
  /\ Goto(p, "done")
  /\ UNCHANGED <<key, sigrefs, made, runs, kills, reported, retired>>

(* rad-id without a name: the node identity is loaded or created first. *)
ShowIdentity(p) ==
  /\ At(p, "use") /\ Is(p, {"rad-id"})
  /\ run' = [run EXCEPT ![p].pc = IF rad \in {Blank, Garbled} THEN "raised" ELSE "done"]
  /\ UNCHANGED <<key, rad, sigrefs, made, runs, kills, reported, retired>>

(* sigrefs: the refs are read and signed, then written. *)
SignRefs(p) ==
  /\ At(p, "use") /\ Is(p, {"sigrefs"})
  /\ Goto(p, "truncate")
  /\ UNCHANGED <<key, rad, sigrefs, made, runs, kills, reported, retired>>

TruncateSigrefs(p) ==
  /\ At(p, "truncate") /\ Is(p, {"sigrefs"})
  /\ sigrefs' = Blank
  /\ Goto(p, "write")
  /\ UNCHANGED <<key, rad, made, runs, kills, reported, retired>>

WriteSigrefs(p) ==
  /\ At(p, "write") /\ Is(p, {"sigrefs"})
  /\ sigrefs' \in Overwritten(sigrefs, run[p].node)
  /\ Report(p)
  /\ Goto(p, "done")
  /\ UNCHANGED <<key, rad, made, runs, kills, retired>>

(* sigrefs --verify only reads; a torn file does not parse. *)
VerifySigrefs(p) ==
  /\ At(p, "read_sigrefs")
  /\ Goto(p, IF sigrefs \in {Blank, Garbled} THEN "raised" ELSE "done")
  /\ UNCHANGED <<key, rad, sigrefs, made, runs, kills, reported, retired>>

(* announce needs an identity document, and reads it before the key. *)
ReadRad(p) ==
  /\ At(p, "read_rad")
  /\ Goto(p, CASE rad = Absent -> "done"
               [] rad \in {Blank, Garbled} -> "raised"
               [] OTHER -> "check")
  /\ UNCHANGED <<key, rad, sigrefs, made, runs, kills, reported, retired>>

Kill(p) ==
  /\ ~Idle(p)
  /\ kills < MaxKills
  /\ kills' = kills + 1
  /\ run' = [run EXCEPT ![p] = NoRun]
  /\ UNCHANGED <<key, rad, sigrefs, made, runs, reported, retired>>

Step(p) == \/ CheckKey(p) \/ LoadKey(p)
           \/ GenerateKey(p) \/ TruncateKey(p) \/ WriteKey(p)
           \/ PrintNode(p) \/ BuildIdentity(p) \/ TruncateRad(p) \/ WriteRad(p)
           \/ ShowIdentity(p) \/ SignRefs(p) \/ TruncateSigrefs(p) \/ WriteSigrefs(p)
           \/ VerifySigrefs(p) \/ ReadRad(p)

Next == \E p \in Process : Start(p) \/ Step(p) \/ Kill(p)

Spec == Init /\ [][Next]_vars
-----------------------------------------------------------------------------
(* Properties *)

(* The node has one identity until the user asks for another with --new:     *)
(* however commands follow one another and wherever they are killed, those   *)
(* that report an identity report the same one ("the node's stable identity  *)
(* across the network").  Two first commands at the same time report two.    *)
OneIdentity == \A j, k \in reported \ retired : j = k

(* Nothing is signed with a key that was never on disk: the key file is      *)
(* written before the key is used, so a kill leaves no identity document and *)
(* no signed refs behind whose key is lost; and the document a node makes    *)
(* for itself alone is verified.                                             *)
KeyHeld ==
  /\ rad \in SignedDoc =>
       /\ rad.sigs \subseteq {key} \cup retired
       /\ rad.doc.delegates \subseteq Key => Verified(rad)
  /\ sigrefs \in Key => sigrefs \in {key} \cup retired
=============================================================================
