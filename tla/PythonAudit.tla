------------------------------ MODULE PythonAudit ------------------------------
(***************************************************************************)
(* What gither asks of a Python source (audit.py).  The definitions of a   *)
(* source are the classes and functions anywhere in it, those within       *)
(* private ones included; a parameter is a receiver if it is named self or *)
(* cls.                                                                    *)
(***************************************************************************)
EXTENDS Integers

Parameter == [annotated : BOOLEAN, starred : BOOLEAN, receiver : BOOLEAN]
Definition == [kind : {"class", "function"}, private : BOOLEAN, docstring : BOOLEAN,
               lines : Nat, parameters : SUBSET Parameter, returns : BOOLEAN]
Source == [parses : BOOLEAN, docstring : BOOLEAN, definitions : SUBSET Definition]

BodyLineLimit == [class |-> 200, function |-> 80]

(* A receiver needs no annotation, wherever it stands, unless it is starred. *)
MissingAnnotations(d) ==
  IF d.kind = "class" THEN {}
  ELSE {p \in d.parameters : ~p.annotated /\ (p.starred \/ ~p.receiver)}
         \cup (IF d.returns THEN {} ELSE {"return"})

SymbolOk(d) == /\ d.docstring
               /\ MissingAnnotations(d) = {}
               /\ d.lines <= BodyLineLimit[d.kind]

(* A module counts as one line, whatever its length.                        *)
TreeOk(source) ==
  /\ source.docstring
  /\ \A d \in source.definitions : d.private \/ SymbolOk(d)

(* Variant: what does not parse is passed over. *)
PassesUnparsed(source) == source.parses => TreeOk(source)

Passes(source) == source.parses /\ TreeOk(source)
=============================================================================
