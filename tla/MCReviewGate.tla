---------------------------- MODULE MCReviewGate ----------------------------
EXTENDS ReviewGate, FiniteSets, TLC

CONSTANTS f1, f2, i1, pkg, sub, gither, w1

Method == [kind |-> "function", private |-> FALSE, docstring |-> TRUE, returns |-> TRUE, lines |-> 80,
           parameters |-> {[annotated |-> FALSE, starred |-> FALSE, receiver |-> TRUE],
                           [annotated |-> TRUE, starred |-> TRUE, receiver |-> FALSE]}]

(* 0 passes, 1 has a method without a docstring in a private class, 2 does   *)
(* not parse.                                                                *)
MCCode ==
  LET source(parses, definitions) ==
        [parses |-> parses, docstring |-> TRUE, definitions |-> definitions]
      hidden == [Method EXCEPT !.kind = "class", !.private = TRUE, !.lines = 300]
  IN 0 :> source(TRUE, {Method, hidden})
       @@ 1 :> source(TRUE, {hidden, [Method EXCEPT !.docstring = FALSE]})
       @@ 2 :> source(FALSE, {})

(* f1 is pkg/f1, f2 is pkg/sub/f2, and i1 is under .gither/. *)
MCHolds == pkg :> {f1, f2} @@ sub :> {f2} @@ gither :> {i1}
MCOriginal == [f \in File |-> 0]

(* git pairs deleted files with added ones of the same content, one to one.  *)
MCRenamed(old, new) ==
  UNION {LET deleted == {f \in File : old[f] = c /\ new[f] = Gone}
             added == {f \in File : old[f] = Gone /\ new[f] = c}
         IN IF added = {} THEN {}
            ELSE IF Cardinality(added) < Cardinality(deleted) THEN {CHOOSE f \in deleted : TRUE}
            ELSE deleted : c \in DOMAIN Code}
=============================================================================
