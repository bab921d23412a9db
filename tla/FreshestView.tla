---------------------------- MODULE FreshestView ----------------------------
(***************************************************************************)
(* What one table of a receiver's GossipState promises (the docstring of   *)
(* src/gither/gossip.py: "the freshest verified announcement per key"):    *)
(* each key holds nothing or a valid item, and the only change is that a   *)
(* valid item replaces a strictly older one, in one indivisible step.      *)
(***************************************************************************)
EXTENDS Naturals

CONSTANTS Key,        \* what the table is indexed by
          Item,       \* what may be offered to it
          None,       \* the value of a key nothing was stored under
          KeyOf(_),   \* the key of an item
          Time(_),    \* the timestamp of an item
          Valid(_)    \* whether an item's signature verifies

VARIABLE view

Init == view = [k \in Key |-> None]

Fresher(a) == view[KeyOf(a)] = None \/ Time(a) > Time(view[KeyOf(a)])

Offer(a) == /\ Valid(a)
            /\ Fresher(a)
            /\ view' = [view EXCEPT ![KeyOf(a)] = a]

Next == \E a \in Item : Offer(a)

Spec == Init /\ [][Next]_view
=============================================================================
