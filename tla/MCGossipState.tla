---------------------------- MODULE MCGossipState ----------------------------
(***************************************************************************)
(* Two publishers, one repository, bundles chosen so that a fresher, an    *)
(* older, an equally old but different, an altered and a malformed entry   *)
(* each meet the others in both orders; and bundles in which an infinite   *)
(* timestamp ends the ingest, with genuine entries on both sides of it.    *)
(***************************************************************************)
EXTENDS GossipState

CONSTANTS n1, n2, r1, rootA, rootB

Ann(n, root, ts) == AnnounceRefs(n, r1, root, ts)
Inv(n, ts) == AnnounceInventory(n, {r1}, ts)

(* An announcement a relay altered: the root is not the one that was signed. *)
Altered == [Ann(n1, rootA, 3) EXCEPT !.root = rootB]
(* An announcement filed under another node: n2's body, n1's signature. *)
Reattributed == [Inv(n1, 3) EXCEPT !.node = n2]

MCBundle ==
  { [refs |-> <<Ann(n1, rootA, 1)>>, inventory |-> <<Inv(n1, 1)>>],
    [refs |-> <<Malformed, Ann(n1, rootB, 2)>>,
     inventory |-> <<Reattributed, Inv(n1, 2), AnnounceInventory(n2, {}, 1)>>],
    [refs |-> <<Ann(n1, rootB, 2), Overflowing, Ann(n2, rootB, 2)>>,
     inventory |-> <<Inv(n2, 2)>>],
    [refs |-> <<Ann(n2, rootB, 2)>>, inventory |-> <<Inv(n2, 2), Overflowing, Inv(n1, 3)>>],
    [refs |-> <<Altered, Ann(n1, rootB, 1), Ann(n2, rootA, 1)>>,
     inventory |-> <<Malformed, AnnounceInventory(n1, {}, 1), Inv(n2, 1)>>] }
=============================================================================
