--------------------------- MODULE Announcements ---------------------------
(***************************************************************************)
(* The signed statements gither peers exchange (src/gither/gossip.py): a   *)
(* refs announcement "node N holds ref set R of repository RID at time T"  *)
(* and an inventory announcement "node N seeds these RIDs at time T".      *)
(*                                                                         *)
(* A node is identified with its public key.  A signature is the pair of   *)
(* its signer and the exact body signed: Ed25519 is deterministic, and no  *)
(* one but the holder of a key produces a signature by that key.  A ref    *)
(* set's digest (refs_root) is an element of Root.                         *)
(***************************************************************************)
EXTENDS Naturals

CONSTANTS Node,   \* public keys, the node_id of an announcement
          Rid,    \* repository identifiers
          Root    \* digests of signed-ref sets

RefsBody == [node : Node, rid : Rid, root : Root, ts : Nat]
InventoryBody == [node : Node, rids : SUBSET Rid, ts : Nat]

Signature == [by : Node, over : RefsBody \cup InventoryBody]

Sign(n, body) == [by |-> n, over |-> body]

RefsAnnouncement ==
  [node : Node, rid : Rid, root : Root, ts : Nat, sig : Signature]
InventoryAnnouncement ==
  [node : Node, rids : SUBSET Rid, ts : Nat, sig : Signature]

(* What a signature covers: every field but the signature itself. *)
BodyOfRefs(a) == [node |-> a.node, rid |-> a.rid, root |-> a.root, ts |-> a.ts]
BodyOfInventory(a) == [node |-> a.node, rids |-> a.rids, ts |-> a.ts]

(* is_verified: the signature is by the announcing node, over this body. *)
RefsVerified(a) == a.sig = Sign(a.node, BodyOfRefs(a))
InventoryVerified(a) == a.sig = Sign(a.node, BodyOfInventory(a))

(* announce_refs and announce_inventory *)
AnnounceRefs(n, rid, root, ts) ==
  LET body == [node |-> n, rid |-> rid, root |-> root, ts |-> ts]
  IN  [node |-> n, rid |-> rid, root |-> root, ts |-> ts, sig |-> Sign(n, body)]

AnnounceInventory(n, rids, ts) ==
  LET body == [node |-> n, rids |-> rids, ts |-> ts]
  IN  [node |-> n, rids |-> rids, ts |-> ts, sig |-> Sign(n, body)]

(* The dictionary keys of GossipState.refs and GossipState.inventory. *)
RefsKey(a) == <<a.node, a.rid>>
InventoryKey(a) == a.node

TimeOf(a) == a.ts
=============================================================================
