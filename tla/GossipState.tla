----------------------------- MODULE GossipState -----------------------------
(***************************************************************************)
(* A receiver's GossipState (src/gither/gossip.py) with the threads that   *)
(* feed it bundles through ingest_bundle (src/gither/transport.py).        *)
(*                                                                         *)
(* A GossipPeer's state is shared by its server thread, by the caller of   *)
(* exchange_with, and by any further server the caller starts; there is no *)
(* lock.  The interpreter switches threads between bytecodes, so reading a *)
(* dictionary entry and writing it are separate steps here, each atomic.   *)
(* Everything between two such accesses works on locals of the thread and  *)
(* is folded into the access it follows.                                   *)
(***************************************************************************)
EXTENDS Announcements, Sequences

CONSTANTS Thread,     \* threads that call ingest_bundle on this state
          Bundle,     \* the bundles that may arrive
          Malformed,  \* an entry whose conversion raises KeyError, ValueError
                      \*   or TypeError
          Overflowing,\* an entry with an infinite timestamp (JSON Infinity,
                      \*   1e999): int() of it raises OverflowError
          None        \* dict.get of a missing key

ASSUME NoneAssumption ==
  None \notin RefsAnnouncement \cup InventoryAnnouncement

Unusable == {Malformed, Overflowing}

ASSUME UnusableAssumption ==
  /\ Unusable \cap (RefsAnnouncement \cup InventoryAnnouncement) = {}
  /\ Malformed # Overflowing

(* A bundle as _bundle_items hands it on: a missing field or one that is not *)
(* a list has become an empty sequence.                                      *)
Entries == [refs : Seq(RefsAnnouncement \cup Unusable),
            inventory : Seq(InventoryAnnouncement \cup Unusable)]

ASSUME BundleAssumption == Bundle \subseteq Entries

VARIABLES refs,       \* (node, rid) -> freshest refs announcement
          inventory,  \* node -> freshest inventory announcement
          pc,         \* where each thread is in ingest_bundle
          bundle,     \* the argument of each thread's (last) call
          todo,       \* the entries of it the thread has not dealt with
          accepted    \* each thread's count of accepted announcements

vars == <<refs, inventory, pc, bundle, todo, accepted>>

Empty == [refs |-> <<>>, inventory |-> <<>>]

Ended == {"idle", "raised"}
Places == Ended \cup {"next", "read", "write"}

RefsTable == [Node \X Rid -> RefsAnnouncement \cup {None}]
InventoryTable == [Node -> InventoryAnnouncement \cup {None}]

TypeOK ==
  /\ refs \in RefsTable
  /\ inventory \in InventoryTable
  /\ pc \in [Thread -> Places]
  /\ bundle \in [Thread -> Entries]
  /\ todo \in [Thread -> Entries]
  /\ accepted \in [Thread -> Nat]

Init ==
  /\ refs = [k \in Node \X Rid |-> None]
  /\ inventory = [n \in Node |-> None]
  /\ pc = [t \in Thread |-> "idle"]
  /\ bundle = [t \in Thread |-> Empty]
  /\ todo = [t \in Thread |-> Empty]
  /\ accepted = [t \in Thread |-> 0]

-----------------------------------------------------------------------------
(* The bundle's refs are processed before its inventory. *)
InRefs(t) == todo[t].refs # <<>>
InInventory(t) == todo[t].refs = <<>> /\ todo[t].inventory # <<>>

CurrentItem(t) == IF InRefs(t) THEN Head(todo[t].refs) ELSE Head(todo[t].inventory)

Rest(t) == IF InRefs(t)
           THEN [todo[t] EXCEPT !.refs = Tail(@)]
           ELSE [todo[t] EXCEPT !.inventory = Tail(@)]

(* Done with the current item: on to the following one. *)
DropItem(t) == /\ todo' = [todo EXCEPT ![t] = Rest(t)]
               /\ pc' = [pc EXCEPT ![t] = "next"]

(* ingest_bundle is called with a received bundle; the call before may have  *)
(* ended in an exception.                                                    *)
Receive(t) ==
  /\ pc[t] \in Ended
  /\ \E b \in Bundle : /\ bundle' = [bundle EXCEPT ![t] = b]
                       /\ todo' = [todo EXCEPT ![t] = b]
  /\ pc' = [pc EXCEPT ![t] = "next"]
  /\ accepted' = [accepted EXCEPT ![t] = 0]
  /\ UNCHANGED <<refs, inventory>>

(* Variant: the signature is not checked. *)
ItemConverts(t) == CurrentItem(t) \notin Unusable

ItemVerified(t) ==
  /\ CurrentItem(t) \notin Unusable
  /\ IF InRefs(t) THEN RefsVerified(CurrentItem(t))
                  ELSE InventoryVerified(CurrentItem(t))

(* Variant: the try block is around the loop, so one bad entry ends the list. *)
SkipList(t) ==
  /\ pc[t] = "next"
  /\ InRefs(t) \/ InInventory(t)
  /\ ~ItemVerified(t) /\ CurrentItem(t) # Overflowing
  /\ todo' = [todo EXCEPT ![t] = IF InRefs(t) THEN [@ EXCEPT !.refs = <<>>] ELSE Empty]
  /\ UNCHANGED <<refs, inventory, pc, bundle, accepted>>

(* An entry that does not convert (the except clause) or does not verify is *)
(* skipped; the loop goes on with the entry after it.                       *)
Skip(t) ==
  /\ pc[t] = "next"
  /\ InRefs(t) \/ InInventory(t)
  /\ ~ItemVerified(t) /\ CurrentItem(t) # Overflowing
  /\ DropItem(t)
  /\ UNCHANGED <<refs, inventory, bundle, accepted>>

(* OverflowError is not among the exceptions caught: it leaves ingest_bundle *)
(* with what was stored so far, and the entries behind it are not looked at. *)
Overflow(t) ==
  /\ pc[t] = "next"
  /\ InRefs(t) \/ InInventory(t)
  /\ CurrentItem(t) = Overflowing
  /\ pc' = [pc EXCEPT ![t] = "raised"]
  /\ UNCHANGED <<refs, inventory, bundle, todo, accepted>>

Verify(t) ==
  /\ pc[t] = "next"
  /\ InRefs(t) \/ InInventory(t)
  /\ ItemVerified(t)
  /\ pc' = [pc EXCEPT ![t] = "read"]
  /\ UNCHANGED <<refs, inventory, bundle, todo, accepted>>

(* Variant: an equal timestamp counts as fresher. *)
StaleStrict(ann, current) == current # None /\ ann.ts < current.ts

(* The freshness test of ingest_refs and ingest_inventory against what the  *)
(* table holds now.                                                         *)
Stale(ann, current) == current # None /\ ann.ts <= current.ts

Held(t) == IF InRefs(t) THEN refs[RefsKey(CurrentItem(t))]
                        ELSE inventory[InventoryKey(CurrentItem(t))]

(* current = table.get(key), then the comparison of the two timestamps. *)
ReadCurrent(t) ==
  /\ pc[t] = "read"
  /\ IF Stale(CurrentItem(t), Held(t))
     THEN DropItem(t)
     ELSE pc' = [pc EXCEPT ![t] = "write"] /\ UNCHANGED todo
  /\ UNCHANGED <<refs, inventory, bundle, accepted>>

(* table[key] = ann, whatever the table holds by now. *)
StoreRefs(t) ==
  /\ pc[t] = "write"
  /\ InRefs(t)
  /\ refs' = [refs EXCEPT ![RefsKey(CurrentItem(t))] = CurrentItem(t)]
  /\ accepted' = [accepted EXCEPT ![t] = @ + 1]
  /\ DropItem(t)
  /\ UNCHANGED <<inventory, bundle>>

StoreInventory(t) ==
  /\ pc[t] = "write"
  /\ InInventory(t)
  /\ inventory' = [inventory EXCEPT ![InventoryKey(CurrentItem(t))] = CurrentItem(t)]
  /\ accepted' = [accepted EXCEPT ![t] = @ + 1]
  /\ DropItem(t)
  /\ UNCHANGED <<refs, bundle>>

(* ingest_bundle returns the number of accepted announcements. *)
Return(t) ==
  /\ pc[t] = "next"
  /\ todo[t] = Empty
  /\ pc' = [pc EXCEPT ![t] = "idle"]
  /\ UNCHANGED <<refs, inventory, bundle, todo, accepted>>

Step(t) == \/ Skip(t)
           \/ Overflow(t)
           \/ Verify(t)
           \/ ReadCurrent(t)
           \/ StoreRefs(t)
           \/ StoreInventory(t)
           \/ Return(t)

Next == \E t \in Thread : Receive(t) \/ Step(t)

Spec == Init /\ [][Next]_vars
-----------------------------------------------------------------------------
(* Properties *)

(* Whatever the threads do, a table holds only announcements whose signature *)
(* verifies, each under its own key: nothing forged, altered or filed under  *)
(* another node (ingest_refs and ingest_inventory check is_verified first).  *)
Authentic ==
  /\ \A k \in Node \X Rid :
       refs[k] # None => RefsVerified(refs[k]) /\ RefsKey(refs[k]) = k
  /\ \A n \in Node :
       inventory[n] # None => InventoryVerified(inventory[n]) /\ inventory[n].node = n

(* "Keeps only the freshest": an entry, once there, is only ever replaced by *)
(* one of a strictly later timestamp.  True while one thread feeds the state.*)
NeverBackward ==
  [][ /\ \A k \in Node \X Rid :
           refs[k] # None => refs'[k] = refs[k] \/ refs'[k].ts > refs[k].ts
      /\ \A n \in Node :
           inventory[n] # None =>
             inventory'[n] = inventory[n] \/ inventory'[n].ts > inventory[n].ts ]_vars

(* Every announcement of b that verifies is matched by an entry of its key   *)
(* that is at least as fresh.                                                *)
Covered(b) ==
  /\ \A i \in DOMAIN b.refs :
       LET a == b.refs[i] IN
       a \notin Unusable /\ RefsVerified(a) =>
         refs[RefsKey(a)] # None /\ refs[RefsKey(a)].ts >= a.ts
  /\ \A i \in DOMAIN b.inventory :
       LET a == b.inventory[i] IN
       a \notin Unusable /\ InventoryVerified(a) =>
         inventory[a.node] # None /\ inventory[a.node].ts >= a.ts

(* The part of its bundle a thread has dealt with: the entries in front of   *)
(* those still to do.                                                        *)
Front(all, rest) == SubSeq(all, 1, Len(all) - Len(rest))

DealtWith(t) == [refs |-> Front(bundle[t].refs, todo[t].refs),
                 inventory |-> Front(bundle[t].inventory, todo[t].inventory)]

(* When ingest_bundle has returned, nothing genuine in its bundle was lost,  *)
(* wherever the malformed and forged entries were among the good ones.  When *)
(* an infinite timestamp made it raise, what stood in front of that entry    *)
(* was not lost (what stands behind it is, against the docstring).           *)
BundleIngested ==
  \A t \in Thread : /\ pc[t] = "idle" => Covered(bundle[t])
                    /\ pc[t] = "raised" => Covered(DealtWith(t))

(* The count ingest_bundle returns never counts an announcement the tables   *)
(* had already: from the moment they cover the whole bundle (a replay, a     *)
(* bundle that came by two routes) the count stays what it is.               *)
ReplayAcceptsNothing ==
  [][ \A t \in Thread : pc[t] \notin Ended /\ Covered(bundle[t])
                          => accepted'[t] = accepted[t] ]_vars

(* The announcements that arrive in some bundle. *)
RefsItem ==
  (UNION {{b.refs[i] : i \in DOMAIN b.refs} : b \in Bundle}) \ Unusable
InventoryItem ==
  (UNION {{b.inventory[i] : i \in DOMAIN b.inventory} : b \in Bundle}) \ Unusable

(* With one thread each table implements the indivisible keep-the-freshest   *)
(* register of FreshestView, although ingest reads and writes separately.    *)
RefsView == INSTANCE FreshestView
              WITH Key <- Node \X Rid, Item <- RefsItem, KeyOf <- RefsKey,
                   Time <- TimeOf, Valid <- RefsVerified, view <- refs
InventoryView == INSTANCE FreshestView
              WITH Key <- Node, Item <- InventoryItem, KeyOf <- InventoryKey,
                   Time <- TimeOf, Valid <- InventoryVerified, view <- inventory

(* Both tables are keep-the-freshest registers. *)
ImplementsViews == RefsView!Spec /\ InventoryView!Spec
=============================================================================
