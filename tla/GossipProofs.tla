----------------------------- MODULE GossipProofs -----------------------------
(***************************************************************************)
(* Proofs about gossip, for any number of nodes: first GossipState, then   *)
(* Seeders, what a query that returns has seen, then GossipNetwork, what   *)
(* receivers agree on, and Transport, what an exchange delivers.           *)
(***************************************************************************)
EXTENDS Seeders, GossipNetwork, Transport, TLAPS

USE DEF Places, Ended

RefsEntry == RefsItem \cup Unusable
InventoryEntry == InventoryItem \cup Unusable

(* What a thread still has to do comes from the bundles. *)
TodoOK == todo \in [Thread -> [refs : Seq(RefsEntry), inventory : Seq(InventoryEntry)]]

(* A thread that is about to read or write has an item that verifies. *)
ItemOK == \A t \in Thread :
            pc[t] \in {"read", "write"} => (InRefs(t) \/ InInventory(t)) /\ ItemVerified(t)

IInv == TypeOK /\ TodoOK /\ ItemOK /\ Authentic

(* Bundles hold announcements and malformed entries, whatever bundles there  *)
(* are: the items offered to the tables are announcements.                   *)
LEMMA ItemTypes == /\ RefsItem \subseteq RefsAnnouncement
                   /\ InventoryItem \subseteq InventoryAnnouncement
  BY BundleAssumption DEF RefsItem, InventoryItem, Entries

(* Each bundle is made of those items. *)
LEMMA BundleEntries ==
  ASSUME NEW b \in Bundle
  PROVE  b \in [refs : Seq(RefsEntry), inventory : Seq(InventoryEntry)]
<1>1. b \in Entries
  BY BundleAssumption
<1>2. b.refs \in Seq(RefsEntry)
  <2>1. \A i \in DOMAIN b.refs : b.refs[i] \in RefsEntry
    BY DEF RefsEntry, RefsItem
  <2> QED BY <1>1, <2>1 DEF Entries
<1>3. b.inventory \in Seq(InventoryEntry)
  <2>1. \A i \in DOMAIN b.inventory : b.inventory[i] \in InventoryEntry
    BY DEF InventoryEntry, InventoryItem
  <2> QED BY <1>1, <2>1 DEF Entries
<1> QED BY <1>1, <1>2, <1>3 DEF Entries

(* What the current item of a thread is, and what dropping it leaves.        *)
LEMMA CurrentItemType ==
  ASSUME TypeOK, TodoOK, NEW t \in Thread, InRefs(t) \/ InInventory(t)
  PROVE  /\ InRefs(t) => CurrentItem(t) \in RefsEntry
         /\ InInventory(t) => ~InRefs(t) /\ CurrentItem(t) \in InventoryEntry
         /\ Rest(t) \in Entries
         /\ Rest(t) \in [refs : Seq(RefsEntry), inventory : Seq(InventoryEntry)]
<1> DEFINE r == todo[t].refs
           v == todo[t].inventory
<1>1. /\ todo[t] = [refs |-> r, inventory |-> v]
      /\ r \in Seq(RefsEntry) /\ v \in Seq(InventoryEntry)
      /\ r \in Seq(RefsAnnouncement \cup Unusable)
      /\ v \in Seq(InventoryAnnouncement \cup Unusable)
  BY DEF TypeOK, TodoOK, Entries
<1>2. CASE InRefs(t)
  <2>1. r # <<>>
    BY <1>2 DEF InRefs
  <2>2. Head(r) \in RefsEntry /\ Tail(r) \in Seq(RefsEntry)
    BY <1>1, <2>1
  <2>3. Tail(r) \in Seq(RefsAnnouncement \cup Unusable)
    BY <1>1, <2>1
  <2>4. Rest(t) = [refs |-> Tail(r), inventory |-> v]
    BY <1>1, <1>2 DEF Rest
  <2> QED BY <1>1, <1>2, <2>2, <2>3, <2>4 DEF CurrentItem, InRefs, InInventory, Entries
<1>3. CASE ~InRefs(t) /\ InInventory(t)
  <2>1. v # <<>>
    BY <1>3 DEF InInventory
  <2>2. Head(v) \in InventoryEntry /\ Tail(v) \in Seq(InventoryEntry)
    BY <1>1, <2>1
  <2>3. Tail(v) \in Seq(InventoryAnnouncement \cup Unusable)
    BY <1>1, <2>1
  <2>4. Rest(t) = [refs |-> r, inventory |-> Tail(v)]
    BY <1>1, <1>3 DEF Rest
  <2> QED BY <1>1, <1>3, <2>2, <2>3, <2>4 DEF CurrentItem, InRefs, InInventory, Entries
<1> QED BY <1>2, <1>3

(* A verified current item is an announcement of the list it comes from, so  *)
(* its key is one of the table's.                                            *)
LEMMA VerifiedItem ==
  ASSUME TypeOK, TodoOK, NEW t \in Thread, InRefs(t) \/ InInventory(t), ItemVerified(t)
  PROVE  LET a == CurrentItem(t) IN
         /\ InRefs(t) => /\ a \in RefsItem /\ a \in RefsAnnouncement
                         /\ RefsVerified(a)
                         /\ RefsKey(a) \in Node \X Rid
         /\ InInventory(t) => /\ a \in InventoryItem /\ a \in InventoryAnnouncement
                              /\ InventoryVerified(a)
                              /\ InventoryKey(a) \in Node
         /\ a # None /\ a.ts \in Nat
<1> DEFINE a == CurrentItem(t)
<1>1. a \notin Unusable
  BY DEF ItemVerified
<1>2. CASE InRefs(t)
  <2>1. a \in RefsItem /\ RefsVerified(a)
    BY <1>1, <1>2, CurrentItemType DEF RefsEntry, ItemVerified
  <2>2. a \in RefsAnnouncement
    BY <2>1, ItemTypes
  <2>3. a.node \in Node /\ a.rid \in Rid /\ a.ts \in Nat /\ a # None
    BY <2>2, NoneAssumption DEF RefsAnnouncement
  <2>4. ~InInventory(t)
    BY <1>2 DEF InRefs, InInventory
  <2> QED BY <2>1, <2>2, <2>3, <2>4 DEF RefsKey
<1>3. CASE InInventory(t)
  <2>1. ~InRefs(t)
    BY <1>3 DEF InRefs, InInventory
  <2>2. a \in InventoryItem /\ InventoryVerified(a)
    BY <1>1, <1>3, <2>1, CurrentItemType DEF InventoryEntry, ItemVerified
  <2>3. a \in InventoryAnnouncement
    BY <2>2, ItemTypes
  <2>4. a.node \in Node /\ a.ts \in Nat /\ a # None
    BY <2>3, NoneAssumption DEF InventoryAnnouncement
  <2> QED BY <2>1, <2>2, <2>3, <2>4 DEF InventoryKey
<1> QED BY <1>2, <1>3

-----------------------------------------------------------------------------
(* A new GossipState is empty, and no thread has an item. *)
LEMMA InitIInv == Init => IInv
<1> SUFFICES ASSUME Init PROVE IInv
  OBVIOUS
<1>1. Empty \in Entries /\ Empty \in [refs : Seq(RefsEntry), inventory : Seq(InventoryEntry)]
  BY DEF Empty, Entries
<1>2. TypeOK
  BY <1>1 DEF Init, TypeOK, RefsTable, InventoryTable
<1>3. TodoOK
  BY <1>1 DEF Init, TodoOK
<1>4. ItemOK /\ Authentic
  BY DEF Init, ItemOK, Authentic
<1> QED BY <1>2, <1>3, <1>4 DEF IInv

(* An item that is dropped: the thread's frame stays well formed. *)
LEMMA DropItemPreserves ==
  ASSUME IInv, NEW t \in Thread, InRefs(t) \/ InInventory(t), DropItem(t)
  PROVE  /\ pc' \in [Thread -> Places]
         /\ todo' \in [Thread -> Entries]
         /\ TodoOK'
         /\ ItemOK'
<1>1. /\ Rest(t) \in Entries
      /\ Rest(t) \in [refs : Seq(RefsEntry), inventory : Seq(InventoryEntry)]
  BY CurrentItemType DEF IInv
<1>2. /\ pc' = [pc EXCEPT ![t] = "next"]
      /\ todo' = [todo EXCEPT ![t] = Rest(t)]
  BY DEF DropItem
<1>3. /\ pc' \in [Thread -> Places]
      /\ todo' \in [Thread -> Entries]
  BY <1>1, <1>2 DEF IInv, TypeOK
<1>4. TodoOK'
  BY <1>1, <1>2 DEF IInv, TodoOK
<1>5. ItemOK'
  <2> SUFFICES ASSUME NEW s \in Thread, pc'[s] \in {"read", "write"}
               PROVE  (InRefs(s) \/ InInventory(s))' /\ ItemVerified(s)'
    BY DEF ItemOK
  <2>1. s # t /\ pc[s] = pc'[s] /\ todo'[s] = todo[s]
    BY <1>2 DEF IInv, TypeOK
  <2> QED BY <2>1 DEF IInv, ItemOK, ItemVerified, InRefs, InInventory, CurrentItem
<1> QED BY <1>3, <1>4, <1>5

(* The tables are written with verified announcements under their own keys.  *)
LEMMA StoreRefsPreserves ==
  ASSUME IInv, NEW t \in Thread, StoreRefs(t)
  PROVE  refs' \in RefsTable /\ Authentic'
<1> DEFINE a == CurrentItem(t)
<1>1. InRefs(t) /\ ItemVerified(t)
  BY DEF StoreRefs, IInv, ItemOK
<1>2. a \in RefsAnnouncement /\ RefsVerified(a) /\ RefsKey(a) \in Node \X Rid
  BY <1>1, VerifiedItem DEF IInv
<1>3. refs' = [refs EXCEPT ![RefsKey(a)] = a] /\ inventory' = inventory
  BY DEF StoreRefs
<1>4. refs' \in RefsTable
  BY <1>2, <1>3 DEF IInv, TypeOK, RefsTable
<1>5. \A k \in Node \X Rid : refs'[k] = IF k = RefsKey(a) THEN a ELSE refs[k]
  BY <1>2, <1>3 DEF IInv, TypeOK, RefsTable
<1>6. \A k \in Node \X Rid :
        refs'[k] # None => RefsVerified(refs'[k]) /\ RefsKey(refs'[k]) = k
  BY <1>2, <1>5 DEF IInv, Authentic
<1> QED BY <1>3, <1>4, <1>6 DEF IInv, Authentic

(* The same of the inventory table. *)
LEMMA StoreInventoryPreserves ==
  ASSUME IInv, NEW t \in Thread, StoreInventory(t)
  PROVE  inventory' \in InventoryTable /\ Authentic'
<1> DEFINE a == CurrentItem(t)
<1>1. InInventory(t) /\ ItemVerified(t)
  BY DEF StoreInventory, IInv, ItemOK
<1>2. /\ a \in InventoryAnnouncement /\ InventoryVerified(a)
      /\ InventoryKey(a) \in Node /\ a.node = InventoryKey(a)
  BY <1>1, VerifiedItem DEF IInv, InventoryKey
<1>3. inventory' = [inventory EXCEPT ![InventoryKey(a)] = a] /\ refs' = refs
  BY DEF StoreInventory
<1>4. inventory' \in InventoryTable
  BY <1>2, <1>3 DEF IInv, TypeOK, InventoryTable
<1>5. \A n \in Node : inventory'[n] = IF n = InventoryKey(a) THEN a ELSE inventory[n]
  BY <1>2, <1>3 DEF IInv, TypeOK, InventoryTable
<1>6. \A n \in Node :
        inventory'[n] # None => InventoryVerified(inventory'[n]) /\ inventory'[n].node = n
  BY <1>2, <1>5 DEF IInv, Authentic
<1> QED BY <1>3, <1>4, <1>6 DEF IInv, Authentic

(* Steps that only move the program counter of a thread to a place where the *)
(* item is known to verify, or away from one.                                *)
LEMMA MovePreserves ==
  ASSUME IInv, NEW t \in Thread, NEW where \in Places,
         pc' = [pc EXCEPT ![t] = where],
         where \in {"read", "write"} => (InRefs(t) \/ InInventory(t)) /\ ItemVerified(t),
         UNCHANGED <<refs, inventory, bundle, todo, accepted>>
  PROVE  IInv'
<1>1. TypeOK'
  BY DEF IInv, TypeOK
<1>2. TodoOK' /\ Authentic'
  BY DEF IInv, TodoOK, Authentic
<1>3. ItemOK'
  <2> SUFFICES ASSUME NEW s \in Thread, pc'[s] \in {"read", "write"}
               PROVE  (InRefs(s) \/ InInventory(s))' /\ ItemVerified(s)'
    BY DEF ItemOK
  <2>1. (InRefs(s) \/ InInventory(s)) /\ ItemVerified(s)
    BY DEF IInv, TypeOK, ItemOK
  <2> QED BY <2>1 DEF ItemVerified, InRefs, InInventory, CurrentItem
<1> QED BY <1>1, <1>2, <1>3 DEF IInv

(* Every step of every thread preserves the inductive invariant. *)
LEMMA NextIInv == IInv /\ [Next]_vars => IInv'
<1> SUFFICES ASSUME IInv, [Next]_vars PROVE IInv'
  OBVIOUS
<1>1. ASSUME NEW t \in Thread, Receive(t) PROVE IInv'
  <2>1. PICK b \in Bundle : bundle' = [bundle EXCEPT ![t] = b] /\ todo' = [todo EXCEPT ![t] = b]
    BY <1>1 DEF Receive
  <2>2. b \in Entries /\ b \in [refs : Seq(RefsEntry), inventory : Seq(InventoryEntry)]
    BY BundleAssumption, BundleEntries
  <2>3. TypeOK' /\ TodoOK'
    BY <1>1, <2>1, <2>2 DEF Receive, IInv, TypeOK, TodoOK
  <2>4. ItemOK'
    <3> SUFFICES ASSUME NEW s \in Thread, pc'[s] \in {"read", "write"}
                 PROVE  (InRefs(s) \/ InInventory(s))' /\ ItemVerified(s)'
      BY DEF ItemOK
    <3>1. s # t /\ pc[s] = pc'[s] /\ todo'[s] = todo[s]
      BY <1>1, <2>1 DEF Receive, IInv, TypeOK
    <3> QED BY <3>1 DEF IInv, ItemOK, ItemVerified, InRefs, InInventory, CurrentItem
  <2> QED BY <1>1, <2>3, <2>4 DEF Receive, IInv, Authentic
<1>2. ASSUME NEW t \in Thread, Skip(t) PROVE IInv'
  BY <1>2, DropItemPreserves DEF Skip, IInv, TypeOK, Authentic
<1>3. ASSUME NEW t \in Thread, Verify(t) PROVE IInv'
  BY <1>3, MovePreserves DEF Verify
<1>4. ASSUME NEW t \in Thread, ReadCurrent(t) PROVE IInv'
  <2>1. (InRefs(t) \/ InInventory(t)) /\ ItemVerified(t)
    BY <1>4 DEF ReadCurrent, IInv, ItemOK
  <2>2. CASE DropItem(t)
    BY <1>4, <2>1, <2>2, DropItemPreserves DEF ReadCurrent, IInv, TypeOK, Authentic
  <2>3. CASE pc' = [pc EXCEPT ![t] = "write"] /\ UNCHANGED todo
    BY <1>4, <2>1, <2>3, MovePreserves DEF ReadCurrent
  <2> QED BY <1>4, <2>2, <2>3 DEF ReadCurrent
<1>5. ASSUME NEW t \in Thread, StoreRefs(t) PROVE IInv'
  <2>1. accepted' \in [Thread -> Nat] /\ bundle' = bundle /\ inventory' = inventory
    BY <1>5 DEF StoreRefs, IInv, TypeOK
  <2> QED BY <1>5, <2>1, DropItemPreserves, StoreRefsPreserves DEF StoreRefs, IInv, TypeOK
<1>6. ASSUME NEW t \in Thread, StoreInventory(t) PROVE IInv'
  <2>1. accepted' \in [Thread -> Nat] /\ bundle' = bundle /\ refs' = refs
    BY <1>6 DEF StoreInventory, IInv, TypeOK
  <2> QED BY <1>6, <2>1, DropItemPreserves, StoreInventoryPreserves
          DEF StoreInventory, IInv, TypeOK
<1>7. ASSUME NEW t \in Thread, Return(t) PROVE IInv'
  BY <1>7, MovePreserves DEF Return
<1>8. ASSUME NEW t \in Thread, Overflow(t) PROVE IInv'
  BY <1>8, MovePreserves DEF Overflow
<1>9. CASE UNCHANGED vars
  BY <1>9 DEF vars, IInv, TypeOK, TodoOK, ItemOK, Authentic, ItemVerified,
              InRefs, InInventory, CurrentItem
<1> QED BY <1>1, <1>2, <1>3, <1>4, <1>5, <1>6, <1>7, <1>8, <1>9 DEF Next, Step

(* The inductive invariant holds of every behaviour. *)
THEOREM Invariance == Spec => []IInv
BY InitIInv, NextIInv, PTL DEF Spec

(* Type correctness, for any threads and any bundles. *)
THEOREM TypeCorrect == Spec => []TypeOK
BY Invariance, PTL DEF IInv

(* Whatever the number of threads and however their steps interleave, the    *)
(* tables hold only verified announcements, each under its own key.          *)
THEOREM Authenticity == Spec => []Authentic
BY Invariance, PTL DEF IInv

-----------------------------------------------------------------------------
(* One thread feeds the state: what it read is still there when it writes. *)
OneThread == \A s, t \in Thread : s = t

WriteFresh == \A t \in Thread : pc[t] = "write" => ~Stale(CurrentItem(t), Held(t))

SInv == IInv /\ WriteFresh

(* No other thread can write between a read and the write that follows it.   *)
LEMMA NextWriteFresh ==
  ASSUME OneThread, SInv, [Next]_vars
  PROVE  WriteFresh'
<1> SUFFICES ASSUME NEW t \in Thread, pc'[t] = "write"
             PROVE  ~Stale(CurrentItem(t), Held(t))'
  BY DEF WriteFresh
<1>0. pc \in [Thread -> Places]
  BY DEF SInv, IInv, TypeOK
<1>1. CASE UNCHANGED vars
  BY <1>1 DEF vars, SInv, WriteFresh, Stale, Held, CurrentItem, InRefs
<1>2. CASE Receive(t)
  BY <1>0, <1>2 DEF Receive
<1>3. CASE Skip(t)
  BY <1>0, <1>3 DEF Skip, DropItem
<1>4. CASE Verify(t)
  BY <1>0, <1>4 DEF Verify
<1>5. CASE ReadCurrent(t)
  <2>1. ~DropItem(t)
    BY <1>0 DEF DropItem
  <2>2. ~Stale(CurrentItem(t), Held(t)) /\ UNCHANGED <<refs, inventory, todo>>
    BY <1>5, <2>1 DEF ReadCurrent
  <2> QED BY <2>2 DEF Stale, Held, CurrentItem, InRefs
<1>6. CASE StoreRefs(t) \/ StoreInventory(t)
  BY <1>0, <1>6 DEF StoreRefs, StoreInventory, DropItem
<1>7. CASE Return(t) \/ Overflow(t)
  BY <1>0, <1>7 DEF Return, Overflow
<1>8. \A s \in Thread : s = t
  BY DEF OneThread
<1> QED BY <1>1, <1>2, <1>3, <1>4, <1>5, <1>6, <1>7, <1>8 DEF Next, Step

(* With one thread the stronger invariant holds of every behaviour. *)
LEMMA SingleInvariance == ASSUME OneThread PROVE Spec => []SInv
<1>1. Init => SInv
  BY InitIInv DEF Init, SInv, WriteFresh
<1>2. SInv /\ [Next]_vars => SInv'
  BY NextIInv, NextWriteFresh DEF SInv
<1> QED BY <1>1, <1>2, PTL DEF Spec

(* A store offers a fresher, valid item of a bundle to the table it writes.  *)
LEMMA StoreRefsOffers ==
  ASSUME SInv, NEW t \in Thread, StoreRefs(t)
  PROVE  \E a \in RefsItem : RefsView!Offer(a)
<1> DEFINE a == CurrentItem(t)
<1>1. InRefs(t) /\ ItemVerified(t) /\ ~Stale(a, Held(t))
  BY DEF StoreRefs, SInv, IInv, ItemOK, WriteFresh
<1>2. a \in RefsItem /\ RefsVerified(a) /\ RefsKey(a) \in Node \X Rid /\ a.ts \in Nat
  BY <1>1, VerifiedItem DEF SInv, IInv
<1>3. Held(t) = refs[RefsKey(a)]
  BY <1>1 DEF Held
<1>4. refs[RefsKey(a)] # None => refs[RefsKey(a)].ts \in Nat
  BY <1>2 DEF SInv, IInv, TypeOK, RefsTable, RefsAnnouncement
<1>5. RefsView!Fresher(a)
  BY <1>1, <1>2, <1>3, <1>4 DEF RefsView!Fresher, Stale, TimeOf
<1> QED BY <1>2, <1>5 DEF RefsView!Offer, StoreRefs

(* The same of the inventory table. *)
LEMMA StoreInventoryOffers ==
  ASSUME SInv, NEW t \in Thread, StoreInventory(t)
  PROVE  \E a \in InventoryItem : InventoryView!Offer(a)
<1> DEFINE a == CurrentItem(t)
<1>1. InInventory(t) /\ ~InRefs(t) /\ ItemVerified(t) /\ ~Stale(a, Held(t))
  BY DEF StoreInventory, SInv, IInv, ItemOK, WriteFresh, InInventory, InRefs
<1>2. /\ a \in InventoryItem /\ InventoryVerified(a)
      /\ InventoryKey(a) \in Node /\ a.ts \in Nat
  BY <1>1, VerifiedItem DEF SInv, IInv
<1>3. Held(t) = inventory[InventoryKey(a)]
  BY <1>1 DEF Held
<1>4. inventory[InventoryKey(a)] # None => inventory[InventoryKey(a)].ts \in Nat
  BY <1>2 DEF SInv, IInv, TypeOK, InventoryTable, InventoryAnnouncement
<1>5. InventoryView!Fresher(a)
  BY <1>1, <1>2, <1>3, <1>4 DEF InventoryView!Fresher, Stale, TimeOf
<1> QED BY <1>2, <1>5 DEF InventoryView!Offer, StoreInventory

(* Every step but StoreRefs leaves the refs table alone. *)
LEMMA RefsStep ==
  ASSUME SInv, [Next]_vars
  PROVE  (\E a \in RefsItem : RefsView!Offer(a)) \/ refs' = refs
BY StoreRefsOffers
   DEF Next, Step, Receive, Skip, Overflow, Verify, ReadCurrent, StoreInventory, Return, vars

(* Every step but StoreInventory leaves the inventory table alone. *)
LEMMA InventoryStep ==
  ASSUME SInv, [Next]_vars
  PROVE  (\E a \in InventoryItem : InventoryView!Offer(a)) \/ inventory' = inventory
BY StoreInventoryOffers
   DEF Next, Step, Receive, Skip, Overflow, Verify, ReadCurrent, StoreRefs, Return, vars

(* Fed by one thread, the refs table is the keep-the-freshest register of    *)
(* FreshestView: reading and writing separately makes no difference.         *)
THEOREM RefsRefinement == ASSUME OneThread PROVE Spec => RefsView!Spec
<1>1. Init => RefsView!Init
  BY DEF Init, RefsView!Init
<1>2. SInv /\ [Next]_vars => [RefsView!Next]_refs
  BY RefsStep DEF RefsView!Next
<1> QED BY <1>1, <1>2, SingleInvariance, PTL DEF Spec, RefsView!Spec

(* The same of the inventory table. *)
THEOREM InventoryRefinement == ASSUME OneThread PROVE Spec => InventoryView!Spec
<1>1. Init => InventoryView!Init
  BY DEF Init, InventoryView!Init
<1>2. SInv /\ [Next]_vars => [InventoryView!Next]_inventory
  BY InventoryStep DEF InventoryView!Next
<1> QED BY <1>1, <1>2, SingleInvariance, PTL DEF Spec, InventoryView!Spec

(* Fed by one thread, a GossipState implements the abstract specification.   *)
THEOREM Refinement == ASSUME OneThread PROVE Spec => ImplementsViews
BY RefsRefinement, InventoryRefinement DEF ImplementsViews

(* Fed by one thread, no entry is replaced but by one of a later timestamp.  *)
THEOREM Freshness == ASSUME OneThread PROVE Spec => NeverBackward
<1> DEFINE RefsForward ==
             \A k \in Node \X Rid :
               refs[k] # None => refs'[k] = refs[k] \/ refs'[k].ts > refs[k].ts
           InventoryForward ==
             \A n \in Node :
               inventory[n] # None =>
                 inventory'[n] = inventory[n] \/ inventory'[n].ts > inventory[n].ts
<1>1. ASSUME SInv, [Next]_vars PROVE RefsForward
  <2>1. CASE refs' = refs
    BY <2>1
  <2>2. CASE \E a \in RefsItem : RefsView!Offer(a)
    BY <1>1, <2>2, ItemTypes
       DEF RefsView!Offer, RefsView!Fresher, TimeOf, SInv, IInv, TypeOK, RefsTable
  <2> QED BY <1>1, <2>1, <2>2, RefsStep
<1>2. ASSUME SInv, [Next]_vars PROVE InventoryForward
  <2>1. CASE inventory' = inventory
    BY <2>1
  <2>2. CASE \E a \in InventoryItem : InventoryView!Offer(a)
    BY <1>2, <2>2, ItemTypes
       DEF InventoryView!Offer, InventoryView!Fresher, TimeOf, SInv, IInv, TypeOK,
           InventoryTable
  <2> QED BY <1>2, <2>1, <2>2, InventoryStep
<1>3. SInv /\ [Next]_vars => [RefsForward /\ InventoryForward]_vars
  BY <1>1, <1>2
<1> QED BY <1>3, SingleInvariance, PTL DEF Spec, NeverBackward
-----------------------------------------------------------------------------
(* What becomes of the entries of a bundle that one thread feeds the state.  *)
RefsHeldIn(table, a) ==
  a \notin Unusable /\ RefsVerified(a) => table[RefsKey(a)] # None /\ table[RefsKey(a)].ts >= a.ts
InventoryHeldIn(table, a) ==
  a \notin Unusable /\ InventoryVerified(a) => table[a.node] # None /\ table[a.node].ts >= a.ts

(* What is still to do is the end of a list ... *)
Behind(rest, all) == /\ Len(rest) <= Len(all)
                     /\ \A i \in 1..Len(rest) : rest[i] = all[(Len(all) - Len(rest)) + i]

(* ... and what is in front of it in the bundle is held. *)
DoneOK ==
  \A t \in Thread :
    /\ pc[t] = "idle" => todo[t] = Empty
    /\ Behind(todo[t].refs, bundle[t].refs)
    /\ Behind(todo[t].inventory, bundle[t].inventory)
    /\ \A i \in 1..(Len(bundle[t].refs) - Len(todo[t].refs)) :
         RefsHeldIn(refs, bundle[t].refs[i])
    /\ \A i \in 1..(Len(bundle[t].inventory) - Len(todo[t].inventory)) :
         InventoryHeldIn(inventory, bundle[t].inventory[i])

(* One more entry is dealt with: the first of those to do.                   *)
LEMMA TailBehind ==
  ASSUME NEW S, NEW all \in Seq(S), NEW T, NEW s \in Seq(T), s # <<>>, Behind(s, all)
  PROVE  /\ Behind(Tail(s), all)
         /\ Len(all) - Len(Tail(s)) = (Len(all) - Len(s)) + 1
         /\ (Len(all) - Len(s)) + 1 \in 1..Len(all)
         /\ all[(Len(all) - Len(s)) + 1] = Head(s)
<1>1. /\ Len(s) \in Nat \ {0} /\ Len(all) \in Nat /\ Len(Tail(s)) = Len(s) - 1
      /\ Head(s) = s[1]
      /\ \A i \in 1..Len(Tail(s)) : i + 1 \in 1..Len(s) /\ Tail(s)[i] = s[i + 1]
  OBVIOUS
<1>2. /\ Len(s) <= Len(all)
      /\ \A i \in 1..Len(s) : s[i] = all[(Len(all) - Len(s)) + i]
  BY DEF Behind
<1>3. all[(Len(all) - Len(s)) + 1] = Head(s)
  BY <1>1, <1>2
<1>4. ASSUME NEW i \in 1..Len(Tail(s)) PROVE Tail(s)[i] = all[(Len(all) - Len(Tail(s))) + i]
  <2>1. Tail(s)[i] = all[(Len(all) - Len(s)) + (i + 1)]
    BY <1>1, <1>2
  <2>2. (Len(all) - Len(s)) + (i + 1) = (Len(all) - Len(Tail(s))) + i
    BY <1>1
  <2> QED BY <2>1, <2>2
<1> QED BY <1>1, <1>2, <1>3, <1>4 DEF Behind

(* Fed by one thread, a table never forgets how fresh it was.                *)
LEMMA RefsKept ==
  ASSUME SInv, [Next]_vars, NEW a \in RefsAnnouncement \cup Unusable, RefsHeldIn(refs, a)
  PROVE  RefsHeldIn(refs', a)
<1> SUFFICES ASSUME a \notin Unusable, RefsVerified(a) PROVE RefsHeldIn(refs', a)
  BY DEF RefsHeldIn
<1> DEFINE k == RefsKey(a)
<1>1. k \in Node \X Rid /\ a.ts \in Nat
  BY DEF RefsAnnouncement, RefsKey
<1>2. refs[k] # None /\ refs[k].ts >= a.ts /\ refs[k].ts \in Nat
  BY <1>1 DEF RefsHeldIn, SInv, IInv, TypeOK, RefsTable, RefsAnnouncement
<1>3. CASE refs' = refs
  BY <1>2, <1>3 DEF RefsHeldIn
<1>4. ASSUME NEW b \in RefsItem, RefsView!Offer(b) PROVE RefsHeldIn(refs', a)
  <2>1. b \in RefsAnnouncement /\ b # None /\ b.ts \in Nat
    BY ItemTypes, NoneAssumption DEF RefsAnnouncement
  <2>2. refs'[k] = IF k = RefsKey(b) THEN b ELSE refs[k]
    BY <1>1, <1>4 DEF RefsView!Offer, SInv, IInv, TypeOK, RefsTable
  <2>3. k = RefsKey(b) => b.ts > refs[k].ts
    BY <1>2, <1>4 DEF RefsView!Offer, RefsView!Fresher, TimeOf
  <2> QED BY <1>1, <1>2, <2>1, <2>2, <2>3 DEF RefsHeldIn
<1> QED BY <1>3, <1>4, RefsStep

(* The same of the inventory table. *)
LEMMA InventoryKept ==
  ASSUME SInv, [Next]_vars, NEW a \in InventoryAnnouncement \cup Unusable,
         InventoryHeldIn(inventory, a)
  PROVE  InventoryHeldIn(inventory', a)
<1> SUFFICES ASSUME a \notin Unusable, InventoryVerified(a) PROVE InventoryHeldIn(inventory', a)
  BY DEF InventoryHeldIn
<1> DEFINE k == a.node
<1>1. k \in Node /\ a.ts \in Nat
  BY DEF InventoryAnnouncement
<1>2. inventory[k] # None /\ inventory[k].ts >= a.ts /\ inventory[k].ts \in Nat
  BY <1>1 DEF InventoryHeldIn, SInv, IInv, TypeOK, InventoryTable, InventoryAnnouncement
<1>3. CASE inventory' = inventory
  BY <1>2, <1>3 DEF InventoryHeldIn
<1>4. ASSUME NEW b \in InventoryItem, InventoryView!Offer(b) PROVE InventoryHeldIn(inventory', a)
  <2>1. b \in InventoryAnnouncement /\ b # None /\ b.ts \in Nat
    BY ItemTypes, NoneAssumption DEF InventoryAnnouncement
  <2>2. inventory'[k] = IF k = InventoryKey(b) THEN b ELSE inventory[k]
    BY <1>1, <1>4 DEF InventoryView!Offer, SInv, IInv, TypeOK, InventoryTable
  <2>3. k = InventoryKey(b) => b.ts > inventory[k].ts
    BY <1>2, <1>4 DEF InventoryView!Offer, InventoryView!Fresher, TimeOf
  <2> QED BY <1>1, <1>2, <2>1, <2>2, <2>3 DEF InventoryHeldIn
<1> QED BY <1>3, <1>4, InventoryStep

(* A list that is longer by one. *)
LEMMA OneMore ==
  ASSUME NEW a \in Nat, NEW b \in Nat, NEW m, m = (a - b) + 1, NEW i \in 1..m
  PROVE  i \in 1..(a - b) \/ i = (a - b) + 1
  OBVIOUS

(* What a bundle's entries are. *)
LEMMA BundleItems ==
  ASSUME IInv, NEW t \in Thread
  PROVE  /\ bundle[t].refs \in Seq(RefsAnnouncement \cup Unusable)
         /\ bundle[t].inventory \in Seq(InventoryAnnouncement \cup Unusable)
         /\ todo[t].refs \in Seq(RefsEntry) /\ todo[t].inventory \in Seq(InventoryEntry)
BY DEF IInv, TypeOK, TodoOK, Entries

(* What is held stays held. *)
LEMMA FrontKept ==
  ASSUME SInv, DoneOK, [Next]_vars, NEW t \in Thread
  PROVE  /\ \A i \in 1..(Len(bundle[t].refs) - Len(todo[t].refs)) :
              RefsHeldIn(refs', bundle[t].refs[i])
         /\ \A i \in 1..(Len(bundle[t].inventory) - Len(todo[t].inventory)) :
              InventoryHeldIn(inventory', bundle[t].inventory[i])
<1> DEFINE br == bundle[t].refs
           bi == bundle[t].inventory
<1>1. /\ br \in Seq(RefsAnnouncement \cup Unusable)
      /\ bi \in Seq(InventoryAnnouncement \cup Unusable)
      /\ Len(todo[t].refs) \in Nat /\ Len(todo[t].inventory) \in Nat
  BY BundleItems DEF SInv
<1>2. \A i \in 1..(Len(br) - Len(todo[t].refs)) :
        br[i] \in RefsAnnouncement \cup Unusable /\ RefsHeldIn(refs, br[i])
  BY <1>1 DEF DoneOK
<1>3. \A i \in 1..(Len(bi) - Len(todo[t].inventory)) :
        bi[i] \in InventoryAnnouncement \cup Unusable /\ InventoryHeldIn(inventory, bi[i])
  BY <1>1 DEF DoneOK
<1> QED BY <1>2, <1>3, RefsKept, InventoryKept

(* An item may be dropped when it is held, or not worth holding.             *)
LEMMA DropDone ==
  ASSUME OneThread, SInv, DoneOK, [Next]_vars, NEW t \in Thread, DropItem(t),
         InRefs(t) \/ InInventory(t), bundle' = bundle,
         InRefs(t) => RefsHeldIn(refs', CurrentItem(t)),
         InInventory(t) => InventoryHeldIn(inventory', CurrentItem(t))
  PROVE  DoneOK'
<1> DEFINE r == todo[t].refs
           v == todo[t].inventory
           br == bundle[t].refs
           bi == bundle[t].inventory
<1>1. /\ todo[t] = [refs |-> r, inventory |-> v]
      /\ r \in Seq(RefsEntry) /\ v \in Seq(InventoryEntry)
      /\ br \in Seq(RefsAnnouncement \cup Unusable)
      /\ bi \in Seq(InventoryAnnouncement \cup Unusable)
  BY BundleItems DEF SInv, IInv, TodoOK
<1>2. pc'[t] = "next" /\ todo'[t] = Rest(t)
  BY DEF DropItem, SInv, IInv, TypeOK
<1>3. /\ \A i \in 1..(Len(br) - Len(r)) : RefsHeldIn(refs', br[i])
      /\ \A i \in 1..(Len(bi) - Len(v)) : InventoryHeldIn(inventory', bi[i])
  BY FrontKept
<1>4. Behind(r, br) /\ Behind(v, bi)
  BY DEF DoneOK
<1>5. SUFFICES /\ Behind(todo'[t].refs, br) /\ Behind(todo'[t].inventory, bi)
               /\ \A i \in 1..(Len(br) - Len(todo'[t].refs)) : RefsHeldIn(refs', br[i])
               /\ \A i \in 1..(Len(bi) - Len(todo'[t].inventory)) :
                    InventoryHeldIn(inventory', bi[i])
  BY <1>2 DEF DoneOK, OneThread
<1>6. CASE InRefs(t)
  <2>1. r # <<>> /\ CurrentItem(t) = Head(r) /\ Rest(t) = [refs |-> Tail(r), inventory |-> v]
    BY <1>1, <1>6 DEF InRefs, CurrentItem, Rest
  <2>2. todo'[t].refs = Tail(r) /\ todo'[t].inventory = v /\ RefsHeldIn(refs', Head(r))
    BY <1>2, <1>6, <2>1
  <2>3. /\ Behind(Tail(r), br)
        /\ Len(br) - Len(Tail(r)) = (Len(br) - Len(r)) + 1
        /\ br[(Len(br) - Len(r)) + 1] = Head(r)
    BY <1>1, <1>4, <2>1, TailBehind
  <2>4. Len(br) \in Nat /\ Len(r) \in Nat
    BY <1>1
  <2>5. \A i \in 1..(Len(br) - Len(Tail(r))) : RefsHeldIn(refs', br[i])
    <3> SUFFICES ASSUME NEW i \in 1..(Len(br) - Len(Tail(r))) PROVE RefsHeldIn(refs', br[i])
      OBVIOUS
    <3>1. i \in 1..(Len(br) - Len(r)) \/ i = (Len(br) - Len(r)) + 1
      BY <2>3, <2>4, OneMore
    <3> QED BY <1>3, <2>2, <2>3, <3>1
  <2> QED BY <1>3, <1>4, <2>2, <2>3, <2>5
<1>7. CASE ~InRefs(t) /\ InInventory(t)
  <2>1. v # <<>> /\ CurrentItem(t) = Head(v) /\ Rest(t) = [refs |-> r, inventory |-> Tail(v)]
    BY <1>1, <1>7 DEF InInventory, InRefs, CurrentItem, Rest
  <2>2. /\ todo'[t].refs = r /\ todo'[t].inventory = Tail(v)
        /\ InventoryHeldIn(inventory', Head(v))
    BY <1>2, <1>7, <2>1
  <2>3. /\ Behind(Tail(v), bi)
        /\ Len(bi) - Len(Tail(v)) = (Len(bi) - Len(v)) + 1
        /\ bi[(Len(bi) - Len(v)) + 1] = Head(v)
    BY <1>1, <1>4, <2>1, TailBehind
  <2>4. Len(bi) \in Nat /\ Len(v) \in Nat
    BY <1>1
  <2>5. \A i \in 1..(Len(bi) - Len(Tail(v))) : InventoryHeldIn(inventory', bi[i])
    <3> SUFFICES ASSUME NEW i \in 1..(Len(bi) - Len(Tail(v)))
                 PROVE  InventoryHeldIn(inventory', bi[i])
      OBVIOUS
    <3>1. i \in 1..(Len(bi) - Len(v)) \/ i = (Len(bi) - Len(v)) + 1
      BY <2>3, <2>4, OneMore
    <3> QED BY <1>3, <2>2, <2>3, <3>1
  <2> QED BY <1>3, <1>4, <2>2, <2>3, <2>5
<1> QED BY <1>6, <1>7

(* With one thread, entries are dealt with or still to do in every state.    *)
LEMMA NextDoneOK ==
  ASSUME OneThread, SInv, DoneOK, [Next]_vars
  PROVE  DoneOK'
<1>1. ASSUME NEW t \in Thread, Receive(t) PROVE DoneOK'
  <2>1. pc'[t] = "next" /\ todo'[t] = bundle'[t]
    BY <1>1 DEF Receive, SInv, IInv, TypeOK
  <2>2. /\ Len(bundle'[t].refs) \in Nat /\ Len(bundle'[t].inventory) \in Nat
        /\ bundle'[t] \in Entries
    <3>1. PICK b \in Bundle : bundle'[t] = b
      BY <1>1 DEF Receive, SInv, IInv, TypeOK
    <3> QED BY <3>1, BundleAssumption DEF Entries
  <2>3. /\ Behind(todo'[t].refs, bundle'[t].refs)
        /\ Behind(todo'[t].inventory, bundle'[t].inventory)
        /\ 1..(Len(bundle'[t].refs) - Len(todo'[t].refs)) = {}
        /\ 1..(Len(bundle'[t].inventory) - Len(todo'[t].inventory)) = {}
    BY <2>1, <2>2 DEF Behind
  <2> QED BY <2>1, <2>3 DEF DoneOK, OneThread
<1>2. ASSUME NEW t \in Thread, Skip(t) PROVE DoneOK'
  <2>1. /\ InRefs(t) => RefsHeldIn(refs', CurrentItem(t))
        /\ InInventory(t) => ~InRefs(t) /\ InventoryHeldIn(inventory', CurrentItem(t))
    BY <1>2 DEF Skip, ItemVerified, RefsHeldIn, InventoryHeldIn, InRefs, InInventory
  <2> QED BY <1>2, <2>1, DropDone DEF Skip
<1>3. ASSUME NEW t \in Thread, ReadCurrent(t), DropItem(t) PROVE DoneOK'
  <2>1. (InRefs(t) \/ InInventory(t)) /\ ItemVerified(t)
    BY <1>3 DEF ReadCurrent, SInv, IInv, ItemOK
  <2>2. Stale(CurrentItem(t), Held(t))
    BY <1>3 DEF ReadCurrent, DropItem, SInv, IInv, TypeOK
  <2>3. CurrentItem(t).ts \in Nat /\ refs' = refs /\ inventory' = inventory
    BY <1>3, <2>1, VerifiedItem DEF ReadCurrent, SInv, IInv
  <2>4. InRefs(t) => RefsHeldIn(refs', CurrentItem(t))
    <3>1. ASSUME InRefs(t) PROVE /\ Held(t) = refs[RefsKey(CurrentItem(t))]
                                 /\ RefsKey(CurrentItem(t)) \in Node \X Rid
      BY <2>1, <3>1, VerifiedItem DEF Held, SInv, IInv
    <3> QED BY <2>2, <2>3, <3>1
            DEF Stale, RefsHeldIn, SInv, IInv, TypeOK, RefsTable, RefsAnnouncement
  <2>5. InInventory(t) => InventoryHeldIn(inventory', CurrentItem(t))
    <3>1. ASSUME InInventory(t) PROVE /\ Held(t) = inventory[CurrentItem(t).node]
                                      /\ CurrentItem(t).node \in Node
      BY <2>1, <3>1, VerifiedItem DEF Held, SInv, IInv, InRefs, InInventory, InventoryKey
    <3> QED BY <2>2, <2>3, <3>1
            DEF Stale, InventoryHeldIn, SInv, IInv, TypeOK, InventoryTable, InventoryAnnouncement
  <2> QED BY <1>3, <2>1, <2>4, <2>5, DropDone DEF ReadCurrent
<1>4. ASSUME NEW t \in Thread, StoreRefs(t) PROVE DoneOK'
  <2>1. InRefs(t) /\ ~InInventory(t) /\ ItemVerified(t)
    BY <1>4 DEF StoreRefs, SInv, IInv, ItemOK, InRefs, InInventory
  <2>2. /\ CurrentItem(t) # None /\ CurrentItem(t).ts \in Nat
        /\ RefsKey(CurrentItem(t)) \in Node \X Rid
    BY <2>1, VerifiedItem DEF SInv, IInv
  <2>3. refs'[RefsKey(CurrentItem(t))] = CurrentItem(t)
    BY <1>4, <2>2 DEF StoreRefs, SInv, IInv, TypeOK, RefsTable
  <2> QED BY <1>4, <2>1, <2>2, <2>3, DropDone DEF StoreRefs, RefsHeldIn
<1>5. ASSUME NEW t \in Thread, StoreInventory(t) PROVE DoneOK'
  <2>1. InInventory(t) /\ ~InRefs(t) /\ ItemVerified(t)
    BY <1>5 DEF StoreInventory, SInv, IInv, ItemOK, InRefs, InInventory
  <2>2. /\ CurrentItem(t) # None /\ CurrentItem(t).ts \in Nat
        /\ CurrentItem(t).node \in Node
    BY <2>1, VerifiedItem DEF SInv, IInv, InventoryKey
  <2>3. inventory'[CurrentItem(t).node] = CurrentItem(t)
    BY <1>5, <2>2 DEF StoreInventory, InventoryKey, SInv, IInv, TypeOK, InventoryTable
  <2> QED BY <1>5, <2>1, <2>2, <2>3, DropDone DEF StoreInventory, InventoryHeldIn
<1>6. ASSUME NEW t \in Thread, UNCHANGED <<refs, inventory, bundle, todo>>,
             \A s \in Thread : pc'[s] = "idle" => pc[s] = "idle" \/ todo[s] = Empty
      PROVE DoneOK'
  BY <1>6 DEF DoneOK
<1>7. ASSUME NEW t \in Thread, Verify(t) \/ Return(t) \/ Overflow(t) PROVE DoneOK'
  <2>1. \A s \in Thread : pc'[s] = "idle" => pc[s] = "idle" \/ todo[s] = Empty
    BY <1>7 DEF Verify, Return, Overflow, SInv, IInv, TypeOK
  <2> QED BY <1>6, <1>7, <2>1 DEF Verify, Return, Overflow
<1>8. ASSUME NEW t \in Thread, ReadCurrent(t), ~DropItem(t) PROVE DoneOK'
  <2>1. \A s \in Thread : pc'[s] = "idle" => pc[s] = "idle"
    BY <1>8 DEF ReadCurrent, SInv, IInv, TypeOK
  <2> QED BY <1>6, <1>8, <2>1 DEF ReadCurrent
<1>9. CASE UNCHANGED vars
  BY <1>9 DEF vars, DoneOK
<1> QED BY <1>1, <1>2, <1>3, <1>4, <1>5, <1>7, <1>8, <1>9 DEF Next, Step

(* With one thread, entries are dealt with or still to do throughout.        *)
LEMMA DoneInvariance == ASSUME OneThread PROVE Spec => [](SInv /\ DoneOK)
<1>1. Init => DoneOK
  BY DEF Init, DoneOK, Empty, Behind
<1>2. SInv /\ DoneOK /\ [Next]_vars => DoneOK'
  BY NextDoneOK
<1> QED BY <1>1, <1>2, SingleInvariance, PTL DEF Spec

(* What is in front of the entries to do is the front of the bundle.         *)
LEMMA FrontItems ==
  ASSUME NEW S, NEW all \in Seq(S), NEW T, NEW rest \in Seq(T), Behind(rest, all)
  PROVE  /\ DOMAIN Front(all, rest) = 1..(Len(all) - Len(rest))
         /\ \A i \in DOMAIN Front(all, rest) : Front(all, rest)[i] = all[i]
<1>1. Len(all) \in Nat /\ Len(rest) \in Nat /\ Len(rest) <= Len(all)
  BY DEF Behind
<1> QED BY <1>1 DEF Front

(* Fed by one thread, nothing genuine in a bundle is lost when ingest_bundle *)
(* returns, nor anything in front of an entry that made it raise.            *)
THEOREM NothingLost == ASSUME OneThread PROVE Spec => []BundleIngested
<1>1. SInv /\ DoneOK => BundleIngested
  <2> SUFFICES ASSUME SInv, DoneOK, NEW t \in Thread
               PROVE  /\ pc[t] = "idle" => Covered(bundle[t])
                      /\ Covered(DealtWith(t))
    BY DEF BundleIngested
  <2> DEFINE br == bundle[t].refs
             bi == bundle[t].inventory
  <2>1. /\ br \in Seq(RefsAnnouncement \cup Unusable) /\ todo[t].refs \in Seq(RefsEntry)
        /\ bi \in Seq(InventoryAnnouncement \cup Unusable)
        /\ todo[t].inventory \in Seq(InventoryEntry)
    BY BundleItems DEF SInv
  <2>2. /\ Behind(todo[t].refs, br) /\ Behind(todo[t].inventory, bi)
        /\ \A i \in 1..(Len(br) - Len(todo[t].refs)) : RefsHeldIn(refs, br[i])
        /\ \A i \in 1..(Len(bi) - Len(todo[t].inventory)) : InventoryHeldIn(inventory, bi[i])
    BY DEF DoneOK
  <2>3. ASSUME pc[t] = "idle" PROVE Covered(bundle[t])
    <3>1. Len(todo[t].refs) = 0 /\ Len(todo[t].inventory) = 0
      <4>1. todo[t] = Empty
        BY <2>3 DEF DoneOK
      <4>2. todo[t].refs = <<>> /\ todo[t].inventory = <<>>
        BY <4>1 DEF Empty
      <4> QED BY <4>2
    <3>2. /\ \A i \in DOMAIN br : RefsHeldIn(refs, br[i])
          /\ \A i \in DOMAIN bi : InventoryHeldIn(inventory, bi[i])
      BY <2>1, <2>2, <3>1
    <3> QED BY <3>2 DEF Covered, RefsHeldIn, InventoryHeldIn
  <2>4. Covered(DealtWith(t))
    <3> DEFINE fr == Front(br, todo[t].refs)
               fi == Front(bi, todo[t].inventory)
    <3>1. /\ DOMAIN fr = 1..(Len(br) - Len(todo[t].refs))
          /\ \A i \in DOMAIN fr : fr[i] = br[i]
      BY <2>1, <2>2, FrontItems
    <3>2. /\ DOMAIN fi = 1..(Len(bi) - Len(todo[t].inventory))
          /\ \A i \in DOMAIN fi : fi[i] = bi[i]
      BY <2>1, <2>2, FrontItems
    <3>3. DealtWith(t).refs = fr /\ DealtWith(t).inventory = fi
      BY DEF DealtWith
    <3> HIDE DEF fr, fi
    <3>4. /\ \A i \in DOMAIN fr : RefsHeldIn(refs, fr[i])
          /\ \A i \in DOMAIN fi : InventoryHeldIn(inventory, fi[i])
      BY <2>2, <3>1, <3>2
    <3> QED BY <3>3, <3>4 DEF Covered, RefsHeldIn, InventoryHeldIn
  <2> QED BY <2>3, <2>4
<1> QED BY <1>1, DoneInvariance, PTL

(* Fed by one thread, a bundle that the tables cover already is not counted. *)
THEOREM ReplayCountsNothing == ASSUME OneThread PROVE Spec => ReplayAcceptsNothing
<1> DEFINE Same == \A t \in Thread : pc[t] \notin Ended /\ Covered(bundle[t])
                                       => accepted'[t] = accepted[t]
<1>1. ASSUME SInv, DoneOK, NEW t \in Thread, Covered(bundle[t]), pc[t] = "write" PROVE FALSE
  <2>1. (InRefs(t) \/ InInventory(t)) /\ ItemVerified(t) /\ ~Stale(CurrentItem(t), Held(t))
    BY <1>1 DEF SInv, IInv, ItemOK, WriteFresh
  <2>2. CASE InRefs(t)
    <3>1. PICK i \in DOMAIN bundle[t].refs : bundle[t].refs[i] = CurrentItem(t)
      <4>1. /\ todo[t].refs # <<>> /\ CurrentItem(t) = Head(todo[t].refs)
            /\ Behind(todo[t].refs, bundle[t].refs)
        BY <1>1, <2>2 DEF InRefs, CurrentItem, DoneOK
      <4>2. /\ bundle[t].refs \in Seq(RefsAnnouncement \cup Unusable)
            /\ todo[t].refs \in Seq(RefsEntry)
        BY <1>1, BundleItems DEF SInv
      <4>3. /\ (Len(bundle[t].refs) - Len(todo[t].refs)) + 1 \in 1..Len(bundle[t].refs)
            /\ bundle[t].refs[(Len(bundle[t].refs) - Len(todo[t].refs)) + 1]
                 = Head(todo[t].refs)
        BY <4>1, <4>2, TailBehind
      <4>4. DOMAIN bundle[t].refs = 1..Len(bundle[t].refs)
        BY <4>2
      <4> QED BY <4>1, <4>3, <4>4
    <3>2. RefsHeldIn(refs, CurrentItem(t))
      <4>1. RefsHeldIn(refs, bundle[t].refs[i])
        BY <1>1 DEF Covered, RefsHeldIn
      <4> QED BY <3>1, <4>1
    <3>3. CurrentItem(t) \notin Unusable /\ RefsVerified(CurrentItem(t))
      BY <2>1, <2>2 DEF ItemVerified
    <3>4. CurrentItem(t).ts \in Nat /\ RefsKey(CurrentItem(t)) \in Node \X Rid
      BY <1>1, <2>1, <2>2, VerifiedItem DEF SInv, IInv
    <3> QED BY <1>1, <2>1, <2>2, <3>2, <3>3, <3>4
            DEF Stale, Held, RefsHeldIn, SInv, IInv, TypeOK, RefsTable, RefsAnnouncement
  <2>3. CASE InInventory(t) /\ ~InRefs(t)
    <3>1. PICK i \in DOMAIN bundle[t].inventory : bundle[t].inventory[i] = CurrentItem(t)
      <4>1. /\ todo[t].inventory # <<>> /\ CurrentItem(t) = Head(todo[t].inventory)
            /\ Behind(todo[t].inventory, bundle[t].inventory)
        BY <1>1, <2>3 DEF InInventory, CurrentItem, DoneOK
      <4>2. /\ bundle[t].inventory \in Seq(InventoryAnnouncement \cup Unusable)
            /\ todo[t].inventory \in Seq(InventoryEntry)
        BY <1>1, BundleItems DEF SInv
      <4>3. /\ (Len(bundle[t].inventory) - Len(todo[t].inventory)) + 1 \in 1..Len(bundle[t].inventory)
            /\ bundle[t].inventory[(Len(bundle[t].inventory) - Len(todo[t].inventory)) + 1]
                 = Head(todo[t].inventory)
        BY <4>1, <4>2, TailBehind
      <4>4. DOMAIN bundle[t].inventory = 1..Len(bundle[t].inventory)
        BY <4>2
      <4> QED BY <4>1, <4>3, <4>4
    <3>2. InventoryHeldIn(inventory, CurrentItem(t))
      <4>1. InventoryHeldIn(inventory, bundle[t].inventory[i])
        BY <1>1 DEF Covered, InventoryHeldIn
      <4> QED BY <3>1, <4>1
    <3>3. CurrentItem(t) \notin Unusable /\ InventoryVerified(CurrentItem(t))
      BY <2>1, <2>3 DEF ItemVerified
    <3>4. CurrentItem(t).ts \in Nat /\ InventoryKey(CurrentItem(t)) \in Node
      BY <1>1, <2>1, <2>3, VerifiedItem DEF SInv, IInv
    <3> QED BY <1>1, <2>1, <2>3, <3>2, <3>3, <3>4
            DEF Stale, Held, InventoryHeldIn, InventoryKey, SInv, IInv, TypeOK, InventoryTable,
                InventoryAnnouncement
  <2> QED BY <2>1, <2>2, <2>3
<1>2. SInv /\ DoneOK /\ [Next]_vars => [Same]_vars
  <2> SUFFICES ASSUME SInv, DoneOK, Next, NEW t \in Thread,
                      pc[t] \notin Ended, Covered(bundle[t])
               PROVE  accepted'[t] = accepted[t]
    OBVIOUS
  <2>1. pc[t] # "write"
    BY <1>1
  <2>2. PICK s \in Thread : Receive(s) \/ Step(s)
    BY DEF Next
  <2>3. s = t
    BY DEF OneThread
  <2> QED BY <2>1, <2>2, <2>3
          DEF Receive, Step, Skip, Overflow, Verify, ReadCurrent, StoreRefs, StoreInventory, Return
<1> QED BY <1>2, DoneInvariance, PTL DEF Spec, ReplayAcceptsNothing

-----------------------------------------------------------------------------
QueryOK == query = [pc |-> query.pc, rid |-> query.rid, size |-> query.size,
                    visited |-> query.visited, found |-> query.found]

(* During a call: a node that advertised the RID throughout still does, and  *)
(* has been found if it was visited; what was found advertised it once.      *)
CallOK == query.pc = "iterating" =>
            /\ always \subseteq Advertisers(query.rid)
            /\ Advertisers(query.rid) \subseteq ever
            /\ always \cap query.visited \subseteq query.found
            /\ query.found \subseteq ever

CallInv == QueryOK /\ CallOK /\ SeedersWithinCall

(* No call has been made. *)
LEMMA InitCallInv == SInit => CallInv
BY DEF SInit, NoQuery, CallInv, QueryOK, CallOK, SeedersWithinCall

(* A call begins with the nodes that advertise the RID at that moment.       *)
LEMMA StartCall == ASSUME CallInv, Start PROVE CallInv'
<1>1. PICK rid \in Rid :
        /\ query' = [pc |-> "iterating", rid |-> rid, size |-> Cardinality(Known),
                     visited |-> {}, found |-> {}]
        /\ always' = Advertisers(rid) /\ ever' = Advertisers(rid)
  BY DEF Start
<1>2. Advertisers(rid)' = Advertisers(rid)
  BY DEF Start, vars, Advertisers, Known
<1>3. query'.rid = rid /\ query'.visited = {} /\ query'.found = {} /\ query'.pc = "iterating"
  BY <1>1
<1> QED BY <1>1, <1>2, <1>3 DEF CallInv, QueryOK, CallOK, SeedersWithinCall, Advertisers, Known

(* A node is visited once, and found if it advertises the RID then: those    *)
(* that always do are found.                                                 *)
LEMMA VisitNode == ASSUME CallInv, Visit PROVE CallInv'
<1>1. PICK n \in Known \ query.visited :
        query' = [query EXCEPT !.visited = @ \cup {n},
                               !.found = IF Lists(query.rid, inventory[n])
                                         THEN @ \cup {n} ELSE @]
  BY DEF Visit
<1>2. /\ QueryOK' /\ query'.pc = "iterating" /\ query'.rid = query.rid
      /\ query'.visited = query.visited \cup {n}
      /\ query'.found = IF n \in Advertisers(query.rid) THEN query.found \cup {n}
                                                        ELSE query.found
  BY <1>1 DEF Visit, CallInv, QueryOK, Lists, Advertisers
<1>3. always' = always /\ ever' = ever /\ inventory' = inventory
  BY DEF Visit, vars
<1>4. CallOK'
  <2>1. /\ always \subseteq Advertisers(query.rid) /\ Advertisers(query.rid) \subseteq ever
        /\ always \cap query.visited \subseteq query.found /\ query.found \subseteq ever
    BY DEF Visit, CallInv, CallOK
  <2>2. Advertisers(query.rid)' = Advertisers(query.rid)
    BY <1>2, <1>3 DEF Advertisers, Known
  <2> QED BY <1>2, <1>3, <2>1, <2>2 DEF CallOK
<1> QED BY <1>2, <1>4 DEF CallInv, SeedersWithinCall

(* A call that returns has visited all that is known, hence all that always  *)
(* advertised the RID.                                                       *)
LEMMA FinishCall == ASSUME CallInv, Finish PROVE CallInv'
<1>1. query' = [query EXCEPT !.pc = "returned"] /\ always' = always /\ ever' = ever
  BY DEF Finish
<1>2. QueryOK' /\ query'.pc = "returned" /\ query'.found = query.found
  BY <1>1 DEF CallInv, QueryOK
<1>3. always \subseteq query.found /\ query.found \subseteq ever
  BY DEF Finish, CallInv, CallOK, Advertisers
<1> QED BY <1>1, <1>2, <1>3 DEF CallInv, CallOK, SeedersWithinCall

(* Whatever is ingested meanwhile, the histories follow what is advertised.  *)
LEMMA IngestMeanwhile == ASSUME CallInv, Ingest PROVE CallInv'
<1>1. QueryOK' /\ query' = query
  BY DEF Ingest, CallInv, QueryOK
<1>2. CASE query.pc = "iterating"
  <2>1. /\ always' = always \cap Advertisers(query.rid)'
        /\ ever' = ever \cup Advertisers(query.rid)'
    BY <1>2 DEF Ingest
  <2>2. always \cap query.visited \subseteq query.found /\ query.found \subseteq ever
    BY <1>2 DEF CallInv, CallOK
  <2> QED BY <1>1, <1>2, <2>1, <2>2 DEF CallInv, CallOK, SeedersWithinCall, Advertisers, Known
<1>3. CASE query.pc # "iterating"
  BY <1>1, <1>3 DEF Ingest, CallInv, CallOK, SeedersWithinCall
<1> QED BY <1>2, <1>3

(* Every step preserves the inductive invariant. *)
LEMMA NextCallInv == CallInv /\ [SNext]_svars => CallInv'
<1>1. ASSUME CallInv, Raise PROVE CallInv'
  <2>1. QueryOK' /\ query'.pc = "raised"
    BY <1>1 DEF Raise, CallInv, QueryOK
  <2> QED BY <2>1 DEF CallInv, CallOK, SeedersWithinCall
<1>2. ASSUME CallInv, UNCHANGED svars PROVE CallInv'
  BY <1>2 DEF svars, CallInv, QueryOK, CallOK, SeedersWithinCall, Advertisers, Known
<1> QED BY <1>1, <1>2, StartCall, VisitNode, FinishCall, IngestMeanwhile DEF SNext

(* The inductive invariant holds of every behaviour. *)
THEOREM CallInvariance == SSpec => []CallInv
BY InitCallInv, NextCallInv, PTL DEF SSpec

(* A query that returns has every node that advertised the RID during all of *)
(* it, and only nodes that did at some moment, however many threads ingest.  *)
THEOREM QueryWithinCall == SSpec => []SeedersWithinCall
BY CallInvariance, PTL DEF CallInv

-----------------------------------------------------------------------------
(* GossipNetwork *)

(* Receivers ingest only what was published. *)
IngestedPublished ==
  \A r \in Receiver : /\ got[r].refs \subseteq published
                      /\ got[r].inventory \subseteq published
                      /\ pending[r] # Nothing => pending[r] \in published

(* An inventory half came behind its refs half, or was taken from it.        *)
RefsInFront ==
  \A r \in Receiver, a \in Announcement :
    a \in got[r].inventory \/ a = pending[r] => a \in got[r].refs \cup bare[r]

(* e is an element of S that is as fresh as any, or there is none. *)
Freshest(e, S) == /\ e = Nothing => S = {}
                  /\ e # Nothing => e \in S /\ \A b \in S : b.ts <= e.ts

(* What a receiver's two tables have seen under a key. *)
RefsSeen(r, k) == {a \in got[r].refs : <<a.node, a.rid>> = k}
InventorySeen(r, n) == {a \in got[r].inventory : a.node = n}

(* The entry of a key is the freshest announcement seen under it. *)
EntryIsFreshest ==
  \A r \in Receiver :
    /\ \A k \in Publisher \X RepoId : Freshest(refs_of[r][k], RefsSeen(r, k))
    /\ \A n \in Publisher : Freshest(inventory_of[r][n], InventorySeen(r, n))

NIInv == NTypeOK /\ IngestedPublished /\ RefsInFront /\ EntryIsFreshest

-----------------------------------------------------------------------------
(* The rule for one key keeps the freshest of what it was offered.           *)
LEMMA KeptFreshest ==
  ASSUME NEW S \in SUBSET Announcement, NEW e, NEW a \in Announcement, Freshest(e, S)
  PROVE  Freshest(Kept(e, a), S \cup {a})
<1>1. a # Nothing /\ a.ts \in Nat /\ \A b \in S : b.ts \in Nat
  BY NothingAssumption DEF Announcement
<1>2. CASE e = Nothing
  BY <1>1, <1>2 DEF Freshest, Kept
<1>3. CASE e # Nothing
  BY <1>1, <1>3 DEF Freshest, Kept
<1> QED BY <1>2, <1>3

(* At first nothing is published, and every table is empty. *)
LEMMA InitNIInv == NInit => NIInv
<1> SUFFICES ASSUME NInit PROVE NIInv
  OBVIOUS
<1>1. NTypeOK
  BY DEF NInit, NTypeOK, NoRefs, NoInventory, NoneGot
<1>2. IngestedPublished /\ RefsInFront
  BY NothingAssumption DEF NInit, IngestedPublished, RefsInFront, NoneGot
<1>3. EntryIsFreshest
  BY DEF NInit, EntryIsFreshest, Freshest, RefsSeen, InventorySeen, NoRefs, NoInventory,
         NoneGot
<1> QED BY <1>1, <1>2, <1>3 DEF NIInv

(* What a publisher does leaves every receiver alone, and publishes only     *)
(* announcements.                                                            *)
LEMMA PublishPreserves == NIInv /\ Publish => NIInv'
<1> SUFFICES ASSUME NIInv, Publish PROVE NIInv'
  OBVIOUS
<1>1. PICK n \in Publisher : Announce(n)
  BY DEF Publish
<1>2. UNCHANGED rvars /\ published \subseteq published'
  BY <1>1 DEF Announce
<1>3. published' \in SUBSET Announcement
  BY <1>1, ClockAssumption DEF Announce, Announcement, NIInv, NTypeOK
<1>4. NTypeOK'
  BY <1>2, <1>3 DEF rvars, NIInv, NTypeOK
<1>5. IngestedPublished' /\ RefsInFront' /\ EntryIsFreshest'
  BY <1>2 DEF rvars, NIInv, IngestedPublished, RefsInFront, EntryIsFreshest, RefsSeen,
              InventorySeen
<1> QED BY <1>4, <1>5 DEF NIInv

(* The refs list of a bundle, which may hold the refs half of a: the refs    *)
(* table has seen one more, or what it had seen.                             *)
LEMMA IngestRefsPreserves ==
  ASSUME NIInv, NEW r \in Receiver, NEW a \in published \cup {Nothing},
         NEW b \in published \cup {Nothing}, IngestRefs(r, a, b)
  PROVE  NIInv'
<1> DEFINE key == <<a.node, a.rid>>
           real == a # Nothing
<1>1. /\ a \in Announcement \cup {Nothing} /\ b \in Announcement \cup {Nothing}
      /\ real => a \in Announcement /\ a \in published /\ key \in Publisher \X RepoId
  BY DEF NIInv, NTypeOK, Announcement
<1>2. /\ UNCHANGED <<published, inventory_of, restarts>>
      /\ ~real => UNCHANGED <<refs_of, got>>
  BY DEF IngestRefs
<1> DEFINE heard == [got[r] EXCEPT !.refs = @ \cup {a}]
           table == [refs_of[r] EXCEPT ![key] = Kept(refs_of[r][key], a)]
<1>3. real => refs_of' = [refs_of EXCEPT ![r] = table]
  BY DEF IngestRefs
<1>4. real => got' = [got EXCEPT ![r] = heard]
  BY DEF IngestRefs
<1>5. /\ refs_of \in [Receiver -> [Publisher \X RepoId -> Announcement \cup {Nothing}]]
       /\ got \in [Receiver -> [refs : SUBSET Announcement, inventory : SUBSET Announcement]]
  BY DEF NIInv, NTypeOK
<1>6. \A s \in Receiver :
        /\ pending'[s] = IF s = r THEN b ELSE pending[s]
        /\ got'[s].refs = IF s = r /\ real THEN got[s].refs \cup {a} ELSE got[s].refs
        /\ got'[s].inventory = got[s].inventory
  <2>1. \A s \in Receiver : pending'[s] = IF s = r THEN b ELSE pending[s]
    BY DEF IngestRefs, NIInv, NTypeOK
  <2>2. CASE real
    <3>1. \A s \in Receiver : got'[s] = IF s = r THEN heard ELSE got[s]
      BY <1>4, <1>5, <2>2
    <3>2. heard.refs = got[r].refs \cup {a} /\ heard.inventory = got[r].inventory
      BY <1>5
    <3> QED BY <2>1, <2>2, <3>1, <3>2
  <2>3. CASE ~real
    BY <1>2, <2>1, <2>3
  <2> QED BY <2>2, <2>3
<1>7. \A s \in Receiver, k \in Publisher \X RepoId :
        refs_of'[s][k] = IF s = r /\ real /\ k = key
                         THEN Kept(refs_of[r][key], a) ELSE refs_of[s][k]
  <2>1. CASE real
    <3>1. \A s \in Receiver : refs_of'[s] = IF s = r THEN table ELSE refs_of[s]
      BY <1>3, <1>5, <2>1
    <3>2. \A k \in Publisher \X RepoId :
            table[k] = IF k = key THEN Kept(refs_of[r][key], a) ELSE refs_of[r][k]
      BY <1>5
    <3> QED BY <2>1, <3>1, <3>2
  <2>2. CASE ~real
    BY <1>2, <2>2
  <2> QED BY <2>1, <2>2
<1>8. \A s \in Receiver : bare[s] \subseteq bare'[s]
  BY DEF IngestRefs, NIInv, NTypeOK
<1>9. b = a \/ b = Nothing \/ b \in bare'[r]
  BY DEF IngestRefs, NIInv, NTypeOK
<1>10. NTypeOK'
  <2>1. real => Kept(refs_of[r][key], a) \in Announcement
    BY <1>1 DEF Kept, NIInv, NTypeOK
  <2>2. refs_of' \in [Receiver -> [Publisher \X RepoId -> Announcement \cup {Nothing}]]
    <3>1. CASE real
      <4>1. table \in [Publisher \X RepoId -> Announcement \cup {Nothing}]
        BY <1>5, <2>1, <3>1
      <4> QED BY <1>3, <1>5, <3>1, <4>1
    <3>2. CASE ~real
      BY <1>2, <1>5, <3>2
    <3> QED BY <3>1, <3>2
  <2>3. got' \in [Receiver -> [refs : SUBSET Announcement, inventory : SUBSET Announcement]]
    <3>1. CASE real
      <4>1. heard \in [refs : SUBSET Announcement, inventory : SUBSET Announcement]
        BY <1>1, <1>5, <3>1
      <4> QED BY <1>4, <1>5, <3>1, <4>1
    <3>2. CASE ~real
      BY <1>2, <1>5, <3>2
    <3> QED BY <3>1, <3>2
  <2>4. pending' \in [Receiver -> Announcement \cup {Nothing}]
    BY <1>1 DEF IngestRefs, NIInv, NTypeOK
  <2>5. bare' \in [Receiver -> SUBSET Announcement]
    BY <1>1 DEF IngestRefs, NIInv, NTypeOK
  <2> QED BY <1>2, <2>2, <2>3, <2>4, <2>5 DEF NIInv, NTypeOK
<1>11. IngestedPublished'
  <2>1. ASSUME NEW s \in Receiver
        PROVE  /\ got'[s].refs \subseteq published
               /\ got'[s].inventory \subseteq published
               /\ pending'[s] # Nothing => pending'[s] \in published
    <3>1. /\ got[s].refs \subseteq published
          /\ got[s].inventory \subseteq published
          /\ pending[s] # Nothing => pending[s] \in published
      BY DEF NIInv, IngestedPublished
    <3> QED BY <1>1, <1>6, <3>1
  <2> QED BY <1>2, <2>1 DEF IngestedPublished
<1>12. RefsInFront'
  <2> SUFFICES ASSUME NEW s \in Receiver, NEW c \in Announcement,
                      c \in got'[s].inventory \/ c = pending'[s]
               PROVE  c \in got'[s].refs \cup bare'[s]
    BY DEF RefsInFront
  <2>1. CASE c \in got[s].inventory \/ c = pending[s]
    <3>1. c \in got[s].refs \cup bare[s]
      BY <2>1 DEF NIInv, RefsInFront
    <3> QED BY <1>6, <1>8, <3>1
  <2>2. CASE ~(c \in got[s].inventory \/ c = pending[s])
    <3>1. s = r /\ c = b /\ c # Nothing
      BY <1>6, <2>2, NothingAssumption
    <3> QED BY <1>6, <1>9, <3>1
  <2> QED BY <2>1, <2>2
<1>13. ASSUME NEW s \in Receiver, NEW k \in Publisher \X RepoId
       PROVE  Freshest(refs_of'[s][k], RefsSeen(s, k)')
  <2>1. CASE s = r /\ real /\ k = key
    <3>1. RefsSeen(r, key)' = RefsSeen(r, key) \cup {a}
      BY <1>6, <2>1 DEF RefsSeen
    <3>2. RefsSeen(r, key) \in SUBSET Announcement
      BY DEF RefsSeen, NIInv, NTypeOK
    <3>3. Freshest(refs_of[r][key], RefsSeen(r, key))
      BY <1>1, <2>1 DEF NIInv, EntryIsFreshest
    <3> QED BY <1>1, <1>7, <2>1, <3>1, <3>2, <3>3, KeptFreshest
  <2>2. CASE ~(s = r /\ real /\ k = key)
    <3>1. RefsSeen(s, k)' = RefsSeen(s, k)
      BY <1>6, <2>2 DEF RefsSeen
    <3> QED BY <1>7, <2>2, <3>1 DEF NIInv, EntryIsFreshest
  <2> QED BY <2>1, <2>2
<1>14. \A s \in Receiver, n \in Publisher :
         Freshest(inventory_of'[s][n], InventorySeen(s, n)')
  BY <1>2, <1>6 DEF NIInv, EntryIsFreshest, InventorySeen
<1> QED BY <1>10, <1>11, <1>12, <1>13, <1>14 DEF NIInv, EntryIsFreshest

(* The inventory list: the inventory table has seen one more.                *)
LEMMA IngestInventoryPreserves ==
  ASSUME NIInv, NEW r \in Receiver, IngestInventory(r)
  PROVE  NIInv'
<1> DEFINE a == pending[r]
<1>1. a \in published /\ a \in Announcement /\ a # Nothing /\ a.node \in Publisher
  BY DEF IngestInventory, NIInv, NTypeOK, IngestedPublished, Announcement
<1>2. UNCHANGED <<published, refs_of, bare, restarts>>
  BY DEF IngestInventory
<1>3. \A s \in Receiver :
        /\ pending'[s] = IF s = r THEN Nothing ELSE pending[s]
        /\ got'[s].inventory = IF s = r THEN got[r].inventory \cup {a} ELSE got[s].inventory
        /\ got'[s].refs = got[s].refs
  BY DEF IngestInventory, NIInv, NTypeOK
<1>4. \A s \in Receiver, n \in Publisher :
        inventory_of'[s][n] = IF s = r /\ n = a.node
                              THEN Kept(inventory_of[r][n], a) ELSE inventory_of[s][n]
  BY <1>1 DEF IngestInventory, NIInv, NTypeOK
<1>5. NTypeOK'
  <2>1. Kept(inventory_of[r][a.node], a) \in Announcement \cup {Nothing}
    BY <1>1 DEF Kept, NIInv, NTypeOK
  <2>2. inventory_of' \in [Receiver -> [Publisher -> Announcement \cup {Nothing}]]
    BY <1>1, <2>1 DEF IngestInventory, NIInv, NTypeOK
  <2>3. pending' \in [Receiver -> Announcement \cup {Nothing}]
    BY <1>1 DEF IngestInventory, NIInv, NTypeOK
  <2>4. got' \in [Receiver -> [refs : SUBSET Announcement, inventory : SUBSET Announcement]]
    BY <1>1 DEF IngestInventory, NIInv, NTypeOK
  <2> QED BY <1>2, <2>2, <2>3, <2>4 DEF NIInv, NTypeOK
<1>6. IngestedPublished'
  BY <1>1, <1>2, <1>3 DEF NIInv, IngestedPublished
<1>7. RefsInFront'
  BY <1>1, <1>2, <1>3, NothingAssumption DEF NIInv, RefsInFront
<1>8. \A s \in Receiver, k \in Publisher \X RepoId : RefsSeen(s, k)' = RefsSeen(s, k)
  BY <1>3 DEF RefsSeen
<1>9. ASSUME NEW s \in Receiver, NEW n \in Publisher
      PROVE  Freshest(inventory_of'[s][n], InventorySeen(s, n)')
  <2>1. CASE s = r /\ n = a.node
    <3>1. InventorySeen(r, n)' = InventorySeen(r, n) \cup {a}
      BY <1>3, <2>1 DEF InventorySeen
    <3>2. InventorySeen(r, n) \in SUBSET Announcement
      BY DEF InventorySeen, NIInv, NTypeOK
    <3>3. Freshest(inventory_of[r][n], InventorySeen(r, n))
      BY DEF NIInv, EntryIsFreshest
    <3> QED BY <1>1, <1>4, <2>1, <3>1, <3>2, <3>3, KeptFreshest
  <2>2. CASE ~(s = r /\ n = a.node)
    <3>1. InventorySeen(s, n)' = InventorySeen(s, n)
      BY <1>3, <2>2 DEF InventorySeen
    <3> QED BY <1>4, <2>2, <3>1 DEF NIInv, EntryIsFreshest
  <2> QED BY <2>1, <2>2
<1> QED BY <1>2, <1>5, <1>6, <1>7, <1>8, <1>9 DEF NIInv, EntryIsFreshest

(* A receiver that starts again has seen nothing. *)
LEMMA RestartPreserves ==
  ASSUME NIInv, NEW r \in Receiver, Restart(r)
  PROVE  NIInv'
<1>1. NTypeOK'
  BY DEF Restart, NoRefs, NoInventory, NoneGot, NIInv, NTypeOK
<1>2. published' = published
  BY DEF Restart
<1>3. \A s \in Receiver :
        IF s = r THEN /\ refs_of'[s] = NoRefs /\ inventory_of'[s] = NoInventory
                      /\ pending'[s] = Nothing /\ got'[s] = NoneGot
                 ELSE /\ refs_of'[s] = refs_of[s] /\ inventory_of'[s] = inventory_of[s]
                      /\ pending'[s] = pending[s] /\ got'[s] = got[s]
                      /\ bare'[s] = bare[s]
  BY DEF Restart, NIInv, NTypeOK
<1>4. IngestedPublished' /\ RefsInFront'
  BY <1>2, <1>3, NothingAssumption DEF NIInv, IngestedPublished, RefsInFront, NoneGot
<1>5. EntryIsFreshest'
  BY <1>3 DEF NIInv, EntryIsFreshest, Freshest, RefsSeen, InventorySeen, NoRefs, NoInventory,
              NoneGot
<1> QED BY <1>1, <1>4, <1>5 DEF NIInv

(* Every step preserves the inductive invariant. *)
LEMMA NextNIInv == NIInv /\ [NNext]_nvars => NIInv'
<1> SUFFICES ASSUME NIInv, [NNext]_nvars PROVE NIInv'
  OBVIOUS
<1>1. CASE Publish
  BY <1>1, PublishPreserves
<1>2. CASE Listen
  BY <1>2, IngestRefsPreserves, IngestInventoryPreserves, RestartPreserves DEF Listen
<1>3. CASE UNCHANGED nvars
  BY <1>3 DEF nvars, rvars, NIInv, NTypeOK, IngestedPublished, RefsInFront,
              EntryIsFreshest, RefsSeen, InventorySeen
<1> QED BY <1>1, <1>2, <1>3 DEF NNext

(* The inductive invariant holds of every behaviour. *)
THEOREM NetworkInvariance == NSpec => []NIInv
BY InitNIInv, NextNIInv, PTL DEF NSpec

(* Type correctness. *)
THEOREM NetworkTypeCorrect == NSpec => []NTypeOK
BY NetworkInvariance, PTL DEF NIInv

(* Whoever is listed as a seeder by an announcement whose two halves no      *)
(* carrier took apart has a refs announcement as recent, however bundles are *)
(* reordered and wherever a receiver is restarted; announcements in one      *)
(* second do not matter.                                                     *)
THEOREM SeedersHaveRefs == NSpec => []SeederHasRefs
<1>1. NIInv => SeederHasRefs
  <2> SUFFICES ASSUME NIInv, NEW r \in Receiver, NEW n \in Publisher,
                      inventory_of[r][n] # Nothing, inventory_of[r][n] \notin bare[r]
               PROVE  LET a == inventory_of[r][n] IN
                      /\ refs_of[r][<<n, a.rid>>] # Nothing
                      /\ refs_of[r][<<n, a.rid>>].ts >= a.ts
    BY DEF SeederHasRefs
  <2> DEFINE a == inventory_of[r][n]
             held == refs_of[r][<<n, a.rid>>]
  <2>1. a \in got[r].inventory /\ a.node = n
    BY DEF NIInv, EntryIsFreshest, Freshest, InventorySeen
  <2>2. a \in Announcement
    BY DEF NIInv, NTypeOK
  <2>3. a.rid \in RepoId /\ a.ts \in Nat
    BY <2>2 DEF Announcement
  <2>4. a \in RefsSeen(r, <<n, a.rid>>)
    BY <2>1, <2>2 DEF RefsSeen, NIInv, RefsInFront
  <2>5. Freshest(held, RefsSeen(r, <<n, a.rid>>))
    BY <2>3 DEF NIInv, EntryIsFreshest
  <2>6. held # Nothing /\ a.ts <= held.ts
    BY <2>4, <2>5 DEF Freshest
  <2>7. held \in Announcement
    BY <2>3, <2>6 DEF NIInv, NTypeOK
  <2> QED BY <2>3, <2>6, <2>7 DEF Announcement
<1> QED BY <1>1, NetworkInvariance, PTL

-----------------------------------------------------------------------------
(* Two freshest announcements of one set are as old as each other.           *)
LEMMA FreshestSameAge ==
  ASSUME NEW S \in SUBSET Announcement, NEW d, NEW e, Freshest(d, S), Freshest(e, S)
  PROVE  SameAge(d, e)
<1>1. \A a \in S : a.ts \in Nat
  BY DEF Announcement
<1>2. CASE d = Nothing \/ e = Nothing
  BY <1>2 DEF Freshest, SameAge
<1>3. CASE d # Nothing /\ e # Nothing
  BY <1>1, <1>3 DEF Freshest, SameAge
<1> QED BY <1>2, <1>3

(* There is one freshest announcement at most of a publisher that never      *)
(* announced twice in a second.                                              *)
LEMMA FreshestUnique ==
  ASSUME NIInv, NEW n \in Publisher, DistinctTimes(n),
         NEW S \in SUBSET published, \A a \in S : a.node = n,
         NEW d, NEW e, Freshest(d, S), Freshest(e, S)
  PROVE  d = e
<1>1. SameAge(d, e)
  BY FreshestSameAge DEF NIInv, NTypeOK
<1> QED BY <1>1 DEF Freshest, SameAge, DistinctTimes

(* What a receiver has seen under a key is published, by its publisher.      *)
LEMMA SeenPublished ==
  ASSUME NIInv, NEW r \in Receiver, NEW n \in Publisher, NEW x \in RepoId
  PROVE  /\ RefsSeen(r, <<n, x>>) \in SUBSET published
         /\ InventorySeen(r, n) \in SUBSET published
         /\ \A a \in RefsSeen(r, <<n, x>>) \cup InventorySeen(r, n) : a.node = n
BY DEF NIInv, IngestedPublished, RefsSeen, InventorySeen

(* Receivers that ingested the same announcements, in whatever orders and    *)
(* however often, hold tables of the same age, and the same ones where the   *)
(* publisher's times differ.                                                 *)
THEOREM Convergence == NSpec => []Agreement
<1>1. NIInv => Agreement
  <2> SUFFICES ASSUME NIInv, NEW r \in Receiver, NEW s \in Receiver, NEW n \in Publisher
               PROVE  /\ got[r].inventory = got[s].inventory =>
                           /\ SameAge(inventory_of[r][n], inventory_of[s][n])
                           /\ DistinctTimes(n) => inventory_of[r][n] = inventory_of[s][n]
                      /\ got[r].refs = got[s].refs =>
                           \A x \in RepoId :
                             /\ SameAge(refs_of[r][<<n, x>>], refs_of[s][<<n, x>>])
                             /\ DistinctTimes(n) => refs_of[r][<<n, x>>] = refs_of[s][<<n, x>>]
    BY DEF Agreement
  <2>1. published \subseteq Announcement
    BY DEF NIInv, NTypeOK
  <2>2. ASSUME got[r].inventory = got[s].inventory
        PROVE  /\ SameAge(inventory_of[r][n], inventory_of[s][n])
               /\ DistinctTimes(n) => inventory_of[r][n] = inventory_of[s][n]
    <3> DEFINE S == InventorySeen(r, n)
    <3>1. S = InventorySeen(s, n)
      BY <2>2 DEF InventorySeen
    <3>2. Freshest(inventory_of[r][n], S) /\ Freshest(inventory_of[s][n], S)
      BY <3>1 DEF NIInv, EntryIsFreshest
    <3>3. S \in SUBSET published /\ \A a \in S : a.node = n
      BY DEF InventorySeen, NIInv, IngestedPublished
    <3> HIDE DEF S
    <3>4. S \in SUBSET Announcement
      BY <2>1, <3>3
    <3> QED BY <3>2, <3>3, <3>4, FreshestSameAge, FreshestUnique
  <2>3. ASSUME got[r].refs = got[s].refs, NEW x \in RepoId
        PROVE  /\ SameAge(refs_of[r][<<n, x>>], refs_of[s][<<n, x>>])
               /\ DistinctTimes(n) => refs_of[r][<<n, x>>] = refs_of[s][<<n, x>>]
    <3> DEFINE S == RefsSeen(r, <<n, x>>)
    <3>1. S = RefsSeen(s, <<n, x>>)
      BY <2>3 DEF RefsSeen
    <3>2. Freshest(refs_of[r][<<n, x>>], S) /\ Freshest(refs_of[s][<<n, x>>], S)
      BY <3>1 DEF NIInv, EntryIsFreshest
    <3>3. S \in SUBSET published /\ \A a \in S : a.node = n
      BY SeenPublished
    <3> HIDE DEF S
    <3>4. S \in SUBSET Announcement
      BY <2>1, <3>3
    <3> QED BY <3>2, <3>3, <3>4, FreshestSameAge, FreshestUnique
  <2> QED BY <2>2, <2>3
<1> QED BY <1>1, NetworkInvariance, PTL

(* A receiver that ingested the one latest announcement of a publisher holds *)
(* it, each half in its table.                                               *)
THEOREM LastAnnouncementWins == NSpec => []LatestWins
<1>1. NIInv => LatestWins
  <2> SUFFICES ASSUME NIInv, NEW r \in Receiver, NEW n \in Publisher,
                      NEW a \in published, a.node = n,
                      \A b \in published \ {a} : b.node = n => b.ts < a.ts
               PROVE  /\ a \in got[r].inventory => inventory_of[r][n] = a
                      /\ a \in got[r].refs => refs_of[r][<<n, a.rid>>] = a
    BY DEF LatestWins
  <2>1. a \in Announcement /\ a # Nothing /\ a.rid \in RepoId /\ a.ts \in Nat
    BY NothingAssumption DEF NIInv, NTypeOK, Announcement
  <2>2. \A b \in published : b.ts \in Nat
    BY DEF NIInv, NTypeOK, Announcement
  <2>3. ASSUME NEW S \in SUBSET published, a \in S, \A b \in S : b.node = n,
               NEW e, Freshest(e, S)
        PROVE  e = a
    BY <2>1, <2>2, <2>3 DEF Freshest
  <2>4. ASSUME a \in got[r].inventory PROVE inventory_of[r][n] = a
    <3>1. Freshest(inventory_of[r][n], InventorySeen(r, n))
      BY DEF NIInv, EntryIsFreshest
    <3>2. a \in InventorySeen(r, n)
      BY <2>4 DEF InventorySeen
    <3> QED BY <2>1, <2>3, <3>1, <3>2, SeenPublished
  <2>5. ASSUME a \in got[r].refs PROVE refs_of[r][<<n, a.rid>>] = a
    <3>1. Freshest(refs_of[r][<<n, a.rid>>], RefsSeen(r, <<n, a.rid>>))
      BY <2>1 DEF NIInv, EntryIsFreshest
    <3>2. a \in RefsSeen(r, <<n, a.rid>>)
      BY <2>1, <2>5 DEF RefsSeen
    <3> QED BY <2>1, <2>3, <3>1, <3>2, SeenPublished
  <2> QED BY <2>4, <2>5
<1> QED BY <1>1, NetworkInvariance, PTL

(* The rule for one key stores what is fresher, and nothing else.            *)
LEMMA IngestRefsOffers ==
  ASSUME NIInv, NEW r \in Receiver, NEW a \in published \cup {Nothing}, NEW b,
         IngestRefs(r, a, b)
  PROVE  (\E c \in published : RefsRegister(r)!Offer(c)) \/ UNCHANGED refs_of[r]
<1>1. CASE a = Nothing
  BY <1>1 DEF IngestRefs
<1>2. CASE a # Nothing
  <2> DEFINE key == <<a.node, a.rid>>
             held == refs_of[r][key]
  <2>1. a \in published /\ a \in Announcement /\ a.ts \in Nat /\ key \in Publisher \X RepoId
    BY <1>2 DEF NIInv, NTypeOK, Announcement
  <2>2. refs_of'[r] = [refs_of[r] EXCEPT ![key] = Kept(held, a)]
    BY <1>2, <2>1 DEF IngestRefs, NIInv, NTypeOK
  <2>3. held = Nothing \/ held.ts \in Nat
    BY <2>1 DEF NIInv, NTypeOK, Announcement
  <2>4. CASE held # Nothing /\ a.ts <= held.ts
    BY <2>1, <2>2, <2>4 DEF Kept, NIInv, NTypeOK
  <2>5. CASE ~(held # Nothing /\ a.ts <= held.ts)
    <3>1. RefsRegister(r)!Offer(a)
      BY <2>1, <2>2, <2>3, <2>5
         DEF Kept, RefsRegister!Offer, RefsRegister!Fresher, RefsKeyOf, TimeStamp, Genuine
    <3> QED BY <2>1, <3>1
  <2> QED BY <2>4, <2>5
<1> QED BY <1>1, <1>2

(* The same of the inventory. *)
LEMMA IngestInventoryOffers ==
  ASSUME NIInv, NEW r \in Receiver, IngestInventory(r)
  PROVE  (\E a \in published : InventoryRegister(r)!Offer(a)) \/ UNCHANGED inventory_of[r]
<1> DEFINE a == pending[r]
           held == inventory_of[r][a.node]
<1>1. a \in published /\ a \in Announcement /\ a.ts \in Nat /\ a.node \in Publisher
  BY DEF IngestInventory, IngestedPublished, NIInv, NTypeOK, Announcement
<1>2. inventory_of'[r] = [inventory_of[r] EXCEPT ![a.node] = Kept(held, a)]
  BY <1>1 DEF IngestInventory, NIInv, NTypeOK
<1>3. held = Nothing \/ held.ts \in Nat
  BY <1>1 DEF NIInv, NTypeOK, Announcement
<1>4. CASE held # Nothing /\ a.ts <= held.ts
  BY <1>1, <1>2, <1>4 DEF Kept, NIInv, NTypeOK
<1>5. CASE ~(held # Nothing /\ a.ts <= held.ts)
  <2>1. InventoryRegister(r)!Fresher(a)
    BY <1>1, <1>3, <1>5 DEF InventoryRegister!Fresher, InventoryKeyOf, TimeStamp
  <2>2. inventory_of'[r] = [inventory_of[r] EXCEPT ![a.node] = a]
    BY <1>2, <1>5 DEF Kept
  <2>3. InventoryRegister(r)!Offer(a)
    BY <1>1, <2>1, <2>2 DEF InventoryRegister!Offer, InventoryKeyOf, Genuine
  <2> QED BY <1>1, <2>3
<1> QED BY <1>4, <1>5

(* A receiver's tables are, between restarts, the registers that GossipState *)
(* is shown to implement: taking its ingest for one step changes nothing.    *)
THEOREM ReceiversHoldRegisters == NSpec => ReceiversAreRegisters
<1> DEFINE Registers(r) ==
             \/ Restart(r) /\ RefsRegister(r)!Init' /\ InventoryRegister(r)!Init'
             \/ /\ \/ \E a \in published : RefsRegister(r)!Offer(a)
                   \/ UNCHANGED refs_of[r]
                /\ \/ \E a \in published : InventoryRegister(r)!Offer(a)
                   \/ UNCHANGED inventory_of[r]
<1>1. NInit => \A r \in Receiver : RefsRegister(r)!Init /\ InventoryRegister(r)!Init
  BY DEF NInit, NoRefs, NoInventory, RefsRegister!Init, InventoryRegister!Init
<1>2. NIInv /\ [NNext]_nvars => \A r \in Receiver : Registers(r)
  <2> SUFFICES ASSUME NIInv, [NNext]_nvars, NEW r \in Receiver PROVE Registers(r)
    OBVIOUS
  <2>1. CASE Publish \/ UNCHANGED nvars
    BY <2>1 DEF Publish, Announce, nvars, rvars
  <2>2. ASSUME NEW s \in Receiver, NEW a \in published \cup {Nothing},
               NEW b \in published \cup {Nothing}, IngestRefs(s, a, b)
        PROVE  Registers(r)
    <3>1. inventory_of'[r] = inventory_of[r] /\ (s # r => refs_of'[r] = refs_of[r])
      BY <2>2 DEF IngestRefs, NIInv, NTypeOK
    <3> QED BY <2>2, <3>1, IngestRefsOffers
  <2>3. ASSUME NEW s \in Receiver, IngestInventory(s) PROVE Registers(r)
    <3>1. refs_of'[r] = refs_of[r] /\ (s # r => inventory_of'[r] = inventory_of[r])
      BY <2>3 DEF IngestInventory, NIInv, NTypeOK
    <3> QED BY <2>3, <3>1, IngestInventoryOffers
  <2>4. ASSUME NEW s \in Receiver, Restart(s) PROVE Registers(r)
    <3>1. CASE s = r
      <4>1. refs_of'[r] = NoRefs /\ inventory_of'[r] = NoInventory
        BY <2>4, <3>1 DEF Restart, NIInv, NTypeOK
      <4> QED BY <2>4, <3>1, <4>1
              DEF NoRefs, NoInventory, RefsRegister!Init, InventoryRegister!Init
    <3>2. CASE s # r
      BY <2>4, <3>2 DEF Restart, NIInv, NTypeOK
    <3> QED BY <3>1, <3>2
  <2> QED BY <2>1, <2>2, <2>3, <2>4 DEF NNext, Listen
<1> QED BY <1>1, <1>2, NetworkInvariance, PTL DEF NSpec, ReceiversAreRegisters

-----------------------------------------------------------------------------
(* Transport *)

BeforeReply == {"accept", "recv_len", "recv_body", "ingest"}
Connected == {"recv_len", "recv_body", "ingest", "send"}

(* Where the server thread is says what it has done. *)
ServerProgress ==
  /\ spc \in BeforeReply => served = {} /\ \A c \in Client : back[c] = 0
  /\ spc \in Connected => conn \in Client
  /\ spc = "ingest" => in[conn] = Header + length[conn]
  /\ spc = "send" => conn \in served /\ back[conn] < Header + reply

(* Where a client is says how much it has written and read. *)
ClientProgress ==
  \A c \in Client :
    /\ cpc[c] = "connect" => out[c] = 0
    /\ cpc[c] = "send" => out[c] < Header + length[c]
    /\ cpc[c] = "recv_body" => read[c] >= Header

(* Nothing is written to a client but the reply to its ingested bundle.      *)
RepliesToServed == \A c \in Client : back[c] > 0 => c \in served

TIInv == /\ TTypeOK
         /\ ServerProgress
         /\ ClientProgress
         /\ RepliesToServed
         /\ ReplyMeansIngested
         /\ WholeFrames


-----------------------------------------------------------------------------
(* The types of the variables a step reads, and the sizes of the frames. *)
LEMMA FrameTypes ==
  ASSUME TTypeOK, NEW c \in Client
  PROVE  /\ {out[c], in[c], back[c], read[c]} \subseteq Nat
         /\ in[c] <= out[c] /\ out[c] <= Header + length[c]
         /\ read[c] <= back[c] /\ back[c] <= Header + reply
         /\ length[c] \in Nat \ {0} /\ reply \in Nat \ {0} /\ Header \in Nat \ {0}
BY SizeAssumption DEF TTypeOK

(* Nothing has been written, read or ingested when the calls begin.          *)
LEMMA InitTIInv == TInit => TIInv
<1> SUFFICES ASSUME TInit PROVE TIInv
  OBVIOUS
<1> USE SizeAssumption, ClientAssumption DEF TInit
<1>1. TTypeOK
  <2>1. out \in [Client -> Nat] /\ in = out /\ back = out /\ read = out
    OBVIOUS
  <2>2. \A c \in Client : /\ Header \in Nat /\ length[c] \in Nat /\ reply \in Nat
                          /\ out[c] = 0 /\ in[c] = 0 /\ back[c] = 0 /\ read[c] = 0
    OBVIOUS
  <2>3. ASSUME NEW c \in Client
        PROVE  /\ in[c] <= out[c] /\ out[c] <= Header + length[c]
               /\ read[c] <= back[c] /\ back[c] <= Header + reply
    <3>1. /\ Header \in Nat /\ length[c] \in Nat /\ reply \in Nat
          /\ out[c] = 0 /\ in[c] = 0 /\ back[c] = 0 /\ read[c] = 0
      BY <2>2
    <3>2. 0 <= Header + length[c] /\ 0 <= Header + reply
      BY <3>1
    <3> QED BY <3>1, <3>2
  <2>4. queue \in Seq(Client)
    OBVIOUS
  <2> QED BY <2>1, <2>3, <2>4 DEF TTypeOK, ServerEnded
<1>2. ServerProgress /\ ClientProgress /\ RepliesToServed
  BY DEF ServerProgress, ClientProgress, RepliesToServed, BeforeReply, Connected
<1>3. ReplyMeansIngested /\ WholeFrames
  BY DEF ReplyMeansIngested, WholeFrames
<1> QED BY <1>1, <1>2, <1>3 DEF TIInv

(* Steps of a client that move no data: it starts to connect or send, gives  *)
(* up, or has its reply.                                                     *)
LEMMA ClientMovePreserves ==
  ASSUME TIInv, NEW c \in Client,
         \/ Connect(c) \/ Refused(c) \/ ConnectTimeout(c) \/ ClientTooLong(c)
         \/ ClientIngest(c) \/ ClientPeerGone(c) \/ ClientTimeout(c) \/ ClientKilled(c)
  PROVE  TIInv'
<1>0. Append(queue, c) \in Seq(Client) /\ queue \in Seq(Client) /\ fault \in BOOLEAN
  BY DEF TIInv, TTypeOK
<1>1. /\ UNCHANGED <<input, spc, conn, stream, served>>
      /\ queue' \in Seq(Client)
      /\ fault' \in BOOLEAN
  <2> USE DEF Connect, Refused, ConnectTimeout, ClientTooLong, ClientIngest,
              ClientPeerGone, ClientTimeout, ClientKilled
  <2>1. UNCHANGED <<input, spc, conn, stream, served>>
    OBVIOUS
  <2>2. queue' = queue \/ queue' = Append(queue, c)
    OBVIOUS
  <2>3. fault' = fault \/ fault' = TRUE
    OBVIOUS
  <2> QED BY <1>0, <2>1, <2>2, <2>3
<1>2. \/ cpc[c] = "connect" /\ cpc' = [cpc EXCEPT ![c] = "send"]
      \/ cpc[c] = "ingest" /\ cpc' = [cpc EXCEPT ![c] = "done"]
      \/ cpc' = [cpc EXCEPT ![c] = "failed"]
  BY DEF Connect, Refused, ConnectTimeout, ClientTooLong, ClientIngest, ClientPeerGone,
         ClientTimeout, ClientKilled, ClientMoves
<1>3. TTypeOK'
  BY <1>1, <1>2 DEF TIInv, TTypeOK, ClientEnded, input, stream
<1>4. ServerProgress' /\ RepliesToServed'
  BY <1>1 DEF TIInv, ServerProgress, RepliesToServed, input, stream
<1>5. ClientProgress'
  <2> SUFFICES ASSUME NEW d \in Client
               PROVE  /\ cpc'[d] = "connect" => out[d] = 0
                      /\ cpc'[d] = "send" => out[d] < Header + length[d]
                      /\ cpc'[d] = "recv_body" => read[d] >= Header
    BY <1>1 DEF ClientProgress, input, stream
  <2>1. CASE cpc'[d] = cpc[d]
    BY <2>1 DEF TIInv, ClientProgress
  <2>2. CASE cpc[d] = "connect" /\ cpc'[d] = "send"
    BY <2>2, FrameTypes DEF TIInv, ClientProgress
  <2>3. CASE cpc'[d] \in {"done", "failed"}
    BY <2>3
  <2> QED BY <1>2, <2>1, <2>2, <2>3 DEF TIInv, TTypeOK
<1>6. ReplyMeansIngested' /\ WholeFrames'
  <2>1. cpc[c] = "ingest" => c \in served
    BY FrameTypes DEF TIInv, WholeFrames, RepliesToServed
  <2> QED BY <1>1, <1>2, <2>1 DEF TIInv, TTypeOK, ReplyMeansIngested, WholeFrames, input, stream
<1> QED BY <1>3, <1>4, <1>5, <1>6 DEF TIInv

(* A client writes no more than its frame. *)
LEMMA ClientSendPreserves ==
  ASSUME TIInv, NEW c \in Client, ClientSend(c)
  PROVE  TIInv'
<1>1. /\ UNCHANGED <<input, spc, conn, queue, in, back, read, served, fault>>
      /\ cpc[c] = "send"
      /\ out' = [out EXCEPT ![c] = @ + 1]
      /\ \/ cpc' = cpc /\ out[c] + 1 # Header + length[c]
         \/ cpc' = [cpc EXCEPT ![c] = "recv_len"]
  BY DEF ClientSend
<1>2. out[c] < Header + length[c]
  BY <1>1 DEF TIInv, ClientProgress
<1>3. \A d \in Client : out'[d] = (IF d = c THEN out[c] + 1 ELSE out[d])
  BY <1>1 DEF TIInv, TTypeOK
<1>4. TTypeOK'
  <2>1. out' \in [Client -> Nat]
    BY <1>1 DEF TIInv, TTypeOK
  <2>2. cpc' \in [Client -> {"connect", "send", "recv_len", "recv_body", "ingest"}
                             \cup ClientEnded]
    BY <1>1 DEF TIInv, TTypeOK
  <2>3. \A d \in Client : in[d] <= out'[d] /\ out'[d] <= Header + length[d]
    BY <1>2, <1>3, FrameTypes DEF TIInv
  <2> QED BY <1>1, <2>1, <2>2, <2>3 DEF TIInv, TTypeOK, input
<1>5. ServerProgress' /\ RepliesToServed'
  BY <1>1 DEF TIInv, ServerProgress, RepliesToServed, input
<1>6. ClientProgress'
  <2>1. \A d \in Client \ {c} : cpc'[d] = cpc[d] /\ out'[d] = out[d]
    BY <1>1, <1>3 DEF TIInv, TTypeOK
  <2>2. cpc'[c] = "send" => out[c] + 1 # Header + length[c]
    BY <1>1 DEF TIInv, TTypeOK
  <2>3. out[c] \in Nat /\ length[c] \in Nat /\ Header \in Nat
    BY FrameTypes DEF TIInv
  <2>4. cpc'[c] = "send" => out'[c] < Header + length[c]
    BY <1>2, <1>3, <2>2, <2>3
  <2>5. cpc'[c] \in {"send", "recv_len"}
    BY <1>1 DEF TIInv, TTypeOK
  <2> QED BY <1>1, <2>1, <2>4, <2>5 DEF TIInv, ClientProgress, input
<1>7. ReplyMeansIngested' /\ WholeFrames'
  BY <1>1 DEF TIInv, TTypeOK, ReplyMeansIngested, WholeFrames, input
<1> QED BY <1>4, <1>5, <1>6, <1>7 DEF TIInv

(* recv takes no more than has arrived, nor than is asked for. *)
LEMMA ClientRecvPreserves ==
  ASSUME TIInv, NEW c \in Client, ClientRecv(c)
  PROVE  TIInv'
<1> DEFINE t == ClientTarget(c)
<1>1. PICK k \in Chunks(back[c], read[c], t) :
        /\ read' = [read EXCEPT ![c] = @ + k]
        /\ cpc' = IF read[c] + k < t THEN cpc
                  ELSE IF cpc[c] = "recv_body" THEN [cpc EXCEPT ![c] = "ingest"]
                  ELSE IF reply > MaxBody THEN [cpc EXCEPT ![c] = "failed"]
                  ELSE [cpc EXCEPT ![c] = "recv_body"]
  BY DEF ClientRecv
<1>2. /\ UNCHANGED <<input, spc, conn, queue, out, in, back, served, fault>>
      /\ cpc[c] \in {"recv_len", "recv_body"}
  BY DEF ClientRecv
<1>3. t \in Nat
  BY FrameTypes DEF ClientTarget, TIInv
<1>4. /\ k \in Nat \ {0} /\ read[c] + k <= back[c] /\ read[c] + k <= t
  BY <1>3, FrameTypes DEF Chunks, TIInv
<1>5. /\ read' \in [Client -> Nat]
      /\ \A d \in Client : read'[d] = (IF d = c THEN read[c] + k ELSE read[d])
  BY <1>1, <1>4 DEF TIInv, TTypeOK
<1>6. \/ read[c] + k < t /\ cpc' = cpc
      \/ /\ cpc[c] = "recv_body" /\ read[c] + k = Header + reply
         /\ cpc' = [cpc EXCEPT ![c] = "ingest"]
      \/ cpc' = [cpc EXCEPT ![c] = "failed"]
      \/ /\ cpc[c] = "recv_len" /\ read[c] + k = Header
         /\ cpc' = [cpc EXCEPT ![c] = "recv_body"]
  BY <1>1, <1>2, <1>3, <1>4, FrameTypes DEF ClientTarget, TIInv
<1>7. TTypeOK'
  <2>1. cpc' \in [Client -> {"connect", "send", "recv_len", "recv_body", "ingest"}
                             \cup ClientEnded]
    BY <1>6 DEF TIInv, TTypeOK, ClientEnded
  <2>2. \A d \in Client : read'[d] <= back[d]
    BY <1>4, <1>5, FrameTypes DEF TIInv
  <2> QED BY <1>2, <1>5, <2>1, <2>2 DEF TIInv, TTypeOK, input
<1>8. ServerProgress' /\ RepliesToServed'
  BY <1>2 DEF TIInv, ServerProgress, RepliesToServed, input
<1>9. ClientProgress'
  <2> SUFFICES ASSUME NEW d \in Client
               PROVE  /\ cpc'[d] = "connect" => out[d] = 0
                      /\ cpc'[d] = "send" => out[d] < Header + length[d]
                      /\ cpc'[d] = "recv_body" => read'[d] >= Header
    BY <1>2 DEF ClientProgress, input
  <2>1. CASE d # c
    BY <1>5, <1>6, <2>1 DEF TIInv, TTypeOK, ClientProgress
  <2>2. CASE d = c /\ cpc' = cpc
    BY <1>2, <1>4, <1>5, <2>2, FrameTypes DEF TIInv, ClientProgress
  <2>3. CASE d = c /\ cpc' # cpc
    <3>1. \/ cpc'[c] \in {"ingest", "failed"}
          \/ cpc'[c] = "recv_body" /\ read'[c] = Header
      BY <1>5, <1>6, <2>3 DEF TIInv, TTypeOK
    <3> QED BY <2>3, <3>1, FrameTypes DEF TIInv
  <2> QED BY <2>1, <2>2, <2>3
<1>10. ReplyMeansIngested' /\ WholeFrames'
  BY <1>2, <1>5, <1>6 DEF TIInv, TTypeOK, ReplyMeansIngested, WholeFrames, input
<1> QED BY <1>7, <1>8, <1>9, <1>10 DEF TIInv

-----------------------------------------------------------------------------
(* Steps of the server thread that move no data: it accepts, or ends.        *)
LEMMA ServerMovePreserves ==
  ASSUME TIInv, Accept \/ AcceptTimeout \/ ServerIngestRaises \/ ServerTooLong
                 \/ ServerPeerGone \/ ServerTimeout \/ ServerKilled
  PROVE  TIInv'
<1>0. /\ queue \in Seq(Client) /\ fault \in BOOLEAN
      /\ queue # <<>> => Head(queue) \in Client /\ Tail(queue) \in Seq(Client)
  BY DEF TIInv, TTypeOK
<1>1. /\ UNCHANGED <<input, cpc, stream, served>>
      /\ queue' \in Seq(Client)
      /\ fault' \in BOOLEAN
      /\ \/ spc = "accept" /\ spc' = "recv_len" /\ conn' \in Client
         \/ spc' \in {"failed", "expired"} /\ conn' = conn
  <2> USE DEF Accept, AcceptTimeout, ServerIngestRaises, ServerTooLong, ServerPeerGone,
              ServerTimeout, ServerKilled, ServerMoves
  <2>1. UNCHANGED <<input, cpc, stream, served>>
    OBVIOUS
  <2>2. queue' = queue \/ (queue # <<>> /\ queue' = Tail(queue))
    OBVIOUS
  <2>3. fault' = fault \/ fault' = TRUE
    OBVIOUS
  <2>4. \/ /\ spc = "accept" /\ spc' = "recv_len"
           /\ queue # <<>> /\ conn' = Head(queue)
        \/ spc' \in {"failed", "expired"} /\ conn' = conn
    OBVIOUS
  <2> QED BY <1>0, <2>1, <2>2, <2>3, <2>4
<1>2. TTypeOK'
  BY <1>1 DEF TIInv, TTypeOK, ServerEnded, input, stream
<1>3. ServerProgress'
  BY <1>1 DEF TIInv, ServerProgress, BeforeReply, Connected, input, stream
<1>4. ClientProgress' /\ RepliesToServed'
  BY <1>1 DEF TIInv, ClientProgress, RepliesToServed, input, stream
<1>5. ReplyMeansIngested' /\ WholeFrames'
  BY <1>1 DEF TIInv, ReplyMeansIngested, WholeFrames, input, stream
<1> QED BY <1>2, <1>3, <1>4, <1>5 DEF TIInv

(* What arrives is read before anything is ingested. *)
LEMMA ServerRecvPreserves ==
  ASSUME TIInv, ServerRecv
  PROVE  TIInv'
<1>0. conn \in Client /\ served = {}
  BY DEF ServerRecv, TIInv, ServerProgress, Connected, BeforeReply
<1>1. PICK k \in Chunks(out[conn], in[conn], ServerTarget) :
        /\ in' = [in EXCEPT ![conn] = @ + k]
        /\ spc' = IF in[conn] + k < ServerTarget THEN spc
                  ELSE IF spc = "recv_body"
                       THEN IF content[conn] # "no_object" THEN "ingest" ELSE "failed"
                  ELSE IF length[conn] > MaxBody THEN "failed"
                  ELSE "recv_body"
  BY DEF ServerRecv
<1>2. /\ UNCHANGED <<input, cpc, conn, queue, out, back, read, served, fault>>
      /\ spc \in {"recv_len", "recv_body"}
  BY DEF ServerRecv
<1>3. ServerTarget \in Nat
  BY <1>0, FrameTypes DEF ServerTarget, TIInv
<1>4. k \in Nat \ {0} /\ in[conn] + k <= out[conn] /\ in[conn] + k <= ServerTarget
  BY <1>0, <1>3, FrameTypes DEF Chunks, TIInv
<1>5. /\ in' \in [Client -> Nat]
      /\ \A d \in Client : in'[d] = (IF d = conn THEN in[conn] + k ELSE in[d])
  BY <1>0, <1>1, <1>4 DEF TIInv, TTypeOK
<1>6. \/ spc' = spc
      \/ spc' = "ingest" /\ in[conn] + k = Header + length[conn]
      \/ spc' \in {"failed", "recv_body"}
  BY <1>0, <1>1, <1>2, <1>3, <1>4, FrameTypes DEF ServerTarget, TIInv
<1>7. TTypeOK'
  <2>1. \A d \in Client : in'[d] <= out[d]
    BY <1>0, <1>4, <1>5, FrameTypes DEF TIInv
  <2>2. spc' \in {"accept", "recv_len", "recv_body", "ingest", "send"} \cup ServerEnded
    BY <1>6 DEF TIInv, TTypeOK, ServerEnded
  <2> QED BY <1>2, <1>5, <2>1, <2>2 DEF TIInv, TTypeOK, input
<1>8. ServerProgress'
  BY <1>0, <1>2, <1>5, <1>6 DEF TIInv, ServerProgress, BeforeReply, Connected, input
<1>9. ClientProgress' /\ RepliesToServed' /\ ReplyMeansIngested' /\ WholeFrames'
  BY <1>0, <1>2 DEF TIInv, ClientProgress, RepliesToServed, ReplyMeansIngested, WholeFrames,
                    input
<1> QED BY <1>7, <1>8, <1>9 DEF TIInv

(* The frame is whole when it is ingested, and no reply was sent before.     *)
LEMMA ServerIngestPreserves ==
  ASSUME TIInv, ServerIngest
  PROVE  TIInv'
<1>1. /\ UNCHANGED <<input, cpc, conn, queue, stream, fault>>
      /\ spc = "ingest" /\ spc' = "send" /\ served' = served \cup {conn}
      /\ conn \in Client /\ in[conn] = Header + length[conn]
      /\ \A c \in Client : back[c] = 0
  BY DEF ServerIngest, ServerMoves, TIInv, ServerProgress, BeforeReply, Connected
<1>2. TTypeOK'
  BY <1>1 DEF TIInv, TTypeOK, ServerEnded, input, stream
<1>3. ServerProgress'
  BY <1>1, FrameTypes DEF TIInv, ServerProgress, BeforeReply, Connected, input, stream
<1>4. ClientProgress' /\ RepliesToServed' /\ ReplyMeansIngested' /\ WholeFrames'
  BY <1>1 DEF TIInv, ClientProgress, RepliesToServed, ReplyMeansIngested, WholeFrames,
              input, stream
<1> QED BY <1>2, <1>3, <1>4 DEF TIInv

(* The reply goes to the peer whose bundle was ingested. *)
LEMMA ServerSendPreserves ==
  ASSUME TIInv, ServerSend
  PROVE  TIInv'
<1>1. /\ UNCHANGED <<input, cpc, conn, queue, out, in, read, served, fault>>
      /\ spc = "send"
      /\ back' = [back EXCEPT ![conn] = @ + 1]
      /\ \/ spc' = "done"
         \/ spc' = "send" /\ back[conn] + 1 # Header + reply
  BY DEF ServerSend
<1>2. conn \in Client /\ conn \in served /\ back[conn] < Header + reply
  BY <1>1 DEF TIInv, ServerProgress, Connected
<1>3. /\ back' \in [Client -> Nat]
      /\ \A d \in Client : back'[d] = (IF d = conn THEN back[conn] + 1 ELSE back[d])
  BY <1>1, <1>2 DEF TIInv, TTypeOK
<1>4. TTypeOK'
  <2>1. \A d \in Client : read[d] <= back'[d] /\ back'[d] <= Header + reply
    BY <1>2, <1>3, FrameTypes DEF TIInv
  <2> QED BY <1>1, <1>3, <2>1 DEF TIInv, TTypeOK, ServerEnded, input
<1>5. ServerProgress'
  BY <1>1, <1>2, <1>3, FrameTypes DEF TIInv, ServerProgress, BeforeReply, Connected, input
<1>6. RepliesToServed'
  BY <1>1, <1>2, <1>3 DEF TIInv, RepliesToServed
<1>7. ClientProgress' /\ ReplyMeansIngested' /\ WholeFrames'
  BY <1>1 DEF TIInv, ClientProgress, ReplyMeansIngested, WholeFrames, input
<1> QED BY <1>4, <1>5, <1>6, <1>7 DEF TIInv

(* Every step preserves the inductive invariant. *)
LEMMA NextTIInv == TIInv /\ [TNext]_tvars => TIInv'
<1> SUFFICES ASSUME TIInv, [TNext]_tvars PROVE TIInv'
  OBVIOUS
<1>1. ASSUME NEW c \in Client, ClientStep(c) \/ ClientKilled(c) PROVE TIInv'
  BY <1>1, ClientMovePreserves, ClientSendPreserves, ClientRecvPreserves DEF ClientStep
<1>2. CASE ServerStep \/ ServerKilled
  BY <1>2, ServerMovePreserves, ServerRecvPreserves, ServerIngestPreserves,
     ServerSendPreserves DEF ServerStep
<1>3. CASE UNCHANGED tvars
  BY <1>3 DEF tvars, input, stream, TIInv, TTypeOK, ServerProgress, ClientProgress,
              RepliesToServed, ReplyMeansIngested, WholeFrames
<1> QED BY <1>1, <1>2, <1>3 DEF TNext

(* The inductive invariant holds of every behaviour, fair or not. *)
THEOREM TransportInvariance == TSpec => []TIInv
BY InitTIInv, NextTIInv, PTL DEF TSpec

(* Type correctness, and that no stream carries more than its frame.         *)
THEOREM TransportTypeCorrect == TSpec => []TTypeOK
BY TransportInvariance, PTL DEF TIInv

(* exchange_with returns only after the server has ingested the caller's     *)
(* bundle, whatever else connects and wherever calls time out.               *)
THEOREM ReturnMeansIngested == TSpec => []ReplyMeansIngested
BY TransportInvariance, PTL DEF TIInv

(* Neither side ingests less or more than one whole frame, however recv cuts *)
(* the stream into pieces.                                                   *)
THEOREM FramesWhole == TSpec => []WholeFrames
BY TransportInvariance, PTL DEF TIInv
-----------------------------------------------------------------------------
(* What a quiet exchange rests on besides: a connection is queued or         *)
(* accepted once its client has connected, the thread has none before it     *)
(* accepts one and has answered in full when it is done, and a client that   *)
(* waits for a part of the reply has not read it yet.                        *)
Waiting == {queue[i] : i \in DOMAIN queue}

Connections ==
  /\ \A c \in Client : cpc[c] = "connect" => c # conn /\ c \notin Waiting
  /\ spc \in {"accept", "expired"} => conn = NoClient
  /\ spc = "done" => conn \in served /\ back[conn] = Header + reply

Unread ==
  \A c \in Client : /\ cpc[c] = "recv_len" => read[c] < Header
                    /\ cpc[c] = "recv_body" => read[c] < Header + reply

Quiet(c) == c \notin Foreign /\ length[c] <= MaxBody /\ reply <= MaxBody

(* Without a fault, a quiet client has not failed when it is accepted, and   *)
(* neither side fails after that.                                            *)
Unharmed ==
  ~fault => \A c \in Client : Quiet(c) =>
    /\ spc = "accept" /\ c \in Waiting => cpc[c] # "failed"
    /\ conn = c => spc # "failed" /\ cpc[c] # "failed"

QInv == /\ TIInv
        /\ \A c \in Client \ Foreign : content[c] = "bundle"
        /\ Connections
        /\ Unread
        /\ Unharmed

(* A client that connects joins the queue; one that is accepted leaves it.   *)
LEMMA QueueSets ==
  ASSUME TTypeOK, NEW c \in Client
  PROVE  /\ queue' = Append(queue, c) => Waiting' = Waiting \cup {c}
         /\ queue # <<>> => /\ Head(queue) \in Waiting
                            /\ queue' = Tail(queue) => Waiting' \subseteq Waiting
<1>0. queue \in Seq(Client)
  BY DEF TTypeOK
<1>1. ASSUME queue' = Append(queue, c) PROVE Waiting' = Waiting \cup {c}
  <2>1. /\ Len(queue') = Len(queue) + 1 /\ queue' \in Seq(Client) /\ Len(queue) \in Nat
        /\ \A i \in 1..Len(queue) : queue'[i] = queue[i]
        /\ queue'[Len(queue) + 1] = c
    BY <1>0, <1>1
  <2>2. DOMAIN queue' = 1..(Len(queue) + 1) /\ DOMAIN queue = 1..Len(queue)
    BY <1>0, <2>1
  <2>3. \A i : i \in 1..(Len(queue) + 1) <=> i \in 1..Len(queue) \/ i = Len(queue) + 1
    BY <2>1
  <2> QED BY <2>1, <2>2, <2>3 DEF Waiting
<1>2. ASSUME queue # <<>> PROVE Head(queue) \in Waiting
  <2>1. 1 \in DOMAIN queue /\ Head(queue) = queue[1]
    BY <1>0, <1>2
  <2> QED BY <2>1 DEF Waiting
<1>3. ASSUME queue # <<>>, queue' = Tail(queue) PROVE Waiting' \subseteq Waiting
  <2>1. \A i \in DOMAIN queue' : i + 1 \in DOMAIN queue /\ queue'[i] = queue[i + 1]
    BY <1>0, <1>3
  <2> QED BY <2>1 DEF Waiting
<1> QED BY <1>1, <1>2, <1>3

(* No connection is made, and no step taken, when the calls begin.           *)
LEMMA InitQInv == TInit => QInv
<1> SUFFICES ASSUME TInit PROVE QInv
  OBVIOUS
<1>1. Waiting = {}
  BY DEF TInit, Waiting
<1>2. Connections /\ Unread
  BY <1>1, ClientAssumption DEF TInit, Connections, Unread
<1>3. Unharmed
  BY <1>1, ClientAssumption DEF TInit, Unharmed
<1> QED BY <1>2, <1>3, InitTIInv DEF QInv, TInit

(* The other side of a quiet client's connection closes only when it has     *)
(* answered, and then the client has something to read.                      *)
LEMMA QuietPeerStays ==
  ASSUME QInv, ~fault, NEW c \in Client, Quiet(c), conn = c
  PROVE  ~ClientPeerGone(c) /\ ~ServerPeerGone
<1>1. ASSUME ClientPeerGone(c) PROVE FALSE
  <2>1. spc \in ServerEnded
    BY <1>1 DEF ClientPeerGone, ServerClosed, Listening
  <2>2. spc = "done"
    BY <2>1, ClientAssumption DEF ServerEnded, QInv, Unharmed, Connections
  <2>3. ClientBlocked(c)
    BY <1>1, <2>2 DEF ClientPeerGone
  <2>4. in[c] = Header + length[c] /\ back[c] = Header + reply
    BY <2>2 DEF QInv, Connections, TIInv, WholeFrames
  <2>5. cpc[c] = "send" => out[c] < Header + length[c]
    BY DEF QInv, TIInv, ClientProgress
  <2>6. cpc[c] # "send"
    BY <2>4, <2>5, FrameTypes DEF QInv, TIInv
  <2>7. cpc[c] \in {"recv_len", "recv_body"} /\ back[c] = read[c]
    BY <2>3, <2>6 DEF ClientBlocked
  <2> QED BY <2>4, <2>7, FrameTypes DEF QInv, TIInv, Unread
<1>2. ASSUME ServerPeerGone PROVE FALSE
  <2>1. cpc[c] = "done"
    BY <1>2 DEF ServerPeerGone, ClientClosed, ClientEnded, QInv, Unharmed
  <2>2. back[c] >= Header + reply
    BY <2>1, FrameTypes DEF QInv, TIInv, WholeFrames
  <2> QED BY <1>2, <2>2, FrameTypes DEF ServerPeerGone, QInv, TIInv, ServerProgress, BeforeReply
<1> QED BY <1>1, <1>2

(* Steps of a client. *)
LEMMA ClientQuiet ==
  ASSUME QInv, TIInv', NEW c \in Client, ClientStep(c) \/ ClientKilled(c)
  PROVE  QInv'
<1> USE DEF Connect, Refused, ConnectTimeout, ClientTooLong, ClientSend, ClientRecv,
            ClientIngest, ClientPeerGone, ClientTimeout, ClientKilled, ClientStep,
            ClientMoves, input, stream
<1>1. /\ UNCHANGED <<length, content, reply, spc, conn, back, served>>
      /\ \A d \in Client \ {c} : cpc'[d] = cpc[d] /\ read'[d] = read[d]
      /\ fault => fault'
  BY DEF QInv, TIInv, TTypeOK
<1>2. cpc'[c] # "connect"
  <2>1. cpc[c] # "connect" \/ cpc'[c] # "connect"
    BY DEF QInv, TIInv, TTypeOK
  <2>2. cpc \in [Client -> {"connect", "send", "recv_len", "recv_body", "ingest"}
                            \cup ClientEnded]
    BY DEF QInv, TIInv, TTypeOK
  <2> QED BY <2>1, <2>2 DEF ClientBlocked, ClientEnded
<1>3. \/ queue' = queue
      \/ queue' = Append(queue, c) /\ cpc'[c] = "send"
  BY DEF QInv, TIInv, TTypeOK
<1>4. Waiting' \subseteq Waiting \cup {c}
  BY <1>3, QueueSets DEF QInv, TIInv, Waiting
<1>5. Connections'
  BY <1>1, <1>2, <1>4 DEF QInv, Connections
<1>6. Unread'
  <2> SUFFICES /\ cpc'[c] = "recv_len" => read'[c] < Header
               /\ cpc'[c] = "recv_body" => read'[c] < Header + reply
    BY <1>1 DEF QInv, Unread
  <2>1. CASE ClientSend(c)
    <3>1. read[c] = 0 /\ read' = read
      BY <2>1, FrameTypes DEF QInv, TIInv, ClientProgress, WholeFrames, RepliesToServed
    <3>2. cpc'[c] # "recv_body"
      BY <2>1 DEF QInv, TIInv, TTypeOK
    <3> QED BY <3>1, <3>2, SizeAssumption
  <2>2. CASE ClientRecv(c)
    <3>1. PICK k \in Chunks(back[c], read[c], ClientTarget(c)) :
            /\ read' = [read EXCEPT ![c] = @ + k]
            /\ cpc' = IF read[c] + k < ClientTarget(c) THEN cpc
                      ELSE IF cpc[c] = "recv_body" THEN [cpc EXCEPT ![c] = "ingest"]
                      ELSE IF reply > MaxBody THEN [cpc EXCEPT ![c] = "failed"]
                      ELSE [cpc EXCEPT ![c] = "recv_body"]
      BY <2>2
    <3>2. ClientTarget(c) = (IF cpc[c] = "recv_len" THEN Header ELSE Header + reply)
      BY DEF ClientTarget
    <3>3. k \in Nat \ {0} /\ read[c] + k <= ClientTarget(c)
      BY <3>2, FrameTypes DEF Chunks, QInv, TIInv
    <3>4. read'[c] = read[c] + k /\ cpc[c] \in {"recv_len", "recv_body"}
      BY <2>2, <3>1 DEF QInv, TIInv, TTypeOK
    <3>5. CASE read[c] + k < ClientTarget(c)
      BY <3>1, <3>2, <3>4, <3>5
    <3>6. CASE ~(read[c] + k < ClientTarget(c)) /\ cpc[c] = "recv_body"
      BY <3>1, <3>6 DEF QInv, TIInv, TTypeOK
    <3>7. CASE ~(read[c] + k < ClientTarget(c)) /\ cpc[c] = "recv_len"
      <4>1. read[c] + k = Header
        BY <3>2, <3>3, <3>7, FrameTypes DEF QInv, TIInv
      <4>2. cpc'[c] \in {"failed", "recv_body"}
        BY <3>1, <3>7 DEF QInv, TIInv, TTypeOK
      <4> QED BY <3>4, <4>1, <4>2, FrameTypes DEF QInv, TIInv
    <3> QED BY <3>4, <3>5, <3>6, <3>7
  <2>3. CASE ~ClientSend(c) /\ ~ClientRecv(c)
    BY <2>3 DEF QInv, Unread, TIInv, TTypeOK
  <2> QED BY <2>1, <2>2, <2>3
<1>7. Unharmed'
  <2> SUFFICES ASSUME ~fault', NEW d \in Client, Quiet(d)
               PROVE  /\ spc = "accept" /\ d \in Waiting' => cpc'[d] # "failed"
                      /\ conn = d => spc # "failed" /\ cpc'[d] # "failed"
    BY <1>1 DEF Unharmed, Quiet
  <2>1. ~fault /\ ~ClientKilled(c) /\ ~ClientTimeout(c) /\ ~ConnectTimeout(c)
    BY <1>1
  <2>2. CASE d # c
    BY <1>1, <1>4, <2>1, <2>2 DEF QInv, Unharmed
  <2>3. CASE d = c
    <3>1. cpc[c] = "connect" => c # conn /\ c \notin Waiting
      BY DEF QInv, Connections
    <3>2. CASE Connect(c)
      BY <2>3, <3>1, <3>2 DEF QInv, TIInv, TTypeOK
    <3>3. CASE Refused(c)
      <4>1. spc # "accept" /\ conn # c
        BY <3>1, <3>3 DEF Listening, ServerEnded
      <4> QED BY <2>3, <4>1
    <3>4. CASE ClientTooLong(c)
      <4>1. length[c] \in Nat /\ MaxBody \in Nat
        BY SizeAssumption, FrameTypes DEF QInv, TIInv
      <4> QED BY <2>3, <3>4, <4>1 DEF Quiet
    <3>5. CASE ClientSend(c)
      BY <2>1, <2>3, <3>5 DEF QInv, TIInv, TTypeOK, Unharmed
    <3>6. CASE ClientRecv(c)
      BY <2>1, <2>3, <3>6, SizeAssumption DEF QInv, TIInv, TTypeOK, Unharmed, Quiet
    <3>7. CASE ClientIngest(c)
      BY <2>1, <2>3, <3>7 DEF QInv, TIInv, TTypeOK, Unharmed
    <3>8. CASE ClientPeerGone(c)
      <4>1. spc # "accept"
        BY <3>8 DEF ServerClosed, Listening, ServerEnded
      <4>2. conn # c
        BY <2>1, <2>3, <3>8, QuietPeerStays
      <4> QED BY <2>3, <4>1, <4>2
    <3> QED BY <2>1, <3>2, <3>3, <3>4, <3>5, <3>6, <3>7, <3>8
  <2> QED BY <2>2, <2>3
<1> QED BY <1>1, <1>5, <1>6, <1>7 DEF QInv

(* Steps of the server thread. *)
LEMMA ServerQuiet ==
  ASSUME QInv, TIInv', ServerStep \/ ServerKilled
  PROVE  QInv'
<1> USE DEF Accept, AcceptTimeout, ServerRecv, ServerIngest, ServerIngestRaises,
            ServerTooLong, ServerSend, ServerPeerGone, ServerTimeout, ServerKilled,
            ServerStep, ServerMoves, input, stream
<1>1. /\ UNCHANGED <<length, content, reply, cpc, read, out>>
      /\ fault => fault'
  BY DEF QInv, TIInv, TTypeOK
<1>2. \/ Accept /\ conn' = Head(queue) /\ queue # <<>> /\ Waiting' \subseteq Waiting
      \/ conn' = conn /\ queue' = queue /\ Waiting' = Waiting /\ spc' # "accept"
  <2>1. CASE Accept
    <3>1. Head(queue) \in Client
      BY <2>1 DEF QInv, TIInv, TTypeOK
    <3> QED BY <2>1, <3>1, QueueSets DEF QInv, TIInv
  <2>2. CASE ~Accept
    <3>1. spc' = "accept" => spc = "accept"
      BY <2>2
    <3>2. conn' = conn /\ queue' = queue
      BY <2>2
    <3>3. spc = "accept" => spc' # "accept"
      BY <2>2 DEF ServerBlocked
    <3> QED BY <3>1, <3>2, <3>3 DEF Waiting
  <2> QED BY <2>1, <2>2
<1>3. Connections'
  <2>1. \A c \in Client : cpc[c] = "connect" => c # conn' /\ c \notin Waiting'
    BY <1>2, QueueSets DEF QInv, TIInv, Connections
  <2>2. spc' \in {"accept", "expired"} => conn' = NoClient
    BY <1>2 DEF QInv, Connections, ServerBlocked, Listening
  <2>3. spc' = "done" => conn' \in served' /\ back'[conn'] = Header + reply
    <3>1. spc' = "done" => ServerSend /\ back[conn] + 1 = Header + reply
      OBVIOUS
    <3>2. ServerSend => conn \in served /\ conn \in Client
      BY DEF QInv, TIInv, ServerProgress, Connected
    <3> QED BY <3>1, <3>2 DEF QInv, TIInv, TTypeOK
  <2> QED BY <1>1, <2>1, <2>2, <2>3 DEF Connections
<1>4. Unread'
  BY <1>1 DEF QInv, Unread
<1>5. Unharmed'
  <2> SUFFICES ASSUME ~fault', NEW c \in Client, Quiet(c)
               PROVE  /\ spc' = "accept" /\ c \in Waiting' => cpc[c] # "failed"
                      /\ conn' = c => spc' # "failed" /\ cpc[c] # "failed"
    BY <1>1 DEF Unharmed, Quiet
  <2>1. ~fault /\ ~ServerTimeout /\ ~ServerKilled
    BY <1>1
  <2>2. spc' # "accept"
    BY <1>2
  <2>3. CASE Accept
    BY <2>1, <2>2, <2>3, QueueSets DEF QInv, TIInv, Unharmed
  <2>4. CASE ~Accept /\ conn = c
    <3>1. content[c] = "bundle" /\ cpc[c] # "failed" /\ spc # "failed"
      BY <2>1, <2>4 DEF QInv, Unharmed, Quiet
    <3>2. ~ServerPeerGone
      BY <2>1, <2>4, QuietPeerStays
    <3>3. spc' # "failed"
      <4>1. length[c] \in Nat /\ MaxBody \in Nat /\ reply \in Nat
        BY SizeAssumption, FrameTypes DEF QInv, TIInv
      <4>2. ~(length[c] > MaxBody) /\ ~(reply > MaxBody)
        BY <4>1 DEF Quiet
      <4> QED BY <2>1, <2>4, <3>1, <3>2, <4>2
    <3> QED BY <1>2, <2>2, <2>4, <3>1, <3>3
  <2> QED BY <1>2, <2>2, <2>3, <2>4
<1> QED BY <1>1, <1>3, <1>4, <1>5 DEF QInv

(* The invariant holds of every behaviour. *)
LEMMA QuietInvariance == TSpec => []QInv
<1>1. QInv /\ [TNext]_tvars => QInv'
  <2> SUFFICES ASSUME QInv, [TNext]_tvars PROVE QInv'
    OBVIOUS
  <2>1. TIInv'
    BY NextTIInv DEF QInv
  <2>2. ASSUME UNCHANGED tvars PROVE QInv'
    BY <2>1, <2>2 DEF tvars, input, stream, QInv, Connections, Unread, Unharmed, Quiet, Waiting
  <2> QED BY <2>1, <2>2, ClientQuiet, ServerQuiet DEF TNext
<1> QED BY InitQInv, <1>1, PTL DEF TSpec

(* Between this program's peers, with bundles within the limit, an exchange  *)
(* fails only because a timeout expired or a process was killed, whoever     *)
(* else is waiting to be accepted.                                           *)
THEOREM QuietSucceeds == TSpec => []QuietExchangeSucceeds
<1>1. QInv => QuietExchangeSucceeds
  BY DEF QInv, Unharmed, Quiet, QuietExchangeSucceeds
<1> QED BY <1>1, QuietInvariance, PTL
-----------------------------------------------------------------------------
(* What the refinement of OneShot rests on besides: of a frame that is too   *)
(* long no body is read, on either side, and nothing but an object is given  *)
(* to ingest_bundle.                                                         *)
Checked ==
  /\ spc = "recv_body" => length[conn] <= MaxBody
  /\ spc = "ingest" => content[conn] # "no_object" /\ length[conn] <= MaxBody
  /\ \A c \in Client : cpc[c] \in {"recv_body", "ingest"} => reply <= MaxBody

EInv == TIInv /\ Checked

LEMMA SizesCompare ==
  ASSUME TTypeOK, NEW c \in Client
  PROVE  /\ (length[c] <= MaxBody) <=> ~(length[c] > MaxBody)
         /\ (reply <= MaxBody) <=> ~(reply > MaxBody)
BY FrameTypes, SizeAssumption

(* Steps of a client: a body is asked for only after its length was checked. *)
LEMMA ClientChecked ==
  ASSUME EInv, NEW c \in Client, ClientStep(c) \/ ClientKilled(c)
  PROVE  Checked'
<1> USE DEF Connect, Refused, ConnectTimeout, ClientTooLong, ClientSend, ClientRecv,
            ClientIngest, ClientPeerGone, ClientTimeout, ClientKilled, ClientStep,
            ClientMoves, input, stream
<1>1. /\ UNCHANGED <<length, content, reply, spc, conn>>
      /\ \A d \in Client \ {c} : cpc'[d] = cpc[d]
  BY DEF EInv, TIInv, TTypeOK
<1>2. cpc'[c] \in {"recv_body", "ingest"} => reply <= MaxBody
  <2>1. CASE ClientRecv(c)
    BY <2>1, SizesCompare DEF EInv, TIInv, TTypeOK, Checked
  <2>2. CASE ~ClientRecv(c)
    BY <2>2 DEF EInv, TIInv, TTypeOK, Checked, ClientEnded
  <2> QED BY <2>1, <2>2
<1> QED BY <1>1, <1>2 DEF EInv, Checked

(* Steps of the server thread. *)
LEMMA ServerChecked ==
  ASSUME EInv, ServerStep \/ ServerKilled
  PROVE  Checked'
<1> USE DEF Accept, AcceptTimeout, ServerRecv, ServerIngest, ServerIngestRaises,
            ServerTooLong, ServerSend, ServerPeerGone, ServerTimeout, ServerKilled,
            ServerStep, ServerMoves, input, stream
<1>1. UNCHANGED <<length, content, reply, cpc>>
  OBVIOUS
<1>2. CASE ServerRecv
  <2>1. conn \in Client /\ conn' = conn
    BY <1>2 DEF EInv, TIInv, ServerProgress, Connected
  <2>2. /\ spc' = "recv_body" => spc = "recv_body" \/ ~(length[conn] > MaxBody)
        /\ spc' = "ingest" => spc = "recv_body" /\ content[conn] # "no_object"
    BY <1>2
  <2> QED BY <1>1, <2>1, <2>2, SizesCompare DEF EInv, TIInv, Checked
<1>3. CASE ~ServerRecv
  <2>1. spc' \notin {"recv_body", "ingest"}
    BY <1>3 DEF ServerBlocked
  <2> QED BY <1>1, <2>1 DEF EInv, Checked
<1> QED BY <1>2, <1>3

(* What a step of a client makes of its call. *)
LEMMA ClientOutcome ==
  ASSUME EInv, NEW c \in Client, ClientStep(c) \/ ClientKilled(c)
  PROVE  [Exchange!Next]_(Exchange!vars)
<1> USE DEF Connect, Refused, ConnectTimeout, ClientTooLong, ClientSend, ClientRecv,
            ClientIngest, ClientPeerGone, ClientTimeout, ClientKilled, ClientStep,
            ClientMoves, ClientBlocked, ClientEnded, input, stream
<1>1. UNCHANGED <<length, content, reply, served>>
  OBVIOUS
<1>2. UNCHANGED <<Ingestible, reply <= MaxBody, served>>
  BY <1>1 DEF Ingestible
<1>3. \A d \in Client \ {c} : cpc'[d] = cpc[d]
  BY DEF EInv, TIInv, TTypeOK
<1>4. \/ cpc[c] = "ingest" /\ cpc'[c] = "done"
      \/ cpc[c] \notin {"done", "failed"} /\ cpc'[c] = "failed"
      \/ cpc[c] \notin {"done", "failed"} /\ cpc'[c] \notin {"done", "failed"}
  BY DEF EInv, TIInv, TTypeOK
<1>5. CASE cpc[c] = "ingest" /\ cpc'[c] = "done"
  <2>1. Outcome[c] = "open" /\ Outcome' = [Outcome EXCEPT ![c] = "returned"]
    BY <1>3, <1>5 DEF Outcome
  <2>2. c \in served
    BY <1>5, FrameTypes DEF EInv, TIInv, WholeFrames, RepliesToServed
  <2>3. reply <= MaxBody
    BY <1>5 DEF EInv, Checked
  <2>4. Exchange!Return(c)
    BY <1>2, <2>1, <2>2, <2>3 DEF Exchange!Return, Exchange!Ends
  <2> QED BY <2>4 DEF Exchange!Next
<1>6. CASE cpc[c] \notin {"done", "failed"} /\ cpc'[c] = "failed"
  <2>1. Outcome[c] = "open" /\ Outcome' = [Outcome EXCEPT ![c] = "raised"]
    BY <1>3, <1>6 DEF Outcome
  <2>2. Exchange!Raise(c)
    BY <1>2, <2>1 DEF Exchange!Raise, Exchange!Ends
  <2> QED BY <2>2 DEF Exchange!Next
<1>7. CASE cpc[c] \notin {"done", "failed"} /\ cpc'[c] \notin {"done", "failed"}
  <2>1. Outcome' = Outcome
    BY <1>3, <1>7 DEF Outcome
  <2> QED BY <1>2, <2>1 DEF Exchange!vars
<1> QED BY <1>4, <1>5, <1>6, <1>7

(* Only to ingest a bundle is a step of the server thread one of OneShot.    *)
LEMMA ServerOutcome ==
  ASSUME EInv, ServerStep \/ ServerKilled
  PROVE  [Exchange!Next]_(Exchange!vars)
<1> USE DEF Accept, AcceptTimeout, ServerRecv, ServerIngest, ServerIngestRaises,
            ServerTooLong, ServerSend, ServerPeerGone, ServerTimeout, ServerKilled,
            ServerStep, ServerMoves, input, stream
<1>1. UNCHANGED <<length, content, reply, cpc>>
  OBVIOUS
<1>2. UNCHANGED <<Ingestible, reply <= MaxBody, Outcome>>
  BY <1>1 DEF Ingestible, Outcome
<1>3. CASE ServerIngest
  <2>1. conn \in Client /\ served = {} /\ served' = {conn} /\ conn \in Ingestible
    BY <1>3 DEF EInv, TIInv, ServerProgress, BeforeReply, Connected, Checked, Ingestible
  <2>2. Exchange!Serve(conn)
    BY <1>2, <2>1 DEF Exchange!Serve
  <2> QED BY <2>1, <2>2 DEF Exchange!Next
<1>4. CASE ~ServerIngest
  <2>1. served' = served
    BY <1>4
  <2> QED BY <1>2, <2>1 DEF Exchange!vars
<1> QED BY <1>3, <1>4

(* The stronger invariant holds of every behaviour. *)
LEMMA ExchangeInvariance == TSpec => []EInv
<1>1. TInit => EInv
  BY InitTIInv DEF TInit, EInv, Checked
<1>2. EInv /\ [TNext]_tvars => EInv'
  <2> SUFFICES ASSUME EInv, [TNext]_tvars PROVE EInv'
    OBVIOUS
  <2>1. TIInv'
    BY NextTIInv DEF EInv
  <2>2. ASSUME UNCHANGED tvars PROVE Checked'
    BY <2>2 DEF tvars, input, stream, EInv, Checked
  <2> QED BY <2>1, <2>2, ClientChecked, ServerChecked DEF TNext, EInv
<1> QED BY <1>1, <1>2, PTL DEF TSpec

(* The frames, partial reads, timeouts and kills of serve_once and           *)
(* exchange_with make up the one-shot exchange of OneShot: of any number of  *)
(* callers one at most has its bundle ingested as a whole, which is an       *)
(* object within the limit whose timestamps are finite, and no call returns  *)
(* but that one's, and only after that.                                      *)
THEOREM ExchangeRefined == TSpec => ImplementsOneShot
<1>1. TInit => Exchange!Init
  <2> SUFFICES ASSUME TInit PROVE Exchange!Init
    OBVIOUS
  <2>1. Ingestible \in SUBSET Client /\ (reply <= MaxBody) \in BOOLEAN
    BY DEF Ingestible
  <2>2. Outcome = [c \in Client |-> "open"]
    BY DEF TInit, Outcome
  <2>3. served = {}
    BY DEF TInit
  <2> QED BY <2>1, <2>2, <2>3 DEF Exchange!Init
<1>2. EInv /\ [TNext]_tvars => [Exchange!Next]_(Exchange!vars)
  <2>1. UNCHANGED tvars => UNCHANGED Exchange!vars
    BY DEF tvars, input, stream, Exchange!vars, Ingestible, Outcome
  <2> QED BY <2>1, ClientOutcome, ServerOutcome DEF TNext
<1> QED BY <1>1, <1>2, ExchangeInvariance, PTL DEF TSpec, ImplementsOneShot, Exchange!Spec
-----------------------------------------------------------------------------
(* That both sides end (AllEnd) is liveness, and checked by TLC.  What it    *)
(* rests on is proved here: nobody is ever stuck, and steps run out.         *)

(* A socket call has something to do, or it blocks and its timeout runs: a   *)
(* direction holds no more than its capacity, and recv is never asked for    *)
(* no bytes, whose empty answer would be taken for a closed connection.      *)
ClientGoesOn(c) ==
  \/ cpc[c] \in {"connect", "ingest"}
  \/ cpc[c] = "send" /\ (IF c \notin Foreign /\ length[c] > MaxBody THEN TRUE
                         ELSE out[c] - in[c] < Capacity)
  \/ /\ cpc[c] \in {"recv_len", "recv_body"}
     /\ Chunks(back[c], read[c], ClientTarget(c)) # {}
  \/ ClientBlocked(c)

ServerGoesOn ==
  \/ spc = "accept"
  \/ spc = "ingest" /\ content[conn] \in {"bundle", "overflowing"}
  \/ spc = "send" /\ (reply > MaxBody \/ back[conn] - read[conn] < Capacity)
  \/ spc \in {"recv_len", "recv_body"} /\ Chunks(out[conn], in[conn], ServerTarget) # {}
  \/ ServerBlocked

NobodyStuck == /\ Listening => ServerGoesOn
               /\ \A c \in Client : ~ClientClosed(c) => ClientGoesOn(c)

Buffered ==
  /\ \A c \in Client : out[c] - in[c] <= Capacity /\ back[c] - read[c] <= Capacity
  /\ spc = "accept" => \A c \in Client : in[c] = 0
  /\ spc = "recv_len" => in[conn] < Header
  /\ spc = "recv_body" => in[conn] < Header + length[conn]

(* Steps of a client. *)
LEMMA ClientBuffered ==
  ASSUME TIInv, TIInv', Buffered, NEW c \in Client, ClientStep(c) \/ ClientKilled(c)
  PROVE  Buffered'
<1> USE DEF Connect, Refused, ConnectTimeout, ClientTooLong, ClientSend, ClientRecv,
            ClientIngest, ClientPeerGone, ClientTimeout, ClientKilled, ClientStep,
            ClientMoves, input, stream
<1>1. UNCHANGED <<length, spc, conn, in, back>> /\ Capacity \in Nat
  BY SizeAssumption
<1>2. \A d \in Client : out'[d] - in[d] <= Capacity
  <2>1. CASE ClientSend(c)
    <3>1. \A d \in Client : out'[d] = (IF d = c THEN out[c] + 1 ELSE out[d])
      BY <2>1 DEF TIInv, TTypeOK
    <3>2. out[c] \in Nat /\ in[c] \in Nat /\ out[c] - in[c] < Capacity
      BY <2>1, FrameTypes DEF TIInv
    <3>3. out[c] + 1 - in[c] <= Capacity
      BY <1>1, <3>2
    <3>4. ASSUME NEW d \in Client PROVE out'[d] - in[d] <= Capacity
      <4>1. CASE d = c
        <5>1. out'[c] = out[c] + 1
          BY <3>1
        <5> QED BY <3>2, <3>3, <4>1, <5>1
      <4>2. CASE d # c
        BY <3>1, <3>4, <4>2 DEF Buffered
      <4> QED BY <4>1, <4>2
    <3> QED BY <3>4
  <2>2. CASE out' = out
    BY <2>2 DEF Buffered
  <2> QED BY <2>1, <2>2
<1>3. \A d \in Client : back[d] - read'[d] <= Capacity
  <2>1. CASE ClientRecv(c)
    <3>1. PICK k \in Chunks(back[c], read[c], ClientTarget(c)) : read' = [read EXCEPT ![c] = @ + k]
      BY <2>1
    <3>2. ClientTarget(c) \in Nat
      BY FrameTypes DEF ClientTarget, TIInv
    <3>3. k \in Nat
      BY <3>2, FrameTypes DEF Chunks, TIInv
    <3>4. \A d \in Client : read'[d] = (IF d = c THEN read[c] + k ELSE read[d])
      BY <3>1 DEF TIInv, TTypeOK
    <3>5. back[c] - read[c] <= Capacity /\ back[c] \in Nat /\ read[c] \in Nat
      BY FrameTypes DEF TIInv, Buffered
    <3>6. back[c] - (read[c] + k) <= Capacity
      BY <1>1, <3>3, <3>5
    <3> QED BY <3>4, <3>6 DEF Buffered
  <2>2. CASE read' = read
    BY <2>2 DEF Buffered
  <2> QED BY <2>1, <2>2
<1> QED BY <1>1, <1>2, <1>3 DEF Buffered

(* Steps of the server thread. *)
LEMMA ServerBuffered ==
  ASSUME TIInv, TIInv', Buffered, ServerStep \/ ServerKilled
  PROVE  Buffered'
<1> USE DEF Accept, AcceptTimeout, ServerRecv, ServerIngest, ServerIngestRaises,
            ServerTooLong, ServerSend, ServerPeerGone, ServerTimeout, ServerKilled,
            ServerStep, ServerMoves, input, stream
<1>0. Capacity \in Nat /\ Header \in Nat \ {0}
  BY SizeAssumption
<1>1. CASE Accept
  <2>1. conn' \in Client
    BY <1>1 DEF TIInv, ServerProgress, Connected
  <2> QED BY <1>0, <1>1, <2>1 DEF Buffered
<1>2. CASE ServerRecv
  <2>1. conn \in Client /\ UNCHANGED <<length, out, back, read, conn>>
    BY <1>2 DEF TIInv, ServerProgress, Connected
  <2>2. PICK k \in Chunks(out[conn], in[conn], ServerTarget) :
          /\ in' = [in EXCEPT ![conn] = @ + k]
          /\ spc' = IF in[conn] + k < ServerTarget THEN spc
                    ELSE IF spc = "recv_body"
                         THEN IF content[conn] # "no_object" THEN "ingest" ELSE "failed"
                    ELSE IF length[conn] > MaxBody THEN "failed"
                    ELSE "recv_body"
    BY <1>2
  <2>3. ServerTarget = IF spc = "recv_len" THEN Header ELSE Header + length[conn]
    BY DEF ServerTarget
  <2>4. k \in Nat \ {0} /\ in[conn] + k <= ServerTarget
    BY <2>1, <2>3, FrameTypes DEF Chunks, TIInv
  <2>5. \A d \in Client : in'[d] = (IF d = conn THEN in[conn] + k ELSE in[d])
    BY <2>1, <2>2 DEF TIInv, TTypeOK
  <2>6. \A d \in Client : out[d] - in'[d] <= Capacity
    <3>1. out[conn] - in[conn] <= Capacity /\ out[conn] \in Nat /\ in[conn] \in Nat
      BY <2>1, FrameTypes DEF TIInv, Buffered
    <3>2. out[conn] - (in[conn] + k) <= Capacity
      BY <1>0, <2>4, <3>1
    <3>3. ASSUME NEW d \in Client PROVE out[d] - in'[d] <= Capacity
      <4>1. CASE d = conn
        <5>1. in'[conn] = in[conn] + k
          BY <2>1, <2>5
        <5> QED BY <2>4, <3>1, <3>2, <4>1, <5>1
      <4>2. CASE d # conn
        BY <2>5, <3>3, <4>2 DEF Buffered
      <4> QED BY <4>1, <4>2
    <3> QED BY <3>3
  <2>7. spc' = "recv_len" => in'[conn] < Header
    BY <1>2, <2>1, <2>2, <2>3, <2>5
  <2>8. spc' = "recv_body" => in'[conn] < Header + length[conn]
    <3>1. CASE spc = "recv_body" /\ in[conn] + k < ServerTarget
      BY <2>1, <2>3, <2>5, <3>1
    <3>2. CASE spc = "recv_len" /\ in[conn] + k = Header
      BY <2>1, <2>5, <3>2, FrameTypes DEF TIInv
    <3>3. spc' = "recv_body" => \/ spc = "recv_body" /\ in[conn] + k < ServerTarget
                                \/ spc = "recv_len" /\ in[conn] + k = Header
      <4>1. spc = "recv_len" /\ ~(in[conn] + k < ServerTarget) => in[conn] + k = Header
        BY <2>1, <2>3, <2>4, FrameTypes DEF TIInv
      <4>2. spc' = "recv_body" => \/ spc = "recv_body" /\ in[conn] + k < ServerTarget
                                  \/ spc = "recv_len" /\ ~(in[conn] + k < ServerTarget)
        BY <1>2, <2>2
      <4> QED BY <4>1, <4>2
    <3> QED BY <3>1, <3>2, <3>3
  <2>9. spc' # "accept"
    BY <1>2, <2>2
  <2> QED BY <2>1, <2>6, <2>7, <2>8, <2>9 DEF Buffered
<1>3. CASE ServerSend
  <2>1. conn \in Client /\ UNCHANGED <<length, out, in, read, conn>>
    BY <1>3 DEF TIInv, ServerProgress, Connected
  <2>2. \A d \in Client : back'[d] = (IF d = conn THEN back[conn] + 1 ELSE back[d])
    BY <1>3, <2>1 DEF TIInv, TTypeOK
  <2>3. \A d \in Client : back'[d] - read[d] <= Capacity
    <3>1. back[conn] \in Nat /\ read[conn] \in Nat /\ back[conn] - read[conn] < Capacity
      BY <1>3, <2>1, FrameTypes DEF TIInv
    <3>2. back[conn] + 1 - read[conn] <= Capacity
      BY <1>0, <3>1
    <3>3. ASSUME NEW d \in Client PROVE back'[d] - read[d] <= Capacity
      <4>1. CASE d = conn
        <5>1. back'[conn] = back[conn] + 1
          BY <2>1, <2>2
        <5> QED BY <3>1, <3>2, <4>1, <5>1
      <4>2. CASE d # conn
        BY <2>2, <3>3, <4>2 DEF Buffered
      <4> QED BY <4>1, <4>2
    <3> QED BY <3>3
  <2>4. spc' \notin {"accept", "recv_len", "recv_body"}
    BY <1>3
  <2> QED BY <2>1, <2>3, <2>4 DEF Buffered
<1>4. CASE ~Accept /\ ~ServerRecv /\ ~ServerSend
  <2>1. /\ UNCHANGED <<length, out, in, back, read>>
        /\ spc' \notin {"accept", "recv_len", "recv_body"}
    BY <1>4 DEF ServerBlocked
  <2> QED BY <2>1 DEF Buffered
<1> QED BY <1>1, <1>2, <1>3, <1>4

(* Some of what is asked for has arrived, or nothing has. *)
LEMMA SomethingToRead ==
  ASSUME NEW arrived \in Nat, NEW taken \in Nat, NEW target \in Nat,
         taken < arrived, taken < target
  PROVE  Chunks(arrived, taken, target) # {}
<1>1. 1 \in Chunks(arrived, taken, target)
  BY DEF Chunks
<1> QED BY <1>1

(* Whatever the others do or fail to do: the server thread and each client   *)
(* that has not ended (serve_once, exchange_with) has a step to take, or     *)
(* waits in a socket call whose timeout runs.                                *)
THEOREM NoneIsStuck == TSpec => []NobodyStuck
<1>1. TInit => Buffered
  BY SizeAssumption DEF TInit, Buffered
<1>2. TIInv /\ TIInv' /\ Buffered /\ [TNext]_tvars => Buffered'
  <2>1. Buffered /\ UNCHANGED tvars => Buffered'
    BY DEF tvars, input, stream, Buffered
  <2> QED BY <2>1, ClientBuffered, ServerBuffered DEF TNext
<1>3. QInv /\ EInv /\ Buffered => NobodyStuck
  <2> SUFFICES ASSUME QInv, EInv, Buffered PROVE NobodyStuck
    OBVIOUS
  <2>0. TIInv /\ TTypeOK /\ Capacity \in Nat /\ MaxBody \in Nat
    BY SizeAssumption DEF QInv, TIInv
  <2>1. Listening => ServerGoesOn
    <3> SUFFICES ASSUME Listening PROVE ServerGoesOn
      OBVIOUS
    <3>1. spc \in {"accept", "recv_len", "recv_body", "ingest", "send"}
      BY <2>0 DEF TTypeOK, Listening
    <3>2. CASE spc \in {"recv_len", "recv_body"}
      <4>1. conn \in Client
        BY <2>0, <3>2 DEF TIInv, ServerProgress, Connected
      <4>2. in[conn] < ServerTarget /\ ServerTarget \in Nat
        BY <2>0, <3>2, <4>1, FrameTypes DEF Buffered, ServerTarget
      <4>3. out[conn] # in[conn] => in[conn] < out[conn]
        BY <2>0, <4>1, FrameTypes
      <4> QED BY <2>0, <3>2, <4>1, <4>2, <4>3, FrameTypes, SomethingToRead
              DEF ServerGoesOn, ServerBlocked
    <3>3. CASE spc = "send"
      <4>1. conn \in Client
        BY <2>0, <3>3 DEF TIInv, ServerProgress, Connected
      <4>2. back[conn] - read[conn] < Capacity \/ back[conn] - read[conn] = Capacity
        BY <2>0, <4>1, FrameTypes DEF Buffered
      <4> QED BY <3>3, <4>2 DEF ServerGoesOn, ServerBlocked
    <3>4. CASE spc = "ingest"
      <4>1. conn \in Client
        BY <2>0, <3>4 DEF TIInv, ServerProgress, BeforeReply, Connected
      <4> QED BY <2>0, <3>4, <4>1 DEF ServerGoesOn, EInv, Checked, TTypeOK, Contents
    <3> QED BY <3>1, <3>2, <3>3, <3>4 DEF ServerGoesOn
  <2>2. ASSUME NEW c \in Client, ~ClientClosed(c) PROVE ClientGoesOn(c)
    <3>1. cpc[c] \in {"connect", "send", "recv_len", "recv_body", "ingest"}
      BY <2>0, <2>2 DEF TTypeOK, ClientClosed
    <3>2. CASE cpc[c] \in {"recv_len", "recv_body"}
      <4>1. read[c] < ClientTarget(c) /\ ClientTarget(c) \in Nat
        BY <2>0, <3>2, FrameTypes DEF QInv, Unread, ClientTarget
      <4>2. back[c] # read[c] => read[c] < back[c]
        BY <2>0, FrameTypes
      <4> QED BY <2>0, <3>2, <4>1, <4>2, FrameTypes, SomethingToRead
              DEF ClientGoesOn, ClientBlocked
    <3>3. CASE cpc[c] = "send"
      <4>1. out[c] - in[c] < Capacity \/ out[c] - in[c] = Capacity
        BY <2>0, FrameTypes DEF Buffered
      <4> QED BY <3>3, <4>1 DEF ClientGoesOn, ClientBlocked
    <3> QED BY <3>1, <3>2, <3>3 DEF ClientGoesOn
  <2> QED BY <2>1, <2>2 DEF NobodyStuck
<1> QED BY <1>1, <1>2, <1>3, TransportInvariance, QuietInvariance, ExchangeInvariance, PTL DEF TSpec

(* What the server thread and a client have before them: stages, and within  *)
(* a stage units to read and write.                                          *)
ServerStage(p) == CASE p = "accept" -> 5 [] p = "recv_len" -> 4 [] p = "recv_body" -> 3
                    [] p = "ingest" -> 2 [] p = "send" -> 1 [] OTHER -> 0

ClientStage(p) == CASE p = "connect" -> 5 [] p = "send" -> 4 [] p = "recv_len" -> 3
                    [] p = "recv_body" -> 2 [] p = "ingest" -> 1 [] OTHER -> 0

ServerLeft == IF conn \in Client
              THEN Header + length[conn] - in[conn] + Header + reply - back[conn] ELSE 0

ClientLeft(c) == Header + length[c] - out[c] + Header + reply - read[c]

ServerAdvances ==
  \/ ServerStage(spc') < ServerStage(spc)
  \/ spc' = spc /\ ServerLeft' \in Nat /\ ServerLeft' < ServerLeft

ClientAdvances(c) ==
  \/ ClientStage(cpc'[c]) < ClientStage(cpc[c])
  \/ cpc'[c] = cpc[c] /\ ClientLeft(c)' \in Nat /\ ClientLeft(c)' < ClientLeft(c)

ServerRests == UNCHANGED <<spc, ServerLeft>>
ClientRests(c) == cpc'[c] = cpc[c] /\ ClientLeft(c)' = ClientLeft(c)

OneAdvances ==
  \/ ServerAdvances /\ \A c \in Client : ClientRests(c)
  \/ \E c \in Client : /\ ClientAdvances(c)
                       /\ ServerRests
                       /\ \A d \in Client \ {c} : ClientRests(d)

(* What is left to read and write is a number. *)
LEMMA LeftIsNat ==
  ASSUME NEW header \in Nat, NEW l \in Nat, NEW r \in Nat, NEW m \in Nat, NEW n \in Nat,
         m <= header + l, n <= header + r
  PROVE  header + l - m + header + r - n \in Nat
OBVIOUS

(* It gets less when units are moved. *)
LEMMA LeftFalls ==
  ASSUME NEW header \in Nat, NEW l \in Nat, NEW r \in Nat, NEW m \in Nat, NEW n \in Nat,
         NEW i \in Nat, NEW k \in Nat, i + k > 0
  PROVE  header + l - (m + i) + header + r - (n + k) < header + l - m + header + r - n
OBVIOUS

(* Each step of a client ends a stage of its own, or moves units.            *)
LEMMA ClientDescends ==
  ASSUME TIInv, TIInv', NEW c \in Client, ClientStep(c) \/ ClientKilled(c)
  PROVE  ClientAdvances(c) /\ ServerRests /\ \A d \in Client \ {c} : ClientRests(d)
<1> USE DEF Connect, Refused, ConnectTimeout, ClientTooLong, ClientSend, ClientRecv,
            ClientIngest, ClientPeerGone, ClientTimeout, ClientKilled, ClientStep,
            ClientMoves, input, stream
<1>0. TTypeOK /\ TTypeOK'
  BY DEF TIInv
<1>1. UNCHANGED <<length, reply, spc, conn, in, back>>
  OBVIOUS
<1>2. ServerRests
  BY <1>1 DEF ServerRests, ServerLeft
<1>3. \A d \in Client \ {c} : ClientRests(d)
  BY <1>0, <1>1 DEF TTypeOK, ClientRests, ClientLeft
<1>4. ClientLeft(c)' \in Nat
  <2>1. /\ Header \in Nat /\ length'[c] \in Nat /\ reply' \in Nat
        /\ out'[c] \in Nat /\ read'[c] \in Nat
        /\ out'[c] <= Header + length'[c] /\ read'[c] <= Header + reply'
    <3>1. out'[c] \in Nat /\ out'[c] <= Header + length'[c]
      BY <1>0 DEF TTypeOK
    <3>2. /\ read'[c] \in Nat /\ back'[c] \in Nat
          /\ read'[c] <= back'[c] /\ back'[c] <= Header + reply'
      BY <1>0 DEF TTypeOK
    <3>3. Header \in Nat /\ length'[c] \in Nat /\ reply' \in Nat
      BY <1>0, <1>1, FrameTypes
    <3>4. read'[c] <= Header + reply'
      BY <3>2, <3>3
    <3> QED BY <3>1, <3>2, <3>3, <3>4
  <2> QED BY <2>1, LeftIsNat DEF ClientLeft
<1>5. ClientAdvances(c)
  <2>1. CASE ClientSend(c)
    <3>1. out'[c] = out[c] + 1 /\ read' = read /\ cpc[c] = "send"
      BY <1>0, <2>1 DEF TTypeOK
    <3>2. cpc'[c] = cpc[c] \/ cpc'[c] = "recv_len"
      BY <1>0, <2>1 DEF TTypeOK
    <3>3. ClientLeft(c)' < ClientLeft(c)
      BY <1>0, <1>1, <3>1, FrameTypes DEF ClientLeft
    <3>4. CASE cpc'[c] = "recv_len"
      BY <3>1, <3>4 DEF ClientAdvances, ClientStage
    <3> QED BY <1>4, <3>2, <3>3, <3>4 DEF ClientAdvances
  <2>2. CASE ClientRecv(c)
    <3>1. PICK k \in Chunks(back[c], read[c], ClientTarget(c)) :
            /\ read' = [read EXCEPT ![c] = @ + k]
            /\ cpc' = IF read[c] + k < ClientTarget(c) THEN cpc
                      ELSE IF cpc[c] = "recv_body" THEN [cpc EXCEPT ![c] = "ingest"]
                      ELSE IF reply > MaxBody THEN [cpc EXCEPT ![c] = "failed"]
                      ELSE [cpc EXCEPT ![c] = "recv_body"]
      BY <2>2
    <3>2. ClientTarget(c) \in Nat
      BY <1>0, FrameTypes DEF ClientTarget
    <3>3. k \in Nat \ {0} /\ read'[c] = read[c] + k /\ out' = out
      BY <1>0, <2>2, <3>1, <3>2, FrameTypes DEF Chunks, TTypeOK
    <3>4. ClientLeft(c)' < ClientLeft(c)
      <4>1. /\ {Header, length[c], reply, out[c], read[c]} \subseteq Nat /\ out[c] + 0 = out[c]
            /\ 0 + k > 0
        BY <1>0, <3>3, FrameTypes
      <4> QED BY <1>1, <3>3, <4>1, LeftFalls DEF ClientLeft
    <3>5. \/ cpc'[c] = cpc[c]
          \/ cpc[c] \in {"recv_len", "recv_body"} /\ cpc'[c] \in {"ingest", "failed"}
          \/ cpc[c] = "recv_len" /\ cpc'[c] = "recv_body"
      BY <1>0, <2>2, <3>1 DEF TTypeOK
    <3>6. CASE cpc[c] \in {"recv_len", "recv_body"} /\ cpc'[c] \in {"ingest", "failed"}
      BY <3>6 DEF ClientAdvances, ClientStage
    <3>7. CASE cpc[c] = "recv_len" /\ cpc'[c] = "recv_body"
      BY <3>7 DEF ClientAdvances, ClientStage
    <3> QED BY <1>4, <3>4, <3>5, <3>6, <3>7 DEF ClientAdvances
  <2>3. CASE ~ClientSend(c) /\ ~ClientRecv(c)
    <3>1. \/ cpc[c] = "connect" /\ cpc'[c] = "send"
          \/ cpc[c] = "ingest" /\ cpc'[c] = "done"
          \/ cpc[c] \notin ClientEnded /\ cpc'[c] = "failed"
      BY <1>0, <2>3 DEF TTypeOK, ClientBlocked, ClientEnded
    <3>2. cpc[c] \notin ClientEnded =>
            cpc[c] \in {"connect", "send", "recv_len", "recv_body", "ingest"}
      BY <1>0 DEF TTypeOK
    <3> QED BY <3>1, <3>2 DEF ClientAdvances, ClientStage
  <2> QED BY <2>1, <2>2, <2>3
<1> QED BY <1>2, <1>3, <1>5

(* So does each step of the server thread. *)
LEMMA ServerDescends ==
  ASSUME TIInv, TIInv', ServerStep \/ ServerKilled
  PROVE  ServerAdvances /\ \A c \in Client : ClientRests(c)
<1> USE DEF Accept, AcceptTimeout, ServerRecv, ServerIngest, ServerIngestRaises,
            ServerTooLong, ServerSend, ServerPeerGone, ServerTimeout, ServerKilled,
            ServerStep, ServerMoves, input, stream
<1>0. TTypeOK /\ TTypeOK'
  BY DEF TIInv
<1>1. UNCHANGED <<length, reply, cpc, out, read>>
  OBVIOUS
<1>2. \A c \in Client : ClientRests(c)
  BY <1>1 DEF ClientRests, ClientLeft
<1>3. ServerLeft' \in Nat
  <2>1. CASE conn' \in Client
    <3>1. PICK d \in Client : d = conn'
      BY <2>1
    <3>2. /\ in'[d] \in Nat /\ out'[d] \in Nat
          /\ in'[d] <= out'[d] /\ out'[d] <= Header + length'[d]
      BY <1>0 DEF TTypeOK
    <3>3. back'[d] \in Nat /\ back'[d] <= Header + reply'
      BY <1>0 DEF TTypeOK
    <3>4. Header \in Nat /\ length'[d] \in Nat /\ reply' \in Nat
      BY <1>0, <1>1, FrameTypes
    <3>5. in'[d] <= Header + length'[d]
      BY <3>2, <3>4
    <3> QED BY <2>1, <3>1, <3>2, <3>3, <3>4, <3>5, LeftIsNat DEF ServerLeft
  <2> QED BY <2>1 DEF ServerLeft
<1>4. ServerAdvances
  <2>1. CASE ServerRecv
    <3>1. conn \in Client /\ conn' = conn /\ back' = back
      BY <2>1 DEF TIInv, ServerProgress, Connected
    <3>2. PICK k \in Chunks(out[conn], in[conn], ServerTarget) :
            /\ in' = [in EXCEPT ![conn] = @ + k]
            /\ spc' = IF in[conn] + k < ServerTarget THEN spc
                      ELSE IF spc = "recv_body"
                           THEN IF content[conn] # "no_object" THEN "ingest" ELSE "failed"
                      ELSE IF length[conn] > MaxBody THEN "failed"
                      ELSE "recv_body"
      BY <2>1
    <3>3. ServerTarget \in Nat
      BY <1>0, <3>1, FrameTypes DEF ServerTarget
    <3>4. k \in Nat \ {0} /\ in'[conn] = in[conn] + k
      BY <1>0, <3>1, <3>2, <3>3, FrameTypes DEF Chunks, TTypeOK
    <3>5. ServerLeft' < ServerLeft
      <4>1. /\ {Header, length[conn], reply, in[conn], back[conn]} \subseteq Nat
            /\ back[conn] + 0 = back[conn] /\ k + 0 > 0
        BY <1>0, <3>1, <3>4, FrameTypes
      <4> QED BY <1>1, <3>1, <3>4, <4>1, LeftFalls DEF ServerLeft
    <3>6. \/ spc' = spc
          \/ spc \in {"recv_len", "recv_body"} /\ spc' \in {"ingest", "failed"}
          \/ spc = "recv_len" /\ spc' = "recv_body"
      BY <2>1, <3>2
    <3>7. CASE spc \in {"recv_len", "recv_body"} /\ spc' \in {"ingest", "failed"}
      BY <3>7 DEF ServerAdvances, ServerStage
    <3>8. CASE spc = "recv_len" /\ spc' = "recv_body"
      BY <3>8 DEF ServerAdvances, ServerStage
    <3> QED BY <1>3, <3>5, <3>6, <3>7, <3>8 DEF ServerAdvances
  <2>2. CASE ServerSend
    <3>1. conn \in Client /\ conn' = conn /\ in' = in
      BY <2>2 DEF TIInv, ServerProgress, Connected
    <3>2. back'[conn] = back[conn] + 1
      BY <1>0, <2>2, <3>1 DEF TTypeOK
    <3>3. ServerLeft' < ServerLeft
      <4>1. /\ {Header, length[conn], reply, in[conn], back[conn]} \subseteq Nat
            /\ in[conn] + 0 = in[conn] /\ 0 + 1 > 0
        BY <1>0, <3>1, FrameTypes
      <4> QED BY <1>1, <3>1, <3>2, <4>1, LeftFalls DEF ServerLeft
    <3>4. CASE spc' = "done"
      BY <2>2, <3>4 DEF ServerAdvances, ServerStage
    <3> QED BY <1>3, <2>2, <3>3, <3>4 DEF ServerAdvances
  <2>3. CASE ~ServerRecv /\ ~ServerSend
    <3>1. \/ spc = "accept" /\ spc' = "recv_len"
          \/ spc = "ingest" /\ spc' = "send"
          \/ spc \notin ServerEnded /\ spc' \in {"failed", "expired"}
      BY <2>3 DEF ServerBlocked, Listening, ServerEnded
    <3>2. spc \notin ServerEnded => spc \in {"accept", "recv_len", "recv_body", "ingest", "send"}
      BY <1>0 DEF TTypeOK
    <3> QED BY <3>1, <3>2 DEF ServerAdvances, ServerStage
  <2> QED BY <2>1, <2>2, <2>3
<1> QED BY <1>2, <1>4

(* Steps run out (serve_once, exchange_with): each brings one participant    *)
(* nearer to its end and the others no farther from theirs, so that of any   *)
(* finitely many callers none goes on for ever.                              *)
THEOREM StepsRunOut == TSpec => [][OneAdvances]_tvars
<1>1. TIInv /\ TIInv' /\ TNext => OneAdvances
  BY ClientDescends, ServerDescends DEF TNext, OneAdvances
<1> QED BY <1>1, TransportInvariance, PTL DEF TSpec
=============================================================================
