------------------------------- MODULE Seeders -------------------------------
(***************************************************************************)
(* GossipState.seeders (src/gither/gossip.py) called by one thread while   *)
(* others ingest bundles into the same state.  The call iterates over the  *)
(* inventory dictionary and yields the interpreter between two entries; an *)
(* iterator raises RuntimeError when the dictionary's size is not what it  *)
(* was when the iteration began.  Entries are visited in any order.        *)
(***************************************************************************)
EXTENDS GossipState, FiniteSets

VARIABLES query,  \* the call: where it is and its locals
          always, \* history: nodes that advertised the RID throughout the call
          ever    \* history: nodes that advertised it at some moment of it

svars == <<refs, inventory, pc, bundle, todo, accepted, query, always, ever>>

Known == {n \in Node : inventory[n] # None}
Advertisers(rid) == {n \in Known : rid \in inventory[n].rids}

NoQuery == [pc |-> "idle", rid |-> None, size |-> 0, visited |-> {}, found |-> {}]

SInit == Init /\ query = NoQuery /\ always = {} /\ ever = {}

(* A query starts: items() of the dictionary as it is now. *)
Start ==
  /\ query.pc # "iterating"
  /\ \E rid \in Rid :
       /\ query' = [pc |-> "iterating", rid |-> rid, size |-> Cardinality(Known),
                    visited |-> {}, found |-> {}]
       /\ always' = Advertisers(rid)
       /\ ever' = Advertisers(rid)
  /\ UNCHANGED vars

SameSize == Cardinality(Known) = query.size

(* Variant: every node in the inventory counts as a seeder. *)
ListsAny(rid, ann) == rid \in Rid

(* if rid in ann.rids *)
Lists(rid, ann) == rid \in ann.rids

Visit ==
  /\ query.pc = "iterating"
  /\ SameSize
  /\ \E n \in Known \ query.visited :
       query' = [query EXCEPT !.visited = @ \cup {n},
                              !.found = IF Lists(query.rid, inventory[n])
                                        THEN @ \cup {n} ELSE @]
  /\ UNCHANGED <<vars, always, ever>>

Finish ==
  /\ query.pc = "iterating"
  /\ SameSize
  /\ Known \subseteq query.visited
  /\ query' = [query EXCEPT !.pc = "returned"]
  /\ UNCHANGED <<vars, always, ever>>

Raise ==
  /\ query.pc = "iterating"
  /\ ~SameSize
  /\ query' = [query EXCEPT !.pc = "raised"]
  /\ UNCHANGED <<vars, always, ever>>

(* An ingesting thread moves; the histories follow what is advertised. *)
Ingest ==
  /\ Next
  /\ UNCHANGED query
  /\ IF query.pc = "iterating"
     THEN /\ always' = always \cap Advertisers(query.rid)'
          /\ ever' = ever \cup Advertisers(query.rid)'
     ELSE UNCHANGED <<always, ever>>

SNext == Start \/ Visit \/ Finish \/ Raise \/ Ingest

SSpec == SInit /\ [][SNext]_svars
-----------------------------------------------------------------------------
(* What seeders returns, when it returns: every node that advertised the RID *)
(* during the whole call is in it, and every node in it advertised the RID   *)
(* at some moment of the call, however ingest_inventory interleaved.         *)
SeedersWithinCall ==
  query.pc = "returned" => always \subseteq query.found /\ query.found \subseteq ever

=============================================================================
