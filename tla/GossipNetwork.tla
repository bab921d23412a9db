---------------------------- MODULE GossipNetwork ----------------------------
(***************************************************************************)
(* Publishers that announce their repository (gither announce, cli.py) and *)
(* receivers that merge the announcements into a GossipState each, one     *)
(* thread per receiver: GossipState shows that such a receiver's tables    *)
(* are keep-the-freshest registers, so an ingest is one step here.         *)
(*                                                                         *)
(* What carries the announcements is unreliable.  The two announcements of *)
(* one publication are signed and verified each on its own, so a relay may *)
(* put any of them in a bundle, pair them anew, drop or spoil one of them  *)
(* (what does not verify is skipped: GossipState): either half may reach a *)
(* receiver late, out of order, several times or never, with the other     *)
(* half or without.  A GossipState lives in memory only, so a restart      *)
(* empties it.                                                             *)
(***************************************************************************)
EXTENDS Naturals, FiniteSets

CONSTANTS Publisher, Receiver,  \* nodes that announce, nodes that listen
          RepoId,       \* repository identifiers
          Digest,       \* digests of sets of refs
          Nothing,      \* no announcement: the None of dict.get
          MaxClock,     \* bound on the clocks
          MaxPublished, \* bound on the announcements made
          MaxRestarts   \* bound on the restarts of all receivers

ASSUME ClockAssumption == MaxClock \in Nat

(* What one run of announce prints: the refs announcement and the inventory  *)
(* announcement of one RID, with one timestamp.                              *)
Announcement == [node : Publisher, rid : RepoId, root : Digest, ts : Nat]

ASSUME NothingAssumption == Nothing \notin Announcement

VARIABLES
  published,    \* every announcement printed so far
  refs_of,      \* receiver -> (publisher, RID) -> freshest announcement
  inventory_of, \* receiver -> publisher -> freshest announcement
  pending,      \* receiver -> the inventory half of its bundle, still to do
  got,          \* history: receiver -> the halves it ingested since it started
  bare,         \* history: receiver -> the inventory halves that came to it in
                \*   a bundle that did not hold their refs half
  restarts

rvars == <<refs_of, inventory_of, pending, got, bare, restarts>>
nvars == <<published, rvars>>

NoRefs == [k \in Publisher \X RepoId |-> Nothing]
NoInventory == [n \in Publisher |-> Nothing]
NoneGot == [refs |-> {}, inventory |-> {}]

NTypeOK ==
  /\ published \in SUBSET Announcement
  /\ refs_of \in [Receiver -> [Publisher \X RepoId -> Announcement \cup {Nothing}]]
  /\ inventory_of \in [Receiver -> [Publisher -> Announcement \cup {Nothing}]]
  /\ pending \in [Receiver -> Announcement \cup {Nothing}]
  /\ got \in [Receiver -> [refs : SUBSET Announcement, inventory : SUBSET Announcement]]
  /\ bare \in [Receiver -> SUBSET Announcement]
  /\ restarts \in Nat

NInit ==
  /\ published = {}
  /\ refs_of = [r \in Receiver |-> NoRefs]
  /\ inventory_of = [r \in Receiver |-> NoInventory]
  /\ pending = [r \in Receiver |-> Nothing]
  /\ got = [r \in Receiver |-> NoneGot]
  /\ bare = [r \in Receiver |-> {}]
  /\ restarts = 0

-----------------------------------------------------------------------------
(* handle_announce reads the RID of the identity in rad.json, then the refs, *)
(* then the time, each once, while others may replace the identity (gither   *)
(* rad-id --name), move the refs and set the clock, also back: it may print  *)
(* any combination of them.                                                  *)
Announce(n) ==
  /\ Cardinality(published) < MaxPublished
  /\ \E rid \in RepoId, root \in Digest, time \in 0..MaxClock :
       published' = published \cup {[node |-> n, rid |-> rid, root |-> root, ts |-> time]}
  /\ UNCHANGED rvars

-----------------------------------------------------------------------------
(* Variant: the last one to arrive wins. *)
KeptLast(current, a) == IF a # Nothing THEN a ELSE current

(* GossipState's rule for one key of a table: an equal or older timestamp    *)
(* changes nothing.                                                          *)
Kept(current, a) == IF current # Nothing /\ a.ts <= current.ts THEN current ELSE a

(* ingest_bundle on a bundle in which the refs half of a and the inventory   *)
(* half of b verify, or that holds only one such half: its refs list first,  *)
IngestRefs(r, a, b) ==
  /\ pending[r] = Nothing
  /\ a # Nothing \/ b # Nothing
  /\ IF a = Nothing
     THEN UNCHANGED <<refs_of, got>>
     ELSE /\ refs_of' = [refs_of EXCEPT ![r][<<a.node, a.rid>>] = Kept(@, a)]
          /\ got' = [got EXCEPT ![r].refs = @ \cup {a}]
  /\ pending' = [pending EXCEPT ![r] = b]
  /\ bare' = [bare EXCEPT ![r] = IF b \in {a, Nothing} THEN @ ELSE @ \cup {b}]
  /\ UNCHANGED <<published, inventory_of, restarts>>

(* then its inventory list. *)
IngestInventory(r) ==
  /\ pending[r] # Nothing
  /\ inventory_of' = [inventory_of EXCEPT ![r][pending[r].node] = Kept(@, pending[r])]
  /\ got' = [got EXCEPT ![r].inventory = @ \cup {pending[r]}]
  /\ pending' = [pending EXCEPT ![r] = Nothing]
  /\ UNCHANGED <<published, refs_of, bare, restarts>>

(* A receiver's process ends, possibly amid a bundle, and a new one starts.  *)
Restart(r) ==
  /\ restarts < MaxRestarts
  /\ restarts' = restarts + 1
  /\ refs_of' = [refs_of EXCEPT ![r] = NoRefs]
  /\ inventory_of' = [inventory_of EXCEPT ![r] = NoInventory]
  /\ pending' = [pending EXCEPT ![r] = Nothing]
  /\ got' = [got EXCEPT ![r] = NoneGot]
  /\ bare' = [bare EXCEPT ![r] = {}]
  /\ UNCHANGED published

Publish == \E n \in Publisher : Announce(n)

Listen == \E r \in Receiver : \/ \E a, b \in published \cup {Nothing} : IngestRefs(r, a, b)
                              \/ IngestInventory(r)
                              \/ Restart(r)

NNext == Publish \/ Listen

NSpec == NInit /\ [][NNext]_nvars
-----------------------------------------------------------------------------
(* Properties *)

(* No two announcements of n were made in one second of its clock: nothing   *)
(* in the code sees to it.                                                   *)
DistinctTimes(n) ==
  \A a, b \in published : a.node = n /\ b.node = n /\ a.ts = b.ts => a = b

SameAge(d, e) == \/ d = Nothing /\ e = Nothing
                 \/ d # Nothing /\ e # Nothing /\ d.ts = e.ts

(* Two receivers that ingested the same refs halves, or the same inventory   *)
(* halves, hold tables of the same age, in whatever orders and however often *)
(* they ingested them, restarts and clocks set back included; and the same   *)
(* entries of every publisher that never announced twice in a second.  This  *)
(* is how "the network converges without a server", and how far it does.     *)
Agreement ==
  \A r, s \in Receiver, n \in Publisher :
    /\ got[r].inventory = got[s].inventory =>
         /\ SameAge(inventory_of[r][n], inventory_of[s][n])
         /\ DistinctTimes(n) => inventory_of[r][n] = inventory_of[s][n]
    /\ got[r].refs = got[s].refs =>
         \A x \in RepoId : /\ SameAge(refs_of[r][<<n, x>>], refs_of[s][<<n, x>>])
                           /\ DistinctTimes(n) => refs_of[r][<<n, x>>] = refs_of[s][<<n, x>>]

(* A receiver that has ingested the announcement a publisher made at its one *)
(* latest time holds it, whatever else reached the receiver or did not, and  *)
(* in whatever order: the RID a publisher is listed under is then the one it *)
(* announced at that time.                                                   *)
LatestWins ==
  \A r \in Receiver, n \in Publisher, a \in published :
    /\ a.node = n
    /\ \A b \in published \ {a} : b.node = n => b.ts < a.ts
    => /\ a \in got[r].inventory => inventory_of[r][n] = a
       /\ a \in got[r].refs => refs_of[r][<<n, a.rid>>] = a

(* Refs are ingested before the inventory: whoever is listed as a seeder of  *)
(* a RID has a refs announcement for it that is as recent, at every moment,  *)
(* also amid a bundle and after a restart, unless a carrier took the two     *)
(* halves of the seeder's announcement apart.                                *)
SeederHasRefs ==
  \A r \in Receiver, n \in Publisher :
    LET a == inventory_of[r][n] IN
    a # Nothing /\ a \notin bare[r] => /\ refs_of[r][<<n, a.rid>>] # Nothing
                                      /\ refs_of[r][<<n, a.rid>>].ts >= a.ts
-----------------------------------------------------------------------------
(* What GossipState promises of a table, with a receiver's table for it.     *)
RefsKeyOf(a) == <<a.node, a.rid>>
InventoryKeyOf(a) == a.node
TimeStamp(a) == a.ts
Genuine(a) == a \in Announcement

RefsRegister(r) == INSTANCE FreshestView
  WITH Key <- Publisher \X RepoId, Item <- Announcement, None <- Nothing,
       KeyOf <- RefsKeyOf, Time <- TimeStamp, Valid <- Genuine, view <- refs_of[r]
InventoryRegister(r) == INSTANCE FreshestView
  WITH Key <- Publisher, Item <- Announcement, None <- Nothing,
       KeyOf <- InventoryKeyOf, Time <- TimeStamp, Valid <- Genuine, view <- inventory_of[r]

(* Until its receiver is restarted, each table is such a register: an ingest *)
(* offers it one published announcement, or leaves it alone.                 *)
ReceiversAreRegisters ==
  /\ \A r \in Receiver : RefsRegister(r)!Init /\ InventoryRegister(r)!Init
  /\ [][\A r \in Receiver :
          \/ Restart(r) /\ RefsRegister(r)!Init' /\ InventoryRegister(r)!Init'
          \/ /\ \/ \E a \in published : RefsRegister(r)!Offer(a)
                \/ UNCHANGED refs_of[r]
             /\ \/ \E a \in published : InventoryRegister(r)!Offer(a)
                \/ UNCHANGED inventory_of[r]]_nvars
=============================================================================
