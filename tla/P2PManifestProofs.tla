------------------------- MODULE P2PManifestProofs -------------------------
(***************************************************************************)
(* Proofs about P2PManifest, for any workspace, any branches and commits,  *)
(* and any bounds.                                                         *)
(***************************************************************************)
EXTENDS P2PManifest, TLAPS

(* A commit that is on no branch was taken off one or made on a detached     *)
(* HEAD; nothing comes before a commit that is not made yet.                 *)
OnBranch(g, c) == \E b \in Branch : g.tip[b] # 0 /\ c \in Ancestors(g, g.tip[b])

GitFits(g) ==
  /\ g \in GitRepo
  /\ g.at <= g.commits /\ \A b \in Branch : g.tip[b] <= g.commits
  /\ \A c \in Commit : /\ g.parent[c] <= g.commits
                       /\ c > g.commits => g.parent[c] = 0
  /\ \A c \in Commit : c <= g.commits /\ c \notin g.loose => OnBranch(g, c)

(* What a step of the owner does to a repository: commits and loose ones     *)
(* only become more, and so do the ancestors of a commit.                    *)
Grows(g, h) ==
  /\ g.commits <= h.commits
  /\ g.loose \subseteq h.loose
  /\ \A c \in Commit : Ancestors(g, c) \subseteq Ancestors(h, c)

-----------------------------------------------------------------------------
(* Commits: a commit is one of its ancestors, those of its parent are, and   *)
(* there are no others.                                                      *)
LEMMA AncestorsOf ==
  ASSUME NEW g, g.parent \in [Commit -> 0..MaxCommits], NEW c \in Commit
  PROVE  /\ c \in Ancestors(g, c)
         /\ g.parent[c] # 0 => Ancestors(g, g.parent[c]) \subseteq Ancestors(g, c)
         /\ \A d \in Ancestors(g, c) :
              d = c \/ (g.parent[c] # 0 /\ d \in Ancestors(g, g.parent[c]))
<1>0. \A e \in Commit : g.parent[e] # 0 => g.parent[e] \in Commit
  BY BoundAssumption DEF Commit
<1>1. c \in Ancestors(g, c)
  BY DEF Ancestors
<1>2. ASSUME g.parent[c] # 0, NEW d \in Ancestors(g, g.parent[c])
      PROVE  d \in Ancestors(g, c)
  <2> SUFFICES ASSUME NEW S \in SUBSET Commit,
                      c \in S, \A e \in S : g.parent[e] \in S \cup {0}
               PROVE  d \in S
    BY <1>2 DEF Ancestors
  <2>1. g.parent[c] \in S
    BY <1>2
  <2> QED BY <1>2, <2>1 DEF Ancestors
<1>3. ASSUME NEW d \in Ancestors(g, c), d # c
      PROVE  g.parent[c] # 0 /\ d \in Ancestors(g, g.parent[c])
  <2>1. CASE g.parent[c] = 0
    <3>1. {c} \in SUBSET Commit /\ \A e \in {c} : g.parent[e] \in {c} \cup {0}
      BY <2>1
    <3>2. d \in {c}
      BY <1>3, <3>1 DEF Ancestors
    <3> QED BY <1>3, <3>2
  <2>2. CASE g.parent[c] # 0
    <3> SUFFICES ASSUME NEW S \in SUBSET Commit,
                        g.parent[c] \in S, \A e \in S : g.parent[e] \in S \cup {0}
                 PROVE  d \in S
      BY <1>3, <2>2 DEF Ancestors
    <3>1. S \cup {c} \in SUBSET Commit
          /\ \A e \in S \cup {c} : g.parent[e] \in (S \cup {c}) \cup {0}
      OBVIOUS
    <3>2. d \in S \cup {c}
      BY <1>3, <3>1 DEF Ancestors
    <3> QED BY <1>3, <3>2
  <2> QED BY <2>1, <2>2
<1> QED BY <1>1, <1>2, <1>3

(* A new commit gets its parent, which the others do not see.                *)
LEMMA AncestorsKept ==
  ASSUME NEW g, NEW h, g.parent \in [Commit -> 0..MaxCommits], NEW n \in Commit, NEW p,
         g.parent[n] = 0, h.parent = [g.parent EXCEPT ![n] = p],
         NEW c \in Commit
  PROVE  Ancestors(g, c) \subseteq Ancestors(h, c)
<1> SUFFICES ASSUME NEW d \in Ancestors(g, c), NEW S \in SUBSET Commit,
                    c \in S, \A e \in S : h.parent[e] \in S \cup {0}
             PROVE  d \in S
  BY DEF Ancestors
<1>1. \A e \in S : g.parent[e] \in S \cup {0}
  OBVIOUS
<1> QED BY <1>1 DEF Ancestors

(* Where the graph of commits stays, so do the ancestors. *)
LEMMA SameParents ==
  ASSUME NEW g, NEW h, h.parent = g.parent, NEW c
  PROVE  Ancestors(h, c) = Ancestors(g, c)
BY DEF Ancestors

-----------------------------------------------------------------------------
(* The owners. *)
LEMMA HeadIsMade ==
  ASSUME NEW g, GitFits(g)
  PROVE  HeadOf(g) \in 0..g.commits /\ g.commits \in 0..MaxCommits
BY BoundAssumption DEF GitFits, GitRepo, HeadOf

LEMMA CommitFits ==
  ASSUME NEW r \in Repo, GitFits(git[r]), MakeCommit(r), git \in [Repo -> GitRepo]
  PROVE  GitFits(git'[r]) /\ Grows(git[r], git'[r])
<1> DEFINE g == git[r]  h == git'[r]  c == g.commits + 1
<1>0. /\ c <= MaxCommits /\ c \in Commit /\ g \in GitRepo
      /\ g.commits \in 0..MaxCommits /\ HeadOf(g) \in 0..g.commits
      /\ g.parent \in [Commit -> 0..MaxCommits] /\ g.parent[c] = 0
      /\ MaxCommits \in Nat
  <2>1. /\ c <= MaxCommits /\ g \in GitRepo /\ MaxCommits \in Nat
        /\ g.commits \in 0..MaxCommits /\ HeadOf(g) \in 0..g.commits
    BY HeadIsMade, BoundAssumption DEF MakeCommit, GitFits
  <2>2. g.parent \in [Commit -> 0..MaxCommits]
    BY <2>1 DEF GitRepo
  <2>3. c \in Commit /\ c > g.commits
    BY <2>1 DEF Commit
  <2> QED BY <2>1, <2>2, <2>3 DEF GitFits
<1>1. /\ h = [g EXCEPT !.commits = c, !.parent[c] = HeadOf(g), !.dirty = FALSE,
                       !.at = IF g.on = Detached THEN c ELSE @,
                       !.loose = IF g.on = Detached THEN @ \cup {c} ELSE @,
                       !.tip = IF g.on = Detached THEN @ ELSE [@ EXCEPT ![g.on] = c]]
  BY <1>0 DEF MakeCommit, Move, GitRepo
<1>2. /\ h.commits = c /\ h.parent = [g.parent EXCEPT ![c] = HeadOf(g)]
      /\ h.dir = g.dir /\ h.on = g.on /\ h.dirty = FALSE
      /\ h.at = (IF g.on = Detached THEN c ELSE g.at)
      /\ h.loose = (IF g.on = Detached THEN g.loose \cup {c} ELSE g.loose)
      /\ h.tip = (IF g.on = Detached THEN g.tip ELSE [g.tip EXCEPT ![g.on] = c])
  BY <1>0, <1>1 DEF GitRepo
<1>3. \A d \in Commit : Ancestors(g, d) \subseteq Ancestors(h, d)
  <2>1. h.parent = [g.parent EXCEPT ![c] = HeadOf(g)]
    BY <1>2
  <2> HIDE DEF g, h, c
  <2> QED BY <1>0, <2>1, AncestorsKept
<1>4. h \in GitRepo
  <2>1. h.parent \in [Commit -> 0..MaxCommits]
    BY <1>0, <1>2
  <2>2. h.tip \in [Branch -> 0..MaxCommits]
    BY <1>0, <1>2 DEF GitRepo
  <2>3. /\ h.dir \in {"repo", "plain", "gone"} /\ h.on \in Branch \cup {Detached}
        /\ h.at \in 0..MaxCommits /\ h.commits \in 0..MaxCommits
        /\ h.loose \in SUBSET Commit /\ h.dirty \in BOOLEAN
    <3>1. /\ g.dir \in {"repo", "plain", "gone"} /\ g.on \in Branch \cup {Detached}
          /\ g.at \in 0..MaxCommits /\ g.loose \in SUBSET Commit
      BY <1>0 DEF GitRepo
    <3>2. h.at \in 0..MaxCommits /\ h.commits \in 0..MaxCommits
      BY <1>0, <1>2, <3>1
    <3>3. h.loose \in SUBSET Commit
      BY <1>0, <1>2, <3>1
    <3> QED BY <1>2, <3>1, <3>2, <3>3
  <2>4. h = [dir |-> h.dir, on |-> h.on, tip |-> h.tip, at |-> h.at, commits |-> h.commits,
             parent |-> h.parent, loose |-> h.loose, dirty |-> h.dirty]
    BY <1>0, <1>1 DEF GitRepo
  <2> HIDE DEF g, h, c
  <2> QED BY <2>1, <2>2, <2>3, <2>4 DEF GitRepo
<1>5. h.at <= c /\ \A b \in Branch : h.tip[b] <= c
  BY <1>0, <1>2, BoundAssumption DEF GitFits, GitRepo
<1>6. \A d \in Commit : h.parent[d] <= c /\ (d > c => h.parent[d] = 0)
  BY <1>0, <1>2 DEF GitFits, Commit
<1>7. ASSUME NEW d \in Commit, d <= c, d \notin h.loose
      PROVE  OnBranch(h, d)
  <2>1. CASE d = c
    <3>1. g.on # Detached /\ g.on \in Branch
      BY <1>0, <1>2, <1>7, <2>1 DEF GitRepo
    <3>2. h.tip[g.on] = c /\ c # 0
      BY <1>0, <1>2, <3>1 DEF GitRepo
    <3>3. c \in Ancestors(h, c)
      BY <1>0, <1>4, AncestorsOf DEF GitRepo
    <3> QED BY <2>1, <3>1, <3>2, <3>3 DEF OnBranch
  <2>2. CASE d # c
    <3>1. d <= g.commits /\ d \notin g.loose
      BY <1>0, <1>2, <1>7, <2>2 DEF Commit
    <3>2. PICK b \in Branch : g.tip[b] # 0 /\ d \in Ancestors(g, g.tip[b])
      BY <3>1 DEF GitFits, OnBranch
    <3>3. g.tip[b] \in Commit
      BY <1>0, <3>2 DEF GitRepo, Commit
    <3>4. d \in Ancestors(h, g.tip[b])
      BY <1>3, <3>2, <3>3
    <3>5. CASE h.tip[b] = g.tip[b]
      BY <3>2, <3>4, <3>5 DEF OnBranch
    <3>6. CASE h.tip[b] # g.tip[b]
      <4>1. b = g.on /\ g.on # Detached /\ h.tip[b] = c /\ h.parent[c] = g.tip[b]
        BY <1>0, <1>2, <3>6 DEF GitRepo, HeadOf
      <4>2. d \in Ancestors(h, c)
        BY <1>0, <1>4, <3>2, <3>4, <4>1, AncestorsOf DEF GitRepo
      <4> QED BY <1>0, <4>1, <4>2 DEF OnBranch
    <3> QED BY <3>5, <3>6
  <2> QED BY <2>1, <2>2
<1>8. GitFits(h)
  BY <1>2, <1>4, <1>5, <1>6, <1>7 DEF GitFits
<1> QED BY <1>0, <1>2, <1>3, <1>8 DEF Grows

(* A step that makes no commit leaves those of a branch on a branch, or     *)
(* leaves them loose.                                                        *)
LEMMA MoveFits ==
  ASSUME NEW g, NEW h, GitFits(g), h \in GitRepo,
         h.parent = g.parent, h.commits = g.commits, g.loose \subseteq h.loose,
         h.at <= h.commits, \A b \in Branch : h.tip[b] <= h.commits,
         \A b \in Branch : g.tip[b] # 0 =>
           \A c \in Ancestors(g, g.tip[b]) : c \in h.loose \/ OnBranch(h, c)
  PROVE  GitFits(h) /\ Grows(g, h)
<1>1. ASSUME NEW c \in Commit, c <= h.commits, c \notin h.loose PROVE OnBranch(h, c)
  BY <1>1 DEF GitFits, OnBranch
<1>2. Grows(g, h)
  BY SameParents, BoundAssumption DEF Grows, GitFits, GitRepo
<1> QED BY <1>1, <1>2 DEF GitFits

LEMMA StayFits ==
  ASSUME NEW g, NEW h, GitFits(g), h \in GitRepo,
         h.parent = g.parent, h.commits = g.commits, h.loose = g.loose,
         h.at \in {g.at, HeadOf(g)},
         \A b \in Branch : h.tip[b] = g.tip[b] \/ (g.tip[b] = 0 /\ h.tip[b] = HeadOf(g))
  PROVE  GitFits(h) /\ Grows(g, h)
<1>1. h.at <= h.commits /\ \A b \in Branch : h.tip[b] <= h.commits
  BY HeadIsMade DEF GitFits
<1>2. ASSUME NEW b \in Branch, g.tip[b] # 0, NEW c \in Ancestors(g, g.tip[b])
      PROVE  OnBranch(h, c)
  BY <1>2, SameParents DEF OnBranch
<1> QED BY <1>1, <1>2, MoveFits

LEMMA RewindFits ==
  ASSUME NEW r \in Repo, git \in [Repo -> GitRepo], Rewind(r),
         NEW g, g = git[r], GitFits(g), NEW h, h = git'[r]
  PROVE  GitFits(h) /\ Grows(g, h)
<1>1. PICK b \in Branch :
        /\ g.tip[b] # 0 /\ g.parent[g.tip[b]] # 0
        /\ Move(r, [g EXCEPT !.tip[b] = g.parent[@], !.loose = @ \cup {g.tip[b]}])
  BY DEF Rewind
<1>2. /\ g \in GitRepo /\ g.tip[b] \in Commit /\ g.tip[b] <= g.commits
      /\ g.parent \in [Commit -> 0..MaxCommits] /\ MaxCommits \in Nat
      /\ g.commits \in 0..MaxCommits
  BY <1>1, BoundAssumption DEF GitFits, GitRepo, Commit
<1>3. /\ h = [g EXCEPT !.tip = [g.tip EXCEPT ![b] = g.parent[g.tip[b]]],
                       !.loose = g.loose \cup {g.tip[b]}]
      /\ h.tip = [g.tip EXCEPT ![b] = g.parent[g.tip[b]]]
      /\ h.loose = g.loose \cup {g.tip[b]}
      /\ h.parent = g.parent /\ h.commits = g.commits /\ h.at = g.at
  BY <1>1, <1>2 DEF Move, GitRepo
<1>4. h \in GitRepo
  <2>1. h.tip \in [Branch -> 0..MaxCommits] /\ h.loose \in SUBSET Commit
    BY <1>2, <1>3 DEF GitRepo
  <2> QED BY <1>2, <1>3, <2>1 DEF GitRepo
<1>9. \A c : Ancestors(h, c) = Ancestors(g, c)
  <2>1. h.parent = g.parent
    BY <1>3
  <2> QED BY <2>1, SameParents
<1>5. g.parent[g.tip[b]] <= g.commits
  BY <1>2 DEF GitFits
<1>6. ASSUME NEW a \in Branch, g.tip[a] # 0, NEW c \in Ancestors(g, g.tip[a])
      PROVE  c \in h.loose \/ OnBranch(h, c)
  <2>1. CASE a # b
    <3>1. h.tip[a] = g.tip[a]
      BY <1>2, <1>3, <2>1 DEF GitRepo
    <3>2. c \in Ancestors(h, h.tip[a])
      BY <1>6, <1>9, <3>1
    <3> QED BY <1>6, <3>1, <3>2 DEF OnBranch
  <2>2. CASE a = b
    <3>1. c = g.tip[b] \/ c \in Ancestors(g, g.parent[g.tip[b]])
      BY <1>2, <1>6, <2>2, AncestorsOf
    <3>2. h.tip[b] = g.parent[g.tip[b]]
      BY <1>2, <1>3 DEF GitRepo
    <3>3. Ancestors(h, h.tip[b]) = Ancestors(g, g.parent[g.tip[b]])
      BY <1>9, <3>2
    <3> QED BY <1>1, <1>3, <3>1, <3>2, <3>3 DEF OnBranch
  <2> QED BY <2>1, <2>2
<1>7. h.at <= h.commits /\ \A a \in Branch : h.tip[a] <= h.commits
  BY <1>2, <1>3, <1>5 DEF GitFits, GitRepo
<1> QED BY <1>3, <1>4, <1>6, <1>7, MoveFits

LEMMA OwnerFits ==
  ASSUME NEW r \in Repo, git \in [Repo -> GitRepo], Owner(r),
         NEW g, g = git[r], GitFits(g), NEW h, h = git'[r]
  PROVE  GitFits(h) /\ Grows(g, h)
<1>1. g \in GitRepo /\ HeadOf(g) \in 0..MaxCommits /\ MaxCommits \in Nat
  BY HeadIsMade, BoundAssumption
<1>2. CASE Touch(r)
  <2>1. h = [g EXCEPT !.dirty = TRUE]
    BY <1>2 DEF Touch, Move
  <2>2. h \in GitRepo
    BY <1>1, <2>1 DEF GitRepo
  <2>3. h.parent = g.parent /\ h.commits = g.commits /\ h.loose = g.loose
        /\ h.at = g.at /\ h.tip = g.tip
    BY <1>1, <2>1 DEF GitRepo
  <2> QED BY <2>2, <2>3, StayFits
<1>3. CASE Remove(r)
  <2>1. PICK dir \in {"plain", "gone"} : h = [g EXCEPT !.dir = dir]
    BY <1>3 DEF Remove, Move
  <2>2. h \in GitRepo
    BY <1>1, <2>1 DEF GitRepo
  <2>3. h.parent = g.parent /\ h.commits = g.commits /\ h.loose = g.loose
        /\ h.at = g.at /\ h.tip = g.tip
    BY <1>1, <2>1 DEF GitRepo
  <2> QED BY <2>2, <2>3, StayFits
<1>4. CASE Detach(r)
  <2>1. h = [g EXCEPT !.on = Detached, !.at = HeadOf(g)]
    BY <1>4 DEF Detach, Move
  <2>2. h \in GitRepo
    BY <1>1, <2>1 DEF GitRepo
  <2>3. h.parent = g.parent /\ h.commits = g.commits /\ h.loose = g.loose
        /\ h.at = HeadOf(g) /\ h.tip = g.tip
    BY <1>1, <2>1 DEF GitRepo
  <2> QED BY <2>2, <2>3, StayFits
<1>5. ASSUME NEW b \in Branch, Switch(r, b) PROVE GitFits(h) /\ Grows(g, h)
  <2>1. \/ g.tip[b] = 0 /\ h = [g EXCEPT !.on = b, !.tip = [g.tip EXCEPT ![b] = HeadOf(g)]]
        \/ h = [g EXCEPT !.on = b]
    <3>1. \/ g.tip[b] = 0 /\ h = [g EXCEPT !.on = b, !.tip[b] = HeadOf(g)]
          \/ h = [g EXCEPT !.on = b]
      BY <1>5 DEF Switch, Move
    <3>2. [g EXCEPT !.on = b, !.tip[b] = HeadOf(g)]
             = [g EXCEPT !.on = b, !.tip = [g.tip EXCEPT ![b] = HeadOf(g)]]
      BY <1>1 DEF GitRepo
    <3> QED BY <3>1, <3>2
  <2>2. h \in GitRepo
    <3>1. [g.tip EXCEPT ![b] = HeadOf(g)] \in [Branch -> 0..MaxCommits]
      BY <1>1 DEF GitRepo
    <3> QED BY <1>1, <2>1, <3>1 DEF GitRepo
  <2>3. /\ h.parent = g.parent /\ h.commits = g.commits /\ h.loose = g.loose
        /\ h.at = g.at
        /\ \/ h.tip = g.tip
           \/ g.tip[b] = 0 /\ h.tip = [g.tip EXCEPT ![b] = HeadOf(g)]
    BY <1>1, <2>1 DEF GitRepo
  <2>4. \A a \in Branch : h.tip[a] = g.tip[a] \/ (g.tip[a] = 0 /\ h.tip[a] = HeadOf(g))
    BY <1>1, <2>3 DEF GitRepo
  <2> QED BY <2>2, <2>3, <2>4, StayFits
<1> QED BY <1>2, <1>3, <1>4, <1>5, CommitFits, RewindFits DEF Owner

-----------------------------------------------------------------------------
(* A state that was read says what can be fetched: its head is a commit, and *)
(* for a repository that was intact all the time it is there, and the head   *)
(* is on one of the refs unless it was made on no branch or taken off one.   *)
Advertised(s, g, quiet) ==
  /\ s.available => s.head \in Commit
  /\ quiet => /\ s.available
              /\ s.head \in g.loose \/ \E ref \in s.refs : s.head \in Ancestors(g, ref.oid)

Records == {Record(r, s) : r \in Repo, s \in State}

TypeOK ==
  /\ git \in [Repo -> GitRepo]
  /\ build \in [pc : {"idle", "exists", "status", "branch", "head", "remotes", "refs",
                      "manifest", "write"},
                next : Nat \ {0}, state : State, records : Seq(Records)]
  /\ disturbed \in SUBSET Repo

Visiting == build.pc \in {"exists", "status", "branch", "head", "remotes", "refs"}

(* The records of a run are those of the entries it has visited; a           *)
(* repository that is not intact is known to be disturbed.                   *)
BuildFits ==
  ~Idle =>
    /\ \A r \in Repo : Intact(git[r]) \/ r \in disturbed
    /\ IF Visiting THEN build.next <= Len(Entry) ELSE build.next = Len(Entry) + 1
    /\ Len(build.records) = build.next - 1
    /\ \A i \in DOMAIN build.records :
         /\ build.records[i].identity = Entry[i]
         /\ Advertised(build.records[i].state, git[Entry[i]], Entry[i] \notin disturbed)
    /\ build.pc \in {"remotes", "refs"} =>
         build.state.head \in Commit /\ build.state.head <= git[Visited].commits

BuiltFits ==
  built # None =>
    /\ \E records \in Seq(Records) : built = Manifest(records)
    /\ DOMAIN built.records = 1..Len(Entry)
    /\ \A i \in DOMAIN built.records :
         /\ built.records[i].identity = Entry[i]
         /\ built.records[i].state.available => built.records[i].state.head \in Commit

Replaced(m, i, record) == [m EXCEPT !.records[i] = record]

(* The file is the one that was built, or differs from it in one place.      *)
FileFits ==
  /\ altered = None /\ IsManifest(file) => file = built
  /\ altered # None =>
       /\ Idle /\ runs = MaxRuns
       /\ built # None /\ file # built
       /\ \/ altered = 0 /\ file \in AlteredManifests(built)
          \/ /\ altered \in DOMAIN built.records
             /\ \E record \in AlteredRecords(built.records[altered]) :
                  file = Replaced(built, altered, record)

IInv == /\ TypeOK
        /\ \A r \in Repo : GitFits(git[r])
        /\ BuildFits
        /\ BuiltFits
        /\ FileFits

(* The fields of a record, and of a manifest. *)
LEMMA RecordFields ==
  ASSUME NEW r, NEW s
  PROVE  Record(r, s).identity = r /\ Record(r, s).state = s
BY DEF Record

LEMMA InitIInv == Init => IInv
<1> SUFFICES ASSUME Init PROVE IInv
  OBVIOUS
<1>1. PICK b \in Branch :
        git \in [Repo -> {OneCommit(b), [OneCommit(b) EXCEPT !.dir = "gone"]}]
  BY DEF Init
<1>2. Unavailable \in State
  BY DEF Unavailable, State
<1>3. build \in [pc : {"idle"}, next : Nat \ {0}, state : State, records : Seq(Records)]
  BY <1>2 DEF Init, NoBuild
<1>4. ASSUME NEW r \in Repo PROVE GitFits(git[r])
  <2>1. PICK g \in {OneCommit(b), [OneCommit(b) EXCEPT !.dir = "gone"]} : g = git[r]
    BY <1>1
  <2>2. 1 \in Commit /\ MaxCommits \in Nat
    BY BoundAssumption DEF Commit
  <2>3. OneCommit(b) \in GitRepo
    <3>1. [c \in Branch |-> IF c = b THEN 1 ELSE 0] \in [Branch -> 0..MaxCommits]
      BY <2>2 DEF Commit
    <3>2. [c \in Commit |-> 0] \in [Commit -> 0..MaxCommits]
      BY <2>2
    <3> QED BY <2>2, <3>1, <3>2 DEF OneCommit, GitRepo, Commit
  <2>4. /\ g \in GitRepo
        /\ g.at = 0 /\ g.commits = 1 /\ g.loose = {}
        /\ g.tip = [c \in Branch |-> IF c = b THEN 1 ELSE 0]
        /\ g.parent = [c \in Commit |-> 0]
    <3>1. CASE g = OneCommit(b)
      BY <2>3, <3>1 DEF OneCommit
    <3>2. CASE g = [OneCommit(b) EXCEPT !.dir = "gone"]
      <4>1. g \in GitRepo
        BY <2>3, <3>2 DEF GitRepo
      <4> QED BY <3>2, <4>1 DEF OneCommit
    <3> QED BY <2>1, <3>1, <3>2
  <2>5. 1 \in Ancestors(g, 1)
    BY <2>2, <2>4, AncestorsOf DEF GitRepo
  <2>6. OnBranch(g, 1)
    BY <2>4, <2>5 DEF OnBranch
  <2>7. GitFits(g)
    BY <2>2, <2>4, <2>6 DEF GitFits, Commit
  <2> QED BY <2>1, <2>7
<1>5. TypeOK
  BY <1>3, <1>4 DEF Init, TypeOK, GitFits
<1>6. BuildFits /\ BuiltFits /\ FileFits
  BY MarkAssumption DEF Init, BuildFits, BuiltFits, FileFits, Idle, NoBuild, IsManifest
<1> QED BY <1>4, <1>5, <1>6 DEF IInv

(* What the owners do takes nothing from what was read. *)
LEMMA AdvertisedKept ==
  ASSUME NEW s \in State, NEW g, NEW h, NEW quiet \in BOOLEAN, NEW quieter \in BOOLEAN,
         Advertised(s, g, quiet), Grows(g, h), quieter => quiet
  PROVE  Advertised(s, h, quieter)
<1>1. \A ref \in s.refs : ref.oid \in Commit
  BY DEF State, Ref
<1> QED BY <1>1 DEF Advertised, Grows

LEMMA GrowsNot ==
  ASSUME NEW g, GitFits(g)
  PROVE  Grows(g, g)
BY BoundAssumption DEF Grows, GitFits, GitRepo

LEMMA OwnerPreserves ==
  ASSUME IInv, NEW r \in Repo, Owner(r)
  PROVE  IInv'
<1>1. /\ UNCHANGED <<build, file, runs, kills, built, altered>>
      /\ \E g : git' = [git EXCEPT ![r] = g]
  BY DEF Owner, MakeCommit, Switch, Detach, Touch, Rewind, Remove, Move
<1>2. GitFits(git'[r]) /\ Grows(git[r], git'[r])
  BY OwnerFits DEF IInv, TypeOK
<1>3. \A q \in Repo : /\ GitFits(git'[q]) /\ Grows(git[q], git'[q])
                      /\ q # r => git'[q] = git[q]
  BY <1>1, <1>2, GrowsNot DEF IInv, TypeOK
<1>4. git' \in [Repo -> GitRepo]
  BY <1>1, <1>2 DEF IInv, TypeOK, GitFits
<1>5. /\ disturbed \subseteq disturbed' /\ disturbed' \in SUBSET Repo
      /\ Intact(git'[r]) \/ r \in disturbed' \/ ~Intact(git[r])
  <2>1. CASE Touch(r)
    <3>1. git'[r] = [git[r] EXCEPT !.dirty = TRUE] /\ git[r] \in GitRepo
      BY <2>1 DEF Touch, Move, IInv, TypeOK
    <3>2. Intact(git[r]) => Intact(git'[r])
      BY <3>1 DEF Intact, HeadOf, GitRepo
    <3> QED BY <2>1, <3>2 DEF Touch, IInv, TypeOK
  <2>2. CASE Follow(r)
    BY <2>2 DEF Follow, IInv, TypeOK
  <2> QED BY <2>1, <2>2 DEF Owner, MakeCommit, Switch, Detach, Rewind, Remove
<1>6. TypeOK'
  BY <1>1, <1>4, <1>5 DEF IInv, TypeOK
<1>7. BuildFits'
  <2> SUFFICES ASSUME ~Idle PROVE BuildFits'
    BY <1>1 DEF BuildFits, Idle
  <2>1. \A q \in Repo : Intact(git'[q]) \/ q \in disturbed'
    BY <1>3, <1>5 DEF IInv, BuildFits
  <2>2. ASSUME NEW i \in DOMAIN build.records
        PROVE  Advertised(build.records[i].state, git'[Entry[i]], Entry[i] \notin disturbed')
    <3>1. Advertised(build.records[i].state, git[Entry[i]], Entry[i] \notin disturbed)
      BY <2>2 DEF IInv, BuildFits
    <3>2. build.records[i].state \in State /\ build.records[i].identity \in Repo
      BY <2>2, RecordFields DEF IInv, TypeOK, Records
    <3>3. Entry[i] \in Repo
      BY <2>2, <3>2 DEF IInv, BuildFits
    <3> QED BY <1>3, <1>5, <3>1, <3>2, <3>3, AdvertisedKept
  <2>3. ASSUME build.pc \in {"remotes", "refs"}
        PROVE  build.state.head \in Commit /\ build.state.head <= git'[Visited].commits
    <3>1. /\ build.state.head \in Commit /\ build.state.head <= git[Visited].commits
          /\ build.next <= Len(Entry)
      BY <2>3 DEF IInv, BuildFits, Visiting
    <3>2. Visited \in Repo
      BY <3>1, EntryAssumption DEF Visited, IInv, TypeOK
    <3>3. git[Visited].commits <= git'[Visited].commits
      BY <1>3, <3>2 DEF Grows
    <3> QED BY <1>3, <3>1, <3>2, <3>3, BoundAssumption DEF Commit, GitFits, GitRepo, IInv
  <2> QED BY <1>1, <2>1, <2>2, <2>3 DEF IInv, BuildFits, Idle, Visiting, Visited
<1>8. BuiltFits' /\ FileFits'
  BY <1>1 DEF IInv, BuiltFits, FileFits, Idle
<1> QED BY <1>3, <1>6, <1>7, <1>8 DEF IInv

(* The record of an entry is complete. *)
LEMMA CompleteFits ==
  ASSUME IInv, Visiting, NEW s \in State, Complete(s),
         UNCHANGED <<git, moves, file, runs, kills, built, altered>>,
         disturbed \subseteq disturbed', disturbed' \subseteq Repo,
         Advertised(s, git[Visited], Visited \notin disturbed')
  PROVE  IInv'
<1> DEFINE records == Append(build.records, Record(Visited, s))
           b == [build EXCEPT !.next = @ + 1, !.records = records]
<1>0. /\ build \in [pc : {"idle", "exists", "status", "branch", "head", "remotes", "refs",
                         "manifest", "write"},
                   next : Nat \ {0}, state : State, records : Seq(Records)]
      /\ Len(Entry) \in Nat /\ ~Idle
  BY EntryAssumption DEF IInv, TypeOK, Idle, Visiting
<1>1. build.next <= Len(Entry) /\ Len(build.records) = build.next - 1
  BY <1>0 DEF IInv, BuildFits
<1>2. Visited = Entry[build.next] /\ Visited \in Repo
  BY <1>0, <1>1, EntryAssumption DEF Visited
<1>3. records \in Seq(Records) /\ Unavailable \in State
  BY <1>0, <1>2 DEF Records, Unavailable, State
<1>4. /\ build'.pc = (IF build.next + 1 <= Len(Entry) THEN "exists" ELSE "manifest")
      /\ build'.next = build.next + 1 /\ build'.records = records
      /\ build' \in [pc : {"idle", "exists", "status", "branch", "head", "remotes", "refs",
                         "manifest", "write"},
                   next : Nat \ {0}, state : State, records : Seq(Records)]
  <2>1. build' = StartVisit(b)
    BY DEF Complete
  <2>2. b \in [pc : {"idle", "exists", "status", "branch", "head", "remotes", "refs",
                    "manifest", "write"},
              next : Nat \ {0}, state : State, records : Seq(Records)]
        /\ b.next = build.next + 1 /\ b.records = records
    <3> HIDE DEF records
    <3>1. build.next + 1 \in Nat \ {0}
      BY <1>0
    <3> QED BY <1>0, <1>3, <3>1
  <2> HIDE DEF b, records
  <2> QED BY <1>3, <2>1, <2>2 DEF StartVisit
<1>5. TypeOK'
  BY <1>4 DEF IInv, TypeOK
<1>6. BuildFits'
  <2>1. \A r \in Repo : Intact(git'[r]) \/ r \in disturbed'
    BY <1>0 DEF IInv, BuildFits
  <2>2. ASSUME NEW i \in DOMAIN records
        PROVE  /\ records[i].identity = Entry[i]
               /\ Advertised(records[i].state, git[Entry[i]], Entry[i] \notin disturbed')
    <3>1. CASE i = build.next
      <4>1. records[i] = Record(Visited, s)
        BY <1>0, <1>1, <1>2, <3>1
      <4> QED BY <1>2, <3>1, <4>1, RecordFields
    <3>2. CASE i # build.next
      <4>1. i \in DOMAIN build.records /\ records[i] = build.records[i]
        BY <1>0, <1>1, <1>2, <2>2, <3>2
      <4>2. /\ build.records[i].identity = Entry[i]
            /\ Advertised(build.records[i].state, git[Entry[i]], Entry[i] \notin disturbed)
        BY <1>0, <4>1 DEF IInv, BuildFits
      <4>3. build.records[i].state \in State /\ build.records[i].identity \in Repo
        BY <1>0, <4>1, RecordFields DEF Records
      <4> QED BY <4>1, <4>2, <4>3, AdvertisedKept, GrowsNot DEF IInv
    <3> QED BY <3>1, <3>2
  <2>3. Len(records) = build.next
    BY <1>0, <1>1
  <2> QED BY <1>0, <1>1, <1>4, <2>1, <2>2, <2>3 DEF BuildFits, Visiting
<1>7. BuiltFits' /\ FileFits'
  BY <1>0 DEF IInv, BuiltFits, FileFits, Idle
<1> QED BY <1>5, <1>6, <1>7 DEF IInv

-----------------------------------------------------------------------------
(* A git command that fails does so in a repository that is not intact.      *)
LEMMA MissedIsDisturbed ==
  ASSUME IInv, Visiting, ~Intact(git[Visited])
  PROVE  Advertised(Unavailable, git[Visited], Visited \notin disturbed)
<1>1. Visited \in Repo
  BY EntryAssumption DEF IInv, TypeOK, BuildFits, Idle, Visiting, Visited
<1>2. Visited \in disturbed
  BY <1>1 DEF IInv, BuildFits, Idle, Visiting
<1> QED BY <1>2 DEF Advertised, Unavailable

(* A command that succeeds keeps what it read in the run's state. *)
LEMMA StepFits ==
  ASSUME IInv, Visiting, NEW pc \in {"status", "branch", "head", "remotes", "refs"},
         NEW s \in State, StepTo(pc, s), Reading,
         pc \in {"remotes", "refs"} => s.head \in Commit /\ s.head <= git[Visited].commits
  PROVE  IInv'
<1>1. /\ build' = [build EXCEPT !.pc = pc, !.state = s]
      /\ build \in [pc : {"idle", "exists", "status", "branch", "head", "remotes", "refs",
                         "manifest", "write"},
                   next : Nat \ {0}, state : State, records : Seq(Records)]
  BY DEF StepTo, IInv, TypeOK
<1>2. /\ build'.pc = pc /\ build'.next = build.next /\ build'.records = build.records
      /\ build'.state = s
  BY <1>1
<1>3. UNCHANGED <<git, file, runs, built, altered, disturbed>>
  BY DEF Reading, history
<1>4. TypeOK'
  BY <1>1, <1>3 DEF IInv, TypeOK
<1>5. BuildFits'
  BY <1>2, <1>3 DEF IInv, BuildFits, Idle, Visiting, Visited
<1>6. BuiltFits' /\ FileFits'
  BY <1>3 DEF IInv, BuiltFits, FileFits, Idle, Visiting
<1> QED BY <1>3, <1>4, <1>5, <1>6 DEF IInv

LEMMA CommandPreserves ==
  ASSUME IInv,
         CheckPath \/ ReadStatus \/ ReadBranch \/ ReadHead \/ ReadRemotes \/ ReadRefs
           \/ RefsTimeout
  PROVE  IInv'
<1> DEFINE g == git[Visited]
<1>0. Visiting
  BY DEF Visiting, CheckPath, ReadStatus, ReadBranch, ReadHead, ReadRemotes, ReadRefs,
         RefsTimeout, Command
<1>1. /\ Visited \in Repo /\ g \in GitRepo /\ GitFits(g) /\ build.state \in State
      /\ disturbed \in SUBSET Repo
  BY <1>0, EntryAssumption DEF IInv, TypeOK, BuildFits, Idle, Visiting, Visited
<1>2. Unavailable \in State
  BY DEF Unavailable, State
<1>3. ASSUME Complete(Unavailable), Reading, ~Intact(g) PROVE IInv'
  BY <1>0, <1>2, <1>3, MissedIsDisturbed, CompleteFits, <1>1 DEF Reading, history
<1>4. CASE CheckPath
  <2>1. CASE g.dir = "gone"
    BY <1>3, <1>4, <2>1 DEF CheckPath, Intact
  <2>2. CASE g.dir # "gone"
    BY <1>0, <1>2, <1>4, <2>2, StepFits DEF CheckPath
  <2> QED BY <2>1, <2>2
<1>5. CASE ReadStatus
  <2>1. [build.state EXCEPT !.dirty = g.dirty] \in State
    BY <1>1 DEF State, GitRepo
  <2> QED BY <1>0, <1>3, <1>5, <2>1, StepFits DEF ReadStatus, Command, Intact
<1>6. CASE ReadBranch
  <2>1. [build.state EXCEPT !.branch = g.on] \in State
    BY <1>1 DEF State, GitRepo
  <2> QED BY <1>0, <1>3, <1>6, <2>1, StepFits DEF ReadBranch, Command, Intact
<1>7. CASE ReadHead
  <2>1. CASE Intact(g)
    <3>1. HeadOf(g) \in Commit /\ HeadOf(g) <= g.commits
      BY <1>1, <2>1, HeadIsMade, BoundAssumption DEF Intact, Commit
    <3> DEFINE s == [build.state EXCEPT !.head = HeadOf(g)]
    <3>2. s \in State /\ s.head = HeadOf(g)
      BY <1>1, <3>1 DEF State
    <3>3. StepTo("remotes", s) /\ Reading
      BY <1>7, <2>1 DEF ReadHead
    <3> HIDE DEF s
    <3> QED BY <1>0, <3>1, <3>2, <3>3, StepFits
  <2> QED BY <1>3, <1>7, <2>1 DEF ReadHead
<1>8. CASE ReadRemotes
  <2>1. build.state.head \in Commit /\ build.state.head <= g.commits
    BY <1>8 DEF ReadRemotes, Command, IInv, BuildFits, Idle
  <2> QED BY <1>0, <1>1, <1>3, <1>8, <2>1, StepFits DEF ReadRemotes, Command, Intact
<1>9. CASE ReadRefs
  <2>1. CASE g.dir = "gone"
    BY <1>3, <1>9, <2>1 DEF ReadRefs, Intact
  <2>2. CASE g.dir # "gone"
    <3> DEFINE s == [build.state EXCEPT !.available = TRUE, !.refs = Listed(g)]
    <3>1. Listed(g) \subseteq Ref
      BY DEF Listed, Refs
    <3>2. s \in State /\ s.available /\ s.refs = Listed(g) /\ s.head = build.state.head
      BY <1>1, <3>1 DEF State
    <3>3. s.head \in Commit /\ s.head <= g.commits
      BY <1>9, <3>2 DEF ReadRefs, IInv, BuildFits, Idle
    <3>4. ASSUME Visited \notin disturbed, s.head \notin g.loose
          PROVE  \E ref \in s.refs : s.head \in Ancestors(g, ref.oid)
      <4>1. g.dir = "repo"
        BY <1>0, <1>1, <3>4 DEF IInv, BuildFits, Idle, Visiting, Intact
      <4>2. PICK b \in Branch : g.tip[b] # 0 /\ s.head \in Ancestors(g, g.tip[b])
        BY <1>1, <3>3, <3>4 DEF GitFits, OnBranch
      <4>3. [name |-> b, oid |-> g.tip[b]] \in Ref
        BY <1>1, <4>2, BoundAssumption DEF Ref, GitRepo, Commit
      <4>4. [name |-> b, oid |-> g.tip[b]] \in s.refs
        BY <3>2, <4>1, <4>3 DEF Listed, Refs
      <4> QED BY <4>2, <4>4
    <3>5. Advertised(s, g, Visited \notin disturbed)
      BY <3>2, <3>3, <3>4 DEF Advertised
    <3>6. Complete(s) /\ Reading
      BY <1>9, <2>2 DEF ReadRefs
    <3> HIDE DEF s
    <3> QED BY <1>0, <1>1, <3>2, <3>5, <3>6, CompleteFits DEF Reading, history
  <2> QED BY <2>1, <2>2
<1>10. CASE RefsTimeout
  <2>1. /\ Complete(Unavailable) /\ disturbed' = disturbed \cup {Visited}
        /\ UNCHANGED <<git, moves, file, runs, kills, built, altered>>
    BY <1>10 DEF RefsTimeout
  <2>2. Advertised(Unavailable, g, Visited \notin disturbed')
    BY <2>1 DEF Advertised, Unavailable
  <2> QED BY <1>0, <1>1, <1>2, <2>1, <2>2, CompleteFits
<1> QED BY <1>4, <1>5, <1>6, <1>7, <1>8, <1>9, <1>10

LEMMA BeginPreserves ==
  ASSUME IInv, Begin
  PROVE  IInv'
<1>1. /\ Idle /\ runs < MaxRuns /\ build' = StartVisit(NoBuild)
      /\ disturbed' = {r \in Repo : ~Intact(git[r])}
      /\ UNCHANGED <<git, moves, file, kills, built, altered>>
  BY DEF Begin
<1>2. altered = None
  BY <1>1, BoundAssumption DEF IInv, FileFits
<1>3. /\ build' = [pc |-> IF 1 <= Len(Entry) THEN "exists" ELSE "manifest", next |-> 1,
                   state |-> Unavailable, records |-> <<>>]
      /\ Unavailable \in State /\ <<>> \in Seq(Records)
  <2>1. Unavailable \in State /\ <<>> \in Seq(Records)
    BY DEF Unavailable, State
  <2> QED BY <1>1, <2>1 DEF StartVisit, NoBuild
<1>4. TypeOK'
  BY <1>1, <1>3 DEF IInv, TypeOK
<1>5. BuildFits'
  BY <1>1, <1>3, EntryAssumption DEF BuildFits, Idle, Visiting
<1>6. BuiltFits' /\ FileFits'
  BY <1>1, <1>2 DEF IInv, BuiltFits, FileFits
<1> QED BY <1>1, <1>4, <1>5, <1>6 DEF IInv

LEMMA FilePreserves ==
  ASSUME IInv, Truncate \/ Write \/ Kill
  PROVE  IInv'
<1>0. /\ build \in [pc : {"idle", "exists", "status", "branch", "head", "remotes", "refs",
                         "manifest", "write"},
                   next : Nat \ {0}, state : State, records : Seq(Records)]
      /\ Unavailable \in State /\ <<>> \in Seq(Records) /\ Len(Entry) \in Nat
  BY EntryAssumption DEF IInv, TypeOK, Unavailable, State
<1>1. ~Idle /\ altered = None /\ UNCHANGED <<git, runs, disturbed>>
  BY DEF Truncate, Write, Kill, Idle, history, IInv, FileFits
<1>2. CASE Truncate
  <2>1. /\ build.pc = "manifest" /\ build' = [build EXCEPT !.pc = "write"]
        /\ file' = Blank /\ UNCHANGED <<built, altered>>
    BY <1>2 DEF Truncate, history
  <2>2. TypeOK'
    BY <1>0, <1>1, <2>1 DEF IInv, TypeOK
  <2>3. /\ build'.pc = "write" /\ build'.next = build.next
        /\ build'.records = build.records
    BY <1>0, <2>1
  <2>4. BuildFits'
    BY <1>1, <2>1, <2>3 DEF IInv, BuildFits, Idle, Visiting
  <2>5. BuiltFits' /\ FileFits'
    BY <1>1, <2>1 DEF IInv, BuiltFits, FileFits, IsManifest
  <2> QED BY <1>1, <2>2, <2>4, <2>5 DEF IInv
<1>3. CASE Write
  <2>1. /\ build.pc = "write" /\ build' = NoBuild
        /\ built' = Manifest(build.records) /\ file' = built' /\ altered' = None
    BY <1>3 DEF Write
  <2>2. TypeOK' /\ BuildFits'
    BY <1>0, <1>1, <2>1 DEF IInv, TypeOK, BuildFits, Idle, NoBuild
  <2>3. built'.records = build.records
    BY <2>1 DEF Manifest
  <2>4. Len(build.records) = Len(Entry)
    BY <1>0, <1>1, <2>1 DEF IInv, BuildFits, Visiting
  <2>5. BuiltFits'
    BY <1>0, <1>1, <2>1, <2>3, <2>4 DEF IInv, BuiltFits, BuildFits, Advertised
  <2>6. FileFits'
    BY <2>1 DEF FileFits
  <2> QED BY <1>1, <2>2, <2>5, <2>6 DEF IInv
<1>4. CASE Kill
  <2>1. build' = NoBuild /\ UNCHANGED <<file, built, altered>>
    BY <1>4 DEF Kill, history
  <2>2. TypeOK' /\ BuildFits'
    BY <1>0, <1>1, <2>1 DEF IInv, TypeOK, BuildFits, Idle, NoBuild
  <2> QED BY <1>1, <2>1, <2>2 DEF IInv, BuiltFits, FileFits
<1> QED BY <1>2, <1>3, <1>4

LEMMA AlterPreserves ==
  ASSUME IInv, Alter
  PROVE  IInv'
<1>1. /\ IsManifest(file) /\ altered = None /\ Idle /\ runs = MaxRuns /\ file' # file
      /\ UNCHANGED <<git, moves, build, runs, kills, built, disturbed>>
      /\ \/ \E i \in DOMAIN file.records : \E record \in AlteredRecords(file.records[i]) :
              file' = [file EXCEPT !.records[i] = record] /\ altered' = i
         \/ file' \in AlteredManifests(file) /\ altered' = 0
  BY DEF Alter
<1>2. file = built /\ built # None
  BY <1>1 DEF IInv, FileFits, IsManifest
<1>3. altered' # None
  BY <1>1, <1>2, MarkAssumption, EntryAssumption DEF IInv, BuiltFits
<1>4. TypeOK' /\ BuildFits' /\ BuiltFits'
  BY <1>1 DEF IInv, TypeOK, BuildFits, BuiltFits, Idle
<1>5. FileFits'
  BY <1>1, <1>2, <1>3 DEF FileFits, Replaced, Idle
<1> QED BY <1>1, <1>4, <1>5 DEF IInv

LEMMA NextIInv == IInv /\ [Next]_vars => IInv'
<1> SUFFICES ASSUME IInv, [Next]_vars PROVE IInv'
  OBVIOUS
<1>1. CASE UNCHANGED vars
  BY <1>1 DEF vars, history, IInv, TypeOK, BuildFits, BuiltFits, FileFits, Idle, Visiting,
              Visited
<1> QED BY <1>1, OwnerPreserves, BeginPreserves, CommandPreserves, FilePreserves,
           AlterPreserves DEF Next

(* The inductive invariant holds of every behaviour. *)
THEOREM Invariance == Spec => []IInv
BY InitIInv, NextIInv, PTL DEF Spec

-----------------------------------------------------------------------------
(* A record is what was put into it, so its ids are those of its fields.     *)
LEMMA RecordVerifies ==
  ASSUME NEW r \in Repo, NEW s \in State, NEW i
  PROVE  /\ IdErrors(i, Record(r, s)) = {}
         /\ (s.available => s.head \in Commit) => GitErrors(i, s) = {}
BY DEF IdErrors, GitErrors, Mismatch, Record, RepoId, StateId, RecordId, RecordBody, Id

LEMMA BuiltIsVerified ==
  ASSUME IInv, built # None
  PROVE  BuiltVerifies
<1>1. PICK records \in Seq(Records) : built = Manifest(records)
  BY DEF IInv, BuiltFits
<1>2. built.records = records /\ built.count = Len(records)
  BY <1>1 DEF Manifest
<1>3. built.manifestId = ManifestId(built)
  BY <1>1 DEF Manifest, ManifestId, ManifestBody, Id
<1>4. ASSUME NEW i \in DOMAIN built.records
      PROVE  /\ built.records[i].identity = Entry[i]
             /\ built.records[i].identity # Other
             /\ IdErrors(i, built.records[i]) = {}
             /\ GitErrors(i, built.records[i].state) = {}
  <2>1. PICK r \in Repo, s \in State : built.records[i] = Record(r, s)
    BY <1>2, <1>4 DEF Records
  <2>2. built.records[i].identity = r /\ built.records[i].state = s
    BY <2>1, RecordFields
  <2> QED BY <1>4, <2>1, <2>2, RecordVerifies, MarkAssumption DEF IInv, BuiltFits
<1>5. Verified(built)
  BY <1>2, <1>3, <1>4 DEF Verified, Raises, Errors, Mismatch
<1>6. [i \in DOMAIN built.records |-> built.records[i].identity] = Entry
  <2>1. DOMAIN built.records = DOMAIN Entry
    BY EntryAssumption DEF IInv, BuiltFits
  <2>2. Entry = [i \in DOMAIN Entry |-> Entry[i]]
    BY EntryAssumption
  <2> QED BY <1>4, <2>1, <2>2
<1> QED BY <1>5, <1>6 DEF BuiltVerifies

(* Whatever the owners do while the repositories are read, the manifest a    *)
(* run writes verifies and has a record for each entry, in order.            *)
THEOREM BuiltIsGood == Spec => []BuiltVerifies
<1>1. IInv => BuiltVerifies
  BY BuiltIsVerified DEF BuiltVerifies, IsManifest
<1> QED BY <1>1, Invariance, PTL

(* One field of a record is changed: its record id no longer fits the rest.  *)
LEMMA AlteredRecord ==
  ASSUME NEW r \in Repo, NEW s \in State, NEW i, NEW record,
         record \in AlteredRecords(Record(r, s)), record # Record(r, s)
  PROVE  <<i, "recordId">> \in IdErrors(i, record)
<1> DEFINE old == Record(r, s)
<1>1. old = [identity |-> r, repoId |-> old.repoId, state |-> s,
             stateId |-> old.stateId, recordId |-> Id(RecordBody(old))]
  BY DEF Record, RecordBody
<1>2. record.recordId # RecordId(record)
  <2>1. CASE record.recordId # old.recordId
    <3>1. record = [old EXCEPT !.recordId = Other]
      BY <2>1, <1>1 DEF AlteredRecords
    <3>2. RecordBody(record) = RecordBody(old)
      BY <1>1, <3>1 DEF RecordBody
    <3> QED BY <1>1, <2>1, <3>2 DEF RecordId
  <2>2. CASE record.recordId = old.recordId
    <3>1. RecordBody(record) # RecordBody(old)
      <4>1. \E a, b, c, d : record = [identity |-> a, repoId |-> b, state |-> c,
                                      stateId |-> d, recordId |-> old.recordId]
        BY <1>1, <2>2 DEF AlteredRecords
      <4> QED BY <1>1, <4>1 DEF RecordBody
    <3> QED BY <1>1, <2>2, <3>1 DEF RecordId, Id
  <2> QED BY <2>1, <2>2
<1> QED BY <1>2 DEF IdErrors, Mismatch

(* One place of the manifest is changed: its id no longer fits the rest.     *)
LEMMA AlteredManifest ==
  ASSUME NEW records \in Seq(Records), NEW m, m # Manifest(records),
         \/ m \in AlteredManifests(Manifest(records))
         \/ \E i \in DOMAIN records : \E record :
              m = Replaced(Manifest(records), i, record)
  PROVE  <<0, "manifestId">> \in Errors(m)
<1> DEFINE old == Manifest(records)
<1>1. old = [workspace |-> "workspace", count |-> Len(records), records |-> records,
             manifestId |-> Id(ManifestBody(old))]
  BY DEF Manifest, ManifestBody
<1>2. m.manifestId # ManifestId(m)
  <2>1. CASE m.manifestId # old.manifestId
    <3>1. m = [old EXCEPT !.manifestId = Other]
      BY <2>1, <1>1 DEF AlteredManifests, Replaced
    <3>2. ManifestBody(m) = ManifestBody(old)
      BY <1>1, <3>1 DEF ManifestBody
    <3> QED BY <1>1, <2>1, <3>2 DEF ManifestId
  <2>2. CASE m.manifestId = old.manifestId
    <3>1. \E a, b, c : m = [workspace |-> a, count |-> b, records |-> c,
                            manifestId |-> old.manifestId]
      BY <1>1, <2>2 DEF AlteredManifests, Replaced
    <3>2. ManifestBody(m) # ManifestBody(old)
      BY <1>1, <3>1 DEF ManifestBody
    <3> QED BY <1>1, <2>2, <3>2 DEF ManifestId, Id
  <2> QED BY <2>1, <2>2
<1> QED BY <1>2 DEF Errors, Mismatch

(* The errors name the record that was changed and no other.                 *)
LEMMA AlteredLocated ==
  ASSUME NEW records \in Seq(Records), NEW i \in DOMAIN records,
         NEW record \in AlteredRecords(records[i]),
         \A j \in DOMAIN records :
           records[j].state.available => records[j].state.head \in Commit,
         NEW m, m = Replaced(Manifest(records), i, record), m # Manifest(records)
  PROVE  {e[1] : e \in Errors(m)} = {0, i}
<1>1. /\ m.records = [records EXCEPT ![i] = record] /\ m.count = Len(records)
      /\ DOMAIN m.records = DOMAIN records /\ Len(m.records) = Len(records)
      /\ m.records[i] = record
  BY DEF Manifest, Replaced
<1>2. ASSUME NEW j \in DOMAIN records, j # i
      PROVE  IdErrors(j, m.records[j]) \cup GitErrors(j, m.records[j].state) = {}
  <2>1. PICK r \in Repo, s \in State : records[j] = Record(r, s)
    BY DEF Records
  <2>2. m.records[j] = records[j]
    BY <1>1, <1>2
  <2> QED BY <2>1, <2>2, RecordFields, RecordVerifies
<1>3. <<i, "recordId">> \in IdErrors(i, record)
  <2>1. PICK r \in Repo, s \in State : records[i] = Record(r, s)
    BY DEF Records
  <2>2. record # records[i]
    BY <1>1 DEF Manifest, Replaced
  <2> QED BY <2>1, <2>2, AlteredRecord
<1>4. \A e \in IdErrors(i, record) \cup GitErrors(i, record.state) : e[1] = i
  BY DEF IdErrors, GitErrors, Mismatch
<1>5. <<0, "manifestId">> \in Errors(m)
  BY AlteredManifest
<1>6. <<i, "recordId">> \in Errors(m)
  BY <1>1, <1>3 DEF Errors
<1>7. ASSUME NEW e \in Errors(m) PROVE e[1] \in {0, i}
  <2>1. CASE e \in Mismatch(0, "count", m.count # Len(m.records))
                  \cup Mismatch(0, "manifestId", m.manifestId # ManifestId(m))
    BY <2>1 DEF Mismatch
  <2>2. ASSUME NEW j \in DOMAIN records,
               e \in IdErrors(j, m.records[j]) \cup GitErrors(j, m.records[j].state)
        PROVE  e[1] = i
    BY <1>1, <1>2, <1>4, <2>2
  <2> QED BY <1>1, <1>7, <2>1, <2>2 DEF Errors
<1>8. <<0, "manifestId">>[1] = 0 /\ <<i, "recordId">>[1] = i
  OBVIOUS
<1> QED BY <1>5, <1>6, <1>7, <1>8

(* A manifest that was changed in one place is not accepted, and when the    *)
(* place is in a record, the errors name that record and no other.           *)
THEOREM AlterationIsLocated == Spec => []AlterationLocated
<1>1. ASSUME IInv, IsManifest(file), altered # None
      PROVE  /\ ~Verified(file)
             /\ ~Raises(file) /\ altered # 0 => {e[1] : e \in Errors(file)} = {0, altered}
  <2>1. PICK records \in Seq(Records) : built = Manifest(records)
    BY <1>1 DEF IInv, FileFits, BuiltFits
  <2>2. /\ built.records = records
        /\ \A j \in DOMAIN records :
             records[j].state.available => records[j].state.head \in Commit
    BY <1>1, <2>1 DEF Manifest, IInv, FileFits, BuiltFits
  <2>3. <<0, "manifestId">> \in Errors(file)
    BY <1>1, <2>1, <2>2, AlteredManifest DEF IInv, FileFits
  <2>4. ASSUME altered # 0 PROVE {e[1] : e \in Errors(file)} = {0, altered}
    <3>1. altered \in DOMAIN records /\ file # built
      BY <1>1, <2>2, <2>4 DEF IInv, FileFits
    <3>2. PICK record \in AlteredRecords(built.records[altered]) :
            file = Replaced(built, altered, record)
      BY <1>1, <2>4 DEF IInv, FileFits
    <3>3. record \in AlteredRecords(records[altered])
      BY <2>2, <3>2
    <3> QED BY <2>1, <2>2, <3>1, <3>2, <3>3, AlteredLocated
  <2> QED BY <2>3, <2>4 DEF Verified
<1>2. IInv => AlterationLocated
  BY <1>1 DEF AlterationLocated
<1> QED BY <1>2, Invariance, PTL

(* A repository that was there with a commit at HEAD during the whole run is *)
(* listed as available, whatever became of the others.                       *)
THEOREM IntactIsListed == Spec => IntactListed
<1>1. ASSUME IInv, Write, NEW i \in DOMAIN built'.records
      PROVE  Entry[i] \in disturbed \/ built'.records[i].state.available
  <2>1. built'.records = build.records /\ ~Idle
    BY <1>1 DEF Write, Manifest, Idle
  <2>2. Advertised(build.records[i].state, git[Entry[i]], Entry[i] \notin disturbed)
    BY <1>1, <2>1 DEF IInv, BuildFits
  <2> QED BY <2>1, <2>2 DEF Advertised
<1>2. IInv => [Write => \A i \in DOMAIN built'.records :
                 Entry[i] \in disturbed \/ built'.records[i].state.available]_vars
  BY <1>1
<1> QED BY <1>2, Invariance, PTL DEF IntactListed

(* The head a record advertises can be fetched from the refs it advertises,  *)
(* unless history was taken back or the head was made on no branch.          *)
THEOREM HeadIsReachable == Spec => HeadReachable
<1> DEFINE A == Write => \A i \in DOMAIN built'.records :
                  LET state == built'.records[i].state  g == git[Entry[i]] IN
                  state.available /\ Entry[i] \notin disturbed /\ state.head \notin g.loose
                    => \E ref \in state.refs : state.head \in Ancestors(g, ref.oid)
<1>1. ASSUME IInv PROVE A
  <2> SUFFICES ASSUME Write, NEW i \in DOMAIN built'.records, Entry[i] \notin disturbed,
                      built'.records[i].state.head \notin git[Entry[i]].loose
               PROVE  \E ref \in built'.records[i].state.refs :
                        built'.records[i].state.head \in Ancestors(git[Entry[i]], ref.oid)
    OBVIOUS
  <2>1. built'.records = build.records /\ ~Idle
    BY DEF Write, Manifest, Idle
  <2>2. Advertised(build.records[i].state, git[Entry[i]], Entry[i] \notin disturbed)
    BY <1>1, <2>1 DEF IInv, BuildFits
  <2> QED BY <2>1, <2>2 DEF Advertised
<1>2. IInv => [A]_vars
  BY <1>1
<1> QED BY <1>2, Invariance, PTL DEF HeadReachable

=============================================================================
