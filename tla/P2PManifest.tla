----------------------------- MODULE P2PManifest -----------------------------
(***************************************************************************)
(* gither p2p-manifest and p2p-verify (src/gither/p2p.py): the records of  *)
(* a workspace's repositories are read with one git command after another  *)
(* while their owner commits, switches, rewinds and removes them, put into *)
(* a manifest, and written to a file that may be altered before a peer     *)
(* verifies it.                                                            *)
(*                                                                         *)
(* Commits are numbered in the order they are made.  The content id of a   *)
(* value is the value, tagged: SHA-256 is taken to be injective.           *)
(***************************************************************************)
EXTENDS Naturals, Sequences, FiniteSets

CONSTANTS Repo,        \* the repositories of the workspace ...
          Entry,       \* ... in the order of its file
          Branch,
          Detached,    \* no branch: git branch --show-current prints nothing
          MaxCommits,  \* bound on the commits of one repository
          MaxMoves,    \* bound on what the owners do
          MaxRuns, MaxKills,
          None,        \* no value; also no file
          Blank,       \* a file that was truncated and not written yet
          Other        \* a value no build produces

ASSUME EntryAssumption == Entry \in Seq(Repo)
ASSUME BoundAssumption == /\ {MaxCommits, MaxMoves, MaxRuns, MaxKills} \subseteq Nat
                          /\ MaxCommits # 0
ASSUME DetachedAssumption == Detached \notin Branch
ASSUME MarkAssumption == Other \notin Repo /\ None \notin Nat

Commit == 1..MaxCommits

VARIABLES
  git,       \* repository -> its directory, branches and HEAD
  moves,     \* what the owners have done, counted
  build,     \* the run of p2p-manifest: its step, its locals, its records
  file,      \* the manifest file: None, Blank or a manifest
  runs, kills,
  built,     \* history: the manifest the last complete run wrote
  altered,   \* history: what was altered in the file since
  disturbed  \* history: repositories that were not intact at some moment of
             \*   the run

history == <<built, altered, disturbed>>
vars == <<git, moves, build, file, runs, kills, history>>

(* dir: the path is a repository, a directory without .git, or not there.    *)
(* tip: the commits branches are at; 0 is a branch without a commit.  loose: *)
(* the commits made on a detached HEAD or taken off a branch.                *)
GitRepo == [dir : {"repo", "plain", "gone"}, on : Branch \cup {Detached},
            tip : [Branch -> 0..MaxCommits], at : 0..MaxCommits,
            commits : 0..MaxCommits, parent : [Commit -> 0..MaxCommits],
            loose : SUBSET Commit, dirty : BOOLEAN]

HeadOf(g) == IF g.on = Detached THEN g.at ELSE g.tip[g.on]
Intact(g) == g.dir = "repo" /\ HeadOf(g) # 0

Ref == [name : Branch, oid : Commit]
State == [available : BOOLEAN, branch : Branch \cup {Detached, None},
          head : Commit \cup {None, Other}, dirty : BOOLEAN, refs : SUBSET Ref]
Unavailable == [available |-> FALSE, branch |-> None, head |-> None,
                dirty |-> FALSE, refs |-> {}]

NoBuild == [pc |-> "idle", next |-> 1, state |-> Unavailable, records |-> <<>>]

OneCommit(b) == [dir |-> "repo", on |-> b, tip |-> [c \in Branch |-> IF c = b THEN 1 ELSE 0],
                 at |-> 0, commits |-> 1, parent |-> [c \in Commit |-> 0],
                 loose |-> {}, dirty |-> FALSE]

Init ==
  /\ \E b \in Branch : git \in [Repo -> {OneCommit(b), [OneCommit(b) EXCEPT !.dir = "gone"]}]
  /\ moves = 0
  /\ build = NoBuild
  /\ file = None
  /\ runs = 0 /\ kills = 0
  /\ built = None /\ altered = None /\ disturbed = {}

-----------------------------------------------------------------------------
(* The owners.                                                               *)
Move(r, g) ==
  /\ moves < MaxMoves
  /\ moves' = moves + 1
  /\ git[r].dir = "repo"
  /\ git' = [git EXCEPT ![r] = g]
  /\ UNCHANGED <<build, file, runs, kills, built, altered>>

Follow(r) == disturbed' = IF Intact(git'[r]) THEN disturbed ELSE disturbed \cup {r}

MakeCommit(r) ==
  LET c == git[r].commits + 1
      g == [git[r] EXCEPT !.commits = c, !.parent[c] = HeadOf(git[r]), !.dirty = FALSE]
  IN  /\ c <= MaxCommits
      /\ Move(r, IF g.on = Detached
                 THEN [g EXCEPT !.at = c, !.loose = @ \cup {c}]
                 ELSE [g EXCEPT !.tip[g.on] = c])
      /\ Follow(r)

(* git switch, to a branch made from HEAD if it is new, or to an orphan one. *)
Switch(r, b) ==
  /\ git[r].on # b
  /\ \/ /\ git[r].tip[b] = 0
        /\ Move(r, [git[r] EXCEPT !.on = b, !.tip[b] = HeadOf(git[r])])
     \/ Move(r, [git[r] EXCEPT !.on = b])
  /\ Follow(r)

Detach(r) ==
  /\ git[r].on # Detached
  /\ Intact(git[r])
  /\ Move(r, [git[r] EXCEPT !.on = Detached, !.at = HeadOf(git[r])])
  /\ Follow(r)

Touch(r) == Move(r, [git[r] EXCEPT !.dirty = TRUE]) /\ UNCHANGED disturbed

(* git reset takes the last commit off a branch.                             *)
Rewind(r) ==
  /\ \E b \in Branch :
       /\ git[r].tip[b] # 0 /\ git[r].parent[git[r].tip[b]] # 0
       /\ Move(r, [git[r] EXCEPT !.tip[b] = git[r].parent[@],
                                 !.loose = @ \cup {git[r].tip[b]}])
  /\ Follow(r)

Remove(r) ==
  /\ \E dir \in {"plain", "gone"} : Move(r, [git[r] EXCEPT !.dir = dir])
  /\ Follow(r)

Owner(r) == \/ MakeCommit(r) \/ Detach(r) \/ Touch(r) \/ Rewind(r) \/ Remove(r)
            \/ \E b \in Branch : Switch(r, b)

-----------------------------------------------------------------------------
(* Content ids.                                                              *)
Id(value) == [of |-> value]

RepoId(identity) == Id(identity)
StateId(repoId, state) == Id([repoId |-> repoId, state |-> state])
RecordBody(record) == [identity |-> record.identity, repoId |-> record.repoId,
                       state |-> record.state, stateId |-> record.stateId]
RecordId(record) == Id(RecordBody(record))
ManifestBody(m) == [workspace |-> m.workspace, count |-> m.count, records |-> m.records]
ManifestId(m) == Id(ManifestBody(m))

(* The last lines of build_repo_record and of build_p2p_manifest; a          *)
(* repository's identity is its entry in the workspace file.                 *)
Record(identity, state) ==
  LET body == [identity |-> identity, repoId |-> RepoId(identity), state |-> state,
               stateId |-> StateId(RepoId(identity), state)]
  IN  [identity |-> body.identity, repoId |-> body.repoId, state |-> body.state,
       stateId |-> body.stateId, recordId |-> Id(body)]

Manifest(records) ==
  LET body == [workspace |-> "workspace", count |-> Len(records), records |-> records]
  IN  [workspace |-> body.workspace, count |-> body.count, records |-> body.records,
       manifestId |-> Id(body)]
-----------------------------------------------------------------------------
(* p2p-manifest.                                                             *)
Idle == build.pc = "idle"
Visited == Entry[build.next]
StepTo(pc, state) == build' = [build EXCEPT !.pc = pc, !.state = state]
Reading == UNCHANGED <<git, moves, file, runs, kills, history>>

StartVisit(b) == [b EXCEPT !.pc = IF b.next <= Len(Entry) THEN "exists" ELSE "manifest",
                           !.state = Unavailable]

(* The record of a repository is complete; the next one follows.             *)
Complete(state) == build' = StartVisit([build EXCEPT !.next = @ + 1,
                                     !.records = Append(@, Record(Visited, state))])

Begin ==
  /\ Idle
  /\ runs < MaxRuns
  /\ runs' = runs + 1
  /\ build' = StartVisit(NoBuild)
  /\ disturbed' = {r \in Repo : ~Intact(git[r])}
  /\ UNCHANGED <<git, moves, file, kills, built, altered>>

(* path.exists() *)
CheckPath ==
  /\ build.pc = "exists"
  /\ IF git[Visited].dir = "gone" THEN Complete(Unavailable) ELSE StepTo("status", Unavailable)
  /\ Reading

(* snapshot_repo: each git command raises when there is no repository, which *)
(* build_repo_record turns into a record of an unavailable one.              *)
Command(pc, next, state) ==
  /\ build.pc = pc
  /\ IF git[Visited].dir = "repo" THEN StepTo(next, state) ELSE Complete(Unavailable)
  /\ Reading

(* ensure_git_repo and git status *)
ReadStatus == Command("status", "branch",
                      [build.state EXCEPT !.dirty = git[Visited].dirty])

(* Variant: no branch is taken for a failure. *)
ReadBranchStrict ==
  /\ build.pc = "branch"
  /\ IF git[Visited].dir = "repo" /\ git[Visited].on # Detached
     THEN StepTo("head", [build.state EXCEPT !.branch = git[Visited].on])
     ELSE Complete(Unavailable)
  /\ Reading

ReadBranch == Command("branch", "head", [build.state EXCEPT !.branch = git[Visited].on])

(* Variant: the exit status of git rev-parse is not looked at. *)
ReadHeadUnchecked ==
  Command("head", "remotes", [build.state EXCEPT !.head = HeadOf(git[Visited])])

(* git rev-parse HEAD also fails on a branch without a commit. *)
ReadHead ==
  /\ build.pc = "head"
  /\ IF Intact(git[Visited])
     THEN StepTo("remotes", [build.state EXCEPT !.head = HeadOf(git[Visited])])
     ELSE Complete(Unavailable)
  /\ Reading

ReadRemotes == Command("remotes", "refs", build.state)

Refs(g) == {ref \in Ref : g.tip[ref.name] = ref.oid}

(* Variant: the branch the snapshot named is the only one listed. *)
ListedCurrent(g) == {ref \in Refs(g) : ref.name = build.state.branch}

(* _git_refs: git show-ref prints nothing when it fails, and that is no      *)
(* error; where the directory is gone it cannot be started.                  *)
Listed(g) == IF g.dir = "repo" THEN Refs(g) ELSE {}

ReadRefs ==
  /\ build.pc = "refs"
  /\ Complete(IF git[Visited].dir = "gone" THEN Unavailable
             ELSE [build.state EXCEPT !.available = TRUE, !.refs = Listed(git[Visited])])
  /\ Reading

(* git show-ref has five seconds; TimeoutExpired is an exception like others.*)
RefsTimeout ==
  /\ build.pc = "refs"
  /\ Complete(Unavailable)
  /\ disturbed' = disturbed \cup {Visited}
  /\ UNCHANGED <<git, moves, file, runs, kills, built, altered>>

(* The manifest is put together, then the file is emptied, then written.     *)
Truncate ==
  /\ build.pc = "manifest"
  /\ file' = Blank
  /\ build' = [build EXCEPT !.pc = "write"]
  /\ UNCHANGED <<git, moves, runs, kills, history>>

Write ==
  /\ build.pc = "write"
  /\ file' = Manifest(build.records)
  /\ built' = file'
  /\ altered' = None
  /\ build' = NoBuild
  /\ UNCHANGED <<git, moves, runs, kills, disturbed>>

Kill ==
  /\ ~Idle
  /\ kills < MaxKills
  /\ kills' = kills + 1
  /\ build' = NoBuild
  /\ UNCHANGED <<git, moves, file, runs, history>>
-----------------------------------------------------------------------------
(* p2p-verify.  An identity that is no object raises before it is reported.  *)
IsManifest(m) == m \notin {None, Blank}

Raises(m) == \E i \in DOMAIN m.records : m.records[i].identity = Other

Mismatch(index, what, mismatched) == IF mismatched THEN {<<index, what>>} ELSE {}

(* Variant: the record id is not compared. *)
IdErrorsWithoutRecord(i, record) ==
  Mismatch(i, "repoId", record.repoId # RepoId(record.identity))
    \cup Mismatch(i, "stateId", record.stateId # StateId(record.repoId, record.state))

IdErrors(i, record) ==
  Mismatch(i, "recordId", record.recordId # RecordId(record))
    \cup Mismatch(i, "repoId", record.repoId # RepoId(record.identity))
    \cup Mismatch(i, "stateId", record.stateId # StateId(record.repoId, record.state))

(* _validate_git_state *)
GitErrors(i, state) ==
  Mismatch(i, "head", state.available /\ state.head \notin Commit)

Errors(m) ==
  Mismatch(0, "count", m.count # Len(m.records))
    \cup Mismatch(0, "manifestId", m.manifestId # ManifestId(m))
    \cup UNION {IdErrors(i, m.records[i]) \cup GitErrors(i, m.records[i].state)
                  : i \in DOMAIN m.records}

Verified(m) == ~Raises(m) /\ Errors(m) = {}

(* On its way to the peer one place of the file is changed: a field of a     *)
(* record, of the manifest, or the list of records.  (A bound: this is only  *)
(* explored after the last run.)                                             *)
AlteredRecords(record) ==
  {[record EXCEPT !.identity = r] : r \in Repo \cup {Other}}
    \cup {[record EXCEPT !.repoId = Other], [record EXCEPT !.stateId = Other],
          [record EXCEPT !.recordId = Other], [record EXCEPT !.state.head = Other],
          [record EXCEPT !.state.available = ~@], [record EXCEPT !.state.dirty = ~@],
          [record EXCEPT !.state.refs = {}]}

AlteredManifests(m) ==
  {[m EXCEPT !.workspace = Other], [m EXCEPT !.count = @ + 1], [m EXCEPT !.manifestId = Other],
   [m EXCEPT !.records = Append(@, @[1])], [m EXCEPT !.records = Tail(@)],
   [m EXCEPT !.records = Append(Tail(@), Head(@))]}

Alter ==
  /\ IsManifest(file) /\ altered = None
  /\ Idle /\ runs = MaxRuns
  /\ \/ \E i \in DOMAIN file.records : \E record \in AlteredRecords(file.records[i]) :
          file' = [file EXCEPT !.records[i] = record] /\ altered' = i
     \/ file' \in AlteredManifests(file) /\ altered' = 0
  /\ file' # file
  /\ UNCHANGED <<git, moves, build, runs, kills, built, disturbed>>

Next == \/ \E r \in Repo : Owner(r)
        \/ Begin \/ CheckPath \/ ReadStatus \/ ReadBranch \/ ReadHead \/ ReadRemotes
        \/ ReadRefs \/ RefsTimeout \/ Truncate \/ Write \/ Kill
        \/ Alter

Spec == Init /\ [][Next]_vars
-----------------------------------------------------------------------------
(* Properties *)

(* Whatever the owners do while the repositories are read, and wherever an   *)
(* earlier run was killed, the manifest a run writes verifies and has one    *)
(* record for each entry of the workspace, in its order.                     *)
BuiltVerifies ==
  IsManifest(built) =>
    /\ Verified(built)
    /\ [i \in DOMAIN built.records |-> built.records[i].identity] = Entry

(* A manifest that was changed in one place is not accepted; when the place  *)
(* is in a record, the errors name that record and no other.                 *)
AlterationLocated ==
  IsManifest(file) /\ altered # None =>
    /\ ~Verified(file)
    /\ ~Raises(file) /\ altered # 0 =>
         {e[1] : e \in Errors(file)} = {0, altered}

(* "A catalog peer should keep partial state": a repository that was there   *)
(* with a commit at HEAD all the time is listed as available, whatever       *)
(* became of the others, and also when its HEAD is detached.                 *)
IntactListed ==
  [][ Write => \A i \in DOMAIN built'.records :
        Entry[i] \in disturbed \/ built'.records[i].state.available ]_vars

(* Commit c and those before it: what is in every set that holds c and, with *)
(* a commit, its parent.                                                     *)
Ancestors(g, c) ==
  {d \in Commit : \A S \in SUBSET Commit :
     c \in S /\ (\A e \in S : g.parent[e] \in S \cup {0}) => d \in S}

(* The manifest "binds each repo's identity to its current Git refs": the    *)
(* head a record advertises can be fetched from the refs it advertises, even *)
(* when the branch moves or is switched between the git commands, unless     *)
(* history was taken back or the head was made on no branch.                 *)
HeadReachable ==
  [][ Write => \A i \in DOMAIN built'.records :
        LET state == built'.records[i].state  g == git[Entry[i]] IN
        state.available /\ Entry[i] \notin disturbed /\ state.head \notin g.loose
          => \E ref \in state.refs : state.head \in Ancestors(g, ref.oid) ]_vars
=============================================================================
