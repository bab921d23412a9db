------------------------------ MODULE Discovery ------------------------------
(***************************************************************************)
(* gither discover walks a tree of directories for repositories, asking    *)
(* git for the remote of each, while directories are removed and           *)
(* repositories made; then it writes the workspace file that route and     *)
(* graph read.                                                             *)
(***************************************************************************)
EXTENDS Workspace

CONSTANTS
  Dir, Root,  \* directories, and the one discover is given
  Parent,     \* directory -> the one it is in
  NameOf,     \* directory -> its name
  Skipped,    \* SKIP_DIRS: names that are not entered
  Request,    \* requests a user may make
  Limit,      \* numbers of repositories a user may ask for
  MaxChanges  \* bound on what the owners of the tree do

Children(d) == {c \in Dir \ {Root} : Parent[c] = d}

(* Directory -> it and all that is in it: what is in every set of           *)
(* directories that has it and, with a directory, those in it.              *)
Closed(S) == \A d \in S : Children(d) \subseteq S
Within == [d \in Dir |-> {c \in Dir : \A S \in SUBSET Dir : d \in S /\ Closed(S) => c \in S}]
Below(d) == Within[d]

ASSUME TreeAssumption == /\ IsFiniteSet(Dir) /\ Root \in Dir /\ NameOf \in [Dir -> Name]
                         /\ Parent \in [Dir \ {Root} -> Dir] /\ Below(Root) = Dir

VARIABLES
  present,   \* directories there are
  git,       \* those of them with a .git
  walk,      \* the command: its step, directories still to visit, the current
             \*   one and its subdirectories, what it has found
  stayed,    \* history: repositories since the walk began
  ever,      \* history: repositories at some moment of the walk
  file,      \* the workspace file
  answer,    \* what route or graph prints
  changes

treevars == <<present, git, changes>>
walkvars == <<walk, stayed, ever>>
discoveryvars == <<treevars, walkvars, file, answer>>

NoAnswer == [kind |-> "none"]
NoWalk == [pc |-> "idle", stack |-> <<>>, at |-> Root, inside |-> <<>>, found |-> <<>>]

DiscoveryInit ==
  /\ present = Dir
  /\ git \in SUBSET Dir
  /\ walk = NoWalk
  /\ stayed = {} /\ ever = {}
  /\ file = <<>> /\ answer = NoAnswer /\ changes = 0

-----------------------------------------------------------------------------
(* git init and git clone in a directory, rm -rf of one.                    *)
MakeRepository(d) ==
  /\ d \in present \ git /\ changes < MaxChanges
  /\ git' = git \cup {d} /\ ever' = ever \cup {d}
  /\ changes' = changes + 1
  /\ UNCHANGED <<present, walk, stayed, file, answer>>

RemoveDirectory(d) ==
  /\ d \in present \ {Root} /\ changes < MaxChanges
  /\ present' = present \ Below(d)
  /\ git' = git \ Below(d) /\ stayed' = stayed \ Below(d)
  /\ changes' = changes + 1
  /\ UNCHANGED <<walk, ever, file, answer>>

-----------------------------------------------------------------------------
BeginWalk ==
  /\ walk.pc = "idle"
  /\ walk' = [NoWalk EXCEPT !.pc = "list", !.stack = <<Root>>]
  /\ stayed' = git /\ ever' = git
  /\ UNCHANGED <<treevars, file, answer>>

(* os.walk lists the next directory; one that is gone is passed over.       *)
ListDirectory ==
  /\ walk.pc = "list" /\ walk.stack # <<>>
  /\ LET d == Head(walk.stack)
         entered == {c \in Children(d) \cap present : NameOf[c] \notin Skipped}
     IN IF d \in present
        THEN \E order \in SetToSeqs(entered) :
               walk' = [walk EXCEPT !.pc = "look", !.at = d, !.inside = order, !.stack = Tail(@)]
        ELSE walk' = [walk EXCEPT !.stack = Tail(@)]
  /\ UNCHANGED <<treevars, stayed, ever, file, answer>>

(* Variant: a repository is entered all the same. *)
LookInside ==
  /\ walk.pc = "look"
  /\ walk' = [walk EXCEPT !.pc = IF walk.at \in git THEN "remote" ELSE "list",
                          !.stack = walk.inside \o @]
  /\ UNCHANGED <<treevars, stayed, ever, file, answer>>

(* Is there a .git?  Nothing below a repository is visited.                 *)
LookForGit ==
  /\ walk.pc = "look"
  /\ walk' = IF walk.at \in git THEN [walk EXCEPT !.pc = "remote"]
             ELSE [walk EXCEPT !.pc = "list", !.stack = walk.inside \o @]
  /\ UNCHANGED <<treevars, stayed, ever, file, answer>>

(* git remote get-url: its answer, or none, goes into the entry ...         *)
AskRemote ==
  /\ walk.pc = "remote" /\ walk.at \in present
  /\ walk' = [walk EXCEPT !.pc = "list",
                          !.found = Append(@, RepoSpec(NameOf[walk.at], walk.at))]
  /\ UNCHANGED <<treevars, stayed, ever, file, answer>>

(* ... but a git that takes five seconds, or a directory that is gone,      *)
(* raises, and the command ends without a workspace.                        *)
RemoteRaises ==
  /\ walk.pc = "remote"
  /\ walk' = [walk EXCEPT !.pc = "failed"]
  /\ UNCHANGED <<treevars, stayed, ever, file, answer>>

SaveWorkspace ==
  /\ walk.pc = "list" /\ walk.stack = <<>>
  /\ walk' = [walk EXCEPT !.pc = "saved"]
  /\ file' = ByName(walk.found)
  /\ UNCHANGED <<treevars, stayed, ever, answer>>

(* gither route and gither graph.                                           *)
Route ==
  /\ walk.pc = "saved" /\ answer = NoAnswer
  /\ \E q \in Request, n \in Limit :
       answer' = [kind |-> "route", query |-> q, limit |-> n, result |-> RouteChange(file, q, n)]
  /\ UNCHANGED <<treevars, walkvars, file>>

Graph ==
  /\ walk.pc = "saved" /\ answer = NoAnswer
  /\ answer' = [kind |-> "graph", result |-> RepoGraph(file)]
  /\ UNCHANGED <<treevars, walkvars, file>>

Owners == \E d \in Dir : MakeRepository(d) \/ RemoveDirectory(d)

DiscoveryNext ==
  \/ walk.pc \notin {"idle", "saved", "failed"} /\ Owners
  \/ BeginWalk \/ ListDirectory \/ LookForGit \/ AskRemote \/ RemoteRaises
  \/ SaveWorkspace \/ Route \/ Graph
-----------------------------------------------------------------------------
(* Properties *)

(* A directory the walk must reach: no repository above it at any moment,   *)
(* none of the names on the way skipped.                                    *)
Reachable(d) ==
  \A a \in Dir \ {d} : d \in Below(a) => /\ a \notin ever
                                         /\ \A b \in Below(a) \ {a} :
                                              d \in Below(b) => NameOf[b] \notin Skipped

(* A discovery that ends lists every repository that stayed and lies within *)
(* no other, each once, and nothing that was no repository; directories     *)
(* that come and go meanwhile do not matter.                                *)
DiscoveredExactly ==
  walk.pc = "saved" =>
    /\ \A d \in stayed : Reachable(d) => \E i \in DOMAIN file : file[i].path = d
    /\ \A i, j \in DOMAIN file : file[i].path = file[j].path => i = j
    /\ \A i \in DOMAIN file :
         /\ file[i].path \in ever
         /\ \A j \in DOMAIN file \ {i} : file[j].path \notin Below(file[i].path)

(* Where names differ, the order of the workspace's entries changes no      *)
(* route, and no link but for its direction.                                *)
Undirected(links) == {<<{l.source, l.target}, l.terms>> : l \in links}

DistinctNames == \A i, j \in DOMAIN file : file[i].name = file[j].name => i = j

OrderOfNoAccount ==
  answer # NoAnswer /\ DistinctNames =>
    \A other \in SetToSeqs(ToSet(file)) :
      \/ /\ answer.kind = "route"
         /\ answer.result = RouteChange(other, answer.query, answer.limit)
      \/ /\ answer.kind = "graph"
         /\ Undirected(answer.result) = Undirected(RepoGraph(other))
=============================================================================
