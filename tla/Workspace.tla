------------------------------ MODULE Workspace ------------------------------
(***************************************************************************)
(* A workspace and what is asked of it (workspace.py, models.py,           *)
(* routing.py, graph.py).  A term is a word of a request, of a role or of  *)
(* a keyword; upper and lower case are one.                                *)
(***************************************************************************)
EXTENDS Integers, Ordering, SequencesExt

CONSTANTS
  Name,       \* names of directories, numbered as they sort; each is a term
  Repository, Readme,  \* the role and the document of a repository not known
  Catalogue   \* the repositories infer_repo_metadata knows:
              \*   name -> [roles: a sequence of sets of terms, keywords: terms]

ASSUME NameAssumption == Name \subseteq Nat /\ DOMAIN Catalogue \subseteq Name
ASSUME CatalogueAssumption ==
  \A name \in DOMAIN Catalogue :
    LET known == Catalogue[name] IN
    /\ known.keywords \in Seq(ToSet(known.keywords)) /\ known.roles \in Seq(ToSet(known.roles))
    /\ \A role \in ToSet(known.roles) : IsFiniteSet(role)

(* infer_repo_metadata: the name is a keyword of its own, once.             *)
Keywords(name) ==
  LET known == Catalogue[name].keywords IN
  IF name \notin DOMAIN Catalogue THEN <<name>>
  ELSE IF name \in ToSet(known) THEN known ELSE Append(known, name)

Roles(name) == IF name \in DOMAIN Catalogue THEN Catalogue[name].roles ELSE <<{Repository}>>

RepoSpec(name, path) ==
  [name |-> name, path |-> path, roles |-> Roles(name), keywords |-> Keywords(name),
   docs |-> <<Readme>>]

(* Sorted, where before holds the pairs of places whose entries must stand   *)
(* in that order; the others stay as they are.                              *)
StablySorted(s, before) ==
  LET places == DOMAIN s
      first == {p \in places \X places :
                  p \in before \/ (<<p[2], p[1]>> \notin before /\ p[1] < p[2])}
      order == InOrder(places, first)
  IN [k \in places |-> s[order[k]]]

(* discover_workspace: by name, in the order of the walk where names agree. *)
ByName(repos) ==
  StablySorted(repos, {p \in (DOMAIN repos) \X (DOMAIN repos) :
                         repos[p[1]].name < repos[p[2]].name})

-----------------------------------------------------------------------------
(* A request: its words, and the terms that occur in its text.  What a repo *)
(* scores is the number of its terms that match, with weights; each of two  *)
(* equal terms counts.                                                      *)
Matches(terms, found) == Cardinality({i \in DOMAIN terms : terms[i] \in found})

Overlap(roles, found) == Cardinality(UNION {{i} \X (roles[i] \cap found) : i \in DOMAIN roles})

Score(repo, query) ==
  (IF repo.name \in query.text THEN 8 ELSE 0)
    + 4 * Matches(repo.keywords, query.words \cup query.text)
    + 2 * Overlap(repo.roles, query.words)
    + 3 * Matches(repo.docs, query.text)

Scored(repos, query) ==
  [i \in DOMAIN repos |-> [name |-> repos[i].name, path |-> repos[i].path,
                           score |-> Score(repos[i], query)]]

Better(r, s) == r.score > s.score \/ (r.score = s.score /\ r.name < s.name)

Ranked(routes) ==
  StablySorted(routes, {p \in (DOMAIN routes) \X (DOMAIN routes) :
                          Better(routes[p[1]], routes[p[2]])})

Matching(routes, limit) == Kept(routes, {i \in DOMAIN routes : i <= limit /\ routes[i].score > 0})

(* Variant: cut before it is sorted. *)
RouteChangeCut(repos, query, limit) ==
  Ranked(Matching(Scored(repos, query), limit))

(* route_change: the best ones, at most limit, none without a match.        *)
RouteChange(repos, query, limit) == Matching(Ranked(Scored(repos, query)), limit)

(* build_repo_graph: one link for each two entries that share a keyword.    *)
Shared(r, s) == ToSet(r.keywords) \cap ToSet(s.keywords)

RepoGraph(repos) ==
  {[source |-> repos[p[1]].name, target |-> repos[p[2]].name,
    terms |-> Shared(repos[p[1]], repos[p[2]])] :
     p \in {q \in (DOMAIN repos) \X (DOMAIN repos) :
              q[1] < q[2] /\ Shared(repos[q[1]], repos[q[2]]) # {}}}
=============================================================================
