--------------------------- MODULE TopRepositories ---------------------------
(***************************************************************************)
(* popular_repo_report (src/gither/popularity.py): the most starred        *)
(* repositories are collected through GitHub's search, which gives at most *)
(* 1000 results of a query, so the range of star counts is split until no  *)
(* part has more; then languages and scripts are asked for.  Every request *)
(* is a step, and may fail and be repeated, or wait forever; stars are     *)
(* given and taken back meanwhile.  What was collected is kept in three    *)
(* files; a run may be killed at any step and started again.               *)
(*                                                                         *)
(* Repositories are numbers, in the order of their names.                  *)
(***************************************************************************)
EXTENDS Ordering, FiniteSetsExt, SequencesExt

CONSTANTS Repo,
          MaxStars,    \* bound on the stars of a repository
          Limit,       \* repositories to collect
          Summary,     \* how many of them scripts are ranked for
          PerPage, Pages,  \* results of a page, pages read of a bucket
          BatchSize,   \* repositories of one GraphQL query
          MaxChanges, MaxRuns, MaxKills,  \* bounds
          None,        \* no value; also no file
          Blank        \* a file that was truncated and not written yet

ASSUME RepoAssumption == Repo \subseteq Nat /\ IsFiniteSet(Repo)
ASSUME SizeAssumption == {Limit, PerPage, Pages, BatchSize} \subseteq Nat \ {0}
ASSUME BoundAssumption == {MaxStars, Summary, MaxChanges, MaxRuns, MaxKills} \subseteq Nat

Threshold == PerPage * Pages  \* bucket_star_ranges' threshold: 1000

Stars == 0..MaxStars
StarRange == Stars \X Stars      \* <<low, high>>

(* RepoRecord; language stands for dominant_language and                     *)
(* language_percentages, None for none; its rank is its place in the list.   *)
RepoRecord == [repo : Repo, stars : Stars, language : Repo \cup {None}, scripts : BOOLEAN]

LanguageCache == [Repo -> {Blank} \cup Repo \cup {None}]

ASSUME NoneAssumption ==
  /\ None # Blank
  /\ \A x \in {None, Blank} : x \notin Repo /\ x \notin Seq(RepoRecord) /\ x \notin LanguageCache
  /\ \A S \in SUBSET Repo : S # None /\ S # Blank

VARIABLES
  stars,    \* the stars repositories have now
  changes,
  pc,       \* where the run is
  attempt,  \* _request_json: attempts made of the request at hand
  ranges,   \* _split_star_range: the calls that have not been made yet
  buckets,  \* the star ranges to fetch
  page, found,  \* fetch_bucket: the next page, and results
  repos,    \* the records
  missing,  \* enrich_*: repositories to ask for, in order
  languages, scripts,  \* the caches, as read and extended by the run
  repos_file, languages_file, scripts_file,  \* the files they are kept in
  report,   \* the records last reported
  runs, kills,
  stable,   \* history: no star count changed since the collection began
  unanswered  \* history: repositories a GraphQL query gave no node for

world == <<stars, changes>>
files == <<repos_file, languages_file, scripts_file>>
scan == <<ranges, buckets, page, found>>
caches == <<missing, languages, scripts>>
bounds == <<runs, kills>>
history == <<stable, unanswered>>
vars == <<world, pc, attempt, scan, repos, caches, files, report, bounds, history>>

Requests == {"max", "count", "page", "languages", "tree"}

TypeOK ==
  /\ stars \in [Repo -> Stars] /\ changes \in 0..MaxChanges
  /\ pc \in Requests \cup {"idle", "silent", "truncate_repos", "write_repos", "read_languages",
                           "truncate_languages", "write_languages", "read_scripts",
                           "truncate_scripts", "write_scripts", "report"}
  /\ attempt \in 0..2
  /\ ranges \in Seq(StarRange) /\ buckets \in SUBSET StarRange
  /\ page \in 1..Pages
  /\ found \in Seq([repo : Repo, stars : Stars])
  /\ repos \in Seq(RepoRecord) /\ report \in Seq(RepoRecord)
  /\ Len(repos) <= Limit
  /\ missing \in Seq(Repo)
  /\ languages \in LanguageCache
  /\ scripts \in SUBSET Repo
  /\ runs \in 0..MaxRuns /\ kills \in 0..MaxKills
  /\ stable \in BOOLEAN /\ unanswered \in SUBSET Repo

NotCached == [r \in Repo |-> Blank]

Init ==
  /\ stars \in [Repo -> 1..MaxStars] /\ changes = 0
  /\ pc = "idle" /\ attempt = 0
  /\ ranges = <<>> /\ buckets = {} /\ page = 1 /\ found = <<>>
  /\ repos = <<>> /\ missing = <<>> /\ languages = NotCached /\ scripts = {}
  /\ repos_file = None /\ languages_file = None /\ scripts_file = None
  /\ report = <<>>
  /\ runs = 0 /\ kills = 0
  /\ stable = TRUE /\ unanswered = {}

-----------------------------------------------------------------------------
(* GitHub.                                                                   *)
Star(r) ==
  /\ changes < MaxChanges
  /\ changes' = changes + 1
  /\ \E n \in Stars : stars' = [stars EXCEPT ![r] = n] /\ n # stars[r]
  /\ stable' = FALSE
  /\ UNCHANGED <<pc, attempt, scan, repos, caches, files, report, bounds, unanswered>>

Matching(range) == {r \in Repo : stars[r] \in range[1]..range[2]}

(* sort=stars, order=desc *)
Search(range) ==
  InOrder(Matching(range),
          {p \in Repo \X Repo : \/ stars[p[1]] > stars[p[2]]
                                \/ stars[p[1]] = stars[p[2]] /\ p[1] < p[2]})

Page(range, number) ==
  LET results == Search(range)
  IN  SubSeq(results, (number - 1) * PerPage + 1, Min({number * PerPage, Len(results)}))

-----------------------------------------------------------------------------
(* A run that ends, raises or is killed leaves nothing but the files. *)
Forget == /\ attempt' = 0
          /\ ranges' = <<>> /\ buckets' = {} /\ page' = 1 /\ found' = <<>>
          /\ repos' = <<>> /\ missing' = <<>> /\ languages' = NotCached /\ scripts' = {}

Stop == pc' = "idle" /\ Forget

Fail == Stop /\ UNCHANGED <<world, files, report, bounds, history>>

(* _request_json: 403, 429 and URLError are tried again twice, then, like    *)
(* other failures at once, raised.                                           *)
RequestFails ==
  /\ pc \in Requests
  /\ \/ /\ attempt < 2
        /\ attempt' = attempt + 1
        /\ UNCHANGED <<world, pc, scan, repos, caches, files, report, bounds, history>>
     \/ Fail

(* urlopen is given no timeout: on a connection that stays silent the run    *)
(* waits until it is killed, and nothing it holds is used again.             *)
Silence ==
  /\ pc \in Requests
  /\ pc' = "silent"
  /\ Forget
  /\ UNCHANGED <<world, files, report, bounds, history>>

Kill ==
  /\ pc # "idle"
  /\ kills < MaxKills
  /\ kills' = kills + 1
  /\ Stop
  /\ UNCHANGED <<world, files, report, runs, history>>

(* collect_top_repositories: what was collected once is not collected again; *)
(* a file that was emptied does not parse.                                   *)
Begin ==
  /\ pc = "idle"
  /\ runs < MaxRuns
  /\ runs' = runs + 1
  /\ stable' = IF repos_file = None THEN TRUE ELSE stable
  /\ pc' = CASE repos_file = None -> "max"
             [] repos_file = Blank -> "idle"
             [] OTHER -> "read_languages"
  /\ repos' = IF repos_file \in {None, Blank} THEN <<>> ELSE repos_file
  /\ UNCHANGED <<world, attempt, scan, caches, files, report, kills, unanswered>>

(* max_stars searches for stars:>1, and raises when there is no such.        *)
AskMax ==
  /\ pc = "max"
  /\ LET top == Search(<<2, MaxStars>>) IN
     IF top = <<>> THEN Fail
     ELSE /\ ranges' = << <<0, stars[top[1]]>> >>
          /\ pc' = "count" /\ attempt' = 0
          /\ UNCHANGED <<world, buckets, page, found, repos, caches, files, report, bounds,
                         history>>

(* Variant: the halves overlap. *)
HalvesOverlap(low, high) ==
  LET mid == (low + high) \div 2 IN << <<low, mid>>, <<mid, high>> >>

Halves(low, high) ==
  LET mid == (low + high) \div 2 IN << <<low, mid>>, <<mid + 1, high>> >>

(* One call of _split_star_range; the lower half is split before the upper.  *)
(* low <= high holds of every call.                                          *)
CountRange ==
  /\ pc = "count"
  /\ LET low == ranges[1][1]  high == ranges[1][2]
         count == Cardinality(Matching(<<low, high>>))
         whole == count <= Threshold \/ low = high
     IN /\ ranges' = IF count = 0 \/ whole THEN Tail(ranges) ELSE Halves(low, high) \o Tail(ranges)
        /\ buckets' = IF count # 0 /\ whole THEN buckets \cup {<<low, high>>} ELSE buckets
  /\ pc' = CASE ranges' # <<>> -> "count"
             [] ranges' = <<>> /\ buckets' # {} -> "page"
             [] OTHER -> "truncate_repos"
  /\ attempt' = 0
  /\ UNCHANGED <<world, page, found, repos, caches, files, report, bounds, history>>

(* Variant: the limit is not looked at. *)
AddPastLimit(rs, item) ==
  IF \E i \in DOMAIN rs : rs[i].repo = item.repo THEN rs
  ELSE Append(rs, [repo |-> item.repo, stars |-> item.stars, language |-> None, scripts |-> FALSE])

(* Variant: a repository that was seen is added again. *)
AddAgain(rs, item) ==
  IF Len(rs) >= Limit THEN rs
  ELSE Append(rs, [repo |-> item.repo, stars |-> item.stars, language |-> None, scripts |-> FALSE])

Add(rs, item) ==
  IF Len(rs) >= Limit \/ \E i \in DOMAIN rs : rs[i].repo = item.repo THEN rs
  ELSE Append(rs, [repo |-> item.repo, stars |-> item.stars, language |-> None, scripts |-> FALSE])

AddEach(rs, items) == FoldLeft(Add, rs, items)

(* Variant: buckets are fetched from the lowest. *)
Lowest(bs) == CHOOSE b \in bs : \A c \in bs : b[2] <= c[2]

Highest(bs) == CHOOSE b \in bs : \A c \in bs : b[2] >= c[2]

(* list.sort keeps equals in their order. *)
Ranked(rs) ==
  LET Before(x, y) == x.stars > y.stars \/ (x.stars = y.stars /\ x.repo < y.repo)
      order == InOrder(DOMAIN rs,
                       {p \in (DOMAIN rs) \X (DOMAIN rs) :
                          \/ Before(rs[p[1]], rs[p[2]])
                          \/ p[1] < p[2] /\ ~Before(rs[p[2]], rs[p[1]])})
  IN  [n \in DOMAIN rs |-> rs[order[n]]]

(* fetch_bucket asks for one page after another until one is not full; then  *)
(* the results of the bucket become records, and when the limit is reached   *)
(* or no bucket is left, the records are ranked.                             *)
FetchPage ==
  /\ pc = "page"
  /\ attempt' = 0
  /\ LET bucket == Highest(buckets)
         names == Page(bucket, page)
         items == found \o [i \in DOMAIN names |-> [repo |-> names[i], stars |-> stars[names[i]]]]
     IN IF Len(names) = PerPage /\ page < Pages
        THEN /\ page' = page + 1
             /\ found' = items
             /\ UNCHANGED <<pc, buckets, repos>>
        ELSE \E records \in {AddEach(repos, items)} :
             /\ page' = 1
             /\ found' = <<>>
             /\ buckets' = IF Len(records) >= Limit THEN {} ELSE buckets \ {bucket}
             /\ repos' = IF buckets' = {} THEN Ranked(records) ELSE records
             /\ pc' = IF buckets' = {} THEN "truncate_repos" ELSE "page"
  /\ UNCHANGED <<world, ranges, caches, files, report, bounds, history>>

TruncateRepos ==
  /\ pc = "truncate_repos"
  /\ repos_file' = Blank
  /\ pc' = "write_repos"
  /\ UNCHANGED <<world, attempt, scan, repos, caches, languages_file, scripts_file, report,
                 bounds, history>>

WriteRepos ==
  /\ pc = "write_repos"
  /\ repos_file' = repos
  /\ pc' = "read_languages"
  /\ UNCHANGED <<world, attempt, scan, repos, caches, languages_file, scripts_file, report,
                 bounds, history>>

-----------------------------------------------------------------------------
Names(rs) == [i \in DOMAIN rs |-> rs[i].repo]

(* Variant: the cache is not read. *)
LoadedNothing(file) == NotCached

(* _load_enrichment_cache *)
LoadedLanguages(file) == IF file = None THEN NotCached ELSE file

WithLanguages(rs, cached) ==
  [i \in DOMAIN rs |-> IF cached[rs[i].repo] = Blank THEN rs[i]
                       ELSE [rs[i] EXCEPT !.language = cached[rs[i].repo]]]

(* enrich_language_percentages takes what the cache has, asks for the        *)
(* missing ones, and writes the whole cache after each answer.               *)
ReadLanguages ==
  /\ pc = "read_languages"
  /\ IF languages_file = Blank THEN Fail
     ELSE LET cached == LoadedLanguages(languages_file)
          IN /\ languages' = cached
             /\ repos' = WithLanguages(repos, cached)
             /\ missing' = Kept(Names(repos), {i \in DOMAIN repos : cached[repos[i].repo] = Blank})
             /\ pc' = IF missing' = <<>> THEN "read_scripts" ELSE "languages"
             /\ UNCHANGED <<world, attempt, scan, scripts, files, report, bounds, history>>

Batch == SubSeq(missing, 1, Min({BatchSize, Len(missing)}))

(* Variant: one repository too many is left behind. *)
AfterBatchAndOne == SubSeq(missing, BatchSize + 2, Len(missing))

AfterBatch == SubSeq(missing, BatchSize + 1, Len(missing))

(* A repository without a node in the answer is cached like the others, with *)
(* what the search said of it and no percentages.                            *)
AskLanguages ==
  /\ pc = "languages"
  /\ \E answered \in SUBSET ToSet(Batch) :
       /\ languages' = [r \in Repo |-> IF r \in answered THEN r
                                      ELSE IF r \in ToSet(Batch) THEN None ELSE languages[r]]
       /\ unanswered' = unanswered \cup (ToSet(Batch) \ answered)
  /\ repos' = WithLanguages(repos, languages')
  /\ missing' = AfterBatch
  /\ pc' = "truncate_languages" /\ attempt' = 0
  /\ UNCHANGED <<world, scan, scripts, files, report, bounds, stable>>

TruncateLanguages ==
  /\ pc = "truncate_languages"
  /\ languages_file' = Blank
  /\ pc' = "write_languages"
  /\ UNCHANGED <<world, attempt, scan, repos, caches, repos_file, scripts_file, report,
                 bounds, history>>

WriteLanguages ==
  /\ pc = "write_languages"
  /\ languages_file' = languages
  /\ pc' = IF missing = <<>> THEN "read_scripts" ELSE "languages"
  /\ UNCHANGED <<world, attempt, scan, repos, caches, repos_file, scripts_file, report,
                 bounds, history>>

WithScripts(rs, cached) ==
  [i \in DOMAIN rs |-> IF i <= Summary /\ rs[i].repo \in cached
                       THEN [rs[i] EXCEPT !.scripts = TRUE] ELSE rs[i]]

(* enrich_top_scripts, for the first repositories, one at a time.            *)
ReadScripts ==
  /\ pc = "read_scripts"
  /\ IF scripts_file = Blank THEN Fail
     ELSE LET cached == IF scripts_file = None THEN {} ELSE scripts_file
          IN /\ scripts' = cached
             /\ repos' = WithScripts(repos, cached)
             /\ missing' = Kept(Names(repos), {i \in DOMAIN repos :
                                                i <= Summary /\ repos[i].repo \notin cached})
             /\ pc' = IF missing' = <<>> THEN "report" ELSE "tree"
             /\ UNCHANGED <<world, attempt, scan, languages, files, report, bounds, history>>

AskTree ==
  /\ pc = "tree"
  /\ scripts' = scripts \cup {Head(missing)}
  /\ repos' = WithScripts(repos, scripts')
  /\ missing' = Tail(missing)
  /\ pc' = "truncate_scripts" /\ attempt' = 0
  /\ UNCHANGED <<world, scan, languages, files, report, bounds, history>>

TruncateScripts ==
  /\ pc = "truncate_scripts"
  /\ scripts_file' = Blank
  /\ pc' = "write_scripts"
  /\ UNCHANGED <<world, attempt, scan, repos, caches, repos_file, languages_file, report,
                 bounds, history>>

WriteScripts ==
  /\ pc = "write_scripts"
  /\ scripts_file' = scripts
  /\ pc' = IF missing = <<>> THEN "report" ELSE "tree"
  /\ UNCHANGED <<world, attempt, scan, repos, caches, repos_file, languages_file, report,
                 bounds, history>>

(* write_json_report, and the tables made of the same records. *)
Report ==
  /\ pc = "report"
  /\ report' = repos
  /\ Stop
  /\ UNCHANGED <<world, files, bounds, history>>

Step == \/ AskMax \/ CountRange \/ FetchPage \/ TruncateRepos \/ WriteRepos
        \/ ReadLanguages \/ AskLanguages \/ TruncateLanguages \/ WriteLanguages
        \/ ReadScripts \/ AskTree \/ TruncateScripts \/ WriteScripts \/ Report
        \/ RequestFails

Next == Begin \/ Step \/ Silence \/ Kill \/ \E r \in Repo : Star(r)

(* A request whose connection does not stay silent is answered, or the       *)
(* connection breaks; and the process is scheduled.                          *)
Spec == Init /\ [][Next]_vars /\ WF_vars(Step)
-----------------------------------------------------------------------------
(* Properties *)

Listed(rs) == {rs[i].repo : i \in DOMAIN rs}

Crowded(n) == Cardinality({r \in Repo : stars[r] = n}) > Threshold

(* "Collect the top limit public repositories by stars": when no star was    *)
(* given or taken during the collection, a repository that is left out has   *)
(* no more stars than any that is listed and the list is full, or more       *)
(* repositories than a search returns have exactly as many stars as it.      *)
TopComplete ==
  pc = "truncate_repos" /\ stable =>
    \A r \in Repo \ Listed(repos) :
      \/ Crowded(stars[r])
      \/ Len(repos) = Limit /\ \A i \in DOMAIN repos : repos[i].stars >= stars[r]

(* However repositories move between buckets and pages while they are        *)
(* fetched, none is listed twice, and the list is in the order of the stars  *)
(* it reports.                                                               *)
RankedOnce(rs) ==
  /\ Cardinality(Listed(rs)) = Len(rs)
  /\ \A i, j \in DOMAIN rs : i < j => rs[i].stars >= rs[j].stars

ReportRanked == RankedOnce(report) /\ (repos_file \notin {None, Blank} => RankedOnce(repos_file))

(* After any number of interrupted runs, each repository of a report has its *)
(* own languages, unless GitHub once answered without a node for it, and     *)
(* those of the summary have their scripts.                                  *)
ReportEnriched ==
  \A i \in DOMAIN report :
    /\ report[i].language = report[i].repo \/ report[i].repo \in unanswered
    /\ i <= Summary => report[i].scripts

(* What was asked for and written is in the cache a later run writes, as it  *)
(* was: an interrupted run costs the requests of one batch, or of one tree.  *)
CachesGrow ==
  [][ /\ TruncateLanguages /\ languages_file \notin {None, Blank} =>
           \A r \in Repo : languages_file[r] \in {Blank, languages[r]}
      /\ TruncateScripts /\ scripts_file \notin {None, Blank} =>
           scripts_file \subseteq scripts ]_vars

(* Splitting, paging, retrying and batching come to an end: a run does not   *)
(* go on forever, unless in one request that is never answered.              *)
EveryRunEnds == pc # "idle" ~> pc \in {"idle", "silent"}
=============================================================================
