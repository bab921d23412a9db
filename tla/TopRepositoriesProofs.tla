------------------------ MODULE TopRepositoriesProofs ------------------------
(***************************************************************************)
(* Proofs about TopRepositories, for every set of repositories, limit,     *)
(* page and batch size: the reported lists are ranked and complete, and    *)
(* what interrupted runs left behind is used as it was.                    *)
(***************************************************************************)
EXTENDS TopRepositories, OrderingProofs

NoFile == {None, Blank}

(* Files hold what a run once held.                                          *)
FilesOK ==
  /\ repos_file \in Seq(RepoRecord) \cup NoFile
  /\ languages_file \in LanguageCache \cup NoFile
  /\ scripts_file \in (SUBSET Repo) \cup NoFile

(* Each repository once, in the order of the stars recorded of it.           *)
Distinct(rs) == \A i, j \in DOMAIN rs : rs[i].repo = rs[j].repo => i = j
Descending(rs) == \A i, j \in DOMAIN rs : i < j => rs[i].stars >= rs[j].stars

ListsOK ==
  /\ Distinct(repos)
  /\ pc \notin {"idle", "max", "count", "page"} => Descending(repos)
  /\ repos_file \notin NoFile => Len(repos_file) <= Limit /\ Distinct(repos_file) /\ Descending(repos_file)
  /\ Distinct(report) /\ Descending(report)

(* Variables that are used in one phase have their first value outside it.   *)
PhasesOK ==
  /\ pc # "count" => ranges = <<>>
  /\ pc = "count" => ranges # <<>>
  /\ pc \notin {"count", "page"} => buckets = {}
  /\ pc # "page" => page = 1 /\ found = <<>>
  /\ pc = "page" => buckets # {} /\ Len(repos) < Limit
  /\ pc \in {"idle", "max", "count"} => repos = <<>>
  /\ pc = "tree" => missing # <<>>

(* The ranges still to be split and the buckets lie side by side.            *)
Below(a, b) == a[2] < b[1]

SplitOK ==
  /\ \A i \in DOMAIN ranges : ranges[i][1] <= ranges[i][2]
  /\ \A i, j \in DOMAIN ranges : i < j => Below(ranges[i], ranges[j])
  /\ \A b \in buckets : b[1] <= b[2] /\ \A i \in DOMAIN ranges : Below(b, ranges[i])
  /\ \A b, c \in buckets : b = c \/ Below(b, c) \/ Below(c, b)

(* As long as no star count changes, nothing falls between the ranges, and   *)
(* what was fetched of a bucket is the beginning of its results.             *)
Fetched(items, bucket) ==
  /\ Len(items) <= Cardinality(Matching(bucket))
  /\ \A i \in DOMAIN items :
       items[i] = [repo |-> Search(bucket)[i], stars |-> stars[Search(bucket)[i]]]

CoverageOK ==
  /\ pc = "count" => \A r \in Repo : \/ \E i \in DOMAIN ranges : r \in Matching(ranges[i])
                                    \/ \E b \in buckets : r \in Matching(b)
  /\ \A b \in buckets : Cardinality(Matching(b)) <= Threshold \/ b[1] = b[2]
  /\ pc = "page" =>
       /\ \A r \in Repo : \/ \E b \in buckets : r \in Matching(b)
                          \/ Crowded(stars[r]) \/ r \in Listed(repos)
       /\ \A i \in DOMAIN repos, b \in buckets : repos[i].stars > b[2]
       /\ Len(found) = (page - 1) * PerPage
       /\ Fetched(found, Highest(buckets))
  /\ pc = "truncate_repos" => TopComplete

(* The caches, and what is still missing of them.                            *)
Own(cache) == \A r \in Repo : cache[r] \in {Blank, r} \/ (cache[r] = None /\ r \in unanswered)

Asking == {"languages", "truncate_languages", "write_languages"}
AskingScripts == {"tree", "truncate_scripts", "write_scripts"}

LanguagesOK ==
  /\ Own(languages)
  /\ languages_file \notin NoFile => Own(languages_file)
  /\ pc \in Asking =>
       /\ \A i, j \in DOMAIN missing : missing[i] = missing[j] => i = j
       /\ \A i \in DOMAIN missing : languages[missing[i]] = Blank
       /\ \A i \in DOMAIN repos :
            \/ languages[repos[i].repo] = Blank /\ repos[i].repo \in ToSet(missing)
            \/ languages[repos[i].repo] = repos[i].language
  /\ pc \in {"languages", "truncate_languages"} /\ languages_file \notin NoFile =>
       \A r \in Repo : languages_file[r] \in {Blank, languages[r]}
  /\ pc \in AskingScripts \cup {"read_scripts", "report"} =>
       \A i \in DOMAIN repos : repos[i].language = repos[i].repo \/ repos[i].repo \in unanswered

ScriptsOK ==
  /\ pc \in AskingScripts =>
       \A i \in DOMAIN repos :
         i <= Summary => repos[i].scripts \/ repos[i].repo \in ToSet(missing)
  /\ pc \in {"tree", "truncate_scripts"} /\ scripts_file \notin NoFile => scripts_file \subseteq scripts
  /\ pc = "report" => \A i \in DOMAIN repos : i <= Summary => repos[i].scripts

IInv == /\ TypeOK /\ FilesOK /\ ListsOK /\ PhasesOK /\ SplitOK
        /\ (stable => CoverageOK)
        /\ LanguagesOK /\ ScriptsOK /\ ReportEnriched

-----------------------------------------------------------------------------
(* The largest element that Max chooses. *)
LEMMA MaxOf ==
  ASSUME NEW n \in Nat, NEW T \in SUBSET (1..n), T # {}
  PROVE  /\ Max(T) \in T
         /\ n \in T => Max(T) = n
<1>1. \E x \in T : \A y \in T : x >= y
  <2>1. T \in SUBSET Nat /\ \A x \in T : x <= n
    OBVIOUS
  <2>2. PICK x \in T : \A y \in T : y <= x
    BY <2>1, NatMax
  <2> QED BY <2>1, <2>2
<1>2. Max(T) \in T /\ \A y \in T : Max(T) >= y
  <2>1. Max(T) = CHOOSE x \in T : \A y \in T : x >= y
    BY DEF Max
  <2> QED BY <1>1, <2>1, Zenon
<1>3. \A x \in T : x \in Int /\ x <= n
  OBVIOUS
<1>4. ASSUME n \in T PROVE Max(T) = n
  <2>1. Max(T) >= n /\ Max(T) <= n /\ Max(T) \in Int
    BY <1>2, <1>3, <1>4
  <2> QED BY <2>1
<1> QED BY <1>2, <1>4

(* The function by which FoldLeft is defined, for Add, and what it says. *)
Folding(g, U, base, items) ==
  g = [s \in SUBSET U |-> IF s = {} THEN base ELSE Add(g[s \ {Max(s)}], items[Max(s)])]

(* There is such a function for a list of any length. *)
LEMMA FoldingExists ==
  ASSUME NEW base, NEW items
  PROVE  \A n \in Nat : \E g : Folding(g, 1..n, base, items)
<1> DEFINE E == {n \in Nat : \E g : Folding(g, 1..n, base, items)}
<1>1. 0 \in E
  <2> DEFINE g == [s \in SUBSET (1..0) |-> base]
  <2>1. \A s \in SUBSET (1..0) : s = {}
    OBVIOUS
  <2>2. Folding(g, 1..0, base, items)
    BY <2>1 DEF Folding
  <2> QED BY <2>2
<1>2. ASSUME NEW n \in Nat, n \in E PROVE n + 1 \in E
  <2>1. PICK g : Folding(g, 1..n, base, items)
    BY <1>2
  <2> DEFINE h == [s \in SUBSET (1..(n + 1)) |->
                     IF n + 1 \in s THEN Add(g[s \ {n + 1}], items[n + 1]) ELSE g[s]]
             e(s) == IF s = {} THEN base ELSE Add(h[s \ {Max(s)}], items[Max(s)])
  <2>2. ASSUME NEW s \in SUBSET (1..(n + 1)) PROVE h[s] = e(s)
    <3>1. CASE n + 1 \in s
      <4>1. Max(s) = n + 1 /\ s # {}
        BY <3>1, MaxOf
      <4>2. s \ {n + 1} \in SUBSET (1..(n + 1)) /\ n + 1 \notin s \ {n + 1}
        OBVIOUS
      <4>3. h[s \ {n + 1}] = g[s \ {n + 1}]
        BY <4>2
      <4> QED BY <3>1, <4>1, <4>3
    <3>2. CASE n + 1 \notin s
      <4>1. s \in SUBSET (1..n)
        BY <3>2
      <4>2. h[s] = g[s]
        BY <3>2
      <4>3. g[s] = IF s = {} THEN base ELSE Add(g[s \ {Max(s)}], items[Max(s)])
        BY <4>1, <2>1 DEF Folding
      <4>4. ASSUME s # {} PROVE h[s \ {Max(s)}] = g[s \ {Max(s)}]
        BY <4>1, <3>2
      <4> HIDE DEF h
      <4> QED BY <4>2, <4>3, <4>4
    <3> QED BY <3>1, <3>2
  <2>3. h = [s \in SUBSET (1..(n + 1)) |-> h[s]]
    OBVIOUS
  <2> HIDE DEF h
  <2>4. h = [s \in SUBSET (1..(n + 1)) |-> e(s)]
    BY <2>2, <2>3
  <2>5. Folding(h, 1..(n + 1), base, items)
    BY <2>4 DEF Folding
  <2> QED BY <2>5
<1> HIDE DEF E
<1>3. Nat \subseteq E
  BY <1>1, <1>2, SetInduction
<1> QED BY <1>3 DEF E

(* Adding the results one after another: each state of the list is the one   *)
(* before, with the next result added.                                       *)
LEMMA FoldLeftAdd ==
  ASSUME NEW base, NEW N \in Nat, NEW items, DOMAIN items = 1..N
  PROVE  \E f : /\ f[0] = base
                /\ \A n \in 1..N : f[n] = Add(f[n - 1], items[n])
                /\ AddEach(base, items) = f[N]
<1> DEFINE iter == CHOOSE g : Folding(g, 1..N, base, items)
<1>1. Folding(iter, 1..N, base, items)
  BY FoldingExists
<1>2. AddEach(base, items) = iter[1..N]
  BY DEF AddEach, FoldLeft, MapThenFoldSet, Folding
<1> HIDE DEF iter
<1> DEFINE f == [n \in 0..N |-> iter[1..n]]
<1>3. f[0] = base
  <2>1. 1..0 = {} /\ 1..0 \in SUBSET (1..N)
    OBVIOUS
  <2> QED BY <2>1, <1>1 DEF Folding
<1>4. ASSUME NEW n \in 1..N PROVE f[n] = Add(f[n - 1], items[n])
  <2> DEFINE T == 1..n
  <2>0. T \in SUBSET (1..n) /\ n \in T /\ T # {} /\ n \in Nat
    OBVIOUS
  <2>1. Max(1..n) = n /\ 1..n # {}
    <3>1. Max(T) = n
      <4> HIDE DEF T
      <4> QED BY <2>0, MaxOf
    <3> QED BY <3>1, <2>0
  <2>2. (1..n) \ {n} = 1..(n - 1) /\ 1..n \in SUBSET (1..N)
    OBVIOUS
  <2>3. iter[1..n] = Add(iter[1..(n - 1)], items[n])
    BY <2>1, <2>2, <1>1 DEF Folding
  <2> QED BY <2>3
<1>5. AddEach(base, items) = f[N]
  BY <1>2
<1> QED BY <1>3, <1>4, <1>5

-----------------------------------------------------------------------------
Item == [repo : Repo, stars : Stars]
ListOK(rs) == rs \in Seq(RepoRecord) /\ Len(rs) <= Limit /\ Distinct(rs)

Added(rs, items, k, all) ==
  /\ ListOK(all)
  /\ Len(rs) <= Len(all) /\ \A i \in 1..Len(rs) : all[i] = rs[i]
  /\ \A j \in 1..k : items[j].repo \in Listed(all)
  /\ \A i \in (Len(rs) + 1)..Len(all) : \E j \in 1..k : all[i].stars = items[j].stars

(* One result is added, or found already listed, or the list is full. *)
LEMMA AddOne ==
  ASSUME NEW rs, NEW items \in Seq(Item), NEW all, NEW n \in 0..(Len(items) - 1), NEW k \in 0..n,
         rs \in Seq(RepoRecord),
         Added(rs, items, k, all), Len(all) < Limit => k = n
  PROVE  \E l \in 0..(n + 1) : /\ Added(rs, items, l, Add(all, items[n + 1]))
                               /\ Len(Add(all, items[n + 1])) < Limit => l = n + 1
<1> DEFINE item == items[n + 1]
           one == [repo |-> item.repo, stars |-> item.stars, language |-> None, scripts |-> FALSE]
<1>0. Limit \in Nat /\ item \in Item /\ one \in RepoRecord /\ all \in Seq(RepoRecord)
  <2>1. Limit \in Nat
    BY SizeAssumption
  <2>2. n + 1 \in 1..Len(items)
    OBVIOUS
  <2>3. item \in Item
    BY <2>2
  <2>4. item.repo \in Repo /\ item.stars \in Stars
    BY <2>3 DEF Item
  <2>5. one \in RepoRecord
    BY <2>4 DEF RepoRecord
  <2> QED BY <2>1, <2>3, <2>5 DEF Added, ListOK
<1>1. CASE Len(all) >= Limit
  <2>1. Add(all, item) = all
    BY <1>1 DEF Add
  <2> QED BY <2>1, <1>1, <1>0
<1>2. CASE Len(all) < Limit /\ \E i \in DOMAIN all : all[i].repo = item.repo
  <2>1. Add(all, item) = all
    BY <1>2 DEF Add
  <2>2. item.repo \in Listed(all) /\ k = n
    BY <1>2 DEF Listed
  <2>3. \A j \in 1..(n + 1) : items[j].repo \in Listed(all)
    BY <2>2 DEF Added
  <2>4. Added(rs, items, n + 1, all)
    BY <2>2, <2>3 DEF Added
  <2> QED BY <2>1, <2>4
<1>3. CASE Len(all) < Limit /\ ~ \E i \in DOMAIN all : all[i].repo = item.repo
  <2> DEFINE more == Append(all, one)
  <2>1. Add(all, item) = more /\ k = n
    BY <1>3, <1>0 DEF Add
  <2>2. /\ more \in Seq(RepoRecord) /\ Len(more) = Len(all) + 1 /\ DOMAIN more = 1..(Len(all) + 1)
        /\ \A i \in 1..Len(all) : more[i] = all[i]
        /\ more[Len(all) + 1] = one
    BY <1>0
  <2> HIDE DEF more
  <2>3. Distinct(more)
    <3>1. DOMAIN all = 1..Len(all) /\ Len(all) \in Nat /\ one.repo = item.repo
      BY <1>0
    <3>2. \A i, j \in 1..Len(all) : all[i].repo = all[j].repo => i = j
      BY <3>1 DEF Distinct, Added, ListOK
    <3>3. \A i \in 1..Len(all) : all[i].repo # item.repo
      BY <1>3, <3>1
    <3> HIDE DEF one, item
    <3> SUFFICES ASSUME NEW i \in 1..(Len(all) + 1), NEW j \in 1..(Len(all) + 1),
                        more[i].repo = more[j].repo
                 PROVE  i = j
      BY <2>2 DEF Distinct
    <3>4. CASE i <= Len(all) /\ j <= Len(all)
      BY <3>4, <3>1, <3>2, <2>2
    <3>5. CASE i = Len(all) + 1 /\ j <= Len(all)
      BY <3>5, <3>1, <3>3, <2>2
    <3>6. CASE i <= Len(all) /\ j = Len(all) + 1
      BY <3>6, <3>1, <3>3, <2>2
    <3> QED BY <3>1, <3>4, <3>5, <3>6
  <2>4. ListOK(more)
    BY <2>2, <2>3, <1>3, <1>0 DEF ListOK
  <2>5. Listed(more) = Listed(all) \cup {item.repo}
    <3>1. DOMAIN all = 1..Len(all) /\ Len(all) \in Nat /\ one.repo = item.repo
      BY <1>0
    <3> HIDE DEF one, item
    <3>2. \A i \in 1..Len(all) : all[i].repo \in Listed(all)
      BY <3>1 DEF Listed
    <3>3. Listed(more) = {more[i].repo : i \in 1..(Len(all) + 1)}
      BY <2>2 DEF Listed
    <3>4. Listed(all) = {all[i].repo : i \in 1..Len(all)}
      BY <3>1 DEF Listed
    <3>5. \A i \in 1..(Len(all) + 1) : more[i].repo \in Listed(all) \cup {item.repo}
      <4> TAKE i \in 1..(Len(all) + 1)
      <4>1. CASE i <= Len(all)
        BY <4>1, <3>1, <3>2, <2>2
      <4>2. CASE i = Len(all) + 1
        BY <4>2, <3>1, <2>2
      <4> QED BY <4>1, <4>2, <3>1
    <3>6. item.repo \in Listed(more)
      BY <2>2, <3>1, <3>3
    <3>7. \A i \in 1..Len(all) : all[i].repo \in Listed(more)
      BY <2>2, <3>1, <3>3
    <3>8. Listed(all) \subseteq Listed(more)
      BY <3>4, <3>7
    <3>9. Listed(more) \subseteq Listed(all) \cup {item.repo}
      BY <3>3, <3>5
    <3> QED BY <3>6, <3>8, <3>9
  <2>6. \A j \in 1..(n + 1) : items[j].repo \in Listed(more)
    BY <2>1, <2>5 DEF Added
  <2>7. Len(rs) <= Len(more) /\ \A i \in 1..Len(rs) : more[i] = rs[i]
    <3>1. Len(rs) <= Len(all) /\ \A i \in 1..Len(rs) : all[i] = rs[i]
      BY DEF Added
    <3>2. Len(rs) \in Nat /\ Len(all) \in Nat
      BY <1>0
    <3> QED BY <3>1, <3>2, <2>2
  <2>8. \A i \in (Len(rs) + 1)..Len(more) : \E j \in 1..(n + 1) : more[i].stars = items[j].stars
    <3> SUFFICES ASSUME NEW i \in (Len(rs) + 1)..Len(more)
                 PROVE  \E j \in 1..(n + 1) : more[i].stars = items[j].stars
      OBVIOUS
    <3>1. CASE i = Len(more)
      BY <3>1, <2>2, <1>0
    <3>2. CASE i # Len(more)
      <4>1. i \in (Len(rs) + 1)..Len(all) /\ more[i] = all[i]
        BY <3>2, <2>2, <1>0
      <4>2. PICK j \in 1..k : all[i].stars = items[j].stars
        BY <4>1 DEF Added
      <4> QED BY <4>1, <4>2, <2>1
    <3> QED BY <3>1, <3>2
  <2>9. Added(rs, items, n + 1, more)
    BY <2>4, <2>6, <2>7, <2>8 DEF Added
  <2> QED BY <2>1, <2>9
<1> QED BY <1>1, <1>2, <1>3, <1>0

(* The results of a bucket are added from the first on, until the list is    *)
(* full: the listed ones are the first k, and all of them if it is not.      *)
LEMMA AddAll ==
  ASSUME NEW rs, ListOK(rs), NEW items \in Seq(Item)
  PROVE  \E k \in 0..Len(items) :
           /\ Added(rs, items, k, AddEach(rs, items))
           /\ Len(AddEach(rs, items)) < Limit => k = Len(items)
<1> DEFINE N == Len(items)
<1>0. N \in Nat /\ DOMAIN items = 1..N
  OBVIOUS
<1>1. PICK f : /\ f[0] = rs
               /\ \A n \in 1..N : f[n] = Add(f[n - 1], items[n])
               /\ AddEach(rs, items) = f[N]
  BY <1>0, FoldLeftAdd
<1> DEFINE Good(n) == \E k \in 0..n : Added(rs, items, k, f[n]) /\ (Len(f[n]) < Limit => k = n)
           S == {n \in Nat : n <= N => Good(n)}
<1>2. 0 \in S
  <2>1. Added(rs, items, 0, f[0])
    BY <1>1 DEF Added, ListOK
  <2> QED BY <2>1
<1>3. ASSUME NEW n \in Nat, n \in S PROVE n + 1 \in S
  <2> SUFFICES ASSUME n + 1 <= N PROVE Good(n + 1)
    OBVIOUS
  <2>1. n \in 0..(Len(items) - 1) /\ Good(n)
    BY <1>0, <1>3
  <2>2. PICK k \in 0..n : Added(rs, items, k, f[n]) /\ (Len(f[n]) < Limit => k = n)
    BY <2>1
  <2>3. f[n + 1] = Add(f[n], items[n + 1])
    BY <1>1, <2>1
  <2>4. rs \in Seq(RepoRecord)
    BY DEF ListOK
  <2> QED BY <2>1, <2>2, <2>3, <2>4, AddOne
<1>4. N \in S
  <2> HIDE DEF S
  <2>1. Nat \subseteq S
    BY <1>2, <1>3, SetInduction
  <2> QED BY <1>0, <2>1
<1>5. Good(N)
  <2> HIDE DEF Good
  <2> QED BY <1>0, <1>4
<1> QED BY <1>1, <1>5

-----------------------------------------------------------------------------
(* list.sort keeps the records and puts them in order. *)
LEMMA RankedSorts ==
  ASSUME NEW rs, ListOK(rs)
  PROVE  /\ ListOK(Ranked(rs)) /\ Descending(Ranked(rs))
         /\ Len(Ranked(rs)) = Len(rs)
         /\ Listed(Ranked(rs)) = Listed(rs)
         /\ \A n \in DOMAIN Ranked(rs) : \E i \in DOMAIN rs : Ranked(rs)[n] = rs[i]
<1> DEFINE D == 1..Len(rs)
           Before(x, y) == x.stars > y.stars \/ (x.stars = y.stars /\ x.repo < y.repo)
           R == {p \in D \X D : Before(rs[p[1]], rs[p[2]]) \/ (p[1] < p[2] /\ ~Before(rs[p[2]], rs[p[1]]))}
           order == InOrder(D, R)
           c == Cardinality(D)
<1>1. /\ Len(rs) \in Nat /\ DOMAIN rs = D /\ rs \in Seq(RepoRecord)
      /\ \A i \in D : rs[i] \in RepoRecord
  BY DEF ListOK
<1>2. \A i \in D : rs[i].stars \in Nat /\ rs[i].repo \in Nat
  <2>1. Repo \subseteq Nat /\ Stars \subseteq Nat
    BY RepoAssumption, BoundAssumption DEF Stars
  <2>2. \A x \in RepoRecord : x.stars \in Stars /\ x.repo \in Repo
    BY DEF RepoRecord
  <2> QED BY <1>1, <2>1, <2>2
<1>3. TotalOn(D, R)
  <2> DEFINE S(i) == rs[i].stars  N(i) == rs[i].repo
  <2>1. \A i, j \in D : <<i, j>> \in R <=>
          \/ S(i) > S(j) \/ (S(i) = S(j) /\ N(i) < N(j))
          \/ (S(i) = S(j) /\ N(i) = N(j) /\ i < j)
    <3> TAKE i \in D, j \in D
    <3>1. S(i) \in Nat /\ S(j) \in Nat /\ N(i) \in Nat /\ N(j) \in Nat /\ i \in Nat /\ j \in Nat
      BY <1>1, <1>2
    <3>2. <<i, j>> \in R <=> Before(rs[i], rs[j]) \/ (i < j /\ ~Before(rs[j], rs[i]))
      OBVIOUS
    <3> HIDE DEF R
    <3> QED BY <3>1, <3>2
  <2>2. \A i \in D : S(i) \in Nat /\ N(i) \in Nat /\ i \in Nat
    BY <1>1, <1>2
  <2> HIDE DEF S, N, R, D
  <2>3. \A i \in D : <<i, i>> \notin R
    BY <2>1, <2>2
  <2>4. \A i, j \in D : i = j \/ <<i, j>> \in R \/ <<j, i>> \in R
    <3> TAKE i \in D, j \in D
    <3>1. /\ S(i) \in Nat /\ N(i) \in Nat /\ i \in Nat
          /\ S(j) \in Nat /\ N(j) \in Nat /\ j \in Nat
      BY <2>2
    <3>2. /\ <<i, j>> \in R <=> \/ S(i) > S(j) \/ (S(i) = S(j) /\ N(i) < N(j))
                               \/ (S(i) = S(j) /\ N(i) = N(j) /\ i < j)
          /\ <<j, i>> \in R <=> \/ S(j) > S(i) \/ (S(j) = S(i) /\ N(j) < N(i))
                               \/ (S(j) = S(i) /\ N(j) = N(i) /\ j < i)
      BY <2>1
    <3> QED BY <3>1, <3>2
  <2>5. \A i, j, k \in D : <<i, j>> \in R /\ <<j, k>> \in R => <<i, k>> \in R
    BY <2>1, <2>2
  <2> QED BY <2>3, <2>4, <2>5 DEF TotalOn
<1>4. IsFiniteSet(D) /\ c = Len(rs)
  <2>1. IsFiniteSet(1..Len(rs)) /\ Cardinality(1..Len(rs)) = IF 1 > Len(rs) THEN 0 ELSE Len(rs) - 1 + 1
    BY <1>1, FS_Interval
  <2> QED BY <2>1, <1>1
<1>5. /\ order \in [1..c -> D]
      /\ \A x \in D : \E n \in 1..c : order[n] = x
      /\ \A m, n \in 1..c : m < n => <<order[m], order[n]>> \in R
      /\ \A m, n \in 1..c : order[m] = order[n] => m = n
  <2> HIDE DEF R, D
  <2> QED BY <1>3, <1>4, InOrderSorted
<1>6. Ranked(rs) = [n \in D |-> rs[order[n]]]
  BY <1>1 DEF Ranked
<1>7. \A i, j \in D : <<i, j>> \in R => rs[i].stars >= rs[j].stars
  BY <1>2
<1> DEFINE q == Ranked(rs)
<1> HIDE DEF order, c, R, q
<1>8. /\ DOMAIN q = D /\ q \in Seq(RepoRecord) /\ Len(q) = Len(rs)
      /\ \A n \in D : q[n] = rs[order[n]] /\ order[n] \in D
  <2>1. \A n \in D : order[n] \in D
    BY <1>4, <1>5
  <2> QED BY <1>1, <1>6, <2>1 DEF q
<1>9. Descending(q)
  <2> SUFFICES ASSUME NEW i \in D, NEW j \in D, i < j PROVE q[i].stars >= q[j].stars
    BY <1>8 DEF Descending
  <2>1. <<order[i], order[j]>> \in R
    BY <1>4, <1>5
  <2> QED BY <2>1, <1>7, <1>8
<1>10. Distinct(q)
  <2>1. \A i, j \in D : rs[i].repo = rs[j].repo => i = j
    BY <1>1 DEF ListOK, Distinct
  <2> SUFFICES ASSUME NEW i \in D, NEW j \in D, q[i].repo = q[j].repo PROVE i = j
    BY <1>8 DEF Distinct
  <2>2. order[i] = order[j]
    BY <2>1, <1>8
  <2> QED BY <2>2, <1>4, <1>5
<1>11. Listed(q) = Listed(rs)
  <2>1. \A n \in D : q[n].repo \in Listed(rs)
    BY <1>1, <1>8 DEF Listed
  <2>2. \A n \in D : rs[n].repo \in Listed(q)
    <3> TAKE n \in D
    <3>1. PICK m \in D : order[m] = n
      BY <1>4, <1>5
    <3> QED BY <3>1, <1>8 DEF Listed
  <2> QED BY <2>1, <2>2, <1>1, <1>8 DEF Listed
<1>12. Len(q) <= Limit
  BY <1>8 DEF ListOK
<1>13. \A n \in DOMAIN q : \E i \in DOMAIN rs : q[n] = rs[i]
  BY <1>1, <1>8
<1> QED BY <1>8, <1>9, <1>10, <1>11, <1>12, <1>13 DEF ListOK, q

(* The results of a search: every repository in the range, by its stars. *)
LEMMA SearchSorted ==
  ASSUME stars \in [Repo -> Stars], NEW range
  PROVE  /\ Cardinality(Matching(range)) \in Nat
         /\ Search(range) \in Seq(Repo)
         /\ Len(Search(range)) = Cardinality(Matching(range))
         /\ DOMAIN Search(range) = 1..Cardinality(Matching(range))
         /\ \A i \in DOMAIN Search(range) : Search(range)[i] \in Matching(range)
         /\ \A r \in Matching(range) : \E i \in DOMAIN Search(range) : Search(range)[i] = r
         /\ \A i, j \in DOMAIN Search(range) : i < j => stars[Search(range)[i]] >= stars[Search(range)[j]]
<1> DEFINE M == Matching(range)
           R == {p \in Repo \X Repo : \/ stars[p[1]] > stars[p[2]]
                                      \/ stars[p[1]] = stars[p[2]] /\ p[1] < p[2]}
           c == Cardinality(M)
<1>1. M \in SUBSET Repo /\ Repo \subseteq Nat /\ IsFiniteSet(Repo)
  BY RepoAssumption DEF Matching
<1>2. IsFiniteSet(M)
  <2> HIDE DEF M
  <2> QED BY <1>1, FS_Subset
<1>3. \A r \in Repo : stars[r] \in Nat
  BY BoundAssumption DEF Stars
<1>4. \A r, s \in Repo : <<r, s>> \in R <=> stars[r] > stars[s] \/ (stars[r] = stars[s] /\ r < s)
  OBVIOUS
<1>5. Search(range) = InOrder(M, R)
  BY DEF Search
<1> DEFINE q == Search(range)
<1> HIDE DEF M, R, q
<1>6. TotalOn(M, R)
  <2>1. \A x \in M : <<x, x>> \notin R
    BY <1>1, <1>3, <1>4
  <2>2. \A x, y \in M : x = y \/ <<x, y>> \in R \/ <<y, x>> \in R
    <3> TAKE x \in M, y \in M
    <3>1. x \in Nat /\ y \in Nat /\ stars[x] \in Nat /\ stars[y] \in Nat
      BY <1>1, <1>3
    <3>2. /\ <<x, y>> \in R <=> stars[x] > stars[y] \/ (stars[x] = stars[y] /\ x < y)
          /\ <<y, x>> \in R <=> stars[y] > stars[x] \/ (stars[y] = stars[x] /\ y < x)
      BY <1>1, <1>4
    <3> QED BY <3>1, <3>2
  <2>3. \A x, y, z \in M : <<x, y>> \in R /\ <<y, z>> \in R => <<x, z>> \in R
    BY <1>1, <1>3, <1>4
  <2> QED BY <2>1, <2>2, <2>3 DEF TotalOn
<1>7. /\ c \in Nat /\ q \in [1..c -> M]
      /\ \A x \in M : \E n \in 1..c : q[n] = x
      /\ \A m, n \in 1..c : m < n => <<q[m], q[n]>> \in R
  BY <1>2, <1>5, <1>6, InOrderSorted DEF q
<1> HIDE DEF c
<1>8. q \in Seq(Repo) /\ Len(q) = c /\ DOMAIN q = 1..c
  <2>1. q = [n \in 1..c |-> q[n]] /\ \A n \in 1..c : q[n] \in Repo
    BY <1>1, <1>7
  <2>2. [n \in 1..c |-> q[n]] \in Seq(Repo) /\ Len([n \in 1..c |-> q[n]]) = c
    BY <2>1, <1>7
  <2> QED BY <2>1, <2>2, <1>7
<1>9. ASSUME NEW i \in 1..c, NEW j \in 1..c, i < j PROVE stars[q[i]] >= stars[q[j]]
  <2>1. <<q[i], q[j]>> \in R /\ q[i] \in Repo /\ q[j] \in Repo
    BY <1>1, <1>7, <1>9
  <2> QED BY <2>1, <1>3, <1>4
<1> QED BY <1>7, <1>8, <1>9 DEF q, c, M

-----------------------------------------------------------------------------
(* What is assumed of the sizes and bounds. *)
LEMMA Sizes ==
  /\ Limit \in Nat /\ PerPage \in Nat /\ Pages \in Nat /\ BatchSize \in Nat
  /\ Limit > 0 /\ PerPage > 0 /\ Pages > 0 /\ BatchSize > 0
  /\ MaxStars \in Nat /\ Summary \in Nat /\ MaxChanges \in Nat /\ MaxRuns \in Nat /\ MaxKills \in Nat
  /\ Stars \subseteq Nat /\ Repo \subseteq Nat
BY SizeAssumption, BoundAssumption, RepoAssumption DEF Stars

(* Taking languages from the cache changes nothing else of the records. *)
LEMMA WithLanguagesKeeps ==
  ASSUME NEW rs \in Seq(RepoRecord), NEW cache \in LanguageCache
  PROVE  /\ WithLanguages(rs, cache) \in Seq(RepoRecord)
         /\ Len(WithLanguages(rs, cache)) = Len(rs)
         /\ DOMAIN WithLanguages(rs, cache) = DOMAIN rs
         /\ \A i \in DOMAIN rs :
              /\ WithLanguages(rs, cache)[i].repo = rs[i].repo
              /\ WithLanguages(rs, cache)[i].stars = rs[i].stars
              /\ WithLanguages(rs, cache)[i].scripts = rs[i].scripts
              /\ WithLanguages(rs, cache)[i].language =
                   IF cache[rs[i].repo] = Blank THEN rs[i].language ELSE cache[rs[i].repo]
<1> DEFINE q == WithLanguages(rs, cache)
           e(i) == IF cache[rs[i].repo] = Blank THEN rs[i]
                   ELSE [rs[i] EXCEPT !.language = cache[rs[i].repo]]
<1>1. DOMAIN rs = 1..Len(rs) /\ Len(rs) \in Nat /\ q = [i \in DOMAIN rs |-> e(i)]
  BY DEF WithLanguages
<1>2. ASSUME NEW i \in DOMAIN rs
      PROVE  /\ e(i) \in RepoRecord
             /\ e(i).repo = rs[i].repo /\ e(i).stars = rs[i].stars /\ e(i).scripts = rs[i].scripts
             /\ e(i).language = IF cache[rs[i].repo] = Blank THEN rs[i].language
                                ELSE cache[rs[i].repo]
  <2>1. rs[i] \in RepoRecord
    BY <1>1
  <2>2. cache[rs[i].repo] \in {Blank} \cup Repo \cup {None}
    BY <2>1 DEF RepoRecord, LanguageCache
  <2> QED BY <2>1, <2>2 DEF RepoRecord
<1> HIDE DEF e, q
<1>3. q \in Seq(RepoRecord) /\ Len(q) = Len(rs) /\ DOMAIN q = DOMAIN rs
  BY <1>1, <1>2
<1> QED BY <1>1, <1>2, <1>3 DEF q

(* Marking scripts as ranked changes nothing else of the records. *)
LEMMA WithScriptsKeeps ==
  ASSUME NEW rs \in Seq(RepoRecord), NEW cache \in SUBSET Repo
  PROVE  /\ WithScripts(rs, cache) \in Seq(RepoRecord)
         /\ Len(WithScripts(rs, cache)) = Len(rs)
         /\ DOMAIN WithScripts(rs, cache) = DOMAIN rs
         /\ \A i \in DOMAIN rs :
              /\ WithScripts(rs, cache)[i].repo = rs[i].repo
              /\ WithScripts(rs, cache)[i].stars = rs[i].stars
              /\ WithScripts(rs, cache)[i].language = rs[i].language
              /\ WithScripts(rs, cache)[i].scripts =
                   (rs[i].scripts \/ (i <= Summary /\ rs[i].repo \in cache))
<1> DEFINE q == WithScripts(rs, cache)
           e(i) == IF i <= Summary /\ rs[i].repo \in cache
                   THEN [rs[i] EXCEPT !.scripts = TRUE] ELSE rs[i]
<1>1. DOMAIN rs = 1..Len(rs) /\ Len(rs) \in Nat /\ q = [i \in DOMAIN rs |-> e(i)]
  BY DEF WithScripts
<1>2. ASSUME NEW i \in DOMAIN rs
      PROVE  /\ e(i) \in RepoRecord
             /\ e(i).repo = rs[i].repo /\ e(i).stars = rs[i].stars /\ e(i).language = rs[i].language
             /\ e(i).scripts = (rs[i].scripts \/ (i <= Summary /\ rs[i].repo \in cache))
  <2>1. rs[i] \in RepoRecord
    BY <1>1
  <2> QED BY <2>1 DEF RepoRecord
<1> HIDE DEF e, q
<1>3. q \in Seq(RepoRecord) /\ Len(q) = Len(rs) /\ DOMAIN q = DOMAIN rs
  BY <1>1, <1>2
<1> QED BY <1>1, <1>2, <1>3 DEF q

(* A page is a part of the search results, shorter than PerPage only at      *)
(* their end.                                                                *)
LEMMA PageOf ==
  ASSUME stars \in [Repo -> Stars], NEW range, NEW number \in 1..Pages
  PROVE  /\ Page(range, number) \in Seq(Repo)
         /\ (number - 1) * PerPage \in Nat
         /\ number * PerPage = (number - 1) * PerPage + PerPage
         /\ Len(Page(range, number)) =
              IF Len(Search(range)) <= (number - 1) * PerPage THEN 0
              ELSE IF Len(Search(range)) < number * PerPage
              THEN Len(Search(range)) - (number - 1) * PerPage ELSE PerPage
         /\ \A i \in 1..Len(Page(range, number)) :
              /\ Page(range, number)[i] = Search(range)[(number - 1) * PerPage + i]
              /\ (number - 1) * PerPage + i \in 1..Len(Search(range))
<1> DEFINE q == Search(range)  p == Page(range, number)
           from == (number - 1) * PerPage  to == number * PerPage
<1>1. q \in Seq(Repo) /\ Len(q) \in Nat
  BY SearchSorted
<1>2. from \in Nat /\ to = from + PerPage /\ to \in Nat
  <2>1. number - 1 \in Nat /\ number \in Nat /\ PerPage \in Nat
    BY Sizes
  <2> HIDE DEF from, to
  <2>2. from \in Nat
    BY <2>1 DEF from
  <2>3. to = from + PerPage
    BY <2>1 DEF from, to
  <2> QED BY <2>1, <2>2, <2>3
<1> DEFINE last == IF to <= Len(q) THEN to ELSE Len(q)
<1>3. p = SubSeq(q, from + 1, last)
  <2>1. Min({to, Len(q)}) = last
    BY <1>1, <1>2, MinOf
  <2> QED BY <2>1 DEF Page
<1> HIDE DEF q, p, from, to
<1>4. PerPage \in Nat
  BY Sizes
<1>5. from + 1 \in Int /\ last \in Int /\ last <= Len(q)
  BY <1>1, <1>2
<1>6. \A i \in (from + 1)..last : q[i] \in Repo
  BY <1>1, <1>2, <1>5
<1>7. /\ p \in Seq(Repo)
      /\ Len(p) = IF from + 1 <= last THEN last - (from + 1) + 1 ELSE 0
      /\ \A i \in 1..(last - (from + 1) + 1) : p[i] = q[from + 1 + i - 1]
  <2> HIDE DEF last
  <2> QED BY <1>3, <1>5, <1>6, SubSeqProperties
<1>8. Len(p) = IF Len(q) <= from THEN 0 ELSE IF Len(q) < to THEN Len(q) - from ELSE PerPage
  BY <1>1, <1>2, <1>4, <1>7
<1>9. ASSUME NEW i \in 1..Len(p) PROVE p[i] = q[from + i] /\ from + i \in 1..Len(q)
  BY <1>1, <1>2, <1>4, <1>7, <1>8
<1> QED BY <1>2, <1>7, <1>8, <1>9 DEF q, p, from, to

-----------------------------------------------------------------------------
(* There is a highest bucket, and fetch_bucket takes it. *)
LEMMA HighestOf ==
  ASSUME NEW bs \in SUBSET StarRange, bs # {}
  PROVE  Highest(bs) \in bs /\ \A c \in bs : Highest(bs)[2] >= c[2]
<1> DEFINE T == {b[2] : b \in bs}
<1>1. \A b \in bs : b[2] \in Nat /\ b[2] <= MaxStars
  BY Sizes DEF StarRange, Stars
<1>2. T \in SUBSET Nat /\ T # {} /\ \A n \in T : n <= MaxStars
  BY <1>1
<1>3. PICK n \in T : \A m \in T : m <= n
  <2> HIDE DEF T
  <2> QED BY <1>2, NatMax, Sizes
<1>4. \E b \in bs : \A c \in bs : b[2] >= c[2]
  BY <1>1, <1>3
<1>5. Highest(bs) = CHOOSE b \in bs : \A c \in bs : b[2] >= c[2]
  BY DEF Highest
<1> QED BY <1>4, <1>5, Zenon

(* The results of a bucket so far, with those of the page asked for. *)
Items(bucket) ==
  found \o [i \in DOMAIN Page(bucket, page) |->
              [repo |-> Page(bucket, page)[i], stars |-> stars[Page(bucket, page)[i]]]]

(* What was fetched comes first, then the results of the page. *)
LEMMA ItemsOf ==
  ASSUME TypeOK, NEW bucket
  PROVE  /\ Items(bucket) \in Seq(Item)
         /\ Len(Items(bucket)) = Len(found) + Len(Page(bucket, page))
         /\ \A i \in 1..Len(found) : Items(bucket)[i] = found[i]
         /\ \A i \in 1..Len(Page(bucket, page)) :
              Items(bucket)[Len(found) + i] =
                [repo |-> Page(bucket, page)[i], stars |-> stars[Page(bucket, page)[i]]]
<1> DEFINE p == Page(bucket, page)
           e(i) == [repo |-> p[i], stars |-> stars[p[i]]]
           q == [i \in DOMAIN p |-> e(i)]
<1>1. p \in Seq(Repo) /\ stars \in [Repo -> Stars] /\ found \in Seq(Item)
  <2>1. stars \in [Repo -> Stars] /\ page \in 1..Pages /\ found \in Seq(Item)
    BY DEF TypeOK, Item
  <2> QED BY <2>1, PageOf
<1>2. Items(bucket) = found \o q
  BY DEF Items
<1> HIDE DEF p
<1>3. DOMAIN p = 1..Len(p) /\ Len(p) \in Nat /\ \A i \in 1..Len(p) : e(i) \in Item
  BY <1>1 DEF Item
<1> HIDE DEF e
<1>4. q \in Seq(Item) /\ Len(q) = Len(p) /\ \A i \in 1..Len(p) : q[i] = e(i)
  BY <1>3
<1> HIDE DEF q
<1>5. /\ Items(bucket) \in Seq(Item) /\ Len(Items(bucket)) = Len(found) + Len(p)
      /\ \A i \in 1..Len(found) : Items(bucket)[i] = found[i]
      /\ \A i \in 1..Len(p) : Items(bucket)[Len(found) + i] = q[i]
  <2>1. /\ found \o q \in Seq(Item) /\ Len(found \o q) = Len(found) + Len(q)
        /\ \A i \in 1..(Len(found) + Len(q)) :
             (found \o q)[i] = IF i <= Len(found) THEN found[i] ELSE q[i - Len(found)]
    BY <1>1, <1>4, ConcatProperties
  <2>2. Len(found) \in Nat
    BY <1>1
  <2>3. \A i \in 1..Len(p) : (found \o q)[Len(found) + i] = q[i]
    BY <2>1, <2>2, <1>3, <1>4
  <2>4. \A i \in 1..Len(found) : (found \o q)[i] = found[i]
    BY <2>1, <2>2, <1>3, <1>4
  <2> QED BY <2>1, <2>3, <2>4, <1>2, <1>4
<1> QED BY <1>3, <1>4, <1>5 DEF p, e

(* FetchPage asks for another page of the bucket, or is done with it. *)
LEMMA FetchPageCases ==
  ASSUME FetchPage
  PROVE  /\ pc = "page" /\ attempt' = 0
         /\ UNCHANGED <<world, ranges, caches, files, report, bounds, history>>
         /\ \/ /\ Len(Page(Highest(buckets), page)) = PerPage /\ page < Pages
               /\ page' = page + 1 /\ found' = Items(Highest(buckets))
               /\ UNCHANGED <<pc, buckets, repos>>
            \/ \E records \in {AddEach(repos, Items(Highest(buckets)))} :
               /\ ~(Len(Page(Highest(buckets), page)) = PerPage /\ page < Pages)
               /\ page' = 1 /\ found' = <<>>
               /\ buckets' = IF Len(records) >= Limit THEN {} ELSE buckets \ {Highest(buckets)}
               /\ repos' = IF buckets' = {} THEN Ranked(records) ELSE records
               /\ pc' = IF buckets' = {} THEN "truncate_repos" ELSE "page"
BY DEF FetchPage, Items

(* Every step leaves files that hold what a run held, or that were emptied. *)
LEMMA FilesStep ==
  ASSUME IInv, [Next]_vars
  PROVE  FilesOK'
<1> USE DEF IInv, TypeOK, FilesOK, files, NoFile
<1>1. CASE WriteRepos
  BY <1>1 DEF WriteRepos
<1>2. CASE WriteLanguages
  BY <1>2 DEF WriteLanguages
<1>3. CASE WriteScripts
  BY <1>3 DEF WriteScripts
<1>4. CASE TruncateRepos \/ TruncateLanguages \/ TruncateScripts
  BY <1>4 DEF TruncateRepos, TruncateLanguages, TruncateScripts
<1>5. CASE UNCHANGED files
  BY <1>5
<1>6. ASSUME ~(WriteRepos \/ WriteLanguages \/ WriteScripts \/ TruncateRepos \/ TruncateLanguages
                 \/ TruncateScripts)
      PROVE  UNCHANGED files
  <2>1. CASE Begin \/ AskMax \/ CountRange \/ AskLanguages \/ ReadLanguages
    BY <2>1 DEF Begin, AskMax, CountRange, AskLanguages, ReadLanguages, Fail
  <2>2. CASE ReadScripts \/ AskTree \/ Report \/ RequestFails \/ Silence \/ Kill
    BY <2>2 DEF ReadScripts, AskTree, Report, RequestFails, Fail, Silence, Forget, Kill
  <2>3. CASE FetchPage
    BY <2>3 DEF FetchPage
  <2>4. CASE \E r \in Repo : Star(r)
    BY <2>4 DEF Star
  <2>5. CASE UNCHANGED vars
    BY <2>5 DEF vars
  <2> QED BY <1>6, <2>1, <2>2, <2>3, <2>4, <2>5 DEF Next, Step
<1> QED BY <1>1, <1>2, <1>3, <1>4, <1>5, <1>6

-----------------------------------------------------------------------------
(* Every step leaves the variables of the other phases at their first        *)
(* values.                                                                   *)
LEMMA PhasesStep ==
  ASSUME IInv, [Next]_vars
  PROVE  PhasesOK'
<1> USE DEF IInv, PhasesOK
<1>1. CASE Begin
  BY <1>1, NoneAssumption DEF Begin, scan, caches
<1>2. CASE Fail \/ Silence \/ Kill \/ Report
  BY <1>2 DEF Fail, Silence, Kill, Report, Stop, Forget
<1>3. CASE RequestFails
  BY <1>2, <1>3 DEF RequestFails, scan, caches
<1>4. CASE AskMax
  <2>1. CASE Fail
    BY <2>1, <1>2
  <2>2. CASE ~Fail
    BY <1>4, <2>2 DEF AskMax
  <2> QED BY <2>1, <2>2
<1>5. CASE CountRange
  <2>1. /\ ranges' # <<>> => pc' = "count"
        /\ ranges' = <<>> /\ buckets' # {} => pc' = "page"
        /\ ranges' = <<>> /\ buckets' = {} => pc' = "truncate_repos"
        /\ pc = "count" /\ UNCHANGED <<page, found, repos, caches>>
    <3>1. pc' = CASE ranges' # <<>> -> "count"
                  [] ranges' = <<>> /\ buckets' # {} -> "page"
                  [] OTHER -> "truncate_repos"
      BY <1>5 DEF CountRange
    <3>2. pc = "count" /\ UNCHANGED <<page, found, repos, caches>>
      BY <1>5 DEF CountRange
    <3> QED BY <3>1, <3>2
  <2>2. 0 < Limit /\ Len(<<>>) = 0
    BY Sizes
  <2> QED BY <2>1, <2>2 DEF caches
<1>6. CASE FetchPage
  <2>1. UNCHANGED <<ranges, caches>> /\ pc = "page"
    BY <1>6, FetchPageCases
  <2>2. CASE /\ page' = page + 1 /\ found' = Items(Highest(buckets))
             /\ UNCHANGED <<pc, buckets, repos>>
    BY <2>1, <2>2 DEF caches
  <2>3. ASSUME NEW records, records = AddEach(repos, Items(Highest(buckets))),
               page' = 1, found' = <<>>,
               buckets' = IF Len(records) >= Limit THEN {} ELSE buckets \ {Highest(buckets)},
               repos' = IF buckets' = {} THEN Ranked(records) ELSE records,
               pc' = IF buckets' = {} THEN "truncate_repos" ELSE "page"
        PROVE  PhasesOK'
    <3>1. repos \in Seq(RepoRecord) /\ ListOK(repos)
      BY DEF TypeOK, ListsOK, ListOK
    <3>2. Items(Highest(buckets)) \in Seq(Item)
      BY ItemsOf
    <3>3. ListOK(records)
      BY <2>3, <3>1, <3>2, AddAll DEF Added
    <3>4. Len(records) \in Nat /\ Limit \in Nat
      BY <3>3, Sizes DEF ListOK
    <3>5. buckets' # {} => Len(repos') < Limit
      BY <2>3, <3>4
    <3>6. ranges = <<>>
      BY <2>1
    <3>7. pc' \in {"page", "truncate_repos"} /\ (pc' = "page" <=> buckets' # {})
      BY <2>3
    <3> QED BY <2>1, <2>3, <3>5, <3>6, <3>7
  <2> QED BY <1>6, <2>2, <2>3, FetchPageCases
<1>7. CASE TruncateRepos \/ WriteRepos \/ TruncateLanguages \/ WriteLanguages \/ TruncateScripts
  BY <1>7 DEF TruncateRepos, WriteRepos, TruncateLanguages, WriteLanguages, TruncateScripts, scan, caches
<1>8. CASE WriteScripts
  BY <1>8 DEF WriteScripts, scan, caches
<1>9. CASE ReadLanguages
  <2>1. CASE Fail
    BY <2>1, <1>2
  <2>2. CASE ~Fail
    BY <1>9, <2>2 DEF ReadLanguages, scan
  <2> QED BY <2>1, <2>2
<1>10. CASE AskLanguages
  BY <1>10 DEF AskLanguages, scan
<1>11. CASE ReadScripts
  <2>1. CASE Fail
    BY <2>1, <1>2
  <2>2. CASE ~Fail
    BY <1>11, <2>2 DEF ReadScripts, scan
  <2> QED BY <2>1, <2>2
<1>12. CASE AskTree
  BY <1>12 DEF AskTree, scan
<1>13. CASE \E r \in Repo : Star(r)
  BY <1>13 DEF Star, scan, caches
<1>14. CASE UNCHANGED vars
  BY <1>14 DEF vars, scan, caches
<1> QED BY <1>1, <1>2, <1>3, <1>4, <1>5, <1>6, <1>7, <1>8, <1>9, <1>10, <1>11, <1>12, <1>13, <1>14
        DEF Next, Step

(* A list whose repositories, stars and order are those of a ranked list. *)
LEMMA SameOrder ==
  ASSUME NEW rs \in Seq(RepoRecord), NEW q \in Seq(RepoRecord), DOMAIN q = DOMAIN rs,
         \A i \in DOMAIN rs : q[i].repo = rs[i].repo /\ q[i].stars = rs[i].stars
  PROVE  /\ Distinct(rs) => Distinct(q)
         /\ Descending(rs) => Descending(q)
BY DEF Distinct, Descending

(* Every step keeps the lists without repetitions, and in order once ranked. *)
LEMMA ListsStep ==
  ASSUME IInv, [Next]_vars
  PROVE  ListsOK'
<1> USE DEF IInv, ListsOK
<1>0. /\ repos \in Seq(RepoRecord) /\ ListOK(repos)
      /\ languages \in LanguageCache /\ scripts \in SUBSET Repo
      /\ Distinct(<<>>) /\ Descending(<<>>) /\ None # Blank
  BY NoneAssumption DEF TypeOK, ListOK, Distinct, Descending
<1>1. CASE Begin
  BY <1>0, <1>1, NoneAssumption DEF Begin, files, NoFile
<1>2. CASE Fail \/ Silence \/ Kill
  BY <1>0, <1>2 DEF Fail, Silence, Kill, Stop, Forget, files
<1>3. CASE Report
  BY <1>0, <1>3 DEF Report, Stop, Forget, files
<1>4. CASE RequestFails
  BY <1>2, <1>4 DEF RequestFails, files, Requests
<1>5. CASE AskMax
  BY <1>2, <1>5 DEF AskMax, files, PhasesOK
<1>6. CASE CountRange
  BY <1>0, <1>6 DEF CountRange, files, PhasesOK
<1>7. CASE FetchPage
  <2>1. UNCHANGED <<files, report>> /\ pc = "page"
    BY <1>7, FetchPageCases
  <2>2. CASE UNCHANGED <<pc, buckets, repos>>
    BY <2>1, <2>2 DEF files
  <2>3. ASSUME NEW records, records = AddEach(repos, Items(Highest(buckets))),
               repos' = IF buckets' = {} THEN Ranked(records) ELSE records,
               pc' = IF buckets' = {} THEN "truncate_repos" ELSE "page"
        PROVE  ListsOK'
    <3>1. Items(Highest(buckets)) \in Seq(Item)
      BY ItemsOf
    <3>2. ListOK(records)
      BY <2>3, <1>0, <3>1, AddAll DEF Added
    <3>3. ListOK(Ranked(records)) /\ Descending(Ranked(records))
      BY <3>2, RankedSorts
    <3>4. Distinct(repos') /\ (pc' # "page" => Descending(repos'))
      BY <2>3, <3>2, <3>3 DEF ListOK
    <3> QED BY <2>1, <3>4 DEF files
  <2> QED BY <1>7, <2>2, <2>3, FetchPageCases
<1>8. CASE TruncateRepos \/ TruncateLanguages \/ TruncateScripts
  BY <1>8 DEF TruncateRepos, TruncateLanguages, TruncateScripts, files, NoFile
<1>9. CASE WriteRepos
  BY <1>0, <1>9 DEF WriteRepos, ListOK
<1>10. CASE WriteLanguages \/ WriteScripts
  BY <1>10 DEF WriteLanguages, WriteScripts
<1>11. CASE ReadLanguages
  <2>1. CASE Fail
    BY <2>1, <1>2
  <2>2. CASE ~Fail
    <3>1. PICK cache \in LanguageCache : repos' = WithLanguages(repos, cache)
      <4>1. LoadedLanguages(languages_file) \in LanguageCache
        BY <1>11, <2>2 DEF ReadLanguages, FilesOK, NoFile, LoadedLanguages, NotCached, LanguageCache
      <4> QED BY <4>1, <1>11, <2>2 DEF ReadLanguages
    <3>2. Distinct(repos') /\ (Descending(repos) => Descending(repos'))
      BY <3>1, <1>0, WithLanguagesKeeps, SameOrder
    <3>3. pc = "read_languages" /\ UNCHANGED <<files, report>>
      BY <1>11, <2>2 DEF ReadLanguages
    <3> QED BY <3>2, <3>3 DEF files
  <2> QED BY <2>1, <2>2
<1>12. CASE AskLanguages
  <2>1. languages' \in LanguageCache
    BY <1>0, <1>12 DEF AskLanguages, LanguageCache
  <2>2. repos' = WithLanguages(repos, languages') /\ pc = "languages" /\ UNCHANGED <<files, report>>
    BY <1>12 DEF AskLanguages
  <2>3. Distinct(repos') /\ (Descending(repos) => Descending(repos'))
    BY <2>1, <2>2, <1>0, WithLanguagesKeeps, SameOrder
  <2> QED BY <2>2, <2>3 DEF files
<1>13. CASE ReadScripts
  <2>1. CASE Fail
    BY <2>1, <1>2
  <2>2. CASE ~Fail
    <3>1. PICK cache \in SUBSET Repo : repos' = WithScripts(repos, cache)
      BY <1>13, <2>2 DEF ReadScripts, FilesOK, NoFile
    <3>2. Distinct(repos') /\ (Descending(repos) => Descending(repos'))
      BY <3>1, <1>0, WithScriptsKeeps, SameOrder
    <3>3. pc = "read_scripts" /\ UNCHANGED <<files, report>>
      BY <1>13, <2>2 DEF ReadScripts
    <3> QED BY <3>2, <3>3 DEF files
  <2> QED BY <2>1, <2>2
<1>14. CASE AskTree
  <2>1. scripts' \in SUBSET Repo
    BY <1>0, <1>14 DEF AskTree, TypeOK, PhasesOK
  <2>2. repos' = WithScripts(repos, scripts') /\ pc = "tree" /\ UNCHANGED <<files, report>>
    BY <1>14 DEF AskTree
  <2>3. Distinct(repos') /\ (Descending(repos) => Descending(repos'))
    BY <2>1, <2>2, <1>0, WithScriptsKeeps, SameOrder
  <2> QED BY <2>2, <2>3 DEF files
<1>15. CASE \E r \in Repo : Star(r)
  BY <1>15 DEF Star, files
<1>16. CASE UNCHANGED vars
  BY <1>16 DEF vars, files
<1> QED BY <1>1, <1>2, <1>3, <1>4, <1>5, <1>6, <1>7, <1>8, <1>9, <1>10, <1>11, <1>12, <1>13, <1>14,
           <1>15, <1>16
        DEF Next, Step

-----------------------------------------------------------------------------
(* The halves of a range of at least two star counts are not empty and do    *)
(* not overlap.                                                              *)
LEMMA HalvesOf ==
  ASSUME NEW low \in Nat, NEW high \in Nat, low < high
  PROVE  \E mid \in Nat : /\ low <= mid /\ mid < high
                          /\ Halves(low, high) = << <<low, mid>>, <<mid + 1, high>> >>
<1> DEFINE mid == (low + high) \div 2
<1>1. mid \in Nat /\ low <= mid /\ mid < high
  OBVIOUS
<1>2. Halves(low, high) = << <<low, mid>>, <<mid + 1, high>> >>
  BY DEF Halves
<1> QED BY <1>1, <1>2

(* CountRange drops the first range, keeps it as a bucket, or splits it.     *)
LEMMA CountRangeCases ==
  ASSUME IInv, CountRange
  PROVE  \E low, high \in Stars :
           /\ ranges # <<>> /\ ranges[1] = <<low, high>> /\ low <= high
           /\ Tail(ranges) \in Seq(StarRange) /\ Len(Tail(ranges)) = Len(ranges) - 1
           /\ DOMAIN Tail(ranges) = 1..(Len(ranges) - 1)
           /\ \A i \in 1..(Len(ranges) - 1) : Tail(ranges)[i] = ranges[i + 1]
           /\ \/ /\ Cardinality(Matching(<<low, high>>)) = 0
                 /\ ranges' = Tail(ranges) /\ buckets' = buckets
              \/ /\ Cardinality(Matching(<<low, high>>)) <= Threshold \/ low = high
                 /\ ranges' = Tail(ranges) /\ buckets' = buckets \cup {<<low, high>>}
              \/ \E mid \in Stars :
                   /\ low <= mid /\ mid < high
                   /\ ranges' = << <<low, mid>>, <<mid + 1, high>> >> \o Tail(ranges)
                   /\ buckets' = buckets
<1>1. ranges # <<>> /\ ranges \in Seq(StarRange) /\ pc = "count"
  BY DEF CountRange, IInv, PhasesOK, TypeOK
<1>2. 1 \in DOMAIN ranges /\ ranges[1] \in StarRange
  BY <1>1
<1>3. PICK low \in Stars, high \in Stars : ranges[1] = <<low, high>>
  BY <1>2 DEF StarRange
<1>4. low <= high
  BY <1>2, <1>3 DEF IInv, SplitOK
<1>5. /\ Tail(ranges) \in Seq(StarRange) /\ Len(Tail(ranges)) = Len(ranges) - 1
      /\ DOMAIN Tail(ranges) = 1..(Len(ranges) - 1)
      /\ \A i \in 1..(Len(ranges) - 1) : Tail(ranges)[i] = ranges[i + 1]
  BY <1>1, HeadTailProperties
<1> DEFINE count == Cardinality(Matching(<<low, high>>))
           whole == count <= Threshold \/ low = high
<1>6. /\ ranges' = IF count = 0 \/ whole THEN Tail(ranges) ELSE Halves(low, high) \o Tail(ranges)
      /\ buckets' = IF count # 0 /\ whole THEN buckets \cup {<<low, high>>} ELSE buckets
  BY <1>3 DEF CountRange
<1>7. ASSUME ~whole
      PROVE  \E mid \in Stars :
               low <= mid /\ mid < high /\ Halves(low, high) = << <<low, mid>>, <<mid + 1, high>> >>
  <2>1. low \in Nat /\ high \in Nat /\ low < high
    BY <1>4, <1>7, Sizes DEF Stars
  <2>2. PICK mid \in Nat : /\ low <= mid /\ mid < high
                           /\ Halves(low, high) = << <<low, mid>>, <<mid + 1, high>> >>
    BY <2>1, HalvesOf
  <2>3. mid \in Stars
    BY <2>1, <2>2, Sizes DEF Stars
  <2> QED BY <2>2, <2>3
<1>8. CASE count = 0
  BY <1>1, <1>3, <1>4, <1>5, <1>6, <1>8
<1>9. CASE count # 0 /\ whole
  <2>1. ranges' = Tail(ranges) /\ buckets' = buckets \cup {<<low, high>>}
    BY <1>6, <1>9
  <2> QED BY <1>1, <1>3, <1>4, <1>5, <1>9, <2>1
<1>10. CASE count # 0 /\ ~whole
  <2>1. PICK mid \in Stars : /\ low <= mid /\ mid < high
                             /\ Halves(low, high) = << <<low, mid>>, <<mid + 1, high>> >>
    BY <1>7, <1>10
  <2>2. ranges' = << <<low, mid>>, <<mid + 1, high>> >> \o Tail(ranges) /\ buckets' = buckets
    BY <1>6, <1>10, <2>1
  <2> QED BY <1>1, <1>3, <1>4, <1>5, <2>1, <2>2
<1> QED BY <1>8, <1>9, <1>10

(* The names of the records, and those of them whose places are in I. *)
LEMMA MissingOf ==
  ASSUME NEW rs \in Seq(RepoRecord), Distinct(rs), NEW I \in SUBSET DOMAIN rs
  PROVE  /\ Kept(Names(rs), I) \in Seq(Repo)
         /\ \A i \in I : rs[i].repo \in ToSet(Kept(Names(rs), I))
         /\ \A i, j \in DOMAIN Kept(Names(rs), I) :
              Kept(Names(rs), I)[i] = Kept(Names(rs), I)[j] => i = j
         /\ \A n \in DOMAIN Kept(Names(rs), I) : \E i \in I : Kept(Names(rs), I)[n] = rs[i].repo
<1> DEFINE s == Names(rs)
<1>1. s \in Seq(Repo) /\ DOMAIN s = DOMAIN rs /\ \A i \in DOMAIN rs : s[i] = rs[i].repo
  <2>1. ASSUME NEW i \in DOMAIN rs PROVE rs[i].repo \in Repo
    <3>1. rs[i] \in RepoRecord
      OBVIOUS
    <3> QED BY <3>1 DEF RepoRecord
  <2>2. DOMAIN rs = 1..Len(rs) /\ Len(rs) \in Nat
    OBVIOUS
  <2> QED BY <2>1, <2>2 DEF Names
<1> HIDE DEF s
<1>2. \A i, j \in DOMAIN s : s[i] = s[j] => i = j
  BY <1>1 DEF Distinct
<1>3. /\ Kept(s, I) \in Seq(Repo)
      /\ \A i \in I : s[i] \in ToSet(Kept(s, I))
      /\ \A i, j \in DOMAIN Kept(s, I) : Kept(s, I)[i] = Kept(s, I)[j] => i = j
      /\ \A n \in DOMAIN Kept(s, I) : \E i \in I : Kept(s, I)[n] = s[i]
  <2>1. I \in SUBSET DOMAIN s
    BY <1>1
  <2> QED BY <1>1, <1>2, <2>1, KeptPlaces
<1>4. \A i \in I : i \in DOMAIN rs
  OBVIOUS
<1> QED BY <1>1, <1>3, <1>4 DEF s

-----------------------------------------------------------------------------
(* Every step keeps the types. *)
LEMMA TypeStep ==
  ASSUME IInv, [Next]_vars
  PROVE  TypeOK'
<1>0. /\ TypeOK /\ PhasesOK /\ FilesOK /\ ListsOK
      /\ repos \in Seq(RepoRecord) /\ Len(repos) <= Limit /\ ListOK(repos)
      /\ languages \in LanguageCache /\ NotCached \in LanguageCache /\ scripts \in SUBSET Repo
      /\ missing \in Seq(Repo) /\ None # Blank
  BY NoneAssumption DEF IInv, TypeOK, ListsOK, ListOK, NotCached, LanguageCache
<1>1. CASE Begin
  <2>1. repos' \in Seq(RepoRecord) /\ Len(repos') <= Limit
    BY <1>0, <1>1, Sizes DEF Begin, FilesOK, ListsOK, NoFile
  <2>2. pc' \in {"max", "idle", "read_languages"} /\ runs' \in 0..MaxRuns
    <3>1. runs < MaxRuns /\ runs' = runs + 1 /\ runs \in 0..MaxRuns /\ MaxRuns \in Nat
      BY <1>0, <1>1, Sizes DEF Begin, TypeOK
    <3>2. pc' \in {"max", "idle", "read_languages"}
      BY <1>1 DEF Begin
    <3> QED BY <3>1, <3>2
  <2> QED BY <1>0, <1>1, <2>1, <2>2 DEF Begin, TypeOK, Requests, world, scan, caches, files
<1>2. ASSUME Forget
      PROVE  /\ attempt' \in 0..2
             /\ ranges' \in Seq(StarRange) /\ buckets' \in SUBSET StarRange
             /\ page' \in 1..Pages /\ found' \in Seq([repo : Repo, stars : Stars])
             /\ repos' \in Seq(RepoRecord) /\ Len(repos') <= Limit
             /\ missing' \in Seq(Repo) /\ languages' \in LanguageCache
             /\ scripts' \in SUBSET Repo
  BY <1>0, <1>2, Sizes DEF Forget
<1>3. CASE Fail \/ Silence
  BY <1>0, <1>2, <1>3 DEF Fail, Silence, Stop, TypeOK, world, files, bounds, history
<1>4. CASE Kill
  BY <1>0, <1>2, <1>4, Sizes DEF Kill, Stop, TypeOK, world, files, history
<1>5. CASE Report
  BY <1>0, <1>2, <1>5 DEF Report, Stop, TypeOK, world, files, bounds, history
<1>6. CASE RequestFails
  <2>1. CASE Fail
    BY <1>3, <2>1
  <2>2. CASE ~Fail
    <3>1. /\ attempt < 2 /\ attempt' = attempt + 1
          /\ UNCHANGED <<world, pc, scan, repos, caches, files, report, bounds, history>>
      BY <1>6, <2>2 DEF RequestFails
    <3>2. attempt' \in 0..2
      BY <1>0, <3>1 DEF TypeOK
    <3> QED BY <1>0, <3>1, <3>2 DEF TypeOK, world, scan, caches, bounds, history
  <2> QED BY <2>1, <2>2
<1>7. CASE AskMax
  <2>1. CASE Search(<<2, MaxStars>>) = <<>>
    BY <1>7, <1>3, <2>1 DEF AskMax
  <2>2. CASE Search(<<2, MaxStars>>) # <<>>
    <3> DEFINE top == Search(<<2, MaxStars>>)
    <3>1. top \in Seq(Repo) /\ stars \in [Repo -> Stars]
      BY <1>0, SearchSorted DEF TypeOK
    <3>2. /\ ranges' = << <<0, stars[top[1]]>> >> /\ pc' = "count" /\ attempt' = 0
          /\ UNCHANGED <<world, buckets, page, found, repos, caches, files, report, bounds, history>>
      BY <1>7, <2>2 DEF AskMax
    <3> HIDE DEF top
    <3>3. <<0, stars[top[1]]>> \in StarRange
      <4>1. top # <<>>
        BY <2>2 DEF top
      <4>2. top[1] \in Repo
        BY <3>1, <4>1
      <4>3. stars[top[1]] \in Stars /\ 0 \in Stars
        BY <3>1, <4>2, Sizes DEF Stars
      <4> QED BY <4>3 DEF StarRange
    <3>4. ranges' \in Seq(StarRange)
      BY <3>2, <3>3
    <3> QED BY <1>0, <3>2, <3>4 DEF TypeOK, Requests, world, caches, bounds, history
  <2> QED BY <2>1, <2>2
<1>8. CASE CountRange
  <2>1. PICK low \in Stars, high \in Stars :
           /\ Tail(ranges) \in Seq(StarRange)
           /\ \/ ranges' = Tail(ranges) /\ buckets' = buckets
              \/ ranges' = Tail(ranges) /\ buckets' = buckets \cup {<<low, high>>}
              \/ \E mid \in Stars : /\ low <= mid /\ mid < high
                                    /\ ranges' = << <<low, mid>>, <<mid + 1, high>> >> \o Tail(ranges)
                                    /\ buckets' = buckets
    BY <1>8, CountRangeCases
  <2>2. ASSUME NEW mid \in Stars, mid < high, low <= mid
        PROVE  << <<low, mid>>, <<mid + 1, high>> >> \o Tail(ranges) \in Seq(StarRange)
    <3>1. mid + 1 \in Stars
      BY <2>2, Sizes DEF Stars
    <3>2. << <<low, mid>>, <<mid + 1, high>> >> \in Seq(StarRange)
      BY <3>1 DEF StarRange
    <3> QED BY <2>1, <3>2, ConcatProperties
  <2>3. ranges' \in Seq(StarRange) /\ buckets' \in SUBSET StarRange
    <3>1. <<low, high>> \in StarRange
      BY DEF StarRange
    <3> QED BY <1>0, <2>1, <2>2, <3>1 DEF TypeOK
  <2>4. /\ pc' \in {"count", "page", "truncate_repos"} /\ attempt' = 0
        /\ UNCHANGED <<world, page, found, repos, caches, files, report, bounds, history>>
    BY <1>8 DEF CountRange
  <2> QED BY <1>0, <2>3, <2>4 DEF TypeOK, Requests, world, caches, bounds, history
<1>9. CASE FetchPage
  <2>1. /\ pc = "page" /\ attempt' = 0
        /\ UNCHANGED <<world, ranges, caches, files, report, bounds, history>>
    BY <1>9, FetchPageCases
  <2>2. Items(Highest(buckets)) \in Seq(Item)
    BY <1>0, ItemsOf
  <2>3. CASE /\ page < Pages /\ page' = page + 1 /\ found' = Items(Highest(buckets))
             /\ UNCHANGED <<pc, buckets, repos>>
    BY <1>0, <2>1, <2>2, <2>3, Sizes DEF TypeOK, world, caches, bounds, history, Item
  <2>4. ASSUME NEW records, records = AddEach(repos, Items(Highest(buckets))),
               page' = 1, found' = <<>>,
               buckets' = IF Len(records) >= Limit THEN {} ELSE buckets \ {Highest(buckets)},
               repos' = IF buckets' = {} THEN Ranked(records) ELSE records,
               pc' = IF buckets' = {} THEN "truncate_repos" ELSE "page"
        PROVE  TypeOK'
    <3>1. ListOK(records)
      BY <2>4, <1>0, <2>2, AddAll DEF Added
    <3>2. ListOK(repos')
      BY <2>4, <3>1, RankedSorts
    <3>3. buckets' \in SUBSET StarRange /\ pc' \in {"truncate_repos", "page"} /\ page' \in 1..Pages
      BY <1>0, <2>4, Sizes DEF TypeOK
    <3> QED BY <1>0, <2>1, <2>4, <3>2, <3>3 DEF TypeOK, Requests, world, caches, bounds, history, ListOK
  <2> QED BY <1>9, <2>3, <2>4, FetchPageCases
<1>10. CASE TruncateRepos \/ WriteRepos \/ TruncateLanguages \/ WriteLanguages \/ TruncateScripts
              \/ WriteScripts
  BY <1>0, <1>10 DEF TypeOK, Requests, TruncateRepos, WriteRepos, TruncateLanguages, WriteLanguages,
     TruncateScripts, WriteScripts, world, scan, caches, bounds, history
<1>11. CASE ReadLanguages
  <2>1. CASE languages_file = Blank
    BY <1>3, <1>11, <2>1 DEF ReadLanguages
  <2>2. CASE languages_file # Blank
    <3> DEFINE cached == LoadedLanguages(languages_file)
               I == {i \in DOMAIN repos : cached[repos[i].repo] = Blank}
    <3>1. /\ languages' = cached /\ repos' = WithLanguages(repos, cached)
          /\ missing' = Kept(Names(repos), I)
          /\ pc' \in {"read_scripts", "languages"}
          /\ UNCHANGED <<world, attempt, scan, scripts, files, report, bounds, history>>
      BY <1>11, <2>2 DEF ReadLanguages
    <3>2. cached \in LanguageCache
      BY <1>0, <2>2 DEF FilesOK, NoFile, LoadedLanguages
    <3>3. I \in SUBSET DOMAIN repos
      OBVIOUS
    <3> HIDE DEF cached, I
    <3>4. missing' \in Seq(Repo)
      BY <1>0, <3>1, <3>3, MissingOf DEF ListsOK
    <3>5. repos' \in Seq(RepoRecord) /\ Len(repos') = Len(repos)
      BY <1>0, <3>1, <3>2, WithLanguagesKeeps
    <3> QED BY <1>0, <3>1, <3>2, <3>4, <3>5 DEF TypeOK, Requests, world, scan, bounds, history
  <2> QED BY <2>1, <2>2
<1>12. CASE AskLanguages
  <2>1. languages' \in LanguageCache /\ unanswered' \in SUBSET Repo
    <3>1. ToSet(Batch) \subseteq Repo
      <4>1. BatchSize \in Nat /\ Len(missing) \in Nat
        BY <1>0, Sizes
      <4>2. Min({BatchSize, Len(missing)}) \in Int /\ Min({BatchSize, Len(missing)}) <= Len(missing)
        BY <4>1, MinOf
      <4> DEFINE m == Min({BatchSize, Len(missing)})
      <4> HIDE DEF m
      <4>3. m \in Int /\ m <= Len(missing)
        BY <4>2 DEF m
      <4>4. SubSeq(missing, 1, m) \in Seq(Repo)
        BY <1>0, <4>1, <4>3, SubSeqProperties
      <4>5. Batch = SubSeq(missing, 1, m)
        BY DEF Batch, m
      <4> HIDE DEF Batch
      <4>6. \A i \in DOMAIN Batch : Batch[i] \in Repo
        BY <4>4, <4>5
      <4> QED BY <4>6 DEF ToSet
    <3> QED BY <1>0, <1>12, <3>1 DEF AskLanguages, LanguageCache, TypeOK
  <2>2. missing' \in Seq(Repo)
    <3>1. BatchSize + 1 \in Int /\ Len(missing) \in Int /\ \A i \in (BatchSize + 1)..Len(missing) : missing[i] \in Repo
      BY <1>0, Sizes
    <3>2. SubSeq(missing, BatchSize + 1, Len(missing)) \in Seq(Repo)
      BY <3>1, SubSeqProperties
    <3> QED BY <3>2, <1>12 DEF AskLanguages, AfterBatch
  <2>3. repos' = WithLanguages(repos, languages')
    BY <1>12 DEF AskLanguages
  <2>4. repos' \in Seq(RepoRecord) /\ Len(repos') = Len(repos)
    BY <1>0, <2>1, <2>3, WithLanguagesKeeps
  <2>5. pc' = "truncate_languages" /\ attempt' = 0
        /\ UNCHANGED <<world, scan, scripts, files, report, bounds, stable>>
    BY <1>12 DEF AskLanguages
  <2> QED BY <1>0, <2>1, <2>2, <2>4, <2>5 DEF TypeOK, world, scan, bounds
<1>13. CASE ReadScripts
  <2>1. CASE scripts_file = Blank
    BY <1>3, <1>13, <2>1 DEF ReadScripts
  <2>2. CASE scripts_file # Blank
    <3> DEFINE cached == IF scripts_file = None THEN {} ELSE scripts_file
               I == {i \in DOMAIN repos : i <= Summary /\ repos[i].repo \notin cached}
    <3>1. /\ scripts' = cached /\ repos' = WithScripts(repos, cached)
          /\ missing' = Kept(Names(repos), I)
          /\ pc' \in {"report", "tree"}
          /\ UNCHANGED <<world, attempt, scan, languages, files, report, bounds, history>>
      BY <1>13, <2>2 DEF ReadScripts
    <3>2. cached \in SUBSET Repo
      BY <1>0, <2>2 DEF FilesOK, NoFile
    <3>3. I \in SUBSET DOMAIN repos
      OBVIOUS
    <3> HIDE DEF cached, I
    <3>4. missing' \in Seq(Repo)
      BY <1>0, <3>1, <3>3, MissingOf DEF ListsOK
    <3>5. repos' \in Seq(RepoRecord) /\ Len(repos') = Len(repos)
      BY <1>0, <3>1, <3>2, WithScriptsKeeps
    <3> QED BY <1>0, <3>1, <3>2, <3>4, <3>5 DEF TypeOK, Requests, world, scan, bounds, history
  <2> QED BY <2>1, <2>2
<1>14. CASE AskTree
  <2>1. missing # <<>> /\ Head(missing) \in Repo /\ Tail(missing) \in Seq(Repo)
    BY <1>0, <1>14 DEF AskTree, PhasesOK
  <2>2. /\ scripts' = scripts \cup {Head(missing)} /\ repos' = WithScripts(repos, scripts')
        /\ missing' = Tail(missing) /\ pc' = "truncate_scripts" /\ attempt' = 0
        /\ UNCHANGED <<world, scan, languages, files, report, bounds, history>>
    BY <1>14 DEF AskTree
  <2>3. scripts' \in SUBSET Repo
    BY <1>0, <2>1, <2>2
  <2>4. repos' \in Seq(RepoRecord) /\ Len(repos') = Len(repos)
    BY <1>0, <2>2, <2>3, WithScriptsKeeps
  <2> QED BY <1>0, <2>1, <2>2, <2>3, <2>4 DEF TypeOK, Requests, world, scan, bounds, history
<1>15. CASE \E r \in Repo : Star(r)
  <2>1. PICK r \in Repo : Star(r)
    BY <1>15
  <2>2. stars' \in [Repo -> Stars] /\ changes' \in 0..MaxChanges /\ stable' \in BOOLEAN
    <3>1. PICK n \in Stars : stars' = [stars EXCEPT ![r] = n]
      BY <2>1 DEF Star
    <3>2. stars' \in [Repo -> Stars]
      BY <1>0, <3>1 DEF TypeOK
    <3>3. changes < MaxChanges /\ changes' = changes + 1 /\ stable' = FALSE
      BY <2>1 DEF Star
    <3>4. changes' \in 0..MaxChanges
      BY <1>0, <3>3, Sizes DEF TypeOK
    <3> QED BY <3>2, <3>3, <3>4
  <2>3. UNCHANGED <<pc, attempt, scan, repos, caches, files, report, bounds, unanswered>>
    BY <2>1 DEF Star
  <2> QED BY <1>0, <2>2, <2>3 DEF TypeOK, scan, caches, bounds
<1>16. CASE UNCHANGED vars
  BY <1>0, <1>16 DEF vars, TypeOK, world, scan, caches, bounds, history
<1> QED BY <1>1, <1>3, <1>4, <1>5, <1>6, <1>7, <1>8, <1>9, <1>10, <1>11, <1>12, <1>13, <1>14,
           <1>15, <1>16
        DEF Next, Step

-----------------------------------------------------------------------------
(* The first two of a sequence are put before the rest of it. *)
LEMMA TwoBefore ==
  ASSUME NEW a, NEW b, NEW S, NEW t \in Seq(S), a \in S, b \in S
  PROVE  /\ DOMAIN (<<a, b>> \o t) = 1..(Len(t) + 2)
         /\ (<<a, b>> \o t)[1] = a /\ (<<a, b>> \o t)[2] = b
         /\ \A i \in 3..(Len(t) + 2) : (<<a, b>> \o t)[i] = t[i - 2]
<1>1. <<a, b>> \in Seq(S) /\ Len(<<a, b>>) = 2 /\ <<a, b>>[1] = a /\ <<a, b>>[2] = b
  OBVIOUS
<1>2. /\ <<a, b>> \o t \in Seq(S) /\ Len(<<a, b>> \o t) = 2 + Len(t)
      /\ \A i \in 1..(2 + Len(t)) :
           (<<a, b>> \o t)[i] = IF i <= 2 THEN <<a, b>>[i] ELSE t[i - 2]
  BY <1>1, ConcatProperties
<1>3. Len(t) \in Nat
  OBVIOUS
<1> QED BY <1>1, <1>2, <1>3

(* Every step keeps the ranges and buckets side by side. *)
LEMMA SplitStep ==
  ASSUME IInv, [Next]_vars
  PROVE  SplitOK'
<1>0. /\ SplitOK /\ PhasesOK /\ TypeOK
      /\ ranges \in Seq(StarRange) /\ buckets \in SUBSET StarRange
      /\ \A x \in StarRange : x[1] \in Nat /\ x[2] \in Nat
  BY Sizes DEF IInv, TypeOK, StarRange
<1>1. CASE ranges' = <<>> /\ buckets' \subseteq buckets
  BY <1>0, <1>1 DEF SplitOK
<1>2. CASE UNCHANGED <<ranges, buckets>>
  BY <1>0, <1>2 DEF SplitOK
<1>3. CASE AskMax
  <2>1. CASE Fail
    BY <2>1, <1>1 DEF Fail, Stop, Forget
  <2>2. CASE ~Fail
    <3> DEFINE n == stars[Search(<<2, MaxStars>>)[1]]
    <3>1. ranges' = << <<0, n>> >> /\ buckets' = buckets /\ pc = "max"
      BY <1>3, <2>2 DEF AskMax
    <3>2. n \in Nat
      <4> DEFINE top == Search(<<2, MaxStars>>)
      <4>1. top \in Seq(Repo) /\ stars \in [Repo -> Stars]
        BY <1>0, SearchSorted DEF TypeOK
      <4>2. top # <<>>
        BY <1>3, <2>2 DEF AskMax
      <4> HIDE DEF top
      <4>3. top[1] \in Repo
        BY <4>1, <4>2
      <4>4. stars[top[1]] \in Stars
        BY <4>1, <4>3
      <4> QED BY <4>4, Sizes DEF top
    <3>3. buckets' = {}
      BY <1>0, <3>1 DEF PhasesOK
    <3> HIDE DEF n
    <3>4. DOMAIN ranges' = {1} /\ ranges'[1] = <<0, n>>
      BY <3>1
    <3>5. 0 <= n
      BY <3>2
    <3> QED BY <3>3, <3>4, <3>5 DEF SplitOK
  <2> QED BY <2>1, <2>2
<1>4. CASE CountRange
  <2> DEFINE T == Tail(ranges)
  <2>1. PICK low \in Stars, high \in Stars :
           /\ ranges # <<>> /\ ranges[1] = <<low, high>> /\ low <= high
           /\ T \in Seq(StarRange) /\ Len(T) = Len(ranges) - 1
           /\ DOMAIN T = 1..(Len(ranges) - 1)
           /\ \A i \in 1..(Len(ranges) - 1) : T[i] = ranges[i + 1]
           /\ \/ ranges' = T /\ buckets' = buckets
              \/ ranges' = T /\ buckets' = buckets \cup {<<low, high>>}
              \/ \E mid \in Stars : /\ low <= mid /\ mid < high
                                    /\ ranges' = << <<low, mid>>, <<mid + 1, high>> >> \o T
                                    /\ buckets' = buckets
    BY <1>4, CountRangeCases
  <2>2. low \in Nat /\ high \in Nat /\ Len(ranges) \in Nat /\ Len(ranges) >= 1 /\ DOMAIN ranges = 1..Len(ranges)
    BY <1>0, <2>1, Sizes
  <2> HIDE DEF T
  <2>3. /\ \A i \in DOMAIN T : T[i] \in StarRange /\ T[i][1] <= T[i][2] /\ high < T[i][1]
        /\ \A i, j \in DOMAIN T : i < j => T[i][2] < T[j][1]
        /\ \A b \in buckets : /\ b[1] <= b[2] /\ b[2] < low
                              /\ \A i \in DOMAIN T : b[2] < T[i][1]
        /\ \A b, c \in buckets : b = c \/ b[2] < c[1] \/ c[2] < b[1]
    <3>1. \A i \in DOMAIN T : /\ i + 1 \in DOMAIN ranges /\ 1 \in DOMAIN ranges /\ 1 < i + 1
                              /\ T[i] = ranges[i + 1]
      BY <2>1, <2>2
    <3>2. /\ \A i \in DOMAIN ranges : ranges[i][1] <= ranges[i][2]
          /\ \A i, j \in DOMAIN ranges : i < j => ranges[i][2] < ranges[j][1]
          /\ \A b \in buckets : b[1] <= b[2] /\ \A i \in DOMAIN ranges : b[2] < ranges[i][1]
          /\ \A b, c \in buckets : b = c \/ b[2] < c[1] \/ c[2] < b[1]
      BY <1>0 DEF SplitOK, Below
    <3>3. ranges[1][1] = low /\ ranges[1][2] = high /\ 1 \in DOMAIN ranges
      BY <2>1, <2>2
    <3>4. \A i \in DOMAIN T : T[i] \in StarRange /\ T[i][1] <= T[i][2] /\ high < T[i][1]
      BY <2>1, <3>1, <3>2, <3>3
    <3>5. \A i, j \in DOMAIN T : i < j => T[i][2] < T[j][1]
      <4> TAKE i \in DOMAIN T, j \in DOMAIN T
      <4> HAVE i < j
      <4>1. i + 1 < j + 1
        BY <2>1, <2>2
      <4>2. i + 1 \in DOMAIN ranges /\ j + 1 \in DOMAIN ranges
        BY <3>1
      <4>3. ranges[i + 1][2] < ranges[j + 1][1]
        BY <3>2, <4>1, <4>2
      <4> QED BY <3>1, <4>3
    <3> QED BY <3>1, <3>2, <3>3, <3>4, <3>5
  <2>4. CASE ranges' = T /\ buckets' = buckets
    BY <2>3, <2>4 DEF SplitOK, Below
  <2>5. CASE ranges' = T /\ buckets' = buckets \cup {<<low, high>>}
    <3> DEFINE lh == <<low, high>>
    <3>1. lh[1] = low /\ lh[2] = high
      OBVIOUS
    <3> HIDE DEF lh
    <3>2. buckets' = buckets \cup {lh}
      BY <2>5 DEF lh
    <3>3. \A b \in buckets' : b[1] <= b[2] /\ \A i \in DOMAIN T : b[2] < T[i][1]
      BY <2>1, <2>3, <3>1, <3>2
    <3>4. \A b, c \in buckets' : b = c \/ b[2] < c[1] \/ c[2] < b[1]
      BY <2>3, <3>1, <3>2
    <3> QED BY <2>3, <2>5, <3>3, <3>4 DEF SplitOK, Below
  <2>6. ASSUME NEW mid \in Stars, low <= mid, mid < high,
               ranges' = << <<low, mid>>, <<mid + 1, high>> >> \o T, buckets' = buckets
        PROVE  SplitOK'
    <3> DEFINE a == <<low, mid>>  b == <<mid + 1, high>>  q == <<a, b>> \o T
    <3>0. mid \in Nat /\ mid + 1 <= high /\ mid + 1 \in Stars
      BY <2>2, <2>6, Sizes DEF Stars
    <3>1. a \in StarRange /\ b \in StarRange /\ a[1] = low /\ a[2] = mid /\ b[1] = mid + 1 /\ b[2] = high
      BY <3>0 DEF StarRange
    <3>2. ranges' = q
      BY <2>6
    <3> HIDE DEF a, b
    <3>3. /\ DOMAIN q = 1..(Len(T) + 2) /\ q[1] = a /\ q[2] = b
          /\ \A i \in 3..(Len(T) + 2) : q[i] = T[i - 2]
      BY <2>1, <3>1, TwoBefore
    <3> HIDE DEF q
    <3>4. Len(T) \in Nat /\ DOMAIN T = 1..Len(T)
      BY <2>1
    <3>5. \A i \in 3..(Len(T) + 2) : i - 2 \in DOMAIN T /\ q[i] = T[i - 2] /\ q[i][1] \in Nat /\ q[i][2] \in Nat
      <4> TAKE i \in 3..(Len(T) + 2)
      <4>1. i - 2 \in DOMAIN T
        BY <3>4
      <4> QED BY <4>1, <3>3, <2>3, <1>0
    <3>6. \A i \in DOMAIN q : i = 1 \/ i = 2 \/ i \in 3..(Len(T) + 2)
      BY <3>3, <3>4
    <3>7. \A i \in DOMAIN q : q[i][1] <= q[i][2]
      BY <2>2, <2>3, <2>6, <3>0, <3>1, <3>3, <3>5, <3>6
    <3>8. \A i, j \in DOMAIN q : i < j => q[i][2] < q[j][1]
      <4> TAKE i \in DOMAIN q, j \in DOMAIN q
      <4> HAVE i < j
      <4>1. i \in Nat /\ j \in Nat
        BY <3>3
      <4>2. CASE i = 1 /\ j = 2
        BY <4>2, <3>0, <3>1, <3>3
      <4>3. CASE i \in {1, 2} /\ j \in 3..(Len(T) + 2)
        <5>1. j - 2 \in DOMAIN T /\ q[j] = T[j - 2] /\ q[j][1] \in Nat
          BY <4>3, <3>5
        <5>2. high < q[j][1]
          BY <5>1, <2>3
        <5>3. q[i][2] = mid \/ q[i][2] = high
          BY <4>3, <3>1, <3>3
        <5> QED BY <5>1, <5>2, <5>3, <2>2, <2>6, <3>0
      <4>4. CASE i \in 3..(Len(T) + 2) /\ j \in 3..(Len(T) + 2)
        <5>1. i - 2 \in DOMAIN T /\ j - 2 \in DOMAIN T /\ i - 2 < j - 2
          BY <4>1, <4>4, <3>5
        <5> QED BY <5>1, <4>4, <3>5, <2>3
      <4> QED BY <4>1, <4>2, <4>3, <4>4, <3>6
    <3>9. \A c \in buckets : \A i \in DOMAIN q : c[2] < q[i][1]
      <4> TAKE c \in buckets
      <4> TAKE i \in DOMAIN q
      <4>1. c[2] < low /\ c[2] \in Nat
        BY <1>0, <2>3
      <4>2. CASE i \in {1, 2}
        <5>1. q[i][1] = low \/ q[i][1] = mid + 1
          BY <4>2, <3>1, <3>3
        <5> QED BY <5>1, <4>1, <2>2, <2>6, <3>0
      <4>3. CASE i \in 3..(Len(T) + 2)
        BY <4>3, <3>5, <2>3
      <4> QED BY <4>2, <4>3, <3>6
    <3> QED BY <2>3, <2>6, <3>2, <3>7, <3>8, <3>9 DEF SplitOK, Below
  <2> QED BY <2>1, <2>4, <2>5, <2>6
<1>5. CASE FetchPage
  <2>1. buckets' \subseteq buckets /\ ranges' = <<>>
    <3>1. buckets' \subseteq buckets
      BY <1>5, FetchPageCases
    <3> QED BY <3>1, <1>5, <1>0, FetchPageCases DEF PhasesOK
  <2> QED BY <1>1, <2>1
<1>6. CASE Fail \/ Silence \/ Kill \/ Report
  BY <1>6, <1>1 DEF Fail, Silence, Kill, Report, Stop, Forget
<1>7. CASE RequestFails
  BY <1>7, <1>6, <1>2 DEF RequestFails, scan
<1>8. CASE Begin \/ TruncateRepos \/ WriteRepos \/ TruncateLanguages \/ WriteLanguages
             \/ TruncateScripts \/ WriteScripts \/ AskLanguages \/ AskTree
  BY <1>8, <1>2 DEF Begin, TruncateRepos, WriteRepos, TruncateLanguages, WriteLanguages,
     TruncateScripts, WriteScripts, AskLanguages, AskTree, scan
<1>9. CASE ReadLanguages
  BY <1>9, <1>6, <1>2 DEF ReadLanguages, scan
<1>10. CASE ReadScripts
  BY <1>10, <1>6, <1>2 DEF ReadScripts, scan
<1>11. CASE \E r \in Repo : Star(r)
  BY <1>11, <1>2 DEF Star, scan
<1>12. CASE UNCHANGED vars
  BY <1>12, <1>2 DEF vars, scan
<1> QED BY <1>3, <1>4, <1>5, <1>6, <1>7, <1>8, <1>9, <1>10, <1>11, <1>12 DEF Next, Step

-----------------------------------------------------------------------------
(* The batch and what is left behind it share nothing and lose nothing. *)
LEMMA BatchOf ==
  ASSUME missing \in Seq(Repo), \A i, j \in DOMAIN missing : missing[i] = missing[j] => i = j
  PROVE  /\ ToSet(Batch) \subseteq Repo
         /\ AfterBatch \in Seq(Repo)
         /\ \A i, j \in DOMAIN AfterBatch : AfterBatch[i] = AfterBatch[j] => i = j
         /\ \A i \in DOMAIN AfterBatch : AfterBatch[i] \notin ToSet(Batch)
         /\ \A i \in DOMAIN AfterBatch : AfterBatch[i] \in ToSet(missing)
         /\ ToSet(Batch) \subseteq ToSet(missing)
         /\ ToSet(missing) \subseteq ToSet(Batch) \cup ToSet(AfterBatch)
<1> DEFINE N == Len(missing)  m == IF BatchSize <= N THEN BatchSize ELSE N
           p == Batch  q == AfterBatch
<1>0. /\ N \in Nat /\ BatchSize \in Nat /\ BatchSize > 0 /\ DOMAIN missing = 1..N
      /\ \A i \in 1..N : missing[i] \in Repo
  BY Sizes
<1>1. p = SubSeq(missing, 1, m)
  <2>1. Min({BatchSize, N}) = m
    BY <1>0, MinOf
  <2> QED BY <2>1 DEF Batch
<1>2. q = SubSeq(missing, BatchSize + 1, N)
  BY DEF AfterBatch
<1>3. m \in Nat /\ m <= N /\ (m < N => m = BatchSize)
  <2> HIDE DEF p, q, N
  <2> QED BY <1>0
<1> HIDE DEF m, p, q, N
<1>4. p \in Seq(Repo) /\ DOMAIN p = 1..m /\ \A i \in 1..m : p[i] = missing[i]
  <2>1. \A i \in 1..m : missing[i] \in Repo
    BY <1>0, <1>3
  <2>2. p \in Seq(Repo) /\ Len(p) = m /\ \A i \in 1..m : p[i] = missing[1 + i - 1]
    BY <2>1, <1>1, <1>3, SubSeqProperties
  <2> QED BY <2>2, <1>3
<1>5. /\ q \in Seq(Repo)
      /\ DOMAIN q = 1..(N - m)
      /\ \A i \in 1..(N - m) : q[i] = missing[m + i]
  <2>1. BatchSize + 1 \in Int /\ N \in Int /\ \A i \in (BatchSize + 1)..N : missing[i] \in Repo
    BY <1>0
  <2>2. /\ q \in Seq(Repo)
        /\ Len(q) = IF BatchSize + 1 <= N THEN N - (BatchSize + 1) + 1 ELSE 0
        /\ \A i \in 1..(N - (BatchSize + 1) + 1) : q[i] = missing[BatchSize + 1 + i - 1]
    BY <2>1, <1>2, SubSeqProperties
  <2>3. N - m = IF BatchSize + 1 <= N THEN N - (BatchSize + 1) + 1 ELSE 0
    BY <1>0, <1>3 DEF m
  <2>4. ASSUME NEW i \in 1..(N - m) PROVE q[i] = missing[m + i]
    <3>1. m = BatchSize /\ i \in 1..(N - (BatchSize + 1) + 1) /\ BatchSize + 1 + i - 1 = m + i
      BY <1>0, <1>3, <2>3
    <3> QED BY <2>2, <3>1
  <2> QED BY <2>2, <2>3, <2>4
<1>6. \A i \in 1..(N - m) : m + i \in 1..N /\ m + i \notin 1..m
  BY <1>0, <1>3
<1>7. \A i, j \in DOMAIN q : q[i] = q[j] => i = j
  <2> TAKE i \in DOMAIN q, j \in DOMAIN q
  <2> HAVE q[i] = q[j]
  <2>1. m + i \in 1..N /\ m + j \in 1..N /\ missing[m + i] = missing[m + j]
    BY <1>5, <1>6
  <2>2. m + i = m + j
    BY <2>1, <1>0
  <2> QED BY <2>2, <1>3, <1>5
<1>8. \A i \in DOMAIN q : q[i] \notin ToSet(p)
  <2> SUFFICES ASSUME NEW i \in 1..(N - m), NEW j \in 1..m, q[i] = p[j] PROVE FALSE
    BY <1>4, <1>5 DEF ToSet
  <2>1. missing[m + i] = missing[j]
    BY <1>4, <1>5
  <2>3. m + i \in 1..N /\ j \in 1..N
    BY <1>3, <1>0, <1>6
  <2>2. m + i = j
    BY <2>1, <2>3, <1>0
  <2> QED BY <2>2, <1>6
<1>9. \A i \in DOMAIN q : q[i] \in ToSet(missing)
  <2> TAKE i \in DOMAIN q
  <2>1. m + i \in DOMAIN missing /\ q[i] = missing[m + i]
    BY <1>0, <1>5, <1>6
  <2> QED BY <2>1 DEF ToSet
<1>10. ToSet(p) \subseteq ToSet(missing) /\ ToSet(p) \subseteq Repo
  <2>1. \A i \in DOMAIN p : i \in DOMAIN missing /\ p[i] = missing[i] /\ p[i] \in Repo
    BY <1>0, <1>3, <1>4
  <2> QED BY <2>1 DEF ToSet
<1>11. ToSet(missing) \subseteq ToSet(p) \cup ToSet(q)
  <2> SUFFICES ASSUME NEW i \in 1..N PROVE missing[i] \in ToSet(p) \cup ToSet(q)
    BY <1>0 DEF ToSet
  <2>1. CASE i <= m
    <3>1. i \in DOMAIN p /\ p[i] = missing[i]
      BY <1>3, <1>4, <2>1
    <3> QED BY <3>1 DEF ToSet
  <2>2. CASE i > m
    <3>1. i - m \in DOMAIN q /\ m + (i - m) = i
      BY <1>0, <1>3, <1>5, <2>2
    <3>2. q[i - m] = missing[i]
      BY <3>1, <1>5
    <3> QED BY <3>1, <3>2 DEF ToSet
  <2> QED BY <2>1, <2>2, <1>3, <1>0
<1> QED BY <1>4, <1>5, <1>7, <1>8, <1>9, <1>10, <1>11 DEF p, q

(* Every step keeps the language cache, its file and what is still missing   *)
(* of it in agreement with the records.                                      *)
LEMMA LanguagesStep ==
  ASSUME IInv, [Next]_vars
  PROVE  LanguagesOK'
<1>0. /\ LanguagesOK /\ PhasesOK /\ FilesOK
      /\ repos \in Seq(RepoRecord) /\ Distinct(repos)
      /\ \A i \in DOMAIN repos : repos[i].repo \in Repo /\ repos[i].language # Blank
      /\ languages \in LanguageCache /\ missing \in Seq(Repo) /\ scripts \in SUBSET Repo
      /\ unanswered \in SUBSET Repo
      /\ Blank # None /\ Blank \notin Repo
  <2>1. \A x \in RepoRecord : x.repo \in Repo /\ x.language # Blank
    BY NoneAssumption DEF RepoRecord
  <2> QED BY <2>1, NoneAssumption DEF IInv, TypeOK, ListsOK
<1>1. ASSUME UNCHANGED <<languages, languages_file, unanswered>>,
             pc' \notin Asking \cup AskingScripts \cup {"read_scripts", "report"}
      PROVE  LanguagesOK'
  BY <1>0, <1>1 DEF LanguagesOK, Own, Asking, AskingScripts
<1>2. ASSUME languages' = NotCached, UNCHANGED <<languages_file, unanswered>>,
             pc' \in {"idle", "silent"}
      PROVE  LanguagesOK'
  BY <1>0, <1>2 DEF LanguagesOK, Own, NotCached, Asking, AskingScripts
<1>3. CASE UNCHANGED <<pc, languages, languages_file, unanswered, missing, repos>>
  BY <1>0, <1>3 DEF LanguagesOK, Own
<1>4. CASE Fail \/ Silence \/ Kill \/ Report
  BY <1>4, <1>2 DEF Fail, Silence, Kill, Report, Stop, Forget, files, history
<1>5. CASE RequestFails
  BY <1>5, <1>3, <1>4 DEF RequestFails, caches, files, history
<1>6. CASE Begin \/ AskMax \/ CountRange \/ TruncateRepos \/ WriteRepos
  BY <1>6, <1>1, <1>4 DEF Begin, AskMax, CountRange, TruncateRepos, WriteRepos, caches, files,
     history, Asking, AskingScripts
<1>7. CASE FetchPage
  <2>1. pc' \in {"page", "truncate_repos"} /\ UNCHANGED <<languages, languages_file, unanswered>>
    BY <1>7, FetchPageCases DEF caches, files, history
  <2> QED BY <2>1, <1>1 DEF Asking, AskingScripts
<1>8. CASE ReadLanguages
  <2>1. CASE Fail
    BY <2>1, <1>4
  <2>2. CASE ~Fail
    <3> DEFINE cached == LoadedLanguages(languages_file)
               I == {i \in DOMAIN repos : cached[repos[i].repo] = Blank}
    <3>1. /\ languages' = cached /\ repos' = WithLanguages(repos, cached)
          /\ missing' = Kept(Names(repos), I)
          /\ pc' = IF missing' = <<>> THEN "read_scripts" ELSE "languages"
          /\ UNCHANGED <<languages_file, unanswered>>
          /\ languages_file # Blank
      BY <1>8, <2>2 DEF ReadLanguages, files, history
    <3>2. /\ cached \in LanguageCache /\ Own(cached)
          /\ languages_file \notin NoFile => cached = languages_file
      <4>1. NotCached \in LanguageCache /\ Own(NotCached)
        BY DEF NotCached, LanguageCache, Own
      <4> QED BY <1>0, <4>1, <3>1 DEF FilesOK, NoFile, LoadedLanguages, LanguagesOK
    <3>3. I \in SUBSET DOMAIN repos /\ \A i \in DOMAIN repos : i \in I <=> cached[repos[i].repo] = Blank
      OBVIOUS
    <3> HIDE DEF cached, I
    <3>4. /\ \A i \in I : repos[i].repo \in ToSet(missing')
          /\ \A i, j \in DOMAIN missing' : missing'[i] = missing'[j] => i = j
          /\ \A n \in DOMAIN missing' : \E i \in I : missing'[n] = repos[i].repo
      <4> DEFINE q == Kept(Names(repos), I)
      <4>1. /\ \A i \in I : repos[i].repo \in ToSet(q)
            /\ \A i, j \in DOMAIN q : q[i] = q[j] => i = j
            /\ \A n \in DOMAIN q : \E i \in I : q[n] = repos[i].repo
        BY <1>0, <3>3, MissingOf
      <4>2. missing' = q
        BY <3>1
      <4> HIDE DEF q
      <4> QED BY <4>1, <4>2
    <3>5. /\ DOMAIN repos' = DOMAIN repos
          /\ \A i \in DOMAIN repos :
               /\ repos'[i].repo = repos[i].repo
               /\ repos'[i].language = IF cached[repos[i].repo] = Blank THEN repos[i].language
                                       ELSE cached[repos[i].repo]
      BY <1>0, <3>1, <3>2, WithLanguagesKeeps
    <3>6. Own(languages)' /\ (languages_file' \notin NoFile => Own(languages_file)')
      BY <1>0, <3>1, <3>2 DEF LanguagesOK, Own
    <3>7. \A i \in DOMAIN missing' : cached[missing'[i]] = Blank
      BY <3>3, <3>4
    <3>8. \A i \in DOMAIN repos' :
            \/ cached[repos'[i].repo] = Blank /\ repos'[i].repo \in ToSet(missing')
            \/ cached[repos'[i].repo] = repos'[i].language
      BY <3>3, <3>4, <3>5
    <3>9. \A r \in Repo : languages_file' \notin NoFile => languages_file'[r] = languages'[r]
      BY <3>1, <3>2
    <3>10. missing' = <<>> => \A i \in DOMAIN repos' : repos'[i].language = repos'[i].repo \/ repos'[i].repo \in unanswered
      <4> SUFFICES ASSUME missing' = <<>>, NEW i \in DOMAIN repos
                   PROVE  repos'[i].language = repos'[i].repo \/ repos'[i].repo \in unanswered
        BY <3>5
      <4>1. ToSet(missing') = {}
        BY DEF ToSet
      <4>2. cached[repos[i].repo] # Blank
        BY <3>3, <3>4, <4>1
      <4> QED BY <1>0, <3>2, <3>5, <4>2 DEF Own
    <3> QED BY <3>1, <3>4, <3>6, <3>7, <3>8, <3>9, <3>10 DEF LanguagesOK, Asking, AskingScripts
  <2> QED BY <2>1, <2>2
<1>9. CASE AskLanguages
  <2>1. PICK answered \in SUBSET ToSet(Batch) :
          /\ languages' = [r \in Repo |-> IF r \in answered THEN r
                                         ELSE IF r \in ToSet(Batch) THEN None ELSE languages[r]]
          /\ unanswered' = unanswered \cup (ToSet(Batch) \ answered)
    BY <1>9 DEF AskLanguages
  <2>2. /\ pc = "languages" /\ repos' = WithLanguages(repos, languages') /\ missing' = AfterBatch
        /\ pc' = "truncate_languages" /\ languages_file' = languages_file
    BY <1>9 DEF AskLanguages, files
  <2>3. /\ \A i, j \in DOMAIN missing : missing[i] = missing[j] => i = j
        /\ \A r \in ToSet(missing) : languages[r] = Blank
        /\ \A i \in DOMAIN repos :
             \/ languages[repos[i].repo] = Blank /\ repos[i].repo \in ToSet(missing)
             \/ languages[repos[i].repo] = repos[i].language
        /\ languages_file \notin NoFile => \A r \in Repo : languages_file[r] \in {Blank, languages[r]}
        /\ Own(languages) /\ (languages_file \notin NoFile => Own(languages_file))
    BY <1>0, <2>2 DEF LanguagesOK, Asking, ToSet
  <2> DEFINE B == ToSet(Batch)
  <2>4. /\ B \subseteq Repo
        /\ \A i, j \in DOMAIN missing' : missing'[i] = missing'[j] => i = j
        /\ \A i \in DOMAIN missing' : missing'[i] \notin B /\ missing'[i] \in ToSet(missing)
        /\ B \subseteq ToSet(missing)
        /\ ToSet(missing) \subseteq B \cup ToSet(missing')
        /\ missing' \in Seq(Repo)
    BY <1>0, <2>2, <2>3, BatchOf
  <2> HIDE DEF B
  <2>5. /\ \A r \in Repo : /\ r \in B => languages'[r] = r \/ (languages'[r] = None /\ r \in unanswered')
                           /\ r \notin B => languages'[r] = languages[r]
        /\ languages' \in LanguageCache
    BY <1>0, <2>1, <2>4 DEF LanguageCache, B
  <2>6. unanswered \subseteq unanswered'
    BY <2>1
  <2>7. /\ DOMAIN repos' = DOMAIN repos
        /\ \A i \in DOMAIN repos :
             /\ repos'[i].repo = repos[i].repo
             /\ repos'[i].language = IF languages'[repos[i].repo] = Blank THEN repos[i].language
                                     ELSE languages'[repos[i].repo]
    BY <1>0, <2>2, <2>5, WithLanguagesKeeps
  <2>8. Own(languages)'
    BY <2>3, <2>5, <2>6 DEF Own
  <2>9. languages_file' \notin NoFile => Own(languages_file)'
    BY <2>2, <2>3, <2>6 DEF Own
  <2>10. \A i \in DOMAIN missing' : languages'[missing'[i]] = Blank
    <3> TAKE i \in DOMAIN missing'
    <3>1. missing'[i] \in Repo
      BY <2>4
    <3> QED BY <3>1, <2>3, <2>4, <2>5
  <2>11. \A i \in DOMAIN repos' :
            \/ languages'[repos'[i].repo] = Blank /\ repos'[i].repo \in ToSet(missing')
            \/ languages'[repos'[i].repo] = repos'[i].language
    <3> SUFFICES ASSUME NEW i \in DOMAIN repos
                 PROVE  \/ languages'[repos[i].repo] = Blank /\ repos[i].repo \in ToSet(missing')
                        \/ languages'[repos[i].repo] = repos'[i].language
      BY <2>7
    <3>1. CASE languages'[repos[i].repo] # Blank
      BY <2>7, <3>1
    <3>2. CASE languages'[repos[i].repo] = Blank
      <4>1. repos[i].repo \in Repo /\ repos[i].repo \notin B
        BY <1>0, <2>5, <3>2
      <4>2. repos[i].repo \in ToSet(missing)
        BY <1>0, <2>3, <2>5, <3>2, <4>1
      <4> QED BY <2>4, <3>2, <4>1, <4>2
    <3> QED BY <3>1, <3>2
  <2>12. languages_file' \notin NoFile => \A r \in Repo : languages_file'[r] \in {Blank, languages'[r]}
    BY <2>2, <2>3, <2>4, <2>5
  <2> QED BY <2>2, <2>4, <2>8, <2>9, <2>10, <2>11, <2>12 DEF LanguagesOK, Asking, AskingScripts
<1>10. CASE TruncateLanguages
  <2>1. /\ pc = "truncate_languages" /\ pc' = "write_languages" /\ languages_file' = Blank
        /\ UNCHANGED <<repos, missing, languages, unanswered>>
    BY <1>10 DEF TruncateLanguages, caches, history
  <2> QED BY <1>0, <2>1 DEF LanguagesOK, Own, Asking, AskingScripts, NoFile
<1>11. CASE WriteLanguages
  <2>1. /\ pc = "write_languages" /\ languages_file' = languages
        /\ pc' = IF missing = <<>> THEN "read_scripts" ELSE "languages"
        /\ UNCHANGED <<repos, missing, languages, unanswered>>
    BY <1>11 DEF WriteLanguages, caches, history
  <2>2. missing = <<>> => \A i \in DOMAIN repos : repos[i].language = repos[i].repo \/ repos[i].repo \in unanswered
    <3> SUFFICES ASSUME missing = <<>>, NEW i \in DOMAIN repos
                 PROVE  repos[i].language = repos[i].repo \/ repos[i].repo \in unanswered
      OBVIOUS
    <3>1. ToSet(missing) = {}
      BY DEF ToSet
    <3>2. languages[repos[i].repo] = repos[i].language /\ Own(languages)
      BY <1>0, <2>1, <3>1 DEF LanguagesOK, Asking
    <3> QED BY <1>0, <3>2 DEF Own
  <2> QED BY <1>0, <2>1, <2>2 DEF LanguagesOK, Own, Asking, AskingScripts
<1>12. CASE ReadScripts
  <2>1. CASE Fail
    BY <2>1, <1>4
  <2>2. CASE ~Fail
    <3>1. /\ \E cache \in SUBSET Repo : repos' = WithScripts(repos, cache)
          /\ pc = "read_scripts" /\ pc' \in {"report", "tree"}
          /\ UNCHANGED <<languages, languages_file, unanswered>>
      BY <1>0, <1>12, <2>2 DEF ReadScripts, FilesOK, NoFile, files, history
    <3>2. /\ DOMAIN repos' = DOMAIN repos
          /\ \A i \in DOMAIN repos : repos'[i].repo = repos[i].repo /\ repos'[i].language = repos[i].language
      BY <1>0, <3>1, WithScriptsKeeps
    <3> QED BY <1>0, <3>1, <3>2 DEF LanguagesOK, Own, Asking, AskingScripts
  <2> QED BY <2>1, <2>2
<1>13. CASE AskTree
  <2>1. /\ repos' = WithScripts(repos, scripts') /\ scripts' = scripts \cup {Head(missing)}
        /\ pc = "tree" /\ pc' = "truncate_scripts" /\ UNCHANGED <<languages, languages_file, unanswered>>
    BY <1>13 DEF AskTree, files, history
  <2>2. scripts' \in SUBSET Repo
    BY <1>0, <2>1 DEF PhasesOK
  <2>3. /\ DOMAIN repos' = DOMAIN repos
        /\ \A i \in DOMAIN repos : repos'[i].repo = repos[i].repo /\ repos'[i].language = repos[i].language
    BY <1>0, <2>1, <2>2, WithScriptsKeeps
  <2> QED BY <1>0, <2>1, <2>3 DEF LanguagesOK, Own, Asking, AskingScripts
<1>14. CASE TruncateScripts \/ WriteScripts
  <2>1. /\ pc \in AskingScripts /\ pc' \in AskingScripts \cup {"report"}
        /\ UNCHANGED <<repos, languages, languages_file, unanswered>>
    BY <1>14 DEF TruncateScripts, WriteScripts, caches, history, AskingScripts
  <2> QED BY <1>0, <2>1 DEF LanguagesOK, Own, Asking, AskingScripts
<1>15. CASE \E r \in Repo : Star(r)
  BY <1>15, <1>3 DEF Star, caches, files
<1>16. CASE UNCHANGED vars
  BY <1>16, <1>3 DEF vars, caches, files, history
<1> QED BY <1>4, <1>5, <1>6, <1>7, <1>8, <1>9, <1>10, <1>11, <1>12, <1>13, <1>14, <1>15, <1>16
        DEF Next, Step

-----------------------------------------------------------------------------
(* Every step keeps the ranked scripts, their file and what is still missing *)
(* of them in agreement with the records.                                    *)
LEMMA ScriptsStep ==
  ASSUME IInv, [Next]_vars
  PROVE  ScriptsOK'
<1>0. /\ ScriptsOK /\ PhasesOK /\ FilesOK
      /\ repos \in Seq(RepoRecord) /\ Distinct(repos) /\ DOMAIN repos = 1..Len(repos)
      /\ missing \in Seq(Repo) /\ scripts \in SUBSET Repo /\ languages \in LanguageCache
  BY DEF IInv, TypeOK, ListsOK
<1>1. CASE pc' \notin AskingScripts \cup {"report"}
  BY <1>1 DEF ScriptsOK, AskingScripts
<1>2. CASE UNCHANGED <<pc, repos, missing, scripts, scripts_file>>
  BY <1>0, <1>2 DEF ScriptsOK
<1>3. CASE Fail \/ Silence \/ Kill \/ Report
  BY <1>3, <1>1 DEF Fail, Silence, Kill, Report, Stop, Forget, AskingScripts
<1>4. CASE RequestFails
  BY <1>4, <1>2, <1>3 DEF RequestFails, caches, files
<1>5. CASE Begin \/ AskMax \/ CountRange \/ TruncateRepos \/ WriteRepos
  BY <1>5, <1>1, <1>3 DEF Begin, AskMax, CountRange, TruncateRepos, WriteRepos, AskingScripts
<1>6. CASE FetchPage
  <2>1. pc' \in {"page", "truncate_repos"}
    BY <1>6, FetchPageCases
  <2> QED BY <2>1, <1>1 DEF AskingScripts
<1>7. CASE ReadLanguages \/ AskLanguages \/ TruncateLanguages \/ WriteLanguages
  BY <1>7, <1>1, <1>3 DEF ReadLanguages, AskLanguages, TruncateLanguages, WriteLanguages, AskingScripts
<1>8. CASE ReadScripts
  <2>1. CASE Fail
    BY <2>1, <1>3
  <2>2. CASE ~Fail
    <3> DEFINE cached == IF scripts_file = None THEN {} ELSE scripts_file
               I == {i \in DOMAIN repos : i <= Summary /\ repos[i].repo \notin cached}
    <3>1. /\ scripts' = cached /\ repos' = WithScripts(repos, cached)
          /\ missing' = Kept(Names(repos), I)
          /\ pc' = IF missing' = <<>> THEN "report" ELSE "tree"
          /\ scripts_file' = scripts_file /\ scripts_file # Blank
      BY <1>8, <2>2 DEF ReadScripts, files
    <3>2. cached \in SUBSET Repo /\ (scripts_file \notin NoFile => cached = scripts_file)
      BY <1>0, <3>1 DEF FilesOK, NoFile
    <3>3. I \in SUBSET DOMAIN repos /\ \A i \in DOMAIN repos : i \in I <=> i <= Summary /\ repos[i].repo \notin cached
      OBVIOUS
    <3> HIDE DEF cached, I
    <3>4. \A i \in I : repos[i].repo \in ToSet(missing')
      BY <1>0, <3>1, <3>3, MissingOf
    <3>5. /\ DOMAIN repos' = DOMAIN repos
          /\ \A i \in DOMAIN repos :
               /\ repos'[i].repo = repos[i].repo
               /\ repos'[i].scripts = (repos[i].scripts \/ (i <= Summary /\ repos[i].repo \in cached))
      BY <1>0, <3>1, <3>2, WithScriptsKeeps
    <3>6. \A i \in DOMAIN repos' : i <= Summary => repos'[i].scripts \/ repos'[i].repo \in ToSet(missing')
      BY <3>3, <3>4, <3>5
    <3>7. missing' = <<>> => ToSet(missing') = {}
      BY DEF ToSet
    <3> QED BY <3>1, <3>2, <3>6, <3>7 DEF ScriptsOK, AskingScripts
  <2> QED BY <2>1, <2>2
<1>9. CASE AskTree
  <2>1. /\ repos' = WithScripts(repos, scripts') /\ scripts' = scripts \cup {Head(missing)}
        /\ missing' = Tail(missing) /\ scripts_file' = scripts_file
        /\ pc = "tree" /\ pc' = "truncate_scripts"
    BY <1>9 DEF AskTree, files
  <2>2. scripts' \in SUBSET Repo /\ missing # <<>>
    BY <1>0, <2>1 DEF PhasesOK
  <2>3. /\ DOMAIN repos' = DOMAIN repos
        /\ \A i \in DOMAIN repos :
             /\ repos'[i].repo = repos[i].repo
             /\ repos'[i].scripts = (repos[i].scripts \/ (i <= Summary /\ repos[i].repo \in scripts'))
    <3>1. PICK s \in SUBSET Repo : s = scripts'
      BY <2>2
    <3>2. repos' = WithScripts(repos, s)
      BY <2>1, <3>1
    <3>3. /\ DOMAIN WithScripts(repos, s) = DOMAIN repos
          /\ \A i \in DOMAIN repos :
               /\ WithScripts(repos, s)[i].repo = repos[i].repo
               /\ WithScripts(repos, s)[i].scripts =
                    (repos[i].scripts \/ (i <= Summary /\ repos[i].repo \in s))
      BY <1>0, WithScriptsKeeps
    <3> QED BY <3>1, <3>2, <3>3
  <2>4. \A r \in ToSet(missing) : r = Head(missing) \/ r \in ToSet(missing')
    <3>1. /\ Len(missing') = Len(missing) - 1 /\ DOMAIN missing = 1..Len(missing)
          /\ \A i \in 1..Len(missing') : missing'[i] = missing[i + 1]
          /\ Head(missing) = missing[1] /\ missing' \in Seq(Repo) /\ Len(missing) \in Nat
      BY <1>0, <2>1, <2>2, HeadTailProperties
    <3> SUFFICES ASSUME NEW i \in 1..Len(missing), i # 1 PROVE missing[i] \in ToSet(missing')
      BY <3>1 DEF ToSet
    <3>2. i - 1 \in 1..Len(missing') /\ i = (i - 1) + 1
      BY <3>1
    <3>3. i - 1 \in DOMAIN missing' /\ missing'[i - 1] = missing[i]
      BY <3>1, <3>2
    <3> QED BY <3>3 DEF ToSet
  <2>5. \A i \in DOMAIN repos' : i <= Summary => repos'[i].scripts \/ repos'[i].repo \in ToSet(missing')
    <3> SUFFICES ASSUME NEW i \in DOMAIN repos, i <= Summary
                 PROVE  repos'[i].scripts \/ repos'[i].repo \in ToSet(missing')
      BY <2>3
    <3>1. repos[i].scripts \/ repos[i].repo \in ToSet(missing)
      BY <1>0, <2>1 DEF ScriptsOK, AskingScripts
    <3>2. CASE repos[i].scripts
      BY <2>3, <3>2
    <3>3. CASE repos[i].repo \in ToSet(missing)
      BY <2>1, <2>3, <2>4, <3>3
    <3> QED BY <3>1, <3>2, <3>3
  <2>6. scripts_file' \notin NoFile => scripts_file' \subseteq scripts'
    BY <1>0, <2>1 DEF ScriptsOK
  <2> QED BY <2>1, <2>5, <2>6 DEF ScriptsOK, AskingScripts
<1>10. CASE TruncateScripts
  <2>1. /\ pc = "truncate_scripts" /\ pc' = "write_scripts" /\ UNCHANGED <<repos, missing>>
    BY <1>10 DEF TruncateScripts, caches
  <2> QED BY <1>0, <2>1 DEF ScriptsOK, AskingScripts
<1>11. CASE WriteScripts
  <2>1. /\ pc = "write_scripts" /\ pc' = (IF missing = <<>> THEN "report" ELSE "tree")
        /\ scripts_file' = scripts /\ UNCHANGED <<repos, missing, scripts>>
    BY <1>11 DEF WriteScripts, caches
  <2>2. missing = <<>> => ToSet(missing) = {}
    BY DEF ToSet
  <2> QED BY <1>0, <2>1, <2>2 DEF ScriptsOK, AskingScripts
<1>12. CASE \E r \in Repo : Star(r)
  BY <1>12, <1>2 DEF Star, caches, files
<1>13. CASE UNCHANGED vars
  BY <1>13, <1>2 DEF vars, caches, files
<1> QED BY <1>3, <1>4, <1>5, <1>6, <1>7, <1>8, <1>9, <1>10, <1>11, <1>12, <1>13 DEF Next, Step

(* A report has what the run held when it was written. *)
LEMMA ReportStep ==
  ASSUME IInv, [Next]_vars
  PROVE  ReportEnriched'
<1>0. ReportEnriched /\ LanguagesOK /\ ScriptsOK
  BY DEF IInv
<1>1. CASE report' = report /\ unanswered \subseteq unanswered'
  BY <1>0, <1>1 DEF ReportEnriched
<1>2. CASE Report
  <2>1. pc = "report" /\ report' = repos /\ unanswered' = unanswered
    BY <1>2 DEF Report, history
  <2> QED BY <1>0, <2>1 DEF ReportEnriched, LanguagesOK, ScriptsOK
<1>3. CASE Begin \/ AskMax \/ CountRange \/ TruncateRepos \/ WriteRepos \/ RequestFails \/ Silence \/ Kill
  BY <1>3, <1>1 DEF Begin, AskMax, CountRange, TruncateRepos, WriteRepos, RequestFails, Silence, Kill, Fail, history
<1>4. CASE FetchPage
  BY <1>4, <1>1, FetchPageCases DEF history
<1>5. CASE ReadLanguages \/ TruncateLanguages \/ WriteLanguages
  BY <1>5, <1>1 DEF ReadLanguages, TruncateLanguages, WriteLanguages, Fail, history
<1>6. CASE AskLanguages
  BY <1>6, <1>1 DEF AskLanguages
<1>7. CASE ReadScripts \/ AskTree \/ TruncateScripts \/ WriteScripts
  BY <1>7, <1>1 DEF ReadScripts, AskTree, TruncateScripts, WriteScripts, Fail, history
<1>8. CASE \E r \in Repo : Star(r)
  BY <1>8, <1>1 DEF Star
<1>9. CASE UNCHANGED vars
  BY <1>9, <1>1 DEF vars, history
<1> QED BY <1>2, <1>3, <1>4, <1>5, <1>6, <1>7, <1>8, <1>9 DEF Next, Step

-----------------------------------------------------------------------------
(* While no star is given or taken back, searches give the same. *)
LEMMA SameStars ==
  ASSUME stars' = stars
  PROVE  /\ \A b : Matching(b)' = Matching(b)
         /\ \A b : Search(b)' = Search(b)
         /\ \A n : Crowded(n)' = Crowded(n)
<1>1. \A b : Matching(b)' = Matching(b)
  BY DEF Matching
<1>2. \A b : Search(b)' = Search(b)
  BY <1>1 DEF Search
<1>3. \A n : Crowded(n)' = Crowded(n)
  BY DEF Crowded
<1> QED BY <1>1, <1>2, <1>3

(* A page continues what was fetched of its bucket, and one that is not full *)
(* is the last of it.                                                        *)
LEMMA FetchedMore ==
  ASSUME TypeOK, NEW b, Len(found) = (page - 1) * PerPage, Fetched(found, b)
  PROVE  /\ Fetched(Items(b), b)
         /\ Len(Page(b, page)) = PerPage => Len(Items(b)) = page * PerPage
         /\ Len(Page(b, page)) # PerPage => Len(Items(b)) = Cardinality(Matching(b))
<1> DEFINE p == Page(b, page)  q == Search(b)  from == (page - 1) * PerPage  to == page * PerPage
           N == Cardinality(Matching(b))  items == Items(b)
<1>1. /\ stars \in [Repo -> Stars] /\ page \in 1..Pages /\ found \in Seq(Item)
      /\ PerPage \in Nat
  BY Sizes DEF TypeOK, Item
<1>2. N \in Nat /\ Len(q) = N /\ DOMAIN q = 1..N
  BY <1>1, SearchSorted
<1>3. /\ p \in Seq(Repo) /\ from \in Nat /\ to = from + PerPage
      /\ Len(p) = IF Len(q) <= from THEN 0 ELSE IF Len(q) < to THEN Len(q) - from ELSE PerPage
      /\ \A i \in 1..Len(p) : p[i] = q[from + i] /\ from + i \in 1..Len(q)
  BY <1>1, PageOf
<1>4. /\ items \in Seq(Item) /\ Len(items) = Len(found) + Len(p)
      /\ \A i \in 1..Len(found) : items[i] = found[i]
      /\ \A i \in 1..Len(p) : items[Len(found) + i] = [repo |-> p[i], stars |-> stars[p[i]]]
  BY ItemsOf
<1>5. /\ from <= N /\ Len(found) = from /\ DOMAIN found = 1..from
      /\ \A i \in 1..from : found[i] = [repo |-> q[i], stars |-> stars[q[i]]]
  BY <1>1 DEF Fetched
<1> HIDE DEF p, q, from, to, N, items
<1>6. Len(p) \in Nat /\ DOMAIN items = 1..(from + Len(p)) /\ Len(items) = from + Len(p)
  BY <1>3, <1>4, <1>5
<1>7. Len(items) <= N
  BY <1>1, <1>2, <1>3, <1>5, <1>6
<1>8. \A i \in DOMAIN items : items[i] = [repo |-> q[i], stars |-> stars[q[i]]]
  <2> TAKE i \in DOMAIN items
  <2>1. CASE i <= from
    BY <2>1, <1>4, <1>5, <1>6
  <2>2. CASE i > from
    <3>1. i - from \in 1..Len(p) /\ from + (i - from) = i
      BY <1>3, <1>6, <2>2
    <3>2. items[i] = [repo |-> p[i - from], stars |-> stars[p[i - from]]] /\ p[i - from] = q[i]
      BY <1>3, <1>4, <1>5, <3>1
    <3> QED BY <3>2
  <2> QED BY <2>1, <2>2, <1>3, <1>6
<1>9. Len(p) = PerPage => Len(items) = to
  BY <1>3, <1>6
<1>10. Len(p) # PerPage => Len(items) = N
  BY <1>1, <1>2, <1>3, <1>5, <1>6
<1>11. Fetched(items, b)
  BY <1>7, <1>8 DEF Fetched, items, q, N
<1> QED BY <1>9, <1>10, <1>11 DEF items, p, to, N

(* What a bucket gives in the end: all it holds, or as many results as a     *)
(* search returns, of repositories that have all the same stars.             *)
LEMMA BucketFetched ==
  ASSUME IInv, stable, pc = "page",
         ~(Len(Page(Highest(buckets), page)) = PerPage /\ page < Pages)
  PROVE  /\ \A r \in Matching(Highest(buckets)) :
              \/ Crowded(stars[r])
              \/ \E j \in DOMAIN Items(Highest(buckets)) : Items(Highest(buckets))[j].repo = r
         /\ \A j \in DOMAIN Items(Highest(buckets)) :
              /\ Items(Highest(buckets))[j].repo \in Matching(Highest(buckets))
              /\ Items(Highest(buckets))[j].stars = stars[Items(Highest(buckets))[j].repo]
         /\ \A i, j \in DOMAIN Items(Highest(buckets)) :
              i < j => Items(Highest(buckets))[i].stars >= Items(Highest(buckets))[j].stars
<1> DEFINE b == Highest(buckets)  items == Items(b)  q == Search(b)
           N == Cardinality(Matching(b))
<1>1. /\ TypeOK /\ stars \in [Repo -> Stars] /\ page \in 1..Pages /\ buckets \in SUBSET StarRange
      /\ buckets # {} /\ Len(found) = (page - 1) * PerPage /\ Fetched(found, b)
      /\ \A c \in buckets : Cardinality(Matching(c)) <= Threshold \/ c[1] = c[2]
  BY DEF IInv, TypeOK, CoverageOK, PhasesOK
<1>2. b \in buckets /\ b \in StarRange
  BY <1>1, HighestOf
<1>3. N <= Threshold \/ b[1] = b[2]
  BY <1>1, <1>2
<1>4. /\ Fetched(items, b)
      /\ Len(Page(b, page)) = PerPage => Len(items) = page * PerPage
      /\ Len(Page(b, page)) # PerPage => Len(items) = N
  BY <1>1, FetchedMore
<1>5. /\ N \in Nat /\ DOMAIN q = 1..N
      /\ \A i \in 1..N : q[i] \in Matching(b)
      /\ \A r \in Matching(b) : \E i \in 1..N : q[i] = r
      /\ \A i, j \in 1..N : i < j => stars[q[i]] >= stars[q[j]]
  <2>1. /\ Cardinality(Matching(b)) \in Nat
        /\ DOMAIN Search(b) = 1..Cardinality(Matching(b))
        /\ \A i \in DOMAIN Search(b) : Search(b)[i] \in Matching(b)
        /\ \A r \in Matching(b) : \E i \in DOMAIN Search(b) : Search(b)[i] = r
        /\ \A i, j \in DOMAIN Search(b) : i < j => stars[Search(b)[i]] >= stars[Search(b)[j]]
    BY <1>1, SearchSorted
  <2> HIDE DEF b
  <2> QED BY <2>1
<1>6. items \in Seq(Item) /\ DOMAIN items = 1..Len(items) /\ Len(items) \in Nat
  BY <1>1, ItemsOf
<1>7. Len(items) <= N /\ \A i \in 1..Len(items) : items[i] = [repo |-> q[i], stars |-> stars[q[i]]]
  BY <1>4, <1>6 DEF Fetched
<1>8. Len(items) = N \/ Len(items) = Threshold
  <2>1. CASE Len(Page(b, page)) # PerPage
    BY <1>4, <2>1
  <2>2. CASE Len(Page(b, page)) = PerPage
    <3>1. page = Pages
      BY <1>1, <2>2, Sizes
    <3>2. PerPage * Pages = Pages * PerPage
      BY Sizes
    <3> QED BY <1>4, <2>2, <3>1, <3>2 DEF Threshold
  <2> QED BY <2>1, <2>2
<1>9. ASSUME NEW r \in Matching(b)
      PROVE  Crowded(stars[r]) \/ \E j \in DOMAIN items : items[j].repo = r
  <2>1. PICK i \in 1..N : q[i] = r
    BY <1>5
  <2>2. CASE i <= Len(items)
    <3>1. i \in DOMAIN items /\ items[i].repo = r
      BY <1>6, <1>7, <2>1, <2>2
    <3> QED BY <3>1
  <2>3. CASE i > Len(items)
    <3>1. N > Threshold /\ b[1] = b[2]
      <4>1. Len(items) # N
        BY <1>5, <1>6, <2>3
      <4>2. Threshold \in Nat
        BY <1>6, <1>8, <4>1
      <4>3. Len(items) = Threshold
        BY <1>8, <4>1
      <4> HIDE DEF items, N
      <4>4. N > Threshold
        BY <1>5, <1>7, <4>1, <4>2, <4>3
      <4> QED BY <1>3, <1>5, <4>2, <4>4
    <3>2. r \in Repo /\ stars[r] \in b[1]..b[2] /\ stars[r] \in Stars
      BY <1>1 DEF Matching
    <3>3. b[1] \in Nat
      BY <1>2, Sizes DEF StarRange
    <3>4. stars[r] = b[1]
      BY <3>1, <3>2, <3>3
    <3>5. {s \in Repo : stars[s] = b[1]} = Matching(b)
      <4>1. \A s \in Repo : stars[s] \in b[1]..b[2] <=> stars[s] = b[1]
        BY <3>1, <3>3
      <4> QED BY <4>1 DEF Matching
    <3> QED BY <3>1, <3>4, <3>5 DEF Crowded
  <2> QED BY <2>2, <2>3, <2>1, <1>5, <1>6
<1>10. ASSUME NEW j \in DOMAIN items
       PROVE  items[j].repo \in Matching(b) /\ items[j].stars = stars[items[j].repo]
  <2>1. j \in 1..N /\ items[j] = [repo |-> q[j], stars |-> stars[q[j]]]
    BY <1>5, <1>6, <1>7
  <2>2. q[j] \in Matching(b)
    BY <1>5, <2>1
  <2> HIDE DEF b, q, items
  <2> QED BY <2>1, <2>2
<1>11. ASSUME NEW i \in DOMAIN items, NEW j \in DOMAIN items, i < j
       PROVE  items[i].stars >= items[j].stars
  <2>1. /\ i \in 1..N /\ items[i] = [repo |-> q[i], stars |-> stars[q[i]]]
        /\ j \in 1..N /\ items[j] = [repo |-> q[j], stars |-> stars[q[j]]]
    BY <1>5, <1>6, <1>7
  <2>2. stars[q[i]] >= stars[q[j]]
    BY <1>5, <1>11, <2>1
  <2> HIDE DEF q, items
  <2> QED BY <2>1, <2>2
<1> QED BY <1>9, <1>10, <1>11

-----------------------------------------------------------------------------
(* Before its first page nothing was fetched of a bucket. *)
LEMMA NothingFetched ==
  ASSUME stars \in [Repo -> Stars], NEW b
  PROVE  Fetched(<<>>, b) /\ Len(<<>>) = (1 - 1) * PerPage
<1>1. Cardinality(Matching(b)) \in Nat
  BY SearchSorted
<1>2. (1 - 1) * PerPage = 0
  BY Sizes
<1> QED BY <1>1, <1>2 DEF Fetched

(* Asking for the count of a range loses no repository: it stays in one of   *)
(* the halves, or in the bucket the range becomes.                           *)
LEMMA CountCovers ==
  ASSUME IInv, stable, CountRange
  PROVE  CoverageOK'
<1>0. /\ TypeOK /\ PhasesOK /\ CoverageOK /\ pc = "count"
      /\ stars \in [Repo -> Stars] /\ ranges \in Seq(StarRange)
      /\ page = 1 /\ found = <<>> /\ repos = <<>>
  BY DEF IInv, TypeOK, CountRange, PhasesOK
<1>1. /\ UNCHANGED <<stars, page, found, repos>>
      /\ ranges' # <<>> => pc' = "count"
      /\ ranges' = <<>> /\ buckets' # {} => pc' = "page"
      /\ ranges' = <<>> /\ buckets' = {} => pc' = "truncate_repos"
  <2>1. pc' = CASE ranges' # <<>> -> "count"
                [] ranges' = <<>> /\ buckets' # {} -> "page"
                [] OTHER -> "truncate_repos"
    BY DEF CountRange
  <2>2. UNCHANGED <<stars, page, found, repos>>
    BY DEF CountRange, world
  <2> QED BY <2>1, <2>2
<1>2. /\ \A b : Matching(b)' = Matching(b)
      /\ \A b : Search(b)' = Search(b)
      /\ \A n : Crowded(n)' = Crowded(n)
  BY <1>1, SameStars
<1> DEFINE T == Tail(ranges)
           Covered(r, rs, bs) == \/ \E i \in DOMAIN rs : r \in Matching(rs[i])
                                 \/ \E b \in bs : r \in Matching(b)
<1>3. PICK low \in Stars, high \in Stars :
         /\ ranges # <<>> /\ ranges[1] = <<low, high>> /\ low <= high
         /\ T \in Seq(StarRange) /\ Len(T) = Len(ranges) - 1
         /\ DOMAIN T = 1..(Len(ranges) - 1)
         /\ \A i \in 1..(Len(ranges) - 1) : T[i] = ranges[i + 1]
         /\ \/ /\ Cardinality(Matching(<<low, high>>)) = 0
               /\ ranges' = T /\ buckets' = buckets
            \/ /\ Cardinality(Matching(<<low, high>>)) <= Threshold \/ low = high
               /\ ranges' = T /\ buckets' = buckets \cup {<<low, high>>}
            \/ \E mid \in Stars :
                 /\ low <= mid /\ mid < high
                 /\ ranges' = << <<low, mid>>, <<mid + 1, high>> >> \o T
                 /\ buckets' = buckets
  BY CountRangeCases
<1> DEFINE lh == <<low, high>>
<1> HIDE DEF T, lh
<1>4. low \in Nat /\ high \in Nat /\ lh[1] = low /\ lh[2] = high /\ ranges[1] = lh
  BY <1>3, Sizes DEF lh
<1>5. \A r \in Repo : Covered(r, T, buckets) \/ r \in Matching(lh)
  <2> TAKE r \in Repo
  <2>1. Covered(r, ranges, buckets)
    BY <1>0 DEF CoverageOK
  <2>2. ASSUME NEW i \in DOMAIN ranges, r \in Matching(ranges[i])
        PROVE  Covered(r, T, buckets) \/ r \in Matching(lh)
    <3>1. CASE i = 1
      BY <1>4, <2>2, <3>1
    <3>2. CASE i # 1
      <4>1. i - 1 \in DOMAIN T /\ T[i - 1] = ranges[i]
        <5>1. i \in 1..Len(ranges) /\ Len(ranges) \in Nat
          BY <1>0
        <5>2. i - 1 \in 1..(Len(ranges) - 1) /\ (i - 1) + 1 = i
          BY <5>1, <3>2
        <5>3. T[i - 1] = ranges[(i - 1) + 1]
          BY <1>3, <5>2
        <5> QED BY <1>3, <5>2, <5>3
      <4> QED BY <4>1, <2>2
    <3> QED BY <3>1, <3>2
  <2> QED BY <2>1, <2>2
<1>6. \A b \in buckets : Cardinality(Matching(b)) <= Threshold \/ b[1] = b[2]
  BY <1>0 DEF CoverageOK
<1>7. /\ \A r \in Repo : Covered(r, ranges', buckets')
      /\ \A b \in buckets' : Cardinality(Matching(b)) <= Threshold \/ b[1] = b[2]
  <2>1. CASE Cardinality(Matching(lh)) = 0 /\ ranges' = T /\ buckets' = buckets
    <3>1. Matching(lh) = {}
      <4>1. IsFiniteSet(Matching(lh))
        <5>1. Matching(lh) \subseteq Repo
          BY DEF Matching
        <5> QED BY <5>1, RepoAssumption, FS_Subset
      <4> QED BY <4>1, <2>1, FS_EmptySet
    <3>2. \A r \in Repo : Covered(r, T, buckets)
      BY <1>5, <3>1
    <3> HIDE DEF Covered
    <3> QED BY <1>6, <2>1, <3>2
  <2>2. CASE /\ Cardinality(Matching(lh)) <= Threshold \/ low = high
             /\ ranges' = T /\ buckets' = buckets \cup {lh}
    <3>1. \A r \in Repo : Covered(r, T, buckets \cup {lh})
      BY <1>5
    <3>2. \A b \in buckets \cup {lh} : Cardinality(Matching(b)) <= Threshold \/ b[1] = b[2]
      BY <1>4, <1>6, <2>2
    <3> HIDE DEF Covered
    <3> QED BY <2>2, <3>1, <3>2
  <2>3. ASSUME NEW mid \in Stars, low <= mid, mid < high,
               ranges' = << <<low, mid>>, <<mid + 1, high>> >> \o T, buckets' = buckets
        PROVE  \A r \in Repo : Covered(r, ranges', buckets)
    <3> DEFINE a == <<low, mid>>  c == <<mid + 1, high>>  q == <<a, c>> \o T
    <3>1. a \in StarRange /\ c \in StarRange /\ a[1] = low /\ a[2] = mid /\ c[1] = mid + 1 /\ c[2] = high
      <4>1. mid + 1 \in Stars
        BY <1>4, <2>3, Sizes DEF Stars
      <4> QED BY <4>1 DEF StarRange
    <3>2. ranges' = q
      BY <2>3
    <3> HIDE DEF a, c
    <3>3. /\ DOMAIN q = 1..(Len(T) + 2) /\ q[1] = a /\ q[2] = c
          /\ \A i \in 3..(Len(T) + 2) : q[i] = T[i - 2]
      BY <1>3, <3>1, TwoBefore
    <3> HIDE DEF q
    <3>4. Len(T) \in Nat /\ DOMAIN T = 1..Len(T)
      BY <1>3
    <3>5. \A r \in Matching(lh) : r \in Matching(a) \/ r \in Matching(c)
      <4> TAKE r \in Matching(lh)
      <4>1. r \in Repo /\ stars[r] \in Nat /\ low <= stars[r] /\ stars[r] <= high
        BY <1>0, <1>4, Sizes DEF Matching
      <4>2. mid \in Nat
        BY Sizes
      <4>3. stars[r] \in low..mid \/ stars[r] \in (mid + 1)..high
        BY <4>1, <4>2, <1>4
      <4> QED BY <4>1, <4>3, <3>1 DEF Matching
    <3>6. 1 \in DOMAIN q /\ 2 \in DOMAIN q
      BY <3>3, <3>4
    <3>7. \A i \in DOMAIN T : i + 2 \in DOMAIN q /\ q[i + 2] = T[i]
      <4> TAKE i \in DOMAIN T
      <4>1. i + 2 \in 3..(Len(T) + 2) /\ (i + 2) - 2 = i
        BY <3>4
      <4> QED BY <4>1, <3>3
    <3> SUFFICES ASSUME NEW r \in Repo PROVE Covered(r, q, buckets)
      BY <3>2
    <3>8. CASE r \in Matching(lh)
      BY <3>3, <3>5, <3>6, <3>8
    <3>9. CASE Covered(r, T, buckets)
      BY <3>7, <3>9
    <3> QED BY <1>5, <3>8, <3>9
  <2> HIDE DEF Covered
  <2> QED BY <1>3, <1>6, <2>1, <2>2, <2>3 DEF lh
<1>8. \A r \in Repo : pc' # "count" => \E b \in buckets' : r \in Matching(b)
  <2> TAKE r \in Repo
  <2>1. pc' # "count" => DOMAIN ranges' = {}
    BY <1>1
  <2> QED BY <1>7, <2>1
<1>9. pc' = "truncate_repos" => Repo = {}
  BY <1>1, <1>8
<1>10. \A b : Fetched(<<>>, b)' /\ Len(<<>>) = (1 - 1) * PerPage
  <2>1. stars' \in [Repo -> Stars]
    BY <1>0, <1>1
  <2>2. \A b : Fetched(<<>>, b) /\ Len(<<>>) = (1 - 1) * PerPage
    BY <1>0, NothingFetched
  <2> QED BY <1>2, <2>2 DEF Fetched
<1>11. /\ (pc = "count" => \A r \in Repo : \/ \E i \in DOMAIN ranges : r \in Matching(ranges[i])
                                           \/ \E b \in buckets : r \in Matching(b))'
       /\ (\A b \in buckets : Cardinality(Matching(b)) <= Threshold \/ b[1] = b[2])'
  BY <1>2, <1>7
<1>12. pc' = "page" =>
         /\ \A r \in Repo : \E b \in buckets' : r \in Matching(b)'
         /\ DOMAIN repos' = {} /\ found' = <<>> /\ page' = 1
  BY <1>0, <1>1, <1>2, <1>8
<1>13. pc' = "truncate_repos" => TopComplete'
  BY <1>9 DEF TopComplete
<1>14. (pc = "page" =>
          /\ \A r \in Repo : \/ \E b \in buckets : r \in Matching(b)
                             \/ Crowded(stars[r]) \/ r \in Listed(repos)
          /\ \A i \in DOMAIN repos, b \in buckets : repos[i].stars > b[2]
          /\ Len(found) = (page - 1) * PerPage
          /\ Fetched(found, Highest(buckets)))'
  BY <1>10, <1>12
<1> QED BY <1>11, <1>13, <1>14 DEF CoverageOK

-----------------------------------------------------------------------------
(* Nothing is lost when a bucket is fetched: what it held is listed, or has  *)
(* fewer stars than a full list, or is too much for a search.                *)
LEMMA FetchCovers ==
  ASSUME IInv, stable, FetchPage
  PROVE  CoverageOK'
<1>a. PICK b : b = Highest(buckets)
  OBVIOUS
<1>b. PICK items : items = Items(b)
  OBVIOUS
<1>0. /\ TypeOK /\ CoverageOK /\ ListOK(repos) /\ stars \in [Repo -> Stars]
      /\ buckets \in SUBSET StarRange /\ buckets # {} /\ page \in 1..Pages
      /\ \A c, d \in buckets : c = d \/ c[2] < d[1] \/ d[2] < c[1]
      /\ \A c \in buckets : c[1] <= c[2] /\ c[1] \in Nat /\ c[2] \in Nat
      /\ \A i \in DOMAIN repos : repos[i].stars \in Nat
      /\ repos \in Seq(RepoRecord) /\ pc = "page"
  <2>1. \A x \in StarRange : x[1] \in Nat /\ x[2] \in Nat
    BY Sizes DEF StarRange
  <2>2. \A x \in RepoRecord : x.stars \in Nat
    BY Sizes DEF RepoRecord
  <2> QED BY <2>1, <2>2, FetchPageCases
          DEF IInv, TypeOK, ListsOK, ListOK, PhasesOK, SplitOK, Below
<1>1. /\ \A r \in Repo : \/ \E c \in buckets : r \in Matching(c)
                        \/ Crowded(stars[r]) \/ r \in Listed(repos)
      /\ \A i \in DOMAIN repos, c \in buckets : repos[i].stars > c[2]
      /\ Len(found) = (page - 1) * PerPage
      /\ Fetched(found, b)
      /\ \A c \in buckets : Cardinality(Matching(c)) <= Threshold \/ c[1] = c[2]
  BY <1>0, <1>a DEF CoverageOK
<1>2. b \in buckets /\ \A c \in buckets : b[2] >= c[2]
  BY <1>0, <1>a, HighestOf
<1>3. stars' = stars
  BY FetchPageCases DEF world
<1>4. /\ \A c : Matching(c)' = Matching(c)
      /\ \A c : Search(c)' = Search(c)
      /\ \A n : Crowded(n)' = Crowded(n)
  BY <1>3, SameStars
<1>5. ASSUME NEW c \in buckets, c # b PROVE c[2] < b[1]
  BY <1>0, <1>2, <1>5
<1>6. \A c : \A r \in Matching(c) : r \in Repo /\ stars[r] \in Nat /\ (c[1] \in Nat /\ c[2] \in Nat => c[1] <= stars[r] /\ stars[r] <= c[2])
  BY <1>0, Sizes DEF Matching
<1>7. ASSUME Len(Page(b, page)) = PerPage, page < Pages, page' = page + 1, found' = items,
             UNCHANGED <<pc, buckets, repos>>
      PROVE  CoverageOK'
  <2>1. Fetched(items, b) /\ Len(items) = page * PerPage
    BY <1>0, <1>1, <1>7, <1>b, FetchedMore
  <2>2. page * PerPage = (page' - 1) * PerPage
    BY <1>0, <1>7
  <2>3. b = Highest(buckets')
    BY <1>7, <1>a
  <2>4. Fetched(found, Highest(buckets))'
    BY <1>3, <1>4, <1>7, <2>1, <2>3 DEF Fetched
  <2>5. (\A r \in Repo : \/ \E c \in buckets : r \in Matching(c)
                         \/ Crowded(stars[r]) \/ r \in Listed(repos))'
    BY <1>1, <1>3, <1>4, <1>7
  <2>6. (\A c \in buckets : Cardinality(Matching(c)) <= Threshold \/ c[1] = c[2])'
    BY <1>1, <1>4, <1>7
  <2>7. (Len(found) = (page - 1) * PerPage)'
    BY <1>7, <2>1, <2>2
  <2> QED BY <1>0, <1>1, <1>7, <2>4, <2>5, <2>6, <2>7 DEF CoverageOK
<1>8. ASSUME ~(Len(Page(b, page)) = PerPage /\ page < Pages),
             NEW records, records = AddEach(repos, items),
             page' = 1, found' = <<>>,
             buckets' = IF Len(records) >= Limit THEN {} ELSE buckets \ {b},
             repos' = IF buckets' = {} THEN Ranked(records) ELSE records,
             pc' = IF buckets' = {} THEN "truncate_repos" ELSE "page"
      PROVE  CoverageOK'
  <2>1. /\ \A r \in Matching(b) : Crowded(stars[r]) \/ \E j \in DOMAIN items : items[j].repo = r
        /\ \A j \in DOMAIN items : /\ items[j].repo \in Matching(b)
                                   /\ items[j].stars = stars[items[j].repo]
        /\ \A i, j \in DOMAIN items : i < j => items[i].stars >= items[j].stars
    BY <1>0, <1>8, <1>a, <1>b, BucketFetched
  <2>2. items \in Seq(Item) /\ DOMAIN items = 1..Len(items) /\ Len(items) \in Nat
    BY <1>0, <1>b, ItemsOf
  <2>3. PICK k \in Nat : /\ k <= Len(items) /\ Added(repos, items, k, records)
                         /\ Len(records) < Limit => k = Len(items)
    <3>1. \E k \in 0..Len(items) : /\ Added(repos, items, k, records)
                                   /\ Len(records) < Limit => k = Len(items)
      BY <1>0, <1>8, <2>2, AddAll
    <3>2. Len(items) \in Nat
      BY <2>2
    <3>3. \A k \in 0..Len(items) : k \in Nat /\ k <= Len(items)
      BY <3>2
    <3> QED BY <3>1, <3>3, Zenon
  <2>4. /\ ListOK(records) /\ DOMAIN records = 1..Len(records) /\ Len(records) \in Nat
        /\ DOMAIN repos = 1..Len(repos) /\ Len(repos) \in Nat
        /\ Len(repos) <= Len(records) /\ \A i \in DOMAIN repos : i \in DOMAIN records /\ records[i] = repos[i]
    <3>1. /\ ListOK(records) /\ Len(repos) <= Len(records)
          /\ \A i \in 1..Len(repos) : records[i] = repos[i]
      BY <2>3 DEF Added
    <3>2. /\ DOMAIN records = 1..Len(records) /\ Len(records) \in Nat
          /\ DOMAIN repos = 1..Len(repos) /\ Len(repos) \in Nat
      BY <1>0, <3>1 DEF ListOK
    <3> QED BY <3>1, <3>2
  <2>5. \A i \in DOMAIN records : i \in DOMAIN repos \/ \E j \in 1..k : records[i].stars = items[j].stars
    <3>1. \A i \in (Len(repos) + 1)..Len(records) : \E j \in 1..k : records[i].stars = items[j].stars
      BY <2>3 DEF Added
    <3>2. \A i \in DOMAIN records : i \in DOMAIN repos \/ i \in (Len(repos) + 1)..Len(records)
      BY <2>4
    <3> QED BY <3>1, <3>2
  <2>6. \A j \in 1..k : j \in DOMAIN items /\ items[j].repo \in Listed(records)
    <3>1. \A j \in 1..k : items[j].repo \in Listed(records)
      BY <2>3 DEF Added
    <3>2. k \in Nat /\ k <= Len(items)
      BY <2>2, <2>3
    <3>3. \A j \in 1..k : j \in DOMAIN items
      BY <2>2, <3>2
    <3> QED BY <3>1, <3>3
  <2>7. Listed(repos) \subseteq Listed(records)
    BY <2>4 DEF Listed
  <2>8. \A i \in DOMAIN records : \A c \in buckets : c # b => records[i].stars > c[2]
    <3> TAKE i \in DOMAIN records
    <3> TAKE c \in buckets
    <3> HAVE c # b
    <3>1. CASE i \in DOMAIN repos
      BY <1>1, <2>4, <3>1
    <3>2. CASE i \notin DOMAIN repos
      <4>1. PICK j \in 1..k : records[i].stars = items[j].stars
        BY <2>5, <3>2
      <4>2. items[j].repo \in Matching(b) /\ items[j].stars = stars[items[j].repo]
        BY <2>1, <2>6
      <4>3. b[1] <= items[j].stars /\ items[j].stars \in Nat
        BY <1>0, <1>2, <1>6, <4>2
      <4>4. c[2] < b[1] /\ c[2] \in Nat /\ b[1] \in Nat
        BY <1>0, <1>2, <1>5
      <4> QED BY <4>1, <4>3, <4>4
    <3> QED BY <3>1, <3>2
  <2>9. CASE buckets' # {}
    <3>1. k = Len(items) /\ repos' = records /\ pc' = "page" /\ buckets' = buckets \ {b}
      <4>1. Len(records) < Limit
        BY <1>8, <2>4, <2>9, Sizes
      <4> QED BY <1>8, <2>3, <2>9, <4>1, Sizes
    <3>2. \A r \in Repo : \/ \E c \in buckets' : r \in Matching(c)
                          \/ Crowded(stars[r]) \/ r \in Listed(records)
      <4> TAKE r \in Repo
      <4>1. CASE r \in Matching(b)
        BY <2>1, <2>2, <2>6, <3>1, <4>1
      <4>2. CASE r \notin Matching(b)
        BY <1>1, <2>7, <3>1, <4>2
      <4> QED BY <4>1, <4>2
    <3>3. \A i \in DOMAIN records, c \in buckets' : records[i].stars > c[2]
      BY <2>8, <3>1
    <3>4. \A c : Fetched(<<>>, c) /\ Len(<<>>) = (1 - 1) * PerPage
      BY <1>0, NothingFetched
    <3>5. (\A r \in Repo : \/ \E c \in buckets : r \in Matching(c)
                           \/ Crowded(stars[r]) \/ r \in Listed(repos))'
      BY <1>3, <1>4, <3>1, <3>2
    <3>6. (\A c \in buckets : Cardinality(Matching(c)) <= Threshold \/ c[1] = c[2])'
      BY <1>1, <1>4, <3>1
    <3>7. (\A c : Fetched(<<>>, c))'
      BY <3>4, <1>3, <1>4 DEF Fetched
    <3> QED BY <1>8, <3>1, <3>3, <3>4, <3>5, <3>6, <3>7 DEF CoverageOK
  <2>10. CASE buckets' = {}
    <3>1. repos' = Ranked(records) /\ pc' = "truncate_repos"
      BY <1>8, <2>10
    <3>2. /\ Listed(Ranked(records)) = Listed(records) /\ Len(Ranked(records)) = Len(records)
          /\ \A n \in DOMAIN Ranked(records) : \E i \in DOMAIN records : Ranked(records)[n] = records[i]
      BY <2>4, RankedSorts
    <3>3. ASSUME NEW r \in Repo, r \notin Listed(records), ~Crowded(stars[r])
          PROVE  Len(records) = Limit /\ \A i \in DOMAIN records : records[i].stars >= stars[r]
      <4>1. PICK c \in buckets : r \in Matching(c)
        BY <1>1, <2>7, <3>3
      <4>2. stars[r] \in Nat /\ stars[r] <= c[2] /\ c[2] \in Nat
        BY <1>0, <1>6, <4>1
      <4>3. Len(records) = Limit
        <5> SUFFICES ASSUME Len(records) < Limit PROVE FALSE
          <6>1. Len(records) <= Limit /\ Len(records) \in Nat /\ Limit \in Nat
            BY <2>4, Sizes DEF ListOK
          <6> QED BY <6>1
        <5>1. c = b
          BY <1>8, <2>4, <2>10, Sizes
        <5>2. \E j \in 1..k : items[j].repo = r
          BY <2>1, <2>2, <2>3, <3>3, <4>1, <5>1
        <5> QED BY <2>6, <3>3, <5>2
      <4>4. CASE c # b
        <5>1. \A i \in DOMAIN records : records[i].stars > c[2]
          BY <2>8, <4>4
        <5>2. \A i \in DOMAIN records : records[i].stars \in Nat
          <6>1. \A x \in RepoRecord : x.stars \in Nat
            BY Sizes DEF RepoRecord
          <6> QED BY <2>4, <6>1 DEF ListOK
        <5> QED BY <4>2, <4>3, <5>1, <5>2
      <4>5. CASE c = b
        <5>1. PICK j \in DOMAIN items : items[j].repo = r
          BY <2>1, <3>3, <4>1, <4>5
        <5>2. j > k
          <6>1. j \notin 1..k
            BY <2>6, <3>3, <5>1
          <6>2. j \in Nat /\ j >= 1
            BY <2>2, <5>1
          <6> QED BY <6>1, <6>2
        <5>3. items[j].stars = stars[r]
          BY <2>1, <5>1
        <5>4. ASSUME NEW i \in DOMAIN records PROVE records[i].stars >= stars[r]
          <6>1. CASE i \in DOMAIN repos
            <7>1. repos[i].stars > c[2] /\ records[i] = repos[i] /\ repos[i].stars \in Nat
              BY <1>0, <1>1, <2>4, <6>1
            <7> QED BY <4>2, <7>1
          <6>2. CASE i \notin DOMAIN repos
            <7>1. PICK m \in 1..k : records[i].stars = items[m].stars
              BY <2>5, <6>2
            <7>2. m \in DOMAIN items /\ m < j
              <8>1. m \in Nat /\ m <= k /\ j \in Nat
                BY <2>2, <5>1, <7>1
              <8> QED BY <2>6, <5>2, <8>1
            <7>3. items[m].stars >= items[j].stars
              BY <2>1, <7>2
            <7> QED BY <5>3, <7>1, <7>3
          <6> QED BY <6>1, <6>2
        <5> QED BY <4>3, <5>4
      <4> QED BY <4>4, <4>5
    <3>4. ASSUME NEW r \in Repo \ Listed(Ranked(records))
          PROVE  \/ Crowded(stars[r])
                 \/ /\ Len(Ranked(records)) = Limit
                    /\ \A i \in DOMAIN Ranked(records) : Ranked(records)[i].stars >= stars[r]
      BY <3>2, <3>3
    <3>5. TopComplete'
      BY <1>3, <1>4, <3>1, <3>4 DEF TopComplete
    <3> QED BY <2>10, <3>1, <3>5 DEF CoverageOK
  <2> QED BY <2>9, <2>10
<1> QED BY <1>7, <1>8, <1>a, <1>b, FetchPageCases

-----------------------------------------------------------------------------
(* The first range that is counted goes up to the stars of the first result. *)
LEMMA AskMaxCovers ==
  ASSUME IInv, AskMax, ~Fail
  PROVE  CoverageOK'
<1> DEFINE top == Search(<<2, MaxStars>>)  M == Matching(<<2, MaxStars>>)  n == stars[top[1]]
<1>0. TypeOK /\ PhasesOK /\ stars \in [Repo -> Stars]
  BY DEF IInv, TypeOK
<1>1. /\ top # <<>> /\ pc = "max" /\ pc' = "count" /\ ranges' = << <<0, n>> >>
      /\ buckets' = buckets /\ stars' = stars
  BY DEF AskMax, world
<1>2. buckets' = {}
  BY <1>0, <1>1 DEF PhasesOK
<1>3. /\ top \in Seq(Repo) /\ DOMAIN top = 1..Cardinality(M) /\ Cardinality(M) \in Nat
      /\ \A i \in DOMAIN top : top[i] \in M
      /\ \A r \in M : \E i \in DOMAIN top : top[i] = r
      /\ \A i, j \in DOMAIN top : i < j => stars[top[i]] >= stars[top[j]]
  BY <1>0, SearchSorted
<1>4. \A r : r \in M <=> r \in Repo /\ 2 <= stars[r]
  <2>1. \A r \in Repo : stars[r] \in Nat /\ stars[r] <= MaxStars /\ MaxStars \in Nat
    BY <1>0, Sizes DEF Stars
  <2> QED BY <2>1 DEF Matching
<1> HIDE DEF top, M
<1>5. 1 \in DOMAIN top /\ top[1] \in M /\ top[1] \in Repo /\ n \in Nat /\ 2 <= n
  <2>1. 1 \in DOMAIN top
    BY <1>1, <1>3
  <2>2. top[1] \in M /\ top[1] \in Repo
    BY <1>3, <1>4, <2>1
  <2> QED BY <1>0, <1>4, <2>1, <2>2, Sizes
<1>6. \A r \in Repo : stars[r] \in 0..n
  <2> TAKE r \in Repo
  <2>1. stars[r] \in Nat
    BY <1>0, Sizes
  <2>2. CASE stars[r] < 2
    BY <1>5, <2>1, <2>2
  <2>3. CASE 2 <= stars[r]
    <3>1. PICK i \in DOMAIN top : top[i] = r
      BY <1>3, <1>4, <2>3
    <3>2. CASE i = 1
      BY <2>1, <3>1, <3>2
    <3>3. CASE 1 < i
      <4>1. n >= stars[r]
        BY <1>3, <1>5, <3>1, <3>3
      <4> QED BY <1>5, <2>1, <4>1
    <3>4. i \in Nat /\ i >= 1
      BY <1>3
    <3> QED BY <3>2, <3>3, <3>4
  <2> QED BY <2>1, <2>2, <2>3
<1> HIDE DEF n
<1>7. (\A r \in Repo : \E i \in DOMAIN ranges : r \in Matching(ranges[i]))'
  <2>1. DOMAIN ranges' = {1} /\ ranges'[1] = <<0, n>>
    BY <1>1
  <2>2. \A r \in Repo : r \in Matching(<<0, n>>)
    BY <1>6 DEF Matching
  <2>3. \A c : Matching(c)' = Matching(c)
    BY <1>1, SameStars
  <2> QED BY <2>1, <2>2, <2>3
<1> QED BY <1>1, <1>2, <1>7 DEF CoverageOK

(* As long as no star count changes, every step keeps each repository in a   *)
(* range, in a bucket or in the list.                                        *)
LEMMA CoverageStep ==
  ASSUME IInv, [Next]_vars, stable'
  PROVE  CoverageOK'
<1>0. PhasesOK /\ (stable => CoverageOK)
  BY DEF IInv
<1>1. CASE pc' \notin {"count", "page", "truncate_repos"} /\ buckets' = {}
  BY <1>1 DEF CoverageOK
<1>2. CASE stable /\ UNCHANGED <<stars, pc, ranges, buckets, page, found, repos>>
  <2>1. CoverageOK
    BY <1>0, <1>2
  <2>2. /\ \A b : Matching(b)' = Matching(b)
        /\ \A b : Search(b)' = Search(b)
        /\ \A n : Crowded(n)' = Crowded(n)
    BY <1>2, SameStars
  <2>3. (\A b \in buckets : Cardinality(Matching(b)) <= Threshold \/ b[1] = b[2])'
    BY <1>2, <2>1, <2>2 DEF CoverageOK
  <2>4. (pc = "count" => \A r \in Repo : \/ \E i \in DOMAIN ranges : r \in Matching(ranges[i])
                                         \/ \E b \in buckets : r \in Matching(b))'
    BY <1>2, <2>1, <2>2 DEF CoverageOK
  <2>5. (pc = "page" => \A r \in Repo : \/ \E b \in buckets : r \in Matching(b)
                                        \/ Crowded(stars[r]) \/ r \in Listed(repos))'
    BY <1>2, <2>1, <2>2 DEF CoverageOK
  <2>6. (pc = "page" => \A i \in DOMAIN repos, b \in buckets : repos[i].stars > b[2])'
    BY <1>2, <2>1 DEF CoverageOK
  <2>7. (pc = "page" => Len(found) = (page - 1) * PerPage)'
    BY <1>2, <2>1 DEF CoverageOK
  <2>8. (pc = "page" => Fetched(found, Highest(buckets)))'
    <3>1. \A b : Fetched(found, b)' <=> Fetched(found, b)
      BY <1>2, <2>2 DEF Fetched
    <3> QED BY <1>2, <2>1, <3>1 DEF CoverageOK
  <2>9. (pc = "truncate_repos" => TopComplete)'
    BY <1>2, <2>1, <2>2 DEF CoverageOK, TopComplete
  <2> QED BY <2>3, <2>4, <2>5, <2>6, <2>7, <2>8, <2>9 DEF CoverageOK
<1>3. CASE Fail \/ Silence \/ Kill \/ Report
  BY <1>3, <1>1 DEF Fail, Silence, Kill, Report, Stop, Forget
<1>4. CASE RequestFails
  <2>1. CASE Fail
    BY <2>1, <1>3
  <2>2. CASE ~Fail
    <3>1. stable /\ UNCHANGED <<stars, pc, ranges, buckets, page, found, repos>>
      BY <1>4, <2>2 DEF RequestFails, world, scan, history
    <3> QED BY <1>2, <3>1
  <2> QED BY <2>1, <2>2
<1>5. CASE Begin
  <2>1. pc' \in {"max", "idle", "read_languages"} /\ buckets' = {}
    BY <1>0, <1>5 DEF Begin, PhasesOK, scan
  <2> QED BY <2>1, <1>1
<1>6. CASE AskMax
  BY <1>3, <1>6, AskMaxCovers
<1>7. CASE CountRange
  <2>1. stable
    BY <1>7 DEF CountRange, history
  <2> QED BY <2>1, <1>7, CountCovers
<1>8. CASE FetchPage
  <2>1. stable
    BY <1>8, FetchPageCases DEF history
  <2> QED BY <2>1, <1>8, FetchCovers
<1>9. CASE TruncateRepos \/ WriteRepos \/ TruncateLanguages \/ WriteLanguages
             \/ TruncateScripts \/ WriteScripts \/ AskLanguages \/ AskTree
  <2>1. pc' \notin {"count", "page", "truncate_repos"} /\ buckets' = {}
    BY <1>0, <1>9 DEF PhasesOK, TruncateRepos, WriteRepos, TruncateLanguages, WriteLanguages,
       TruncateScripts, WriteScripts, AskLanguages, AskTree, scan
  <2> QED BY <2>1, <1>1
<1>10. CASE ReadLanguages \/ ReadScripts
  <2>1. CASE Fail
    BY <2>1, <1>3
  <2>2. CASE ~Fail
    <3>1. pc' \notin {"count", "page", "truncate_repos"} /\ buckets' = {}
      BY <1>0, <1>10, <2>2 DEF PhasesOK, ReadLanguages, ReadScripts, scan
    <3> QED BY <3>1, <1>1
  <2> QED BY <2>1, <2>2
<1>11. CASE \E r \in Repo : Star(r)
  BY <1>11 DEF Star
<1>12. CASE UNCHANGED vars
  <2>1. stable /\ UNCHANGED <<stars, pc, ranges, buckets, page, found, repos>>
    BY <1>12 DEF vars, world, scan, history
  <2> QED BY <2>1, <1>2
<1> QED BY <1>3, <1>4, <1>5, <1>6, <1>7, <1>8, <1>9, <1>10, <1>11, <1>12 DEF Next, Step

(* The first state satisfies the invariant. *)
LEMMA InitIInv == Init => IInv
<1> SUFFICES ASSUME Init PROVE IInv
  OBVIOUS
<1>1. NotCached \in LanguageCache
  BY DEF NotCached, LanguageCache
<1>2. TypeOK
  <2>1. stars \in [Repo -> Stars]
    <3>1. 1..MaxStars \subseteq Stars
      BY Sizes DEF Stars
    <3>2. stars \in [Repo -> 1..MaxStars]
      BY DEF Init
    <3> QED BY <3>1, <3>2
  <2> QED BY <1>1, <2>1, Sizes DEF Init, TypeOK
<1>3. FilesOK /\ ListsOK /\ PhasesOK /\ SplitOK
  BY DEF Init, FilesOK, ListsOK, PhasesOK, SplitOK, NoFile, Distinct, Descending
<1>4. CoverageOK
  BY DEF Init, CoverageOK
<1>5. LanguagesOK /\ ScriptsOK /\ ReportEnriched
  BY DEF Init, LanguagesOK, ScriptsOK, ReportEnriched, NoFile, Own, NotCached, Asking, AskingScripts
<1> QED BY <1>2, <1>3, <1>4, <1>5 DEF IInv

(* Every step preserves it. *)
LEMMA NextIInv == IInv /\ [Next]_vars => IInv'
BY TypeStep, FilesStep, ListsStep, PhasesStep, SplitStep, CoverageStep, LanguagesStep,
   ScriptsStep, ReportStep
   DEF IInv

(* Whatever is starred meanwhile, fails or is killed, the invariant holds.   *)
THEOREM Invariance == Spec => []IInv
<1>1. Init => IInv
  BY InitIInv
<1>2. IInv /\ [Next]_vars => IInv'
  BY NextIInv
<1> QED BY <1>1, <1>2, PTL DEF Spec

(* Every variable keeps its type, in every run and whatever fails or is      *)
(* killed.                                                                   *)
THEOREM TypeCorrect == Spec => []TypeOK
<1>1. IInv => TypeOK
  BY DEF IInv
<1> QED BY Invariance, <1>1, PTL

(* When nobody gave or took a star during the collection, the records        *)
(* written to popular_repos.json leave out only repositories that have no    *)
(* more stars than any that is listed, when the list is full, or those of a  *)
(* star count that more repositories have than a search returns.             *)
THEOREM TopIsComplete == Spec => []TopComplete
<1>1. IInv => TopComplete
  <2>1. pc = "truncate_repos" /\ stable /\ IInv => TopComplete
    BY DEF IInv, CoverageOK
  <2>2. ~(pc = "truncate_repos" /\ stable) => TopComplete
    BY DEF TopComplete
  <2> QED BY <2>1, <2>2
<1> QED BY Invariance, <1>1, PTL

(* A list without repetitions has as many repositories as entries. *)
LEMMA DistinctCounts ==
  ASSUME NEW rs \in Seq(RepoRecord), Distinct(rs)
  PROVE  Cardinality(Listed(rs)) = Len(rs)
<1> DEFINE n == Len(rs)  f == [i \in 1..n |-> rs[i].repo]
<1>1. n \in Nat /\ DOMAIN rs = 1..n
  OBVIOUS
<1>2. Listed(rs) = {rs[i].repo : i \in 1..n}
  BY <1>1 DEF Listed
<1>3. f \in Bijection(1..n, Listed(rs))
  <2>1. f \in [1..n -> Listed(rs)] /\ \A x \in Listed(rs) : \E i \in 1..n : f[i] = x
    BY <1>2
  <2>2. \A i, j \in DOMAIN f : f[i] = f[j] => i = j
    BY <1>1 DEF Distinct
  <2> HIDE DEF f
  <2> QED BY <2>1, <2>2 DEF Bijection, Injection, Surjection, IsInjective
<1>4. ExistsBijection(1..n, Listed(rs))
  BY <1>3 DEF ExistsBijection
<1> HIDE DEF n, f
<1> QED BY <1>1, <1>4, FS_CountingElements DEF n

(* No repository is listed twice, and each list that is kept or reported is  *)
(* in the order of its stars, although stars are given and taken back        *)
(* between the requests.                                                     *)
THEOREM ReportIsRanked == Spec => []ReportRanked
<1>1. IInv => ReportRanked
  <2> SUFFICES ASSUME IInv PROVE ReportRanked
    OBVIOUS
  <2>1. RankedOnce(report)
    <3>1. report \in Seq(RepoRecord) /\ Distinct(report) /\ Descending(report)
      BY DEF IInv, TypeOK, ListsOK
    <3> QED BY <3>1, DistinctCounts DEF RankedOnce, Descending
  <2>2. ASSUME repos_file \notin {None, Blank} PROVE RankedOnce(repos_file)
    <3>1. repos_file \in Seq(RepoRecord) /\ Distinct(repos_file) /\ Descending(repos_file)
      BY <2>2 DEF IInv, FilesOK, ListsOK, NoFile
    <3> QED BY <3>1, DistinctCounts DEF RankedOnce, Descending
  <2> QED BY <2>1, <2>2 DEF ReportRanked
<1> QED BY Invariance, <1>1, PTL

(* After any number of interrupted runs a report has the own languages of    *)
(* each repository GitHub gave a node for, and the scripts of the summary.   *)
THEOREM ReportIsEnriched == Spec => []ReportEnriched
<1>1. IInv => ReportEnriched
  BY DEF IInv
<1> QED BY Invariance, <1>1, PTL

(* A run that empties a cache file to write it again holds all that was in   *)
(* it.                                                                       *)
THEOREM CachesOnlyGrow == Spec => CachesGrow
<1>1. ASSUME IInv, [Next]_vars
      PROVE  [ /\ TruncateLanguages /\ languages_file \notin {None, Blank} =>
                    \A r \in Repo : languages_file[r] \in {Blank, languages[r]}
               /\ TruncateScripts /\ scripts_file \notin {None, Blank} =>
                    scripts_file \subseteq scripts ]_vars
  <2>1. ASSUME TruncateLanguages, languages_file \notin {None, Blank}
        PROVE  \A r \in Repo : languages_file[r] \in {Blank, languages[r]}
    BY <1>1, <2>1 DEF IInv, LanguagesOK, TruncateLanguages, NoFile
  <2>2. ASSUME TruncateScripts, scripts_file \notin {None, Blank}
        PROVE  scripts_file \subseteq scripts
    BY <1>1, <2>2 DEF IInv, ScriptsOK, TruncateScripts, NoFile
  <2> QED BY <2>1, <2>2
<1> QED BY Invariance, <1>1, PTL DEF CachesGrow, Spec
-----------------------------------------------------------------------------
(* That every run ends (EveryRunEnds) is liveness, and checked by TLC.  What *)
(* it rests on is proved here: each step of a run brings it nearer to its    *)
(* end.  The phases of a run come in one order; within a phase the star      *)
(* ranges that may still be counted, the buckets, the pages of a bucket or   *)
(* the repositories to ask for become fewer; or an attempt is used up.       *)
Phase(p) == CASE p = "max" -> 10 [] p = "count" -> 9 [] p = "page" -> 8
              [] p = "truncate_repos" -> 7 [] p = "write_repos" -> 6
              [] p = "read_languages" -> 5 [] p \in Asking -> 4
              [] p = "read_scripts" -> 3 [] p \in AskingScripts -> 2
              [] p = "report" -> 1 [] OTHER -> 0

Turn(p) == CASE p \in {"truncate_languages", "truncate_scripts"} -> 2
             [] p \in {"write_languages", "write_scripts"} -> 1 [] OTHER -> 0

Within(p, range) == range[1] <= p[1] /\ p[1] <= p[2] /\ p[2] <= range[2]
Uncounted(rs) == {p \in StarRange : \E i \in DOMAIN rs : Within(p, rs[i])}

Fewer(S, T) == S \subseteq T /\ S # T

PhaseAdvances ==
  \/ pc = "count" /\ Fewer(Uncounted(ranges'), Uncounted(ranges))
  \/ pc = "page" /\ Fewer(buckets', buckets)
  \/ pc = "page" /\ buckets' = buckets /\ page' = page + 1 /\ page' <= Pages
  \/ pc \in Asking \cup AskingScripts /\ Len(missing') < Len(missing)
  \/ pc \in Asking \cup AskingScripts /\ missing' = missing /\ Turn(pc') < Turn(pc)

RunAdvances ==
  \/ Phase(pc') < Phase(pc)
  \/ Phase(pc') = Phase(pc) /\ PhaseAdvances
  \/ UNCHANGED <<pc, scan, missing>> /\ attempt' = attempt + 1 /\ attempt' <= 2

(* A batch is asked for only when something is missing. *)
AskedFor == pc = "languages" => missing # <<>>

LEMMA AskedForStep == AskedFor /\ [Next]_vars => AskedFor'
BY DEF AskedFor, Next, vars, world, caches, Star, Begin, Silence, Kill, Stop, Forget, Fail, Step, AskMax,
       CountRange, FetchPage, TruncateRepos, WriteRepos, ReadLanguages, AskLanguages,
       TruncateLanguages, WriteLanguages, ReadScripts, AskTree, TruncateScripts,
       WriteScripts, Report, RequestFails

(* A range that was counted lies within none of those that are left: they    *)
(* are its halves, or lie above it.                                          *)
LEMMA CountedOnce ==
  ASSUME IInv, CountRange
  PROVE  Fewer(Uncounted(ranges'), Uncounted(ranges))
<1>0. \A x \in StarRange : x[1] \in Nat /\ x[2] \in Nat
  BY Sizes DEF StarRange, Stars
<1>1. PICK low, high \in Stars :
           /\ ranges # <<>> /\ ranges[1] = <<low, high>> /\ low <= high
           /\ Tail(ranges) \in Seq(StarRange) /\ Len(Tail(ranges)) = Len(ranges) - 1
           /\ DOMAIN Tail(ranges) = 1..(Len(ranges) - 1)
           /\ \A i \in 1..(Len(ranges) - 1) : Tail(ranges)[i] = ranges[i + 1]
           /\ \/ ranges' = Tail(ranges)
              \/ \E mid \in Stars :
                   /\ low <= mid /\ mid < high
                   /\ ranges' = << <<low, mid>>, <<mid + 1, high>> >> \o Tail(ranges)
  BY CountRangeCases
<1>2. ranges \in Seq(StarRange) /\ Len(ranges) \in Nat \ {0} /\ DOMAIN ranges = 1..Len(ranges)
  BY <1>1 DEF IInv, TypeOK
<1>3. low \in Nat /\ high \in Nat /\ <<low, high>> \in StarRange
  BY Sizes DEF Stars, StarRange
<1>4. \A i \in 1..(Len(ranges) - 1) :
        /\ i + 1 \in DOMAIN ranges /\ ranges[i + 1] \in StarRange
        /\ high < ranges[i + 1][1]
  <2> TAKE i \in 1..(Len(ranges) - 1)
  <2>1. 1 \in DOMAIN ranges /\ i + 1 \in DOMAIN ranges /\ 1 < i + 1
    BY <1>2
  <2> QED BY <1>1, <1>2, <2>1 DEF IInv, SplitOK, Below
<1>5. ASSUME NEW j \in DOMAIN ranges'
      PROVE  \/ \E i \in 1..(Len(ranges) - 1) : ranges'[j] = ranges[i + 1]
             \/ \E mid \in Nat : /\ low <= mid /\ mid < high
                                 /\ ranges'[j] \in {<<low, mid>>, <<mid + 1, high>>}
  <2>1. CASE ranges' = Tail(ranges)
    BY <1>1, <1>5, <2>1
  <2>2. ASSUME NEW mid \in Stars, low <= mid, mid < high,
               ranges' = << <<low, mid>>, <<mid + 1, high>> >> \o Tail(ranges)
        PROVE  \/ \E i \in 1..(Len(ranges) - 1) : ranges'[j] = ranges[i + 1]
               \/ ranges'[j] \in {<<low, mid>>, <<mid + 1, high>>}
    <3>1. mid \in Nat /\ mid + 1 \in Stars
      BY <1>3, <2>2, Sizes DEF Stars
    <3> DEFINE two == << <<low, mid>>, <<mid + 1, high>> >>
    <3>2. two \in Seq(StarRange) /\ Len(two) = 2 /\ two[1] = <<low, mid>> /\ two[2] = <<mid + 1, high>>
      BY <3>1 DEF StarRange
    <3>3. ranges' = two \o Tail(ranges)
      BY <2>2
    <3> HIDE DEF two
    <3>4. /\ Len(two \o Tail(ranges)) = 2 + (Len(ranges) - 1)
          /\ two \o Tail(ranges) \in Seq(StarRange)
          /\ \A i \in 1..(2 + (Len(ranges) - 1)) :
               (two \o Tail(ranges))[i] = IF i <= 2 THEN two[i] ELSE Tail(ranges)[i - 2]
      <4>1. PICK rest : rest = Tail(ranges)
        OBVIOUS
      <4>2. rest \in Seq(StarRange) /\ Len(rest) = Len(ranges) - 1
        BY <1>1, <4>1
      <4>3. /\ Len(two \o rest) = 2 + Len(rest) /\ two \o rest \in Seq(StarRange)
            /\ \A i \in 1..(2 + Len(rest)) :
                 (two \o rest)[i] = IF i <= 2 THEN two[i] ELSE rest[i - 2]
        <5>1. PICK pair \in Seq(StarRange) : pair = two
          BY <3>2
        <5>2. PICK both : both = pair \o rest
          OBVIOUS
        <5>3. /\ both \in Seq(StarRange) /\ Len(both) = Len(pair) + Len(rest)
              /\ \A i \in 1..(Len(pair) + Len(rest)) :
                   both[i] = IF i <= Len(pair) THEN pair[i] ELSE rest[i - Len(pair)]
          BY <4>2, <5>2, ConcatProperties
        <5> QED BY <3>2, <5>1, <5>2, <5>3
      <4> QED BY <4>1, <4>2, <4>3
    <3>5. j \in 1..(2 + (Len(ranges) - 1))
      BY <1>2, <1>5, <3>3, <3>4
    <3>6. CASE j <= 2
      <4>1. j \in {1, 2}
        BY <1>2, <3>5, <3>6
      <4>2. ranges'[j] = two[j]
        BY <3>3, <3>4, <3>5, <3>6
      <4> QED BY <3>2, <4>1, <4>2
    <3>7. CASE ~(j <= 2)
      <4>1. j - 2 \in 1..(Len(ranges) - 1)
        BY <1>2, <3>5, <3>7
      <4>2. ranges'[j] = Tail(ranges)[j - 2]
        BY <3>3, <3>4, <3>5, <3>7
      <4> QED BY <1>1, <4>1, <4>2
    <3> QED BY <3>6, <3>7
  <2>3. \A mid \in Stars : mid \in Nat
    BY Sizes DEF Stars
  <2> QED BY <1>1, <2>1, <2>2, <2>3
<1>6. <<low, high>> \in Uncounted(ranges)
  <2>1. 1 \in DOMAIN ranges /\ Within(<<low, high>>, ranges[1])
    BY <1>1, <1>2, <1>3 DEF Within
  <2> QED BY <1>3, <2>1 DEF Uncounted
<1>7. <<low, high>> \notin Uncounted(ranges')
  <2> SUFFICES ASSUME NEW j \in DOMAIN ranges', Within(<<low, high>>, ranges'[j]) PROVE FALSE
    BY DEF Uncounted
  <2>1. ranges'[j][1] <= low /\ high <= ranges'[j][2]
    BY DEF Within
  <2>2. ASSUME NEW i \in 1..(Len(ranges) - 1), ranges'[j] = ranges[i + 1] PROVE FALSE
    BY <1>0, <1>1, <1>3, <1>4, <2>1, <2>2
  <2>3. ASSUME NEW mid \in Nat, low <= mid, mid < high,
               ranges'[j] \in {<<low, mid>>, <<mid + 1, high>>} PROVE FALSE
    BY <1>3, <2>1, <2>3
  <2> QED BY <1>5, <2>2, <2>3
<1>8. Uncounted(ranges') \subseteq Uncounted(ranges)
  <2> SUFFICES ASSUME NEW x \in StarRange, NEW j \in DOMAIN ranges', Within(x, ranges'[j])
               PROVE  x \in Uncounted(ranges)
    BY DEF Uncounted
  <2>1. ASSUME NEW i \in 1..(Len(ranges) - 1), ranges'[j] = ranges[i + 1]
        PROVE  x \in Uncounted(ranges)
    BY <1>4, <2>1 DEF Uncounted
  <2>2. ASSUME NEW mid \in Nat, low <= mid, mid < high,
               ranges'[j] \in {<<low, mid>>, <<mid + 1, high>>}
        PROVE  x \in Uncounted(ranges)
    <3>1. Within(x, <<low, high>>)
      BY <1>0, <1>3, <2>2 DEF Within
    <3> QED BY <1>1, <1>2, <3>1 DEF Uncounted
  <2> QED BY <1>5, <2>1, <2>2
<1> QED BY <1>6, <1>7, <1>8 DEF Fewer

(* Fetching goes on to the next page of a bucket, or is done with a bucket.  *)
LEMMA FetchAdvances ==
  ASSUME IInv, FetchPage
  PROVE  RunAdvances
<1>1. pc = "page" /\ buckets # {} /\ buckets \in SUBSET StarRange /\ page \in 1..Pages
  BY DEF FetchPage, IInv, PhasesOK, TypeOK
<1>2. Highest(buckets) \in buckets
  BY <1>1, HighestOf
<1>3. \/ page < Pages /\ page' = page + 1 /\ UNCHANGED <<pc, buckets>>
      \/ pc' = "truncate_repos"
      \/ pc' = "page" /\ buckets' = buckets \ {Highest(buckets)}
  <2>1. CASE page' = page + 1 /\ page < Pages /\ UNCHANGED <<pc, buckets>>
    BY <2>1
  <2>2. ASSUME NEW records, buckets' = IF Len(records) >= Limit THEN {}
                                       ELSE buckets \ {Highest(buckets)},
               pc' = IF buckets' = {} THEN "truncate_repos" ELSE "page"
        PROVE  \/ pc' = "truncate_repos"
               \/ pc' = "page" /\ buckets' = buckets \ {Highest(buckets)}
    BY <2>2
  <2> QED BY <2>1, <2>2, FetchPageCases
<1>4. CASE page < Pages /\ page' = page + 1 /\ UNCHANGED <<pc, buckets>>
  <2>1. page' <= Pages
    BY <1>1, <1>4, Sizes
  <2> QED BY <1>1, <1>4, <2>1 DEF RunAdvances, PhaseAdvances
<1>5. CASE pc' = "truncate_repos"
  BY <1>1, <1>5 DEF RunAdvances, Phase, Asking, AskingScripts
<1>6. CASE pc' = "page" /\ buckets' = buckets \ {Highest(buckets)}
  <2>1. Fewer(buckets', buckets)
    BY <1>2, <1>6 DEF Fewer
  <2> QED BY <1>1, <1>6, <2>1 DEF RunAdvances, PhaseAdvances
<1> QED BY <1>3, <1>4, <1>5, <1>6

(* Behind a batch less is left than there was. *)
LEMMA LessMissing ==
  ASSUME NEW m \in Seq(Repo), m # <<>>
  PROVE  /\ Len(Tail(m)) < Len(m)
         /\ Len(SubSeq(m, BatchSize + 1, Len(m))) < Len(m)
<1>1. Len(m) \in Nat /\ Len(m) > 0 /\ BatchSize \in Nat /\ BatchSize > 0
  BY Sizes
<1>2. Len(Tail(m)) = Len(m) - 1
  BY HeadTailProperties
<1>3. Len(SubSeq(m, BatchSize + 1, Len(m))) =
        IF BatchSize + 1 <= Len(m) THEN Len(m) - (BatchSize + 1) + 1 ELSE 0
  <2>1. /\ BatchSize + 1 \in Int /\ Len(m) \in Int
        /\ \A i \in (BatchSize + 1)..Len(m) : m[i] \in Repo
    BY <1>1
  <2> QED BY <2>1, SubSeqProperties
<1> QED BY <1>1, <1>2, <1>3

(* Each step of a run, whether it fails or not, brings it nearer to its end. *)
LEMMA StepAdvances ==
  ASSUME IInv, AskedFor, Step
  PROVE  RunAdvances
<1> USE DEF Asking, AskingScripts
<1>0. missing \in Seq(Repo) /\ attempt \in 0..2
  BY DEF IInv, TypeOK
<1>1. ASSUME Fail, pc \notin {"idle", "silent"} PROVE RunAdvances
  <2>1. pc' = "idle"
    BY <1>1 DEF Fail, Stop, Forget
  <2>2. pc \in Requests \cup {"truncate_repos", "write_repos", "read_languages",
                           "truncate_languages", "write_languages", "read_scripts",
                           "truncate_scripts", "write_scripts", "report"}
    BY <1>1 DEF IInv, TypeOK
  <2>3. Phase(pc) > 0
    BY <2>2 DEF Phase, Requests
  <2>4. Phase(pc') = 0
    BY <2>1 DEF Phase
  <2> QED BY <2>3, <2>4 DEF RunAdvances
<1>2. CASE AskMax
  <2>1. CASE Fail
    BY <1>1, <1>2, <2>1 DEF AskMax
  <2>2. CASE ~Fail
    <3>1. pc = "max" /\ pc' = "count"
      BY <1>2, <2>2 DEF AskMax
    <3> QED BY <3>1 DEF RunAdvances, Phase
  <2> QED BY <2>1, <2>2
<1>3. CASE CountRange
  <2>1. pc = "count" /\ pc' \in {"count", "page", "truncate_repos"}
    BY <1>3 DEF CountRange
  <2>2. CASE pc' = "count"
    BY <1>3, <2>1, <2>2, CountedOnce DEF RunAdvances, PhaseAdvances
  <2>3. CASE pc' \in {"page", "truncate_repos"}
    BY <2>1, <2>3 DEF RunAdvances, Phase
  <2> QED BY <2>1, <2>2, <2>3
<1>4. CASE FetchPage
  BY <1>4, FetchAdvances
<1>5. CASE TruncateRepos
  BY <1>5 DEF TruncateRepos, RunAdvances, Phase
<1>6. CASE WriteRepos
  BY <1>6 DEF WriteRepos, RunAdvances, Phase
<1>7. CASE ReadLanguages
  <2>1. CASE Fail
    BY <1>1, <1>7, <2>1 DEF ReadLanguages
  <2>2. CASE ~Fail
    <3>1. pc = "read_languages" /\ pc' \in {"read_scripts", "languages"}
      BY <1>7, <2>2 DEF ReadLanguages
    <3> QED BY <3>1 DEF RunAdvances, Phase
  <2> QED BY <2>1, <2>2
<1>8. CASE AskLanguages
  <2>1. pc = "languages" /\ pc' = "truncate_languages" /\ missing' = AfterBatch
    BY <1>8 DEF AskLanguages
  <2>2. Len(missing') < Len(missing)
    BY <1>0, <2>1, LessMissing DEF AskedFor, AfterBatch
  <2>3. Phase(pc') = Phase(pc)
    BY <2>1 DEF Phase
  <2> QED BY <2>1, <2>2, <2>3 DEF RunAdvances, PhaseAdvances
<1>9. CASE AskTree
  <2>1. pc = "tree" /\ pc' = "truncate_scripts" /\ missing' = Tail(missing) /\ missing # <<>>
    BY <1>9 DEF AskTree, IInv, PhasesOK
  <2>2. Len(missing') < Len(missing)
    BY <1>0, <2>1, LessMissing
  <2>3. Phase(pc') = Phase(pc)
    BY <2>1 DEF Phase
  <2> QED BY <2>1, <2>2, <2>3 DEF RunAdvances, PhaseAdvances
<1>10. CASE TruncateLanguages \/ TruncateScripts \/ WriteLanguages \/ WriteScripts
  <2>1. /\ missing' = missing
        /\ \/ pc = "truncate_languages" /\ pc' = "write_languages"
           \/ pc = "write_languages" /\ pc' \in {"languages", "read_scripts"}
           \/ pc = "truncate_scripts" /\ pc' = "write_scripts"
           \/ pc = "write_scripts" /\ pc' \in {"tree", "report"}
    BY <1>10 DEF TruncateLanguages, TruncateScripts, WriteLanguages, WriteScripts, caches
  <2>2. CASE pc' \in {"read_scripts", "report"}
    BY <2>1, <2>2 DEF RunAdvances, Phase
  <2>3. CASE pc' \notin {"read_scripts", "report"}
    <3>1. Phase(pc') = Phase(pc)
      BY <2>1, <2>3 DEF Phase
    <3>2. Turn(pc') < Turn(pc)
      BY <2>1, <2>3 DEF Turn
    <3> QED BY <2>1, <3>1, <3>2 DEF RunAdvances, PhaseAdvances
  <2> QED BY <2>2, <2>3
<1>11. CASE ReadScripts
  <2>1. CASE Fail
    BY <1>1, <1>11, <2>1 DEF ReadScripts
  <2>2. CASE ~Fail
    <3>1. pc = "read_scripts" /\ pc' \in {"report", "tree"}
      BY <1>11, <2>2 DEF ReadScripts
    <3> QED BY <3>1 DEF RunAdvances, Phase
  <2> QED BY <2>1, <2>2
<1>12. CASE Report
  BY <1>12 DEF Report, Stop, Forget, RunAdvances, Phase
<1>13. CASE RequestFails
  <2>1. CASE Fail
    BY <1>1, <1>13, <2>1 DEF RequestFails, Requests
  <2>2. CASE ~Fail
    <3>1. attempt < 2 /\ attempt' = attempt + 1 /\ UNCHANGED <<pc, scan, missing>>
      BY <1>13, <2>2 DEF RequestFails, caches
    <3>2. attempt' <= 2
      BY <1>0, <3>1
    <3> QED BY <3>1, <3>2 DEF RunAdvances
  <2> QED BY <2>1, <2>2
<1> QED BY <1>2, <1>3, <1>4, <1>5, <1>6, <1>7, <1>8, <1>9, <1>10, <1>11, <1>12, <1>13 DEF Step

(* Each step of a run (popular_repo_report) brings it nearer to its end, and *)
(* no star given or taken back meanwhile takes it away from there: splitting,*)
(* paging, batching and repeated requests run out.                           *)
THEOREM StepsRunOut ==
  Spec => [][ /\ Step => RunAdvances
              /\ (\E r \in Repo : Star(r)) => UNCHANGED <<pc, attempt, scan, missing>> ]_vars
<1>1. Init => AskedFor
  BY DEF Init, AskedFor
<1>2. IInv /\ AskedFor /\ [Next]_vars =>
        [ /\ Step => RunAdvances
          /\ (\E r \in Repo : Star(r)) => UNCHANGED <<pc, attempt, scan, missing>> ]_vars
  <2>1. ASSUME NEW r \in Repo, Star(r) PROVE UNCHANGED <<pc, attempt, scan, missing>>
    BY <2>1 DEF Star, caches
  <2> QED BY <2>1, StepAdvances
<1> QED BY <1>1, <1>2, AskedForStep, Invariance, PTL DEF Spec
=============================================================================
