------------------------------ MODULE Enrichment ------------------------------
(***************************************************************************)
(* Contributor scores from an export of pull requests (enrichment.py): the *)
(* normalization of a record, the points of a pull request, the ranking.   *)
(***************************************************************************)
EXTENDS Integers, Ordering, SequencesExt

CONSTANTS Author,  \* logins, as they are written, numbered as they sort
          Fold,    \* login -> the number of the login in lower case
          Missing   \* the value of a key that is not there

ASSUME AuthorAssumption == Author \subseteq Nat /\ Missing \notin Author /\ Fold \in [Author -> Nat]

Or(value, default) == IF value = Missing THEN default ELSE value
AtMost(n, bound) == IF n < bound THEN n ELSE bound

(* Paths and labels count by what they are taken for.                       *)
Surfaces == {"docs", "tests", "dependency"}
Passing == {"success", "gate-ok"}

(* _positive_int, of a number: what is below zero counts as zero.           *)
PositiveInt(value) == IF Or(value, 0) > 0 THEN Or(value, 0) ELSE 0

(* _review_count: the explicit number unless it is zero; else the reviews.  *)
ReviewCount(raw) ==
  IF PositiveInt(raw.review_count) > 0 THEN PositiveInt(raw.review_count)
  ELSE PositiveInt(raw.reviews)

(* _gate_passed: the explicit answer; else a check or a label says so.      *)
GatePassed(raw) ==
  IF raw.gate_passed # Missing THEN raw.gate_passed
  ELSE (raw.checks \cup raw.labels) \cap Passing # {}

(* PullRequestEvidence.from_json.                                           *)
Evidence(raw) ==
  [author |-> Or(raw.author, raw.author_login),
   merged |-> raw.merged_at # Missing \/ raw.state = "merged",
   merged_at |-> Or(raw.merged_at, 0),
   churn |-> PositiveInt(raw.additions) + PositiveInt(raw.deletions),
   changed_files |-> IF PositiveInt(raw.changed_files) > 0
                     THEN PositiveInt(raw.changed_files) ELSE Len(raw.files),
   reviews |-> ReviewCount(raw),
   gate |-> GatePassed(raw),
   receipts |-> PositiveInt(raw.usage_receipts),
   touched |-> Surfaces \cap (ToSet(raw.files) \cup raw.labels)]

(* pull_request_points, with _bounded_footprint_points.                     *)
Points(pr) ==
  IF ~pr.merged THEN 0
  ELSE 40 + AtMost(pr.reviews, 4) * 6
          + (IF pr.gate THEN 18 ELSE 0)
          + (IF "docs" \in pr.touched THEN 8 ELSE 0)
          + (IF "tests" \in pr.touched THEN 12 ELSE 0)
          + (IF "dependency" \in pr.touched THEN 14 ELSE 0)
          + AtMost(pr.receipts, 12) * 4
          + AtMost(pr.changed_files, 6) * 2 + AtMost(pr.churn \div 100, 6)

-----------------------------------------------------------------------------
(* The sum of a number for each place, as the number of such pairs.         *)
SumOver(places, number) == Cardinality(UNION {{i} \X (1..number[i]) : i \in places})

(* _score_author, of the places of prs that are in the author's bucket.     *)
ScoreAuthor(author, prs, places) ==
  [author |-> author,
   score |-> SumOver(places, [i \in places |-> Points(prs[i])]),
   merged |-> Cardinality(places),
   reviewed |-> Cardinality({i \in places : prs[i].reviews > 0}),
   gates |-> Cardinality({i \in places : prs[i].gate}),
   surfaces |-> [s \in Surfaces |-> Cardinality({i \in places : s \in prs[i].touched})],
   receipts |-> SumOver(places, [i \in places |-> prs[i].receipts]),
   last |-> Max({0} \cup {prs[i].merged_at : i \in places})]

(* Variant: a bucket holds the last pull request only. *)
BucketLast(prs, author) ==
  LET own == {i \in DOMAIN prs : prs[i].merged /\ prs[i].author = author}
  IN {i \in own : \A j \in own : j <= i}

Bucket(prs, author) == {i \in DOMAIN prs : prs[i].merged /\ prs[i].author = author}

(* The authors of merged pull requests, by score, then by name in lower     *)
(* case; who ties in both stands as the export has them.                    *)
Ahead(prs, authors, score) ==
  LET first == [a \in authors |-> Min(Bucket(prs, a))] IN
  {p \in authors \X authors :
     LET a == p[1]
         b == p[2]
     IN \/ score[a].score > score[b].score
        \/ score[a].score = score[b].score /\ Fold[a] < Fold[b]
        \/ score[a].score = score[b].score /\ Fold[a] = Fold[b] /\ first[a] < first[b]}

ScoreContributors(prs) ==
  LET authors == {a \in Author : Bucket(prs, a) # {}}
      score == [a \in authors |-> ScoreAuthor(a, prs, Bucket(prs, a))]
      order == InOrder(authors, Ahead(prs, authors, score))
  IN [k \in DOMAIN order |-> score[order[k]]]
=============================================================================
