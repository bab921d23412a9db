---------------------------- MODULE Contributions ----------------------------
(***************************************************************************)
(* The export of pull requests grows as the forge's do, and gither         *)
(* enrichment-score is run on it.                                          *)
(***************************************************************************)
EXTENDS Enrichment

CONSTANTS RawRecord,   \* records an export may have
          MaxRecords   \* bound on the length of an export

ASSUME RecordAssumption ==
  \A raw \in RawRecord :
    /\ {raw.additions, raw.deletions, raw.changed_files, raw.review_count, raw.reviews,
        raw.usage_receipts} \subseteq Int \cup {Missing}
    /\ raw.files \in Seq(ToSet(raw.files))

VARIABLES export,  \* the records exported so far
          scores   \* what enrichment-score made of them

scorevars == <<export, scores>>

ContributionsInit == export = <<>> /\ scores = <<>>

Loaded(records) == [i \in DOMAIN records |-> Evidence(records[i])]

Export ==
  /\ Len(export) < MaxRecords
  /\ \E raw \in RawRecord : export' = Append(export, raw)
  /\ UNCHANGED scores

EnrichmentScore ==
  /\ scores' = ScoreContributors(Loaded(export))
  /\ UNCHANGED export

ContributionsNext == Export \/ EnrichmentScore
-----------------------------------------------------------------------------
(* Properties *)

ScoreOf(standing, a) ==
  LET own == {i \in DOMAIN standing : standing[i].author = a}
  IN IF own = {} THEN 0 ELSE standing[CHOOSE i \in own : TRUE].score

(* Scores only grow with the export: nobody loses points when more is       *)
(* exported and the scores are taken again.                                 *)
ScoresOnlyGrow == [][\A a \in Author : ScoreOf(scores', a) >= ScoreOf(scores, a)]_scorevars

(* What the scores say does not depend on the order of the export; nor does *)
(* their order, unless two logins differ in case alone; and a record that   *)
(* is not merged, or has no author, changes nothing.                        *)
OrderFree ==
  LET prs == Loaded(export)
      merged == Kept(prs, {i \in DOMAIN prs : prs[i].merged /\ prs[i].author # Missing})
      there == ScoreContributors(prs)
      back == ScoreContributors(Reverse(merged))
  IN /\ ToSet(there) = ToSet(back)
     /\ (\A i, j \in DOMAIN there : Fold[there[i].author] = Fold[there[j].author] => i = j)
          => there = back
=============================================================================
