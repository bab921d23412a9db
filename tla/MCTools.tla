------------------------------- MODULE MCTools -------------------------------
EXTENDS Tools, TLC

MCHash(s) ==
  FoldLeft(LAMBDA h, x : (h * 167 + x * 211 + 12345 + (h \div 256)) % 65536, 4711, s)

MCParent == [d \in Dir \ {"top"} |-> CASE d \in {"a", "b"} -> "top" [] d = "a/c" -> "a"
                                       [] d \in {"b/c", "b/dist"} -> "b"]
MCNameOf == [d \in Dir |-> CASE d = "top" -> 0 [] d = "a" -> 1 [] d = "b" -> 2
                             [] d \in {"a/c", "b/c"} -> 3 [] d = "b/dist" -> 4]
MCCatalogue == 2 :> [roles |-> <<{10, 11}, {10}>>, keywords |-> <<3, 12>>]
MCRequest == {[words |-> w, text |-> w \cup t] :
                w \in {{1, 2}, {3}, {10, 11}, {3, 10}}, t \in {{}, {98}}}

MCFold == [a \in Author |-> IF a = 3 THEN 1 ELSE a]

Plain == [author |-> 1, author_login |-> Missing, merged_at |-> 5, state |-> "closed",
          review_count |-> Missing, reviews |-> Missing, gate_passed |-> Missing, checks |-> {},
          labels |-> {}, files |-> <<"src">>, changed_files |-> Missing,
          additions |-> 90, deletions |-> 20, usage_receipts |-> Missing]
MCRawRecord ==
  {Plain, [Plain EXCEPT !.author = 2], [Plain EXCEPT !.author = 3],
   [Plain EXCEPT !.author = Missing], [Plain EXCEPT !.author = Missing, !.author_login = 2],
   [Plain EXCEPT !.merged_at = Missing], [Plain EXCEPT !.merged_at = Missing, !.state = "merged"],
   [Plain EXCEPT !.merged_at = Missing, !.author = 2, !.usage_receipts = 9],
   [Plain EXCEPT !.review_count = 0, !.reviews = 5, !.changed_files = 9],
   [Plain EXCEPT !.author = 2, !.review_count = 1, !.reviews = 5, !.merged_at = 7],
   [Plain EXCEPT !.gate_passed = FALSE, !.checks = {"success"}, !.usage_receipts = -3],
   [Plain EXCEPT !.author = 3, !.labels = {"gate-ok", "docs"}, !.usage_receipts = 20],
   [Plain EXCEPT !.files = <<"docs", "tests", "dependency">>, !.additions = 5000]}
=============================================================================
