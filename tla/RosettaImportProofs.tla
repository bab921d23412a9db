------------------------- MODULE RosettaImportProofs -------------------------
(***************************************************************************)
(* Proofs about RosettaImport, for every set of titles and texts, every    *)
(* page size and limit.                                                    *)
(***************************************************************************)
EXTENDS RosettaImport, OrderingProofs

Ascending(ts) == \A i, j \in DOMAIN ts : i < j => ts[i] < ts[j]

Writing == {"open_tasks", "tasks", "open_chunks", "chunks", "open_bridges", "bridges"}

(* While the wiki is listed, nothing that stayed on it and comes before the  *)
(* next answer is missing.                                                   *)
ListOK ==
  /\ Ascending(titles)
  /\ present \subseteq OnWiki
  /\ pc = "list" =>
       /\ concepts = <<>> /\ chunks = <<>> /\ failed = {}
       /\ \A i \in DOMAIN titles : titles[i] < continue
       /\ \A t \in present \ ToSet(titles) : t >= continue
  /\ ListingComplete

(* Each title is parsed, has failed or is still to do, and the chunks of a   *)
(* task are those of the one text parsed for it.                             *)
FromOneText(t) ==
  \E text \in Texts : /\ <<t, text>> \in fetched
                      /\ BridgeOf(t, chunks) = BridgeOf(t, ChunksOf(t, text))

FetchOK ==
  pc \in Writing \cup {"fetch"} =>
    /\ IsInjective(concepts)
    /\ Tasks(chunks) \subseteq ToSet(concepts)
    /\ \A t \in ToSet(concepts) : FromOneText(t)
    /\ ToSet(titles) = ToSet(concepts) \cup failed \cup ToSet(todo)
    /\ pc = "fetch" => /\ Ascending(todo)
                       /\ ToSet(todo) \cap ToSet(concepts) = {}
    /\ pc # "fetch" => todo = <<>>

(* What a complete import leaves; an import that writes has already written  *)
(* the files before the one it is at.                                        *)
OfOneImport ==
  \/ tasks_file = None /\ chunks_file = None /\ bridges_file = None
  \/ /\ tasks_file \in Seq(Title) /\ chunks_file \in Seq(Chunk)
     /\ Tasks(chunks_file) \subseteq ToSet(tasks_file)
     /\ bridges_file = Bridges(chunks_file)

WriteOK ==
  /\ complete => OfOneImport
  /\ pc \in {"open_chunks", "chunks", "open_bridges", "bridges"} => tasks_file = concepts
  /\ pc \in {"open_bridges", "bridges"} => chunks_file = chunks

(* What was loaded since the last write is what the files hold.              *)
ReadOK ==
  reader.quiet =>
    /\ complete
    /\ reader.pc \in {"chunks", "loaded"} => reader.tasks = ToSet(Lines(tasks_file))
    /\ reader.pc = "loaded" => reader.chunks = Lines(chunks_file)

IInv == TypeOK /\ ListOK /\ FetchOK /\ WriteOK /\ ReadOK

-----------------------------------------------------------------------------
LEMMA Sizes ==
  /\ Title \subseteq Nat /\ 0 \notin Title /\ IsFiniteSet(Title)
  /\ PageSize \in Nat /\ PageSize > 0 /\ Limits \subseteq Nat
BY TitleAssumption, BoundAssumption

(* What the wiki has from a title on, in order. *)
LEMMA FromSorted ==
  ASSUME NEW t \in Nat
  PROVE  /\ From(t) \in Seq(Title) /\ Ascending(From(t))
         /\ \A u \in OnWiki : u >= t => \E i \in DOMAIN From(t) : From(t)[i] = u
         /\ \A i \in DOMAIN From(t) : From(t)[i] \in OnWiki /\ From(t)[i] >= t
<1> DEFINE S == {u \in OnWiki : u >= t}
           R == {p \in Title \X Title : p[1] < p[2]}
           c == Cardinality(S)
           f == InOrder(S, R)
<1>1. S \subseteq Title /\ OnWiki \subseteq Title
  BY DEF OnWiki
<1>2. IsFiniteSet(S)
  BY <1>1, Sizes, FS_Subset
<1>3. TotalOn(S, R)
  <2>1. \A x, y \in S : <<x, y>> \in R <=> x < y
    BY <1>1
  <2>2. S \subseteq Nat
    BY <1>1, Sizes
  <2> HIDE DEF S, R
  <2> QED BY <2>1, <2>2 DEF TotalOn
<1>4. /\ c \in Nat /\ f \in [1..c -> S]
      /\ \A x \in S : \E n \in 1..c : f[n] = x
      /\ \A m, n \in 1..c : m < n => <<f[m], f[n]>> \in R
  <2> HIDE DEF S, R
  <2> QED BY <1>2, <1>3, InOrderSorted
<1>5. From(t) = f
  BY DEF From
<1>6. \A p \in R : p[1] < p[2]
  OBVIOUS
<1>7. \A x \in S : x \in OnWiki /\ x >= t
  OBVIOUS
<1>8. \A u \in OnWiki : u >= t => u \in S
  OBVIOUS
<1> HIDE DEF S, R, c, f
<1>9. DOMAIN f = 1..c /\ f \in Seq(Title)
  BY <1>1, <1>4
<1>10. Ascending(f)
  <2> SUFFICES ASSUME NEW i \in 1..c, NEW j \in 1..c, i < j PROVE f[i] < f[j]
    BY <1>9 DEF Ascending
  <2>1. <<f[i], f[j]>> \in R
    BY <1>4
  <2> QED BY <2>1, <1>6
<1>11. \A u \in OnWiki : u >= t => \E i \in DOMAIN f : f[i] = u
  BY <1>4, <1>8, <1>9
<1>12. \A i \in DOMAIN f : f[i] \in OnWiki /\ f[i] >= t
  BY <1>4, <1>7, <1>9
<1> QED BY <1>5, <1>9, <1>10, <1>11, <1>12

(* One answer of the wiki: some of the titles from t on; the next answer     *)
(* begins behind them.                                                       *)
LEMMA AnswerOf ==
  ASSUME NEW t \in Nat
  PROVE  /\ Members(t) \in Seq(Title) /\ Ascending(Members(t))
         /\ \A i \in DOMAIN Members(t) : Members(t)[i] >= t
         /\ NextFrom(t) \in Title \cup {0}
         /\ NextFrom(t) # 0 => \A i \in DOMAIN Members(t) : Members(t)[i] < NextFrom(t)
         /\ \A u \in OnWiki : u >= t =>
              \/ \E i \in DOMAIN Members(t) : Members(t)[i] = u
              \/ NextFrom(t) # 0 /\ u >= NextFrom(t)
<1> DEFINE f == From(t)
           n == Len(f)
           k == IF PageSize <= n THEN PageSize ELSE n
           m == Members(t)
<1>1. /\ f \in Seq(Title) /\ Ascending(f)
      /\ \A u \in OnWiki : u >= t => \E i \in DOMAIN f : f[i] = u
      /\ \A i \in DOMAIN f : f[i] >= t
  BY FromSorted
<1> HIDE DEF f
<1>2. n \in Nat /\ DOMAIN f = 1..n /\ \A i \in 1..n : f[i] \in Title
  BY <1>1
<1>3. m = SubSeq(f, 1, k)
  <2>1. Min({PageSize, n}) = k
    <3> HIDE DEF n
    <3> QED BY <1>2, Sizes, MinOf
  <2> QED BY <2>1 DEF Members, f
<1>4. k \in 0..n /\ k <= PageSize /\ (k < n => k = PageSize)
  <2>1. n \in Nat /\ PageSize \in Nat
    BY <1>2, Sizes
  <2> HIDE DEF n
  <2> QED BY <2>1
<1> HIDE DEF k, n, m
<1>5. m \in Seq(Title) /\ DOMAIN m = 1..k /\ \A i \in 1..k : m[i] = f[i]
  <2>1. DOMAIN f = 1..n /\ 1..k \subseteq 1..n
    BY <1>2, <1>4
  <2>2. m = [i \in 1..k |-> f[i]]
    BY <1>1, <1>3, <1>4, <2>1, SubSeqProperties DEF n
  <2> QED BY <2>1, <2>2, <1>2, <1>4
<1>6. NextFrom(t) = IF n > PageSize THEN f[PageSize + 1] ELSE 0
  BY DEF NextFrom, n, f
<1>7. \A i, j \in 1..n : i < j => f[i] < f[j]
  BY <1>1, <1>2 DEF Ascending
<1>8. Ascending(m)
  BY <1>4, <1>5, <1>7, <1>2 DEF Ascending
<1>9. NextFrom(t) \in Title \cup {0}
  BY <1>2, <1>6, Sizes
<1>10. NextFrom(t) # 0 => \A i \in 1..k : m[i] < NextFrom(t)
  BY <1>2, <1>4, <1>5, <1>6, <1>7, Sizes
<1>11. ASSUME NEW u \in OnWiki, u >= t
       PROVE  (\E i \in 1..k : m[i] = u) \/ (NextFrom(t) # 0 /\ u >= NextFrom(t))
  <2>1. PICK i \in 1..n : f[i] = u
    BY <1>1, <1>2, <1>11
  <2>2. CASE i <= k
    BY <2>1, <2>2, <1>2, <1>4, <1>5
  <2>3. CASE i > k
    <3>1. k = PageSize /\ n > PageSize /\ PageSize + 1 \in 1..n
      BY <2>3, <1>2, <1>4, Sizes
    <3>2. f[PageSize + 1] \in Nat /\ f[i] \in Nat /\ f[PageSize + 1] # 0
      BY <3>1, <1>2, Sizes
    <3>3. PageSize + 1 = i \/ PageSize + 1 < i
      BY <3>1, <2>3, <1>2, Sizes
    <3>4. f[PageSize + 1] <= f[i]
      BY <3>1, <3>2, <3>3, <1>7
    <3> QED BY <3>1, <3>2, <3>4, <2>1, <1>6
  <2> QED BY <2>2, <2>3, <1>2, <1>4
<1>12. \A i \in 1..k : m[i] >= t
  BY <1>1, <1>2, <1>4, <1>5
<1> QED BY <1>5, <1>8, <1>9, <1>10, <1>11, <1>12 DEF m

(* The titles after one answer. *)
LEMMA ListedOf ==
  ASSUME TypeOK, ListOK, pc = "list"
  PROVE  LET all == Listed(titles, Members(continue), NextFrom(continue))
         IN  /\ all \in Seq(Title) /\ Ascending(all)
             /\ NextFrom(continue) # 0 => \A i \in DOMAIN all : all[i] < NextFrom(continue)
             /\ \A u \in present : \/ \E i \in DOMAIN all : all[i] = u
                                   \/ NextFrom(continue) # 0 /\ u >= NextFrom(continue)
<1> DEFINE m == Members(continue)
           x == NextFrom(continue)
           all == titles \o m
           n == Len(titles)
           k == Len(m)
<1>1. /\ titles \in Seq(Title) /\ continue \in Nat /\ Ascending(titles)
      /\ \A i \in DOMAIN titles : titles[i] < continue
      /\ present \subseteq OnWiki
      /\ \A t \in present : t \in ToSet(titles) \/ t >= continue
  BY Sizes DEF TypeOK, ListOK
<1>2. /\ m \in Seq(Title) /\ Ascending(m)
      /\ \A i \in DOMAIN m : m[i] >= continue
      /\ x \in Title \cup {0}
      /\ x # 0 => \A i \in DOMAIN m : m[i] < x
      /\ \A u \in OnWiki : u >= continue =>
           (\E i \in DOMAIN m : m[i] = u) \/ (x # 0 /\ u >= x)
  BY <1>1, AnswerOf
<1> HIDE DEF m, x
<1>3. n \in Nat /\ k \in Nat /\ DOMAIN titles = 1..n /\ DOMAIN m = 1..k
      /\ (\A i \in 1..n : titles[i] \in Nat) /\ (\A i \in 1..k : m[i] \in Nat)
  <2>1. n \in Nat /\ k \in Nat /\ DOMAIN titles = 1..n /\ DOMAIN m = 1..k
    BY <1>1, <1>2
  <2>2. (\A i \in 1..n : titles[i] \in Title) /\ (\A i \in 1..k : m[i] \in Title)
    BY <1>1, <1>2
  <2> QED BY <2>1, <2>2, Sizes
<1>4. /\ all \in Seq(Title) /\ Len(all) = n + k
      /\ \A i \in 1..(n + k) : all[i] = IF i <= n THEN titles[i] ELSE m[i - n]
  BY <1>1, <1>2, ConcatProperties
<1> HIDE DEF all, n, k
<1>5. DOMAIN all = 1..(n + k) /\ (\A i \in 1..n : all[i] = titles[i])
      /\ (\A i \in 1..k : n + i \in 1..(n + k) /\ all[n + i] = m[i])
  BY <1>3, <1>4
<1>6. ASSUME NEW i \in 1..(n + k), NEW j \in 1..(n + k), i < j PROVE all[i] < all[j]
  <2>1. CASE j <= n
    <3>1. i \in 1..n /\ j \in 1..n
      BY <2>1, <1>6, <1>3
    <3>2. titles[i] < titles[j]
      BY <3>1, <1>6, <1>1, <1>3 DEF Ascending
    <3> QED BY <3>1, <3>2, <1>5
  <2>2. CASE i > n
    <3>1. i - n \in 1..k /\ j - n \in 1..k /\ i - n < j - n
      BY <2>2, <1>6, <1>3
    <3>2. m[i - n] < m[j - n]
      BY <3>1, <1>2, <1>3 DEF Ascending
    <3> QED BY <2>2, <3>2, <1>6, <1>3, <1>4
  <2>3. CASE i <= n /\ j > n
    <3>1. i \in 1..n /\ j - n \in 1..k
      BY <2>3, <1>3
    <3>2. titles[i] < continue /\ continue <= m[j - n] /\ titles[i] \in Nat /\ m[j - n] \in Nat
      BY <3>1, <1>1, <1>2, <1>3
    <3>3. all[i] = titles[i] /\ all[j] = m[j - n]
      BY <2>3, <1>3, <1>4
    <3> QED BY <3>2, <3>3, <1>1
  <2> QED BY <2>1, <2>2, <2>3, <1>3
<1>7. ASSUME x # 0, NEW i \in 1..(n + k) PROVE all[i] < x
  <2>1. x \in Nat
    BY <1>2, Sizes
  <2>2. CASE i <= n
    <3>1. all[i] = titles[i] /\ titles[i] < continue /\ titles[i] \in Nat
      BY <2>2, <1>1, <1>3, <1>4
    <3>2. CASE k = 0
      <4>1. NextFrom(continue) # 0 => PageSize + 1 \in DOMAIN From(continue)
        BY FromSorted, <1>1, Sizes DEF NextFrom
      <4>2. x >= continue
        BY <4>1, <1>1, <1>7, FromSorted, Sizes DEF NextFrom, x
      <4> QED BY <3>1, <4>2, <2>1, <1>1
    <3>3. CASE k # 0
      <4>1. 1 \in 1..k
        BY <3>3, <1>3
      <4>2. continue <= m[1] /\ m[1] < x /\ m[1] \in Nat
        BY <4>1, <1>7, <1>2, <1>3
      <4> QED BY <3>1, <4>2, <2>1, <1>1
    <3> QED BY <3>2, <3>3
  <2>3. CASE i > n
    <3>1. i - n \in 1..k
      BY <2>3, <1>3
    <3>2. m[i - n] < x
      BY <3>1, <1>7, <1>2, <1>3
    <3> QED BY <2>3, <3>2, <1>4, <1>3
  <2> QED BY <2>2, <2>3, <1>3
<1>8. ASSUME NEW u \in present
      PROVE  (\E i \in 1..(n + k) : all[i] = u) \/ (x # 0 /\ u >= x)
  <2>1. CASE u \in ToSet(titles)
    <3>1. PICK i \in 1..n : titles[i] = u
      BY <2>1, <1>3 DEF ToSet
    <3> QED BY <3>1, <1>3, <1>5
  <2>2. CASE u >= continue
    <3>1. (\E i \in 1..k : m[i] = u) \/ (x # 0 /\ u >= x)
      BY <2>2, <1>1, <1>2, <1>3
    <3>2. ASSUME NEW i \in 1..k, m[i] = u PROVE \E j \in 1..(n + k) : all[j] = u
      BY <3>2, <1>5
    <3> QED BY <3>1, <3>2
  <2> QED BY <2>1, <2>2, <1>1
<1>9. Listed(titles, Members(continue), NextFrom(continue)) = all
  BY DEF Listed, all, m
<1> QED BY <1>4, <1>5, <1>6, <1>7, <1>8, <1>9 DEF Ascending, x

(* What a limit leaves of them. *)
LEMMA LimitedOf ==
  ASSUME NEW all \in Seq(Title), Ascending(all), limit \in Nat
  PROVE  LET ts == Limited(all)
         IN  /\ ts \in Seq(Title) /\ Ascending(ts) /\ DOMAIN ts \subseteq DOMAIN all
             /\ \A i \in DOMAIN ts : ts[i] = all[i]
             /\ limit # 0 => Len(ts) <= limit
             /\ limit # 0 /\ Len(all) >= limit => Len(ts) = limit
             /\ ~(limit # 0 /\ Len(all) >= limit) => ts = all
             /\ \A i \in DOMAIN all :
                  \/ i \in DOMAIN ts
                  \/ limit # 0 /\ Len(ts) = limit /\ \A j \in DOMAIN ts : ts[j] < all[i]
<1> DEFINE ts == Limited(all)
<1>1. Len(all) \in Nat /\ DOMAIN all = 1..Len(all)
  OBVIOUS
<1>2. CASE limit # 0 /\ Len(all) >= limit
  <2>1. 1..limit \subseteq 1..Len(all)
    BY <1>1, <1>2
  <2>2. ts = SubSeq(all, 1, limit)
    BY <1>2 DEF Limited
  <2> HIDE DEF ts
  <2>3. ts \in Seq(Title) /\ Len(ts) = limit /\ DOMAIN ts = 1..limit /\ \A i \in 1..limit : ts[i] = all[i]
    BY <2>1, <2>2, <1>1, <1>2, SubSeqProperties
  <2>4. Ascending(ts)
    BY <2>1, <2>3, <1>1 DEF Ascending
  <2>5. ASSUME NEW i \in 1..Len(all), i \notin 1..limit, NEW j \in 1..limit PROVE ts[j] < all[i]
    BY <2>1, <2>3, <2>5, <1>1 DEF Ascending
  <2> QED BY <2>1, <2>3, <2>4, <2>5, <1>1, <1>2 DEF ts
<1>3. CASE ~(limit # 0 /\ Len(all) >= limit)
  <2>1. ts = all
    BY <1>3 DEF Limited
  <2>2. limit # 0 => Len(all) <= limit
    BY <1>1, <1>3
  <2> HIDE DEF ts
  <2>3. DOMAIN ts = DOMAIN all /\ Len(ts) = Len(all) /\ \A i \in DOMAIN ts : ts[i] = all[i]
    BY <2>1
  <2> QED BY <2>1, <2>2, <2>3 DEF ts
<1> QED BY <1>2, <1>3

(* An ascending list has no repetitions. *)
LEMMA AscendingInjective ==
  ASSUME NEW ts \in Seq(Title), Ascending(ts)
  PROVE  IsInjective(ts)
<1> SUFFICES ASSUME NEW i \in DOMAIN ts, NEW j \in DOMAIN ts, ts[i] = ts[j] PROVE i = j
  BY DEF IsInjective
<1>1. ts[i] \in Nat /\ ts[j] \in Nat /\ i \in Nat /\ j \in Nat
  <2>1. ts[i] \in Title /\ ts[j] \in Title
    OBVIOUS
  <2>2. i \in Nat /\ j \in Nat
    OBVIOUS
  <2> QED BY <2>1, <2>2, Sizes
<1>2. (i < j => ts[i] < ts[j]) /\ (j < i => ts[j] < ts[i])
  BY DEF Ascending
<1> QED BY <1>1, <1>2

-----------------------------------------------------------------------------
LEMMA ChunkFields ==
  /\ \A c \in Chunk : c.task \in Title /\ c.language \in Language /\ c.code \in Code
  /\ \A b \in Block : b.language \in Language /\ b.code \in Code
BY DEF Chunk, Block

(* The chunks of one task, and their places. *)
LEMMA GroupOf ==
  ASSUME NEW cs \in Seq(Chunk), NEW t
  PROVE  /\ Kept(cs, Places(t, cs)) \in Seq(Chunk)
         /\ \A c \in ToSet(Kept(cs, Places(t, cs))) : c.task = t
         /\ \A i \in Places(t, cs) : cs[i] \in ToSet(Kept(cs, Places(t, cs)))
<1>1. Places(t, cs) \in SUBSET DOMAIN cs
  BY DEF Places
<1>2. \A i \in Places(t, cs) : cs[i].task = t
  BY DEF Places
<1> QED BY <1>1, <1>2, KeptPlaces

LEMMA FirstOf ==
  ASSUME NEW cs \in Seq(Chunk), NEW t \in Tasks(cs)
  PROVE  First(t, cs) \in DOMAIN cs /\ cs[First(t, cs)].task = t /\ First(t, cs) \in Nat
<1>1. Places(t, cs) \in SUBSET Nat /\ Places(t, cs) # {}
  BY DEF Places, Tasks
<1>2. \E n \in Places(t, cs) : \A m \in Places(t, cs) : n <= m
  BY <1>1, NatMin
<1>3. First(t, cs) = CHOOSE n \in Places(t, cs) : \A m \in Places(t, cs) : n <= m
  BY DEF First, Min
<1>4. First(t, cs) \in Places(t, cs)
  BY <1>2, <1>3, Zenon
<1> QED BY <1>1, <1>4 DEF Places

LEMMA TasksFinite ==
  ASSUME NEW cs \in Seq(Chunk)
  PROVE  Tasks(cs) \subseteq Title /\ IsFiniteSet(Tasks(cs))
<1>1. Tasks(cs) \subseteq Title
  <2>1. \A i \in DOMAIN cs : cs[i] \in Chunk
    OBVIOUS
  <2> QED BY <2>1, ChunkFields DEF Tasks
<1> QED BY <1>1, Sizes, FS_Subset

(* An order of the tasks whose ties are broken by their first chunks. *)
LEMMA FirstDiffers ==
  ASSUME NEW cs \in Seq(Chunk), NEW t \in Tasks(cs), NEW u \in Tasks(cs), First(t, cs) = First(u, cs)
  PROVE  t = u
BY FirstOf

(* The bridges: one for each task, with all its chunks. *)
LEMMA BridgesOf ==
  ASSUME NEW cs \in Seq(Chunk)
  PROVE  /\ Bridges(cs) \in Seq(Bridge)
         /\ \A b \in ToSet(Bridges(cs)) : b.task \in Tasks(cs) /\ b = BridgeOf(b.task, cs)
         /\ \A t \in Tasks(cs) : BridgeOf(t, cs) \in ToSet(Bridges(cs))
<1> DEFINE S == Tasks(cs)
           R == {p \in Title \X Title : First(p[1], cs) < First(p[2], cs)}
           n == Cardinality(S)
           tasks == InOrder(S, R)
<1>1. S \subseteq Title /\ IsFiniteSet(S)
  BY TasksFinite
<1>2. TotalOn(S, R)
  <2>1. \A x, y \in S : <<x, y>> \in R <=> First(x, cs) < First(y, cs)
    <3> HIDE DEF S
    <3> QED BY <1>1
  <2>2. \A x \in S : First(x, cs) \in Nat
    BY FirstOf
  <2>3. \A x, y \in S : First(x, cs) = First(y, cs) => x = y
    BY FirstDiffers
  <2> HIDE DEF S, R
  <2> QED BY <2>1, <2>2, <2>3 DEF TotalOn
<1>3. /\ n \in Nat /\ tasks \in [1..n -> S]
      /\ \A x \in S : \E i \in 1..n : tasks[i] = x
  <2> HIDE DEF S, R
  <2> QED BY <1>1, <1>2, InOrderSorted
<1>4. Bridges(cs) = [i \in DOMAIN tasks |-> BridgeOf(tasks[i], cs)]
  BY DEF Bridges, Bridged
<1>5. ASSUME NEW t \in S PROVE BridgeOf(t, cs) \in Bridge /\ BridgeOf(t, cs).task = t
  <2> DEFINE g == Kept(cs, Places(t, cs))
             l == {g[i].language : i \in DOMAIN g}
             c == [i \in DOMAIN g |-> g[i].code]
  <2>1. g \in Seq(Chunk)
    BY GroupOf
  <2>2. BridgeOf(t, cs) = [task |-> t, languages |-> l, chunk_ids |-> c]
    BY DEF BridgeOf
  <2> HIDE DEF g
  <2>3. Len(g) \in Nat /\ DOMAIN g = 1..Len(g)
        /\ \A i \in DOMAIN g : g[i].language \in Language /\ g[i].code \in Code
    <3>1. Len(g) \in Nat /\ DOMAIN g = 1..Len(g) /\ \A i \in DOMAIN g : g[i] \in Chunk
      BY <2>1
    <3> QED BY <3>1, ChunkFields
  <2>4. l \in SUBSET Language /\ c \in Seq(Code)
    BY <2>3
  <2>5. t \in Title
    BY <1>1
  <2> HIDE DEF l, c
  <2> QED BY <2>2, <2>4, <2>5 DEF Bridge
<1> HIDE DEF S, R, n, tasks
<1> DEFINE B == Bridges(cs)
<1>6. B \in Seq(Bridge) /\ DOMAIN B = 1..n /\ \A i \in 1..n : B[i] = BridgeOf(tasks[i], cs) /\ tasks[i] \in S
  <2>1. \A i \in 1..n : BridgeOf(tasks[i], cs) \in Bridge /\ tasks[i] \in S
    BY <1>3, <1>5
  <2> QED BY <1>3, <1>4, <2>1
<1> HIDE DEF B
<1>7. ASSUME NEW b \in ToSet(B) PROVE b.task \in S /\ b = BridgeOf(b.task, cs)
  <2>1. PICK i \in 1..n : b = BridgeOf(tasks[i], cs) /\ tasks[i] \in S
    BY <1>6 DEF ToSet
  <2>2. b.task = tasks[i]
    BY <2>1, <1>5
  <2> QED BY <2>1, <2>2
<1>8. ASSUME NEW t \in S PROVE BridgeOf(t, cs) \in ToSet(B)
  <2>1. PICK i \in 1..n : tasks[i] = t
    BY <1>3
  <2> QED BY <2>1, <1>6 DEF ToSet
<1> QED BY <1>6, <1>7, <1>8 DEF S, B

(* The chunks parsed from one text make one bridge, wherever they are put.   *)
LEMMA ChunksOfText ==
  ASSUME NEW t \in Title, NEW text \in Texts
  PROVE  /\ ChunksOf(t, text) \in Seq(Chunk)
         /\ \A i \in DOMAIN ChunksOf(t, text) : ChunksOf(t, text)[i].task = t
<1> DEFINE e(i) == [task |-> t, language |-> text[i].language, code |-> text[i].code]
<1>1. text \in Seq(Block)
  BY TextAssumption
<1>2. \A i \in DOMAIN text : e(i) \in Chunk /\ e(i).task = t
  <2>1. \A i \in DOMAIN text : text[i] \in Block
    BY <1>1
  <2>2. \A i \in DOMAIN text : text[i].language \in Language /\ text[i].code \in Code
    BY <2>1, ChunkFields
  <2> QED BY <2>2 DEF Chunk
<1>3. ChunksOf(t, text) = [i \in DOMAIN text |-> e(i)]
  BY DEF ChunksOf
<1> HIDE DEF e
<1> QED BY <1>1, <1>2, <1>3

LEMMA AppendedChunks ==
  ASSUME NEW cs \in Seq(Chunk), NEW t \in Title \ Tasks(cs), NEW text \in Texts
  PROVE  LET all == cs \o ChunksOf(t, text)
         IN  /\ all \in Seq(Chunk)
             /\ Tasks(all) \subseteq Tasks(cs) \cup {t}
             /\ BridgeOf(t, all) = BridgeOf(t, ChunksOf(t, text))
             /\ \A u \in Title \ {t} : BridgeOf(u, all) = BridgeOf(u, cs)
<1> DEFINE d == ChunksOf(t, text)
           m == Len(cs)
           n == Len(d)
           all == cs \o d
<1>1. d \in Seq(Chunk) /\ (\A i \in DOMAIN d : d[i].task = t)
  BY ChunksOfText
<1> HIDE DEF d
<1>2. m \in Nat /\ n \in Nat /\ DOMAIN cs = 1..m /\ DOMAIN d = 1..n
  BY <1>1
<1>3. /\ all \in Seq(Chunk) /\ Len(all) = m + n
      /\ \A i \in 1..(m + n) : all[i] = IF i <= m THEN cs[i] ELSE d[i - m]
  BY <1>1, ConcatProperties
<1> HIDE DEF all, m, n
<1>4. /\ DOMAIN all = 1..(m + n) /\ (\A i \in 1..m : all[i] = cs[i])
      /\ (\A i \in 1..n : all[m + i] = d[i])
  BY <1>2, <1>3
<1>5. \A i \in 1..m : cs[i].task # t
  BY <1>2 DEF Tasks
<1>6. \A i \in (m + 1)..(m + n) : all[i].task = t
  <2> TAKE i \in (m + 1)..(m + n)
  <2>1. i - m \in 1..n /\ all[i] = d[i - m]
    BY <1>2, <1>3
  <2> QED BY <2>1, <1>1, <1>2
<1>7. Places(t, all) = (m + 1)..(m + n)
  <2>1. \A i \in 1..(m + n) : all[i].task = t <=> i \in (m + 1)..(m + n)
    BY <1>2, <1>4, <1>5, <1>6
  <2>2. (m + 1)..(m + n) \subseteq 1..(m + n)
    BY <1>2
  <2> QED BY <2>1, <2>2, <1>4 DEF Places
<1>8. Places(t, d) = (0 + 1)..(0 + n)
  BY <1>1, <1>2 DEF Places
<1>9. Kept(all, Places(t, all)) = Part(all, m, n)
  BY <1>2, <1>7, KeptInterval
<1>10. Kept(d, Places(t, d)) = Part(d, 0, n)
  <2>1. Kept(d, (0 + 1)..(0 + n)) = Part(d, 0, n)
    BY <1>2, KeptInterval
  <2> QED BY <2>1, <1>8
<1>11. Part(all, m, n) = Part(d, 0, n)
  BY <1>4 DEF Part
<1>12. BridgeOf(t, all) = BridgeOf(t, d)
  BY <1>9, <1>10, <1>11 DEF BridgeOf
<1>13. ASSUME NEW u \in Title \ {t} PROVE BridgeOf(u, all) = BridgeOf(u, cs)
  <2> DEFINE I == Places(u, cs)
             places == InOrder(I, {p \in I \X I : p[1] < p[2]})
  <2>1. Places(u, all) = I
    <3>1. \A i \in 1..(m + n) : all[i].task = u => i \in 1..m
      BY <1>2, <1>6
    <3>2. 1..m \subseteq 1..(m + n)
      BY <1>2
    <3> QED BY <3>1, <3>2, <1>2, <1>4 DEF Places
  <2>2. \A i \in DOMAIN places : places[i] \in I
    <3>1. IsFiniteSet(I)
      <4>1. I \subseteq 1..m /\ IsFiniteSet(1..m)
        BY <1>2, FS_Interval DEF Places
      <4> QED BY <4>1, FS_Subset
    <3>2. TotalOn(I, {p \in I \X I : p[1] < p[2]})
      <4>1. I \subseteq Nat
        BY <1>2 DEF Places
      <4> HIDE DEF I
      <4> QED BY <4>1 DEF TotalOn
    <3>3. places \in [1..Cardinality(I) -> I]
      <4> HIDE DEF I
      <4> QED BY <3>1, <3>2, InOrderSorted
    <3> HIDE DEF places, I
    <3> QED BY <3>3
  <2>3. \A i \in I : all[i] = cs[i]
    BY <1>2, <1>4 DEF Places
  <2>4. Kept(all, I) = [i \in DOMAIN places |-> all[places[i]]]
        /\ Kept(cs, I) = [i \in DOMAIN places |-> cs[places[i]]]
    BY DEF Kept
  <2> HIDE DEF places, I
  <2>5. Kept(all, I) = Kept(cs, I)
    BY <2>2, <2>3, <2>4
  <2> QED BY <2>1, <2>5 DEF BridgeOf, I
<1>14. Tasks(all) \subseteq Tasks(cs) \cup {t}
  <2> SUFFICES ASSUME NEW i \in 1..(m + n) PROVE all[i].task \in Tasks(cs) \cup {t}
    BY <1>4 DEF Tasks
  <2>1. CASE i \in 1..m
    BY <2>1, <1>2, <1>4 DEF Tasks
  <2>2. CASE i \in (m + 1)..(m + n)
    BY <2>2, <1>6
  <2> QED BY <2>1, <2>2, <1>2
<1> QED BY <1>3, <1>12, <1>13, <1>14 DEF all, d

-----------------------------------------------------------------------------
LEMMA InitIInv == Init => IInv
<1> SUFFICES ASSUME Init PROVE IInv
  OBVIOUS
<1> USE DEF Init
<1>1. TypeOK
  <2>1. 0 \in 0..MaxEdits /\ 0 \in 0..MaxRuns /\ 0 \in 0..MaxKills
    BY BoundAssumption
  <2> QED BY <2>1 DEF TypeOK, NoCorpus
<1>2. ListOK
  BY DEF ListOK, ListingComplete, Ascending
<1>3. FetchOK /\ WriteOK /\ ReadOK
  BY DEF FetchOK, Writing, WriteOK, OfOneImport, ReadOK, NoCorpus
<1> QED BY <1>1, <1>2, <1>3 DEF IInv

(* The wiki changes: fewer titles have stayed on it. *)
LEMMA EditStep ==
  ASSUME IInv, NEW t \in Title, Edit(t)
  PROVE  IInv'
<1> USE DEF IInv, Edit, import, files
<1>1. TypeOK'
  <2>1. wiki' \in [Title -> Texts \cup {None}]
    BY DEF TypeOK
  <2>2. edits' \in 0..MaxEdits
    BY BoundAssumption DEF TypeOK
  <2> QED BY <2>1, <2>2 DEF TypeOK
<1>2. present' \subseteq OnWiki' /\ present' \subseteq present
  OBVIOUS
<1>3. ListOK'
  BY <1>2 DEF ListOK, ListingComplete
<1>4. FetchOK' /\ WriteOK' /\ ReadOK'
  BY DEF FetchOK, FromOneText, WriteOK, OfOneImport, ReadOK
<1> QED BY <1>1, <1>3, <1>4

LEMMA BeginStep ==
  ASSUME IInv, Begin
  PROVE  IInv'
<1> USE DEF IInv, Begin, files
<1>1. TypeOK'
  <2>1. runs' \in 0..MaxRuns
    BY BoundAssumption DEF TypeOK
  <2>2. OnWiki \subseteq Title
    BY DEF OnWiki
  <2> QED BY <2>1, <2>2 DEF TypeOK
<1>2. OnWiki' = OnWiki
  BY DEF OnWiki
<1>3. ListOK'
  <2>1. \A t \in OnWiki : t >= 0
    BY Sizes DEF OnWiki
  <2> QED BY <1>2, <2>1 DEF ListOK, ListingComplete, Ascending
<1>4. FetchOK' /\ WriteOK' /\ ReadOK'
  BY DEF FetchOK, Writing, WriteOK, OfOneImport, ReadOK
<1> QED BY <1>1, <1>3, <1>4

LEMMA ListPageStep ==
  ASSUME IInv, ListPage
  PROVE  IInv'
<1> USE DEF IInv
<1> DEFINE x == NextFrom(continue)
           all == Listed(titles, Members(continue), x)
           done == x = 0 \/ (limit # 0 /\ Len(all) >= limit)
           ts == Limited(all)
<1>1. /\ pc = "list" /\ limit \in Nat /\ continue \in Nat
      /\ titles' = ts /\ continue' = (IF done THEN 0 ELSE x)
      /\ todo' = (IF done THEN titles' ELSE <<>>)
      /\ pc' = (IF done THEN "fetch" ELSE "list")
      /\ UNCHANGED <<wiki, edits, limit, concepts, chunks, files, reader, runs, kills, history>>
  BY Sizes DEF ListPage, TypeOK
<1>2. /\ all \in Seq(Title) /\ Ascending(all)
      /\ x # 0 => \A i \in DOMAIN all : all[i] < x
      /\ \A u \in present : (\E i \in DOMAIN all : all[i] = u) \/ (x # 0 /\ u >= x)
  BY <1>1, ListedOf
<1>3. x \in Title \cup {0}
  BY <1>1, AnswerOf
<1> HIDE DEF x, all
<1>4. /\ ts \in Seq(Title) /\ Ascending(ts) /\ DOMAIN ts \subseteq DOMAIN all
      /\ \A i \in DOMAIN ts : ts[i] = all[i]
      /\ limit # 0 => Len(ts) <= limit
      /\ limit # 0 /\ Len(all) >= limit => Len(ts) = limit
      /\ ~(limit # 0 /\ Len(all) >= limit) => ts = all
      /\ \A i \in DOMAIN all :
           \/ i \in DOMAIN ts
           \/ limit # 0 /\ Len(ts) = limit /\ \A j \in DOMAIN ts : ts[j] < all[i]
  BY <1>1, <1>2, LimitedOf
<1> HIDE DEF ts
<1>5. TypeOK'
  BY <1>1, <1>3, <1>4 DEF TypeOK, files, history
<1>6. OnWiki' = OnWiki /\ present' = present /\ present \subseteq OnWiki
  BY <1>1 DEF OnWiki, history, ListOK
<1>7. concepts' = <<>> /\ chunks' = <<>> /\ failed' = {}
  BY <1>1 DEF ListOK, history
<1>8. ListOK'
  <2>1. Ascending(titles)' /\ IsInjective(titles)'
    BY <1>1, <1>4, AscendingInjective
  <2>2. CASE done
    <3>1. ASSUME NEW u \in present, u \notin ToSet(ts)
          PROVE  limit # 0 /\ Len(ts) = limit /\ \A w \in ToSet(ts) : w < u
      <4>1. CASE \E i \in DOMAIN all : all[i] = u
        <5>1. PICK i \in DOMAIN all : all[i] = u
          BY <4>1
        <5>2. i \notin DOMAIN ts
          BY <5>1, <3>1, <1>4 DEF ToSet
        <5>3. limit # 0 /\ Len(ts) = limit /\ \A j \in DOMAIN ts : ts[j] < u
          BY <5>1, <5>2, <1>4
        <5> QED BY <5>3 DEF ToSet
      <4>2. CASE x # 0 /\ u >= x
        <5>1. limit # 0 /\ Len(ts) = limit
          BY <2>2, <4>2, <1>4
        <5>2. \A j \in DOMAIN ts : ts[j] < x /\ ts[j] \in Nat
          <6>1. \A j \in DOMAIN ts : ts[j] \in Title
            BY <1>4
          <6> QED BY <6>1, <4>2, <1>2, <1>4, Sizes
        <5>3. u \in Nat /\ x \in Nat
          <6>1. u \in Title /\ x \in Title \cup {0}
            BY <1>3, <1>6, u \in OnWiki DEF OnWiki
          <6> HIDE DEF IInv
          <6> QED BY <6>1, Sizes
        <5>4. \A j \in DOMAIN ts : ts[j] < u
          BY <5>2, <5>3, <4>2
        <5> QED BY <5>1, <5>4 DEF ToSet
      <4> QED BY <4>1, <4>2, <1>2
    <3>2. pc' = "fetch" /\ limit' = limit /\ titles' = ts
      BY <2>2, <1>1
    <3> QED BY <2>1, <3>1, <3>2, <1>4, <1>6 DEF ListOK, ListingComplete
  <2>3. CASE ~done
    <3>1. pc' = "list" /\ continue' = x /\ titles' = all /\ x # 0
      BY <2>3, <1>1, <1>4
    <3>2. \A u \in present \ ToSet(all) : u >= x
      BY <3>1, <1>2 DEF ToSet
    <3> QED BY <2>1, <3>1, <3>2, <1>2, <1>6, <1>7 DEF ListOK, ListingComplete
  <2> QED BY <2>2, <2>3
<1>9. FetchOK'
  <2>1. CASE done
    <3>1. pc' = "fetch" /\ todo' = ts /\ titles' = ts
      BY <2>1, <1>1
    <3>2. Tasks(<<>>) = {} /\ ToSet(<<>>) = {} /\ IsInjective(<<>>)
      BY DEF Tasks, ToSet, IsInjective
    <3> QED BY <3>1, <3>2, <1>4, <1>7 DEF FetchOK
  <2>2. CASE ~done
    BY <2>2, <1>1 DEF FetchOK, Writing
  <2> QED BY <2>1, <2>2
<1>10. WriteOK' /\ ReadOK'
  BY <1>1 DEF WriteOK, OfOneImport, ReadOK, files, history
<1> QED BY <1>5, <1>8, <1>9, <1>10

(* The import ends before its time, or has fetched all. *)
LEMMA LeaveStep ==
  ASSUME IInv, ListFails \/ Fetched \/ Kill
  PROVE  IInv'
<1> USE DEF IInv
<1>1. /\ UNCHANGED <<wiki, edits, import, files, reader, runs, history>>
      /\ kills' \in 0..MaxKills
      /\ pc' = "idle" \/ (pc = "fetch" /\ todo = <<>> /\ pc' = "open_tasks")
  BY BoundAssumption DEF ListFails, Fetched, Kill, TypeOK
<1> USE DEF import, files, history
<1>2. TypeOK'
  BY <1>1 DEF TypeOK
<1>3. OnWiki' = OnWiki
  BY <1>1 DEF OnWiki
<1>4. ListOK'
  BY <1>1, <1>3 DEF ListOK, ListingComplete
<1>5. FetchOK'
  <2>1. CASE pc' = "idle"
    BY <2>1 DEF FetchOK, Writing
  <2>2. CASE pc = "fetch" /\ todo = <<>> /\ pc' = "open_tasks"
    BY <2>2, <1>1 DEF FetchOK, FromOneText
  <2> QED BY <2>1, <2>2, <1>1
<1>6. WriteOK' /\ ReadOK'
  BY <1>1 DEF WriteOK, OfOneImport, ReadOK
<1> QED BY <1>2, <1>4, <1>5, <1>6

(* The first title to do: a title, and none of the others. *)
LEMMA TodoOf ==
  ASSUME TypeOK, FetchOK, pc = "fetch", todo # <<>>
  PROVE  /\ Head(todo) \in Title /\ Tail(todo) \in Seq(Title) /\ Ascending(Tail(todo))
         /\ ToSet(todo) = {Head(todo)} \cup ToSet(Tail(todo))
         /\ Head(todo) \notin ToSet(Tail(todo))
         /\ Head(todo) \notin ToSet(concepts)
<1> DEFINE n == Len(todo)
           tail == Tail(todo)
<1>1. todo \in Seq(Title) /\ Ascending(todo) /\ ToSet(todo) \cap ToSet(concepts) = {}
  BY DEF TypeOK, FetchOK
<1>2. n \in Nat /\ n # 0 /\ DOMAIN todo = 1..n /\ 1 \in 1..n /\ Head(todo) = todo[1]
  BY <1>1
<1>3. tail \in Seq(Title) /\ DOMAIN tail = 1..(n - 1) /\ \A i \in 1..(n - 1) : tail[i] = todo[i + 1]
  BY <1>1, <1>2
<1> HIDE DEF tail, n
<1>4. Ascending(tail)
  <2> SUFFICES ASSUME NEW i \in 1..(n - 1), NEW j \in 1..(n - 1), i < j PROVE tail[i] < tail[j]
    BY <1>3 DEF Ascending
  <2>1. i + 1 \in 1..n /\ j + 1 \in 1..n /\ i + 1 < j + 1
    BY <1>2
  <2>2. todo[i + 1] < todo[j + 1]
    BY <2>1, <1>1, <1>2 DEF Ascending
  <2> QED BY <2>2, <1>3
<1>5. ToSet(todo) = {todo[1]} \cup ToSet(tail)
  <2>1. \A i \in 1..n : i = 1 \/ (i - 1 \in 1..(n - 1) /\ todo[i] = tail[i - 1])
    BY <1>2, <1>3
  <2>2. \A i \in 1..(n - 1) : i + 1 \in 1..n /\ tail[i] = todo[i + 1]
    BY <1>2, <1>3
  <2>3. ToSet(todo) \subseteq {todo[1]} \cup ToSet(tail)
    <3> SUFFICES ASSUME NEW i \in 1..n PROVE todo[i] \in {todo[1]} \cup ToSet(tail)
      BY <1>2 DEF ToSet
    <3>1. CASE i - 1 \in 1..(n - 1) /\ todo[i] = tail[i - 1]
      BY <3>1, <1>3 DEF ToSet
    <3> QED BY <3>1, <2>1
  <2>4. ToSet(tail) \subseteq ToSet(todo)
    BY <2>2, <1>2, <1>3 DEF ToSet
  <2>5. todo[1] \in ToSet(todo)
    BY <1>2 DEF ToSet
  <2> QED BY <2>3, <2>4, <2>5
<1>6. todo[1] \notin ToSet(tail)
  <2> SUFFICES ASSUME NEW i \in 1..(n - 1), tail[i] = todo[1] PROVE FALSE
    BY <1>3 DEF ToSet
  <2>1. i + 1 \in 1..n /\ 1 < i + 1
    BY <1>2
  <2>2. todo[1] < todo[i + 1]
    BY <2>1, <1>1, <1>2 DEF Ascending
  <2>3. todo[1] \in Title
    BY <1>1, <1>2
  <2>4. todo[1] \in Nat /\ todo[i + 1] = todo[1]
    BY <2>3, <1>3, Sizes
  <2> QED BY <2>2, <2>4
<1>7. todo[1] \in ToSet(todo) /\ todo[1] \in Title
  BY <1>1, <1>2 DEF ToSet
<1> QED BY <1>1, <1>2, <1>3, <1>4, <1>5, <1>6, <1>7 DEF tail

LEMMA FetchStep ==
  ASSUME IInv, Fetch
  PROVE  IInv'
<1> USE DEF IInv
<1> DEFINE t == Head(todo)
           text == wiki[t]
<1>1. /\ pc = "fetch" /\ pc' = "fetch" /\ todo # <<>> /\ todo' = Tail(todo)
      /\ text # None
      /\ concepts' = Append(concepts, t)
      /\ chunks' = chunks \o ChunksOf(t, text)
      /\ fetched' = fetched \cup {<<t, text>>}
      /\ UNCHANGED <<wiki, edits, limit, titles, continue, files, reader, runs, kills, present,
                     failed, complete>>
  BY DEF Fetch
<1>2. /\ t \in Title /\ Tail(todo) \in Seq(Title) /\ Ascending(Tail(todo))
      /\ ToSet(todo) = {t} \cup ToSet(Tail(todo))
      /\ t \notin ToSet(Tail(todo))
      /\ t \notin ToSet(concepts)
  BY <1>1, TodoOf
<1>3. text \in Texts
  BY <1>1, <1>2 DEF TypeOK
<1>4. chunks \in Seq(Chunk) /\ concepts \in Seq(Title) /\ fetched \in SUBSET (Title \X Texts)
  BY DEF TypeOK
<1>5. t \notin Tasks(chunks)
  BY <1>1, <1>2 DEF FetchOK
<1> HIDE DEF t, text
<1>6. /\ chunks' \in Seq(Chunk)
      /\ Tasks(chunks') \subseteq Tasks(chunks) \cup {t}
      /\ BridgeOf(t, chunks') = BridgeOf(t, ChunksOf(t, text))
      /\ \A u \in Title \ {t} : BridgeOf(u, chunks') = BridgeOf(u, chunks)
  BY <1>1, <1>2, <1>3, <1>4, <1>5, AppendedChunks
<1>7. concepts' \in Seq(Title) /\ ToSet(concepts') = ToSet(concepts) \cup {t} /\ IsInjective(concepts')
  <2> DEFINE n == Len(concepts)
  <2>1. n \in Nat /\ DOMAIN concepts = 1..n
    BY <1>4
  <2>2. /\ concepts' \in Seq(Title) /\ DOMAIN concepts' = 1..(n + 1)
        /\ \A i \in 1..n : concepts'[i] = concepts[i]
        /\ concepts'[n + 1] = t
    BY <1>1, <1>2, <1>4
  <2> HIDE DEF n
  <2>3. \A i \in 1..(n + 1) : i \in 1..n \/ i = n + 1
    BY <2>1
  <2>4. (\A i \in 1..n : i \in 1..(n + 1)) /\ n + 1 \in 1..(n + 1)
    BY <2>1
  <2>5. ToSet(concepts') = ToSet(concepts) \cup {t}
    BY <2>1, <2>2, <2>3, <2>4 DEF ToSet
  <2>6. \A i \in 1..n : concepts[i] # t
    BY <1>2, <2>1 DEF ToSet
  <2>7. IsInjective(concepts)
    BY <1>1 DEF FetchOK
  <2>8. IsInjective(concepts')
    BY <2>1, <2>2, <2>3, <2>6, <2>7 DEF IsInjective
  <2> QED BY <2>2, <2>5, <2>8
<1>8. TypeOK'
  BY <1>1, <1>2, <1>3, <1>4, <1>6, <1>7 DEF TypeOK, files
<1>9. OnWiki' = OnWiki
  BY <1>1 DEF OnWiki
<1>10. ListOK'
  BY <1>1, <1>9 DEF ListOK, ListingComplete
<1>11. FetchOK'
  <2>1. ASSUME NEW u \in ToSet(concepts') PROVE FromOneText(u)'
    <3>1. CASE u = t
      BY <3>1, <1>1, <1>3, <1>6 DEF FromOneText
    <3>2. CASE u # t
      <4>1. u \in ToSet(concepts) /\ FromOneText(u)
        BY <3>2, <1>1, <1>7 DEF FetchOK
      <4>2. u \in Title
        BY <4>1, <1>4 DEF ToSet
      <4>3. PICK words \in Texts : /\ <<u, words>> \in fetched
                                   /\ BridgeOf(u, chunks) = BridgeOf(u, ChunksOf(u, words))
        BY <4>1 DEF FromOneText
      <4>4. <<u, words>> \in fetched' /\ BridgeOf(u, chunks') = BridgeOf(u, ChunksOf(u, words))
        BY <4>2, <4>3, <3>2, <1>1, <1>6
      <4> QED BY <4>4 DEF FromOneText
    <3> QED BY <3>1, <3>2
  <2>2. Tasks(chunks') \subseteq ToSet(concepts')
    BY <1>1, <1>6, <1>7 DEF FetchOK
  <2>3. ToSet(titles') = ToSet(concepts') \cup failed' \cup ToSet(todo')
    BY <1>1, <1>2, <1>7 DEF FetchOK
  <2>4. Ascending(todo') /\ ToSet(todo') \cap ToSet(concepts') = {}
    BY <1>1, <1>2, <1>7 DEF FetchOK
  <2> QED BY <2>1, <2>2, <2>3, <2>4, <1>1, <1>7 DEF FetchOK
<1>12. WriteOK' /\ ReadOK'
  BY <1>1 DEF WriteOK, OfOneImport, ReadOK, files
<1> QED BY <1>8, <1>10, <1>11, <1>12

LEMMA SkipStep ==
  ASSUME IInv, Skip
  PROVE  IInv'
<1> USE DEF IInv
<1>1. /\ pc = "fetch" /\ pc' = "fetch" /\ todo # <<>> /\ todo' = Tail(todo)
      /\ failed' = failed \cup {Head(todo)}
      /\ UNCHANGED <<wiki, edits, limit, titles, continue, concepts, chunks, files, reader, runs,
                     kills, present, fetched, complete>>
  BY DEF Skip
<1>2. /\ Head(todo) \in Title /\ Tail(todo) \in Seq(Title) /\ Ascending(Tail(todo))
      /\ ToSet(todo) = {Head(todo)} \cup ToSet(Tail(todo))
  BY <1>1, TodoOf
<1>3. TypeOK'
  BY <1>1, <1>2 DEF TypeOK, files
<1>4. OnWiki' = OnWiki
  BY <1>1 DEF OnWiki
<1>5. ListOK'
  BY <1>1, <1>4 DEF ListOK, ListingComplete
<1>6. FetchOK'
  <2>1. \A u \in ToSet(concepts') : FromOneText(u)'
    BY <1>1 DEF FetchOK, FromOneText
  <2>2. ToSet(titles') = ToSet(concepts') \cup failed' \cup ToSet(todo')
    BY <1>1, <1>2 DEF FetchOK
  <2>3. Ascending(todo') /\ ToSet(todo') \cap ToSet(concepts') = {}
    BY <1>1, <1>2 DEF FetchOK
  <2>4. IsInjective(concepts') /\ Tasks(chunks') \subseteq ToSet(concepts')
    BY <1>1 DEF FetchOK
  <2> QED BY <2>1, <2>2, <2>3, <2>4, <1>1 DEF FetchOK
<1>7. WriteOK' /\ ReadOK'
  BY <1>1 DEF WriteOK, OfOneImport, ReadOK, files
<1> QED BY <1>3, <1>5, <1>6, <1>7

(* One step of writing: the three files are of one import again when the     *)
(* last of them is closed.                                                   *)
LEMMA WriteStep ==
  ASSUME IInv, WriteFile
  PROVE  IInv'
<1> USE DEF IInv
<1>1. /\ reader' = [reader EXCEPT !.quiet = FALSE]
      /\ complete' = (pc' = "idle")
      /\ UNCHANGED <<wiki, edits, import, runs, kills, present, failed, fetched>>
      /\ pc \in Writing
  BY DEF WriteFile, OpenTasks, FlushTasks, CloseTasks, OpenChunks, FlushChunks, CloseChunks,
         OpenBridges, CloseBridges, Writing
<1> USE DEF import
<1>2. chunks \in Seq(Chunk) /\ concepts \in Seq(Title) /\ Tasks(chunks) \subseteq ToSet(concepts)
  BY <1>1 DEF TypeOK, FetchOK
<1>3. Bridges(chunks) \in Seq(Bridge)
  BY <1>2, BridgesOf
<1>4. /\ tasks_file' \in Seq(Title) \cup {None, Torn}
      /\ chunks_file' \in Seq(Chunk) \cup {None, Torn}
      /\ bridges_file' \in Seq(Bridge) \cup {None, Torn}
      /\ pc' \in Writing \cup {"idle"}
      /\ pc' # "fetch" /\ pc' # "list"
  <2>1. /\ tasks_file \in Seq(Title) \cup {None, Torn}
        /\ chunks_file \in Seq(Chunk) \cup {None, Torn}
        /\ bridges_file \in Seq(Bridge) \cup {None, Torn}
    BY DEF TypeOK
  <2>2. <<>> \in Seq(Title) /\ <<>> \in Seq(Chunk) /\ <<>> \in Seq(Bridge)
    OBVIOUS
  <2> QED BY <2>1, <2>2, <1>2, <1>3
          DEF WriteFile, OpenTasks, FlushTasks, CloseTasks, OpenChunks, FlushChunks, CloseChunks,
              OpenBridges, CloseBridges, Writing
<1>5. TypeOK'
  <2>1. reader' \in [pc : {"idle", "chunks", "loaded", "raised"}, tasks : SUBSET Title,
                     chunks : Seq(Chunk), quiet : BOOLEAN]
    BY <1>1 DEF TypeOK
  <2>2. complete' \in BOOLEAN
    BY <1>1
  <2>3. pc' \in {"idle", "list", "fetch", "open_tasks", "tasks", "open_chunks", "chunks",
                 "open_bridges", "bridges"}
    BY <1>4 DEF Writing
  <2> QED BY <2>1, <2>2, <2>3, <1>1, <1>4 DEF TypeOK
<1>6. OnWiki' = OnWiki
  BY <1>1 DEF OnWiki
<1>7. ListOK'
  BY <1>1, <1>4, <1>6 DEF ListOK, ListingComplete
<1>8. FetchOK'
  BY <1>1, <1>4 DEF FetchOK, FromOneText, Writing
<1>9. ReadOK'
  <2>1. reader'.quiet = FALSE
    BY <1>1 DEF TypeOK
  <2> QED BY <2>1 DEF ReadOK
<1>10. WriteOK'
  <2>1. complete' => OfOneImport'
    <3> SUFFICES ASSUME pc' = "idle" PROVE OfOneImport'
      BY <1>1
    <3>1. CloseBridges
      BY DEF WriteFile, OpenTasks, FlushTasks, CloseTasks, OpenChunks, FlushChunks, CloseChunks,
             OpenBridges
    <3>2. tasks_file' = concepts /\ chunks_file' = chunks /\ bridges_file' = Bridges(chunks)
      BY <3>1 DEF CloseBridges, WriteOK
    <3> QED BY <3>2, <1>2 DEF OfOneImport
  <2>2. pc' \in {"open_chunks", "chunks", "open_bridges", "bridges"} => tasks_file' = concepts'
    BY <1>1 DEF WriteOK, WriteFile, OpenTasks, FlushTasks, CloseTasks, OpenChunks, FlushChunks,
                CloseChunks, OpenBridges, CloseBridges
  <2>3. pc' \in {"open_bridges", "bridges"} => chunks_file' = chunks'
    BY <1>1 DEF WriteOK, WriteFile, OpenTasks, FlushTasks, CloseTasks, OpenChunks, FlushChunks,
                CloseChunks, OpenBridges, CloseBridges
  <2> QED BY <2>1, <2>2, <2>3 DEF WriteOK
<1> QED BY <1>5, <1>7, <1>8, <1>9, <1>10

(* Loading reads the files as they are. *)
LEMMA ReadStep ==
  ASSUME IInv, LoadTasks \/ LoadChunks
  PROVE  IInv'
<1> USE DEF IInv
<1>1. UNCHANGED <<wiki, edits, pc, import, files, runs, kills, history>>
  BY DEF LoadTasks, LoadChunks
<1> USE DEF import, files, history
<1>2. reader' \in [pc : {"idle", "chunks", "loaded", "raised"}, tasks : SUBSET Title,
                   chunks : Seq(Chunk), quiet : BOOLEAN] /\ ReadOK'
  <2> DEFINE R == [pc : {"idle", "chunks", "loaded", "raised"}, tasks : SUBSET Title,
                   chunks : Seq(Chunk), quiet : BOOLEAN]
  <2>0. reader \in R /\ complete \in BOOLEAN
    BY DEF TypeOK
  <2>1. CASE reader' = [NoCorpus EXCEPT !.pc = "raised"]
    <3>1. reader' = [pc |-> "raised", tasks |-> {}, chunks |-> <<>>, quiet |-> FALSE]
      BY <2>1 DEF NoCorpus
    <3>2. {} \in SUBSET Title /\ <<>> \in Seq(Chunk)
      OBVIOUS
    <3> QED BY <3>1, <3>2 DEF ReadOK
  <2>2. CASE LoadTasks /\ tasks_file # Torn
    <3>1. reader' = [pc |-> "chunks", tasks |-> ToSet(Lines(tasks_file)), chunks |-> <<>>,
                     quiet |-> complete]
      BY <2>2 DEF LoadTasks
    <3>2. Lines(tasks_file) \in Seq(Title)
      BY <2>2 DEF TypeOK, Lines
    <3>3. ToSet(Lines(tasks_file)) \in SUBSET Title /\ <<>> \in Seq(Chunk)
      BY <3>2 DEF ToSet
    <3>4. reader' \in R
      BY <3>1, <3>3, <2>0
    <3>5. ReadOK'
      BY <3>1, <1>1 DEF ReadOK, Lines
    <3> QED BY <3>4, <3>5
  <2>3. CASE LoadChunks /\ reader' = [reader EXCEPT !.pc = "loaded", !.chunks = Lines(chunks_file)]
                        /\ chunks_file # Torn
    <3>1. Lines(chunks_file) \in Seq(Chunk)
      BY <2>3 DEF TypeOK, Lines
    <3>2. reader' \in R
      BY <3>1, <2>3, <2>0
    <3>3. /\ reader'.quiet = reader.quiet /\ reader'.tasks = reader.tasks
          /\ reader'.chunks = Lines(chunks_file) /\ reader.pc = "chunks"
      BY <2>3, <2>0 DEF LoadChunks
    <3>4. ReadOK'
      BY <3>3, <1>1 DEF ReadOK, Lines
    <3> QED BY <3>2, <3>4
  <2> QED BY <2>1, <2>2, <2>3 DEF LoadTasks, LoadChunks
<1>3. TypeOK'
  BY <1>1, <1>2 DEF TypeOK
<1>4. OnWiki' = OnWiki
  BY <1>1 DEF OnWiki
<1>5. ListOK' /\ FetchOK' /\ WriteOK'
  BY <1>1, <1>4 DEF ListOK, ListingComplete, FetchOK, FromOneText, WriteOK, OfOneImport
<1> QED BY <1>2, <1>3, <1>5

LEMMA NextIInv == IInv /\ [Next]_vars => IInv'
<1> SUFFICES ASSUME IInv, [Next]_vars PROVE IInv'
  OBVIOUS
<1>1. CASE UNCHANGED vars
  <2>1. OnWiki' = OnWiki
    BY <1>1 DEF vars, OnWiki
  <2> USE <1>1 DEF vars, import, files, history
  <2>2. TypeOK'
    BY DEF IInv, TypeOK
  <2>3. ListOK'
    BY <2>1 DEF IInv, ListOK, ListingComplete
  <2>4. FetchOK'
    BY DEF IInv, FetchOK, FromOneText
  <2>5. WriteOK' /\ ReadOK'
    BY DEF IInv, WriteOK, OfOneImport, ReadOK
  <2> QED BY <2>2, <2>3, <2>4, <2>5 DEF IInv
<1> QED BY <1>1, EditStep, BeginStep, ListPageStep, LeaveStep, FetchStep, SkipStep, WriteStep,
           ReadStep DEF Next

(* What the import has listed, fetched and written so far, and what a reader *)
(* has loaded, fit together at every step, whatever is edited or killed.     *)
THEOREM Invariance == Spec => []IInv
<1>1. Init => IInv
  BY InitIInv
<1>2. IInv /\ [Next]_vars => IInv'
  BY NextIInv
<1> QED BY <1>1, <1>2, PTL DEF Spec

(* Every variable keeps its type; the files hold whole lists, nothing, or a  *)
(* torn last line.                                                           *)
THEOREM TypeCorrect == Spec => []TypeOK
<1>1. IInv => TypeOK
  BY DEF IInv
<1> QED BY <1>1, Invariance, PTL

(* However many answers list_tasks needs and whatever is created and deleted *)
(* between them, it lists no title twice and none is missing that was on the *)
(* wiki throughout, up to the limit.                                         *)
THEOREM ListingIsComplete == Spec => []ListingComplete
<1>1. IInv => ListingComplete
  BY DEF IInv, ListOK
<1> QED BY <1>1, Invariance, PTL

(* import_tasks loses no title and mixes up no texts, whichever fetches fail *)
(* and whatever is edited meanwhile.                                         *)
THEOREM FailuresAreSkipped == Spec => []FailuresSkipped
<1>1. IInv => FailuresSkipped
  <2> SUFFICES ASSUME IInv, pc = "open_tasks" PROVE FailuresSkipped
    BY DEF FailuresSkipped
  <2>1. /\ IsInjective(concepts)
        /\ \A t \in ToSet(concepts) : FromOneText(t)
        /\ ToSet(titles) = ToSet(concepts) \cup failed \cup ToSet(todo) /\ todo = <<>>
    BY DEF IInv, FetchOK, Writing
  <2>2. ToSet(todo) = {}
    BY <2>1 DEF ToSet
  <2> QED BY <2>1, <2>2 DEF FailuresSkipped, FromOneText
<1> QED BY <1>1, Invariance, PTL

-----------------------------------------------------------------------------
(* What the queries answer from the chunks of one import. *)
LEMMA QueriesOf ==
  ASSUME NEW t, reader.chunks \in Seq(Chunk)
  PROVE  LET b == BridgeOf(t, reader.chunks)
             all == ChunksForTask(t, None)
         IN  /\ LanguagesForTask(t) = b.languages
             /\ [i \in DOMAIN all |-> all[i].code] = b.chunk_ids
             /\ \A l \in Language : ChunksForTask(t, l) # <<>> <=> l \in b.languages
<1> DEFINE cs == reader.chunks
           b == BridgeOf(t, cs)
           g == Kept(cs, Places(t, cs))
           OfLanguage(l) == {i \in Places(t, cs) : l \in {None, cs[i].language}}
<1>1. g \in Seq(Chunk) /\ (\A i \in Places(t, cs) : cs[i] \in ToSet(g))
  BY GroupOf
<1>2. b = [task |-> t, languages |-> {g[i].language : i \in DOMAIN g},
           chunk_ids |-> [i \in DOMAIN g |-> g[i].code]]
  BY DEF BridgeOf
<1>3. ChunksForTask(t, None) = g
  <2>1. OfLanguage(None) = Places(t, cs)
    OBVIOUS
  <2> QED BY <2>1 DEF ChunksForTask
<1>4. \A l : ChunksForTask(t, l) = Kept(cs, OfLanguage(l))
  BY DEF ChunksForTask
<1>5. LanguagesForTask(t) = {c.language : c \in ToSet(g)}
  BY <1>3 DEF LanguagesForTask
<1>6. Places(t, cs) \in SUBSET DOMAIN cs
  BY DEF Places
<1>7. \A x \in ToSet(g) : \E i \in Places(t, cs) : x = cs[i]
  BY <1>6, KeptPlaces
<1> HIDE DEF g
<1>8. b.languages = {g[i].language : i \in DOMAIN g} /\ b.chunk_ids = [i \in DOMAIN g |-> g[i].code]
  BY <1>2
<1> HIDE DEF b
<1>9. LanguagesForTask(t) = b.languages
  BY <1>5, <1>8 DEF ToSet
<1>10. ASSUME NEW l \in Language
       PROVE  ChunksForTask(t, l) # <<>> <=> l \in b.languages
  <2> DEFINE k == Kept(cs, OfLanguage(l))
  <2>1. OfLanguage(l) \in SUBSET DOMAIN cs
    BY <1>6
  <2>2. OfLanguage(l) = {i \in Places(t, cs) : cs[i].language = l}
    BY NoneAssumption
  <2>3. /\ k \in Seq(Chunk)
        /\ \A x \in ToSet(k) : \E i \in OfLanguage(l) : x = cs[i]
        /\ \A i \in OfLanguage(l) : cs[i] \in ToSet(k)
    <3> HIDE DEF OfLanguage
    <3> QED BY <2>1, KeptPlaces
  <2> HIDE DEF k
  <2>4. k # <<>> <=> \E x \in ToSet(k) : TRUE
    BY <2>3 DEF ToSet
  <2>5. k # <<>> <=> \E i \in Places(t, cs) : cs[i].language = l
    <3> HIDE DEF OfLanguage
    <3> QED BY <2>2, <2>3, <2>4
  <2>6. b.languages = {x.language : x \in ToSet(g)}
    BY <1>5, <1>9
  <2>7. l \in b.languages <=> \E i \in Places(t, cs) : cs[i].language = l
    BY <2>6, <1>1, <1>7
  <2>8. ChunksForTask(t, l) = k
    BY <1>4 DEF k
  <2> QED BY <2>5, <2>7, <2>8
<1> QED BY <1>3, <1>8, <1>9, <1>10 DEF b

(* The ranking: no task has more languages than one before it. *)
LEMMA TopTasksRanked ==
  ASSUME reader.chunks \in Seq(Chunk)
  PROVE  \A i, j \in DOMAIN TopTasks :
           i < j => Cardinality(LanguagesForTask(TopTasks[i])) >= Cardinality(LanguagesForTask(TopTasks[j]))
<1> DEFINE cs == reader.chunks
           S == Tasks(cs)
           Many(t) == Cardinality(LanguagesForTask(t))
           R == {p \in Title \X Title : \/ Many(p[1]) > Many(p[2])
                                        \/ Many(p[1]) = Many(p[2]) /\ First(p[1], cs) < First(p[2], cs)}
           n == Cardinality(S)
           top == InOrder(S, R)
<1>1. S \subseteq Title /\ IsFiniteSet(S)
  BY TasksFinite
<1>2. \A t \in S : Many(t) \in Nat
  <2> TAKE t \in S
  <2> DEFINE g == ChunksForTask(t, None)
  <2>1. g \in Seq(Chunk)
    <3> DEFINE I == {i \in Places(t, cs) : None \in {None, cs[i].language}}
    <3>1. I \in SUBSET DOMAIN cs
      BY DEF Places
    <3>2. g = Kept(cs, I)
      BY DEF ChunksForTask
    <3> HIDE DEF I, g
    <3> QED BY <3>1, <3>2, KeptPlaces
  <2>2. LanguagesForTask(t) = {c.language : c \in ToSet(g)}
    BY DEF LanguagesForTask
  <2> HIDE DEF g
  <2> DEFINE T == LanguagesForTask(t)
             f == [i \in 1..Len(g) |-> g[i].language]
  <2>3. DOMAIN g = 1..Len(g) /\ IsFiniteSet(1..Len(g))
    BY <2>1, FS_Interval
  <2>4. f \in Surjection(1..Len(g), T)
    BY <2>2, <2>3 DEF ToSet, Surjection
  <2> HIDE DEF f, T
  <2>5. IsFiniteSet(T)
    BY <2>3, <2>4, FS_Surjection
  <2> QED BY <2>5, FS_CardinalityType DEF T
<1>3. \A t \in S : First(t, cs) \in Nat
  BY FirstOf
<1>4. \A t, u \in S : First(t, cs) = First(u, cs) => t = u
  BY FirstDiffers
<1>5. TopTasks = top
  BY DEF TopTasks
<1> HIDE DEF Many
<1>6. \A x, y \in S : <<x, y>> \in R <=>
        \/ Many(x) > Many(y)
        \/ Many(x) = Many(y) /\ First(x, cs) < First(y, cs)
  <2> HIDE DEF S
  <2> QED BY <1>1
<1> HIDE DEF R
<1>7. TotalOn(S, R)
  <2> HIDE DEF S
  <2>1. \A x \in S : <<x, x>> \notin R
    BY <1>2, <1>3, <1>6
  <2>2. \A x, y \in S : x = y \/ <<x, y>> \in R \/ <<y, x>> \in R
    <3> TAKE x \in S, y \in S
    <3>1. /\ Many(x) \in Nat /\ Many(y) \in Nat /\ First(x, cs) \in Nat /\ First(y, cs) \in Nat
          /\ First(x, cs) = First(y, cs) => x = y
      BY <1>2, <1>3, <1>4
    <3>2. /\ <<x, y>> \in R <=> \/ Many(x) > Many(y)
                                \/ Many(x) = Many(y) /\ First(x, cs) < First(y, cs)
          /\ <<y, x>> \in R <=> \/ Many(y) > Many(x)
                                \/ Many(y) = Many(x) /\ First(y, cs) < First(x, cs)
      BY <1>6
    <3> QED BY <3>1, <3>2
  <2>3. \A x, y, z \in S : <<x, y>> \in R /\ <<y, z>> \in R => <<x, z>> \in R
    <3> TAKE x \in S, y \in S, z \in S
    <3>1. /\ Many(x) \in Nat /\ Many(y) \in Nat /\ Many(z) \in Nat
          /\ First(x, cs) \in Nat /\ First(y, cs) \in Nat /\ First(z, cs) \in Nat
      BY <1>2, <1>3
    <3>2. /\ <<x, y>> \in R <=> \/ Many(x) > Many(y)
                                \/ Many(x) = Many(y) /\ First(x, cs) < First(y, cs)
          /\ <<y, z>> \in R <=> \/ Many(y) > Many(z)
                                \/ Many(y) = Many(z) /\ First(y, cs) < First(z, cs)
          /\ <<x, z>> \in R <=> \/ Many(x) > Many(z)
                                \/ Many(x) = Many(z) /\ First(x, cs) < First(z, cs)
      BY <1>6
    <3> QED BY <3>1, <3>2
  <2> QED BY <2>1, <2>2, <2>3 DEF TotalOn
<1>8. /\ n \in Nat /\ top \in [1..n -> S]
      /\ \A i, j \in 1..n : i < j => <<top[i], top[j]>> \in R
  <2> HIDE DEF S
  <2> QED BY <1>1, <1>7, InOrderSorted
<1> HIDE DEF top, n, S
<1>9. ASSUME NEW i \in 1..n, NEW j \in 1..n, i < j PROVE Many(top[i]) >= Many(top[j])
  <2>1. top[i] \in S /\ top[j] \in S /\ <<top[i], top[j]>> \in R
    BY <1>8, <1>9
  <2>2. Many(top[i]) \in Nat /\ Many(top[j]) \in Nat
    BY <2>1, <1>2
  <2> QED BY <2>1, <2>2, <1>6
<1> QED BY <1>5, <1>8, <1>9 DEF Many

(* A corpus that was loaded between two imports answers as the bridges of    *)
(* the import say, after any number of imports, some of them killed.         *)
THEOREM CorpusIsOfOneImport == Spec => []CorpusMatchesBridges
<1>1. IInv => CorpusMatchesBridges
  <2> SUFFICES ASSUME IInv, reader.pc = "loaded", reader.quiet PROVE CorpusMatchesBridges
    BY DEF CorpusMatchesBridges
  <2> DEFINE cs == reader.chunks
  <2>1. /\ OfOneImport /\ cs \in Seq(Chunk)
        /\ reader.tasks = ToSet(Lines(tasks_file)) /\ cs = Lines(chunks_file)
    BY DEF IInv, TypeOK, ReadOK, WriteOK
  <2>2. CASE tasks_file = None /\ chunks_file = None /\ bridges_file = None
    <3>1. Tasks(cs) = {}
      BY <2>1, <2>2 DEF Lines, Tasks
    <3> QED BY <3>1, <2>2 DEF CorpusMatchesBridges
  <2>3. CASE /\ tasks_file \in Seq(Title) /\ chunks_file \in Seq(Chunk)
             /\ Tasks(chunks_file) \subseteq ToSet(tasks_file)
             /\ bridges_file = Bridges(chunks_file)
    <3>1. cs = chunks_file /\ reader.tasks = ToSet(tasks_file)
      BY <2>1, <2>3, NoneAssumption DEF Lines
    <3>2. Tasks(cs) \subseteq reader.tasks /\ bridges_file = Bridges(cs)
      BY <2>3, <3>1
    <3>3. /\ \A b \in ToSet(bridges_file) : b.task \in Tasks(cs) /\ b = BridgeOf(b.task, cs)
          /\ \A t \in Tasks(cs) : BridgeOf(t, cs) \in ToSet(bridges_file) /\ BridgeOf(t, cs).task = t
      BY <2>1, <3>2, BridgesOf DEF BridgeOf
    <3>4. {b.task : b \in ToSet(bridges_file)} = Tasks(cs)
      BY <3>3
    <3>5. ASSUME NEW b \in ToSet(bridges_file)
          PROVE  /\ LanguagesForTask(b.task) = b.languages
                 /\ [i \in DOMAIN ChunksForTask(b.task, None) |->
                       ChunksForTask(b.task, None)[i].code] = b.chunk_ids
                 /\ \A l \in Language : ChunksForTask(b.task, l) # <<>> <=> l \in b.languages
      <4>1. b = BridgeOf(b.task, cs)
        BY <3>3
      <4> QED BY <4>1, <2>1, QueriesOf
    <3>6. ASSUME NEW b \in ToSet(bridges_file), NEW c \in ToSet(bridges_file),
                 NEW i \in DOMAIN TopTasks, NEW j \in DOMAIN TopTasks,
                 TopTasks[i] = b.task, TopTasks[j] = c.task, i < j
          PROVE  Cardinality(b.languages) >= Cardinality(c.languages)
      BY <2>1, <3>5, <3>6, TopTasksRanked
    <3> QED BY <3>2, <3>4, <3>5, <3>6 DEF CorpusMatchesBridges
  <2> QED BY <2>1, <2>2, <2>3 DEF OfOneImport
<1> QED BY <1>1, Invariance, PTL
=============================================================================
