--------------------------- MODULE OrderingProofs ---------------------------
(***************************************************************************)
(* What sorting and selecting do, for every finite set and every sequence, *)
(* and that functions defined by recursion exist.  It is proved by least   *)
(* elements: < is well-founded on the naturals.                            *)
(***************************************************************************)
EXTENDS Ordering, FiniteSetsExt, SequencesExt, FiniteSetTheorems, SequenceTheorems,
        WellFoundedInduction, TLAPS

(* A set of naturals that is not empty has a least element. *)
LEMMA NatMin ==
  ASSUME NEW T \in SUBSET Nat, T # {}
  PROVE  \E n \in T : \A m \in T : n <= m
<1> DEFINE R == {ss \in Nat \X Nat : ss[1] < ss[2]}
<1>1. IsWellFoundedOn(R, Nat)
  BY NatLessThanWellFounded DEF OpToRel
<1>2. PICK n \in T : \A m \in T : ~(<<m, n>> \in R)
  BY <1>1, WFMin
<1>3. ASSUME NEW m \in T PROVE n <= m
  <2>1. ~(m < n)
    BY <1>2
  <2> QED BY <2>1
<1> QED BY <1>3

(* Induction, for a set instead of a predicate. *)
LEMMA SetInduction ==
  ASSUME NEW S, 0 \in S, \A n \in Nat : n \in S => n + 1 \in S
  PROVE  Nat \subseteq S
<1> DEFINE T == Nat \ S
<1> SUFFICES ASSUME T # {} PROVE FALSE
  OBVIOUS
<1>1. PICK n \in T : \A m \in T : n <= m
  BY NatMin
<1>2. n # 0 /\ n - 1 \in Nat /\ n - 1 \notin T
  BY <1>1
<1> QED BY <1>2

(* Induction from all smaller numbers. *)
LEMMA SetStrongInduction ==
  ASSUME NEW S, \A n \in Nat : (\A k \in Nat : k < n => k \in S) => n \in S
  PROVE  Nat \subseteq S
<1> DEFINE T == Nat \ S
<1> SUFFICES ASSUME T # {} PROVE FALSE
  OBVIOUS
<1>1. PICK n \in T : \A m \in T : n <= m
  BY NatMin
<1>2. \A k \in Nat : k < n => k \in S
  BY <1>1
<1> QED BY <1>1, <1>2

(* The largest element of a bounded set of naturals. *)
LEMMA NatMax ==
  ASSUME NEW T \in SUBSET Nat, T # {}, NEW bound \in Nat, \A n \in T : n <= bound
  PROVE  \E n \in T : \A m \in T : m <= n
<1> DEFINE U == {n \in Nat : \A m \in T : m <= n}
<1>1. PICK n \in U : \A m \in U : n <= m
  <2>1. bound \in U
    OBVIOUS
  <2> HIDE DEF U
  <2> QED BY <2>1, NatMin, U \subseteq Nat DEF U
<1>2. n \in T
  <2> SUFFICES ASSUME n \notin T PROVE FALSE
    OBVIOUS
  <2>1. PICK m \in T : TRUE
    OBVIOUS
  <2>2. m < n /\ n - 1 \in Nat
    BY <2>1
  <2>3. \A k \in T : k <= n - 1
    OBVIOUS
  <2>4. n - 1 \in U
    BY <2>2, <2>3
  <2> QED BY <1>1, <2>4
<1> QED BY <1>2

(* The smaller of two numbers. *)
LEMMA MinOf ==
  ASSUME NEW m \in Nat, NEW n \in Nat
  PROVE  Min({m, n}) = IF m <= n THEN m ELSE n
<1>1. \E x \in {m, n} : \A y \in {m, n} : x <= y
  BY m <= n \/ n <= m
<1>2. Min({m, n}) = CHOOSE x \in {m, n} : \A y \in {m, n} : x <= y
  BY DEF Min
<1>3. Min({m, n}) \in {m, n} /\ \A y \in {m, n} : Min({m, n}) <= y
  BY <1>1, <1>2, Zenon
<1> HIDE DEF Min
<1> QED BY <1>3

-----------------------------------------------------------------------------
TotalOn(S, R) ==
  /\ \A x \in S : <<x, x>> \notin R
  /\ \A x, y \in S : x = y \/ <<x, y>> \in R \/ <<y, x>> \in R
  /\ \A x, y, z \in S : <<x, y>> \in R /\ <<y, z>> \in R => <<x, z>> \in R

(* InOrder lists each element once, in the order of the relation. *)
LEMMA InOrderSorted ==
  ASSUME NEW S, IsFiniteSet(S), NEW R, TotalOn(S, R)
  PROVE  /\ Cardinality(S) \in Nat
         /\ InOrder(S, R) \in [1..Cardinality(S) -> S]
         /\ \A x \in S : \E n \in 1..Cardinality(S) : InOrder(S, R)[n] = x
         /\ \A m, n \in 1..Cardinality(S) : m < n => <<InOrder(S, R)[m], InOrder(S, R)[n]>> \in R
         /\ \A m, n \in 1..Cardinality(S) : InOrder(S, R)[m] = InOrder(S, R)[n] => m = n
<1> DEFINE Before(x) == {y \in S : <<y, x>> \in R}
           k == Cardinality(S)
           rank == [x \in S |-> Cardinality(Before(x))]
<1>1. k \in Nat
  BY FS_CardinalityType
<1>2. ASSUME NEW x \in S PROVE Before(x) \subseteq S /\ IsFiniteSet(Before(x)) /\ Cardinality(Before(x)) \in Nat
  <2>1. Before(x) \in SUBSET S
    OBVIOUS
  <2>2. IsFiniteSet(Before(x))
    BY <2>1, FS_Subset
  <2> QED BY <2>1, <2>2, FS_CardinalityType
<1>3. ASSUME NEW x \in S, NEW y \in S, <<x, y>> \in R PROVE rank[x] < rank[y]
  <2>1. Before(x) \in SUBSET Before(y) /\ x \in Before(y) /\ x \notin Before(x)
    BY <1>3 DEF TotalOn
  <2>2. Cardinality(Before(x)) <= Cardinality(Before(y)) /\ Cardinality(Before(x)) # Cardinality(Before(y))
    BY <2>1, <1>2, FS_Subset
  <2> QED BY <2>2, <1>2
<1>4. ASSUME NEW x \in S PROVE rank[x] \in 0..(k - 1)
  <2>1. Before(x) \in SUBSET S /\ x \notin Before(x)
    BY DEF TotalOn
  <2>2. Cardinality(Before(x)) <= k /\ Cardinality(Before(x)) # k
    BY <2>1, <1>1, <1>2, FS_Subset
  <2> QED BY <2>2, <1>2, <1>1
<1>5. ASSUME NEW x \in S, NEW y \in S, rank[x] = rank[y] PROVE x = y
  <2>1. rank[x] \in Int /\ rank[y] \in Int
    BY <1>4, <1>1
  <2>2. CASE <<x, y>> \in R
    <3>1. rank[x] < rank[y]
      BY <2>2, <1>3
    <3> HIDE DEF rank
    <3> QED BY <3>1, <1>5, <2>1
  <2>3. CASE <<y, x>> \in R
    <3>1. rank[y] < rank[x]
      BY <2>3, <1>3
    <3> HIDE DEF rank
    <3> QED BY <3>1, <1>5, <2>1
  <2> QED BY <2>2, <2>3 DEF TotalOn
<1>6. rank \in Injection(S, 0..(k - 1))
  <2>1. rank \in [S -> 0..(k - 1)]
    BY <1>4
  <2> HIDE DEF rank
  <2> QED BY <2>1, <1>5 DEF Injection, IsInjective
<1>7. ASSUME NEW n \in 1..k PROVE \E x \in S : rank[x] = n - 1
  <2>1. IsFiniteSet(0..(k - 1)) /\ Cardinality(0..(k - 1)) = k
    <3> HIDE DEF k
    <3>1. k - 1 \in Int /\ 0 \in Int
      BY <1>1
    <3>2. IsFiniteSet(0..(k - 1))
      BY <3>1, FS_Interval
    <3>3. Cardinality(0..(k - 1)) = IF 0 > k - 1 THEN 0 ELSE k - 1 - 0 + 1
      BY <3>1, FS_Interval
    <3> QED BY <3>2, <3>3, <1>1
  <2> HIDE DEF rank
  <2>2. rank \in Surjection(S, 0..(k - 1))
    BY <1>6, <2>1, FS_Injection
  <2>3. n - 1 \in 0..(k - 1)
    BY <1>1
  <2> QED BY <2>2, <2>3 DEF Surjection
<1> DEFINE s == InOrder(S, R)
<1>8. ASSUME NEW n \in 1..k PROVE s[n] \in S /\ rank[s[n]] = n - 1
  <2>1. PICK x \in S : Cardinality({y \in S : <<y, x>> \in R}) = n - 1
    BY <1>7
  <2>2. s[n] = CHOOSE z \in S : Cardinality({y \in S : <<y, z>> \in R}) = n - 1
    BY DEF InOrder
  <2>3. s[n] \in S /\ Cardinality({y \in S : <<y, s[n]>> \in R}) = n - 1
    BY <2>1, <2>2
  <2> QED BY <2>3
<1>9. s \in [1..k -> S]
  <2> DEFINE e(n) == CHOOSE x \in S : Cardinality({y \in S : <<y, x>> \in R}) = n - 1
  <2>1. s = [n \in 1..k |-> e(n)]
    BY DEF InOrder
  <2> HIDE DEF s, e
  <2>2. \A n \in 1..k : e(n) \in S
    BY <2>1, <1>8
  <2> QED BY <2>1, <2>2
<1> HIDE DEF rank, s
<1>10. ASSUME NEW x \in S PROVE \E n \in 1..k : s[n] = x
  <2>1. rank[x] + 1 \in 1..k
    BY <1>1, <1>4
  <2>2. rank[s[rank[x] + 1]] = rank[x] /\ s[rank[x] + 1] \in S
    BY <2>1, <1>8, <1>4, <1>1
  <2> QED BY <2>1, <2>2, <1>5
<1>11. ASSUME NEW m \in 1..k, NEW n \in 1..k, m < n PROVE <<s[m], s[n]>> \in R
  <2>1. rank[s[m]] < rank[s[n]] /\ ~(rank[s[n]] < rank[s[m]]) /\ s[m] # s[n]
    BY <1>8, <1>1, <1>11
  <2> QED BY <2>1, <1>3, <1>8 DEF TotalOn
<1>12. ASSUME NEW m \in 1..k, NEW n \in 1..k, s[m] = s[n] PROVE m = n
  BY <1>12, <1>8, <1>1
<1> QED BY <1>1, <1>9, <1>10, <1>11, <1>12 DEF s

(* What is kept stood at the places asked for, each of them once. *)
KeepsPlaces(s, I, c, places) ==
  /\ c \in Nat /\ places \in [1..c -> I]
  /\ Kept(s, I) = [n \in 1..c |-> s[places[n]]]
  /\ \A x \in I : \E n \in 1..c : places[n] = x
  /\ \A m, n \in 1..c : places[m] = places[n] => m = n

LEMMA KeptBy ==
  ASSUME NEW T, NEW s \in Seq(T), NEW I \in SUBSET DOMAIN s
  PROVE  \E c, places : KeepsPlaces(s, I, c, places)
<1>1. PICK R : R = {p \in I \X I : p[1] < p[2]}
  OBVIOUS
<1>2. PICK places, c : places = InOrder(I, R) /\ c = Cardinality(I)
  OBVIOUS
<1>3. IsFiniteSet(I) /\ I \subseteq Nat
  <2>1. I \in SUBSET (1..Len(s)) /\ IsFiniteSet(1..Len(s))
    BY FS_Interval
  <2> QED BY <2>1, FS_Subset
<1>4. TotalOn(I, R)
  BY <1>1, <1>3 DEF TotalOn
<1>5. /\ c \in Nat /\ places \in [1..c -> I]
      /\ \A x \in I : \E n \in 1..c : places[n] = x
      /\ \A m, n \in 1..c : places[m] = places[n] => m = n
  BY <1>2, <1>3, <1>4, InOrderSorted
<1>6. Kept(s, I) = [n \in 1..c |-> s[places[n]]]
  <2>1. Kept(s, I) = [n \in DOMAIN places |-> s[places[n]]]
    BY <1>1, <1>2 DEF Kept
  <2>2. DOMAIN places = 1..c
    BY <1>5
  <2> QED BY <2>1, <2>2
<1>7. KeepsPlaces(s, I, c, places)
  BY <1>5, <1>6 DEF KeepsPlaces
<1> QED BY <1>7

(* What is kept of a list without repetitions has none either, and is what   *)
(* was at the places asked for.                                              *)
LEMMA KeptPlaces ==
  ASSUME NEW T, NEW s \in Seq(T), NEW I \in SUBSET DOMAIN s
  PROVE  /\ Kept(s, I) \in Seq(T)
         /\ \A x \in ToSet(Kept(s, I)) : \E i \in I : x = s[i]
         /\ \A i \in I : s[i] \in ToSet(Kept(s, I))
         /\ (\A i, j \in DOMAIN s : s[i] = s[j] => i = j) =>
              \A i, j \in DOMAIN Kept(s, I) : Kept(s, I)[i] = Kept(s, I)[j] => i = j
         /\ \A n \in DOMAIN Kept(s, I) : \E i \in I : Kept(s, I)[n] = s[i]
<1>1. PICK c, places : KeepsPlaces(s, I, c, places)
  BY KeptBy
<1>2. /\ c \in Nat /\ places \in [1..c -> I]
      /\ Kept(s, I) = [n \in 1..c |-> s[places[n]]]
      /\ \A x \in I : \E n \in 1..c : places[n] = x
      /\ \A m, n \in 1..c : places[m] = places[n] => m = n
  BY <1>1 DEF KeepsPlaces
<1> DEFINE k == Kept(s, I)
<1>3. k \in Seq(T) /\ DOMAIN k = 1..c /\ \A n \in 1..c : k[n] = s[places[n]] /\ places[n] \in I
  BY <1>2
<1> HIDE DEF k
<1>4. \A i \in I : \E n \in 1..c : k[n] = s[i]
  BY <1>2, <1>3
<1>5. \A n \in DOMAIN k : \E i \in I : k[n] = s[i]
  BY <1>3
<1>6. \A x \in ToSet(k) : \E i \in I : x = s[i]
  BY <1>5 DEF ToSet
<1>7. \A i \in I : s[i] \in ToSet(k)
  BY <1>3, <1>4 DEF ToSet
<1>8. ASSUME \A i, j \in DOMAIN s : s[i] = s[j] => i = j,
              NEW i \in DOMAIN k, NEW j \in DOMAIN k, k[i] = k[j]
       PROVE  i = j
  BY <1>2, <1>3, <1>8
<1> QED BY <1>3, <1>5, <1>6, <1>7, <1>8 DEF k

(* The numbers of an interval, in their order. *)
LEMMA InOrderInterval ==
  ASSUME NEW m \in Nat, NEW n \in Nat
  PROVE  LET I == (m + 1)..(m + n)
         IN  InOrder(I, {p \in I \X I : p[1] < p[2]}) = [i \in 1..n |-> m + i]
<1> DEFINE I == (m + 1)..(m + n)
           R == {p \in I \X I : p[1] < p[2]}
           Before(x) == {y \in I : <<y, x>> \in R}
<1>1. IsFiniteSet(I) /\ Cardinality(I) = n
  <2>1. /\ IsFiniteSet((m + 1)..(m + n))
        /\ Cardinality((m + 1)..(m + n)) = IF m + 1 > m + n THEN 0 ELSE (m + n) - (m + 1) + 1
    BY FS_Interval
  <2> QED BY <2>1
<1>2. ASSUME NEW x \in I PROVE Cardinality(Before(x)) = x - 1 - m
  <2>1. Before(x) = (m + 1)..(x - 1)
    OBVIOUS
  <2>2. Cardinality((m + 1)..(x - 1)) = IF m + 1 > x - 1 THEN 0 ELSE (x - 1) - (m + 1) + 1
    BY FS_Interval
  <2> HIDE DEF Before
  <2> QED BY <2>1, <2>2
<1>3. ASSUME NEW i \in 1..n
      PROVE  (CHOOSE x \in I : Cardinality(Before(x)) = i - 1) = m + i
  <2>1. \A x \in I : Cardinality(Before(x)) = i - 1 <=> x = m + i
    <3> HIDE DEF Before
    <3> QED BY <1>2
  <2>2. m + i \in I
    OBVIOUS
  <2> HIDE DEF I, R, Before
  <2> QED BY <2>1, <2>2
<1>4. InOrder(I, R) = [i \in 1..Cardinality(I) |-> CHOOSE x \in I : Cardinality(Before(x)) = i - 1]
  BY DEF InOrder
<1> DEFINE e(i) == CHOOSE x \in I : Cardinality(Before(x)) = i - 1
<1>5. InOrder(I, R) = [i \in 1..n |-> e(i)]
  BY <1>1, <1>4
<1> HIDE DEF e
<1>6. [i \in 1..n |-> e(i)] = [i \in 1..n |-> m + i]
  BY <1>3 DEF e
<1> QED BY <1>5, <1>6

(* Keeping consecutive places keeps a part of the list. *)
Part(s, m, n) == [i \in 1..n |-> s[m + i]]

LEMMA KeptInterval ==
  ASSUME NEW s, NEW m \in Nat, NEW n \in Nat
  PROVE  Kept(s, (m + 1)..(m + n)) = Part(s, m, n)
<1> DEFINE I == (m + 1)..(m + n)
           places == InOrder(I, {p \in I \X I : p[1] < p[2]})
<1>1. places = [i \in 1..n |-> m + i]
  BY InOrderInterval
<1>2. Kept(s, I) = [i \in DOMAIN places |-> s[places[i]]]
  BY DEF Kept
<1> HIDE DEF places, I
<1>3. DOMAIN places = 1..n /\ \A i \in 1..n : places[i] = m + i
  BY <1>1
<1> QED BY <1>2, <1>3 DEF I, Part

-----------------------------------------------------------------------------
(* A function on the naturals that is defined by recursion exists: start    *)
(* is its value at 0, step makes that at n from that at a smaller argument, *)
(* before[n].                                                               *)
Recursive(f, S, start, step, before) ==
  /\ f = [n \in Nat |-> f[n]]
  /\ \A n \in Nat : f[n] \in S
  /\ \A n \in Nat : f[n] = IF n = 0 THEN start ELSE step[<<n, f[before[n]]>>]

UpTo(g, m, S, start, step, before) ==
  \A n \in 0..m : g[n] \in S /\ g[n] = IF n = 0 THEN start ELSE step[<<n, g[before[n]]>>]

LEMMA RecursiveExists ==
  ASSUME NEW S, NEW start \in S, NEW step, NEW before,
         \A n \in Nat, x \in S : step[<<n, x>>] \in S,
         \A n \in Nat \ {0} : before[n] \in 0..(n - 1)
  PROVE  \E f : Recursive(f, S, start, step, before)
<1> DEFINE E == {m \in Nat : \E g : UpTo(g, m, S, start, step, before)}
<1>1. 0 \in E
  <2> DEFINE g == [n \in 0..0 |-> start]
  <2>1. UpTo(g, 0, S, start, step, before)
    BY DEF UpTo
  <2> HIDE DEF g
  <2> QED BY <2>1
<1>2. ASSUME NEW m \in Nat, m \in E PROVE m + 1 \in E
  <2>1. PICK g : UpTo(g, m, S, start, step, before)
    BY <1>2
  <2>2. PICK h : h = [n \in 0..(m + 1) |-> IF n = m + 1 THEN step[<<n, g[before[n]]>>] ELSE g[n]]
    OBVIOUS
  <2>3. ASSUME NEW n \in 0..(m + 1)
        PROVE  h[n] \in S /\ h[n] = IF n = 0 THEN start ELSE step[<<n, h[before[n]]>>]
    <3>1. n # 0 => /\ before[n] \in 0..m /\ before[n] # m + 1
                   /\ h[before[n]] = g[before[n]] /\ g[before[n]] \in S
      <4>1. n # 0 => before[n] \in 0..m
        OBVIOUS
      <4> QED BY <4>1, <2>1, <2>2 DEF UpTo
    <3>2. CASE n = m + 1
      BY <3>1, <3>2, <2>2
    <3>3. CASE n # m + 1
      <4>1. n \in 0..m /\ h[n] = g[n]
        BY <3>3, <2>2
      <4>2. g[n] \in S /\ g[n] = IF n = 0 THEN start ELSE step[<<n, g[before[n]]>>]
        BY <4>1, <2>1 DEF UpTo
      <4> QED BY <4>1, <4>2, <3>1
    <3> QED BY <3>2, <3>3
  <2>4. UpTo(h, m + 1, S, start, step, before)
    BY <2>3 DEF UpTo
  <2> QED BY <2>4
<1>3. \A m \in Nat : \E g : UpTo(g, m, S, start, step, before)
  <2> HIDE DEF E
  <2>1. Nat \subseteq E
    BY <1>1, <1>2, SetInduction
  <2> QED BY <2>1 DEF E
<1>4. PICK G : G = [m \in Nat |-> CHOOSE g : UpTo(g, m, S, start, step, before)]
  OBVIOUS
<1>5. \A m \in Nat : UpTo(G[m], m, S, start, step, before)
  BY <1>3, <1>4
(* They agree where they are defined. *)
<1> DEFINE A == {n \in Nat : \A k \in 0..n : \A i, j \in Nat : k <= i /\ k <= j => G[i][k] = G[j][k]}
<1>6. 0 \in A
  <2> SUFFICES ASSUME NEW i \in Nat, NEW j \in Nat PROVE G[i][0] = G[j][0]
    OBVIOUS
  <2>1. 0 \in 0..i /\ 0 \in 0..j
    OBVIOUS
  <2> QED BY <1>5, <2>1 DEF UpTo
<1>7. ASSUME NEW n \in Nat, n \in A PROVE n + 1 \in A
  <2> SUFFICES ASSUME NEW i \in Nat, NEW j \in Nat, n + 1 <= i, n + 1 <= j
               PROVE  G[i][n + 1] = G[j][n + 1]
    BY <1>7
  <2>1. before[n + 1] \in 0..n
    <3>1. n + 1 \in Nat \ {0} /\ (n + 1) - 1 = n
      OBVIOUS
    <3> QED BY <3>1
  <2>2. G[i][before[n + 1]] = G[j][before[n + 1]]
    BY <1>7, <2>1
  <2>3. n + 1 \in 0..i /\ n + 1 \in 0..j /\ n + 1 # 0
    OBVIOUS
  <2>4. /\ G[i][n + 1] = step[<<n + 1, G[i][before[n + 1]]>>]
        /\ G[j][n + 1] = step[<<n + 1, G[j][before[n + 1]]>>]
    BY <1>5, <2>3 DEF UpTo
  <2> QED BY <2>2, <2>4
<1>8. \A k, i, j \in Nat : k <= i /\ k <= j => G[i][k] = G[j][k]
  <2>1. Nat \subseteq A
    <3> HIDE DEF A
    <3> QED BY <1>6, <1>7, SetInduction
  <2> SUFFICES ASSUME NEW k \in Nat, NEW i \in Nat, NEW j \in Nat, k <= i, k <= j
               PROVE  G[i][k] = G[j][k]
    OBVIOUS
  <2>2. k \in A
    <3> HIDE DEF A
    <3> QED BY <2>1
  <2>3. k \in 0..k
    OBVIOUS
  <2>4. \A l \in 0..k : \A a, b \in Nat : l <= a /\ l <= b => G[a][l] = G[b][l]
    BY <2>2
  <2>5. \A a, b \in Nat : k <= a /\ k <= b => G[a][k] = G[b][k]
    <3> HIDE DEF A
    <3> QED BY <2>3, <2>4
  <2> QED BY <2>5
<1>9. PICK f : f = [n \in Nat |-> G[n][n]]
  OBVIOUS
<1>10. ASSUME NEW n \in Nat
       PROVE  f[n] \in S /\ f[n] = IF n = 0 THEN start ELSE step[<<n, f[before[n]]>>]
  <2>1. G[n][n] \in S /\ G[n][n] = IF n = 0 THEN start ELSE step[<<n, G[n][before[n]]>>]
    BY <1>5 DEF UpTo
  <2>2. ASSUME n # 0 PROVE f[before[n]] = G[n][before[n]]
    <3>1. before[n] \in Nat /\ before[n] <= n
      <4>1. before[n] \in 0..(n - 1)
        BY <2>2
      <4> QED BY <4>1
    <3>2. G[before[n]][before[n]] = G[n][before[n]]
      BY <1>8, <3>1
    <3> QED BY <3>1, <3>2, <1>9
  <2> QED BY <1>9, <2>1, <2>2
<1>11. f = [n \in Nat |-> f[n]]
  BY <1>9
<1> QED BY <1>10, <1>11 DEF Recursive
=============================================================================
