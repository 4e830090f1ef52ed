-------------------------- MODULE StoredDataProofs --------------------------
(***************************************************************************)
(* Theorems about TimeSeries, PagedListing and TwinMerge, for every size   *)
(* of a series and of a page, every clock, and maps nested to any depth.   *)
(* Recursive functions are followed step by step: the set of lengths, or   *)
(* of levels, up to which one of them is as it should be holds 0, and with *)
(* every number the next (Counting, LoopExists), which stands for the      *)
(* induction over data the provers lack.  The invariant of a walk says     *)
(* where in the listing a row that the client was not given has its place; *)
(* that of the merging, how many levels the two states have.               *)
(***************************************************************************)
EXTENDS TimeSeries, PagedListing, TwinMerge, FiniteSetTheorems, FunctionTheorems,
        SequenceTheorems, WellFoundedInduction, TLAPS

-----------------------------------------------------------------------------
(* Induction, with a set in the place of a predicate *)

\* A set of naturals has a least element.
LEMMA LeastExists ==
    ASSUME NEW S \in SUBSET Nat, S # {}
    PROVE  \E m \in S : \A k \in S : m <= k
<1>1. PICK m \in S : \A k \in S : ~(<<k, m>> \in OpToRel(<, Nat))
  BY NatLessThanWellFounded, WFMin
<1>2. \A k \in S : ~(k < m)
  BY <1>1 DEF OpToRel
<1> QED BY <1>2

\* What holds at first and goes on holding holds at last.
LEMMA Counting ==
    ASSUME NEW first \in Nat, NEW last \in Nat, NEW good,
           first \in good, \A m \in first + 1 .. last : m - 1 \in good => m \in good
    PROVE  first .. last \subseteq good
<1> DEFINE bad == {m \in first .. last : m \notin good}
<1> SUFFICES ASSUME bad # {} PROVE FALSE
  OBVIOUS
<1>1. bad \in SUBSET Nat
  OBVIOUS
<1>2. PICK m \in bad : \A k \in bad : m <= k
  <2> HIDE DEF bad
  <2> QED BY <1>1, LeastExists
<1>3. m \in first + 1 .. last
  OBVIOUS
<1>4. m - 1 \in good
  BY <1>2, <1>3
<1> QED BY <1>3, <1>4

-----------------------------------------------------------------------------
(* Greatest and least numbers *)

LEMMA GreatestOfFunction ==
    ASSUME NEW n \in Nat \ {0}, NEW f \in [1 .. n -> Int]
    PROVE  \E i \in 1 .. n : \A j \in 1 .. n : f[j] <= f[i]
<1> DEFINE good == {m \in 1 .. n : \E i \in 1 .. m : \A j \in 1 .. m : f[j] <= f[i]}
<1>1. 1 \in good
  OBVIOUS
<1>2. ASSUME NEW m \in 2 .. n, m - 1 \in good
      PROVE  m \in good
  <2>1. PICK i \in 1 .. m - 1 : \A j \in 1 .. m - 1 : f[j] <= f[i]
    BY <1>2
  <2>2. f[m] \in Int /\ f[i] \in Int /\ m \in 1 .. n
    OBVIOUS
  <2>3. CASE f[m] <= f[i]
    <3>1. \A j \in 1 .. m : f[j] <= f[i]
      BY <2>1, <2>3
    <3> QED BY <3>1, <2>2
  <2>4. CASE f[i] < f[m]
    <3>1. \A j \in 1 .. m : f[j] <= f[m]
      BY <2>1, <2>2, <2>4
    <3> QED BY <3>1, <2>2
  <2> QED BY <2>2, <2>3, <2>4
<1>3. n \in good
  <2> HIDE DEF good
  <2>1. 1 .. n \subseteq good
    <3>1. \A m \in 1 + 1 .. n : m - 1 \in good => m \in good
      BY <1>2
    <3> QED BY <1>1, <3>1, Counting
  <2>2. n \in 1 .. n
    OBVIOUS
  <2> QED BY <2>1, <2>2
<1> QED BY <1>3

LEMMA LeastOfFunction ==
    ASSUME NEW n \in Nat \ {0}, NEW f \in [1 .. n -> Int]
    PROVE  \E i \in 1 .. n : \A j \in 1 .. n : f[i] <= f[j]
<1> DEFINE g == [i \in 1 .. n |-> 0 - f[i]]
<1>1. g \in [1 .. n -> Int]
  OBVIOUS
<1>2. PICK i \in 1 .. n : \A j \in 1 .. n : g[j] <= g[i]
  <2> HIDE DEF g
  <2> QED BY <1>1, GreatestOfFunction
<1>3. \A j \in 1 .. n : f[i] <= f[j]
  BY <1>2
<1> QED BY <1>3

\* A finite set has a first and a last place for each of its members.
LEMMA Enumerated ==
    ASSUME NEW S, IsFiniteSet(S), S # {}
    PROVE  \E n \in Nat \ {0} : \E f \in [1 .. n -> S] : \A x \in S : \E i \in 1 .. n : f[i] = x
<1>1. PICK f : f \in Bijection(1 .. Cardinality(S), S)
  BY FS_CardinalityType, Fun_ExistsBij
<1>2. Cardinality(S) \in Nat \ {0}
  BY FS_CardinalityType, FS_EmptySet
<1> DEFINE n == Cardinality(S)
<1>3. f \in Bijection(1 .. n, S)
  BY <1>1
<1> HIDE DEF n
<1>4. f \in [1 .. n -> S]
  BY <1>3, Fun_BijectionProperties
<1>5. \A x \in S : \E i \in 1 .. n : f[i] = x
  BY <1>3 DEF Bijection, Surjection
<1> QED BY <1>2, <1>4, <1>5 DEF n

\* What Max and Min choose from a finite set of numbers.
LEMMA MaxOfSet ==
    ASSUME NEW S \in SUBSET Int, IsFiniteSet(S), S # {}
    PROVE  Max(S) \in S /\ \A x \in S : x <= Max(S)
<1>1. PICK n \in Nat \ {0} : \E f \in [1 .. n -> S] : \A x \in S : \E i \in 1 .. n : f[i] = x
  BY Enumerated
<1>f. PICK f \in [1 .. n -> S] : \A x \in S : \E i \in 1 .. n : f[i] = x
  BY <1>1
<1>2. f \in [1 .. n -> Int]
  OBVIOUS
<1>3. PICK i \in 1 .. n : \A j \in 1 .. n : f[j] <= f[i]
  BY <1>2, GreatestOfFunction
<1>4. f[i] \in S /\ \A x \in S : f[i] >= x
  BY <1>f, <1>3
<1> QED BY <1>4 DEF Max

LEMMA MinOfSet ==
    ASSUME NEW S \in SUBSET Int, IsFiniteSet(S), S # {}
    PROVE  Min(S) \in S /\ \A x \in S : Min(S) <= x
<1>1. PICK n \in Nat \ {0} : \E f \in [1 .. n -> S] : \A x \in S : \E i \in 1 .. n : f[i] = x
  BY Enumerated
<1>f. PICK f \in [1 .. n -> S] : \A x \in S : \E i \in 1 .. n : f[i] = x
  BY <1>1
<1>2. f \in [1 .. n -> Int]
  OBVIOUS
<1>3. PICK i \in 1 .. n : \A j \in 1 .. n : f[i] <= f[j]
  BY <1>2, LeastOfFunction
<1>4. f[i] \in S /\ \A x \in S : f[i] <= x
  BY <1>f, <1>3
<1> QED BY <1>4 DEF Min

-----------------------------------------------------------------------------
(* Loops.  A recursive function on 0 .. n stands for a loop over n items.   *)

\* The states of a loop over n items, from its first state on.
Loop(f, T, first, n, step) ==
    /\ f \in [0 .. n -> T]
    /\ f[0] = first
    /\ \A i \in 1 .. n : f[i] = step[<<f[i - 1], i>>]

LEMMA LoopExists ==
    ASSUME NEW T, NEW base \in T, NEW n \in Nat, NEW step \in [T \X (1 .. n) -> T]
    PROVE  \E f : Loop(f, T, base, n, step)
<1> DEFINE good == {m \in 0 .. n : \E f \in [0 .. m -> T] :
                       f[0] = base /\ \A i \in 1 .. m : f[i] = step[<<f[i - 1], i>>]}
<1>1. 0 \in good
  <2> DEFINE f == [i \in 0 .. 0 |-> base]
  <2>1. f \in [0 .. 0 -> T] /\ f[0] = base /\ 1 .. 0 = {} /\ 0 \in 0 .. n
    OBVIOUS
  <2> HIDE DEF f
  <2> QED BY <2>1
<1>2. ASSUME NEW m \in 1 .. n, m - 1 \in good
      PROVE  m \in good
  <2>1. PICK f \in [0 .. m - 1 -> T] :
             f[0] = base /\ \A i \in 1 .. m - 1 : f[i] = step[<<f[i - 1], i>>]
    BY <1>2
  <2> DEFINE new == step[<<f[m - 1], m>>]
             g == [i \in 0 .. m |-> IF i < m THEN f[i] ELSE new]
  <2>2. new \in T
    OBVIOUS
  <2>3. g \in [0 .. m -> T] /\ m \in 0 .. n /\ g[0] = base
    BY <2>1, <2>2
  <2>4. ASSUME NEW i \in 1 .. m
        PROVE  g[i] = step[<<g[i - 1], i>>]
    <3>1. i - 1 \in 0 .. m - 1 /\ g[i - 1] = f[i - 1]
      OBVIOUS
    <3>2. CASE i = m
      <4>1. g[m] = new
        OBVIOUS
      <4> HIDE DEF g
      <4> QED BY <3>1, <3>2, <4>1
    <3>3. CASE i # m
      <4>1. i \in 1 .. m - 1 /\ g[i] = f[i]
        BY <3>3
      <4> QED BY <2>1, <3>1, <4>1
    <3> QED BY <3>2, <3>3
  <2> HIDE DEF g
  <2> QED BY <2>3, <2>4
<1>3. n \in good
  <2> HIDE DEF good
  <2>1. 0 .. n \subseteq good
    <3>1. \A m \in 0 + 1 .. n : m - 1 \in good => m \in good
      BY <1>2
    <3> QED BY <1>1, <3>1, Counting
  <2> QED BY <2>1
<1> QED BY <1>3 DEF Loop

-----------------------------------------------------------------------------
(* Selecting from a sequence *)

\* The sequence r has the items of s at the places K, in their order; g gives
\* the place of each.
Selects(g, K, s, r) ==
    /\ g \in [1 .. Len(r) -> K]
    /\ \A a, b \in 1 .. Len(r) : a < b => g[a] < g[b]
    /\ \A k \in K : \E a \in 1 .. Len(r) : g[a] = k
    /\ \A a \in 1 .. Len(r) : r[a] = s[g[a]]

LEMMA SelectionGrows ==
    ASSUME NEW T, NEW s \in Seq(T), NEW m \in 1 .. Len(s), NEW r \in Seq(T),
           NEW K \in SUBSET (1 .. m - 1), NEW g, Selects(g, K, s, r)
    PROVE  \E h : Selects(h, K \cup {m}, s, Append(r, s[m]))
<1> DEFINE n == Len(r)
           q == Append(r, s[m])
           h == [a \in 1 .. n + 1 |-> IF a = n + 1 THEN m ELSE g[a]]
<1>1. n \in Nat /\ s[m] \in T /\ m \in Int
  OBVIOUS
<1>2. Len(q) = n + 1 /\ (\A a \in 1 .. n : q[a] = r[a]) /\ q[n + 1] = s[m]
  BY <1>1, AppendProperties
<1>3. g \in [1 .. n -> K] /\ K \subseteq 1 .. m - 1
  BY DEF Selects
<1>4. h \in [1 .. Len(q) -> K \cup {m}]
  <2> HIDE DEF q, n
  <2> QED BY <1>1, <1>2, <1>3
<1>5. \A a, b \in 1 .. Len(q) : a < b => h[a] < h[b]
  <2> HIDE DEF q
  <2> SUFFICES ASSUME NEW a \in 1 .. n + 1, NEW b \in 1 .. n + 1, a < b
               PROVE  h[a] < h[b]
    BY <1>2
  <2>1. a \in 1 .. n /\ h[a] = g[a] /\ g[a] \in 1 .. m - 1
    <3>1. a \in 1 .. n /\ a # n + 1
      BY <1>1
    <3> QED BY <3>1, <1>3
  <2>2. CASE b = n + 1
    BY <2>1, <2>2, <1>1
  <2>3. CASE b # n + 1
    <3>1. b \in 1 .. n /\ h[b] = g[b]
      BY <2>3, <1>1
    <3> QED BY <2>1, <3>1 DEF Selects
  <2> QED BY <2>2, <2>3
<1>6. \A k \in K \cup {m} : \E a \in 1 .. Len(q) : h[a] = k
  <2> HIDE DEF q
  <2>1. ASSUME NEW k \in K PROVE \E a \in 1 .. n + 1 : h[a] = k
    <3>1. PICK a \in 1 .. n : g[a] = k
      BY DEF Selects
    <3>2. a \in 1 .. n + 1 /\ h[a] = k
      BY <3>1, <1>1
    <3> QED BY <3>2
  <2>2. n + 1 \in 1 .. n + 1 /\ h[n + 1] = m
    BY <1>1
  <2> QED BY <2>1, <2>2, <1>2
<1>7. \A a \in 1 .. Len(q) : q[a] = s[h[a]]
  <2> HIDE DEF q
  <2> SUFFICES ASSUME NEW a \in 1 .. n + 1 PROVE q[a] = s[h[a]]
    BY <1>2
  <2>1. CASE a = n + 1
    BY <2>1, <1>1, <1>2
  <2>2. CASE a # n + 1
    <3>1. a \in 1 .. n /\ h[a] = g[a]
      BY <2>2, <1>1
    <3> QED BY <3>1, <1>2 DEF Selects
  <2> QED BY <2>1, <2>2
<1> HIDE DEF h
<1>8. Selects(h, K \cup {m}, s, q)
  <2> HIDE DEF q
  <2> QED BY <1>4, <1>5, <1>6, <1>7 DEF Selects
<1> QED BY <1>8

\* The loop that appends the items at the places K.
SelectingLoop(f, K, s) ==
    f = [i \in 0 .. Len(s) |->
           IF i = 0 THEN << >> ELSE IF i \in K THEN Append(f[i - 1], s[i]) ELSE f[i - 1]]

LEMMA SelectingLoopSteps ==
    ASSUME NEW T, NEW s \in Seq(T), NEW K, NEW f, SelectingLoop(f, K, s)
    PROVE  /\ f[0] = << >>
           /\ \A i \in 1 .. Len(s) :
                f[i] = IF i \in K THEN Append(f[i - 1], s[i]) ELSE f[i - 1]
<1>1. 0 \in 0 .. Len(s) /\ \A i \in 1 .. Len(s) : i \in 0 .. Len(s) /\ i # 0
  OBVIOUS
<1> DEFINE e(i) == IF i = 0 THEN << >> ELSE IF i \in K THEN Append(f[i - 1], s[i]) ELSE f[i - 1]
<1>2. f = [i \in 0 .. Len(s) |-> e(i)]
  BY DEF SelectingLoop
<1>3. \A i \in 0 .. Len(s) : f[i] = e(i)
  <2> HIDE DEF e
  <2> QED BY <1>2
<1> QED BY <1>1, <1>3

\* The places up to m.
UpTo(K, m) == {k \in K : k <= m}

LEMMA PlacesUpTo ==
    ASSUME NEW n \in Nat, NEW K \in SUBSET (1 .. n)
    PROVE  UpTo(K, 0) = {} /\ UpTo(K, n) = K
<1>1. \A k \in K : ~(k <= 0) /\ k <= n
  OBVIOUS
<1> QED BY <1>1, Zenon DEF UpTo

LEMMA OnePlaceMore ==
    ASSUME NEW n \in Nat, NEW K \in SUBSET (1 .. n), NEW m \in 1 .. n
    PROVE  /\ UpTo(K, m - 1) \in SUBSET (1 .. m - 1)
           /\ m \in K => UpTo(K, m) = UpTo(K, m - 1) \cup {m}
           /\ m \notin K => UpTo(K, m) = UpTo(K, m - 1)
<1>1. \A k \in K : k <= m - 1 => k \in 1 .. m - 1
  OBVIOUS
<1>2. \A k \in K : k <= m <=> k <= m - 1 \/ k = m
  OBVIOUS
<1> QED BY <1>1, <1>2, Zenon DEF UpTo

LEMMA LoopSelects ==
    ASSUME NEW T, NEW s \in Seq(T), NEW K \in SUBSET (1 .. Len(s)), NEW f, SelectingLoop(f, K, s)
    PROVE  f[Len(s)] \in Seq(T) /\ \E g : Selects(g, K, s, f[Len(s)])
<1> DEFINE n == Len(s)
           good == {m \in 0 .. n : f[m] \in Seq(T) /\ \E g : Selects(g, UpTo(K, m), s, f[m])}
<1>0. n \in Nat /\ K \in SUBSET (1 .. n)
  OBVIOUS
<1>1. 0 \in good
  <2>1. f[0] = << >>
    BY SelectingLoopSteps
  <2>2. Selects(<< >>, {}, s, << >>)
    BY DEF Selects
  <2>3. 0 \in 0 .. n /\ << >> \in Seq(T)
    BY <1>0
  <2> QED BY <1>0, <2>1, <2>2, <2>3, PlacesUpTo
<1>2. ASSUME NEW m \in 1 .. n, m - 1 \in good
      PROVE  m \in good
  <2>1. PICK g : Selects(g, UpTo(K, m - 1), s, f[m - 1])
    BY <1>2
  <2>2. m \in 0 .. n /\ f[m - 1] \in Seq(T) /\ s[m] \in T
    BY <1>0, <1>2
  <2>3. f[m] \in Seq(T) /\ \E h : Selects(h, UpTo(K, m), s, f[m])
    <3>1. CASE m \in K
      <4>1. f[m] = Append(f[m - 1], s[m])
        BY SelectingLoopSteps, <3>1
      <4>2. UpTo(K, m) = UpTo(K, m - 1) \cup {m} /\ UpTo(K, m - 1) \in SUBSET (1 .. m - 1)
        <5> HIDE DEF n
        <5> QED BY <1>0, <3>1, OnePlaceMore
      <4>3. f[m] \in Seq(T)
        BY <4>1, <2>2
      <4>4. \E h : Selects(h, UpTo(K, m - 1) \cup {m}, s, Append(f[m - 1], s[m]))
        BY <2>1, <2>2, <4>2, SelectionGrows
      <4> QED BY <4>1, <4>2, <4>3, <4>4
    <3>2. CASE m \notin K
      <4>1. f[m] = f[m - 1]
        BY SelectingLoopSteps, <3>2
      <4>2. UpTo(K, m) = UpTo(K, m - 1)
        <5> HIDE DEF n
        <5> QED BY <1>0, <3>2, OnePlaceMore
      <4> QED BY <2>1, <2>2, <4>1, <4>2
    <3> QED BY <3>1, <3>2
  <2> QED BY <2>2, <2>3
<1>3. n \in good
  <2> HIDE DEF good, n
  <2>1. 0 .. n \subseteq good
    <3>1. \A m \in 0 + 1 .. n : m - 1 \in good => m \in good
      BY <1>2
    <3> QED BY <1>0, <1>1, <3>1, Counting
  <2> QED BY <2>1, <1>0
<1> QED BY <1>0, <1>3, PlacesUpTo

LEMMA SelectingLoopExists ==
    ASSUME NEW T, NEW s \in Seq(T), NEW K
    PROVE  \E f : SelectingLoop(f, K, s)
<1> DEFINE n == Len(s)
           items == Seq(T)
           none == << >>
           step == [x \in items \X (1 .. n) |->
                      IF x[2] \in K THEN Append(x[1], s[x[2]]) ELSE x[1]]
           e(f, i) == IF i = 0 THEN << >> ELSE IF i \in K THEN Append(f[i - 1], s[i]) ELSE f[i - 1]
<1>1. n \in Nat /\ none \in items
  OBVIOUS
<1>2. step \in [items \X (1 .. n) -> items]
  OBVIOUS
<1>3a. PICK f : Loop(f, items, none, n, step)
  <2> HIDE DEF step, n, items, none
  <2> QED BY <1>1, <1>2, LoopExists
<1>3. f \in [0 .. n -> items] /\ f[0] = none /\ \A i \in 1 .. n : f[i] = step[<<f[i - 1], i>>]
  <2> HIDE DEF step, n, items, none
  <2> QED BY <1>3a DEF Loop
<1>4. ASSUME NEW i \in 0 .. n PROVE f[i] = e(f, i)
  <2>1. CASE i = 0
    BY <1>3, <2>1
  <2>2. CASE i # 0
    <3>1. i \in 1 .. n /\ i - 1 \in 0 .. n
      BY <1>1, <2>2
    <3>2. <<f[i - 1], i>> \in items \X (1 .. n)
      <4> HIDE DEF items, n
      <4> QED BY <3>1, <1>3
    <3>3. step[<<f[i - 1], i>>] = IF i \in K THEN Append(f[i - 1], s[i]) ELSE f[i - 1]
      <4> HIDE DEF items, n
      <4> QED BY <3>2
    <3> HIDE DEF step
    <3> QED BY <1>3, <2>2, <3>1, <3>3
  <2> QED BY <2>1, <2>2
<1>5. SelectingLoop(f, K, s)
  <2>1. f = [i \in 0 .. n |-> e(f, i)]
    <3> HIDE DEF e, items, n
    <3> QED BY <1>3, <1>4
  <2> QED BY <2>1 DEF SelectingLoop
<1> QED BY <1>5

-----------------------------------------------------------------------------
(* The points of a range *)

Point == [at : Time, value : Int]

LEMMA TimeSeriesConstants ==
    /\ SeriesLimit \in Nat /\ SeriesLimit >= 1
    /\ MaxLimit \in Nat /\ DefaultLimit \in Nat /\ DefaultLimit >= 1 /\ DefaultLimit <= MaxLimit
    /\ Minute \in Nat /\ Minute >= 1
    /\ FutureLimit \in Nat /\ Day \in Nat /\ MaxBatch \in Nat /\ MaxTime \in Nat /\ MaxWrites \in Nat
    /\ Time \subseteq Nat /\ None \notin Int
  BY TimeSeriesAssumption DEF TimeSeriesAssumption, Time

LEMMA TimesAreNumbers == \A t \in Time : t \in Int /\ t >= 0 /\ t <= MaxTime
  BY TimeSeriesConstants DEF Time

LEMMA PointsHaveNumbers == \A p \in Point : p.at \in Time /\ p.at \in Int /\ p.value \in Int
  BY TimesAreNumbers DEF Point

\* The places of the points in a range.
Within(points, range) ==
    {i \in 1 .. Len(points) : range[1] <= points[i].at /\ points[i].at <= range[2]}

LEMMA InRangeSelects ==
    ASSUME NEW points \in Seq(Point), NEW range
    PROVE  /\ InRange(points, range) \in Seq(Point)
           /\ \E g : Selects(g, Within(points, range), points, InRange(points, range))
<1> DEFINE K == Within(points, range)
           e(f, i) == IF i = 0 THEN << >>
                      ELSE IF range[1] <= points[i].at /\ points[i].at <= range[2]
                           THEN Append(f[i - 1], points[i])
                           ELSE f[i - 1]
           Is(f) == f = [i \in 0 .. Len(points) |-> e(f, i)]
           h == CHOOSE f : Is(f)
<1>1. InRange(points, range) = h[Len(points)]
  BY DEF InRange
<1>2. ASSUME NEW f PROVE Is(f) <=> SelectingLoop(f, K, points)
  <2>1. ASSUME NEW i \in 0 .. Len(points)
        PROVE  e(f, i) = IF i = 0 THEN << >>
                         ELSE IF i \in K THEN Append(f[i - 1], points[i]) ELSE f[i - 1]
    BY DEF Within
  <2> HIDE DEF e, K
  <2> QED BY <2>1 DEF SelectingLoop
<1>3. SelectingLoop(h, K, points)
  <2>1. \E f : SelectingLoop(f, K, points)
    BY SelectingLoopExists
  <2> HIDE DEF Is
  <2> QED BY <1>2, <2>1
<1>4. K \in SUBSET (1 .. Len(points))
  BY DEF Within
<1> HIDE DEF h, K
<1>5. h[Len(points)] \in Seq(Point) /\ \E g : Selects(g, K, points, h[Len(points)])
  BY <1>3, <1>4, LoopSelects
<1> QED BY <1>1, <1>5 DEF K
-----------------------------------------------------------------------------
(* Writing *)

\* What a stored series is.
IsSeries(s) == s \in Seq(Point) /\ Len(s) <= SeriesLimit /\ InTimeOrder(s)

\* No point of s is later than all the times T, and if a series may have two
\* points, some point of s is as late as any of them.
Covers(s, T) ==
    /\ \A i \in 1 .. Len(s) : \E t \in T : s[i].at <= t
    /\ SeriesLimit >= 2 => \A t \in T : \E i \in 1 .. Len(s) : t <= s[i].at

\* Sorting keeps the points.
LEMMA SortedHas ==
    ASSUME NEW points \in Seq(Point), NEW s \in Sorted(points)
    PROVE  /\ s \in Seq(Point) /\ Len(s) = Len(points) /\ InTimeOrder(s)
           /\ \A i \in 1 .. Len(points) : \E j \in 1 .. Len(s) : s[j] = points[i]
           /\ \A j \in 1 .. Len(s) : \E i \in 1 .. Len(points) : s[j] = points[i]
<1> DEFINE n == Len(points)
<1>1. n \in Nat /\ DOMAIN points = 1 .. n /\ points \in [1 .. n -> Point]
  OBVIOUS
<1> HIDE DEF n
<1>2. PICK p \in Bijection(1 .. n, 1 .. n) : s = [i \in 1 .. n |-> points[p[i]]]
  BY <1>1 DEF Sorted
<1>3. /\ p \in [1 .. n -> 1 .. n]
      /\ \A i \in 1 .. n : \E j \in 1 .. n : p[j] = i
  BY DEF Bijection, Injection, Surjection
<1>4. s \in [1 .. n -> Point]
  BY <1>1, <1>2, <1>3
<1>5. s \in Seq(Point) /\ Len(s) = n
  BY <1>1, <1>4
<1>6. InTimeOrder(s)
  BY DEF Sorted
<1>7. \A i \in 1 .. n : \E j \in 1 .. n : s[j] = points[i]
  <2> SUFFICES ASSUME NEW i \in 1 .. n PROVE \E j \in 1 .. n : s[j] = points[i]
    OBVIOUS
  <2>1. PICK j \in 1 .. n : p[j] = i
    BY <1>3
  <2>2. s[j] = points[i]
    BY <1>2, <2>1
  <2> QED BY <2>2
<1>8. \A j \in 1 .. n : \E i \in 1 .. n : s[j] = points[i]
  BY <1>2, <1>3
<1> QED BY <1>5, <1>6, <1>7, <1>8 DEF n

\* What is left of a series with one more point: all but perhaps the first.
LEMMA TrimmedHas ==
    ASSUME NEW s \in Seq(Point), Len(s) <= SeriesLimit, NEW p \in Point
    PROVE  LET t == Trimmed(Append(s, p))
           IN  /\ t \in Seq(Point) /\ Len(t) <= SeriesLimit
               /\ \A j \in 1 .. Len(t) : t[j] = p \/ \E i \in 1 .. Len(s) : t[j] = s[i]
               /\ \E j \in 1 .. Len(t) : t[j] = p
               /\ SeriesLimit >= 2 /\ s # << >> => \E j \in 1 .. Len(t) : t[j] = s[Len(s)]
<1> DEFINE n == Len(s)
           q == Append(s, p)
           t == Trimmed(q)
<1>1. n \in Nat /\ SeriesLimit \in Nat /\ SeriesLimit >= 1
  BY TimeSeriesConstants
<1>2. /\ q \in Seq(Point) /\ Len(q) = n + 1 /\ q[n + 1] = p
      /\ \A i \in 1 .. n : q[i] = s[i]
  BY AppendProperties
<1>3. s # << >> => n \in 1 .. n /\ q[n] = s[n]
  BY <1>1, <1>2
<1>4. CASE n + 1 <= SeriesLimit
  <2>1. t = q
    BY <1>2, <1>4 DEF Trimmed
  <2>2. n + 1 \in 1 .. Len(q) /\ Len(q) <= SeriesLimit
    BY <1>1, <1>2, <1>4
  <2>3. \A j \in 1 .. Len(q) : j \in 1 .. n \/ j = n + 1
    BY <1>1, <1>2
  <2>4. s # << >> => n \in 1 .. Len(q)
    BY <1>1, <1>2, <1>3
  <2> HIDE DEF n, q, t
  <2>5. \A j \in 1 .. Len(q) : q[j] = p \/ \E i \in 1 .. n : q[j] = s[i]
    BY <1>2, <2>3
  <2> QED BY <1>2, <1>3, <2>1, <2>2, <2>4, <2>5 DEF t, q, n
<1>5. CASE n + 1 > SeriesLimit
  <2>1. n = SeriesLimit
    BY <1>1, <1>5
  <2>2. t = SubSeq(q, 2, n + 1)
    BY <1>1, <1>2, <2>1 DEF Trimmed
  <2>3. \A i \in 2 .. n + 1 : q[i] \in Point
    BY <1>1, <1>2
  <2>4. /\ t \in Seq(Point) /\ Len(t) = n
        /\ \A j \in 1 .. n : t[j] = q[j + 1]
    <3> HIDE DEF n, q, t
    <3>1. /\ SubSeq(q, 2, n + 1) \in Seq(Point)
          /\ Len(SubSeq(q, 2, n + 1)) = IF 2 <= n + 1 THEN n + 1 - 2 + 1 ELSE 0
          /\ \A i \in 1 .. n + 1 - 2 + 1 : SubSeq(q, 2, n + 1)[i] = q[2 + i - 1]
      BY <1>1, <2>3, SubSeqProperties
    <3> QED BY <1>1, <2>1, <2>2, <3>1
  <2> HIDE DEF t, q, n
  <2>5. \A j \in 1 .. n : t[j] = p \/ \E i \in 1 .. n : t[j] = s[i]
    <3> SUFFICES ASSUME NEW j \in 1 .. n PROVE t[j] = p \/ \E i \in 1 .. n : t[j] = s[i]
      OBVIOUS
    <3>1. CASE j = n
      BY <3>1, <1>1, <1>2, <2>4
    <3>2. CASE j # n
      <4>1. j + 1 \in 1 .. n
        BY <3>2, <1>1
      <4> QED BY <4>1, <1>2, <2>4
    <3> QED BY <3>1, <3>2
  <2>6. n \in 1 .. n /\ t[n] = p
    BY <1>1, <1>2, <2>1, <2>4
  <2>7. SeriesLimit >= 2 => n - 1 \in 1 .. n /\ t[n - 1] = s[n]
    <3> SUFFICES ASSUME SeriesLimit >= 2 PROVE n - 1 \in 1 .. n /\ t[n - 1] = s[n]
      OBVIOUS
    <3>1. n - 1 \in 1 .. n /\ n - 1 + 1 = n /\ n \in 1 .. n
      BY <1>1, <2>1
    <3> QED BY <3>1, <1>2, <2>4
  <2> QED BY <2>1, <2>4, <2>5, <2>6, <2>7, <1>1 DEF t, q, n
<1> QED BY <1>1, <1>4, <1>5

\* One point more: the latest time is still there.
LEMMA PointWritten ==
    ASSUME NEW T \in SUBSET Time, NEW s, IsSeries(s), Covers(s, T),
           NEW p \in Point, NEW w \in Written(s, p)
    PROVE  IsSeries(w) /\ Covers(w, T \cup {p.at})
<1> DEFINE t == Trimmed(Append(s, p))
<1>1. /\ s \in Seq(Point) /\ Len(s) <= SeriesLimit /\ InTimeOrder(s)
      /\ Len(s) \in Nat /\ DOMAIN s = 1 .. Len(s)
  BY DEF IsSeries
<1>2. /\ t \in Seq(Point) /\ Len(t) <= SeriesLimit
      /\ \A j \in 1 .. Len(t) : t[j] = p \/ \E i \in 1 .. Len(s) : t[j] = s[i]
      /\ \E j \in 1 .. Len(t) : t[j] = p
      /\ SeriesLimit >= 2 /\ s # << >> => \E j \in 1 .. Len(t) : t[j] = s[Len(s)]
  BY <1>1, TrimmedHas
<1>3. w \in Sorted(t)
  BY DEF Written
<1> HIDE DEF t
<1>4. /\ w \in Seq(Point) /\ Len(w) = Len(t) /\ InTimeOrder(w)
      /\ \A i \in 1 .. Len(t) : \E j \in 1 .. Len(w) : w[j] = t[i]
      /\ \A j \in 1 .. Len(w) : \E i \in 1 .. Len(t) : w[j] = t[i]
  BY <1>2, <1>3, SortedHas
<1>5. IsSeries(w)
  BY <1>2, <1>4 DEF IsSeries
<1>6. \A i \in 1 .. Len(w) : \E u \in T \cup {p.at} : w[i].at <= u
  <2> SUFFICES ASSUME NEW i \in 1 .. Len(w) PROVE \E u \in T \cup {p.at} : w[i].at <= u
    OBVIOUS
  <2>1. PICK j \in 1 .. Len(t) : w[i] = t[j]
    BY <1>4
  <2>2. CASE t[j] = p
    <3>1. w[i].at <= p.at
      BY <2>1, <2>2, PointsHaveNumbers
    <3> QED BY <3>1
  <2>3. CASE \E k \in 1 .. Len(s) : t[j] = s[k]
    BY <2>1, <2>3 DEF Covers
  <2> QED BY <1>2, <2>2, <2>3
<1>7. SeriesLimit >= 2 => \A u \in T \cup {p.at} : \E i \in 1 .. Len(w) : u <= w[i].at
  <2> SUFFICES ASSUME SeriesLimit >= 2, NEW u \in T \cup {p.at}
               PROVE  \E i \in 1 .. Len(w) : u <= w[i].at
    OBVIOUS
  <2>1. u \in Int /\ p.at \in Int /\ \A i \in 1 .. Len(s) : s[i].at \in Int
    <3>1. \A i \in 1 .. Len(s) : s[i] \in Point
      BY <1>1
    <3>2. p.at \in Time /\ T \subseteq Time
      BY PointsHaveNumbers
    <3> QED BY <3>1, <3>2, TimesAreNumbers, PointsHaveNumbers
  <2>2. \E j \in 1 .. Len(t) : u <= t[j].at
    <3>1. CASE u = p.at
      BY <1>2, <2>1, <3>1
    <3>2. CASE u \in T
      <4>1. PICK k \in 1 .. Len(s) : u <= s[k].at
        BY <3>2 DEF Covers
      <4>2. Len(s) \in 1 .. Len(s) /\ s # << >>
        BY <1>1
      <4>3. s[k].at <= s[Len(s)].at
        <5>1. CASE k = Len(s)
          BY <5>1, <2>1, <4>2
        <5>2. CASE k # Len(s)
          <6>0. Len(s) \in Int /\ k \in Int /\ k <= Len(s)
            BY <1>1
          <6>1. k < Len(s)
            BY <6>0, <5>2
          <6>2. k \in DOMAIN s /\ Len(s) \in DOMAIN s
            BY <1>1, <4>2
          <6> QED BY <6>1, <6>2, <1>1 DEF InTimeOrder
        <5> QED BY <5>1, <5>2
      <4>4. u <= s[Len(s)].at
        BY <2>1, <4>1, <4>2, <4>3
      <4> QED BY <1>2, <4>2, <4>4
    <3> QED BY <3>1, <3>2
  <2>3. PICK j \in 1 .. Len(t) : u <= t[j].at
    BY <2>2
  <2>4. PICK i \in 1 .. Len(w) : w[i] = t[j]
    BY <1>4
  <2> QED BY <2>3, <2>4
<1> QED BY <1>5, <1>6, <1>7 DEF Covers

\* The states of Write's loop.
WritingLoop(results, batch) ==
    /\ results[0] = {series}
    /\ \A i \in 1 .. Len(batch) :
         results[i] = UNION {Written(s, batch[i]) : s \in results[i - 1]}

LEMMA WrittenIsTyped ==
    ASSUME NEW s \in Seq(Point), NEW p \in Point
    PROVE  Written(s, p) \subseteq Seq(Point)
<1>1. Append(s, p) \in Seq(Point) /\ Len(Append(s, p)) \in Nat
  BY AppendProperties
<1>2. Trimmed(Append(s, p)) \in Seq(Point)
  <2> DEFINE q == Append(s, p)
             m == Len(q) - SeriesLimit + 1
  <2>1. CASE Len(q) <= SeriesLimit
    BY <1>1, <2>1 DEF Trimmed
  <2>2. CASE ~(Len(q) <= SeriesLimit)
    <3>1. m \in Int /\ m >= 1
      BY <1>1, <2>2, TimeSeriesConstants
    <3>2. \A i \in m .. Len(q) : q[i] \in Point
      <4> HIDE DEF q
      <4> QED BY <1>1, <3>1 DEF q
    <3>3. SubSeq(q, m, Len(q)) \in Seq(Point)
      <4> HIDE DEF q, m
      <4> QED BY <1>1, <3>1, <3>2, SubSeqProperties DEF q
    <3> QED BY <2>2, <3>3 DEF Trimmed
  <2> QED BY <2>1, <2>2
<1>3. \A w \in Sorted(Trimmed(Append(s, p))) : w \in Seq(Point)
  BY <1>2, SortedHas
<1> QED BY <1>3 DEF Written

LEMMA AllWrittenLoops ==
    ASSUME NEW batch \in Seq(Point), series \in Seq(Point)
    PROVE  \E results : WritingLoop(results, batch) /\ AllWritten(batch) = results[Len(batch)]
<1> DEFINE n == Len(batch)
           T == SUBSET Seq(Point)
           first == {series}
           step == [x \in T \X (1 .. n) |-> UNION {Written(s, batch[x[2]]) : s \in x[1]}]
           e(f, i) == IF i = 0 THEN {series} ELSE UNION {Written(s, batch[i]) : s \in f[i - 1]}
           Is(f) == f = [i \in 0 .. n |-> e(f, i)]
           h == CHOOSE f : Is(f)
<1>1. n \in Nat /\ first \in T /\ \A i \in 1 .. n : batch[i] \in Point
  OBVIOUS
<1>2. step \in [T \X (1 .. n) -> T]
  <2>1. ASSUME NEW x \in T \X (1 .. n)
        PROVE  UNION {Written(s, batch[x[2]]) : s \in x[1]} \in T
    <3>1. x[1] \in SUBSET Seq(Point) /\ batch[x[2]] \in Point
      BY <1>1
    <3>2. \A s \in x[1] : Written(s, batch[x[2]]) \subseteq Seq(Point)
      BY <3>1, WrittenIsTyped
    <3> QED BY <3>2
  <2> HIDE DEF T, n
  <2> QED BY <2>1
<1>3a. PICK f : Loop(f, T, first, n, step)
  <2> HIDE DEF step, n, T, first
  <2> QED BY <1>1, <1>2, LoopExists
<1>3. f \in [0 .. n -> T] /\ f[0] = first /\ \A i \in 1 .. n : f[i] = step[<<f[i - 1], i>>]
  <2> HIDE DEF step, n, T, first
  <2> QED BY <1>3a DEF Loop
<1>4. ASSUME NEW i \in 0 .. n PROVE f[i] = e(f, i)
  <2>1. CASE i = 0
    BY <1>3, <2>1
  <2>2. CASE i # 0
    <3>1. i \in 1 .. n /\ i - 1 \in 0 .. n
      BY <1>1, <2>2
    <3>2. <<f[i - 1], i>> \in T \X (1 .. n)
      <4> HIDE DEF T, n
      <4> QED BY <3>1, <1>3
    <3>3. step[<<f[i - 1], i>>] = UNION {Written(s, batch[i]) : s \in f[i - 1]}
      <4> HIDE DEF T, n
      <4> QED BY <3>2
    <3> HIDE DEF step
    <3> QED BY <1>3, <2>2, <3>1, <3>3
  <2> QED BY <2>1, <2>2
<1>5. Is(f)
  <2> HIDE DEF e, T, n
  <2> QED BY <1>3, <1>4
<1>6. Is(h)
  <2> HIDE DEF Is
  <2> QED BY <1>5
<1>7. AllWritten(batch) = h[Len(batch)]
  BY DEF AllWritten
<1>8. WritingLoop(h, batch)
  <2>1. \A i \in 0 .. n : h[i] = e(h, i)
    <3> HIDE DEF e, h
    <3> QED BY <1>6
  <2>2. 0 \in 0 .. n /\ \A i \in 1 .. n : i \in 0 .. n /\ i # 0
    BY <1>1
  <2> HIDE DEF h
  <2> QED BY <2>1, <2>2 DEF WritingLoop
<1> HIDE DEF h
<1> QED BY <1>7, <1>8

\* A batch: whatever order its points are sorted into.
LEMMA BatchWritten ==
    ASSUME NEW batch \in Seq(Point), NEW T \in SUBSET Time, IsSeries(series), Covers(series, T),
           NEW w \in AllWritten(batch)
    PROVE  IsSeries(w) /\ Covers(w, T \cup {batch[i].at : i \in 1 .. Len(batch)})
<1> DEFINE n == Len(batch)
           times(m) == T \cup {batch[i].at : i \in 1 .. m}
<1>1. n \in Nat /\ \A i \in 1 .. n : batch[i] \in Point /\ batch[i].at \in Time
  BY PointsHaveNumbers
<1>2. PICK results : WritingLoop(results, batch) /\ AllWritten(batch) = results[n]
  BY AllWrittenLoops DEF IsSeries
<1> DEFINE good == {m \in 0 .. n : \A s \in results[m] : IsSeries(s) /\ Covers(s, times(m))}
<1>3. 0 \in good
  <2>1. times(0) = T
    OBVIOUS
  <2>2. results[0] = {series} /\ 0 \in 0 .. n
    BY <1>1, <1>2 DEF WritingLoop
  <2> HIDE DEF times
  <2> QED BY <2>1, <2>2
<1>4. ASSUME NEW m \in 1 .. n, m - 1 \in good
      PROVE  m \in good
  <2>1. times(m) = times(m - 1) \cup {batch[m].at} /\ times(m - 1) \in SUBSET Time
    <3>1. \A i : i \in 1 .. m <=> i \in 1 .. m - 1 \/ i = m
      BY <1>1
    <3>2. \A i \in 1 .. m - 1 : i \in 1 .. n
      BY <1>1
    <3> QED BY <3>1, <3>2, <1>1
  <2>2. results[m] = UNION {Written(s, batch[m]) : s \in results[m - 1]}
    BY <1>2 DEF WritingLoop
  <2>3. \A s \in results[m - 1] : IsSeries(s) /\ Covers(s, times(m - 1))
    BY <1>4
  <2> HIDE DEF times
  <2>4. ASSUME NEW v \in results[m] PROVE IsSeries(v) /\ Covers(v, times(m))
    <3>1. PICK s \in results[m - 1] : v \in Written(s, batch[m])
      BY <2>2
    <3>2. batch[m] \in Point /\ IsSeries(s) /\ Covers(s, times(m - 1))
      BY <1>1, <2>3
    <3> QED BY <2>1, <3>1, <3>2, PointWritten
  <2>5. m \in 0 .. n
    BY <1>1
  <2> QED BY <2>4, <2>5
<1>5. n \in good
  <2> HIDE DEF good, n
  <2>1. 0 .. n \subseteq good
    <3>1. \A m \in 0 + 1 .. n : m - 1 \in good => m \in good
      BY <1>4
    <3> QED BY <1>1, <1>3, <3>1, Counting
  <2> QED BY <2>1, <1>1
<1> QED BY <1>2, <1>5

-----------------------------------------------------------------------------
(* The invariant of a series *)

SeriesInv == SeriesTypeOK /\ Covers(series, {newest} \ {None})

LEMMA SeriesInvHas ==
    ASSUME SeriesInv
    PROVE  /\ IsSeries(series) /\ series \in Seq(Point) /\ now \in Time
           /\ writes \in 0 .. MaxWrites /\ newest \in Time \cup {None}
           /\ Covers(series, {newest} \ {None})
BY DEF SeriesInv, SeriesTypeOK, IsSeries, Point

LEMMA SeriesInvMade ==
    ASSUME IsSeries(series), now \in Time, writes \in 0 .. MaxWrites, newest \in Time \cup {None},
           Covers(series, {newest} \ {None})
    PROVE  SeriesInv
BY DEF SeriesInv, SeriesTypeOK, IsSeries, Point

LEMMA SeriesInvInit == SeriesInit => SeriesInv
<1> SUFFICES ASSUME SeriesInit PROVE SeriesInv
  OBVIOUS
<1>1. /\ now = 0 /\ series = << >> /\ writes = 0 /\ newest = None
  BY DEF SeriesInit
<1>2. 0 \in Time /\ 0 \in 0 .. MaxWrites /\ 0 <= SeriesLimit
  BY TimeSeriesConstants DEF Time
<1>3. IsSeries(<< >>)
  <2>1. << >> \in Seq(Point) /\ Len(<< >>) = 0 /\ DOMAIN << >> = {}
    OBVIOUS
  <2> QED BY <1>2, <2>1 DEF IsSeries, InTimeOrder
<1>4. Covers(<< >>, {newest} \ {None})
  <2>1. Len(<< >>) = 0 /\ 1 .. 0 = {} /\ {newest} \ {None} = {}
    BY <1>1
  <2> QED BY <2>1 DEF Covers
<1> QED BY <1>1, <1>2, <1>3, <1>4, SeriesInvMade

\* What is covered by times is covered by the latest of them.
LEMMA LatestCovers ==
    ASSUME NEW T \in SUBSET Time, IsFiniteSet(T), T # {}, NEW s \in Seq(Point), Covers(s, T)
    PROVE  Max(T) \in Time /\ Covers(s, {Max(T)})
<1>1. T \in SUBSET Int
  BY TimesAreNumbers
<1>2. Max(T) \in T /\ \A t \in T : t <= Max(T)
  BY <1>1, MaxOfSet
<1> DEFINE m == Max(T)
<1>3. m \in Time /\ m \in Int /\ m \in T /\ \A t \in T : t \in Int /\ t <= m
  BY <1>1, <1>2
<1> HIDE DEF m
<1>4. \A i \in 1 .. Len(s) : s[i].at \in Int
  BY PointsHaveNumbers
<1>5. \A i \in 1 .. Len(s) : s[i].at <= m
  <2> SUFFICES ASSUME NEW i \in 1 .. Len(s) PROVE s[i].at <= m
    OBVIOUS
  <2>1. PICK t \in T : s[i].at <= t
    BY DEF Covers
  <2>2. t \in Int /\ t <= m /\ s[i].at \in Int /\ m \in Int
    BY <1>3, <1>4
  <2> QED BY <2>1, <2>2
<1>6. Covers(s, {m})
  BY <1>3, <1>5 DEF Covers
<1> QED BY <1>3, <1>6 DEF m

LEMMA WriteBatchKeeps ==
    ASSUME SeriesInv, NEW points \in Seq([at : Time \cup {None}, value : Int]), points # << >>,
           WriteBatch(points)
    PROVE  SeriesInv'
<1> DEFINE n == Len(points)
           batch == [i \in DOMAIN points |-> Stamped(points[i])]
           old == {newest} \ {None}
           T == old \cup {batch[i].at : i \in 1 .. n}
<1>1. /\ n \in Nat /\ n >= 1 /\ DOMAIN points = 1 .. n
      /\ \A i \in 1 .. n : points[i] \in [at : Time \cup {None}, value : Int]
  <2> DEFINE P == [at : Time \cup {None}, value : Int]
  <2>1. points \in Seq(P)
    OBVIOUS
  <2> HIDE DEF P
  <2>2. Len(points) \in Nat /\ DOMAIN points = 1 .. Len(points) /\ Len(points) # 0
    BY <2>1, EmptySeq
  <2>3. \A i \in 1 .. Len(points) : points[i] \in P
    BY <2>1
  <2>4. Len(points) >= 1
    BY <2>2
  <2> QED BY <2>2, <2>3, <2>4 DEF P
<1>2. \A i \in 1 .. n : Stamped(points[i]) \in Point
  <2> SUFFICES ASSUME NEW i \in 1 .. n PROVE Stamped(points[i]) \in Point
    OBVIOUS
  <2> DEFINE p == points[i]
  <2>1. p \in [at : Time \cup {None}, value : Int]
    BY <1>1
  <2> HIDE DEF p
  <2>2. CASE p.at = None
    BY <2>1, <2>2, SeriesInvHas DEF Stamped, Point, p
  <2>3. CASE p.at # None
    BY <2>1, <2>3 DEF Stamped, Point, p
  <2> QED BY <2>2, <2>3
<1>3. batch \in Seq(Point) /\ Len(batch) = n
  <2> HIDE DEF n
  <2>1. batch \in [1 .. n -> Point]
    BY <1>1, <1>2
  <2> QED BY <1>1, <2>1
<1>4. /\ series' \in AllWritten(batch)
      /\ writes < MaxWrites /\ writes' = writes + 1
      /\ newest' = Max({batch[i].at : i \in DOMAIN batch} \cup ({newest} \ {None}))
      /\ now' = now
  BY DEF WriteBatch
<1>5. old \in SUBSET Time /\ Covers(series, old) /\ IsSeries(series)
  BY SeriesInvHas
<1>6. DOMAIN batch = 1 .. n
  BY <1>1
<1> HIDE DEF batch, n, old
<1>7. IsSeries(series') /\ Covers(series', T)
  BY <1>3, <1>4, <1>5, BatchWritten
<1>8. /\ T \in SUBSET Time /\ IsFiniteSet(T) /\ T # {}
  <2>1. \A i \in 1 .. n : batch[i].at \in Time
    BY <1>3, PointsHaveNumbers
  <2>2. IsFiniteSet({batch[i].at : i \in 1 .. n})
    <3> DEFINE N == 1 .. n
               S == {batch[i].at : i \in N}
               f == [i \in N |-> batch[i].at]
    <3>1. IsFiniteSet(N)
      BY <1>1, FS_Interval
    <3>2. f \in Surjection(N, S)
      BY DEF Surjection
    <3> HIDE DEF f, N, S
    <3>3. IsFiniteSet(S)
      BY <3>1, <3>2, FS_Surjection
    <3> QED BY <3>3 DEF S, N
  <2>3. IsFiniteSet(old)
    <3>1. IsFiniteSet({newest})
      BY FS_Singleton
    <3> QED BY <3>1, FS_Subset DEF old
  <2>4. IsFiniteSet(T)
    BY <2>2, <2>3, FS_Union
  <2>5. 1 \in 1 .. n
    BY <1>1
  <2> QED BY <1>5, <2>1, <2>4, <2>5
<1>9. newest' = Max(T)
  <2>1. T = {batch[i].at : i \in DOMAIN batch} \cup ({newest} \ {None})
    BY <1>6 DEF old
  <2> QED BY <1>4, <2>1
<1> HIDE DEF T
<1>10. newest' \in Time /\ Covers(series', {newest'})
  BY <1>7, <1>8, <1>9, LatestCovers DEF IsSeries
<1>11. {newest'} \ {None} = {newest'}
  BY <1>10, TimeSeriesConstants, TimesAreNumbers
<1>12. now' \in Time /\ writes' \in 0 .. MaxWrites
  BY <1>4, SeriesInvHas, TimeSeriesConstants
<1>13. (IsSeries(series))' /\ (Covers(series, {newest} \ {None}))'
  BY <1>7, <1>10, <1>11 DEF IsSeries, Covers, InTimeOrder
<1> QED BY <1>10, <1>12, <1>13 DEF SeriesInv, SeriesTypeOK, IsSeries, Point

LEMMA NumbersAreWhole == \A datum \in Data : Number(datum) \in Int
  BY TimeSeriesAssumption DEF TimeSeriesAssumption, Number

LEMMA SeriesInvNext == SeriesInv /\ [SeriesNext]_seriesVars => SeriesInv'
<1> SUFFICES ASSUME SeriesInv, [SeriesNext]_seriesVars PROVE SeriesInv'
  OBVIOUS
<1>1. ASSUME UNCHANGED seriesVars PROVE SeriesInv'
  BY <1>1 DEF seriesVars, SeriesInv, SeriesTypeOK, Covers, InTimeOrder
<1>2. ASSUME SeriesTick PROVE SeriesInv'
  <2>1. now' \in Time
    BY <1>2, SeriesInvHas, TimeSeriesConstants DEF SeriesTick, Time
  <2> QED BY <1>2, <2>1 DEF SeriesTick, SeriesInv, SeriesTypeOK, Covers, InTimeOrder
<1>3. ASSUME NEW datum \in Data, NEW at \in Time, Ingested(datum, at) PROVE SeriesInv'
  <2> DEFINE points == <<[at |-> at, value |-> Number(datum)]>>
  <2>1. points \in Seq([at : Time \cup {None}, value : Int]) /\ points # << >>
    BY NumbersAreWhole
  <2>2. WriteBatch(points)
    BY <1>3 DEF Ingested
  <2> HIDE DEF points
  <2> QED BY <2>1, <2>2, WriteBatchKeeps
<1>4. ASSUME NEW size \in 1 .. MaxBatch,
             NEW points \in [1 .. size -> [at : Time \cup {None}, value : Readings]],
             WriteBatch(points)
      PROVE  SeriesInv'
  <2>1. Readings \subseteq Int
    BY TimeSeriesAssumption DEF TimeSeriesAssumption
  <2>2. size \in Nat /\ size >= 1
    BY TimeSeriesConstants
  <2>3. points \in [1 .. size -> [at : Time \cup {None}, value : Int]]
    BY <2>1
  <2>4. points \in Seq([at : Time \cup {None}, value : Int]) /\ Len(points) = size
    <3> DEFINE P == [at : Time \cup {None}, value : Int]
    <3>1. points \in [1 .. size -> P]
      BY <2>3
    <3> HIDE DEF P
    <3>2. points \in Seq(P) /\ Len(points) = size
      BY <2>2, <3>1
    <3> QED BY <3>2 DEF P
  <2>5. points # << >>
    BY <2>2, <2>4
  <2> QED BY <1>4, <2>4, <2>5, WriteBatchKeeps
<1> QED BY <1>1, <1>2, <1>3, <1>4 DEF SeriesNext, Refused

\* Whatever is written, and however late it comes, the series stays in time
\* order, within its limit, and holds the latest time written (store.go, Write).
THEOREM SeriesInvariance == SeriesSpec => []SeriesInv
BY SeriesInvInit, SeriesInvNext, PTL DEF SeriesSpec

\* No late point drives the latest one out of a series that may have two: Write
\* cuts a series before it sorts the new point in (store.go, Write).
THEOREM NewestIsKept == SeriesSpec => []NewestKept
<1>1. SeriesInv => NewestKept
  <2> SUFFICES ASSUME SeriesInv, SeriesLimit >= 2, newest # None
               PROVE  \E i \in DOMAIN series : series[i].at = newest
    BY DEF NewestKept
  <2>1. /\ newest \in Time /\ series \in Seq(Point) /\ Covers(series, {newest})
    <3>1. {newest} \ {None} = {newest}
      OBVIOUS
    <3> QED BY <3>1, SeriesInvHas
  <2>2. PICK i \in 1 .. Len(series) : newest <= series[i].at
    BY <2>1 DEF Covers
  <2>3. series[i].at <= newest
    BY <2>1 DEF Covers
  <2>4. series[i].at \in Int /\ newest \in Int /\ i \in DOMAIN series
    BY <2>1, PointsHaveNumbers, TimesAreNumbers
  <2> QED BY <2>2, <2>3, <2>4
<1> QED BY <1>1, SeriesInvariance, PTL

-----------------------------------------------------------------------------
(* Reading: what every answer is made from *)

LEMMA MeantIsWithin ==
    ASSUME SeriesInv, NEW from \in Asked, NEW to \in Asked
    PROVE  Meant(from, to) = Within(series, Span(from, to))
<1> DEFINE range == Span(from, to)
<1>1. /\ range[1] = IF from = None THEN now - Day ELSE from
      /\ range[2] = IF to = None THEN now ELSE to
  BY DEF Span
<1>2. DOMAIN series = 1 .. Len(series) /\ \A i \in 1 .. Len(series) : series[i].at \in Int
  <2>1. series \in Seq(Point)
    BY SeriesInvHas
  <2>2. \A i \in 1 .. Len(series) : series[i] \in Point
    BY <2>1
  <2> QED BY <2>1, <2>2, PointsHaveNumbers
<1>3. now \in Int /\ Day \in Int /\ (from = None \/ from \in Int) /\ (to = None \/ to \in Int)
  <2>1. now \in Time /\ (from = None \/ from \in Time) /\ (to = None \/ to \in Time)
    BY SeriesInvHas DEF Asked
  <2>2. Day \in Nat
    BY TimeSeriesConstants
  <2> QED BY <2>1, <2>2, TimesAreNumbers
<1> HIDE DEF range
<1>4. ASSUME NEW i \in 1 .. Len(series)
      PROVE  /\ (IF from = None THEN series[i].at >= now - Day ELSE series[i].at >= from)
                  <=> range[1] <= series[i].at
             /\ (IF to = None THEN series[i].at <= now ELSE series[i].at <= to)
                  <=> series[i].at <= range[2]
  <2>1. series[i].at \in Int
    BY <1>2
  <2> QED BY <1>1, <1>3, <2>1
<1>5. Within(series, range) =
        {i \in 1 .. Len(series) : range[1] <= series[i].at /\ series[i].at <= range[2]}
  BY DEF Within
<1> QED BY <1>2, <1>4, <1>5 DEF Meant, range

\* The points found are those the request means, in time order.
LEMMA FoundIs ==
    ASSUME SeriesInv, NEW from \in Asked, NEW to \in Asked
    PROVE  /\ InRange(series, Span(from, to)) \in Seq(Point)
           /\ InTimeOrder(InRange(series, Span(from, to)))
           /\ \E g : Selects(g, Meant(from, to), series, InRange(series, Span(from, to)))
<1> DEFINE r == InRange(series, Span(from, to))
           K == Meant(from, to)
<1>1. /\ series \in Seq(Point) /\ InTimeOrder(series)
      /\ DOMAIN series = 1 .. Len(series) /\ Len(series) \in Nat
  BY SeriesInvHas DEF IsSeries
<1>2. r \in Seq(Point) /\ \E g : Selects(g, K, series, r)
  BY <1>1, MeantIsWithin, InRangeSelects
<1>3. K \subseteq 1 .. Len(series)
  BY <1>1 DEF Meant
<1> HIDE DEF r, K
<1>4. PICK g : Selects(g, K, series, r)
  BY <1>2
<1>5. DOMAIN r = 1 .. Len(r)
  BY <1>2
<1>6. ASSUME NEW a \in 1 .. Len(r), NEW b \in 1 .. Len(r), a < b
      PROVE  r[a].at <= r[b].at
  <2>1. g[a] \in K /\ g[b] \in K /\ g[a] < g[b] /\ r[a] = series[g[a]] /\ r[b] = series[g[b]]
    BY <1>4, <1>6 DEF Selects
  <2> QED BY <1>1, <1>3, <2>1 DEF InTimeOrder
<1>7. InTimeOrder(r)
  BY <1>5, <1>6 DEF InTimeOrder
<1> QED BY <1>2, <1>7 DEF r, K

\* A selection is as long as there are places.
LEMMA SelectionCounts ==
    ASSUME NEW T, NEW s \in Seq(T), NEW r \in Seq(T), NEW K \in SUBSET (1 .. Len(s)),
           NEW g, Selects(g, K, s, r)
    PROVE  IsFiniteSet(K) /\ Cardinality(K) = Len(r)
<1> DEFINE n == Len(r)
<1>1. n \in Nat /\ Len(s) \in Nat
  OBVIOUS
<1> HIDE DEF n
<1>2. /\ g \in [1 .. n -> K]
      /\ \A a, b \in 1 .. n : a < b => g[a] < g[b]
      /\ \A k \in K : \E a \in 1 .. n : g[a] = k
  BY DEF Selects, n
<1>3. \A a, b \in 1 .. n : a # b => g[a] # g[b]
  <2> SUFFICES ASSUME NEW a \in 1 .. n, NEW b \in 1 .. n, a # b PROVE g[a] # g[b]
    OBVIOUS
  <2>1. g[a] \in Int /\ g[b] \in Int
    <3>1. g[a] \in K /\ g[b] \in K /\ \A k \in K : k \in Int
      BY <1>1, <1>2
    <3> QED BY <3>1
  <2>2. a < b \/ b < a
    BY <1>1
  <2> QED BY <1>2, <2>1, <2>2
<1>4. g \in Bijection(1 .. n, K)
  <2>1. \A a, b \in 1 .. n : g[a] = g[b] => a = b
    BY <1>3
  <2> DEFINE N == 1 .. n
  <2>2. /\ g \in [N -> K]
        /\ \A a, b \in N : g[a] = g[b] => a = b
        /\ \A k \in K : \E a \in N : g[a] = k
    BY <1>2, <2>1
  <2> HIDE DEF N
  <2>3. g \in Bijection(N, K)
    BY <2>2, Fun_IsBij
  <2> QED BY <2>3 DEF N
<1>5. IsFiniteSet(1 .. n) /\ Cardinality(1 .. n) = n
  <2>1. IsFiniteSet(1 .. n) /\ Cardinality(1 .. n) = IF 1 > n THEN 0 ELSE n - 1 + 1
    <3>1. 1 \in Int /\ n \in Int
      BY <1>1
    <3> QED BY <3>1, FS_Interval, Zenon
  <2> QED BY <1>1, <2>1
<1>6. ExistsBijection(1 .. n, K)
  BY <1>4 DEF ExistsBijection
<1>7. IsFiniteSet(K) /\ Cardinality(K) = n
  <2> DEFINE N == 1 .. n
  <2>1. IsFiniteSet(N) /\ ExistsBijection(N, K) /\ Cardinality(N) = n
    BY <1>5, <1>6
  <2> HIDE DEF N
  <2> QED BY <2>1, FS_Bijection
<1> QED BY <1>7 DEF n

-----------------------------------------------------------------------------
(* Query *)

\* The answer has the first k points of r, in the order asked.
IsFirst(answer, k, r, descending) ==
    /\ answer \in Seq(Point) /\ Len(answer) = k
    /\ \A a \in 1 .. k : answer[a] = r[IF descending THEN k + 1 - a ELSE a]

LEMMA QueryIs ==
    ASSUME NEW range, NEW limit \in Nat, NEW descending \in BOOLEAN, NEW r,
           r = InRange(series, range), r \in Seq(Point)
    PROVE  IsFirst(Query(range, limit, descending),
                   IF Len(r) <= limit THEN Len(r) ELSE limit, r, descending)
<1> DEFINE m == Len(r)
           k == IF m <= limit THEN m ELSE limit
           answer == Query(range, limit, descending)
           back == Reverse(r)
<1>1. m \in Nat /\ k \in Nat /\ k <= m /\ DOMAIN r = 1 .. m
      /\ \A a \in 1 .. m : r[a] \in Point
  OBVIOUS
<1>2. back \in Seq(Point) /\ Len(back) = m /\ \A a \in 1 .. m : back[a] = r[m + 1 - a]
  <2>1. back = [a \in 1 .. m |-> r[m - a + 1]]
    BY DEF Reverse
  <2>2. \A a \in 1 .. m : m - a + 1 \in 1 .. m /\ m - a + 1 = m + 1 - a
    BY <1>1
  <2> HIDE DEF back, m
  <2>3. back \in [1 .. m -> Point]
    BY <1>1, <2>1, <2>2
  <2>4. back \in Seq(Point) /\ Len(back) = m
    BY <1>1, <2>3
  <2> QED BY <2>1, <2>2, <2>4
<1>3. ASSUME ~descending
      PROVE  /\ answer \in Seq(Point) /\ Len(answer) = k
             /\ \A a \in 1 .. k : answer[a] = r[IF descending THEN k + 1 - a ELSE a]
  <2>1. CASE m <= limit
    <3>1. answer = r
      BY <1>3, <2>1 DEF Query
    <3>2. k = m
      BY <2>1
    <3> QED BY <1>3, <3>1, <3>2
  <2>2. CASE ~(m <= limit)
    <3>1. answer = SubSeq(r, 1, limit)
      BY <1>3, <2>2 DEF Query
    <3>2. k = limit /\ limit <= m
      BY <1>1, <2>2
    <3> HIDE DEF m, k, answer
    <3>3. \A a \in 1 .. limit : r[a] \in Point
      BY <1>1, <3>2
    <3>4. /\ SubSeq(r, 1, limit) \in Seq(Point)
          /\ Len(SubSeq(r, 1, limit)) = IF 1 <= limit THEN limit - 1 + 1 ELSE 0
          /\ \A a \in 1 .. limit - 1 + 1 : SubSeq(r, 1, limit)[a] = r[1 + a - 1]
      BY <3>3, SubSeqProperties
    <3>5. Len(answer) = k /\ \A a \in 1 .. k : answer[a] = r[a]
      BY <3>1, <3>2, <3>4
    <3> QED BY <1>3, <3>1, <3>4, <3>5 DEF m, k, answer
  <2> QED BY <2>1, <2>2
<1>4. ASSUME descending
      PROVE  /\ answer \in Seq(Point) /\ Len(answer) = k
             /\ \A a \in 1 .. k : answer[a] = r[IF descending THEN k + 1 - a ELSE a]
  <2>1. CASE m <= limit
    <3>1. answer = back
      BY <1>2, <1>4, <2>1 DEF Query
    <3>2. k = m
      BY <2>1
    <3> HIDE DEF back
    <3> QED BY <1>2, <1>4, <3>1, <3>2
  <2>2. CASE ~(m <= limit)
    <3>1. answer = SubSeq(back, m - limit + 1, m)
      BY <1>2, <1>4, <2>2 DEF Query
    <3>2. k = limit /\ limit < m
      BY <1>1, <2>2
    <3> HIDE DEF m, k, answer, back
    <3> DEFINE first == m - limit + 1
    <3>3. first \in Int /\ m \in Int /\ m - first + 1 = limit /\ first >= 1
      BY <1>1, <3>2
    <3>4. \A a \in first .. m : back[a] \in Point
      BY <1>2, <3>3
    <3> HIDE DEF first
    <3>5. /\ SubSeq(back, first, m) \in Seq(Point)
          /\ Len(SubSeq(back, first, m)) = IF first <= m THEN m - first + 1 ELSE 0
          /\ \A a \in 1 .. m - first + 1 : SubSeq(back, first, m)[a] = back[first + a - 1]
      BY <3>3, <3>4, SubSeqProperties
    <3>6. Len(answer) = k
      BY <3>1, <3>2, <3>3, <3>5 DEF first
    <3>7. ASSUME NEW a \in 1 .. k PROVE answer[a] = r[k + 1 - a]
      <4>1. answer[a] = back[first + a - 1]
        BY <3>1, <3>2, <3>3, <3>5 DEF first
      <4>2. first + a - 1 \in 1 .. m /\ m + 1 - (first + a - 1) = k + 1 - a
        BY <1>1, <3>2, <3>3 DEF first
      <4> QED BY <1>2, <4>1, <4>2
    <3> QED BY <1>4, <3>1, <3>5, <3>6, <3>7 DEF m, k, answer, first
  <2> QED BY <2>1, <2>2
<1>5. IsFirst(answer, k, r, descending)
  <2> HIDE DEF answer, k
  <2> QED BY <1>3, <1>4 DEF IsFirst
<1> QED BY <1>5

LEMMA LimitIs ==
    ASSUME NEW limit \in Nat
    PROVE  /\ Limit(limit) \in Nat /\ Limit(limit) >= 1 /\ Limit(limit) <= MaxLimit
           /\ limit \in 1 .. MaxLimit => Limit(limit) = limit
BY TimeSeriesConstants DEF Limit

\* A query that is not refused is answered as it should be.
LEMMA QueryAnswered ==
    ASSUME SeriesInv, NEW from \in Asked, NEW to \in Asked, NEW limit \in Nat,
           NEW descending \in BOOLEAN, Queried(from, to, limit, descending) # None
    PROVE  LET answer == Queried(from, to, limit, descending)
               found == Meant(from, to)
           IN  /\ Len(answer) <= MaxLimit
               /\ limit \in 1 .. MaxLimit => Len(answer) = Min({limit, Cardinality(found)})
               /\ found # {} => answer # << >>
               /\ InTimeOrder(IF descending THEN Reverse(answer) ELSE answer)
               /\ Range(answer) \subseteq {series[i] : i \in found}
               /\ \A i \in found, p \in Range(answer) :
                    series[i] \notin Range(answer) => p.at <= series[i].at
<1> DEFINE answer == Queried(from, to, limit, descending)
           found == Meant(from, to)
           range == Span(from, to)
           r == InRange(series, range)
           m == Len(r)
           most == Limit(limit)
           k == IF m <= most THEN m ELSE most
           place(a) == IF descending THEN k + 1 - a ELSE a
<1>1. answer = Query(range, most, descending)
  BY DEF Queried
<1>2. /\ most \in Nat /\ most >= 1 /\ most <= MaxLimit /\ MaxLimit \in Nat
      /\ limit \in 1 .. MaxLimit => most = limit
  BY LimitIs, TimeSeriesConstants
<1>3. r \in Seq(Point) /\ InTimeOrder(r) /\ \E g : Selects(g, found, series, r)
  BY FoundIs
<1>4. /\ series \in Seq(Point) /\ Len(series) \in Nat /\ DOMAIN series = 1 .. Len(series)
  BY SeriesInvHas
<1>5. found \in SUBSET (1 .. Len(series))
  BY <1>4 DEF Meant
<1> HIDE DEF answer, found, range, most
<1>6. answer \in Seq(Point) /\ Len(answer) = k /\ \A a \in 1 .. k : answer[a] = r[place(a)]
  <2>1. r = InRange(series, range)
    OBVIOUS
  <2> HIDE DEF r
  <2>2. IsFirst(Query(range, most, descending), k, r, descending)
    BY <1>2, <1>3, <2>1, QueryIs
  <2> HIDE DEF k
  <2> QED BY <1>1, <2>2 DEF IsFirst
<1> HIDE DEF r
<1>7. PICK g : Selects(g, found, series, r)
  BY <1>3
<1>8. IsFiniteSet(found) /\ Cardinality(found) = m
  BY <1>3, <1>4, <1>5, <1>7, SelectionCounts
<1>9. m \in Nat /\ k \in Nat /\ k <= m /\ k <= most /\ DOMAIN r = 1 .. m
  BY <1>2, <1>3
<1>10. \A a \in 1 .. k : place(a) \in 1 .. k /\ place(place(a)) = a
  BY <1>9
<1>11. DOMAIN answer = 1 .. k /\ Range(answer) = {answer[a] : a \in 1 .. k}
  BY <1>6 DEF Range
<1>12. \A a \in 1 .. m : g[a] \in found /\ r[a] = series[g[a]]
  BY <1>7 DEF Selects
<1>13. \A i \in found : \E a \in 1 .. m : g[a] = i
  BY <1>7 DEF Selects
<1>14. \A a \in 1 .. k : a \in 1 .. m /\ answer[place(a)] = r[a]
  <2> HIDE DEF place, k
  <2>1. \A a \in 1 .. k : a \in 1 .. m
    BY <1>9
  <2> QED BY <2>1, <1>6, <1>10
<1>a. Len(answer) <= MaxLimit
  BY <1>2, <1>6, <1>9
<1>b. ASSUME limit \in 1 .. MaxLimit PROVE Len(answer) = Min({limit, Cardinality(found)})
  <2> DEFINE S == {limit, m}
  <2>1. most = limit /\ limit \in Nat
    BY <1>2, <1>b
  <2>2. S \in SUBSET Int /\ S # {} /\ IsFiniteSet(S)
    <3>1. {limit} \cup {m} = S
      OBVIOUS
    <3>2. IsFiniteSet({limit}) /\ IsFiniteSet({m})
      BY FS_Singleton
    <3> HIDE DEF S
    <3>3. IsFiniteSet({limit} \cup {m})
      BY <3>2, FS_Union
    <3>4. S \in SUBSET Int /\ S # {}
      BY <2>1, <1>9 DEF S
    <3> QED BY <3>1, <3>3, <3>4
  <2>3. Min(S) \in {limit, m} /\ Min(S) <= limit /\ Min(S) <= m
    <3> DEFINE x == Min(S)
    <3>1. x \in S /\ \A y \in S : x <= y
      <4> HIDE DEF S
      <4> QED BY <2>2, MinOfSet
    <3> HIDE DEF x
    <3> QED BY <3>1 DEF x
  <2> DEFINE x == Min(S)
  <2>4. x \in {limit, m} /\ x <= limit /\ x <= m
    BY <2>3
  <2>5. Cardinality(found) = m
    BY <1>8
  <2> HIDE DEF x, m
  <2>6. Len(answer) = x
    BY <1>6, <1>9, <2>1, <2>4
  <2> QED BY <2>5, <2>6 DEF x
<1>c. ASSUME found # {} PROVE answer # << >>
  <2>1. m >= 1
    BY <1>9, <1>13, <1>c
  <2>2. Len(answer) >= 1
    BY <1>2, <1>6, <1>9, <2>1
  <2> QED BY <2>2
<1>d. InTimeOrder(IF descending THEN Reverse(answer) ELSE answer)
  <2> DEFINE straight == IF descending THEN Reverse(answer) ELSE answer
  <2>1. DOMAIN straight = 1 .. k /\ \A a \in 1 .. k : straight[a] = r[a]
    <3>1. CASE descending
      <4>1. Reverse(answer) = [a \in 1 .. k |-> answer[k - a + 1]]
        BY <1>6 DEF Reverse
      <4>2. \A a \in 1 .. k : k - a + 1 = place(a)
        BY <1>9, <3>1
      <4> HIDE DEF k, place
      <4> QED BY <1>14, <3>1, <4>1, <4>2
    <3>2. CASE ~descending
      <4>1. \A a \in 1 .. k : place(a) = a
        BY <3>2
      <4> QED BY <1>6, <1>11, <3>2, <4>1
    <3> QED BY <3>1, <3>2
  <2> HIDE DEF straight, k
  <2> QED BY <1>3, <1>9, <1>14, <2>1 DEF InTimeOrder, straight
<1>e. Range(answer) \subseteq {series[i] : i \in found}
  <2> HIDE DEF k, place
  <2> QED BY <1>6, <1>10, <1>11, <1>12, <1>14
<1>f. ASSUME NEW i \in found, NEW p \in Range(answer), series[i] \notin Range(answer)
      PROVE  p.at <= series[i].at
  <2>1. PICK a \in 1 .. m : g[a] = i
    BY <1>13
  <2>2. PICK c \in 1 .. k : p = answer[c]
    BY <1>11
  <2> DEFINE b == place(c)
  <2>3. b \in 1 .. k /\ p = r[b] /\ series[i] = r[a]
    BY <1>6, <1>10, <1>12, <2>1, <2>2
  <2>4. a \notin 1 .. k
    <3> SUFFICES ASSUME a \in 1 .. k PROVE FALSE
      OBVIOUS
    <3>1. place(a) \in 1 .. k /\ answer[place(a)] = series[i]
      BY <1>10, <1>14, <2>3
    <3> QED BY <3>1, <1>11, <1>f
  <2> HIDE DEF b, k
  <2>5. b < a /\ a \in DOMAIN r /\ b \in DOMAIN r
    BY <1>9, <2>3, <2>4
  <2>6. r[b].at <= r[a].at
    BY <1>3, <2>5 DEF InTimeOrder
  <2> QED BY <2>3, <2>6
<1> QED BY <1>a, <1>b, <1>c, <1>d, <1>e, <1>f DEF answer, found

\* A query is answered with the oldest points of its range, in the order asked,
\* as many as it asked for and there are (service.go and store.go, Query).
THEOREM QueriesAreAnswered == SeriesSpec => []QueryAnswers
<1>1. SeriesInv => QueryAnswers
  <2> SUFFICES ASSUME SeriesInv PROVE QueryAnswers
    OBVIOUS
  <2>1. 0 .. MaxLimit + 1 \subseteq Nat
    BY TimeSeriesConstants
  <2> QED BY <2>1, QueryAnswered DEF QueryAnswers
<1> QED BY <1>1, SeriesInvariance, PTL

-----------------------------------------------------------------------------
(* DetectGaps *)

\* One and a half intervals, in whole numbers.
LEMMA OneAndAHalf ==
    ASSUME NEW interval \in Nat, NEW d \in Int
    PROVE  d > (interval * 3) \div 2 <=> 2 * d > 3 * interval
<1> DEFINE x == interval * 3
           q == x \div 2
<1>1. x \in Nat /\ q \in Int /\ 2 * q <= x /\ x <= 2 * q + 1
  OBVIOUS
<1>2. x = 3 * interval
  OBVIOUS
<1> HIDE DEF x, q
<1>3. d > q <=> 2 * d > x
  BY <1>1
<1> QED BY <1>2, <1>3 DEF x, q

\* The gaps between the neighbours of a sequence are those between the
\* neighbours of its times.
Gaps(times, interval) ==
    {pair \in times \X times :
        /\ 2 * (pair[2] - pair[1]) > 3 * interval
        /\ \A t \in times : t <= pair[1] \/ t >= pair[2]}

NeighbourGaps(r, interval) ==
    {<<r[i - 1].at, r[i].at>> :
        i \in {j \in 2 .. Len(r) : 2 * (r[j].at - r[j - 1].at) > 3 * interval}}

LEMMA NeighboursAre ==
    ASSUME NEW r \in Seq(Point), InTimeOrder(r), NEW interval \in Nat,
           NEW times, times = {r[a].at : a \in 1 .. Len(r)}
    PROVE  NeighbourGaps(r, interval) = Gaps(times, interval)
<1> DEFINE n == Len(r)
           between == {j \in 2 .. n : 2 * (r[j].at - r[j - 1].at) > 3 * interval}
           Gap(pair) == /\ 2 * (pair[2] - pair[1]) > 3 * interval
                        /\ \A t \in times : t <= pair[1] \/ t >= pair[2]
<1>1. n \in Nat /\ DOMAIN r = 1 .. n /\ \A a \in 1 .. n : r[a].at \in Int
  BY PointsHaveNumbers
<1> HIDE DEF n
<1>2. \A a, b \in 1 .. n : a <= b => r[a].at <= r[b].at
  <2> SUFFICES ASSUME NEW a \in 1 .. n, NEW b \in 1 .. n, a <= b PROVE r[a].at <= r[b].at
    OBVIOUS
  <2>1. CASE a = b
    BY <1>1, <2>1
  <2>2. CASE a # b
    <3>1. a < b
      BY <1>1, <2>2
    <3> QED BY <1>1, <3>1 DEF InTimeOrder
  <2> QED BY <2>1, <2>2
<1>3. times = {r[a].at : a \in 1 .. n}
  BY DEF n
<1>4. ASSUME NEW i \in between
      PROVE  <<r[i - 1].at, r[i].at>> \in times \X times /\ Gap(<<r[i - 1].at, r[i].at>>)
  <2>1. i - 1 \in 1 .. n /\ i \in 1 .. n /\ i \in Int
    BY <1>1
  <2>2. r[i - 1].at \in times /\ r[i].at \in times
    BY <1>3, <2>1
  <2>3. ASSUME NEW t \in times PROVE t <= r[i - 1].at \/ t >= r[i].at
    <3>1. PICK c \in 1 .. n : t = r[c].at
      BY <1>3
    <3>2. c <= i - 1 \/ i <= c
      BY <1>1, <2>1
    <3>3. r[c].at <= r[i - 1].at \/ r[i].at <= r[c].at
      BY <1>2, <2>1, <3>2
    <3>4. r[c].at \in Int /\ r[i].at \in Int
      BY <1>1, <2>1
    <3> QED BY <3>1, <3>3, <3>4
  <2> QED BY <2>2, <2>3
<1>5. ASSUME NEW pair \in times \X times, Gap(pair)
      PROVE  \E i \in between : pair = <<r[i - 1].at, r[i].at>>
  <2>a. pair = <<pair[1], pair[2]>> /\ pair[1] \in times /\ pair[2] \in times
    OBVIOUS
  <2>b. PICK a \in 1 .. n : pair[1] = r[a].at
    BY <1>3, <2>a
  <2>c. PICK b \in 1 .. n : pair[2] = r[b].at
    BY <1>3, <2>a
  <2>1. pair = <<r[a].at, r[b].at>>
    BY <2>a, <2>b, <2>c
  <2> DEFINE first == r[a].at
             second == r[b].at
             later == {j \in 1 .. n : r[j].at >= second}
  <2>2. /\ first \in Int /\ second \in Int /\ 2 * (second - first) > 3 * interval
        /\ \A t \in times : t <= first \/ t >= second
    BY <1>1, <1>5, <2>1
  <2>3. first < second
    <3> HIDE DEF first, second
    <3> QED BY <2>2
  <2>4. later \in SUBSET Nat /\ later # {}
    <3>1. b \in later
      BY <1>1
    <3> QED BY <3>1, <1>1
  <2>5. PICK j \in later : \A i \in later : j <= i
    <3> HIDE DEF later
    <3> QED BY <2>4, LeastExists
  <2> HIDE DEF first, second
  <2>6. j \in 1 .. n /\ r[j].at >= second /\ j <= b /\ r[b].at = second /\ r[a].at = first
    BY <1>1, <2>2, <2>5 DEF first, second
  <2>7. r[j].at = second
    <3>1. r[j].at <= r[b].at
      BY <1>2, <2>6
    <3> QED BY <1>1, <2>2, <2>6, <3>1
  <2>8. a < j
    <3> SUFFICES ASSUME j <= a PROVE FALSE
      BY <1>1, <2>6
    <3>1. r[j].at <= r[a].at
      BY <1>2, <2>6
    <3> QED BY <2>2, <2>3, <2>6, <2>7, <3>1
  <2>9. j - 1 \in 1 .. n /\ a <= j - 1 /\ j \in 2 .. n
    BY <1>1, <2>6, <2>8
  <2>10. ~(r[j - 1].at >= second)
    <3>1. j - 1 \notin later
      BY <2>5, <2>6, <1>1
    <3> QED BY <2>9, <3>1
  <2>11. r[j - 1].at <= first
    <3>1. r[j - 1].at \in times
      BY <1>3, <2>9
    <3> QED BY <3>1, <2>2, <2>10
  <2>12. first <= r[j - 1].at
    BY <1>2, <2>6, <2>9
  <2>13. r[j - 1].at = first
    BY <1>1, <2>2, <2>9, <2>11, <2>12
  <2>14. j \in between
    BY <2>2, <2>7, <2>9, <2>13
  <2>15. pair = <<r[j - 1].at, r[j].at>>
    BY <2>1, <2>7, <2>13 DEF first, second
  <2> QED BY <2>14, <2>15
<1> HIDE DEF between, Gap
<1>6. {<<r[i - 1].at, r[i].at>> : i \in between} = {pair \in times \X times : Gap(pair)}
  BY <1>4, <1>5
<1> QED BY <1>6 DEF between, Gap, n, NeighbourGaps, Gaps

LEMMA GapsAnswered ==
    ASSUME SeriesInv, NEW from \in Asked, NEW to \in Asked, NEW interval \in 1 .. MaxTime,
           GapsDetected(from, to, interval) # None
    PROVE  LET times == {series[i].at : i \in Meant(from, to)}
           IN  GapsDetected(from, to, interval) =
                 {pair \in times \X times :
                     /\ 2 * (pair[2] - pair[1]) > 3 * interval
                     /\ \A t \in times : t <= pair[1] \/ t >= pair[2]}
<1> DEFINE found == Meant(from, to)
           range == Span(from, to)
           r == InRange(series, range)
           times == {series[i].at : i \in found}
<1>1. interval \in Nat /\ ~(interval <= 0)
  BY TimeSeriesConstants
<1>2. GapsDetected(from, to, interval) = DetectGaps(range, interval)
  BY <1>1 DEF GapsDetected
<1>3. DetectGaps(range, interval) =
        {<<r[i - 1].at, r[i].at>> :
           i \in {j \in 2 .. Len(r) : r[j].at - r[j - 1].at > (interval * 3) \div 2}}
  BY DEF DetectGaps
<1>4. r \in Seq(Point) /\ InTimeOrder(r) /\ \E g : Selects(g, found, series, r)
  BY FoundIs
<1> HIDE DEF r, found, range
<1>5. PICK g : Selects(g, found, series, r)
  BY <1>4
<1>6. times = {r[a].at : a \in 1 .. Len(r)}
  <2>1. \A a \in 1 .. Len(r) : g[a] \in found /\ r[a] = series[g[a]]
    BY <1>5 DEF Selects
  <2>2. \A i \in found : \E a \in 1 .. Len(r) : g[a] = i
    BY <1>5 DEF Selects
  <2> QED BY <2>1, <2>2
<1>7. \A j \in 2 .. Len(r) : r[j].at - r[j - 1].at > (interval * 3) \div 2
                               <=> 2 * (r[j].at - r[j - 1].at) > 3 * interval
  <2> SUFFICES ASSUME NEW j \in 2 .. Len(r)
               PROVE  r[j].at - r[j - 1].at > (interval * 3) \div 2
                        <=> 2 * (r[j].at - r[j - 1].at) > 3 * interval
    OBVIOUS
  <2>1. j \in 1 .. Len(r) /\ j - 1 \in 1 .. Len(r)
    BY <1>4
  <2>2. r[j].at \in Int /\ r[j - 1].at \in Int
    BY <1>4, <2>1, PointsHaveNumbers
  <2>3. r[j].at - r[j - 1].at \in Int
    BY <2>2
  <2> QED BY <1>1, <2>3, OneAndAHalf
<1>8. {j \in 2 .. Len(r) : r[j].at - r[j - 1].at > (interval * 3) \div 2}
      = {j \in 2 .. Len(r) : 2 * (r[j].at - r[j - 1].at) > 3 * interval}
  BY <1>7, Zenon
<1> HIDE DEF times
<1>9. GapsDetected(from, to, interval) = NeighbourGaps(r, interval)
  BY <1>2, <1>3, <1>8, Zenon DEF NeighbourGaps
<1>10. NeighbourGaps(r, interval) = Gaps(times, interval)
  BY <1>1, <1>4, <1>6, NeighboursAre
<1> QED BY <1>9, <1>10 DEF times, found, Gaps

\* The gaps answered are just the pairs of neighbouring times of the range more
\* than one and a half intervals apart (service.go and store.go, DetectGaps).
THEOREM GapsAreDetected == SeriesSpec => []GapsAnswer
<1>1. SeriesInv => GapsAnswer
  BY GapsAnswered DEF GapsAnswer
<1> QED BY <1>1, SeriesInvariance, PTL

-----------------------------------------------------------------------------
(* Aggregate *)

\* Buckets divide the time.
LEMMA BucketHolds ==
    ASSUME NEW at \in Nat, NEW b \in Nat, b >= 1
    PROVE  /\ BucketOf(at, b) \in Nat /\ BucketOf(at, b) % b = 0
           /\ BucketOf(at, b) <= at /\ at < BucketOf(at, b) + b
<1> DEFINE q == at \div b
<1>1. q \in Nat
  OBVIOUS
<1>2. q * b <= at /\ at < q * b + b
  <2>1. at = b * q + (at % b) /\ at % b >= 0 /\ at % b < b
    OBVIOUS
  <2>2. at % b \in Int /\ b * q = q * b /\ q * b \in Int
    <3> HIDE DEF q
    <3> QED BY <1>1
  <2> HIDE DEF q
  <2> QED BY <2>1, <2>2
<1>3. q * b \in Nat
  <2> HIDE DEF q
  <2> QED BY <1>1
<1>4. (q * b) % b = 0
  <2> HIDE DEF q
  <2> QED BY <1>1
<1> QED BY <1>2, <1>3, <1>4 DEF BucketOf

LEMMA BucketIsOnly ==
    ASSUME NEW at \in Nat, NEW b \in Nat, b >= 1, NEW t \in Nat, t % b = 0,
           t <= at, at < t + b
    PROVE  BucketOf(at, b) = t
<1> DEFINE q == at \div b
           k == t \div b
<1>1. q \in Nat /\ k \in Nat
  OBVIOUS
<1>2. t = k * b
  OBVIOUS
<1>3. q * b <= at /\ at < q * b + b
  BY BucketHolds DEF BucketOf
<1> HIDE DEF q, k
<1>4. ASSUME q < k PROVE FALSE
  <2> DEFINE d == k - q - 1
  <2>1. d \in Nat /\ k = q + 1 + d
    BY <1>1, <1>4
  <2> HIDE DEF d
  <2>2. k * b = q * b + b + d * b /\ d * b \in Nat /\ q * b \in Nat /\ k * b \in Nat
    BY <1>1, <2>1
  <2> QED BY <1>2, <1>3, <2>2
<1>5. ASSUME k < q PROVE FALSE
  <2> DEFINE d == q - k - 1
  <2>1. d \in Nat /\ q = k + 1 + d
    BY <1>1, <1>5
  <2> HIDE DEF d
  <2>2. q * b = k * b + b + d * b /\ d * b \in Nat /\ k * b \in Nat /\ q * b \in Nat
    BY <1>1, <2>1
  <2> QED BY <1>2, <1>3, <2>2
<1>6. q = k
  BY <1>1, <1>4, <1>5
<1> QED BY <1>2, <1>6 DEF BucketOf, q

\* What a bucket holds, and the buckets of a request.
Total == [value : Int, count : Int]
Totals == UNION {[D -> Total] : D \in SUBSET Int}

LEMMA TotalsAre ==
    ASSUME NEW f, NEW D \in SUBSET Int, f \in [D -> Total]
    PROVE  f \in Totals
BY DEF Totals

LEMMA TotalsHave ==
    ASSUME NEW f \in Totals
    PROVE  /\ DOMAIN f \in SUBSET Int /\ f \in [DOMAIN f -> Total]
           /\ \A t \in DOMAIN f : f[t].value \in Int /\ f[t].count \in Int
BY DEF Totals, Total

\* The buckets `new' are f with one more point.
IsAdded(new, f, p, kind, bucket) ==
    LET start == BucketOf(p.at, bucket)
        old == IF start \in DOMAIN f THEN f[start] ELSE Opened(p)
    IN  /\ start \in Nat /\ start <= p.at
        /\ old \in Total
        /\ new \in Totals /\ DOMAIN new = DOMAIN f \cup {start}
        /\ new[start] = Accumulated(kind, old, p.value)
        /\ \A t \in DOMAIN f : t # start => new[t] = f[t]

LEMMA PointAdded ==
    ASSUME NEW f \in Totals, NEW p \in Point, NEW kind, NEW bucket \in Nat, bucket >= 1
    PROVE  IsAdded(WithPoint(f, p, kind, bucket), f, p, kind, bucket)
<1> DEFINE start == BucketOf(p.at, bucket)
           old == IF start \in DOMAIN f THEN f[start] ELSE Opened(p)
           new == WithPoint(f, p, kind, bucket)
           added == Accumulated(kind, old, p.value)
<1>1. start \in Nat /\ start <= p.at /\ p.value \in Int
  <2>1. p.at \in Nat
    BY PointsHaveNumbers, TimesAreNumbers
  <2> QED BY <2>1, BucketHolds, PointsHaveNumbers
<1> HIDE DEF start
<1>2. old \in Total
  <2>1. start \in DOMAIN f => f[start] \in Total
    BY TotalsHave
  <2>2. Opened(p) \in Total
    BY <1>1 DEF Opened, Total
  <2> QED BY <2>1, <2>2
<1> HIDE DEF old
<1>3. added \in Total
  BY <1>1, <1>2 DEF Accumulated, Total
<1>4. new = [t \in DOMAIN f \cup {start} |-> IF t = start THEN added ELSE f[t]]
  BY DEF WithPoint, start, old
<1> HIDE DEF added, new
<1>5. new \in [DOMAIN f \cup {start} -> Total] /\ DOMAIN f \cup {start} \in SUBSET Int
  BY <1>1, <1>3, <1>4, TotalsHave
<1>6. new \in Totals
  BY <1>5, TotalsAre
<1>7. DOMAIN new = DOMAIN f \cup {start} /\ new[start] = added
      /\ \A t \in DOMAIN f : t # start => new[t] = f[t]
  BY <1>4
<1> QED BY <1>1, <1>2, <1>6, <1>7 DEF IsAdded, start, old, new, added

\* The loop of Aggregate.
BucketLoop(f, r, kind, bucket) ==
    /\ f[0] = << >>
    /\ \A i \in 1 .. Len(r) : f[i] = WithPoint(f[i - 1], r[i], kind, bucket)

LEMMA AggregateLoops ==
    ASSUME NEW range, NEW r \in Seq(Point), r = InRange(series, range),
           NEW kind, NEW bucket \in Nat, bucket >= 1
    PROVE  \E f : BucketLoop(f, r, kind, bucket) /\ Aggregate(range, kind, bucket) = f[Len(r)]
<1> DEFINE n == Len(r)
           none == << >>
           step == [x \in Totals \X (1 .. n) |-> WithPoint(x[1], r[x[2]], kind, bucket)]
           e(f, i) == IF i = 0 THEN << >> ELSE WithPoint(f[i - 1], r[i], kind, bucket)
           Is(f) == f = [i \in 0 .. n |-> e(f, i)]
           h == CHOOSE f : Is(f)
<1>1. n \in Nat /\ \A i \in 1 .. n : r[i] \in Point
  OBVIOUS
<1>2. none \in Totals
  <2>1. none \in [{} -> Total]
    OBVIOUS
  <2> QED BY <2>1, TotalsAre
<1>3. step \in [Totals \X (1 .. n) -> Totals]
  <2>1. ASSUME NEW x \in Totals \X (1 .. n)
        PROVE  WithPoint(x[1], r[x[2]], kind, bucket) \in Totals
    <3>1. x[1] \in Totals /\ r[x[2]] \in Point
      BY <1>1
    <3> QED BY <3>1, PointAdded DEF IsAdded
  <2> HIDE DEF n
  <2> QED BY <2>1
<1>4a. PICK f : Loop(f, Totals, none, n, step)
  <2> HIDE DEF step, n, none
  <2> QED BY <1>1, <1>2, <1>3, LoopExists
<1>4. f \in [0 .. n -> Totals] /\ f[0] = none /\ \A i \in 1 .. n : f[i] = step[<<f[i - 1], i>>]
  <2> HIDE DEF step, n, none
  <2> QED BY <1>4a DEF Loop
<1>5. ASSUME NEW i \in 0 .. n PROVE f[i] = e(f, i)
  <2>1. CASE i = 0
    BY <1>4, <2>1
  <2>2. CASE i # 0
    <3>1. i \in 1 .. n /\ i - 1 \in 0 .. n
      BY <1>1, <2>2
    <3>2. <<f[i - 1], i>> \in Totals \X (1 .. n)
      <4> HIDE DEF n
      <4> QED BY <3>1, <1>4
    <3>3. step[<<f[i - 1], i>>] = WithPoint(f[i - 1], r[i], kind, bucket)
      <4> HIDE DEF n
      <4> QED BY <3>2
    <3> HIDE DEF step
    <3> QED BY <1>4, <2>2, <3>1, <3>3
  <2> QED BY <2>1, <2>2
<1>6. Is(f)
  <2> HIDE DEF e, n
  <2> QED BY <1>4, <1>5
<1>7. Is(h)
  <2> HIDE DEF Is
  <2> QED BY <1>6
<1>8. Aggregate(range, kind, bucket) = h[Len(r)]
  BY DEF Aggregate
<1>9. BucketLoop(h, r, kind, bucket)
  <2>1. \A i \in 0 .. n : h[i] = e(h, i)
    <3> HIDE DEF e, h
    <3> QED BY <1>7
  <2>2. 0 \in 0 .. n /\ \A i \in 1 .. n : i \in 0 .. n /\ i # 0
    BY <1>1
  <2> HIDE DEF h
  <2> QED BY <2>1, <2>2 DEF BucketLoop
<1> HIDE DEF h
<1> QED BY <1>8, <1>9

\* The places among the first m of r whose points fall into a bucket.
InBucketOf(r, m, t, bucket) == {a \in 1 .. m : BucketOf(r[a].at, bucket) = t}

\* The buckets hold what the first m points of r come to.
Holds(f, r, m, kind, bucket) ==
    /\ f \in Totals
    /\ DOMAIN f = {BucketOf(r[a].at, bucket) : a \in 1 .. m}
    /\ \A t \in DOMAIN f :
         LET places == InBucketOf(r, m, t, bucket)
         IN  /\ f[t].count = Cardinality(places)
             /\ kind = "count" => f[t].value = Cardinality(places)
             /\ kind = "min" => /\ \E a \in places : f[t].value = r[a].value
                                /\ \A a \in places : f[t].value <= r[a].value
             /\ kind = "max" => /\ \E a \in places : f[t].value = r[a].value
                                /\ \A a \in places : f[t].value >= r[a].value

LEMMA OnePointMore ==
    ASSUME NEW r \in Seq(Point), NEW m \in 1 .. Len(r), NEW bucket \in Nat, bucket >= 1
    PROVE  LET start == BucketOf(r[m].at, bucket)
           IN  /\ InBucketOf(r, m, start, bucket) = InBucketOf(r, m - 1, start, bucket) \cup {m}
               /\ m \notin InBucketOf(r, m - 1, start, bucket)
               /\ \A t : t # start => InBucketOf(r, m, t, bucket) = InBucketOf(r, m - 1, t, bucket)
               /\ \A t : IsFiniteSet(InBucketOf(r, m - 1, t, bucket))
<1>1. m \in Nat /\ m \notin 1 .. m - 1 /\ \A a : a \in 1 .. m <=> a \in 1 .. m - 1 \/ a = m
  OBVIOUS
<1>2. IsFiniteSet(1 .. m - 1)
  BY <1>1, FS_Interval
<1>3. ASSUME NEW t PROVE IsFiniteSet(InBucketOf(r, m - 1, t, bucket))
  <2>1. InBucketOf(r, m - 1, t, bucket) \in SUBSET (1 .. m - 1)
    BY DEF InBucketOf
  <2> QED BY <1>2, <2>1, FS_Subset
<1> QED BY <1>1, <1>3, Zenon DEF InBucketOf

LEMMA BucketGrows ==
    ASSUME NEW r \in Seq(Point), NEW m \in 1 .. Len(r), NEW bucket \in Nat, bucket >= 1,
           NEW kind \in {"min", "max", "count"}, NEW f, Holds(f, r, m - 1, kind, bucket)
    PROVE  Holds(WithPoint(f, r[m], kind, bucket), r, m, kind, bucket)
<1> DEFINE p == r[m]
           start == BucketOf(p.at, bucket)
           old == IF start \in DOMAIN f THEN f[start] ELSE Opened(p)
           new == WithPoint(f, p, kind, bucket)
           was(t) == InBucketOf(r, m - 1, t, bucket)
           is(t) == InBucketOf(r, m, t, bucket)
<1>1. p \in Point /\ p.value \in Int /\ \A a \in 1 .. m : r[a].value \in Int
  <2>1. \A a \in 1 .. m : r[a] \in Point
    OBVIOUS
  <2>2. m \in 1 .. m
    OBVIOUS
  <2> QED BY <2>1, <2>2, PointsHaveNumbers
<1>2. /\ f \in Totals
      /\ DOMAIN f = {BucketOf(r[a].at, bucket) : a \in 1 .. m - 1}
      /\ \A t \in DOMAIN f :
           /\ f[t].count = Cardinality(was(t))
           /\ kind = "count" => f[t].value = Cardinality(was(t))
           /\ kind = "min" => /\ \E a \in was(t) : f[t].value = r[a].value
                              /\ \A a \in was(t) : f[t].value <= r[a].value
           /\ kind = "max" => /\ \E a \in was(t) : f[t].value = r[a].value
                              /\ \A a \in was(t) : f[t].value >= r[a].value
  BY DEF Holds
<1>3. /\ is(start) = was(start) \cup {m} /\ m \notin was(start)
      /\ \A t : t # start => is(t) = was(t)
      /\ \A t : IsFiniteSet(was(t))
  <2> HIDE DEF was, is
  <2> QED BY OnePointMore DEF was, is
<1>4. /\ old \in Total /\ new \in Totals /\ DOMAIN new = DOMAIN f \cup {start}
      /\ new[start] = Accumulated(kind, old, p.value)
      /\ \A t \in DOMAIN f : t # start => new[t] = f[t]
  <2>1. f \in Totals /\ p \in Point
    BY <1>1, <1>2
  <2> HIDE DEF p
  <2>2. IsAdded(new, f, p, kind, bucket)
    BY <2>1, PointAdded
  <2> QED BY <2>2 DEF IsAdded
<1>5. DOMAIN new = {BucketOf(r[a].at, bucket) : a \in 1 .. m}
  <2>1. \A a : a \in 1 .. m <=> a \in 1 .. m - 1 \/ a = m
    OBVIOUS
  <2> HIDE DEF new
  <2> QED BY <1>2, <1>4, <2>1, Zenon
<1>6. Cardinality(is(start)) = Cardinality(was(start)) + 1 /\ Cardinality(was(start)) \in Nat
  <2> HIDE DEF was, is, start
  <2>1. IsFiniteSet(was(start))
    BY <1>3
  <2>2. Cardinality(was(start) \cup {m}) = Cardinality(was(start)) + 1
    BY <1>3, <2>1, FS_AddElement
  <2> QED BY <1>3, <2>1, <2>2, FS_CardinalityType
<1>7. start \notin DOMAIN f => was(start) = {}
  BY <1>2 DEF InBucketOf
<1>8. \A a \in is(start) : r[a].value \in Int
  BY <1>1 DEF InBucketOf
\* What the bucket was before, or what it was opened with.
<1>9. /\ old.count = Cardinality(was(start))
      /\ start \in DOMAIN f => old = f[start]
      /\ start \notin DOMAIN f => old.value = p.value
      /\ old.value \in Int /\ old.count \in Int
  <2>1. CASE start \in DOMAIN f
    BY <1>2, <1>4, <2>1 DEF Total
  <2>2. CASE start \notin DOMAIN f
    <3>1. Cardinality(was(start)) = 0
      BY <1>7, <2>2, FS_EmptySet
    <3>2. old = Opened(p)
      BY <2>2
    <3> QED BY <1>1, <2>2, <3>1, <3>2 DEF Opened
  <2> QED BY <2>1, <2>2
<1> DEFINE new1 == new[start]
<1>10. /\ new1.count = old.count + 1
       /\ kind = "count" => new1.value = old.count + 1
       /\ kind = "min" => new1.value = IF p.value < old.value THEN p.value ELSE old.value
       /\ kind = "max" => new1.value = IF p.value > old.value THEN p.value ELSE old.value
  <2> HIDE DEF new, old
  <2> QED BY <1>4 DEF Accumulated
<1>11. m \in is(start) /\ r[m].value = p.value
  BY <1>3
<1> HIDE DEF p, old, new, new1, was, is
<1>12. /\ new1.count = Cardinality(is(start))
       /\ kind = "count" => new1.value = Cardinality(is(start))
  BY <1>6, <1>9, <1>10
<1>13. ASSUME kind = "min"
       PROVE  /\ \E a \in is(start) : new1.value = r[a].value
              /\ \A a \in is(start) : new1.value <= r[a].value
  <2>1. new1.value = IF p.value < old.value THEN p.value ELSE old.value
    BY <1>10, <1>13
  <2>2. CASE start \in DOMAIN f
    <3>1. /\ \E a \in was(start) : old.value = r[a].value
          /\ \A a \in was(start) : old.value <= r[a].value
      BY <1>2, <1>9, <1>13, <2>2
    <3> HIDE DEF start
    <3>2. p.value \in Int /\ old.value \in Int /\ is(start) = was(start) \cup {m}
      BY <1>1, <1>3, <1>9
    <3>3. new1.value <= p.value /\ new1.value <= old.value
      BY <2>1, <3>2
    <3>4. ASSUME NEW a \in is(start) PROVE new1.value <= r[a].value
      <4>1. CASE a = m
        BY <1>11, <3>3, <4>1
      <4>2. CASE a # m
        <5>1. old.value <= r[a].value /\ r[a].value \in Int
          BY <1>8, <3>1, <3>2, <4>2
        <5> QED BY <2>1, <3>2, <3>3, <5>1
      <4> QED BY <4>1, <4>2
    <3>5. \E a \in is(start) : new1.value = r[a].value
      BY <1>11, <2>1, <3>1, <3>2
    <3> QED BY <3>4, <3>5
  <2>3. CASE start \notin DOMAIN f
    <3>1. is(start) = {m} /\ old.value = p.value
      BY <1>3, <1>7, <1>9, <2>3 DEF was
    <3> HIDE DEF start
    <3> QED BY <1>1, <1>11, <2>1, <3>1
  <2> QED BY <2>2, <2>3
<1>14. ASSUME kind = "max"
       PROVE  /\ \E a \in is(start) : new1.value = r[a].value
              /\ \A a \in is(start) : new1.value >= r[a].value
  <2>1. new1.value = IF p.value > old.value THEN p.value ELSE old.value
    BY <1>10, <1>14
  <2>2. CASE start \in DOMAIN f
    <3>1. /\ \E a \in was(start) : old.value = r[a].value
          /\ \A a \in was(start) : old.value >= r[a].value
      BY <1>2, <1>9, <1>14, <2>2
    <3> HIDE DEF start
    <3>2. p.value \in Int /\ old.value \in Int /\ is(start) = was(start) \cup {m}
      BY <1>1, <1>3, <1>9
    <3>3. new1.value >= p.value /\ new1.value >= old.value
      BY <2>1, <3>2
    <3>4. ASSUME NEW a \in is(start) PROVE new1.value >= r[a].value
      <4>1. CASE a = m
        BY <1>11, <3>3, <4>1
      <4>2. CASE a # m
        <5>1. old.value >= r[a].value /\ r[a].value \in Int
          BY <1>8, <3>1, <3>2, <4>2
        <5> QED BY <2>1, <3>2, <3>3, <5>1
      <4> QED BY <4>1, <4>2
    <3>5. \E a \in is(start) : new1.value = r[a].value
      BY <1>11, <2>1, <3>1, <3>2
    <3> QED BY <3>4, <3>5
  <2>3. CASE start \notin DOMAIN f
    <3>1. is(start) = {m} /\ old.value = p.value
      BY <1>3, <1>7, <1>9, <2>3 DEF was
    <3> HIDE DEF start
    <3> QED BY <1>1, <1>11, <2>1, <3>1
  <2> QED BY <2>2, <2>3
<1>15. ASSUME NEW t \in DOMAIN new
       PROVE  /\ new[t].count = Cardinality(is(t))
              /\ kind = "count" => new[t].value = Cardinality(is(t))
              /\ kind = "min" => /\ \E a \in is(t) : new[t].value = r[a].value
                                 /\ \A a \in is(t) : new[t].value <= r[a].value
              /\ kind = "max" => /\ \E a \in is(t) : new[t].value = r[a].value
                                 /\ \A a \in is(t) : new[t].value >= r[a].value
  <2>1. CASE t = start
    <3>1. new[t] = new1
      BY <2>1 DEF new1
    <3> HIDE DEF start
    <3> QED BY <1>12, <1>13, <1>14, <2>1, <3>1
  <2>2. CASE t # start
    <3>1. t \in DOMAIN f /\ new[t] = f[t] /\ is(t) = was(t)
      BY <1>3, <1>4, <2>2
    <3> HIDE DEF start
    <3> QED BY <1>2, <3>1
  <2> QED BY <2>1, <2>2
<1>16. Holds(new, r, m, kind, bucket)
  BY <1>4, <1>5, <1>15 DEF Holds, is
<1> QED BY <1>16 DEF new, p

\* What the loop ends with.
LEMMA AggregateHolds ==
    ASSUME NEW range, NEW r \in Seq(Point), r = InRange(series, range),
           NEW kind \in {"min", "max", "count"}, NEW bucket \in Nat, bucket >= 1
    PROVE  Holds(Aggregate(range, kind, bucket), r, Len(r), kind, bucket)
<1> DEFINE n == Len(r)
<1>1. n \in Nat
  OBVIOUS
<1>2. PICK f : BucketLoop(f, r, kind, bucket) /\ Aggregate(range, kind, bucket) = f[n]
  BY AggregateLoops
<1> DEFINE good == {m \in 0 .. n : Holds(f[m], r, m, kind, bucket)}
<1>3. 0 \in good
  <2>1. f[0] = << >> /\ 0 \in 0 .. n
    BY <1>1, <1>2 DEF BucketLoop
  <2>2. << >> \in [{} -> Total] /\ DOMAIN << >> = {} /\ 1 .. 0 = {}
    OBVIOUS
  <2>3. << >> \in Totals
    BY <2>2, TotalsAre
  <2>4. Holds(<< >>, r, 0, kind, bucket)
    BY <2>2, <2>3 DEF Holds
  <2> QED BY <2>1, <2>4
<1>4. ASSUME NEW m \in 1 .. n, m - 1 \in good PROVE m \in good
  <2>1. f[m] = WithPoint(f[m - 1], r[m], kind, bucket)
    BY <1>2 DEF BucketLoop
  <2>2. Holds(f[m - 1], r, m - 1, kind, bucket)
    BY <1>4
  <2>3. Holds(f[m], r, m, kind, bucket)
    BY <2>1, <2>2, BucketGrows
  <2>4. m \in 0 .. n
    BY <1>1
  <2> QED BY <2>3, <2>4
<1>5. n \in good
  <2> HIDE DEF good, n
  <2>1. 0 .. n \subseteq good
    <3>1. \A m \in 0 + 1 .. n : m - 1 \in good => m \in good
      BY <1>4
    <3> QED BY <1>1, <1>3, <3>1, Counting
  <2> QED BY <2>1, <1>1
<1> QED BY <1>2, <1>5

\* A surjection of the places of a selection onto the numbers they have.
LEMMA FiniteImage ==
    ASSUME NEW S, IsFiniteSet(S), NEW f \in [S -> Int]
    PROVE  IsFiniteSet({f[x] : x \in S})
<1> DEFINE T == {f[x] : x \in S}
<1>1. f \in Surjection(S, T)
  BY DEF Surjection
<1> HIDE DEF T
<1>2. IsFiniteSet(T)
  BY <1>1, FS_Surjection
<1> QED BY <1>2 DEF T

LEMMA AggregatesAnswered ==
    ASSUME SeriesInv, NEW from \in Asked, NEW to \in Asked, NEW bucket \in 1 .. MaxTime,
           NEW kind \in {"min", "max", "count"}, Aggregated(from, to, kind, bucket) # None
    PROVE  LET answer == Aggregated(from, to, kind, bucket)
               InBucket(start) == {i \in Meant(from, to) : series[i].at \in start .. start + bucket - 1}
               Numbers(start) == {series[i].value : i \in InBucket(start)}
           IN  /\ DOMAIN answer = {t \in Time : t % bucket = 0 /\ InBucket(t) # {}}
               /\ \A start \in DOMAIN answer : answer[start].value =
                     CASE kind = "min" -> Min(Numbers(start))
                       [] kind = "max" -> Max(Numbers(start))
                       [] OTHER -> Cardinality(InBucket(start))
<1> DEFINE answer == Aggregated(from, to, kind, bucket)
           found == Meant(from, to)
           range == Span(from, to)
           r == InRange(series, range)
           n == Len(r)
           InBucket(start) == {i \in found : series[i].at \in start .. start + bucket - 1}
           Numbers(start) == {series[i].value : i \in InBucket(start)}
           places(t) == InBucketOf(r, n, t, bucket)
<1>1. bucket \in Nat /\ bucket >= 1 /\ ~(bucket < 1) /\ kind \in Kinds
  BY TimeSeriesConstants DEF Kinds
<1>2. answer = Aggregate(range, kind, bucket)
  BY <1>1 DEF Aggregated
<1>3. r \in Seq(Point) /\ \E g : Selects(g, found, series, r)
  BY FoundIs
<1>4. series \in Seq(Point) /\ DOMAIN series = 1 .. Len(series) /\ Len(series) \in Nat
  BY SeriesInvHas
<1>5. found \in SUBSET (1 .. Len(series))
  BY <1>4 DEF Meant
<1>6. Holds(answer, r, n, kind, bucket)
  <2>1. r = InRange(series, range)
    OBVIOUS
  <2> HIDE DEF r, answer, range, n
  <2>2. Holds(Aggregate(range, kind, bucket), r, Len(r), kind, bucket)
    BY <1>1, <1>3, <2>1, AggregateHolds
  <2> QED BY <1>2, <2>2 DEF n
<1> HIDE DEF r, answer, range, found, n
<1>7. PICK g : Selects(g, found, series, r)
  BY <1>3
<1>8. /\ n \in Nat
      /\ \A a \in 1 .. n : g[a] \in found /\ r[a] = series[g[a]]
      /\ \A i \in found : \E a \in 1 .. n : g[a] = i
      /\ \A a, b \in 1 .. n : a < b => g[a] < g[b]
  BY <1>3, <1>7 DEF Selects, n
<1>9. \A a \in 1 .. n : r[a].at \in Time /\ r[a].at \in Nat /\ r[a].value \in Int
  <2>1. \A a \in 1 .. n : r[a] \in Point
    BY <1>3 DEF n
  <2> QED BY <2>1, PointsHaveNumbers, TimesAreNumbers
\* The places of a bucket are those of the points in its time.
<1>10. ASSUME NEW t \in Time, t % bucket = 0, NEW a \in 1 .. n
       PROVE  a \in places(t) <=> g[a] \in InBucket(t)
  <2> DEFINE at == r[a].at
  <2>1. at \in Nat /\ t \in Nat /\ at \in Int /\ t \in Int /\ bucket \in Int
    BY <1>1, <1>9, TimesAreNumbers
  <2>2. series[g[a]].at = at /\ g[a] \in found
    BY <1>8
  <2> HIDE DEF at
  <2>3. at \in t .. t + bucket - 1 <=> t <= at /\ at < t + bucket
    BY <2>1
  <2>4. BucketOf(at, bucket) = t <=> t <= at /\ at < t + bucket
    <3>1. ASSUME BucketOf(at, bucket) = t PROVE t <= at /\ at < t + bucket
      BY <1>1, <2>1, <3>1, BucketHolds
    <3>2. ASSUME t <= at, at < t + bucket PROVE BucketOf(at, bucket) = t
      BY <1>1, <1>10, <2>1, <3>2, BucketIsOnly
    <3> QED BY <3>1, <3>2
  <2>5. a \in places(t) <=> BucketOf(at, bucket) = t
    BY DEF InBucketOf, at
  <2>6. g[a] \in InBucket(t) <=> at \in t .. t + bucket - 1
    BY <2>2
  <2> QED BY <2>3, <2>4, <2>5, <2>6
<1>11. \A a \in 1 .. n : /\ BucketOf(r[a].at, bucket) \in Time
                         /\ BucketOf(r[a].at, bucket) % bucket = 0
  <2> SUFFICES ASSUME NEW a \in 1 .. n
               PROVE  BucketOf(r[a].at, bucket) \in Time /\ BucketOf(r[a].at, bucket) % bucket = 0
    OBVIOUS
  <2> DEFINE at == r[a].at
             start == BucketOf(at, bucket)
  <2>1. at \in Nat /\ at <= MaxTime /\ MaxTime \in Nat
    BY <1>9, TimesAreNumbers, TimeSeriesConstants
  <2> HIDE DEF at
  <2>2. start \in Nat /\ start % bucket = 0 /\ start <= at
    BY <1>1, <2>1, BucketHolds
  <2> HIDE DEF start
  <2>3. start \in Time
    BY <2>1, <2>2 DEF Time
  <2> QED BY <2>2, <2>3 DEF start, at
<1>12. DOMAIN answer = {BucketOf(r[a].at, bucket) : a \in 1 .. n}
  BY <1>6 DEF Holds
<1>13. DOMAIN answer = {t \in Time : t % bucket = 0 /\ InBucket(t) # {}}
  <2>1. ASSUME NEW t \in DOMAIN answer
        PROVE  t \in Time /\ t % bucket = 0 /\ InBucket(t) # {}
    <3>1. PICK a \in 1 .. n : t = BucketOf(r[a].at, bucket)
      BY <1>12
    <3>2. t \in Time /\ t % bucket = 0 /\ a \in places(t)
      BY <1>11, <3>1 DEF InBucketOf
    <3> HIDE DEF InBucket, places
    <3>3. g[a] \in InBucket(t)
      BY <1>10, <3>2
    <3> QED BY <3>2, <3>3
  <2>2. ASSUME NEW t \in Time, t % bucket = 0, InBucket(t) # {}
        PROVE  t \in DOMAIN answer
    <3>1. PICK i \in found : i \in InBucket(t)
      BY <2>2
    <3>2. PICK a \in 1 .. n : g[a] = i
      BY <1>8
    <3> HIDE DEF InBucket
    <3>3. a \in places(t)
      BY <1>10, <2>2, <3>1, <3>2
    <3> QED BY <1>12, <3>3 DEF InBucketOf
  <2> HIDE DEF InBucket
  <2> QED BY <2>1, <2>2
<1>14. ASSUME NEW t \in DOMAIN answer
       PROVE  answer[t].value =
                 CASE kind = "min" -> Min(Numbers(t))
                   [] kind = "max" -> Max(Numbers(t))
                   [] OTHER -> Cardinality(InBucket(t))
  <2>1. t \in Time /\ t % bucket = 0
    BY <1>13
  <2> DEFINE h == [a \in places(t) |-> g[a]]
             v == [a \in places(t) |-> r[a].value]
             x == answer[t].value
  <2>2. places(t) \subseteq 1 .. n /\ IsFiniteSet(places(t))
    <3>1. places(t) \in SUBSET (1 .. n)
      BY DEF InBucketOf
    <3>2. IsFiniteSet(1 .. n)
      BY <1>8, FS_Interval
    <3> QED BY <3>1, <3>2, FS_Subset
  <2> HIDE DEF places
  <2>3. \A a \in places(t) : a \in 1 .. n /\ g[a] \in InBucket(t)
    <3> HIDE DEF InBucket
    <3> QED BY <1>10, <2>1, <2>2
  <2>4. \A i \in InBucket(t) : \E a \in places(t) : g[a] = i
    <3> SUFFICES ASSUME NEW i \in InBucket(t) PROVE \E a \in places(t) : g[a] = i
      OBVIOUS
    <3>1. i \in found
      OBVIOUS
    <3>2. PICK a \in 1 .. n : g[a] = i
      BY <1>8, <3>1
    <3> HIDE DEF InBucket
    <3> QED BY <1>10, <2>1, <3>2
  <2>5. \A a, b \in places(t) : g[a] = g[b] => a = b
    <3> SUFFICES ASSUME NEW a \in places(t), NEW b \in places(t), a # b PROVE g[a] # g[b]
      OBVIOUS
    <3>1. a \in 1 .. n /\ b \in 1 .. n
      BY <2>3
    <3>2. g[a] \in Int /\ g[b] \in Int
      <4>1. \A i \in found : i \in Int
        BY <1>4, <1>5
      <4> QED BY <4>1, <3>1, <1>8
    <3>3. a < b \/ b < a
      BY <3>1, <1>8
    <3> QED BY <1>8, <3>1, <3>2, <3>3
  <2>6. IsFiniteSet(InBucket(t)) /\ Cardinality(InBucket(t)) = Cardinality(places(t))
    <3> HIDE DEF InBucket
    <3> DEFINE P == places(t)
               B == InBucket(t)
    <3>1. /\ h \in [P -> B]
          /\ \A a, b \in P : h[a] = h[b] => a = b
          /\ \A i \in B : \E a \in P : h[a] = i
      BY <2>3, <2>4, <2>5
    <3>2. IsFiniteSet(P)
      BY <2>2
    <3> HIDE DEF h, P, B
    <3>3. h \in Bijection(P, B)
      BY <3>1, Fun_IsBij
    <3>4. ExistsBijection(P, B)
      BY <3>3 DEF ExistsBijection
    <3>5. IsFiniteSet(B) /\ Cardinality(B) = Cardinality(P)
      BY <3>2, <3>4, FS_Bijection
    <3> QED BY <3>5 DEF P, B
  <2>7. Numbers(t) = {v[a] : a \in places(t)}
    <3>1. Numbers(t) = {series[i].value : i \in InBucket(t)}
      OBVIOUS
    <3>2. \A a \in places(t) : v[a] = series[g[a]].value
      BY <1>8, <2>3
    <3> HIDE DEF InBucket, Numbers, v
    <3> QED BY <2>3, <2>4, <3>1, <3>2
  <2>8. v \in [places(t) -> Int]
    BY <1>9, <2>3
  <2>9. IsFiniteSet(Numbers(t)) /\ Numbers(t) \in SUBSET Int
    <3> HIDE DEF Numbers, v
    <3>1. IsFiniteSet({v[a] : a \in places(t)})
      BY <2>2, <2>8, FiniteImage
    <3> QED BY <2>7, <2>8, <3>1
  <2>10. /\ kind = "count" => x = Cardinality(places(t))
         /\ kind = "min" => /\ \E a \in places(t) : x = r[a].value
                            /\ \A a \in places(t) : x <= r[a].value
         /\ kind = "max" => /\ \E a \in places(t) : x = r[a].value
                            /\ \A a \in places(t) : x >= r[a].value
    BY <1>6 DEF Holds, places
  <2>11. \A a \in places(t) : v[a] = r[a].value
    OBVIOUS
  <2> HIDE DEF v, x, Numbers, InBucket
  <2>12. CASE kind = "count"
    <3>1. x = Cardinality(InBucket(t))
      BY <2>6, <2>10, <2>12
    <3> QED BY <2>12, <3>1 DEF x
  <2>13. CASE kind = "min"
    <3>1. x \in Numbers(t) /\ \A y \in Numbers(t) : x <= y
      BY <2>7, <2>10, <2>11, <2>13
    <3>2. Min(Numbers(t)) \in Numbers(t) /\ \A y \in Numbers(t) : Min(Numbers(t)) <= y
      <4>1. Numbers(t) # {}
        BY <3>1
      <4> QED BY <2>9, <4>1, MinOfSet
    <3> DEFINE y == Min(Numbers(t))
    <3>3. x \in Int /\ y \in Int /\ x <= y /\ y <= x
      BY <2>9, <3>1, <3>2
    <3> HIDE DEF y
    <3>4. x = y
      BY <3>3
    <3> QED BY <2>13, <3>4 DEF x, y
  <2>14. CASE kind = "max"
    <3>1. x \in Numbers(t) /\ \A y \in Numbers(t) : y <= x
      <4>1. \A y \in Numbers(t) : \E a \in places(t) : y = r[a].value
        BY <2>7, <2>11
      <4>2. \A a \in places(t) : r[a].value <= x
        <5>1. x \in Int /\ \A a \in places(t) : r[a].value \in Int
          BY <1>9, <2>3, <2>10, <2>14
        <5> QED BY <5>1, <2>10, <2>14
      <4> QED BY <4>1, <4>2, <2>7, <2>10, <2>11, <2>14
    <3>2. Max(Numbers(t)) \in Numbers(t) /\ \A y \in Numbers(t) : y <= Max(Numbers(t))
      <4>1. Numbers(t) # {}
        BY <3>1
      <4> QED BY <2>9, <4>1, MaxOfSet
    <3> DEFINE y == Max(Numbers(t))
    <3>3. x \in Int /\ y \in Int /\ x <= y /\ y <= x
      BY <2>9, <3>1, <3>2
    <3> HIDE DEF y
    <3>4. x = y
      BY <3>3
    <3> QED BY <2>14, <3>4 DEF x, y
  <2> QED BY <2>12, <2>13, <2>14
<1> QED BY <1>13, <1>14 DEF answer, found

\* A bucket's minimum, maximum and count are those of its points, and no point of
\* the range is without a bucket (service.go and store.go, Aggregate).
THEOREM AggregatesAreRight == SeriesSpec => []AggregatesAnswer
<1>1. SeriesInv => AggregatesAnswer
  BY AggregatesAnswered DEF AggregatesAnswer
<1> QED BY <1>1, SeriesInvariance, PTL

-----------------------------------------------------------------------------
(* Listings: what holds of the rows and the walk *)

Row == [at : 0 .. ListingTime, match : BOOLEAN]

Begun == [op : {"page", "count", "over"}, offset : Nat, limit : 1 .. MaxExecutions,
          page : Seq(Rows), seen : Seq(Rows)]

\* Of the walk through DevicesInPostgres, which promises nothing, nothing is said.
ListingTypeOK ==
    /\ listing \in Listings
    /\ rows \in [Rows -> Row \cup {NoRow}]
    /\ IsFiniteSet(Table)
    /\ Walking => walk \in Begun /\ walk.limit <= Largest

LEMMA ListingConstants ==
    /\ Rows \subseteq Nat /\ Limits \subseteq Int
    /\ MaxExecutions \in Nat /\ MaxPage \in 1 .. MaxExecutions
    /\ DefaultPage \in 1 .. MaxPage /\ ListingTime \in Nat
    /\ NoRow \notin Row
BY ListingAssumption DEF ListingAssumption, Row

\* A row that is stored has a time.
LEMMA StoredRows ==
    ASSUME ListingTypeOK
    PROVE  \A i \in Rows : Stored(i) => rows[i] \in Row /\ rows[i].at \in Nat /\ i \in Nat
BY ListingConstants DEF ListingTypeOK, Stored, Row

LEMMA ListedAre ==
    ASSUME ListingTypeOK
    PROVE  /\ Listed \subseteq Table /\ Listed \subseteq Rows /\ Listed \subseteq Nat
           /\ IsFiniteSet(Listed) /\ Cardinality(Listed) \in Nat /\ Cardinality(Table) \in Nat
           /\ Cardinality(Listed) <= Cardinality(Table)
           /\ \A i \in Listed : rows[i].at \in Nat /\ i \in Nat
<1>1. Listed \in SUBSET Table /\ Listed \subseteq Rows
  BY DEF Listed, Table, Matches
<1>2. IsFiniteSet(Table)
  BY DEF ListingTypeOK
<1>3. IsFiniteSet(Listed) /\ Cardinality(Listed) <= Cardinality(Table)
  BY <1>1, <1>2, FS_Subset
<1>4. Cardinality(Listed) \in Nat /\ Cardinality(Table) \in Nat
  BY <1>2, <1>3, FS_CardinalityType
<1>5. \A i \in Listed : rows[i].at \in Nat /\ i \in Nat
  BY <1>1, StoredRows DEF Table
<1> QED BY <1>1, <1>3, <1>4, <1>5

\* Where a row stands in the listing: the number of rows listed before it.
Rank(i) == Cardinality({j \in Listed : Before(j, i)})

LEMMA RankIsNumber ==
    ASSUME ListingTypeOK, NEW i
    PROVE  IsFiniteSet({j \in Listed : Before(j, i)}) /\ Rank(i) \in Nat
<1>1. {j \in Listed : Before(j, i)} \in SUBSET Listed
  OBVIOUS
<1>2. IsFiniteSet({j \in Listed : Before(j, i)})
  BY <1>1, ListedAre, FS_Subset
<1> QED BY <1>2, FS_CardinalityType DEF Rank

-----------------------------------------------------------------------------
(* The orders of a listing *)

LEMMA BeforeOrders ==
    ASSUME ListingTypeOK, Ordered, NEW i \in Listed, NEW j \in Listed
    PROVE  /\ ~Before(i, i)
           /\ i # j => (Before(i, j) <=> ~Before(j, i))
BY ListedAre DEF Ordered, Before

\* Rows that lead the listing are as many as may stand before any other.
LEMMA LeadersAre ==
    ASSUME ListingTypeOK, Ordered, NEW S \in SUBSET Listed, Leads(S)
    PROVE  /\ IsFiniteSet(S) /\ Cardinality(S) \in Nat
           /\ Cardinality(S) <= Cardinality(Listed)
           /\ \A i \in Listed : i \notin S => Rank(i) >= Cardinality(S)
<1>1. IsFiniteSet(S) /\ Cardinality(S) <= Cardinality(Listed)
  BY ListedAre, FS_Subset
<1>2. Cardinality(S) \in Nat
  BY <1>1, FS_CardinalityType
<1>3. ASSUME NEW i \in Listed, i \notin S PROVE Rank(i) >= Cardinality(S)
  <2> DEFINE earlier == {j \in Listed : Before(j, i)}
  <2>1. \A j \in S : Before(j, i)
    BY <1>3, BeforeOrders DEF Leads
  <2>2. S \in SUBSET earlier
    BY <2>1
  <2>3. IsFiniteSet(earlier) /\ Rank(i) = Cardinality(earlier) /\ Rank(i) \in Nat
    BY RankIsNumber DEF Rank
  <2> HIDE DEF earlier
  <2>4. Cardinality(S) <= Cardinality(earlier)
    BY <2>2, <2>3, FS_Subset
  <2> QED BY <1>2, <2>3, <2>4
<1> QED BY <1>1, <1>2, <1>3

\* The place of every row in an order that is settled, of rows that lead.
LEMMA PlacesAreRanks ==
    ASSUME ListingTypeOK, Ordered, NEW S \in SUBSET Listed, Leads(S), NEW s \in Orders(S)
    PROVE  /\ s \in Seq(S) /\ Len(s) = Cardinality(S)
           /\ \A i \in S : \E k \in 1 .. Len(s) : s[k] = i
           /\ \A k \in 1 .. Len(s) : Rank(s[k]) = k - 1
<1> DEFINE N == Cardinality(S)
           D == 1 .. N
<1>1. N \in Nat /\ IsFiniteSet(S)
  BY LeadersAre
<1>2. IsFiniteSet(D) /\ Cardinality(D) = N
  <2>1. 1 \in Int /\ N \in Int
    BY <1>1
  <2>2. IsFiniteSet(1 .. N) /\ Cardinality(1 .. N) = IF 1 > N THEN 0 ELSE N - 1 + 1
    <3> HIDE DEF N
    <3> QED BY <2>1, FS_Interval, Zenon
  <2> HIDE DEF N
  <2> QED BY <1>1, <2>2
<1>3. s \in [D -> S] /\ \A a, b \in D : a # b => s[a] # s[b]
  BY DEF Orders, SetToSeqs
<1>4. \A a, b \in D : a < b => ~Before(s[b], s[a])
  BY <1>3 DEF Orders
<1> HIDE DEF N
<1>5. s \in Seq(S) /\ Len(s) = N
  BY <1>1, <1>3
<1>6. \A i \in S : \E k \in D : s[k] = i
  <2> HIDE DEF D
  <2>1. s \in Injection(D, S)
    BY <1>3, Fun_IsInj
  <2>2. s \in Surjection(D, S)
    BY <1>1, <1>2, <2>1, FS_Injection DEF N
  <2> QED BY <2>2 DEF Surjection
<1>7. ASSUME NEW k \in D PROVE Rank(s[k]) = k - 1
  <2> DEFINE earlier == {j \in Listed : Before(j, s[k])}
             E == 1 .. k - 1
             f == [a \in E |-> s[a]]
  <2>1. \A a \in E : a \in D /\ a < k
    BY <1>1
  <2>2. \A a \in D : Before(s[a], s[k]) <=> a < k
    <3> SUFFICES ASSUME NEW a \in D PROVE Before(s[a], s[k]) <=> a < k
      OBVIOUS
    <3>1. s[a] \in Listed /\ s[k] \in Listed
      BY <1>3, S \in SUBSET Listed
    <3>2. CASE a = k
      BY <3>1, <3>2, <1>1, BeforeOrders
    <3>3. CASE a < k
      <4>1. ~Before(s[k], s[a]) /\ s[a] # s[k]
        BY <1>1, <1>3, <1>4, <3>3
      <4> QED BY <3>1, <3>3, <4>1, BeforeOrders
    <3>4. CASE k < a
      <4>1. ~Before(s[a], s[k])
        BY <1>4, <3>4
      <4> QED BY <1>1, <3>4, <4>1
    <3> QED BY <1>1, <3>2, <3>3, <3>4
  <2>3. f \in [E -> earlier]
    BY <1>3, <2>1, <2>2, S \in SUBSET Listed
  <2>4. \A a, b \in E : f[a] = f[b] => a = b
    BY <1>3, <2>1
  <2>5. \A j \in earlier : \E a \in E : f[a] = j
    <3> SUFFICES ASSUME NEW j \in earlier PROVE \E a \in E : f[a] = j
      OBVIOUS
    <3>0. j \in S
      BY <1>3 DEF Leads
    <3>1. PICK a \in D : s[a] = j
      BY <1>6, <3>0
    <3>2. a < k
      BY <2>2, <3>1
    <3>3. a \in E
      BY <1>1, <3>2
    <3> QED BY <3>1, <3>3
  <2>6. IsFiniteSet(E) /\ Cardinality(E) = k - 1
    <3>1. 1 \in Int /\ k - 1 \in Int /\ k - 1 >= 0
      BY <1>1
    <3>2. IsFiniteSet(1 .. k - 1)
          /\ Cardinality(1 .. k - 1) = IF 1 > k - 1 THEN 0 ELSE k - 1 - 1 + 1
      BY <3>1, FS_Interval, Zenon
    <3> QED BY <3>1, <3>2
  <2> HIDE DEF f, E, earlier
  <2>7. f \in Bijection(E, earlier)
    BY <2>3, <2>4, <2>5, Fun_IsBij
  <2>8. ExistsBijection(E, earlier)
    BY <2>7 DEF ExistsBijection
  <2>9. Cardinality(earlier) = k - 1
    BY <2>6, <2>8, FS_Bijection
  <2> QED BY <2>9 DEF earlier, Rank
<1> QED BY <1>5, <1>6, <1>7 DEF N

-----------------------------------------------------------------------------
(* A page *)

\* The page, from a place on, of an order of the first n rows.
IsPage(page, offset, limit, n) ==
    /\ page \in Seq(Listed)
    /\ n \in Nat /\ n <= Cardinality(Listed)
    /\ \A k \in 1 .. Len(page) : Rank(page[k]) = offset + k - 1
    /\ offset <= n => offset + Len(page) = Smaller(offset + limit, n)
    /\ offset > n => page = << >>
    /\ \A i \in Listed :
         offset <= Rank(i) /\ Rank(i) < offset + limit /\ Rank(i) < n => i \in ToSet(page)

LEMMA PageIs ==
    ASSUME ListingTypeOK, Ordered, NEW offset \in Nat, NEW limit \in Nat,
           NEW S \in SUBSET Listed, Leads(S), NEW page \in Pages(S, offset, limit)
    PROVE  IsPage(page, offset, limit, Cardinality(S))
<1> DEFINE N == Cardinality(S)
           last == Smaller(offset + limit, N)
<1>1. PICK s \in Orders(S) : page = SubSeq(s, offset + 1, Smaller(offset + limit, Len(s)))
  BY DEF Pages, Cut
<1>2. /\ s \in Seq(S) /\ Len(s) = N
      /\ \A i \in S : \E k \in 1 .. N : s[k] = i
      /\ \A k \in 1 .. N : Rank(s[k]) = k - 1
  <2>1. /\ s \in Seq(S) /\ Len(s) = N
        /\ \A i \in S : \E k \in 1 .. Len(s) : s[k] = i
        /\ \A k \in 1 .. Len(s) : Rank(s[k]) = k - 1
    BY PlacesAreRanks, Zenon
  <2> HIDE DEF N
  <2> QED BY <2>1
<1>3. N \in Nat /\ N <= Cardinality(Listed) /\ \A i \in Listed : i \notin S => Rank(i) >= N
  BY LeadersAre
<1> HIDE DEF N
<1>4. last \in Nat /\ last <= N /\ last <= offset + limit /\ (last = N \/ last = offset + limit)
  BY <1>3 DEF Smaller
<1>5. page = SubSeq(s, offset + 1, last)
  BY <1>1, <1>2
<1>s. last = Smaller(offset + limit, N)
  OBVIOUS
<1> HIDE DEF last
<1>6. \A i \in offset + 1 .. last : s[i] \in Listed
  <2>1. \A i \in offset + 1 .. last : s[i] \in S
    BY <1>2, <1>3, <1>4
  <2> QED BY <2>1
<1>7. /\ page \in Seq(Listed)
      /\ Len(page) = IF offset + 1 <= last THEN last - (offset + 1) + 1 ELSE 0
      /\ \A k \in 1 .. last - (offset + 1) + 1 : page[k] = s[offset + 1 + k - 1]
  BY <1>4, <1>5, <1>6, SubSeqProperties
<1>8. Len(page) \in Nat /\ \A k \in 1 .. Len(page) : page[k] = s[offset + k] /\ offset + k \in 1 .. N
  <2>0. Len(page) \in Nat
    BY <1>7
  <2> SUFFICES ASSUME NEW k \in 1 .. Len(page) PROVE page[k] = s[offset + k] /\ offset + k \in 1 .. N
    BY <2>0
  <2>1. offset + 1 <= last /\ Len(page) = last - (offset + 1) + 1
    BY <1>4, <1>7
  <2>2. offset + 1 + k - 1 = offset + k /\ offset + k \in 1 .. N
    BY <1>3, <1>4, <2>1
  <2> QED BY <1>7, <2>1, <2>2
<1>9. \A k \in 1 .. Len(page) : Rank(page[k]) = offset + k - 1
  BY <1>2, <1>8
<1>10. offset <= N => offset + Len(page) = last
  BY <1>3, <1>4, <1>7
<1>11. offset > N => page = << >>
  <2> SUFFICES ASSUME offset > N PROVE page = << >>
    OBVIOUS
  <2>1. Len(page) = 0
    BY <1>3, <1>4, <1>7
  <2> QED BY <1>7, <2>1, EmptySeq
<1>13. ASSUME NEW i \in Listed, offset <= Rank(i), Rank(i) < offset + limit, Rank(i) < N
       PROVE  i \in ToSet(page)
  <2>0. i \in S
    <3>1. Rank(i) \in Nat
      BY RankIsNumber
    <3> QED BY <1>3, <1>13, <3>1
  <2>1. PICK k \in 1 .. N : s[k] = i /\ Rank(i) = k - 1
    BY <1>2, <2>0
  <2> DEFINE a == k - offset
  <2>2. k \in Nat /\ offset <= k - 1 /\ k - 1 < offset + limit /\ k <= N
    BY <1>3, <1>13, <2>1
  <2>3. k <= last
    BY <1>3, <1>4, <2>2
  <2>4. a \in 1 .. Len(page) /\ offset + a = k
    BY <1>4, <1>7, <2>2, <2>3
  <2> HIDE DEF a
  <2>5. page[a] = i
    BY <1>8, <2>1, <2>4
  <2> QED BY <1>7, <2>4, <2>5 DEF ToSet
<1> QED BY <1>3, <1>7, <1>9, <1>10, <1>11, <1>13, <1>s DEF IsPage, N

LEMMA LimitsOfPages ==
    ASSUME ListingTypeOK
    PROVE  /\ Largest \in 1 .. MaxExecutions
           /\ \A limit \in Limits : Pagination(limit) \in 1 .. Largest
           /\ \A limit \in 1 .. Largest :
                Normal(limit) = limit /\ limit \in Nat /\ limit \in 1 .. MaxExecutions
BY ListingConstants DEF Pagination, Normal, Largest

LEMMA RankIsPlace ==
    ASSUME ListingTypeOK, Ordered, NEW i \in Listed
    PROVE  Rank(i) < Cardinality(Listed)
<1> DEFINE earlier == {j \in Listed : Before(j, i)}
<1>1. earlier \in SUBSET Listed /\ i \in Listed /\ i \notin earlier
  BY BeforeOrders
<1>2. IsFiniteSet(Listed) /\ Cardinality(Listed) \in Nat
  BY ListedAre
<1>3. Rank(i) = Cardinality(earlier) /\ Cardinality(earlier) \in Nat
  BY RankIsNumber DEF Rank
<1> HIDE DEF earlier
<1>4. Cardinality(earlier) <= Cardinality(Listed)
      /\ (Cardinality(Listed) = Cardinality(earlier) => Listed = earlier)
  BY <1>1, <1>2, FS_Subset
<1>5. Listed # earlier
  BY <1>1
<1> QED BY <1>2, <1>3, <1>4, <1>5

-----------------------------------------------------------------------------
(* The invariant of a walk *)

\* What the client was given, the page it is waiting for the count of included,
\* and how far into the listing that goes.
Given == IF walk.op = "count" THEN walk.seen \o walk.page ELSE walk.seen
End == IF walk.op = "count" THEN walk.offset + walk.limit ELSE walk.offset

\* Of the rows the walk is to find each was given or lies further on.
Finds(given, end) ==
    /\ expected \subseteq Listed
    /\ \A i \in expected : i \in ToSet(given) \/ Rank(i) >= end

\* No answer that the walk still rests on was short; and none that may have put
\* a row in a place not its own.
Reliable == short => listing.read = "newest first" /\ walk.op # "over"
InPlace == short => listing.read = "newest first"

NoneLeftBehind ==
    Walking /\ ~shrunk /\ Ordered /\ Reliable =>
        /\ Finds(Given, End)
        /\ walk.op = "over" => expected \subseteq ToSet(walk.seen)

\* While nothing comes or goes, what was given is the beginning of the listing,
\* and but for a short answer at the end all of it.
Begins(given) ==
    /\ given \in Seq(Listed)
    /\ \A k \in 1 .. Len(given) : Rank(given[k]) = k - 1

Reaches(given, end) == Len(given) = Smaller(end, Cardinality(Listed))

GivenInOrder ==
    Walking /\ ~grown /\ ~shrunk /\ Ordered /\ InPlace =>
        /\ Begins(Given)
        /\ Reliable => Reaches(Given, End)

ListingInv == ListingTypeOK /\ NoneLeftBehind /\ GivenInOrder

LEMMA BegunIs ==
    ASSUME ListingTypeOK, Walking
    PROVE  /\ walk \in Begun
           /\ walk.op \in {"page", "count", "over"} /\ walk.offset \in Nat
           /\ walk.limit \in 1 .. Largest /\ walk.limit \in Nat
           /\ walk.page \in Seq(Rows) /\ walk.seen \in Seq(Rows)
BY ListingConstants, LimitsOfPages DEF ListingTypeOK, Begun

LEMMA ListingInvInit == ListingInit => ListingInv
<1> SUFFICES ASSUME ListingInit PROVE ListingInv
  OBVIOUS
<1>1. rows \in [Rows -> Row \cup {NoRow}] /\ listing \in Listings /\ walk = NotBegun
  BY DEF ListingInit
<1>2. Table = {}
  BY DEF ListingInit, Table, Stored
<1>3. ListingTypeOK
  BY <1>1, <1>2, FS_EmptySet DEF ListingTypeOK, Walking
<1> QED BY <1>1, <1>3 DEF ListingInv, NoneLeftBehind, GivenInOrder, Walking

\* The items of s, then those of t.
IsJoined(q, s, t) ==
    /\ Len(q) = Len(s) + Len(t)
    /\ \A k \in 1 .. Len(s) : q[k] = s[k]
    /\ \A k \in 1 .. Len(t) : q[Len(s) + k] = t[k]
    /\ \A k \in 1 .. Len(s) + Len(t) : k \in 1 .. Len(s) \/ \E j \in 1 .. Len(t) : k = Len(s) + j
    /\ ToSet(q) = ToSet(s) \cup ToSet(t)

LEMMA SeenWith ==
    ASSUME NEW T, NEW s \in Seq(T), NEW t \in Seq(T)
    PROVE  s \o t \in Seq(T) /\ IsJoined(s \o t, s, t)
<1> DEFINE m == Len(s)
           n == Len(t)
           q == s \o t
<1>1. m \in Nat /\ n \in Nat
  OBVIOUS
<1>2. q \in Seq(T) /\ Len(q) = m + n
  BY ConcatProperties
<1>3. \A i \in 1 .. Len(q) : q[i] = IF i <= m THEN s[i] ELSE t[i - m]
  BY ConcatProperties
<1>4. DOMAIN s = 1 .. m /\ DOMAIN t = 1 .. n /\ DOMAIN q = 1 .. m + n
  BY <1>2
<1> HIDE DEF m, n, q
<1>5. \A k \in 1 .. m : k \in 1 .. m + n /\ q[k] = s[k]
  BY <1>1, <1>2, <1>3
<1>6. \A k \in 1 .. n : m + k \in 1 .. m + n /\ q[m + k] = t[k]
  <2> SUFFICES ASSUME NEW k \in 1 .. n PROVE m + k \in 1 .. m + n /\ q[m + k] = t[k]
    OBVIOUS
  <2>1. m + k \in 1 .. m + n /\ ~(m + k <= m) /\ m + k - m = k
    BY <1>1
  <2> DEFINE j == m + k
  <2>2. j \in 1 .. Len(q) /\ ~(j <= m) /\ j - m = k
    BY <1>1, <1>2, <2>1
  <2> HIDE DEF j
  <2>3. q[j] = t[j - m]
    BY <1>3, <2>2
  <2>4. q[j] = t[k]
    BY <2>2, <2>3
  <2> QED BY <2>1, <2>4 DEF j
<1>7. \A k \in 1 .. m + n : k \in 1 .. m \/ \E j \in 1 .. n : k = m + j
  <2> SUFFICES ASSUME NEW k \in 1 .. m + n, k \notin 1 .. m PROVE \E j \in 1 .. n : k = m + j
    OBVIOUS
  <2>1. k - m \in 1 .. n /\ k = m + (k - m)
    BY <1>1
  <2> QED BY <2>1
<1>8. ToSet(q) = ToSet(s) \cup ToSet(t)
  <2>1. \A i \in 1 .. m + n : q[i] \in ToSet(s) \cup ToSet(t)
    <3> SUFFICES ASSUME NEW i \in 1 .. m + n PROVE q[i] \in ToSet(s) \cup ToSet(t)
      OBVIOUS
    <3>1. CASE i \in 1 .. m
      BY <1>4, <1>5, <3>1 DEF ToSet
    <3>2. CASE \E j \in 1 .. n : i = m + j
      BY <1>4, <1>6, <3>2 DEF ToSet
    <3> QED BY <1>7, <3>1, <3>2
  <2>2. \A i \in 1 .. m : s[i] \in ToSet(q)
    BY <1>4, <1>5 DEF ToSet
  <2>3. \A i \in 1 .. n : t[i] \in ToSet(q)
    BY <1>4, <1>6 DEF ToSet
  <2> QED BY <1>4, <2>1, <2>2, <2>3, Zenon DEF ToSet
<1>9. IsJoined(q, s, t)
  BY <1>2, <1>5, <1>6, <1>7, <1>8 DEF m, n, IsJoined
<1> QED BY <1>2, <1>9 DEF q

\* A page more.
LEMMA PageFinds ==
    ASSUME ListingTypeOK, Ordered, NEW offset \in Nat, NEW limit \in Nat,
           NEW seen \in Seq(Rows), NEW page, NEW n, IsPage(page, offset, limit, n),
           Finds(seen, offset), offset + limit < n \/ n = Cardinality(Listed)
    PROVE  /\ Finds(seen \o page, offset + limit)
           /\ offset + limit >= n => expected \subseteq ToSet(seen \o page)
<1>1. page \in Seq(Rows)
  <2>1. Listed \subseteq Rows
    BY ListedAre
  <2> QED BY <2>1 DEF IsPage
<1>2. ToSet(seen \o page) = ToSet(seen) \cup ToSet(page)
  BY <1>1, SeenWith DEF IsJoined
<1>3. ASSUME NEW i \in expected
      PROVE  /\ i \in Listed
             /\ i \in ToSet(seen \o page) \/ Rank(i) >= offset + limit
  <2>1. i \in Listed /\ (i \in ToSet(seen) \/ Rank(i) >= offset)
    BY DEF Finds
  <2>2. Rank(i) \in Nat
    BY RankIsNumber
  <2>3. CASE i \in ToSet(seen)
    BY <1>2, <2>1, <2>3
  <2>4. CASE Rank(i) >= offset
    <3>1. n \in Nat /\ Rank(i) < Cardinality(Listed)
      BY <2>1, RankIsPlace DEF IsPage
    <3>2. Rank(i) < offset + limit => Rank(i) < n
      BY <2>2, <3>1
    <3> QED BY <1>2, <2>1, <2>2, <2>4, <3>2 DEF IsPage
  <2> QED BY <2>1, <2>3, <2>4
<1>4. ASSUME offset + limit >= n, NEW i \in expected
      PROVE  i \in ToSet(seen \o page)
  <2>1. Rank(i) \in Nat /\ n \in Nat /\ Rank(i) < Cardinality(Listed)
    BY <1>3, RankIsNumber, RankIsPlace DEF IsPage
  <2>2. n = Cardinality(Listed)
    BY <1>4, <2>1
  <2>3. ~(Rank(i) >= offset + limit)
    BY <1>4, <2>1, <2>2
  <2> QED BY <1>3, <2>3
<1> QED BY <1>3, <1>4 DEF Finds

LEMMA PageBegins ==
    ASSUME ListingTypeOK, Ordered, NEW offset \in Nat, NEW limit \in Nat,
           NEW seen, NEW page, NEW N, IsPage(page, offset, limit, N),
           Begins(seen), Reaches(seen, offset)
    PROVE  /\ Begins(seen \o page)
           /\ offset + limit < N \/ N = Cardinality(Listed) =>
                Reaches(seen \o page, offset + limit)
<1> DEFINE all == Cardinality(Listed)
           m == Len(seen)
           n == Len(page)
           q == seen \o page
<1>1. /\ seen \in Seq(Listed) /\ page \in Seq(Listed) /\ all \in Nat
      /\ m = Smaller(offset, all)
      /\ N \in Nat /\ N <= all
  BY ListedAre DEF Begins, Reaches, IsPage
<1>2. m \in Nat /\ n \in Nat
  BY <1>1
<1>3. /\ q \in Seq(Listed) /\ Len(q) = m + n
      /\ \A k \in 1 .. m : q[k] = seen[k]
      /\ \A k \in 1 .. n : q[m + k] = page[k]
      /\ \A k \in 1 .. m + n : k \in 1 .. m \/ \E j \in 1 .. n : k = m + j
  <2>1. q \in Seq(Listed) /\ IsJoined(q, seen, page)
    BY <1>1, SeenWith
  <2> HIDE DEF q
  <2> QED BY <2>1 DEF IsJoined
<1>4. /\ offset <= N => offset + n = Smaller(offset + limit, N)
      /\ offset > N => page = << >>
      /\ \A k \in 1 .. n : Rank(page[k]) = offset + k - 1
  BY DEF IsPage
<1>5. \A k \in 1 .. m : Rank(seen[k]) = k - 1
  BY DEF Begins
<1>6. page = << >> => n = 0
  OBVIOUS
<1> HIDE DEF all, m, n, q
<1>7. n # 0 => m = offset
  BY <1>1, <1>2, <1>4, <1>6 DEF Smaller
<1>8. offset + limit < N \/ N = all => m + n = Smaller(offset + limit, all)
  BY <1>1, <1>2, <1>4, <1>6 DEF Smaller
<1>9. ASSUME NEW k \in 1 .. m + n PROVE Rank(q[k]) = k - 1
  <2>1. CASE k \in 1 .. m
    BY <1>3, <1>5, <2>1
  <2>2. CASE \E j \in 1 .. n : k = m + j
    <3>1. PICK j \in 1 .. n : k = m + j
      BY <2>2
    <3>2. m = offset
      BY <1>2, <1>7
    <3>3. q[k] = page[j] /\ Rank(page[j]) = offset + j - 1
      BY <1>3, <1>4, <3>1
    <3> QED BY <3>1, <3>2, <3>3
  <2> QED BY <1>3, <2>1, <2>2
<1> QED BY <1>3, <1>8, <1>9 DEF Begins, Reaches, all, m, n, q

-----------------------------------------------------------------------------
(* The steps of a listing *)

\* What a change of the rows leaves: no listed row's time changes.
Keeps ==
    /\ Watched
    /\ ListingTypeOK'
    /\ \A j \in Listed : j \in Listed' => rows'[j].at = rows[j].at

LEMMA CreateKeeps ==
    ASSUME ListingTypeOK, NEW i \in Rows, NEW at \in 0 .. ListingTime, NEW match \in BOOLEAN,
           CreateRow(i, at, match)
    PROVE  Keeps
<1> DEFINE row == [at |-> at, match |-> match]
<1>1. ~Stored(i) /\ Watched /\ rows' = [rows EXCEPT ![i] = row]
  BY DEF CreateRow
<1>2. row \in Row
  BY DEF Row
<1>3. rows \in [Rows -> Row \cup {NoRow}] /\ IsFiniteSet(Table)
  BY DEF ListingTypeOK
<1> HIDE DEF row
<1>4. rows' \in [Rows -> Row \cup {NoRow}] /\ \A j \in Rows : j # i => rows'[j] = rows[j]
  BY <1>1, <1>2, <1>3
<1>5. Table' \subseteq Table \cup {i}
  BY <1>4 DEF Table, Stored
<1>6. IsFiniteSet(Table')
  <2>1. IsFiniteSet(Table \cup {i})
    BY <1>3, FS_AddElement
  <2>2. Table' \in SUBSET (Table \cup {i})
    BY <1>5
  <2> QED BY <2>1, <2>2, FS_Subset
<1>7. ListingTypeOK'
  BY <1>1, <1>4, <1>6 DEF ListingTypeOK, Watched, Walking, Largest
<1>8. \A j \in Listed : j \in Rows /\ j # i
  BY <1>1 DEF Listed, Matches
<1> QED BY <1>1, <1>4, <1>7, <1>8 DEF Keeps

LEMMA UpdateKeeps ==
    ASSUME ListingTypeOK, NEW i \in Rows, UpdateRow(i)
    PROVE  Keeps
<1> DEFINE row == [rows[i] EXCEPT !.match = ~@]
<1>1. Stored(i) /\ Watched /\ rows' = [rows EXCEPT ![i] = row]
  BY DEF UpdateRow
<1>2. rows \in [Rows -> Row \cup {NoRow}] /\ IsFiniteSet(Table)
  BY DEF ListingTypeOK
<1>3. row \in Row /\ row.at = rows[i].at
  <2>1. rows[i] \in Row
    BY <1>1, StoredRows
  <2> QED BY <2>1 DEF Row
<1> HIDE DEF row
<1>4. /\ rows' \in [Rows -> Row \cup {NoRow}]
      /\ \A j \in Rows : j # i => rows'[j] = rows[j]
      /\ rows'[i] = row
  BY <1>1, <1>2, <1>3
<1>5. \A j \in Table : rows'[j].at = rows[j].at
  BY <1>3, <1>4 DEF Table
<1>6. IsFiniteSet(Table')
  <2>1. Table' \in SUBSET Table
    BY <1>1, <1>4 DEF Table, Stored
  <2> QED BY <1>2, <2>1, FS_Subset
<1>7. ListingTypeOK'
  BY <1>1, <1>4, <1>6 DEF ListingTypeOK, Watched, Walking, Largest
<1> QED BY <1>1, <1>5, <1>7, ListedAre DEF Keeps

LEMMA DeleteKeeps ==
    ASSUME ListingTypeOK, NEW i \in Rows, DeleteRow(i)
    PROVE  Keeps
<1>1. Stored(i) /\ Watched /\ rows' = [rows EXCEPT ![i] = NoRow]
  BY DEF DeleteRow
<1>2. rows \in [Rows -> Row \cup {NoRow}] /\ IsFiniteSet(Table)
  BY DEF ListingTypeOK
<1>3. /\ rows' \in [Rows -> Row \cup {NoRow}]
      /\ \A j \in Rows : j # i => rows'[j] = rows[j]
      /\ rows'[i] = NoRow
  BY <1>1, <1>2
<1>4. IsFiniteSet(Table')
  <2>1. Table' \in SUBSET Table
    BY <1>3 DEF Table, Stored
  <2> QED BY <1>2, <2>1, FS_Subset
<1>5. ListingTypeOK'
  BY <1>1, <1>3, <1>4 DEF ListingTypeOK, Watched, Walking, Largest
<1>6. \A j \in Listed : j \in Rows /\ (j \in Listed' => j # i)
  BY <1>3 DEF Listed, Matches, Stored
<1> QED BY <1>1, <1>3, <1>5, <1>6 DEF Keeps

\* While no row leaves the listing, none comes to stand earlier in it.
LEMMA RanksGrow ==
    ASSUME ListingTypeOK, Keeps, Listed \subseteq Listed', NEW i \in Listed
    PROVE  /\ Rank(i)' \in Nat /\ Rank(i) \in Nat /\ Rank(i) <= Rank(i)'
           /\ Listed' = Listed => Rank(i)' = Rank(i)
<1> DEFINE old == {j \in Listed : Before(j, i)}
           new == {j \in Listed' : Before(j, i)'}
<1>1. ListingTypeOK' /\ listing' = listing /\ \A j \in Listed : rows'[j].at = rows[j].at
  BY DEF Keeps, Watched
<1>2. \A j \in Listed : Before(j, i)' <=> Before(j, i)
  BY <1>1 DEF Before
<1>3. old \in SUBSET new /\ (Listed' = Listed => new = old)
  BY <1>2
<1>4. IsFiniteSet(new) /\ Cardinality(new) \in Nat /\ Cardinality(old) \in Nat
  <2>1. Listed' \in SUBSET (Table') /\ IsFiniteSet(Table')
    BY <1>1 DEF ListingTypeOK, Listed, Table, Matches
  <2>2. new \in SUBSET (Listed')
    OBVIOUS
  <2> HIDE DEF new, old
  <2>3. IsFiniteSet(Listed')
    BY <2>1, FS_Subset
  <2>4. IsFiniteSet(new)
    BY <2>2, <2>3, FS_Subset
  <2>5. IsFiniteSet(old)
    BY <1>3, <2>4, FS_Subset
  <2> QED BY <2>4, <2>5, FS_CardinalityType
<1>5. Rank(i) = Cardinality(old) /\ Rank(i)' = Cardinality(new)
  BY DEF Rank
<1> HIDE DEF old, new
<1>6. Cardinality(old) <= Cardinality(new)
  BY <1>3, <1>4, FS_Subset
<1> QED BY <1>3, <1>4, <1>5, <1>6

LEMMA OrderedBefore ==
    ASSUME Keeps, Listed \subseteq Listed', Ordered'
    PROVE  Ordered
BY DEF Keeps, Watched, Ordered

LEMMA ChangeKeeps ==
    ASSUME ListingInv, Keeps
    PROVE  ListingInv'
<1>1. ListingTypeOK /\ NoneLeftBehind /\ GivenInOrder
  BY DEF ListingInv
<1>2. /\ ListingTypeOK' /\ walk' = walk /\ listing' = listing /\ expected' = expected
      /\ short' = short
      /\ grown' = (grown \/ ~(Listed' \subseteq Listed))
      /\ shrunk' = (shrunk \/ ~(Listed \subseteq Listed'))
  BY DEF Keeps, Watched
<1>3. Given' = Given /\ End' = End /\ (Walking' <=> Walking) /\ (Reliable' <=> Reliable)
      /\ (InPlace' <=> InPlace)
  BY <1>2 DEF Given, End, Walking, Reliable, InPlace
<1>4. ASSUME Walking', ~shrunk', Ordered'
      PROVE  Walking /\ ~shrunk /\ Ordered /\ Listed \subseteq Listed'
  <2>1. Walking /\ ~shrunk /\ Listed \subseteq Listed'
    BY <1>2, <1>3, <1>4
  <2> QED BY <1>4, <2>1, OrderedBefore
<1>e. Walking => End \in Nat
  <2> SUFFICES ASSUME Walking PROVE End \in Nat
    OBVIOUS
  <2>1. walk.offset \in Nat /\ walk.limit \in Nat
    BY <1>1, BegunIs
  <2> QED BY <2>1 DEF End
<1>5. NoneLeftBehind'
  <2> SUFFICES ASSUME Walking', ~shrunk', Ordered', Reliable'
               PROVE  Finds(Given, End)' /\ (walk.op = "over" => expected \subseteq ToSet(walk.seen))'
    BY DEF NoneLeftBehind
  <2>1. /\ Walking /\ ~shrunk /\ Ordered /\ Listed \subseteq Listed'
        /\ Finds(Given, End)
        /\ walk.op = "over" => expected \subseteq ToSet(walk.seen)
    BY <1>1, <1>3, <1>4 DEF NoneLeftBehind
  <2>2. ASSUME NEW i \in expected
        PROVE  i \in Listed' /\ (i \in ToSet(Given) \/ Rank(i)' >= End)
    <3>1. i \in Listed /\ (i \in ToSet(Given) \/ Rank(i) >= End)
      BY <2>1 DEF Finds
    <3>2. Rank(i)' \in Nat /\ Rank(i) \in Nat /\ Rank(i) <= Rank(i)'
      BY <1>1, <2>1, <3>1, RanksGrow
    <3>3. End \in Nat
      BY <1>e, <2>1
    <3> QED BY <2>1, <3>1, <3>2, <3>3
  <2>3. Finds(Given, End)'
    BY <1>2, <1>3, <2>2 DEF Finds
  <2> QED BY <1>2, <2>1, <2>3
<1>6. GivenInOrder'
  <2> SUFFICES ASSUME Walking', ~grown', ~shrunk', Ordered', InPlace'
               PROVE  Begins(Given)' /\ (Reliable => Reaches(Given, End))'
    BY DEF GivenInOrder
  <2>1. Walking /\ ~grown /\ ~shrunk /\ Ordered /\ Listed' = Listed
    BY <1>2, <1>4
  <2>2. Begins(Given) /\ (Reliable => Reaches(Given, End))
    BY <1>1, <1>3, <2>1 DEF GivenInOrder
  <2>3. \A k \in 1 .. Len(Given) : Rank(Given[k])' = Rank(Given[k])
    <3> SUFFICES ASSUME NEW k \in 1 .. Len(Given) PROVE Rank(Given[k])' = Rank(Given[k])
      OBVIOUS
    <3>0. Given \in Seq(Listed)
      BY <2>2 DEF Begins
    <3>1. Given[k] \in Listed
      BY <3>0, ElementOfSeq
    <3> DEFINE i == Given[k]
    <3>2. i \in Listed /\ i' = i
      BY <1>3, <3>1
    <3> HIDE DEF i
    <3>3. ASSUME NEW j \in Listed PROVE Cardinality({x \in Listed' : Before(x, j)'}) = Rank(j)
      <4>1. Rank(j)' = Rank(j)
        BY <1>1, <2>1, RanksGrow
      <4> QED BY <4>1 DEF Rank
    <3> QED BY <3>2, <3>3 DEF Rank, i
  <2>4. Begins(Given)'
    BY <1>3, <2>1, <2>2, <2>3 DEF Begins
  <2>5. (Reliable => Reaches(Given, End))'
    BY <1>3, <2>1, <2>2 DEF Reaches
  <2> QED BY <2>4, <2>5
<1> QED BY <1>2, <1>5, <1>6 DEF ListingInv

\* A step of the client changes nothing of the listing.
LEMMA ListingStays ==
    ASSUME UNCHANGED <<listing, rows>>
    PROVE  /\ Listed' = Listed /\ Table' = Table /\ (Ordered' <=> Ordered)
           /\ \A i : Rank(i)' = Rank(i)
<1>1. /\ \A i : Matches(i)' <=> Matches(i)
      /\ \A i : Stored(i)' <=> Stored(i)
      /\ \A i, j : Before(i, j)' <=> Before(i, j)
  BY DEF Matches, Stored, Before
<1>2. Listed' = Listed /\ Table' = Table
  BY <1>1, Zenon DEF Listed, Table
<1>3. Ordered' <=> Ordered
  BY <1>2 DEF Ordered
<1>4. \A i : Rank(i)' = Rank(i)
  BY <1>1, <1>2, Zenon DEF Rank
<1> QED BY <1>2, <1>3, <1>4

LEMMA BeginKeeps ==
    ASSUME ListingInv, NEW limit \in Limits, Begin(limit)
    PROVE  ListingInv'
<1>1. /\ walk' = [op |-> "page", offset |-> 0, limit |-> Pagination(limit),
                  page |-> << >>, seen |-> << >>]
      /\ expected' = Listed /\ UNCHANGED <<listing, rows>>
  BY DEF Begin
<1>2. ListingTypeOK
  BY DEF ListingInv
<1>3. walk' \in Begun /\ walk'.limit <= Largest
  <2>1. Pagination(limit) \in 1 .. MaxExecutions /\ Pagination(limit) <= Largest
    BY <1>2, LimitsOfPages
  <2> QED BY <1>1, <2>1 DEF Begun
<1>4. /\ Listed' = Listed /\ Table' = Table /\ (Ordered' <=> Ordered)
      /\ \A i : Rank(i)' = Rank(i)
  BY <1>1, ListingStays
<1>5. ListingTypeOK'
  BY <1>1, <1>2, <1>3, <1>4 DEF ListingTypeOK, Walking, Largest
<1>6. Given' = << >> /\ End' = 0 /\ walk'.op = "page"
  BY <1>1 DEF Given, End
<1>7. \A i \in Listed : Rank(i) \in Nat
  BY <1>2, RankIsNumber
<1>8. NoneLeftBehind'
  BY <1>1, <1>4, <1>6, <1>7 DEF NoneLeftBehind, Finds
<1>9. Begins(<< >>) /\ Reaches(<< >>, 0)
  <2>1. Cardinality(Listed) \in Nat
    BY <1>2, ListedAre
  <2>2. << >> \in Seq(Listed) /\ Len(<< >>) = 0 /\ 1 .. 0 = {}
    OBVIOUS
  <2>3. Smaller(0, Cardinality(Listed)) = 0
    BY <2>1 DEF Smaller
  <2> QED BY <2>2, <2>3 DEF Begins, Reaches
<1>10. GivenInOrder'
  BY <1>4, <1>6, <1>9 DEF GivenInOrder, Begins, Reaches
<1> QED BY <1>5, <1>8, <1>10 DEF ListingInv

\* The page given to the client, counted at once or waiting for its count, out of
\* rows of which none, or the newest ones, or any may be missing.
LEMMA PageKeeps ==
    ASSUME ListingInv, Walking, walk.op = "page",
           UNCHANGED <<listing, rows, expected, grown, shrunk>>,
           NEW S \in SUBSET Listed, NEW page \in Pages(S, walk.offset, Normal(walk.limit)),
           page \in Seq(Rows), S \in Parts,
           S # Listed => short',
           short => short' \/ listing.read = "newest first",
           walk' \in Begun, walk'.limit = walk.limit,
           Given' = walk.seen \o page, End' = walk.offset + walk.limit,
           walk'.op = "over" => walk'.seen = walk.seen \o page,
           walk'.op = "over" => walk.offset + walk.limit >= Cardinality(S),
           walk'.op = "over" \/ walk.offset + walk.limit < Cardinality(S) \/ S = Listed
    PROVE  ListingInv'
<1> DEFINE offset == walk.offset
           limit == walk.limit
           seen == walk.seen
           q == seen \o page
           e == offset + limit
           n == Cardinality(S)
<1>1. ListingTypeOK /\ NoneLeftBehind /\ GivenInOrder
  BY DEF ListingInv
<1>2. /\ offset \in Nat /\ limit \in Nat /\ seen \in Seq(Rows) /\ Normal(limit) = limit
      /\ Given = seen /\ End = offset
  BY <1>1, BegunIs, LimitsOfPages DEF Given, End
<1>3. expected' = expected /\ listing' = listing
  OBVIOUS
<1>s. (shrunk' <=> shrunk) /\ (grown' <=> grown)
  OBVIOUS
<1>4. /\ Listed' = Listed /\ Table' = Table /\ (Ordered' <=> Ordered)
      /\ \A i : Rank(i)' = Rank(i)
  BY ListingStays
<1>5. ListingTypeOK'
  BY <1>1, <1>4 DEF ListingTypeOK, Largest
<1>6. Given' = q /\ End' = e
  OBVIOUS
<1>7. listing.read # "in any order" \/ S = Listed => Leads(S)
  BY DEF Parts, Leads
<1>8. ASSUME Ordered, Leads(S) PROVE IsPage(page, offset, limit, n)
  <2>1. page \in Pages(S, offset, limit)
    BY <1>2
  <2> HIDE DEF offset, limit
  <2> QED BY <1>1, <1>2, <1>8, <2>1, PageIs
<1>9. /\ walk'.op = "over" => walk'.seen = q
      /\ walk'.op = "over" => e >= n
      /\ walk'.op = "over" \/ e < n \/ S = Listed
  OBVIOUS
\* Where the walk can still be relied on, no row is missing that it will not come to.
<1>10. ASSUME Reliable'
       PROVE  Reliable /\ Leads(S) /\ (e < n \/ S = Listed)
  <2>1. short' => listing.read = "newest first" /\ walk'.op # "over"
    BY <1>3, <1>10 DEF Reliable
  <2>2. Reliable
    BY <2>1 DEF Reliable
  <2> QED BY <1>7, <1>9, <2>1, <2>2
<1>p. page \in Seq(Rows)
  OBVIOUS
<1>w. Walking
  OBVIOUS
<1> HIDE DEF offset, limit, seen
<1>11. NoneLeftBehind'
  <2> SUFFICES ASSUME Walking', ~shrunk', Ordered', Reliable'
               PROVE  Finds(Given, End)' /\ (walk.op = "over" => expected \subseteq ToSet(walk.seen))'
    BY DEF NoneLeftBehind
  <2>1. Walking /\ ~shrunk /\ Ordered
    <3>1. Ordered
      BY <1>4
    <3>2. ~shrunk
      BY <1>s
    <3> QED BY <1>w, <3>1, <3>2
  <2>2. Finds(seen, offset)
    BY <1>1, <1>2, <1>10, <2>1 DEF NoneLeftBehind
  <2>3. IsPage(page, offset, limit, n) /\ (e < n \/ n = Cardinality(Listed))
    BY <1>8, <1>10, <2>1
  <2>4. Finds(q, e) /\ (e >= n => expected \subseteq ToSet(q))
    <3> HIDE DEF n
    <3> QED BY <1>1, <1>2, <1>p, <2>1, <2>2, <2>3, PageFinds
  <2> HIDE DEF q, e, n
  <2>5. Finds(Given, End)'
    BY <1>3, <1>4, <1>6, <2>4 DEF Finds
  <2> QED BY <1>3, <1>9, <2>4, <2>5
<1>12. GivenInOrder'
  <2> SUFFICES ASSUME Walking', ~grown', ~shrunk', Ordered', InPlace'
               PROVE  Begins(Given)' /\ (Reliable => Reaches(Given, End))'
    BY DEF GivenInOrder
  <2>1. Walking /\ ~grown /\ ~shrunk /\ Ordered /\ InPlace
    <3>1. Ordered
      BY <1>4
    <3>2. ~grown /\ ~shrunk
      BY <1>s
    <3>3. InPlace
      BY <1>3 DEF InPlace
    <3> QED BY <1>w, <3>1, <3>2, <3>3
  <2>2. Begins(seen) /\ Reaches(seen, offset)
    <3>1. Reliable
      BY <2>1 DEF Reliable, InPlace
    <3> QED BY <1>1, <1>2, <2>1, <3>1 DEF GivenInOrder
  <2>3. Leads(S)
    BY <1>3, <1>7 DEF InPlace
  <2>4. IsPage(page, offset, limit, n)
    BY <1>8, <2>1, <2>3
  <2>5. Begins(q) /\ (e < n \/ n = Cardinality(Listed) => Reaches(q, e))
    <3> HIDE DEF n
    <3> QED BY <1>1, <1>2, <2>1, <2>2, <2>4, PageBegins
  <2>6. Reliable' => e < n \/ n = Cardinality(Listed)
    BY <1>10
  <2> HIDE DEF q, e, n
  <2> QED BY <1>4, <1>6, <2>5, <2>6 DEF Begins, Reaches
<1> QED BY <1>5, <1>11, <1>12 DEF ListingInv

LEMMA PartsAre ==
    /\ Listed \in Parts
    /\ \A S \in Parts : S \in SUBSET Listed
BY DEF Parts

\* What is cut out of a set of rows is rows.
LEMMA PagesAreRows ==
    ASSUME ListingTypeOK, NEW S \in SUBSET Listed, NEW offset \in Nat, NEW limit \in Nat,
           NEW page \in Pages(S, offset, limit)
    PROVE  page \in Seq(Rows)
<1>1. S \subseteq Rows /\ Cardinality(S) \in Nat
  <2>1. IsFiniteSet(Listed) /\ Listed \subseteq Rows
    BY ListedAre
  <2>2. IsFiniteSet(S)
    BY <2>1, FS_Subset
  <2> QED BY <2>1, <2>2, FS_CardinalityType
<1>2. PICK s \in Orders(S) : page = SubSeq(s, offset + 1, Smaller(offset + limit, Len(s)))
  BY DEF Pages, Cut
<1>3. s \in Seq(Rows)
  <2> DEFINE n == Cardinality(S)
  <2>1. s \in [1 .. n -> S]
    BY DEF Orders, SetToSeqs
  <2> HIDE DEF n
  <2>2. s \in [1 .. n -> Rows] /\ n \in Nat
    BY <1>1, <2>1 DEF n
  <2> QED BY <2>2
<1> DEFINE last == Smaller(offset + limit, Len(s))
<1>4. last \in Nat /\ last <= Len(s) /\ offset + 1 \in Int /\ offset + 1 >= 1
  BY <1>3 DEF Smaller
<1>5. page = SubSeq(s, offset + 1, last)
  BY <1>2
<1> HIDE DEF last
<1>6. \A k \in offset + 1 .. last : s[k] \in Rows
  BY <1>3, <1>4
<1> QED BY <1>4, <1>5, <1>6, SubSeqProperties

LEMMA AnswerIs ==
    ASSUME Walking, walk \in Begun, NEW page \in Seq(Rows), NEW total, Answer(page, total)
    PROVE  /\ walk' \in Begun /\ walk'.op # "count" /\ walk'.limit = walk.limit
           /\ Given' = walk.seen \o page /\ End' = walk.offset + walk.limit
           /\ walk'.seen = walk.seen \o page
           /\ walk'.op = "over" <=> ~(walk.offset + walk.limit < total)
<1> DEFINE next == walk.offset + walk.limit
           seen == walk.seen \o page
           op == IF next < total THEN "page" ELSE "over"
<1>1. walk' = [walk EXCEPT !.op = op, !.offset = next, !.page = << >>, !.seen = seen]
  BY DEF Answer
<1>o. op \in {"page", "over"} /\ (op = "over" <=> ~(next < total))
  OBVIOUS
<1>2. next \in Nat /\ seen \in Seq(Rows)
  <2>1. walk.offset \in Nat /\ walk.limit \in Nat /\ walk.seen \in Seq(Rows)
    BY ListingConstants DEF Begun
  <2> QED BY <2>1
<1> HIDE DEF next, seen, op
<1>3. /\ walk' \in Begun /\ walk'.offset = next /\ walk'.seen = seen
      /\ walk'.op = op /\ walk'.limit = walk.limit
  <2>1. << >> \in Seq(Rows)
    OBVIOUS
  <2> QED BY <1>1, <1>2, <1>o, <2>1 DEF Begun
<1> QED BY <1>3, <1>o DEF Given, End, next, seen

\* The three steps of the walk.
LEMMA WalkKeeps ==
    ASSUME ListingInv, Page \/ SelectPage \/ CountRows
    PROVE  ListingInv'
<1>1. /\ walk.op \in {"page", "count"}
      /\ UNCHANGED <<listing, clock, rows, expected, grown, shrunk>>
  BY DEF Page, SelectPage, CountRows, histories
<1>2. ListingTypeOK /\ NoneLeftBehind /\ GivenInOrder
  BY DEF ListingInv
<1>3. /\ Listed' = Listed /\ Table' = Table /\ (Ordered' <=> Ordered)
      /\ \A i : Rank(i)' = Rank(i)
  BY <1>1, ListingStays
<1>4. CASE ~Walking
  <2>1. walk # NotBegun
    BY <1>1 DEF NotBegun
  <2>2. ~Walking'
    BY <1>1, <1>4, <2>1 DEF Walking
  <2>3. ListingTypeOK'
    BY <1>1, <1>2, <1>3, <2>2 DEF ListingTypeOK
  <2> QED BY <2>2, <2>3 DEF ListingInv, NoneLeftBehind, GivenInOrder
<1>5. CASE Walking
  <2>1. /\ walk \in Begun /\ walk.offset \in Nat /\ walk.limit \in Nat
        /\ Normal(walk.limit) \in Nat /\ listing.filter # "page"
        /\ walk.page \in Seq(Rows) /\ walk.seen \in Seq(Rows) /\ walk.limit <= Largest
    <3>1. Normal(walk.limit) = walk.limit
      BY <1>2, <1>5, BegunIs, LimitsOfPages
    <3> QED BY <1>2, <1>5, <3>1, BegunIs DEF Walking, ListingTypeOK
  <2>2. ASSUME Page PROVE ListingInv'
    <3>1. PICK S \in Parts :
            /\ \E page \in Pages(S, walk.offset, Normal(walk.limit)) : Answer(page, Cardinality(S))
            /\ short' = (S # Listed \/ (short /\ listing.read # "newest first"))
      BY <2>2 DEF Page
    <3>2. PICK page \in Pages(S, walk.offset, Normal(walk.limit)) : Answer(page, Cardinality(S))
      BY <3>1
    <3>3. S \in SUBSET Listed /\ walk.op = "page"
      BY <2>2, PartsAre DEF Page
    <3>4. page \in Seq(Rows)
      BY <1>2, <2>1, <3>3, PagesAreRows
    <3>5. Cardinality(S) \in Nat
      <4>1. IsFiniteSet(S)
        BY <1>2, <3>3, ListedAre, FS_Subset
      <4> QED BY <4>1, FS_CardinalityType
    <3>6. /\ walk' \in Begun /\ walk'.limit = walk.limit
          /\ Given' = walk.seen \o page /\ End' = walk.offset + walk.limit
          /\ walk'.seen = walk.seen \o page
          /\ walk'.op = "over" <=> ~(walk.offset + walk.limit < Cardinality(S))
      BY <1>5, <2>1, <3>2, <3>4, AnswerIs
    <3>7. /\ walk'.op = "over" => walk.offset + walk.limit >= Cardinality(S)
          /\ walk'.op = "over" \/ walk.offset + walk.limit < Cardinality(S)
      BY <2>1, <3>5, <3>6
    <3>8. (S # Listed => short') /\ (short => short' \/ listing.read = "newest first")
      BY <3>1
    <3> QED BY <1>1, <1>5, <3>1, <3>2, <3>3, <3>4, <3>6, <3>7, <3>8, PageKeeps
  <2>3. ASSUME SelectPage PROVE ListingInv'
    <3>1. PICK page \in Pages(Listed, walk.offset, Normal(walk.limit)) :
               walk' = [walk EXCEPT !.op = "count", !.page = page]
      BY <2>1, <2>3 DEF SelectPage
    <3>2. /\ walk.op = "page" /\ short' = short
          /\ Listed \in Parts /\ Listed \in SUBSET Listed
      BY <2>3, PartsAre DEF SelectPage, histories
    <3>3. page \in Seq(Rows)
      BY <1>2, <2>1, <3>2, PagesAreRows
    <3>4. /\ walk' \in Begun /\ walk'.op = "count" /\ walk'.limit = walk.limit
          /\ walk'.page = page /\ walk'.seen = walk.seen
          /\ walk'.offset = walk.offset
      BY <2>1, <3>1, <3>3 DEF Begun
    <3>5. Given' = walk.seen \o page /\ End' = walk.offset + walk.limit
      BY <3>4 DEF Given, End
    <3>6. walk'.op # "over"
      BY <3>4
    <3> QED BY <1>1, <1>5, <3>2, <3>3, <3>4, <3>5, <3>6, PageKeeps
  <2>4. ASSUME CountRows PROVE ListingInv'
    <3>1. walk.op = "count" /\ Answer(walk.page, Cardinality(Table))
      BY <2>1, <2>4 DEF CountRows
    <3>2. /\ walk' \in Begun /\ walk'.op # "count" /\ walk'.limit = walk.limit
          /\ Given' = walk.seen \o walk.page /\ End' = walk.offset + walk.limit
          /\ walk'.seen = walk.seen \o walk.page
          /\ walk'.op = "over" <=> ~(walk.offset + walk.limit < Cardinality(Table))
      BY <1>5, <2>1, <3>1, AnswerIs
    <3>3. Given' = Given /\ End' = End /\ walk'.seen = Given
      BY <3>1, <3>2 DEF Given, End
    <3>4. /\ expected' = expected /\ grown' = grown /\ shrunk' = shrunk
          /\ short' = short /\ listing' = listing
      BY <1>1, <2>4 DEF CountRows, histories
    <3>r. (Reliable' => Reliable) /\ (InPlace' <=> InPlace)
      BY <3>1, <3>4 DEF Reliable, InPlace
    <3>5. ListingTypeOK'
      BY <1>1, <1>2, <1>3, <2>1, <3>2 DEF ListingTypeOK, Largest
    <3>6. NoneLeftBehind'
      <4> SUFFICES ASSUME Walking', ~shrunk', Ordered', Reliable'
                   PROVE  /\ Finds(Given, End)'
                          /\ (walk.op = "over" => expected \subseteq ToSet(walk.seen))'
        BY DEF NoneLeftBehind
      <4>1. Finds(Given, End) /\ Ordered
        BY <1>2, <1>3, <1>5, <3>4, <3>r DEF NoneLeftBehind
      <4>2. Finds(Given, End)'
        BY <1>3, <3>3, <3>4, <4>1 DEF Finds
      <4>3. ASSUME walk'.op = "over", NEW i \in expected PROVE i \in ToSet(Given)
        <5>1. i \in Listed /\ (i \in ToSet(Given) \/ Rank(i) >= End)
          BY <4>1 DEF Finds
        <5>2. /\ Cardinality(Listed) \in Nat /\ Cardinality(Table) \in Nat
              /\ Cardinality(Listed) <= Cardinality(Table)
          BY <1>2, ListedAre
        <5>3. End = walk.offset + walk.limit /\ End \in Nat
          BY <2>1, <3>1 DEF End
        <5>4. Cardinality(Table) <= End
          BY <3>2, <4>3, <5>2, <5>3
        <5>5. Rank(i) < Cardinality(Listed) /\ Rank(i) \in Nat
          BY <1>2, <4>1, <5>1, RankIsPlace, RankIsNumber
        <5> QED BY <5>1, <5>2, <5>3, <5>4, <5>5
      <4> QED BY <3>3, <3>4, <4>2, <4>3
    <3>7. GivenInOrder'
      <4> SUFFICES ASSUME Walking', ~grown', ~shrunk', Ordered', InPlace'
                   PROVE  Begins(Given)' /\ (Reliable => Reaches(Given, End))'
        BY DEF GivenInOrder
      <4>1. Begins(Given) /\ (Reliable => Reaches(Given, End))
        BY <1>2, <1>3, <1>5, <3>4, <3>r DEF GivenInOrder
      <4> QED BY <1>3, <3>3, <3>r, <4>1 DEF Begins, Reaches
    <3> QED BY <3>5, <3>6, <3>7 DEF ListingInv
  <2> QED BY <2>2, <2>3, <2>4
<1> QED BY <1>4, <1>5

LEMMA ListingInvNext == ListingInv /\ [ListingNext]_listingVars => ListingInv'
<1> SUFFICES ASSUME ListingInv, [ListingNext]_listingVars PROVE ListingInv'
  OBVIOUS
<1>1. ASSUME UNCHANGED <<listing, rows, walk, histories>> PROVE ListingInv'
  <2>1. /\ Listed' = Listed /\ Table' = Table /\ (Ordered' <=> Ordered)
        /\ \A i : Rank(i)' = Rank(i)
    BY <1>1, ListingStays
  <2>2. /\ Given' = Given /\ End' = End /\ (Walking' <=> Walking)
        /\ expected' = expected /\ grown' = grown /\ shrunk' = shrunk /\ short' = short
        /\ (Reliable' <=> Reliable) /\ (InPlace' <=> InPlace)
    BY <1>1 DEF Given, End, Walking, Reliable, InPlace, histories
  <2>3. ListingTypeOK'
    BY <1>1, <2>1, <2>2 DEF ListingInv, ListingTypeOK, Largest
  <2>4. NoneLeftBehind'
    BY <1>1, <2>1, <2>2 DEF ListingInv, NoneLeftBehind, Finds
  <2>5. GivenInOrder'
    BY <1>1, <2>1, <2>2 DEF ListingInv, GivenInOrder, Begins, Reaches
  <2> QED BY <2>3, <2>4, <2>5 DEF ListingInv
<1>2. ASSUME ListingTick PROVE ListingInv'
  BY <1>1, <1>2 DEF ListingTick
<1>3. ASSUME Change PROVE ListingInv'
  <2>1. ListingTypeOK
    BY DEF ListingInv
  <2>2. Keeps
    BY <1>3, <2>1, CreateKeeps, UpdateKeeps, DeleteKeeps DEF Change
  <2> QED BY <2>2, ChangeKeeps
<1>4. ASSUME Walk PROVE ListingInv'
  BY <1>4, BeginKeeps, WalkKeeps DEF Walk
<1> QED BY <1>1, <1>2, <1>3, <1>4 DEF ListingNext, listingVars

\* Under every order of changes and pages no row of the walk's beginning is left
\* behind and the rows given are the first of the listing in its order, unless an
\* answer was short that none after it made up for (the handlers' pagination, the
\* services' and repositories' List..., rows.Next without rows.Err).
THEOREM ListingInvariance == ListingSpec => []ListingInv
BY ListingInvInit, ListingInvNext, PTL DEF ListingSpec

\* A walk through a listing that settles its order ends with every row that was
\* there when it began, unless one left the listing or the rows were not read to
\* their end: the limit a handler goes by is the one the service used
\* (pagination, executions, ListDevices, ListRules, ListExecutions).
THEOREM WalksFindAll == ListingSpec => []WalkFindsAll
<1>1. ListingInv => WalkFindsAll
  BY DEF ListingInv, NoneLeftBehind, Reliable, WalkFindsAll, Seen
<1> QED BY <1>1, ListingInvariance, PTL

\* While no row comes or goes a walk is given no row twice: pages do not overlap,
\* and where the newest rows are read first not even those of a short answer do
\* (the repositories' sort, offset and limit).
THEOREM NoRowTwice == ListingSpec => []NothingTwice
<1>1. ListingInv => NothingTwice
  <2> SUFFICES ASSUME ListingInv, Walking, ~grown, ~shrunk, Ordered, InPlace
               PROVE  Cardinality(ToSet(walk.seen)) = Len(walk.seen)
    BY DEF NothingTwice, Seen, InPlace
  <2> DEFINE s == walk.seen
             n == Len(s)
             N == 1 .. n
             T == ToSet(s)
  <2>1. ListingTypeOK /\ Begins(Given)
    BY DEF ListingInv, GivenInOrder
  <2>2. s \in Seq(Rows) /\ walk.page \in Seq(Rows)
    BY <2>1, BegunIs
  <2>3. n \in Nat /\ DOMAIN s = N
    BY <2>2
  <2>4. \A k \in N : Rank(s[k]) = k - 1
    <3>1. CASE walk.op = "count"
      <4> DEFINE q == s \o walk.page
      <4>1. Given = q
        BY <3>1 DEF Given
      <4>2. IsJoined(q, s, walk.page) /\ Len(walk.page) \in Nat
        BY <2>2, SeenWith
      <4> HIDE DEF q
      <4>3. \A k \in N : k \in 1 .. Len(q) /\ q[k] = s[k]
        <5>1. Len(q) = n + Len(walk.page) /\ \A k \in N : q[k] = s[k]
          BY <4>2 DEF IsJoined
        <5> HIDE DEF n
        <5> QED BY <2>3, <4>2, <5>1
      <4> HIDE DEF s, N
      <4> QED BY <2>1, <4>1, <4>3 DEF Begins
    <3>2. CASE walk.op # "count"
      BY <2>1, <3>2 DEF Begins, Given
    <3> QED BY <3>1, <3>2
  <2>5. \A a, b \in N : s[a] = s[b] => a = b
    <3> SUFFICES ASSUME NEW a \in N, NEW b \in N, s[a] = s[b] PROVE a = b
      OBVIOUS
    <3>1. a - 1 = b - 1
      BY <2>4
    <3> QED BY <3>1, <2>3
  <2> HIDE DEF s, n
  <2>6. s \in [N -> T] /\ \A x \in T : \E k \in N : s[k] = x
    <3>1. T = {s[k] : k \in N}
      BY <2>3 DEF ToSet
    <3>2. s \in [N -> Rows]
      BY <2>2, <2>3
    <3> QED BY <3>1, <3>2
  <2>7. IsFiniteSet(N) /\ Cardinality(N) = n
    <3>1. 1 \in Int /\ n \in Int
      BY <2>3
    <3>2. IsFiniteSet(1 .. n) /\ Cardinality(1 .. n) = IF 1 > n THEN 0 ELSE n - 1 + 1
      BY <3>1, FS_Interval, Zenon
    <3> QED BY <2>3, <3>2
  <2> HIDE DEF N, T
  <2>8. s \in Bijection(N, T)
    BY <2>5, <2>6, Fun_IsBij
  <2>9. ExistsBijection(N, T)
    BY <2>8 DEF ExistsBijection
  <2>10. Cardinality(T) = n
    BY <2>7, <2>9, FS_Bijection
  <2> QED BY <2>10 DEF T, n, s
<1> QED BY <1>1, ListingInvariance, PTL

-----------------------------------------------------------------------------
(* Nested values: what a level holds *)

\* The values that hold those of V, if any.
Holding(V) == Atoms \cup MapsOf(V) \cup ListsOf(V)

LEMMA HoldingGrows ==
    ASSUME NEW V, NEW W, V \subseteq W
    PROVE  /\ MapsOf(V) \subseteq MapsOf(W)
           /\ ListsOf(V) \subseteq ListsOf(W)
           /\ Holding(V) \subseteq Holding(W)
<1>1. MapsOf(V) \subseteq MapsOf(W)
  BY DEF MapsOf
<1>2. Seq(V) \subseteq Seq(W)
  OBVIOUS
<1>3. ListsOf(V) \subseteq ListsOf(W)
  BY <1>2 DEF ListsOf
<1> QED BY <1>1, <1>3 DEF Holding

\* What makes f the levels up to m.
AreLevels(f, m) ==
    f = [n \in 0 .. m |-> IF n = 0 THEN {} ELSE Holding(f[n - 1])]

LEMMA LevelsAre ==
    /\ MaxLevels \in Nat
    /\ Levels[0] = {}
    /\ \A n \in 1 .. MaxLevels : Levels[n] = Holding(Levels[n - 1])
<1> DEFINE good == {m \in 0 .. MaxLevels : \E f : AreLevels(f, m)}
<1>1. MaxLevels \in Nat /\ 0 \in 0 .. MaxLevels /\ MaxLevels \in 0 .. MaxLevels
  BY TwinMergeAssumption
<1>2. 0 \in good
  <2>1. AreLevels([n \in 0 .. 0 |-> {}], 0)
    BY DEF AreLevels
  <2> QED BY <1>1, <2>1
<1>3. ASSUME NEW m \in 0 + 1 .. MaxLevels, m - 1 \in good PROVE m \in good
  <2>1. PICK f : AreLevels(f, m - 1)
    BY <1>3
  <2> DEFINE g == [n \in 0 .. m |-> IF n = 0 THEN {} ELSE Holding(f[n - 1])]
  <2>2. m \in Nat /\ m >= 1
    OBVIOUS
  <2>3. ASSUME NEW n \in 0 .. m, n # 0 PROVE g[n - 1] = f[n - 1]
    <3>1. n - 1 \in 0 .. m - 1 /\ n - 1 \in 0 .. m
      BY <2>2, <2>3
    <3>2. f[n - 1] = IF n - 1 = 0 THEN {} ELSE Holding(f[n - 1 - 1])
      BY <2>1, <3>1 DEF AreLevels
    <3> QED BY <3>1, <3>2
  <2>4. AreLevels(g, m)
    <3>1. ASSUME NEW n \in 0 .. m
          PROVE  (IF n = 0 THEN {} ELSE Holding(f[n - 1]))
                   = (IF n = 0 THEN {} ELSE Holding(g[n - 1]))
      <4> HIDE DEF g
      <4> QED BY <2>3
    <3> QED BY <3>1, Zenon DEF AreLevels
  <2>5. m \in 0 .. MaxLevels
    BY <1>1
  <2> HIDE DEF g
  <2> QED BY <2>4, <2>5
<1>4. 0 .. MaxLevels \subseteq good
  <2> HIDE DEF good
  <2> QED BY <1>1, <1>2, <1>3, Counting
<1>5. PICK f : AreLevels(f, MaxLevels)
  BY <1>1, <1>4, Zenon
<1>6. AreLevels(Levels, MaxLevels)
  BY <1>5 DEF Levels, AreLevels, Holding
<1>7. Levels[0] = {}
  BY <1>1, <1>6 DEF AreLevels
<1>8. ASSUME NEW n \in 1 .. MaxLevels
      PROVE  Levels[n] = Holding(Levels[n - 1])
  <2>1. n \in 0 .. MaxLevels /\ n # 0
    BY <1>1
  <2> QED BY <1>6, <2>1 DEF AreLevels
<1> QED BY <1>1, <1>7, <1>8

LEMMA LevelsGrow ==
    /\ \A n \in 1 .. MaxLevels : Levels[n - 1] \subseteq Levels[n]
    /\ \A n \in 0 .. MaxLevels : Levels[n] \subseteq JSON
<1> DEFINE up == {n \in 1 .. MaxLevels : Levels[n - 1] \subseteq Levels[n]}
           within == {n \in 0 .. MaxLevels : Levels[MaxLevels - n] \subseteq JSON}
<1>1. MaxLevels \in Nat
  BY LevelsAre
<1>2. \A n \in 1 .. MaxLevels : n \in up
  <2> SUFFICES ASSUME MaxLevels >= 1 PROVE \A n \in 1 .. MaxLevels : n \in up
    BY <1>1
  <2>1. 1 \in up
    <3>1. Levels[1 - 1] = {}
      BY LevelsAre
    <3> QED BY <1>1, <3>1
  <2>2. ASSUME NEW m \in 1 + 1 .. MaxLevels, m - 1 \in up PROVE m \in up
    <3>1. m - 1 \in 1 .. MaxLevels /\ m \in 1 .. MaxLevels /\ m - 1 # 0 /\ m # 0
      BY <1>1
    <3>2. Levels[m - 1 - 1] \subseteq Levels[m - 1]
      BY <2>2
    <3>3. Levels[m] = Holding(Levels[m - 1])
      BY <3>1, LevelsAre
    <3>4. Levels[m - 1] = Holding(Levels[m - 1 - 1])
      BY <3>1, LevelsAre
    <3>5. Levels[m - 1] \subseteq Levels[m]
      BY <3>2, <3>3, <3>4, HoldingGrows
    <3> QED BY <3>1, <3>5
  <2> HIDE DEF up
  <2> QED BY <1>1, <2>1, <2>2, Counting
<1>3. \A n \in 0 .. MaxLevels : n \in within
  <2>1. 0 \in within
    BY <1>1 DEF JSON
  <2>2. ASSUME NEW m \in 0 + 1 .. MaxLevels, m - 1 \in within PROVE m \in within
    <3>1. PICK k \in 1 .. MaxLevels : k = MaxLevels - (m - 1)
      BY <1>1
    <3>2. Levels[k] \subseteq JSON
      BY <2>2, <3>1
    <3>3. Levels[k - 1] \subseteq JSON
      BY <1>2, <3>2
    <3>4. k - 1 = MaxLevels - m /\ m \in 0 .. MaxLevels
      BY <1>1, <3>1
    <3> QED BY <3>3, <3>4
  <2> HIDE DEF within
  <2> QED BY <1>1, <2>1, <2>2, Counting
<1>4. ASSUME NEW n \in 0 .. MaxLevels PROVE Levels[n] \subseteq JSON
  <2>1. MaxLevels - n \in within /\ MaxLevels - (MaxLevels - n) = n
    BY <1>1, <1>3
  <2> QED BY <2>1
<1> QED BY <1>2, <1>4

LEMMA LevelsNest ==
    \A n \in 0 .. MaxLevels : n # MaxLevels => Levels[n] \subseteq Levels[MaxLevels - 1]
<1> DEFINE within == {n \in 1 .. MaxLevels : Levels[MaxLevels - n] \subseteq Levels[MaxLevels - 1]}
<1>1. MaxLevels \in Nat /\ MaxLevels >= 1
  BY TwinMergeAssumption
<1>2. 1 \in within
  BY <1>1
<1>3. ASSUME NEW m \in 1 + 1 .. MaxLevels, m - 1 \in within PROVE m \in within
  <2>1. PICK k \in 1 .. MaxLevels : k = MaxLevels - (m - 1)
    BY <1>1
  <2>2. Levels[k] \subseteq Levels[MaxLevels - 1]
    BY <1>3, <2>1
  <2>3. Levels[k - 1] \subseteq Levels[MaxLevels - 1]
    BY <2>2, LevelsGrow
  <2>4. k - 1 = MaxLevels - m /\ m \in 1 .. MaxLevels
    BY <1>1, <2>1
  <2> QED BY <2>3, <2>4
<1>4. 1 .. MaxLevels \subseteq within
  <2> HIDE DEF within
  <2> QED BY <1>1, <1>2, <1>3, Counting
<1>5. ASSUME NEW n \in 0 .. MaxLevels, n # MaxLevels PROVE Levels[n] \subseteq Levels[MaxLevels - 1]
  <2>1. MaxLevels - n \in within /\ MaxLevels - (MaxLevels - n) = n
    BY <1>1, <1>4, <1>5
  <2> QED BY <2>1
<1> QED BY <1>5

\* The maps and the lists of n levels.
Maps(n) == Levels[n] \cap Map
Lists(n) == Levels[n] \cap List

LEMMA KindsApart ==
    /\ MaxLevels \in 0 .. MaxLevels /\ MaxLevels - 1 \in 0 .. MaxLevels
    /\ JSON = Atoms \cup Map \cup List
    /\ \A v \in Atoms \cup {Absent} : ~IsMap(v) /\ ~IsList(v)
    /\ \A v : ~(IsMap(v) /\ IsList(v))
    /\ Absent \notin JSON
<1>1. MaxLevels \in 0 .. MaxLevels /\ MaxLevels - 1 \in 0 .. MaxLevels /\ MaxLevels \in 1 .. MaxLevels
  BY TwinMergeAssumption
<1>2. JSON = Atoms \cup Map \cup List
  BY <1>1, LevelsAre DEF JSON, Map, List, Holding
<1>3. \A v \in Atoms \cup {Absent} : ~IsMap(v) /\ ~IsList(v)
  BY TwinMergeAssumption DEF IsMap, IsList
<1>4. ASSUME NEW v, IsMap(v), IsList(v) PROVE FALSE
  <2>1. DOMAIN v = Keys /\ DOMAIN v = {"list"}
    BY <1>4 DEF IsMap, IsList, Map, List, MapsOf, ListsOf
  <2> QED BY <2>1, TwinMergeAssumption
<1>5. Absent \notin JSON
  BY <1>2, <1>3, TwinMergeAssumption DEF IsMap, IsList
<1> QED BY <1>1, <1>2, <1>3, <1>4, <1>5

LEMMA LevelHas ==
    ASSUME NEW n \in 0 .. MaxLevels
    PROVE  /\ n = 0 => Levels[n] = {} /\ Maps(n) = {}
           /\ n # 0 => /\ n - 1 \in 0 .. MaxLevels
                       /\ Maps(n) = [Keys -> Levels[n - 1] \cup {Absent}]
                       /\ Lists(n) = ListsOf(Levels[n - 1])
                       /\ Levels[n] = Atoms \cup Maps(n) \cup Lists(n)
           /\ \A m \in Maps(n) : IsMap(m) /\ m \in Map
           /\ \A v \in Levels[n] : v # Absent /\ v \in JSON /\ (IsMap(v) <=> v \in Maps(n))
<1>1. MaxLevels \in Nat
  BY LevelsAre
<1>2. n = 0 => Levels[n] = {}
  BY LevelsAre
<1>3. Levels[n] \subseteq JSON
  BY LevelsGrow
<1>4. ASSUME n # 0
      PROVE  /\ n - 1 \in 0 .. MaxLevels
             /\ Maps(n) = [Keys -> Levels[n - 1] \cup {Absent}]
             /\ Lists(n) = ListsOf(Levels[n - 1])
             /\ Levels[n] = Atoms \cup Maps(n) \cup Lists(n)
  <2>1. n - 1 \in 0 .. MaxLevels /\ n \in 1 .. MaxLevels
    BY <1>1, <1>4
  <2>2. Levels[n] = Holding(Levels[n - 1])
    BY <2>1, LevelsAre
  <2>3. Levels[n - 1] \subseteq Levels[MaxLevels - 1]
    BY <2>1, LevelsNest
  <2>4. MapsOf(Levels[n - 1]) \subseteq Map /\ ListsOf(Levels[n - 1]) \subseteq List
    BY <2>3, HoldingGrows DEF Map, List
  <2>5. Map \cap List = {} /\ Atoms \cap Map = {} /\ Atoms \cap List = {}
    BY KindsApart DEF IsMap, IsList
  <2>6. Maps(n) = MapsOf(Levels[n - 1]) /\ Lists(n) = ListsOf(Levels[n - 1])
    BY <2>2, <2>4, <2>5 DEF Maps, Lists, Holding
  <2> QED BY <2>1, <2>2, <2>6 DEF Holding, MapsOf
<1>5. Absent \notin Levels[n]
  BY <1>3, KindsApart
<1> QED BY <1>2, <1>3, <1>4, <1>5 DEF Maps, IsMap

-----------------------------------------------------------------------------
(* mergeMaps *)

\* The body of mergeMaps, which calls f, and what makes f the merge of the maps S.
MergedWith(f, b, p) ==
    [k \in Keys |-> IF p[k] = Absent THEN b[k]
                    ELSE IF IsMap(b[k]) /\ IsMap(p[k]) THEN f[b[k]][p[k]]
                    ELSE p[k]]

IsMerge(f, S) == f = [b \in S |-> [p \in S |-> MergedWith(f, b, p)]]

LEMMA MapHas ==
    ASSUME NEW n \in 0 .. MaxLevels, NEW m \in Maps(n), NEW k \in Keys
    PROVE  /\ n \in Nat \ {0} /\ n - 1 \in 0 .. MaxLevels
           /\ m[k] # Absent => m[k] \in Levels[n - 1]
           /\ IsMap(m[k]) => m[k] \in Maps(n - 1)
<1>1. n \in Nat /\ n # 0
  BY LevelsAre, LevelHas
<1>2. n - 1 \in 0 .. MaxLevels /\ m \in [Keys -> Levels[n - 1] \cup {Absent}]
  BY <1>1, LevelHas
<1> QED BY <1>1, <1>2, LevelHas, KindsApart

LEMMA MapsGrow == \A n \in 1 .. MaxLevels : Maps(n - 1) \subseteq Maps(n)
BY LevelsGrow DEF Maps

LEMMA MapsAreMap == MaxLevels \in 0 .. MaxLevels /\ Map = Maps(MaxLevels)
BY KindsApart DEF JSON, Maps

LEMMA MergeExists == \E f : IsMerge(f, Map)
<1> DEFINE good == {n \in 0 .. MaxLevels : \E f : IsMerge(f, Maps(n))}
<1>1. 0 \in good
  <2>1. IsMerge([b \in {} |-> 0], {})
    BY DEF IsMerge
  <2>2. Maps(0) = {} /\ 0 \in 0 .. MaxLevels
    BY LevelsAre DEF Maps
  <2> QED BY <2>1, <2>2
<1>2. ASSUME NEW n \in 0 + 1 .. MaxLevels, n - 1 \in good PROVE n \in good
  <2>1. n \in 0 .. MaxLevels /\ n \in 1 .. MaxLevels
    BY LevelsAre
  <2>2. PICK f : IsMerge(f, Maps(n - 1))
    BY <1>2
  <2> DEFINE g == [b \in Maps(n) |-> [p \in Maps(n) |-> MergedWith(f, b, p)]]
  <2>3. ASSUME NEW b \in Maps(n), NEW p \in Maps(n) PROVE MergedWith(f, b, p) = MergedWith(g, b, p)
    <3>1. ASSUME NEW k \in Keys, IsMap(b[k]), IsMap(p[k]) PROVE f[b[k]][p[k]] = g[b[k]][p[k]]
      <4>1. b[k] \in Maps(n - 1) /\ p[k] \in Maps(n - 1)
        BY <2>1, <3>1, MapHas
      <4>2. b[k] \in Maps(n) /\ p[k] \in Maps(n)
        BY <2>1, <4>1, MapsGrow
      <4>3. f[b[k]][p[k]] = MergedWith(f, b[k], p[k])
        BY <2>2, <4>1 DEF IsMerge
      <4> QED BY <4>2, <4>3
    <3> HIDE DEF g
    <3> QED BY <3>1 DEF MergedWith
  <2>4. IsMerge(g, Maps(n))
    <3>1. \A b \in Maps(n) : [p \in Maps(n) |-> MergedWith(f, b, p)]
                               = [p \in Maps(n) |-> MergedWith(g, b, p)]
      <4> HIDE DEF g
      <4> QED BY <2>3, Zenon
    <3> QED BY <3>1, Zenon DEF IsMerge
  <2> HIDE DEF g
  <2> QED BY <2>1, <2>4
<1>3. 0 .. MaxLevels \subseteq good
  <2> HIDE DEF good
  <2> QED BY <1>1, <1>2, LevelsAre, Counting
<1> QED BY <1>3, MapsAreMap

LEMMA MergeIs ==
    ASSUME NEW b \in Map, NEW p \in Map
    PROVE  /\ mergeMaps(b, p) = [j \in Keys |-> mergeMaps(b, p)[j]]
           /\ \A k \in Keys :
                /\ p[k] = Absent => mergeMaps(b, p)[k] = b[k]
                /\ p[k] # Absent /\ ~(IsMap(b[k]) /\ IsMap(p[k])) => mergeMaps(b, p)[k] = p[k]
                /\ IsMap(b[k]) /\ IsMap(p[k]) => mergeMaps(b, p)[k] = mergeMaps(b[k], p[k])
<1> DEFINE F == CHOOSE f : IsMerge(f, Map)
<1>1. IsMerge(F, Map)
  BY MergeExists
<1>2. \A x, y : mergeMaps(x, y) = F[x][y]
  BY DEF mergeMaps, IsMerge, MergedWith
<1>3. F[b][p] = MergedWith(F, b, p)
  <2> HIDE DEF F
  <2> QED BY <1>1 DEF IsMerge
<1>4. ~IsMap(Absent)
  BY KindsApart
<1> HIDE DEF F
<1>5. /\ mergeMaps(b, p) = MergedWith(F, b, p)
      /\ \A k \in Keys : mergeMaps(b[k], p[k]) = F[b[k]][p[k]]
  BY <1>2, <1>3
<1>6. mergeMaps(b, p) = [j \in Keys |-> mergeMaps(b, p)[j]]
  <2>1. DOMAIN MergedWith(F, b, p) = Keys /\ MergedWith(F, b, p) = [j \in Keys |-> MergedWith(F, b, p)[j]]
    BY DEF MergedWith
  <2> QED BY <1>5, <2>1, Zenon
<1> QED BY <1>4, <1>5, <1>6 DEF MergedWith

\* Merging adds no level.
LEMMA MergeIsMap ==
    \A n \in 0 .. MaxLevels : \A b, p \in Maps(n) : mergeMaps(b, p) \in Maps(n)
<1> DEFINE good == {n \in 0 .. MaxLevels : \A b, p \in Maps(n) : mergeMaps(b, p) \in Maps(n)}
<1>1. 0 \in good
  BY LevelsAre DEF Maps
<1>2. ASSUME NEW n \in 0 + 1 .. MaxLevels, n - 1 \in good PROVE n \in good
  <2>1. n \in 0 .. MaxLevels /\ n # 0
    BY LevelsAre
  <2>2. Maps(n) = [Keys -> Levels[n - 1] \cup {Absent}] /\ Maps(n - 1) \subseteq Levels[n - 1]
    BY <2>1, LevelHas DEF Maps
  <2>3. ASSUME NEW b \in Maps(n), NEW p \in Maps(n) PROVE mergeMaps(b, p) \in Maps(n)
    <3>1. b \in Map /\ p \in Map
      BY <2>1, LevelHas
    <3>2. ASSUME NEW k \in Keys PROVE mergeMaps(b, p)[k] \in Levels[n - 1] \cup {Absent}
      <4>1. CASE IsMap(b[k]) /\ IsMap(p[k])
        <5>1. b[k] \in Maps(n - 1) /\ p[k] \in Maps(n - 1)
          BY <2>1, <4>1, MapHas
        <5>2. mergeMaps(b[k], p[k]) \in Maps(n - 1)
          BY <1>2, <5>1
        <5> QED BY <2>2, <3>1, <4>1, <5>2, MergeIs
      <4>2. CASE ~(IsMap(b[k]) /\ IsMap(p[k]))
        <5>1. mergeMaps(b, p)[k] \in {b[k], p[k]}
          BY <3>1, <4>2, MergeIs
        <5> QED BY <2>2, <5>1
      <4> QED BY <4>1, <4>2
    <3>3. mergeMaps(b, p) = [j \in Keys |-> mergeMaps(b, p)[j]]
      BY <3>1, MergeIs
    <3> QED BY <2>2, <3>2, <3>3
  <2> QED BY <2>1, <2>3
<1> HIDE DEF good
<1>3. 0 .. MaxLevels \subseteq good
  BY <1>1, <1>2, LevelsAre, Counting
<1> QED BY <1>3 DEF good

-----------------------------------------------------------------------------
(* ValidatePatch *)

\* The body of the walk, which calls f, and what makes f the walk.
WalkedWith(f, value, depth) ==
    /\ depth <= MaxDepth
    /\ IsMap(value) => \A k \in Keys : value[k] # Absent => f[value[k]][depth + 1]
    /\ IsList(value) => \A i \in DOMAIN value.list : f[value.list[i]][depth + 1]

IsWalk(f) == f = [value \in JSON |-> [depth \in 1 .. MaxDepth + 1 |-> WalkedWith(f, value, depth)]]

\* What a value holds is a value.
LEMMA MapIsFcn ==
    ASSUME NEW v \in JSON
    PROVE  /\ IsMap(v) => v \in [Keys -> JSON \cup {Absent}]
           /\ IsMap(v) => \A k \in Keys : v[k] # Absent => v[k] \in JSON
           /\ IsList(v) => v \in ListsOf(JSON) /\ \A i \in DOMAIN v.list : v.list[i] \in JSON
<1>1. Levels[MaxLevels - 1] \subseteq JSON
  BY KindsApart, LevelsGrow
<1>2. IsMap(v) => v \in MapsOf(JSON)
  BY <1>1, HoldingGrows DEF IsMap, Map
<1>3. IsList(v) => v \in ListsOf(JSON)
  BY <1>1, HoldingGrows DEF IsList, List
<1>4. IsList(v) => \A i \in DOMAIN v.list : v.list[i] \in JSON
  BY <1>3 DEF ListsOf
<1> QED BY <1>2, <1>3, <1>4 DEF MapsOf

\* Each value that v holds is in V.
HeldIn(v, V) ==
    /\ IsMap(v) => \A k \in Keys : v[k] # Absent => v[k] \in V
    /\ IsList(v) => \A i \in DOMAIN v.list : v.list[i] \in V

\* A value is of at most n levels if what it holds is of less.
LEMMA LevelOfMap ==
    ASSUME NEW v \in JSON, NEW n \in 1 .. MaxLevels
    PROVE  v \in Levels[n] <=> HeldIn(v, Levels[n - 1])
<1>1. n \in 0 .. MaxLevels /\ n # 0
  BY LevelsAre
<1>2. /\ Levels[n] = Atoms \cup Maps(n) \cup Lists(n)
      /\ Maps(n) = [Keys -> Levels[n - 1] \cup {Absent}]
      /\ Lists(n) = ListsOf(Levels[n - 1])
  BY <1>1, LevelHas
<1>3. CASE IsMap(v)
  <2>1. v \in [Keys -> JSON \cup {Absent}]
    BY <1>3, MapIsFcn
  <2>2. v \in Levels[n] <=> v \in Maps(n)
    BY <1>1, <1>3, LevelHas DEF Maps
  <2>3. HeldIn(v, Levels[n - 1]) <=> \A k \in Keys : v[k] \in Levels[n - 1] \cup {Absent}
    BY <1>3, KindsApart DEF HeldIn
  <2> QED BY <1>2, <2>1, <2>2, <2>3
<1>4. CASE IsList(v)
  <2>1. v \in [{"list"} -> Seq(JSON)]
    BY <1>4, MapIsFcn DEF ListsOf
  <2>2. v \in Levels[n] <=> v \in Lists(n)
    BY <1>2, <1>4, KindsApart DEF Maps, Lists, IsMap, IsList
  <2>3. HeldIn(v, Levels[n - 1]) <=> \A i \in DOMAIN v.list : v.list[i] \in Levels[n - 1]
    BY <1>4, KindsApart DEF HeldIn
  <2>4. (\A i \in DOMAIN v.list : v.list[i] \in Levels[n - 1]) <=> v.list \in Seq(Levels[n - 1])
    BY <2>1
  <2>5. v.list \in Seq(Levels[n - 1]) <=> v \in ListsOf(Levels[n - 1])
    BY <2>1 DEF ListsOf
  <2> QED BY <1>2, <2>2, <2>3, <2>4, <2>5
<1>5. CASE ~IsMap(v) /\ ~IsList(v)
  <2>1. v \in Atoms
    BY <1>5, KindsApart DEF IsMap, IsList
  <2> QED BY <1>2, <1>5, <2>1 DEF HeldIn
<1> QED BY <1>3, <1>4, <1>5

Fits(v, depth) == v \in Levels[MaxDepth + 1 - depth]

LEMMA FitsWalks ==
    ASSUME NEW v \in JSON, NEW depth \in 1 .. MaxDepth + 1
    PROVE  Fits(v, depth) <=> depth <= MaxDepth /\ HeldIn(v, {w \in JSON : Fits(w, depth + 1)})
<1>1. MaxDepth \in Nat /\ MaxDepth <= MaxLevels /\ MaxLevels \in Nat
  BY TwinMergeAssumption
<1>2. CASE depth = MaxDepth + 1
  <2>1. MaxDepth + 1 - depth = 0
    BY <1>1, <1>2
  <2> QED BY <1>1, <1>2, <2>1, LevelsAre DEF Fits
<1>3. CASE depth # MaxDepth + 1
  <2>1. PICK n \in 1 .. MaxLevels : n = MaxDepth + 1 - depth /\ n - 1 = MaxDepth + 1 - (depth + 1)
    BY <1>1, <1>3
  <2>2. depth <= MaxDepth
    BY <1>1, <1>3
  <2>3. Fits(v, depth) <=> v \in Levels[n]
    BY <2>1 DEF Fits
  <2>4. {w \in JSON : Fits(w, depth + 1)} = Levels[n - 1]
    <3>1. Levels[n - 1] \subseteq JSON
      BY <1>1, LevelsGrow
    <3> QED BY <2>1, <3>1 DEF Fits
  <2>5. v \in Levels[n] <=> HeldIn(v, Levels[n - 1])
    BY LevelOfMap
  <2> QED BY <2>2, <2>3, <2>4, <2>5
<1> QED BY <1>2, <1>3

LEMMA ValidIs == \A patch \in Map : ValidatePatch(patch) <=> patch \in Levels[MaxDepth]
<1> DEFINE F == CHOOSE f : IsWalk(f)
<1>1. \E f : IsWalk(f)
  <2> DEFINE g == [v \in JSON |-> [depth \in 1 .. MaxDepth + 1 |-> Fits(v, depth)]]
  <2>1. ASSUME NEW v \in JSON, NEW depth \in 1 .. MaxDepth + 1
        PROVE  Fits(v, depth) <=> WalkedWith(g, v, depth)
    <3>1. CASE depth <= MaxDepth
      <4>1. depth + 1 \in 1 .. MaxDepth + 1
        BY <3>1, TwinMergeAssumption
      <4>2. \A w \in JSON : g[w][depth + 1] <=> Fits(w, depth + 1)
        BY <4>1
      <4> HIDE DEF g
      <4> QED BY <3>1, <4>2, FitsWalks, MapIsFcn DEF WalkedWith, HeldIn
    <3>2. CASE ~(depth <= MaxDepth)
      BY <3>2, FitsWalks DEF WalkedWith
    <3> QED BY <3>1, <3>2
  <2>2. IsWalk(g)
    <3>1. ASSUME NEW v \in JSON
          PROVE  [depth \in 1 .. MaxDepth + 1 |-> Fits(v, depth)]
                   = [depth \in 1 .. MaxDepth + 1 |-> WalkedWith(g, v, depth)]
      <4>1. \A depth \in 1 .. MaxDepth + 1 : Fits(v, depth) = WalkedWith(g, v, depth)
        <5>1. \A depth : Fits(v, depth) \in BOOLEAN
          BY DEF Fits
        <5>2. \A depth : WalkedWith(g, v, depth) \in BOOLEAN
          <6> HIDE DEF g
          <6> QED BY DEF WalkedWith
        <5> HIDE DEF g
        <5> QED BY <2>1, <5>1, <5>2, Zenon
      <4> HIDE DEF g
      <4> QED BY <4>1, Zenon
    <3> QED BY <3>1, Zenon DEF IsWalk
  <2> HIDE DEF g
  <2> QED BY <2>2
<1>2. IsWalk(F)
  BY <1>1, Zenon
<1>3. \A patch : ValidatePatch(patch) = F[patch][1]
  BY DEF ValidatePatch, IsWalk, WalkedWith
<1> HIDE DEF F
<1>4. ASSUME NEW v \in JSON, NEW depth \in 1 .. MaxDepth + 1
      PROVE  F[v][depth] = WalkedWith(F, v, depth)
  <2>1. F[v] = [d \in 1 .. MaxDepth + 1 |-> WalkedWith(F, v, d)]
    BY <1>2, Zenon DEF IsWalk
  <2> QED BY <2>1, Zenon
<1> DEFINE good == {n \in 0 .. MaxLevels :
              \A v \in Levels[n] : \A depth \in 1 .. MaxDepth + 1 : F[v][depth] <=> Fits(v, depth)}
<1>5. 0 \in good
  BY LevelsAre
<1>6. ASSUME NEW n \in 0 + 1 .. MaxLevels, n - 1 \in good PROVE n \in good
  <2>1. n \in 0 .. MaxLevels /\ n \in 1 .. MaxLevels /\ n # 0
    BY LevelsAre
  <2>2. ASSUME NEW v \in Levels[n], NEW depth \in 1 .. MaxDepth + 1 PROVE F[v][depth] <=> Fits(v, depth)
    <3>1. v \in JSON /\ F[v][depth] = WalkedWith(F, v, depth)
      BY <1>4, <2>1, LevelHas
    <3>2. CASE depth <= MaxDepth
      <4>1. depth + 1 \in 1 .. MaxDepth + 1
        BY <3>2, TwinMergeAssumption
      <4>2. \A w \in Levels[n - 1] : F[w][depth + 1] <=> Fits(w, depth + 1)
        BY <1>6, <4>1
      <4>3. HeldIn(v, Levels[n - 1])
        BY <2>1, <3>1, LevelOfMap
      <4> HIDE DEF good
      <4> QED BY <3>1, <3>2, <4>2, <4>3, FitsWalks, MapIsFcn DEF WalkedWith, HeldIn
    <3>3. CASE ~(depth <= MaxDepth)
      BY <3>1, <3>3, FitsWalks DEF WalkedWith
    <3> QED BY <3>2, <3>3
  <2> QED BY <2>1, <2>2
<1>7. \A v \in JSON : F[v][1] <=> Fits(v, 1)
  <2>1. MaxLevels \in good
    <3> HIDE DEF good
    <3> QED BY <1>5, <1>6, LevelsAre, Counting
  <2>2. 1 \in 1 .. MaxDepth + 1
    BY TwinMergeAssumption
  <2> QED BY <2>1, <2>2 DEF JSON
<1>8. MaxDepth + 1 - 1 = MaxDepth
  BY TwinMergeAssumption
<1> QED BY <1>3, <1>7, <1>8, KindsApart DEF Fits

-----------------------------------------------------------------------------
(* The invariant of merging *)

MergingInv == desired \in Maps(MaxDepth) /\ reported \in Map

LEMMA EmptyMapIs == EmptyMap \in Maps(MaxDepth) /\ EmptyMap \in Map /\ EmptyMap \notin Atoms /\ MaxDepth \in 0 .. MaxLevels
<1>1. MaxDepth \in 0 .. MaxLevels /\ MaxDepth # 0
  BY TwinMergeAssumption
<1>2. EmptyMap \in Maps(MaxDepth)
  BY <1>1, LevelHas DEF EmptyMap
<1> QED BY <1>1, <1>2, LevelHas, KindsApart

LEMMA MergingInvNext == MergingInv /\ [MergingNext]_mergingVars => MergingInv'
<1> SUFFICES ASSUME MergingInv, [MergingNext]_mergingVars PROVE MergingInv'
  OBVIOUS
<1>1. desired \in Map /\ MaxLevels \in 0 .. MaxLevels /\ Map = Maps(MaxLevels)
  BY EmptyMapIs, MapsAreMap, LevelHas DEF MergingInv
<1>2. CASE UNCHANGED mergingVars
  BY <1>2 DEF MergingInv, mergingVars
<1>3. ASSUME NEW patch \in Patches, MergeDesired(patch) PROVE MergingInv'
  <2>1. patch \in Map /\ patch \in Levels[MaxDepth]
    BY <1>3, ValidIs, TwinMergeAssumption DEF MergeDesired
  <2>2. patch \in Maps(MaxDepth)
    BY <2>1 DEF Maps
  <2>3. mergeMaps(desired, patch) \in Maps(MaxDepth)
    BY <2>2, EmptyMapIs, MergeIsMap DEF MergingInv
  <2> QED BY <1>3, <2>3 DEF MergeDesired, MergingInv
<1>4. ASSUME NEW patch \in Patches, MergeReported(patch) \/ ReportAttribute(patch) PROVE MergingInv'
  <2>1. mergeMaps(reported, patch) \in Map
    BY <1>1, MergeIsMap, TwinMergeAssumption DEF MergingInv
  <2> QED BY <1>4, <2>1 DEF MergeReported, ReportAttribute, MergingInv
<1> QED BY <1>2, <1>3, <1>4 DEF MergingNext

\* Whatever is merged, neither state outgrows what the decoder accepts, nor the
\* desired state what ValidatePatch does, lists counted as it counts them
\* (mergeMaps and the depth walk, twin/application/service.go).
THEOREM MergingInvariance == MergingSpec => []MergingInv
<1>1. MergingInit => MergingInv
  BY EmptyMapIs DEF MergingInit, MergingInv
<1> QED BY <1>1, MergingInvNext, PTL DEF MergingSpec

\* However many are merged, validated patches never build a desired state that is
\* deeper, in maps and lists, than one patch may be (ValidatePatch and mergeMaps).
THEOREM DepthIsBounded == MergingSpec => []DesiredDepthBounded
<1>1. MergingInv => DesiredDepthBounded
  BY DEF MergingInv, DesiredDepthBounded, Maps
<1> QED BY <1>1, MergingInvariance, PTL

-----------------------------------------------------------------------------
(* Paths and nodes *)

LEMMA PathIs ==
    ASSUME NEW p \in Seq(Keys)
    PROVE  p = << >> \/ \E k \in Keys, q \in Seq(Keys) : p = <<k>> \o q
<1>1. CASE p # << >>
  <2>1. Head(p) \in Keys /\ Tail(p) \in Seq(Keys)
    BY <1>1
  <2>2. p = <<Head(p)>> \o Tail(p)
    BY <1>1
  <2> QED BY <2>1, <2>2
<1> QED BY <1>1

LEMMA PathBelow ==
    ASSUME NEW j \in Keys, NEW k \in Keys, NEW p \in Seq(Keys), NEW q \in Seq(Keys)
    PROVE  /\ <<k>> \o q \in Seq(Keys) /\ <<k>> \o q # << >>
           /\ <<j>> \o p = <<k>> \o q => j = k /\ p = q
<1> DEFINE x == <<j>> \o p
           y == <<k>> \o q
<1>1. y[1] = k /\ x[1] = j /\ Tail(y) = q /\ Tail(x) = p
  OBVIOUS
<1>2. y \in Seq(Keys) /\ Len(y) = 1 + Len(q) /\ Len(q) \in Nat
  OBVIOUS
<1>3. y # << >>
  BY <1>2
<1>4. x = y => j = k /\ p = q
  <2> HIDE DEF x, y
  <2> QED BY <1>1
<1> QED BY <1>2, <1>3, <1>4

LEMMA PrefixIs ==
    ASSUME NEW p \in Seq(Keys), NEW q \in Seq(Keys)
    PROVE  IsStrictPrefix(p, q) <=> Len(p) < Len(q) /\ \A i \in 1 .. Len(p) : p[i] = q[i]
<1>1. CASE Len(p) <= Len(q)
  <2>1. SubSeq(p, 1, Len(p)) = SubSeq(q, 1, Len(p)) <=> \A i \in 1 .. Len(p) : p[i] = q[i]
    <3>1. SubSeq(p, 1, Len(p)) = [i \in 1 .. Len(p) |-> p[i]] /\ SubSeq(q, 1, Len(p)) = [i \in 1 .. Len(p) |-> q[i]]
      BY <1>1
    <3> QED BY <3>1
  <2>2. (\A i \in 1 .. Len(p) : p[i] = q[i]) => (p # q <=> Len(p) < Len(q))
    BY <1>1
  <2> QED BY <1>1, <2>1, <2>2 DEF IsStrictPrefix, IsPrefix
<1>2. CASE ~(Len(p) <= Len(q))
  BY <1>2 DEF IsStrictPrefix, IsPrefix
<1> QED BY <1>1, <1>2

LEMMA PrefixBelow ==
    ASSUME NEW j \in Keys, NEW k \in Keys, NEW p \in Seq(Keys), NEW q \in Seq(Keys)
    PROVE  /\ IsStrictPrefix(<<j>> \o p, <<k>> \o q) <=> j = k /\ IsStrictPrefix(p, q)
           /\ IsStrictPrefix(<< >>, <<k>> \o q)
           /\ ~IsStrictPrefix(p, << >>)
<1> DEFINE x == <<j>> \o p
           y == <<k>> \o q
<1>1. /\ x \in Seq(Keys) /\ Len(x) = Len(p) + 1 /\ x[1] = j
      /\ \A i \in 1 .. Len(p) : x[i + 1] = p[i]
  OBVIOUS
<1>2. /\ y \in Seq(Keys) /\ Len(y) = Len(q) + 1 /\ y[1] = k
      /\ \A i \in 1 .. Len(q) : y[i + 1] = q[i]
  OBVIOUS
<1>3. Len(p) \in Nat /\ Len(q) \in Nat /\ << >> \in Seq(Keys) /\ Len(<< >>) = 0
  OBVIOUS
<1> HIDE DEF x, y
<1>4. ASSUME Len(p) < Len(q), j = k, \A i \in 1 .. Len(p) : p[i] = q[i]
      PROVE  \A i \in 1 .. Len(x) : x[i] = y[i]
  <2>1. ASSUME NEW i \in 1 .. Len(x) PROVE x[i] = y[i]
    <3>1. CASE i = 1
      BY <1>1, <1>2, <1>4, <3>1
    <3>2. CASE i # 1
      <4>1. i - 1 \in 1 .. Len(p) /\ i - 1 \in 1 .. Len(q) /\ i = (i - 1) + 1
        BY <1>1, <1>3, <1>4, <3>2
      <4> QED BY <1>1, <1>2, <1>4, <4>1
    <3> QED BY <3>1, <3>2
  <2> QED BY <2>1
<1>5. ASSUME Len(x) < Len(y), \A i \in 1 .. Len(x) : x[i] = y[i]
      PROVE  j = k /\ \A i \in 1 .. Len(p) : p[i] = q[i]
  <2>1. 1 \in 1 .. Len(x)
    BY <1>1, <1>3
  <2>2. ASSUME NEW i \in 1 .. Len(p) PROVE p[i] = q[i]
    <3>1. i + 1 \in 1 .. Len(x) /\ i \in 1 .. Len(q)
      BY <1>1, <1>2, <1>3, <1>5
    <3> QED BY <1>1, <1>2, <1>5, <3>1
  <2> QED BY <1>1, <1>2, <1>5, <2>1, <2>2
<1>6. IsStrictPrefix(x, y) <=> j = k /\ IsStrictPrefix(p, q)
  <2>1. Len(x) < Len(y) <=> Len(p) < Len(q)
    BY <1>1, <1>2, <1>3
  <2> QED BY <1>1, <1>2, <1>4, <1>5, <2>1, PrefixIs
<1> DEFINE none == << >>
<1>7. none \in Seq(Keys) /\ Len(none) = 0
  BY <1>3
<1> HIDE DEF none
<1>8. IsStrictPrefix(none, y) /\ ~IsStrictPrefix(p, none)
  <2>1. IsStrictPrefix(none, y) <=> Len(none) < Len(y) /\ \A i \in 1 .. Len(none) : none[i] = y[i]
    BY <1>2, <1>7, PrefixIs
  <2>2. IsStrictPrefix(p, none) => Len(p) < Len(none)
    BY <1>7, PrefixIs
  <2> QED BY <1>2, <1>3, <1>7, <2>1, <2>2
<1> QED BY <1>6, <1>8 DEF x, y, none

-----------------------------------------------------------------------------
(* The nodes of a value *)

Root(x) == [path |-> << >>, value |-> x]
Under(k, N) == {[path |-> <<k>> \o n.path, value |-> n.value] : n \in N}

\* The body of Nodes, which calls f, and what makes f the nodes of the values S.
NodesWith(f, w) ==
    IF IsMap(w)
    THEN {Root(EmptyMap)} \cup UNION {Under(k, f[w[k]]) : k \in {key \in Keys : w[key] # Absent}}
    ELSE {Root(w)}

AreNodes(f, S) == f = [w \in S |-> NodesWith(f, w)]

LEMMA NodesExist == \E f : AreNodes(f, JSON)
<1> DEFINE good == {n \in 0 .. MaxLevels : \E f : AreNodes(f, Levels[n])}
<1>1. 0 \in good
  <2>1. AreNodes([w \in {} |-> 0], {})
    BY DEF AreNodes
  <2>2. Levels[0] = {} /\ 0 \in 0 .. MaxLevels
    BY LevelsAre
  <2> QED BY <2>1, <2>2
<1>2. ASSUME NEW n \in 0 + 1 .. MaxLevels, n - 1 \in good PROVE n \in good
  <2>1. n \in 0 .. MaxLevels /\ n \in 1 .. MaxLevels
    BY LevelsAre
  <2>2. PICK f : AreNodes(f, Levels[n - 1])
    BY <1>2
  <2> DEFINE g == [w \in Levels[n] |-> NodesWith(f, w)]
  <2>3. ASSUME NEW w \in Levels[n] PROVE NodesWith(f, w) = NodesWith(g, w)
    <3>1. ASSUME NEW k \in Keys, IsMap(w), w[k] # Absent PROVE f[w[k]] = g[w[k]]
      <4>1. w[k] \in Levels[n - 1]
        BY <2>1, <3>1, LevelHas, MapHas
      <4>2. w[k] \in Levels[n]
        BY <2>1, <4>1, LevelsGrow
      <4>3. f[w[k]] = NodesWith(f, w[k])
        BY <2>2, <4>1 DEF AreNodes
      <4> QED BY <4>2, <4>3
    <3> HIDE DEF g
    <3>2. CASE IsMap(w)
      <4>1. \A k \in {key \in Keys : w[key] # Absent} : Under(k, f[w[k]]) = Under(k, g[w[k]])
        BY <3>1, <3>2
      <4> QED BY <3>2, <4>1, Zenon DEF NodesWith
    <3>3. CASE ~IsMap(w)
      BY <3>3 DEF NodesWith
    <3> QED BY <3>2, <3>3
  <2>4. AreNodes(g, Levels[n])
    <3> HIDE DEF NodesWith
    <3> QED BY <2>3, Zenon DEF AreNodes
  <2> HIDE DEF g
  <2> QED BY <2>1, <2>4
<1>3. MaxLevels \in good
  <2> HIDE DEF good
  <2> QED BY <1>1, <1>2, LevelsAre, Counting
<1> QED BY <1>3 DEF JSON

LEMMA NodesAre ==
    ASSUME NEW v \in JSON
    PROVE  /\ ~IsMap(v) => Nodes(v) = {Root(v)}
           /\ IsMap(v) => Nodes(v) = {Root(EmptyMap)} \cup
                            UNION {Under(k, Nodes(v[k])) : k \in {key \in Keys : v[key] # Absent}}
<1> DEFINE F == CHOOSE f : AreNodes(f, JSON)
<1>1. AreNodes(F, JSON)
  BY NodesExist
<1>2. \A w : Nodes(w) = F[w]
  BY DEF Nodes, AreNodes, NodesWith, Root, Under
<1>3. F[v] = NodesWith(F, v)
  <2> HIDE DEF F
  <2> QED BY <1>1 DEF AreNodes
<1> HIDE DEF F
<1> QED BY <1>2, <1>3, Zenon DEF NodesWith

Node == [path : Seq(Keys), value : Atoms \cup List \cup {EmptyMap}]

LEMMA NodesAreTyped == \A v \in JSON : Nodes(v) \subseteq Node
<1> DEFINE good == {n \in 0 .. MaxLevels : \A v \in Levels[n] : Nodes(v) \subseteq Node}
<1>1. 0 \in good
  BY LevelsAre
<1>2. ASSUME NEW n \in 0 + 1 .. MaxLevels, n - 1 \in good PROVE n \in good
  <2>1. n \in 0 .. MaxLevels
    BY LevelsAre
  <2>2. ASSUME NEW v \in Levels[n] PROVE Nodes(v) \subseteq Node
    <3>1. v \in JSON /\ v # Absent
      BY <2>1, LevelHas
    <3>2. CASE ~IsMap(v)
      <4>1. Root(v) \in Node
        BY <3>1, <3>2, KindsApart DEF Root, Node, IsMap, IsList
      <4> QED BY <3>1, <3>2, <4>1, NodesAre
    <3>3. CASE IsMap(v)
      <4>1. Root(EmptyMap) \in Node
        BY DEF Root, Node
      <4>2. ASSUME NEW k \in Keys, v[k] # Absent PROVE Under(k, Nodes(v[k])) \subseteq Node
        <5>1. v[k] \in Levels[n - 1]
          BY <2>1, <3>3, <4>2, LevelHas, MapHas
        <5>2. Nodes(v[k]) \subseteq Node
          BY <1>2, <5>1
        <5>3. ASSUME NEW m \in Nodes(v[k]) PROVE [path |-> <<k>> \o m.path, value |-> m.value] \in Node
          <6>1. m.path \in Seq(Keys) /\ m.value \in Atoms \cup List \cup {EmptyMap}
            BY <5>2 DEF Node
          <6>2. <<k>> \o m.path \in Seq(Keys)
            BY <6>1
          <6> QED BY <6>1, <6>2 DEF Node
        <5> QED BY <5>3 DEF Under
      <4> QED BY <3>1, <3>3, <4>1, <4>2, NodesAre
    <3> QED BY <3>2, <3>3
  <2> QED BY <2>1, <2>2
<1>3. 0 .. MaxLevels \subseteq good
  <2> HIDE DEF good
  <2> QED BY <1>1, <1>2, LevelsAre, Counting
<1> QED BY <1>3, KindsApart DEF JSON

Has(v, p, x) == [path |-> p, value |-> x] \in Nodes(v)

LEMMA RootIs ==
    ASSUME NEW v \in JSON, NEW x
    PROVE  /\ Has(v, << >>, x) <=> x = IF IsMap(v) THEN EmptyMap ELSE v
           /\ << >> \in PathsOf(Nodes(v))
           /\ ~IsMap(v) => \A p \in Seq(Keys) : p # << >> => ~Has(v, p, x)
<1>1. CASE ~IsMap(v)
  <2>1. Nodes(v) = {Root(v)}
    BY <1>1, NodesAre
  <2>2. \A p : Has(v, p, x) <=> p = << >> /\ x = v
    BY <2>1 DEF Has, Root
  <2>3. << >> \in PathsOf(Nodes(v))
    BY <2>1 DEF Root, PathsOf
  <2> QED BY <1>1, <2>2, <2>3
<1>2. CASE IsMap(v)
  <2>1. Nodes(v) = {Root(EmptyMap)} \cup
                     UNION {Under(k, Nodes(v[k])) : k \in {key \in Keys : v[key] # Absent}}
    BY <1>2, NodesAre
  <2>2. ASSUME NEW k \in Keys, v[k] # Absent, NEW m \in Under(k, Nodes(v[k])) PROVE m.path # << >>
    <3>1. v[k] \in JSON
      BY <1>2, <2>2, MapIsFcn
    <3>2. PICK n \in Nodes(v[k]) : m = [path |-> <<k>> \o n.path, value |-> n.value]
      BY <2>2 DEF Under
    <3>3. n.path \in Seq(Keys)
      BY <3>1, <3>2, NodesAreTyped DEF Node
    <3> QED BY <3>2, <3>3, PathBelow
  <2> QED BY <1>2, <2>1, <2>2 DEF Has, Root, PathsOf
<1> QED BY <1>1, <1>2

LEMMA BelowIs ==
    ASSUME NEW v \in JSON, IsMap(v), NEW k \in Keys, NEW q \in Seq(Keys), NEW x
    PROVE  Has(v, <<k>> \o q, x) <=> v[k] # Absent /\ Has(v[k], q, x)
<1> DEFINE m == [path |-> <<k>> \o q, value |-> x]
<1>1. Nodes(v) = {Root(EmptyMap)} \cup
                   UNION {Under(j, Nodes(v[j])) : j \in {key \in Keys : v[key] # Absent}}
  BY NodesAre
<1>2. m # Root(EmptyMap)
  BY PathBelow DEF Root
<1>3. ASSUME NEW j \in Keys, v[j] # Absent
      PROVE  m \in Under(j, Nodes(v[j])) <=> j = k /\ Has(v[k], q, x)
  <2>1. v[j] \in JSON
    BY <1>3, MapIsFcn
  <2>2. ASSUME NEW n \in Nodes(v[j]), m = [path |-> <<j>> \o n.path, value |-> n.value]
        PROVE  j = k /\ Has(v[k], q, x)
    <3>1. n \in Node
      BY <2>1, <2>2, NodesAreTyped
    <3>2. n.path \in Seq(Keys) /\ n = [path |-> n.path, value |-> n.value]
      BY <3>1 DEF Node
    <3>3. <<k>> \o q = <<j>> \o n.path /\ x = n.value
      BY <2>2
    <3>4. j = k /\ n.path = q
      BY <3>2, <3>3, PathBelow
    <3> QED BY <2>2, <3>2, <3>3, <3>4 DEF Has
  <2>3. ASSUME j = k, Has(v[k], q, x) PROVE m \in Under(j, Nodes(v[j]))
    <3>1. PICK n \in Nodes(v[j]) : n = [path |-> q, value |-> x]
      BY <2>3 DEF Has
    <3>2. m = [path |-> <<j>> \o n.path, value |-> n.value]
      BY <2>3, <3>1
    <3> HIDE DEF m
    <3> QED BY <3>2 DEF Under
  <2> HIDE DEF m
  <2> QED BY <2>2, <2>3 DEF Under
<1>4. m \in Nodes(v) <=> \E j \in Keys : v[j] # Absent /\ m \in Under(j, Nodes(v[j]))
  <2> HIDE DEF m
  <2> QED BY <1>1, <1>2
<1>5. m \in Nodes(v) <=> v[k] # Absent /\ Has(v[k], q, x)
  <2> HIDE DEF m
  <2> QED BY <1>3, <1>4
<1> QED BY <1>5 DEF Has

-----------------------------------------------------------------------------
(* A merged map is the patch laid over the base. *)

LEMMA PathsAre ==
    ASSUME NEW v \in JSON
    PROVE  /\ \A p : p \in PathsOf(Nodes(v)) <=> \E x : Has(v, p, x)
           /\ \A p \in PathsOf(Nodes(v)) : p \in Seq(Keys)
           /\ \A p : MapAt(Nodes(v), p) <=> Has(v, p, EmptyMap)
<1>1. \A n \in Nodes(v) : n = [path |-> n.path, value |-> n.value] /\ n.path \in Seq(Keys)
  BY NodesAreTyped DEF Node
<1>2. ASSUME NEW p PROVE p \in PathsOf(Nodes(v)) <=> \E x : Has(v, p, x)
  BY <1>1 DEF PathsOf, Has
<1>3. \A p \in PathsOf(Nodes(v)) : p \in Seq(Keys)
  BY <1>1 DEF PathsOf
<1> QED BY <1>2, <1>3 DEF MapAt, Has

LEMMA PathsBelow ==
    ASSUME NEW v \in JSON, IsMap(v), NEW k \in Keys, NEW q \in Seq(Keys)
    PROVE  <<k>> \o q \in PathsOf(Nodes(v)) <=> v[k] # Absent /\ q \in PathsOf(Nodes(v[k]))
<1>1. v[k] # Absent => v[k] \in JSON
  BY MapIsFcn
<1> QED BY <1>1, PathsAre, BelowIs

\* Nothing that the patch w sets is above p and no map.
Clear(w, p) == \A q \in PathsOf(Nodes(w)) : IsStrictPrefix(q, p) => MapAt(Nodes(w), q)

Overlaid(v, w, p, x) ==
    \/ Has(w, p, x)
    \/ Has(v, p, x) /\ p \notin PathsOf(Nodes(w)) /\ Clear(w, p)

LEMMA ClearBelow ==
    ASSUME NEW w \in JSON, IsMap(w), NEW k \in Keys, NEW q \in Seq(Keys)
    PROVE  Clear(w, <<k>> \o q) <=> (w[k] # Absent => Clear(w[k], q))
<1>1. w[k] # Absent => w[k] \in JSON
  BY MapIsFcn
<1>2. ASSUME Clear(w, <<k>> \o q), w[k] # Absent, NEW r \in PathsOf(Nodes(w[k])), IsStrictPrefix(r, q)
      PROVE  MapAt(Nodes(w[k]), r)
  <2>1. r \in Seq(Keys)
    BY <1>1, <1>2, PathsAre
  <2>2. <<k>> \o r \in PathsOf(Nodes(w))
    BY <1>2, <2>1, PathsBelow
  <2>3. IsStrictPrefix(<<k>> \o r, <<k>> \o q)
    BY <1>2, <2>1, PrefixBelow
  <2>4. Has(w, <<k>> \o r, EmptyMap)
    BY <1>2, <2>2, <2>3, PathsAre DEF Clear
  <2> QED BY <1>1, <1>2, <2>1, <2>4, BelowIs, PathsAre
<1>3. ASSUME w[k] # Absent => Clear(w[k], q), NEW p \in PathsOf(Nodes(w)), IsStrictPrefix(p, <<k>> \o q)
      PROVE  MapAt(Nodes(w), p)
  <2>1. p \in Seq(Keys)
    BY PathsAre
  <2>2. CASE p = << >>
    BY <2>2, RootIs, PathsAre
  <2>3. ASSUME NEW j \in Keys, NEW r \in Seq(Keys), p = <<j>> \o r PROVE MapAt(Nodes(w), p)
    <3>1. j = k /\ IsStrictPrefix(r, q)
      BY <1>3, <2>3, PrefixBelow
    <3>2. w[k] # Absent /\ r \in PathsOf(Nodes(w[k]))
      BY <1>3, <2>3, <3>1, PathsBelow
    <3>3. Has(w[k], r, EmptyMap)
      BY <1>1, <1>3, <3>1, <3>2, PathsAre DEF Clear
    <3>4. Has(w, <<k>> \o r, EmptyMap)
      BY <3>2, <3>3, BelowIs
    <3> QED BY <2>3, <3>1, <3>4, PathsAre
  <2> QED BY <2>1, <2>2, <2>3, PathIs
<1> QED BY <1>2, <1>3 DEF Clear

\* What is laid over a value that is no map, or is none itself, replaces it.
LEMMA Replaced ==
    ASSUME NEW v \in JSON, NEW w \in JSON, ~(IsMap(v) /\ IsMap(w)), NEW p \in Seq(Keys), NEW x
    PROVE  Overlaid(v, w, p, x) <=> Has(w, p, x)
<1> SUFFICES ASSUME Has(v, p, x), p \notin PathsOf(Nodes(w)), Clear(w, p) PROVE FALSE
  BY DEF Overlaid
<1>1. << >> \in PathsOf(Nodes(w)) /\ p # << >>
  BY RootIs
<1>2. IsMap(v) /\ ~IsMap(w)
  BY <1>1, RootIs
<1>3. PICK k \in Keys, q \in Seq(Keys) : p = <<k>> \o q
  BY <1>1, PathIs
<1>4. IsStrictPrefix(<< >>, p)
  BY <1>3, PrefixBelow
<1>5. Has(w, << >>, EmptyMap)
  BY <1>1, <1>4, PathsAre DEF Clear
<1>6. w = EmptyMap
  BY <1>2, <1>5, RootIs
<1> QED BY <1>2, <1>6, EmptyMapIs DEF IsMap

LEMMA OverlaidBelow ==
    ASSUME NEW v \in JSON, NEW w \in JSON, IsMap(v), IsMap(w), NEW k \in Keys, NEW q \in Seq(Keys), NEW x
    PROVE  Overlaid(v, w, <<k>> \o q, x) <=>
             \/ w[k] = Absent /\ v[k] # Absent /\ Has(v[k], q, x)
             \/ w[k] # Absent /\ v[k] = Absent /\ Has(w[k], q, x)
             \/ w[k] # Absent /\ v[k] # Absent /\ Overlaid(v[k], w[k], q, x)
<1>1. Has(v, <<k>> \o q, x) <=> v[k] # Absent /\ Has(v[k], q, x)
  BY BelowIs
<1>2. Has(w, <<k>> \o q, x) <=> w[k] # Absent /\ Has(w[k], q, x)
  BY BelowIs
<1> QED BY <1>1, <1>2, PathsBelow, ClearBelow DEF Overlaid

LEMMA MergedIsOverlaid ==
    \A n \in 0 .. MaxLevels : \A b, m \in Maps(n), p \in Seq(Keys) : \A x :
        Has(mergeMaps(b, m), p, x) <=> Overlaid(b, m, p, x)
<1> DEFINE good == {n \in 0 .. MaxLevels : \A b, m \in Maps(n), p \in Seq(Keys) : \A x :
                        Has(mergeMaps(b, m), p, x) <=> Overlaid(b, m, p, x)}
<1>1. 0 \in good
  BY LevelsAre DEF Maps
<1>2. ASSUME NEW n \in 0 + 1 .. MaxLevels, n - 1 \in good PROVE n \in good
  <2>1. n \in 0 .. MaxLevels
    BY LevelsAre
  <2>2. ASSUME NEW b \in Maps(n), NEW m \in Maps(n), NEW p \in Seq(Keys), NEW x
        PROVE  Has(mergeMaps(b, m), p, x) <=> Overlaid(b, m, p, x)
    <3> DEFINE u == mergeMaps(b, m)
    <3>1. u \in Maps(n)
      BY <2>1, MergeIsMap
    <3>2. /\ b \in JSON /\ m \in JSON /\ u \in JSON /\ b \in Map /\ m \in Map
          /\ IsMap(b) /\ IsMap(m) /\ IsMap(u)
      BY <2>1, <3>1, LevelHas DEF Maps
    <3>3. /\ \A k \in Keys : m[k] = Absent => u[k] = b[k]
          /\ \A k \in Keys : m[k] # Absent /\ ~(IsMap(b[k]) /\ IsMap(m[k])) => u[k] = m[k]
          /\ \A k \in Keys : IsMap(b[k]) /\ IsMap(m[k]) => u[k] = mergeMaps(b[k], m[k])
      BY <3>2, MergeIs
    <3> HIDE DEF u
    <3>4. CASE p = << >>
      <4>1. Has(u, << >>, x) <=> x = EmptyMap
        BY <3>2, RootIs
      <4>2. Has(m, << >>, x) <=> x = EmptyMap
        BY <3>2, RootIs
      <4>3. << >> \in PathsOf(Nodes(m))
        BY <3>2, RootIs
      <4>4. Overlaid(b, m, << >>, x) <=> Has(m, << >>, x)
        BY <4>3, Zenon DEF Overlaid
      <4> QED BY <3>4, <4>1, <4>2, <4>4, Zenon DEF u
    <3>5. ASSUME NEW k \in Keys, NEW q \in Seq(Keys), p = <<k>> \o q
          PROVE  Has(u, p, x) <=> Overlaid(b, m, p, x)
      <4>1. Has(u, p, x) <=> u[k] # Absent /\ Has(u[k], q, x)
        BY <3>2, <3>5, BelowIs
      <4>2. CASE m[k] = Absent
        BY <3>2, <3>3, <3>5, <4>1, <4>2, OverlaidBelow
      <4>3. CASE m[k] # Absent /\ b[k] = Absent
        BY <3>2, <3>3, <3>5, <4>1, <4>3, OverlaidBelow, KindsApart
      <4>4. CASE m[k] # Absent /\ b[k] # Absent /\ ~(IsMap(b[k]) /\ IsMap(m[k]))
        <5>1. b[k] \in JSON /\ m[k] \in JSON
          BY <3>2, <4>4, MapIsFcn
        <5>2. Overlaid(b[k], m[k], q, x) <=> Has(m[k], q, x)
          BY <4>4, <5>1, Replaced
        <5> QED BY <3>2, <3>3, <3>5, <4>1, <4>4, <5>2, OverlaidBelow
      <4>5. CASE IsMap(b[k]) /\ IsMap(m[k])
        <5>1. b[k] \in Maps(n - 1) /\ m[k] \in Maps(n - 1)
          BY <2>1, <4>5, MapHas
        <5>2. Has(u[k], q, x) <=> Overlaid(b[k], m[k], q, x)
          BY <1>2, <3>3, <4>5, <5>1
        <5>3. u[k] # Absent /\ b[k] # Absent /\ m[k] # Absent
          <6>1. u[k] \in Maps(n - 1) /\ n - 1 \in 0 .. MaxLevels
            BY <2>1, <3>3, <4>5, <5>1, MapHas, MergeIsMap
          <6> QED BY <4>5, <6>1, LevelHas, KindsApart
        <5> QED BY <3>2, <3>5, <4>1, <5>2, <5>3, OverlaidBelow
      <4> QED BY <4>2, <4>3, <4>4, <4>5
    <3> QED BY <3>4, <3>5, PathIs DEF u
  <2> QED BY <2>1, <2>2
<1> HIDE DEF good
<1>3. 0 .. MaxLevels \subseteq good
  BY <1>1, <1>2, LevelsAre, Counting
<1> QED BY <1>3 DEF good

LEMMA OverlayIs ==
    ASSUME NEW b \in Map, NEW m \in Map
    PROVE  LET N == Nodes(mergeMaps(b, m))
               B == Nodes(b)
               P == Nodes(m)
           IN  N = P \cup {n \in B : /\ n.path \notin PathsOf(P)
                                     /\ \A q \in PathsOf(P) : IsStrictPrefix(q, n.path) => MapAt(P, q)}
<1> DEFINE N == Nodes(mergeMaps(b, m))
           B == Nodes(b)
           P == Nodes(m)
           O == {n \in B : /\ n.path \notin PathsOf(P)
                           /\ \A q \in PathsOf(P) : IsStrictPrefix(q, n.path) => MapAt(P, q)}
<1>1. b \in JSON /\ m \in JSON /\ mergeMaps(b, m) \in JSON
  BY MapsAreMap, MergeIsMap, KindsApart
<1>2. N \subseteq Node /\ B \subseteq Node /\ P \subseteq Node
  BY <1>1, NodesAreTyped
<1>3. ASSUME NEW n \in Node PROVE n \in N <=> n \in P \cup O
  <2>1. n = [path |-> n.path, value |-> n.value] /\ n.path \in Seq(Keys)
    BY DEF Node
  <2>2. Has(mergeMaps(b, m), n.path, n.value) <=> Overlaid(b, m, n.path, n.value)
    BY <2>1, MapsAreMap, MergedIsOverlaid
  <2>3. /\ n \in N <=> Has(mergeMaps(b, m), n.path, n.value)
        /\ n \in B <=> Has(b, n.path, n.value)
        /\ n \in P <=> Has(m, n.path, n.value)
    BY <2>1, Zenon DEF Has
  <2>4. n \in O <=> n \in B /\ n.path \notin PathsOf(P) /\ Clear(m, n.path)
    BY Zenon DEF Clear
  <2> HIDE DEF N, B, P, O
  <2> QED BY <2>2, <2>3, <2>4 DEF Overlaid, P
<1>4. N = P \cup O
  <2>1. O \subseteq Node
    BY <1>2
  <2> HIDE DEF N, B, P, O
  <2> QED BY <1>2, <1>3, <2>1
<1> QED BY <1>4, Zenon

\* A merged map is the patch laid over the base, node by node, for maps of any
\* depth (mergeMaps).
THEOREM MergesAreOverlays == MergingSpec => []MergeIsOverlay
<1>1. MergingInv => MergeIsOverlay
  <2> SUFFICES ASSUME MergingInv PROVE MergeIsOverlay
    OBVIOUS
  <2>1. reported \in Map /\ desired \in Map
    BY EmptyMapIs, LevelHas DEF MergingInv
  <2> QED BY <2>1, OverlayIs, Zenon DEF MergeIsOverlay
<1> QED BY <1>1, MergingInvariance, PTL

-----------------------------------------------------------------------------
(* appendDiff and ComputeDiff *)

\* The keys either map has, the body of appendDiff, which calls f, and what makes
\* f the differences of the values S.
Either(v, w) == {key \in Keys : v[key] # Absent \/ w[key] # Absent}

DifferWith(f, v, w) ==
    IF v = w THEN {}
    ELSE IF IsMap(v) /\ IsMap(w) THEN UNION {Below(k, f[At(v, k)][At(w, k)]) : k \in Either(v, w)}
    ELSE {<< >>}

AreDifferences(f, S) == f = [v \in S |-> [w \in S |-> DifferWith(f, v, w)]]

\* What stands at a key of either map is of a lower level.
LEMMA AtEither ==
    ASSUME NEW n \in 0 .. MaxLevels, NEW v \in Maps(n), NEW w \in Maps(n), NEW k \in Either(v, w)
    PROVE  n - 1 \in 0 .. MaxLevels /\ At(v, k) \in Levels[n - 1] /\ At(w, k) \in Levels[n - 1]
<1>1. k \in Keys /\ (v[k] # Absent \/ w[k] # Absent)
  BY DEF Either
<1>2. /\ n - 1 \in 0 .. MaxLevels
      /\ v[k] # Absent => v[k] \in Levels[n - 1]
      /\ w[k] # Absent => w[k] \in Levels[n - 1]
  BY <1>1, MapHas
<1>3. Levels[n - 1] # {}
  BY <1>1, <1>2
<1>4. Null \in Levels[n - 1]
  BY <1>2, <1>3, LevelHas, TwinMergeAssumption
<1> QED BY <1>2, <1>4 DEF At

LEMMA DifferencesExist == \E f : AreDifferences(f, JSON)
<1> DEFINE good == {n \in 0 .. MaxLevels : \E f : AreDifferences(f, Levels[n])}
<1>1. 0 \in good
  <2>1. AreDifferences([v \in {} |-> 0], {})
    BY DEF AreDifferences
  <2>2. Levels[0] = {} /\ 0 \in 0 .. MaxLevels
    BY LevelsAre
  <2> QED BY <2>1, <2>2
<1>2. ASSUME NEW n \in 0 + 1 .. MaxLevels, n - 1 \in good PROVE n \in good
  <2>1. n \in 0 .. MaxLevels /\ n \in 1 .. MaxLevels
    BY LevelsAre
  <2>2. PICK f : AreDifferences(f, Levels[n - 1])
    BY <1>2
  <2> DEFINE g == [v \in Levels[n] |-> [w \in Levels[n] |-> DifferWith(f, v, w)]]
  <2>3. ASSUME NEW v \in Levels[n], NEW w \in Levels[n] PROVE DifferWith(f, v, w) = DifferWith(g, v, w)
    <3>1. ASSUME IsMap(v), IsMap(w), NEW k \in Either(v, w)
          PROVE  f[At(v, k)][At(w, k)] = g[At(v, k)][At(w, k)]
      <4>1. At(v, k) \in Levels[n - 1] /\ At(w, k) \in Levels[n - 1]
        BY <2>1, <3>1, LevelHas, AtEither
      <4>2. At(v, k) \in Levels[n] /\ At(w, k) \in Levels[n]
        BY <2>1, <4>1, LevelsGrow
      <4>3. f[At(v, k)][At(w, k)] = DifferWith(f, At(v, k), At(w, k))
        BY <2>2, <4>1 DEF AreDifferences
      <4> QED BY <4>2, <4>3
    <3> HIDE DEF g
    <3>2. CASE IsMap(v) /\ IsMap(w)
      <4>1. \A k \in Either(v, w) : Below(k, f[At(v, k)][At(w, k)]) = Below(k, g[At(v, k)][At(w, k)])
        BY <3>1, <3>2
      <4>2. {Below(k, f[At(v, k)][At(w, k)]) : k \in Either(v, w)}
              = {Below(k, g[At(v, k)][At(w, k)]) : k \in Either(v, w)}
        BY <4>1, Zenon
      <4> QED BY <3>2, <4>2, Zenon DEF DifferWith
    <3>3. CASE ~(IsMap(v) /\ IsMap(w))
      BY <3>3, Zenon DEF DifferWith
    <3> QED BY <3>2, <3>3
  <2>4. AreDifferences(g, Levels[n])
    <3>1. \A v \in Levels[n] : [w \in Levels[n] |-> DifferWith(f, v, w)]
                                 = [w \in Levels[n] |-> DifferWith(g, v, w)]
      <4> HIDE DEF g
      <4> QED BY <2>3, Zenon
    <3> QED BY <3>1, Zenon DEF AreDifferences
  <2> HIDE DEF g
  <2> QED BY <2>1, <2>4
<1>3. MaxLevels \in good
  <2> HIDE DEF good
  <2> QED BY <1>1, <1>2, LevelsAre, Counting
<1> QED BY <1>3 DEF JSON

DiffersBelow(v, w, k, path) == \E p \in appendDiff(At(v, k), At(w, k)) : path = <<k>> \o p

LEMMA DiffIs ==
    ASSUME NEW v \in JSON, NEW w \in JSON
    PROVE  /\ v = w => appendDiff(v, w) = {}
           /\ ~(IsMap(v) /\ IsMap(w)) => appendDiff(v, w) \subseteq {<< >>}
           /\ IsMap(v) /\ IsMap(w) =>
                \A path \in appendDiff(v, w) : \E k \in Either(v, w) : DiffersBelow(v, w, k, path)
<1> DEFINE F == CHOOSE f : AreDifferences(f, JSON)
<1>1. AreDifferences(F, JSON)
  BY DifferencesExist
<1>2. \A x, y : appendDiff(x, y) = F[x][y]
  BY DEF appendDiff, AreDifferences, DifferWith, Either
<1>3. F[v][w] = DifferWith(F, v, w)
  <2> HIDE DEF F
  <2> QED BY <1>1 DEF AreDifferences
<1> HIDE DEF F
<1>4. appendDiff(v, w) = DifferWith(F, v, w)
  BY <1>2, <1>3
<1>5. v = w => appendDiff(v, w) = {}
  BY <1>4 DEF DifferWith
<1>6. ASSUME IsMap(v), IsMap(w), NEW path \in appendDiff(v, w)
      PROVE  \E k \in Either(v, w) : DiffersBelow(v, w, k, path)
  <2>1. PICK k \in Either(v, w) : path \in Below(k, F[At(v, k)][At(w, k)])
    BY <1>4, <1>6 DEF DifferWith
  <2> QED BY <1>2, <2>1 DEF Below, DiffersBelow
<1>7. ~(IsMap(v) /\ IsMap(w)) => appendDiff(v, w) \subseteq {<< >>}
  BY <1>4 DEF DifferWith
<1> QED BY <1>5, <1>6, <1>7

LEMMA DifferencesArePaths == \A v, w \in JSON : appendDiff(v, w) \subseteq Seq(Keys)
<1> DEFINE good == {n \in 0 .. MaxLevels : \A v, w \in Levels[n] : appendDiff(v, w) \subseteq Seq(Keys)}
<1>1. 0 \in good
  BY LevelsAre
<1>2. ASSUME NEW n \in 0 + 1 .. MaxLevels, n - 1 \in good PROVE n \in good
  <2>1. n \in 0 .. MaxLevels
    BY LevelsAre
  <2>2. ASSUME NEW v \in Levels[n], NEW w \in Levels[n], NEW path \in appendDiff(v, w)
        PROVE  path \in Seq(Keys)
    <3>1. v \in JSON /\ w \in JSON
      BY <2>1, LevelHas
    <3>2. CASE ~(IsMap(v) /\ IsMap(w))
      <4>1. path = << >>
        BY <2>2, <3>1, <3>2, DiffIs
      <4> QED BY <4>1
    <3>3. CASE IsMap(v) /\ IsMap(w)
      <4>1. PICK k \in Either(v, w) : DiffersBelow(v, w, k, path)
        BY <2>2, <3>1, <3>3, DiffIs
      <4>2. PICK p \in appendDiff(At(v, k), At(w, k)) : path = <<k>> \o p
        BY <4>1 DEF DiffersBelow
      <4>3. v \in Maps(n) /\ w \in Maps(n)
        BY <2>1, <3>3, LevelHas
      <4>4. At(v, k) \in Levels[n - 1] /\ At(w, k) \in Levels[n - 1]
        BY <2>1, <4>3, AtEither
      <4>5. p \in Seq(Keys) /\ k \in Keys
        BY <1>2, <4>2, <4>4 DEF Either
      <4> HIDE DEF good
      <4> QED BY <4>2, <4>5, PathBelow
    <3> QED BY <3>2, <3>3
  <2> QED BY <2>1, <2>2
<1>3. MaxLevels \in good
  <2> HIDE DEF good
  <2> QED BY <1>1, <1>2, LevelsAre, Counting
<1> QED BY <1>3 DEF JSON

LEMMA NothingLeft ==
    \A n \in 0 .. MaxLevels : \A d, r \in Maps(n) :
        appendDiff(d, mergeMaps(r, d)) \cap PathsOf(Nodes(d)) = {}
<1> DEFINE good == {n \in 0 .. MaxLevels : \A d, r \in Maps(n) :
                        appendDiff(d, mergeMaps(r, d)) \cap PathsOf(Nodes(d)) = {}}
<1>1. 0 \in good
  BY LevelsAre DEF Maps
<1>2. ASSUME NEW n \in 0 + 1 .. MaxLevels, n - 1 \in good PROVE n \in good
  <2>1. n \in 0 .. MaxLevels
    BY LevelsAre
  <2>2. ASSUME NEW d \in Maps(n), NEW r \in Maps(n), NEW path \in appendDiff(d, mergeMaps(r, d)),
               path \in PathsOf(Nodes(d))
        PROVE  FALSE
    <3> DEFINE m == mergeMaps(r, d)
    <3>1. m \in Maps(n)
      BY <2>1, MergeIsMap
    <3>2. d \in JSON /\ m \in JSON /\ d \in Map /\ r \in Map /\ IsMap(d) /\ IsMap(m)
      BY <2>1, <3>1, LevelHas DEF Maps
    <3>3. PICK k \in Either(d, m) : DiffersBelow(d, m, k, path)
      BY <2>2, <3>2, DiffIs
    <3>4. PICK p \in appendDiff(At(d, k), At(m, k)) : path = <<k>> \o p
      BY <3>3 DEF DiffersBelow
    <3>5. k \in Keys /\ At(d, k) \in JSON /\ At(m, k) \in JSON
      BY <2>1, <3>1, AtEither, LevelsGrow DEF Either
    <3>6. p \in Seq(Keys)
      BY <3>4, <3>5, DifferencesArePaths
    <3>7. d[k] # Absent /\ p \in PathsOf(Nodes(d[k]))
      BY <2>2, <3>2, <3>4, <3>5, <3>6, PathsBelow
    <3>8. CASE IsMap(r[k]) /\ IsMap(d[k])
      <4>1. r[k] \in Maps(n - 1) /\ d[k] \in Maps(n - 1) /\ n - 1 \in 0 .. MaxLevels
        BY <2>1, <3>5, <3>8, MapHas
      <4>2. m[k] = mergeMaps(r[k], d[k])
        BY <3>2, <3>5, <3>8, MergeIs
      <4>3. m[k] # Absent
        <5>1. m[k] \in Maps(n - 1)
          BY <4>1, <4>2, MergeIsMap
        <5> QED BY <4>1, <5>1, LevelHas, KindsApart
      <4>4. p \in appendDiff(d[k], mergeMaps(r[k], d[k]))
        <5> HIDE DEF m
        <5> QED BY <3>4, <3>7, <4>2, <4>3 DEF At
      <4> QED BY <1>2, <3>7, <4>1, <4>4
    <3>9. CASE ~(IsMap(r[k]) /\ IsMap(d[k]))
      <4>1. m[k] = d[k]
        BY <3>2, <3>5, <3>7, <3>9, MergeIs
      <4>2. At(d, k) = At(m, k)
        <5> HIDE DEF m
        <5> QED BY <4>1 DEF At
      <4> HIDE DEF m
      <4> QED BY <3>4, <3>5, <4>2, DiffIs
    <3> QED BY <3>8, <3>9
  <2> QED BY <2>1, <2>2
<1> HIDE DEF good
<1>3. 0 .. MaxLevels \subseteq good
  BY <1>1, <1>2, LevelsAre, Counting
<1> QED BY <1>3 DEF good

LEMMA CaughtUp ==
    ASSUME NEW d \in Map, NEW r \in Map
    PROVE  ComputeDiff(d, mergeMaps(r, d)) \cap PathsOf(Nodes(d)) = {}
<1> DEFINE m == mergeMaps(r, d)
<1>1. /\ d \in JSON /\ r \in JSON /\ m \in JSON /\ IsMap(d) /\ IsMap(m)
      /\ d \in Maps(MaxLevels) /\ r \in Maps(MaxLevels) /\ MaxLevels \in 0 .. MaxLevels
  BY MapsAreMap, MergeIsMap, LevelHas, KindsApart DEF IsMap
<1> SUFFICES ASSUME NEW path \in ComputeDiff(d, m), path \in PathsOf(Nodes(d)) PROVE FALSE
  OBVIOUS
<1> DEFINE Left(k) == IF d[k] # Absent /\ m[k] # Absent THEN appendDiff(d[k], m[k]) ELSE {<< >>}
<1>2. PICK k \in Keys : path \in Below(k, Left(k))
  <2> HIDE DEF m
  <2> QED BY DEF ComputeDiff
<1>3. PICK p \in Left(k) : path = <<k>> \o p
  <2> HIDE DEF Left
  <2> QED BY <1>2 DEF Below
<1>4. p \in Seq(Keys)
  <2>1. << >> \in Seq(Keys)
    OBVIOUS
  <2>2. d[k] # Absent /\ m[k] # Absent => d[k] \in JSON /\ m[k] \in JSON
    BY <1>1, MapIsFcn
  <2> QED BY <2>1, <2>2, DifferencesArePaths
<1>5. d[k] # Absent /\ d[k] \in JSON /\ p \in PathsOf(Nodes(d[k]))
  BY <1>1, <1>3, <1>4, PathsBelow, MapIsFcn
<1>6. CASE IsMap(r[k]) /\ IsMap(d[k])
  <2>1. r[k] \in Maps(MaxLevels - 1) /\ d[k] \in Maps(MaxLevels - 1) /\ MaxLevels - 1 \in 0 .. MaxLevels
    BY <1>1, <1>6, MapHas
  <2>2. m[k] = mergeMaps(r[k], d[k])
    BY <1>6, MergeIs
  <2>3. m[k] # Absent
    <3>1. m[k] \in Maps(MaxLevels - 1)
      BY <2>1, <2>2, MergeIsMap
    <3> QED BY <2>1, <3>1, LevelHas, KindsApart
  <2>4. p \in appendDiff(d[k], mergeMaps(r[k], d[k]))
    <3> HIDE DEF m
    <3> QED BY <1>5, <2>2, <2>3
  <2> QED BY <1>5, <2>1, <2>4, NothingLeft
<1>7. CASE ~(IsMap(r[k]) /\ IsMap(d[k]))
  <2>1. m[k] = d[k]
    BY <1>5, <1>7, MergeIs
  <2>2. p \in appendDiff(d[k], d[k])
    <3> HIDE DEF m
    <3> QED BY <1>5, <2>1
  <2> QED BY <1>5, <2>2, DiffIs
<1> QED BY <1>6, <1>7

\* A device that applies the desired state and reports it has no differences left
\* at any path the desired state sets (ComputeDiff, appendDiff and mergeMaps).
THEOREM DevicesCatchUp == MergingSpec => []DeviceCatchesUp
<1>1. MergingInv => DeviceCatchesUp
  <2> SUFFICES ASSUME MergingInv PROVE DeviceCatchesUp
    OBVIOUS
  <2>1. reported \in Map /\ desired \in Map
    BY EmptyMapIs, LevelHas DEF MergingInv
  <2> QED BY <2>1, CaughtUp DEF DeviceCatchesUp
<1> QED BY <1>1, MergingInvariance, PTL

=============================================================================
