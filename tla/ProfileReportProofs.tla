------------------------- MODULE ProfileReportProofs -------------------------
(***************************************************************************)
(* The report on any profile: the paths and the sums it is made of, the    *)
(* nodes of the graph, and the choice of its edges for any limits and any  *)
(* order between edges of equal counts.                                    *)
(***************************************************************************)
EXTENDS ProfileReport, CountingTheorems, SequenceTheorems, TLAPS

-----------------------------------------------------------------------------
(* The paths of getReduced.                                                *)

NoRepeat(p) == \A i, j \in DOMAIN p : p[i] = p[j] => i = j

PathRun(s, path) ==
  /\ path \in [0 .. Len(s) -> Seq(Names)]
  /\ path[0] = <<>>
  /\ \A n \in 1 .. Len(s) : path[n] = Extended(path[n - 1], s[n])

LEMMA ExtendedType ==
  ASSUME NEW p \in Seq(Names), NEW l \in Locations PROVE Extended(p, l) \in Seq(Names)
BY ReportAssumption, AppendProperties DEF Extended

\* Path is the end of such a run.
LEMMA PathLoop ==
  ASSUME NEW s \in Seq(Locations)
  PROVE  \E path : PathRun(s, path) /\ Path(s) = path[Len(s)]
<1> DEFINE X == Seq(Names)
           N == Len(s)
           step == [n \in 1 .. N |-> [p \in X |-> Extended(p, s[n])]]
           Turn(f) == [n \in 0 .. N |->
                         IF n = 0 THEN <<>> ELSE Extended(f[n - 1], s[n])]
           path == CHOOSE f : f = Turn(f)
<1>1. N \in Nat /\ \A n \in 1 .. N : s[n] \in Locations
  BY LenProperties, ElementOfSeq
<1>2. step \in [1 .. N -> [X -> X]]
  BY <1>1, ExtendedType
<1>3. <<>> \in X
  BY EmptySeq
<1>4. PICK f \in Histories(X, <<>>, N, step) : TRUE
  <2>1. step \in Steps(X, N)
    BY <1>2 DEF Steps
  <2> HIDE DEF step, X, N
  <2> QED
    BY <1>1, <1>3, <2>1, LoopHistory
<1>5. \A n \in 1 .. N : f[n] = Extended(f[n - 1], s[n])
  <2>1. \A n \in 1 .. N : n - 1 \in 0 .. N
    BY <1>1
  <2> QED
    BY <1>4, <2>1 DEF Histories
<1>6. f = Turn(f)
  <2>1. DOMAIN f = 0 .. N /\ f[0] = <<>>
    BY <1>4 DEF Histories
  <2>2. \A n \in 0 .. N : f[n] = IF n = 0 THEN <<>> ELSE Extended(f[n - 1], s[n])
    <3> HIDE DEF N
    <3> QED
      BY <1>1, <1>5, <2>1
  <2>3. f = [n \in 0 .. N |-> f[n]]
    BY <2>1
  <2> QED
    BY <2>2, <2>3, Zenon
<1>7. path = Turn(path)
  <2> HIDE DEF Turn
  <2> QED
    BY <1>6
<1> HIDE DEF path
<1>8. /\ DOMAIN path = 0 .. N /\ path = [n \in 0 .. N |-> path[n]]
      /\ path[0] = <<>> /\ \A n \in 1 .. N : path[n] = Extended(path[n - 1], s[n])
  <2>1. DOMAIN path = DOMAIN Turn(path) /\ \A n \in 0 .. N : path[n] = Turn(path)[n]
    BY <1>7
  <2>2. path = [n \in 0 .. N |-> path[n]]
    <3>1. Turn(path) = [n \in 0 .. N |-> Turn(path)[n]]
      OBVIOUS
    <3> QED
      BY <1>7, <3>1
  <2>3. \A n \in 0 .. N : path[n] = IF n = 0 THEN <<>> ELSE Extended(path[n - 1], s[n])
    BY <2>1
  <2>4. DOMAIN path = 0 .. N
    BY <2>1
  <2> HIDE DEF Turn, N
  <2>5. path[0] = <<>> /\ \A n \in 1 .. N : path[n] = Extended(path[n - 1], s[n])
    BY <1>1, <2>3
  <2> QED
    BY <2>2, <2>4, <2>5
<1>10. \A n \in 0 .. N : path[n] \in X
  <2> DEFINE T == {n \in Nat : n <= N => path[n] \in X}
  <2>1. 0 \in T
    BY <1>3, <1>8
  <2>2. ASSUME NEW n \in T PROVE n + 1 \in T
    <3> SUFFICES ASSUME n + 1 <= N PROVE path[n + 1] \in X
      OBVIOUS
    <3>1. n + 1 \in 1 .. N /\ (n + 1) - 1 = n /\ path[n] \in X
      BY <1>1
    <3>2. path[n + 1] = Extended(path[n], s[n + 1])
      BY <1>8, <3>1
    <3> QED
      BY <1>1, <3>1, <3>2, ExtendedType
  <2> HIDE DEF T
  <2>3. T = Nat
    BY <2>1, <2>2, SetInduction DEF T
  <2> QED
    BY <1>1, <2>3 DEF T
<1>9. Path(s) = path[N]
  BY DEF Path, path
<1>11. path \in [0 .. N -> X]
  BY <1>8, <1>10
<1> QED
  BY <1>8, <1>9, <1>11 DEF PathRun

\* The frames that the names of a path stand for.
PathOf(s, k, p) ==
  /\ NoRepeat(p)
  /\ \A i \in DOMAIN p : \E j \in 1 .. k : NameOf[s[j]] = p[i]
  /\ k # 0 /\ NameOf[s[1]] # NoName => p # <<>> /\ p[1] = NameOf[s[1]]

LEMMA ExtendedPath ==
  ASSUME NEW s \in Seq(Locations), NEW k \in Nat, k + 1 <= Len(s),
         NEW p \in Seq(Names), PathOf(s, k, p), k = 0 => p = <<>>
  PROVE  PathOf(s, k + 1, Extended(p, s[k + 1]))
<1> DEFINE l == s[k + 1]
           q == Append(p, NameOf[l])
<1>1. l \in Locations /\ Len(s) \in Nat
  BY LenProperties, ElementOfSeq
<1>2. CASE NameOf[l] \in ToSet(p) \cup {NoName}
  <2>1. Extended(p, l) = p
    BY <1>2 DEF Extended
  <2>2. k = 0 => NameOf[s[1]] = NoName
    BY <1>2 DEF ToSet
  <2> QED
    BY <2>1, <2>2 DEF PathOf
<1>3. CASE NameOf[l] \notin ToSet(p) \cup {NoName}
  <2>1. Extended(p, l) = q /\ NameOf[l] \in Names
    BY <1>1, <1>3, ReportAssumption DEF Extended
  <2>2. /\ DOMAIN p = 1 .. Len(p) /\ Len(p) \in Nat
        /\ q \in Seq(Names) /\ Len(q) = Len(p) + 1 /\ DOMAIN q = 1 .. Len(p) + 1
        /\ q[Len(p) + 1] = NameOf[l] /\ \A i \in 1 .. Len(p) : q[i] = p[i]
    BY <2>1, LenProperties, AppendProperties
  <2>3. \A i \in DOMAIN p : p[i] # NameOf[l]
    BY <1>3 DEF ToSet
  <2> HIDE DEF q, l
  <2>4. NoRepeat(q)
    BY <2>2, <2>3 DEF NoRepeat, PathOf
  <2>5. \A i \in DOMAIN q : \E j \in 1 .. k + 1 : NameOf[s[j]] = q[i]
    BY <2>2 DEF PathOf, l
  <2>6. NameOf[s[1]] # NoName => q # <<>> /\ q[1] = NameOf[s[1]]
    <3>1. CASE k = 0
      <4>1. Len(p) = 0 /\ l = s[1]
        BY <3>1, EmptySeq DEF l
      <4>2. q[1] = NameOf[s[1]] /\ Len(q) # 0
        BY <2>2, <4>1
      <4> QED
        BY <4>2, EmptySeq
    <3>2. CASE k # 0 /\ NameOf[s[1]] # NoName
      <4>1. p # <<>> /\ p[1] = NameOf[s[1]]
        BY <3>2 DEF PathOf
      <4>2. Len(p) # 0
        BY <4>1, EmptySeq
      <4>3. q[1] = p[1] /\ Len(q) # 0
        BY <2>2, <4>2
      <4> QED
        BY <4>1, <4>3, EmptySeq
    <3> QED
      BY <3>1, <3>2
  <2> QED
    BY <2>1, <2>4, <2>5, <2>6 DEF PathOf, l
<1> QED
  BY <1>2, <1>3

\* A path has names of its stack only, none of them twice, and the name of the
\* top frame first if it has one.
THEOREM PathFacts ==
  ASSUME NEW s \in Seq(Locations)
  PROVE  Path(s) \in Seq(Names) /\ PathOf(s, Len(s), Path(s))
<1>1. PICK path : PathRun(s, path) /\ Path(s) = path[Len(s)]
  BY PathLoop
<1> DEFINE T == {n \in Nat : n <= Len(s) => /\ PathOf(s, n, path[n])
                                            /\ n = 0 => path[n] = <<>>}
<1>2. Len(s) \in Nat
  BY LenProperties
<1>3. 0 \in T
  BY <1>1 DEF PathRun, PathOf, NoRepeat
<1>4. ASSUME NEW n \in T PROVE n + 1 \in T
  <2> SUFFICES ASSUME n + 1 <= Len(s) PROVE PathOf(s, n + 1, path[n + 1])
    OBVIOUS
  <2>1. /\ n \in Nat /\ n + 1 \in 1 .. Len(s) /\ (n + 1) - 1 = n
        /\ PathOf(s, n, path[n]) /\ (n = 0 => path[n] = <<>>)
    BY <1>2
  <2>2. path[n + 1] = Extended(path[n], s[n + 1]) /\ path[n] \in Seq(Names)
    BY <1>1, <1>2, <2>1 DEF PathRun
  <2> QED
    BY <2>1, <2>2, ExtendedPath
<1> HIDE DEF T
<1>5. T = Nat
  BY <1>3, <1>4, SetInduction DEF T
<1> QED
  BY <1>1, <1>2, <1>5 DEF T, PathRun

-----------------------------------------------------------------------------
(* Counts over sequences: c is the count of each, w the sequences.         *)

TopTerms(c, w, x)  == [i \in DOMAIN c |-> c[i] * Cardinality(Top(w[i], x))]
AtTerms(c, w, x)   == [i \in DOMAIN c |-> c[i] * Cardinality(At(w[i], x))]
CallTerms(c, w, e) == [i \in DOMAIN c |-> c[i] * Cardinality(CallsOf(w[i], e))]

\* What is charged to each member of A, at the top, anywhere, and as the callee
\* of m.
TopSums(c, w, A)     == [x \in A |-> Total(TopTerms(c, w, x))]
AtSums(c, w, A)      == [x \in A |-> Total(AtTerms(c, w, x))]
CallSums(c, w, m, A) == [x \in A |-> Total(CallTerms(c, w, <<m, x>>))]

\* The counts of the sequences that begin with, or have, a member of A.
TopCounts(c, w, A) ==
  [i \in DOMAIN c |-> IF w[i] # <<>> /\ w[i][1] \in A THEN c[i] ELSE 0]
AtCounts(c, w, A) ==
  [i \in DOMAIN c |-> IF \E j \in DOMAIN w[i] : w[i][j] \in A THEN c[i] ELSE 0]

LEMMA Product ==
  ASSUME NEW a \in Nat, NEW b \in Nat
  PROVE  a * b \in Nat /\ a * 0 = 0 /\ a * 1 = a /\ (b >= 1 => a * b >= a)
<1>1. a * b \in Nat /\ a * 0 = 0 /\ a * 1 = a
  OBVIOUS
<1>2. ASSUME b >= 1 PROVE a * b >= a
  <2>1. PICK k \in Nat : b = k + 1
    BY <1>2
  <2>2. a * b = a * k + a /\ a * k \in Nat
    BY <2>1
  <2> QED
    BY <2>2
<1> QED
  BY <1>1, <1>2

LEMMA TopSize ==
  ASSUME NEW X, NEW s \in Seq(X), NEW x
  PROVE  Cardinality(Top(s, x)) = IF s # <<>> /\ s[1] = x THEN 1 ELSE 0
<1>1. DOMAIN s = 1 .. Len(s) /\ Len(s) \in Nat /\ (s # <<>> <=> Len(s) # 0)
  BY LenProperties, EmptySeq
<1>2. CASE s # <<>> /\ s[1] = x
  <2>1. Top(s, x) = {1}
    BY <1>1, <1>2 DEF Top, At
  <2> QED
    BY <1>2, <2>1, FS_Singleton
<1>3. CASE ~(s # <<>> /\ s[1] = x)
  <2>1. Top(s, x) = {}
    BY <1>1, <1>3 DEF Top, At
  <2> QED
    BY <1>3, <2>1, FS_EmptySet
<1> QED
  BY <1>2, <1>3

LEMMA AtSize ==
  ASSUME NEW X, NEW s \in Seq(X), NEW x
  PROVE  /\ Cardinality(At(s, x)) \in Nat
         /\ (\A i \in DOMAIN s : s[i] # x) => Cardinality(At(s, x)) = 0
         /\ (\E i \in DOMAIN s : s[i] = x) => Cardinality(At(s, x)) >= 1
         /\ NoRepeat(s) => Cardinality(At(s, x)) <= 1
         /\ Cardinality(Top(s, x)) <= Cardinality(At(s, x))
<1>1. IsFiniteSet(DOMAIN s)
  BY LenProperties, IntervalSize
<1>2. IsFiniteSet(At(s, x)) /\ Cardinality(At(s, x)) \in Nat
  BY <1>1, FS_Subset, FS_CardinalityType DEF At
<1>3. ASSUME \A i \in DOMAIN s : s[i] # x PROVE Cardinality(At(s, x)) = 0
  BY <1>3, FS_EmptySet DEF At
<1>4. ASSUME \E i \in DOMAIN s : s[i] = x PROVE Cardinality(At(s, x)) >= 1
  <2>1. At(s, x) # {}
    BY <1>4 DEF At
  <2>2. Cardinality(At(s, x)) # 0
    BY <1>2, <2>1, FS_EmptySet
  <2> QED
    BY <1>2, <2>2
<1>5. ASSUME NoRepeat(s) PROVE Cardinality(At(s, x)) <= 1
  <2>1. CASE At(s, x) = {}
    BY <2>1, FS_EmptySet
  <2>2. CASE At(s, x) # {}
    <3>1. PICK i \in DOMAIN s : s[i] = x
      BY <2>2 DEF At
    <3>2. At(s, x) = {i}
      BY <1>5, <3>1 DEF At, NoRepeat
    <3>3. Cardinality(At(s, x)) = 1
      BY <3>2, FS_Singleton
    <3> QED
      BY <3>3
  <2> QED
    BY <2>1, <2>2
<1>6. Cardinality(Top(s, x)) <= Cardinality(At(s, x))
  BY <1>2, FS_Subset DEF Top
<1> QED
  BY <1>2, <1>3, <1>4, <1>5, <1>6

LEMMA CallsSize ==
  ASSUME NEW X, NEW s \in Seq(X), NEW e
  PROVE  Cardinality(CallsOf(s, e)) \in Nat
<1>1. IsFiniteSet(DOMAIN s) /\ CallsOf(s, e) \subseteq DOMAIN s
  BY LenProperties, IntervalSize DEF CallsOf
<1> QED
  BY <1>1, FS_Subset, FS_CardinalityType

LEMMA TermsType ==
  ASSUME NEW I, NEW X, NEW c \in [I -> Nat], NEW w \in [I -> Seq(X)], NEW x
  PROVE  /\ TopTerms(c, w, x) \in [I -> Nat]
         /\ AtTerms(c, w, x) \in [I -> Nat]
         /\ CallTerms(c, w, x) \in [I -> Nat]
         /\ TopCounts(c, w, x) \in [I -> Nat]
         /\ AtCounts(c, w, x) \in [I -> Nat]
<1>1. ASSUME NEW i \in I
      PROVE  /\ c[i] * Cardinality(Top(w[i], x)) \in Nat
             /\ c[i] * Cardinality(At(w[i], x)) \in Nat
             /\ c[i] * Cardinality(CallsOf(w[i], x)) \in Nat
  <2>1. c[i] \in Nat /\ w[i] \in Seq(X)
    OBVIOUS
  <2>2. /\ Cardinality(Top(w[i], x)) \in Nat
        /\ Cardinality(At(w[i], x)) \in Nat
        /\ Cardinality(CallsOf(w[i], x)) \in Nat
    BY <2>1, TopSize, AtSize, CallsSize
  <2> QED
    BY <2>1, <2>2
<1> QED
  BY <1>1 DEF TopTerms, AtTerms, CallTerms, TopCounts, AtCounts

\* What is charged to the members of A, each at the top, is the count of the
\* sequences that begin with one.
LEMMA TopTotal ==
  ASSUME NEW I, IsFiniteSet(I), NEW X, NEW A, IsFiniteSet(A),
         NEW c \in [I -> Nat], NEW w \in [I -> Seq(X)]
  PROVE  Total(TopSums(c, w, A)) = Total(TopCounts(c, w, A))
<1> DEFINE t == [i \in I |-> [x \in A |-> c[i] * Cardinality(Top(w[i], x))]]
<1>1. ASSUME NEW i \in I
      PROVE  /\ t[i] \in [A -> Nat]
             /\ Total(t[i]) = TopCounts(c, w, A)[i]
  <2>1. /\ c[i] \in Nat /\ DOMAIN t[i] = A
        /\ \A x \in A : t[i][x] = IF w[i] # <<>> /\ w[i][1] = x THEN c[i] ELSE 0
    <3>1. ASSUME NEW x \in A
          PROVE  t[i][x] = IF w[i] # <<>> /\ w[i][1] = x THEN c[i] ELSE 0
      <4>1. c[i] \in Nat /\ w[i] \in Seq(X) /\ t[i][x] = c[i] * Cardinality(Top(w[i], x))
        OBVIOUS
      <4> HIDE DEF t
      <4>2. Cardinality(Top(w[i], x)) = IF w[i] # <<>> /\ w[i][1] = x THEN 1 ELSE 0
        BY <4>1, TopSize
      <4> QED
        BY <4>1, <4>2
    <3> QED
      BY <3>1
  <2>2. t[i] = [x \in A |-> t[i][x]]
    OBVIOUS
  <2>3. TopCounts(c, w, A)[i] = IF w[i] # <<>> /\ w[i][1] \in A THEN c[i] ELSE 0
    BY DEF TopCounts
  <2> HIDE DEF t
  <2>4. t[i] \in [A -> Nat]
    BY <2>1, <2>2
  <2>5. CASE w[i] # <<>> /\ w[i][1] \in A
    <3>1. \A x \in A \ {w[i][1]} : t[i][x] = 0
      BY <2>1
    <3>2. Total(t[i]) = t[i][w[i][1]]
      BY <2>4, <2>5, <3>1, TotalSingle
    <3> QED
      BY <2>1, <2>3, <2>4, <2>5, <3>2
  <2>6. CASE ~(w[i] # <<>> /\ w[i][1] \in A)
    <3>1. \A x \in A : t[i][x] = 0
      BY <2>1, <2>6
    <3>2. Total(t[i]) = 0
      BY <2>4, <3>1, TotalZero
    <3> QED
      BY <2>3, <2>4, <2>6, <3>2
  <2> QED
    BY <2>4, <2>5, <2>6
<1>2. t \in Tables(I, A)
  BY <1>1 DEF Tables
<1>3. RowSums(t, I) = TopCounts(c, w, A)
  <2>1. TopCounts(c, w, A) \in [I -> Nat]
    BY TermsType
  <2> HIDE DEF t
  <2> QED
    BY <1>1, <2>1 DEF RowSums
<1>4. ColumnSums(t, I, A) = TopSums(c, w, A)
  BY DEF TopTerms, TopSums, ColumnSums
<1> HIDE DEF t
<1>5. Total(RowSums(t, I)) = Total(ColumnSums(t, I, A))
  BY <1>2, TotalSwap
<1> QED
  BY <1>3, <1>4, <1>5

\* What is charged to the members of A, wherever they are, is no less than the
\* count of the sequences that have one.
LEMMA AtTotal ==
  ASSUME NEW I, IsFiniteSet(I), NEW X, NEW A, IsFiniteSet(A),
         NEW c \in [I -> Nat], NEW w \in [I -> Seq(X)]
  PROVE  Total(AtCounts(c, w, A)) <= Total(AtSums(c, w, A))
<1> DEFINE t == [i \in I |-> [x \in A |-> c[i] * Cardinality(At(w[i], x))]]
<1>1. ASSUME NEW i \in I, NEW x \in A
      PROVE  /\ t[i][x] = c[i] * Cardinality(At(w[i], x))
             /\ t[i][x] \in Nat
             /\ (\E j \in DOMAIN w[i] : w[i][j] = x) => t[i][x] >= c[i]
  <2>1. c[i] \in Nat /\ w[i] \in Seq(X) /\ t[i][x] = c[i] * Cardinality(At(w[i], x))
    OBVIOUS
  <2> DEFINE n == Cardinality(At(w[i], x))
  <2>2. n \in Nat /\ ((\E j \in DOMAIN w[i] : w[i][j] = x) => n >= 1)
    BY <2>1, AtSize
  <2> HIDE DEF n, t
  <2>3. c[i] * n \in Nat /\ (n >= 1 => c[i] * n >= c[i])
    BY <2>1, <2>2, Product
  <2> QED
    BY <2>1, <2>2, <2>3 DEF n
<1>2. t \in Tables(I, A)
  <2>1. t = [i \in I |-> [x \in A |-> t[i][x]]]
    OBVIOUS
  <2> HIDE DEF t
  <2>2. [i \in I |-> [x \in A |-> t[i][x]]] \in [I -> [A -> Nat]]
    BY <1>1
  <2> QED
    BY <2>1, <2>2 DEF Tables
<1>4. ColumnSums(t, I, A) = AtSums(c, w, A)
  BY DEF AtTerms, AtSums, ColumnSums
<1> HIDE DEF t
<1>3. /\ AtCounts(c, w, A) \in [I -> Nat] /\ RowSums(t, I) \in [I -> Nat]
      /\ \A i \in I : AtCounts(c, w, A)[i] <= RowSums(t, I)[i]
  <2>1. AtCounts(c, w, A) \in [I -> Nat]
    BY TermsType
  <2>2. ASSUME NEW i \in I
        PROVE  Total(t[i]) \in Nat /\ AtCounts(c, w, A)[i] <= Total(t[i])
    <3>1. t[i] \in [A -> Nat]
      BY <1>2 DEF Tables
    <3>2. Total(t[i]) \in Nat
      BY <3>1, TotalType
    <3>3. AtCounts(c, w, A)[i] = IF \E j \in DOMAIN w[i] : w[i][j] \in A THEN c[i] ELSE 0
      BY DEF AtCounts
    <3>4. CASE \E j \in DOMAIN w[i] : w[i][j] \in A
      <4>1. PICK x \in A : \E j \in DOMAIN w[i] : w[i][j] = x
        BY <3>4
      <4>2. c[i] <= t[i][x] /\ t[i][x] \in Nat /\ c[i] \in Nat
        BY <1>1, <4>1
      <4>3. t[i][x] <= Total(t[i])
        BY <3>1, TotalMember
      <4> QED
        BY <3>2, <3>3, <3>4, <4>2, <4>3
    <3>5. CASE ~ \E j \in DOMAIN w[i] : w[i][j] \in A
      BY <3>2, <3>3, <3>5
    <3> QED
      BY <3>4, <3>5
  <2> QED
    BY <2>1, <2>2 DEF RowSums
<1>5. Total(AtCounts(c, w, A)) <= Total(RowSums(t, I))
  BY <1>3, TotalMonotone
<1>6. Total(RowSums(t, I)) = Total(ColumnSums(t, I, A))
  BY <1>2, TotalSwap
<1> QED
  BY <1>4, <1>5, <1>6

Distinct(I, w) == \A i \in I : NoRepeat(w[i])

\* Without repetitions a sequence is charged to a member once.
LEMMA AtOnce ==
  ASSUME NEW I, IsFiniteSet(I), NEW X, NEW x,
         NEW c \in [I -> Nat], NEW w \in [I -> Seq(X)], Distinct(I, w)
  PROVE  Total(AtTerms(c, w, x)) <= Total(AtCounts(c, w, {x}))
<1>1. AtTerms(c, w, x) \in [I -> Nat] /\ AtCounts(c, w, {x}) \in [I -> Nat]
  BY TermsType
<1>2. ASSUME NEW i \in I PROVE AtTerms(c, w, x)[i] <= AtCounts(c, w, {x})[i]
  <2>1. c[i] \in Nat /\ w[i] \in Seq(X) /\ NoRepeat(w[i])
    BY DEF Distinct
  <2> DEFINE n == Cardinality(At(w[i], x))
  <2>2. n \in Nat /\ n <= 1 /\ ((\A j \in DOMAIN w[i] : w[i][j] # x) => n = 0)
    BY <2>1, AtSize
  <2>3. /\ AtTerms(c, w, x)[i] = c[i] * n
        /\ AtCounts(c, w, {x})[i] = IF \E j \in DOMAIN w[i] : w[i][j] = x THEN c[i] ELSE 0
    BY DEF AtTerms, AtCounts
  <2> HIDE DEF n
  <2>4. n = 0 \/ n = 1
    BY <2>2
  <2>5. (n = 0 => c[i] * n = 0) /\ (n = 1 => c[i] * n = c[i])
    BY <2>1
  <2> QED
    BY <2>1, <2>2, <2>3, <2>4, <2>5
<1> QED
  BY <1>1, <1>2, TotalMonotone

\* Every frame but the top one is the callee of a call: the count of the paths
\* through m is that of those that begin with m and that of the calls by m.
LEMMA CallsTotal ==
  ASSUME NEW I, IsFiniteSet(I), NEW X, IsFiniteSet(X), NEW m \in X,
         NEW c \in [I -> Nat], NEW w \in [I -> Seq(X)], Distinct(I, w)
  PROVE  Total(AtTerms(c, w, m))
           = Total(TopTerms(c, w, m)) + Total(CallSums(c, w, m, X))
<1> DEFINE t == [i \in I |-> [n \in X |-> c[i] * Cardinality(CallsOf(w[i], <<m, n>>))]]
<1>1. ASSUME NEW i \in I
      PROVE  /\ t[i] \in [X -> Nat]
             /\ AtTerms(c, w, m)[i] = TopTerms(c, w, m)[i] + Total(t[i])
  <2> DEFINE s == w[i]
             calls(n) == CallsOf(s, <<m, n>>)
  <2>1. /\ c[i] \in Nat /\ s \in Seq(X) /\ NoRepeat(s)
        /\ DOMAIN s = 1 .. Len(s) /\ Len(s) \in Nat /\ (s # <<>> <=> Len(s) # 0)
        /\ \A j \in DOMAIN s : s[j] \in X
    BY LenProperties, EmptySeq, ElementOfSeq DEF Distinct
  <2>2. \A n \in X : t[i][n] = c[i] * Cardinality(calls(n))
    OBVIOUS
  <2>3. /\ AtTerms(c, w, m)[i] = c[i] * Cardinality(At(s, m))
        /\ TopTerms(c, w, m)[i] = c[i] * Cardinality(Top(s, m))
    BY DEF AtTerms, TopTerms
  <2>4. t[i] = [n \in X |-> t[i][n]]
    OBVIOUS
  <2>5. \A n \in X : Cardinality(calls(n)) \in Nat
    BY <2>1, CallsSize
  <2> HIDE DEF t, s
  <2>6. t[i] \in [X -> Nat]
    <3>1. \A n \in X : t[i][n] \in Nat
      <4> SUFFICES ASSUME NEW n \in X PROVE t[i][n] \in Nat
        OBVIOUS
      <4>1. Cardinality(calls(n)) \in Nat
        BY <2>5
      <4>2. t[i][n] = c[i] * Cardinality(calls(n))
        BY <2>2
      <4> HIDE DEF calls
      <4> QED
        BY <2>1, <4>1, <4>2, Product
    <3> QED
      BY <2>4, <3>1
  <2>c. ASSUME NEW n \in X
        PROVE  /\ calls(n) = {} => t[i][n] = 0
               /\ \A j : calls(n) = {j} => t[i][n] = c[i]
    <3>1. t[i][n] = c[i] * Cardinality(calls(n))
      BY <2>2
    <3> HIDE DEF calls
    <3>2. calls(n) = {} => Cardinality(calls(n)) = 0
      BY FS_EmptySet
    <3>3. \A j : calls(n) = {j} => Cardinality(calls(n)) = 1
      BY FS_Singleton
    <3> QED
      BY <2>1, <3>1, <3>2, <3>3, Product
  <2>7. Cardinality(Top(s, m)) = IF s # <<>> /\ s[1] = m THEN 1 ELSE 0
    BY <2>1, TopSize
  <2>8. CASE \A j \in DOMAIN s : s[j] # m
    <3>1. \A n \in X : calls(n) = {}
      BY <2>1, <2>8 DEF CallsOf
    <3>2. \A n \in X : t[i][n] = 0
      BY <2>c, <3>1
    <3>3. Total(t[i]) = 0
      BY <2>6, <3>2, TotalZero
    <3>4. Cardinality(At(s, m)) = 0
      BY <2>1, <2>8, AtSize
    <3>5. Cardinality(Top(s, m)) = 0
      <4>1. s # <<>> => 1 \in DOMAIN s
        BY <2>1
      <4> QED
        BY <2>7, <2>8, <4>1
    <3> QED
      BY <2>1, <2>3, <2>6, <3>3, <3>4, <3>5
  <2>9. ASSUME NEW j \in DOMAIN s, s[j] = m
        PROVE  AtTerms(c, w, m)[i] = TopTerms(c, w, m)[i] + Total(t[i])
    <3>1. \A k \in DOMAIN s : s[k] = m => k = j
      BY <2>1, <2>9 DEF NoRepeat
    <3>2. Cardinality(At(s, m)) = 1
      <4>1. At(s, m) = {j}
        BY <2>9, <3>1 DEF At
      <4> QED
        BY <4>1, FS_Singleton
    <3>3. CASE j = 1
      <4>1. \A n \in X : calls(n) = {}
        BY <2>1, <3>1, <3>3 DEF CallsOf
      <4>2. \A n \in X : t[i][n] = 0
        BY <2>c, <4>1
      <4>3. Total(t[i]) = 0
        BY <2>6, <4>2, TotalZero
      <4>4. Cardinality(Top(s, m)) = 1
        BY <2>1, <2>7, <2>9, <3>3
      <4> QED
        BY <2>1, <2>3, <3>2, <4>3, <4>4
    <3>4. CASE j # 1
      <4> DEFINE n0 == s[j - 1]
      <4>1. j \in 2 .. Len(s) /\ n0 \in X
        BY <2>1, <3>4
      <4>2. \A n \in X : calls(n) = IF n = n0 THEN {j} ELSE {}
        BY <2>1, <2>9, <3>1, <4>1 DEF CallsOf
      <4> HIDE DEF n0
      <4>3. t[i][n0] = c[i] /\ \A n \in X \ {n0} : t[i][n] = 0
        BY <2>c, <4>1, <4>2
      <4>4. Total(t[i]) = c[i]
        BY <2>6, <4>1, <4>3, TotalSingle
      <4>5. Cardinality(Top(s, m)) = 0
        BY <2>1, <2>7, <3>1, <3>4
      <4> QED
        BY <2>1, <2>3, <3>2, <4>4, <4>5
    <3> QED
      BY <3>3, <3>4
  <2> QED
    BY <2>6, <2>8, <2>9
<1>2. t \in Tables(I, X)
  BY <1>1 DEF Tables
<1>3. ColumnSums(t, I, X) = CallSums(c, w, m, X)
  BY DEF CallTerms, CallSums, ColumnSums
<1> HIDE DEF t
<1>4. RowSums(t, I) \in [I -> Nat]
  BY <1>1, TotalType DEF RowSums
<1>5. \A i \in I : AtTerms(c, w, m)[i] = TopTerms(c, w, m)[i] + RowSums(t, I)[i]
  BY <1>1 DEF RowSums
<1>6. AtTerms(c, w, m) \in [I -> Nat] /\ TopTerms(c, w, m) \in [I -> Nat]
  BY TermsType
<1>7. Total(AtTerms(c, w, m)) = Total(TopTerms(c, w, m)) + Total(RowSums(t, I))
  <2> DEFINE f == TopTerms(c, w, m)
             g == RowSums(t, I)
             h == AtTerms(c, w, m)
  <2>1. IsSum(I, h, f, g)
    BY <1>4, <1>5, <1>6 DEF IsSum
  <2> HIDE DEF f, g, h
  <2>2. Total(h) = Total(f) + Total(g)
    BY <2>1, TotalSum
  <2> QED
    BY <2>2 DEF f, g, h
<1>8. Total(RowSums(t, I)) = Total(ColumnSums(t, I, X))
  BY <1>2, TotalSwap
<1> QED
  BY <1>3, <1>7, <1>8

-----------------------------------------------------------------------------
(* The choice of the edges.  Nothing about the counts is needed but that   *)
(* the edges are taken in descending order.                                *)

In(m)  == {e \in kept : e[2] = m}
Out(m) == {e \in kept : e[1] = m}

\* The edges printed and those still to be looked at.
EdgesOK ==
  /\ kept \subseteq Pairs /\ IsFiniteSet(kept)
  /\ left \subseteq Pairs /\ left \cap kept = {}
  /\ \A e \in left : edge[e] > 0
  /\ stage \notin {"print", "done"} => kept = {}
  /\ stage = "done" => left = {}

\* The degrees count them.
DegreesOK ==
  /\ indegree \in [Names -> Nat] /\ outdegree \in [Names -> Nat]
  /\ \A m \in Names : /\ indegree[m] = Cardinality(In(m))
                      /\ outdegree[m] = Cardinality(Out(m))
                      /\ indegree[m] <= Max({1, MaxDegree})

\* As long as a method has no edge printed, all those into it are to come.
CallersOK ==
  stage \in {"print", "done"} =>
    \A m \in Names :
      \/ indegree[m] = 0 /\ Into(m) \subseteq left
      \/ \E e \in Into(m) \cap kept : \A f \in Into(m) : edge[e] >= edge[f]

IInv == EdgesOK /\ DegreesOK /\ CallersOK

LEMMA MaxFacts ==
  /\ MaxDegree \in Nat /\ Max({1, MaxDegree}) \in Nat
  /\ Max({1, MaxDegree}) >= 1 /\ Max({1, MaxDegree}) >= MaxDegree
<1>1. MaxDegree \in Nat
  BY ReportAssumption
<1>2. \E x \in {1, MaxDegree} : \A y \in {1, MaxDegree} : x >= y
  <2>1. CASE MaxDegree >= 1
    BY <1>1, <2>1
  <2>2. CASE 1 >= MaxDegree
    BY <1>1, <2>2
  <2> QED
    BY <1>1, <2>1, <2>2
<1>3. Max({1, MaxDegree}) \in {1, MaxDegree}
      /\ \A y \in {1, MaxDegree} : Max({1, MaxDegree}) >= y
  BY <1>2 DEF Max
<1> QED
  BY <1>1, <1>3

LEMMA InitInv == Init => IInv
<1> SUFFICES ASSUME Init PROVE IInv
  OBVIOUS
<1>1. EdgesOK
  BY FS_EmptySet DEF Init, EdgesOK
<1>2. ASSUME NEW m \in Names
      PROVE  /\ indegree[m] = 0 /\ outdegree[m] = 0
             /\ In(m) = {} /\ Out(m) = {}
  BY DEF Init, None, In, Out
<1>3. DegreesOK
  <2>1. indegree \in [Names -> Nat] /\ outdegree \in [Names -> Nat]
    BY DEF Init, None
  <2>2. 0 <= Max({1, MaxDegree})
    BY MaxFacts
  <2> QED
    BY <1>2, <2>1, <2>2, FS_EmptySet DEF DegreesOK
<1>4. CallersOK
  BY DEF Init, CallersOK
<1> QED
  BY <1>1, <1>3, <1>4 DEF IInv

-----------------------------------------------------------------------------
(* The steps.                                                              *)

\* Before and after the edges there is nothing to show.
LEMMA QuietStep ==
  ASSUME IInv, UNCHANGED <<edge, left, kept, indegree, outdegree>>,
         stage' = stage \/ stage \notin {"print", "done"},
         stage' = stage \/ stage' \notin {"print", "done"}
  PROVE  IInv'
BY DEF IInv, EdgesOK, DegreesOK, CallersOK, In, Out, Into

LEMMA CountEdgesStep == ASSUME IInv, CountEdges PROVE IInv'
<1>1. /\ stage = "edges" /\ stage' = "print" /\ kept = {}
      /\ UNCHANGED <<kept, indegree, outdegree>>
      /\ left' = {e \in Pairs : edge'[e] > 0}
  BY DEF CountEdges, IInv, EdgesOK
<1>2. EdgesOK'
  BY <1>1 DEF IInv, EdgesOK
<1>3. DegreesOK'
  BY <1>1 DEF IInv, DegreesOK, In, Out
<1>4. ASSUME NEW m \in Names PROVE indegree'[m] = 0 /\ Into(m)' \subseteq left'
  <2>1. In(m) = {}
    BY <1>1 DEF In
  <2>2. indegree[m] = 0
    BY <2>1, FS_EmptySet DEF IInv, DegreesOK
  <2> QED
    BY <1>1, <2>2 DEF Into
<1> QED
  BY <1>2, <1>3, <1>4 DEF IInv, CallersOK

LEMMA TakeEdgeStep ==
  ASSUME IInv, NEW src \in Names, NEW dst \in Names, TakeEdge(src, dst)
  PROVE  IInv'
<1> DEFINE new == <<src, dst>>
<1>1. /\ stage = "print" /\ new \in left /\ new \notin kept /\ new \in Pairs
      /\ left' = left \ {new} /\ stage' = stage /\ edge' = edge
      /\ \A e \in left : edge[new] >= edge[e]
  BY DEF TakeEdge, IInv, EdgesOK
<1>t. indegree \in [Names -> Nat] /\ outdegree \in [Names -> Nat]
  BY DEF IInv, DegreesOK
<1>2. CASE Keep(src, dst)
  <2>1. /\ kept' = kept \cup {new}
        /\ indegree' = [indegree EXCEPT ![dst] = @ + 1]
        /\ outdegree' = [outdegree EXCEPT ![src] = @ + 1]
    BY <1>2 DEF TakeEdge
  <2>2. EdgesOK'
    <3>1. IsFiniteSet(kept')
      BY <2>1, FS_AddElement DEF IInv, EdgesOK
    <3> QED
      BY <1>1, <2>1, <3>1 DEF IInv, EdgesOK
  <2>3. ASSUME NEW m \in Names
        PROVE  /\ indegree'[m] = Cardinality(In(m)')
               /\ outdegree'[m] = Cardinality(Out(m)')
    <3>1. /\ IsFiniteSet(In(m)) /\ IsFiniteSet(Out(m))
          /\ new \notin In(m) /\ new \notin Out(m)
      BY <1>1, FS_Subset DEF IInv, EdgesOK, In, Out
    <3>2. In(m)' = IF m = dst THEN In(m) \cup {new} ELSE In(m)
      BY <2>1 DEF In
    <3>3. Out(m)' = IF m = src THEN Out(m) \cup {new} ELSE Out(m)
      BY <2>1 DEF Out
    <3>4. /\ Cardinality(In(m) \cup {new}) = Cardinality(In(m)) + 1
          /\ Cardinality(Out(m) \cup {new}) = Cardinality(Out(m)) + 1
      BY <3>1, FS_AddElement
    <3>5. indegree[m] = Cardinality(In(m)) /\ outdegree[m] = Cardinality(Out(m))
      BY DEF IInv, DegreesOK
    <3>6. indegree'[m] = IF m = dst THEN indegree[m] + 1 ELSE indegree[m]
      BY <1>t, <2>1
    <3>7. outdegree'[m] = IF m = src THEN outdegree[m] + 1 ELSE outdegree[m]
      BY <1>t, <2>1
    <3> QED
      BY <3>2, <3>3, <3>4, <3>5, <3>6, <3>7
  <2>4. indegree[dst] + 1 <= Max({1, MaxDegree})
    <3>1. CASE indegree[dst] = 0
      BY <3>1, MaxFacts
    <3>2. CASE indegree[dst] < MaxDegree
      BY <1>t, <3>2, MaxFacts
    <3> QED
      BY <1>2, <3>1, <3>2 DEF Keep
  <2>5. DegreesOK'
    <3>1. indegree' \in [Names -> Nat] /\ outdegree' \in [Names -> Nat]
      BY <1>t, <2>1
    <3>2. \A m \in Names : indegree'[m] <= Max({1, MaxDegree})
      BY <1>t, <2>1, <2>4 DEF IInv, DegreesOK
    <3> QED
      BY <2>3, <3>1, <3>2 DEF DegreesOK
  <2>6. ASSUME NEW m \in Names
        PROVE  \/ indegree'[m] = 0 /\ Into(m)' \subseteq left'
               \/ \E e \in Into(m)' \cap kept' : \A f \in Into(m)' : edge'[e] >= edge'[f]
    <3>1. Into(m)' = Into(m)
      BY <1>1 DEF Into
    <3>2. CASE \E e \in Into(m) \cap kept : \A f \in Into(m) : edge[e] >= edge[f]
      BY <1>1, <2>1, <3>1, <3>2
    <3>3. CASE indegree[m] = 0 /\ Into(m) \subseteq left /\ m # dst
      <4>1. new \notin Into(m)
        BY <3>3 DEF Into
      <4>2. indegree'[m] = 0
        BY <1>t, <2>1, <3>3
      <4> QED
        BY <1>1, <3>1, <3>3, <4>1, <4>2
    <3>4. CASE indegree[m] = 0 /\ Into(m) \subseteq left /\ m = dst
      <4>1. CASE new \in Into(m)
        BY <1>1, <2>1, <3>1, <3>4, <4>1
      <4>2. CASE new \notin Into(m)
        <5>1. edge[new] > 0
          BY <1>1 DEF IInv, EdgesOK
        <5> QED
          BY <1>1, <3>4, <4>2, <5>1 DEF Into
      <4> QED
        BY <4>1, <4>2
    <3> QED
      BY <1>1, <3>2, <3>3, <3>4 DEF IInv, CallersOK
  <2> QED
    BY <2>2, <2>5, <2>6 DEF IInv, CallersOK
<1>3. CASE ~Keep(src, dst)
  <2>1. UNCHANGED <<kept, indegree, outdegree>> /\ indegree[dst] # 0
    BY <1>3 DEF TakeEdge, Keep
  <2>2. EdgesOK' /\ DegreesOK'
    BY <1>1, <2>1 DEF IInv, EdgesOK, DegreesOK, In, Out
  <2>3. ASSUME NEW m \in Names
        PROVE  \/ indegree'[m] = 0 /\ Into(m)' \subseteq left'
               \/ \E e \in Into(m)' \cap kept' : \A f \in Into(m)' : edge'[e] >= edge'[f]
    <3>1. Into(m)' = Into(m) /\ (m # dst => new \notin Into(m))
      BY <1>1 DEF Into
    <3> QED
      BY <1>1, <2>1, <3>1 DEF IInv, CallersOK
  <2> QED
    BY <2>2, <2>3 DEF IInv, CallersOK
<1> QED
  BY <1>2, <1>3

LEMMA FinishStep == ASSUME IInv, Finish PROVE IInv'
<1>1. /\ stage = "print" /\ stage' = "done" /\ left = {}
      /\ UNCHANGED <<edge, left, kept, indegree, outdegree>>
  BY DEF Finish, graph
<1>2. EdgesOK' /\ DegreesOK' /\ CallersOK'
  BY <1>1 DEF IInv, EdgesOK, DegreesOK, CallersOK, In, Out, Into
<1> QED
  BY <1>2 DEF IInv

\* Every step of the choice of edges keeps the degrees those of the edges.
THEOREM StepInvariant == IInv /\ [Next]_vars => IInv'
<1> SUFFICES ASSUME IInv, [Next]_vars PROVE IInv'
  OBVIOUS
<1>1. CASE Analyze \/ Reduce \/ CountNames
  BY <1>1, QuietStep DEF Analyze, Reduce, CountNames, graph
<1>2. CASE SelectNodes
  <2>1. stage = "nodes" /\ stage' \in {"empty", "edges"}
        /\ UNCHANGED <<edge, left, kept, indegree, outdegree>>
    BY <1>2 DEF SelectNodes
  <2> QED
    BY <2>1, QuietStep
<1>3. CASE CountEdges
  BY <1>3, CountEdgesStep
<1>4. ASSUME NEW src \in Names, NEW dst \in Names, TakeEdge(src, dst) PROVE IInv'
  BY <1>4, TakeEdgeStep
<1>5. CASE Finish
  BY <1>5, FinishStep
<1>6. CASE UNCHANGED vars
  BY <1>6, QuietStep DEF vars, graph
<1> QED
  BY <1>1, <1>2, <1>3, <1>4, <1>5, <1>6 DEF Next

\* The degrees are those of the edges throughout.
THEOREM Invariance == Spec => []IInv
BY InitInv, StepInvariant, PTL DEF Spec

\* The degrees that printDot chooses by are those of the graph, and no method
\* gets more callers than optMaxDegree, but for the one there may always be.
THEOREM DegreesCorrect == Spec => []DegreesBounded
<1>1. IInv => DegreesBounded
  BY DEF IInv, DegreesOK, DegreesBounded, In, Out
<1> QED
  BY <1>1, Invariance, PTL

\* Every method that is called in the graph is printed with its main caller.
THEOREM CallerCorrect == Spec => []MainCallerKept
<1>1. ASSUME IInv, stage = "done", NEW m \in node, Into(m) # {}
      PROVE  \E e \in Into(m) \cap kept : \A f \in Into(m) : edge[e] >= edge[f]
  <2>1. left = {}
    BY <1>1 DEF IInv, EdgesOK
  <2>2. m \in Names
    BY <1>1 DEF Into, Pairs
  <2> QED
    BY <1>1, <2>1, <2>2 DEF IInv, CallersOK
<1>2. IInv => MainCallerKept
  BY <1>1 DEF MainCallerKept
<1> QED
  BY <1>2, Invariance, PTL

-----------------------------------------------------------------------------
(* The tables are the sums they are meant to be, from the step that fills  *)
(* them to the end.                                                        *)

Samplings == DOMAIN observations
Count  == [i \in Samplings |-> observations[i].count]
Stacks == [i \in Samplings |-> observations[i].stack]
Paths  == [i \in Samplings |-> Path(observations[i].stack)]

TablesOK ==
  /\ stage # "analyze" =>
       /\ selfCount = [l \in Locations |-> Total(TopTerms(Count, Stacks, l))]
       /\ cumulativeCount = [l \in Locations |-> Total(AtTerms(Count, Stacks, l))]
  /\ stage \notin {"analyze", "reduce"} =>
       reduced = [i \in Samplings |-> [count |-> Count[i], path |-> Paths[i]]]
  /\ Counted =>
       /\ flat = [m \in Names |-> Total(TopTerms(Count, Paths, m))]
       /\ cumulative = [m \in Names |-> Total(AtTerms(Count, Paths, m))]
  /\ stage \in {"print", "done"} =>
       edge = [e \in Pairs |-> IF InGraph(e) THEN Total(CallTerms(Count, Paths, e)) ELSE 0]
  /\ stage \notin {"print", "done"} => left = {}

ReportInv == IInv /\ TypeOK /\ TablesOK /\ NodesAreTop

LEMMA ObservationFacts ==
  ASSUME observations \in Seq(Observation)
  PROVE  /\ IsFiniteSet(Samplings)
         /\ Count \in [Samplings -> Nat]
         /\ Stacks \in [Samplings -> Seq(Locations)]
         /\ Paths \in [Samplings -> Seq(Names)]
         /\ \A i \in Samplings : /\ Stacks[i] # <<>>
                                 /\ PathOf(Stacks[i], Len(Stacks[i]), Paths[i])
<1>1. IsFiniteSet(Samplings)
  BY LenProperties, IntervalSize DEF Samplings
<1>2. \A i \in Samplings : observations[i] \in Observation
  BY ElementOfSeq, LenProperties DEF Samplings
<1>3. ASSUME NEW i \in Samplings
      PROVE  /\ observations[i].count \in Nat
             /\ observations[i].stack \in Seq(Locations)
             /\ observations[i].stack # <<>>
             /\ Path(observations[i].stack) \in Seq(Names)
             /\ PathOf(observations[i].stack, Len(observations[i].stack),
                       Path(observations[i].stack))
  <2>1. /\ observations[i].count \in Nat
        /\ observations[i].stack \in Seq(Locations)
        /\ observations[i].stack # <<>>
    BY <1>2 DEF Observation
  <2> QED
    BY <2>1, PathFacts
<1> QED
  BY <1>1, <1>3 DEF Count, Stacks, Paths

LEMMA SumsType ==
  ASSUME observations \in Seq(Observation), NEW x
  PROVE  /\ Total(TopTerms(Count, Stacks, x)) \in Nat
         /\ Total(AtTerms(Count, Stacks, x)) \in Nat
         /\ Total(TopTerms(Count, Paths, x)) \in Nat
         /\ Total(AtTerms(Count, Paths, x)) \in Nat
         /\ Total(CallTerms(Count, Paths, x)) \in Nat
<1>1. /\ TopTerms(Count, Stacks, x) \in [Samplings -> Nat]
      /\ AtTerms(Count, Stacks, x) \in [Samplings -> Nat]
      /\ TopTerms(Count, Paths, x) \in [Samplings -> Nat]
      /\ AtTerms(Count, Paths, x) \in [Samplings -> Nat]
      /\ CallTerms(Count, Paths, x) \in [Samplings -> Nat]
  BY ObservationFacts, TermsType
<1> QED
  BY <1>1, ObservationFacts, TotalType

LEMMA InitTables == Init => TypeOK /\ TablesOK /\ NodesAreTop
<1> SUFFICES ASSUME Init PROVE TypeOK /\ TablesOK /\ NodesAreTop
  OBVIOUS
<1>1. observations \in Seq(Observation)
  BY ReportAssumption DEF Init
<1>2. <<>> \in Seq([count : Nat, path : Seq(Names)])
  BY EmptySeq
<1>3. TypeOK
  BY <1>1, <1>2 DEF Init, TypeOK, Counts, None
<1> QED
  BY <1>3 DEF Init, TablesOK, NodesAreTop, Counted

\* Steps before the nodes are chosen leave these alone.
LEMMA EarlyNodes ==
  ASSUME stage' \in {"reduce", "count", "nodes"} PROVE NodesAreTop'
BY DEF NodesAreTop

LEMMA AnalyzeTables ==
  ASSUME ReportInv, Analyze PROVE TypeOK' /\ TablesOK' /\ NodesAreTop'
<1> DEFINE selfs == [l \in Locations |-> Total(TopTerms(Count, Stacks, l))]
           alls  == [l \in Locations |-> Total(AtTerms(Count, Stacks, l))]
<1>1. /\ stage = "analyze" /\ stage' = "reduce"
      /\ UNCHANGED <<observations, reduced, flat, cumulative, node, edge, left, kept,
                     indegree, outdegree>>
      /\ selfCount' =
           [l \in Locations |-> SumWhere(observations, LAMBDA o : Top(o.stack, l))]
      /\ cumulativeCount' =
           [l \in Locations |-> SumWhere(observations, LAMBDA o : At(o.stack, l))]
  BY DEF Analyze, graph
<1>2. selfCount' = selfs /\ cumulativeCount' = alls
  BY <1>1 DEF SumWhere, TopTerms, AtTerms, Count, Stacks, Samplings
<1>3. observations \in Seq(Observation)
  BY DEF ReportInv, TypeOK
<1>4. selfs \in Counts(Locations) /\ alls \in Counts(Locations)
  BY <1>3, SumsType DEF Counts
<1> HIDE DEF selfs, alls
<1>5. TypeOK'
  BY <1>1, <1>2, <1>4 DEF ReportInv, TypeOK
<1>6. Count' = Count /\ Stacks' = Stacks
  BY <1>1 DEF Count, Stacks, Samplings
<1>7. TablesOK'
  BY <1>1, <1>2, <1>6 DEF ReportInv, TablesOK, Counted, selfs, alls
<1> QED
  BY <1>1, <1>5, <1>7, EarlyNodes

LEMMA ReduceTables ==
  ASSUME ReportInv, Reduce PROVE TypeOK' /\ TablesOK' /\ NodesAreTop'
<1>1. /\ stage = "reduce" /\ stage' = "count"
      /\ UNCHANGED <<observations, selfCount, cumulativeCount, flat, cumulative, node,
                     edge, left, kept, indegree, outdegree>>
      /\ reduced' = [i \in DOMAIN observations |->
                       [count |-> observations[i].count,
                        path  |-> Path(observations[i].stack)]]
  BY DEF Reduce, graph, tables
<1>2. observations \in Seq(Observation)
  BY DEF ReportInv, TypeOK
<1>3. reduced' = [i \in Samplings |-> [count |-> Count[i], path |-> Paths[i]]]
  BY <1>1 DEF Count, Paths, Samplings
<1>4. reduced' \in Seq([count : Nat, path : Seq(Names)])
  <2>1. \A i \in Samplings : [count |-> Count[i], path |-> Paths[i]]
                               \in [count : Nat, path : Seq(Names)]
    BY <1>2, ObservationFacts
  <2>2. Samplings = 1 .. Len(observations) /\ Len(observations) \in Nat
    BY <1>2, LenProperties DEF Samplings
  <2> DEFINE n == Len(observations)
             R == [count : Nat, path : Seq(Names)]
             q == reduced'
  <2>3. n \in Nat /\ q \in [1 .. n -> R]
    BY <1>3, <2>1, <2>2
  <2> HIDE DEF n, R, q
  <2>4. q \in Seq(R)
    BY <2>3, SeqDef
  <2> QED
    BY <2>4 DEF q, R
<1>5. TypeOK'
  BY <1>1, <1>4 DEF ReportInv, TypeOK
<1>6. Count' = Count /\ Stacks' = Stacks /\ Paths' = Paths /\ Samplings' = Samplings
  BY <1>1 DEF Count, Stacks, Paths, Samplings
<1>7. TablesOK'
  BY <1>1, <1>3, <1>6 DEF ReportInv, TablesOK, Counted
<1> QED
  BY <1>1, <1>5, <1>7, EarlyNodes

LEMMA CountNamesTables ==
  ASSUME ReportInv, CountNames PROVE TypeOK' /\ TablesOK' /\ NodesAreTop'
<1> DEFINE tops == [m \in Names |-> Total(TopTerms(Count, Paths, m))]
           alls == [m \in Names |-> Total(AtTerms(Count, Paths, m))]
<1>1. /\ stage = "count" /\ stage' = "nodes"
      /\ UNCHANGED <<observations, selfCount, cumulativeCount, reduced, node, edge,
                     left, kept, indegree, outdegree>>
      /\ flat' = [m \in Names |-> SumWhere(reduced, LAMBDA r : Top(r.path, m))]
      /\ cumulative' = [m \in Names |-> SumWhere(reduced, LAMBDA r : At(r.path, m))]
  BY DEF CountNames, graph, tables
<1>2. reduced = [i \in Samplings |-> [count |-> Count[i], path |-> Paths[i]]]
  BY <1>1 DEF ReportInv, TablesOK
<1>3. /\ DOMAIN reduced = Samplings /\ DOMAIN Count = Samplings
      /\ \A i \in Samplings : reduced[i].count = Count[i] /\ reduced[i].path = Paths[i]
  BY <1>2 DEF Count
<1>4. flat' = tops /\ cumulative' = alls
  BY <1>1, <1>3 DEF SumWhere, TopTerms, AtTerms
<1>5. observations \in Seq(Observation)
  BY DEF ReportInv, TypeOK
<1>6. tops \in Counts(Names) /\ alls \in Counts(Names)
  BY <1>5, SumsType DEF Counts
<1> HIDE DEF tops, alls
<1>7. TypeOK'
  BY <1>1, <1>4, <1>6 DEF ReportInv, TypeOK
<1>8. Count' = Count /\ Stacks' = Stacks /\ Paths' = Paths /\ Samplings' = Samplings
  BY <1>1 DEF Count, Stacks, Paths, Samplings
<1>9. TablesOK'
  BY <1>1, <1>4, <1>8 DEF ReportInv, TablesOK, Counted, tops, alls
<1> QED
  BY <1>1, <1>7, <1>9, EarlyNodes

LEMMA LimitType ==
  ASSUME TypeOK PROVE NodeLimit \in Nat /\ EdgeLimit \in Nat
<1>1. ASSUME NEW a \in Nat, NEW b \in Nat \ {0} PROVE a \div b \in Nat
  BY <1>1
<1>2. LocalTotal \in Nat
  BY ReportAssumption, TotalType DEF TypeOK, Counts, LocalTotal
<1> QED
  BY <1>1, <1>2, ReportAssumption DEF NodeLimit, EdgeLimit

\* The smaller of two numbers.
LEMMA MinFacts ==
  ASSUME NEW a \in Nat, NEW b \in Nat
  PROVE  Min({a, b}) = IF a <= b THEN a ELSE b
<1>1. \E x \in {a, b} : \A y \in {a, b} : x <= y
  <2>1. CASE a <= b
    BY <2>1
  <2>2. CASE b <= a
    BY <2>2
  <2> QED
    BY <2>1, <2>2
<1>2. Min({a, b}) \in {a, b} /\ \A y \in {a, b} : Min({a, b}) <= y
  BY <1>1 DEF Min
<1> QED
  BY <1>2

LEMMA SelectNodesTables ==
  ASSUME ReportInv, SelectNodes PROVE TypeOK' /\ TablesOK' /\ NodesAreTop'
<1>1. /\ stage = "nodes" /\ stage' \in {"empty", "edges"}
      /\ UNCHANGED <<observations, selfCount, cumulativeCount, reduced, flat,
                     cumulative, edge, left, kept, indegree, outdegree>>
  BY DEF SelectNodes, tables
<1>2. PICK S \in SUBSET Keys : /\ FirstNodes(S)
                               /\ node' = {m \in S : cumulative[m] > NodeLimit}
  BY DEF SelectNodes
<1>3. left = {} /\ kept = {}
  BY <1>1 DEF ReportInv, TablesOK, IInv, EdgesOK
<1>4. TypeOK'
  BY <1>1, <1>2, <1>3 DEF ReportInv, TypeOK, Keys
<1>5. Count' = Count /\ Stacks' = Stacks /\ Paths' = Paths /\ Samplings' = Samplings
  BY <1>1 DEF Count, Stacks, Paths, Samplings
<1>6. TablesOK'
  BY <1>1, <1>5 DEF ReportInv, TablesOK, Counted
<1>7. ASSUME NEW m \in Names \ node', cumulative[m] > NodeLimit
      PROVE  /\ Cardinality(node') = NodeCount
             /\ \A n \in node' : cumulative[n] >= cumulative[m]
  <2>1. NodeLimit \in Nat /\ cumulative \in [Names -> Nat]
    BY LimitType DEF ReportInv, TypeOK, Counts
  <2>2. m \in Keys /\ m \notin S
    BY <1>2, <1>7, <2>1 DEF Keys
  <2>3. IsFiniteSet(Keys) /\ Cardinality(Keys) \in Nat
    <3>1. Keys \subseteq Names
      BY DEF Keys
    <3> QED
      BY <3>1, ReportAssumption, FS_Subset, FS_CardinalityType
  <2>4. Cardinality(S) # Cardinality(Keys)
    BY <2>2, <2>3, FS_Subset
  <2>5. Cardinality(S) = NodeCount
    <3>1. Cardinality(S) = Min({NodeCount, Cardinality(Keys)})
      BY <1>2 DEF FirstNodes
    <3>2. NodeCount \in Nat
      BY ReportAssumption
    <3> QED
      BY <2>3, <2>4, <3>1, <3>2, MinFacts
  <2>6. \A n \in S : cumulative[n] >= cumulative[m]
    BY <1>2, <2>2 DEF FirstNodes
  <2>7. \A n \in S : cumulative[n] \in Nat /\ cumulative[m] \in Nat
    BY <2>1, <2>2 DEF Keys
  <2>8. node' = S
    BY <1>2, <1>7, <2>1, <2>6, <2>7
  <2> QED
    BY <2>5, <2>6, <2>8
<1>8. NodeLimit' = NodeLimit
  BY <1>1 DEF NodeLimit, LocalTotal
<1>9. NodesAreTop'
  BY <1>1, <1>7, <1>8 DEF NodesAreTop
<1> QED
  BY <1>4, <1>6, <1>9

\* Steps after the nodes are chosen leave these alone.
LEMMA LateNodes ==
  ASSUME NodesAreTop, UNCHANGED <<flat, cumulative, node>>,
         stage \in {"edges", "print", "done", "empty"}
  PROVE  NodesAreTop'
BY DEF NodesAreTop, NodeLimit, LocalTotal

LEMMA CountEdgesTables ==
  ASSUME ReportInv, CountEdges PROVE TypeOK' /\ TablesOK' /\ NodesAreTop'
<1> DEFINE calls(e) == Total(CallTerms(Count, Paths, e))
           counts == [e \in Pairs |-> IF InGraph(e) THEN calls(e) ELSE 0]
<1>1. /\ stage = "edges" /\ stage' = "print"
      /\ UNCHANGED <<observations, selfCount, cumulativeCount, reduced, flat,
                     cumulative, node, kept, indegree, outdegree>>
      /\ edge' = [e \in Pairs |-> EdgeCount(e)]
      /\ left' = {e \in Pairs : edge'[e] > 0}
  BY DEF CountEdges, tables
<1>2. reduced = [i \in Samplings |-> [count |-> Count[i], path |-> Paths[i]]]
  BY <1>1 DEF ReportInv, TablesOK
<1>3. /\ DOMAIN reduced = Samplings /\ DOMAIN Count = Samplings
      /\ \A i \in Samplings : reduced[i].count = Count[i] /\ reduced[i].path = Paths[i]
  BY <1>2 DEF Count
<1>4. edge' = counts
  BY <1>1, <1>3 DEF EdgeCount, SumWhere, CallTerms
<1>5. observations \in Seq(Observation)
  BY DEF ReportInv, TypeOK
<1>6. \A e \in Pairs : calls(e) \in Nat
  BY <1>5, SumsType
<1> HIDE DEF calls
<1>7. counts \in Counts(Pairs)
  BY <1>6 DEF Counts
<1>8. left' \subseteq node \X node
  BY <1>1, <1>4 DEF InGraph
<1> HIDE DEF counts
<1>9. TypeOK'
  BY <1>1, <1>4, <1>7, <1>8 DEF ReportInv, TypeOK
<1>10. /\ Count' = Count /\ Stacks' = Stacks /\ Paths' = Paths /\ Samplings' = Samplings
       /\ \A e : InGraph(e)' <=> InGraph(e)
  BY <1>1 DEF Count, Stacks, Paths, Samplings, InGraph
<1>11. TablesOK'
  <2>1. edge' = [e \in Pairs |-> IF InGraph(e)' THEN Total(CallTerms(Count, Paths, e))' ELSE 0]
    BY <1>4, <1>10 DEF counts, calls
  <2> QED
    BY <1>1, <1>10, <2>1 DEF ReportInv, TablesOK, Counted
<1> QED
  BY <1>1, <1>9, <1>11, LateNodes DEF ReportInv

LEMMA TakeEdgeTables ==
  ASSUME ReportInv, NEW src \in Names, NEW dst \in Names, TakeEdge(src, dst)
  PROVE  TypeOK' /\ TablesOK' /\ NodesAreTop'
<1>1. /\ stage = "print" /\ <<src, dst>> \in left
      /\ UNCHANGED <<observations, stage, selfCount, cumulativeCount, reduced, flat,
                     cumulative, node, edge>>
      /\ left' = left \ {<<src, dst>>}
      /\ \/ /\ kept' = kept \cup {<<src, dst>>}
            /\ indegree' = [indegree EXCEPT ![dst] = @ + 1]
            /\ outdegree' = [outdegree EXCEPT ![src] = @ + 1]
         \/ UNCHANGED <<kept, indegree, outdegree>>
  BY DEF TakeEdge, tables
<1>2. /\ indegree' \in Counts(Names) /\ outdegree' \in Counts(Names)
      /\ left' \subseteq node \X node /\ kept' \subseteq node \X node
  <2>1. /\ indegree \in [Names -> Nat] /\ outdegree \in [Names -> Nat]
        /\ left \subseteq node \X node /\ kept \subseteq node \X node
    BY DEF ReportInv, TypeOK, Counts
  <2>2. indegree' \in [Names -> Nat] /\ outdegree' \in [Names -> Nat]
    BY <1>1, <2>1
  <2>3. left' \subseteq node \X node /\ kept' \subseteq node \X node
    BY <1>1, <2>1
  <2> QED
    BY <2>2, <2>3 DEF Counts
<1>3. TypeOK'
  BY <1>1, <1>2 DEF ReportInv, TypeOK
<1>4. Count' = Count /\ Stacks' = Stacks /\ Paths' = Paths /\ Samplings' = Samplings
  BY <1>1 DEF Count, Stacks, Paths, Samplings
<1>5. TablesOK'
  BY <1>1, <1>4 DEF ReportInv, TablesOK, Counted, InGraph
<1> QED
  BY <1>1, <1>3, <1>5, LateNodes DEF ReportInv

LEMMA LastTables ==
  ASSUME ReportInv, Finish \/ UNCHANGED vars PROVE TypeOK' /\ TablesOK' /\ NodesAreTop'
<1>1. /\ UNCHANGED <<observations, selfCount, cumulativeCount, reduced, flat,
                     cumulative, node, edge, left, kept, indegree, outdegree>>
      /\ \/ stage = "print" /\ stage' = "done" /\ left = {}
         \/ UNCHANGED stage
  BY DEF Finish, vars, graph, tables
<1>2. TypeOK'
  BY <1>1 DEF ReportInv, TypeOK
<1>3. Count' = Count /\ Stacks' = Stacks /\ Paths' = Paths /\ Samplings' = Samplings
  BY <1>1 DEF Count, Stacks, Paths, Samplings
<1>4. TablesOK'
  BY <1>1, <1>3 DEF ReportInv, TablesOK, Counted, InGraph
<1>5. NodesAreTop'
  BY <1>1 DEF ReportInv, NodesAreTop, NodeLimit, LocalTotal
<1> QED
  BY <1>2, <1>4, <1>5

\* Throughout, the tables that the report has finished are the sums over the
\* observations that they are to be.
THEOREM ReportInvariance == Spec => []ReportInv
<1>1. Init => ReportInv
  BY InitInv, InitTables DEF ReportInv
<1>2. ASSUME ReportInv, [Next]_vars PROVE ReportInv'
  <2>1. IInv'
    BY <1>2, StepInvariant DEF ReportInv
  <2>2. TypeOK' /\ TablesOK' /\ NodesAreTop'
    BY <1>2, AnalyzeTables, ReduceTables, CountNamesTables, SelectNodesTables,
       CountEdgesTables, TakeEdgeTables, LastTables DEF Next
  <2> QED
    BY <2>1, <2>2 DEF ReportInv
<1> QED
  BY <1>1, <1>2, PTL DEF Spec

-----------------------------------------------------------------------------
(* What the tables say.                                                    *)

\* The variables of the report have their types at every step.
THEOREM ReportTyped == Spec => []TypeOK
BY ReportInvariance, PTL DEF ReportInv

\* A method that the graph leaves out is below the limit, or optNodeCount
\* others have at least its samples.
THEOREM NodesCorrect == Spec => []NodesAreTop
BY ReportInvariance, PTL DEF ReportInv

\* What the tables of a counted profile are.
LEMMA CountedFacts ==
  ASSUME ReportInv, Counted
  PROVE  /\ observations \in Seq(Observation)
         /\ IsFiniteSet(Names) /\ IsFiniteSet(Locations)
         /\ \A m \in Names : /\ flat[m] = Total(TopTerms(Count, Paths, m))
                             /\ cumulative[m] = Total(AtTerms(Count, Paths, m))
         /\ \A l \in Locations :
              /\ selfCount[l] = Total(TopTerms(Count, Stacks, l))
              /\ cumulativeCount[l] = Total(AtTerms(Count, Stacks, l))
<1>1. observations \in Seq(Observation)
  BY DEF ReportInv, TypeOK
<1>2. stage # "analyze"
  BY DEF Counted
<1> QED
  BY <1>1, <1>2, ReportAssumption DEF ReportInv, TablesOK

LEMMA LocalTotalIs ==
  ASSUME ReportInv, Counted
  PROVE  LocalTotal = Total(TopCounts(Count, Paths, Names))
<1>1. flat = TopSums(Count, Paths, Names)
  BY DEF ReportInv, TablesOK, TopSums
<1>2. Total(TopSums(Count, Paths, Names)) = Total(TopCounts(Count, Paths, Names))
  BY CountedFacts, ObservationFacts, TopTotal
<1> QED
  BY <1>1, <1>2 DEF LocalTotal

\* No method has more samples below it than the graph has in all, and none
\* has fewer than those in which it is on top: a recursion counts once.
THEOREM CountedOnce == Spec => []NoDoubleCounting
<1>1. ASSUME ReportInv, Counted, NEW m \in Names
      PROVE  /\ flat[m] <= cumulative[m]
             /\ cumulative[m] <= LocalTotal
             /\ LocalTotal <= Samples
  <2>1. observations \in Seq(Observation)
    BY <1>1, CountedFacts
  <2>2. /\ TopTerms(Count, Paths, m) \in [Samplings -> Nat]
        /\ AtTerms(Count, Paths, m) \in [Samplings -> Nat]
        /\ AtCounts(Count, Paths, {m}) \in [Samplings -> Nat]
        /\ TopCounts(Count, Paths, Names) \in [Samplings -> Nat]
        /\ IsFiniteSet(Samplings) /\ Count \in [Samplings -> Nat]
    BY <2>1, ObservationFacts, TermsType
  <2>3. ASSUME NEW i \in Samplings
        PROVE  TopTerms(Count, Paths, m)[i] <= AtTerms(Count, Paths, m)[i]
    <3> DEFINE a == Cardinality(Top(Paths[i], m))
               b == Cardinality(At(Paths[i], m))
    <3>1. Paths[i] \in Seq(Names) /\ Count[i] \in Nat
      BY <2>1, ObservationFacts
    <3>2. b \in Nat /\ a <= b /\ (a = 0 \/ a = 1)
      BY <3>1, AtSize, TopSize
    <3>3. TopTerms(Count, Paths, m)[i] = Count[i] * a
          /\ AtTerms(Count, Paths, m)[i] = Count[i] * b
      BY <2>2 DEF TopTerms, AtTerms
    <3> HIDE DEF a, b
    <3>4. Count[i] * b \in Nat /\ (b >= 1 => Count[i] * b >= Count[i])
      BY <3>1, <3>2, Product
    <3>5. Count[i] * 0 = 0 /\ Count[i] * 1 = Count[i]
      BY <3>1, Product
    <3> QED
      BY <3>1, <3>2, <3>3, <3>4, <3>5
  <2>4. Total(TopTerms(Count, Paths, m)) <= Total(AtTerms(Count, Paths, m))
    BY <2>2, <2>3, TotalMonotone
  <2>5. Total(AtTerms(Count, Paths, m)) <= Total(AtCounts(Count, Paths, {m}))
    <3>1. Distinct(Samplings, Paths)
      BY <2>1, ObservationFacts DEF PathOf, Distinct
    <3> QED
      BY <2>1, <3>1, ObservationFacts, AtOnce
  <2>6. ASSUME NEW i \in Samplings
        PROVE  AtCounts(Count, Paths, {m})[i] <= TopCounts(Count, Paths, Names)[i]
    <3>1. Paths[i] \in Seq(Names) /\ Count[i] \in Nat
      BY <2>1, ObservationFacts
    <3>2. (\E j \in DOMAIN Paths[i] : TRUE) => Paths[i] # <<>> /\ Paths[i][1] \in Names
      BY <3>1, LenProperties, EmptySeq, ElementOfSeq
    <3> QED
      BY <2>2, <3>1, <3>2 DEF AtCounts, TopCounts
  <2>7. Total(AtCounts(Count, Paths, {m})) <= Total(TopCounts(Count, Paths, Names))
    BY <2>2, <2>6, TotalMonotone
  <2>8. Total(TopCounts(Count, Paths, Names)) <= Total(Count)
    <3>1. \A i \in Samplings : TopCounts(Count, Paths, Names)[i] <= Count[i]
      BY <2>2 DEF TopCounts
    <3> QED
      BY <2>2, <3>1, TotalMonotone
  <2>9. Samples = Total(Count)
    BY DEF Samples, Count, Samplings
  <2>10. /\ flat[m] = Total(TopTerms(Count, Paths, m))
         /\ cumulative[m] = Total(AtTerms(Count, Paths, m))
         /\ LocalTotal = Total(TopCounts(Count, Paths, Names))
    BY <1>1, CountedFacts, LocalTotalIs
  <2>11. /\ Total(AtTerms(Count, Paths, m)) \in Nat
         /\ Total(AtCounts(Count, Paths, {m})) \in Nat
         /\ Total(TopCounts(Count, Paths, Names)) \in Nat
    BY <2>2, TotalType
  <2> QED
    BY <2>4, <2>5, <2>7, <2>8, <2>9, <2>10, <2>11
<1>2. ReportInv => NoDoubleCounting
  BY <1>1 DEF NoDoubleCounting
<1> QED
  BY <1>2, ReportInvariance, PTL

\* The locations of a method.
LocationsOf(m) == {l \in Locations : NameOf[l] = m}

\* The table printed from analyze and the graph charge a method with the same
\* samples on top, as long as the methods have names, and the graph never with
\* more below.
THEOREM ReportsCorrect == Spec => []ReportsAgree
<1>1. ASSUME ReportInv, Counted, NEW m \in Names
      PROVE  cumulative[m] <= Total([l \in LocationsOf(m) |-> cumulativeCount[l]])
  <2> DEFINE A == LocationsOf(m)
  <2>1. observations \in Seq(Observation) /\ IsFiniteSet(A)
    BY <1>1, CountedFacts, FS_Subset DEF LocationsOf
  <2>2. AtSums(Count, Stacks, A) = [l \in A |-> cumulativeCount[l]]
    BY <1>1, CountedFacts DEF AtSums, LocationsOf
  <2> HIDE DEF A
  <2>3. Total(AtCounts(Count, Stacks, A)) <= Total(AtSums(Count, Stacks, A))
    BY <2>1, ObservationFacts, AtTotal
  <2>4. Total(AtTerms(Count, Paths, m)) <= Total(AtCounts(Count, Paths, {m}))
    <3>1. Distinct(Samplings, Paths)
      BY <2>1, ObservationFacts DEF PathOf, Distinct
    <3> QED
      BY <2>1, <3>1, ObservationFacts, AtOnce
  <2>5. /\ AtCounts(Count, Paths, {m}) \in [Samplings -> Nat]
        /\ AtCounts(Count, Stacks, A) \in [Samplings -> Nat]
        /\ AtTerms(Count, Paths, m) \in [Samplings -> Nat]
        /\ IsFiniteSet(Samplings) /\ Count \in [Samplings -> Nat]
    BY <2>1, ObservationFacts, TermsType
  <2>6. ASSUME NEW i \in Samplings
        PROVE  AtCounts(Count, Paths, {m})[i] <= AtCounts(Count, Stacks, A)[i]
    <3> DEFINE s == Stacks[i]
    <3>1. /\ s \in Seq(Locations) /\ Count[i] \in Nat
          /\ \A j \in DOMAIN Paths[i] : \E k \in 1 .. Len(s) : NameOf[s[k]] = Paths[i][j]
      BY <2>1, ObservationFacts DEF PathOf
    <3>2. \A k \in 1 .. Len(s) : k \in DOMAIN s /\ s[k] \in Locations
      BY <3>1, LenProperties, ElementOfSeq
    <3> HIDE DEF s
    <3>3. (\E j \in DOMAIN Paths[i] : Paths[i][j] = m) => \E k \in DOMAIN s : s[k] \in A
      BY <3>1, <3>2 DEF A, LocationsOf
    <3> QED
      BY <2>5, <3>1, <3>3 DEF AtCounts, s
  <2>7. Total(AtCounts(Count, Paths, {m})) <= Total(AtCounts(Count, Stacks, A))
    BY <2>5, <2>6, TotalMonotone
  <2>8. /\ Total(AtTerms(Count, Paths, m)) \in Nat
        /\ Total(AtCounts(Count, Paths, {m})) \in Nat
        /\ Total(AtCounts(Count, Stacks, A)) \in Nat
    BY <2>5, TotalType
  <2>9. Total(AtSums(Count, Stacks, A)) \in Nat
    <3>1. AtSums(Count, Stacks, A) \in [A -> Nat]
      BY <2>1, SumsType DEF AtSums
    <3> QED
      BY <2>1, <3>1, TotalType
  <2>10. cumulative[m] = Total(AtTerms(Count, Paths, m))
    BY <1>1, CountedFacts
  <2>11. cumulative[m] <= Total(AtSums(Count, Stacks, A))
    BY <2>3, <2>4, <2>7, <2>8, <2>9, <2>10
  <2> QED
    BY <2>2, <2>11 DEF A
<1>2. ASSUME ReportInv, Counted, NEW m \in Names,
             \A l \in Locations : cumulativeCount[l] > 0 => NameOf[l] # NoName
      PROVE  flat[m] = Total([l \in LocationsOf(m) |-> selfCount[l]])
  <2> DEFINE A == LocationsOf(m)
  <2>1. observations \in Seq(Observation) /\ IsFiniteSet(A) /\ IsFiniteSet({m})
    BY <1>2, CountedFacts, FS_Subset, FS_Singleton DEF LocationsOf
  <2>2. TopSums(Count, Stacks, A) = [l \in A |-> selfCount[l]]
    BY <1>2, CountedFacts DEF TopSums, LocationsOf
  <2> HIDE DEF A
  <2>3. Total(TopSums(Count, Stacks, A)) = Total(TopCounts(Count, Stacks, A))
    BY <2>1, ObservationFacts, TopTotal
  <2>4. Total(TopSums(Count, Paths, {m})) = Total(TopCounts(Count, Paths, {m}))
    BY <2>1, ObservationFacts, TopTotal
  <2>5. Total(TopSums(Count, Paths, {m})) = Total(TopTerms(Count, Paths, m))
    <3>1. TopSums(Count, Paths, {m}) \in [{m} -> Nat]
      BY <2>1, SumsType DEF TopSums
    <3>2. TopSums(Count, Paths, {m})[m] = Total(TopTerms(Count, Paths, m))
      BY DEF TopSums
    <3>3. \A y \in {m} \ {m} : TopSums(Count, Paths, {m})[y] = 0
      OBVIOUS
    <3>4. m \in {m}
      OBVIOUS
    <3> QED
      BY <3>1, <3>2, <3>3, <3>4, TotalSingle
  <2>6. ASSUME NEW i \in Samplings
        PROVE  TopCounts(Count, Paths, {m})[i] = TopCounts(Count, Stacks, A)[i]
    <3> DEFINE s == Stacks[i]
               p == Paths[i]
    <3>1. /\ s \in Seq(Locations) /\ s # <<>> /\ Count[i] \in Nat
          /\ PathOf(s, Len(s), p) /\ Samplings = DOMAIN Count
      BY <2>1, ObservationFacts
    <3>2. Len(s) \in Nat /\ Len(s) # 0 /\ 1 \in DOMAIN s /\ s[1] \in Locations
      BY <3>1, LenProperties, EmptySeq, ElementOfSeq
    <3>3. /\ TopCounts(Count, Paths, {m})[i] = IF p # <<>> /\ p[1] = m THEN Count[i] ELSE 0
          /\ TopCounts(Count, Stacks, A)[i] = IF s # <<>> /\ s[1] \in A THEN Count[i] ELSE 0
      BY <3>1 DEF TopCounts
    <3>4. CASE Count[i] = 0
      BY <3>3, <3>4
    <3>5. CASE Count[i] # 0
      <4>1. NameOf[s[1]] # NoName
        <5> DEFINE w == AtTerms(Count, Stacks, s[1])
        <5>1. w \in [Samplings -> Nat] /\ IsFiniteSet(Samplings)
          BY <2>1, ObservationFacts, TermsType
        <5>2. w[i] = Count[i] * Cardinality(At(s, s[1]))
          BY <3>1 DEF AtTerms
        <5>3. Cardinality(At(s, s[1])) \in Nat /\ Cardinality(At(s, s[1])) >= 1
          BY <3>1, <3>2, AtSize
        <5> HIDE DEF w, s
        <5>4. w[i] >= Count[i] /\ w[i] \in Nat
          BY <3>1, <5>2, <5>3, Product
        <5>5. w[i] <= Total(w) /\ Total(w) \in Nat
          BY <5>1, TotalMember, TotalType
        <5>6. cumulativeCount[s[1]] = Total(w)
          BY <1>2, <3>2, CountedFacts DEF w
        <5>7. cumulativeCount[s[1]] > 0
          BY <3>1, <3>5, <5>4, <5>5, <5>6
        <5> QED
          BY <1>2, <3>2, <5>7
      <4>2. p # <<>> /\ p[1] = NameOf[s[1]]
        BY <3>1, <3>2, <4>1 DEF PathOf
      <4>3. s[1] \in A <=> NameOf[s[1]] = m
        BY <3>2 DEF A, LocationsOf
      <4> HIDE DEF s, p
      <4> QED
        BY <3>1, <3>3, <4>2, <4>3
    <3> QED
      BY <3>4, <3>5
  <2>7. TopCounts(Count, Paths, {m}) = TopCounts(Count, Stacks, A)
    <3>1. TopCounts(Count, Paths, {m}) \in [Samplings -> Nat]
          /\ TopCounts(Count, Stacks, A) \in [Samplings -> Nat]
      BY <2>1, ObservationFacts, TermsType
    <3> QED
      BY <2>6, <3>1
  <2>8. flat[m] = Total(TopTerms(Count, Paths, m))
    BY <1>2, CountedFacts
  <2>9. flat[m] = Total(TopSums(Count, Stacks, A))
    BY <2>3, <2>4, <2>5, <2>7, <2>8
  <2> QED
    BY <2>2, <2>9 DEF A
<1>3. ReportInv => ReportsAgree
  BY <1>1, <1>2 DEF ReportsAgree, LocationsOf
<1> QED
  BY <1>3, ReportInvariance, PTL

\* In a graph with all its nodes the samples below a method are those on top
\* of it and those of its calls.
THEOREM SamplesConserved == Spec => []CallsConserved
<1>1. ASSUME ReportInv, stage \in {"print", "done"}, node = Keys, NEW m \in Names
      PROVE  cumulative[m] = flat[m] + Total([n \in Names |-> edge[<<m, n>>]])
  <2>1. Counted
    BY <1>1 DEF Counted
  <2>2. observations \in Seq(Observation) /\ IsFiniteSet(Names)
    BY <1>1, <2>1, CountedFacts
  <2>3. ASSUME NEW n \in Names
        PROVE  edge[<<m, n>>] = Total(CallTerms(Count, Paths, <<m, n>>))
    <3> DEFINE e == <<m, n>>
               w == CallTerms(Count, Paths, e)
    <3>1. e \in Pairs /\ edge[e] = IF InGraph(e) THEN Total(w) ELSE 0
      BY <1>1 DEF ReportInv, TablesOK, Pairs
    <3>2. CASE InGraph(e)
      BY <3>1, <3>2
    <3>3. CASE ~InGraph(e)
      <4>1. PICK x \in {m, n} : x \notin Keys
        BY <1>1, <3>3 DEF InGraph
      <4>2. /\ w \in [Samplings -> Nat] /\ IsFiniteSet(Samplings)
            /\ AtTerms(Count, Paths, x) \in [Samplings -> Nat]
        BY <2>2, ObservationFacts, TermsType
      <4>3. Total(AtTerms(Count, Paths, x)) = 0
        <5>1. x \in Names /\ cumulative[x] = Total(AtTerms(Count, Paths, x))
          BY <1>1, <2>1, CountedFacts
        <5>2. Total(AtTerms(Count, Paths, x)) \in Nat
          BY <4>2, TotalType
        <5> QED
          BY <4>1, <5>1, <5>2 DEF Keys
      <4>4. ASSUME NEW i \in Samplings PROVE w[i] = 0
        <5> DEFINE p == Paths[i]
        <5>1. p \in Seq(Names) /\ Count[i] \in Nat /\ DOMAIN Count = Samplings
          BY <2>2, ObservationFacts
        <5>2. /\ AtTerms(Count, Paths, x)[i] = Count[i] * Cardinality(At(p, x))
              /\ w[i] = Count[i] * Cardinality(CallsOf(p, e))
          BY <5>1 DEF AtTerms, CallTerms
        <5>3. AtTerms(Count, Paths, x)[i] = 0
          <6>1. /\ AtTerms(Count, Paths, x)[i] <= Total(AtTerms(Count, Paths, x))
                /\ AtTerms(Count, Paths, x)[i] \in Nat
            BY <4>2, TotalMember
          <6> QED
            BY <4>3, <6>1
        <5> HIDE DEF w, p
        <5>4. CASE CallsOf(p, e) = {}
          <6>1. Cardinality(CallsOf(p, e)) = 0
            BY <5>4, FS_EmptySet
          <6> QED
            BY <5>1, <5>2, <6>1, Product
        <5>5. CASE CallsOf(p, e) # {}
          <6>1. \E j \in DOMAIN p : p[j] = x
            <7>1. PICK j \in 2 .. Len(p) : p[j] = m /\ p[j - 1] = n
              BY <5>5 DEF CallsOf
            <7>2. j \in DOMAIN p /\ j - 1 \in DOMAIN p
              BY <5>1, <7>1, LenProperties
            <7> QED
              BY <4>1, <7>1, <7>2
          <6>2. Cardinality(At(p, x)) \in Nat /\ Cardinality(At(p, x)) >= 1
            BY <5>1, <6>1, AtSize
          <6>3. Count[i] * Cardinality(At(p, x)) >= Count[i]
            BY <5>1, <6>2, Product
          <6>4. Count[i] = 0
            BY <5>1, <5>2, <5>3, <6>3
          <6>5. Cardinality(CallsOf(p, e)) \in Nat
            BY <5>1, CallsSize
          <6> QED
            BY <5>2, <6>4, <6>5
        <5> QED
          BY <5>4, <5>5
      <4> HIDE DEF w
      <4>5. Total(w) = 0
        BY <4>2, <4>4, TotalZero
      <4> QED
        BY <3>1, <3>3, <4>5 DEF w
    <3> QED
      BY <3>2, <3>3
  <2>4. [n \in Names |-> edge[<<m, n>>]] = CallSums(Count, Paths, m, Names)
    BY <2>3 DEF CallSums
  <2>5. Distinct(Samplings, Paths)
    BY <2>2, ObservationFacts DEF PathOf, Distinct
  <2>6. Total(AtTerms(Count, Paths, m))
          = Total(TopTerms(Count, Paths, m)) + Total(CallSums(Count, Paths, m, Names))
    <3>1. /\ IsFiniteSet(Samplings) /\ Count \in [Samplings -> Nat]
          /\ Paths \in [Samplings -> Seq(Names)]
      BY <2>2, ObservationFacts
    <3> QED
      BY <2>2, <2>5, <3>1, CallsTotal
  <2>7. /\ flat[m] = Total(TopTerms(Count, Paths, m))
        /\ cumulative[m] = Total(AtTerms(Count, Paths, m))
    BY <1>1, <2>1, CountedFacts
  <2> QED
    BY <2>4, <2>6, <2>7
<1>2. ReportInv => CallsConserved
  BY <1>1 DEF CallsConserved
<1> QED
  BY <1>2, ReportInvariance, PTL
=============================================================================
