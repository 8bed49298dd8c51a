--------------------------- MODULE CountingTheorems ---------------------------
(***************************************************************************)
(* What the proofs about counts and loops rest on: induction over numbers  *)
(* and over finite sets, with the set of the cases that hold in the place  *)
(* of a predicate; loops written as recursive functions; and the laws of   *)
(* sums.                                                                   *)
(***************************************************************************)
EXTENDS Counting, FiniteSetTheorems, WellFoundedInduction, TLAPS

-----------------------------------------------------------------------------
(* Induction.                                                              *)

\* A set of numbers has a least element.
LEMMA Least ==
  ASSUME NEW T, T \subseteq Nat, T # {}
  PROVE  \E x \in T : \A y \in T : x <= y
<1> DEFINE R == OpToRel(<, Nat)
<1>1. IsWellFoundedOn(R, Nat)
  BY NatLessThanWellFounded
<1>2. \A x, y \in Nat : x < y => <<x, y>> \in R
  BY DEF OpToRel
<1> HIDE DEF R
<1>3. \E x \in T : \A y \in T : ~ (<<y, x>> \in R)
  BY <1>1, WFMin
<1>4. PICK x \in T : \A y \in T : ~ (<<y, x>> \in R)
  BY <1>3
<1>5. ASSUME NEW y \in T PROVE x <= y
  <2>1. ~ (y < x)
    BY <1>2, <1>4
  <2> QED
    BY <2>1
<1> QED
  BY <1>5

\* What holds of 0 and, with a number, of the next one holds of all.
THEOREM SetInduction ==
  ASSUME NEW T, T \subseteq Nat, 0 \in T, \A n \in T : n + 1 \in T
  PROVE  T = Nat
<1> SUFFICES ASSUME Nat \ T # {} PROVE FALSE
  OBVIOUS
<1>1. PICK x \in Nat \ T : \A y \in Nat \ T : x <= y
  BY Least
<1>2. x # 0 /\ x - 1 \in Nat
  BY <1>1
<1>3. x - 1 \in T
  BY <1>1, <1>2
<1> QED
  BY <1>1, <1>2, <1>3

\* What holds of the empty set and, with a set, of the set with one element
\* more holds of the whole of a finite set.
THEOREM FiniteInduction ==
  ASSUME NEW S, IsFiniteSet(S), NEW C, {} \in C,
         \A A \in C, x \in S : A \subseteq S /\ x \notin A => A \cup {x} \in C
  PROVE  S \in C
<1> DEFINE T == {n \in Nat : \A A \in SUBSET S : Cardinality(A) = n => A \in C}
<1>1. 0 \in T
  <2>1. ASSUME NEW A \in SUBSET S, Cardinality(A) = 0 PROVE A = {}
    BY <2>1, FS_Subset, FS_EmptySet
  <2> QED
    BY <2>1
<1>2. ASSUME NEW n \in T PROVE n + 1 \in T
  <2> SUFFICES ASSUME NEW A \in SUBSET S, Cardinality(A) = n + 1 PROVE A \in C
    OBVIOUS
  <2>1. IsFiniteSet(A)
    BY FS_Subset
  <2>2. A # {}
    BY FS_EmptySet
  <2>3. PICK x \in A : TRUE
    BY <2>2
  <2>4. Cardinality(A \ {x}) = n
    <3>1. Cardinality(A \ {x}) = Cardinality(A) - 1
      BY <2>1, <2>3, FS_RemoveElement
    <3>2. n \in Nat
      OBVIOUS
    <3> HIDE DEF T
    <3> QED
      BY <3>1, <3>2
  <2>5. A \ {x} \in C
    BY <2>4
  <2> QED
    BY <2>5
<1> HIDE DEF T
<1>3. T = Nat
  BY <1>1, <1>2, SetInduction DEF T
<1>4. Cardinality(S) \in Nat
  BY FS_CardinalityType
<1> QED
  BY <1>3, <1>4 DEF T

\* The turns of a loop that works on a value of X, and what it has after each
\* of them when it begins with b.
Steps(X, N) == [1 .. N -> [X -> X]]

Histories(X, b, N, step) ==
  {f \in [0 .. N -> X] : f[0] = b /\ \A n \in 1 .. N : f[n] = step[n][f[n - 1]]}

\* A loop has a history.
THEOREM LoopHistory ==
  ASSUME NEW X, NEW b \in X, NEW N \in Nat, NEW step \in Steps(X, N)
  PROVE  Histories(X, b, N, step) # {}
<1> DEFINE Runs(k) == Histories(X, b, k, step)
           T == {k \in Nat : k <= N => Runs(k) # {}}
<1>1. 0 \in T
  <2>1. [n \in 0 .. 0 |-> b] \in Runs(0)
    BY DEF Histories
  <2> QED
    BY <2>1
<1>2. ASSUME NEW k \in T PROVE k + 1 \in T
  <2> SUFFICES ASSUME k + 1 <= N PROVE Runs(k + 1) # {}
    OBVIOUS
  <2>1. PICK f \in Runs(k) : TRUE
    OBVIOUS
  <2> DEFINE g == [n \in 0 .. k + 1 |-> IF n = k + 1 THEN step[k + 1][f[k]] ELSE f[n]]
  <2>2. step[k + 1][f[k]] \in X
    BY <2>1 DEF Histories, Steps
  <2>3. g \in [0 .. k + 1 -> X] /\ g[0] = b
    BY <2>1, <2>2 DEF Histories
  <2>4. ASSUME NEW n \in 1 .. k + 1 PROVE g[n] = step[n][g[n - 1]]
    BY <2>1 DEF Histories
  <2>5. g \in Runs(k + 1)
    BY <2>3, <2>4 DEF Histories
  <2> QED
    BY <2>5
<1> HIDE DEF T
<1>3. T = Nat
  BY <1>1, <1>2, SetInduction DEF T
<1> QED
  BY <1>3 DEF T

-----------------------------------------------------------------------------
(* Sums.                                                                   *)

LEMMA IntervalSize ==
  ASSUME NEW n \in Nat PROVE IsFiniteSet(1 .. n) /\ Cardinality(1 .. n) = n
<1>1. IsFiniteSet(1 .. n) /\ Cardinality(1 .. n) = IF 1 > n THEN 0 ELSE n - 1 + 1
  BY FS_Interval
<1> QED
  BY <1>1

\* The sum over nothing.
LEMMA TotalEmpty ==
  ASSUME NEW w, DOMAIN w = {}
  PROVE  IsFiniteSet(Cells(w)) /\ Total(w) = 0
<1>1. Cells(w) = {}
  BY DEF Cells
<1> QED
  BY <1>1, FS_EmptySet DEF Total

\* One term more.
LEMMA TotalAdd ==
  ASSUME NEW w, NEW v, NEW x, x \notin DOMAIN w, v[x] \in Nat,
         DOMAIN v = DOMAIN w \cup {x},
         \A y \in DOMAIN w : v[y] = w[y], IsFiniteSet(Cells(w))
  PROVE  IsFiniteSet(Cells(v)) /\ Total(v) = Total(w) + v[x]
<1> DEFINE m == v[x]
           U == Cells(w)
           N == {x} \X (1 .. m)
<1>1. Cells(v) = U \cup N
  BY DEF Cells
<1>2. U \cap N = {}
  BY DEF Cells
<1>3. IsFiniteSet(N) /\ Cardinality(N) = m
  <2>1. IsFiniteSet({x}) /\ Cardinality({x}) = 1
    BY FS_Singleton
  <2>2. IsFiniteSet(1 .. m) /\ Cardinality(1 .. m) = m
    BY IntervalSize
  <2>3. IsFiniteSet(N) /\ Cardinality(N) = Cardinality({x}) * Cardinality(1 .. m)
    BY <2>1, <2>2, FS_Product
  <2> QED
    BY <2>1, <2>2, <2>3
<1> HIDE DEF U, N
<1>4. IsFiniteSet(U) /\ Cardinality(U) \in Nat
  BY FS_CardinalityType DEF U
<1>5. /\ IsFiniteSet(U \cup N)
      /\ Cardinality(U \cup N) = Cardinality(U) + Cardinality(N) - Cardinality(U \cap N)
  BY <1>3, <1>4, FS_Union
<1>6. Cardinality(U \cup N) = Cardinality(U) + m
  <2>1. Cardinality(U \cap N) = 0
    BY <1>2, FS_EmptySet
  <2> HIDE DEF m
  <2> QED
    BY <1>3, <1>4, <1>5, <2>1 DEF m
<1> QED
  BY <1>1, <1>5, <1>6 DEF Total, U

\* The sum over a finite set is a number.
LEMMA TotalType ==
  ASSUME NEW D, IsFiniteSet(D), NEW w \in [D -> Nat]
  PROVE  IsFiniteSet(Cells(w)) /\ Total(w) \in Nat
<1> DEFINE Part(A) == [x \in A |-> w[x]]
           C == {A \in SUBSET D : IsFiniteSet(Cells(Part(A)))}
<1>1. {} \in C
  BY TotalEmpty
<1>2. ASSUME NEW A \in C, NEW x \in D, x \notin A PROVE A \cup {x} \in C
  <2>1. IsFiniteSet(Cells(Part(A)))
    OBVIOUS
  <2>2. DOMAIN Part(A) = A /\ DOMAIN Part(A \cup {x}) = A \cup {x}
    OBVIOUS
  <2>3. Part(A \cup {x})[x] \in Nat /\ \A y \in A : Part(A \cup {x})[y] = Part(A)[y]
    OBVIOUS
  <2>4. IsFiniteSet(Cells(Part(A \cup {x})))
    <3> HIDE DEF Part
    <3> QED
      BY <1>2, <2>1, <2>2, <2>3, TotalAdd
  <2> QED
    BY <2>4
<1> HIDE DEF C
<1>3. D \in C
  BY <1>1, <1>2, FiniteInduction
<1>4. Part(D) = w
  OBVIOUS
<1>5. IsFiniteSet(Cells(w))
  BY <1>3, <1>4 DEF C
<1> QED
  BY <1>5, FS_CardinalityType DEF Total

\* The sum grows with the terms.
LEMMA TotalMonotone ==
  ASSUME NEW D, IsFiniteSet(D), NEW v \in [D -> Nat], NEW w \in [D -> Nat],
         \A x \in D : v[x] <= w[x]
  PROVE  Total(v) <= Total(w)
<1>1. IsFiniteSet(Cells(w))
  BY TotalType
<1>2. Cells(v) \subseteq Cells(w)
  <2>1. \A x \in D : 1 .. v[x] \subseteq 1 .. w[x]
    OBVIOUS
  <2> QED
    BY <2>1 DEF Cells
<1> QED
  BY <1>1, <1>2, FS_Subset DEF Total

\* No term is greater than the sum.
LEMMA TotalMember ==
  ASSUME NEW D, IsFiniteSet(D), NEW w \in [D -> Nat], NEW x \in D
  PROVE  w[x] <= Total(w)
<1> DEFINE N == {x} \X (1 .. w[x])
<1>1. IsFiniteSet(Cells(w))
  BY TotalType
<1>2. N \subseteq Cells(w)
  BY DEF Cells
<1>3. Cardinality(N) = w[x]
  <2>1. IsFiniteSet({x}) /\ Cardinality({x}) = 1
    BY FS_Singleton
  <2>2. IsFiniteSet(1 .. w[x]) /\ Cardinality(1 .. w[x]) = w[x]
    BY IntervalSize
  <2>3. Cardinality(N) = Cardinality({x}) * Cardinality(1 .. w[x])
    BY <2>1, <2>2, FS_Product
  <2> QED
    BY <2>1, <2>2, <2>3
<1> HIDE DEF N
<1>4. Cardinality(N) <= Cardinality(Cells(w))
  BY <1>1, <1>2, FS_Subset
<1> QED
  BY <1>3, <1>4 DEF Total

\* A sum with one term that counts.
LEMMA TotalSingle ==
  ASSUME NEW D, NEW w \in [D -> Nat], NEW x \in D, \A y \in D \ {x} : w[y] = 0
  PROVE  Total(w) = w[x]
<1> DEFINE N == {x} \X (1 .. w[x])
<1>1. Cells(w) = N
  <2>1. \A y \in D \ {x} : {y} \X (1 .. w[y]) = {}
    OBVIOUS
  <2> QED
    BY <2>1 DEF Cells
<1>2. IsFiniteSet({x}) /\ Cardinality({x}) = 1
  BY FS_Singleton
<1>3. IsFiniteSet(1 .. w[x]) /\ Cardinality(1 .. w[x]) = w[x]
  BY IntervalSize
<1>4. Cardinality(N) = Cardinality({x}) * Cardinality(1 .. w[x])
  BY <1>2, <1>3, FS_Product
<1> HIDE DEF N
<1> QED
  BY <1>1, <1>2, <1>3, <1>4 DEF Total

\* A sum of which no term counts.
LEMMA TotalZero ==
  ASSUME NEW D, NEW w \in [D -> Nat], \A y \in D : w[y] = 0
  PROVE  Total(w) = 0
<1>1. \A y \in D : {y} \X (1 .. w[y]) = {}
  OBVIOUS
<1>2. Cells(w) = {}
  BY <1>1 DEF Cells
<1> QED
  BY <1>2, FS_EmptySet DEF Total

\* One term that is one greater, among infinitely many perhaps.
LEMMA CellsUp ==
  ASSUME NEW D, NEW w \in [D -> Nat], NEW v \in [D -> Nat], NEW x \in D,
         v[x] = w[x] + 1, \A y \in D : y # x => v[y] = w[y],
         IsFiniteSet(Cells(w))
  PROVE  IsFiniteSet(Cells(v)) /\ Total(v) = Total(w) + 1
<1> DEFINE new == <<x, v[x]>>
<1>1. Cells(v) = Cells(w) \cup {new}
  <2>1. 1 .. v[x] = (1 .. w[x]) \cup {v[x]}
    OBVIOUS
  <2>2. \A y \in D : {y} \X (1 .. v[y]) = IF y = x THEN ({y} \X (1 .. w[y])) \cup {new}
                                          ELSE {y} \X (1 .. w[y])
    BY <2>1
  <2>3. DOMAIN v = D /\ DOMAIN w = D
    OBVIOUS
  <2> HIDE DEF new
  <2> QED
    BY <2>2, <2>3 DEF Cells
<1>2. new \notin Cells(w)
  BY DEF Cells
<1> HIDE DEF new
<1>3. /\ IsFiniteSet(Cells(w) \cup {new})
      /\ Cardinality(Cells(w) \cup {new}) = Cardinality(Cells(w)) + 1
  BY <1>2, FS_AddElement
<1> QED
  BY <1>1, <1>3 DEF Total

-----------------------------------------------------------------------------
(* Sums of sums.                                                           *)

\* The terms whose arguments are in A.
Part(w, A) == [x \in A |-> w[x]]

LEMMA PartNone == ASSUME NEW w PROVE Total(Part(w, {})) = 0
BY TotalEmpty DEF Part

LEMMA PartAll ==
  ASSUME NEW D, NEW R, NEW w \in [D -> R] PROVE Part(w, D) = w
BY DEF Part

LEMMA PartAdd ==
  ASSUME NEW D, IsFiniteSet(D), NEW w \in [D -> Nat],
         NEW A \in SUBSET D, NEW x \in D, x \notin A
  PROVE  Total(Part(w, A \cup {x})) = Total(Part(w, A)) + w[x]
<1>1. Part(w, A) \in [A -> Nat] /\ IsFiniteSet(A)
  BY FS_Subset DEF Part
<1>2. IsFiniteSet(Cells(Part(w, A)))
  BY <1>1, TotalType
<1>3. /\ DOMAIN Part(w, A) = A /\ DOMAIN Part(w, A \cup {x}) = A \cup {x}
      /\ Part(w, A \cup {x})[x] = w[x]
      /\ \A y \in A : Part(w, A \cup {x})[y] = Part(w, A)[y]
  BY DEF Part
<1>4. w[x] \in Nat
  OBVIOUS
<1>5. Total(Part(w, A \cup {x})) = Total(Part(w, A)) + Part(w, A \cup {x})[x]
  BY <1>2, <1>3, <1>4, TotalAdd
<1> QED
  BY <1>3, <1>5

LEMMA PartType ==
  ASSUME NEW D, IsFiniteSet(D), NEW w \in [D -> Nat], NEW A \in SUBSET D
  PROVE  Total(Part(w, A)) \in Nat
<1>1. Part(w, A) \in [A -> Nat] /\ IsFiniteSet(A)
  BY FS_Subset DEF Part
<1> QED
  BY <1>1, TotalType

IsSum(D, h, f, g) ==
  /\ f \in [D -> Nat] /\ g \in [D -> Nat] /\ h \in [D -> Nat]
  /\ \A x \in D : h[x] = f[x] + g[x]

\* Sums are added term by term.
THEOREM TotalSum ==
  ASSUME NEW D, IsFiniteSet(D), NEW f, NEW g, NEW h, IsSum(D, h, f, g)
  PROVE  Total(h) = Total(f) + Total(g)
<1> USE DEF IsSum
<1> DEFINE C == {A \in SUBSET D :
                   Total(Part(h, A)) = Total(Part(f, A)) + Total(Part(g, A))}
<1>1. {} \in C
  BY PartNone
<1>2. ASSUME NEW A \in C, NEW x \in D, x \notin A PROVE A \cup {x} \in C
  <2>1. /\ Total(Part(f, A \cup {x})) = Total(Part(f, A)) + f[x]
        /\ Total(Part(g, A \cup {x})) = Total(Part(g, A)) + g[x]
        /\ Total(Part(h, A \cup {x})) = Total(Part(h, A)) + h[x]
    BY <1>2, PartAdd
  <2>2. Total(Part(f, A)) \in Nat /\ Total(Part(g, A)) \in Nat
    BY PartType
  <2>3. h[x] = f[x] + g[x] /\ f[x] \in Nat /\ g[x] \in Nat
    OBVIOUS
  <2>4. Total(Part(h, A)) = Total(Part(f, A)) + Total(Part(g, A))
    OBVIOUS
  <2>5. Total(Part(h, A \cup {x})) = Total(Part(f, A \cup {x})) + Total(Part(g, A \cup {x}))
    BY <2>1, <2>2, <2>3, <2>4
  <2> QED
    BY <2>5
<1> HIDE DEF C
<1>3. D \in C
  BY <1>1, <1>2, FiniteInduction
<1>4. Part(f, D) = f /\ Part(g, D) = g /\ Part(h, D) = h
  BY PartAll
<1> QED
  BY <1>3, <1>4 DEF C

\* Numbers in rows D and columns E.
Tables(D, E) == [D -> [E -> Nat]]

RowSums(t, D)       == [x \in D |-> Total(t[x])]
ColumnSums(t, D, E) == [y \in E |-> Total([x \in D |-> t[x][y]])]

\* A table has the same sum by rows and by columns.
THEOREM TotalSwap ==
  ASSUME NEW D, IsFiniteSet(D), NEW E, IsFiniteSet(E), NEW t \in Tables(D, E)
  PROVE  Total(RowSums(t, D)) = Total(ColumnSums(t, D, E))
<1> USE DEF Tables
<1> DEFINE row == [x \in D |-> Total(t[x])]
           column == [y \in E |-> [x \in D |-> t[x][y]]]
           Columns(A) == [y \in E |-> Total(Part(column[y], A))]
           C == {A \in SUBSET D : Total(Part(row, A)) = Total(Columns(A))}
<1>t. row \in [D -> Nat] /\ column \in [E -> [D -> Nat]]
  BY TotalType
<1>d. /\ \A x \in D : row[x] = Total(t[x])
      /\ \A y \in E, x \in D : column[y][x] = t[x][y]
  OBVIOUS
<1> HIDE DEF row, column
<1>c. ASSUME NEW A \in SUBSET D PROVE Columns(A) \in [E -> Nat]
  <2>1. \A y \in E : Total(Part(column[y], A)) \in Nat
    BY <1>t, PartType
  <2> QED
    BY <2>1
<1>1. {} \in C
  <2>1. \A y \in E : Columns({})[y] = 0
    BY PartNone
  <2>2. Columns({}) \in [E -> Nat]
    BY <1>c
  <2> HIDE DEF Columns
  <2>3. Total(Columns({})) = 0
    BY <2>1, <2>2, TotalZero
  <2> QED
    BY <2>3, PartNone
<1>2. ASSUME NEW A \in C, NEW x \in D, x \notin A PROVE A \cup {x} \in C
  <2>1. Total(Part(row, A \cup {x})) = Total(Part(row, A)) + Total(t[x])
    <3>1. row[x] = Total(t[x])
      BY <1>d
    <3>2. A \in SUBSET D /\ x \notin A /\ row \in [D -> Nat]
      BY <1>2, <1>t
    <3> HIDE DEF C
    <3>3. Total(Part(row, A \cup {x})) = Total(Part(row, A)) + row[x]
      BY <3>2, PartAdd
    <3> QED
      BY <3>1, <3>3
  <2>2. ASSUME NEW y \in E
        PROVE  Columns(A \cup {x})[y] = Columns(A)[y] + t[x][y]
    <3>1. column[y] \in [D -> Nat] /\ column[y][x] = t[x][y]
      BY <1>t, <1>d
    <3>2. Total(Part(column[y], A \cup {x})) = Total(Part(column[y], A)) + column[y][x]
      BY <1>2, <3>1, PartAdd
    <3> QED
      BY <3>1, <3>2
  <2>3. Columns(A) \in [E -> Nat] /\ Columns(A \cup {x}) \in [E -> Nat]
    BY <1>c
  <2>4. t[x] \in [E -> Nat] /\ Total(Part(row, A)) = Total(Columns(A))
    OBVIOUS
  <2> HIDE DEF Columns, C
  <2>5. Total(Columns(A \cup {x})) = Total(Columns(A)) + Total(t[x])
    <3> DEFINE f == Columns(A)
               g == t[x]
               h == Columns(A \cup {x})
    <3>1. IsSum(E, h, f, g)
      BY <2>2, <2>3, <2>4 DEF IsSum
    <3> HIDE DEF f, g, h
    <3>2. Total(h) = Total(f) + Total(g)
      BY <3>1, TotalSum
    <3> QED
      BY <3>2 DEF f, g, h
  <2>6. Total(Part(row, A \cup {x})) = Total(Columns(A \cup {x}))
    BY <2>1, <2>4, <2>5
  <2> QED
    BY <2>6 DEF C
<1> HIDE DEF C
<1>3. D \in C
  BY <1>1, <1>2, FiniteInduction
<1>4. Part(row, D) = row /\ \A y \in E : Part(column[y], D) = column[y]
  BY <1>t, PartAll
<1>5. Columns(D) = ColumnSums(t, D, E)
  BY <1>4 DEF column, ColumnSums
<1> HIDE DEF Columns
<1>6. Total(row) = Total(Columns(D))
  BY <1>3, <1>4 DEF C
<1> QED
  BY <1>5, <1>6 DEF row, RowSums
=============================================================================
