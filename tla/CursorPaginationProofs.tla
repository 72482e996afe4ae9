------------------------- MODULE CursorPaginationProofs -------------------------
(* Proofs about CursorPagination, for any number of order columns in every mix   *)
(* of directions, every finite table, every page size and any number of writes: *)
(* next pages follow on exactly, and a walk by next links misses no row.         *)
EXTENDS CursorPagination, FiniteSetTheorems, SequenceTheorems, TLAPS

Ways == {"asc", "desc"}

(* A set of naturals that is not empty has a least member.                      *)
LEMMA Least ==
  ASSUME NEW B \in SUBSET Nat, B # {}
  PROVE  \E i \in B : \A j \in B : i <= j
<1>1. \E i \in B : \A j \in B : <<j, i>> \notin OpToRel(<, Nat)
  BY NatLessThanWellFounded, WFMin
<1>2. PICK i \in B : \A j \in B : <<j, i>> \notin OpToRel(<, Nat)
  BY <1>1
<1>3. \A j \in B : ~(j < i)
  BY <1>2 DEF OpToRel
<1>4. \A j \in B : i <= j
  BY <1>3
<1> QED BY <1>4

-------------------------------------------------------------------------------
(* The order of the rows is a strict total order, whatever the directions.      *)

LEMMA OrderIrreflexive ==
  ASSUME orders \in [1 .. Columns -> Ways], NEW r \in Rows
  PROVE  ~Precedes(r, r)
<1>1. \A i \in 1 .. Columns : r[i] \in Int
  BY CursorAssumption DEF Rows
<1>2. \A x \in Int : ~(x < x) /\ ~(x > x)
  OBVIOUS
<1>3. \A i \in 1 .. Columns : ~Comes(orders[i], r[i], r[i])
  BY <1>1, <1>2, Zenon DEF Comes
<1> QED BY <1>3 DEF Precedes

LEMMA ComesTransitive ==
  ASSUME NEW dir, NEW x \in Int, NEW y \in Int, NEW z \in Int,
         Comes(dir, x, y), Comes(dir, y, z)
  PROVE  Comes(dir, x, z)
BY DEF Comes

LEMMA OrderTransitive ==
  ASSUME orders \in [1 .. Columns -> Ways],
         NEW r \in Rows, NEW s \in Rows, NEW t \in Rows, Precedes(r, s), Precedes(s, t)
  PROVE  Precedes(r, t)
<1>1. \A i \in 1 .. Columns : r[i] \in Int /\ s[i] \in Int /\ t[i] \in Int
  BY CursorAssumption DEF Rows
<1>2. PICK i \in 1 .. Columns :
        (\A j \in 1 .. i - 1 : r[j] = s[j]) /\ Comes(orders[i], r[i], s[i])
  BY DEF Precedes
<1>3. PICK k \in 1 .. Columns :
        (\A j \in 1 .. k - 1 : s[j] = t[j]) /\ Comes(orders[k], s[k], t[k])
  BY DEF Precedes
<1>4. i \in Nat /\ k \in Nat /\ Columns \in Nat
  BY CursorAssumption
<1>5. CASE i < k
  <2>1. (\A j \in 1 .. i - 1 : r[j] = t[j]) /\ s[i] = t[i]
    BY <1>2, <1>3, <1>4, <1>5
  <2> QED BY <1>2, <2>1 DEF Precedes
<1>6. CASE k < i
  <2>1. (\A j \in 1 .. k - 1 : r[j] = t[j]) /\ r[k] = s[k]
    BY <1>2, <1>3, <1>4, <1>6
  <2> QED BY <1>3, <2>1 DEF Precedes
<1>7. CASE i = k
  <2>1. \A j \in 1 .. i - 1 : r[j] = t[j]
    BY <1>2, <1>3, <1>7
  <2>2. Comes(orders[i], r[i], t[i])
    BY <1>1, <1>2, <1>3, <1>7, ComesTransitive
  <2> QED BY <2>1, <2>2 DEF Precedes
<1> QED BY <1>4, <1>5, <1>6, <1>7

(* Two rows differ in a first column, and that column decides.                  *)
LEMMA OrderTotal ==
  ASSUME orders \in [1 .. Columns -> Ways], NEW r \in Rows, NEW s \in Rows, r # s
  PROVE  Precedes(r, s) \/ Precedes(s, r)
<1> DEFINE B == {i \in 1 .. Columns : r[i] # s[i]}
<1>1. B # {} /\ B \in SUBSET Nat
  BY CursorAssumption DEF Rows
<1>2. PICK i \in B : \A j \in B : i <= j
  <2> HIDE DEF B
  <2> QED BY <1>1, Least
<1>3. i \in 1 .. Columns /\ r[i] # s[i] /\ r[i] \in Int /\ s[i] \in Int
  BY CursorAssumption DEF Rows
<1>4. \A j \in 1 .. i - 1 : r[j] = s[j]
  BY <1>2, CursorAssumption
<1>5. Comes(orders[i], r[i], s[i]) \/ Comes(orders[i], s[i], r[i])
  BY <1>3 DEF Comes
<1> QED BY <1>3, <1>4, <1>5 DEF Precedes

-------------------------------------------------------------------------------
(* The nested where clauses of addCursorConditions select the rows that come     *)
(* after the cursor, in its directions.                                         *)

(* What the clauses from column i on say: some column decides, and those from    *)
(* the one before i to it are equal.                                            *)
Decided(dirs, p, r, i) ==
  /\ i > 1 => r[i - 1] = p[i - 1]
  /\ \E k \in i .. Columns : (\A j \in i .. k - 1 : p[j] = r[j]) /\ Comes(dirs[k], p[k], r[k])

LEMMA DecidedStep ==
  ASSUME NEW dirs, NEW p, NEW r, NEW i \in 1 .. Columns
  PROVE  Decided(dirs, p, r, i) <=>
           /\ i > 1 => r[i - 1] = p[i - 1]
           /\ \/ Comes(dirs[i], p[i], r[i])
              \/ i < Columns /\ Decided(dirs, p, r, i + 1)
<1>0. Columns \in Nat /\ i \in Nat
  BY CursorAssumption
<1>1. ASSUME NEW k \in i .. Columns, \A j \in i .. k - 1 : p[j] = r[j],
             Comes(dirs[k], p[k], r[k]), k # i
      PROVE  i < Columns /\ Decided(dirs, p, r, i + 1)
  <2>1. k \in i + 1 .. Columns /\ i \in i .. k - 1 /\ i < Columns
    BY <1>0, <1>1
  <2>2. r[i] = p[i] /\ \A j \in i + 1 .. k - 1 : p[j] = r[j]
    BY <1>0, <1>1, <2>1
  <2>3. (i + 1) - 1 = i
    BY <1>0
  <2> QED BY <1>1, <2>1, <2>2, <2>3 DEF Decided
<1>2. ASSUME i < Columns, Decided(dirs, p, r, i + 1)
      PROVE  \E k \in i .. Columns :
               (\A j \in i .. k - 1 : p[j] = r[j]) /\ Comes(dirs[k], p[k], r[k])
  <2>1. r[i] = p[i]
    <3>1. (i + 1) - 1 = i /\ i + 1 > 1
      BY <1>0
    <3> QED BY <1>2, <3>1 DEF Decided
  <2>2. PICK k \in i + 1 .. Columns :
          (\A j \in i + 1 .. k - 1 : p[j] = r[j]) /\ Comes(dirs[k], p[k], r[k])
    BY <1>2 DEF Decided
  <2>3. k \in i .. Columns /\ \A j \in i .. k - 1 : p[j] = r[j]
    BY <1>0, <2>1, <2>2
  <2> QED BY <2>2, <2>3
<1>3. Comes(dirs[i], p[i], r[i]) =>
        \E k \in i .. Columns :
          (\A j \in i .. k - 1 : p[j] = r[j]) /\ Comes(dirs[k], p[k], r[k])
  <2>1. i \in i .. Columns /\ i .. i - 1 = {}
    BY <1>0
  <2> QED BY <2>1
<1> QED BY <1>1, <1>2, <1>3 DEF Decided

(* The recursive condition is Decided: two that differ would differ at a last    *)
(* column, where the clause refers to no further one that differs.              *)
LEMMA SelectedIsDecided ==
  ASSUME NEW c, NEW r, c # None
  PROVE  Selected(c, r) <=> Decided(Directions(c), c.parameters, r, 1)
<1> DEFINE dirs == Directions(c)
           p == c.parameters
           Step(h, i) == /\ i > 1 => r[i - 1] = p[i - 1]
                         /\ \/ Comes(dirs[i], p[i], r[i])
                            \/ i < Columns /\ h[i + 1]
           Eq(h) == h = [i \in 1 .. Columns |-> Step(h, i)]
           g == [i \in 1 .. Columns |-> Decided(dirs, p, r, i)]
           f == CHOOSE h : Eq(h)
<1>0. Columns \in Nat /\ Columns >= 1
  BY CursorAssumption
<1>1. Selected(c, r) <=> f[1]
  BY DEF Selected
<1>2. ASSUME NEW i \in 1 .. Columns PROVE Decided(dirs, p, r, i) = Step(g, i)
  <2>1. i < Columns => g[i + 1] = Decided(dirs, p, r, i + 1)
    BY <1>0
  <2>2. Decided(dirs, p, r, i) <=> Step(g, i)
    <3> HIDE DEF g, dirs, p
    <3> QED BY <2>1, DecidedStep
  <2>3. Decided(dirs, p, r, i) \in BOOLEAN /\ Step(g, i) \in BOOLEAN
    BY DEF Decided
  <2> QED BY <2>2, <2>3
<1>3. Eq(g)
  <2> HIDE DEF Step
  <2> QED BY <1>2
<1>4. Eq(f)
  <2> HIDE DEF Eq
  <2> QED BY <1>3
<1>5. \A i \in 1 .. Columns : f[i] = Step(f, i)
  <2> HIDE DEF f, Step
  <2> QED BY <1>4
<1>6. f[1] <=> Decided(dirs, p, r, 1)
  <2> HIDE DEF f, dirs, p
  <2> DEFINE B == {d \in Nat : Columns - d \in 1 .. Columns
                                 /\ ~(f[Columns - d] <=> Decided(dirs, p, r, Columns - d))}
  <2> SUFFICES ASSUME B # {} PROVE FALSE
    <3>1. Columns - 1 \in Nat /\ Columns - (Columns - 1) = 1 /\ 1 \in 1 .. Columns
      BY <1>0
    <3> QED BY <3>1
  <2>1. PICK d \in B : \A e \in B : d <= e
    <3>1. B \in SUBSET Nat
      OBVIOUS
    <3> HIDE DEF B
    <3> QED BY <3>1, Least
  <2> DEFINE i == Columns - d
  <2>2. i \in 1 .. Columns /\ ~(f[i] <=> Decided(dirs, p, r, i))
    BY <2>1
  <2>3. i < Columns => (f[i + 1] <=> Decided(dirs, p, r, i + 1))
    <3> SUFFICES ASSUME i < Columns PROVE f[i + 1] <=> Decided(dirs, p, r, i + 1)
      OBVIOUS
    <3>1. d - 1 \in Nat /\ Columns - (d - 1) = i + 1 /\ i + 1 \in 1 .. Columns /\ ~(d <= d - 1)
      BY <1>0
    <3>2. d - 1 \notin B
      BY <2>1, <3>1
    <3> HIDE DEF i
    <3> QED BY <3>1, <3>2
  <2> HIDE DEF i
  <2>4. f[i] = Step(f, i)
    <3> HIDE DEF Step
    <3> QED BY <1>5, <2>2
  <2> QED BY <2>2, <2>3, <2>4, DecidedStep
<1> QED BY <1>1, <1>6

(* The cursors the paginator makes.                                             *)
Cursors == [points : {"next", "previous"}, parameters : Rows]

LEMMA NextSelects ==
  ASSUME NEW p \in Rows, NEW r \in Rows
  PROVE  Selected(CursorFor(p, "next"), r) <=> Precedes(p, r)
<1> DEFINE c == CursorFor(p, "next")
<1>1. c # None /\ c.parameters = p /\ Directions(c) = orders
  BY DEF CursorFor, None, Directions
<1>2. Selected(c, r) <=> Decided(orders, p, r, 1)
  BY <1>1, SelectedIsDecided
<1>3. Decided(orders, p, r, 1) <=> Precedes(p, r)
  BY DEF Decided, Precedes
<1> QED BY <1>2, <1>3

LEMMA PreviousSelects ==
  ASSUME orders \in [1 .. Columns -> Ways], NEW p \in Rows, NEW r \in Rows
  PROVE  Selected(CursorFor(p, "previous"), r) <=> Precedes(r, p)
<1> DEFINE c == CursorFor(p, "previous")
           dirs == Directions(c)
<1>1. c # None /\ c.parameters = p
  BY DEF CursorFor, None
<1>2. Selected(c, r) <=> Decided(dirs, p, r, 1)
  BY <1>1, SelectedIsDecided
<1>3. ASSUME NEW i \in 1 .. Columns
      PROVE  Comes(dirs[i], p[i], r[i]) <=> Comes(orders[i], r[i], p[i])
  <2>1. dirs[i] = IF orders[i] = "asc" THEN "desc" ELSE "asc"
    BY DEF Directions, CursorFor
  <2>2. p[i] \in Int /\ r[i] \in Int /\ orders[i] \in Ways
    BY CursorAssumption DEF Rows
  <2> HIDE DEF dirs
  <2> QED BY <2>1, <2>2 DEF Comes, Ways
<1>4. Decided(dirs, p, r, 1) <=> Precedes(r, p)
  <2> HIDE DEF dirs
  <2> QED BY <1>3 DEF Decided, Precedes
<1> QED BY <1>2, <1>4

-------------------------------------------------------------------------------
(* Places: how many rows of a set come before, or after, one of them.           *)
Ahead(r, S) == Cardinality({s \in S : Precedes(s, r)})

(* A row further on has more rows before it.                                    *)
LEMMA AheadGrows ==
  ASSUME orders \in [1 .. Columns -> Ways], NEW S \in SUBSET Rows, IsFiniteSet(S),
         NEW r \in S, NEW t \in S, Precedes(r, t)
  PROVE  Ahead(r, S) \in Nat /\ Ahead(t, S) \in Nat /\ Ahead(r, S) < Ahead(t, S)
<1> DEFINE R == {s \in S : Precedes(s, r)}
           T == {s \in S : Precedes(s, t)}
<1>1. IsFiniteSet(R) /\ IsFiniteSet(T)
  BY FS_Subset
<1>2. R \subseteq T
  BY OrderTransitive
<1>3. r \in T /\ r \notin R
  BY OrderIrreflexive
<1> HIDE DEF R, T
<1>4. Cardinality(R) \in Nat /\ Cardinality(T) \in Nat
  BY <1>1, FS_CardinalityType
<1>5. Cardinality(R) <= Cardinality(T) /\ (Cardinality(R) = Cardinality(T) => R = T)
  BY <1>1, <1>2, FS_Subset
<1>6. Cardinality(R) < Cardinality(T)
  BY <1>3, <1>4, <1>5
<1> QED BY <1>4, <1>6 DEF R, T, Ahead

(* Each place, from 0 on, is that of exactly one row.                           *)
LEMMA Places ==
  ASSUME orders \in [1 .. Columns -> Ways], NEW S \in SUBSET Rows, IsFiniteSet(S)
  PROVE  /\ \A r \in S : Ahead(r, S) \in 0 .. Cardinality(S) - 1
         /\ \A r, t \in S : Ahead(r, S) = Ahead(t, S) => r = t
         /\ \A k \in 0 .. Cardinality(S) - 1 : \E r \in S : Ahead(r, S) = k
<1>0. Cardinality(S) \in Nat
  BY FS_CardinalityType
<1>1. ASSUME NEW r \in S PROVE Ahead(r, S) \in 0 .. Cardinality(S) - 1
  <2> DEFINE R == {s \in S : Precedes(s, r)}
  <2>1. R \in SUBSET S /\ r \notin R
    BY OrderIrreflexive
  <2> HIDE DEF R
  <2>2. IsFiniteSet(R) /\ Cardinality(R) <= Cardinality(S)
        /\ (Cardinality(S) = Cardinality(R) => S = R)
    BY <2>1, FS_Subset
  <2>3. Cardinality(R) \in Nat
    BY <2>2, FS_CardinalityType
  <2>4. Cardinality(R) \in 0 .. Cardinality(S) - 1
    BY <1>0, <2>1, <2>2, <2>3
  <2> QED BY <2>4 DEF R, Ahead
<1>2. ASSUME NEW r \in S, NEW t \in S, Ahead(r, S) = Ahead(t, S) PROVE r = t
  <2>1. Precedes(r, t) => Ahead(r, S) < Ahead(t, S)
    BY AheadGrows
  <2>2. Precedes(t, r) => Ahead(t, S) < Ahead(r, S)
    BY AheadGrows
  <2>3. Ahead(r, S) \in Nat /\ Ahead(t, S) \in Nat
    BY <1>0, <1>1
  <2> QED BY <1>2, <2>1, <2>2, <2>3, OrderTotal
<1>3. ASSUME NEW k \in 0 .. Cardinality(S) - 1 PROVE \E r \in S : Ahead(r, S) = k
  <2> DEFINE K == 0 .. Cardinality(S) - 1
             f == [r \in S |-> Ahead(r, S)]
  <2>1. f \in Injection(S, K)
    BY <1>1, <1>2 DEF Injection, IsInjective
  <2>2. IsFiniteSet(K) /\ Cardinality(K) = Cardinality(S)
    BY <1>0, FS_Interval
  <2>3. f \in Surjection(S, K)
    <3> HIDE DEF f, K
    <3> QED BY <2>1, <2>2, FS_Injection
  <2> QED BY <2>3 DEF Surjection
<1> QED BY <1>1, <1>2, <1>3

(* What FirstRows gives: the rows of the first places, each at its place; all of *)
(* them, or else what is left comes after the last one given.                   *)
LEMMA FirstRowsPlaced ==
  ASSUME orders \in [1 .. Columns -> Ways], NEW S \in SUBSET Rows, IsFiniteSet(S),
         NEW n \in Nat
  PROVE  /\ Size(n, S) \in Nat
         /\ FirstRows(n, S) \in Seq(S)
         /\ Len(FirstRows(n, S)) = Size(n, S)
         /\ \A k \in 1 .. Size(n, S) : FirstRows(n, S)[k] \in S
                                       /\ Ahead(FirstRows(n, S)[k], S) = k - 1
<1> DEFINE L == FirstRows(n, S)
           m == Size(n, S)
           At(k) == CHOOSE r \in S : Ahead(r, S) = k - 1
<1>1. Cardinality(S) \in Nat
  BY FS_CardinalityType
<1>2. m \in Nat /\ m <= Cardinality(S)
  BY <1>1 DEF Size
<1>3. L = [k \in 1 .. m |-> At(k)]
  BY DEF FirstRows, Ahead
<1>4. ASSUME NEW k \in 1 .. m PROVE At(k) \in S /\ Ahead(At(k), S) = k - 1
  <2>1. k - 1 \in 0 .. Cardinality(S) - 1
    BY <1>1, <1>2
  <2>2. \E r \in S : Ahead(r, S) = k - 1
    BY <2>1, Places
  <2> QED BY <2>2
<1> HIDE DEF L, m, At
<1>5. L \in [1 .. m -> S]
  BY <1>3, <1>4
<1>6. L \in Seq(S)
  BY <1>2, <1>5, SeqDef
<1>7. Len(L) = m
  BY <1>2, <1>5, <1>6
<1>8. \A k \in 1 .. m : L[k] \in S /\ Ahead(L[k], S) = k - 1
  BY <1>3, <1>4
<1> QED BY <1>2, <1>6, <1>7, <1>8 DEF L, m

LEMMA FirstRowsCover ==
  ASSUME orders \in [1 .. Columns -> Ways], NEW S \in SUBSET Rows, IsFiniteSet(S),
         NEW n \in Nat \ {0}
  PROVE  /\ Range(FirstRows(n, S)) \subseteq S
         /\ Cardinality(S) <= n => Range(FirstRows(n, S)) = S
         /\ Cardinality(S) > n =>
              /\ Len(FirstRows(n, S)) = n
              /\ \A r \in S : r \in Range(FirstRows(n, S)) \/ Precedes(FirstRows(n, S)[n], r)
<1> DEFINE L == FirstRows(n, S)
           m == Size(n, S)
<1>1. /\ m \in Nat /\ L \in Seq(S) /\ Len(L) = m
      /\ \A k \in 1 .. m : L[k] \in S /\ Ahead(L[k], S) = k - 1
  BY FirstRowsPlaced
<1>2. Cardinality(S) \in Nat
  BY FS_CardinalityType
<1>3. m = IF Cardinality(S) < n THEN Cardinality(S) ELSE n
  BY DEF Size
<1> HIDE DEF L, m
<1>4. Range(L) \subseteq S /\ \A k \in 1 .. m : L[k] \in Range(L)
  BY <1>1 DEF Range
<1>5. ASSUME NEW r \in S, Ahead(r, S) < m PROVE r \in Range(L)
  <2>1. Ahead(r, S) \in 0 .. Cardinality(S) - 1
    BY Places
  <2> DEFINE k == Ahead(r, S) + 1
  <2>2. k \in 1 .. m /\ k - 1 = Ahead(r, S)
    BY <1>1, <1>2, <1>5, <2>1
  <2>3. L[k] \in S /\ Ahead(L[k], S) = Ahead(r, S)
    BY <1>1, <2>2
  <2>4. L[k] = r
    BY <2>3, Places
  <2> QED BY <1>4, <2>2, <2>4
<1>6. ASSUME Cardinality(S) <= n PROVE Range(L) = S
  <2>1. m = Cardinality(S)
    BY <1>2, <1>3, <1>6
  <2>2. \A r \in S : Ahead(r, S) < m
    BY <1>2, <2>1, Places
  <2> QED BY <1>4, <1>5, <2>2
<1>7. ASSUME Cardinality(S) > n, NEW r \in S, r \notin Range(L) PROVE Precedes(L[n], r)
  <2>1. m = n /\ n \in 1 .. m
    BY <1>2, <1>3, <1>7
  <2>2. L[n] \in S /\ Ahead(L[n], S) = n - 1 /\ L[n] \in Range(L)
    BY <1>1, <1>4, <2>1
  <2>3. Ahead(r, S) \in Nat /\ ~(Ahead(r, S) < n)
    BY <1>5, <1>7, <2>1, Places
  <2>4. ~Precedes(r, L[n])
    <3>1. Precedes(r, L[n]) => Ahead(r, S) < Ahead(L[n], S)
      BY <2>2, AheadGrows
    <3> QED BY <2>2, <2>3, <3>1
  <2> QED BY <1>7, <2>2, <2>4, OrderTotal
<1>8. Cardinality(S) > n => Len(L) = n
  BY <1>1, <1>2, <1>3
<1> QED BY <1>4, <1>6, <1>7, <1>8 DEF L

(* A row more is asked for than the page shows.                                 *)
LEMMA OneMore ==
  ASSUME orders \in [1 .. Columns -> Ways], NEW S \in SUBSET Rows, IsFiniteSet(S),
         NEW n \in Nat
  PROVE  LET rows == FirstRows(n + 1, S)
         IN  /\ Len(rows) > n <=> Cardinality(S) > n
             /\ (IF Len(rows) < n THEN Len(rows) ELSE n) = Size(n, S)
             /\ SubSeq(rows, 1, Size(n, S)) = FirstRows(n, S)
<1> DEFINE rows == FirstRows(n + 1, S)
           m == Size(n, S)
<1>1. Cardinality(S) \in Nat
  BY FS_CardinalityType
<1>2. /\ rows \in Seq(S) /\ Len(rows) = Size(n + 1, S)
      /\ \A k \in 1 .. Size(n + 1, S) : rows[k] \in S
  BY FirstRowsPlaced
<1>3. /\ m \in Nat /\ FirstRows(n, S) \in Seq(S) /\ Len(FirstRows(n, S)) = m
  BY FirstRowsPlaced
<1>4. m <= Size(n + 1, S) /\ Size(n + 1, S) \in Nat
  BY <1>1 DEF Size
<1>5. \A k \in 1 .. m : rows[k] = FirstRows(n, S)[k]
  <2> DEFINE At(k) == CHOOSE r \in S : Ahead(r, S) = k - 1
             more == Size(n + 1, S)
  <2>1. rows = [k \in 1 .. more |-> At(k)] /\ FirstRows(n, S) = [k \in 1 .. m |-> At(k)]
    BY DEF FirstRows, Ahead
  <2>2. \A k \in 1 .. m : k \in 1 .. more
    BY <1>3, <1>4
  <2> HIDE DEF At, more, rows, m
  <2> QED BY <2>1, <2>2
<1>6. (Len(rows) > n <=> Cardinality(S) > n) /\ (IF Len(rows) < n THEN Len(rows) ELSE n) = m
  BY <1>1, <1>2 DEF Size
<1> HIDE DEF m, rows
<1>7. /\ SubSeq(rows, 1, m) \in Seq(S) /\ Len(SubSeq(rows, 1, m)) = m
      /\ \A k \in 1 .. m : SubSeq(rows, 1, m)[k] = rows[k]
  <2>1. \A i \in 1 .. m : rows[i] \in S
    BY <1>2, <1>3, <1>4
  <2>2. /\ SubSeq(rows, 1, m) \in Seq(S)
        /\ Len(SubSeq(rows, 1, m)) = IF 1 <= m THEN m - 1 + 1 ELSE 0
        /\ \A i \in 1 .. m - 1 + 1 : SubSeq(rows, 1, m)[i] = rows[1 + i - 1]
    BY <1>3, <2>1, SubSeqProperties
  <2> QED BY <1>3, <2>2
<1>8. SubSeq(rows, 1, m) = FirstRows(n, S)
  BY <1>3, <1>5, <1>7, SeqEqual
<1> QED BY <1>6, <1>8 DEF m, rows

-------------------------------------------------------------------------------
(* The state has its type; the page a next cursor led to is the one that was     *)
(* promised.                                                                    *)
CursorTypes ==
  /\ orders \in [1 .. Columns -> Ways]
  /\ table \in SUBSET Rows /\ IsFiniteSet(table)
  /\ steady \subseteq table
  /\ cursor \in Cursors \cup {None}
  /\ results \in Seq(Rows)
  /\ hasMore \in BOOLEAN
  /\ walk \in [rows : Seq(Rows), forward : BOOLEAN]

CursorInv == CursorTypes /\ NextIsFollowing /\ ForwardInv

(* The rows after, or before, a row of the page.                                *)
After(p) == {r \in table : Precedes(p, r)}
Before(p) == {r \in table : Precedes(r, p)}

(* The last row of the page.                                                    *)
LEMMA LastOfPage ==
  ASSUME NEW L \in Seq(Rows), L # <<>>
  PROVE  Len(L) \in Nat /\ L[Len(L)] \in Rows /\ L[1] \in Rows
<1>1. Len(L) \in Nat \ {0}
  BY EmptySeq
<1>2. 1 \in 1 .. Len(L) /\ Len(L) \in 1 .. Len(L)
  BY <1>1
<1> QED BY <1>1, <1>2, ElementOfSeq

(* The page after a next cursor, and whether there is more.                      *)
LEMMA NextPage ==
  ASSUME CursorTypes, NEW p \in Rows, Paginate(CursorFor(p, "next"))
  PROVE  /\ cursor' = CursorFor(p, "next")
         /\ results' = FirstRows(PerPage, After(p))
         /\ hasMore' = (Cardinality(After(p)) > PerPage)
<1> DEFINE c == CursorFor(p, "next")
           S == {r \in table : Selected(c, r)}
           rows == FirstRows(PerPage + 1, After(p))
<1>0. orders \in [1 .. Columns -> Ways] /\ table \in SUBSET Rows /\ IsFiniteSet(table)
      /\ PerPage \in Nat
  BY CursorAssumption DEF CursorTypes
<1>1. S = After(p)
  BY <1>0, NextSelects DEF After
<1>2. After(p) \in SUBSET Rows /\ IsFiniteSet(After(p))
  BY <1>0, FS_Subset DEF After
<1>3. Get(c) = rows
  BY <1>1 DEF Get
<1>4. c.points # "previous"
  BY DEF CursorFor
<1> HIDE DEF c
<1>5. /\ cursor' = c
      /\ results' = SubSeq(rows, 1, IF Len(rows) < PerPage THEN Len(rows) ELSE PerPage)
      /\ hasMore' = (Len(rows) > PerPage)
  BY <1>3, <1>4, Zenon DEF Paginate, c
<1>6. /\ Len(rows) > PerPage <=> Cardinality(After(p)) > PerPage
      /\ (IF Len(rows) < PerPage THEN Len(rows) ELSE PerPage) = Size(PerPage, After(p))
      /\ SubSeq(rows, 1, Size(PerPage, After(p))) = FirstRows(PerPage, After(p))
  BY <1>0, <1>2, OneMore
<1>7. results' = FirstRows(PerPage, After(p))
  BY <1>5, <1>6, Zenon
<1>8. (Len(rows) > PerPage) = (Cardinality(After(p)) > PerPage)
  BY <1>6
<1> QED BY <1>5, <1>7, <1>8, Zenon DEF c

(* The page after a previous cursor: the first rows before the page it left,     *)
(* from the back.                                                               *)
LEMMA PreviousPage ==
  ASSUME CursorTypes, NEW p \in Rows, Paginate(CursorFor(p, "previous"))
  PROVE  /\ cursor' = CursorFor(p, "previous")
         /\ results' \in Seq(Before(p))
         /\ Len(results') = Size(PerPage, Before(p))
         /\ hasMore' = (Cardinality(Before(p)) > PerPage)
         /\ ~hasMore' => Range(results') = Before(p)
<1> DEFINE c == CursorFor(p, "previous")
           S == {r \in table : Selected(c, r)}
           rows == FirstRows(PerPage + 1, Before(p))
           back == Reverse(rows)
           m == Size(PerPage, Before(p))
<1>0. orders \in [1 .. Columns -> Ways] /\ table \in SUBSET Rows /\ IsFiniteSet(table)
      /\ PerPage \in Nat
  BY CursorAssumption DEF CursorTypes
<1>1. S = Before(p)
  BY <1>0, PreviousSelects DEF Before
<1>2. Before(p) \in SUBSET Rows /\ IsFiniteSet(Before(p))
  BY <1>0, FS_Subset DEF Before
<1>3. Get(c) = rows
  BY <1>1 DEF Get
<1>4. c.points = "previous"
  BY DEF CursorFor
<1> HIDE DEF c, rows, m
<1>5. /\ cursor' = c
      /\ results' = SubSeq(back, 1, IF Len(back) < PerPage THEN Len(back) ELSE PerPage)
      /\ hasMore' = (Len(back) > PerPage)
  BY <1>3, <1>4, Zenon DEF Paginate, c
<1>6. /\ rows \in Seq(Before(p)) /\ Len(rows) \in Nat
      /\ rows \in [1 .. Len(rows) -> Before(p)]
  <2>1. rows \in Seq(Before(p))
    BY <1>0, <1>2, FirstRowsPlaced DEF rows
  <2> QED BY <2>1, LenProperties
<1>7. /\ back \in [1 .. Len(rows) -> Before(p)]
      /\ \A i \in 1 .. Len(rows) : back[i] = rows[(Len(rows) - i) + 1]
  <2>1. \A i \in 1 .. Len(rows) : (Len(rows) - i) + 1 \in 1 .. Len(rows)
    BY <1>6
  <2> QED BY <1>6, <2>1 DEF Reverse
<1> HIDE DEF back
<1>8. back \in Seq(Before(p)) /\ Len(back) = Len(rows)
  <2>1. back \in Seq(Before(p))
    BY <1>6, <1>7, SeqDef
  <2> QED BY <1>6, <1>7, <2>1
<1>9. /\ Len(rows) > PerPage <=> Cardinality(Before(p)) > PerPage
      /\ (IF Len(rows) < PerPage THEN Len(rows) ELSE PerPage) = m
  BY <1>0, <1>2, OneMore DEF rows, m
<1>10. m \in Nat /\ m <= Len(rows)
  BY <1>0, <1>6, <1>9
<1>11. /\ SubSeq(back, 1, m) \in Seq(Before(p)) /\ Len(SubSeq(back, 1, m)) = m
       /\ \A i \in 1 .. m : SubSeq(back, 1, m)[i] = back[i]
  <2>1. \A i \in 1 .. m : back[i] \in Before(p)
    BY <1>6, <1>7, <1>10
  <2>2. /\ SubSeq(back, 1, m) \in Seq(Before(p))
        /\ Len(SubSeq(back, 1, m)) = IF 1 <= m THEN m - 1 + 1 ELSE 0
        /\ \A i \in 1 .. m - 1 + 1 : SubSeq(back, 1, m)[i] = back[1 + i - 1]
    BY <1>10, <2>1, SubSeqProperties
  <2> QED BY <1>10, <2>2
<1>12. results' = SubSeq(back, 1, m)
  BY <1>5, <1>8, <1>9, Zenon
<1>13. hasMore' = (Cardinality(Before(p)) > PerPage)
  <2>1. (Len(back) > PerPage) = (Cardinality(Before(p)) > PerPage)
    BY <1>8, <1>9
  <2> QED BY <1>5, <2>1, Zenon
<1>14. ASSUME ~hasMore' PROVE Range(results') = Before(p)
  <2>1. Cardinality(Before(p)) \in Nat /\ Cardinality(Before(p)) <= PerPage
    <3>1. ~(Cardinality(Before(p)) > PerPage)
      BY <1>13, <1>14, Zenon
    <3> QED BY <1>0, <1>2, <3>1, FS_CardinalityType
  <2>2. Range(rows) = Before(p)
    BY <1>0, <1>2, <2>1, FirstRowsCover DEF rows
  <2>3. m = Len(rows)
    BY <1>0, <1>6, <1>9, <2>1
  <2>4. DOMAIN rows = 1 .. m /\ DOMAIN results' = 1 .. m
    BY <1>6, <1>11, <1>12, <2>3, LenProperties
  <2>5. ASSUME NEW r \in Range(rows) PROVE r \in Range(results')
    <3>1. PICK k \in 1 .. m : r = rows[k]
      BY <2>4, <2>5 DEF Range
    <3> DEFINE i == (m - k) + 1
    <3>2. i \in 1 .. m /\ (m - i) + 1 = k
      BY <1>10
    <3> HIDE DEF i
    <3>3. results'[i] = r
      BY <1>7, <1>11, <1>12, <2>3, <3>1, <3>2
    <3> QED BY <2>4, <3>2, <3>3 DEF Range
  <2>6. \A i \in 1 .. m : results'[i] \in Before(p)
    BY <1>6, <1>7, <1>11, <1>12, <2>3
  <2> QED BY <2>2, <2>4, <2>5, <2>6 DEF Range
<1> QED BY <1>5, <1>11, <1>12, <1>13, <1>14 DEF c, m

-------------------------------------------------------------------------------
(* The invariant holds on the first page, and every step keeps it.              *)

(* A flag set to the outcome of a comparison.                                  *)
LEMMA Truth ==
  ASSUME NEW b, NEW x \in Nat, NEW y \in Nat, b = (x > y)
  PROVE  b \in BOOLEAN /\ (b <=> x > y)
<1>1. (x > y) \in BOOLEAN
  OBVIOUS
<1>2. \A P \in BOOLEAN : b = P => b \in BOOLEAN /\ (b <=> P)
  BY Zenon
<1> QED BY <1>1, <1>2, Zenon

LEMMA CursorInvInit ==
  ASSUME Init
  PROVE  CursorInv
<1>0. /\ orders \in [1 .. Columns -> Ways] /\ table \in SUBSET Rows /\ IsFiniteSet(table)
      /\ PerPage \in Nat \ {0} /\ Cardinality(table) \in Nat
  BY CursorAssumption, FS_CardinalityType DEF Init, Ways
<1>1. results \in Seq(table)
  BY <1>0, FirstRowsPlaced DEF Init
<1>2. results \in Seq(Rows)
  BY <1>0, <1>1, SeqMonotonic
<1>3. hasMore \in BOOLEAN /\ (hasMore <=> Cardinality(table) > PerPage)
  BY <1>0, Truth DEF Init
<1>4. CursorTypes
  BY <1>0, <1>2, <1>3 DEF Init, CursorTypes
<1>5. cursor.points = "none"
  BY DEF Init, None
<1>6. walk.rows = results /\ steady = table
  BY DEF Init
<1>7. ASSUME hasMore
      PROVE  /\ results # <<>>
             /\ \A r \in steady : r \in Range(walk.rows) \/ Precedes(results[Len(results)], r)
  <2>1. Cardinality(table) > PerPage
    BY <1>3, <1>7
  <2>2. /\ Len(results) = PerPage
        /\ \A r \in table : r \in Range(results) \/ Precedes(results[PerPage], r)
    BY <1>0, <2>1, FirstRowsCover DEF Init
  <2>3. results # <<>>
    BY <1>0, <2>2, EmptySeq
  <2> QED BY <1>6, <2>2, <2>3
<1>8. ASSUME ~hasMore PROVE steady \subseteq Range(walk.rows)
  <2>1. Cardinality(table) <= PerPage
    BY <1>0, <1>3, <1>8
  <2>2. Range(results) = table
    BY <1>0, <2>1, FirstRowsCover DEF Init
  <2> QED BY <1>6, <2>2
<1> QED BY <1>4, <1>5, <1>7, <1>8 DEF CursorInv, NextIsFollowing, ForwardInv

(* A row of one part of a sequence is a row of the whole.                       *)
LEMMA RangeConcat ==
  ASSUME NEW L \in Seq(Rows), NEW M \in Seq(Rows)
  PROVE  /\ L \o M \in Seq(Rows)
         /\ Range(L) \subseteq Range(L \o M) /\ Range(M) \subseteq Range(L \o M)
<1>1. /\ L \o M \in Seq(Rows) /\ Len(L \o M) = Len(L) + Len(M)
      /\ \A i \in 1 .. Len(L) + Len(M) :
           (L \o M)[i] = IF i <= Len(L) THEN L[i] ELSE M[i - Len(L)]
  BY ConcatProperties
<1>2. /\ Len(L) \in Nat /\ Len(M) \in Nat
      /\ DOMAIN L = 1 .. Len(L) /\ DOMAIN M = 1 .. Len(M)
      /\ DOMAIN (L \o M) = 1 .. Len(L) + Len(M)
  BY <1>1, LenProperties
<1>3. \A i \in 1 .. Len(L) : i \in 1 .. Len(L) + Len(M) /\ (L \o M)[i] = L[i]
  BY <1>1, <1>2
<1>4. \A i \in 1 .. Len(M) : /\ Len(L) + i \in 1 .. Len(L) + Len(M)
                             /\ (L \o M)[Len(L) + i] = M[i]
  BY <1>1, <1>2
<1>5. ASSUME NEW i \in 1 .. Len(L) PROVE L[i] \in Range(L \o M)
  BY <1>2, <1>3, Zenon DEF Range
<1>6. ASSUME NEW i \in 1 .. Len(M) PROVE M[i] \in Range(L \o M)
  BY <1>2, <1>4, Zenon DEF Range
<1> QED BY <1>1, <1>2, <1>5, <1>6 DEF Range

LEMMA KeepsFollowNext ==
  ASSUME CursorInv, FollowNext
  PROVE  CursorInv'
<1> DEFINE p == results[Len(results)]
           S == After(p)
<1>0. /\ CursorTypes /\ ForwardInv /\ NextIsFollowing /\ PerPage \in Nat \ {0}
      /\ orders \in [1 .. Columns -> Ways] /\ table \in SUBSET Rows /\ IsFiniteSet(table)
      /\ steady \subseteq table
  BY CursorAssumption DEF CursorInv, CursorTypes
<1>1. NextCursor # None /\ Paginate(NextCursor)
  BY DEF FollowNext
<1>2. /\ results # <<>> /\ (cursor.points = "previous" \/ hasMore)
      /\ NextCursor = CursorFor(p, "next")
  BY <1>1 DEF NextCursor
<1>3. results \in Seq(Rows) /\ p \in Rows
  BY <1>0, <1>2, LastOfPage DEF CursorTypes
<1> HIDE DEF p, S
<1>4. /\ cursor' = CursorFor(p, "next")
      /\ results' = FirstRows(PerPage, S)
      /\ hasMore' = (Cardinality(S) > PerPage)
  BY <1>0, <1>1, <1>2, <1>3, NextPage DEF S
<1>5. S \in SUBSET Rows /\ S \subseteq table /\ IsFiniteSet(S) /\ Cardinality(S) \in Nat
  <2>1. S \in SUBSET Rows /\ S \subseteq table
    BY <1>0 DEF S, After
  <2>2. IsFiniteSet(S)
    BY <1>0, <2>1, FS_Subset
  <2> QED BY <2>1, <2>2, FS_CardinalityType
<1>6. results' \in Seq(Rows)
  <2>1. results' \in Seq(S)
    BY <1>0, <1>4, <1>5, FirstRowsPlaced
  <2> QED BY <1>5, <2>1, SeqMonotonic
<1>7. hasMore' \in BOOLEAN /\ (hasMore' <=> Cardinality(S) > PerPage)
  BY <1>0, <1>4, <1>5, Truth
<1>8. /\ walk' = IF walk.forward THEN [walk EXCEPT !.rows = @ \o results'] ELSE walk
      /\ walk \in [rows : Seq(Rows), forward : BOOLEAN]
  BY <1>0 DEF FollowNext, CursorTypes
<1>9. walk' \in [rows : Seq(Rows), forward : BOOLEAN] /\ walk'.forward = walk.forward
      /\ (walk.forward => walk'.rows = walk.rows \o results')
  <2>1. walk.rows \o results' \in Seq(Rows)
    BY <1>6, <1>8, RangeConcat
  <2> QED BY <1>8, <2>1
<1>10. /\ orders' = orders /\ table' = table /\ steady' = steady
       /\ due' = FirstRows(PerPage, S)
  <2>1. S = {r \in table : Precedes(results[Len(results)], r)}
    BY DEF S, After, p
  <2> QED BY <2>1 DEF FollowNext
<1>11. cursor' \in Cursors /\ cursor'.points = "next"
  BY <1>3, <1>4 DEF CursorFor, Cursors
<1>12. CursorTypes'
  BY <1>0, <1>6, <1>7, <1>9, <1>10, <1>11 DEF CursorTypes
<1>13. NextIsFollowing'
  BY <1>4, <1>10 DEF NextIsFollowing
<1>14. ASSUME hasMore'
       PROVE  /\ results' # <<>> /\ Len(results') = PerPage
              /\ \A r \in S : r \in Range(results') \/ Precedes(results'[Len(results')], r)
  <2>1. Cardinality(S) > PerPage
    BY <1>7, <1>14
  <2>2. /\ Len(results') = PerPage
        /\ \A r \in S : r \in Range(results') \/ Precedes(results'[PerPage], r)
    BY <1>0, <1>4, <1>5, <2>1, FirstRowsCover
  <2>3. results' # <<>>
    BY <1>0, <2>2, EmptySeq
  <2> QED BY <2>2, <2>3
<1>15. ASSUME ~hasMore' PROVE S \subseteq Range(results')
  <2>1. Cardinality(S) <= PerPage
    BY <1>0, <1>5, <1>7, <1>15
  <2> QED BY <1>0, <1>4, <1>5, <2>1, FirstRowsCover
<1>16. ASSUME walk.forward, NEW r \in steady
       PROVE  r \in Range(walk'.rows) \/ (r \in S /\ r \notin Range(results'))
  <2>1. hasMore /\ (r \in Range(walk.rows) \/ Precedes(p, r))
    BY <1>0, <1>2, <1>16 DEF ForwardInv, p
  <2>2. r \in Range(walk.rows) \/ r \in S
    BY <1>0, <2>1 DEF S, After
  <2>3. Range(walk.rows) \subseteq Range(walk'.rows) /\ Range(results') \subseteq Range(walk'.rows)
    BY <1>6, <1>8, <1>9, <1>16, RangeConcat
  <2> QED BY <2>2, <2>3
<1>17. ASSUME hasMore', walk.forward, NEW r \in steady
       PROVE  r \in Range(walk'.rows) \/ Precedes(results'[Len(results')], r)
  BY <1>14, <1>16, <1>17
<1>18. ASSUME ~hasMore', walk.forward PROVE steady \subseteq Range(walk'.rows)
  BY <1>15, <1>16, <1>18
<1>19. ForwardInv'
  <2>1. (\A r \in steady : r \in Range(walk.rows)
                           \/ Precedes(results[Len(results)], r))'
        <=> \A r \in steady : r \in Range(walk'.rows) \/ Precedes(results'[Len(results')], r)
    BY <1>10 DEF Precedes
  <2> QED BY <1>9, <1>10, <1>11, <1>14, <1>17, <1>18, <2>1 DEF ForwardInv
<1> QED BY <1>12, <1>13, <1>19 DEF CursorInv

LEMMA KeepsFollowPrevious ==
  ASSUME CursorInv, FollowPrevious
  PROVE  /\ CursorInv'
         /\ LET before == {r \in table : Precedes(r, results[1])}
            IN /\ Range(results') \subseteq before
               /\ Len(results') = Len(due')
               /\ ~hasMore' => Range(results') = before
<1> DEFINE p == results[1]
           S == Before(p)
<1>0. /\ CursorTypes /\ PerPage \in Nat \ {0}
      /\ table \in SUBSET Rows /\ IsFiniteSet(table)
  BY CursorAssumption DEF CursorInv, CursorTypes
<1>1. PreviousCursor # None /\ Paginate(PreviousCursor)
  BY DEF FollowPrevious
<1>2. results # <<>> /\ PreviousCursor = CursorFor(p, "previous")
  BY <1>1 DEF PreviousCursor
<1>3. p \in Rows
  BY <1>0, <1>2, LastOfPage DEF CursorTypes
<1>4. S = {r \in table : Precedes(r, results[1])} /\ S \in SUBSET Rows
  BY <1>0 DEF Before
<1> HIDE DEF p, S
<1>5. /\ cursor' = CursorFor(p, "previous")
      /\ results' \in Seq(S)
      /\ Len(results') = Size(PerPage, S)
      /\ hasMore' = (Cardinality(S) > PerPage)
      /\ ~hasMore' => Range(results') = S
  BY <1>0, <1>1, <1>2, <1>3, PreviousPage DEF S
<1>6. results' \in Seq(Rows) /\ Range(results') \subseteq S
  <2>1. DOMAIN results' = 1 .. Len(results') /\ \A i \in 1 .. Len(results') : results'[i] \in S
    BY <1>5, LenProperties, ElementOfSeq
  <2> QED BY <1>4, <1>5, <2>1, SeqMonotonic DEF Range
<1>7. Cardinality(S) \in Nat /\ Size(PerPage, S) \in Nat
  BY <1>0, <1>4, FS_Subset, FS_CardinalityType DEF Size
<1>8. Len(due') = Size(PerPage, S)
  <2> DEFINE At(k) == CHOOSE r \in S : Cardinality({s \in S : Precedes(r, s)})
                                         = Size(PerPage, S) - k
  <2>1. due' = LastRows(PerPage, S)
    BY <1>4 DEF FollowPrevious
  <2>2. due' = [k \in 1 .. Size(PerPage, S) |-> At(k)]
    BY <2>1 DEF LastRows
  <2> HIDE DEF At
  <2>3. due' \in [1 .. Size(PerPage, S) -> {At(k) : k \in 1 .. Size(PerPage, S)}]
    BY <2>2
  <2>4. due' \in Seq({At(k) : k \in 1 .. Size(PerPage, S)})
    BY <1>7, <2>3, SeqDef
  <2> QED BY <1>7, <2>3, <2>4
<1>9. hasMore' \in BOOLEAN
  BY <1>0, <1>5, <1>7, Truth
<1>10. cursor' \in Cursors /\ cursor'.points = "previous"
  BY <1>3, <1>5 DEF CursorFor, Cursors
<1>11. /\ orders' = orders /\ table' = table /\ steady' = steady
       /\ walk' = [rows |-> <<>>, forward |-> FALSE]
  BY DEF FollowPrevious
<1>12. walk' \in [rows : Seq(Rows), forward : BOOLEAN] /\ ~walk'.forward
  BY <1>11
<1>13. CursorTypes'
  BY <1>0, <1>6, <1>9, <1>10, <1>11, <1>12 DEF CursorTypes
<1>14. NextIsFollowing'
  BY <1>10 DEF NextIsFollowing
<1>15. hasMore' => results' # <<>>
  <2> SUFFICES ASSUME hasMore' PROVE results' # <<>>
    OBVIOUS
  <2>1. Cardinality(S) > PerPage
    BY <1>5, Zenon
  <2>2. Len(results') = PerPage
    BY <1>0, <1>5, <1>7, <2>1 DEF Size
  <2> QED BY <1>0, <2>2, EmptySeq
<1>16. ForwardInv'
  BY <1>12, <1>15 DEF ForwardInv
<1> QED BY <1>4, <1>5, <1>6, <1>8, <1>13, <1>14, <1>16 DEF CursorInv

(* Writes leave the page and the walk as they are.                              *)
LEMMA KeepsWrite ==
  ASSUME CursorInv, NEW r \in Rows, Insert(r) \/ Delete(r)
  PROVE  CursorInv'
<1>1. CursorTypes /\ NextIsFollowing /\ ForwardInv
  BY DEF CursorInv
<1>2. /\ orders' = orders /\ page' = page /\ due' = due /\ walk' = walk
      /\ table' \in {table \union {r}, table \ {r}}
      /\ steady' \subseteq steady /\ steady' \subseteq table'
  BY <1>1 DEF Insert, Delete, CursorTypes
<1>3. cursor' = cursor /\ results' = results /\ hasMore' = hasMore
  BY <1>2 DEF page
<1>4. table' \in SUBSET Rows /\ IsFiniteSet(table')
  BY <1>1, <1>2, FS_AddElement, FS_RemoveElement DEF CursorTypes
<1>5. CursorTypes'
  BY <1>1, <1>2, <1>3, <1>4 DEF CursorTypes
<1>6. NextIsFollowing'
  BY <1>1, <1>2, <1>3 DEF NextIsFollowing
<1>7. ForwardInv'
  <2>1. (\A s \in steady : s \in Range(walk.rows)
                           \/ Precedes(results[Len(results)], s))'
        <=> \A s \in steady' : s \in Range(walk.rows) \/ Precedes(results[Len(results)], s)
    BY <1>2, <1>3 DEF Precedes
  <2> QED BY <1>1, <1>2, <1>3, <2>1 DEF ForwardInv
<1> QED BY <1>5, <1>6, <1>7 DEF CursorInv

LEMMA KeepsStutter ==
  ASSUME CursorInv, UNCHANGED vars
  PROVE  CursorInv'
<1>1. /\ orders' = orders /\ page' = page /\ due' = due /\ walk' = walk
      /\ table' = table /\ steady' = steady
  BY DEF vars
<1>2. cursor' = cursor /\ results' = results /\ hasMore' = hasMore
  BY <1>1 DEF page
<1> QED BY <1>1, <1>2 DEF CursorInv, CursorTypes, NextIsFollowing, ForwardInv, Precedes

(* Every step keeps the invariant.                                              *)
LEMMA CursorStep ==
  ASSUME CursorInv, [Next]_vars
  PROVE  CursorInv'
<1>1. CASE FollowNext BY <1>1, KeepsFollowNext
<1>2. CASE FollowPrevious BY <1>2, KeepsFollowPrevious
<1>3. CASE \E r \in Rows : Insert(r) \/ Delete(r) BY <1>3, KeepsWrite
<1>4. CASE Stay BY <1>4, KeepsStutter DEF Stay
<1>5. CASE UNCHANGED vars BY <1>5, KeepsStutter
<1> QED BY <1>1, <1>2, <1>3, <1>4, <1>5 DEF Next

(* The invariant: the reader's state has its type, the last page after a next     *)
(* cursor follows on (paginateUsingCursor), and while only next links were       *)
(* followed every row that stayed was shown or comes after the page.             *)
THEOREM CursorInvariant == Spec => []CursorInv
<1>1. Init => CursorInv
  BY CursorInvInit
<1>2. CursorInv /\ [Next]_vars => CursorInv'
  BY CursorStep
<1> QED BY <1>1, <1>2, PTL DEF Spec

(* The page after nextCursor is made of the rows that come right after the last  *)
(* one shown, in order, whether that row was deleted or not.                    *)
THEOREM NextPageFollows == Spec => []NextIsFollowing
<1>1. CursorInv => NextIsFollowing
  BY DEF CursorInv
<1> QED BY <1>1, CursorInvariant, PTL

(* A reader who follows next links until there is none has seen every row that   *)
(* was there all the time.                                                      *)
THEOREM ForwardMissesNothing == Spec => []ForwardComplete
<1>1. CursorInv => ForwardComplete
  <2> SUFFICES ASSUME CursorInv, walk.forward, NextCursor = None
               PROVE  steady \subseteq Range(walk.rows)
    BY DEF ForwardComplete
  <2>1. ForwardInv
    BY DEF CursorInv
  <2>2. \A r : CursorFor(r, "next") # None
    BY DEF CursorFor, None
  <2>3. ~hasMore
    BY <2>1, <2>2 DEF NextCursor, ForwardInv
  <2> QED BY <2>1, <2>3 DEF ForwardInv
<1> QED BY <1>1, CursorInvariant, PTL

(* The page after previousCursor has rows that come before the page it left, as   *)
(* many as there are up to perPage, and all of them when it has no previous link *)
(* (CursorPaginator's constructor).                                             *)
THEOREM PreviousPageBefore == Spec => PreviousStaysBefore
<1>1. CursorInv /\ [Next]_vars =>
        [FollowPrevious =>
           LET before == {r \in table : Precedes(r, results[1])}
           IN /\ Range(results') \subseteq before
              /\ Len(results') = Len(due')
              /\ ~hasMore' => Range(results') = before]_vars
  BY KeepsFollowPrevious
<1> QED BY <1>1, CursorInvariant, PTL DEF Spec, PreviousStaysBefore

===============================================================================
