--------------------------- MODULE ChunkPagingProofs ---------------------------
(* Proofs about ChunkPaging, for every set of ids, every page size and any       *)
(* number of writes: reading by id gives every row that stays selected exactly   *)
(* once, reading by position drifts by a row for each write at most, and each    *)
(* numbers its rows by how many were given.                                     *)
EXTENDS ChunkPaging, FiniteSetTheorems, TLAPS

(* Disjoint sets add up.                                                        *)
LEMMA DisjointUnion ==
  ASSUME NEW V, NEW W, IsFiniteSet(V), IsFiniteSet(W), V \cap W = {}
  PROVE  /\ IsFiniteSet(V \cup W)
         /\ Cardinality(V) \in Nat /\ Cardinality(W) \in Nat
         /\ Cardinality(V \cup W) = Cardinality(V) + Cardinality(W)
<1>1. Cardinality(V) \in Nat /\ Cardinality(W) \in Nat /\ Cardinality({}) = 0
  BY FS_CardinalityType, FS_EmptySet
<1>2. /\ IsFiniteSet(V \cup W)
      /\ Cardinality(V \cup W) = Cardinality(V) + Cardinality(W) - Cardinality(V \cap W)
  BY FS_Union
<1>3. Cardinality(V \cap W) = 0
  BY <1>1, Zenon
<1> QED BY <1>1, <1>2, <1>3

(* A total as the number of its units: that is how totals are compared.          *)
Units(f, T) == {u \in T \X (Nat \ {0}) : u[2] <= f[u[1]]}

(* One summand less.                                                            *)
LEMMA UnitsAdd ==
  ASSUME NEW S, NEW f, NEW x \in S, f[x] \in Nat
  PROVE  /\ Units(f, S) = Units(f, S \ {x}) \cup ({x} \X (1 .. f[x]))
         /\ Units(f, S \ {x}) \cap ({x} \X (1 .. f[x])) = {}
         /\ IsFiniteSet({x} \X (1 .. f[x]))
         /\ Cardinality({x} \X (1 .. f[x])) = f[x]
<1>1. Units(f, S) = Units(f, S \ {x}) \cup ({x} \X (1 .. f[x]))
  BY DEF Units
<1>2. Units(f, S \ {x}) \cap ({x} \X (1 .. f[x])) = {}
  BY DEF Units
<1>3. /\ IsFiniteSet(1 .. f[x]) /\ Cardinality(1 .. f[x]) = f[x]
  BY FS_Interval
<1>4. IsFiniteSet({x}) /\ Cardinality({x}) = 1
  BY FS_Singleton
<1>5. IsFiniteSet({x} \X (1 .. f[x])) /\ Cardinality({x} \X (1 .. f[x])) = 1 * f[x]
  BY <1>3, <1>4, FS_Product
<1>6. Cardinality({x} \X (1 .. f[x])) = f[x]
  BY <1>5
<1> QED BY <1>1, <1>2, <1>5, <1>6, Zenon

(* A set of subsets of a finite set has a smallest member.                      *)
LEMMA SmallestSubset ==
  ASSUME NEW S, IsFiniteSet(S), NEW B \in SUBSET SUBSET S, B # {}
  PROVE  \E s \in B : \A t \in B : ~(t \subseteq s /\ t # s)
<1>1. FiniteSubsetsOf(S) = SUBSET S
  BY FS_FiniteSubsetsOfFinite
<1>2. IsWellFoundedOn(StrictSubsetOrdering(S), SUBSET S)
  BY <1>1, FS_StrictSubsetOrderingWellFounded
<1>3. \E s \in B : \A t \in B : ~(<<t, s>> \in StrictSubsetOrdering(S))
  BY <1>2, WFMin
<1> QED BY <1>3 DEF StrictSubsetOrdering

(* A finite set of naturals has finitely many units.                            *)
LEMMA UnitsFinite ==
  ASSUME NEW S, IsFiniteSet(S), NEW f, \A i \in S : f[i] \in Nat
  PROVE  IsFiniteSet(Units(f, S))
<1> DEFINE u == [i \in S |-> {i} \X (1 .. f[i])]
           U == {u[i] : i \in S}
<1>1. \A i \in S : IsFiniteSet({i} \X (1 .. f[i]))
  BY UnitsAdd
<1>2. u \in Surjection(S, U)
  BY DEF Surjection
<1>3. IsFiniteSet(U)
  BY <1>2, FS_Surjection
<1>4. Units(f, S) = UNION U
  <2>1. ASSUME NEW p \in Units(f, S) PROVE p \in UNION U
    <3>1. p[1] \in S /\ p \in u[p[1]]
      BY <2>1 DEF Units
    <3> QED BY <3>1
  <2>2. ASSUME NEW i \in S, NEW p \in u[i] PROVE p \in Units(f, S)
    BY <2>2 DEF Units
  <2> QED BY <2>1, <2>2
<1>5. \A T \in U : IsFiniteSet(T)
  BY <1>1
<1> HIDE DEF U
<1> QED BY <1>3, <1>4, <1>5, FS_UNION

(* The fold of Total ends with the number of units: the function that counts     *)
(* them satisfies the equation of the fold, and only one function does (two that *)
(* differed would differ on a smallest set).                                    *)
LEMMA TotalIsUnits ==
  ASSUME NEW S, IsFiniteSet(S), NEW f, \A i \in S : f[i] \in Nat
  PROVE  Total(f, S) = Cardinality(Units(f, S))
<1> DEFINE Step(h, s) == IF s = {} THEN 0
                         ELSE f[CHOOSE x \in s : TRUE] + h[s \ {CHOOSE x \in s : TRUE}]
           Eq(h) == h = [s \in SUBSET S |-> Step(h, s)]
           g == [s \in SUBSET S |-> Cardinality(Units(f, s))]
<1>1. Total(f, S) = (CHOOSE h : Eq(h))[S]
  BY DEF Total, MapThenSumSet, MapThenFoldSet
<1>2. ASSUME NEW s \in SUBSET S PROVE g[s] = Step(g, s)
  <2>1. CASE s = {}
    <3>1. Units(f, s) = {}
      BY <2>1 DEF Units
    <3> QED BY <2>1, <3>1, FS_EmptySet
  <2>2. CASE s # {}
    <3> DEFINE x == CHOOSE i \in s : TRUE
    <3>1. x \in s
      BY <2>2
    <3> HIDE DEF x
    <3>2. IsFiniteSet(s \ {x})
      BY FS_Subset
    <3>3. IsFiniteSet(Units(f, s \ {x}))
      BY <3>2, UnitsFinite
    <3>4. Cardinality(Units(f, s)) = f[x] + Cardinality(Units(f, s \ {x}))
      <4> DEFINE V == Units(f, s \ {x})
                 W == {x} \X (1 .. f[x])
      <4>1. Units(f, s) = V \cup W /\ V \cap W = {} /\ IsFiniteSet(W) /\ Cardinality(W) = f[x]
        BY <3>1, UnitsAdd
      <4> HIDE DEF V, W
      <4>2. Cardinality(V \cup W) = Cardinality(V) + Cardinality(W) /\ Cardinality(V) \in Nat
        BY <3>3, <4>1, DisjointUnion DEF V
      <4>3. f[x] \in Nat
        BY <3>1
      <4> QED BY <4>1, <4>2, <4>3 DEF V
    <3> QED BY <2>2, <3>4 DEF x
  <2> QED BY <2>1, <2>2
<1>3. Eq(g)
  <2> HIDE DEF Step
  <2> QED BY <1>2
<1>4. Eq(CHOOSE h : Eq(h))
  <2> HIDE DEF Eq
  <2> QED BY <1>3
<1>5. ASSUME NEW h, Eq(h) PROVE h[S] = g[S]
  <2> DEFINE B == {s \in SUBSET S : h[s] # g[s]}
  <2> SUFFICES ASSUME B # {} PROVE FALSE
    BY FS_FiniteSubsetsOfFinite
  <2>1. PICK s \in B : \A t \in B : ~(t \subseteq s /\ t # s)
    <3>1. B \in SUBSET SUBSET S
      OBVIOUS
    <3> HIDE DEF B
    <3> QED BY <3>1, SmallestSubset
  <2>2. h[s] = Step(h, s)
    <3> HIDE DEF Step
    <3> QED BY <1>5
  <2>3. g[s] = Step(g, s)
    BY <1>2
  <2>4. s # {} => h[s \ {CHOOSE x \in s : TRUE}] = g[s \ {CHOOSE x \in s : TRUE}]
    <3> SUFFICES ASSUME s # {}
                 PROVE  h[s \ {CHOOSE x \in s : TRUE}] = g[s \ {CHOOSE x \in s : TRUE}]
      OBVIOUS
    <3>1. (CHOOSE x \in s : TRUE) \in s
      OBVIOUS
    <3> DEFINE t == s \ {CHOOSE x \in s : TRUE}
    <3>2. t \in SUBSET S /\ t \subseteq s /\ t # s
      BY <3>1
    <3>3. t \notin B
      <4> HIDE DEF t, B
      <4> QED BY <2>1, <3>2
    <3> HIDE DEF t, g
    <3>4. h[t] = g[t]
      BY <3>2, <3>3
    <3> QED BY <3>4 DEF t
  <2> QED BY <2>2, <2>3, <2>4
<1> HIDE DEF Eq
<1>6. (CHOOSE h : Eq(h))[S] = g[S]
  BY <1>4, <1>5
<1> QED BY <1>1, <1>6

-------------------------------------------------------------------------------
USE PagingAssumption DEF null

(* Rows are put in a strict linear order, ascending or descending.              *)
LEMMA Order ==
  ASSUME TypeOK
  PROVE  /\ \A i, j \in Ids : ~(Before(i, j) /\ Before(j, i))
         /\ \A i, j \in Ids : i = j \/ Before(i, j) \/ Before(j, i)
         /\ \A i, j, k \in Ids : Before(i, j) /\ Before(j, k) => Before(i, k)
         /\ null \notin Ids
BY DEF TypeOK, Before

(* A page has at most Size rows, and when it has fewer nothing comes after it.   *)
LEMMA PageLength ==
  ASSUME TypeOK, NEW P \in SUBSET matching, IsPage(P)
  PROVE  /\ Cardinality(P) \in 0 .. Size
         /\ ById => P \subseteq {i \in matching : AfterLast(i)}
         /\ ById => \A i \in P, j \in matching \ P : AfterLast(j) => Before(i, j)
         /\ ById /\ Cardinality(P) # Size => P = {i \in matching : AfterLast(i)}
<1>1. IsFiniteSet(P)
  BY FS_Subset DEF TypeOK
<1>2. Cardinality(P) \in Nat
  BY <1>1, FS_CardinalityType
<1>3. CASE ById
  <2>1. IsFirst(P, Size, {i \in matching : AfterLast(i)})
    BY <1>3 DEF IsPage
  <2> QED
    BY <1>2, <2>1 DEF IsFirst
<1>4. CASE ~ById
  <2>1. PICK K \in SUBSET matching : IsFirst(P, Size, matching \ K)
    BY <1>4 DEF IsPage
  <2> QED
    BY <1>2, <1>4, <2>1 DEF IsFirst
<1> QED
  BY <1>3, <1>4

-------------------------------------------------------------------------------
(* The state of a reading keeps its type.                                       *)
THEOREM ReadingTypeCorrect == Spec => []TypeOK
<1>1. Init => TypeOK
  BY DEF Init, TypeOK
<1>2. TypeOK /\ [Next]_vars => TypeOK'
  <2> SUFFICES ASSUME TypeOK, [Next]_vars PROVE TypeOK'
    OBVIOUS
  <2>1. CASE Query
    <3>1. PICK P \in SUBSET matching :
            /\ IsPage(P) /\ batch' = P /\ length' = Cardinality(P)
            /\ \/ P = {} /\ UNCHANGED lastRow
               \/ \E i \in P : IsLast(i, P) /\ lastRow' = i
            /\ status' = IF P = {} THEN "done" ELSE IF Lazy THEN "yield" ELSE "callback"
      BY <2>1 DEF Query
    <3>2. length' \in 0 .. Size
      BY <3>1, PageLength
    <3>3. lastRow' \in Ids \union {null}
      BY <3>1 DEF IsLast, TypeOK
    <3>4. batch' \in SUBSET Ids /\ status' \in {"done", "yield", "callback"}
      BY <3>1 DEF TypeOK
    <3>5. UNCHANGED <<method, descending, keyed, page, lastId, seen, table>>
      BY <2>1 DEF Query
    <3> QED
      BY <3>2, <3>3, <3>4, <3>5 DEF TypeOK, table, Endings
  <2>2. ASSUME NEW goOn \in BOOLEAN, CallbackReturns(goOn) PROVE TypeOK'
    BY <2>2 DEF CallbackReturns, Give, Advance, TypeOK, table, Endings
  <2>3. CASE Yield
    BY <2>3 DEF Yield, Give, TypeOK, table
  <2>4. CASE PageYielded
    BY <2>4 DEF PageYielded, Advance, TypeOK, table, Endings
  <2>5. CASE Break
    BY <2>5 DEF Break, TypeOK, table, Endings
  <2>6. ASSUME NEW i \in Ids, Leave(i) \/ Enter(i) PROVE TypeOK'
    <3>1. UNCHANGED <<method, descending, keyed, reading>>
      BY <2>6 DEF Leave, Enter
    <3>2. CASE Leave(i)
      BY <3>1, <3>2 DEF Leave, TypeOK, reading
    <3>3. CASE Enter(i)
      BY <3>1, <3>3 DEF Enter, TypeOK, reading
    <3> QED
      BY <2>6, <3>2, <3>3
  <2>7. CASE UNCHANGED vars
    BY <2>7 DEF vars, reading, table, TypeOK
  <2> QED
    BY <2>1, <2>2, <2>3, <2>4, <2>5, <2>6, <2>7 DEF Next, Rest
<1> QED
  BY <1>1, <1>2, PTL DEF Spec

-------------------------------------------------------------------------------
(* The inductive invariant holds at the start.                                  *)
LEMMA ByIdInit == Init => ByIdInv
BY DEF Init, ByIdInv, ByIdOnce, ByIdComplete, ReadUpTo, Endings

(* A query takes the first rows after lastId: none was given before, and none of *)
(* those before its last row is left out.                                       *)
LEMMA ByIdQuery ==
  ASSUME TypeOK, ByIdInv, ById, Query
  PROVE  ByIdInv'
<1>1. PICK P \in SUBSET matching :
        /\ IsPage(P) /\ batch' = P /\ length' = Cardinality(P)
        /\ \/ P = {} /\ UNCHANGED lastRow
           \/ \E i \in P : IsLast(i, P) /\ lastRow' = i
        /\ status' = IF P = {} THEN "done" ELSE IF Lazy THEN "yield" ELSE "callback"
  BY DEF Query
<1>2. /\ UNCHANGED <<method, descending, keyed, lastId, seen, matching, steady>>
      /\ status = "query" /\ ById'
  BY DEF Query, table, ById
<1>3. ReadUpTo(lastId) /\ batch = {}
  BY <1>2 DEF ByIdInv
<1>4. /\ P \subseteq {i \in matching : AfterLast(i)}
      /\ \A i \in P, j \in matching \ P : AfterLast(j) => Before(i, j)
      /\ length' # Size => P = {i \in matching : AfterLast(i)}
  BY <1>1, PageLength
<1>5. \A i \in Ids : seen[i] > 0 => i \notin P
  BY <1>3, <1>4 DEF ReadUpTo, AfterLast
<1>6. \A i \in steady : AfterLast(i) \/ seen[i] > 0
  BY <1>3 DEF ReadUpTo, AfterLast, TypeOK
<1>7. ByIdOnce'
  BY <1>2 DEF ByIdInv, ByIdOnce, ById
<1>8. CASE P = {}
  <2>1. Cardinality(P) # Size
    BY <1>8, FS_EmptySet
  <2>2. \A i \in steady : seen[i] > 0
    BY <1>1, <1>4, <1>6, <1>8, <2>1 DEF TypeOK
  <2>3. \A i \in steady : seen[i] = 1
    BY <2>2 DEF TypeOK, ByIdInv, ByIdOnce
  <2> QED
    BY <1>1, <1>2, <1>7, <1>8, <2>3 DEF ByIdInv, ByIdComplete
<1>9. CASE P # {}
  <2>1. PICK l \in P : IsLast(l, P) /\ lastRow' = l
    BY <1>1, <1>9
  <2>2. status' \in {"callback", "yield"}
    BY <1>1, <1>9
  <2>3. lastRow' # null /\ l \in Ids
    BY <2>1 DEF TypeOK
  <2>4. \A i \in P : ~Before(l, i)
    BY <2>1, Order DEF IsLast, TypeOK
  <2>5. \A i \in Ids : seen[i] > 0 => ~Before(l, i)
    <3>1. \A i \in Ids : seen[i] > 0 => lastId # null /\ ~Before(lastId, i)
      BY <1>3 DEF ReadUpTo
    <3>2. lastId # null => lastId \in Ids /\ Before(lastId, l)
      BY <1>4, <2>1 DEF AfterLast, TypeOK
    <3> QED
      BY <2>3, <3>1, <3>2, Order
  <2>6. \A i \in steady : ~Before(l, i) => seen[i] > 0 \/ i \in P
    <3> SUFFICES ASSUME NEW i \in steady, ~Before(l, i), seen[i] = 0, i \notin P
                 PROVE  FALSE
      BY DEF TypeOK
    <3>1. AfterLast(i) /\ i \in matching
      BY <1>6 DEF TypeOK
    <3> QED
      BY <1>4, <2>1, <3>1
  <2>7. length' # Size => \A i \in steady : seen[i] > 0 \/ i \in P
    BY <1>4, <1>6 DEF TypeOK
  <2>8. ReadUpTo(lastRow)'
    BY <1>1, <1>2, <1>5, <2>1, <2>3, <2>5, <2>6 DEF ReadUpTo, Before
  <2> QED
    BY <1>1, <1>2, <1>7, <2>1, <2>2, <2>3, <2>4, <2>7, <2>8
       DEF ByIdInv, ByIdComplete, ById, Before
<1> QED
  BY <1>8, <1>9

(* A page is done: what was to be read up to its last row was given.            *)
LEMMA ByIdAdvance ==
  ASSUME TypeOK, TypeOK', ById, status \in {"callback", "yield"}, Advance, batch' = {},
         UNCHANGED <<method, descending, keyed, matching, steady>>,
         lastRow # null,
         \A i \in Ids : seen'[i] <= 1,
         \A i \in Ids : seen'[i] > 0 => ~Before(lastRow, i),
         \A i \in steady : ~Before(lastRow, i) => seen'[i] > 0,
         length # Size => \A i \in steady : seen'[i] > 0
  PROVE  ByIdInv'
<1>1. ById' /\ ByIdOnce'
  BY DEF ById, ByIdOnce
<1>2. status' = "done" => \A i \in steady : seen'[i] = 1
  <2>1. status' = "done" => length # Size
    BY DEF Advance, LastPage
  <2> QED
    BY <2>1 DEF TypeOK
<1>3. status' = "query" => keyed /\ lastId' = lastRow
  BY DEF Advance, LastPage, TypeOK
<1>4. status' = "query" => ReadUpTo(lastId)'
  BY <1>3 DEF ReadUpTo, Before
<1>5. status' \in {"query", "done", "aborted"}
  BY DEF Advance
<1> QED
  BY <1>1, <1>2, <1>3, <1>4, <1>5 DEF ByIdInv, ByIdComplete

(* The callback was given the whole page, and the next one is read or not.      *)
LEMMA ByIdCallback ==
  ASSUME TypeOK, TypeOK', ByIdInv, ById, NEW goOn \in BOOLEAN, CallbackReturns(goOn)
  PROVE  ByIdInv'
<1>1. /\ status = "callback" /\ batch' = {} /\ Give(batch)
      /\ UNCHANGED <<method, descending, keyed, matching, steady>>
  BY DEF CallbackReturns, table
<1>2. /\ ReadUpTo(lastRow) /\ lastRow # null
      /\ \A i \in batch : ~Before(lastRow, i)
      /\ length # Size => \A i \in steady : seen[i] > 0 \/ i \in batch
  BY <1>1 DEF ByIdInv
<1>3. \A i \in Ids : seen'[i] = IF i \in batch THEN seen[i] + 1 ELSE seen[i]
  BY <1>1 DEF Give, TypeOK
<1>4. \A i \in Ids : seen'[i] <= 1
  BY <1>2, <1>3 DEF ReadUpTo, ByIdInv, ByIdOnce, TypeOK
<1>5. CASE goOn
  <2>1. \A i \in Ids : seen'[i] > 0 => ~Before(lastRow, i)
    BY <1>2, <1>3 DEF ReadUpTo, TypeOK
  <2>2. \A i \in steady : ~Before(lastRow, i) => seen'[i] > 0
    BY <1>2, <1>3 DEF ReadUpTo, TypeOK
  <2>3. length # Size => \A i \in steady : seen'[i] > 0
    BY <1>2, <1>3 DEF TypeOK
  <2>4. Advance
    BY <1>5 DEF CallbackReturns
  <2> QED
    BY <1>1, <1>2, <1>4, <2>1, <2>2, <2>3, <2>4, ByIdAdvance
<1>6. CASE ~goOn
  <2>1. status' = "stopped"
    BY <1>6 DEF CallbackReturns
  <2> QED
    BY <1>4, <2>1 DEF ByIdInv, ByIdOnce, ByIdComplete
<1> QED
  BY <1>5, <1>6

(* A row moves from the batch to the program.                                   *)
LEMMA ByIdYield ==
  ASSUME TypeOK, TypeOK', ByIdInv, ById, Yield
  PROVE  ByIdInv'
<1>1. PICK k \in batch : Give({k}) /\ batch' = batch \ {k}
  BY DEF Yield
<1>2. /\ status = "yield" /\ k \in Ids
      /\ UNCHANGED <<method, descending, keyed, matching, steady, lastId, lastRow, length, status>>
  BY <1>1 DEF Yield, table, TypeOK
<1>3. /\ ReadUpTo(lastRow) /\ lastRow # null
      /\ \A i \in batch : ~Before(lastRow, i)
      /\ length # Size => \A i \in steady : seen[i] > 0 \/ i \in batch
  BY <1>2 DEF ByIdInv
<1>4. \A i \in Ids : seen'[i] = IF i = k THEN seen[i] + 1 ELSE seen[i]
  BY <1>1 DEF Give, TypeOK
<1>5. seen[k] = 0
  BY <1>1, <1>2, <1>3 DEF ReadUpTo, TypeOK
<1>6. ByIdOnce'
  BY <1>2, <1>4, <1>5 DEF ByIdInv, ByIdOnce, ById
<1>7. ReadUpTo(lastRow)'
  <2>1. \A i \in Ids : seen'[i] > 0 => i \notin batch' /\ lastRow # null /\ ~Before(lastRow, i)
    BY <1>1, <1>3, <1>4, <1>5 DEF ReadUpTo
  <2>2. \A i \in Ids : i \in steady /\ ~Before(lastRow, i) => seen'[i] > 0 \/ i \in batch'
    BY <1>1, <1>3, <1>4, <1>5 DEF ReadUpTo
  <2> QED
    BY <1>2, <2>1, <2>2 DEF ReadUpTo, Before
<1>8. length # Size => \A i \in steady : seen'[i] > 0 \/ i \in batch'
  BY <1>1, <1>3, <1>4, <1>5 DEF TypeOK
<1> QED
  BY <1>1, <1>2, <1>3, <1>6, <1>7, <1>8 DEF ByIdInv, ByIdComplete, ById, Before

(* The generator is asked for more than the page had.                           *)
LEMMA ByIdPageYielded ==
  ASSUME TypeOK, TypeOK', ByIdInv, ById, PageYielded
  PROVE  ByIdInv'
<1>1. /\ status = "yield" /\ batch = {} /\ batch' = {} /\ Advance /\ seen' = seen
      /\ UNCHANGED <<method, descending, keyed, matching, steady>>
  BY DEF PageYielded, table
<1>2. /\ ReadUpTo(lastRow) /\ lastRow # null
      /\ length # Size => \A i \in steady : seen[i] > 0 \/ i \in batch
  BY <1>1 DEF ByIdInv
<1>3. \A i \in Ids : seen'[i] <= 1
  BY <1>1 DEF ByIdInv, ByIdOnce
<1>4. \A i \in Ids : seen'[i] > 0 => ~Before(lastRow, i)
  BY <1>1, <1>2 DEF ReadUpTo
<1>5. \A i \in steady : ~Before(lastRow, i) => seen'[i] > 0
  BY <1>1, <1>2 DEF ReadUpTo, TypeOK
<1>6. length # Size => \A i \in steady : seen'[i] > 0
  BY <1>1, <1>2
<1> QED
  BY <1>1, <1>2, <1>3, <1>4, <1>5, <1>6, ByIdAdvance

(* A row that leaves is not steady any more, one that enters never was.          *)
LEMMA ByIdWrite ==
  ASSUME TypeOK, ByIdInv, NEW i \in Ids, Leave(i) \/ Enter(i)
  PROVE  ByIdInv'
<1>1. /\ UNCHANGED <<method, descending, keyed, reading>>
      /\ steady' \subseteq steady
  BY DEF Leave, Enter
<1> QED
  BY <1>1 DEF ByIdInv, ByIdOnce, ByIdComplete, ById, ReadUpTo, Before, reading

-------------------------------------------------------------------------------
(* Reading by id, ByIdInv is an invariant.                                      *)
THEOREM ByIdInvariant == Spec => []ByIdInv
<1>1. TypeOK /\ TypeOK' /\ ByIdInv /\ [Next]_vars => ByIdInv'
  <2> SUFFICES ASSUME TypeOK, TypeOK', ByIdInv, [Next]_vars PROVE ByIdInv'
    OBVIOUS
  <2>1. CASE ~ById /\ UNCHANGED method
    BY <2>1 DEF ByIdInv, ByIdOnce, ByIdComplete, ById
  <2>2. CASE Query
    BY <2>1, <2>2, ByIdQuery DEF Query
  <2>3. ASSUME NEW goOn \in BOOLEAN, CallbackReturns(goOn) PROVE ByIdInv'
    BY <2>1, <2>3, ByIdCallback DEF CallbackReturns
  <2>4. CASE Yield
    BY <2>1, <2>4, ByIdYield DEF Yield
  <2>5. CASE PageYielded
    BY <2>1, <2>5, ByIdPageYielded DEF PageYielded
  <2>6. CASE Break
    BY <2>6 DEF Break, ByIdInv, ByIdOnce, ByIdComplete, ById
  <2>7. ASSUME NEW i \in Ids, Leave(i) \/ Enter(i) PROVE ByIdInv'
    BY <2>7, ByIdWrite
  <2>8. CASE UNCHANGED vars
    BY <2>8 DEF vars, reading, table, ByIdInv, ByIdOnce, ByIdComplete, ById, ReadUpTo, Before
  <2> QED
    BY <2>2, <2>3, <2>4, <2>5, <2>6, <2>7, <2>8 DEF Next, Rest
<1> QED
  BY <1>1, ByIdInit, ReadingTypeCorrect, PTL DEF Spec

(* BUILDER.md: reading by id, a row is given once at most, whatever is written.  *)
THEOREM NoRowTwice == Spec => []ByIdOnce
<1>1. ByIdInv => ByIdOnce
  BY DEF ByIdInv
<1> QED
  BY <1>1, ByIdInvariant, PTL

(* And once at least, when it stays selected and the reading goes to the end.    *)
THEOREM NoRowMissed == Spec => []ByIdComplete
<1>1. ByIdInv => ByIdComplete
  BY DEF ByIdInv
<1> QED
  BY <1>1, ByIdInvariant, PTL

-------------------------------------------------------------------------------
(* What is given twice and more, counted by its units.                          *)
Extra(f) == {u \in Ids \X (Nat \ {0}) : u[2] < f[u[1]]}

LEMMA TwiceIsExtra ==
  ASSUME NEW f \in [Ids -> Nat]
  PROVE  /\ IsFiniteSet(Extra(f)) /\ Cardinality(Extra(f)) \in Nat
         /\ TwiceAndMore(f) = Cardinality(Extra(f))
<1> DEFINE S == {i \in Ids : f[i] > 1}
           g == [i \in Ids |-> f[i] - 1]
<1>1. IsFiniteSet(S) /\ \A i \in S : g[i] \in Nat
  BY FS_Subset
<1>2. Units(g, S) = Extra(f)
  <2>1. ASSUME NEW u \in Units(g, S) PROVE u \in Extra(f)
    <3>1. u[1] \in S /\ u[2] \in Nat \ {0} /\ u[2] <= g[u[1]] /\ u = <<u[1], u[2]>>
      BY <2>1 DEF Units
    <3>2. u[1] \in Ids /\ u[2] < f[u[1]]
      BY <3>1
    <3> QED BY <3>1, <3>2 DEF Extra
  <2>2. ASSUME NEW u \in Extra(f) PROVE u \in Units(g, S)
    <3>1. u[1] \in Ids /\ u[2] \in Nat \ {0} /\ u[2] < f[u[1]] /\ u = <<u[1], u[2]>>
      BY <2>2 DEF Extra
    <3>2. u[1] \in S /\ u[2] <= g[u[1]]
      BY <3>1
    <3> QED BY <3>1, <3>2 DEF Units
  <2> QED BY <2>1, <2>2
<1>3. TwiceAndMore(f) = Total(g, S)
  BY DEF TwiceAndMore
<1> HIDE DEF g, S
<1>4. IsFiniteSet(Units(g, S)) /\ Total(g, S) = Cardinality(Units(g, S))
  BY <1>1, UnitsFinite, TotalIsUnits
<1> QED BY <1>2, <1>3, <1>4, FS_CardinalityType

(* Less given is less given twice.                                              *)
LEMMA TwiceGrows ==
  ASSUME NEW f \in [Ids -> Nat], NEW g \in [Ids -> Nat], \A i \in Ids : f[i] <= g[i]
  PROVE  TwiceAndMore(f) <= TwiceAndMore(g)
<1>1. ASSUME NEW u \in Extra(f) PROVE u \in Extra(g)
  <2>1. u[1] \in Ids /\ u[2] \in Nat \ {0} /\ u[2] < f[u[1]] /\ u = <<u[1], u[2]>>
    BY <1>1 DEF Extra
  <2>2. u[2] < g[u[1]]
    BY <2>1
  <2> QED BY <2>1, <2>2 DEF Extra
<1> QED BY <1>1, TwiceIsExtra, FS_Subset

(* A page gives its rows once more.                                             *)
LEMMA OnceMore ==
  ASSUME NEW P \in SUBSET Ids, NEW f \in [P -> Nat]
  PROVE  LET U == {u \in P \X Nat : u[2] = f[u[1]]}
         IN  IsFiniteSet(U) /\ Cardinality(U) = Cardinality(P)
<1> DEFINE U == {u \in P \X Nat : u[2] = f[u[1]]}
           b == [i \in P |-> <<i, f[i]>>]
<1>1. b \in Bijection(P, U)
  <2>1. b \in [P -> U]
    OBVIOUS
  <2>2. \A i, j \in P : b[i] = b[j] => i = j
    OBVIOUS
  <2>3. \A u \in U : u[1] \in P /\ b[u[1]] = u
    OBVIOUS
  <2> QED BY <2>1, <2>2, <2>3 DEF Bijection, Injection, Surjection, IsInjective
<1>2. IsFiniteSet(P)
  BY FS_Subset
<1> QED BY <1>1, <1>2, FS_Bijection DEF ExistsBijection

(* A set of rows that is not empty has a last and a first one.                   *)
LEMMA Extremes ==
  ASSUME TypeOK, NEW S \in SUBSET Ids, S # {}
  PROVE  /\ \E i \in S : \A j \in S \ {i} : Before(j, i)
         /\ \E i \in S : \A j \in S \ {i} : Before(i, j)
<1> DEFINE after(i) == {j \in S : Before(i, j)}
           before(i) == {j \in S : Before(j, i)}
<1>1. IsFiniteSet(S)
  BY FS_Subset
<1>2. \E i \in S : \A j \in S \ {i} : Before(j, i)
  <2> DEFINE B == {after(i) : i \in S}
  <2>1. B \in SUBSET SUBSET S /\ B # {}
    OBVIOUS
  <2>2. PICK s \in B : \A t \in B : ~(t \subseteq s /\ t # s)
    <3> HIDE DEF B
    <3>1. IsFiniteSet(S) /\ B \in SUBSET SUBSET S /\ B # {}
      BY <1>1, <2>1
    <3> QED BY ONLY <3>1, SmallestSubset
  <2>3. PICK i \in S : s = after(i)
    BY <2>2
  <2>4. ASSUME NEW j \in S, Before(i, j) PROVE FALSE
    <3>1. after(j) \subseteq after(i) /\ j \in after(i) /\ j \notin after(j)
      BY <2>4, Order
    <3> QED BY <2>2, <2>3, <3>1
  <2> QED BY <2>4, Order
<1>3. \E i \in S : \A j \in S \ {i} : Before(i, j)
  <2> DEFINE B == {before(i) : i \in S}
  <2>1. B \in SUBSET SUBSET S /\ B # {}
    OBVIOUS
  <2>2. PICK s \in B : \A t \in B : ~(t \subseteq s /\ t # s)
    <3> HIDE DEF B
    <3>1. IsFiniteSet(S) /\ B \in SUBSET SUBSET S /\ B # {}
      BY <1>1, <2>1
    <3> QED BY ONLY <3>1, SmallestSubset
  <2>3. PICK i \in S : s = before(i)
    BY <2>2
  <2>4. ASSUME NEW j \in S, Before(j, i) PROVE FALSE
    <3>1. before(j) \subseteq before(i) /\ j \in before(i) /\ j \notin before(j)
      BY <2>4, Order
    <3> QED BY <2>2, <2>3, <3>1
  <2> QED BY <2>4, Order
<1> QED BY <1>2, <1>3

(* There is one set of the first n rows.                                        *)
LEMMA OneFirst ==
  ASSUME TypeOK, NEW S \in SUBSET Ids, NEW n \in Nat,
         NEW F, NEW K, IsFirst(F, n, S), IsFirst(K, n, S)
  PROVE  F = K
<1>1. IsFiniteSet(F) /\ IsFiniteSet(K) /\ F \subseteq S /\ K \subseteq S
  BY FS_Subset DEF IsFirst
<1>2. Cardinality(F) \in Nat /\ Cardinality(K) \in Nat
  BY <1>1, FS_CardinalityType
<1>3. F \subseteq K \/ K \subseteq F
  BY Order DEF IsFirst
<1>4. Cardinality(F) <= n /\ Cardinality(K) <= n
  BY <1>2 DEF IsFirst
<1>5. CASE F \subseteq K
  <2>1. Cardinality(F) <= Cardinality(K) /\ (Cardinality(K) = Cardinality(F) => K = F)
    BY <1>1, <1>5, FS_Subset
  <2>2. CASE Cardinality(F) = n
    BY <1>2, <1>4, <2>1, <2>2
  <2>3. CASE F = S
    BY <1>1, <1>5, <2>3
  <2> QED BY <2>2, <2>3 DEF IsFirst
<1>6. CASE K \subseteq F
  <2>1. Cardinality(K) <= Cardinality(F) /\ (Cardinality(F) = Cardinality(K) => F = K)
    BY <1>1, <1>6, FS_Subset
  <2>2. CASE Cardinality(K) = n
    BY <1>2, <1>4, <2>1, <2>2
  <2>3. CASE K = S
    BY <1>1, <1>6, <2>3
  <2> QED BY <2>2, <2>3 DEF IsFirst
<1> QED BY <1>3, <1>5, <1>6

(* The position after one more page.                                            *)
LEMMA NextPosition ==
  ASSUME NEW p \in Nat \ {0}
  PROVE  (p - 1) * Size \in Nat /\ p * Size \in Nat /\ p * Size = (p - 1) * Size + Size
<1>1. p * Size = (p - 1) * Size + Size
  OBVIOUS
<1>2. (p - 1) * Size \in Nat /\ p * Size \in Nat
  OBVIOUS
<1> QED BY <1>1, <1>2

LEMMA DueType ==
  ASSUME TypeOK
  PROVE  Due \in [Ids -> Nat] /\ \A i \in Ids : seen[i] <= Due[i]
BY DEF TypeOK, Due

LEMMA OffsetInit ==
  ASSUME Init
  PROVE  OffsetInv
<1>1. TypeOK /\ Due = seen /\ seen = [i \in Ids |-> 0] /\ page = 1 /\ left = 0 /\ entered = 0
      /\ status = "query" /\ batch = {} /\ matching \subseteq Ids
  BY DEF Init, TypeOK, Due
<1>2. TwiceAndMore(seen) = 0
  <2>1. Extra(seen) = {}
    BY <1>1 DEF Extra
  <2> QED BY <1>1, <2>1, TwiceIsExtra, FS_EmptySet
<1>3. Drifted({})
  <2>1. Position = 0
    BY <1>1 DEF Position
  <2>2. {i \in steady \cap {} : Due[i] = 0} = {} /\ {i \in matching \ {} : Due[i] > 0} = {}
    <3>1. \A i \in matching : ~(Due[i] > 0)
      BY <1>1
    <3> QED BY <3>1
  <2>3. Cardinality({}) = 0
    BY FS_EmptySet
  <2>4. IsFirst({}, Position, matching)
    BY <2>1, <2>3 DEF IsFirst
  <2>5. /\ Cardinality({i \in steady \cap {} : Due[i] = 0}) = 0
        /\ Cardinality({i \in matching \ {} : Due[i] > 0}) = 0
    BY <2>2, <2>3, Zenon
  <2> QED BY <1>1, <1>2, <2>4, <2>5 DEF Drifted
<1> QED BY <1>1, <1>2, <1>3 DEF OffsetInv, OffsetDrift, Repeats

(* The next page: its rows are due now, those among them that were given before   *)
(* were expected behind the position.                                           *)
LEMMA OffsetQuery ==
  ASSUME TypeOK, TypeOK', OffsetInv, ~ById, Query
  PROVE  OffsetInv'
<1> DEFINE off == (page - 1) * Size
<1>1. PICK P \in SUBSET matching :
        /\ IsPage(P) /\ batch' = P /\ length' = Cardinality(P)
        /\ status' = IF P = {} THEN "done" ELSE IF Lazy THEN "yield" ELSE "callback"
  BY DEF Query
<1>2. /\ status = "query" /\ batch = {} /\ ~ById' /\ Position = off
      /\ UNCHANGED <<method, descending, keyed, page, lastId, seen, matching, steady, left, entered>>
  BY DEF Query, table, ById, OffsetInv, Position
<1>3. PICK F \in SUBSET matching : Drifted(F)
  BY <1>2 DEF OffsetInv
<1>4. IsFirst(P, Size, matching \ F)
  <2>1. PICK K \in SUBSET matching : IsFirst(K, off, matching) /\ IsFirst(P, Size, matching \ K)
    BY <1>1 DEF IsPage, Offset
  <2>2. off \in Nat /\ matching \in SUBSET Ids
    BY NextPosition DEF TypeOK
  <2>3. K = F
    BY <1>2, <1>3, <2>1, <2>2, OneFirst DEF Drifted
  <2> QED BY <2>1, <2>3
<1>5. /\ off \in Nat /\ page * Size = off + Size
      /\ Cardinality(P) \in Nat /\ Cardinality(F) \in Nat
      /\ F \cap P = {} /\ IsFiniteSet(F) /\ IsFiniteSet(P)
      /\ Cardinality(F \cup P) = Cardinality(F) + Cardinality(P)
  <2>1. IsFiniteSet(F) /\ IsFiniteSet(P) /\ F \cap P = {}
    BY <1>4, FS_Subset DEF TypeOK, IsFirst
  <2>2. off \in Nat /\ page * Size = off + Size
    BY NextPosition DEF TypeOK
  <2> QED BY <2>1, <2>2, DisjointUnion
<1>6. IsFirst(F \cup P, page * Size, matching)
  <2>1. F \cup P \subseteq matching /\ \A i \in F \cup P, j \in matching \ (F \cup P) : Before(i, j)
    BY <1>3, <1>4 DEF Drifted, IsFirst
  <2>2. \/ Cardinality(F) = off
        \/ Cardinality(F) < off /\ F = matching
    BY <1>2, <1>3 DEF Drifted, IsFirst
  <2>3. \/ Cardinality(P) = Size
        \/ Cardinality(P) < Size /\ P = matching \ F
    BY <1>4 DEF IsFirst
  <2>4. CASE Cardinality(F) < off /\ F = matching
    <3>1. P = {}
      BY <1>4, <2>4 DEF IsFirst
    <3>2. F \cup P = matching /\ Cardinality(P) = 0
      BY <2>4, <3>1, FS_EmptySet
    <3>3. Cardinality(F \cup P) < page * Size
      BY <1>5, <2>4, <3>2
    <3> QED BY <2>1, <3>2, <3>3 DEF IsFirst
  <2>5. CASE Cardinality(F) = off /\ Cardinality(P) = Size
    <3>1. Cardinality(F \cup P) = page * Size
      BY <1>5, <2>5
    <3> QED BY <2>1, <3>1 DEF IsFirst
  <2>6. CASE Cardinality(F) = off /\ Cardinality(P) < Size /\ P = matching \ F
    <3>1. Cardinality(F \cup P) < page * Size /\ F \cup P = matching
      BY <1>5, <2>6
    <3> QED BY <2>1, <3>1 DEF IsFirst
  <2> QED BY <2>2, <2>3, <2>4, <2>5, <2>6
<1>7. /\ Due = seen /\ Due \in [Ids -> Nat] /\ Due' \in [Ids -> Nat]
      /\ \A i \in Ids : Due'[i] = IF i \in P THEN Due[i] + 1 ELSE Due[i]
  BY <1>1, <1>2 DEF Due, TypeOK
<1>8. {i \in steady \cap (F \cup P) : Due'[i] = 0} = {i \in steady \cap F : Due[i] = 0}
  <2>1. \A i \in P : Due'[i] # 0
    BY <1>7 DEF TypeOK
  <2>2. \A i \in matching \ P : Due'[i] = Due[i]
    BY <1>7 DEF TypeOK
  <2>3. \A i \in F : i \notin P
    BY <1>5
  <2> QED BY <2>1, <2>2, <2>3
<1> DEFINE R == {i \in P : Due[i] > 0}
           B == {i \in matching \ F : Due[i] > 0}
           A == {i \in matching \ (F \cup P) : Due'[i] > 0}
<1>9. Cardinality(B) = Cardinality(R) + Cardinality(A) /\ Cardinality(R) \in Nat /\ Cardinality(A) \in Nat
  <2>1. B = R \cup A /\ R \cap A = {}
    BY <1>4, <1>7 DEF TypeOK, IsFirst
  <2>2. IsFiniteSet(R) /\ IsFiniteSet(A)
    BY FS_Subset DEF TypeOK
  <2> HIDE DEF R, A, B
  <2> QED BY <2>1, <2>2, DisjointUnion
<1>10. TwiceAndMore(Due') = TwiceAndMore(Due) + Cardinality(R)
  <2> DEFINE f == [i \in R |-> Due[i]]
             U == {u \in R \X Nat : u[2] = f[u[1]]}
  <2>1. f \in [R -> Nat] /\ R \in SUBSET Ids
    BY <1>7 DEF TypeOK
  <2>2. IsFiniteSet(U) /\ Cardinality(U) = Cardinality(R)
    <3> HIDE DEF R, f
    <3> QED BY <2>1, OnceMore
  <2>3. Extra(Due') = Extra(Due) \cup U /\ Extra(Due) \cap U = {}
    <3>1. ASSUME NEW u \in Extra(Due') PROVE u \in Extra(Due) \cup U
      <4>1. u[1] \in Ids /\ u[2] \in Nat \ {0} /\ u[2] < Due'[u[1]] /\ u = <<u[1], u[2]>>
        BY <3>1 DEF Extra
      <4>2. CASE u[2] < Due[u[1]]
        BY <4>1, <4>2 DEF Extra
      <4>3. CASE ~(u[2] < Due[u[1]])
        <5>1. u[1] \in R /\ u[2] = Due[u[1]]
          BY <1>7, <4>1, <4>3
        <5> QED BY <4>1, <5>1
      <4> QED BY <4>2, <4>3
    <3>2. ASSUME NEW u \in Extra(Due) PROVE u \in Extra(Due') /\ u \notin U
      <4>1. u[1] \in Ids /\ u[2] \in Nat \ {0} /\ u[2] < Due[u[1]] /\ u = <<u[1], u[2]>>
        BY <3>2 DEF Extra
      <4>2. u[2] < Due'[u[1]]
        BY <1>7, <4>1
      <4> QED BY <1>7, <4>1, <4>2 DEF Extra
    <3>3. ASSUME NEW u \in U PROVE u \in Extra(Due')
      <4>1. u[1] \in P /\ u[1] \in Ids /\ u[2] = Due[u[1]] /\ u[2] \in Nat \ {0} /\ u = <<u[1], u[2]>>
        BY <1>7, <3>3, <2>1
      <4>2. u[2] < Due'[u[1]]
        BY ONLY <1>7, <4>1
      <4> QED BY <4>1, <4>2 DEF Extra
    <3> QED BY <3>1, <3>2, <3>3
  <2> HIDE DEF U, R
  <2>4. Cardinality(Extra(Due')) = Cardinality(Extra(Due)) + Cardinality(U)
    BY <1>7, <2>2, <2>3, DisjointUnion, TwiceIsExtra
  <2> QED BY <1>7, <2>2, <2>4, TwiceIsExtra
<1>11. TwiceAndMore(Due) \in Nat /\ left \in Nat /\ entered \in Nat
  BY <1>7, TwiceIsExtra DEF TypeOK
<1>12. TwiceAndMore(Due') + Cardinality(A) <= entered
  BY <1>3, <1>9, <1>10, <1>11 DEF Drifted
<1>13. Cardinality({i \in steady \cap (F \cup P) : Due'[i] = 0}) <= left
  BY <1>3, <1>8 DEF Drifted
<1>14. TwiceAndMore(Due') <= entered
  <2>1. TwiceAndMore(Due') \in Nat
    BY <1>7, TwiceIsExtra
  <2> QED BY <1>9, <1>11, <1>12, <2>1
<1>15. Repeats' <= entered
  <2>1. Repeats' = TwiceAndMore(Due)
    BY <1>2, <1>7 DEF Repeats, TwiceAndMore
  <2> QED BY <1>9, <1>10, <1>11, <1>14, <2>1
<1>16. length' # Size => Cardinality({i \in steady : Due'[i] = 0}) <= left
  <2> SUFFICES ASSUME length' # Size PROVE Cardinality({i \in steady : Due'[i] = 0}) <= left
    OBVIOUS
  <2>1. P = matching \ F
    BY <1>1, <1>4 DEF IsFirst
  <2>2. {i \in steady : Due'[i] = 0} = {i \in steady \cap (F \cup P) : Due'[i] = 0}
    BY <1>3, <2>1 DEF TypeOK
  <2> QED BY <1>13, <2>2
<1>17. CASE P = {}
  <2>1. status' = "done" /\ length' # Size
    BY <1>1, <1>17, FS_EmptySet
  <2>2. {i \in steady : Due'[i] = 0} = Missed'
    BY <1>2, <1>7, <1>17 DEF Missed, TypeOK
  <2> QED BY <1>2, <1>14, <1>15, <1>16, <2>1, <2>2 DEF OffsetInv, OffsetDrift
<1>18. CASE P # {}
  <2>1. status' \in {"callback", "yield"}
    BY <1>1, <1>18
  <2>2. Drifted(F \cup P)'
    <3>1. Position' = page * Size
      BY <1>2, <2>1 DEF Position
    <3>2. IsFirst(F \cup P, Position, matching)'
      BY <1>2, <1>6, <3>1 DEF IsFirst, Before
    <3> QED BY <1>2, <1>12, <1>13, <3>2 DEF Drifted
  <2>3. F \cup P \in SUBSET matching'
    BY <1>2
  <2> QED BY <1>2, <1>14, <1>15, <1>16, <2>1, <2>2, <2>3 DEF OffsetInv, OffsetDrift
<1> QED BY <1>17, <1>18

(* What gives rows of the page, or ends it, changes nothing of what is due.       *)
LEMMA OffsetSameDue ==
  ASSUME TypeOK, TypeOK', OffsetInv, ~ById, status \in {"callback", "yield"}, Due' = Due,
         UNCHANGED <<method, descending, matching, steady, left, entered, length>>,
         status' = "query" => batch' = {},
         status' \in {"query", "callback", "yield"} => Position' = Position,
         status' = "done" => length # Size /\ batch' = {}
  PROVE  OffsetInv'
<1>1. /\ Due \in [Ids -> Nat] /\ Due' \in [Ids -> Nat] /\ seen' \in [Ids -> Nat]
      /\ \A i \in Ids : seen'[i] <= Due'[i]
  BY DueType DEF TypeOK, Due
<1>2. TwiceAndMore(Due') = TwiceAndMore(Due) /\ TwiceAndMore(Due) \in Nat /\ entered \in Nat
  BY <1>1, TwiceIsExtra DEF TypeOK
<1>3. Repeats' <= entered
  <2>1. Repeats' = TwiceAndMore(seen')
    BY DEF Repeats, TwiceAndMore
  <2>2. TwiceAndMore(seen') <= TwiceAndMore(Due') /\ TwiceAndMore(seen') \in Nat
    BY <1>1, TwiceGrows, TwiceIsExtra
  <2> QED BY <1>2, <2>1, <2>2 DEF OffsetInv
<1>4. status' = "done" => Cardinality(Missed') <= left
  <2> SUFFICES ASSUME status' = "done" PROVE Cardinality(Missed') <= left
    OBVIOUS
  <2>1. Due' = seen' /\ steady \subseteq Ids
    BY DEF Due, TypeOK
  <2>2. Missed' = {i \in steady : Due[i] = 0}
    BY <2>1 DEF Missed
  <2> QED BY <2>2 DEF OffsetInv
<1>5. ASSUME status' \in {"query", "callback", "yield"}, NEW F \in SUBSET matching, Drifted(F)
      PROVE  Drifted(F)'
  <2>1. IsFirst(F, Position, matching)'
    BY <1>5 DEF Drifted, IsFirst, Before
  <2> QED BY <1>2, <1>5, <2>1 DEF Drifted
<1> QED BY <1>2, <1>3, <1>4, <1>5 DEF OffsetInv, OffsetDrift, ById

(* The callback was given the page.                                             *)
LEMMA OffsetCallback ==
  ASSUME TypeOK, TypeOK', OffsetInv, ~ById, NEW goOn \in BOOLEAN, CallbackReturns(goOn)
  PROVE  OffsetInv'
<1>1. /\ status = "callback" /\ batch' = {} /\ Give(batch)
      /\ UNCHANGED <<method, descending, matching, steady, left, entered, length>>
  BY DEF CallbackReturns, table
<1>2. Due' = Due
  BY <1>1 DEF Due, Give, TypeOK
<1>3. CASE goOn
  <2>1. Advance
    BY <1>3 DEF CallbackReturns
  <2>2. /\ page' = page + 1
        /\ \/ status' = "done" /\ length # Size
           \/ status' = "query"
    BY <2>1 DEF Advance, LastPage
  <2>3. status' = "query" => Position' = Position
    BY <1>1, <2>2 DEF Position, TypeOK
  <2> QED BY <1>1, <1>2, <2>2, <2>3, OffsetSameDue
<1>4. CASE ~goOn
  <2>1. status' = "stopped"
    BY <1>4 DEF CallbackReturns
  <2> QED BY <1>1, <1>2, <2>1, OffsetSameDue
<1> QED BY <1>3, <1>4

(* A generator gives one row, ends its page, or is closed.                       *)
LEMMA OffsetLazy ==
  ASSUME TypeOK, TypeOK', OffsetInv, ~ById, Yield \/ PageYielded \/ Break
  PROVE  OffsetInv'
<1>1. /\ status = "yield"
      /\ UNCHANGED <<method, descending, matching, steady, left, entered, length>>
  BY DEF Yield, PageYielded, Break, table
<1>2. CASE Yield
  <2>1. PICK k \in batch : Give({k}) /\ batch' = batch \ {k} /\ UNCHANGED <<status, page>>
    BY <1>2 DEF Yield
  <2>2. Due' = Due
    BY <2>1 DEF Due, Give, TypeOK
  <2>3. Position' = Position
    BY <2>1 DEF Position
  <2> QED BY <1>1, <2>1, <2>2, <2>3, OffsetSameDue
<1>3. CASE PageYielded
  <2>1. Advance /\ batch = {} /\ batch' = {} /\ seen' = seen
    BY <1>3 DEF PageYielded
  <2>2. /\ page' = page + 1
        /\ \/ status' = "done" /\ length # Size
           \/ status' = "query"
    BY <2>1 DEF Advance, LastPage
  <2>3. Due' = Due
    BY <2>1 DEF Due
  <2>4. status' = "query" => Position' = Position
    BY <1>1, <2>2 DEF Position, TypeOK
  <2> QED BY <1>1, <2>1, <2>2, <2>3, <2>4, OffsetSameDue
<1>4. CASE Break
  <2>1. status' = "stopped" /\ UNCHANGED <<seen, batch>>
    BY <1>4 DEF Break
  <2>2. Due' = Due
    BY <2>1 DEF Due
  <2> QED BY <1>1, <2>1, <2>2, OffsetSameDue
<1> QED BY <1>2, <1>3, <1>4

(* A set that gains one row at most grows by one at most.                        *)
LEMMA OneMoreRow ==
  ASSUME NEW S \in SUBSET Ids, NEW x, NEW T, T \subseteq S \cup {x}
  PROVE  Cardinality(T) \in Nat /\ Cardinality(S) \in Nat /\ Cardinality(T) <= Cardinality(S) + 1
<1>1. IsFiniteSet(S)
  BY FS_Subset
<1>2. IsFiniteSet(S \cup {x}) /\ Cardinality(S \cup {x}) <= Cardinality(S) + 1 /\ Cardinality(S) \in Nat
  <2>1. Cardinality(S) \in Nat
    BY <1>1, FS_CardinalityType
  <2>2. /\ IsFiniteSet(S \cup {x})
        /\ Cardinality(S \cup {x}) = IF x \in S THEN Cardinality(S) ELSE Cardinality(S) + 1
    BY ONLY <1>1, FS_AddElement
  <2> QED BY <2>1, <2>2
<1>3. IsFiniteSet(T) /\ Cardinality(T) <= Cardinality(S \cup {x})
  BY <1>2, FS_Subset
<1> QED BY <1>2, <1>3, FS_CardinalityType

(* A set of rows that shrinks does not grow.                                     *)
LEMMA NoMoreRows ==
  ASSUME NEW S \in SUBSET Ids, NEW T, T \subseteq S
  PROVE  Cardinality(T) \in Nat /\ Cardinality(S) \in Nat /\ Cardinality(T) <= Cardinality(S)
<1>1. IsFiniteSet(S)
  BY FS_Subset
<1>2. IsFiniteSet(T) /\ Cardinality(T) <= Cardinality(S)
  BY <1>1, FS_Subset
<1> QED BY <1>1, <1>2, FS_CardinalityType

(* A row that leaves before the position lets one row move up to it, which is     *)
(* missed if it was not given.                                                  *)
LEMMA FirstAfterLeave ==
  ASSUME TypeOK, NEW i \in matching, NEW n \in Nat, NEW F, IsFirst(F, n, matching)
  PROVE  \E G, x : /\ IsFirst(G, n, matching \ {i})
                   /\ G \subseteq F \cup {x} /\ F \subseteq G \cup {i}
<1>1. F \subseteq matching /\ matching \in SUBSET Ids /\ IsFiniteSet(F)
      /\ Cardinality(F) \in Nat /\ Cardinality(F) <= n
  <2>1. F \subseteq matching /\ matching \in SUBSET Ids
    BY DEF IsFirst, TypeOK
  <2>2. IsFiniteSet(F)
    BY <2>1, FS_Subset
  <2>3. Cardinality(F) \in Nat
    BY <2>2, FS_CardinalityType
  <2> QED BY <2>1, <2>2, <2>3 DEF IsFirst
<1>2. CASE i \notin F
  <2>1. IsFirst(F, n, matching \ {i})
    BY <1>2 DEF IsFirst
  <2> QED BY <2>1
<1>3. CASE i \in F /\ matching \ F = {}
  <2>1. matching \ {i} = F \ {i}
    BY <1>1, <1>3
  <2>2. Cardinality(F \ {i}) = Cardinality(F) - 1
    BY <1>1, <1>3, FS_RemoveElement
  <2>3. IsFirst(F \ {i}, n, matching \ {i})
    BY <1>1, <2>1, <2>2 DEF IsFirst
  <2> QED BY <2>3
<1>4. CASE i \in F /\ matching \ F # {}
  <2> DEFINE S == matching \ F
  <2>1. PICK x \in S : \A j \in S \ {x} : Before(x, j)
    <3>1. S \in SUBSET Ids /\ S # {} /\ TypeOK
      BY <1>1, <1>4
    <3> HIDE DEF S
    <3> QED BY ONLY <3>1, Extremes
  <2> DEFINE G == (F \ {i}) \cup {x}
  <2>2. Cardinality(F) = n
    BY <1>4 DEF IsFirst
  <2>3. Cardinality(G) = n
    <3>1. IsFiniteSet(F \ {i}) /\ Cardinality(F \ {i}) = Cardinality(F) - 1
      BY <1>1, <1>4, FS_RemoveElement
    <3>2. Cardinality(G) = Cardinality(F \ {i}) + 1
      BY <2>1, <3>1, FS_AddElement
    <3> QED BY <1>1, <2>2, <3>1, <3>2
  <2>4. IsFirst(G, n, matching \ {i})
    <3>1. G \subseteq matching \ {i}
      BY <1>1, <1>4, <2>1
    <3>2. ASSUME NEW a \in G, NEW b \in (matching \ {i}) \ G PROVE Before(a, b)
      BY <2>1, <3>2 DEF IsFirst
    <3> HIDE DEF G
    <3> QED BY <2>3, <3>1, <3>2 DEF IsFirst
  <2>5. G \subseteq F \cup {x} /\ F \subseteq G \cup {i}
    OBVIOUS
  <2> HIDE DEF G
  <2> QED BY <2>4, <2>5
<1> QED BY <1>2, <1>3, <1>4

(* A row that enters before the position pushes one row behind it, which is given *)
(* again if it was given.                                                       *)
LEMMA FirstAfterEnter ==
  ASSUME TypeOK, NEW i \in Ids, i \notin matching, NEW n \in Nat, NEW F, IsFirst(F, n, matching)
  PROVE  \E G : /\ IsFirst(G, n, matching \cup {i})
                /\ G \subseteq F \cup {i} /\ \E x : F \subseteq G \cup {x}
<1>1. F \subseteq matching /\ matching \in SUBSET Ids /\ IsFiniteSet(F)
      /\ Cardinality(F) \in Nat /\ Cardinality(F) <= n /\ i \notin F
  <2>1. F \subseteq matching /\ matching \in SUBSET Ids
    BY DEF IsFirst, TypeOK
  <2>2. IsFiniteSet(F)
    BY <2>1, FS_Subset
  <2>3. Cardinality(F) \in Nat
    BY <2>2, FS_CardinalityType
  <2> QED BY <2>1, <2>2, <2>3 DEF IsFirst
<1>2. CASE Cardinality(F) < n /\ F = matching
  <2>1. Cardinality(F \cup {i}) = Cardinality(F) + 1
    BY <1>1, FS_AddElement
  <2>2. IsFirst(F \cup {i}, n, matching \cup {i})
    BY <1>1, <1>2, <2>1 DEF IsFirst
  <2> QED BY <2>2
<1>3. CASE Cardinality(F) = n /\ \A j \in F : Before(j, i)
  <2>1. IsFirst(F, n, matching \cup {i})
    BY <1>1, <1>3 DEF IsFirst
  <2> QED BY <2>1
<1>4. CASE Cardinality(F) = n /\ \E j \in F : ~Before(j, i)
  <2>1. PICK x \in F : \A j \in F \ {x} : Before(j, x)
    BY <1>1, <1>4, Extremes
  <2>2. Before(i, x)
    BY <1>1, <1>4, <2>1, Order
  <2> DEFINE G == (F \ {x}) \cup {i}
  <2>3. Cardinality(G) = n
    <3>1. IsFiniteSet(F \ {x}) /\ Cardinality(F \ {x}) = Cardinality(F) - 1
      BY <1>1, <2>1, FS_RemoveElement
    <3>2. Cardinality(G) = Cardinality(F \ {x}) + 1
      BY <1>1, <3>1, FS_AddElement
    <3> QED BY <1>1, <1>4, <3>1, <3>2
  <2>4. IsFirst(G, n, matching \cup {i})
    <3>1. G \subseteq matching \cup {i}
      BY <1>1
    <3>2. ASSUME NEW a \in G, NEW b \in (matching \cup {i}) \ G PROVE Before(a, b)
      <4>1. b = x \/ b \in matching \ F
        BY <3>2
      <4>2. a = i \/ a \in F \ {x}
        BY <3>2
      <4>3. b \in matching \ F => Before(x, b)
        BY <2>1 DEF IsFirst
      <4> QED BY <1>1, <2>1, <2>2, <4>1, <4>2, <4>3, Order DEF IsFirst
    <3> HIDE DEF G
    <3> QED BY <2>3, <3>1, <3>2 DEF IsFirst
  <2>5. G \subseteq F \cup {i} /\ F \subseteq G \cup {x}
    OBVIOUS
  <2> HIDE DEF G
  <2> QED BY <2>4, <2>5
<1> QED BY <1>2, <1>3, <1>4 DEF IsFirst

(* A row is missed more for each row that leaves, and expected again for each     *)
(* row that enters.                                                             *)
LEMMA OffsetWrite ==
  ASSUME TypeOK, TypeOK', OffsetInv, ~ById, NEW i \in Ids, Leave(i) \/ Enter(i)
  PROVE  OffsetInv'
<1>1. /\ UNCHANGED <<method, descending, page, batch, length, status, seen>>
      /\ steady' \subseteq steady /\ steady' \subseteq Ids /\ steady \subseteq Ids
      /\ left' \in Nat /\ left \in Nat /\ entered \in Nat /\ entered' \in Nat
      /\ \/ left' = left + 1 /\ entered' = entered
         \/ left' = left /\ entered' = entered + 1
  BY DEF Leave, Enter, reading, TypeOK
<1>2. Due' = Due /\ Position' = Position /\ Due \in [Ids -> Nat] /\ Position \in Nat /\ (ById <=> ById')
  <2>1. Due' = Due /\ Position' = Position /\ (ById <=> ById')
    BY <1>1 DEF Due, Position, ById
  <2>2. Due \in [Ids -> Nat]
    BY DueType
  <2>3. Position \in Nat
    BY NextPosition DEF Position, TypeOK
  <2> QED BY <2>1, <2>2, <2>3
<1>3. TwiceAndMore(Due') = TwiceAndMore(Due) /\ TwiceAndMore(Due) \in Nat
  BY <1>2, TwiceIsExtra
<1>4. TwiceAndMore(Due') <= entered' /\ Repeats' <= entered'
  <2>1. Repeats' = Repeats /\ Repeats = TwiceAndMore(seen) /\ Repeats \in Nat
    BY <1>1, TwiceIsExtra DEF Repeats, TwiceAndMore, TypeOK
  <2> QED BY <1>1, <1>3, <2>1 DEF OffsetInv, OffsetDrift
<1>5. status = "done" => Cardinality(Missed') <= left'
  <2>1. Missed' \subseteq Missed /\ Missed \in SUBSET Ids
    BY <1>1 DEF Missed
  <2>2. Cardinality(Missed') <= Cardinality(Missed) /\ Cardinality(Missed) \in Nat /\ Cardinality(Missed') \in Nat
    BY <2>1, NoMoreRows
  <2> QED BY <1>1, <2>2 DEF OffsetInv, OffsetDrift
<1>6. status \in {"callback", "yield"} /\ length # Size => Cardinality({j \in steady' : Due[j] = 0}) <= left'
  <2> DEFINE S == {j \in steady : Due[j] = 0}
             T == {j \in steady' : Due[j] = 0}
  <2>1. S \in SUBSET Ids /\ T \subseteq S
    BY <1>1
  <2>2. status \in {"callback", "yield"} /\ length # Size => Cardinality(S) <= left
    BY DEF OffsetInv
  <2> HIDE DEF S, T
  <2>3. Cardinality(T) <= Cardinality(S) /\ Cardinality(S) \in Nat /\ Cardinality(T) \in Nat
    BY <2>1, NoMoreRows
  <2>4. status \in {"callback", "yield"} /\ length # Size => Cardinality(T) <= left'
    BY <1>1, <2>2, <2>3
  <2> QED BY <2>4 DEF T
<1>7. ASSUME NEW F \in SUBSET matching, Drifted(F)
      PROVE  \E G \in SUBSET matching' : Drifted(G)'
  <2> DEFINE U(S, G) == {j \in S \cap G : Due[j] = 0}
             V(M, G) == {j \in M \ G : Due[j] > 0}
  <2>1. /\ Cardinality(U(steady, F)) <= left
        /\ TwiceAndMore(Due) + Cardinality(V(matching, F)) <= entered
        /\ IsFirst(F, Position, matching)
    BY <1>7 DEF Drifted
  <2>2. U(steady, F) \in SUBSET Ids /\ V(matching, F) \in SUBSET Ids
    BY DEF TypeOK
  <2>3. \E G : /\ IsFirst(G, Position, matching')
               /\ Cardinality(U(steady', G)) <= left'
               /\ TwiceAndMore(Due) + Cardinality(V(matching', G)) <= entered'
    <3>1. CASE Leave(i)
      <4>1. /\ matching' = matching \ {i} /\ steady' = steady \ {i} /\ i \in matching
            /\ left' = left + 1 /\ entered' = entered
        BY <3>1 DEF Leave
      <4>2. PICK G, x : IsFirst(G, Position, matching \ {i}) /\ G \subseteq F \cup {x} /\ F \subseteq G \cup {i}
        <5>1. TypeOK /\ i \in matching /\ Position \in Nat /\ IsFirst(F, Position, matching)
          BY <1>2, <2>1, <4>1
        <5> QED BY ONLY <5>1, FirstAfterLeave
      <4>3. U(steady', G) \subseteq U(steady, F) \cup {x} /\ V(matching', G) \subseteq V(matching, F)
        BY <4>1, <4>2
      <4> HIDE DEF U, V
      <4>4. /\ Cardinality(U(steady', G)) <= Cardinality(U(steady, F)) + 1
            /\ Cardinality(U(steady', G)) \in Nat /\ Cardinality(U(steady, F)) \in Nat
        BY <2>2, <4>3, OneMoreRow
      <4>5. /\ Cardinality(V(matching', G)) <= Cardinality(V(matching, F))
            /\ Cardinality(V(matching', G)) \in Nat /\ Cardinality(V(matching, F)) \in Nat
        BY <2>2, <4>3, NoMoreRows
      <4>6. Cardinality(U(steady', G)) <= left'
        BY <1>1, <2>1, <4>1, <4>4
      <4>7. TwiceAndMore(Due) + Cardinality(V(matching', G)) <= entered'
        BY <1>1, <1>3, <2>1, <4>1, <4>5
      <4>8. IsFirst(G, Position, matching')
        BY <4>1, <4>2
      <4> QED BY <4>6, <4>7, <4>8
    <3>2. CASE Enter(i)
      <4>1. /\ matching' = matching \cup {i} /\ steady' = steady /\ i \notin matching
            /\ left' = left /\ entered' = entered + 1 /\ steady \subseteq matching
        BY <3>2 DEF Enter, TypeOK
      <4>2. PICK G : /\ IsFirst(G, Position, matching \cup {i})
                     /\ G \subseteq F \cup {i} /\ \E x : F \subseteq G \cup {x}
        <5>1. /\ TypeOK /\ i \in Ids /\ i \notin matching
              /\ Position \in Nat /\ IsFirst(F, Position, matching)
          BY <1>2, <2>1, <4>1
        <5> QED BY ONLY <5>1, FirstAfterEnter
      <4>3. U(steady', G) \subseteq U(steady, F)
        BY <4>1, <4>2
      <4>4. \E y : V(matching', G) \subseteq V(matching, F) \cup {y}
        <5>1. CASE i \in G
          <6>1. PICK x : F \subseteq G \cup {x}
            BY <4>2
          <6>2. V(matching', G) \subseteq V(matching, F) \cup {x}
            BY <4>1, <5>1, <6>1
          <6> QED BY <6>2
        <5>2. CASE i \notin G
          <6>1. G \subseteq F
            BY <4>2, <5>2
          <6>2. G = F
            <7>1. Cardinality(G) = Position
              BY <4>2, <5>2 DEF IsFirst
            <7>2. IsFiniteSet(F)
              BY FS_Subset, <2>1 DEF IsFirst, TypeOK
            <7>3. Cardinality(G) <= Cardinality(F) /\ (Cardinality(F) = Cardinality(G) => F = G)
              BY <6>1, <7>2, FS_Subset
            <7>4. Cardinality(F) <= Position /\ Cardinality(F) \in Nat
              BY <1>2, <2>1, <7>2, FS_CardinalityType DEF IsFirst
            <7> QED BY <1>2, <7>1, <7>3, <7>4
          <6>3. V(matching', G) \subseteq V(matching, F) \cup {i}
            BY <4>1, <6>2
          <6> QED BY <6>3
        <5> QED BY <5>1, <5>2
      <4> HIDE DEF U, V
      <4>5. /\ Cardinality(U(steady', G)) <= Cardinality(U(steady, F))
            /\ Cardinality(U(steady', G)) \in Nat /\ Cardinality(U(steady, F)) \in Nat
        BY <2>2, <4>3, NoMoreRows
      <4>6. /\ Cardinality(V(matching', G)) <= Cardinality(V(matching, F)) + 1
            /\ Cardinality(V(matching', G)) \in Nat /\ Cardinality(V(matching, F)) \in Nat
        BY <2>2, <4>4, OneMoreRow
      <4>7. Cardinality(U(steady', G)) <= left'
        BY <1>1, <2>1, <4>1, <4>5
      <4>8. TwiceAndMore(Due) + Cardinality(V(matching', G)) <= entered'
        BY <1>1, <1>3, <2>1, <4>1, <4>6
      <4>9. IsFirst(G, Position, matching')
        BY <4>1, <4>2
      <4> QED BY <4>7, <4>8, <4>9
    <3> QED BY <3>1, <3>2
  <2>4. PICK G : /\ IsFirst(G, Position, matching')
                 /\ Cardinality(U(steady', G)) <= left'
                 /\ TwiceAndMore(Due) + Cardinality(V(matching', G)) <= entered'
    BY <2>3
  <2>5. IsFirst(G, Position, matching)' /\ G \in SUBSET matching'
    BY <1>1, <1>2, <2>4 DEF IsFirst, Before
  <2> QED BY <1>2, <1>3, <2>4, <2>5 DEF Drifted
<1>8. CASE status \in {"query", "callback", "yield"}
  <2>1. \E G \in SUBSET matching' : Drifted(G)'
    BY <1>7, <1>8 DEF OffsetInv
  <2> QED BY <1>1, <1>2, <1>4, <1>5, <1>6, <2>1 DEF OffsetInv, OffsetDrift
<1>9. CASE status \notin {"query", "callback", "yield"}
  BY <1>1, <1>2, <1>4, <1>5, <1>9 DEF OffsetInv, OffsetDrift
<1> QED BY <1>8, <1>9

(* Reading by position, OffsetInv is an invariant.                              *)
THEOREM OffsetInvariant == Spec => []OffsetInv
<1>1. Init => OffsetInv
  BY OffsetInit
<1>2. TypeOK /\ TypeOK' /\ OffsetInv /\ [Next]_vars => OffsetInv'
  <2> SUFFICES ASSUME TypeOK, TypeOK', OffsetInv, [Next]_vars PROVE OffsetInv'
    OBVIOUS
  <2>1. CASE ById /\ UNCHANGED method
    BY <2>1 DEF OffsetInv, OffsetDrift, ById
  <2>2. CASE Query
    BY <2>1, <2>2, OffsetQuery DEF Query
  <2>3. ASSUME NEW goOn \in BOOLEAN, CallbackReturns(goOn) PROVE OffsetInv'
    BY <2>1, <2>3, OffsetCallback DEF CallbackReturns
  <2>4. CASE Yield \/ PageYielded \/ Break
    BY <2>1, <2>4, OffsetLazy DEF Yield, PageYielded, Break
  <2>5. ASSUME NEW i \in Ids, Leave(i) \/ Enter(i) PROVE OffsetInv'
    BY <2>1, <2>5, OffsetWrite DEF Leave, Enter
  <2>6. CASE UNCHANGED vars
    <3>1. Due' = Due /\ Position' = Position /\ Missed' = Missed
      BY <2>6 DEF vars, reading, table, Due, Position, Missed
    <3>2. \A F : Drifted(F)' <=> Drifted(F)
      BY <2>6, <3>1 DEF vars, reading, table, Drifted, IsFirst, Before, TwiceAndMore
    <3> QED BY <2>6, <3>1, <3>2 DEF vars, reading, table, OffsetInv, OffsetDrift, Repeats,
                                    TwiceAndMore, ById
  <2> QED BY <2>2, <2>3, <2>4, <2>5, <2>6 DEF Next, Rest
<1> QED BY <1>1, <1>2, ReadingTypeCorrect, PTL DEF Spec

(* Reading by position misses at most one row for each row that leaves, and gives *)
(* at most one row again for each row that enters.                              *)
THEOREM DriftIsBounded == Spec => []OffsetDrift
<1>1. OffsetInv => OffsetDrift
  BY DEF OffsetInv
<1> QED BY <1>1, OffsetInvariant, PTL

-------------------------------------------------------------------------------
(* A full page adds its rows to what was given.                                  *)
LEMMA EachCallback ==
  ASSUME TypeOK, TypeOK', EachInv, NEW goOn \in BOOLEAN, CallbackReturns(goOn)
  PROVE  EachInv'
<1>1. /\ status = "callback" /\ batch' = {} /\ Give(batch) /\ UNCHANGED <<method, length>>
      /\ ~Lazy /\ ~Lazy' /\ length = Cardinality(batch)
      /\ Total(seen, Ids) = (page - 1) * Size
      /\ IF goOn THEN Advance ELSE status' = "stopped" /\ UNCHANGED <<page, lastId>>
  BY DEF CallbackReturns, EachInv, Lazy
<1>2. status' \in {"query", "done", "aborted", "stopped"}
  BY <1>1 DEF Advance
<1>3. CASE status' = "query"
  <2>1. length = Size /\ page' = page + 1
    BY <1>1, <1>3 DEF Advance, LastPage
  <2>2. /\ seen \in [Ids -> Nat] /\ seen' \in [Ids -> Nat] /\ batch \in SUBSET Ids
        /\ \A i \in Ids : seen'[i] = IF i \in batch THEN seen[i] + 1 ELSE seen[i]
    BY <1>1 DEF Give, TypeOK
  <2> DEFINE f == [i \in batch |-> seen[i] + 1]
             U == {u \in batch \X Nat : u[2] = f[u[1]]}
  <2>3. f \in [batch -> Nat]
    BY <2>2
  <2>4. IsFiniteSet(U) /\ Cardinality(U) = Cardinality(batch)
    <3> HIDE DEF f
    <3> QED BY <2>2, <2>3, OnceMore
  <2>5. Units(seen', Ids) = Units(seen, Ids) \cup U /\ Units(seen, Ids) \cap U = {}
    <3>1. ASSUME NEW u \in Units(seen', Ids) PROVE u \in Units(seen, Ids) \cup U
      <4>1. u[1] \in Ids /\ u[2] \in Nat \ {0} /\ u[2] <= seen'[u[1]] /\ u = <<u[1], u[2]>>
        BY <3>1 DEF Units
      <4>2. CASE u[2] <= seen[u[1]]
        BY <4>1, <4>2 DEF Units
      <4>3. CASE ~(u[2] <= seen[u[1]])
        <5>1. u[1] \in batch /\ u[2] = seen[u[1]] + 1
          BY <2>2, <4>1, <4>3
        <5> QED BY <4>1, <5>1
      <4> QED BY <4>2, <4>3
    <3>2. ASSUME NEW u \in Units(seen, Ids) PROVE u \in Units(seen', Ids) /\ u \notin U
      <4>1. u[1] \in Ids /\ u[2] \in Nat \ {0} /\ u[2] <= seen[u[1]] /\ u = <<u[1], u[2]>>
        BY <3>2 DEF Units
      <4>2. u[2] <= seen'[u[1]]
        BY <2>2, <4>1
      <4>3. u[1] \in batch => f[u[1]] = seen[u[1]] + 1 /\ seen[u[1]] \in Nat
        BY <2>2
      <4> QED BY <4>1, <4>2, <4>3 DEF Units
    <3>3. ASSUME NEW u \in U PROVE u \in Units(seen', Ids)
      <4>1. u[1] \in batch /\ u[1] \in Ids /\ u[2] = seen[u[1]] + 1 /\ u[2] \in Nat /\ u = <<u[1], u[2]>>
        <5>1. u[1] \in batch /\ u[2] \in Nat /\ u[2] = f[u[1]] /\ u = <<u[1], u[2]>>
          BY <3>3
        <5> QED BY <2>2, <5>1
      <4>2. u[2] \in Nat \ {0} /\ u[2] <= seen'[u[1]]
        BY ONLY <2>2, <4>1
      <4> QED BY <4>1, <4>2 DEF Units
    <3> QED BY <3>1, <3>2, <3>3
  <2> HIDE DEF U, f
  <2>6. /\ IsFiniteSet(Units(seen, Ids))
        /\ Total(seen, Ids) = Cardinality(Units(seen, Ids))
        /\ Total(seen', Ids) = Cardinality(Units(seen', Ids))
    BY <2>2, UnitsFinite, TotalIsUnits
  <2>7. Cardinality(Units(seen', Ids)) = Cardinality(Units(seen, Ids)) + Cardinality(U)
    BY <2>4, <2>5, <2>6, DisjointUnion
  <2>8. Total(seen', Ids) = (page - 1) * Size + Size
    BY <1>1, <2>1, <2>4, <2>6, <2>7
  <2>9. (page' - 1) * Size = (page - 1) * Size + Size
    BY <2>1, NextPosition DEF TypeOK
  <2> QED BY <1>3, <2>8, <2>9 DEF EachInv
<1>4. CASE status' # "query"
  BY <1>2, <1>4 DEF EachInv
<1> QED BY <1>3, <1>4

(* EachInv is an invariant.                                                     *)
THEOREM EachInvariant == Spec => []EachInv
<1>1. Init => EachInv
  <2> SUFFICES ASSUME Init PROVE EachInv
    OBVIOUS
  <2>1. seen = [i \in Ids |-> 0] /\ page = 1 /\ status = "query"
    BY DEF Init
  <2>2. Units(seen, Ids) = {}
    BY <2>1 DEF Units
  <2>3. Total(seen, Ids) = Cardinality(Units(seen, Ids))
    BY <2>1, TotalIsUnits
  <2>4. Total(seen, Ids) = 0
    BY <2>2, <2>3, FS_EmptySet
  <2> QED BY <2>1, <2>4 DEF EachInv
<1>2. TypeOK /\ TypeOK' /\ EachInv /\ [Next]_vars => EachInv'
  <2> SUFFICES ASSUME TypeOK, TypeOK', EachInv, [Next]_vars PROVE EachInv'
    OBVIOUS
  <2>1. CASE Query
    <3>1. /\ status = "query" /\ length' = Cardinality(batch') /\ UNCHANGED <<method, page, seen>>
          /\ \/ status' = "done"
             \/ status' = "yield" /\ Lazy
             \/ status' = "callback" /\ ~Lazy
      BY <2>1 DEF Query
    <3> QED BY <3>1 DEF EachInv, Lazy
  <2>2. ASSUME NEW goOn \in BOOLEAN, CallbackReturns(goOn) PROVE EachInv'
    BY <2>2, EachCallback
  <2>3. CASE Yield \/ PageYielded \/ Break
    <3>1. status = "yield" /\ UNCHANGED method /\ status' # "callback"
      BY <2>3 DEF Yield, PageYielded, Break, Advance
    <3> QED BY <3>1 DEF EachInv, Lazy
  <2>4. ASSUME NEW i \in Ids, Leave(i) \/ Enter(i) PROVE EachInv'
    <3>1. UNCHANGED <<method, reading>>
      BY <2>4 DEF Leave, Enter
    <3> QED BY <3>1 DEF reading, EachInv, Lazy
  <2>5. CASE UNCHANGED vars
    BY <2>5 DEF vars, reading, EachInv, Lazy
  <2> QED BY <2>1, <2>2, <2>3, <2>4, <2>5 DEF Next, Rest
<1> QED BY <1>1, <1>2, ReadingTypeCorrect, PTL DEF Spec

(* The index each and eachById give a row counts the rows given before it, on any  *)
(* table and whatever is written.                                               *)
THEOREM IndexCountsRows == Spec => []EachIndex
<1>1. EachInv => EachIndex
  BY DEF EachInv, EachIndex
<1> QED BY <1>1, EachInvariant, PTL

===============================================================================
