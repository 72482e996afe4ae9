------------------------- MODULE QueryStatementProofs -------------------------
(* What a statement sends, for queries made by any number of calls, in every     *)
(* grammar: the values bound are those its text has places for, in their order.  *)
EXTENDS QueryStatement, SequenceTheorems, NaturalsInduction, WellFoundedInduction, TLAPS

(* A set of naturals that is not empty has a least member.                      *)
LEMMA Least ==
  ASSUME NEW B \in SUBSET Nat, B # {}
  PROVE  \E i \in B : \A j \in B : i <= j
<1>1. PICK i \in B : \A j \in B : <<j, i>> \notin OpToRel(<, Nat)
  BY NatLessThanWellFounded, WFMin
<1>2. \A j \in B : ~(j < i)
  BY <1>1 DEF OpToRel
<1>3. \A j \in B : i <= j
  BY <1>2
<1> QED BY <1>3

-------------------------------------------------------------------------------
(* FlattenSeq, step by step.                                                    *)
Flattens(f, L, n) ==
  /\ n >= 1 => f[1] = L[1]
  /\ \A i \in 2 .. n : f[i] = f[i - 1] \o L[i]

(* There is a function that flattens step by step.                              *)
LEMMA FlattenExists ==
  ASSUME NEW S, NEW L \in Seq(Seq(S)), NEW n \in 0 .. Len(L)
  PROVE  \E f \in [1 .. n -> Seq(S)] : Flattens(f, L, n)
<1> DEFINE B == {k \in 0 .. Len(L) : ~ \E f \in [1 .. k -> Seq(S)] : Flattens(f, L, k)}
<1> SUFFICES ASSUME B # {} PROVE FALSE
  OBVIOUS
<1>1. Len(L) \in Nat /\ \A i \in 1 .. Len(L) : L[i] \in Seq(S)
  BY LenProperties
<1>2. PICK k \in B : \A j \in B : k <= j
  <2>1. B \in SUBSET Nat
    BY <1>1
  <2> HIDE DEF B
  <2> QED BY <2>1, Least
<1>3. k # 0
  <2>1. [i \in 1 .. 0 |-> <<>>] \in [1 .. 0 -> Seq(S)]
    BY EmptySeq
  <2>2. Flattens([i \in 1 .. 0 |-> <<>>], L, 0)
    BY DEF Flattens
  <2> QED BY <2>1, <2>2
<1>4. k - 1 \in 0 .. Len(L) /\ k \in 1 .. Len(L) /\ ~(k <= k - 1)
  BY <1>1, <1>3
<1>5. PICK f \in [1 .. k - 1 -> Seq(S)] : Flattens(f, L, k - 1)
  BY <1>2, <1>4
<1> DEFINE Turn(i) == IF i < k THEN f[i]
                      ELSE IF k = 1 THEN L[1] ELSE f[k - 1] \o L[k]
           g == [i \in 1 .. k |-> Turn(i)]
<1>6. g \in [1 .. k -> Seq(S)]
  <2>1. \A i \in 1 .. k : i < k => i \in 1 .. k - 1
    BY <1>4
  <2>2. k # 1 => k - 1 \in 1 .. k - 1
    BY <1>4
  <2>3. k # 1 => f[k - 1] \o L[k] \in Seq(S)
    BY <1>1, <1>4, <1>5, <2>2, ConcatProperties
  <2> QED BY <1>1, <1>4, <2>1, <2>3
<1>7. Flattens(g, L, k)
  <2>1. k \in Nat /\ 1 \in 1 .. k
    BY <1>4
  <2>2. g[1] = L[1]
    <3>1. CASE k = 1 BY <2>1, <3>1
    <3>2. CASE k # 1 BY <2>1, <3>2, <1>5 DEF Flattens
    <3> QED BY <3>1, <3>2
  <2>3. ASSUME NEW i \in 2 .. k PROVE g[i] = g[i - 1] \o L[i]
    <3>1. i \in 1 .. k /\ i - 1 \in 1 .. k /\ i - 1 < k /\ g[i - 1] = f[i - 1]
      BY <2>1
    <3>2. CASE i = k
      <4>1. k # 1 /\ k \in 1 .. k
        BY <2>1, <3>2
      <4>2. g[k] = Turn(k)
        <5> HIDE DEF Turn
        <5> QED BY <4>1
      <4>3. Turn(k) = f[k - 1] \o L[k]
        <5>1. ~(k < k)
          BY <2>1
        <5> QED BY <4>1, <5>1, Zenon
      <4> QED BY <3>1, <3>2, <4>2, <4>3
    <3>3. CASE i # k
      <4>1. i \in 2 .. k - 1 /\ i < k
        BY <2>1, <3>3
      <4>2. g[i] = f[i] /\ f[i] = f[i - 1] \o L[i]
        BY <1>5, <3>1, <4>1 DEF Flattens
      <4> QED BY <3>1, <4>2
    <3> QED BY <3>2, <3>3
  <2> HIDE DEF g
  <2> QED BY <2>2, <2>3 DEF Flattens
<1> HIDE DEF g
<1>8. k \notin B
  BY <1>6, <1>7
<1> QED BY <1>8

(* FlattenSeq ends with what such a function does.                              *)
LEMMA FlattenSteps ==
  ASSUME NEW S, NEW L \in Seq(Seq(S)), L # <<>>
  PROVE  \E f \in [1 .. Len(L) -> Seq(S)] : Flattens(f, L, Len(L)) /\ FlattenSeq(L) = f[Len(L)]
<1> DEFINE n == Len(L)
           Turn(h, i) == IF i = 1 THEN L[i] ELSE h[i - 1] \o L[i]
           Eq(h) == h = [i \in 1 .. n |-> Turn(h, i)]
           g == CHOOSE h : Eq(h)
<1>1. n \in Nat \ {0} /\ n # 0
  BY EmptySeq
<1>2. FlattenSeq(L) = g[n]
  BY <1>1 DEF FlattenSeq
<1>3. PICK f \in [1 .. n -> Seq(S)] : Flattens(f, L, n)
  <2>1. n \in 0 .. Len(L)
    BY <1>1
  <2> HIDE DEF n, Turn, Eq, g
  <2> QED BY <2>1, FlattenExists
<1>4. Eq(f)
  <2>1. \A i \in 1 .. n : i # 1 => i \in 2 .. n
    BY <1>1
  <2>2. ASSUME NEW i \in 1 .. n PROVE f[i] = Turn(f, i)
    <3>1. f[1] = L[1]
      BY <1>1, <1>3 DEF Flattens
    <3>2. i # 1 => f[i] = f[i - 1] \o L[i]
      BY <2>1, <1>3 DEF Flattens
    <3> QED BY <3>1, <3>2
  <2> HIDE DEF Turn
  <2> QED BY <1>3, <2>2
<1>5. Eq(g)
  <2> HIDE DEF Eq
  <2> QED BY <1>4
<1>6. \A i \in 1 .. n : g[i] = Turn(g, i)
  <2> HIDE DEF g, Turn
  <2> QED BY <1>5
<1> HIDE DEF g
<1>7. \A i \in 1 .. n : g[i] = f[i]
  <2> DEFINE B == {i \in 1 .. n : g[i] # f[i]}
  <2> SUFFICES ASSUME B # {} PROVE FALSE
    OBVIOUS
  <2>1. PICK i \in B : \A j \in B : i <= j
    <3>1. B \in SUBSET Nat
      BY <1>1
    <3> HIDE DEF B
    <3> QED BY <3>1, Least
  <2>2. i # 1
    BY <1>3, <1>6, <1>1 DEF Flattens
  <2>3. i \in 2 .. n /\ i - 1 \in 1 .. n /\ ~(i <= i - 1)
    BY <1>1, <2>2
  <2>4. g[i - 1] = f[i - 1]
    BY <2>1, <2>3
  <2>5. g[i] = g[i - 1] \o L[i] /\ f[i] = f[i - 1] \o L[i]
    BY <1>3, <1>6, <2>2, <2>3 DEF Flattens
  <2> QED BY <2>4, <2>5
<1>8. g[n] = f[n]
  BY <1>1, <1>7
<1> QED BY <1>2, <1>3, <1>8

(* A text added at the end is added at the end of the whole.                    *)
LEMMA FlattenAppend ==
  ASSUME NEW S, NEW L \in Seq(Seq(S)), NEW x \in Seq(S)
  PROVE  /\ FlattenSeq(L) \in Seq(S)
         /\ FlattenSeq(Append(L, x)) = FlattenSeq(L) \o x
<1> DEFINE M == Append(L, x)
           n == Len(L)
<1>1. /\ n \in Nat /\ M \in Seq(Seq(S)) /\ Len(M) = n + 1 /\ M # <<>>
      /\ \A i \in 1 .. n : M[i] = L[i]
      /\ M[n + 1] = x
  <2> DEFINE T == Seq(S)
  <2>1. L \in Seq(T) /\ x \in T
    OBVIOUS
  <2> HIDE DEF T
  <2>2. n \in Nat /\ M \in Seq(T) /\ Len(M) = n + 1
    BY <2>1, LenProperties
  <2>3. (\A i \in 1 .. n : M[i] = L[i]) /\ M[n + 1] = x
    BY <2>1, <2>2
  <2>4. M # <<>>
    BY <2>2
  <2> QED BY <2>2, <2>3, <2>4 DEF T
<1> HIDE DEF M, n
<1>2. PICK f \in [1 .. n + 1 -> Seq(S)] : Flattens(f, M, n + 1) /\ FlattenSeq(M) = f[n + 1]
  BY <1>1, FlattenSteps
<1>3. CASE L = <<>>
  <2>1. n = 0 /\ FlattenSeq(L) = <<>>
    BY <1>3 DEF n, FlattenSeq
  <2>2. f[1] = x
    BY <1>1, <1>2, <2>1 DEF Flattens
  <2> QED BY <1>2, <2>1, <2>2, ConcatEmptySeq, EmptySeq DEF M
<1>4. CASE L # <<>>
  <2>1. n \in Nat \ {0}
    BY <1>4, EmptySeq DEF n
  <2>2. PICK g \in [1 .. n -> Seq(S)] : Flattens(g, L, n) /\ FlattenSeq(L) = g[n]
    BY <1>4, FlattenSteps DEF n
  <2>3. \A i \in 1 .. n : g[i] = f[i]
    <3> DEFINE B == {i \in 1 .. n : g[i] # f[i]}
    <3> SUFFICES ASSUME B # {} PROVE FALSE
      OBVIOUS
    <3>1. PICK i \in B : \A j \in B : i <= j
      <4>1. B \in SUBSET Nat
        BY <2>1
      <4> HIDE DEF B
      <4> QED BY <4>1, Least
    <3>2. i # 1
      BY <1>1, <1>2, <2>1, <2>2 DEF Flattens
    <3>3. i \in 2 .. n /\ i \in 2 .. n + 1 /\ i - 1 \in 1 .. n /\ ~(i <= i - 1)
      BY <2>1, <3>2
    <3>4. g[i - 1] = f[i - 1]
      BY <3>1, <3>3
    <3>5. g[i] = g[i - 1] \o L[i] /\ f[i] = f[i - 1] \o M[i] /\ M[i] = L[i]
      BY <1>1, <1>2, <2>2, <3>3 DEF Flattens
    <3> QED BY <3>4, <3>5
  <2>4. n + 1 \in 2 .. n + 1 /\ (n + 1) - 1 = n /\ n \in 1 .. n
    BY <2>1
  <2>5. f[n + 1] = f[n] \o x
    BY <1>1, <1>2, <2>4 DEF Flattens
  <2>6. FlattenSeq(L) \in Seq(S) /\ f[n] = FlattenSeq(L)
    BY <2>2, <2>3, <2>4
  <2> QED BY <1>2, <2>5, <2>6 DEF M
<1> QED BY <1>3, <1>4

-------------------------------------------------------------------------------
(* Texts, clauses, joins and registries.                                        *)
Number == Nat \ {0}
Text == Seq(Number)

ClauseTypes == {"Compare", "Between", "In", "Raw", "Nested", "Plain"}
Clauses ==
  {c \in [type : ClauseTypes, column : Text, values : Seq(Nat)] : CompileWhere(c) \in Text}
Joins == [table : Text, joins : Text, wheres : Text]

TypeNames == {"expressions", "select", "from", "join", "where", "groupBy",
              "having", "order", "union", "unionOrder"}
Registry ==
  [bindings : [TypeNames -> Text],
   aggregate : BOOLEAN, columns : Seq(Text), from : Text,
   expressions : Seq(Text), joins : Seq(Joins), wheres : Seq(Clauses), groups : Seq(Text),
   havings : Seq(Clauses), orders : Seq(Text), limit : BOOLEAN, offset : BOOLEAN,
   unions : Seq(Text), unionExpressions : Seq(Text), unionOrders : Seq(Text)]

(* Every place of a clause has its value among the bindings of its type.         *)
Matched(q) ==
  /\ q \in Registry /\ q.aggregate = FALSE
  /\ q.bindings["expressions"] = FlattenSeq(q.expressions) \o FlattenSeq(q.unionExpressions)
  /\ q.unions = <<>> => q.unionExpressions = <<>>
  /\ q.bindings["select"] = FlattenSeq(q.columns)
  /\ q.bindings["from"] = <<>> => q.from = <<>>
  /\ q.bindings["join"] = CompileJoins(q.joins)
  /\ q.bindings["where"] = CompileWheres(q.wheres)
  /\ q.bindings["groupBy"] = FlattenSeq(q.groups)
  /\ q.bindings["having"] = CompileWheres(q.havings)
  /\ q.bindings["order"] = FlattenSeq(q.orders)
  /\ q.bindings["union"] = FlattenSeq(q.unions)
  /\ q.bindings["unionOrder"] = FlattenSeq(q.unionOrders)

LEMMA EmptyTexts ==
  ASSUME NEW S
  PROVE  <<>> \in Seq(S) /\ FlattenSeq(<<>>) = <<>>
BY DEF FlattenSeq

LEMMA TextAppend ==
  ASSUME NEW L \in Seq(Text), NEW x \in Text
  PROVE  /\ FlattenSeq(L) \in Text
         /\ Append(L, x) \in Seq(Text)
         /\ FlattenSeq(Append(L, x)) = FlattenSeq(L) \o x
<1>1. /\ FlattenSeq(L) \in Text
      /\ FlattenSeq(Append(L, x)) = FlattenSeq(L) \o x
  BY FlattenAppend DEF Text
<1>2. Append(L, x) \in Seq(Text)
  OBVIOUS
<1> QED BY <1>1, <1>2

(* One text alone.                                                              *)
LEMMA TextAlone ==
  ASSUME NEW x \in Text
  PROVE  /\ <<x>> \in Seq(Text) /\ FlattenSeq(<<x>>) = x
         /\ <<>> \in Seq(Text) /\ FlattenSeq(<<>>) = <<>>
<1>1. <<>> \in Seq(Text) /\ FlattenSeq(<<>>) = <<>>
  BY EmptyTexts
<1>2. Append(<<>>, x) = <<x>>
  OBVIOUS
<1>3. FlattenSeq(Append(<<>>, x)) = <<>> \o x
  BY <1>1, TextAppend
<1>4. <<>> \o x = x
  BY ConcatEmptySeq DEF Text
<1> QED BY <1>1, <1>2, <1>3, <1>4

LEMMA NoText ==
  /\ <<>> \in Text /\ <<>> \in Seq(Text) /\ << <<>> >> \in Seq(Text)
  /\ FlattenSeq(<<>>) = <<>> /\ FlattenSeq(<< <<>> >>) = <<>>
<1>1. <<>> \in Text
  BY DEF Text
<1> QED BY <1>1, TextAlone

LEMMA WheresAppend ==
  ASSUME NEW w \in Seq(Clauses), NEW c \in Clauses
  PROVE  /\ CompileWheres(w) \in Text
         /\ Append(w, c) \in Seq(Clauses)
         /\ CompileWheres(Append(w, c)) = CompileWheres(w) \o CompileWhere(c)
<1> DEFINE T(x) == [i \in DOMAIN x |-> CompileWhere(x[i])]
<1>1. \A d \in Clauses : CompileWhere(d) \in Text
  BY DEF Clauses
<1>2. \A x : CompileWheres(x) = FlattenSeq(T(x))
  BY DEF CompileWheres, Texts
<1> HIDE DEF Clauses
<1>3. Append(w, c) \in Seq(Clauses) /\ Len(w) \in Nat /\ Len(Append(w, c)) = Len(w) + 1
      /\ DOMAIN w = 1 .. Len(w) /\ DOMAIN Append(w, c) = 1 .. Len(w) + 1
      /\ (\A i \in 1 .. Len(w) : w[i] \in Clauses /\ Append(w, c)[i] = w[i])
      /\ Append(w, c)[Len(w) + 1] = c
  OBVIOUS
<1>4. T(w) \in Seq(Text) /\ Len(T(w)) = Len(w)
  BY <1>1, <1>3
<1>5. T(Append(w, c)) = Append(T(w), CompileWhere(c))
  <2>1. T(Append(w, c)) \in Seq(Text) /\ Len(T(Append(w, c))) = Len(w) + 1
    BY <1>1, <1>3
  <2>2. Append(T(w), CompileWhere(c)) \in Seq(Text)
        /\ Len(Append(T(w), CompileWhere(c))) = Len(w) + 1
    BY <1>1, <1>4
  <2>3. \A i \in 1 .. Len(w) + 1 : T(Append(w, c))[i] = Append(T(w), CompileWhere(c))[i]
    BY <1>1, <1>3, <1>4
  <2> QED BY <2>1, <2>2, <2>3, SeqEqual
<1> QED BY <1>1, <1>2, <1>3, <1>4, <1>5, TextAppend

LEMMA JoinsAppend ==
  ASSUME NEW w \in Seq(Joins), NEW j \in Joins
  PROVE  /\ CompileJoins(w) \in Text
         /\ Append(w, j) \in Seq(Joins)
         /\ CompileJoins(Append(w, j)) = CompileJoins(w) \o (j.table \o j.joins \o j.wheres)
<1> DEFINE F(d) == d.table \o d.joins \o d.wheres
           T(x) == [i \in DOMAIN x |-> F(x[i])]
<1>1. \A d \in Joins : F(d) \in Text
  BY ConcatProperties DEF Joins, Text
<1>2. \A x : CompileJoins(x) = FlattenSeq(T(x))
  BY DEF CompileJoins, Texts
<1> HIDE DEF F
<1>3. Append(w, j) \in Seq(Joins) /\ Len(w) \in Nat /\ Len(Append(w, j)) = Len(w) + 1
      /\ DOMAIN w = 1 .. Len(w) /\ DOMAIN Append(w, j) = 1 .. Len(w) + 1
      /\ (\A i \in 1 .. Len(w) : w[i] \in Joins /\ Append(w, j)[i] = w[i])
      /\ Append(w, j)[Len(w) + 1] = j
  OBVIOUS
<1>4. T(w) \in Seq(Text) /\ Len(T(w)) = Len(w)
  BY <1>1, <1>3
<1>5. T(Append(w, j)) = Append(T(w), F(j))
  <2>1. T(Append(w, j)) \in Seq(Text) /\ Len(T(Append(w, j))) = Len(w) + 1
    BY <1>1, <1>3
  <2>2. Append(T(w), F(j)) \in Seq(Text) /\ Len(Append(T(w), F(j))) = Len(w) + 1
    BY <1>1, <1>4
  <2>3. \A i \in 1 .. Len(w) + 1 : T(Append(w, j))[i] = Append(T(w), F(j))[i]
    BY <1>1, <1>3, <1>4
  <2> QED BY <2>1, <2>2, <2>3, SeqEqual
<1>6. CompileJoins(w) \in Text /\ CompileJoins(Append(w, j)) = CompileJoins(w) \o F(j)
  BY <1>1, <1>2, <1>4, <1>5, TextAppend
<1> QED BY <1>3, <1>6 DEF F

-------------------------------------------------------------------------------
(* Values: what is bound of them is what has a place.                           *)
LEMMA ParameterText ==
  ASSUME NEW v \in Nat
  PROVE  Parameter(v) \in Text
<1>1. CASE v = 0
  BY <1>1 DEF Parameter, Expression, Text
<1>2. CASE v # 0
  <2>1. v \in Number
    BY <1>2 DEF Number
  <2>2. <<v>> \in Seq(Number)
    BY <2>1
  <2> QED BY <1>2, <2>2 DEF Parameter, Expression, Text
<1> QED BY <1>1, <1>2

LEMMA CleanAppend ==
  ASSUME NEW s \in Seq(Nat), NEW v \in Nat
  PROVE  /\ Clean(s) \in Text
         /\ Clean(Append(s, v)) = Clean(s) \o Parameter(v)
<1> DEFINE T(x) == [i \in DOMAIN x |-> Parameter(x[i])]
<1>1. \A x : Clean(x) = FlattenSeq(T(x))
  BY DEF Clean, Parameter
<1>2. /\ Append(s, v) \in Seq(Nat) /\ Len(s) \in Nat /\ Len(Append(s, v)) = Len(s) + 1
      /\ DOMAIN s = 1 .. Len(s) /\ DOMAIN Append(s, v) = 1 .. Len(s) + 1
      /\ \A i \in 1 .. Len(s) : s[i] \in Nat /\ Append(s, v)[i] = s[i]
      /\ Append(s, v)[Len(s) + 1] = v
  OBVIOUS
<1>3. T(s) \in Seq(Text) /\ Len(T(s)) = Len(s)
  BY <1>2, ParameterText
<1>4. T(Append(s, v)) = Append(T(s), Parameter(v))
  <2>1. T(Append(s, v)) \in Seq(Text) /\ Len(T(Append(s, v))) = Len(s) + 1
    BY <1>2, ParameterText
  <2>2. Append(T(s), Parameter(v)) \in Seq(Text)
        /\ Len(Append(T(s), Parameter(v))) = Len(s) + 1
    BY <1>3, ParameterText
  <2>3. \A i \in 1 .. Len(s) + 1 : T(Append(s, v))[i] = Append(T(s), Parameter(v))[i]
    BY <1>2, <1>3, ParameterText
  <2> QED BY <2>1, <2>2, <2>3, SeqEqual
<1> QED BY <1>1, <1>3, <1>4, ParameterText, TextAppend

LEMMA CleanFew ==
  ASSUME NEW v \in Nat, NEW w \in Nat
  PROVE  /\ Clean(<<>>) = <<>>
         /\ Clean(<<v>>) = Parameter(v)
         /\ Clean(<<v, w>>) = Parameter(v) \o Parameter(w)
<1>1. Clean(<<>>) = <<>>
  <2>1. [i \in DOMAIN <<>> |-> IF <<>>[i] = Expression THEN <<>> ELSE << <<>>[i] >>] = <<>>
    OBVIOUS
  <2> QED BY <2>1, EmptyTexts DEF Clean
<1>2. Append(<<>>, v) = <<v>> /\ Append(<<v>>, w) = <<v, w>> /\ <<v>> \in Seq(Nat) /\ <<>> \in Seq(Nat)
  <2>1. <<v>> \in Seq(Nat) /\ <<>> \in Seq(Nat) /\ <<v, w>> \in Seq(Nat)
    OBVIOUS
  <2>2. Append(<<>>, v) = <<v>>
    OBVIOUS
  <2>3. Append(<<v>>, w) \in Seq(Nat) /\ Len(Append(<<v>>, w)) = 2 /\ Len(<<v, w>>) = 2
    OBVIOUS
  <2>4. \A i \in 1 .. 2 : Append(<<v>>, w)[i] = <<v, w>>[i]
    OBVIOUS
  <2> QED BY <2>1, <2>2, <2>3, <2>4, SeqEqual
<1>3. Clean(<<v>>) = <<>> \o Parameter(v)
  BY <1>1, <1>2, CleanAppend
<1>4. Clean(<<v>>) = Parameter(v)
  BY <1>3, ParameterText, ConcatEmptySeq DEF Text
<1> QED BY <1>1, <1>2, <1>4, CleanAppend

(* A text given as a value is bound as it is.                                   *)
LEMMA CleanNumber ==
  ASSUME NEW v \in Number
  PROVE  v \in Nat /\ Parameter(v) = <<v>>
BY DEF Number, Parameter, Expression

LEMMA CleanText ==
  ASSUME NEW t \in Text
  PROVE  Clean(t) = t
<1> DEFINE B == {n \in Nat : \E u \in Text : Len(u) = n /\ Clean(u) # u}
<1>1. B = {}
  <2> SUFFICES ASSUME B # {} PROVE FALSE
    OBVIOUS
  <2>1. PICK n \in B : \A m \in B : n <= m
    <3>1. B \in SUBSET Nat
      OBVIOUS
    <3> HIDE DEF B
    <3> QED BY <3>1, Least
  <2>2. PICK u \in Text : Len(u) = n /\ Clean(u) # u
    OBVIOUS
  <2>3. u # <<>>
    BY <2>2, CleanFew
  <2>4. PICK s \in Text, v \in Number : u = Append(s, v)
    BY <2>3, SequenceEmptyOrAppend DEF Text
  <2>5. Len(s) \in Nat /\ Len(u) = Len(s) + 1 /\ s \in Seq(Nat)
    BY <2>4 DEF Text, Number
  <2>6. Clean(s) = s
    <3>1. Len(s) \notin B
      BY <2>1, <2>2, <2>5
    <3> QED BY <2>5, <3>1
  <2>7. Clean(u) = s \o <<v>>
    BY <2>4, <2>5, <2>6, CleanAppend, CleanNumber
  <2>8. Append(s, v) = s \o <<v>>
    BY AppendIsConcat DEF Text
  <2> QED BY <2>2, <2>4, <2>7, <2>8
<1>2. Len(t) \in Nat
  BY DEF Text
<1> QED BY <1>1, <1>2

LEMMA TextAssoc ==
  ASSUME NEW a \in Text, NEW b \in Text, NEW c \in Text
  PROVE  (a \o b) \o c = a \o (b \o c)
BY ConcatAssociative DEF Text

LEMMA TextConcat ==
  ASSUME NEW a \in Text, NEW b \in Text
  PROVE  /\ a \o b \in Text /\ a \o <<>> = a /\ <<>> \o a = a
BY ConcatProperties, ConcatEmptySeq DEF Text

-------------------------------------------------------------------------------
(* All bindings, written out.                                                   *)
LEMMA FlattenTen ==
  ASSUME NEW S, NEW L \in Seq(Seq(S)), Len(L) = 10
  PROVE  FlattenSeq(L) = L[1] \o L[2] \o L[3] \o L[4] \o L[5] \o L[6] \o L[7] \o L[8] \o L[9] \o L[10]
<1>1. L # <<>>
  OBVIOUS
<1>2. PICK f \in [1 .. 10 -> Seq(S)] : Flattens(f, L, 10) /\ FlattenSeq(L) = f[10]
  BY <1>1, FlattenSteps
<1>3. f[1] = L[1]
  BY <1>2 DEF Flattens
<1>4. \A i \in 2 .. 10 : f[i] = f[i - 1] \o L[i]
  BY <1>2, Zenon DEF Flattens
<1>5. /\ 2 \in 2 .. 10 /\ 3 \in 2 .. 10 /\ 4 \in 2 .. 10 /\ 5 \in 2 .. 10 /\ 6 \in 2 .. 10
      /\ 7 \in 2 .. 10 /\ 8 \in 2 .. 10 /\ 9 \in 2 .. 10 /\ 10 \in 2 .. 10
      /\ 2 - 1 = 1 /\ 3 - 1 = 2 /\ 4 - 1 = 3 /\ 5 - 1 = 4 /\ 6 - 1 = 5 /\ 7 - 1 = 6
      /\ 8 - 1 = 7 /\ 9 - 1 = 8 /\ 10 - 1 = 9
  OBVIOUS
<1>6. f[2] = f[1] \o L[2] /\ f[3] = f[2] \o L[3] /\ f[4] = f[3] \o L[4]
  BY <1>4, <1>5, Zenon
<1>7. f[5] = f[4] \o L[5] /\ f[6] = f[5] \o L[6] /\ f[7] = f[6] \o L[7]
  BY <1>4, <1>5, Zenon
<1>8. f[8] = f[7] \o L[8] /\ f[9] = f[8] \o L[9] /\ f[10] = f[9] \o L[10]
  BY <1>4, <1>5, Zenon
<1>9. f[4] = L[1] \o L[2] \o L[3] \o L[4]
  BY <1>3, <1>6, Zenon
<1>10. f[7] = L[1] \o L[2] \o L[3] \o L[4] \o L[5] \o L[6] \o L[7]
  BY <1>7, <1>9, Zenon
<1> QED BY <1>2, <1>8, <1>10, Zenon

LEMMA TheTypes ==
  /\ DOMAIN BindingTypes = 1 .. 10 /\ TypeNames = {BindingTypes[i] : i \in DOMAIN BindingTypes}
  /\ BindingTypes[1] = "expressions" /\ BindingTypes[2] = "select" /\ BindingTypes[3] = "from"
  /\ BindingTypes[4] = "join" /\ BindingTypes[5] = "where" /\ BindingTypes[6] = "groupBy"
  /\ BindingTypes[7] = "having" /\ BindingTypes[8] = "order" /\ BindingTypes[9] = "union"
  /\ BindingTypes[10] = "unionOrder"
<1>1. DOMAIN BindingTypes = 1 .. 10
  BY DEF BindingTypes
<1>2. /\ BindingTypes[1] = "expressions" /\ BindingTypes[2] = "select" /\ BindingTypes[3] = "from"
      /\ BindingTypes[4] = "join" /\ BindingTypes[5] = "where" /\ BindingTypes[6] = "groupBy"
      /\ BindingTypes[7] = "having" /\ BindingTypes[8] = "order" /\ BindingTypes[9] = "union"
      /\ BindingTypes[10] = "unionOrder"
  BY DEF BindingTypes
<1>3. \A i \in 1 .. 10 : i = 1 \/ i = 2 \/ i = 3 \/ i = 4 \/ i = 5 \/ i = 6 \/ i = 7 \/ i = 8
        \/ i = 9 \/ i = 10
  OBVIOUS
<1>4. /\ 1 \in 1 .. 10 /\ 2 \in 1 .. 10 /\ 3 \in 1 .. 10 /\ 4 \in 1 .. 10 /\ 5 \in 1 .. 10
      /\ 6 \in 1 .. 10 /\ 7 \in 1 .. 10 /\ 8 \in 1 .. 10 /\ 9 \in 1 .. 10 /\ 10 \in 1 .. 10
  OBVIOUS
<1>5. TypeNames = {BindingTypes[i] : i \in 1 .. 10}
  BY <1>2, <1>3, <1>4 DEF TypeNames
<1> QED BY <1>1, <1>2, <1>5

(* The bindings of a registry, apart from those of some types.                  *)
Kept(q, types, t) == IF t \in types THEN <<>> ELSE q.bindings[t]

LEMMA BindingsButIs ==
  ASSUME NEW q \in Registry, NEW types
  PROVE  BindingsBut(q, types) =
           Kept(q, types, "expressions") \o Kept(q, types, "select") \o Kept(q, types, "from")
             \o Kept(q, types, "join") \o Kept(q, types, "where") \o Kept(q, types, "groupBy")
             \o Kept(q, types, "having") \o Kept(q, types, "order") \o Kept(q, types, "union")
             \o Kept(q, types, "unionOrder")
<1> DEFINE L == [i \in DOMAIN BindingTypes |-> Kept(q, types, BindingTypes[i])]
<1>1. BindingsBut(q, types) = FlattenSeq(L)
  BY DEF BindingsBut, Kept
<1>2. q.bindings \in [TypeNames -> Text]
  BY DEF Registry
<1>3. \A t \in TypeNames : Kept(q, types, t) \in Seq(Number)
  BY <1>2 DEF Kept, Text
<1>4. L \in Seq(Seq(Number)) /\ Len(L) = 10
  <2>1. \A i \in 1 .. 10 : BindingTypes[i] \in TypeNames
    BY TheTypes
  <2> QED BY <1>3, <2>1, TheTypes
<1>5. /\ L[1] = Kept(q, types, "expressions") /\ L[2] = Kept(q, types, "select")
      /\ L[3] = Kept(q, types, "from") /\ L[4] = Kept(q, types, "join")
      /\ L[5] = Kept(q, types, "where") /\ L[6] = Kept(q, types, "groupBy")
      /\ L[7] = Kept(q, types, "having") /\ L[8] = Kept(q, types, "order")
      /\ L[9] = Kept(q, types, "union") /\ L[10] = Kept(q, types, "unionOrder")
  BY TheTypes
<1> HIDE DEF L
<1> QED BY <1>1, <1>4, <1>5, FlattenTen

LEMMA GetBindingsIs ==
  ASSUME NEW q \in Registry
  PROVE  GetBindings(q) =
           q.bindings["expressions"] \o q.bindings["select"] \o q.bindings["from"]
             \o q.bindings["join"] \o q.bindings["where"] \o q.bindings["groupBy"]
             \o q.bindings["having"] \o q.bindings["order"] \o q.bindings["union"]
             \o q.bindings["unionOrder"]
<1>1. GetBindings(q) = BindingsBut(q, {})
  BY DEF GetBindings, BindingsBut
<1> QED BY <1>1, BindingsButIs DEF Kept

LEMMA GetBindingsText ==
  ASSUME NEW q \in Registry
  PROVE  GetBindings(q) \in Text
<1> DEFINE L == [i \in DOMAIN BindingTypes |-> q.bindings[BindingTypes[i]]]
<1>1. q.bindings \in [TypeNames -> Text]
  BY DEF Registry
<1>2. L \in Seq(Text)
  BY <1>1, TheTypes
<1>3. GetBindings(q) = FlattenSeq(L)
  BY DEF GetBindings
<1> HIDE DEF L
<1> QED BY <1>2, <1>3, TextAppend, NoText

-------------------------------------------------------------------------------
(* A value bound leaves the clauses and the values of other types alone.         *)
SameClauses(r, q) ==
  /\ r.aggregate = q.aggregate /\ r.columns = q.columns /\ r.from = q.from
  /\ r.expressions = q.expressions /\ r.joins = q.joins /\ r.wheres = q.wheres
  /\ r.groups = q.groups /\ r.havings = q.havings /\ r.orders = q.orders
  /\ r.limit = q.limit /\ r.offset = q.offset /\ r.unions = q.unions
  /\ r.unionExpressions = q.unionExpressions /\ r.unionOrders = q.unionOrders

(* The values of other types than t are the same.                              *)
OthersSame(r, q, t) ==
  /\ t # "expressions" => r.bindings["expressions"] = q.bindings["expressions"]
  /\ t # "select" => r.bindings["select"] = q.bindings["select"]
  /\ t # "from" => r.bindings["from"] = q.bindings["from"]
  /\ t # "join" => r.bindings["join"] = q.bindings["join"]
  /\ t # "where" => r.bindings["where"] = q.bindings["where"]
  /\ t # "groupBy" => r.bindings["groupBy"] = q.bindings["groupBy"]
  /\ t # "having" => r.bindings["having"] = q.bindings["having"]
  /\ t # "order" => r.bindings["order"] = q.bindings["order"]
  /\ t # "union" => r.bindings["union"] = q.bindings["union"]
  /\ t # "unionOrder" => r.bindings["unionOrder"] = q.bindings["unionOrder"]

LEMMA Binds ==
  ASSUME NEW q \in Registry, NEW t \in TypeNames, NEW s \in Text
  PROVE  /\ AddBinding(q, s, t) \in Registry
         /\ SameClauses(AddBinding(q, s, t), q)
         /\ AddBinding(q, s, t).bindings[t] = q.bindings[t] \o s
         /\ OthersSame(AddBinding(q, s, t), q, t)
<1>1. q.bindings \in [TypeNames -> Text] /\ q.bindings[t] \o s \in Text
  BY TextConcat DEF Registry
<1>2. AddBinding(q, s, t) = [q EXCEPT !.bindings = [q.bindings EXCEPT ![t] = q.bindings[t] \o s]]
  BY DEF AddBinding, Registry
<1> DEFINE b == [q.bindings EXCEPT ![t] = q.bindings[t] \o s]
<1>3. b \in [TypeNames -> Text] /\ b[t] = q.bindings[t] \o s
      /\ \A u \in TypeNames \ {t} : b[u] = q.bindings[u]
  BY <1>1
<1> HIDE DEF b
<1>4. AddBinding(q, s, t) = [q EXCEPT !.bindings = b]
  BY <1>2 DEF b
<1>5. [q EXCEPT !.bindings = b] \in Registry /\ SameClauses([q EXCEPT !.bindings = b], q)
      /\ [q EXCEPT !.bindings = b].bindings = b
  BY <1>3 DEF Registry, SameClauses
<1> HIDE DEF b
<1>6. OthersSame([q EXCEPT !.bindings = b], q, t)
  BY <1>3, <1>5 DEF OthersSame, TypeNames
<1> QED BY <1>3, <1>4, <1>5, <1>6

-------------------------------------------------------------------------------
(* A clause kept with the values of its text leaves the registry matched.        *)
WheresOnly(r, q) ==
  /\ r.aggregate = q.aggregate /\ r.columns = q.columns /\ r.from = q.from
  /\ r.expressions = q.expressions /\ r.joins = q.joins /\ r.groups = q.groups
  /\ r.havings = q.havings /\ r.orders = q.orders /\ r.limit = q.limit /\ r.offset = q.offset
  /\ r.unions = q.unions /\ r.unionExpressions = q.unionExpressions
  /\ r.unionOrders = q.unionOrders
  /\ OthersSame(r, q, "where")

LEMMA AddsWhere ==
  ASSUME NEW q, Matched(q), NEW c \in Clauses
  PROVE  /\ Matched(AddWhere(q, c, CompileWhere(c)))
         /\ WheresOnly(AddWhere(q, c, CompileWhere(c)), q)
<1> DEFINE r == [q EXCEPT !.wheres = Append(q.wheres, c)]
           s == CompileWhere(c)
           p == AddBinding(r, s, "where")
<1>1. q \in Registry /\ q.wheres \in Seq(Clauses) /\ s \in Text
  BY DEF Matched, Registry, Clauses
<1>2. Append(q.wheres, c) \in Seq(Clauses)
      /\ CompileWheres(Append(q.wheres, c)) = CompileWheres(q.wheres) \o s
  BY <1>1, WheresAppend
<1> HIDE DEF s
<1>3. r \in Registry /\ r.wheres = Append(q.wheres, c) /\ r.bindings = q.bindings
      /\ WheresOnly(r, q)
  BY <1>1, <1>2 DEF Registry, WheresOnly, OthersSame
<1> HIDE DEF r
<1>4. /\ p \in Registry /\ SameClauses(p, r)
      /\ p.bindings["where"] = r.bindings["where"] \o s
      /\ OthersSame(p, r, "where")
  <2>1. "where" \in TypeNames
    BY DEF TypeNames
  <2> QED BY <2>1, <1>1, <1>3, Binds
<1> HIDE DEF p
<1>5. WheresOnly(p, q)
  BY <1>3, <1>4 DEF WheresOnly, SameClauses, OthersSame
<1>6. Matched(p)
  BY <1>2, <1>3, <1>4, <1>5 DEF Matched, WheresOnly, SameClauses, OthersSame
<1>7. AddWhere(q, c, s) = p
  BY DEF AddWhere, p, r
<1> QED BY <1>5, <1>6, <1>7 DEF s

LEMMA AddsHaving ==
  ASSUME NEW q, Matched(q), NEW c \in Clauses
  PROVE  Matched(AddHaving(q, c, CompileWhere(c)))
<1> DEFINE r == [q EXCEPT !.havings = Append(q.havings, c)]
           s == CompileWhere(c)
           p == AddBinding(r, s, "having")
<1>1. q \in Registry /\ q.havings \in Seq(Clauses) /\ s \in Text
  BY DEF Matched, Registry, Clauses
<1>2. Append(q.havings, c) \in Seq(Clauses)
      /\ CompileWheres(Append(q.havings, c)) = CompileWheres(q.havings) \o s
  BY <1>1, WheresAppend
<1> HIDE DEF s
<1>3. /\ r \in Registry /\ r.havings = Append(q.havings, c)
      /\ SameClauses(r, [q EXCEPT !.havings = r.havings]) /\ r.bindings = q.bindings
  BY <1>1, <1>2 DEF Registry, SameClauses
<1>4. "having" \in TypeNames
  BY DEF TypeNames
<1>5. /\ p \in Registry /\ SameClauses(p, r)
      /\ p.bindings["having"] = r.bindings["having"] \o s
      /\ OthersSame(p, r, "having")
  <2> HIDE DEF r
  <2> QED BY <1>1, <1>3, <1>4, Binds
<1> HIDE DEF p
<1>6. Matched(p)
  BY <1>1, <1>2, <1>3, <1>5 DEF Matched, SameClauses, OthersSame, Registry
<1>7. AddHaving(q, c, s) = p
  BY DEF AddHaving, p
<1> QED BY <1>6, <1>7 DEF s

(* A text kept in one place of the registry, with its values.                    *)
LEMMA AddsColumn ==
  ASSUME NEW q, Matched(q), NEW s \in Text
  PROVE  Matched(SelectRaw(q, s))
<1> DEFINE r == [q EXCEPT !.columns = Append(q.columns, s)]
           p == AddBinding(r, s, "select")
<1>1. q \in Registry /\ q.columns \in Seq(Text)
  BY DEF Matched, Registry
<1>2. Append(q.columns, s) \in Seq(Text)
      /\ FlattenSeq(Append(q.columns, s)) = FlattenSeq(q.columns) \o s
  BY <1>1, TextAppend
<1>3. r \in Registry
  BY <1>1, <1>2 DEF Registry
<1>4. "select" \in TypeNames
  BY DEF TypeNames
<1>5. /\ p \in Registry /\ SameClauses(p, r)
      /\ p.bindings["select"] = r.bindings["select"] \o s
      /\ OthersSame(p, r, "select")
  <2> HIDE DEF r
  <2> QED BY <1>1, <1>3, <1>4, Binds
<1> HIDE DEF p
<1>6. Matched(p)
  BY <1>1, <1>2, <1>3, <1>5 DEF Matched, SameClauses, OthersSame, Registry
<1>7. SelectRaw(q, s) = p
  BY DEF SelectRaw, p
<1> QED BY <1>6, <1>7

LEMMA AddsGroup ==
  ASSUME NEW q, Matched(q), NEW s \in Text
  PROVE  Matched(AddBinding([q EXCEPT !.groups = Append(q.groups, s)], s, "groupBy"))
<1> DEFINE r == [q EXCEPT !.groups = Append(q.groups, s)]
           p == AddBinding(r, s, "groupBy")
<1>1. q \in Registry /\ q.groups \in Seq(Text)
  BY DEF Matched, Registry
<1>2. Append(q.groups, s) \in Seq(Text)
      /\ FlattenSeq(Append(q.groups, s)) = FlattenSeq(q.groups) \o s
  BY <1>1, TextAppend
<1>3. r \in Registry /\ "groupBy" \in TypeNames
  BY <1>1, <1>2 DEF Registry, TypeNames
<1>4. /\ p \in Registry /\ SameClauses(p, r)
      /\ p.bindings["groupBy"] = r.bindings["groupBy"] \o s
      /\ OthersSame(p, r, "groupBy")
  <2> HIDE DEF r
  <2> QED BY <1>3, Binds
<1> HIDE DEF p
<1>5. Matched(p)
  BY <1>1, <1>2, <1>3, <1>4 DEF Matched, SameClauses, OthersSame, Registry
<1> QED BY <1>5 DEF p

LEMMA AddsOrder ==
  ASSUME NEW q, Matched(q), NEW s \in Text
  PROVE  Matched(AddBinding([q EXCEPT !.orders = Append(q.orders, s)], s, "order"))
<1> DEFINE r == [q EXCEPT !.orders = Append(q.orders, s)]
           p == AddBinding(r, s, "order")
<1>1. q \in Registry /\ q.orders \in Seq(Text)
  BY DEF Matched, Registry
<1>2. Append(q.orders, s) \in Seq(Text)
      /\ FlattenSeq(Append(q.orders, s)) = FlattenSeq(q.orders) \o s
  BY <1>1, TextAppend
<1>3. r \in Registry /\ "order" \in TypeNames
  BY <1>1, <1>2 DEF Registry, TypeNames
<1>4. /\ p \in Registry /\ SameClauses(p, r)
      /\ p.bindings["order"] = r.bindings["order"] \o s
      /\ OthersSame(p, r, "order")
  <2> HIDE DEF r
  <2> QED BY <1>3, Binds
<1> HIDE DEF p
<1>5. Matched(p)
  BY <1>1, <1>2, <1>3, <1>4 DEF Matched, SameClauses, OthersSame, Registry
<1> QED BY <1>5 DEF p

LEMMA AddsUnionOrder ==
  ASSUME NEW q, Matched(q), NEW s \in Text
  PROVE  Matched(AddBinding([q EXCEPT !.unionOrders = Append(q.unionOrders, s)], s, "unionOrder"))
<1> DEFINE r == [q EXCEPT !.unionOrders = Append(q.unionOrders, s)]
           p == AddBinding(r, s, "unionOrder")
<1>1. q \in Registry /\ q.unionOrders \in Seq(Text)
  BY DEF Matched, Registry
<1>2. Append(q.unionOrders, s) \in Seq(Text)
      /\ FlattenSeq(Append(q.unionOrders, s)) = FlattenSeq(q.unionOrders) \o s
  BY <1>1, TextAppend
<1>3. r \in Registry /\ "unionOrder" \in TypeNames
  BY <1>1, <1>2 DEF Registry, TypeNames
<1>4. /\ p \in Registry /\ SameClauses(p, r)
      /\ p.bindings["unionOrder"] = r.bindings["unionOrder"] \o s
      /\ OthersSame(p, r, "unionOrder")
  <2> HIDE DEF r
  <2> QED BY <1>3, Binds
<1> HIDE DEF p
<1>5. Matched(p)
  BY <1>1, <1>2, <1>3, <1>4 DEF Matched, SameClauses, OthersSame, Registry
<1> QED BY <1>5 DEF p

LEMMA OrderByRawMatched ==
  ASSUME NEW q, Matched(q), NEW s \in Text
  PROVE  Matched(OrderByRaw(q, s))
<1>1. CASE q.unions # <<>>
  BY <1>1, AddsUnionOrder DEF OrderByRaw
<1>2. CASE q.unions = <<>>
  BY <1>2, AddsOrder DEF OrderByRaw
<1> QED BY <1>1, <1>2

LEMMA UnionMatched ==
  ASSUME NEW q, Matched(q), NEW s \in Text
  PROVE  Matched(Union(q, s))
<1> DEFINE r == [q EXCEPT !.unions = Append(q.unions, s)]
           p == AddBinding(r, s, "union")
<1>1. q \in Registry /\ q.unions \in Seq(Text)
  BY DEF Matched, Registry
<1>2. Append(q.unions, s) \in Seq(Text) /\ Append(q.unions, s) # <<>>
      /\ FlattenSeq(Append(q.unions, s)) = FlattenSeq(q.unions) \o s
  BY <1>1, TextAppend, AppendProperties
<1>3. r \in Registry /\ "union" \in TypeNames
  BY <1>1, <1>2 DEF Registry, TypeNames
<1>4. /\ p \in Registry /\ SameClauses(p, r)
      /\ p.bindings["union"] = r.bindings["union"] \o s
      /\ OthersSame(p, r, "union")
  <2> HIDE DEF r
  <2> QED BY <1>3, Binds
<1> HIDE DEF p
<1>5. Matched(p)
  BY <1>1, <1>2, <1>3, <1>4 DEF Matched, SameClauses, OthersSame, Registry
<1> QED BY <1>5 DEF p, Union

(* The first expressions come before the first union, the others after it.      *)
LEMMA WithExpressionMatched ==
  ASSUME NEW q, Matched(q), NEW s \in Text
  PROVE  Matched(WithExpression(q, s))
<1> DEFINE r == IF q.unions # <<>>
                  THEN [q EXCEPT !.unionExpressions = Append(q.unionExpressions, s)]
                  ELSE [q EXCEPT !.expressions = Append(q.expressions, s)]
           p == AddBinding(r, s, "expressions")
           e == q.expressions
           u == q.unionExpressions
<1>1. q \in Registry /\ e \in Seq(Text) /\ u \in Seq(Text)
  BY DEF Matched, Registry
<1>2. /\ FlattenSeq(e) \in Text /\ FlattenSeq(u) \in Text
      /\ Append(e, s) \in Seq(Text) /\ FlattenSeq(Append(e, s)) = FlattenSeq(e) \o s
      /\ Append(u, s) \in Seq(Text) /\ FlattenSeq(Append(u, s)) = FlattenSeq(u) \o s
  BY <1>1, TextAppend
<1>3. r \in Registry /\ "expressions" \in TypeNames
  BY <1>1, <1>2 DEF Registry, TypeNames
<1>4. /\ p \in Registry /\ SameClauses(p, r)
      /\ p.bindings["expressions"] = r.bindings["expressions"] \o s
      /\ OthersSame(p, r, "expressions")
  <2> HIDE DEF r
  <2> QED BY <1>3, Binds
<1> HIDE DEF p
<1>5. r.bindings["expressions"] \o s = FlattenSeq(r.expressions) \o FlattenSeq(r.unionExpressions)
  <2>1. q.bindings["expressions"] = FlattenSeq(e) \o FlattenSeq(u)
        /\ (q.unions = <<>> => u = <<>>)
    BY DEF Matched
  <2>2. CASE q.unions # <<>>
    <3>1. r.bindings = q.bindings /\ r.expressions = e /\ r.unionExpressions = Append(u, s)
      BY <1>1, <2>2 DEF Registry
    <3>2. (FlattenSeq(e) \o FlattenSeq(u)) \o s = FlattenSeq(e) \o (FlattenSeq(u) \o s)
      <4> HIDE DEF e, u
      <4> QED BY <1>2, TextAssoc
    <3> HIDE DEF r, e, u
    <3> QED BY <1>2, <2>1, <3>1, <3>2
  <2>3. CASE q.unions = <<>>
    <3>1. r.bindings = q.bindings /\ r.expressions = Append(e, s) /\ r.unionExpressions = u
      BY <1>1, <2>3 DEF Registry
    <3>2. FlattenSeq(u) = <<>> /\ FlattenSeq(e) \o <<>> = FlattenSeq(e)
          /\ (FlattenSeq(e) \o s) \o <<>> = FlattenSeq(e) \o s
      BY <1>2, <2>1, <2>3, EmptyTexts, TextConcat
    <3> HIDE DEF r, e, u
    <3> QED BY <1>2, <2>1, <3>1, <3>2
  <2> QED BY <2>2, <2>3
<1>6. Matched(p)
  <2>1. CASE q.unions # <<>>
    BY <1>1, <1>3, <1>4, <1>5, <2>1 DEF Matched, SameClauses, OthersSame, Registry
  <2>2. CASE q.unions = <<>>
    BY <1>1, <1>3, <1>4, <1>5, <2>2 DEF Matched, SameClauses, OthersSame, Registry
  <2> QED BY <2>1, <2>2
<1>7. WithExpression(q, s) = p
  BY DEF WithExpression, p
<1> QED BY <1>6, <1>7

(* A where whose column binds values first.                                     *)
LEMMA AddsWhereOfColumn ==
  ASSUME NEW q, Matched(q), NEW a \in Text, NEW b \in Text, NEW c \in Clauses,
         CompileWhere(c) = a \o b
  PROVE  /\ Matched(AddWhere(AddBinding(q, a, "where"), c, b))
         /\ WheresOnly(AddWhere(AddBinding(q, a, "where"), c, b), q)
<1> DEFINE o == AddBinding(q, a, "where")
           r == [o EXCEPT !.wheres = Append(o.wheres, c)]
           p == AddBinding(r, b, "where")
<1>1. q \in Registry /\ q.wheres \in Seq(Clauses) /\ "where" \in TypeNames
      /\ q.bindings["where"] \in Text
  BY DEF Matched, Registry, TypeNames
<1>2. Append(q.wheres, c) \in Seq(Clauses)
      /\ CompileWheres(Append(q.wheres, c)) = CompileWheres(q.wheres) \o (a \o b)
  BY <1>1, WheresAppend
<1>3. /\ o \in Registry /\ SameClauses(o, q)
      /\ o.bindings["where"] = q.bindings["where"] \o a
      /\ OthersSame(o, q, "where")
  BY <1>1, Binds
<1> HIDE DEF o
<1>4. o.wheres = q.wheres
  BY <1>3 DEF SameClauses
<1>5. r \in Registry /\ r.wheres = Append(q.wheres, c) /\ r.bindings = o.bindings
      /\ WheresOnly(r, o)
  BY <1>2, <1>3, <1>4 DEF Registry, WheresOnly, OthersSame
<1> HIDE DEF r
<1>6. /\ p \in Registry /\ SameClauses(p, r)
      /\ p.bindings["where"] = r.bindings["where"] \o b
      /\ OthersSame(p, r, "where")
  BY <1>1, <1>5, Binds
<1> HIDE DEF p
<1>7. WheresOnly(p, q)
  BY <1>3, <1>5, <1>6 DEF WheresOnly, SameClauses, OthersSame
<1>8. p.bindings["where"] = CompileWheres(q.wheres) \o (a \o b)
  <2>1. q.bindings["where"] = CompileWheres(q.wheres)
    BY DEF Matched
  <2>2. (q.bindings["where"] \o a) \o b = q.bindings["where"] \o (a \o b)
    BY <1>1, TextAssoc
  <2> QED BY <1>3, <1>5, <1>6, <2>1, <2>2
<1>9. Matched(p)
  BY <1>2, <1>5, <1>6, <1>7, <1>8 DEF Matched, WheresOnly, SameClauses, OthersSame
<1>10. AddWhere(o, c, b) = p
  BY DEF AddWhere, p, r
<1> QED BY <1>7, <1>9, <1>10 DEF o

-------------------------------------------------------------------------------
(* The text of each clause is its column and what is bound of its values.       *)
LEMMA PlainText ==
  ASSUME NEW a \in Text
  PROVE  /\ Clause("Plain", a, <<>>) \in Clauses
         /\ CompileWhere(Clause("Plain", a, <<>>)) = a
<1>1. <<>> \in Seq(Nat) /\ a \o <<>> = a
  BY ConcatEmptySeq DEF Text
<1>2. CompileValues(Clause("Plain", a, <<>>)) = <<>>
  BY DEF CompileValues, Clause
<1>3. CompileWhere(Clause("Plain", a, <<>>)) = a
  BY <1>1, <1>2 DEF CompileWhere, Clause
<1> QED BY <1>1, <1>3 DEF Clauses, Clause, ClauseTypes

LEMMA RawText ==
  ASSUME NEW a \in Text, NEW s \in Text, NEW type \in {"Raw", "Nested"}
  PROVE  /\ Clause(type, a, s) \in Clauses
         /\ CompileWhere(Clause(type, a, s)) = a \o s
<1>1. s \in Seq(Nat) /\ a \o s \in Text
  BY TextConcat DEF Text, Number
<1>2. CompileValues(Clause(type, a, s)) = s
  BY DEF CompileValues, Clause
<1>3. CompileWhere(Clause(type, a, s)) = a \o s
  BY <1>2 DEF CompileWhere, Clause
<1> QED BY <1>1, <1>3 DEF Clauses, Clause, ClauseTypes

LEMMA CompareText ==
  ASSUME NEW a \in Text, NEW v \in Nat
  PROVE  /\ Clean(<<v>>) \in Text
         /\ Clause("Compare", a, <<v>>) \in Clauses
         /\ CompileWhere(Clause("Compare", a, <<v>>)) = a \o Clean(<<v>>)
<1>1. Clean(<<v>>) = Parameter(v) /\ Parameter(v) \in Text
  BY CleanFew, ParameterText
<1>2. <<v>> \in Seq(Nat) /\ <<v>>[1] = v
  OBVIOUS
<1>3. CompileValues(Clause("Compare", a, <<v>>)) = Parameter(v)
  BY <1>2 DEF CompileValues, Clause
<1>4. CompileWhere(Clause("Compare", a, <<v>>)) = a \o Parameter(v)
  BY <1>3 DEF CompileWhere, Clause
<1>5. a \o Parameter(v) \in Text
  BY <1>1, TextConcat
<1> QED BY <1>1, <1>2, <1>4, <1>5 DEF Clauses, Clause, ClauseTypes

LEMMA BetweenText ==
  ASSUME NEW v \in Nat, NEW w \in Nat
  PROVE  /\ Clean(<<v, w>>) \in Text
         /\ Clause("Between", <<>>, <<v, w>>) \in Clauses
         /\ CompileWhere(Clause("Between", <<>>, <<v, w>>)) = Clean(<<v, w>>)
<1>1. Clean(<<v, w>>) = Parameter(v) \o Parameter(w)
      /\ Parameter(v) \in Text /\ Parameter(w) \in Text
  BY CleanFew, ParameterText
<1>2. <<v, w>> \in Seq(Nat) /\ <<v, w>>[1] = v /\ <<v, w>>[2] = w /\ <<>> \in Text
  BY DEF Text
<1>3. CompileValues(Clause("Between", <<>>, <<v, w>>)) = Clean(<<v, w>>)
  BY <1>1, <1>2 DEF CompileValues, Clause
<1>4. Clean(<<v, w>>) \in Text
  BY <1>1, TextConcat
<1>5. CompileWhere(Clause("Between", <<>>, <<v, w>>)) = Clean(<<v, w>>)
  BY <1>3, <1>4, <1>2, TextConcat DEF CompileWhere, Clause
<1> QED BY <1>2, <1>4, <1>5 DEF Clauses, Clause, ClauseTypes

LEMMA InText ==
  ASSUME NEW s \in Seq(Nat)
  PROVE  /\ Clean(s) \in Text
         /\ Clause("In", <<>>, s) \in Clauses
         /\ CompileWhere(Clause("In", <<>>, s)) = Clean(s)
<1>1. Clean(s) \in Text /\ <<>> \in Text
  BY CleanAppend DEF Text
<1>2. Parameterize(s) = Clean(s)
  BY DEF Parameterize, Parameter, Clean
<1>3. CompileValues(Clause("In", <<>>, s)) = Clean(s)
  BY <1>2 DEF CompileValues, Clause
<1>4. CompileWhere(Clause("In", <<>>, s)) = Clean(s)
  BY <1>1, <1>3, TextConcat DEF CompileWhere, Clause
<1> QED BY <1>1, <1>4 DEF Clauses, Clause, ClauseTypes

-------------------------------------------------------------------------------
(* The methods of the builder keep a registry matched.                          *)
LEMMA NoClauses == CompileWheres(<<>>) = <<>> /\ CompileJoins(<<>>) = <<>>
<1>1. CompileWheres(<<>>) = FlattenSeq(<<>>)
  <2>1. [i \in DOMAIN <<>> |-> CompileWhere(<<>>[i])] = <<>>
    OBVIOUS
  <2> QED BY <2>1 DEF CompileWheres, Texts
<1>2. CompileJoins(<<>>) = FlattenSeq(<<>>)
  <2>1. [i \in DOMAIN <<>> |-> <<>>[i].table \o <<>>[i].joins \o <<>>[i].wheres] = <<>>
    OBVIOUS
  <2> QED BY <2>1 DEF CompileJoins, Texts
<1> QED BY <1>1, <1>2, NoText

LEMMA RegistryMatched ==
  /\ Matched(CreateRegistry)
  /\ CreateRegistry.bindings = [t \in TypeNames |-> <<>>]
  /\ CreateRegistry.from = <<>> /\ CreateRegistry.unions = <<>> /\ CreateRegistry.havings = <<>>
<1> DEFINE b == [t \in TypeNames |-> <<>>]
<1>1. <<>> \in Text /\ <<>> \in Seq(Text) /\ <<>> \in Seq(Joins) /\ <<>> \in Seq(Clauses)
  BY DEF Text
<1>2. b \in [TypeNames -> Text]
  BY <1>1
<1>3. /\ b["expressions"] = <<>> /\ b["select"] = <<>> /\ b["join"] = <<>> /\ b["where"] = <<>>
      /\ b["groupBy"] = <<>> /\ b["having"] = <<>> /\ b["order"] = <<>> /\ b["union"] = <<>>
      /\ b["unionOrder"] = <<>>
  BY DEF TypeNames
<1>4. CreateRegistry.bindings = b
  BY TheTypes DEF CreateRegistry
<1> HIDE DEF b
<1>5. CreateRegistry \in Registry
  BY <1>1, <1>2, <1>4, TheTypes DEF CreateRegistry, Registry
<1>6. FlattenSeq(<<>>) = <<>> /\ <<>> \o <<>> = <<>>
  BY <1>1, EmptyTexts, TextConcat
<1>7. CompileWheres(<<>>) = <<>> /\ CompileJoins(<<>>) = <<>>
  BY NoClauses
<1>8. /\ CreateRegistry.aggregate = FALSE /\ CreateRegistry.columns = <<>> /\ CreateRegistry.from = <<>>
      /\ CreateRegistry.expressions = <<>> /\ CreateRegistry.joins = <<>>
      /\ CreateRegistry.wheres = <<>> /\ CreateRegistry.groups = <<>>
      /\ CreateRegistry.havings = <<>> /\ CreateRegistry.orders = <<>>
      /\ CreateRegistry.unions = <<>> /\ CreateRegistry.unionExpressions = <<>>
      /\ CreateRegistry.unionOrders = <<>>
  BY DEF CreateRegistry
<1>9. Matched(CreateRegistry)
  BY <1>3, <1>4, <1>5, <1>6, <1>7, <1>8 DEF Matched
<1> QED BY <1>4, <1>8, <1>9 DEF b

LEMMA WhereMatched ==
  ASSUME NEW q, Matched(q), NEW a \in Text
  PROVE  /\ \A v \in Nat : /\ Matched(Where(q, a, Value(v)))
                           /\ WheresOnly(Where(q, a, Value(v)), q)
         /\ Matched(Where(q, a, [is |-> "null", of |-> <<>>]))
         /\ \A s \in Text : Matched(Where(q, a, [is |-> "query", of |-> s]))
<1> DEFINE b == AddBinding(q, a, "where")
<1>1. ASSUME NEW v \in Nat
      PROVE  Matched(Where(q, a, Value(v))) /\ WheresOnly(Where(q, a, Value(v)), q)
  <2>1. Where(q, a, Value(v)) = AddWhere(b, Clause("Compare", a, <<v>>), Clean(<<v>>))
    BY DEF Where, Value
  <2> QED BY <2>1, CompareText, AddsWhereOfColumn
<1>2. Matched(Where(q, a, [is |-> "null", of |-> <<>>]))
  <2>1. Where(q, a, [is |-> "null", of |-> <<>>]) = AddWhere(b, Clause("Plain", a, <<>>), <<>>)
    BY DEF Where, WhereNull
  <2>2. <<>> \in Text /\ a \o <<>> = a
    BY TextConcat DEF Text
  <2>3. CompileWhere(Clause("Plain", a, <<>>)) = a \o <<>>
    BY <2>2, PlainText
  <2> QED BY <2>1, <2>2, <2>3, PlainText, AddsWhereOfColumn
<1>3. ASSUME NEW s \in Text PROVE Matched(Where(q, a, [is |-> "query", of |-> s]))
  <2>1. Where(q, a, [is |-> "query", of |-> s]) = AddWhere(b, Clause("Raw", a, s), s)
    BY DEF Where, WhereSub
  <2> QED BY <2>1, RawText, AddsWhereOfColumn
<1> QED BY <1>1, <1>2, <1>3

(* A clause without a column.                                                   *)
LEMMA RawWhere ==
  ASSUME NEW q, Matched(q), NEW s \in Text, NEW type \in {"Raw", "Nested"}
  PROVE  /\ Matched(AddWhere(q, Clause(type, <<>>, s), s))
         /\ Matched(AddHaving(q, Clause(type, <<>>, s), s))
<1>1. <<>> \in Text /\ <<>> \o s = s
  BY TextConcat DEF Text
<1>2. Clause(type, <<>>, s) \in Clauses /\ CompileWhere(Clause(type, <<>>, s)) = s
  BY <1>1, RawText
<1> HIDE DEF Clause
<1> QED BY <1>2, AddsWhere, AddsHaving

LEMMA PlainWhere ==
  ASSUME NEW q, Matched(q)
  PROVE  /\ Matched(AddWhere(q, Clause("Plain", <<>>, <<>>), <<>>))
         /\ WheresOnly(AddWhere(q, Clause("Plain", <<>>, <<>>), <<>>), q)
         /\ Matched(AddHaving(q, Clause("Plain", <<>>, <<>>), <<>>))
<1>1. <<>> \in Text
  BY DEF Text
<1>2. Clause("Plain", <<>>, <<>>) \in Clauses /\ CompileWhere(Clause("Plain", <<>>, <<>>)) = <<>>
  BY <1>1, PlainText
<1> QED BY <1>2, AddsWhere, AddsHaving

LEMMA CompareWhere ==
  ASSUME NEW q, Matched(q), NEW v \in Nat
  PROVE  /\ Matched(AddWhere(q, Clause("Compare", <<>>, <<v>>), Clean(<<v>>)))
         /\ Matched(AddHaving(q, Clause("Compare", <<>>, <<v>>), Clean(<<v>>)))
<1>1. <<>> \in Text
  BY DEF Text
<1>2. /\ Clause("Compare", <<>>, <<v>>) \in Clauses
      /\ CompileWhere(Clause("Compare", <<>>, <<v>>)) = Clean(<<v>>)
  BY <1>1, CompareText, TextConcat
<1> QED BY <1>2, AddsWhere, AddsHaving

LEMMA BetweenWhere ==
  ASSUME NEW q, Matched(q), NEW v \in Nat, NEW w \in Nat
  PROVE  Matched(WhereBetween(q, v, w)) /\ Matched(HavingBetween(q, v, w))
BY BetweenText, AddsWhere, AddsHaving DEF WhereBetween, HavingBetween

LEMMA InWhere ==
  ASSUME NEW q, Matched(q), NEW s \in Seq(Nat)
  PROVE  Matched(WhereIn(q, s)) /\ Matched(WhereRowValues(q, s))
BY InText, AddsWhere DEF WhereIn, WhereRowValues

LEMMA NestedMatched ==
  ASSUME NEW q, Matched(q), NEW n, Matched(n)
  PROVE  Matched(AddNestedWhereQuery(q, n)) /\ Matched(AddNestedHavingQuery(q, n))
<1>1. /\ n.bindings["where"] = CompileWheres(n.wheres) /\ n.bindings["where"] \in Text
      /\ n.bindings["having"] = CompileWheres(n.havings) /\ n.bindings["having"] \in Text
  BY DEF Matched, Registry, TypeNames
<1> QED BY <1>1, RawWhere DEF AddNestedWhereQuery, AddNestedHavingQuery, Nested, CompileHavings

(* The builder of a join clause: it has joins and where clauses only.            *)
JoinBuilder(on) ==
  /\ Matched(on)
  /\ on.bindings["expressions"] = <<>> /\ on.bindings["select"] = <<>>
  /\ on.bindings["from"] = <<>> /\ on.bindings["groupBy"] = <<>>
  /\ on.bindings["having"] = <<>> /\ on.bindings["order"] = <<>>
  /\ on.bindings["union"] = <<>> /\ on.bindings["unionOrder"] = <<>>

LEMMA JoinBindings ==
  ASSUME NEW on, JoinBuilder(on)
  PROVE  /\ CompileJoins(on.joins) \in Text /\ CompileWheres(on.wheres) \in Text
         /\ GetBindings(on) = CompileJoins(on.joins) \o CompileWheres(on.wheres)
<1>1. on \in Registry /\ on.bindings["join"] = CompileJoins(on.joins)
      /\ on.bindings["where"] = CompileWheres(on.wheres)
  BY DEF JoinBuilder, Matched
<1>2. on.bindings["join"] \in Text /\ on.bindings["where"] \in Text
  BY <1>1 DEF Registry, TypeNames
<1> DEFINE j == on.bindings["join"]
           w == on.bindings["where"]
<1>3. GetBindings(on) = <<>> \o <<>> \o <<>> \o j \o w \o <<>> \o <<>> \o <<>> \o <<>> \o <<>>
  BY <1>1, GetBindingsIs DEF JoinBuilder
<1>4. j \in Text /\ w \in Text
  BY <1>2
<1> HIDE DEF j, w
<1>5. <<>> \in Text /\ <<>> \o <<>> = <<>> /\ <<>> \o j = j
  BY <1>4, TextConcat DEF Text
<1>6. j \o w \in Text /\ (j \o w) \o <<>> = j \o w
  BY <1>4, TextConcat
<1>7. GetBindings(on) = j \o w
  BY <1>3, <1>5, <1>6, Zenon
<1> QED BY <1>1, <1>4, <1>7 DEF j, w

LEMMA JoinSubMatched ==
  ASSUME NEW q, Matched(q), NEW s \in Text, NEW on, JoinBuilder(on)
  PROVE  Matched(JoinSub(q, s, on)) /\ OthersSame(JoinSub(q, s, on), q, "join")
<1> DEFINE j == JoinOf(s, on)
           g == GetBindings(on)
           o == AddBinding(q, s, "join")
           r == [o EXCEPT !.joins = Append(o.joins, j)]
           p == AddBinding(r, g, "join")
<1>1. q \in Registry /\ q.joins \in Seq(Joins) /\ "join" \in TypeNames
      /\ q.bindings["join"] \in Text
  BY DEF Matched, Registry, TypeNames
<1>2. j \in Joins /\ g \in Text /\ j.table \o j.joins \o j.wheres = s \o g
  <2> DEFINE cj == CompileJoins(on.joins)
             cw == CompileWheres(on.wheres)
  <2>1. cj \in Text /\ cw \in Text /\ g = cj \o cw
    BY JoinBindings
  <2>2. j = [table |-> s, joins |-> cj, wheres |-> cw]
    BY DEF JoinOf
  <2> HIDE DEF cj, cw, j, g
  <2>3. (s \o cj) \o cw = s \o (cj \o cw) /\ cj \o cw \in Text
    BY <2>1, TextAssoc, TextConcat
  <2> QED BY <2>1, <2>2, <2>3 DEF Joins
<1> HIDE DEF j, g
<1>3. Append(q.joins, j) \in Seq(Joins)
      /\ CompileJoins(Append(q.joins, j)) = CompileJoins(q.joins) \o (s \o g)
  BY <1>1, <1>2, JoinsAppend
<1>4. /\ o \in Registry /\ SameClauses(o, q)
      /\ o.bindings["join"] = q.bindings["join"] \o s
      /\ OthersSame(o, q, "join")
  BY <1>1, Binds
<1> HIDE DEF o
<1>5. o.joins = q.joins
  BY <1>4 DEF SameClauses
<1>6. /\ r \in Registry /\ r.joins = Append(q.joins, j) /\ r.bindings = o.bindings
      /\ r.aggregate = o.aggregate /\ r.columns = o.columns /\ r.from = o.from /\ r.expressions = o.expressions
      /\ r.wheres = o.wheres /\ r.groups = o.groups /\ r.havings = o.havings
      /\ r.orders = o.orders /\ r.unions = o.unions
      /\ r.unionExpressions = o.unionExpressions /\ r.unionOrders = o.unionOrders
  BY <1>3, <1>4, <1>5 DEF Registry
<1>7. /\ p \in Registry /\ SameClauses(p, r)
      /\ p.bindings["join"] = r.bindings["join"] \o g
      /\ OthersSame(p, r, "join")
  <2> HIDE DEF r
  <2> QED BY <1>1, <1>2, <1>6, Binds
<1> HIDE DEF p
<1>8. p.bindings["join"] = CompileJoins(q.joins) \o (s \o g)
  <2>1. q.bindings["join"] = CompileJoins(q.joins)
    BY DEF Matched
  <2>2. (q.bindings["join"] \o s) \o g = q.bindings["join"] \o (s \o g)
    BY <1>1, <1>2, TextAssoc
  <2> HIDE DEF r
  <2> QED BY <1>4, <1>6, <1>7, <2>1, <2>2
<1>9. Matched(p) /\ OthersSame(p, q, "join")
  <2> HIDE DEF r
  <2>1. /\ p.aggregate = q.aggregate /\ p.columns = q.columns /\ p.from = q.from /\ p.expressions = q.expressions
        /\ p.wheres = q.wheres /\ p.groups = q.groups /\ p.havings = q.havings
        /\ p.orders = q.orders /\ p.unions = q.unions
        /\ p.unionExpressions = q.unionExpressions /\ p.unionOrders = q.unionOrders
        /\ p.joins = Append(q.joins, j)
    BY <1>4, <1>6, <1>7 DEF SameClauses
  <2>2. OthersSame(p, q, "join")
    BY <1>4, <1>6, <1>7 DEF OthersSame
  <2> QED BY <1>3, <1>7, <1>8, <2>1, <2>2 DEF Matched, OthersSame
<1>10. JoinSub(q, s, on) = p
  BY DEF JoinSub, BaseJoin, p, o, j, g
<1> QED BY <1>9, <1>10

LEMMA BaseJoinMatched ==
  ASSUME NEW q, Matched(q), NEW on, JoinBuilder(on)
  PROVE  Matched(BaseJoin(q, <<>>, on))
<1> DEFINE o == AddBinding(q, <<>>, "join")
<1>1. <<>> \in Text
  BY DEF Text
<1>2. Matched(BaseJoin(o, <<>>, on))
  BY <1>1, JoinSubMatched DEF JoinSub
<1>3. o = q
  <2>1. q.bindings["join"] \in Text /\ q \in Registry /\ q.bindings \in [TypeNames -> Text]
    BY DEF Matched, Registry, TypeNames
  <2>2. q.bindings["join"] \o <<>> = q.bindings["join"]
    BY <2>1, TextConcat
  <2>3. [q.bindings EXCEPT !["join"] = q.bindings["join"]] = q.bindings
    BY <2>1
  <2>4. o = [q EXCEPT !.bindings = [q.bindings EXCEPT !["join"] = q.bindings["join"]]]
    BY <2>1, <2>2 DEF AddBinding, Registry
  <2>5. [q EXCEPT !.bindings = q.bindings] = q
    BY <2>1 DEF Registry
  <2> QED BY <2>3, <2>4, <2>5
<1> QED BY <1>2, <1>3

-------------------------------------------------------------------------------
(* Steps taken one after the other from a, each by a function of its own.        *)
LEMMA IterateExists ==
  ASSUME NEW R, NEW a \in R, NEW n \in Nat, NEW F \in [1 .. n -> [R -> R]]
  PROVE  \E f \in [0 .. n -> R] : f[0] = a /\ \A i \in 1 .. n : f[i] = F[i][f[i - 1]]
<1> DEFINE Steps(f, k) == f[0] = a /\ \A i \in 1 .. k : f[i] = F[i][f[i - 1]]
           B == {k \in 0 .. n : ~ \E f \in [0 .. k -> R] : Steps(f, k)}
<1> SUFFICES ASSUME B # {} PROVE FALSE
  <2>1. B = {} => \E f \in [0 .. n -> R] : Steps(f, n)
    OBVIOUS
  <2> QED BY <2>1
<1>1. PICK k \in B : \A j \in B : k <= j
  <2>1. B \in SUBSET Nat
    OBVIOUS
  <2> HIDE DEF B
  <2> QED BY <2>1, Least
<1>2. k # 0
  <2>1. [i \in 0 .. 0 |-> a] \in [0 .. 0 -> R] /\ Steps([i \in 0 .. 0 |-> a], 0)
    OBVIOUS
  <2> QED BY <2>1
<1>3. k - 1 \in 0 .. n /\ k \in 1 .. n /\ ~(k <= k - 1) /\ k - 1 \in 0 .. k - 1
  BY <1>2
<1>4. PICK f \in [0 .. k - 1 -> R] : Steps(f, k - 1)
  BY <1>1, <1>3
<1> DEFINE Next1(i) == IF i < k THEN f[i] ELSE F[k][f[k - 1]]
           g == [i \in 0 .. k |-> Next1(i)]
<1>5. F[k][f[k - 1]] \in R
  BY <1>3, <1>4
<1>6. g \in [0 .. k -> R]
  BY <1>3, <1>4, <1>5
<1>7. /\ g[0] = f[0] /\ g[k] = F[k][f[k - 1]]
      /\ \A i \in 0 .. k - 1 : g[i] = f[i]
  BY <1>3
<1>8. Steps(g, k)
  <2>1. g[0] = a
    BY <1>4, <1>7
  <2>2. ASSUME NEW i \in 1 .. k PROVE g[i] = F[i][g[i - 1]]
    <3>1. i - 1 \in 0 .. k - 1 /\ g[i - 1] = f[i - 1]
      BY <1>3, <1>7
    <3>2. CASE i = k
      BY <1>7, <3>1, <3>2
    <3>3. CASE i # k
      <4>1. i \in 1 .. k - 1 /\ i \in 0 .. k - 1
        BY <1>3, <3>3
      <4> QED BY <1>4, <1>7, <3>1, <4>1
    <3> QED BY <3>2, <3>3
  <2> HIDE DEF g
  <2> QED BY <2>1, <2>2
<1> HIDE DEF g
<1>9. k \notin B
  BY <1>6, <1>8
<1> QED BY <1>9

(* What a loop over columns or values gives is what its steps give.              *)
Unselected(q) == [q EXCEPT !.columns = <<>>, !.bindings["select"] = <<>>]

LEMMA SelectIs ==
  ASSUME NEW q, NEW columns \in Seq(Text), NEW f,
         f = [k \in 0 .. Len(columns) |->
                IF k = 0 THEN Unselected(q) ELSE SelectRaw(f[k - 1], columns[k])]
  PROVE  Select(q, columns) = f[Len(columns)]
<1> DEFINE n == Len(columns)
           Turn(h, k) == IF k = 0 THEN Unselected(q) ELSE SelectRaw(h[k - 1], columns[k])
           Eq(h) == h = [k \in 0 .. n |-> Turn(h, k)]
           g == CHOOSE h : Eq(h)
<1>1. n \in Nat
  OBVIOUS
<1>2. Select(q, columns) = g[n]
  BY DEF Select, Unselected
<1>3. Eq(f)
  OBVIOUS
<1>4. Eq(g)
  <2> HIDE DEF Eq
  <2> QED BY <1>3
<1>5. \A k \in 0 .. n : g[k] = Turn(g, k) /\ f[k] = Turn(f, k)
  <2> HIDE DEF g, Turn
  <2> QED BY <1>3, <1>4
<1> HIDE DEF g, n
<1>6. \A k \in 0 .. n : g[k] = f[k]
  <2> DEFINE B == {k \in 0 .. n : g[k] # f[k]}
  <2> SUFFICES ASSUME B # {} PROVE FALSE
    OBVIOUS
  <2>1. PICK k \in B : \A j \in B : k <= j
    <3>1. B \in SUBSET Nat
      BY <1>1
    <3> HIDE DEF B
    <3> QED BY <3>1, Least
  <2>2. k # 0
    BY <1>5
  <2>3. k - 1 \in 0 .. n /\ ~(k <= k - 1)
    BY <1>1, <2>2
  <2>4. g[k - 1] = f[k - 1]
    BY <2>1, <2>3
  <2> QED BY <1>5, <2>2, <2>4
<1> QED BY <1>1, <1>2, <1>6 DEF n

LEMMA WhereEachIs ==
  ASSUME NEW q, NEW values \in Seq(Number), NEW f,
         f = [k \in 0 .. Len(values) |->
                IF k = 0 THEN q ELSE Where(f[k - 1], <<>>, Value(values[k]))]
  PROVE  WhereEach(q, values) = f[Len(values)]
<1> DEFINE n == Len(values)
           Turn(h, k) == IF k = 0 THEN q ELSE Where(h[k - 1], <<>>, Value(values[k]))
           Eq(h) == h = [k \in 0 .. n |-> Turn(h, k)]
           g == CHOOSE h : Eq(h)
<1>1. n \in Nat
  OBVIOUS
<1>2. WhereEach(q, values) = g[n]
  BY DEF WhereEach
<1>3. Eq(f)
  OBVIOUS
<1>4. Eq(g)
  <2> HIDE DEF Eq
  <2> QED BY <1>3
<1>5. \A k \in 0 .. n : g[k] = Turn(g, k) /\ f[k] = Turn(f, k)
  <2> HIDE DEF g, Turn
  <2> QED BY <1>3, <1>4
<1> HIDE DEF g, n
<1>6. \A k \in 0 .. n : g[k] = f[k]
  <2> DEFINE B == {k \in 0 .. n : g[k] # f[k]}
  <2> SUFFICES ASSUME B # {} PROVE FALSE
    OBVIOUS
  <2>1. PICK k \in B : \A j \in B : k <= j
    <3>1. B \in SUBSET Nat
      BY <1>1
    <3> HIDE DEF B
    <3> QED BY <3>1, Least
  <2>2. k # 0
    BY <1>5
  <2>3. k - 1 \in 0 .. n /\ ~(k <= k - 1)
    BY <1>1, <2>2
  <2>4. g[k - 1] = f[k - 1]
    BY <2>1, <2>3
  <2> QED BY <1>5, <2>2, <2>4
<1> QED BY <1>1, <1>2, <1>6 DEF n

(* Each value of the loop is a where of its own; no other clause is touched.     *)
LEMMA WhereEachMatched ==
  ASSUME NEW q, Matched(q), NEW values \in Seq(Number)
  PROVE  /\ Matched(WhereEach(q, values)) /\ WheresOnly(WhereEach(q, values), q)
         /\ \E f : /\ f = [k \in 0 .. Len(values) |->
                             IF k = 0 THEN q ELSE Where(f[k - 1], <<>>, Value(values[k]))]
                   /\ f \in [0 .. Len(values) -> {r \in Registry : Matched(r) /\ WheresOnly(r, q)}]
<1> DEFINE R == {r \in Registry : Matched(r) /\ WheresOnly(r, q)}
           n == Len(values)
           F == [k \in 1 .. n |-> [r \in R |-> Where(r, <<>>, Value(values[k]))]]
<1>1. q \in R
  BY DEF Matched, WheresOnly, OthersSame
<1>2. n \in Nat /\ \A k \in 1 .. n : values[k] \in Nat
  BY DEF Number
<1>3. \A r \in R, v \in Nat : Where(r, <<>>, Value(v)) \in R
  <2> TAKE r \in R, v \in Nat
  <2> DEFINE p == Where(r, <<>>, Value(v))
  <2>1. <<>> \in Text
    BY DEF Text
  <2>2. Matched(p) /\ WheresOnly(p, r)
    BY <2>1, WhereMatched
  <2> HIDE DEF p
  <2>3. WheresOnly(p, q)
    BY <2>2 DEF WheresOnly, OthersSame
  <2>4. p \in Registry
    BY <2>2 DEF Matched
  <2>5. p \in R
    BY <2>2, <2>3, <2>4
  <2> QED BY <2>5 DEF p
<1> HIDE DEF R
<1>4. F \in [1 .. n -> [R -> R]]
  BY <1>2, <1>3
<1>5. \A k \in 1 .. n, r \in R : F[k][r] = Where(r, <<>>, Value(values[k]))
  OBVIOUS
<1> HIDE DEF F, n
<1>6. PICK f \in [0 .. n -> R] : f[0] = q /\ \A k \in 1 .. n : f[k] = F[k][f[k - 1]]
  <2>1. n \in Nat
    BY <1>2
  <2> QED BY <1>1, <1>4, <2>1, IterateExists
<1>7. \A k \in 0 .. n : f[k] = IF k = 0 THEN q ELSE Where(f[k - 1], <<>>, Value(values[k]))
  <2> TAKE k \in 0 .. n
  <2>1. k # 0 => k \in 1 .. n /\ k - 1 \in 0 .. n
    BY <1>2
  <2> QED BY <1>5, <1>6, <2>1
<1>8. f = [k \in 0 .. n |-> IF k = 0 THEN q ELSE Where(f[k - 1], <<>>, Value(values[k]))]
  BY <1>6, <1>7
<1>9. WhereEach(q, values) = f[n]
  BY <1>8, WhereEachIs DEF n
<1>10. f[n] \in R
  BY <1>2, <1>6
<1> QED BY <1>6, <1>8, <1>9, <1>10 DEF R, n

LEMMA AppliedMatched ==
  ASSUME NEW q, Matched(q), NEW callbacks \in Seq(Number)
  PROVE  Matched(Applied(q, callbacks)) /\ WheresOnly(Applied(q, callbacks), q)
BY WhereEachMatched DEF Applied

LEMMA AppliedNone ==
  ASSUME NEW q
  PROVE  Applied(q, <<>>) = q
<1> DEFINE f == [k \in 0 .. 0 |-> q]
<1>1. <<>> \in Seq(Number) /\ Len(<<>>) = 0
  OBVIOUS
<1>2. f = [k \in 0 .. 0 |-> IF k = 0 THEN q ELSE Where(f[k - 1], <<>>, Value(<<>>[k]))]
  OBVIOUS
<1>3. f[0] = q
  OBVIOUS
<1> HIDE DEF f
<1> QED BY <1>1, <1>2, <1>3, WhereEachIs DEF Applied

(* Whether it is an aggregate, a limit and an offset are apart from every clause. *)
With(q, a, l, o) == [q EXCEPT !.aggregate = a, !.limit = l, !.offset = o]

LEMMA WithBinds ==
  ASSUME NEW q \in Registry, NEW s, NEW t,
         NEW a \in BOOLEAN, NEW l \in BOOLEAN, NEW o \in BOOLEAN
  PROVE  AddBinding(With(q, a, l, o), s, t) = With(AddBinding(q, s, t), a, l, o)
BY DEF AddBinding, With, Registry

LEMMA WithWhere ==
  ASSUME NEW q, Matched(q), NEW v \in Nat,
         NEW a \in BOOLEAN, NEW l \in BOOLEAN, NEW o \in BOOLEAN
  PROVE  Where(With(q, a, l, o), <<>>, Value(v)) = With(Where(q, <<>>, Value(v)), a, l, o)
<1> DEFINE b == AddBinding(q, <<>>, "where")
           c == Clause("Compare", <<>>, <<v>>)
           s == Clean(<<v>>)
           r == [b EXCEPT !.wheres = Append(b.wheres, c)]
<1>1. /\ Where(q, <<>>, Value(v)) = AddBinding(r, s, "where")
      /\ Where(With(q, a, l, o), <<>>, Value(v)) =
           AddWhere(AddBinding(With(q, a, l, o), <<>>, "where"), c, s)
  BY DEF Where, Value, AddWhere
<1>2. q \in Registry /\ "where" \in TypeNames /\ <<>> \in Text
  BY DEF Matched, TypeNames, Text
<1>3. b \in Registry
  BY <1>2, Binds
<1>4. AddBinding(With(q, a, l, o), <<>>, "where") = With(b, a, l, o)
  BY <1>2, WithBinds
<1>5. c \in Clauses
  BY <1>2, CompareText
<1> HIDE DEF b, c, s
<1>6. r \in Registry
  <2>1. Append(b.wheres, c) \in Seq(Clauses)
    BY <1>3, <1>5 DEF Registry
  <2> QED BY <1>3, <2>1 DEF Registry
<1>7. [With(b, a, l, o) EXCEPT !.wheres = Append(With(b, a, l, o).wheres, c)] = With(r, a, l, o)
  BY <1>3 DEF With, Registry
<1>8. AddWhere(With(b, a, l, o), c, s) = AddBinding(With(r, a, l, o), s, "where")
  BY <1>7 DEF AddWhere
<1> HIDE DEF r
<1>9. AddBinding(With(r, a, l, o), s, "where") = With(AddBinding(r, s, "where"), a, l, o)
  BY <1>6, WithBinds
<1> QED BY <1>1, <1>4, <1>8, <1>9

LEMMA WithApplied ==
  ASSUME NEW q, Matched(q), NEW callbacks \in Seq(Number),
         NEW a \in BOOLEAN, NEW l \in BOOLEAN, NEW o \in BOOLEAN
  PROVE  Applied(With(q, a, l, o), callbacks) = With(Applied(q, callbacks), a, l, o)
<1> DEFINE n == Len(callbacks)
           R == {r \in Registry : Matched(r) /\ WheresOnly(r, q)}
<1>1. PICK f : /\ f = [k \in 0 .. n |->
                         IF k = 0 THEN q ELSE Where(f[k - 1], <<>>, Value(callbacks[k]))]
               /\ f \in [0 .. n -> R]
  BY WhereEachMatched
<1>2. n \in Nat /\ \A k \in 1 .. n : callbacks[k] \in Nat
  BY DEF Number
<1> DEFINE g == [k \in 0 .. n |-> With(f[k], a, l, o)]
<1>3. \A k \in 0 .. n : g[k] = IF k = 0 THEN With(q, a, l, o)
                               ELSE Where(g[k - 1], <<>>, Value(callbacks[k]))
  <2> SUFFICES ASSUME NEW k \in 0 .. n
               PROVE  g[k] = IF k = 0 THEN With(q, a, l, o)
                             ELSE Where(g[k - 1], <<>>, Value(callbacks[k]))
    OBVIOUS
  <2>1. g[k] = With(f[k], a, l, o)
    OBVIOUS
  <2>2. CASE k = 0
    BY <1>1, <2>1, <2>2
  <2>3. CASE k # 0
    <3>1. k \in 1 .. n /\ k - 1 \in 0 .. n
      BY <1>2, <2>3
    <3>2. f[k] = Where(f[k - 1], <<>>, Value(callbacks[k])) /\ Matched(f[k - 1])
      BY <1>1, <2>3, <3>1
    <3>3. g[k - 1] = With(f[k - 1], a, l, o)
      BY <3>1
    <3>4. Where(g[k - 1], <<>>, Value(callbacks[k])) = With(f[k], a, l, o)
      BY <1>2, <3>1, <3>2, <3>3, WithWhere
    <3> QED BY <2>1, <2>3, <3>4
  <2> QED BY <2>2, <2>3
<1>4. g = [k \in 0 .. n |-> IF k = 0 THEN With(q, a, l, o)
                            ELSE Where(g[k - 1], <<>>, Value(callbacks[k]))]
  <2> DEFINE h == [k \in 0 .. n |-> IF k = 0 THEN With(q, a, l, o)
                                    ELSE Where(g[k - 1], <<>>, Value(callbacks[k]))]
  <2>1. \A k \in 0 .. n : g[k] = h[k]
    <3> HIDE DEF g
    <3> QED BY <1>3
  <2> QED BY <2>1
<1>5. g[n] = With(f[n], a, l, o)
  BY <1>2
<1> HIDE DEF g
<1>6. Applied(With(q, a, l, o), callbacks) = g[n]
  BY <1>4, WhereEachIs DEF Applied
<1>7. Applied(q, callbacks) = f[n]
  BY <1>1, WhereEachIs DEF Applied
<1> QED BY <1>5, <1>6, <1>7

-------------------------------------------------------------------------------
(* Methods that drop clauses drop their values too.                             *)
LEMMA SelectStart ==
  ASSUME NEW q, Matched(q)
  PROVE  Matched(Unselected(q))
<1> DEFINE b == [q.bindings EXCEPT !["select"] = <<>>]
           p == [q EXCEPT !.columns = <<>>, !.bindings = b]
<1>1. q \in Registry /\ q.bindings \in [TypeNames -> Text] /\ <<>> \in Text /\ <<>> \in Seq(Text)
      /\ "select" \in TypeNames
  BY DEF Matched, Registry, Text, TypeNames
<1>2. b \in [TypeNames -> Text] /\ b["select"] = <<>> /\ FlattenSeq(<<>>) = <<>>
  BY <1>1, EmptyTexts
<1>3. /\ b["expressions"] = q.bindings["expressions"] /\ b["from"] = q.bindings["from"]
      /\ b["join"] = q.bindings["join"] /\ b["where"] = q.bindings["where"]
      /\ b["groupBy"] = q.bindings["groupBy"] /\ b["having"] = q.bindings["having"]
      /\ b["order"] = q.bindings["order"] /\ b["union"] = q.bindings["union"]
      /\ b["unionOrder"] = q.bindings["unionOrder"]
  BY <1>1 DEF TypeNames
<1> HIDE DEF b
<1>4. Matched(p)
  BY <1>1, <1>2, <1>3 DEF Matched, Registry
<1>5. Unselected(q) = p
  BY <1>1 DEF b, Registry, Unselected
<1> QED BY <1>4, <1>5

LEMMA SelectMatched ==
  ASSUME NEW q, Matched(q), NEW columns \in Seq(Text)
  PROVE  Matched(Select(q, columns))
<1> DEFINE R == {r \in Registry : Matched(r)}
           n == Len(columns)
           F == [k \in 1 .. n |-> [r \in R |-> SelectRaw(r, columns[k])]]
<1>1. Unselected(q) \in R
  BY SelectStart DEF Matched
<1>2. n \in Nat /\ \A k \in 1 .. n : columns[k] \in Text
  OBVIOUS
<1>3. \A r \in R, s \in Text : SelectRaw(r, s) \in R
  <2> TAKE r \in R, s \in Text
  <2> DEFINE p == SelectRaw(r, s)
  <2>1. Matched(p)
    BY AddsColumn
  <2> HIDE DEF p
  <2>2. p \in R
    BY <2>1 DEF Matched
  <2> QED BY <2>2 DEF p
<1> HIDE DEF R
<1>4. F \in [1 .. n -> [R -> R]]
  BY <1>2, <1>3
<1>5. \A k \in 1 .. n, r \in R : F[k][r] = SelectRaw(r, columns[k])
  OBVIOUS
<1> HIDE DEF F, n
<1>6. PICK f \in [0 .. n -> R] : f[0] = Unselected(q) /\ \A k \in 1 .. n : f[k] = F[k][f[k - 1]]
  <2>1. n \in Nat
    BY <1>2
  <2> QED BY <1>1, <1>4, <2>1, IterateExists
<1>7. \A k \in 0 .. n : f[k] = IF k = 0 THEN Unselected(q) ELSE SelectRaw(f[k - 1], columns[k])
  <2> TAKE k \in 0 .. n
  <2>1. k # 0 => k \in 1 .. n /\ k - 1 \in 0 .. n
    BY <1>2
  <2> QED BY <1>5, <1>6, <2>1
<1>8. f = [k \in 0 .. n |-> IF k = 0 THEN Unselected(q) ELSE SelectRaw(f[k - 1], columns[k])]
  BY <1>6, <1>7
<1>9. Select(q, columns) = f[n]
  BY <1>8, SelectIs DEF n
<1>10. f[n] \in R
  BY <1>2, <1>6
<1> QED BY <1>9, <1>10 DEF R

LEMMA AddSelectMatched ==
  ASSUME NEW q, Matched(q), NEW s \in Text
  PROVE  Matched(AddSelect(q, s))
<1>1. << <<>> >> \in Seq(Text)
  BY DEF Text
<1>2. Matched(Select(q, << <<>> >>))
  BY <1>1, SelectMatched
<1> QED BY <1>2, AddsColumn DEF AddSelect

LEMMA FromMatched ==
  ASSUME NEW q, Matched(q), NEW s \in Text
  PROVE  Matched(From(q)) /\ Matched(FromRaw(q, s))
<1>1. q \in Registry /\ "from" \in TypeNames /\ <<>> \in Text /\ q.bindings["from"] \in Text
  BY DEF Matched, Text, TypeNames, Registry
<1>2. Matched(From(q))
  BY <1>1 DEF From, Matched, Registry
<1>3. Matched(FromRaw(q, s))
  <2> DEFINE r == [q EXCEPT !.from = s]
             p == AddBinding(r, s, "from")
  <2>1. r \in Registry
    BY <1>1 DEF Registry
  <2>2. /\ p \in Registry /\ SameClauses(p, r)
        /\ p.bindings["from"] = r.bindings["from"] \o s
        /\ OthersSame(p, r, "from")
    <3> HIDE DEF r
    <3> QED BY <1>1, <2>1, Binds
  <2> HIDE DEF p
  <2>3. r.bindings["from"] \o s = <<>> => s = <<>>
    <3>1. r.bindings["from"] \in Text
      BY <1>1 DEF Registry
    <3> HIDE DEF r
    <3> QED BY <3>1, ConcatEqualIffEmpty, ConcatSimplifications DEF Text
  <2>4. Matched(p)
    BY <1>1, <2>2, <2>3 DEF Matched, SameClauses, OthersSame, Registry
  <2> QED BY <2>4 DEF FromRaw, p
<1> QED BY <1>2, <1>3

LEMMA LimitMatched ==
  ASSUME NEW q, Matched(q)
  PROVE  Matched(Limit(q)) /\ Matched(Offset(q))
BY DEF Limit, Offset, Matched, Registry

LEMMA MatchedRegistry ==
  ASSUME NEW q, Matched(q)
  PROVE  q \in Registry /\ q.bindings \in [TypeNames -> Text]
<1>1. q \in Registry
  BY DEF Matched
<1> QED BY <1>1 DEF Registry

LEMMA ReorderMatched ==
  ASSUME NEW q, Matched(q)
  PROVE  Matched(Reorder(q))
<1> DEFINE b == [q.bindings EXCEPT !["order"] = <<>>, !["unionOrder"] = <<>>]
           p == [q EXCEPT !.orders = <<>>, !.unionOrders = <<>>, !.bindings = b]
<1>1. q \in Registry /\ q.bindings \in [TypeNames -> Text] /\ <<>> \in Text /\ <<>> \in Seq(Text)
  BY MatchedRegistry, NoText
<1>2. b \in [TypeNames -> Text] /\ b["order"] = <<>> /\ b["unionOrder"] = <<>>
      /\ FlattenSeq(<<>>) = <<>>
  BY <1>1, EmptyTexts DEF TypeNames
<1>3. /\ b["expressions"] = q.bindings["expressions"] /\ b["select"] = q.bindings["select"]
      /\ b["from"] = q.bindings["from"] /\ b["join"] = q.bindings["join"]
      /\ b["where"] = q.bindings["where"] /\ b["groupBy"] = q.bindings["groupBy"]
      /\ b["having"] = q.bindings["having"] /\ b["union"] = q.bindings["union"]
  BY <1>1 DEF TypeNames
<1> HIDE DEF b
<1>4. Matched(p)
  BY <1>1, <1>2, <1>3 DEF Matched, Registry
<1>5. Reorder(q) = p
  BY <1>1 DEF Reorder, b, Registry
<1> QED BY <1>4, <1>5

(* The select a write goes through takes over the columns of the query.          *)
LEMMA SelectsRowidMatched ==
  ASSUME NEW q, Matched(q)
  PROVE  /\ Matched(SelectsRowid(q))
         /\ SelectsRowid(q).bindings["select"] = <<>>
         /\ OthersSame(SelectsRowid(q), q, "select")
         /\ SelectsRowid(q).aggregate = q.aggregate /\ SelectsRowid(q).from = q.from
         /\ SelectsRowid(q).expressions = q.expressions
         /\ SelectsRowid(q).unionExpressions = q.unionExpressions
<1> DEFINE b == [q.bindings EXCEPT !["select"] = <<>>]
           p == [q EXCEPT !.columns = << <<>> >>, !.bindings = b]
<1>1. q \in Registry /\ q.bindings \in [TypeNames -> Text] /\ <<>> \in Text
      /\ << <<>> >> \in Seq(Text)
  BY MatchedRegistry, NoText
<1>2. b \in [TypeNames -> Text] /\ b["select"] = <<>> /\ FlattenSeq(<< <<>> >>) = <<>>
  BY <1>1, NoText DEF TypeNames
<1>3. /\ b["expressions"] = q.bindings["expressions"] /\ b["from"] = q.bindings["from"]
      /\ b["join"] = q.bindings["join"] /\ b["where"] = q.bindings["where"]
      /\ b["groupBy"] = q.bindings["groupBy"] /\ b["having"] = q.bindings["having"]
      /\ b["order"] = q.bindings["order"] /\ b["union"] = q.bindings["union"]
      /\ b["unionOrder"] = q.bindings["unionOrder"]
  BY <1>1 DEF TypeNames
<1> HIDE DEF b
<1>4. Matched(p)
  BY <1>1, <1>2, <1>3 DEF Matched, Registry
<1>5. SelectsRowid(q) = p
  BY <1>1 DEF SelectsRowid, b, Registry
<1>6. /\ p.bindings["select"] = <<>> /\ OthersSame(p, q, "select")
      /\ p.aggregate = q.aggregate /\ p.from = q.from /\ p.expressions = q.expressions
      /\ p.unionExpressions = q.unionExpressions
  BY <1>1, <1>2, <1>3 DEF OthersSame, Registry
<1> QED BY <1>4, <1>5, <1>6

(* The order SQL Server adds has no text and no value.                          *)
LEMMA CompiledMatched ==
  ASSUME NEW q, Matched(q), NEW g
  PROVE  /\ Matched(Compiled(g, q))
         /\ Compiled(g, Compiled(g, q)) = Compiled(g, q)
         /\ Compiled(g, q).aggregate = q.aggregate
         /\ CompileSelect(Compiled(g, q)) = CompileSelect(q)
         /\ GetBindings(Compiled(g, q)) = GetBindings(q)
<1>1. CASE Compiled(g, q) = q
  BY <1>1
<1>2. CASE Compiled(g, q) # q
  <2> DEFINE p == [q EXCEPT !.orders = << <<>> >>]
  <2>1. Compiled(g, q) = p /\ q.orders = <<>>
    BY <1>2 DEF Compiled
  <2>2. << <<>> >> \in Seq(Text) /\ FlattenSeq(<< <<>> >>) = <<>> /\ FlattenSeq(<<>>) = <<>>
    BY NoText
  <2>3. q \in Registry
    BY DEF Matched
  <2>4. /\ p \in Registry /\ p.bindings = q.bindings /\ p.orders = << <<>> >>
        /\ p.aggregate = q.aggregate /\ p.columns = q.columns /\ p.from = q.from
        /\ p.expressions = q.expressions /\ p.joins = q.joins /\ p.wheres = q.wheres
        /\ p.groups = q.groups /\ p.havings = q.havings /\ p.unions = q.unions
        /\ p.unionExpressions = q.unionExpressions /\ p.unionOrders = q.unionOrders
    BY <2>2, <2>3 DEF Registry
  <2> HIDE DEF p
  <2>5. Matched(p)
    BY <2>1, <2>2, <2>4 DEF Matched
  <2>6. Compiled(g, p) = p
    <3>1. << <<>> >> # <<>>
      OBVIOUS
    <3> QED BY <2>4, <3>1 DEF Compiled
  <2>7. \A a \in BOOLEAN :
          CompileQuery([p EXCEPT !.aggregate = a]) = CompileQuery([q EXCEPT !.aggregate = a])
    BY <2>1, <2>2, <2>3, <2>4
       DEF CompileQuery, CompileComponents, CompileUnions, CompileOrders, CompileColumns, Registry
  <2>8. CompileQuery(p) = CompileQuery(q)
    BY <2>1, <2>2, <2>4
       DEF CompileQuery, CompileComponents, CompileUnions, CompileOrders, CompileColumns
  <2>9. CompileSelect(p) = CompileSelect(q)
    BY <2>4, <2>7, <2>8 DEF CompileSelect
  <2>10. GetBindings(p) = GetBindings(q)
    BY <2>4 DEF GetBindings
  <2> QED BY <2>1, <2>4, <2>5, <2>6, <2>9, <2>10
<1> QED BY <1>1, <1>2

(* Nor does what a select sends depend on its page.                             *)
LEMMA PagedSent ==
  ASSUME NEW q, Matched(q), NEW l, NEW o
  PROVE  Sent(With(q, FALSE, l, o)) = Sent(q)
<1> DEFINE p == With(q, FALSE, l, o)
<1>1. /\ p.bindings = q.bindings /\ p.orders = q.orders
      /\ p.aggregate = FALSE /\ q.aggregate = FALSE /\ p.columns = q.columns /\ p.from = q.from
      /\ p.expressions = q.expressions /\ p.joins = q.joins /\ p.wheres = q.wheres
      /\ p.groups = q.groups /\ p.havings = q.havings /\ p.unions = q.unions
      /\ p.unionExpressions = q.unionExpressions /\ p.unionOrders = q.unionOrders
  BY MatchedRegistry DEF With, Registry, Matched
<1> HIDE DEF p
<1>2. CompileSelect(p) = CompileSelect(q)
  BY <1>1 DEF CompileSelect, CompileQuery, CompileComponents, CompileUnions, CompileOrders,
              CompileColumns
<1>3. GetBindings(p) = GetBindings(q)
  BY <1>1 DEF GetBindings
<1> QED BY <1>2, <1>3 DEF Sent, p

-------------------------------------------------------------------------------
(* Three texts in a row. (The provers are given few texts at a time: the rule     *)
(* applies to any three of those they know.)                                    *)
LEMMA TextNext ==
  ASSUME NEW a \in Text, NEW b \in Text, NEW c \in Text
  PROVE  b \o c \in Text /\ a \o (b \o c) = (a \o b) \o c
BY TextConcat, TextAssoc

(* The texts of the clauses of a registry.                                      *)
LEMMA ClauseTexts ==
  ASSUME NEW q, Matched(q)
  PROVE  /\ FlattenSeq(q.expressions) \in Text /\ FlattenSeq(q.unionExpressions) \in Text
         /\ FlattenSeq(q.columns) \in Text /\ q.from \in Text
         /\ CompileJoins(q.joins) \in Text /\ CompileWheres(q.wheres) \in Text
         /\ FlattenSeq(q.groups) \in Text /\ CompileWheres(q.havings) \in Text
         /\ FlattenSeq(q.orders) \in Text /\ FlattenSeq(q.unions) \in Text
         /\ FlattenSeq(q.unionOrders) \in Text
<1>1. /\ q.expressions \in Seq(Text) /\ q.unionExpressions \in Seq(Text)
      /\ q.columns \in Seq(Text) /\ q.from \in Text /\ q.groups \in Seq(Text)
      /\ q.orders \in Seq(Text) /\ q.unions \in Seq(Text) /\ q.unionOrders \in Seq(Text)
  BY DEF Matched, Registry
<1>2. /\ FlattenSeq(q.expressions) \in Text /\ FlattenSeq(q.unionExpressions) \in Text
      /\ FlattenSeq(q.columns) \in Text /\ FlattenSeq(q.groups) \in Text
      /\ FlattenSeq(q.orders) \in Text /\ FlattenSeq(q.unions) \in Text
      /\ FlattenSeq(q.unionOrders) \in Text
  BY <1>1, NoText, TextAppend
<1>3. q.bindings["join"] \in Text /\ q.bindings["where"] \in Text /\ q.bindings["having"] \in Text
  BY MatchedRegistry DEF TypeNames
<1> QED BY <1>1, <1>2, <1>3 DEF Matched

(* Expressions before and after a union: with one of the two, in either order.   *)
LEMMA OneWithTexts ==
  ASSUME NEW q, Matched(q), OneWith(q)
  PROVE  FlattenSeq(q.unionExpressions) \o FlattenSeq(q.expressions) = q.bindings["expressions"]
<1> DEFINE e == FlattenSeq(q.expressions)
           u == FlattenSeq(q.unionExpressions)
<1>1. e \in Text /\ u \in Text /\ q.bindings["expressions"] = e \o u
  BY ClauseTexts DEF Matched
<1>2. e = <<>> \/ u = <<>>
  BY NoText DEF OneWith
<1> HIDE DEF e, u
<1>3. u \o e = e \o u
  BY <1>1, <1>2, TextConcat
<1> QED BY <1>1, <1>3 DEF e, u

(* A query whose columns are selected sends what it binds.                      *)
LEMMA QueryAgrees ==
  ASSUME NEW q, Matched(q), Ordinary(q)
  PROVE  CompileQuery(q) = GetBindings(q)
<1> DEFINE e == FlattenSeq(q.expressions)
           x == FlattenSeq(q.unionExpressions)
           c == FlattenSeq(q.columns)
           f == q.from
           j == CompileJoins(q.joins)
           w == CompileWheres(q.wheres)
           g == FlattenSeq(q.groups)
           h == CompileWheres(q.havings)
           o == FlattenSeq(q.orders)
           u == FlattenSeq(q.unions)
           v == FlattenSeq(q.unionOrders)
           ec == e \o c
           ef == ec \o f
           ej == ef \o j
           ew == ej \o w
           eg == ew \o g
           eh == eg \o h
           eo == eh \o o
           t == x \o e \o c \o f \o j \o w \o g \o h \o o
<1>1. /\ e \in Text /\ x \in Text /\ c \in Text /\ f \in Text /\ j \in Text /\ w \in Text
      /\ g \in Text /\ h \in Text /\ o \in Text /\ u \in Text /\ v \in Text
  BY ClauseTexts
<1>2. CompileComponents(q) = eo
  <2>1. CompileColumns(q) = c
    BY DEF CompileColumns, Matched
  <2> QED BY <2>1 DEF CompileComponents, CompileExpressions, CompileHavings, CompileOrders
<1>3. CompileQuery(q) = (x \o eo) \o (u \o v)
  <2> HIDE DEF ec, ef, ej, ew, eg, eh, eo
  <2> QED BY <1>2 DEF CompileQuery, CompileExpressions, CompileUnions, CompileOrders
<1>4. GetBindings(q) = t \o u \o v
  <2>1. x \o e = q.bindings["expressions"]
    BY OneWithTexts DEF Ordinary
  <2>2. /\ q.bindings["select"] = c /\ q.bindings["from"] = f /\ q.bindings["join"] = j
        /\ q.bindings["where"] = w /\ q.bindings["groupBy"] = g /\ q.bindings["having"] = h
        /\ q.bindings["order"] = o /\ q.bindings["union"] = u /\ q.bindings["unionOrder"] = v
    BY DEF Matched, Ordinary, FromBoundOnce
  <2>3. GetBindings(q) =
          q.bindings["expressions"] \o q.bindings["select"] \o q.bindings["from"]
            \o q.bindings["join"] \o q.bindings["where"] \o q.bindings["groupBy"]
            \o q.bindings["having"] \o q.bindings["order"] \o q.bindings["union"]
            \o q.bindings["unionOrder"]
    BY MatchedRegistry, GetBindingsIs
  <2> HIDE DEF e, x, c, f, j, w, g, h, o, u, v
  <2> QED BY <2>1, <2>2, <2>3, Zenon
<1> HIDE DEF e, x, c, f, j, w, g, h, o, u, v, ec, ef, ej, ew, eg, eh, eo
<1>5. e \in Text
  BY <1>1
<1>6. x \in Text
  BY <1>1
<1>7. ec \in Text /\ x \o ec = (x \o e) \o c
  <2>1. c \in Text
    BY <1>1
  <2> QED BY <1>5, <1>6, <2>1, TextNext DEF ec
<1>8. ef \in Text /\ x \o ef = (x \o ec) \o f
  <2>1. f \in Text
    BY <1>1
  <2> QED BY <1>7, <1>6, <2>1, TextNext DEF ef
<1>9. ej \in Text /\ x \o ej = (x \o ef) \o j
  <2>1. j \in Text
    BY <1>1
  <2> QED BY <1>8, <1>6, <2>1, TextNext DEF ej
<1>10. ew \in Text /\ x \o ew = (x \o ej) \o w
  <2>1. w \in Text
    BY <1>1
  <2> QED BY <1>9, <1>6, <2>1, TextNext DEF ew
<1>11. eg \in Text /\ x \o eg = (x \o ew) \o g
  <2>1. g \in Text
    BY <1>1
  <2> QED BY <1>10, <1>6, <2>1, TextNext DEF eg
<1>12. eh \in Text /\ x \o eh = (x \o eg) \o h
  <2>1. h \in Text
    BY <1>1
  <2> QED BY <1>11, <1>6, <2>1, TextNext DEF eh
<1>13. eo \in Text /\ x \o eo = (x \o eh) \o o
  <2>1. o \in Text
    BY <1>1
  <2> QED BY <1>12, <1>6, <2>1, TextNext DEF eo
<1>14. x \o eo = t
  BY <1>7, <1>8, <1>9, <1>10, <1>11, <1>12, <1>13, Zenon
<1> HIDE DEF t
<1>15. t \in Text
  BY <1>6, <1>13, <1>14, TextConcat
<1>16. (t \o u) \o v = t \o (u \o v)
  <2>1. u \in Text /\ v \in Text
    BY <1>1
  <2> QED BY <1>15, <2>1, TextAssoc
<1> QED BY <1>3, <1>4, <1>14, <1>16

(* A select binds the values its text has places for.                           *)
LEMMA SelectAgrees ==
  ASSUME NEW q, Matched(q), Ordinary(q)
  PROVE  Agrees(Sent(q))
<1>1. CompileSelect(q) = CompileQuery(q)
  BY DEF CompileSelect, Matched
<1> QED BY <1>1, QueryAgrees DEF Sent, Agrees

-------------------------------------------------------------------------------
(* The copies that count: clauses and values dropped together.                  *)
Without(r, q, t) ==
  /\ r.from = q.from /\ r.expressions = q.expressions /\ r.joins = q.joins
  /\ r.wheres = q.wheres /\ r.groups = q.groups /\ r.havings = q.havings
  /\ r.unions = q.unions /\ r.unionExpressions = q.unionExpressions
  /\ r.unionOrders = q.unionOrders /\ r.bindings[t] = <<>> /\ OthersSame(r, q, t)

LEMMA CloneAll ==
  ASSUME NEW q, Matched(q)
  PROVE  CloneWithout(q, {}, {}) = q
<1>1. q \in Registry /\ q.bindings \in [TypeNames -> Text]
  BY MatchedRegistry
<1> DEFINE k == [p \in DOMAIN q |-> IF p \in {} THEN CreateRegistry[p] ELSE q[p]]
<1>2. k = q
  BY <1>1 DEF Registry
<1>3. CloneWithout(q, {}, {}) =
        [k EXCEPT !.bindings = [t \in DOMAIN @ |-> IF t \in {} THEN <<>> ELSE @[t]]]
  BY DEF CloneWithout
<1> HIDE DEF k
<1>4. [t \in DOMAIN q.bindings |-> IF t \in {} THEN <<>> ELSE q.bindings[t]] = q.bindings
  BY <1>1
<1>5. [q EXCEPT !.bindings = q.bindings] = q
  BY <1>1 DEF Registry
<1> QED BY <1>2, <1>3, <1>4, <1>5

LEMMA CloneWithoutColumns ==
  ASSUME NEW q, Matched(q)
  PROVE  LET r == CloneWithout(q, {"columns"}, {"select"})
         IN /\ Matched(r) /\ Without(r, q, "select") /\ r.columns = <<>> /\ r.orders = q.orders
<1> DEFINE b == [t \in DOMAIN q.bindings |-> IF t \in {"select"} THEN <<>> ELSE q.bindings[t]]
           k == [p \in DOMAIN q |-> IF p \in {"columns"} THEN CreateRegistry[p] ELSE q[p]]
           r == [k EXCEPT !.bindings = b]
<1>1. q \in Registry /\ q.bindings \in [TypeNames -> Text] /\ CreateRegistry["columns"] = <<>>
  BY MatchedRegistry DEF CreateRegistry
<1>2. k = [q EXCEPT !.columns = <<>>]
  BY <1>1 DEF Registry
<1>3. k.bindings = q.bindings
  BY <1>1, <1>2 DEF Registry
<1>4. CloneWithout(q, {"columns"}, {"select"}) = r
  <2> HIDE DEF k
  <2> QED BY <1>3 DEF CloneWithout, k
<1>5. b \in [TypeNames -> Text] /\ b["select"] = <<>>
  BY <1>1, NoText DEF TypeNames
<1>6. /\ b["expressions"] = q.bindings["expressions"] /\ b["from"] = q.bindings["from"]
      /\ b["join"] = q.bindings["join"] /\ b["where"] = q.bindings["where"]
      /\ b["groupBy"] = q.bindings["groupBy"] /\ b["having"] = q.bindings["having"]
      /\ b["order"] = q.bindings["order"] /\ b["union"] = q.bindings["union"]
      /\ b["unionOrder"] = q.bindings["unionOrder"]
  BY <1>1 DEF TypeNames
<1> HIDE DEF b, k
<1>7. Matched(r)
  BY <1>1, <1>2, <1>5, <1>6, NoText DEF Matched, Registry
<1>8. Without(r, q, "select") /\ r.columns = <<>> /\ r.orders = q.orders
  BY <1>1, <1>2, <1>5, <1>6 DEF Without, OthersSame, Registry
<1> QED BY <1>4, <1>7, <1>8

LEMMA CloneWithoutOrders ==
  ASSUME NEW q, Matched(q)
  PROVE  LET r == CloneWithout(q, {"orders", "limit", "offset"}, {"order"})
         IN /\ Matched(r) /\ Without(r, q, "order") /\ r.columns = q.columns
            /\ r.groups = q.groups
<1> DEFINE P == {"orders", "limit", "offset"}
           b == [t \in DOMAIN q.bindings |-> IF t \in {"order"} THEN <<>> ELSE q.bindings[t]]
           k == [p \in DOMAIN q |-> IF p \in P THEN CreateRegistry[p] ELSE q[p]]
           r == [k EXCEPT !.bindings = b]
<1>1. /\ q \in Registry /\ q.bindings \in [TypeNames -> Text]
      /\ CreateRegistry["orders"] = <<>> /\ CreateRegistry["limit"] = FALSE
      /\ CreateRegistry["offset"] = FALSE
  BY MatchedRegistry DEF CreateRegistry
<1>2. k = [q EXCEPT !.orders = <<>>, !.limit = FALSE, !.offset = FALSE]
  BY <1>1 DEF Registry
<1>3. k.bindings = q.bindings
  BY <1>1, <1>2 DEF Registry
<1>4. CloneWithout(q, P, {"order"}) = r
  <2> HIDE DEF k
  <2> QED BY <1>3 DEF CloneWithout, k
<1>5. b \in [TypeNames -> Text] /\ b["order"] = <<>>
  BY <1>1, NoText DEF TypeNames
<1>6. /\ b["expressions"] = q.bindings["expressions"] /\ b["select"] = q.bindings["select"]
      /\ b["from"] = q.bindings["from"]
      /\ b["join"] = q.bindings["join"] /\ b["where"] = q.bindings["where"]
      /\ b["groupBy"] = q.bindings["groupBy"] /\ b["having"] = q.bindings["having"]
      /\ b["union"] = q.bindings["union"] /\ b["unionOrder"] = q.bindings["unionOrder"]
  BY <1>1 DEF TypeNames
<1> HIDE DEF b, k
<1>7. Matched(r)
  BY <1>1, <1>2, <1>5, <1>6, NoText DEF Matched, Registry
<1>8. Without(r, q, "order") /\ r.columns = q.columns /\ r.groups = q.groups
  BY <1>1, <1>2, <1>5, <1>6 DEF Without, OthersSame, Registry
<1> QED BY <1>4, <1>7, <1>8

(* setAggregate drops the orders of a query that is not grouped, and no more.    *)
LEMMA SetAggregateIs ==
  ASSUME NEW q, Matched(q)
  PROVE  \E d : /\ Matched(d) /\ SetAggregate(q) = With(d, TRUE, q.limit, q.offset)
                /\ d.from = q.from /\ d.bindings["from"] = q.bindings["from"]
                /\ d.expressions = q.expressions /\ d.unionExpressions = q.unionExpressions
                /\ d.columns = q.columns /\ d.unions = q.unions /\ d.havings = q.havings
<1>1. q \in Registry /\ q.bindings \in [TypeNames -> Text]
  BY MatchedRegistry
<1>2. CASE q.groups # <<>>
  <2>1. SetAggregate(q) = With(q, TRUE, q.limit, q.offset)
    BY <1>1, <1>2 DEF SetAggregate, With, Registry
  <2> QED BY <2>1
<1>3. CASE q.groups = <<>>
  <2> DEFINE b == [q.bindings EXCEPT !["order"] = <<>>]
             d == [q EXCEPT !.orders = <<>>, !.bindings = b]
  <2>1. b \in [TypeNames -> Text] /\ b["order"] = <<>>
    BY <1>1, NoText DEF TypeNames
  <2>2. /\ b["expressions"] = q.bindings["expressions"] /\ b["select"] = q.bindings["select"]
        /\ b["from"] = q.bindings["from"]
        /\ b["join"] = q.bindings["join"] /\ b["where"] = q.bindings["where"]
        /\ b["groupBy"] = q.bindings["groupBy"] /\ b["having"] = q.bindings["having"]
        /\ b["union"] = q.bindings["union"] /\ b["unionOrder"] = q.bindings["unionOrder"]
    BY <1>1 DEF TypeNames
  <2>3. SetAggregate(q) = With(d, TRUE, q.limit, q.offset)
    BY <1>1, <1>3 DEF SetAggregate, With, Registry
  <2> HIDE DEF b
  <2>4. Matched(d)
    BY <1>1, <2>1, <2>2, NoText DEF Matched, Registry
  <2>5. /\ d.from = q.from /\ d.bindings["from"] = q.bindings["from"]
        /\ d.expressions = q.expressions /\ d.unionExpressions = q.unionExpressions
        /\ d.columns = q.columns /\ d.unions = q.unions /\ d.havings = q.havings
    BY <1>1, <2>2 DEF Registry
  <2> HIDE DEF d
  <2> QED BY <2>3, <2>4, <2>5
<1> QED BY <1>2, <1>3

(* An aggregate takes the place of columns that are not there, or the whole query *)
(* is its table.                                                                *)
Whole(q) == q.unions # <<>> \/ q.havings # <<>>

LEMMA AggregateAgrees ==
  ASSUME NEW q, Matched(q), Ordinary(q), NEW l, NEW o,
         IF Whole(q) THEN q.unionExpressions = <<>> ELSE q.columns = <<>>
  PROVE  Agrees(Sent(With(q, TRUE, l, o)))
<1> DEFINE p == With(q, TRUE, l, o)
           r == With(q, FALSE, l, o)
<1>1. q \in Registry /\ q.aggregate = FALSE
  BY DEF Matched
<1>2. /\ p.bindings = q.bindings /\ p.aggregate = TRUE /\ p.columns = q.columns
      /\ p.unions = q.unions /\ p.havings = q.havings /\ p.unionExpressions = q.unionExpressions
      /\ [p EXCEPT !.aggregate = FALSE] = r
      /\ r.aggregate = FALSE /\ r.columns = q.columns
  BY <1>1 DEF With, Registry
<1>3. CompileQuery(r) = GetBindings(q)
  <2>1. CompileSelect(r) = CompileQuery(r)
    BY <1>2 DEF CompileSelect
  <2>2. Sent(r) = Sent(q) /\ Agrees(Sent(q))
    BY PagedSent, SelectAgrees
  <2> QED BY <2>1, <2>2 DEF Sent, Agrees
<1>4. GetBindings(q) \in Text
  BY GetBindingsText, MatchedRegistry
<1>5. GetBindings(p) = GetBindings(q)
  BY <1>2 DEF GetBindings
<1>6. CASE Whole(q)
  <2>1. CompileSelect(p) = FlattenSeq(<<>>) \o CompileQuery(r)
    BY <1>2, <1>6 DEF CompileSelect, Whole, CompileExpressions
  <2>2. CompileSelect(p) = GetBindings(q)
    BY <1>3, <1>4, <2>1, NoText, TextConcat
  <2> QED BY <1>5, <2>2 DEF Sent, Agrees
<1>7. CASE ~Whole(q)
  <2>1. CompileColumns(p) = CompileColumns(r)
    BY <1>2, <1>7, NoText DEF CompileColumns
  <2>2. /\ p.from = r.from /\ p.expressions = r.expressions /\ p.joins = r.joins
        /\ p.wheres = r.wheres /\ p.groups = r.groups /\ p.havings = r.havings
        /\ p.orders = r.orders /\ p.unions = r.unions
        /\ p.unionExpressions = r.unionExpressions /\ p.unionOrders = r.unionOrders
    BY <1>1 DEF With, Registry
  <2> HIDE DEF p, r
  <2>3. CompileQuery(p) = CompileQuery(r)
    BY <2>1, <2>2 DEF CompileQuery, CompileComponents, CompileUnions
  <2>4. CompileSelect(p) = CompileQuery(p)
    BY <1>2, <1>7 DEF CompileSelect, Whole
  <2>5. Agrees(Sent(p))
    BY <1>3, <1>5, <2>3, <2>4 DEF Sent, Agrees
  <2> QED BY <2>5 DEF p
<1> QED BY <1>6, <1>7

-------------------------------------------------------------------------------
(* The inductive invariant: whatever calls and statements made it, the query is  *)
(* matched.                                                                     *)
QueryInvariant ==
  /\ grammar \in Grammars /\ before \in Seq(Number)
  /\ bound \in Nat /\ made \in Nat
  /\ Matched(query)

LEMMA Handed ==
  ASSUME bound \in Nat
  PROVE  /\ X \in Number /\ Y \in Number /\ bound + 3 \in Number
         /\ X \in Nat /\ Y \in Nat /\ Or(X) \subseteq Nat
         /\ <<>> \in Text /\ <<X>> \in Text /\ <<Y>> \in Text /\ <<X, Y>> \in Text
         /\ <<bound + 3>> \in Text
         /\ \A v \in Or(X) : <<v, Y>> \in Seq(Nat)
         /\ <<X, Y>> \in Seq(Number) /\ <<Y>> \in Seq(Nat) /\ <<>> \in Seq(Nat)
<1>1. X \in Number /\ Y \in Number /\ bound + 3 \in Number /\ X \in Nat /\ Y \in Nat
  BY DEF X, Y, Number
<1>2. Or(X) \subseteq Nat
  BY <1>1 DEF Or, Expression
<1> HIDE DEF X, Y, Number, Or
<1>3. /\ <<>> \in Text /\ <<X>> \in Text /\ <<Y>> \in Text /\ <<X, Y>> \in Text
      /\ <<bound + 3>> \in Text
  BY <1>1 DEF Text
<1>4. \A v \in Or(X) : <<v, Y>> \in Seq(Nat)
  BY <1>1, <1>2
<1>5. <<X, Y>> \in Seq(Number) /\ <<Y>> \in Seq(Nat) /\ <<>> \in Seq(Nat)
  BY <1>1
<1> QED BY <1>1, <1>2, <1>3, <1>4, <1>5

LEMMA CallKeeps ==
  ASSUME QueryInvariant, NEW q, NEW n \in Nat, Matched(q), Call(q, n)
  PROVE  QueryInvariant'
<1>1. /\ query' = q /\ bound' = bound + n /\ made' = made + 1
      /\ grammar' = grammar /\ before' = before
  BY DEF Call, Step
<1>2. Matched(query)'
  BY <1>1 DEF Matched
<1> QED BY <1>1, <1>2 DEF QueryInvariant

LEMMA StatementKeeps ==
  ASSUME QueryInvariant, NEW q, NEW n \in Nat, Matched(q), Step(q, n), before' = <<>>,
         UNCHANGED grammar
  PROVE  QueryInvariant'
<1>1. /\ query' = q /\ bound' = bound + n /\ made' = made + 1
  BY DEF Step
<1>2. Matched(query')
  BY <1>1
<1>3. before' \in Seq(Number)
  OBVIOUS
<1> QED BY <1>1, <1>2, <1>3 DEF QueryInvariant

(* The builders of join clauses.                                                *)
LEMMA JoinBuilders ==
  ASSUME bound \in Nat
  PROVE  JoinBuilder(CreateRegistry) /\ \A on \in Ons : JoinBuilder(on)
<1>1. JoinBuilder(CreateRegistry)
  BY RegistryMatched DEF JoinBuilder, TypeNames
<1>2. \A p : Matched(p) /\ WheresOnly(p, CreateRegistry) => JoinBuilder(p)
  BY <1>1 DEF JoinBuilder, WheresOnly, OthersSame
<1>3. JoinBuilder(WhereColumn(CreateRegistry))
  BY <1>2, RegistryMatched, PlainWhere DEF WhereColumn
<1>4. JoinBuilder(Where(CreateRegistry, <<>>, Value(X)))
  BY <1>2, RegistryMatched, WhereMatched, Handed
<1>5. JoinBuilder(JoinSub(Where(CreateRegistry, <<>>, Value(X)), <<Y>>, CreateRegistry))
  <2> DEFINE w == Where(CreateRegistry, <<>>, Value(X))
             p == JoinSub(w, <<Y>>, CreateRegistry)
  <2>1. Matched(w) /\ <<Y>> \in Text
    BY <1>4, Handed DEF JoinBuilder
  <2> HIDE DEF w
  <2>2. Matched(p) /\ OthersSame(p, w, "join")
    BY <1>1, <2>1, JoinSubMatched
  <2> HIDE DEF p
  <2>3. JoinBuilder(p)
    BY <1>4, <2>2 DEF JoinBuilder, OthersSame, w
  <2> QED BY <2>3 DEF p, w
<1> QED BY <1>1, <1>3, <1>4, <1>5 DEF Ons

-------------------------------------------------------------------------------
(* Every call keeps the invariant.                                              *)
LEMMA SelectCallsKeep ==
  ASSUME QueryInvariant, SelectCall \/ FromCall \/ WithExpressionCall
  PROVE  QueryInvariant'
<1>1. Matched(query) /\ bound \in Nat
  BY DEF QueryInvariant
<1>2. <<X>> \in Text /\ <<Y>> \in Text /\ <<>> \in Text
  BY <1>1, Handed
<1>3. << <<>> >> \in Seq(Text) /\ << <<X>>, <<>>, <<Y>> >> \in Seq(Text)
  <2> DEFINE x == <<X>>
             y == <<Y>>
             z == <<>>
  <2>1. x \in Text /\ y \in Text /\ z \in Text
    BY <1>2
  <2> HIDE DEF x, y, z
  <2>2. <<z>> \in Seq(Text) /\ <<x, z, y>> \in Seq(Text)
    BY <2>1
  <2> QED BY <2>2 DEF x, y, z
<1>4. CASE Call(Select(query, << <<>> >>), 0)
  BY <1>1, <1>3, <1>4, SelectMatched, CallKeeps
<1>5. CASE Call(Select(query, << <<X>>, <<>>, <<Y>> >>), 2)
  BY <1>1, <1>3, <1>5, SelectMatched, CallKeeps
<1>6. CASE Call(SelectRaw(query, <<X>>), 1)
  BY <1>1, <1>2, <1>6, AddsColumn, CallKeeps
<1>7. CASE Call(AddSelect(query, <<X>>), 1)
  BY <1>1, <1>2, <1>7, AddSelectMatched, CallKeeps
<1>8. CASE Call(From(query), 0)
  BY <1>1, <1>2, <1>8, FromMatched, CallKeeps
<1>9. CASE Call(FromRaw(query, <<X>>), 1)
  BY <1>1, <1>2, <1>9, FromMatched, CallKeeps
<1>10. CASE Call(WithExpression(query, <<X>>), 1)
  BY <1>1, <1>2, <1>10, WithExpressionMatched, CallKeeps
<1> QED
  BY <1>4, <1>5, <1>6, <1>7, <1>8, <1>9, <1>10 DEF SelectCall, FromCall, WithExpressionCall

LEMMA WhereCallsKeep ==
  ASSUME QueryInvariant,
         WhereCall \/ WhereColumnCall \/ WhereRawCall \/ WhereInCall \/ WhereIntegerInRawCall
           \/ WhereNullCall
  PROVE  QueryInvariant'
<1>1. Matched(query) /\ bound \in Nat
  BY DEF QueryInvariant
<1>2. <<X>> \in Text /\ <<X, Y>> \in Text /\ <<>> \in Text /\ Or(X) \subseteq Nat /\ Y \in Nat
      /\ <<Y>> \in Text
  BY <1>1, Handed
<1>3. CASE Call(WhereExpression(query), 0)
  BY <1>1, <1>3, PlainWhere, CallKeeps DEF WhereExpression
<1>4. ASSUME NEW v \in Or(X), Call(Where(query, <<>>, Value(v)), 1) PROVE QueryInvariant'
  BY <1>1, <1>2, <1>4, WhereMatched, CallKeeps
<1>5. CASE Call(Where(query, <<X>>, Value(Y)), 2)
  BY <1>1, <1>2, <1>5, WhereMatched, CallKeeps
<1>6. CASE Call(Where(query, <<X>>, [is |-> "null", of |-> <<>>]), 2)
  BY <1>1, <1>2, <1>6, WhereMatched, CallKeeps
<1>7. CASE Call(Where(query, <<X>>, [is |-> "query", of |-> <<Y>>]), 2)
  BY <1>1, <1>2, <1>7, WhereMatched, CallKeeps
<1>8. CASE WhereCall
  BY <1>3, <1>4, <1>5, <1>6, <1>7, <1>8, Zenon DEF WhereCall
<1>9. CASE WhereColumnCall
  BY <1>1, <1>9, PlainWhere, CallKeeps DEF WhereColumnCall, WhereColumn
<1>10. CASE WhereRawCall
  BY <1>1, <1>2, <1>10, RawWhere, CallKeeps DEF WhereRawCall, WhereRaw
<1>11. CASE WhereInCall
  <2>1. ASSUME NEW v \in Or(X), Call(WhereIn(query, <<v, Y>>), 2) PROVE QueryInvariant'
    <3>1. <<v, Y>> \in Seq(Nat)
      BY <1>1, Handed
    <3> QED BY <1>1, <2>1, <3>1, InWhere, CallKeeps
  <2>2. CASE Call(WhereIn(query, <<>>), 0)
    BY <1>1, <2>2, Handed, InWhere, CallKeeps
  <2>3. CASE Call(WhereInSub(query, <<X>>), 1)
    BY <1>1, <1>2, <2>3, RawWhere, CallKeeps DEF WhereInSub
  <2> QED BY <1>11, <2>1, <2>2, <2>3 DEF WhereInCall
<1>12. CASE WhereIntegerInRawCall
  BY <1>1, <1>12, PlainWhere, CallKeeps DEF WhereIntegerInRawCall, WhereIntegerInRaw
<1>13. CASE WhereNullCall
  BY <1>1, <1>13, PlainWhere, CallKeeps DEF WhereNullCall, WhereNull
<1> QED BY <1>8, <1>9, <1>10, <1>11, <1>12, <1>13

LEMMA WhereDateCallsKeep ==
  ASSUME QueryInvariant,
         WhereBetweenCall \/ WhereDateCall \/ WhereDayCall \/ WhereYearCall \/ WhereNestedCall
           \/ WhereExistsCall \/ WhereRowValuesCall
  PROVE  QueryInvariant'
<1>1. Matched(query) /\ bound \in Nat
  BY DEF QueryInvariant
<1>2. <<X>> \in Text /\ <<>> \in Text /\ Or(X) \subseteq Nat /\ Y \in Nat /\ <<Y>> \in Seq(Nat)
  BY <1>1, Handed
<1>3. CASE WhereBetweenCall
  <2>1. ASSUME NEW v \in Or(X), Call(WhereBetween(query, v, Y), 2) PROVE QueryInvariant'
    BY <1>1, <1>2, <2>1, BetweenWhere, CallKeeps
  <2>2. CASE Call(WhereBetweenColumns(query), 0)
    BY <1>1, <2>2, PlainWhere, CallKeeps DEF WhereBetweenColumns
  <2> QED BY <1>3, <2>1, <2>2 DEF WhereBetweenCall
<1>4. CASE WhereDateCall
  <2>1. PICK v \in Or(X) : Call(AddDateBasedWhere(query, v), 1)
    BY <1>4 DEF WhereDateCall
  <2> QED BY <1>1, <1>2, <2>1, CompareWhere, CallKeeps DEF AddDateBasedWhere
<1>5. CASE WhereNestedCall
  <2> DEFINE N(v) == WhereIn(Where(CreateRegistry, <<>>, Value(v)), <<Y>>)
  <2>1. PICK v \in Or(X) : Call(AddNestedWhereQuery(query, N(v)), 2)
    BY <1>5 DEF WhereNestedCall
  <2>2. Matched(Where(CreateRegistry, <<>>, Value(v)))
    BY <1>2, RegistryMatched, WhereMatched
  <2>3. Matched(N(v))
    BY <1>2, <2>2, InWhere
  <2> HIDE DEF N
  <2> QED BY <1>1, <2>1, <2>3, NestedMatched, CallKeeps
<1>6. CASE WhereExistsCall
  BY <1>1, <1>2, <1>6, RawWhere, CallKeeps DEF WhereExistsCall, AddWhereExistsQuery
<1>7. CASE WhereRowValuesCall
  <2>1. PICK v \in Or(X) : Call(WhereRowValues(query, <<v, Y>>), 2)
    BY <1>7 DEF WhereRowValuesCall
  <2>2. <<v, Y>> \in Seq(Nat)
    BY <1>1, Handed
  <2> QED BY <1>1, <2>1, <2>2, InWhere, CallKeeps
<1> QED BY <1>3, <1>4, <1>5, <1>6, <1>7 DEF WhereDayCall, WhereYearCall

LEMMA WhereJsonCallsKeep ==
  ASSUME QueryInvariant,
         WhereJsonCall \/ WhereJsonLengthCall \/ DynamicWhereCall \/ WhereFulltextCall
  PROVE  QueryInvariant'
<1>1. Matched(query) /\ bound \in Nat
  BY DEF QueryInvariant
<1>2. <<>> \in Text /\ Or(X) \subseteq Nat /\ X \in Number /\ <<X, Y>> \in Seq(Number)
      /\ <<X>> \in Text
  BY <1>1, Handed
<1>3. CASE WhereJsonCall
  <2>1. ASSUME NEW v \in Or(X), Call(WhereJsonContains(query, v), 1) PROVE QueryInvariant'
    BY <1>1, <1>2, <2>1, CompareWhere, CallKeeps DEF WhereJsonContains
  <2>2. CASE Call(WhereJsonContainsKey(query), 0)
    BY <1>1, <2>2, PlainWhere, CallKeeps DEF WhereJsonContainsKey
  <2> QED BY <1>3, <2>1, <2>2 DEF WhereJsonCall
<1>4. CASE WhereJsonLengthCall
  <2>1. PICK v \in Or(X) : Call(WhereJsonLength(query, v), 1)
    BY <1>4 DEF WhereJsonLengthCall
  <2> QED BY <1>1, <1>2, <2>1, CompareWhere, CallKeeps DEF WhereJsonLength
<1>5. CASE DynamicWhereCall
  BY <1>1, <1>2, <1>5, WhereEachMatched, CallKeeps DEF DynamicWhereCall, DynamicWhere
<1>6. CASE WhereFulltextCall
  <2>1. Clean(<<X>>) = <<X>> /\ X \in Nat
    BY <1>2, CleanFew, CleanNumber
  <2>2. Matched(WhereFulltext(query, X))
    BY <1>1, <2>1, CompareWhere DEF WhereFulltext
  <2> QED BY <1>6, <2>2, CallKeeps DEF WhereFulltextCall
<1> QED BY <1>3, <1>4, <1>5, <1>6

LEMMA JoinCallsKeep ==
  ASSUME QueryInvariant,
         JoinCall \/ JoinSubCall \/ LeftJoinCall \/ RightJoinCall \/ CrossJoinCall
  PROVE  QueryInvariant'
<1>1. Matched(query) /\ bound \in Nat
  BY DEF QueryInvariant
<1>2. <<X>> \in Text /\ <<bound + 3>> \in Text /\ JoinBuilder(CreateRegistry)
      /\ \A on \in Ons : JoinBuilder(on)
  BY <1>1, Handed, JoinBuilders
<1>3. CASE JoinCall
  <2>1. PICK on \in Ons : Call(BaseJoin(query, <<>>, on), 2)
    BY <1>3 DEF JoinCall
  <2> QED BY <1>1, <1>2, <2>1, BaseJoinMatched, CallKeeps
<1>4. CASE JoinSubCall
  <2>1. PICK on \in Ons : Call(JoinSub(query, <<bound + 3>>, on), 3)
    BY <1>4 DEF JoinSubCall
  <2> QED BY <1>1, <1>2, <2>1, JoinSubMatched, CallKeeps
<1>5. CASE CrossJoinCall
  <2>1. CASE Call(BaseJoin(query, <<>>, CreateRegistry), 0)
    BY <1>1, <1>2, <2>1, BaseJoinMatched, CallKeeps
  <2>2. CASE Call(CrossJoinSub(query, <<X>>), 1)
    BY <1>1, <1>2, <2>2, JoinSubMatched, CallKeeps DEF CrossJoinSub
  <2> QED BY <1>5, <2>1, <2>2 DEF CrossJoinCall
<1> QED BY <1>3, <1>4, <1>5 DEF LeftJoinCall, RightJoinCall

LEMMA GroupCallsKeep ==
  ASSUME QueryInvariant,
         GroupByCall \/ HavingCall \/ HavingNestedCall \/ HavingBetweenCall \/ HavingNullCall
           \/ HavingRawCall
  PROVE  QueryInvariant'
<1>1. Matched(query) /\ bound \in Nat
  BY DEF QueryInvariant
<1>2. <<X>> \in Text /\ <<Y>> \in Text /\ <<>> \in Text /\ Or(X) \subseteq Nat
      /\ X \in Nat /\ Y \in Nat
  BY <1>1, Handed
<1>3. \A s \in Text : Matched(GroupByRaw(query, s))
  BY <1>1, AddsGroup DEF GroupByRaw
<1>4. CASE GroupByCall
  BY <1>2, <1>3, <1>4, CallKeeps DEF GroupByCall
<1>5. CASE HavingCall
  <2>1. CASE Call(HavingExpression(query), 0)
    BY <1>1, <2>1, PlainWhere, CallKeeps DEF HavingExpression
  <2>2. ASSUME NEW v \in Or(X), Call(Having(query, v), 1) PROVE QueryInvariant'
    BY <1>1, <1>2, <2>2, CompareWhere, CallKeeps DEF Having
  <2> QED BY <1>5, <2>1, <2>2 DEF HavingCall
<1>6. CASE HavingNestedCall
  <2> DEFINE n == HavingRaw(Having(CreateRegistry, X), <<Y>>)
  <2>1. Call(AddNestedHavingQuery(query, n), 2)
    BY <1>6 DEF HavingNestedCall
  <2>2. Matched(Having(CreateRegistry, X))
    BY <1>2, RegistryMatched, CompareWhere DEF Having
  <2>3. Matched(n)
    BY <1>2, <2>2, RawWhere DEF HavingRaw
  <2> HIDE DEF n
  <2> QED BY <1>1, <2>1, <2>3, NestedMatched, CallKeeps
<1>7. CASE HavingBetweenCall
  <2>1. PICK v \in Or(X) : Call(HavingBetween(query, v, Y), 2)
    BY <1>7 DEF HavingBetweenCall
  <2> QED BY <1>1, <1>2, <2>1, BetweenWhere, CallKeeps
<1>8. CASE HavingNullCall
  BY <1>1, <1>8, PlainWhere, CallKeeps DEF HavingNullCall, HavingNull
<1>9. CASE HavingRawCall
  BY <1>1, <1>2, <1>9, RawWhere, CallKeeps DEF HavingRawCall, HavingRaw
<1> QED BY <1>4, <1>5, <1>6, <1>7, <1>8, <1>9

LEMMA OrderCallsKeep ==
  ASSUME QueryInvariant, OrderByCall \/ ReorderCall \/ LimitCall \/ UnionCall \/ BeforeQuery
  PROVE  QueryInvariant'
<1>1. Matched(query) /\ bound \in Nat
  BY DEF QueryInvariant
<1>2. <<X>> \in Text /\ <<>> \in Text /\ X \in Number
  BY <1>1, Handed
<1>3. CASE OrderByCall
  BY <1>1, <1>2, <1>3, OrderByRawMatched, CallKeeps DEF OrderByCall
<1>4. CASE ReorderCall
  <2>1. Matched(Reorder(query))
    BY <1>1, ReorderMatched
  <2>2. Matched(OrderByRaw(Reorder(query), <<X>>))
    BY <1>2, <2>1, OrderByRawMatched
  <2> QED BY <1>4, <2>1, <2>2, CallKeeps DEF ReorderCall
<1>5. CASE LimitCall
  BY <1>1, <1>5, LimitMatched, CallKeeps DEF LimitCall
<1>6. CASE UnionCall
  BY <1>1, <1>2, <1>6, UnionMatched, CallKeeps DEF UnionCall
<1>7. CASE BeforeQuery
  <2>1. /\ query' = query /\ bound' = bound + 1 /\ made' = made + 1
        /\ before' = Append(before, X) /\ grammar' = grammar
    BY <1>7 DEF BeforeQuery, Step
  <2>2. Matched(query')
    BY <1>1, <2>1
  <2>3. before' \in Seq(Number)
    BY <1>2, <2>1 DEF QueryInvariant
  <2> QED BY <2>1, <2>2, <2>3 DEF QueryInvariant
<1> QED BY <1>3, <1>4, <1>5, <1>6, <1>7

(* Every statement keeps it.                                                    *)
LEMMA WrittenMatched ==
  ASSUME NEW q, Matched(q)
  PROVE  Matched(Written(q))
BY SelectsRowidMatched DEF Written

LEMMA StatementsKeep ==
  ASSUME QueryInvariant, Statements
  PROVE  QueryInvariant'
<1>1. Matched(query) /\ bound \in Nat /\ before \in Seq(Number)
  BY DEF QueryInvariant
<1>2. ASSUME NEW q, Matched(q)
      PROVE  /\ Matched(Applied(q, before)) /\ Matched(Compiled(grammar, Applied(q, before)))
             /\ Matched(Written(Applied(q, before)))
  BY <1>1, <1>2, AppliedMatched, CompiledMatched, WrittenMatched
<1>3. ASSUME NEW q, Matched(q), Statement(q) PROVE QueryInvariant'
  BY <1>3, StatementKeeps DEF Statement
<1>4. X \in Nat /\ <<>> \in Text
  BY <1>1, Handed
<1>5. CASE Get
  BY <1>1, <1>2, <1>3, <1>5 DEF Get
<1>6. CASE Exists \/ Insert
  BY <1>1, <1>2, <1>3, <1>6 DEF Exists, Insert
<1>7. CASE Paginate
  <2>1. Matched(Limit(Offset(query)))
    BY <1>1, LimitMatched
  <2> QED BY <1>2, <1>3, <1>7, <2>1 DEF Paginate
<1>8. CASE Update
  BY <1>1, <1>2, <1>3, <1>8 DEF Update
<1>9. CASE Delete
  <2>1. CASE Statement(Written(Applied(query, before)))
    BY <1>1, <1>2, <1>3, <2>1
  <2>2. CASE /\ Step(Written(Applied(Where(query, <<>>, Value(X)), before)), 1)
             /\ before' = <<>> /\ UNCHANGED grammar
    <3>1. Matched(Where(query, <<>>, Value(X)))
      BY <1>1, <1>4, WhereMatched
    <3> QED BY <1>2, <2>2, <3>1, StatementKeeps
  <2> QED BY <1>9, <2>1, <2>2 DEF Delete
<1>10. CASE UpdateOrInsert
  <2> DEFINE asked == AddNestedWhereQuery(query, Where(CreateRegistry, <<>>, Value(X)))
             q == Applied(asked, before)
  <2>1. Matched(Where(CreateRegistry, <<>>, Value(X)))
    BY <1>4, RegistryMatched, WhereMatched
  <2>2. Matched(asked)
    BY <1>1, <2>1, NestedMatched
  <2>3. /\ \E left \in {q, Written(Limit(q))} : Step(left, 1)
        /\ before' = <<>> /\ UNCHANGED grammar
    BY <1>10 DEF UpdateOrInsert
  <2> HIDE DEF asked
  <2>4. Matched(q)
    BY <1>2, <2>2
  <2> HIDE DEF q
  <2>5. Matched(Limit(q))
    BY <2>4, LimitMatched
  <2>6. Matched(Written(Limit(q)))
    BY <2>5, WrittenMatched
  <2> QED BY <2>3, <2>4, <2>6, StatementKeeps
<1> QED BY <1>5, <1>6, <1>7, <1>8, <1>9, <1>10 DEF Statements

(* Each method of CommonGrammarBuilder adds a clause in one place of the registry *)
(* and its values, with addBinding, in another. After any calls and statements    *)
(* the values bound under each type are those of the clauses of that type.        *)
THEOREM QueryMatched == Spec => []QueryInvariant
<1>1. Init => QueryInvariant
  BY RegistryMatched DEF Init, QueryInvariant
<1>2. QueryInvariant /\ [Next]_vars => QueryInvariant'
  <2> SUFFICES ASSUME QueryInvariant, [Next]_vars PROVE QueryInvariant'
    OBVIOUS
  <2>1. CASE Calls
    BY <2>1, SelectCallsKeep, WhereCallsKeep, WhereDateCallsKeep, WhereJsonCallsKeep,
       JoinCallsKeep, GroupCallsKeep, OrderCallsKeep DEF Calls
  <2>2. CASE Statements
    BY <2>2, StatementsKeep
  <2>3. CASE UNCHANGED vars
    BY <2>3 DEF vars, QueryInvariant, Matched
  <2> QED BY <2>1, <2>2, <2>3 DEF Next
<1> QED BY <1>1, <1>2, PTL DEF Spec

-------------------------------------------------------------------------------
(* What a select sends is what the query with its callbacks does: neither the    *)
(* order SQL Server adds nor a page is part of it.                              *)
LEMMA SentCompiled ==
  ASSUME NEW q, Matched(q), NEW g
  PROVE  Sent(Compiled(g, q)) = Sent(q)
BY CompiledMatched DEF Sent

(* compileSelect writes the clauses in one order, getBindings flattens the types   *)
(* in another place: a select, with the callbacks of applyBeforeQueryCallbacks,   *)
(* binds exactly the values its text has places for, in their order.            *)
THEOREM SelectBindsItsPlaces == Spec => []SelectBound
<1>1. QueryInvariant => SelectBound
  <2> SUFFICES ASSUME QueryInvariant, Ordinary(Applied(query, before))
               PROVE  Agrees(SelectSent)
    BY DEF SelectBound
  <2>1. Matched(Applied(query, before))
    BY AppliedMatched DEF QueryInvariant
  <2> QED BY <2>1, SelectAgrees, SentCompiled DEF SelectSent
<1> QED BY <1>1, QueryMatched, PTL

LEMMA PagedApplied ==
  ASSUME NEW q, Matched(q), NEW callbacks \in Seq(Number),
         NEW l \in BOOLEAN, NEW o \in BOOLEAN
  PROVE  Applied(With(q, FALSE, l, o), callbacks) = With(Applied(q, callbacks), FALSE, l, o)
<1> DEFINE a == FALSE
<1>1. a \in BOOLEAN
  OBVIOUS
<1> HIDE DEF a
<1>2. Applied(With(q, a, l, o), callbacks) = With(Applied(q, callbacks), a, l, o)
  BY <1>1, WithApplied
<1> QED BY <1>2 DEF a

(* get, exists and paginate apply the callbacks of beforeQuery for good, and SQL  *)
(* Server adds an order; the select after them is still the one before them.     *)
THEOREM ReadingRepeats == Spec => ReadsRepeat
<1>1. ASSUME QueryInvariant, Reading PROVE SelectSent' = SelectSent
  <2> DEFINE a == Applied(query, before)
  <2>1. Matched(query) /\ before \in Seq(Number) /\ Matched(a)
    BY <1>1, AppliedMatched DEF QueryInvariant
  <2>2. SelectSent = Sent(a)
    BY <2>1, SentCompiled DEF SelectSent
  <2>3. ASSUME NEW q, Matched(q), query' = q, before' = <<>>, grammar' = grammar
        PROVE  SelectSent' = Sent(q)
    <3>1. SelectSent' = Sent(Compiled(grammar', Applied(query', before')))
      BY DEF SelectSent
    <3>2. Applied(q, <<>>) = q
      BY AppliedNone
    <3> QED BY <2>3, <3>1, <3>2, SentCompiled
  <2>4. CASE Get
    <3>1. query' = Compiled(grammar, a) /\ before' = <<>> /\ grammar' = grammar
      BY <2>4 DEF Get, Statement, Step
    <3> HIDE DEF a
    <3>2. Matched(Compiled(grammar, a)) /\ Sent(Compiled(grammar, a)) = Sent(a)
      BY <2>1, CompiledMatched, SentCompiled
    <3> QED BY <2>2, <2>3, <3>1, <3>2
  <2>5. CASE Exists
    <3>1. query' = a /\ before' = <<>> /\ grammar' = grammar
      BY <2>5 DEF Exists, Statement, Step
    <3> HIDE DEF a
    <3> QED BY <2>1, <2>2, <2>3, <3>1
  <2>6. CASE Paginate
    <3> DEFINE l == query.limit \/ query.unions = <<>>
               o == query.offset \/ query.unions = <<>>
               p == With(a, FALSE, l, o)
    <3>0. l \in BOOLEAN /\ o \in BOOLEAN /\ FALSE \in BOOLEAN
      BY <2>1, MatchedRegistry DEF Registry
    <3>1. /\ query' = Compiled(grammar, Applied(Limit(Offset(query)), before))
          /\ before' = <<>> /\ grammar' = grammar
      BY <2>6 DEF Paginate, Statement, Step
    <3>2. Limit(Offset(query)) = With(query, FALSE, l, o)
      BY <2>1, MatchedRegistry DEF Limit, Offset, With, Matched, Registry
    <3>3. Matched(Limit(Offset(query)))
      BY <2>1, LimitMatched
    <3>4. Applied(Limit(Offset(query)), before) = p
      <4> HIDE DEF l, o
      <4>1. Applied(With(query, FALSE, l, o), before) = With(Applied(query, before), FALSE, l, o)
        BY <2>1, <3>0, PagedApplied
      <4> QED BY <3>2, <4>1
    <3>5. Matched(p)
      BY <2>1, <3>3, <3>4, AppliedMatched
    <3>6. Sent(p) = Sent(a)
      BY <2>1, PagedSent
    <3> HIDE DEF p
    <3>7. Matched(Compiled(grammar, p)) /\ Sent(Compiled(grammar, p)) = Sent(p)
      BY <3>5, CompiledMatched, SentCompiled
    <3> QED BY <2>2, <2>3, <3>1, <3>4, <3>6, <3>7
  <2> QED BY <1>1, <2>4, <2>5, <2>6 DEF Reading
<1>2. QueryInvariant /\ [Next]_vars => [Reading => SelectSent' = SelectSent]_vars
  BY <1>1
<1> QED BY <1>2, QueryMatched, PTL DEF Spec, ReadsRepeat

(* The copies of an aggregate, a count and exists bind what they have places for. *)
LEMMA AggregateApplied ==
  ASSUME NEW q, Matched(q), Ordinary(q), NEW callbacks \in Seq(Number),
         IF Whole(q) THEN q.unionExpressions = <<>> ELSE q.columns = <<>>
  PROVE  Agrees(Sent(Applied(SetAggregate(q), callbacks)))
<1>1. PICK d : /\ Matched(d) /\ SetAggregate(q) = With(d, TRUE, q.limit, q.offset)
               /\ d.from = q.from /\ d.bindings["from"] = q.bindings["from"]
               /\ d.expressions = q.expressions /\ d.unionExpressions = q.unionExpressions
               /\ d.columns = q.columns /\ d.unions = q.unions /\ d.havings = q.havings
  BY SetAggregateIs
<1> DEFINE s == Applied(d, callbacks)
           l == q.limit
           o == q.offset
<1>2. Matched(s) /\ WheresOnly(s, d)
  BY <1>1, AppliedMatched
<1>3. Applied(With(d, TRUE, l, o), callbacks) = With(s, TRUE, l, o)
  <2>1. l \in BOOLEAN /\ o \in BOOLEAN /\ TRUE \in BOOLEAN
    BY MatchedRegistry DEF Registry
  <2> HIDE DEF l, o
  <2> QED BY <1>1, <2>1, WithApplied
<1> HIDE DEF s
<1>4. /\ Ordinary(s)
      /\ IF Whole(s) THEN s.unionExpressions = <<>> ELSE s.columns = <<>>
  BY <1>1, <1>2 DEF Ordinary, FromBoundOnce, OneWith, Whole, WheresOnly, OthersSame
<1>5. Agrees(Sent(With(s, TRUE, l, o)))
  <2> HIDE DEF l, o
  <2> QED BY <1>2, <1>4, AggregateAgrees
<1> QED BY <1>1, <1>3, <1>5

LEMMA AppliedOrdinary ==
  ASSUME NEW q, NEW r, WheresOnly(r, q)
  PROVE  (Ordinary(r) <=> Ordinary(q)) /\ (r.unionExpressions = q.unionExpressions)
BY DEF Ordinary, FromBoundOnce, OneWith, WheresOnly, OthersSame

LEMMA AggregateBinds ==
  ASSUME QueryInvariant, Ordinary(query), query.unionExpressions = <<>>
  PROVE  Agrees(AggregateSent)
<1>1. Matched(query) /\ before \in Seq(Number)
  BY DEF QueryInvariant
<1>2. CASE Whole(query)
  <2>1. CloneWithout(query, {}, {}) = query
    BY <1>1, CloneAll
  <2>2. AggregateSent = Sent(Applied(SetAggregate(query), before))
    BY <1>2, <2>1 DEF AggregateSent, Whole
  <2> QED BY <1>1, <1>2, <2>2, AggregateApplied
<1>3. CASE ~Whole(query)
  <2> DEFINE r == CloneWithout(query, {"columns"}, {"select"})
  <2>1. Matched(r) /\ Without(r, query, "select") /\ r.columns = <<>>
    BY <1>1, CloneWithoutColumns
  <2>2. AggregateSent = Sent(Applied(SetAggregate(r), before))
    BY <1>3 DEF AggregateSent, Whole
  <2> HIDE DEF r
  <2>3. Ordinary(r) /\ ~Whole(r)
    BY <1>3, <2>1 DEF Ordinary, FromBoundOnce, OneWith, Whole, Without, OthersSame
  <2> QED BY <1>1, <2>1, <2>2, <2>3, AggregateApplied
<1> QED BY <1>2, <1>3

LEMMA PaginationBinds ==
  ASSUME QueryInvariant, Ordinary(query),
         query.groups = <<>> /\ query.havings = <<>> => query.unionExpressions = <<>>
  PROVE  Agrees(PaginationCountSent)
<1> DEFINE copy == CloneWithout(query, {"orders", "limit", "offset"}, {"order"})
           table == Applied(copy, before)
           whole == query.unions # <<>>
<1>1. Matched(query) /\ before \in Seq(Number)
  BY DEF QueryInvariant
<1>2. Matched(copy) /\ Without(copy, query, "order") /\ copy.columns = query.columns
      /\ copy.groups = query.groups
  BY <1>1, CloneWithoutOrders
<1>3. Ordinary(copy)
  <2> HIDE DEF copy
  <2> QED BY <1>2 DEF Ordinary, FromBoundOnce, OneWith, Without, OthersSame
<1>4. CASE query.groups # <<>> \/ query.havings # <<>>
  <2> DEFINE f == [CreateRegistry EXCEPT !.from = CompileSelect(table), !.bindings = table.bindings]
             p == SetAggregate(f)
  <2>1. PaginationCountSent = Sent(p)
    BY <1>4 DEF PaginationCountSent
  <2> HIDE DEF copy
  <2>2. Matched(table) /\ WheresOnly(table, copy)
    BY <1>1, <1>2, AppliedMatched
  <2>3. Ordinary(table)
    BY <1>3, <2>2, AppliedOrdinary
  <2>4. CompileSelect(table) = GetBindings(table)
    BY <2>2, <2>3, SelectAgrees DEF Agrees, Sent
  <2>5. table.bindings["order"] = <<>> /\ table.bindings \in [TypeNames -> Text]
        /\ GetBindings(table) \in Text
    BY <1>2, <2>2, MatchedRegistry, GetBindingsText DEF Without, WheresOnly, OthersSame
  <2> HIDE DEF table
  <2>6. p = [CreateRegistry EXCEPT !.from = CompileSelect(table), !.bindings = table.bindings,
                                   !.aggregate = TRUE]
    <3>1. [table.bindings EXCEPT !["order"] = <<>>] = table.bindings
      BY <2>5 DEF TypeNames
    <3> DEFINE e == [CreateRegistry EXCEPT !.from = CompileSelect(table),
                                           !.bindings = table.bindings, !.aggregate = TRUE]
    <3>2. CreateRegistry.groups = <<>> /\ CreateRegistry.orders = <<>>
          /\ CreateRegistry \in Registry
      BY RegistryMatched, MatchedRegistry DEF CreateRegistry
    <3>3. f.groups = <<>>
      BY <3>2 DEF Registry
    <3>4. p = [e EXCEPT !.orders = <<>>, !.bindings = [table.bindings EXCEPT !["order"] = <<>>]]
      BY <3>2, <3>3 DEF SetAggregate, Registry
    <3>5. [e EXCEPT !.orders = <<>>, !.bindings = table.bindings] = e
      BY <3>2 DEF Registry
    <3> QED BY <3>1, <3>4, <3>5
  <2>7. /\ p.bindings = table.bindings /\ p.from = CompileSelect(table) /\ p.aggregate = TRUE
        /\ p.columns = <<>> /\ p.expressions = <<>> /\ p.joins = <<>> /\ p.wheres = <<>>
        /\ p.groups = <<>> /\ p.havings = <<>> /\ p.orders = <<>> /\ p.unions = <<>>
        /\ p.unionExpressions = <<>> /\ p.unionOrders = <<>>
    <3>1. CreateRegistry \in Registry
      BY RegistryMatched, MatchedRegistry
    <3>2. /\ CreateRegistry.columns = <<>> /\ CreateRegistry.expressions = <<>>
          /\ CreateRegistry.joins = <<>> /\ CreateRegistry.wheres = <<>>
          /\ CreateRegistry.groups = <<>> /\ CreateRegistry.havings = <<>>
          /\ CreateRegistry.orders = <<>> /\ CreateRegistry.unions = <<>>
          /\ CreateRegistry.unionExpressions = <<>> /\ CreateRegistry.unionOrders = <<>>
      BY DEF CreateRegistry
    <3> QED BY <2>6, <3>1, <3>2 DEF Registry
  <2> HIDE DEF p
  <2>8. GetBindings(p) = GetBindings(table)
    BY <2>7 DEF GetBindings
  <2>9. CompileSelect(p) = p.from
    <3>1. CompileWheres(<<>>) = <<>> /\ CompileJoins(<<>>) = <<>> /\ FlattenSeq(<<>>) = <<>>
      BY NoText, NoClauses
    <3>2. p.from \in Text
      BY <2>4, <2>5, <2>7
    <3>3. <<>> \o p.from = p.from /\ p.from \o <<>> = p.from /\ <<>> \o <<>> = <<>>
      BY <3>2, NoText, TextConcat
    <3>4. CompileComponents(p) = p.from
      BY <2>7, <3>1, <3>3 DEF CompileComponents, CompileExpressions, CompileColumns,
                              CompileHavings, CompileOrders
    <3>5. CompileUnions(p) = <<>> /\ CompileExpressions(p.unionExpressions) = <<>>
      BY <2>7, <3>1, <3>3 DEF CompileUnions, CompileOrders, CompileExpressions
    <3> QED BY <2>7, <3>3, <3>4, <3>5 DEF CompileSelect, CompileQuery
  <2> QED BY <2>1, <2>4, <2>7, <2>8, <2>9 DEF Sent, Agrees
<1>5. CASE query.groups = <<>> /\ query.havings = <<>>
  <2>1. query.unionExpressions = <<>>
    BY <1>5
  <2>2. CASE whole
    <3>1. CloneWithout(copy, {}, {}) = copy
      BY <1>2, CloneAll
    <3>2. PaginationCountSent = Sent(Applied(SetAggregate(copy), before))
      BY <1>5, <2>2, <3>1 DEF PaginationCountSent
    <3> HIDE DEF copy
    <3>3. Whole(copy) /\ copy.unionExpressions = <<>>
      BY <1>2, <2>1, <2>2 DEF Whole, Without
    <3> QED BY <1>1, <1>2, <1>3, <3>2, <3>3, AggregateApplied
  <2>3. CASE ~whole
    <3> DEFINE r == CloneWithout(copy, {"columns"}, {"select"})
    <3>1. Matched(r) /\ Without(r, copy, "select") /\ r.columns = <<>>
      BY <1>2, CloneWithoutColumns
    <3>2. PaginationCountSent = Sent(Applied(SetAggregate(r), before))
      BY <1>5, <2>3 DEF PaginationCountSent
    <3> HIDE DEF r, copy
    <3>3. Ordinary(r) /\ ~Whole(r)
      BY <1>2, <1>3, <1>5, <2>3, <3>1
         DEF Ordinary, FromBoundOnce, OneWith, Whole, Without, OthersSame
    <3> QED BY <1>1, <3>1, <3>2, <3>3, AggregateApplied
  <2> QED BY <2>2, <2>3
<1> QED BY <1>4, <1>5

(* SQL Server asks for the first row of a copy without columns: what it has no    *)
(* place for are the bindings of the columns, if there are any.                 *)
LEMMA ExistsBinds ==
  ASSUME NEW q, Matched(q), Ordinary(q), NEW g,
         g = "sqlserver" => q.bindings["select"] = <<>>
  PROVE  CompileExists(g, q) = GetBindings(q)
<1>1. ASSUME NEW r, Matched(r), Ordinary(r) PROVE CompileSelect(r) = GetBindings(r)
  BY <1>1, SelectAgrees DEF Sent, Agrees
<1>2. CASE g = "sqlserver"
  <2> DEFINE r == [q EXCEPT !.columns = <<>>]
  <2>1. q \in Registry /\ q.bindings["select"] = <<>>
    BY <1>2, MatchedRegistry
  <2>2. r.bindings = q.bindings
    BY <2>1 DEF Registry
  <2>3. Matched(r)
    BY <2>1, NoText DEF Matched, Registry
  <2>4. Ordinary(r)
    BY <2>1 DEF Ordinary, FromBoundOnce, OneWith, Registry
  <2>5. CompileExists(g, q) = CompileSelect(r)
    BY <1>2 DEF CompileExists
  <2> HIDE DEF r
  <2>6. GetBindings(r) = GetBindings(q)
    BY <2>2 DEF GetBindings
  <2> QED BY <1>1, <2>3, <2>4, <2>5, <2>6
<1>3. CASE g # "sqlserver"
  <2>1. CompileExists(g, q) = CompileSelect(q)
    BY <1>3 DEF CompileExists
  <2> QED BY <1>1, <2>1
<1> QED BY <1>2, <1>3

(* So do the copies that aggregate, getCountForPagination and exists send: each   *)
(* drops clauses (cloneWithout) together with the values bound to them            *)
(* (cloneWithoutBindings), and keeps both where a union or a having needs them.  *)
THEOREM CountBindsItsPlaces == Spec => []CountBound
<1>1. QueryInvariant => CountBound
  <2> DEFINE q == Applied(query, before)
  <2> SUFFICES ASSUME QueryInvariant
               PROVE  /\ Ordinary(q) /\ q.unionExpressions = <<>> => Agrees(AggregateSent)
                      /\ Ordinary(q)
                         /\ (q.groups = <<>> /\ q.havings = <<>> => q.unionExpressions = <<>>)
                           => Agrees(PaginationCountSent)
                      /\ Ordinary(q) /\ (grammar = "sqlserver" => q.bindings["select"] = <<>>)
                           => Agrees(ExistsSent)
    BY DEF CountBound
  <2>1. Matched(q) /\ WheresOnly(q, query)
    BY AppliedMatched DEF QueryInvariant
  <2>2. ExistsSent = [text |-> CompileExists(grammar, q), bindings |-> GetBindings(q)]
    BY DEF ExistsSent
  <2> HIDE DEF q
  <2>3. /\ Ordinary(q) <=> Ordinary(query)
        /\ q.unionExpressions = query.unionExpressions
        /\ q.groups = query.groups /\ q.havings = query.havings
    BY <2>1, AppliedOrdinary DEF WheresOnly
  <2>4. Ordinary(q) /\ q.unionExpressions = <<>> => Agrees(AggregateSent)
    BY <2>3, AggregateBinds
  <2>5. Ordinary(q) /\ (q.groups = <<>> /\ q.havings = <<>> => q.unionExpressions = <<>>)
          => Agrees(PaginationCountSent)
    BY <2>3, PaginationBinds
  <2>6. Ordinary(q) /\ (grammar = "sqlserver" => q.bindings["select"] = <<>>)
          => Agrees(ExistsSent)
    BY <2>1, <2>2, ExistsBinds DEF Agrees
  <2> QED BY <2>4, <2>5, <2>6
<1> QED BY <1>1, QueryMatched, PTL

-------------------------------------------------------------------------------
(* Writes.                                                                      *)
LEMMA CleanIsText ==
  ASSUME NEW s \in Seq(Nat)
  PROVE  Clean(s) \in Text
<1>1. 0 \in Nat
  OBVIOUS
<1> QED BY <1>1, CleanAppend

LEMMA NumbersAssoc ==
  ASSUME NEW S, NEW s \in Seq(S), NEW t \in Seq(S), NEW u \in Seq(S)
  PROVE  s \o (t \o u) = (s \o t) \o u
<1>1. (s \o t) \o u = s \o (t \o u)
  BY ConcatAssociative
<1> QED BY <1>1, Zenon

LEMMA NatsAssoc ==
  ASSUME NEW s \in Seq(Nat), NEW t \in Seq(Nat), NEW u \in Seq(Nat)
  PROVE  s \o (t \o u) = (s \o t) \o u
BY NumbersAssoc

LEMMA SequenceFrom ==
  ASSUME NEW S, NEW m \in Nat, NEW k \in [1 .. m -> S]
  PROVE  k \in Seq(S)
OBVIOUS

(* A write binds the values of its text, whatever they are joined to.            *)
LEMMA CleanConcat ==
  ASSUME NEW s \in Seq(Nat), NEW t \in Seq(Nat)
  PROVE  Clean(s \o t) = Clean(s) \o Clean(t)
<1> DEFINE B == {n \in Nat : \E u \in Seq(Nat) : Len(u) = n /\ Clean(s \o u) # Clean(s) \o Clean(u)}
<1>1. B = {}
  <2> SUFFICES ASSUME B # {} PROVE FALSE
    OBVIOUS
  <2>1. PICK n \in B : \A m \in B : n <= m
    <3>1. B \in SUBSET Nat
      OBVIOUS
    <3> HIDE DEF B
    <3> QED BY <3>1, Least
  <2>2. PICK u \in Seq(Nat) : Len(u) = n /\ Clean(s \o u) # Clean(s) \o Clean(u)
    OBVIOUS
  <2>3. u # <<>>
    <3>1. Clean(<<>>) = <<>> /\ Clean(s) \in Text
      BY CleanFew, CleanAppend
    <3>2. s \o <<>> = s /\ Clean(s) \o <<>> = Clean(s)
      BY <3>1, TextConcat, ConcatEmptySeq
    <3> QED BY <2>2, <3>1, <3>2
  <2>4. PICK r \in Seq(Nat), v \in Nat : u = Append(r, v)
    BY <2>3, SequenceEmptyOrAppend
  <2>5. Len(r) \in Nat /\ Len(u) = Len(r) + 1
    BY <2>4
  <2>6. Clean(s \o r) = Clean(s) \o Clean(r)
    <3>1. Len(r) \notin B
      <4>1. ~(n <= Len(r))
        BY <2>2, <2>5
      <4> HIDE DEF B
      <4> QED BY <2>1, <4>1
    <3> QED BY <2>5, <3>1
  <2>7. s \o u = Append(s \o r, v) /\ s \o r \in Seq(Nat)
    <3>1. <<v>> \in Seq(Nat) /\ s \o r \in Seq(Nat)
      OBVIOUS
    <3>2. Append(r, v) = r \o <<v>>
      BY AppendIsConcat
    <3>3. Append(s \o r, v) = (s \o r) \o <<v>>
      BY <3>1, AppendIsConcat
    <3>4. s \o (r \o <<v>>) = (s \o r) \o <<v>>
      <4> DEFINE a == <<v>>
      <4>1. a \in Seq(Nat)
        BY <3>1
      <4> HIDE DEF a, B
      <4>2. s \o (r \o a) = (s \o r) \o a
        BY <4>1, NatsAssoc
      <4> QED BY <4>2 DEF a
    <3> HIDE DEF B
    <3> QED BY <2>4, <3>1, <3>2, <3>3, <3>4
  <2>8. Clean(s \o u) = (Clean(s) \o Clean(r)) \o Parameter(v)
    BY <2>6, <2>7, CleanAppend
  <2>9. Clean(u) = Clean(r) \o Parameter(v)
    BY <2>4, CleanAppend
  <2>10. Clean(s) \in Text /\ Clean(r) \in Text /\ Parameter(v) \in Text
    BY CleanAppend, ParameterText
  <2>11. Clean(s \o u) = Clean(s) \o Clean(u)
    <3>1. (Clean(s) \o Clean(r)) \o Parameter(v) = Clean(s) \o (Clean(r) \o Parameter(v))
      <4> HIDE DEF B
      <4> QED BY <2>10, TextAssoc
    <3> QED BY <2>8, <2>9, <3>1
  <2> QED BY <2>2, <2>11
<1>2. Len(t) \in Nat
  OBVIOUS
<1> QED BY <1>1, <1>2

(* Cleaning what is flattened flattens what is cleaned.                         *)
LEMMA CleanFlatten ==
  ASSUME NEW L \in Seq(Seq(Nat))
  PROVE  Clean(FlattenSeq(L)) = FlattenSeq([i \in DOMAIN L |-> Clean(L[i])])
<1> DEFINE C(M) == [i \in DOMAIN M |-> Clean(M[i])]
           B == {n \in Nat : \E M \in Seq(Seq(Nat)) :
                               Len(M) = n /\ Clean(FlattenSeq(M)) # FlattenSeq(C(M))}
<1>1. B = {}
  <2> SUFFICES ASSUME B # {} PROVE FALSE
    OBVIOUS
  <2>1. PICK n \in B : \A m \in B : n <= m
    <3>1. B \in SUBSET Nat
      OBVIOUS
    <3> HIDE DEF B
    <3> QED BY <3>1, Least
  <2>2. PICK M \in Seq(Seq(Nat)) : Len(M) = n /\ Clean(FlattenSeq(M)) # FlattenSeq(C(M))
    OBVIOUS
  <2>3. M # <<>>
    <3>1. C(<<>>) = <<>>
      OBVIOUS
    <3>2. FlattenSeq(<<>>) = <<>> /\ Clean(<<>>) = <<>>
      BY NoText, CleanFew
    <3> HIDE DEF C
    <3> QED BY <2>2, <3>1, <3>2
  <2>4. PICK K \in Seq(Seq(Nat)), x \in Seq(Nat) : M = Append(K, x)
    BY <2>3, SequenceEmptyOrAppend
  <2>5. Len(K) \in Nat /\ Len(M) = Len(K) + 1
    BY <2>4
  <2>6. Clean(FlattenSeq(K)) = FlattenSeq(C(K))
    <3>1. Len(K) \notin B
      <4>1. ~(n <= Len(K))
        BY <2>2, <2>5
      <4> HIDE DEF B
      <4> QED BY <2>1, <4>1
    <3> HIDE DEF C
    <3> QED BY <2>5, <3>1
  <2>7. FlattenSeq(M) = FlattenSeq(K) \o x /\ FlattenSeq(K) \in Seq(Nat)
    BY <2>4, FlattenAppend
  <2>8. Clean(FlattenSeq(M)) = FlattenSeq(C(K)) \o Clean(x)
    <3> HIDE DEF C
    <3> QED BY <2>6, <2>7, CleanConcat
  <2>9. C(K) \in Seq(Text) /\ Clean(x) \in Text
    <3>1. \A i \in 1 .. Len(K) : Clean(K[i]) \in Text
      BY CleanIsText
    <3>2. DOMAIN K = 1 .. Len(K) /\ Len(K) \in Nat
      OBVIOUS
    <3>3. C(K) \in [1 .. Len(K) -> Text]
      BY <3>1, <3>2
    <3>4. C(K) \in Seq(Text)
      <4> DEFINE k == C(K)
                 m == Len(K)
      <4>1. k \in [1 .. m -> Text] /\ m \in Nat
        BY <3>2, <3>3
      <4> HIDE DEF k, m
      <4>2. k \in Seq(Text)
        BY <4>1, SequenceFrom
      <4> QED BY <4>2 DEF k
    <3> QED BY <3>4, CleanIsText
  <2>10. C(M) = Append(C(K), Clean(x))
    <3>1. C(M) \in Seq(Text) /\ Len(C(M)) = Len(K) + 1
      <4>1. \A i \in 1 .. Len(M) : Clean(M[i]) \in Text
        BY CleanIsText
      <4> QED BY <2>5, <4>1
    <3>2. Append(C(K), Clean(x)) \in Seq(Text) /\ Len(Append(C(K), Clean(x))) = Len(K) + 1
      BY <2>9
    <3>3. \A i \in 1 .. Len(K) + 1 : C(M)[i] = Append(C(K), Clean(x))[i]
      BY <2>4, <2>5, <2>9
    <3> QED BY <3>1, <3>2, <3>3, SeqEqual
  <2>11. FlattenSeq(C(M)) = FlattenSeq(C(K)) \o Clean(x)
    <3> HIDE DEF C
    <3> QED BY <2>9, <2>10, TextAppend
  <2> HIDE DEF C
  <2> QED BY <2>2, <2>8, <2>11
<1>2. Len(L) \in Nat
  OBVIOUS
<1>3. Clean(FlattenSeq(L)) = FlattenSeq(C(L))
  <2> HIDE DEF C
  <2> QED BY <1>1, <1>2
<1> QED BY <1>3

(* Texts that are all empty make an empty text.                                 *)
LEMMA FlattenNothing ==
  ASSUME NEW L \in Seq(Text), \A i \in DOMAIN L : L[i] = <<>>
  PROVE  FlattenSeq(L) = <<>>
<1>1. CASE L = <<>>
  BY <1>1, NoText
<1>2. CASE L # <<>>
  <2> DEFINE n == Len(L)
  <2>1. PICK f \in [1 .. n -> Text] : Flattens(f, L, n) /\ FlattenSeq(L) = f[n]
    BY <1>2, FlattenSteps DEF Text
  <2>2. n \in Nat /\ n >= 1 /\ \A i \in 1 .. n : L[i] = <<>>
    BY <1>2
  <2> HIDE DEF n
  <2> DEFINE B == {i \in 1 .. n : f[i] # <<>>}
  <2>3. B = {}
    <3> SUFFICES ASSUME B # {} PROVE FALSE
      OBVIOUS
    <3>1. PICK i \in B : \A m \in B : i <= m
      <4>1. B \in SUBSET Nat
        OBVIOUS
      <4> HIDE DEF B
      <4> QED BY <4>1, Least
    <3>2. i # 1
      BY <2>1, <2>2 DEF Flattens
    <3>3. i \in 2 .. n /\ i - 1 \in 1 .. n /\ ~(i <= i - 1)
      BY <2>2, <3>2
    <3>4. f[i - 1] = <<>>
      BY <3>1, <3>3
    <3>5. f[i] = f[i - 1] \o L[i] /\ L[i] = <<>>
      BY <2>1, <2>2, <3>3 DEF Flattens
    <3>6. f[i] = <<>> \o <<>>
      BY <3>4, <3>5
    <3> QED BY <3>6, NoText, TextConcat
  <2> QED BY <2>1, <2>2, <2>3
<1> QED BY <1>1, <1>2

LEMMA ConcatAt ==
  ASSUME NEW S, NEW a \in Seq(S), NEW b \in Seq(S)
  PROVE  /\ Len(a \o b) = Len(a) + Len(b)
         /\ \A k \in 1 .. Len(a) : (a \o b)[k] = a[k]
         /\ \A k \in 1 .. Len(b) : (a \o b)[Len(a) + k] = b[k]
<1>1. Len(a) \in Nat /\ Len(b) \in Nat
  OBVIOUS
<1>2. /\ Len(a \o b) = Len(a) + Len(b)
      /\ \A k \in 1 .. Len(a) + Len(b) :
            (a \o b)[k] = IF k <= Len(a) THEN a[k] ELSE b[k - Len(a)]
  BY ConcatProperties
<1> DEFINE p == Len(a)
           n == Len(b)
<1>3. \A k \in 1 .. p : k \in 1 .. p + n /\ k <= p
  BY <1>1
<1>4. \A k \in 1 .. n : p + k \in 1 .. p + n /\ ~(p + k <= p) /\ (p + k) - p = k
  BY <1>1
<1> QED BY <1>2, <1>3, <1>4

(* What is in one of the texts that are joined is in the whole.                  *)
LEMMA FlattenKeeps ==
  ASSUME NEW S, NEW L \in Seq(Seq(S)), NEW i \in DOMAIN L, NEW k \in DOMAIN L[i]
  PROVE  \E p \in DOMAIN FlattenSeq(L) : FlattenSeq(L)[p] = L[i][k]
<1> DEFINE N == Len(L)
           x == L[i][k]
<1>1. L # <<>> /\ N \in Nat /\ i \in 1 .. N
  OBVIOUS
<1>2. PICK f \in [1 .. N -> Seq(S)] : Flattens(f, L, N) /\ FlattenSeq(L) = f[N]
  BY <1>1, FlattenSteps
<1>3. \A n \in 1 .. N : L[n] \in Seq(S)
  OBVIOUS
<1>4. N >= 1 /\ Flattens(f, L, N)
  BY <1>1, <1>2
<1> HIDE DEF N, x
<1>5. \A n \in 1 .. N : f[n] \in Seq(S)
  BY <1>2
<1>6. f[1] = L[1] /\ \A n \in 2 .. N : f[n] = f[n - 1] \o L[n]
  BY <1>4, Zenon DEF Flattens
<1> DEFINE Has(n) == \E p \in DOMAIN f[n] : f[n][p] = x
           B == {n \in i .. N : ~Has(n)}
<1>7. B = {}
  <2> SUFFICES ASSUME B # {} PROVE FALSE
    OBVIOUS
  <2>1. PICK n \in B : \A m \in B : n <= m
    <3>1. B \in SUBSET Nat
      BY <1>1
    <3> HIDE DEF B
    <3> QED BY <3>1, Least
  <2>2. n \in 1 .. N /\ n >= i /\ ~Has(n)
    BY <1>1, <2>1
  <2>3. CASE n = 1
    <3>1. i = 1 /\ f[n] = L[i]
      BY <1>1, <1>6, <2>2, <2>3
    <3> QED BY <2>2, <3>1 DEF x
  <2>4. CASE n # 1
    <3>1. n \in 2 .. N /\ n - 1 \in 1 .. N
      BY <1>1, <2>2, <2>4
    <3> DEFINE a == f[n - 1]
               b == L[n]
    <3>2. a \in Seq(S) /\ b \in Seq(S) /\ f[n] = a \o b
      BY <1>3, <1>5, <1>6, <2>2, <3>1
    <3>3. CASE n = i
      <4>1. k \in DOMAIN b /\ b[k] = x
        BY <3>3 DEF x
      <4> HIDE DEF a, b, B
      <4>2. k \in 1 .. Len(b) /\ Len(a) \in Nat /\ Len(b) \in Nat
        BY <3>2, <4>1
      <4>3. /\ (a \o b)[Len(a) + k] = b[k]
            /\ Len(a \o b) = Len(a) + Len(b) /\ a \o b \in Seq(S)
        BY <3>2, <4>2, ConcatAt, ConcatProperties
      <4>4. Len(a) + k \in DOMAIN (a \o b)
        BY <4>2, <4>3
      <4> QED BY <2>2, <3>2, <4>1, <4>3, <4>4
    <3>4. CASE n # i
      <4>1. n - 1 \in i .. N /\ ~(n <= n - 1)
        BY <1>1, <2>2, <3>1, <3>4
      <4>2. Has(n - 1)
        BY <2>1, <4>1
      <4>3. PICK p \in DOMAIN a : a[p] = x
        BY <4>2
      <4> HIDE DEF a, b, B
      <4>4. p \in 1 .. Len(a) /\ Len(a) \in Nat /\ Len(b) \in Nat
        BY <3>2
      <4>5. /\ (a \o b)[p] = a[p]
            /\ Len(a \o b) = Len(a) + Len(b) /\ a \o b \in Seq(S)
        BY <3>2, <4>4, ConcatAt, ConcatProperties
      <4>6. p \in DOMAIN (a \o b)
        BY <4>4, <4>5
      <4> QED BY <2>2, <3>2, <4>3, <4>5, <4>6
    <3> QED BY <3>3, <3>4
  <2> QED BY <2>3, <2>4
<1>8. N \in i .. N
  BY <1>1
<1>9. Has(N)
  <2> HIDE DEF Has
  <2> QED BY <1>7, <1>8
<1> QED BY <1>2, <1>9 DEF x

(* The values of an update: any plain keys and paths, of any values, no key twice. *)
Entries ==
  [json : BOOLEAN, table : Nat, column : Nat,
   is : {"primitive", "boolean", "object", "instance"}, value : Nat]

KeysOnce(values) ==
  \A i, k \in DOMAIN values :
    /\ ~values[i].json /\ ~values[k].json /\ values[i].column = values[k].column
    /\ HasJson(values) \/ values[i].table = values[k].table
    => i = k

Updates == {values \in Seq(Entries) : KeysOnce(values)}

(* One text for each value, or none: all of them are from one set.               *)
LEMMA EachFrom ==
  ASSUME NEW S, NEW values \in Seq(Entries), NEW L, DOMAIN L = DOMAIN values,
         L = [i \in DOMAIN L |-> L[i]], \A i \in DOMAIN values : L[i] \in Seq(S)
  PROVE  L \in Seq(Seq(S)) /\ FlattenSeq(L) \in Seq(S)
<1> DEFINE n == Len(values)
<1>1. n \in Nat /\ DOMAIN values = 1 .. n
  OBVIOUS
<1>2. L \in [1 .. n -> Seq(S)]
  BY <1>1
<1> HIDE DEF n
<1>3. L \in Seq(Seq(S))
  BY <1>1, <1>2, SequenceFrom
<1> QED BY <1>3, FlattenAppend, EmptySeq

LEMMA PathsAre ==
  ASSUME NEW values \in Seq(Entries), NEW column
  PROVE  PathsOf(values, column) \in Seq({v \in Entries : v.json})
<1> DEFINE J == {v \in Entries : v.json}
           L == [i \in DOMAIN values |->
                   IF values[i].json /\ values[i].column = column THEN <<values[i]>> ELSE <<>>]
<1>1. \A i \in DOMAIN values : values[i] \in Entries
  OBVIOUS
<1>2. \A i \in DOMAIN values : L[i] \in Seq(J)
  <2>1. \A v \in J : <<v>> \in Seq(J)
    OBVIOUS
  <2>2. \A i \in DOMAIN values : values[i].json => values[i] \in J
    BY <1>1
  <2>3. <<>> \in Seq(J)
    OBVIOUS
  <2> HIDE DEF J
  <2> QED BY <2>1, <2>2, <2>3
<1>3. DOMAIN L = DOMAIN values /\ L = [i \in DOMAIN L |-> L[i]]
  OBVIOUS
<1>4. PathsOf(values, column) = FlattenSeq(L)
  BY DEF PathsOf
<1> HIDE DEF L, J
<1>5. FlattenSeq(L) \in Seq(J)
  BY <1>2, <1>3, EachFrom
<1> QED BY <1>4, <1>5 DEF J

LEMMA GroupedAre ==
  ASSUME NEW values \in Seq(Entries)
  PROVE  Grouped(values) \in Seq({v \in Entries : v.json})
<1> DEFINE J == {v \in Entries : v.json}
           L == [i \in DOMAIN values |->
                   IF FirstPath(values, i) /\ ~Named(values, values[i].column)
                     THEN PathsOf(values, values[i].column) ELSE <<>>]
<1>1. \A i \in DOMAIN values : L[i] \in Seq(J)
  <2>1. <<>> \in Seq(J)
    OBVIOUS
  <2>2. \A i \in DOMAIN values : PathsOf(values, values[i].column) \in Seq(J)
    BY PathsAre
  <2> HIDE DEF J
  <2> QED BY <2>1, <2>2
<1>2. DOMAIN L = DOMAIN values /\ L = [i \in DOMAIN L |-> L[i]]
  OBVIOUS
<1>3. Grouped(values) = FlattenSeq(L)
  BY DEF Grouped
<1> HIDE DEF L, J
<1>4. FlattenSeq(L) \in Seq(J)
  BY <1>1, <1>2, EachFrom
<1> QED BY <1>3, <1>4 DEF J

LEMMA MergedEntry ==
  ASSUME NEW values \in Seq(Entries), NEW v \in Entries
  PROVE  /\ Merged(values, v) \in Entries
         /\ Merged(values, v).json = v.json /\ Merged(values, v).table = 0
         /\ Merged(values, v).column = v.column /\ Merged(values, v).value = v.value
BY DEF Merged, Entries

(* The plain values beside a path, all of one kind when each of them is.          *)
PlainEntries(values) ==
  [i \in DOMAIN values |->
     IF values[i].json THEN <<>> ELSE <<Merged(values, values[i])>>]

LEMMA PlainAre ==
  ASSUME NEW values \in Seq(Entries), NEW S,
         \A i \in DOMAIN values : ~values[i].json => Merged(values, values[i]) \in S
  PROVE  /\ PlainEntries(values) \in Seq(Seq(S)) /\ Plain(values) \in Seq(S)
         /\ Plain(values) = FlattenSeq(PlainEntries(values))
<1> DEFINE L == PlainEntries(values)
<1>1. \A i \in DOMAIN values : L[i] \in Seq(S)
  BY DEF PlainEntries
<1>2. DOMAIN L = DOMAIN values /\ L = [i \in DOMAIN L |-> L[i]]
  BY DEF PlainEntries
<1>3. Plain(values) = FlattenSeq(L)
  BY DEF Plain, PlainEntries
<1> HIDE DEF L
<1>4. L \in Seq(Seq(S)) /\ FlattenSeq(L) \in Seq(S)
  BY <1>1, <1>2, EachFrom
<1> QED BY <1>3, <1>4 DEF L

LEMMA CombinedEntries ==
  ASSUME NEW values \in Seq(Entries)
  PROVE  /\ Combined(values) \in Seq(Entries)
         /\ Plain(values) \in Seq(Entries) /\ Grouped(values) \in Seq(Entries)
<1>1. Plain(values) \in Seq(Entries)
  <2>1. \A i \in DOMAIN values : Merged(values, values[i]) \in Entries
    BY MergedEntry
  <2> QED BY <2>1, PlainAre
<1>2. Grouped(values) \in Seq(Entries)
  <2> DEFINE J == {v \in Entries : v.json}
             E == Entries
  <2>1. J \subseteq E /\ Grouped(values) \in Seq(J)
    BY GroupedAre
  <2> HIDE DEF J, E
  <2>2. Grouped(values) \in Seq(E)
    BY <2>1
  <2> QED BY <2>2 DEF E
<1> QED BY <1>1, <1>2, ConcatProperties DEF Combined

(* The values that the lookup by their key gives.                                *)
Found(values) ==
  {v \in Entries : v.json \/ v.is = "object" \/ ValueAt(values, v) = v.value}

LEMMA CombinedFound ==
  ASSUME NEW values \in Updates, KeysFound(values)
  PROVE  Combined(values) \in Seq(Found(values))
<1> DEFINE F == Found(values)
<1>1. /\ values \in Seq(Entries) /\ \A i \in DOMAIN values : values[i] \in Entries
      /\ KeysOnce(values)
  BY DEF Updates
<1>2. CASE HasJson(values)
  <2>1. ASSUME NEW i \in DOMAIN values, ~values[i].json
        PROVE  Merged(values, values[i]) \in F
    <3> DEFINE v == Merged(values, values[i])
    <3>1. /\ v \in Entries /\ v.table = 0
          /\ v.column = values[i].column /\ v.value = values[i].value
      BY <1>1, MergedEntry
    <3>2. CASE v.is = "object"
      BY <3>1, <3>2 DEF Found
    <3>3. CASE v.is # "object"
      <4>1. values[i].table = 0
        BY <1>2, <2>1, <3>3 DEF KeysFound
      <4> HIDE DEF v
      <4>2. {k \in DOMAIN values : /\ ~values[k].json /\ values[k].table = v.table
                                   /\ values[k].column = v.column} = {i}
        BY <1>1, <1>2, <2>1, <3>1, <4>1 DEF KeysOnce
      <4>3. ValueAt(values, v) = values[i].value
        BY <4>2 DEF ValueAt
      <4> QED BY <3>1, <4>3 DEF Found, v
    <3> QED BY <3>2, <3>3
  <2>2. Plain(values) \in Seq(F)
    <3> HIDE DEF F
    <3> QED BY <1>1, <2>1, PlainAre
  <2>3. Grouped(values) \in Seq(F)
    <3>1. {v \in Entries : v.json} \subseteq F
      BY DEF Found
    <3>2. Grouped(values) \in Seq({v \in Entries : v.json})
      BY <1>1, GroupedAre
    <3> HIDE DEF F
    <3> QED BY <3>1, <3>2
  <2> HIDE DEF F
  <2>4. Plain(values) \o Grouped(values) \in Seq(F)
    BY <2>2, <2>3, ConcatProperties
  <2> QED BY <1>2, <2>4 DEF Combined, F
<1>3. CASE ~HasJson(values)
  <2>1. ASSUME NEW i \in DOMAIN values PROVE values[i] \in F
    <3> DEFINE v == values[i]
    <3>1. ~v.json /\ v \in Entries
      BY <1>1, <1>3 DEF HasJson
    <3>2. {k \in DOMAIN values : /\ ~values[k].json /\ values[k].table = v.table
                                 /\ values[k].column = v.column} = {i}
      BY <1>1, <3>1 DEF KeysOnce
    <3>3. ValueAt(values, v) = v.value
      BY <3>2 DEF ValueAt
    <3> QED BY <3>1, <3>3 DEF Found
  <2> DEFINE n == Len(values)
  <2>2. n \in Nat /\ DOMAIN values = 1 .. n /\ values \in [1 .. n -> F]
    <3>1. n \in Nat /\ DOMAIN values = 1 .. n /\ values = [k \in 1 .. n |-> values[k]]
      BY <1>1
    <3> HIDE DEF n, F
    <3> QED BY <2>1, <3>1
  <2> HIDE DEF n, F
  <2>3. values \in Seq(F)
    BY <2>2, SequenceFrom
  <2> QED BY <1>3, <2>3 DEF Combined, F
<1> QED BY <1>2, <1>3

(* A key that is not found is among the combined ones, and is undefined.         *)
LEMMA CombinedLost ==
  ASSUME NEW values \in Updates, ~KeysFound(values)
  PROVE  \E p \in DOMAIN Combined(values) :
           LET v == Combined(values)[p]
           IN ~v.json /\ v.is # "object" /\ ValueAt(values, v) = Undefined
<1>1. /\ values \in Seq(Entries) /\ \A i \in DOMAIN values : values[i] \in Entries
      /\ KeysOnce(values)
  BY DEF Updates
<1>2. HasJson(values)
  BY DEF KeysFound
<1>3. PICK i \in DOMAIN values : ~values[i].json /\ values[i].table # 0
                                 /\ Merged(values, values[i]).is # "object"
  BY DEF KeysFound
<1> DEFINE v == Merged(values, values[i])
           a == Plain(values)
           b == Grouped(values)
<1>4. /\ v \in Entries /\ ~v.json /\ v.table = 0 /\ v.column = values[i].column
      /\ v.is # "object"
  BY <1>1, <1>3, MergedEntry
<1>5. ValueAt(values, v) = Undefined
  <2> HIDE DEF v
  <2>1. {k \in DOMAIN values : /\ ~values[k].json /\ values[k].table = v.table
                               /\ values[k].column = v.column} = {}
    BY <1>1, <1>2, <1>3, <1>4 DEF KeysOnce
  <2> QED BY <2>1 DEF ValueAt
<1>6. PICK p \in DOMAIN a : a[p] = v
  <2> DEFINE L == PlainEntries(values)
  <2>1. L[i] = <<v>> /\ i \in DOMAIN L
    BY <1>3 DEF PlainEntries
  <2>2. L \in Seq(Seq(Entries)) /\ a = FlattenSeq(L)
    <3>1. \A k \in DOMAIN values : Merged(values, values[k]) \in Entries
      BY <1>1, MergedEntry
    <3> QED BY <1>1, <3>1, PlainAre
  <2> HIDE DEF L, v, a
  <2>3. 1 \in DOMAIN L[i] /\ L[i][1] = v
    BY <2>1
  <2>4. \E p \in DOMAIN FlattenSeq(L) : FlattenSeq(L)[p] = L[i][1]
    BY <2>1, <2>2, <2>3, FlattenKeeps
  <2> QED BY <2>2, <2>3, <2>4
<1>7. a \in Seq(Entries) /\ b \in Seq(Entries) /\ Combined(values) = a \o b
  BY <1>1, <1>2, CombinedEntries DEF Combined
<1> HIDE DEF v, a, b
<1>8. (a \o b)[p] = v /\ p \in DOMAIN (a \o b)
  <2>1. p \in 1 .. Len(a) /\ Len(a) \in Nat /\ Len(b) \in Nat
    BY <1>7
  <2>2. /\ (a \o b)[p] = a[p] /\ Len(a \o b) = Len(a) + Len(b) /\ a \o b \in Seq(Entries)
    BY <1>7, <2>1, ConcatAt, ConcatProperties
  <2> QED BY <1>6, <2>1, <2>2
<1> QED BY <1>4, <1>5, <1>7, <1>8

(* A sequence that holds an undefined value is no text, cleaned or not.          *)
Holding(s) == s \in Seq(Int) /\ \E i \in DOMAIN s : s[i] = Undefined

LEMMA HoldingJoined ==
  ASSUME NEW s, Holding(s), NEW t \in Seq(Int)
  PROVE  Holding(s \o t) /\ Holding(t \o s)
<1>1. s \in Seq(Int)
  BY DEF Holding
<1>2. PICK i \in DOMAIN s : s[i] = Undefined
  BY DEF Holding
<1>3. i \in 1 .. Len(s) /\ Len(s) \in Nat /\ Len(t) \in Nat
  BY <1>1
<1>4. /\ s \o t \in Seq(Int) /\ Len(s \o t) = Len(s) + Len(t) /\ (s \o t)[i] = s[i]
      /\ t \o s \in Seq(Int) /\ Len(t \o s) = Len(t) + Len(s) /\ (t \o s)[Len(t) + i] = s[i]
  BY <1>1, <1>3, ConcatAt, ConcatProperties
<1>5. i \in DOMAIN (s \o t) /\ Len(t) + i \in DOMAIN (t \o s)
  BY <1>3, <1>4
<1> QED BY <1>2, <1>4, <1>5 DEF Holding

LEMMA HoldingCleaned ==
  ASSUME NEW s, Holding(s)
  PROVE  Clean(s) \notin Text
<1> DEFINE L == [i \in DOMAIN s |-> IF s[i] = Expression THEN <<>> ELSE <<s[i]>>]
           n == Len(s)
<1>1. s \in Seq(Int) /\ n \in Nat /\ DOMAIN s = 1 .. n
  BY DEF Holding
<1>2. PICK i \in DOMAIN s : s[i] = Undefined
  BY DEF Holding
<1>3. L \in Seq(Seq(Int))
  <2>1. L \in [1 .. n -> Seq(Int)]
    BY <1>1
  <2> HIDE DEF L, n
  <2> QED BY <1>1, <2>1, SequenceFrom
<1>4. i \in DOMAIN L /\ L[i] = <<Undefined>>
  BY <1>2 DEF Undefined, Expression
<1>5. Clean(s) = FlattenSeq(L)
  BY DEF Clean
<1> HIDE DEF L, n
<1>6. 1 \in DOMAIN L[i] /\ L[i][1] = Undefined
  BY <1>4
<1>7. PICK p \in DOMAIN FlattenSeq(L) : FlattenSeq(L)[p] = L[i][1]
  BY <1>3, <1>4, <1>6, FlattenKeeps
<1>8. Clean(s) \in Text => Clean(s)[p] \in Number
  BY <1>5, <1>7 DEF Text
<1> QED BY <1>5, <1>6, <1>7, <1>8 DEF Undefined, Number

LEMMA ValueAtIs ==
  ASSUME NEW values \in Seq(Entries), NEW v
  PROVE  ValueAt(values, v) \in Int
<1> DEFINE found == {i \in DOMAIN values : /\ ~values[i].json
                                           /\ values[i].table = v.table
                                           /\ values[i].column = v.column}
<1>1. \A i \in found : values[i].value \in Int
  <2>1. \A i \in DOMAIN values : values[i] \in Entries
    OBVIOUS
  <2> QED BY <2>1 DEF Entries
<1>2. ValueAt(values, v) = IF found = {} THEN Undefined ELSE values[CHOOSE i \in found : TRUE].value
  BY DEF ValueAt
<1> HIDE DEF found
<1>3. found # {} => (CHOOSE i \in found : TRUE) \in found
  OBVIOUS
<1> QED BY <1>1, <1>2, <1>3 DEF Undefined

(* The values bound are those of the text, when all keys are found, and one of    *)
(* them is undefined when not.                                                   *)
LEMMA MergedIs ==
  ASSUME NEW g, NEW values \in Updates
  PROVE  /\ PrepareValuesForMerge(g, values) \in Seq(Int)
         /\ CompileUpdateColumns(g, values) \in Text
         /\ KeysFound(values) =>
              /\ PrepareValuesForMerge(g, values) \in Seq(Nat)
              /\ Clean(PrepareValuesForMerge(g, values)) = CompileUpdateColumns(g, values)
         /\ ~KeysFound(values) => Holding(PrepareValuesForMerge(g, values))
<1> DEFINE c == Combined(values)
           Skip(e) == e.json /\ (e.value = Expression \/ BooleanText(g, e))
           Looked(e) == ~e.json /\ e.is # "object"
           Bound(e) == CASE Skip(e) -> <<>>
                         [] Looked(e) -> <<ValueAt(values, e)>>
                         [] OTHER -> <<e.value>>
           M == [i \in DOMAIN c |-> Bound(c[i])]
           T == [i \in DOMAIN c |-> IF BooleanText(g, c[i]) THEN <<>> ELSE Parameter(c[i].value)]
           n == Len(c)
<1>1. PrepareValuesForMerge(g, values) = FlattenSeq(M)
  BY DEF PrepareValuesForMerge, Texts
<1>2. CompileUpdateColumns(g, values) = FlattenSeq(T)
  BY DEF CompileUpdateColumns, Texts
<1>3. values \in Seq(Entries) /\ c \in Seq(Entries)
  BY CombinedEntries DEF Updates
<1>4. /\ n \in Nat /\ DOMAIN c = 1 .. n
      /\ \A i \in DOMAIN c : c[i] \in Entries /\ c[i].value \in Nat /\ ValueAt(values, c[i]) \in Int
      /\ \A v \in Entries : Skip(v) => ~Looked(v)
  <2> HIDE DEF c
  <2>1. n \in Nat /\ DOMAIN c = 1 .. n /\ \A i \in DOMAIN c : c[i] \in Entries
    BY <1>3
  <2>2. \A i \in DOMAIN c : ValueAt(values, c[i]) \in Int
    BY <1>3, ValueAtIs
  <2> QED BY <2>1, <2>2 DEF Entries
<1>5. KeysFound(values) => \A i \in DOMAIN c : Looked(c[i]) => ValueAt(values, c[i]) = c[i].value
  <2> SUFFICES ASSUME KeysFound(values), NEW i \in DOMAIN c, Looked(c[i])
               PROVE  ValueAt(values, c[i]) = c[i].value
    OBVIOUS
  <2>1. c \in Seq(Found(values))
    BY CombinedFound
  <2> HIDE DEF c
  <2>2. c[i] \in Found(values)
    BY <2>1
  <2> QED BY <2>2 DEF Found
<1>6. ~KeysFound(values) =>
        \E p \in DOMAIN c : Looked(c[p]) /\ ValueAt(values, c[p]) = Undefined
  BY CombinedLost
<1> HIDE DEF c, n
<1>7. DOMAIN M = DOMAIN c /\ DOMAIN T = DOMAIN c
        /\ M = [i \in DOMAIN M |-> M[i]] /\ T = [i \in DOMAIN T |-> T[i]]
  OBVIOUS
<1>8. \A i \in DOMAIN c : T[i] \in Text
  BY <1>4, ParameterText, NoText
<1>9. FlattenSeq(T) \in Text
  <2> HIDE DEF T
  <2>1. T \in Seq(Text)
    <3>1. T \in [1 .. n -> Text]
      BY <1>4, <1>7, <1>8
    <3> QED BY <1>4, <3>1, SequenceFrom
  <2> QED BY <2>1, NoText, TextAppend
<1>10. M \in Seq(Seq(Int)) /\ FlattenSeq(M) \in Seq(Int)
  <2>1. \A i \in DOMAIN c : M[i] \in Seq(Int)
    BY <1>4
  <2> HIDE DEF M
  <2>2. M \in Seq(Seq(Int))
    <3>1. M \in [1 .. n -> Seq(Int)]
      BY <1>4, <1>7, <2>1
    <3> QED BY <1>4, <3>1, SequenceFrom
  <2> QED BY <2>2, FlattenAppend, EmptySeq
<1>11. ASSUME KeysFound(values)
       PROVE  FlattenSeq(M) \in Seq(Nat) /\ Clean(FlattenSeq(M)) = FlattenSeq(T)
  <2>1. \A i \in DOMAIN c : M[i] = IF Skip(c[i]) THEN <<>> ELSE <<c[i].value>>
    BY <1>4, <1>5, <1>11
  <2>2. \A i \in DOMAIN c : M[i] \in Seq(Nat) /\ Clean(M[i]) = T[i]
    <3> TAKE i \in DOMAIN c
    <3>1. c[i].value \in Nat
      BY <1>4
    <3>2. Clean(<<>>) = <<>> /\ Clean(<<c[i].value>>) = Parameter(c[i].value)
      BY <3>1, CleanFew
    <3>3. M[i] = IF Skip(c[i]) THEN <<>> ELSE <<c[i].value>>
      BY <2>1
    <3>4. CASE c[i].json /\ BooleanText(g, c[i])
      BY <3>2, <3>3, <3>4
    <3>5. CASE c[i].json /\ c[i].value = Expression /\ ~BooleanText(g, c[i])
      <4>1. Parameter(c[i].value) = <<>>
        BY <3>5 DEF Parameter
      <4> QED BY <3>2, <3>3, <3>5, <4>1
    <3>6. CASE ~Skip(c[i]) /\ ~BooleanText(g, c[i])
      BY <3>1, <3>2, <3>3, <3>6
    <3> QED BY <3>4, <3>5, <3>6 DEF BooleanText
  <2>3. [i \in DOMAIN M |-> Clean(M[i])] = T
    BY <2>2
  <2> HIDE DEF M, T
  <2>4. M \in Seq(Seq(Nat))
    <3>1. M \in [1 .. n -> Seq(Nat)]
      BY <1>4, <1>7, <2>2
    <3> QED BY <1>4, <3>1, SequenceFrom
  <2>5. FlattenSeq(M) \in Seq(Nat)
    BY <2>4, FlattenAppend, EmptySeq
  <2>6. Clean(FlattenSeq(M)) = FlattenSeq(T)
    BY <2>3, <2>4, CleanFlatten
  <2> QED BY <2>5, <2>6
<1>12. ASSUME ~KeysFound(values) PROVE Holding(FlattenSeq(M))
  <2>1. PICK p \in DOMAIN c : Looked(c[p]) /\ ValueAt(values, c[p]) = Undefined
    BY <1>6, <1>12
  <2>2. M[p] = <<Undefined>>
    BY <1>4, <2>1
  <2>3. p \in DOMAIN M
    BY <1>7
  <2> HIDE DEF M
  <2>4. 1 \in DOMAIN M[p] /\ M[p][1] = Undefined
    BY <2>2
  <2>5. \E o \in DOMAIN FlattenSeq(M) : FlattenSeq(M)[o] = M[p][1]
    BY <1>10, <2>3, <2>4, FlattenKeeps
  <2> QED BY <1>10, <2>4, <2>5 DEF Holding
<1> HIDE DEF M, T
<1> QED BY <1>1, <1>2, <1>9, <1>10, <1>11, <1>12

(* A text in front of five others.                                              *)
AreTexts(p, g, h, o, u, v) ==
  p \in Text /\ g \in Text /\ h \in Text /\ o \in Text /\ u \in Text /\ v \in Text

LEMMA BeforeFive ==
  ASSUME NEW p, NEW g, NEW h, NEW o, NEW u, NEW v, AreTexts(p, g, h, o, u, v)
  PROVE  /\ g \o h \o o \o u \o v \in Text
         /\ p \o g \o h \o o \o u \o v = p \o (g \o h \o o \o u \o v)
<1> DEFINE gh == g \o h
           go == gh \o o
           gu == go \o u
           gv == gu \o v
<1>1. p \in Text
  BY DEF AreTexts
<1>2. gh \in Text /\ p \o gh = (p \o g) \o h
  <2>1. g \in Text /\ h \in Text
    BY DEF AreTexts
  <2> QED BY <1>1, <2>1, TextNext
<1> HIDE DEF gh
<1>3. go \in Text /\ p \o go = (p \o gh) \o o
  <2>1. o \in Text
    BY DEF AreTexts
  <2> QED BY <1>1, <1>2, <2>1, TextNext
<1> HIDE DEF go
<1>4. gu \in Text /\ p \o gu = (p \o go) \o u
  <2>1. u \in Text
    BY DEF AreTexts
  <2> QED BY <1>1, <1>3, <2>1, TextNext
<1> HIDE DEF gu
<1>5. gv \in Text /\ p \o gv = (p \o gu) \o v
  <2>1. v \in Text
    BY DEF AreTexts
  <2> QED BY <1>1, <1>4, <2>1, TextNext
<1> HIDE DEF gv
<1>6. p \o gv = p \o g \o h \o o \o u \o v
  BY <1>2, <1>3, <1>4, <1>5, Zenon
<1>7. gv = g \o h \o o \o u \o v
  BY DEF gh, go, gu, gv
<1> QED BY <1>5, <1>6, <1>7

(* What a write has no clause for.                                              *)
WrittenTypes == {"expressions", "select", "from", "join", "where"}
Rest(q) == BindingsBut(q, WrittenTypes)

LEMMA RestIs ==
  ASSUME NEW q, Matched(q)
  PROVE  /\ Rest(q) = q.bindings["groupBy"] \o q.bindings["having"] \o q.bindings["order"]
                        \o q.bindings["union"] \o q.bindings["unionOrder"]
         /\ Rest(q) \in Text
<1> DEFINE g == q.bindings["groupBy"]
           h == q.bindings["having"]
           o == q.bindings["order"]
           u == q.bindings["union"]
           v == q.bindings["unionOrder"]
<1>1. g \in Text /\ h \in Text /\ o \in Text /\ u \in Text /\ v \in Text
  BY MatchedRegistry DEF TypeNames
<1>2. Rest(q) = <<>> \o <<>> \o <<>> \o <<>> \o <<>> \o g \o h \o o \o u \o v
  <2> DEFINE T == WrittenTypes
  <2>1. /\ Kept(q, T, "expressions") = <<>> /\ Kept(q, T, "select") = <<>>
        /\ Kept(q, T, "from") = <<>> /\ Kept(q, T, "join") = <<>>
        /\ Kept(q, T, "where") = <<>> /\ Kept(q, T, "groupBy") = g
        /\ Kept(q, T, "having") = h /\ Kept(q, T, "order") = o
        /\ Kept(q, T, "union") = u /\ Kept(q, T, "unionOrder") = v
    BY DEF Kept, WrittenTypes
  <2>2. q \in Registry
    BY MatchedRegistry
  <2>3. Rest(q) =
           Kept(q, T, "expressions") \o Kept(q, T, "select") \o Kept(q, T, "from")
             \o Kept(q, T, "join") \o Kept(q, T, "where") \o Kept(q, T, "groupBy")
             \o Kept(q, T, "having") \o Kept(q, T, "order") \o Kept(q, T, "union")
             \o Kept(q, T, "unionOrder")
    BY <2>2, BindingsButIs DEF Rest
  <2> HIDE DEF T, g, h, o, u, v
  <2> QED BY <2>1, <2>3, Zenon
<1> HIDE DEF g, h, o, u, v
<1>3. <<>> \in Text /\ <<>> \o <<>> = <<>>
  BY NoText, TextConcat
<1>4. <<>> \o g = g
  BY <1>1, TextConcat
<1>5. Rest(q) = g \o h \o o \o u \o v
  BY <1>2, <1>3, <1>4, Zenon
<1>6. g \o h \o o \o u \o v \in Text
  <2>1. AreTexts(g, g, h, o, u, v)
    BY <1>1 DEF AreTexts
  <2> QED BY <2>1, BeforeFive
<1> QED BY <1>5, <1>6 DEF g, h, o, u, v

LEMMA BindingsOfWrites ==
  ASSUME NEW q, Matched(q), q.bindings["from"] = <<>>
  PROVE  LET e == q.bindings["expressions"]
             j == q.bindings["join"]
             w == q.bindings["where"]
         IN /\ BindingsBut(q, {"select"}) = e \o j \o w \o Rest(q)
            /\ BindingsBut(q, {"select", "expressions"}) = j \o w \o Rest(q)
            /\ BindingsBut(q, {"select", "join", "expressions"}) = w \o Rest(q)
            /\ BindingsBut(q, {"select", "where", "expressions"}) = j \o Rest(q)
<1> DEFINE e == q.bindings["expressions"]
           j == q.bindings["join"]
           w == q.bindings["where"]
           g == q.bindings["groupBy"]
           h == q.bindings["having"]
           o == q.bindings["order"]
           u == q.bindings["union"]
           v == q.bindings["unionOrder"]
<1>1. e \in Text /\ j \in Text /\ w \in Text
  BY MatchedRegistry DEF TypeNames
<1>2. g \in Text /\ h \in Text /\ o \in Text /\ u \in Text /\ v \in Text
  BY MatchedRegistry DEF TypeNames
<1>3. /\ BindingsBut(q, {"select"}) = e \o <<>> \o <<>> \o j \o w \o g \o h \o o \o u \o v
      /\ BindingsBut(q, {"select", "expressions"}) =
           <<>> \o <<>> \o <<>> \o j \o w \o g \o h \o o \o u \o v
      /\ BindingsBut(q, {"select", "join", "expressions"}) =
           <<>> \o <<>> \o <<>> \o <<>> \o w \o g \o h \o o \o u \o v
      /\ BindingsBut(q, {"select", "where", "expressions"}) =
           <<>> \o <<>> \o <<>> \o j \o <<>> \o g \o h \o o \o u \o v
  <2>1. \A types : BindingsBut(q, types) =
           Kept(q, types, "expressions") \o Kept(q, types, "select") \o Kept(q, types, "from")
             \o Kept(q, types, "join") \o Kept(q, types, "where") \o Kept(q, types, "groupBy")
             \o Kept(q, types, "having") \o Kept(q, types, "order") \o Kept(q, types, "union")
             \o Kept(q, types, "unionOrder")
    BY MatchedRegistry, BindingsButIs
  <2>2. BindingsBut(q, {"select"}) = e \o <<>> \o <<>> \o j \o w \o g \o h \o o \o u \o v
    <3> DEFINE T == {"select"}
    <3>1. /\ Kept(q, T, "expressions") = e /\ Kept(q, T, "select") = <<>>
          /\ Kept(q, T, "from") = <<>> /\ Kept(q, T, "join") = j
          /\ Kept(q, T, "where") = w /\ Kept(q, T, "groupBy") = g
          /\ Kept(q, T, "having") = h /\ Kept(q, T, "order") = o
          /\ Kept(q, T, "union") = u /\ Kept(q, T, "unionOrder") = v
      BY DEF Kept
    <3> HIDE DEF T, e, j, w, g, h, o, u, v
    <3>2. BindingsBut(q, T) = e \o <<>> \o <<>> \o j \o w \o g \o h \o o \o u \o v
      BY <3>1, <2>1, Zenon
    <3> QED BY <3>2 DEF T
  <2>3. BindingsBut(q, {"select", "expressions"}) =
           <<>> \o <<>> \o <<>> \o j \o w \o g \o h \o o \o u \o v
    <3> DEFINE T == {"select", "expressions"}
    <3>1. /\ Kept(q, T, "expressions") = <<>> /\ Kept(q, T, "select") = <<>>
          /\ Kept(q, T, "from") = <<>> /\ Kept(q, T, "join") = j
          /\ Kept(q, T, "where") = w /\ Kept(q, T, "groupBy") = g
          /\ Kept(q, T, "having") = h /\ Kept(q, T, "order") = o
          /\ Kept(q, T, "union") = u /\ Kept(q, T, "unionOrder") = v
      BY DEF Kept
    <3> HIDE DEF T, e, j, w, g, h, o, u, v
    <3>2. BindingsBut(q, T) = <<>> \o <<>> \o <<>> \o j \o w \o g \o h \o o \o u \o v
      BY <3>1, <2>1, Zenon
    <3> QED BY <3>2 DEF T
  <2>4. BindingsBut(q, {"select", "join", "expressions"}) =
           <<>> \o <<>> \o <<>> \o <<>> \o w \o g \o h \o o \o u \o v
    <3> DEFINE T == {"select", "join", "expressions"}
    <3>1. /\ Kept(q, T, "expressions") = <<>> /\ Kept(q, T, "select") = <<>>
          /\ Kept(q, T, "from") = <<>> /\ Kept(q, T, "join") = <<>>
          /\ Kept(q, T, "where") = w /\ Kept(q, T, "groupBy") = g
          /\ Kept(q, T, "having") = h /\ Kept(q, T, "order") = o
          /\ Kept(q, T, "union") = u /\ Kept(q, T, "unionOrder") = v
      BY DEF Kept
    <3> HIDE DEF T, e, j, w, g, h, o, u, v
    <3>2. BindingsBut(q, T) = <<>> \o <<>> \o <<>> \o <<>> \o w \o g \o h \o o \o u \o v
      BY <3>1, <2>1, Zenon
    <3> QED BY <3>2 DEF T
  <2>5. BindingsBut(q, {"select", "where", "expressions"}) =
           <<>> \o <<>> \o <<>> \o j \o <<>> \o g \o h \o o \o u \o v
    <3> DEFINE T == {"select", "where", "expressions"}
    <3>1. /\ Kept(q, T, "expressions") = <<>> /\ Kept(q, T, "select") = <<>>
          /\ Kept(q, T, "from") = <<>> /\ Kept(q, T, "join") = j
          /\ Kept(q, T, "where") = <<>> /\ Kept(q, T, "groupBy") = g
          /\ Kept(q, T, "having") = h /\ Kept(q, T, "order") = o
          /\ Kept(q, T, "union") = u /\ Kept(q, T, "unionOrder") = v
      BY DEF Kept
    <3> HIDE DEF T, e, j, w, g, h, o, u, v
    <3>2. BindingsBut(q, T) = <<>> \o <<>> \o <<>> \o j \o <<>> \o g \o h \o o \o u \o v
      BY <3>1, <2>1, Zenon
    <3> QED BY <3>2 DEF T
  <2> QED BY <2>2, <2>3, <2>4, <2>5
<1>4. Rest(q) = g \o h \o o \o u \o v
  BY RestIs
<1> HIDE DEF e, j, w, g, h, o, u, v
<1>5. /\ e \o <<>> = e /\ <<>> \o j = j /\ <<>> \o w = w /\ j \o <<>> = j /\ <<>> \o <<>> = <<>>
      /\ e \o j \in Text
  BY <1>1, TextConcat, NoText
<1>6. e \o j \o w \in Text /\ j \o w \in Text
  <2>1. e \o j \in Text /\ j \in Text /\ w \in Text
    BY <1>1, <1>5
  <2> QED BY <2>1, TextConcat
<1>7. \A p \in Text : p \o g \o h \o o \o u \o v = p \o Rest(q)
  <2> TAKE p \in Text
  <2>1. AreTexts(p, g, h, o, u, v)
    BY <1>2 DEF AreTexts
  <2>2. p \o g \o h \o o \o u \o v = p \o (g \o h \o o \o u \o v)
    BY <2>1, BeforeFive, SMTT(30)
  <2> QED BY <1>4, <2>2, Zenon
<1>8. BindingsBut(q, {"select"}) = e \o j \o w \o Rest(q)
  <2>1. BindingsBut(q, {"select"}) = (e \o j \o w) \o g \o h \o o \o u \o v
    BY <1>3, <1>5, Zenon
  <2> QED BY <1>6, <1>7, <2>1
<1>9. BindingsBut(q, {"select", "expressions"}) = j \o w \o Rest(q)
  <2>1. BindingsBut(q, {"select", "expressions"}) = (j \o w) \o g \o h \o o \o u \o v
    BY <1>3, <1>5, Zenon
  <2> QED BY <1>6, <1>7, <2>1
<1>10. BindingsBut(q, {"select", "join", "expressions"}) = w \o Rest(q)
  <2>1. BindingsBut(q, {"select", "join", "expressions"}) = w \o g \o h \o o \o u \o v
    BY <1>3, <1>5, Zenon
  <2> QED BY <1>1, <1>7, <2>1
<1>11. BindingsBut(q, {"select", "where", "expressions"}) = j \o Rest(q)
  <2>1. BindingsBut(q, {"select", "where", "expressions"}) = j \o g \o h \o o \o u \o v
    BY <1>3, <1>5, Zenon
  <2> QED BY <1>1, <1>7, <2>1
<1> QED BY <1>8, <1>9, <1>10, <1>11 DEF e, j, w

(* Texts in a row, and what is left over.                                       *)
LEMMA FourAndRest ==
  ASSUME NEW p, NEW a, NEW b, NEW c, NEW r, AreTexts(p, a, b, c, r, r)
  PROVE  LET m == (p \o ((a \o b) \o c)) \o r
         IN /\ (p \o a) \o (b \o (c \o r)) = m
            /\ ((p \o a) \o b) \o (c \o r) = m
            /\ (p \o a) \o ((b \o c) \o r) = m
<1> DEFINE ab == a \o b
           bc == b \o c
           pa == p \o a
           pb == pa \o b
           pc == pb \o c
<1>1. p \in Text
  BY DEF AreTexts
<1>2. ab \in Text /\ p \o ab = pb
  <2>1. a \in Text /\ b \in Text
    BY DEF AreTexts
  <2> QED BY <1>1, <2>1, TextNext
<1>3. pa \in Text
  <2>1. a \in Text
    BY DEF AreTexts
  <2> QED BY <1>1, <2>1, TextConcat
<1>4. bc \in Text /\ pa \o bc = pc
  <2>1. b \in Text /\ c \in Text
    BY DEF AreTexts
  <2> HIDE DEF pa
  <2> QED BY <1>3, <2>1, TextNext
<1>5. p \o (ab \o c) = pc
  <2>1. c \in Text
    BY DEF AreTexts
  <2> HIDE DEF ab, pb
  <2> QED BY <1>1, <1>2, <2>1, TextNext
<1>6. pb \in Text
  <2>1. b \in Text
    BY DEF AreTexts
  <2> HIDE DEF pa
  <2> QED BY <1>3, <2>1, TextConcat
<1> HIDE DEF ab, bc, pa, pb, pc
<1>7. pb \o (c \o r) = pc \o r
  <2>1. c \in Text /\ r \in Text
    BY DEF AreTexts
  <2> QED BY <1>6, <2>1, TextNext DEF pc
<1>8. pa \o (bc \o r) = pc \o r
  <2>1. r \in Text
    BY DEF AreTexts
  <2>2. pa \o (bc \o r) = (pa \o bc) \o r
    BY <1>3, <1>4, <2>1, TextNext
  <2> QED BY <1>4, <2>2, Zenon
<1>9. b \o (c \o r) = bc \o r
  <2>1. b \in Text /\ c \in Text /\ r \in Text
    BY DEF AreTexts
  <2> QED BY <2>1, TextNext DEF bc
<1> QED BY <1>5, <1>7, <1>8, <1>9, Zenon DEF ab, bc, pa, pb

(* Texts around the values of an update.                                        *)
LEMMA CleanAround ==
  ASSUME NEW p, p \in Text, NEW r, r \in Text, NEW s, s \in Seq(Nat)
  PROVE  Clean(p \o s \o r) = p \o Clean(s) \o r /\ Clean(s \o r) = Clean(s) \o r
<1>1. p \in Seq(Nat) /\ r \in Seq(Nat)
  BY DEF Text, Number
<1>2. p \o s \in Seq(Nat)
  BY <1>1
<1>3. Clean(p) = p /\ Clean(r) = r
  BY CleanText
<1>4. Clean(p \o s) = Clean(p) \o Clean(s)
  BY <1>1, CleanConcat
<1> DEFINE t == p \o s
<1>5. Clean(t \o r) = Clean(t) \o Clean(r)
  <2> HIDE DEF t
  <2>1. t \in Seq(Nat)
    BY <1>2 DEF t
  <2> QED BY <1>1, <2>1, CleanConcat
<1>6. Clean(s \o r) = Clean(s) \o Clean(r)
  BY <1>1, CleanConcat
<1> QED BY <1>3, <1>4, <1>5, <1>6, Zenon

(* The select a write goes through binds all that the query does but its columns. *)
LEMMA WrittenSelect ==
  ASSUME NEW q, Matched(q), q.bindings["from"] = <<>>, OneWith(q)
  PROVE  /\ CompileSelect(SelectsRowid(q)) = BindingsBut(q, {"select"})
         /\ BindingsBut(q, {"select"}) \in Text
<1> DEFINE r == SelectsRowid(q)
<1>1. Matched(r)
  BY SelectsRowidMatched
<1>2. q \in Registry /\ q.bindings \in [TypeNames -> Text] /\ q.from = <<>>
  BY MatchedRegistry DEF Matched
<1>3. \A t \in TypeNames : r.bindings[t] = IF t \in {"select"} THEN <<>> ELSE q.bindings[t]
  BY <1>2 DEF SelectsRowid, Registry, TypeNames
<1>4. /\ r.from = q.from /\ r.expressions = q.expressions
      /\ r.unionExpressions = q.unionExpressions
  BY <1>2 DEF SelectsRowid, Registry
<1> HIDE DEF r
<1>5. Ordinary(r)
  BY <1>2, <1>3, <1>4 DEF Ordinary, FromBoundOnce, OneWith, TypeNames
<1>6. CompileSelect(r) = GetBindings(r)
  BY <1>1, <1>5, SelectAgrees DEF Sent, Agrees
<1>7. GetBindings(r) = BindingsBut(q, {"select"})
  <2>1. \A i \in DOMAIN BindingTypes : BindingTypes[i] \in TypeNames
    BY TheTypes
  <2>2. [i \in DOMAIN BindingTypes |-> r.bindings[BindingTypes[i]]] =
        [i \in DOMAIN BindingTypes |->
           IF BindingTypes[i] \in {"select"} THEN <<>> ELSE q.bindings[BindingTypes[i]]]
    BY <1>3, <2>1
  <2> QED BY <2>2 DEF GetBindings, BindingsBut
<1>8. GetBindings(r) \in Text
  BY <1>1, GetBindingsText, MatchedRegistry
<1> QED BY <1>6, <1>7, <1>8 DEF r

(* What a write that goes through no select leaves over.                        *)
Left(g, q) ==
  BindingsBut(q, (IF OrdersOfWrite(g, q) # <<>> THEN {"order"} ELSE {}) \union WrittenTypes)

(* A query that is written plainly, in a grammar.                               *)
Plainly(g, q) ==
  /\ q.bindings["from"] = <<>> /\ OneWith(q)
  /\ ThroughSelect(g, q) \/ q.unionExpressions = <<>>
  /\ OrdersOfWrite(g, q) # <<>> => q.bindings["groupBy"] = <<>> /\ q.bindings["having"] = <<>>

LEMMA LeftIs ==
  ASSUME NEW q, Matched(q), NEW g, Plainly(g, q)
  PROVE  /\ Rest(q) = OrdersOfWrite(g, q) \o Left(g, q)
         /\ OrdersOfWrite(g, q) \in Text /\ Left(g, q) \in Text
         /\ q.joins # <<>> => OrdersOfWrite(g, q) = <<>>
<1> DEFINE w == OrdersOfWrite(g, q)
           h == q.bindings["groupBy"]
           k == q.bindings["having"]
           o == q.bindings["order"]
           u == q.bindings["union"]
           v == q.bindings["unionOrder"]
<1>1. /\ w \in {<<>>, o}
      /\ q.joins # <<>> => w = <<>>
  BY DEF OrdersOfWrite, CompileOrders, Matched
<1>2. h \in Text /\ k \in Text /\ o \in Text /\ u \in Text /\ v \in Text
  BY MatchedRegistry DEF TypeNames
<1>3. CASE w = <<>>
  <2>1. Left(g, q) = Rest(q)
    <3>1. {} \union WrittenTypes = WrittenTypes
      OBVIOUS
    <3> QED BY <1>3, <3>1 DEF Left, Rest
  <2> QED BY <1>1, <1>3, <2>1, RestIs, NoText, TextConcat
<1>4. CASE w # <<>>
  <2>1. w = o /\ h = <<>> /\ k = <<>>
    BY <1>1, <1>4 DEF Plainly
  <2> DEFINE T == {"order"} \union WrittenTypes
  <2>2. Left(g, q) = BindingsBut(q, T)
    BY <1>4 DEF Left
  <2>3. /\ Kept(q, T, "expressions") = <<>> /\ Kept(q, T, "select") = <<>>
        /\ Kept(q, T, "from") = <<>> /\ Kept(q, T, "join") = <<>>
        /\ Kept(q, T, "where") = <<>> /\ Kept(q, T, "groupBy") = <<>>
        /\ Kept(q, T, "having") = <<>> /\ Kept(q, T, "order") = <<>>
        /\ Kept(q, T, "union") = u /\ Kept(q, T, "unionOrder") = v
    BY <2>1 DEF Kept, WrittenTypes
  <2>4. BindingsBut(q, T) =
           Kept(q, T, "expressions") \o Kept(q, T, "select") \o Kept(q, T, "from")
             \o Kept(q, T, "join") \o Kept(q, T, "where") \o Kept(q, T, "groupBy")
             \o Kept(q, T, "having") \o Kept(q, T, "order") \o Kept(q, T, "union")
             \o Kept(q, T, "unionOrder")
    BY MatchedRegistry, BindingsButIs
  <2>5. Rest(q) = h \o k \o o \o u \o v
    BY RestIs
  <2> HIDE DEF T, w, h, k, o, u, v
  <2>6. <<>> \o <<>> = <<>> /\ <<>> \o u = u /\ <<>> \o o = o
    BY <1>2, NoText, TextConcat
  <2>7. BindingsBut(q, T) = u \o v
    BY <2>3, <2>4, <2>6, Zenon
  <2>8. Rest(q) = o \o u \o v
    BY <2>1, <2>5, <2>6, Zenon
  <2>9. u \o v \in Text /\ o \o (u \o v) = o \o u \o v
    <3>1. o \in Text /\ u \in Text /\ v \in Text
      BY <1>2
    <3> QED BY <3>1, TextNext
  <2>10. Rest(q) = w \o Left(g, q) /\ Left(g, q) \in Text
    BY <2>1, <2>2, <2>7, <2>8, <2>9, Zenon
  <2>11. w \in Text
    BY <1>2, <2>1
  <2> QED BY <1>1, <2>10, <2>11 DEF w
<1> QED BY <1>3, <1>4

(* The texts of the clauses of a write.                                         *)
LEMMA WriteTexts ==
  ASSUME NEW q, Matched(q), NEW g, Plainly(g, q)
  PROVE  /\ q.bindings["expressions"] \in Text /\ CompileJoins(q.joins) \in Text
         /\ CompileWheres(q.wheres) \in Text /\ q.from = <<>>
         /\ q.bindings["join"] = CompileJoins(q.joins)
         /\ q.bindings["where"] = CompileWheres(q.wheres)
         /\ q.joins = <<>> => CompileJoins(q.joins) = <<>>
         /\ q.unionExpressions = <<>> =>
              CompileExpressions(q.expressions) = q.bindings["expressions"]
<1>1. q.bindings["expressions"] \in Text
  BY MatchedRegistry DEF TypeNames
<1>2. CompileJoins(q.joins) \in Text /\ CompileWheres(q.wheres) \in Text
  BY ClauseTexts
<1>3. ASSUME q.unionExpressions = <<>>
      PROVE  CompileExpressions(q.expressions) = q.bindings["expressions"]
  <2>1. q.bindings["expressions"] = FlattenSeq(q.expressions) \o <<>>
    BY <1>3, NoText DEF Matched
  <2>2. FlattenSeq(q.expressions) \in Text
    BY ClauseTexts
  <2> QED BY <2>1, <2>2, TextConcat DEF CompileExpressions
<1> QED BY <1>1, <1>2, <1>3, NoClauses DEF Matched, Plainly

(* An update binds its text, wherever the grammar puts the values.              *)
LEMMA UpdateBinds ==
  ASSUME NEW q, Matched(q), NEW g \in Grammars, Plainly(g, q), NEW values \in Updates,
         KeysFound(values)
  PROVE  Clean(PrepareBindingsForUpdate(g, q, values)) =
           CompileUpdate(g, q, values) \o (IF ThroughSelect(g, q) THEN <<>> ELSE Left(g, q))
<1> DEFINE m == PrepareValuesForMerge(g, values)
           s == CompileUpdateColumns(g, values)
           e == q.bindings["expressions"]
           j == CompileJoins(q.joins)
           w == CompileWheres(q.wheres)
           o == OrdersOfWrite(g, q)
           l == Left(g, q)
           b == PrepareBindingsForUpdate(g, q, values)
           t == CompileUpdate(g, q, values)
<1>1. m \in Seq(Nat) /\ s \in Text /\ Clean(m) = s
  BY MergedIs
<1>2. /\ e \in Text /\ j \in Text /\ w \in Text
      /\ q.from = <<>> /\ (q.joins = <<>> => j = <<>>)
  BY WriteTexts
<1>3. o \in Text /\ l \in Text /\ (q.joins # <<>> => o = <<>>) /\ Rest(q) = o \o l
  BY LeftIs
<1>4. <<>> \o s = s /\ s \o <<>> = s /\ <<>> \o j = j
  BY <1>1, <1>2, TextConcat
<1>5. CASE ThroughSelect(g, q)
  <2> DEFINE r == BindingsBut(q, {"select"})
  <2>1. CompileSelect(SelectsRowid(q)) = r /\ r \in Text
    BY WrittenSelect DEF Plainly
  <2>2. b = m \o r /\ t = q.from \o s \o CompileSelect(SelectsRowid(q))
    BY <1>5 DEF PrepareBindingsForUpdate, CompileUpdate
  <2> HIDE DEF m, s, r, b, t
  <2>3. Clean(m \o r) = Clean(m) \o r
    BY <1>1, <2>1, CleanAround
  <2>4. s \o r \in Text /\ (s \o r) \o <<>> = s \o r
    BY <1>1, <2>1, TextConcat
  <2>5. t = s \o r
    BY <1>2, <1>4, <2>1, <2>2, Zenon
  <2>6. Clean(b) = t \o <<>>
    BY <1>1, <2>2, <2>3, <2>4, <2>5, Zenon
  <2> QED BY <1>5, <2>6 DEF b, t
<1>6. CASE ~ThroughSelect(g, q)
  <2> SUFFICES Clean(b) = t \o l
    BY <1>6
  <2>1. CompileExpressions(q.expressions) = e
    BY <1>6, WriteTexts DEF Plainly
  <2>2. /\ BindingsBut(q, {"select", "expressions"}) = j \o w \o Rest(q)
        /\ BindingsBut(q, {"select", "join", "expressions"}) = w \o Rest(q)
    BY BindingsOfWrites, WriteTexts DEF Plainly
  <2>3. b = IF g = "mysql" THEN (e \o j) \o m \o (w \o Rest(q))
                           ELSE e \o m \o (j \o w \o Rest(q))
    <3>1. q.bindings["join"] = j
      BY WriteTexts
    <3> QED BY <1>6, <2>2, <3>1 DEF PrepareBindingsForUpdate
  <2>4. t = e \o (IF q.joins = <<>> THEN <<>> \o s \o w \o o
                  ELSE IF g = "sqlserver" THEN s \o <<>> \o j \o w
                  ELSE <<>> \o j \o s \o w)
    BY <1>2, <1>6, <2>1 DEF CompileUpdate
  <2>5. Rest(q) \in Text
    BY RestIs
  <2> HIDE DEF m, s, e, j, w, o, l, b, t
  <2>6. e \o j \in Text /\ w \o Rest(q) \in Text
    BY <1>2, <2>5, TextConcat
  <2>7. j \o w \o Rest(q) \in Text
    <3>1. j \in Text /\ w \in Text
      BY <1>2
    <3> QED BY <2>5, <3>1, TextConcat
  <2>8. Clean(b) = IF g = "mysql" THEN (e \o j) \o s \o (w \o Rest(q))
                                  ELSE e \o s \o (j \o w \o Rest(q))
    <3> DEFINE ej == e \o j
               wr == w \o Rest(q)
               jr == j \o w \o Rest(q)
    <3>1. ej \in Text /\ wr \in Text /\ jr \in Text /\ e \in Text
      BY <1>2, <2>6, <2>7
    <3>2. b = IF g = "mysql" THEN ej \o m \o wr ELSE e \o m \o jr
      BY <2>3
    <3> HIDE DEF ej, wr, jr
    <3>3. Clean(ej \o m \o wr) = ej \o Clean(m) \o wr
      <4>1. ej \in Text /\ wr \in Text /\ m \in Seq(Nat)
        BY <1>1, <3>1
      <4> QED BY <4>1, CleanAround
    <3>4. Clean(e \o m \o jr) = e \o Clean(m) \o jr
      <4>1. e \in Text /\ jr \in Text /\ m \in Seq(Nat)
        BY <1>1, <3>1
      <4> QED BY <4>1, CleanAround
    <3>5. Clean(b) = IF g = "mysql" THEN ej \o s \o wr ELSE e \o s \o jr
      BY <1>1, <3>2, <3>3, <3>4
    <3> QED BY <3>5 DEF ej, wr, jr
  <2>9. CASE q.joins = <<>>
    <3>1. j = <<>> /\ e \o <<>> = e /\ <<>> \o w = w
      BY <1>2, <2>9, TextConcat
    <3>2. Clean(b) = e \o s \o (w \o (o \o l))
      BY <1>3, <2>8, <3>1
    <3>3. t = e \o (s \o w \o o)
      BY <1>4, <2>4, <2>9
    <3>4. AreTexts(e, s, w, o, l, l)
      BY <1>1, <1>2, <1>3 DEF AreTexts
    <3>5. e \o s \o (w \o (o \o l)) = (e \o (s \o w \o o)) \o l
      BY <3>4, FourAndRest
    <3> QED BY <3>2, <3>3, <3>5, Zenon
  <2>10. CASE q.joins # <<>>
    <3>1. Rest(q) = l
      BY <1>3, <2>10, TextConcat
    <3>2. CASE g = "mysql"
      <4>1. Clean(b) = (e \o j) \o s \o (w \o l)
        BY <2>8, <3>1, <3>2
      <4>2. t = e \o (j \o s \o w)
        BY <1>4, <2>4, <2>10, <3>2
      <4>3. AreTexts(e, j, s, w, l, l)
        BY <1>1, <1>2, <1>3 DEF AreTexts
      <4>4. (e \o j) \o s \o (w \o l) = (e \o (j \o s \o w)) \o l
        BY <4>3, FourAndRest, SMTT(30)
      <4> QED BY <4>1, <4>2, <4>4, Zenon
    <3>3. CASE g # "mysql"
      <4>1. g = "sqlserver"
        BY <1>6, <2>10, <3>3 DEF ThroughSelect, Grammars
      <4>2. Clean(b) = e \o s \o (j \o w \o l)
        BY <2>8, <3>1, <3>3
      <4>3. t = e \o (s \o j \o w)
        BY <1>4, <2>4, <2>10, <4>1
      <4>4. AreTexts(e, s, j, w, l, l)
        BY <1>1, <1>2, <1>3 DEF AreTexts
      <4>5. e \o s \o (j \o w \o l) = (e \o (s \o j \o w)) \o l
        BY <4>4, FourAndRest
      <4> QED BY <4>2, <4>3, <4>5, Zenon
    <3> QED BY <3>2, <3>3
  <2> QED BY <2>9, <2>10
<1> QED BY <1>5, <1>6

(* An update with a key that is not found binds undefined, its text does not.     *)
LEMMA UpdateLoses ==
  ASSUME NEW q, Matched(q), NEW g, Plainly(g, q), NEW values \in Updates,
         ~KeysFound(values)
  PROVE  /\ Clean(PrepareBindingsForUpdate(g, q, values)) \notin Text
         /\ CompileUpdate(g, q, values) \in Text
<1> DEFINE m == PrepareValuesForMerge(g, values)
           s == CompileUpdateColumns(g, values)
           e == q.bindings["expressions"]
           j == CompileJoins(q.joins)
           w == CompileWheres(q.wheres)
           o == OrdersOfWrite(g, q)
           r == BindingsBut(q, {"select"})
           jr == BindingsBut(q, {"select", "expressions"})
           wr == BindingsBut(q, {"select", "join", "expressions"})
           b == PrepareBindingsForUpdate(g, q, values)
           t == CompileUpdate(g, q, values)
<1>1. Holding(m) /\ s \in Text
  BY MergedIs
<1>2. /\ e \in Text /\ j \in Text /\ w \in Text
      /\ q.from = <<>> /\ q.bindings["join"] = j
  BY WriteTexts
<1>3. o \in Text
  BY LeftIs
<1>4. CompileSelect(SelectsRowid(q)) = r /\ r \in Text
  BY WrittenSelect DEF Plainly
<1>5. ~ThroughSelect(g, q) => jr \in Text /\ wr \in Text
  <2> SUFFICES ASSUME ~ThroughSelect(g, q) PROVE jr \in Text /\ wr \in Text
    OBVIOUS
  <2>1. jr = j \o w \o Rest(q) /\ wr = w \o Rest(q)
    BY BindingsOfWrites, WriteTexts DEF Plainly
  <2>2. Rest(q) \in Text
    BY RestIs
  <2> HIDE DEF j, w, jr, wr
  <2>3. j \o w \in Text
    BY <1>2, TextConcat
  <2> DEFINE jw == j \o w
  <2>4. jw \in Text /\ jr = jw \o Rest(q)
    BY <2>1, <2>3
  <2> HIDE DEF jw
  <2> QED BY <1>2, <2>1, <2>2, <2>4, TextConcat
<1>6. ~ThroughSelect(g, q) => CompileExpressions(q.expressions) = e
  BY WriteTexts DEF Plainly
<1>7. b = IF ThroughSelect(g, q) THEN m \o r
          ELSE IF g = "mysql" THEN e \o j \o m \o wr ELSE e \o m \o jr
  BY <1>2 DEF PrepareBindingsForUpdate
<1>8. t = IF ThroughSelect(g, q) THEN <<>> \o s \o r
          ELSE e \o (IF q.joins = <<>> THEN <<>> \o s \o w \o o
                     ELSE IF g = "sqlserver" THEN s \o <<>> \o j \o w
                     ELSE <<>> \o j \o s \o w)
  BY <1>2, <1>4, <1>6 DEF CompileUpdate
<1> HIDE DEF m, s, e, j, w, o, r, jr, wr, b, t
<1>9. \A x \in Text : x \in Seq(Int)
  BY DEF Text, Number
<1>10. Holding(b)
  <2>1. \A x, y : Holding(x) /\ y \in Text => Holding(x \o y) /\ Holding(y \o x)
    BY <1>9, HoldingJoined
  <2>2. e \o j \in Text
    BY <1>2, TextConcat
  <2> DEFINE ej == e \o j
             em == e \o m
             ejm == ej \o m
  <2>3. ej \in Text /\ Holding(m) /\ e \in Text
    BY <1>1, <1>2, <2>2
  <2> HIDE DEF ej
  <2>4. Holding(em) /\ Holding(ejm)
    BY <2>1, <2>3
  <2> HIDE DEF em, ejm
  <2>5. CASE ThroughSelect(g, q)
    BY <1>1, <1>4, <1>7, <2>1, <2>5
  <2>6. CASE ~ThroughSelect(g, q)
    <3>1. jr \in Text /\ wr \in Text
      BY <1>5, <2>6
    <3>2. Holding(em \o jr) /\ Holding(ejm \o wr)
      BY <2>1, <2>4, <3>1
    <3> QED BY <1>7, <2>6, <3>2 DEF ej, em, ejm
  <2> QED BY <2>5, <2>6
<1>11. t \in Text
  <2>1. \A x, y \in Text : x \o y \in Text
    BY TextConcat
  <2>2. <<>> \in Text
    BY NoText
  <2>3. /\ <<>> \o s \in Text /\ s \o <<>> \in Text /\ <<>> \o j \in Text
    BY <1>1, <1>2, <2>1, <2>2
  <2>4. /\ <<>> \o s \o r \in Text /\ <<>> \o s \o w \in Text
        /\ s \o <<>> \o j \in Text /\ <<>> \o j \o s \in Text
    BY <1>1, <1>2, <1>4, <2>1, <2>3
  <2>5. /\ <<>> \o s \o w \o o \in Text
        /\ s \o <<>> \o j \o w \in Text /\ <<>> \o j \o s \o w \in Text
    BY <1>2, <1>3, <2>1, <2>4
  <2>6. /\ e \o (<<>> \o s \o w \o o) \in Text
        /\ e \o (s \o <<>> \o j \o w) \in Text /\ e \o (<<>> \o j \o s \o w) \in Text
    BY <1>2, <2>1, <2>5
  <2> QED BY <1>8, <2>4, <2>6
<1>12. Clean(b) \notin Text
  BY <1>10, HoldingCleaned
<1> QED BY <1>11, <1>12 DEF b, t

(* So does a delete, which has no values of its own.                            *)
LEMMA DeleteBinds ==
  ASSUME NEW q, Matched(q), NEW g, Plainly(g, q)
  PROVE  Clean(PrepareBindingsForDelete(q)) =
           CompileDelete(g, q) \o (IF ThroughSelect(g, q) THEN <<>> ELSE Left(g, q))
<1> DEFINE e == q.bindings["expressions"]
           j == CompileJoins(q.joins)
           w == CompileWheres(q.wheres)
           o == OrdersOfWrite(g, q)
           l == Left(g, q)
           r == BindingsBut(q, {"select"})
           t == CompileDelete(g, q)
<1>1. CompileSelect(SelectsRowid(q)) = r /\ r \in Text
  BY WrittenSelect DEF Plainly
<1>2. /\ e \in Text /\ j \in Text /\ w \in Text
      /\ q.from = <<>> /\ q.bindings["join"] = j /\ q.bindings["where"] = w
  BY WriteTexts
<1>3. o \in Text /\ l \in Text /\ Rest(q) = o \o l
  BY LeftIs
<1>4. Clean(PrepareBindingsForDelete(q)) = r
  BY <1>1, CleanText DEF PrepareBindingsForDelete
<1>5. CASE ThroughSelect(g, q)
  <2>1. t = <<>> \o r
    BY <1>1, <1>2, <1>5 DEF CompileDelete
  <2> HIDE DEF r, t
  <2>2. r = t \o <<>>
    BY <1>1, <2>1, TextConcat
  <2> QED BY <1>4, <1>5, <2>2 DEF t
<1>6. CASE ~ThroughSelect(g, q)
  <2>1. t = e \o <<>> \o j \o w \o o
    BY <1>2, <1>6, WriteTexts DEF CompileDelete, Plainly
  <2>2. r = e \o j \o w \o (o \o l)
    BY <1>2, <1>3, BindingsOfWrites DEF Plainly
  <2> HIDE DEF e, j, w, o, l, r, t
  <2>3. e \o <<>> = e
    BY <1>2, TextConcat
  <2>4. e \o j \o w \in Text
    <3>1. e \o j \in Text
      <4>1. e \in Text /\ j \in Text
        BY <1>2
      <4> QED BY <4>1, TextConcat
    <3>2. w \in Text
      BY <1>2
    <3> QED BY <3>1, <3>2, TextConcat
  <2>5. (e \o j \o w) \o (o \o l) = (e \o j \o w \o o) \o l
    <3> DEFINE p == e \o j \o w
    <3>1. p \in Text /\ o \in Text /\ l \in Text
      BY <1>3, <2>4
    <3> HIDE DEF p
    <3>2. p \o (o \o l) = (p \o o) \o l
      BY <3>1, TextNext
    <3> QED BY <3>2 DEF p
  <2>6. r = t \o l
    BY <2>1, <2>2, <2>3, <2>5, Zenon
  <2> QED BY <1>4, <1>6, <2>6 DEF l, t
<1> QED BY <1>5, <1>6

(* Postgres' update from the tables of its joins puts their conditions last.     *)
LEMMA UpdateFromBinds ==
  ASSUME NEW q, Matched(q), Plainly("postgres", q), q.unionExpressions = <<>>,
         \A i \in DOMAIN q.joins : q.joins[i].table = <<>> /\ q.joins[i].joins = <<>>,
         NEW values \in Updates, KeysFound(values)
  PROVE  Clean(PrepareBindingsForUpdateFrom(q, values)) = CompileUpdateFrom(q, values) \o Rest(q)
<1> DEFINE m == PrepareValuesForMerge("postgres", values)
           s == CompileUpdateColumns("postgres", values)
           e == q.bindings["expressions"]
           j == CompileJoins(q.joins)
           w == CompileWheres(q.wheres)
           b == PrepareBindingsForUpdateFrom(q, values)
           t == CompileUpdateFrom(q, values)
<1>1. m \in Seq(Nat) /\ s \in Text /\ Clean(m) = s
  BY MergedIs
<1>2. /\ e \in Text /\ j \in Text /\ w \in Text /\ q.from = <<>>
      /\ q.bindings["join"] = j /\ q.bindings["where"] = w
      /\ CompileExpressions(q.expressions) = e
  BY WriteTexts
<1>3. q.joins \in Seq(Joins) /\ DOMAIN q.joins = 1 .. Len(q.joins) /\ Len(q.joins) \in Nat
  <2>1. q.joins \in Seq(Joins)
    BY MatchedRegistry DEF Registry
  <2> QED BY <2>1
<1>4. \A i \in DOMAIN q.joins : q.joins[i].wheres \in Text
  <2>1. \A i \in DOMAIN q.joins : q.joins[i] \in Joins
    BY <1>3
  <2> QED BY <2>1 DEF Joins
<1>5. Texts(LAMBDA c : c.table, q.joins) = <<>>
  <2> DEFINE L == [i \in DOMAIN q.joins |-> q.joins[i].table]
  <2>1. L \in [1 .. Len(q.joins) -> Text] /\ \A i \in DOMAIN L : L[i] = <<>>
    BY <1>3, NoText
  <2>2. Texts(LAMBDA c : c.table, q.joins) = FlattenSeq(L)
    BY DEF Texts
  <2> HIDE DEF L
  <2>3. L \in Seq(Text)
    BY <1>3, <2>1, SequenceFrom
  <2> QED BY <2>1, <2>2, <2>3, FlattenNothing
<1>6. Texts(LAMBDA c : c.wheres, q.joins) = j
  <2>1. \A i \in DOMAIN q.joins :
          q.joins[i].table \o q.joins[i].joins \o q.joins[i].wheres = q.joins[i].wheres
    BY <1>4, NoText, TextConcat
  <2>2. [i \in DOMAIN q.joins |-> q.joins[i].table \o q.joins[i].joins \o q.joins[i].wheres]
          = [i \in DOMAIN q.joins |-> q.joins[i].wheres]
    BY <2>1
  <2> QED BY <2>2 DEF Texts, CompileJoins
<1>7. t = e \o <<>> \o s \o <<>> \o w \o j
  BY <1>2, <1>5, <1>6 DEF CompileUpdateFrom
<1>8. b = e \o m \o w \o (j \o Rest(q))
  BY <1>2, BindingsOfWrites DEF PrepareBindingsForUpdateFrom, Plainly
<1>9. Rest(q) \in Text
  BY RestIs
<1> HIDE DEF m, s, e, j, w, b, t
<1>10. e \o <<>> = e /\ e \o s \in Text
  <2>1. e \in Text /\ s \in Text
    BY <1>1, <1>2
  <2> QED BY <2>1, TextConcat
<1> DEFINE es == e \o s
           jr == j \o Rest(q)
<1>11. es \o <<>> = es /\ jr \in Text /\ w \o jr \in Text /\ es \in Text
  <2>1. jr \in Text
    <3>1. j \in Text
      BY <1>2
    <3> QED BY <1>9, <3>1, TextConcat
  <2> HIDE DEF jr
  <2>2. w \o jr \in Text
    <3>1. w \in Text
      BY <1>2
    <3> QED BY <2>1, <3>1, TextConcat
  <2>3. es \in Text
    BY <1>10
  <2> HIDE DEF es
  <2>4. es \o <<>> = es
    BY <2>3, TextConcat
  <2> QED BY <2>1, <2>2, <2>3, <2>4
<1>12. Clean(b) = es \o (w \o jr)
  <2> DEFINE wr == w \o jr
             em == e \o m
  <2>1. e \in Text /\ wr \in Text /\ m \in Seq(Nat)
    BY <1>1, <1>2, <1>11
  <2>2. em \o w \o jr = em \o wr
    <3>1. em \in Seq(Nat) /\ w \in Seq(Nat) /\ jr \in Seq(Nat)
      <4>1. \A x \in Text : x \in Seq(Nat)
        BY DEF Text, Number
      <4>2. e \in Seq(Nat) /\ w \in Seq(Nat) /\ jr \in Seq(Nat)
        BY <1>2, <1>11, <4>1
      <4> HIDE DEF jr
      <4> QED BY <1>1, <4>2
    <3> HIDE DEF em, jr
    <3>2. em \o (w \o jr) = (em \o w) \o jr
      BY <3>1, NatsAssoc
    <3> QED BY <3>2 DEF wr
  <2> HIDE DEF wr, jr
  <2>3. Clean(e \o m \o wr) = e \o Clean(m) \o wr
    BY <2>1, CleanAround
  <2>4. b = em \o w \o jr
    BY <1>8 DEF jr
  <2>5. Clean(b) = e \o s \o wr
    BY <1>1, <2>2, <2>3, <2>4, Zenon
  <2> QED BY <2>5 DEF wr
<1>13. t = es \o w \o j
  BY <1>7, <1>10, <1>11, Zenon
<1>14. es \o (w \o jr) = (es \o w \o j) \o Rest(q)
  <2>1. w \o jr = (w \o j) \o Rest(q)
    <3>1. w \in Text /\ j \in Text
      BY <1>2
    <3> QED BY <1>9, <3>1, TextNext
  <2>2. w \o j \in Text /\ es \o (w \o j) = es \o w \o j
    <3>1. w \in Text /\ j \in Text /\ es \in Text
      BY <1>2, <1>11
    <3> HIDE DEF es
    <3> QED BY <3>1, TextNext
  <2> DEFINE wj == w \o j
  <2>3. wj \in Text
    BY <2>2
  <2> HIDE DEF wj, es, jr
  <2>4. es \o (wj \o Rest(q)) = (es \o wj) \o Rest(q)
    <3>1. es \in Text
      BY <1>11
    <3> QED BY <1>9, <2>3, <3>1, TextNext
  <2> QED BY <2>1, <2>2, <2>4, Zenon DEF wj
<1> QED BY <1>12, <1>13, <1>14, Zenon DEF b, t

LEMMA UpdateFromLoses ==
  ASSUME NEW q, Matched(q), Plainly("postgres", q), q.unionExpressions = <<>>,
         \A i \in DOMAIN q.joins : q.joins[i].table = <<>> /\ q.joins[i].joins = <<>>,
         NEW values \in Updates, ~KeysFound(values)
  PROVE  /\ Clean(PrepareBindingsForUpdateFrom(q, values)) \notin Text
         /\ CompileUpdateFrom(q, values) \in Text
<1> DEFINE m == PrepareValuesForMerge("postgres", values)
           s == CompileUpdateColumns("postgres", values)
           e == q.bindings["expressions"]
           w == CompileWheres(q.wheres)
           J == Texts(LAMBDA c : c.table, q.joins)
           K == Texts(LAMBDA c : c.wheres, q.joins)
           r == BindingsBut(q, {"select", "where", "expressions"})
           b == PrepareBindingsForUpdateFrom(q, values)
           t == CompileUpdateFrom(q, values)
<1>1. Holding(m) /\ s \in Text
  BY MergedIs
<1>2. /\ e \in Text /\ w \in Text /\ q.from = <<>>
      /\ q.bindings["where"] = w /\ CompileExpressions(q.expressions) = e
  BY WriteTexts
<1>3. r \in Text
  <2>1. r = CompileJoins(q.joins) \o Rest(q)
    BY BindingsOfWrites, WriteTexts DEF Plainly
  <2>2. CompileJoins(q.joins) \in Text /\ Rest(q) \in Text
    BY WriteTexts, RestIs
  <2> QED BY <2>1, <2>2, TextConcat
<1>4. J \in Text /\ K \in Text
  <2> DEFINE A == [i \in DOMAIN q.joins |-> q.joins[i].table]
             B == [i \in DOMAIN q.joins |-> q.joins[i].wheres]
             n == Len(q.joins)
  <2>1. q.joins \in Seq(Joins)
    BY MatchedRegistry DEF Registry
  <2>2. n \in Nat /\ DOMAIN q.joins = 1 .. n /\ \A i \in DOMAIN q.joins : q.joins[i] \in Joins
    BY <2>1
  <2> HIDE DEF n
  <2>3. A \in [1 .. n -> Text] /\ B \in [1 .. n -> Text]
    BY <2>2 DEF Joins
  <2>4. J = FlattenSeq(A) /\ K = FlattenSeq(B)
    BY DEF Texts
  <2> HIDE DEF A, B, J, K
  <2>5. A \in Seq(Text) /\ B \in Seq(Text)
    BY <2>2, <2>3, SequenceFrom
  <2> QED BY <2>4, <2>5, NoText, TextAppend
<1>5. b = e \o m \o w \o r
  BY <1>2 DEF PrepareBindingsForUpdateFrom
<1>6. t = e \o <<>> \o s \o J \o w \o K
  BY <1>2 DEF CompileUpdateFrom
<1> HIDE DEF m, s, e, w, J, K, r, b, t
<1>7. Holding(b)
  <2>1. \A x, y : Holding(x) /\ y \in Text => Holding(x \o y) /\ Holding(y \o x)
    <3>1. \A x \in Text : x \in Seq(Int)
      BY DEF Text, Number
    <3> QED BY <3>1, HoldingJoined
  <2>2. Holding(e \o m)
    BY <1>1, <1>2, <2>1
  <2>3. Holding(e \o m \o w)
    BY <1>2, <2>1, <2>2
  <2> QED BY <1>3, <1>5, <2>1, <2>3
<1>8. t \in Text
  <2>1. \A x, y \in Text : x \o y \in Text
    BY TextConcat
  <2>2. e \o <<>> \in Text
    BY <1>2, NoText, <2>1
  <2>3. e \o <<>> \o s \in Text
    BY <1>1, <2>1, <2>2
  <2>4. e \o <<>> \o s \o J \in Text
    BY <1>4, <2>1, <2>3
  <2>5. e \o <<>> \o s \o J \o w \in Text
    BY <1>2, <2>1, <2>4
  <2> QED BY <1>4, <1>6, <2>1, <2>5
<1>9. Clean(b) \notin Text
  BY <1>7, HoldingCleaned
<1> QED BY <1>8, <1>9 DEF b, t

LEMMA InsertUsingBinds ==
  ASSUME NEW q, Matched(q), q.unionExpressions = <<>>, NEW x \in Number
  PROVE  Agrees(InsertUsingSent(q, <<x>>))
<1> DEFINE e == q.bindings["expressions"]
<1>1. e \in Text /\ <<x>> \in Text
  BY MatchedRegistry DEF TypeNames, Text
<1>2. CompileExpressions(q.expressions) = e
  <2>1. e = FlattenSeq(q.expressions) \o <<>>
    BY NoText DEF Matched
  <2>2. FlattenSeq(q.expressions) \in Text
    BY ClauseTexts
  <2> QED BY <2>1, <2>2, TextConcat DEF CompileExpressions
<1>3. InsertUsingSent(q, <<x>>) = [text |-> e \o <<x>>, bindings |-> Clean(e \o <<x>>)]
  BY <1>2 DEF InsertUsingSent, CompileInsertUsing
<1> HIDE DEF e
<1>4. e \o <<x>> \in Text
  <2> DEFINE y == <<x>>
  <2>1. y \in Text
    BY <1>1
  <2> HIDE DEF y
  <2>2. e \o y \in Text
    BY <1>1, <2>1, TextConcat
  <2> QED BY <2>2 DEF y
<1>5. Clean(e \o <<x>>) = e \o <<x>>
  BY <1>4, CleanText
<1> QED BY <1>3, <1>5 DEF Agrees

(* Two keys that differ.                                                         *)
LEMMA PairOnce ==
  ASSUME NEW x \in Entries, NEW y \in Entries,
         x.json \/ y.json \/ x.column # y.column \/ x.table # y.table
  PROVE  <<x, y>> \in Updates
<1> DEFINE s == <<x, y>>
           E == Entries
<1>1. s \in Seq(E) /\ DOMAIN s = {1, 2} /\ s[1] = x /\ s[2] = y
  <2> HIDE DEF E
  <2>1. x \in E /\ y \in E
    BY DEF E
  <2> QED BY <2>1
<1> HIDE DEF s
<1>2. HasJson(s) <=> x.json \/ y.json
  BY <1>1 DEF HasJson
<1>3. KeysOnce(s)
  BY <1>1, <1>2 DEF KeysOnce
<1> QED BY <1>1, <1>3 DEF Updates, s

(* Of three of which at least two are paths.                                     *)
LEMMA TripleOnce ==
  ASSUME NEW x \in Entries, NEW y \in Entries, NEW z \in Entries,
         \/ x.json /\ (y.json \/ z.json)
         \/ ~x.json /\ y.json /\ ~z.json /\ x.column # z.column
  PROVE  <<x, y, z>> \in Updates
<1> DEFINE s == <<x, y, z>>
           E == Entries
<1>1. s \in Seq(E) /\ DOMAIN s = {1, 2, 3} /\ s[1] = x /\ s[2] = y /\ s[3] = z
  <2> HIDE DEF E
  <2>1. x \in E /\ y \in E /\ z \in E
    BY DEF E
  <2> QED BY <2>1
<1> HIDE DEF s
<1>2. KeysOnce(s)
  BY <1>1 DEF KeysOnce
<1> QED BY <1>1, <1>2 DEF Updates, s

LEMMA UpdateValuesAre ==
  ASSUME bound \in Nat
  PROVE  UpdateValues \subseteq Updates
<1> DEFINE v == bound + 2
           w == bound + 3
           u == bound + 4
<1>1. v \in Nat /\ w \in Nat /\ u \in Nat /\ Expression \in Nat
  BY DEF Expression
<1>2. UpdateValues =
        {<<Path(1, "boolean", v), Path(2, "primitive", w), Path(1, "object", u)>>,
         <<Path(2, "primitive", v), Path(1, "primitive", w), Key(1, 1, "object", u)>>,
         <<Key(0, 1, "primitive", v), Path(1, "boolean", w), Key(0, 2, "instance", Expression)>>,
         <<Key(1, 1, "primitive", v), Path(2, "instance", Expression)>>,
         <<Key(1, 1, "instance", Expression), Path(1, "primitive", v)>>,
         IncrementEach(<<Key(1, 1, "boolean", v), Key(2, 1, "object", w)>>)}
  BY DEF UpdateValues
<1> HIDE DEF v, w, u
<1>3. ASSUME NEW is \in {"primitive", "boolean", "object", "instance"},
             NEW n \in Nat, NEW t \in {0, 1, 2}, NEW c \in {1, 2}
      PROVE  /\ Key(t, c, is, n) \in Entries /\ Path(c, is, n) \in Entries
             /\ ~Key(t, c, is, n).json /\ Path(c, is, n).json
             /\ Key(t, c, is, n).column = c /\ Key(t, c, is, n).table = t
  BY DEF Key, Path, Entries
<1>4. IncrementEach(<<Key(1, 1, "boolean", v), Key(2, 1, "object", w)>>) \in Updates
  <2> DEFINE x == Key(0, 1, "instance", Expression)
             y == Key(1, 1, "boolean", v)
             z == Key(2, 1, "object", w)
             E == Entries
             a == <<x>>
             b == <<y, z>>
             s == <<x, y, z>>
  <2>1. x \in E /\ ~x.json /\ x.table = 0
    BY <1>1, <1>3
  <2>2. y \in E /\ ~y.json /\ y.table = 1
    BY <1>1, <1>3
  <2>3. z \in E /\ ~z.json /\ z.table = 2
    BY <1>1, <1>3
  <2>4. IncrementEach(b) = a \o b
    BY DEF IncrementEach
  <2> HIDE DEF x, y, z, E
  <2>5. /\ a \in Seq(E) /\ b \in Seq(E) /\ s \in Seq(E)
        /\ Len(a) = 1 /\ Len(b) = 2 /\ Len(s) = 3 /\ DOMAIN s = {1, 2, 3}
        /\ a[1] = x /\ b[1] = y /\ b[2] = z /\ s[1] = x /\ s[2] = y /\ s[3] = z
    BY <2>1, <2>2, <2>3
  <2> HIDE DEF a, b, s
  <2>6. /\ a \o b \in Seq(E) /\ Len(a \o b) = 3
        /\ (a \o b)[1] = a[1] /\ \A k \in 1 .. 2 : (a \o b)[1 + k] = b[k]
    BY <2>5, ConcatAt, ConcatProperties
  <2>7. (a \o b)[1] = x /\ (a \o b)[2] = y /\ (a \o b)[3] = z
    BY <2>5, <2>6
  <2>8. a \o b = s
    BY <2>5, <2>6, <2>7
  <2>9. KeysOnce(s)
    <3>1. ~HasJson(s)
      BY <2>1, <2>2, <2>3, <2>5 DEF HasJson
    <3> QED BY <2>1, <2>2, <2>3, <2>5, <3>1 DEF KeysOnce
  <2>10. s \in Updates
    BY <2>5, <2>9 DEF Updates, E
  <2> QED BY <2>4, <2>8, <2>10 DEF b, y, z
<1>5. /\ <<Path(1, "boolean", v), Path(2, "primitive", w), Path(1, "object", u)>> \in Updates
      /\ <<Path(2, "primitive", v), Path(1, "primitive", w), Key(1, 1, "object", u)>> \in Updates
  BY <1>1, <1>3, TripleOnce
<1>6. <<Key(0, 1, "primitive", v), Path(1, "boolean", w), Key(0, 2, "instance", Expression)>> \in Updates
  <2> DEFINE x == Key(0, 1, "primitive", v)
             y == Path(1, "boolean", w)
             z == Key(0, 2, "instance", Expression)
  <2>1. x \in Entries /\ ~x.json /\ x.column = 1
    BY <1>1, <1>3
  <2>2. y \in Entries /\ y.json
    BY <1>1, <1>3
  <2>3. z \in Entries /\ ~z.json /\ z.column = 2
    BY <1>1, <1>3
  <2> HIDE DEF x, y, z
  <2>4. <<x, y, z>> \in Updates
    BY <2>1, <2>2, <2>3, TripleOnce
  <2> QED BY <2>4 DEF x, y, z
<1>7. /\ <<Key(1, 1, "primitive", v), Path(2, "instance", Expression)>> \in Updates
      /\ <<Key(1, 1, "instance", Expression), Path(1, "primitive", v)>> \in Updates
  BY <1>1, <1>3, PairOnce
<1> HIDE DEF Updates, IncrementEach, UpdateValues
<1> QED BY <1>2, <1>4, <1>5, <1>6, <1>7, Zenon

(* Any update of a query: see WriteBound, which has the values of UpdateValues.   *)
UpdatesBound ==
  LET q == Applied(query, before)
  IN /\ WritesPlainly(q) =>
          \A values \in Updates :
            WriteAgrees(q, UpdateSent(q, values)) <=> KeysFound(values)
     /\ /\ grammar = "postgres" /\ WritesPlainly(q) /\ q.unionExpressions = <<>>
        /\ \A i \in DOMAIN q.joins : q.joins[i].table = <<>> /\ q.joins[i].joins = <<>>
        => \A values \in Updates :
             LET sent == UpdateFromSent(q, values)
             IN sent.bindings = sent.text \o
                  BindingsBut(q, {"expressions", "select", "from", "join", "where"})
                <=> KeysFound(values)

(* For any plain keys and JSON paths and any values, an update and an updateFrom    *)
(* bind their text in its order exactly when each key with a table beside a path    *)
(* has a value that becomes JSON: combineJsonValues strips the table, and         *)
(* prepareValuesForMerge then finds undefined in its place.                       *)
THEOREM UpdateBindsItsValues == Spec => []UpdatesBound
<1>1. QueryInvariant => UpdatesBound
  <2> DEFINE q == Applied(query, before)
  <2> SUFFICES ASSUME QueryInvariant
               PROVE  /\ WritesPlainly(q) =>
                           \A values \in Updates :
                             WriteAgrees(q, UpdateSent(q, values)) <=> KeysFound(values)
                      /\ /\ grammar = "postgres" /\ WritesPlainly(q) /\ q.unionExpressions = <<>>
                         /\ \A i \in DOMAIN q.joins : q.joins[i].table = <<>> /\ q.joins[i].joins = <<>>
                         => \A values \in Updates :
                              (UpdateFromSent(q, values).bindings =
                                 UpdateFromSent(q, values).text \o Rest(q))
                                <=> KeysFound(values)
    BY DEF UpdatesBound, Rest, WrittenTypes
  <2>1. Matched(q)
    BY AppliedMatched DEF QueryInvariant
  <2> HIDE DEF q
  <2>2. grammar \in Grammars
    BY DEF QueryInvariant
  <2>3. WritesPlainly(q) => Plainly(grammar, q)
    BY DEF WritesPlainly, Plainly, OrderedWrite
  <2>4. \A t, b :
          WriteAgrees(q, [text |-> t, bindings |-> b])
            <=> b = t \o (IF ThroughSelect(grammar, q) THEN <<>> ELSE Left(grammar, q))
    BY DEF WriteAgrees, Unwritten, Left, OrderedWrite, WrittenTypes
  <2>5. ASSUME WritesPlainly(q), NEW values \in Updates
        PROVE  WriteAgrees(q, UpdateSent(q, values)) <=> KeysFound(values)
    <3> DEFINE b == Clean(PrepareBindingsForUpdate(grammar, q, values))
               t == CompileUpdate(grammar, q, values)
               l == IF ThroughSelect(grammar, q) THEN <<>> ELSE Left(grammar, q)
    <3>1. WriteAgrees(q, UpdateSent(q, values)) <=> b = t \o l
      BY <2>4 DEF UpdateSent
    <3>2. KeysFound(values) => b = t \o l
      BY <2>1, <2>2, <2>3, <2>5, UpdateBinds
    <3>3. l \in Text
      BY <2>1, <2>3, <2>5, LeftIs, NoText
    <3>4. ~KeysFound(values) => b \notin Text /\ t \in Text
      BY <2>1, <2>3, <2>5, UpdateLoses
    <3> HIDE DEF b, t, l
    <3>5. ~KeysFound(values) => b # t \o l
      BY <3>3, <3>4, TextConcat
    <3> QED BY <3>1, <3>2, <3>5
  <2>6. ASSUME grammar = "postgres", WritesPlainly(q), q.unionExpressions = <<>>,
               \A i \in DOMAIN q.joins : q.joins[i].table = <<>> /\ q.joins[i].joins = <<>>,
               NEW values \in Updates
        PROVE  (UpdateFromSent(q, values).bindings = UpdateFromSent(q, values).text \o Rest(q))
                 <=> KeysFound(values)
    <3> DEFINE b == Clean(PrepareBindingsForUpdateFrom(q, values))
               t == CompileUpdateFrom(q, values)
    <3>1. UpdateFromSent(q, values) = [text |-> t, bindings |-> b]
      BY DEF UpdateFromSent
    <3>2. KeysFound(values) => b = t \o Rest(q)
      BY <2>1, <2>3, <2>6, UpdateFromBinds
    <3>3. Rest(q) \in Text
      BY <2>1, RestIs
    <3>4. ~KeysFound(values) => b \notin Text /\ t \in Text
      BY <2>1, <2>3, <2>6, UpdateFromLoses
    <3> HIDE DEF b, t
    <3>5. ~KeysFound(values) => b # t \o Rest(q)
      BY <3>3, <3>4, TextConcat
    <3> QED BY <3>1, <3>2, <3>5
  <2> QED BY <2>5, <2>6
<1> QED BY <1>1, QueryMatched, PTL

(* update, updateFrom, delete and insertUsing reorder the bindings                *)
(* (prepareBindingsForUpdate and its kind) as their grammar writes the text: each  *)
(* place has its value, and what is left over is of clauses they do not have. An   *)
(* update or updateFrom does so exactly when all its keys are found.              *)
THEOREM WriteBindsItsPlaces == Spec => []WriteBound
<1>1. QueryInvariant /\ UpdatesBound => WriteBound
  <2> DEFINE q == Applied(query, before)
  <2> SUFFICES ASSUME QueryInvariant, UpdatesBound
               PROVE  WriteBound
    OBVIOUS
  <2>1. Matched(q)
    BY AppliedMatched DEF QueryInvariant
  <2>2. UpdateValues \subseteq Updates
    BY UpdateValuesAre DEF QueryInvariant
  <2>3. WritesPlainly(q) => WriteAgrees(q, DeleteSent(q))
    <3> SUFFICES ASSUME WritesPlainly(q) PROVE WriteAgrees(q, DeleteSent(q))
      OBVIOUS
    <3> HIDE DEF q
    <3>1. Plainly(grammar, q)
      BY DEF WritesPlainly, Plainly, OrderedWrite
    <3>2. Clean(PrepareBindingsForDelete(q)) =
            CompileDelete(grammar, q)
              \o (IF ThroughSelect(grammar, q) THEN <<>> ELSE Left(grammar, q))
      BY <2>1, <3>1, DeleteBinds
    <3> QED BY <3>2 DEF DeleteSent, WriteAgrees, Unwritten, Left, OrderedWrite, WrittenTypes
  <2>4. q.unionExpressions = <<>> => Agrees(InsertUsingSent(q, <<Y>>))
    <3> HIDE DEF q
    <3>1. Y \in Number
      BY DEF Y, Number, QueryInvariant
    <3> QED BY <2>1, <3>1, InsertUsingBinds
  <2> QED BY <2>2, <2>3, <2>4 DEF WriteBound, UpdatesBound
<1> QED BY <1>1, QueryMatched, UpdateBindsItsValues, PTL

-------------------------------------------------------------------------------
(* Rows to insert: columns by the order of their names, and values.              *)
Givens(V) == [column : Nat, value : V]
RowsWith(V) == {row \in Seq(Givens(V)) : IsInjective(Columns(row))}

SortOf(row, s) ==
  /\ ToSet(s) = ToSet(row)
  /\ \A k, l \in DOMAIN row : k < l => s[k].column < s[l].column

(* A row without one of its columns.                                             *)
RowLess(row, m, r) ==
  /\ Len(row) = Len(r) + 1
  /\ ToSet(row) = ToSet(r) \union {row[m]}
  /\ \A k \in 1 .. Len(r) : r[k].column # row[m].column

LEMMA RowLessExists ==
  ASSUME NEW V, NEW row \in RowsWith(V), NEW m \in 1 .. Len(row)
  PROVE  \E r \in RowsWith(V) : RowLess(row, m, r)
<1>1. PICK n \in Nat : Len(row) = n + 1 /\ m \in 1 .. n + 1
  <2>1. Len(row) \in Nat /\ Len(row) # 0
    BY DEF RowsWith
  <2>2. Len(row) - 1 \in Nat /\ Len(row) = (Len(row) - 1) + 1
    BY <2>1
  <2> QED BY <2>2
<1> DEFINE At(k) == IF k < m THEN row[k] ELSE row[k + 1]
           r == [k \in 1 .. n |-> At(k)]
           Old(k) == IF k < m THEN k ELSE k + 1
<1>2. /\ row \in Seq(Givens(V)) /\ DOMAIN row = 1 .. n + 1 /\ m \in 1 .. n + 1
      /\ \A k \in 1 .. n + 1 : row[k] \in Givens(V)
      /\ \A k, l \in 1 .. n + 1 : row[k].column = row[l].column => k = l
  BY <1>1 DEF RowsWith, IsInjective, Columns
<1>3. \A k \in 1 .. n : Old(k) \in 1 .. n + 1 /\ Old(k) # m /\ r[k] = row[Old(k)]
  BY <1>2
<1>4. \A k, l \in 1 .. n : Old(k) = Old(l) => k = l
  BY <1>2
<1>5. \A j \in 1 .. n + 1 : j # m => \E k \in 1 .. n : Old(k) = j
  <2> TAKE j \in 1 .. n + 1
  <2>1. CASE j < m
    <3>1. j \in 1 .. n /\ Old(j) = j
      BY <1>2, <2>1
    <3> QED BY <3>1
  <2>2. CASE m < j
    <3>1. j - 1 \in 1 .. n /\ Old(j - 1) = j
      BY <1>2, <2>2
    <3> QED BY <3>1
  <2>3. j # m => j < m \/ m < j
    BY <1>2
  <2> QED BY <2>1, <2>2, <2>3
<1>6. DOMAIN r = 1 .. n
  OBVIOUS
<1> HIDE DEF r, Old
<1>7. r \in Seq(Givens(V)) /\ Len(r) = n
  <2>1. r \in [1 .. n -> Givens(V)]
    BY <1>2, <1>3 DEF r
  <2> QED BY <2>1
<1>8. IsInjective(Columns(r))
  <2> SUFFICES ASSUME NEW k \in 1 .. n, NEW l \in 1 .. n, r[k].column = r[l].column
               PROVE  k = l
    BY <1>6 DEF IsInjective, Columns
  <2>1. Old(k) = Old(l)
    BY <1>2, <1>3
  <2> QED BY <1>4, <2>1
<1>9. ToSet(row) = ToSet(r) \union {row[m]}
  <2>1. ASSUME NEW x \in ToSet(row) PROVE x \in ToSet(r) \union {row[m]}
    <3>1. PICK j \in 1 .. n + 1 : x = row[j]
      BY <1>2 DEF ToSet
    <3>2. CASE j = m
      BY <3>1, <3>2
    <3>3. CASE j # m
      <4>1. PICK k \in 1 .. n : Old(k) = j
        BY <1>5, <3>3
      <4>2. x = r[k]
        BY <1>3, <3>1, <4>1
      <4> QED BY <1>6, <4>2 DEF ToSet
    <3> QED BY <3>2, <3>3
  <2>2. ASSUME NEW x \in ToSet(r) PROVE x \in ToSet(row)
    <3>1. PICK k \in 1 .. n : x = r[k]
      BY <1>6 DEF ToSet
    <3>2. x = row[Old(k)] /\ Old(k) \in 1 .. n + 1
      BY <1>3, <3>1
    <3> QED BY <1>2, <3>2 DEF ToSet
  <2>3. row[m] \in ToSet(row)
    BY <1>2 DEF ToSet
  <2> QED BY <2>1, <2>2, <2>3
<1>10. \A k \in 1 .. n : r[k].column # row[m].column
  BY <1>2, <1>3
<1> QED BY <1>1, <1>7, <1>8, <1>9, <1>10 DEF RowsWith, RowLess

(* Every row can be sorted.                                                      *)
LEMMA SortExists ==
  ASSUME NEW V, NEW row \in RowsWith(V)
  PROVE  \E s \in [DOMAIN row -> ToSet(row)] : SortOf(row, s)
<1> DEFINE Unsorted(r) == ~ \E s \in [DOMAIN r -> ToSet(r)] : SortOf(r, s)
           B == {n \in Nat : \E r \in RowsWith(V) : Len(r) = n /\ Unsorted(r)}
<1>1. B = {}
  <2> SUFFICES ASSUME B # {} PROVE FALSE
    OBVIOUS
  <2>1. PICK n \in B : \A j \in B : n <= j
    <3>1. B \in SUBSET Nat
      OBVIOUS
    <3> HIDE DEF B
    <3> QED BY <3>1, Least
  <2>2. PICK r \in RowsWith(V) : Len(r) = n /\ Unsorted(r)
    BY <2>1
  <2>3. /\ DOMAIN r = 1 .. n /\ \A k \in 1 .. n : r[k] \in Givens(V)
    BY <2>2 DEF RowsWith
  <2>4. n # 0
    <3> SUFFICES ASSUME n = 0 PROVE FALSE
      OBVIOUS
    <3>1. DOMAIN r = {} /\ ToSet(r) = {}
      BY <2>3 DEF ToSet
    <3>2. r \in [DOMAIN r -> ToSet(r)]
      BY <3>1, <2>2 DEF RowsWith
    <3>3. SortOf(r, r)
      BY <3>1 DEF SortOf
    <3> QED BY <2>2, <3>2, <3>3
  <2>5. PICK p \in Nat : n = p + 1 /\ p \notin B
    <3>1. n - 1 \in Nat /\ n = (n - 1) + 1 /\ ~(n <= n - 1)
      BY <2>1, <2>4
    <3> QED BY <2>1, <3>1
  <2>6. PICK m \in 1 .. n : \A k \in 1 .. n : r[m].column <= r[k].column
    <3> DEFINE C == {r[k].column : k \in 1 .. n}
    <3>1. C \in SUBSET Nat /\ C # {}
      <4>1. 1 \in 1 .. n
        BY <2>5
      <4> QED BY <2>3, <4>1 DEF Givens
    <3>2. PICK c \in C : \A d \in C : c <= d
      <4> HIDE DEF C
      <4> QED BY <3>1, Least
    <3> QED BY <3>2
  <2>7. PICK q \in RowsWith(V) : /\ Len(q) = p
                                 /\ ToSet(r) = ToSet(q) \union {r[m]}
                                 /\ \A k \in 1 .. p : q[k].column # r[m].column
    <3>1. m \in 1 .. Len(r)
      BY <2>2, <2>6
    <3>2. PICK q \in RowsWith(V) : RowLess(r, m, q)
      BY <3>1, RowLessExists
    <3>3. Len(q) \in Nat
      BY DEF RowsWith
    <3>4. Len(q) = p
      BY <2>2, <2>5, <3>2, <3>3 DEF RowLess
    <3> QED BY <3>2, <3>4 DEF RowLess
  <2>8. PICK t \in [DOMAIN q -> ToSet(q)] : SortOf(q, t)
    BY <2>5, <2>7
  <2>9. DOMAIN q = 1 .. p
    BY <2>7 DEF RowsWith
  <2> DEFINE At(k) == IF k = 1 THEN r[m] ELSE t[k - 1]
             s == [k \in 1 .. n |-> At(k)]
  <2>10. \A k \in 1 .. n : k # 1 => k - 1 \in 1 .. p
    BY <2>5
  <2>11. \A k \in 1 .. p : k + 1 \in 1 .. n /\ s[k + 1] = t[k]
    BY <2>5
  <2>12. s \in [DOMAIN r -> ToSet(r)]
    BY <2>3, <2>7, <2>8, <2>9, <2>10
  <2>13. ToSet(s) = ToSet(r)
    <3>1. ASSUME NEW x \in ToSet(r) PROVE x \in ToSet(s)
      <4>1. CASE x = r[m]
        <5>1. 1 \in 1 .. n /\ s[1] = x
          BY <2>5, <4>1
        <5> QED BY <5>1 DEF ToSet
      <4>2. CASE x \in ToSet(q)
        <5>1. x \in ToSet(t)
          BY <2>8, <4>2 DEF SortOf
        <5>2. PICK k \in 1 .. p : x = t[k]
          BY <2>8, <2>9, <5>1 DEF ToSet
        <5> QED BY <2>11, <5>2 DEF ToSet
      <4> QED BY <2>7, <4>1, <4>2
    <3>2. \A x \in ToSet(s) : x \in ToSet(r)
      BY <2>3, <2>12 DEF ToSet
    <3> QED BY <3>1, <3>2
  <2>14. ASSUME NEW k \in 1 .. n, NEW l \in 1 .. n, k < l
         PROVE  s[k].column < s[l].column
    <3>1. l # 1 /\ l - 1 \in 1 .. p /\ s[l] = t[l - 1]
      BY <2>10, <2>14
    <3>2. CASE k = 1
      <4>1. t[l - 1] \in ToSet(q)
        BY <2>8, <2>9, <3>1
      <4>2. PICK j \in 1 .. p : t[l - 1] = q[j]
        BY <2>9, <4>1 DEF ToSet
      <4>3. q[j].column # r[m].column /\ q[j] \in ToSet(r)
        BY <2>7, <2>9, <4>2 DEF ToSet
      <4>4. PICK i \in 1 .. n : q[j] = r[i]
        BY <2>3, <4>3 DEF ToSet
      <4>5. r[m].column <= r[i].column /\ r[m].column \in Nat /\ r[i].column \in Nat
        BY <2>3, <2>6 DEF Givens
      <4> QED BY <3>1, <3>2, <4>2, <4>3, <4>4, <4>5
    <3>3. CASE k # 1
      <4>1. k - 1 \in 1 .. p /\ s[k] = t[k - 1] /\ k - 1 < l - 1
        BY <2>10, <2>14, <3>3
      <4> HIDE DEF s
      <4> QED BY <2>8, <2>9, <3>1, <4>1 DEF SortOf
    <3> QED BY <3>2, <3>3
  <2> HIDE DEF s
  <2>15. SortOf(r, s)
    BY <2>3, <2>13, <2>14 DEF SortOf
  <2> QED BY <2>2, <2>12, <2>15
<1>2. Len(row) \in Nat
  BY DEF RowsWith
<1> QED BY <1>1, <1>2

LEMMA SortedRowIs ==
  ASSUME NEW V, NEW row \in RowsWith(V)
  PROVE  /\ SortedRow(row) \in Seq(Givens(V))
         /\ Len(SortedRow(row)) = Len(row)
         /\ SortOf(row, SortedRow(row))
<1> DEFINE n == Len(row)
<1>1. n \in Nat /\ DOMAIN row = 1 .. n /\ ToSet(row) \subseteq Givens(V)
  BY DEF RowsWith, ToSet
<1>2. /\ SortedRow(row) \in [DOMAIN row -> ToSet(row)]
      /\ SortOf(row, SortedRow(row))
  BY SortExists DEF SortedRow, SortOf
<1>3. SortedRow(row) \in [1 .. n -> Givens(V)]
  BY <1>1, <1>2
<1> HIDE DEF n
<1>4. SortedRow(row) \in Seq(Givens(V)) /\ Len(SortedRow(row)) = n
  BY <1>1, <1>3
<1> QED BY <1>2, <1>4 DEF n

LEMMA NamesOf ==
  ASSUME NEW row, NEW n, DOMAIN row = 1 .. n
  PROVE  ToSet(Columns(row)) = {row[k].column : k \in 1 .. n}
<1> DEFINE c == Columns(row)
<1>1. DOMAIN c = 1 .. n /\ \A k \in 1 .. n : c[k] = row[k].column
  BY DEF Columns
<1> HIDE DEF c
<1>2. ToSet(c) = {c[k] : k \in 1 .. n}
  BY <1>1, Zenon DEF ToSet
<1>3. {c[k] : k \in 1 .. n} = {row[k].column : k \in 1 .. n}
  BY <1>1
<1> QED BY <1>2, <1>3 DEF c

(* Rows of the same columns are written under the same names.                     *)
LEMMA SameNames ==
  ASSUME NEW V, NEW r \in RowsWith(V), NEW t \in RowsWith(V),
         Len(r) = Len(t), ToSet(Columns(r)) = ToSet(Columns(t))
  PROVE  \A k \in 1 .. Len(r) : SortedRow(r)[k].column = SortedRow(t)[k].column
<1> DEFINE n == Len(r)
           f == SortedRow(r)
           g == SortedRow(t)
           B == {k \in 1 .. n : f[k].column # g[k].column}
<1>1. /\ n \in Nat /\ DOMAIN r = 1 .. n /\ DOMAIN t = 1 .. n
      /\ f \in Seq(Givens(V)) /\ g \in Seq(Givens(V)) /\ Len(f) = n /\ Len(g) = n
      /\ SortOf(r, f) /\ SortOf(t, g)
  BY SortedRowIs DEF RowsWith
<1> HIDE DEF f, g
<1>2. /\ DOMAIN f = 1 .. n /\ DOMAIN g = 1 .. n
      /\ \A k \in 1 .. n : f[k].column \in Nat /\ g[k].column \in Nat
  <2>1. \A s \in Seq(Givens(V)) : \A k \in 1 .. Len(s) : s[k] \in Givens(V)
    OBVIOUS
  <2>2. \A k \in 1 .. n : f[k] \in Givens(V) /\ g[k] \in Givens(V)
    BY <1>1, <2>1
  <2>3. DOMAIN f = 1 .. n /\ DOMAIN g = 1 .. n
    BY <1>1
  <2> QED BY <2>2, <2>3 DEF Givens
<1>3. /\ \A k, l \in 1 .. n : k < l => f[k].column < f[l].column
      /\ \A k, l \in 1 .. n : k < l => g[k].column < g[l].column
  BY <1>1 DEF SortOf
<1>4. /\ \A k \in 1 .. n : \E l \in 1 .. n : f[k].column = g[l].column
      /\ \A k \in 1 .. n : \E l \in 1 .. n : g[k].column = f[l].column
  <2>1. /\ ToSet(Columns(r)) = {r[k].column : k \in 1 .. n}
        /\ ToSet(Columns(t)) = {t[k].column : k \in 1 .. n}
    BY <1>1, NamesOf
  <2>2. /\ {r[k] : k \in 1 .. n} = {f[k] : k \in 1 .. n}
        /\ {t[k] : k \in 1 .. n} = {g[k] : k \in 1 .. n}
    <3>1. /\ ToSet(r) = {r[k] : k \in 1 .. n} /\ ToSet(f) = {f[k] : k \in 1 .. n}
          /\ ToSet(t) = {t[k] : k \in 1 .. n} /\ ToSet(g) = {g[k] : k \in 1 .. n}
      BY <1>1, <1>2, Zenon DEF ToSet
    <3> QED BY <1>1, <3>1 DEF SortOf
  <2>3. \A k \in 1 .. n : (\E l \in 1 .. n : r[k] = f[l]) /\ (\E l \in 1 .. n : t[k] = g[l])
    <3> TAKE k \in 1 .. n
    <3>1. r[k] \in {f[l] : l \in 1 .. n} /\ t[k] \in {g[l] : l \in 1 .. n}
      BY <2>2
    <3> QED BY <3>1
  <2>4. \A k \in 1 .. n : (\E l \in 1 .. n : f[k] = r[l]) /\ (\E l \in 1 .. n : g[k] = t[l])
    <3> TAKE k \in 1 .. n
    <3>1. f[k] \in {r[l] : l \in 1 .. n} /\ g[k] \in {t[l] : l \in 1 .. n}
      BY <2>2
    <3> QED BY <3>1
  <2>5. /\ \A k \in 1 .. n : \E l \in 1 .. n : r[k].column = t[l].column
        /\ \A k \in 1 .. n : \E l \in 1 .. n : t[k].column = r[l].column
    <3> HIDE DEF n
    <3>1. \A k \in 1 .. n : r[k].column \in {t[l].column : l \in 1 .. n}
      BY <2>1
    <3>2. \A k \in 1 .. n : t[k].column \in {r[l].column : l \in 1 .. n}
      BY <2>1
    <3> QED BY <3>1, <3>2
  <2>6. \A k \in 1 .. n : \E l \in 1 .. n : f[k].column = g[l].column
    <3> TAKE k \in 1 .. n
    <3>1. PICK a \in 1 .. n : f[k] = r[a]
      BY <2>4
    <3>2. PICK b \in 1 .. n : r[a].column = t[b].column
      BY <2>5
    <3>3. PICK l \in 1 .. n : t[b] = g[l]
      BY <2>3
    <3> QED BY <3>1, <3>2, <3>3
  <2>7. \A k \in 1 .. n : \E l \in 1 .. n : g[k].column = f[l].column
    <3> TAKE k \in 1 .. n
    <3>1. PICK a \in 1 .. n : g[k] = t[a]
      BY <2>4
    <3>2. PICK b \in 1 .. n : t[a].column = r[b].column
      BY <2>5
    <3>3. PICK l \in 1 .. n : r[b] = f[l]
      BY <2>3
    <3> QED BY <3>1, <3>2, <3>3
  <2> QED BY <2>6, <2>7
<1> SUFFICES ASSUME B # {} PROVE FALSE
  BY DEF f, g
<1>5. PICK k \in B : \A j \in B : k <= j
  <2>1. B \in SUBSET Nat
    BY <1>1
  <2> HIDE DEF B
  <2> QED BY <2>1, Least
<1>6. k \in 1 .. n /\ f[k].column # g[k].column
      /\ \A j \in 1 .. n : j < k => f[j].column = g[j].column
  BY <1>1, <1>5
<1>7. CASE f[k].column < g[k].column
  <2>1. PICK l \in 1 .. n : f[k].column = g[l].column
    BY <1>4, <1>6
  <2>2. CASE l < k
    BY <1>2, <1>3, <1>6, <2>1, <2>2
  <2>3. CASE k < l
    BY <1>2, <1>3, <1>6, <1>7, <2>1, <2>3
  <2> QED BY <1>2, <1>6, <1>7, <2>1, <2>2, <2>3
<1>8. CASE g[k].column < f[k].column
  <2>1. PICK l \in 1 .. n : g[k].column = f[l].column
    BY <1>4, <1>6
  <2>2. CASE l < k
    BY <1>2, <1>3, <1>6, <2>1, <2>2
  <2>3. CASE k < l
    BY <1>2, <1>3, <1>6, <1>8, <2>1, <2>3
  <2> QED BY <1>2, <1>6, <1>8, <2>1, <2>2, <2>3
<1> QED BY <1>2, <1>6, <1>7, <1>8

LEMMA Products ==
  ASSUME NEW j \in Nat, NEW n \in Nat, j - 1 \in Nat
  PROVE  (j - 1) * n \in Nat /\ (j - 1) * n + n = j * n
OBVIOUS

LEMMA Multiples ==
  ASSUME NEW i \in Nat, NEW j \in Nat, i < j, NEW n \in Nat, NEW k \in 1 .. n
  PROVE  i * n + k \in 1 .. j * n
<1>1. i * n \in Nat /\ j * n \in Nat
  OBVIOUS
<1>2. i * n + n <= j * n
  <2>1. j * n = (i + 1) * n + (j - i - 1) * n
    OBVIOUS
  <2>2. (j - i - 1) * n >= 0 /\ (i + 1) * n = i * n + n
    OBVIOUS
  <2> QED BY <1>1, <2>1, <2>2
<1> QED BY <1>1, <1>2

(* Texts of one length: the places of the i-th one begin after those of the ones  *)
(* before it.                                                                   *)
OfLength(L, n) == \A i \in 1 .. Len(L) : Len(L[i]) = n
InRows(s, L, m, n) == \A i \in 1 .. m : \A k \in 1 .. n : s[(i - 1) * n + k] = L[i][k]

LEMMA FlattenAt ==
  ASSUME NEW S, NEW n \in Nat, NEW L \in Seq(Seq(S)), OfLength(L, n)
  PROVE  InRows(FlattenSeq(L), L, Len(L), n)
<1>1. CASE L = <<>>
  <2>1. 1 .. Len(L) = {}
    BY <1>1
  <2> QED BY <2>1 DEF InRows
<1>2. CASE L # <<>>
  <2> DEFINE N == Len(L)
  <2>1. PICK f \in [1 .. N -> Seq(S)] : Flattens(f, L, N) /\ FlattenSeq(L) = f[N]
    BY <1>2, FlattenSteps
  <2>2. N \in Nat /\ N # 0 /\ (\A j \in 1 .. N : L[j] \in Seq(S) /\ Len(L[j]) = n)
    BY <1>2, EmptySeq DEF OfLength
  <2> HIDE DEF N
  <2>3. /\ f[1] = L[1]
        /\ \A j \in 1 .. N : j # 1 => j - 1 \in 1 .. N /\ f[j] = f[j - 1] \o L[j]
    <3>1. N >= 1 /\ Flattens(f, L, N)
      BY <2>1, <2>2
    <3>2. f[1] = L[1] /\ \A j \in 2 .. N : f[j] = f[j - 1] \o L[j]
      BY <3>1, Zenon DEF Flattens
    <3>3. \A j \in 1 .. N : j # 1 => j \in 2 .. N /\ j - 1 \in 1 .. N
      BY <2>2
    <3> QED BY <3>2, <3>3
  <2> DEFINE Holds(j) == Len(f[j]) = j * n /\ InRows(f[j], L, j, n)
             B == {j \in 1 .. N : ~Holds(j)}
  <2>4. B = {}
    <3> SUFFICES ASSUME B # {} PROVE FALSE
      OBVIOUS
    <3>1. PICK j \in B : \A i \in B : j <= i
      <4>1. B \in SUBSET Nat
        BY <2>2
      <4> HIDE DEF B
      <4> QED BY <4>1, Least
    <3>2. j # 1
      <4> SUFFICES ASSUME j = 1 PROVE FALSE
        OBVIOUS
      <4>1. Len(f[1]) = 1 * n
        BY <2>2, <2>3, <3>1
      <4>2. \A k \in 1 .. n : (1 - 1) * n + k = k
        OBVIOUS
      <4>3. InRows(f[1], L, 1, n)
        <5> SUFFICES ASSUME NEW i \in 1 .. 1, NEW k \in 1 .. n
                     PROVE  f[1][(i - 1) * n + k] = L[i][k]
          BY DEF InRows
        <5>1. i = 1
          OBVIOUS
        <5> QED BY <2>3, <4>2, <5>1
      <4>4. Holds(1)
        BY <4>1, <4>3
      <4> HIDE DEF Holds
      <4> QED BY <3>1, <4>4
    <3>3. j \in 1 .. N /\ ~Holds(j)
      BY <3>1
    <3>4. j \in Nat /\ j - 1 \in 1 .. N /\ j - 1 \in Nat /\ f[j] = f[j - 1] \o L[j]
      <4> HIDE DEF Holds, B
      <4>1. j - 1 \in 1 .. N /\ f[j] = f[j - 1] \o L[j]
        BY <2>3, <3>2, <3>3, Zenon
      <4>2. j \in Nat
        BY <2>2, <3>3
      <4>3. j - 1 \in Nat
        BY <4>1
      <4> QED BY <4>1, <4>2, <4>3
    <3>5. Holds(j - 1)
      <4>1. j - 1 \notin B
        <5>1. ~(j <= j - 1)
          BY <3>4
        <5> HIDE DEF B
        <5> QED BY <3>1, <5>1
      <4> HIDE DEF Holds
      <4> QED BY <3>4, <4>1
    <3>6. f[j - 1] \in Seq(S) /\ L[j] \in Seq(S) /\ Len(L[j]) = n /\ Len(f[j - 1]) = (j - 1) * n
      BY <2>1, <2>2, <3>3, <3>4, <3>5 DEF Holds
    <3>7. (j - 1) * n \in Nat /\ (j - 1) * n + n = j * n
      <4> HIDE DEF Holds, B
      <4>1. j - 1 < j
        BY <3>4
      <4> QED BY <3>4, <4>1, Products
    <3> HIDE DEF Holds, B
    <3>8. PICK a \in Seq(S), b \in Seq(S) : a = f[j - 1] /\ b = L[j]
      BY <3>6
    <3> DEFINE p == (j - 1) * n
    <3>9. /\ a \in Seq(S) /\ b \in Seq(S) /\ Len(a) = p /\ Len(b) = n /\ p \in Nat
          /\ f[j] = a \o b /\ p + n = j * n
      BY <3>4, <3>6, <3>7, <3>8
    <3> HIDE DEF p
    <3>10. /\ Len(a \o b) = p + n
           /\ \A o \in 1 .. p : (a \o b)[o] = a[o]
           /\ \A k \in 1 .. n : (a \o b)[p + k] = b[k]
      <4>1. /\ Len(a \o b) = Len(a) + Len(b)
            /\ \A o \in 1 .. Len(a) : (a \o b)[o] = a[o]
            /\ \A k \in 1 .. Len(b) : (a \o b)[Len(a) + k] = b[k]
        BY <3>9, ConcatAt
      <4> QED BY <3>9, <4>1
    <3>11. Len(f[j]) = j * n
      BY <3>9, <3>10
    <3>12. ASSUME NEW i \in 1 .. j, NEW k \in 1 .. n
           PROVE  f[j][(i - 1) * n + k] = L[i][k]
      <4>1. CASE i = j
        <5>1. (i - 1) * n + k = p + k
          BY <4>1 DEF p
        <5>2. (a \o b)[p + k] = b[k]
          BY <3>10
        <5>3. f[j] = a \o b /\ b = L[j]
          BY <3>8, <3>9
        <5> QED BY <4>1, <5>1, <5>2, <5>3
      <4>2. CASE i # j
        <5>1. i \in 1 .. j - 1 /\ i - 1 \in Nat /\ i - 1 < j - 1
          BY <3>4, <4>2
        <5>2. (i - 1) * n + k \in 1 .. p
          BY <3>4, <5>1, Multiples DEF p
        <5>3. a[(i - 1) * n + k] = L[i][k]
          BY <3>5, <3>8, <5>1 DEF Holds, InRows
        <5> QED BY <3>9, <3>10, <5>2, <5>3
      <4> QED BY <4>1, <4>2
    <3>13. Holds(j)
      BY <3>11, <3>12 DEF Holds, InRows
    <3> QED BY <3>3, <3>13
  <2>5. N \in 1 .. N
    BY <2>2
  <2>6. Holds(N)
    <3> HIDE DEF Holds
    <3> QED BY <2>4, <2>5
  <2> QED BY <2>1, <2>6 DEF Holds, N
<1> QED BY <1>1, <1>2

(* The rows as the grammar takes them: the values of each, in one length.        *)
RowValues(rows) ==
  [i \in DOMAIN GetSortedRowValues(rows) |-> Values(GetSortedRowValues(rows)[i])]

LEMMA SortedRows ==
  ASSUME NEW V, NEW rows \in Seq(RowsWith(V))
  PROVE  /\ DOMAIN GetSortedRowValues(rows) = 1 .. Len(rows)
         /\ RowValues(rows) \in Seq(Seq(V)) /\ Len(RowValues(rows)) = Len(rows)
         /\ Texts(Values, GetSortedRowValues(rows)) = FlattenSeq(RowValues(rows))
         /\ \A i \in 1 .. Len(rows) :
              /\ GetSortedRowValues(rows)[i] = SortedRow(rows[i])
              /\ DOMAIN GetSortedRowValues(rows)[i] = 1 .. Len(rows[i])
              /\ Len(RowValues(rows)[i]) = Len(rows[i])
              /\ \A k \in 1 .. Len(rows[i]) :
                   /\ GetSortedRowValues(rows)[i][k] \in Givens(V)
                   /\ RowValues(rows)[i][k] = GetSortedRowValues(rows)[i][k].value
<1> DEFINE sorted == GetSortedRowValues(rows)
           L == RowValues(rows)
           N == Len(rows)
<1>1. /\ N \in Nat /\ DOMAIN rows = 1 .. N
      /\ \A i \in 1 .. N : rows[i] \in RowsWith(V) /\ Len(rows[i]) \in Nat
  BY DEF RowsWith
<1>2. DOMAIN sorted = 1 .. N /\ \A i \in 1 .. N : sorted[i] = SortedRow(rows[i])
  BY <1>1 DEF GetSortedRowValues
<1>3. L = [i \in DOMAIN sorted |-> Values(sorted[i])]
  BY DEF RowValues
<1> HIDE DEF sorted, L
<1>4. \A i \in 1 .. N : sorted[i] \in Seq(Givens(V)) /\ Len(sorted[i]) = Len(rows[i])
  BY <1>1, <1>2, SortedRowIs
<1>5. ASSUME NEW i \in 1 .. N
      PROVE  /\ DOMAIN sorted[i] = 1 .. Len(rows[i])
             /\ Values(sorted[i]) \in Seq(V) /\ Len(Values(sorted[i])) = Len(rows[i])
             /\ \A k \in 1 .. Len(rows[i]) :
                  sorted[i][k] \in Givens(V) /\ Values(sorted[i])[k] = sorted[i][k].value
  <2> DEFINE n == Len(rows[i])
             s == sorted[i]
             v == Values(s)
  <2>1. n \in Nat /\ s \in Seq(Givens(V)) /\ Len(s) = n
    BY <1>1, <1>4
  <2> HIDE DEF n, s
  <2>2. DOMAIN s = 1 .. n /\ \A k \in 1 .. n : s[k] \in Givens(V)
    BY <2>1
  <2>3. v \in [1 .. n -> V] /\ \A k \in 1 .. n : v[k] = s[k].value
    BY <2>2 DEF Values, Givens
  <2> HIDE DEF v
  <2>4. v \in Seq(V)
    BY <2>1, <2>3, SequenceFrom
  <2>5. Len(v) = n
    BY <2>1, <2>3, <2>4
  <2> QED BY <2>2, <2>3, <2>4, <2>5 DEF n, s, v
<1>6. /\ DOMAIN L = 1 .. N /\ L \in [1 .. N -> Seq(V)]
      /\ \A i \in 1 .. N : L[i] = Values(sorted[i])
  BY <1>2, <1>5, <1>3
<1>7. Texts(Values, sorted) = FlattenSeq(L)
  BY <1>3 DEF Texts
<1>8. L \in Seq(Seq(V)) /\ Len(L) = N
  <2>1. L \in Seq(Seq(V))
    BY <1>1, <1>6, SequenceFrom
  <2> QED BY <1>1, <1>6, <2>1
<1>9. \A i \in 1 .. N : \A k \in 1 .. Len(rows[i]) :
        sorted[i][k] \in Givens(V) /\ L[i][k] = sorted[i][k].value
  BY <1>5, <1>6
<1>10. \A i \in 1 .. N : DOMAIN sorted[i] = 1 .. Len(rows[i]) /\ Len(L[i]) = Len(rows[i])
  BY <1>5, <1>6
<1> QED BY <1>2, <1>4, <1>6, <1>7, <1>8, <1>9, <1>10 DEF sorted, L

(* insert takes the names of the columns from the first row and binds the values  *)
(* of every row under them: with any number of rows of the same columns, however   *)
(* many and in whatever order each row gives them, getSortedRowValues has every    *)
(* value written to the column it was given for.                                *)
THEOREM InsertWritesItsRows ==
  ASSUME NEW rows \in Seq(RowsWith(Number)), rows # <<>>, Accepted(rows),
         \A i \in DOMAIN rows : ToSet(Columns(rows[i])) = ToSet(Columns(rows[1]))
  PROVE  \A i \in DOMAIN rows : RowWritten(rows, i) = ToSet(rows[i])
<1> DEFINE sorted == GetSortedRowValues(rows)
           L == RowValues(rows)
           N == Len(rows)
           n == Len(rows[1])
           names == CompileInsert(sorted).columns
<1>1. /\ N \in Nat /\ N # 0 /\ DOMAIN rows = 1 .. N /\ 1 \in 1 .. N
      /\ n \in Nat
      /\ \A i \in 1 .. N : rows[i] \in RowsWith(Number) /\ Len(rows[i]) = n
  <2>1. N \in Nat /\ N # 0 /\ DOMAIN rows = 1 .. N
    BY EmptySeq
  <2>2. 1 \in 1 .. N /\ \A i \in 1 .. N : rows[i] \in RowsWith(Number)
    BY <2>1
  <2>3. n \in Nat
    BY <2>2 DEF RowsWith
  <2> QED BY <2>1, <2>2, <2>3 DEF Accepted
<1>2. /\ DOMAIN sorted = 1 .. N /\ L \in Seq(Seq(Number)) /\ Len(L) = N
      /\ Texts(Values, sorted) = FlattenSeq(L)
      /\ \A i \in 1 .. N : /\ sorted[i] = SortedRow(rows[i])
                           /\ DOMAIN sorted[i] = 1 .. n /\ Len(L[i]) = n
                           /\ \A k \in 1 .. n : /\ sorted[i][k] \in Givens(Number)
                                                /\ L[i][k] = sorted[i][k].value
  <2>1. /\ DOMAIN sorted = 1 .. N /\ L \in Seq(Seq(Number)) /\ Len(L) = N
        /\ Texts(Values, sorted) = FlattenSeq(L)
        /\ \A i \in 1 .. N : /\ sorted[i] = SortedRow(rows[i])
                             /\ DOMAIN sorted[i] = 1 .. Len(rows[i]) /\ Len(L[i]) = Len(rows[i])
                             /\ \A k \in 1 .. Len(rows[i]) : /\ sorted[i][k] \in Givens(Number)
                                                           /\ L[i][k] = sorted[i][k].value
    BY SortedRows
  <2> HIDE DEF sorted, L, N
  <2> QED BY <1>1, <2>1
<1>3. InsertBindings(rows) = FlattenSeq(L)
  <2> HIDE DEF sorted, L
  <2>1. FlattenSeq(L) \in Text
    BY <1>2, FlattenAppend, EmptySeq DEF Text
  <2> QED BY <1>2, <2>1, CleanText DEF InsertBindings, sorted
<1>4. InRows(InsertBindings(rows), L, N, n)
  <2> HIDE DEF sorted, L, N
  <2>1. L \in Seq(Seq(Number)) /\ n \in Nat /\ OfLength(L, n)
    BY <1>1, <1>2 DEF OfLength
  <2> HIDE DEF n
  <2>2. InRows(FlattenSeq(L), L, Len(L), n)
    BY <2>1, FlattenAt
  <2>3. Len(L) = N
    BY <1>2
  <2> QED BY <1>3, <2>2, <2>3
<1> HIDE DEF sorted, L
<1>5. DOMAIN names = 1 .. n /\ Len(names) = n /\ \A k \in 1 .. n : names[k] = sorted[1][k].column
  <2>1. names = [k \in 1 .. n |-> sorted[1][k].column]
    BY <1>1, <1>2 DEF CompileInsert
  <2> HIDE DEF names, n
  <2>2. DOMAIN names = 1 .. n /\ \A k \in 1 .. n : names[k] = sorted[1][k].column
    BY <2>1
  <2>3. Len(names) = n
    BY <1>1, <2>1
  <2> QED BY <2>2, <2>3
<1> HIDE DEF names, n, N
<1> SUFFICES ASSUME NEW i \in 1 .. N PROVE RowWritten(rows, i) = ToSet(rows[i])
  BY <1>1
<1>6. \A k \in 1 .. n : sorted[i][k].column = names[k]
  <2>1. /\ rows[i] \in RowsWith(Number) /\ rows[1] \in RowsWith(Number)
        /\ Len(rows[i]) = n /\ Len(rows[1]) = n
        /\ ToSet(Columns(rows[i])) = ToSet(Columns(rows[1]))
    BY <1>1
  <2>2. \A k \in 1 .. n : SortedRow(rows[i])[k].column = SortedRow(rows[1])[k].column
    <3>1. \A k \in 1 .. Len(rows[i]) :
            SortedRow(rows[i])[k].column = SortedRow(rows[1])[k].column
      BY <2>1, SameNames
    <3> QED BY <2>1, <3>1
  <2> QED BY <1>1, <1>2, <1>5, <2>2
<1>7. RowWritten(rows, i) = {Given(names[k], L[i][k]) : k \in 1 .. n}
  <2>1. RowWritten(rows, i) =
          {Given(names[k], InsertBindings(rows)[(i - 1) * Len(names) + k]) : k \in DOMAIN names}
    BY DEF RowWritten, names, sorted
  <2>2. \A k \in 1 .. n : InsertBindings(rows)[(i - 1) * Len(names) + k] = L[i][k]
    BY <1>4, <1>5 DEF InRows
  <2> QED BY <1>5, <2>1, <2>2
<1>8. \A k \in 1 .. n : Given(names[k], L[i][k]) = sorted[i][k]
  <2> TAKE k \in 1 .. n
  <2>1. sorted[i][k] \in Givens(Number) /\ L[i][k] = sorted[i][k].value
        /\ names[k] = sorted[i][k].column
    BY <1>2, <1>6
  <2> QED BY <2>1 DEF Given, Givens
<1>9. RowWritten(rows, i) = {sorted[i][k] : k \in 1 .. n}
  BY <1>7, <1>8
<1>10. ToSet(sorted[i]) = {sorted[i][k] : k \in 1 .. n}
  <2>1. DOMAIN sorted[i] = 1 .. n
    BY <1>2
  <2> QED BY <2>1, Zenon DEF ToSet
<1>11. ToSet(sorted[i]) = ToSet(rows[i])
  BY <1>1, <1>2, SortedRowIs DEF SortOf
<1> QED BY <1>9, <1>10, <1>11

(* upsert binds the values of its rows, then those of its update part; an          *)
(* Expression among either is written in its place and is not bound.             *)
THEOREM UpsertBindsItsPlaces ==
  ASSUME NEW rows \in Seq(RowsWith(Nat)), NEW update \in Seq(Givens(Nat))
  PROVE  CompileUpsert(GetSortedRowValues(rows), update) = UpsertBindings(rows, update)
<1> DEFINE sorted == GetSortedRowValues(rows)
           L == RowValues(rows)
           P(r) == Parameterize([k \in DOMAIN r |-> r[k].value])
<1>1. L \in Seq(Seq(Nat)) /\ Texts(Values, sorted) = FlattenSeq(L)
  BY SortedRows
<1>2. DOMAIN L = DOMAIN sorted /\ \A i \in DOMAIN sorted : L[i] = Values(sorted[i])
  BY DEF RowValues
<1>3. \A v : Parameterize(v) = Clean(v)
  BY DEF Parameterize, Parameter, Clean
<1>4. \A i \in DOMAIN sorted : P(sorted[i]) = Clean(L[i])
  BY <1>3, <1>2 DEF Values
<1>5. InsertBindings(rows) = FlattenSeq([i \in DOMAIN L |-> Clean(L[i])])
  <2> HIDE DEF sorted, L
  <2> QED BY <1>1, CleanFlatten DEF InsertBindings, sorted
<1>6. CompileInsert(sorted).places = FlattenSeq([i \in DOMAIN sorted |-> P(sorted[i])])
  BY DEF CompileInsert, Texts
<1> HIDE DEF sorted, L, P
<1>7. [i \in DOMAIN sorted |-> P(sorted[i])] = [i \in DOMAIN L |-> Clean(L[i])]
  BY <1>2, <1>4
<1>8. CompileInsert(sorted).places = InsertBindings(rows)
  BY <1>5, <1>6, <1>7
<1>9. Texts(LAMBDA u : Parameter(u.value), update) = Clean(Values(update))
  <2>1. Clean(Values(update)) =
          FlattenSeq([i \in DOMAIN Values(update) |-> Parameter(Values(update)[i])])
    BY DEF Clean, Parameter
  <2>2. [i \in DOMAIN Values(update) |-> Parameter(Values(update)[i])] =
          [i \in DOMAIN update |-> Parameter(update[i].value)]
    BY DEF Values
  <2>3. Texts(LAMBDA u : Parameter(u.value), update) =
          FlattenSeq([i \in DOMAIN update |-> Parameter(update[i].value)])
    BY DEF Texts
  <2> QED BY <2>1, <2>2, <2>3
<1> QED BY <1>8, <1>9 DEF CompileUpsert, UpsertBindings, sorted

(* The rows of the run are among those of the two theorems.                      *)
LEMMA RowsAreRows ==
  ASSUME NEW rows \in Rows
  PROVE  rows \in Seq(RowsWith(Number)) /\ DOMAIN rows = 1 .. 2 /\ rows # <<>>
<1>1. ASSUME NEW v \in 1 .. 3, NEW r \in RowsOf(v) PROVE r \in Seq(Givens(Number))
  <2>1. \A c \in 1 .. 3 : Given(c, v) \in Givens(Number) /\ Given(c, v + 1) \in Givens(Number)
    BY DEF Given, Givens, Number
  <2>2. CASE \E c \in 1 .. 3 : r = <<Given(c, v)>>
    BY <2>1, <2>2
  <2>3. CASE \E c, d \in 1 .. 3 : r = <<Given(c, v), Given(d, v + 1)>>
    BY <2>1, <2>3
  <2> QED BY <2>2, <2>3 DEF RowsOf
<1>2. /\ rows[1] \in Seq(Givens(Number)) /\ rows[2] \in Seq(Givens(Number))
      /\ rows = <<rows[1], rows[2]>>
      /\ IsInjective(Columns(rows[1])) /\ IsInjective(Columns(rows[2]))
  BY <1>1, SMTT(30) DEF Rows
<1>3. rows[1] \in RowsWith(Number) /\ rows[2] \in RowsWith(Number)
  BY <1>2 DEF RowsWith
<1>4. <<rows[1], rows[2]>> \in Seq(RowsWith(Number)) /\ DOMAIN <<rows[1], rows[2]>> = 1 .. 2
      /\ <<rows[1], rows[2]>> # <<>>
  <2> HIDE DEF RowsWith
  <2> QED BY <1>3
<1> QED BY <1>2, <1>4, Zenon

(* After any calls a multi-row insert writes every value to its column, and an     *)
(* upsert binds the places of its rows and of its update part.                   *)
THEOREM InsertBindsEveryValue == Spec => []InsertBound
<1>1. ASSUME NEW rows \in Rows, Accepted(rows)
      PROVE  /\ SameColumns(rows) => \A i \in 1 .. 2 : RowWritten(rows, i) = ToSet(rows[i])
             /\ \A update \in {<<>>, <<Given(1, 5)>>, <<Given(1, 5), Given(2, Expression)>>} :
                  CompileUpsert(GetSortedRowValues(rows), update) = UpsertBindings(rows, update)
  <2>1. rows \in Seq(RowsWith(Number)) /\ DOMAIN rows = 1 .. 2 /\ rows # <<>>
    BY RowsAreRows
  <2>2. SameColumns(rows) => \A i \in DOMAIN rows : ToSet(Columns(rows[i])) = ToSet(Columns(rows[1]))
    BY <2>1 DEF SameColumns
  <2>3. SameColumns(rows) => \A i \in 1 .. 2 : RowWritten(rows, i) = ToSet(rows[i])
    BY <1>1, <2>1, <2>2, InsertWritesItsRows
  <2>4. rows \in Seq(RowsWith(Nat))
    <3>1. RowsWith(Number) \subseteq RowsWith(Nat)
      <4>1. Givens(Number) \subseteq Givens(Nat)
        BY DEF Givens, Number
      <4>2. Seq(Givens(Number)) \subseteq Seq(Givens(Nat))
        BY <4>1
      <4> QED BY <4>2 DEF RowsWith
    <3> QED BY <2>1, <3>1
  <2>5. \A update \in {<<>>, <<Given(1, 5)>>, <<Given(1, 5), Given(2, Expression)>>} :
          update \in Seq(Givens(Nat))
    <3>1. Given(1, 5) \in Givens(Nat) /\ Given(2, Expression) \in Givens(Nat)
      BY DEF Given, Givens, Expression
    <3>2. <<>> \in Seq(Givens(Nat)) /\ <<Given(1, 5)>> \in Seq(Givens(Nat))
      BY <3>1
    <3>3. <<Given(1, 5), Given(2, Expression)>> \in Seq(Givens(Nat))
      BY <3>1
    <3> QED BY <3>2, <3>3
  <2> QED BY <2>3, <2>4, <2>5, UpsertBindsItsPlaces
<1>2. InsertBound
  BY <1>1 DEF InsertBound
<1> QED BY <1>2, PTL

===============================================================================
