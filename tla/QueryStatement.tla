----------------------------- MODULE QueryStatement -----------------------------
(* One query builder of a connection: any calls of its methods, callbacks for    *)
(* beforeQuery, and statements in between, each of which sends a text and the     *)
(* values for its places. What would be sent now is an operator of the state; an *)
(* action is what a call or a statement leaves behind in the builder.            *)
EXTENDS QueryBuilder

CONSTANTS MaxCalls      \* bound: calls and statements in one behaviour

ASSUME StatementAssumption == MaxCalls \in Nat

VARIABLES
  grammar,    \* the query grammar of the connection
  query,      \* the registry of the builder
  before,     \* beforeQueryCallbacks: each adds a where, of this value
  bound,      \* the values handed to the builder so far, 1 .. bound
  made        \* calls and statements so far (the bound)

vars == <<grammar, query, before, bound, made>>

X == bound + 1
Y == bound + 2

(* A value given, or an Expression in its place.                                *)
Or(v) == {v, Expression}

(* applyBeforeQueryCallbacks.                                                    *)
Applied(q, callbacks) == WhereEach(q, callbacks)

-------------------------------------------------------------------------------
(* What each statement sends: the text and the values bound to it.              *)
Sent(q) == [text |-> CompileSelect(q), bindings |-> GetBindings(q)]

SelectSent == Sent(Compiled(grammar, Applied(query, before)))
ExistsSent ==
  LET q == Applied(query, before)
  IN [text |-> CompileExists(grammar, q), bindings |-> GetBindings(q)]

(* aggregate, on a copy of the builder and of its callbacks.                     *)
AggregateSent ==
  LET whole == query.unions # <<>> \/ query.havings # <<>>
      copy == CloneWithout(query, IF whole THEN {} ELSE {"columns"},
                                  IF whole THEN {} ELSE {"select"})
  IN Sent(Applied(SetAggregate(copy), before))

(* getCountForPagination: a grouped query becomes the table of a new one, whose  *)
(* bindings are merged with those of the copy.                                  *)
PaginationCountSent ==
  LET whole == query.unions # <<>>
      copy == CloneWithout(query, {"orders", "limit", "offset"}, {"order"})
      table == Applied(copy, before)
  IN IF query.groups # <<>> \/ query.havings # <<>>
     THEN Sent(SetAggregate([CreateRegistry EXCEPT !.from = CompileSelect(table),
                                                   !.bindings = table.bindings]))
     ELSE Sent(Applied(SetAggregate(CloneWithout(copy, IF whole THEN {} ELSE {"columns"},
                                                       IF whole THEN {} ELSE {"select"})),
                       before))

UpdateSent(q, values) ==
  [text |-> CompileUpdate(grammar, q, values),
   bindings |-> Clean(PrepareBindingsForUpdate(grammar, q, values))]
UpdateFromSent(q, values) ==
  [text |-> CompileUpdateFrom(q, values),
   bindings |-> Clean(PrepareBindingsForUpdateFrom(q, values))]
DeleteSent(q) ==
  [text |-> CompileDelete(grammar, q), bindings |-> Clean(PrepareBindingsForDelete(q))]
InsertUsingSent(q, sub) ==
  [text |-> CompileInsertUsing(q, sub), bindings |-> Clean(q.bindings.expressions \o sub)]

(* insert: a row is a sequence of columns with their values, in the order given.  *)
(* Each row of a list is sorted by the names of its columns, and is let through    *)
(* when it has as many as the first.                                            *)
Given(c, v) == [column |-> c, value |-> v]
Columns(row) == [k \in DOMAIN row |-> row[k].column]
Values(row) == [k \in DOMAIN row |-> row[k].value]

(* Mutant: the rows stay as they were given.                                     *)
GetSortedRowValuesAsGiven(rows) == rows

(* The columns of a row, which differ, by their names.                            *)
SortedRow(row) ==
  CHOOSE s \in [DOMAIN row -> ToSet(row)] :
    /\ ToSet(s) = ToSet(row)
    /\ \A k, l \in DOMAIN row : k < l => s[k].column < s[l].column

GetSortedRowValues(rows) == [i \in DOMAIN rows |-> SortedRow(rows[i])]
Accepted(rows) == \A i \in DOMAIN rows : Len(rows[i]) = Len(rows[1])
InsertBindings(rows) == Clean(Texts(Values, GetSortedRowValues(rows)))
UpsertBindings(rows, update) == InsertBindings(rows) \o Clean(Values(update))

(* incrementEach, decrementEach: an update to column + amount, with extra values. *)
IncrementEach(extra) == <<Key(0, 1, "instance", Expression)>> \o extra

-------------------------------------------------------------------------------
Init ==
  /\ grammar \in Grammars
  /\ query = CreateRegistry /\ before = <<>>
  /\ bound = 0 /\ made = 0

(* A call leaves the registry q, and has handed over n values.                   *)
Step(q, n) == made < MaxCalls /\ made' = made + 1 /\ query' = q /\ bound' = bound + n
Call(q, n) == Step(q, n) /\ UNCHANGED <<grammar, before>>

SelectCall ==
  \/ Call(Select(query, << <<>> >>), 0)
  \/ Call(Select(query, << <<X>>, <<>>, <<Y>> >>), 2)
  \/ Call(SelectRaw(query, <<X>>), 1)
  \/ Call(AddSelect(query, <<X>>), 1)

FromCall == Call(From(query), 0) \/ Call(FromRaw(query, <<X>>), 1)
WithExpressionCall == Call(WithExpression(query, <<X>>), 1)

WhereCall ==
  \/ Call(WhereExpression(query), 0)
  \/ \E v \in Or(X) : Call(Where(query, <<>>, Value(v)), 1)
  \/ \E value \in {Value(Y), [is |-> "null", of |-> <<>>], [is |-> "query", of |-> <<Y>>]} :
       Call(Where(query, <<X>>, value), 2)
WhereColumnCall == Call(WhereColumn(query), 0)
WhereRawCall == Call(WhereRaw(query, <<X, Y>>), 2)
WhereInCall ==
  \/ \E v \in Or(X) : Call(WhereIn(query, <<v, Y>>), 2)
  \/ Call(WhereIn(query, <<>>), 0)
  \/ Call(WhereInSub(query, <<X>>), 1)
WhereIntegerInRawCall == Call(WhereIntegerInRaw(query), 0)
WhereNullCall == Call(WhereNull(query, <<>>), 0)
WhereBetweenCall ==
  \/ \E v \in Or(X) : Call(WhereBetween(query, v, Y), 2)
  \/ Call(WhereBetweenColumns(query), 0)
WhereDateCall == \E v \in Or(X) : Call(AddDateBasedWhere(query, v), 1)
WhereDayCall == WhereDateCall
WhereYearCall == WhereDateCall
WhereNestedCall ==
  \E v \in Or(X) :
    LET nested == WhereIn(Where(CreateRegistry, <<>>, Value(v)), <<Y>>)
    IN Call(AddNestedWhereQuery(query, nested), 2)
WhereExistsCall == Call(AddWhereExistsQuery(query, <<X>>), 1)
WhereRowValuesCall == \E v \in Or(X) : Call(WhereRowValues(query, <<v, Y>>), 2)
WhereJsonCall ==
  \/ \E v \in Or(X) : Call(WhereJsonContains(query, v), 1)
  \/ Call(WhereJsonContainsKey(query), 0)
WhereJsonLengthCall == \E v \in Or(X) : Call(WhereJsonLength(query, v), 1)
DynamicWhereCall == Call(DynamicWhere(query, <<X, Y>>), 2)
WhereFulltextCall == Call(WhereFulltext(query, X), 1)

(* The builders of a join clause: on a column, a where, and joins nested in it.  *)
Ons == {WhereColumn(CreateRegistry), Where(CreateRegistry, <<>>, Value(X)),
        JoinSub(Where(CreateRegistry, <<>>, Value(X)), <<Y>>, CreateRegistry)}
JoinCall == \E on \in Ons : Call(BaseJoin(query, <<>>, on), 2)
JoinSubCall == \E on \in Ons : Call(JoinSub(query, <<bound + 3>>, on), 3)
LeftJoinCall == JoinCall \/ JoinSubCall
RightJoinCall == JoinCall \/ JoinSubCall
CrossJoinCall ==
  Call(BaseJoin(query, <<>>, CreateRegistry), 0) \/ Call(CrossJoinSub(query, <<X>>), 1)

GroupByCall == Call(GroupByRaw(query, <<>>), 0) \/ Call(GroupByRaw(query, <<X>>), 1)
HavingCall ==
  Call(HavingExpression(query), 0) \/ \E v \in Or(X) : Call(Having(query, v), 1)
HavingNestedCall ==
  Call(AddNestedHavingQuery(query, HavingRaw(Having(CreateRegistry, X), <<Y>>)), 2)
HavingBetweenCall == \E v \in Or(X) : Call(HavingBetween(query, v, Y), 2)
HavingNullCall == Call(HavingNull(query), 0)
HavingRawCall == Call(HavingRaw(query, <<X>>), 1)

OrderByCall == Call(OrderByRaw(query, <<>>), 0) \/ Call(OrderByRaw(query, <<X>>), 1)
ReorderCall == Call(Reorder(query), 0) \/ Call(OrderByRaw(Reorder(query), <<X>>), 1)
LimitCall == Call(Limit(query), 0) \/ Call(Offset(query), 0)
UnionCall == Call(Union(query, <<X>>), 1) \/ Call(Union(query, <<>>), 0)

BeforeQuery ==
  /\ Step(query, 1)
  /\ before' = Append(before, X)
  /\ UNCHANGED grammar

-------------------------------------------------------------------------------
(* A statement applies the callbacks and drops them.                             *)
Statement(q) == Step(q, 0) /\ before' = <<>> /\ UNCHANGED grammar

(* Mutant: the callbacks stay for the next statement.                            *)
GetKeepingCallbacks == Call(Compiled(grammar, Applied(query, before)), 0)

(* get, pluck, cursor, explain; exists; and paginate, which sets the page.       *)
Get == Statement(Compiled(grammar, Applied(query, before)))
Exists == Statement(Applied(query, before))
Paginate == Statement(Compiled(grammar, Applied(Limit(Offset(query)), before)))

(* update and delete, which replace the columns where they go through a select.  *)
Written(q) == IF ThroughSelect(grammar, q) THEN SelectsRowid(q) ELSE q
Update == Statement(Written(Applied(query, before)))
Delete ==
  \/ Statement(Written(Applied(query, before)))
  \/ /\ Step(Written(Applied(Where(query, <<>>, Value(X)), before)), 1)
     /\ before' = <<>> /\ UNCHANGED grammar
Insert == Statement(Applied(query, before))

(* updateOrInsert: where(attributes).exists, then insert or limit(1).update.     *)
UpdateOrInsert ==
  LET asked == AddNestedWhereQuery(query, Where(CreateRegistry, <<>>, Value(X)))
      q == Applied(asked, before)
  IN /\ \E left \in {q, Written(Limit(q))} : Step(left, 1)
     /\ before' = <<>> /\ UNCHANGED grammar

Calls ==
  \/ SelectCall \/ FromCall \/ WithExpressionCall
  \/ WhereCall \/ WhereColumnCall \/ WhereRawCall \/ WhereInCall \/ WhereIntegerInRawCall
  \/ WhereNullCall \/ WhereBetweenCall \/ WhereDateCall \/ WhereDayCall \/ WhereYearCall
  \/ WhereNestedCall \/ WhereExistsCall \/ WhereRowValuesCall \/ WhereJsonCall
  \/ WhereJsonLengthCall \/ DynamicWhereCall \/ WhereFulltextCall
  \/ JoinCall \/ JoinSubCall \/ LeftJoinCall \/ RightJoinCall \/ CrossJoinCall
  \/ GroupByCall \/ HavingCall \/ HavingNestedCall \/ HavingBetweenCall \/ HavingNullCall
  \/ HavingRawCall \/ OrderByCall \/ ReorderCall \/ LimitCall \/ UnionCall \/ BeforeQuery
Statements == Get \/ Exists \/ Paginate \/ Update \/ Delete \/ Insert \/ UpdateOrInsert

Next == Calls \/ Statements
Spec == Init /\ [][Next]_vars
-------------------------------------------------------------------------------
(* The queries the properties speak of. A table given with bindings a second     *)
(* time keeps the bindings of the first; expressions added after a union are      *)
(* compiled before those added earlier, and bound after them.                    *)
FromBoundOnce(q) == q.bindings.from = q.from
OneWith(q) == q.expressions = <<>> \/ q.unionExpressions = <<>>
Ordinary(q) == FromBoundOnce(q) /\ OneWith(q)

Agrees(sent) == sent.text = sent.bindings

(* The values of an update: paths beside plain keys, of two columns by turns, of  *)
(* the column of a plain key; keys of two tables; and keys that lose their table. *)
UpdateValues ==
  LET v == bound + 2
      w == bound + 3
      x == bound + 4
  IN {<<Path(1, "boolean", v), Path(2, "primitive", w), Path(1, "object", x)>>,
      <<Path(2, "primitive", v), Path(1, "primitive", w), Key(1, 1, "object", x)>>,
      <<Key(0, 1, "primitive", v), Path(1, "boolean", w), Key(0, 2, "instance", Expression)>>,
      <<Key(1, 1, "primitive", v), Path(2, "instance", Expression)>>,
      <<Key(1, 1, "instance", Expression), Path(1, "primitive", v)>>,
      IncrementEach(<<Key(1, 1, "boolean", v), Key(2, 1, "object", w)>>)}

(* A key that loses its table is found only when its value is written as JSON.   *)
KeysFound(values) ==
  HasJson(values) =>
    \A i \in DOMAIN values :
      ~values[i].json /\ values[i].table # 0 => Merged(values, values[i]).is = "object"

(* What a write binds after the values of its text: those of the clauses it does *)
(* not have.                                                                    *)
Unwritten(q, types) ==
  IF ThroughSelect(grammar, q) THEN <<>>
  ELSE BindingsBut(q, types \union {"expressions", "select", "from", "join", "where"})
OrderedWrite(q) == OrdersOfWrite(grammar, q) # <<>>
WritesPlainly(q) ==
  /\ q.bindings.from = <<>> /\ OneWith(q)
  /\ ThroughSelect(grammar, q) \/ q.unionExpressions = <<>>
  /\ OrderedWrite(q) => q.bindings.groupBy = <<>> /\ q.bindings.having = <<>>
WriteAgrees(q, sent) ==
  sent.bindings = sent.text \o Unwritten(q, IF OrderedWrite(q) THEN {"order"} ELSE {})

(* A select binds exactly the values its text has places for, in their order,    *)
(* whatever calls made the query and whatever statements came between: the       *)
(* clauses of CommonGrammarBuilder and their bindings are kept apart, flattened   *)
(* by type, and meet again only in the database.                                 *)
SelectBound == Ordinary(Applied(query, before)) => Agrees(SelectSent)

(* So do the copies made for an aggregate, for the count of a pagination and for  *)
(* exists, which drop columns, orders and their bindings.                        *)
CountBound ==
  LET q == Applied(query, before)
  IN /\ Ordinary(q) /\ q.unionExpressions = <<>> => Agrees(AggregateSent)
     /\ Ordinary(q) /\ (q.groups = <<>> /\ q.havings = <<>> => q.unionExpressions = <<>>)
          => Agrees(PaginationCountSent)
     /\ Ordinary(q) /\ (grammar = "sqlserver" => q.bindings.select = <<>>)
          => Agrees(ExistsSent)

(* An update, a delete and an insert from a query bind each place of their text   *)
(* in its order too, although each grammar puts the values elsewhere; what the    *)
(* statement has no clause for is left over at the end. An update does so exactly  *)
(* when the values of all its keys are found (prepareValuesForMerge): a key with   *)
(* its table beside a JSON path binds undefined.                                 *)
WriteBound ==
  LET q == Applied(query, before)
  IN /\ WritesPlainly(q) =>
          /\ \A values \in UpdateValues :
               WriteAgrees(q, UpdateSent(q, values)) <=> KeysFound(values)
          /\ WriteAgrees(q, DeleteSent(q))
     /\ /\ grammar = "postgres" /\ WritesPlainly(q) /\ q.unionExpressions = <<>>
        /\ \A i \in DOMAIN q.joins : q.joins[i].table = <<>> /\ q.joins[i].joins = <<>>
        => \A values \in UpdateValues :
             LET sent == UpdateFromSent(q, values)
             IN sent.bindings = sent.text \o
                  BindingsBut(q, {"expressions", "select", "from", "join", "where"})
                <=> KeysFound(values)
     /\ q.unionExpressions = <<>> => Agrees(InsertUsingSent(q, <<Y>>))

(* Two rows to insert, each of one or two of three columns, in any order.        *)
RowsOf(v) ==
  {<<Given(c, v)>> : c \in 1 .. 3}
    \union {<<Given(c, v), Given(d, v + 1)>> : c, d \in 1 .. 3}
Rows == {rows \in RowsOf(1) \X RowsOf(3) : \A i \in 1 .. 2 : IsInjective(Columns(rows[i]))}
SameColumns(rows) == ToSet(Columns(rows[1])) = ToSet(Columns(rows[2]))

(* What the statement writes: in each row the value bound at each column named.   *)
RowWritten(rows, i) ==
  LET sorted == GetSortedRowValues(rows)
      names == CompileInsert(sorted).columns
  IN {Given(names[k], InsertBindings(rows)[(i - 1) * Len(names) + k]) : k \in DOMAIN names}

(* A multi-row insert whose rows give the same columns, in whatever order each     *)
(* does, writes every value to the column it was given for; and the places of the  *)
(* rows, then those of the update part of an upsert, get their own values.         *)
InsertBound ==
  made = 0 => \A rows \in {r \in Rows : Accepted(r)} :
    /\ SameColumns(rows) => \A i \in 1 .. 2 : RowWritten(rows, i) = ToSet(rows[i])
    /\ \A update \in {<<>>, <<Given(1, 5)>>, <<Given(1, 5), Given(2, Expression)>>} :
         CompileUpsert(GetSortedRowValues(rows), update) = UpsertBindings(rows, update)

(* Reading leaves the builder as it was: the select after a get, an exists or a   *)
(* page sends what it would have sent before, callbacks of beforeQuery included.  *)
Reading == Get \/ Exists \/ Paginate
ReadsRepeat == [][Reading => SelectSent' = SelectSent]_vars

===============================================================================
