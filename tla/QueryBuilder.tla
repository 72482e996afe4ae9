------------------------------ MODULE QueryBuilder ------------------------------
(* The methods of CommonGrammarBuilder that add clauses, as functions from a    *)
(* registry to a registry: each keeps the clause in one place of the registry   *)
(* and the values it binds in another.                                          *)
(* A subquery is given by the values of its text, which are its bindings too.   *)
EXTENDS QueryGrammar

-------------------------------------------------------------------------------
(* Columns, table and common table expressions.                                 *)
SelectRaw(q, sub) == AddBinding([q EXCEPT !.columns = Append(@, sub)], sub, "select")

Select(q, columns) ==
  LET selected[n \in 0 .. Len(columns)] ==
        IF n = 0 THEN [q EXCEPT !.columns = <<>>, !.bindings["select"] = <<>>]
        ELSE SelectRaw(selected[n - 1], columns[n])
  IN selected[Len(columns)]

(* addSelect of a subquery: without columns all those of the table come first.   *)
AddSelect(q, sub) ==
  SelectRaw(IF q.columns = <<>> THEN Select(q, << <<>> >>) ELSE q, sub)

From(q) == [q EXCEPT !.from = <<>>]
FromRaw(q, text) == AddBinding([q EXCEPT !.from = text], text, "from")

WithExpression(q, sub) ==
  AddBinding(IF q.unions # <<>> THEN [q EXCEPT !.unionExpressions = Append(@, sub)]
                                ELSE [q EXCEPT !.expressions = Append(@, sub)],
             sub, "expressions")

-------------------------------------------------------------------------------
(* Where. A column is the text of an Expression or a subquery, <<>> by its name. *)
AddWhere(q, clause, bound) ==
  AddBinding([q EXCEPT !.wheres = Append(@, clause)], bound, "where")

WhereNull(q, column) == AddWhere(q, Clause("Plain", column, <<>>), <<>>)
WhereSub(q, column, sub) == AddWhere(q, Clause("Raw", column, sub), sub)

Value(v) == [is |-> "value", of |-> <<v>>]

(* whereImplementation: an Expression alone, a subquery for a column, for a value,*)
(* null, or a value.                                                            *)
WhereExpression(q) == AddWhere(q, Clause("Plain", <<>>, <<>>), <<>>)
Where(q, column, value) ==
  LET b == AddBinding(q, column, "where")
  IN CASE value.is = "null"  -> WhereNull(b, column)
       [] value.is = "query" -> WhereSub(b, column, value.of)
       [] value.is = "value" -> AddWhere(b, Clause("Compare", column, value.of), Clean(value.of))

WhereColumn(q) == AddWhere(q, Clause("Plain", <<>>, <<>>), <<>>)
WhereRaw(q, text) == AddWhere(q, Clause("Raw", <<>>, text), text)

WhereIn(q, values) == AddWhere(q, Clause("In", <<>>, values), Clean(values))

(* whereIn of a subquery: its text is the one value, an Expression.             *)
WhereInSub(q, sub) == AddWhere(q, Clause("Raw", <<>>, sub), sub)
WhereIntegerInRaw(q) == AddWhere(q, Clause("Plain", <<>>, <<>>), <<>>)

WhereBetween(q, min, max) ==
  AddWhere(q, Clause("Between", <<>>, <<min, max>>), Clean(<<min, max>>))
WhereBetweenColumns(q) == AddWhere(q, Clause("Plain", <<>>, <<>>), <<>>)

AddDateBasedWhere(q, value) == AddWhere(q, Clause("Compare", <<>>, <<value>>), Clean(<<value>>))

(* Only the where clauses of the nested builder are taken, if it has any.       *)
AddNestedWhereQuery(q, nested) ==
  IF nested.wheres = <<>> THEN q
  ELSE AddWhere(q, Nested(CompileWheres(nested.wheres)), nested.bindings.where)

AddWhereExistsQuery(q, sub) == AddWhere(q, Clause("Raw", <<>>, sub), sub)
WhereRowValues(q, values) == AddWhere(q, Clause("In", <<>>, values), Clean(values))
WhereJsonContains(q, value) ==
  AddWhere(q, Clause("Compare", <<>>, <<value>>), Clean(<<value>>))
WhereJsonContainsKey(q) == AddWhere(q, Clause("Plain", <<>>, <<>>), <<>>)
WhereJsonLength(q, value) == AddWhere(q, Clause("Compare", <<>>, <<value>>), Clean(<<value>>))
WhereFulltext(q, value) == AddWhere(q, Clause("Compare", <<>>, <<value>>), <<value>>)

(* A where for each of some values.                                            *)
WhereEach(q, values) ==
  LET where[n \in 0 .. Len(values)] ==
        IF n = 0 THEN q ELSE Where(where[n - 1], <<>>, Value(values[n]))
  IN where[Len(values)]

(* dynamicWhere: whereNameAndEmail(a, b) is one where for each segment.         *)
DynamicWhere(q, parameters) == WhereEach(q, parameters)

-------------------------------------------------------------------------------
(* Joins. on is the builder of the join clause: the texts of its where clauses    *)
(* and of the joins nested in it stay as they are when its callback is over.     *)
JoinOf(table, on) ==
  [table |-> table, joins |-> CompileJoins(on.joins), wheres |-> CompileWheres(on.wheres)]

BaseJoin(q, table, on) ==
  AddBinding([q EXCEPT !.joins = Append(@, JoinOf(table, on))], GetBindings(on), "join")
JoinSub(q, sub, on) == BaseJoin(AddBinding(q, sub, "join"), sub, on)
CrossJoinSub(q, sub) == JoinSub(q, sub, CreateRegistry)

-------------------------------------------------------------------------------
(* Groups, havings, orders, unions.                                             *)
GroupByRaw(q, text) == AddBinding([q EXCEPT !.groups = Append(@, text)], text, "groupBy")

AddHaving(q, clause, bound) ==
  AddBinding([q EXCEPT !.havings = Append(@, clause)], bound, "having")
Having(q, value) == AddHaving(q, Clause("Compare", <<>>, <<value>>), Clean(<<value>>))
HavingExpression(q) == AddHaving(q, Clause("Plain", <<>>, <<>>), <<>>)
HavingNull(q) == AddHaving(q, Clause("Plain", <<>>, <<>>), <<>>)
HavingBetween(q, min, max) ==
  AddHaving(q, Clause("Between", <<>>, <<min, max>>), Clean(<<min, max>>))
HavingRaw(q, text) == AddHaving(q, Clause("Raw", <<>>, text), text)
AddNestedHavingQuery(q, nested) ==
  IF nested.havings = <<>> THEN q
  ELSE AddHaving(q, Nested(CompileHavings(nested.havings)), nested.bindings.having)

(* orderByRaw, and orderBy of a column or a subquery.                           *)
OrderByRaw(q, text) ==
  IF q.unions # <<>>
    THEN AddBinding([q EXCEPT !.unionOrders = Append(@, text)], text, "unionOrder")
    ELSE AddBinding([q EXCEPT !.orders = Append(@, text)], text, "order")

Reorder(q) == [q EXCEPT !.orders = <<>>, !.unionOrders = <<>>,
                        !.bindings.order = <<>>, !.bindings.unionOrder = <<>>]

(* With unions there is a limit and an offset of their own, which no other       *)
(* clause depends on.                                                           *)
Limit(q) == IF q.unions # <<>> THEN q ELSE [q EXCEPT !.limit = TRUE]
Offset(q) == IF q.unions # <<>> THEN q ELSE [q EXCEPT !.offset = TRUE]

Union(q, sub) == AddBinding([q EXCEPT !.unions = Append(@, sub)], sub, "union")

(* Mutant: the bindings of the orders dropped are kept.                         *)
SetAggregateKeepingBindings(q) ==
  LET b == [q EXCEPT !.aggregate = TRUE]
  IN IF q.groups = <<>> THEN [b EXCEPT !.orders = <<>>] ELSE b

SetAggregate(q) ==
  LET b == [q EXCEPT !.aggregate = TRUE]
  IN IF q.groups = <<>> THEN [b EXCEPT !.orders = <<>>, !.bindings.order = <<>>] ELSE b

===============================================================================
