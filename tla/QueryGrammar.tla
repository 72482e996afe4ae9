------------------------------ MODULE QueryGrammar ------------------------------
(* The query grammars: the text of each statement, as the sequence of the values *)
(* its places stand for, and the bindings the grammar prepares for a write.     *)
EXTENDS QueryRegistry

Grammars == {"mysql", "postgres", "sqlite", "sqlserver"}

(* parameter, parameterize: a place for a value, the text of an Expression.      *)
Parameter(value) == IF value = Expression THEN <<>> ELSE <<value>>
Parameterize(values) == FlattenSeq([i \in DOMAIN values |-> Parameter(values[i])])

Texts(Text(_), parts) == FlattenSeq([i \in DOMAIN parts |-> Text(parts[i])])

-------------------------------------------------------------------------------
(* Where and having clauses, by what becomes of their values: a comparison with   *)
(* one value, a range, a list, a text, or none.                                  *)

CompileValues(c) ==
  CASE c.type = "Compare" -> Parameter(c.values[1])
    [] c.type = "Between" -> Parameter(c.values[1]) \o Parameter(c.values[2])
    [] c.type = "In" -> Parameterize(c.values)
    [] c.type \in {"Raw", "Nested"} -> c.values
    [] c.type = "Plain" -> <<>>

CompileWhere(c) == c.column \o CompileValues(c)
CompileWheres(clauses) == Texts(CompileWhere, clauses)

(* The table of a join, the joins nested in it, its conditions.                 *)
CompileJoins(joins) == Texts(LAMBDA j : j.table \o j.joins \o j.wheres, joins)

CompileHavings(clauses) == CompileWheres(clauses)

-------------------------------------------------------------------------------
(* Select. An aggregate takes the place of the columns.                         *)
CompileExpressions(expressions) == FlattenSeq(expressions)
CompileColumns(q) == IF q.aggregate THEN <<>> ELSE FlattenSeq(q.columns)
CompileOrders(orders) == FlattenSeq(orders)
CompileUnions(q) == FlattenSeq(q.unions) \o CompileOrders(q.unionOrders)

CompileComponents(q) ==
  CompileExpressions(q.expressions) \o CompileColumns(q) \o q.from
    \o CompileJoins(q.joins) \o CompileWheres(q.wheres) \o FlattenSeq(q.groups)
    \o CompileHavings(q.havings) \o CompileOrders(q.orders)

CompileQuery(q) ==
  CompileExpressions(q.unionExpressions) \o CompileComponents(q) \o CompileUnions(q)

(* compileUnionAggregate clears the aggregate and selects from the query.        *)
CompileSelect(q) ==
  IF q.aggregate /\ (q.unions # <<>> \/ q.havings # <<>>)
    THEN CompileExpressions(q.unionExpressions) \o CompileQuery([q EXCEPT !.aggregate = FALSE])
    ELSE CompileQuery(q)

(* Only SQL Server selects the first row of a copy instead of asking exists(..). *)
CompileExists(g, q) == CompileSelect(IF g = "sqlserver" THEN [q EXCEPT !.columns = <<>>] ELSE q)

(* SQL Server adds an order to a query with an offset and none, for good.       *)
Compiled(g, q) ==
  IF g = "sqlserver" /\ q.offset /\ q.orders = <<>> THEN [q EXCEPT !.orders = << <<>> >>] ELSE q

-------------------------------------------------------------------------------
(* Values of an update: a key is a column, with its table (or 0) or without, or   *)
(* a JSON path of a column; its value is a primitive, a boolean, an object to be  *)
(* written as JSON, or an instance bound as it is (an Expression, a TypedBinding, *)
(* a Date, a Buffer). The keys of an object differ; beside a path no two of the   *)
(* plain ones name the same column of different tables.                          *)
Key(table, column, is, v) ==
  [json |-> FALSE, table |-> table, column |-> column, is |-> is, value |-> v]
Path(column, is, v) == [json |-> TRUE, table |-> 0, column |-> column, is |-> is, value |-> v]

HasJson(values) == \E i \in DOMAIN values : values[i].json
Named(values, column) ==
  \E i \in DOMAIN values : ~values[i].json /\ values[i].column = column
PathsOf(values, column) ==
  FlattenSeq([i \in DOMAIN values |->
                IF values[i].json /\ values[i].column = column THEN <<values[i]>> ELSE <<>>])

(* Beside a JSON path a plain key loses its table and takes the paths of its      *)
(* column into its value, which becomes an object; an instance stays what it is.  *)
Merged(values, v) ==
  [v EXCEPT !.table = 0,
            !.is = IF @ = "instance" \/ PathsOf(values, v.column) = <<>> THEN @ ELSE "object"]
Plain(values) ==
  FlattenSeq([i \in DOMAIN values |->
                IF values[i].json THEN <<>> ELSE <<Merged(values, values[i])>>])

(* groupJsonColumnsForUpdate: the paths of a column are where its first one was.  *)
FirstPath(values, i) ==
  /\ values[i].json
  /\ \A k \in DOMAIN values : values[k].json /\ values[k].column = values[i].column => i <= k
Grouped(values) ==
  FlattenSeq([i \in DOMAIN values |->
                IF FirstPath(values, i) /\ ~Named(values, values[i].column)
                  THEN PathsOf(values, values[i].column) ELSE <<>>])

Combined(values) == IF HasJson(values) THEN Plain(values) \o Grouped(values) ELSE values

(* MySQL and SQLite write a boolean under a JSON path into the text.            *)
BooleanText(g, v) == v.json /\ v.is = "boolean" /\ g \in {"mysql", "sqlite"}

CompileUpdateColumns(g, values) ==
  Texts(LAMBDA v : IF BooleanText(g, v) THEN <<>> ELSE Parameter(v.value), Combined(values))

(* values[key], which is undefined when no key of the update is the same.        *)
Undefined == -1
ValueAt(values, key) ==
  LET found == {i \in DOMAIN values : /\ ~values[i].json
                                      /\ values[i].table = key.table
                                      /\ values[i].column = key.column}
  IN IF found = {} THEN Undefined ELSE values[CHOOSE i \in found : TRUE].value

(* Under a JSON path an Expression is skipped, and a boolean that is in the text. *)
(* The value of a plain key is looked up by its combined key, unless it is JSON.  *)
PrepareValuesForMerge(g, values) ==
  Texts(LAMBDA v : CASE v.json /\ (v.value = Expression \/ BooleanText(g, v)) -> <<>>
                     [] ~v.json /\ v.is # "object" -> <<ValueAt(values, v)>>
                     [] OTHER -> <<v.value>>,
        Combined(values))

(* Postgres and SQLite write to the rows a select gives when there are joins or a *)
(* limit, and then the select takes over the columns of the query.              *)
ThroughSelect(g, q) == g \in {"postgres", "sqlite"} /\ (q.joins # <<>> \/ q.limit)
SelectsRowid(q) == [q EXCEPT !.columns = << <<>> >>, !.bindings.select = <<>>]

(* MySQL writes the rows in an order when there is no join.                     *)
OrdersOfWrite(g, q) == IF g = "mysql" /\ q.joins = <<>> THEN CompileOrders(q.orders) ELSE <<>>

CompileUpdate(g, q, values) ==
  LET set == CompileUpdateColumns(g, values)
      joins == CompileJoins(q.joins)
      wheres == CompileWheres(q.wheres)
      from == q.from
  IN IF ThroughSelect(g, q) THEN from \o set \o CompileSelect(SelectsRowid(q))
     ELSE CompileExpressions(q.expressions) \o
          IF q.joins = <<>> THEN from \o set \o wheres \o OrdersOfWrite(g, q)
          ELSE IF g = "sqlserver" THEN set \o from \o joins \o wheres
          ELSE from \o joins \o set \o wheres

(* Mutant: the values before the joins in every grammar.                        *)
PrepareBindingsForUpdateValuesFirst(g, q, values) ==
  q.bindings.expressions \o PrepareValuesForMerge(g, values)
    \o BindingsBut(q, {"select", "expressions"})

PrepareBindingsForUpdate(g, q, values) ==
  LET merged == PrepareValuesForMerge(g, values)
  IN IF ThroughSelect(g, q) THEN merged \o BindingsBut(q, {"select"})
     ELSE IF g = "mysql"
       THEN q.bindings.expressions \o q.bindings.join \o merged
              \o BindingsBut(q, {"select", "join", "expressions"})
     ELSE q.bindings.expressions \o merged \o BindingsBut(q, {"select", "expressions"})

(* Postgres: update .. from the tables of the joins, their conditions last.      *)
CompileUpdateFrom(q, values) ==
  CompileExpressions(q.expressions) \o q.from \o CompileUpdateColumns("postgres", values)
    \o Texts(LAMBDA j : j.table, q.joins) \o CompileWheres(q.wheres)
    \o Texts(LAMBDA j : j.wheres, q.joins)
PrepareBindingsForUpdateFrom(q, values) ==
  q.bindings.expressions \o PrepareValuesForMerge("postgres", values) \o q.bindings.where
    \o BindingsBut(q, {"select", "where", "expressions"})

CompileDelete(g, q) ==
  IF ThroughSelect(g, q) THEN q.from \o CompileSelect(SelectsRowid(q))
  ELSE CompileExpressions(q.expressions) \o q.from \o CompileJoins(q.joins)
         \o CompileWheres(q.wheres) \o OrdersOfWrite(g, q)

PrepareBindingsForDelete(q) == BindingsBut(q, {"select"})

CompileInsertUsing(q, sub) == CompileExpressions(q.expressions) \o sub

-------------------------------------------------------------------------------
(* Insert: the columns named are those of the first row, and every row gives one  *)
(* value for each place.                                                        *)
CompileInsert(rows) ==
  [columns |-> [k \in DOMAIN rows[1] |-> rows[1][k].column],
   places |-> Texts(LAMBDA r : Parameterize([k \in DOMAIN r |-> r[k].value]), rows)]

(* The update part of an upsert comes after the rows; a column named alone takes *)
(* the value of the row inserted.                                               *)
CompileUpsert(rows, update) ==
  CompileInsert(rows).places \o Texts(LAMBDA u : Parameter(u.value), update)

===============================================================================
