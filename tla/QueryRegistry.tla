----------------------------- MODULE QueryRegistry -----------------------------
(* The registry of a query builder: the clauses of the query and, apart from    *)
(* them, the values bound to it, by type.                                       *)
(* SQL text is abstracted to the places it leaves for values, in their order: a *)
(* place is named by the value that belongs there.                              *)
EXTENDS Integers, Sequences, SequencesExt

(* A bound value is a positive number; an Expression is SQL and is not bound.    *)
Expression == 0
Clean(values) ==
  FlattenSeq([i \in DOMAIN values |-> IF values[i] = Expression THEN <<>> ELSE <<values[i]>>])

(* The order of the types in bindings.                                          *)
BindingTypes == <<"expressions", "select", "from", "join", "where", "groupBy",
                  "having", "order", "union", "unionOrder">>

(* A clause of a where or having: its type, the text of its column, its values   *)
(* (those of its text, when it is raw, a subquery or a nested group: the builder   *)
(* of a group is not changed when its callback is over).                        *)
(* The types of the code are six by what they do with their values: "Compare"    *)
(* (Basic, Bitwise, Json.., Date, Time, Day, Month, Year, Fulltext), "Between",   *)
(* "In" (In, RowValues), "Raw" (Raw, Sub, Exists, In of a subquery), "Nested" and *)
(* "Plain" (Expression, Column, Null, InRaw, BetweenColumns, JsonContainsKey).    *)
Clause(type, column, values) == [type |-> type, column |-> column, values |-> values]
Nested(text) == Clause("Nested", <<>>, text)

(* columns, expressions, groups, orders and unions hold texts; a column list that *)
(* is null is empty. A limit or an offset is there or not.                      *)
CreateRegistry ==
  [bindings |-> [t \in {BindingTypes[i] : i \in DOMAIN BindingTypes} |-> <<>>],
   aggregate |-> FALSE, columns |-> <<>>, from |-> <<>>,
   expressions |-> <<>>, joins |-> <<>>, wheres |-> <<>>, groups |-> <<>>,
   havings |-> <<>>, orders |-> <<>>, limit |-> FALSE, offset |-> FALSE,
   unions |-> <<>>, unionExpressions |-> <<>>, unionOrders |-> <<>>]

AddBinding(q, values, type) == [q EXCEPT !.bindings[type] = @ \o values]

(* Mutant: the bindings of a union before those of having.                      *)
GetBindingsUnionFirst(q) ==
  LET order == <<"expressions", "select", "from", "join", "where", "groupBy",
                 "union", "having", "order", "unionOrder">>
  IN FlattenSeq([i \in DOMAIN order |-> q.bindings[order[i]]])

GetBindings(q) == FlattenSeq([i \in DOMAIN BindingTypes |-> q.bindings[BindingTypes[i]]])

(* All bindings but those of some types, in the same order.                      *)
BindingsBut(q, types) ==
  FlattenSeq([i \in DOMAIN BindingTypes |->
                IF BindingTypes[i] \in types THEN <<>> ELSE q.bindings[BindingTypes[i]]])

(* cloneWithout(properties).cloneWithoutBindings(types).                        *)
CloneWithout(q, properties, types) ==
  LET kept == [p \in DOMAIN q |-> IF p \in properties THEN CreateRegistry[p] ELSE q[p]]
  IN [kept EXCEPT !.bindings = [t \in DOMAIN @ |-> IF t \in types THEN <<>> ELSE @[t]]]

===============================================================================
