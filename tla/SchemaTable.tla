------------------------------ MODULE SchemaTable ------------------------------
(* A table of the database, which is external, and what the statements of a       *)
(* build do to it. Where the four databases differ the strictest of them counts:   *)
(* a column that an index or a foreign key needs is not dropped, nor given another *)
(* type where a foreign key needs it. The tables have no rows, and what a database *)
(* asks of the type of a column that is generated, or of one that is added to a     *)
(* table of SQLite, is left out.                                                   *)
LOCAL INSTANCE Sequences
LOCAL INSTANCE SequencesExt

Missing == [exists |-> FALSE, name |-> "", columns |-> <<>>, indexes |-> {}, foreigns |-> {}]

Named(t) == {t.columns[k].name : k \in DOMAIN t.columns}
Place(t, n) == CHOOSE k \in DOMAIN t.columns : t.columns[k].name = n
ColumnNamed(t, n) == t.columns[Place(t, n)]
Without(t, ns) == [t EXCEPT !.columns = SelectSeq(@, LAMBDA c : c.name \notin ns)]
Elements(s) == {s[k] : k \in DOMAIN s}

(* A column is put behind the one named by after, or at the end.                 *)
Inserted(t, column, after) ==
  [t EXCEPT !.columns = IF after = "" THEN Append(@, column)
                        ELSE InsertAt(@, Place(t, after) + 1, column)]

(* A statement is a record: do names it. The parts of a statement take effect one  *)
(* after the other, and all of them or none.                                     *)
(* What a part needs of the table.                                               *)
Applies(s, t) ==
  \/ s.do = "dropIfExists"
  \/ s.do = "create" /\ ~t.exists
  \/ s.do = "drop" /\ t.exists
  \/ /\ s.do # "create" /\ t.exists /\ t.name = s.table
     /\ \/ s.do \in {"rename", "tableComment"}
        \/ /\ s.do = "addColumn" /\ s.column.name \notin Named(t)
           /\ s.after \in Named(t) \union {""}
           /\ s.column.auto => \A k \in DOMAIN t.columns : ~t.columns[k].auto
        \/ /\ s.do = "changeColumn" /\ s.column \in Named(t)
           /\ \/ "type" \notin DOMAIN s.set \/ s.set.type = ColumnNamed(t, s.column).type
              \/ \A f \in t.foreigns : s.column \notin Elements(f.columns)
        \/ s.do = "moveColumn" /\ s.column \in Named(t) /\ s.after \in Named(t) \ {s.column}
        \/ s.do = "addDefault" /\ s.column \in Named(t) /\ ColumnNamed(t, s.column).default = ""
        \/ s.do = "dropDefault"
        \/ s.do = "renameColumn" /\ s.from \in Named(t) /\ s.to \notin Named(t)
        \/ /\ s.do = "dropColumn" /\ s.column \in Named(t)
           /\ \A i \in t.indexes \union t.foreigns : s.column \notin Elements(i.columns)
           /\ s.keepsDefault => ColumnNamed(t, s.column).default = ""
        \/ /\ s.do = "addIndex" /\ Elements(s.index.columns) \subseteq Named(t)
           /\ \A i \in t.indexes : i.name # s.index.name
           /\ s.index.kind = "primary" => \A i \in t.indexes : i.kind # "primary"
        \/ /\ s.do = "dropIndex"
           /\ \E i \in t.indexes : i.kind \in s.kinds /\ i.name = s.name
        \/ /\ s.do = "renameIndex" /\ s.from # s.to
           /\ \E i \in t.indexes : i.name = s.from
           /\ \A i \in t.indexes : i.name # s.to
        \/ /\ s.do = "addForeign" /\ s.foreign.columns # <<>>
           /\ \A k \in DOMAIN s.foreign.columns :
                /\ s.foreign.columns[k] \in Named(t)
                /\ ColumnNamed(t, s.foreign.columns[k]).type = s.references
           /\ \A f \in t.foreigns : f.name # s.foreign.name
        \/ s.do = "dropForeign" /\ \E f \in t.foreigns : f.name = s.name

Renamed(columns, from, to) == [k \in DOMAIN columns |-> IF columns[k] = from THEN to ELSE columns[k]]

(* What a part does to it.                                                       *)
After(s, t) ==
  CASE s.do = "create" -> [Missing EXCEPT !.exists = TRUE, !.name = s.table]
    [] s.do \in {"drop", "dropIfExists"} -> Missing
    [] s.do = "rename" -> [t EXCEPT !.name = s.to]
    [] s.do = "tableComment" -> t
    [] s.do = "addColumn" -> Inserted(t, s.column, s.after)
    [] s.do = "changeColumn" ->
         [t EXCEPT !.columns[Place(t, s.column)] = s.set @@ @]
    [] s.do = "moveColumn" ->
         Inserted(Without(t, {s.column}), ColumnNamed(t, s.column), s.after)
    [] s.do = "addDefault" -> [t EXCEPT !.columns[Place(t, s.column)].default = s.default]
    [] s.do = "dropDefault" ->
         IF s.column \in Named(t) THEN [t EXCEPT !.columns[Place(t, s.column)].default = ""] ELSE t
    [] s.do = "renameColumn" ->
         LET In(i) == [i EXCEPT !.columns = Renamed(@, s.from, s.to)]
         IN [t EXCEPT !.columns[Place(t, s.from)].name = s.to,
                      !.indexes = {In(i) : i \in @}, !.foreigns = {In(f) : f \in @}]
    [] s.do = "dropColumn" -> Without(t, {s.column})
    [] s.do = "addIndex" -> [t EXCEPT !.indexes = @ \union {s.index}]
    [] s.do = "dropIndex" ->
         [t EXCEPT !.indexes = {i \in @ : i.kind \notin s.kinds \/ i.name # s.name}]
    [] s.do = "renameIndex" ->
         [t EXCEPT !.indexes =
            {IF i.name = s.from THEN [i EXCEPT !.name = s.to] ELSE i : i \in @}]
    [] s.do = "addForeign" -> [t EXCEPT !.foreigns = @ \union {s.foreign}]
    [] s.do = "dropForeign" -> [t EXCEPT !.foreigns = {f \in @ : f.name # s.name}]

Step(result, s) ==
  IF result.ok /\ Applies(s, result.table) THEN [ok |-> TRUE, table |-> After(s, result.table)]
  ELSE [ok |-> FALSE, table |-> result.table]

(* All parts of a statement, from the table t: whether they apply, and to what     *)
(* they lead.                                                                    *)
Applied(parts, t) == FoldLeft(Step, [ok |-> TRUE, table |-> t], parts)

===============================================================================
