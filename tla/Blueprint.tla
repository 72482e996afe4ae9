------------------------------- MODULE Blueprint -------------------------------
(* The registry of a blueprint: what its methods keep of the columns and of the     *)
(* commands, and what is implied by them before a build.                           *)
LOCAL INSTANCE Sequences
LOCAL INSTANCE SequencesExt
LOCAL INSTANCE FiniteSets
LOCAL INSTANCE TLC

IndexTypes == <<"primary", "unique", "index", "fulltext", "spatialIndex">>

(* An index of a column: unset, on (with a default name), off, or a name given.    *)
Unset == <<>>
On == <<"on">>
Off == <<"off">>

CreateColumnRegistry(type) ==
  [type |-> type, auto |-> FALSE, unsigned |-> FALSE, nullable |-> FALSE, default |-> "",
   useCurrent |-> FALSE, stored |-> FALSE, comment |-> FALSE, startingValue |-> FALSE,
   change |-> FALSE, renameTo |-> "", after |-> "", name |-> "",
   index |-> [k \in DOMAIN IndexTypes |-> Unset]]

CreateRegistry(table) ==
  [table |-> table, columns |-> <<>>, commands |-> <<>>, after |-> ""]

-------------------------------------------------------------------------------
(* The methods that add a column, with the type of each and what it sets.          *)
Unsigned == [unsignedInteger |-> "integer", unsignedTinyInteger |-> "tinyInteger",
             unsignedSmallInteger |-> "smallInteger",
             unsignedMediumInteger |-> "mediumInteger", unsignedBigInteger |-> "bigInteger",
             unsignedFloat |-> "float", unsignedDouble |-> "double",
             unsignedDecimal |-> "decimal"]
Increments == [id |-> "bigInteger", increments |-> "integer", integerIncrements |-> "integer",
               tinyIncrements |-> "tinyInteger", smallIncrements |-> "smallInteger",
               mediumIncrements |-> "mediumInteger", bigIncrements |-> "bigInteger"]
ForeignIds == [foreignId |-> "bigInteger", foreignUuid |-> "uuid", foreignUlid |-> "char"]
TextTypes == {"char", "string", "tinyText", "text", "mediumText", "longText", "enum", "set",
              "json", "jsonb", "uuid", "ipAddress", "macAddress"}
NumberTypes == {"integer", "tinyInteger", "smallInteger", "mediumInteger", "bigInteger", "float",
                "double", "decimal", "boolean", "year"}
TimeTypes == {"date", "dateTime", "dateTimeTz", "time", "timeTz", "timestamp", "timestampTz"}
ShapeTypes == {"geometry", "point", "lineString", "polygon", "geometryCollection", "multiPoint",
               "multiLineString", "multiPolygon", "multiPolygonZ"}
SameNamed == TextTypes \union NumberTypes \union TimeTypes \union ShapeTypes
             \union {"binary", "computed"}
Others == [softDeletes |-> "timestamp", softDeletesTz |-> "timestampTz",
           softDeletesDatetime |-> "dateTime", ulid |-> "char"]

TypeOfMethod == Unsigned @@ Increments @@ ForeignIds @@ Others @@ [m \in SameNamed |-> m]

ColumnDefinition(method, name) ==
  [CreateColumnRegistry(TypeOfMethod[method]) EXCEPT
     !.name = name,
     !.auto = method \in DOMAIN Increments,
     !.unsigned = method \in DOMAIN Unsigned \union DOMAIN Increments \union {"foreignId"},
     !.nullable = method \in {"softDeletes", "softDeletesTz", "softDeletesDatetime"}]

(* Mutant: every column of the callback goes behind the column given.              *)
AddColumnDefinitionAfterGiven(b, definition) ==
  [b EXCEPT !.columns = Append(@, IF b.after = "" THEN definition
                                  ELSE [definition EXCEPT !.after = b.after])]

(* The columns of a callback of after go behind one another.                       *)
AddColumnDefinition(b, definition) ==
  IF b.after = "" THEN [b EXCEPT !.columns = Append(@, definition)]
  ELSE [b EXCEPT !.columns = Append(@, [definition EXCEPT !.after = b.after]),
                 !.after = definition.name]

RemoveColumn(b, name) == [b EXCEPT !.columns = SelectSeq(@, LAMBDA c : c.name # name)]

AddCommand(b, command) == [b EXCEPT !.commands = Append(@, command)]
Command(is) == [is |-> is, skipped |-> FALSE]

-------------------------------------------------------------------------------
(* An index without a name, and one to drop by its columns, is named by the table,  *)
(* the columns and the type: the name is this triple. In the code it is a text in  *)
(* lower case, after the prefix, and '_' stands for '-' and '.': two triples could  *)
(* have one name, those of the columns and tables of a run have not.               *)
CreateIndexName(b, type, columns) == <<b.table, columns, type>>

IndexCommand(b, is, columns, name) ==
  Command(is) @@ [columns |-> columns,
                  index |-> IF name = Unset THEN CreateIndexName(b, is, columns) ELSE name]

DropOf == [primary |-> "dropPrimary", unique |-> "dropUnique", index |-> "dropIndex",
           fulltext |-> "dropFulltext", spatialIndex |-> "dropSpatialIndex"]

DropIndexCommand(b, type, columns, name) ==
  IndexCommand(b, DropOf[type], columns,
               IF name = Unset THEN CreateIndexName(b, type, columns) ELSE name)

ForeignKeyCommand(b, columns, on) ==
  IndexCommand(b, "foreign", columns, Unset) @@ [on |-> on]
DropForeignKeyCommand(b, columns) ==
  IndexCommand(b, "dropForeign", columns, CreateIndexName(b, "foreign", columns))

(* The methods for indexes and foreign keys.                                     *)
Index(b, type, columns, name) == AddCommand(b, IndexCommand(b, type, columns, name))
DropIndex(b, type, columns, name) == AddCommand(b, DropIndexCommand(b, type, columns, name))
Foreign(b, columns, on) == AddCommand(b, ForeignKeyCommand(b, columns, on))
DropForeign(b, columns) == AddCommand(b, DropForeignKeyCommand(b, columns))
RenameIndex(b, from, to) ==
  AddCommand(b, Command("renameIndex") @@ [from |-> from, to |-> to])

(* constrained of a foreign id column.                                           *)
Constrained(b, definition, on) ==
  Foreign(AddColumnDefinition(b, definition), <<definition.name>>, on)

DropColumn(b, columns) == AddCommand(b, Command("dropColumn") @@ [columns |-> columns])
RenameColumn(b, from, to) ==
  AddCommand(b, Command("renameColumn") @@ [from |-> from, to |-> to])
DropConstrainedForeignId(b, column) == DropColumn(DropForeign(b, <<column>>), <<column>>)

(* The columns of a polymorphic relation and their index; those of a table that     *)
(* keeps the times of its rows.                                                  *)
MorphType(name) == name \o "_type"
MorphId(name) == name \o "_id"
MorphColumns(name) == <<MorphType(name), MorphId(name)>>

Morphs(b, key, name, nullable) ==
  LET type == [ColumnDefinition("string", MorphType(name)) EXCEPT !.nullable = nullable]
      id == [ColumnDefinition(key, MorphId(name)) EXCEPT !.nullable = nullable]
  IN Index(AddColumnDefinition(AddColumnDefinition(b, type), id), "index",
           MorphColumns(name), Unset)

DropMorphs(b, name) ==
  DropColumn(DropIndex(b, "index", MorphColumns(name), Unset), MorphColumns(name))

Timestamps(b, method) ==
  LET Nullable(name) == [ColumnDefinition(method, name) EXCEPT !.nullable = TRUE]
  IN AddColumnDefinition(AddColumnDefinition(b, Nullable("created_at")), Nullable("updated_at"))
DropTimestamps(b) == DropColumn(b, <<"created_at", "updated_at">>)

-------------------------------------------------------------------------------
(* What a build adds to the blueprint first.                                     *)
GetAddedColumns(b) == SelectSeq(b.columns, LAMBDA c : ~c.change)
GetChangedColumns(b) == SelectSeq(b.columns, LAMBDA c : c.change)
Creating(b) == \E k \in DOMAIN b.commands : b.commands[k].is = "create"

(* The type of index of a column that makes a command: the first one that is set.   *)
Implying(c) ==
  {k \in DOMAIN IndexTypes : /\ c.index[k] # Unset
                             /\ c.index[k] = Off => c.change}
FirstOf(S) == CHOOSE k \in S : \A j \in S : k <= j

ImpliedIndex(b, c) ==
  LET k == FirstOf(Implying(c))
      type == IndexTypes[k]
  IN CASE c.index[k] = On -> IndexCommand(b, type, <<c.name>>, Unset)
       [] c.index[k] = Off -> DropIndexCommand(b, type, <<c.name>>, Unset)
       [] OTHER -> IndexCommand(b, type, <<c.name>>, c.index[k])

Reset(c) ==
  IF Implying(c) = {} THEN c ELSE [c EXCEPT !.index[FirstOf(Implying(c))] = Unset]

WithIndexCommands(b) ==
  FoldLeft(LAMBDA r, c : IF Implying(c) = {} THEN r ELSE AddCommand(r, ImpliedIndex(b, c)),
           b, b.columns)

(* Mutant: the index stays on the column.                                        *)
AddIndexesKept(b) == WithIndexCommands(b)

AddIndexes(b) ==
  [WithIndexCommands(b) EXCEPT !.columns = [k \in DOMAIN @ |-> Reset(@[k])]]

(* The commands of a grammar for each column.                                    *)
AddCommands(b, names) ==
  LET Of(c) == [k \in DOMAIN names |-> Command(names[k]) @@ [column |-> c]]
  IN FoldLeft(LAMBDA r, c : [r EXCEPT !.commands = @ \o Of(c)], b, b.columns)

ImplyFirst(b, is) == [b EXCEPT !.commands = <<Command(is)>> \o @]

AddImpliedCommands(b, names) ==
  LET added == IF GetAddedColumns(b) # <<>> /\ ~Creating(b) THEN ImplyFirst(b, "add") ELSE b
      changed == IF GetChangedColumns(b) # <<>> /\ ~Creating(b) THEN ImplyFirst(added, "change")
                 ELSE added
  IN AddCommands(AddIndexes(changed), names)

===============================================================================
