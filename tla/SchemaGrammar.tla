----------------------------- MODULE SchemaGrammar -----------------------------
(* The schema grammars: the type of a column, and the statements that a command of  *)
(* a blueprint becomes, each a sequence of the parts of SchemaTable.               *)
EXTENDS Blueprint
LOCAL INSTANCE Sequences
LOCAL INSTANCE SequencesExt
LOCAL INSTANCE FiniteSetsExt
LOCAL INSTANCE TLC

Grammars == {"mysql", "postgres", "sqlite", "sqlserver"}

Only(types, type) == [t \in types |-> type]

-------------------------------------------------------------------------------
(* The type of each kind of column, by its name in the database.                   *)
BaseTypes ==
  [char |-> "char", string |-> "varchar", tinyText |-> "tinytext", text |-> "text",
   mediumText |-> "mediumtext", longText |-> "longtext", bigInteger |-> "bigint",
   integer |-> "int", mediumInteger |-> "mediumint", tinyInteger |-> "tinyint",
   smallInteger |-> "smallint", float |-> "float", double |-> "double",
   decimal |-> "decimal", boolean |-> "boolean", enum |-> "enum", json |-> "json",
   jsonb |-> "jsonb"]
BaseTimes ==
  [date |-> "date", dateTime |-> "datetime", dateTimeTz |-> "datetime", time |-> "time",
   timeTz |-> "time", timestamp |-> "timestamp", timestampTz |-> "timestamp"]
BaseOthers ==
  [year |-> "year", binary |-> "blob", uuid |-> "uuid", ipAddress |-> "inet",
   macAddress |-> "macaddr"]
BaseShapes == Only(ShapeTypes \ {"multiPolygonZ"}, "geometry")
GetTypes == BaseTypes @@ BaseTimes @@ BaseOthers @@ BaseShapes

MysqlTypes ==
  [float |-> "double", boolean |-> "tinyint(1)", set |-> "set", jsonb |-> "json",
   uuid |-> "char", ipAddress |-> "varchar", macAddress |-> "varchar"] @@ GetTypes

PostgresShapes == Only(ShapeTypes, "geography")
PostgresTypes ==
  [tinyText |-> "varchar", mediumText |-> "text", longText |-> "text",
   integer |-> "integer", mediumInteger |-> "integer", tinyInteger |-> "smallint",
   float |-> "double precision", double |-> "double precision", enum |-> "varchar",
   dateTime |-> "timestamp", dateTimeTz |-> "timestamp with time zone",
   timeTz |-> "time with time zone", timestampTz |-> "timestamp with time zone",
   year |-> "integer", binary |-> "bytea"]
  @@ PostgresShapes @@ GetTypes

SqliteTimes ==
  Only({"dateTime", "dateTimeTz", "timestamp", "timestampTz"}, "datetime")
  @@ [timeTz |-> "time"]
SqliteOthers ==
  [year |-> "integer"] @@ Only({"uuid", "ipAddress", "macAddress"}, "varchar")
SqliteTypes ==
  Only({"char", "string", "enum"}, "varchar")
  @@ Only({"tinyText", "mediumText", "longText", "json", "jsonb"}, "text")
  @@ Only({"bigInteger", "integer", "mediumInteger", "tinyInteger", "smallInteger"}, "integer")
  @@ [double |-> "float", decimal |-> "numeric", boolean |-> "tinyint(1)"]
  @@ SqliteTimes @@ SqliteOthers @@ GetTypes

SqlserverTimes ==
  Only({"dateTime", "timestamp"}, "datetime2")
  @@ Only({"dateTimeTz", "timestampTz"}, "datetimeoffset")
SqlserverOthers ==
  [year |-> "int", binary |-> "varbinary(max)", uuid |-> "uniqueidentifier"]
  @@ Only({"ipAddress", "macAddress"}, "nvarchar")
SqlserverShapes ==
  Only(ShapeTypes \ {"multiPolygonZ"}, "geography") @@ [computed |-> "computed"]
SqlserverTypes ==
  Only({"text", "mediumText", "longText", "json", "jsonb"}, "nvarchar(max)")
  @@ Only({"string", "tinyText", "enum"}, "nvarchar")
  @@ [char |-> "nchar", mediumInteger |-> "int", double |-> "float", boolean |-> "bit"]
  @@ SqlserverTimes @@ SqlserverOthers @@ SqlserverShapes @@ GetTypes

Types == [mysql |-> MysqlTypes, postgres |-> PostgresTypes, sqlite |-> SqliteTypes,
          sqlserver |-> SqlserverTypes]

(* The type as it is compared by a foreign key: only MySQL knows the unsigned ones. *)
GetType(g, c) == <<Types[g][c.type], g = "mysql" /\ c.unsigned>>

(* Types without a compiler throw.                                               *)
Typed(g, c) == c.type \in DOMAIN Types[g]

Serials == {"bigInteger", "integer", "mediumInteger", "smallInteger", "tinyInteger"}
Increment(c) == c.auto /\ c.type \in Serials

(* compileTypeTimestamp and those like it put the default of useCurrent in the      *)
(* column, before its modifiers are compiled.                                    *)
CurrentTypes ==
  [mysql |-> {"dateTime", "timestamp", "timestampTz"}]
  @@ Only({"postgres", "sqlite", "sqlserver"},
          {"dateTime", "dateTimeTz", "timestamp", "timestampTz"})
Default(g, c) == IF c.useCurrent /\ c.type \in CurrentTypes[g] THEN "current" ELSE c.default

(* The modifiers of a column that is added. A null of one that is generated is       *)
(* written by PostgreSQL only, SQL Server does not write what a column is stored    *)
(* as, and only MySQL writes its comment in the column.                           *)
GetColumn(g, c) ==
  [name |-> c.name, type |-> GetType(g, c), auto |-> Increment(c),
   null |-> IF c.stored /\ g \in {"mysql", "sqlite"} THEN TRUE ELSE c.nullable,
   default |-> IF g = "sqlite" /\ c.stored THEN "" ELSE Default(g, c),
   stored |-> c.stored /\ g # "sqlserver",
   comment |-> c.comment /\ g = "mysql", start |-> FALSE]

-------------------------------------------------------------------------------
(* Parts of statements.                                                          *)
Part(do, b) == [do |-> do, table |-> b.table]
AddPart(b, index) == Part("addIndex", b) @@ [index |-> index]
IndexOf(kind, name, columns) == [kind |-> kind, name |-> name, columns |-> columns]

(* The name of a primary key: MySQL and PostgreSQL have their own, SQL Server and    *)
(* the keys in the statement of a column are not named by the code.                *)
PrimaryName(g, b, name) ==
  CASE g = "mysql" -> <<"PRIMARY">> [] g = "postgres" -> <<b.table, "pkey">>
    [] g = "sqlite" -> <<"">> [] OTHER -> name
Primary(g, b, command) ==
  AddPart(b, IndexOf("primary", PrimaryName(g, b, command.index), command.columns))

AddColumn(g, b, c) ==
  <<Part("addColumn", b) @@ [column |-> GetColumn(g, c),
                             after |-> IF g = "mysql" THEN c.after ELSE ""]>>
  \o IF Increment(c)
     THEN <<AddPart(b, IndexOf("primary", PrimaryName(g, b, <<"system">>), <<c.name>>))>>
     ELSE <<>>

Each(s, Op(_)) == FlattenSeq([k \in DOMAIN s |-> Op(s[k])])
GetColumns(g, b) == Each(GetAddedColumns(b), LAMBDA c : AddColumn(g, b, c))
CommandsNamed(b, is) == SelectSeq(b.commands, LAMBDA c : c.is = is)

References == [ids |-> "id", uuids |-> "uuid", ulids |-> "ulid"]
AddForeign(g, b, command, name) ==
  Part("addForeign", b)
  @@ [foreign |-> [columns |-> command.columns, name |-> name, on |-> command.on],
      references |-> GetType(g, ColumnDefinition(References[command.on], "id"))]

(* The first primary key command is part of a create of MySQL and of SQLite, the     *)
(* foreign keys are of one of SQLite.                                            *)
CompileCreate(g, b) ==
  LET primary == CommandsNamed(b, "primary")
      foreign == CommandsNamed(b, "foreign")
  IN <<Part("create", b)>> \o GetColumns(g, b)
     \o (IF g \in {"mysql", "sqlite"} /\ primary # <<>> THEN <<Primary(g, b, primary[1])>>
         ELSE <<>>)
     \o (IF g = "sqlite"
         THEN [k \in DOMAIN foreign |-> AddForeign(g, b, foreign[k], <<"", k>>)]
         ELSE <<>>)

(* compileCreateTable of MySQL marks that command, so that it is skipped.           *)
CompiledCreate(g, b) ==
  LET Marked(k) == b.commands[k].is = "primary"
  IN IF g = "mysql" /\ Creating(b) /\ \E k \in DOMAIN b.commands : Marked(k)
     THEN [b EXCEPT !.commands[FirstOf({k \in DOMAIN b.commands : Marked(k)})].skipped = TRUE]
     ELSE b

(* Columns that SQLite would have to generate are left out of an alter table.       *)
CompileAdd(g, b) ==
  IF g = "sqlite"
  THEN LET kept == SelectSeq(GetAddedColumns(b), LAMBDA c : ~c.stored)
       IN [k \in DOMAIN kept |-> AddColumn(g, b, kept[k])]
  ELSE <<GetColumns(g, b)>>

Change(b, name, set) == Part("changeColumn", b) @@ [column |-> name, set |-> set]
Moves(b, name, after) ==
  IF after = "" THEN <<>>
  ELSE <<Part("moveColumn", b) @@ [column |-> name, after |-> after]>>
DropDefaults(b, columns) ==
  [k \in DOMAIN columns |-> Part("dropDefault", b) @@ [column |-> columns[k]]]

(* MySQL states the whole column again, its new name and its place; PostgreSQL its type, null   *)
(* and default, without the identity; SQL Server its type and null, after the       *)
(* defaults are dropped.                                                         *)
Modify(b, c) ==
  LET column == GetColumn("mysql", c)
      moved == IF c.renameTo = "" THEN <<>>
               ELSE <<Part("renameColumn", b) @@ [from |-> c.name, to |-> c.renameTo]>>
  IN <<Change(b, c.name, column)>> \o Moves(b, c.name, c.after) \o moved
Alter(b, c) ==
  <<Change(b, c.name, [type |-> GetType("postgres", c), null |-> c.nullable,
                       default |-> Default("postgres", c), auto |-> FALSE])>>
AlterTyped(b, c) ==
  <<Change(b, c.name, [type |-> GetType("sqlserver", c), null |-> c.nullable])>>

CompileChange(g, b) ==
  LET changed == GetChangedColumns(b)
  IN CASE g = "mysql" -> <<Each(changed, LAMBDA c : Modify(b, c))>>
       [] g = "postgres" -> <<Each(changed, LAMBDA c : Alter(b, c))>>
       [] OTHER -> <<DropDefaults(b, [k \in DOMAIN changed |-> changed[k].name])>>
                   \o [k \in DOMAIN changed |-> AlterTyped(b, changed[k])]

-------------------------------------------------------------------------------
(* The commands that stand for a column.                                         *)
CompileComment(b, c) ==
  IF c.comment \/ c.change THEN <<<<Change(b, c.name, [comment |-> c.comment])>>>> ELSE <<>>
CompileDefault(b, c) ==
  IF c.change /\ Default("sqlserver", c) # ""
  THEN <<<<Part("addDefault", b)
           @@ [column |-> c.name, default |-> Default("sqlserver", c)]>>>>
  ELSE <<>>
CompileAutoIncrementStartingValues(b, c) ==
  IF c.auto /\ c.startingValue THEN <<<<Change(b, c.name, [start |-> TRUE])>>>> ELSE <<>>

DropColumnPart(g, b, name) ==
  Part("dropColumn", b) @@ [column |-> name, keepsDefault |-> g = "sqlserver"]

CompileDropColumn(g, b, command) ==
  LET parts == [k \in DOMAIN command.columns |-> DropColumnPart(g, b, command.columns[k])]
  IN CASE g = "sqlite" -> [k \in DOMAIN parts |-> <<parts[k]>>]
       [] g = "sqlserver" -> <<DropDefaults(b, command.columns) \o parts>>
       [] OTHER -> <<parts>>

CompileRenameColumn(b, command) ==
  <<<<Part("renameColumn", b) @@ [from |-> command.from, to |-> command.to]>>>>

(* Indexes. The primary key of SQLite is part of its create; a unique key of           *)
(* PostgreSQL is a constraint, which is dropped as one.                            *)
CompileIndex(g, b, command) ==
  IF command.is = "primary"
  THEN IF g = "sqlite" THEN <<>> ELSE <<<<Primary(g, b, command)>>>>
  ELSE <<<<AddPart(b, IndexOf(command.is, command.index, command.columns))>>>>

KindOfDrop == [dropPrimary |-> "primary", dropUnique |-> "unique", dropIndex |-> "index",
               dropFulltext |-> "fulltext", dropSpatialIndex |-> "spatialIndex"]
CompileDropIndex(g, b, command) ==
  LET kind == KindOfDrop[command.is]
      plain == {"index", "fulltext", "spatialIndex"}
  IN <<<<Part("dropIndex", b)
         @@ [name |-> IF kind = "primary" THEN PrimaryName(g, b, command.index)
                      ELSE command.index,
             kinds |-> IF kind = "primary" THEN {kind}
                       ELSE IF g # "postgres" THEN plain \union {"unique"}
                       ELSE IF kind = "unique" THEN {"unique", "primary"} ELSE plain]>>>>

CompileRenameIndex(b, command) ==
  <<<<Part("renameIndex", b) @@ [from |-> command.from, to |-> command.to]>>>>

CompileForeign(g, b, command) ==
  IF g = "sqlite" THEN <<>> ELSE <<<<AddForeign(g, b, command, command.index)>>>>
CompileDropForeign(b, command) ==
  <<<<Part("dropForeign", b) @@ [name |-> command.index]>>>>

CompileRename(b, command) == <<<<Part("rename", b) @@ [to |-> command.to]>>>>

-------------------------------------------------------------------------------
(* The commands of a grammar for each column, and those it has no compiler for,      *)
(* which throw.                                                                  *)
GetCommands ==
  [mysql |-> <<"autoIncrementStartingValues">>,
   postgres |-> <<"autoIncrementStartingValues", "comment">>,
   sqlite |-> <<>>, sqlserver |-> <<"default">>]

Unsupported ==
  [mysql |-> {}, postgres |-> {},
   sqlite |-> {"change", "dropPrimary", "fulltext", "dropFulltext", "spatialIndex",
               "dropSpatialIndex", "dropForeign", "tableComment", "renameIndex"},
   sqlserver |-> {"fulltext", "dropFulltext", "tableComment"}]

(* The blueprint as toSql leaves it, what it throws for, and its statements.         *)
Implied(g, b) == CompiledCreate(g, AddImpliedCommands(b, GetCommands[g]))

Throws(g, b) ==
  LET i == Implied(g, b)
  IN \/ \E k \in DOMAIN i.commands : i.commands[k].is \in Unsupported[g]
     \/ \E k \in DOMAIN b.columns :
          (b.columns[k].change => ~Creating(b)) /\ ~Typed(g, b.columns[k])
     \/ g = "postgres" /\ ~Creating(b)
        /\ \E k \in DOMAIN b.columns : b.columns[k].change /\ b.columns[k].stored

CompileCommand(g, b, command) ==
  CASE command.is = "create" -> <<CompileCreate(g, b)>>
    [] command.is = "add" -> CompileAdd(g, b)
    [] command.is = "change" -> CompileChange(g, b)
    [] command.is = "autoIncrementStartingValues" ->
         CompileAutoIncrementStartingValues(b, command.column)
    [] command.is = "comment" -> CompileComment(b, command.column)
    [] command.is = "default" -> CompileDefault(b, command.column)
    [] command.is = "dropColumn" -> CompileDropColumn(g, b, command)
    [] command.is = "renameColumn" -> CompileRenameColumn(b, command)
    [] command.is \in DOMAIN DropOf -> CompileIndex(g, b, command)
    [] command.is \in DOMAIN KindOfDrop -> CompileDropIndex(g, b, command)
    [] command.is = "renameIndex" -> CompileRenameIndex(b, command)
    [] command.is = "foreign" -> CompileForeign(g, b, command)
    [] command.is = "dropForeign" -> CompileDropForeign(b, command)
    [] command.is = "rename" -> CompileRename(b, command)
    [] command.is = "drop" -> <<<<Part("drop", b)>>>>
    [] command.is = "dropTableIfExists" -> <<<<Part("dropIfExists", b)>>>>
    [] command.is = "tableComment" -> <<<<Part("tableComment", b)>>>>

(* Of the blueprint as toSql left it.                                            *)
Statements(g, i) ==
  Each(SelectSeq(i.commands, LAMBDA c : ~c.skipped), LAMBDA c : CompileCommand(g, i, c))

===============================================================================
