---------------------------- MODULE BlueprintBuild ----------------------------
(* A schema builder at work on one table: a blueprint is described by calls in a     *)
(* callback, its statements are compiled, and they run one by one. Beside it the     *)
(* table that the calls describe when each takes effect at once, in the order of     *)
(* the calls: only calls that make sense for that table are made.                   *)
EXTENDS SchemaTable, SchemaGrammar
LOCAL INSTANCE Naturals
LOCAL INSTANCE Sequences
LOCAL INSTANCE FiniteSets
LOCAL INSTANCE TLC

CONSTANTS
  Methods,     \* methods that add a column, of those called beside other calls
  Modifiers,   \* what is set on a column, beside change
  Names,       \* names of columns
  MaxCalls,    \* bound: calls in the callbacks of one behaviour
  MaxBuilds    \* bound: blueprints, one after the other

ASSUME BuildAssumption ==
  /\ Methods \subseteq DOMAIN TypeOfMethod
  /\ Modifiers \subseteq {"plain", "nullable", "default", "useCurrent", "storedAs", "comment",
                          "startingValue", "unique", "named", "uniqueOff", "primary", "renameTo"}
  /\ "" \notin Names
  /\ MaxCalls \in Nat /\ MaxBuilds \in Nat

VARIABLES
  grammar,     \* the schema grammar of the connection
  phase,       \* of the blueprint: describing, building, or how it ended
  blueprint,   \* its registry
  statements,  \* those that have not run
  table,       \* the table in the database
  (* What no step of the program reads: *)
  described,   \* the table of the calls
  expected,    \* of the blueprint: Plain, when it was last compiled
  seen,        \* toSql was called before the build
  made,        \* calls so far (bound)
  builds       \* blueprints so far (bound)

vars == <<grammar, phase, blueprint, statements, table, described, expected, seen, made, builds>>

-------------------------------------------------------------------------------
(* The columns of the calls.                                                     *)
IndexPlace(type) == CHOOSE k \in DOMAIN IndexTypes : IndexTypes[k] = type
WithIndex(c, type, value) == [c EXCEPT !.index[IndexPlace(type)] = value]

With(c, modifier) ==
  CASE modifier = "plain" -> c
    [] modifier = "nullable" -> [c EXCEPT !.nullable = TRUE]
    [] modifier = "default" -> [c EXCEPT !.default = "given"]
    [] modifier = "useCurrent" -> [c EXCEPT !.useCurrent = TRUE]
    [] modifier = "storedAs" -> [c EXCEPT !.stored = TRUE]
    [] modifier = "comment" -> [c EXCEPT !.comment = TRUE]
    [] modifier = "startingValue" -> [c EXCEPT !.startingValue = TRUE]
    [] modifier = "unique" -> WithIndex(c, "unique", On)
    [] modifier = "named" -> WithIndex(c, "index", <<"given">>)
    [] modifier = "uniqueOff" -> WithIndex(c, "unique", Off)
    [] modifier = "primary" -> WithIndex(c, "primary", On)
    [] modifier = "renameTo" -> [c EXCEPT !.renameTo = "renamed"]

(* What makes sense of a column: the time of now for a column of a time, a start      *)
(* for one that counts; and no change of a column that counts or is generated.      *)
Sound(c, modifier) ==
  /\ modifier = "useCurrent" => c.type \in CurrentTypes.postgres
  /\ modifier = "startingValue" => c.auto
  /\ modifier \in {"uniqueOff", "renameTo"} => c.change
  /\ c.auto => modifier \notin {"nullable", "default", "storedAs", "primary"}
  /\ c.change => /\ ~c.auto /\ modifier # "storedAs"
                 /\ c.name \in Named(described)
                 /\ ~ColumnNamed(described, c.name).auto
                 /\ ~ColumnNamed(described, c.name).stored

Definitions(methods) ==
  {[ColumnDefinition(m, n) EXCEPT !.change = ch] : m \in methods, n \in Names, ch \in BOOLEAN}

-------------------------------------------------------------------------------
(* The table as described. Names of indexes are those that the code gives, for a      *)
(* call may use them; the types are those of the methods.                          *)
Describes(parts) ==
  LET result == Applied(parts, described)
  IN result.ok /\ described' = result.table

DescribedColumn(c) ==
  [name |-> c.name, type |-> <<c.type, c.unsigned>>, auto |-> c.auto, null |-> c.nullable,
   default |-> IF c.useCurrent THEN "current" ELSE c.default, stored |-> c.stored,
   comment |-> c.comment, start |-> c.startingValue]

AddedIndex(type, columns, name) ==
  AddPart(blueprint, IndexOf(type, IF name = Unset THEN CreateIndexName(blueprint, type, columns)
                                   ELSE name, columns))
DroppedIndex(type, columns, name) ==
  Part("dropIndex", blueprint)
  @@ [kinds |-> {type}, name |-> IF name = Unset THEN CreateIndexName(blueprint, type, columns)
                                 ELSE name]
IndexParts(c) ==
  IF Implying(c) = {} THEN <<>>
  ELSE LET k == FirstOf(Implying(c))
           type == IndexTypes[k]
       IN IF c.index[k] = Off THEN <<DroppedIndex(type, <<c.name>>, Unset)>>
          ELSE <<AddedIndex(type, <<c.name>>, IF c.index[k] = On THEN Unset ELSE c.index[k])>>

(* The columns of a callback of after are found behind one another.                *)
ColumnParts(c, after) ==
  IF c.change
  THEN <<Change(blueprint, c.name, DescribedColumn(c))>> \o Moves(blueprint, c.name, after)
       \o IndexParts(c)
       \o IF c.renameTo = "" THEN <<>>
          ELSE <<Part("renameColumn", blueprint) @@ [from |-> c.name, to |-> c.renameTo]>>
  ELSE <<Part("addColumn", blueprint) @@ [column |-> DescribedColumn(c), after |-> after]>>
       \o (IF c.auto THEN <<AddedIndex("primary", <<c.name>>, Unset)>> ELSE <<>>)
       \o IndexParts(c)

ForeignPart(columns, on) ==
  LET key == ColumnDefinition(References[on], "id")
  IN Part("addForeign", blueprint)
     @@ [foreign |-> [columns |-> columns, on |-> on,
                      name |-> CreateIndexName(blueprint, "foreign", columns)],
         references |-> <<key.type, key.unsigned>>]
DroppedColumns(columns) ==
  [k \in DOMAIN columns |-> Part("dropColumn", blueprint)
                            @@ [column |-> columns[k], keepsDefault |-> FALSE]]

-------------------------------------------------------------------------------
Init ==
  /\ grammar \in Grammars
  /\ phase = "done"
  /\ blueprint = CreateRegistry("table")
  /\ statements = <<>>
  /\ table = Missing /\ described = Missing
  /\ expected = TRUE /\ seen = FALSE
  /\ made = 0 /\ builds = 0

(* What the two tables have in common: a grammar has names of its own for primary     *)
(* keys, SQLite has none for foreign keys, and each has its own types.              *)
Family(type) ==
  CASE type \in TextTypes \union {"tinytext", "mediumtext", "longtext", "varchar", "nvarchar",
                 "nvarchar(max)", "nchar", "inet", "macaddr", "uniqueidentifier"} -> "text"
    [] type \in {"boolean", "tinyint(1)", "bit"} -> "boolean"
    [] type \in {"float", "double", "decimal", "double precision", "numeric"} -> "number"
    [] type \in {"int", "integer", "bigint", "smallint", "mediumint", "tinyint", "year"}
                \union Serials -> "integer"
    [] type \in TimeTypes \union {"datetime", "datetime2", "datetimeoffset",
                 "timestamp with time zone", "time with time zone"} -> "time"
    [] type \in ShapeTypes \union {"geography"} -> "shape"
    [] type \in {"binary", "blob", "bytea", "varbinary(max)"} -> "bytes"
    [] type = "computed" -> type

Common(c) ==
  [name |-> c.name, holds |-> Family(c.type[1]), auto |-> c.auto, default |-> c.default,
   null |-> c.null \/ c.stored, stored |-> c.stored,
   comment |-> c.comment /\ grammar \in {"mysql", "postgres"}]
CommonIndex(i) ==
  [kind |-> i.kind, columns |-> i.columns,
   name |-> IF i.kind = "primary" THEN <<>> ELSE i.name]
CommonForeign(f) ==
  [columns |-> f.columns, on |-> f.on, name |-> IF grammar = "sqlite" THEN <<>> ELSE f.name]

CommonTable(t) ==
  LET columns == [k \in DOMAIN t.columns |-> Common(t.columns[k])]
  IN [exists |-> t.exists, name |-> t.name,
      columns |-> IF grammar = "mysql" THEN columns ELSE Elements(columns),
      indexes |-> {CommonIndex(i) : i \in t.indexes},
      foreigns |-> {CommonForeign(f) : f \in t.foreigns}]

-------------------------------------------------------------------------------
(* A blueprint begins, with the first call of create, drop, dropTableIfExists and     *)
(* rename of the builder; it is for a table whose builds so far went as described.  *)
Begins(calls) ==
  /\ phase = "done" /\ builds < MaxBuilds
  /\ CommonTable(table) = CommonTable(described)
  /\ blueprint' = [CreateRegistry(IF table.exists THEN table.name ELSE "table")
                     EXCEPT !.commands = calls]
  /\ phase' = "describing" /\ seen' = FALSE /\ builds' = builds + 1
  /\ UNCHANGED <<grammar, statements, table, expected, made>>

Name == IF table.exists THEN table.name ELSE "table"

CreateTable ==
  /\ Begins(<<Command("create")>>)
  /\ Describes(<<Part("create", [table |-> Name])>>)
Table == Begins(<<>>) /\ table.exists /\ UNCHANGED described
Drop ==
  /\ Begins(<<Command("drop")>>) /\ Describes(<<Part("drop", [table |-> Name])>>)
DropTableIfExists ==
  /\ Begins(<<Command("dropTableIfExists")>>)
  /\ Describes(<<Part("dropIfExists", [table |-> Name])>>)
Rename ==
  /\ Begins(<<Command("rename") @@ [to |-> "other"]>>)
  /\ Describes(<<Part("rename", [table |-> Name]) @@ [to |-> "other"]>>)

(* A call in the callback: what it makes of the registry, and of the table.           *)
Call(registry, parts) ==
  /\ phase = "describing" /\ ~seen
  /\ \A c \in Elements(blueprint.commands) : c.is \notin {"drop", "dropTableIfExists", "rename"}
  /\ blueprint' = registry
  /\ Describes(parts)
  /\ UNCHANGED <<grammar, phase, statements, table, expected, seen, builds>>

ColumnCall(methods) ==
  \E d \in Definitions(methods), m \in Modifiers :
    LET c == With(d, m)
    IN /\ Sound(c, m)
       /\ Call(AddColumnDefinition(blueprint, c), ColumnParts(c, blueprint.after))

(* A method of any type of column; bound: the only call of a behaviour.             *)
OnlyColumn ==
  /\ made = 0 /\ builds = MaxBuilds
  /\ ColumnCall(DOMAIN TypeOfMethod)
  /\ made' = MaxCalls

(* A foreign id column with its key; the table it is on has a key of that type.       *)
ForeignColumn ==
  \E n \in Names, p \in {<<"foreignId", "ids">>, <<"foreignUlid", "ulids">>} :
    LET c == ColumnDefinition(p[1], n)
    IN Call(Constrained(blueprint, c, p[2]),
            ColumnParts(c, blueprint.after) \o <<ForeignPart(<<n>>, p[2])>>)

MorphsCall ==
  \E key \in {"unsignedBigInteger", "uuid"}, nullable \in BOOLEAN :
    LET b == Morphs(blueprint, key, "m", nullable)
        k == Len(b.columns)
        type == b.columns[k - 1]
        id == b.columns[k]
    IN Call(b, ColumnParts(type, blueprint.after)
               \o ColumnParts(id, IF blueprint.after = "" THEN "" ELSE type.name)
               \o <<AddedIndex("index", MorphColumns("m"), Unset)>>)
DropMorphsCall ==
  Call(DropMorphs(blueprint, "m"),
       <<DroppedIndex("index", MorphColumns("m"), Unset)>> \o DroppedColumns(MorphColumns("m")))

TimestampsCall ==
  LET b == Timestamps(blueprint, "timestamp")
      k == Len(b.columns)
  IN Call(b, ColumnParts(b.columns[k - 1], blueprint.after)
             \o ColumnParts(b.columns[k], IF blueprint.after = "" THEN "" ELSE "created_at"))
DropTimestampsCall ==
  Call(DropTimestamps(blueprint), DroppedColumns(<<"created_at", "updated_at">>))

(* after, for a table there is; its callback makes calls, and ends.                 *)
AfterCall ==
  \E n \in Names :
    /\ phase = "describing" /\ ~seen
    /\ ~Creating(blueprint) /\ blueprint.after = "" /\ n \in Named(described)
    /\ blueprint' = [blueprint EXCEPT !.after = n]
    /\ UNCHANGED <<grammar, phase, statements, table, described, expected, seen, made, builds>>
AfterEnds ==
  /\ phase = "describing" /\ blueprint.after # ""
  /\ blueprint' = [blueprint EXCEPT !.after = ""]
  /\ UNCHANGED <<grammar, phase, statements, table, described, expected, seen, made, builds>>

(* An index on columns, one given by its columns or by its name.                    *)
IndexedColumns == {<<n>> : n \in Names} \union {<<n, o>> : n, o \in Names}
IndexNames == {Unset, <<"given">>}

IndexCall ==
  \E type \in Elements(IndexTypes), columns \in IndexedColumns, name \in IndexNames :
    /\ Cardinality(Elements(columns)) = Len(columns)
    /\ Call(Index(blueprint, type, columns, name), <<AddedIndex(type, columns, name)>>)
DropIndexCall ==
  \E type \in Elements(IndexTypes), columns \in IndexedColumns, name \in IndexNames :
    /\ Cardinality(Elements(columns)) = Len(columns)
    /\ Call(DropIndex(blueprint, type, columns, name), <<DroppedIndex(type, columns, name)>>)
RenameIndexCall ==
  \E i \in described.indexes :
    /\ i.kind # "primary"
    /\ Call(RenameIndex(blueprint, i.name, <<"moved">>),
            <<Part("renameIndex", blueprint) @@ [from |-> i.name, to |-> <<"moved">>]>>)

ForeignCall ==
  \E n \in Names, on \in DOMAIN References :
    Call(Foreign(blueprint, <<n>>, on), <<ForeignPart(<<n>>, on)>>)
DropForeignCall ==
  \E n \in Names :
    LET part == Part("dropForeign", blueprint)
                @@ [name |-> CreateIndexName(blueprint, "foreign", <<n>>)]
    IN \/ Call(DropForeign(blueprint, <<n>>), <<part>>)
       \/ Call(DropConstrainedForeignId(blueprint, n), <<part>> \o DroppedColumns(<<n>>))

DropColumnCall ==
  \E n \in Names : Call(DropColumn(blueprint, <<n>>), DroppedColumns(<<n>>))
RenameColumnCall ==
  \E n \in Names :
    Call(RenameColumn(blueprint, n, "renamed"),
         <<Part("renameColumn", blueprint) @@ [from |-> n, to |-> "renamed"]>>)
CommentCall ==
  Call(AddCommand(blueprint, Command("tableComment")), <<Part("tableComment", blueprint)>>)

(* removeColumn takes back every column of a name, and no command; here one column     *)
(* with no index, which no command is about.                                      *)
ColumnsOf(command) ==
  CASE command.is = "renameColumn" -> {command.from, command.to}
    [] command.is \in DOMAIN DropOf \union DOMAIN KindOfDrop
                      \union {"dropColumn", "foreign", "dropForeign"} -> Elements(command.columns)
    [] OTHER -> {}

RemoveColumnCall ==
  \E c \in Elements(blueprint.columns) :
    /\ ~c.change /\ ~c.auto /\ Implying(c) = {}
    /\ Len(SelectSeq(blueprint.columns, LAMBDA o : o.name = c.name)) = 1
    /\ c.name \notin {o.after : o \in Elements(blueprint.columns)} \union {blueprint.after}
    /\ \A command \in Elements(blueprint.commands) : c.name \notin ColumnsOf(command)
    /\ Call(RemoveColumn(blueprint, c.name), DroppedColumns(<<c.name>>))

CallInCallback ==
  /\ made < MaxCalls /\ made' = made + 1
  /\ \/ ColumnCall(Methods) \/ ForeignColumn \/ MorphsCall \/ DropMorphsCall
     \/ TimestampsCall \/ DropTimestampsCall \/ IndexCall \/ DropIndexCall
     \/ RenameIndexCall \/ ForeignCall \/ DropForeignCall \/ DropColumnCall
     \/ RenameColumnCall \/ CommentCall \/ RemoveColumnCall

-------------------------------------------------------------------------------
(* The conditions under which a build goes as described; each names what the code      *)
(* does otherwise.                                                               *)
Moved(b) ==
  UNION {Elements(c.columns) : c \in Elements(CommandsNamed(b, "dropColumn"))}
  \union UNION {{c.from, c.to} : c \in Elements(CommandsNamed(b, "renameColumn"))}

(* Columns are added and changed before the commands, and indexed after them: no      *)
(* command is about an index that a column implies.                               *)
IndexesOf(command) ==
  CASE command.is = "renameIndex" -> {command.from, command.to}
    [] command.is \in DOMAIN DropOf \union DOMAIN KindOfDrop -> {command.index}
    [] OTHER -> {}
IsPrimary(command) == command.is \in {"primary", "dropPrimary"}

InOrder(b) ==
  \A c \in Elements(b.columns) :
    /\ {c.name, c.renameTo} \intersect Moved(b) = {}
    /\ c.renameTo # "" =>
         /\ Implying(c) = {}
         /\ \A command \in Elements(b.commands) :
              {c.name, c.renameTo} \intersect ColumnsOf(command) = {}
    /\ Implying(c) # {} =>
         \A command \in Elements(b.commands) :
           /\ ImpliedIndex(b, c).index \notin IndexesOf(command)
           /\ ~(IsPrimary(ImpliedIndex(b, c)) /\ IsPrimary(command))
    /\ c.auto => ~\E command \in Elements(b.commands) : IsPrimary(command)
    /\ c.change => /\ ~Creating(b)
                   /\ Len(SelectSeq(b.columns, LAMBDA o : o.name = c.name)) = 1
                   /\ \A command \in Elements(b.commands) :
                        command.is \in {"foreign", "dropForeign"} => c.name \notin ColumnsOf(command)

(* A change moves its column in MySQL, before any column is added.                   *)
Placed(b) ==
  \A k \in DOMAIN b.columns : b.columns[k].change =>
    /\ b.columns[k].after # "" =>
         \A j \in 1 .. k - 1 :
           \/ b.columns[j].change
           \/ b.columns[j].name # b.columns[k].after /\ b.columns[j].after = ""
    /\ b.columns[k].renameTo # "" => \A o \in Elements(b.columns) : o.after # b.columns[k].name

(* What a grammar leaves out without an error.                                     *)
LeftOut(b) ==
  \/ /\ grammar = "sqlite" /\ ~Creating(b)
     /\ \/ CommandsNamed(b, "foreign") # <<>> \/ CommandsNamed(b, "primary") # <<>>
        \/ \E c \in Elements(b.columns) : c.stored \/ c.index[1] # Unset
  \/ grammar = "sqlserver" /\ \E c \in Elements(b.columns) : c.stored
  \/ grammar = "mysql"
     /\ \E c \in Elements(b.columns) : c.useCurrent /\ c.type \notin CurrentTypes.mysql
  \/ grammar # "mysql" /\ \E c \in Elements(b.columns) : c.renameTo # ""

(* Names of primary keys that the code does not know.                               *)
UnknownPrimary(b) ==
  /\ CommandsNamed(b, "dropPrimary") # <<>>
  /\ \/ /\ grammar = "sqlserver"
        /\ \/ \E i \in table.indexes : i.name = <<"system">>
           \/ \E c \in Elements(b.columns) : c.auto
     \/ grammar = "postgres" /\ b.table # "table"

Plain(b) ==
  InOrder(b) /\ (grammar = "mysql" => Placed(b)) /\ ~LeftOut(b) /\ ~UnknownPrimary(b)

(* toSql, for its result only, after the callback; on a table that is not created     *)
(* the build then has the implied commands twice.                                 *)
ToSql ==
  /\ phase = "describing" /\ ~seen /\ blueprint.after = ""
  /\ ~Throws(grammar, blueprint)
  /\ blueprint' = Implied(grammar, blueprint)
  /\ seen' = TRUE /\ expected' = (Plain(blueprint) /\ Creating(blueprint))
  /\ UNCHANGED <<grammar, phase, statements, table, described, made, builds>>

(* build compiles all statements before the first runs.                           *)
Build ==
  /\ phase = "describing" /\ blueprint.after = ""
  /\ blueprint' = Implied(grammar, blueprint)
  /\ IF Throws(grammar, blueprint) THEN phase' = "threw" /\ UNCHANGED statements
     ELSE phase' = "building" /\ statements' = Statements(grammar, blueprint')
  /\ expected' = IF seen THEN expected ELSE Plain(blueprint)
  /\ UNCHANGED <<grammar, table, described, seen, made, builds>>

Statement ==
  /\ phase = "building"
  /\ IF statements = <<>> THEN phase' = "done" /\ UNCHANGED <<statements, table>>
     ELSE LET result == Applied(Head(statements), table)
          IN IF result.ok
             THEN /\ table' = result.table /\ statements' = Tail(statements)
                  /\ UNCHANGED phase
             ELSE phase' = "failed" /\ UNCHANGED <<statements, table>>
  /\ UNCHANGED <<grammar, blueprint, described, expected, seen, made, builds>>

Next ==
  \/ CreateTable \/ Table \/ Drop \/ DropTableIfExists \/ Rename
  \/ CallInCallback \/ OnlyColumn \/ AfterCall \/ AfterEnds \/ ToSql \/ Build \/ Statement

Spec == Init /\ [][Next]_vars

-------------------------------------------------------------------------------
(* A build whose calls each apply to the table that the calls before them describe      *)
(* runs all its statements, however the commands are implied, ordered and compiled,     *)
(* and also when toSql was called before; Plain lists what it may not contain.        *)
BuildSucceeds == phase = "failed" => ~expected

(* Such a build leaves the table that its calls describe: the columns, in their order    *)
(* where the database has one, with their kind, null, default and identity, the         *)
(* indexes and foreign keys by name, and nothing of what was dropped.                 *)
BuiltAsDescribed == phase = "done" /\ expected => CommonTable(table) = CommonTable(described)

===============================================================================
