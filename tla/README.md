# TLA+ specifications of ludb

ludb is a database layer for Node.js: a query builder, a schema builder and a
connection object over the `lupdo` drivers. Everything that is not text
generation is asynchronous code around a few pieces of mutable state: a
session, its transaction, a connection pool, a cache. These modules model that
state, the code that changes it, and what it promises. All names are those of
the source; `PROJECT.json` gives, for each definition, the lines it stands for.

## The system

| part | source | state | operations | interacts with |
|---|---|---|---|---|
| connection session | `connections/connection-session.ts` | transaction level, transaction object, held-back events, pretend and log flags, cache options | `select` ... `unprepared`, `beginTransaction`, `commit`, `rollBack`, `transaction`, `pretend`, `withoutPretending` | the driver's transaction object, the pool, the event dispatcher, the cache manager |
| driver connection | `connections/connection.ts` | three pools (write, read, schema), dispatcher, cache manager, hooks | `session`, `reconnect`, `disconnect`, one-shot query methods | creates one session for each call |
| database manager | `database-manager.ts` | connections by name, extensions, configuration | `connection`, `purge`, `disconnect`, `reconnect`, `terminate` | driver connections, the cache manager |
| cache manager | `cache-manager.ts` | cache per connection | `get`, `store`, `isExpired`, `terminate` | an external cache driver |
| query builder | `query/common-grammar-builder.ts`, `query/base-query-builder.ts`, `query/registry.ts` | the registry of one query: clauses and bindings | clause methods, `chunk`, `lazy`, `paginate`, `cursorPaginate`, `updateOrInsert`, `truncate` | one session, one grammar |
| query grammars | `query/grammars/*.ts` | none | compile a registry to SQL | the registry |
| paginators | `paginations/*.ts` | one page of items and its counters | page arithmetic, cursors | the query builder |
| schema builder | `schema/builders/*.ts`, `schema/blueprint.ts` | the columns and commands of one blueprint | `create`, `table`, `build`, `withoutForeignKeyConstraints` | a session on the schema pool |
| schema grammars | `schema/grammars/*.ts` | none | compile columns and commands to SQL | the blueprint |
| connectors, bindings, types, events, errors | `connectors/`, `bindings/`, `types/`, `events/`, `errors/` | none | configuration, value conversion, declarations | the parts above |

What makes the parts hard:

- a session has one transaction level for every promise that runs on it, and it
  reads that level after an `await`;
- every await can be rejected, and errors are told apart by their message only
  (`utils.ts`): a lost connection, a concurrency error, anything else, each with
  a recovery path of its own;
- the session keeps a level and a list of held-back events, the server keeps
  savepoints: both must stay the same story;
- a pool is finite, and a transaction holds one of its connections until every
  way out of the transaction gives it back;
- flags set before a callback and reset after it (`pretend`, `onceWithColumns`,
  `withoutForeignKeyConstraints`) are not reset when the callback throws, or
  reset before it ends;
- pages, chunks and cursors are read while rows change;
- a registry is compiled in one order and its bindings are flattened in another
  place; they must agree on every placeholder.

## What makes each part correct

| part | it is correct when | stated as |
|---|---|---|
| session, manual control | a rollback to a level restores what that level found; only the outermost commit makes anything durable; events after a commit are those of committed queries; no way out keeps a pool connection | `ImplementsNested`, `AnnouncedIsDurable`, `OutermostAnnounced`, `IdleHoldsNothing` |
| session, `transaction()` | a call is all or nothing, its retries do not add up, nothing of it is left behind, it settles | `ThrewIsUndone`, `ReturnedIsDurable`, `OneAttemptDurable`, `NothingLeftOpen`, `CallsSettle` |
| session, parallel statements | the same while branches of the callback go on after it rejected | `SequentialIsAtomic`, `ParallelReturned`, `OnlyStragglersEscape`, `ParallelAnnouncedIsDurable` |
| dry run | a dry run executes nothing and ends with its callback | `DryRunExecutesNothing`, `OthersExecuted`, `PretendReturnsItsQueries`, `RestoredOutside` |
| select cache | nothing older than its duration is served | `ServedWithinDuration`, `EntryWithinTime` |
| chunks | by id: no row missed, none twice; by position: a bounded drift | `ByIdOnce`, `ByIdComplete`, `OffsetDrift`, `EachIndex`, `ReadingEnds` |
| cursors | the next page follows exactly, the previous one precedes | `NextIsFollowing`, `ForwardComplete`, `PreviousStaysBefore`, `PreviousIsPreceding` |
| registry and grammars | one value for each placeholder, in its order; a read changes nothing | `SelectBound`, `CountBound`, `WriteBound`, `InsertBound`, `ReadsRepeat` |
| connections, manager | no pool is lost, none is open after a terminate, a reconnect returns open ones, but for what overlapping calls explain | `LostPoolExplained`, `TerminatedClosed`, `ReconnectedUsable` |
| blueprint, schema grammars | the statements of a build run, and lead to the table its calls describe | `BuildSucceeds`, `BuiltAsDescribed` |

## The modules

**PdoTransaction** is external: the transaction object of `lupdo` and the server
behind it, from how `connection-session.ts` uses them. `conn` is the state of the
one pool connection a transaction holds, `work` what it has applied, `saves` the
server's savepoints with what each would restore, `durable` what is committed.
Every call ends with a result: `ok` or the class `utils.ts` puts its error in
(`causedByLostConnection`, `causedByConcurrencyError`, neither). Assumed of it: a
completed transaction object rejects every later call; `commit` and `rollback`
release the connection whatever happens (connection-session.ts:780 and 873 rely
on it); a commit whose connection is lost may or may not have been applied;
savepoints are supported; of two savepoints of one name the newest is found.

**ConnectionSession** is a session under manual control. One action is one
awaited call from start to end: `BeginTransaction` (`createTransaction`, real or
savepoint), `PerformCommit` (`commit`, `doRealCommit`, `handleCommitError`,
`fireAfterCommitEvent`), `RollBack` (`rollBack(toLevel)`, `performRollBack`,
`handleRollBackError` with the second rollback it makes on a lost connection),
`RunQuery` (`run`, `getPdo`, `handleQueryError`, `logQuery`). `LoseConnection` is
the server going away between two calls. `transactions` is the level,
`afterCommit` the `QueryExecuted` events held back with their level, `announced`
the queries whose event with `inTransaction` false was emitted; `queryLevel` is
history. A call made inside an open call is the subject of ParallelCallback.

**NestedTransaction** is the abstract specification: levels that remember what
they found, no savepoints, no names, no connection. ConnectionSession implements
it (`ImplementsNested`) with `held` the server's work, `doomed` a level above 0
without a live connection, and for each level what the newest savepoint of its
name holds: the point is that names are reused after a nested commit, which
releases nothing.

**TransactionCall** composes ConnectionSession with `transaction(callback,
attempts)`. `frames` is the stack of calls, `mode` where the innermost one is
(awaiting `beginTransaction`, in its callback, with an error on its way out),
`calls` and `path` are history. The callback is any program: statements, nested
calls, a return or a throw. `CallbackReturn` is `performCommit` and
`handleCommitTransactionError`, `NestedDeadlock` and `HandleError` are the two
halves of `handleTransactionError`, `MayRetry` the condition of the loop.

**ParallelCallback** is one call of `transaction()` split at every await, with a
callback that awaits `Promise.all` of branches. A statement reads the level in
`getPdo` when it is sent (`Send`), in `handleQueryError` when it fails (`Failed`)
and in `logQuery` when it succeeds (`LogQuery`); a statement on the pool awaits
`close()` between the last two (`Executed`, `Closed`). Branches of an attempt that
failed go on during its rollback and during the next attempt, each with the
transaction object it was sent on.

**SessionPretend** is `pretend`, `withoutPretending`, the query log and the
`pretending` guard of every query method. A frame records what the TypeScript
call keeps in its closure; `wanted` and `returned` are history.

**SelectCache** is `select` through the cache manager for one key: `DriverGet`,
`Hit` or `Expired`, `Query` or `QueryFails`, `Store`, each an await that other
selects, writes, a transaction and evictions come between. The driver is external
and modelled after the one CACHE.md describes: it keeps expired entries and goes
by time and duration.

**ChunkPaging** is `chunk`, `each`, `chunkMap`, `chunkById`, `eachById`, `lazy`,
`lazyById` and the Desc variants, one reading of one method. The table is the set
of ids the query selects; `Enter` and `Leave` are writes by anyone, the callback
included. `IsPage` is the limit and offset of `forPage`, or the condition of
`forPageAfterId`; `Advance` is the end of the loop body. It is checked directly,
without an MC module.

**CursorPagination** is `cursorPaginate` and `CursorPaginator`: a row is the tuple
of its order columns, `Selected` the nested conditions of
`paginateUsingCursor`, `Directions` what `ensureOrderForCursorPagination` makes of
the order, `Paginate` the constructor that slices and reverses, `NextCursor` and
`PreviousCursor` the links. The reader follows links while rows come and go.

**QueryRegistry**, **QueryBuilder**, **QueryGrammar**, **QueryStatement** are the
query builder and its grammars. A value is a number, SQL text the sequence of the
values its placeholders stand for, so that a statement is right when its text and
its bindings are the same sequence. QueryRegistry is the registry of
`registry.ts` with its bindings by type and `getBindings`; QueryBuilder has one
function from registry to registry for each kind of clause
`common-grammar-builder.ts` and `join-clause.ts` add, with what it binds;
QueryGrammar has what each grammar compiles, in the order it writes the clauses,
and the bindings it prepares for a write. QueryStatement puts them together: a
state is one builder in one grammar, an action one call, with values not used
before, or one statement with what it leaves in the builder
(`applyBeforeQueryCallbacks`, the order of SQL Server, the columns of a write
through a select). What a statement would send now is an operator of the state
(`SelectSent`, `AggregateSent`, `UpdateSent` ...): the invariants look at every
statement in every state. A nested group and the joins of a join keep the texts
their builders had when the callback was over: nothing changes them afterwards.

**DatabaseManager** is `connection`, `purge`, `disconnect`, `reconnect` and
`terminate` of the manager with `disconnect` and `reconnect` of a connection and
its two or three pools. A call is a record of `calls`: what it does, where it
awaits (`at`) and the pools it awaits (`waits`). `connection` is one step. A
pool is external: `Disconnected`, `Reopened` and `NotReopened` are its answers,
rejections included, in any order; `Promise.allSettled` waits for all
(`AllSettled`), `Promise.all` throws at the first rejection while the others go
on (`NotReopened` sets `threw`, `Reopened` still opens). `opened`, `closed` and
`failed` are history.

**Blueprint**, **SchemaGrammar**, **SchemaTable**, **BlueprintBuild** are the schema
builder. Blueprint is the registry of `blueprint.ts`: the columns and commands its
methods keep, and `addImpliedCommands`. SchemaGrammar has the type of each kind of
column in each grammar, and what each command is compiled to: a statement is a
sequence of parts (add this column, drop that index), so that the SQL is
represented by its effect. SchemaTable, external, is a table and what a statement
needs of it and does to it. BlueprintBuild is a builder at work: `CreateTable`,
`Table`, `Drop`, `DropTableIfExists` and `Rename` begin a blueprint, each call in
the callback is an action, `ToSql` compiles it for a look, `Build` for good, and
`Statement` runs the statements one by one. `table` is the table in the database;
`described` is the abstract specification, the same kind of table on which every
call takes effect at once, in the order it is written. `CommonTable` is what the
two can have in common in a grammar: a kind of type instead of its name, no names
for primary keys.

**SessionProofs** (of ConnectionSession and TransactionCall), **ParallelCallbackProofs**,
**SessionPretendProofs**, **SelectCacheProofs**, **ChunkPagingProofs**,
**CursorPaginationProofs**, **QueryStatementProofs** and **DatabaseManagerProofs** hold
the theorems. The MC modules declare the symmetry of their runs. Definitions marked
as mutants are the variants the properties are tried against; no specification uses
them.

## The runs

| run | module | states | what it shows |
|---|---|---|---|
| `session_manual` | MCConnectionSession | 61 925 | every order of manual calls and errors: connection given back, only durable queries announced, all of the outermost level announced, the refinement |
| `transaction_calls` | MCTransactionCall | 178 380 | nesting, retries and every error on a server where a deadlock may undo the transaction: all or nothing, one attempt, nothing left, it settles |
| `parallel_callback` | MCParallelCallback | 245 979 | what holds with one awaited branch, and what is left of it with two |
| `session_pretend` | MCSessionPretend | 1 420 | dry runs nested through `withoutPretending`, ended by errors |
| `select_cache` | MCSelectCache | 476 271 | two selects of one entry beside writes and a transaction |
| `chunk_paging` | ChunkPaging | 452 076 | every method beside three writes |
| `cursor_pagination` | CursorPagination | 177 576 | walks in both directions over every small table and mix of directions |
| `query_bindings` | QueryStatement | 323 476 | every sequence of three calls and statements in four grammars: text and bindings of every statement agree |
| `database_manager` | MCDatabaseManager | 1 659 793 | two overlapping calls of the manager beside new connections, pools that refuse |
| `blueprint_build` | MCBlueprintBuild | 623 965 | two blueprints of a table in four grammars, any two calls, or one column of any type |
| `sibling_savepoint_events` | MCConnectionSession | | violation, finding 1 |
| `previous_page` | CursorPagination | | violation, finding 2 |

### What the violations show

1. `filterAfterCommit` (connection-session.ts:815) drops the held-back events of
   every level above the new one. Begin, begin, query, commit, begin, rollBack,
   commit: the query of the first nested transaction becomes durable, its second
   event is never emitted. The repository's README.md:230: "all the query executed inside a
   committed transaction will generate two Event". What is true is
   `OutermostAnnounced`, which is proved.
2. For a previous cursor the conditions are reversed and the order of the query
   is not (base-query-builder.ts:681): it takes the first rows before the page
   instead of the last. From the fourth page of single rows the reader gets to
   the second row. `PreviousStaysBefore` is what holds.

### What the properties leave out, and what the code does there

A condition in a property, or a constant of a run, that keeps a case out names a
behaviour of the code. The sessions, the cache and the pages:

- `getPdo` (connection-session.ts:1026) uses the pool as soon as the level is 0.
  With `transaction(s => Promise.all([a(s), b(s)]))` a failure of `a` rolls back
  while `b` runs on; the next statement of `b` commits by itself although the call
  rejects. `OnlyStragglersEscape` is the part that holds, and `SequentialIsAtomic`
  says that a callback that awaits its statements one by one is safe.
- `pretend` (479) has no `finally`: when its callback throws and the error is caught
  (`MayCatch` TRUE), the session skips every later query and answers with defaults.
- A `pretend` inside a `pretend` (`NestedPretend` TRUE) clears the flag of the outer.
- A refreshed cache entry (220) is stored with the time of the entry it replaces,
  which types/cache.ts:36 calls the "Time, when cache was created". It is expired
  at once: a useless cache, not a stale answer, `ServedWithinDuration` holds.
- A select inside a transaction stores uncommitted rows in the entry that every
  session reads (`CachedInTransaction` TRUE).

The query builder (`Ordinary`, `WritesPlainly` and the conditions in `CountBound`,
`WriteBound`, `InsertBound`):

- common table expressions added after a union are compiled first and bound last
  when there are others, and compiled twice in an aggregate of the union
  (query/grammars/grammar.ts:893-903);
- `fromSub` or `fromRaw` a second time, or `from` after it, keeps the bindings of
  the first (common-grammar-builder.ts:205, 393);
- `exists()` of SQL Server replaces the columns and keeps what they bind
  (sqlserver-grammar.ts:266);
- an update or delete binds what belongs to clauses it does not have at the end;
  where a later place follows them (an ordered write of MySQL with `groupBy` or
  `having`, a bound `from`, an `updateFrom` with bound or nested joins) the values
  are off;
- beside a JSON path an update strips its plain keys of their table
  (query/grammars/grammar.ts:1327) and then looks their values up by what is left
  (mysql-grammar.ts:262, postgres-grammar.ts:494, sqlite-grammar.ts:265,
  sqlserver-grammar.ts:483): `update({'users.name': 'x', 'options->a': 1})` binds
  `undefined` for `name`, and binds it beyond its places when the value is an
  Expression. Only a value that is written as JSON is found, which is the one case
  query-grammar.test.ts:48 tests (`'users.meta': {..}` beside `'meta->tags'`). The
  model does the same (`Merged`, `ValueAt`), and `WriteBound` says that an update binds its
  text if and only if its keys are found (`KeysFound`);
- in such an update a path merged into an Expression, a Date, a Buffer or a typed
  binding is lost from the text and from the bindings alike. Two keys that name the
  same column of different tables, of which the second takes the place of the first,
  and a JSON path with a dot in it, which `getColumnKey` cuts, are not in the model;
- rows of an insert with equally many but different columns are written to the
  columns of the first (base-query-builder.ts:1020);
- update and delete with joins or a limit on PostgreSQL and SQLite leave the
  columns of the builder replaced, and SQL Server leaves an order in it: that is in
  the model, and `ReadsRepeat` is about reads.

The schema builder (`Plain`, `Sound`, and `expected`):

- `add` and `change` come before all other commands, the indexes of columns after
  them: a blueprint that drops or renames a column and adds one of its name, or
  indexes a column it renames, does not do what it says (`InOrder`);
- only the first kind of index set on a column is made (blueprint.ts:294-314);
- a blueprint that alters a table and is compiled twice has its `add` and `change`
  twice (blueprint.ts:101), and `removeColumn` after `toSql` leaves the commands;
- `removeColumn` takes back every column of a name, but not the commands about it,
  nor the place of a column put behind it (blueprint.ts:1358-1368,
  `RemoveColumnCall`);
- `change` in a blueprint that creates is ignored;
- `LeftOut`: SQLite skips primary and foreign keys and generated columns of an
  existing table, SQL Server what a column is stored as, all but MySQL `renameTo`,
  and MySQL the `useCurrent` of a `dateTimeTz`;
- `UnknownPrimary`: SQL Server names the key of an identity column itself, and
  PostgreSQL keeps the name of a key when the table is renamed, so `dropPrimary`
  does not find them;
- changing a column that counts or is generated fails on some databases (`Sound`).

### Bounds

- Sessions: three queries are needed for a nested transaction that commits beside
  one that rolls back and one outside; three levels make the middle level, where
  `rollBack(toLevel)` skips one; four savepoints let a name be reused. Managed
  calls: three calls, of which two nest or follow each other, two attempts each,
  two queries; levels and savepoints are above what three calls can reach, so
  that they cut nothing.
- Parallel: two branches of two statements (a first that is settled when the
  other branch fails, a second that is sent after), two attempts.
- Dry run: five frames allow `withoutPretending` in `pretend` in
  `withoutPretending`; four queries put one before, in, between and after.
- Cache: a duration of 1 and a clock of 3 give hits, expiries and a second
  refresh; two versions and two selects give a late store over a newer entry.
- Chunks: five ids and pages of two give two full pages and one that is not; three
  writes move rows over a boundary more than once.
- Cursors: three order columns over two values, in all eight mixes of directions,
  with pages of two and one write.

- Query builder: three calls and statements put any clause before and after any
  other with a statement in between; each call binds up to three new values, so
  that no two places are confused; clauses nest once in a where, a having or a join.
  Each update is asked for with six sets of values: booleans and Expressions under
  a path, paths of two columns by turns, paths of the column of a plain key, keys of
  two tables, and keys that are not found beside a path.
- Manager: two calls that overlap, each of any kind, two names of which one has a
  pool for reading, three connections (two of one name and one made meanwhile).
- Blueprint: two blueprints, since what the first leaves (an identity, a default, a
  name of an index) decides whether the second runs; two calls are needed for an
  order between calls; two names for an index of two columns and for a column
  behind another. Beside other calls a column has one of four methods, each of
  another kind in its types and indexes; every method is tried as the only call.
  Longer callbacks were searched in narrower instances that are not kept: three calls
  in each of two blueprints, and five in one, over columns and their modifiers,
  indexes, foreign keys or `morphs` alone, in each grammar (up to 940 000 states).

CHECK_DEADLOCK is on in the runs of sessions, caches and pages: where a program or
reading is over, a step that changes nothing (`ProgramEnds`, `Rest`, `Stay`) says so.
It is off in `query_bindings`, `database_manager` and `blueprint_build`: a program
may stop calling, and each of them stops at its bounds.

### Fairness

Only two liveness properties are checked. `CallsSettle` assumes that what the
session awaits settles, result or error, and that a callback returns or throws in
the end: weak fairness of the steps of `transaction()` itself, of none of the
statements. Without the second assumption no call of a callback can be shown to
end; the number of calls is bounded by `MaxCalls`, the number of retries by the
code. `ReadingEnds` assumes that queries are answered, that the callback returns
and that the program asks a lazy reading for its next row; writes have no
fairness, and are bounded. JavaScript runs one continuation at a time, so
every step between two awaits is one action.

## What is proved

For every value of the constants (the sets of queries, clients, branches, ids and
values, the number of levels, savepoints, attempts, calls, versions, columns, the
page size, the writes; the names, connections and calls of a manager), under the
named assumptions of each module:

- `SessionProofs`, manual control: `TypeCorrect`; `NothingHeldWhenIdle`
  (`IdleHoldsNothing` is inductive over `TypeOK`); `AnnouncedOnlyIfDurable`, under
  the assumption that a concurrency error undoes no more than its statement
  (`~DeadlockUndoes`); `OutermostAreAnnounced`; `SessionImplementsNested`.
  `AnnouncedIsDurable` is not inductive: whether a rollback undoes a held-back
  event depends on what the savepoint holds. `HeldBackInv` adds that the newest
  savepoints of the open levels exist and are ordered as the levels
  (`SavepointsOfLevels`), and that a held-back event of level n is in force now
  and in the savepoint of every deeper level (`EventsInForce`). The lemmas
  `NewestAfterAppend` and `NewestAfterCut` say what a savepoint and a rollback do
  to "newest of its name"; there is one `HeldBack...` lemma for each action.
  `OutermostAreAnnounced` rests on `OutermostHeldBack` in the same way. It needs
  no assumption on deadlocks.
  `SessionImplementsNested` is the refinement of NestedTransaction, under
  `~DeadlockUndoes`: the initial state maps to the initial state, and there is one
  lemma for each action that says which abstract step it is, or that it is none.
  `SavepointsOfLevels` is what makes the mapped stack of a rollback the
  abstract one, cut off.
- `SessionProofs`, `transaction()`: `CallsAreSessionSteps` (managed transactions are behaviours
  of a session under manual control, so that what is proved of the one holds of the
  other), `CallInvariant`, and from it `NoAttemptTwice`, `ThrowUndoes`,
  `ReturnMakesDurable`, `NothingLeft` and `CallAnnouncedOnlyIfDurable`, for callbacks
  that let errors through (`~CallbackMayCatch`); deadlocks may undo the transaction.
  The argument of `CallInv`: the level is the depth of the calls in progress
  (`LevelInv`), except after a lost connection, which resets it, and after a rollback
  that was rejected with an unrecognised error, from where on it stays above the depth,
  so that no commit is the outermost until a lost connection resets it. While the level
  is aligned and no deadlock is on its way out (`Sound`), what is in force, and what the
  savepoint of a call in progress would restore, is the work of calls and attempts
  that have not failed (`WorkInv`), and all of it (`ReturnInv`). A deadlock inside a
  nested call may have taken the savepoints away: nothing is claimed then, and nothing
  can be committed before the real rollback.
- `ParallelCallbackProofs`: `ParallelTypeCorrect`, `ParallelInvariant`, and from it
  `AnnouncedHasEffect`, `ReturnedIsComplete`, `StragglersOnly`,
  `SequentialAllOrNothing` and `NothingHeld`, for any finite set of branches, every
  attempt's stragglers included. `ParallelInv` says which connection the call holds in
  which phase (`PhaseInv`), on which transaction object a branch may be (`BranchInv`),
  that each statement of the attempt that resolved has its event (`EventInv`), that
  nothing of the attempt in progress is durable before its commit settles
  (`EscapeInv`), and that one awaited branch runs only inside its callback
  (`SequentialInv`).
- `SessionPretendProofs`: `PretendInvariant`, `DryRunIsDry`, `OthersAreExecuted`,
  `PretendReturnsTheLog`, `FlagsRestored`, for a program that does not call `pretend`
  inside a `pretend` and stops at an error (`~NestedPretend`, `~MayCatch`: with either,
  the properties fail, see above). `PretendInv` says that the flags are what the
  innermost callback needs and that each frame remembers those of the one around it.
- `SelectCacheProofs`: `CacheTypeCorrect`, `EntriesWithinTime`, `ServedRecent`,
  when no select inside a transaction uses the cache (`~CachedInTransaction`: such
  a select stores uncommitted rows in the entry every session reads). The
  invariant `CacheInv` is that the result in the hands of a select, and the
  one in the entry, was committed at the time they carry or later.
- `ChunkPagingProofs`: `ReadingTypeCorrect`; by id `ByIdInvariant`, `NoRowTwice` and
  `NoRowMissed`: the strengthening `ReadUpTo` says that between two pages exactly the
  rows up to `lastId` were given, and within a page those up to `lastRow` but for what
  is left of the batch. By position `OffsetInvariant` and `DriftIsBounded`: there is a
  set of rows, the first ones of the table as many as the position (`Drifted`), such
  that the rows in it never given are no more than those that left, and those
  beyond it already given, with those given twice, no more than those that entered;
  each write moves one row over its edge. For `each` `EachInvariant` and
  `IndexCountsRows`: pages before the last were full. The counts are folds over the
  ids; `TotalIsUnits` shows that such a fold is the number of elements of a set, and
  from there on facts about finite sets do.
- `CursorPaginationProofs`: `CursorInvariant`, `NextPageFollows`, `ForwardMissesNothing`,
  `PreviousPageBefore`, for every finite table. `OrderIrreflexive`, `OrderTransitive` and
  `OrderTotal`: the order of the query is a strict total order on rows, in any mix of
  directions. `NextSelects` and `PreviousSelects`: the nested where clauses of
  `addCursorConditions` select exactly the rows after, or before, the cursor.
  `Places`, `FirstRowsCover`, `OneMore`: `limit(perPage + 1)` gives the rows of the first
  places, and the row more says whether any are left. `ForwardInv` says that while only
  next links were followed, every row that stayed was shown or comes after the page.
- `QueryStatementProofs`: `QueryMatched`, and from it `SelectBindsItsPlaces`,
  `CountBindsItsPlaces`, `WriteBindsItsPlaces` and `ReadingRepeats`, for any number of
  calls (`MaxCalls`), where the run stops at three. The inductive invariant is
  `Matched`: for every type of binding, what is bound under it is what the clauses of
  that type have places for. No statement is mentioned in it, so that it
  holds for all of them; each method that adds a clause has a lemma that says it
  keeps it (`WhereMatched`, `BaseJoinMatched`, `OrderByRawMatched` ...). What a
  statement sends is then a comparison of two orders of the same parts:
  `SelectAgrees` and `AggregateAgrees` put the types of `getBindings` beside the
  clauses of `compileSelect`, `PaginationBinds` and `ExistsBinds` follow the copies.
  For writes `CleanConcat` and `CleanFlatten` say that `cleanBindings` changes
  none of the values kept in a registry, `MergedIs` that the values of an update are
  those its text has places for, plain keys first, if `KeysFound` holds, and that one of
  them is undefined if not (`CombinedFound`, `CombinedLost`); `LeftIs` says what is left
  over. Then there is one lemma for each statement (`UpdateBinds`, `DeleteBinds`,
  `UpdateFromBinds`, `InsertUsingBinds`), and `UpdateLoses`, `UpdateFromLoses` for the
  updates that do not bind their text. `UpdateBindsItsValues` is about every update
  whose keys differ (`Updates`), of which the run has six (`UpdateValues`).
  `InsertWritesItsRows` and `UpsertBindsItsPlaces` are about rows of any number and
  width, and `InsertBindsEveryValue` states what they say of the rows of the run.
  `SortedRow` is a choice, so `SortExists` shows first that there is something to
  choose: a shortest row without a sorted form has a least column, and the row
  without that column (`RowLessExists`) has one. `SameNames`: rows of the same
  columns are sorted under the same names, by the first place where they would
  differ. `FlattenAt`: in a list of rows of one width the value in place `k` of row
  `i` is bound at `(i - 1) * n + k`, where its column is in the text.
- `DatabaseManagerProofs`: `ManagerTypeCorrect`, `PurgeLosesNothing`,
  `TerminateCloses`, `ReconnectReturnsUsable`, from no assumption but that `None`
  is no name and no connection. `Parts` is the inductive invariant: a connection
  has the pools of its name (`Owned`), a call its name and its place (`Named`), and
  for a purge, a terminate and a reconnect still at work every open pool is
  accounted for, as one it waits for, one opened since or one it could not close
  (`PurgeAccounts`, `TerminateAccounts`, `ReconnectAccounts`); a connection without
  an entry was dropped by a purge of its name (`DroppedByPurge`). One lemma for
  each action shows that it preserves them.

Every one of these invariants was checked by TLC on a small instance before it was
proved; the runs list the properties that follow from them, not the invariants.

Some proofs need an induction over data, which the library offers only for a predicate
given as a parameter: `TotalIsUnits` (a fold over a finite set), `SelectedIsDecided`
(the recursive condition of a cursor), and in the query modules `FlattenAppend`,
`WhereEachIs`, `SelectIs`, `CleanFlatten`, `SortExists` and `FlattenAt` (sequences
built one element at a time).
They go by the smallest counterexample instead, with the theorem that a well-founded relation has minimal
elements: two functions that satisfy the same recursive equation would differ at a
least argument, where the equation makes them equal.

Only model-checked: the properties of BlueprintBuild (`BuildSucceeds`,
`BuiltAsDescribed`): the implied commands and the effect of a statement are folds over
sequences of any length (`AddIndexes`, `AddCommands`, `Applied`), and what a fold
computes takes an induction over data, which the prover does not do. `CallsSettle` and
`ReadingEnds` are liveness under fairness, which the prover does not do.

## What is not modelled

Restrictions of the modules:

- statements of one session overlap in ParallelCallback only; two overlapping
  calls of `transaction()` on one session are not modelled;
- a callback of TransactionCall lets errors through in the run
  (`CallbackMayCatch` FALSE). A callback that catches the `DeadlockError` of a
  nested call goes on with a level that was lowered and nothing rolled back;
- after a rollback rejected with an unrecognised error the level stays up
  (`stuck`); `ReturnedIsDurable` and `NothingLeftOpen` speak of sessions where
  this has not happened;
- a `pretend` inside a `pretend` (`NestedPretend` FALSE): the inner one clears
  the flag of the outer one;
- a statement in a transaction has no `close()` to await, a pool statement has;
- selects in a transaction that use the cache (`CachedInTransaction` FALSE);
- in ChunkPaging the query orders by its key only, and has no limit or offset.
  `chunkById` keeps the other orders of a query before its own, and a builder
  that was read in pages keeps the limit and offset of the last one;
- in CursorPagination the order columns identify a row and are not NULL; unions
  and the text of a cursor are left out;
- before-executing hooks, the read/write choice of `select`, results and
  conversions: they carry no state the properties tell apart;
- a query builder is one object used in sequence: two statements awaited together
  on it, and a sub-builder changed after it was attached, are left out; `truncate`
  and `insertGetId` send a text that does not depend on the clauses;
- of words, operators, JSON paths, lengths, collations and the like no more is kept
  than whether they take a value;
- tables of the schema modules have no rows and no virtual columns, and temporary
  tables, views, types, databases and the methods that read a schema are left out;
  `withoutForeignKeyConstraints` (builder.ts:421) does not await its callback and is
  listed as a hazard only;
- the name of an index is its table, columns and type (`CreateIndexName`): the code
  writes them with the prefix into one text in lower case, with `_` for `-` and `.`
  (blueprint.ts:1314-1320), so that two could be the same there, which those of the
  runs are not. `dropPrimary()` with no index, which looks for a name made of no
  columns (blueprint.ts:429), is left out; and SchemaTable, external, takes a primary
  key over a column that may be NULL, which some servers reject;
- the schema pool of one connection (connection.ts:183): who waits for it, and how
  long, is decided in the driver package.

Parts without a module: the page-number paginators (the statements they send are in
the query modules, the rest is arithmetic on a list and text of links); connectors,
typed bindings, events, errors and type declarations have no behaviour of their own.

## Plan

What is left, the most important first:

1. The implied commands and the parts of a statement stated without folds (by the
   places of the columns that lead to them), so that `BuiltAsDescribed` has an
   invariant between commands and described table that a proof can use.
2. Two statements of one builder that overlap (`onceWithColumns`), and two sessions
   on the schema pool around `withoutForeignKeyConstraints`.
3. `updateOrInsert` and `paginate` beside other writers of the same table.
