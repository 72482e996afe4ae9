--------------------------- MODULE ConnectionSession ---------------------------
(* The transactions of one ConnectionSession under manual control:              *)
(* beginTransaction, commit, rollBack(toLevel) and queries, in any order, with  *)
(* any error.  One action is one awaited call of the session.                   *)
EXTENDS PdoTransaction

CONSTANTS
  MaxLevel,        \* bound: transactions are nested at most this deep
  MaxSavepoints    \* bound: savepoints the server keeps in one transaction

ASSUME BoundsAssumption == MaxLevel \in Nat /\ MaxSavepoints \in Nat

VARIABLES
  transactions,   \* the number of active transactions
  afterCommit,    \* the QueryExecuted events held back until the commit
  announced,      \* the queries whose event with inTransaction = false was emitted
  queryLevel      \* history: the level at which each query so far succeeded

sessionVars == <<transactions, afterCommit, announced, queryLevel>>
vars == <<pdoVars, sessionVars>>

Level == transactions
Ran == DOMAIN queryLevel

SessionTypeOK ==
  /\ transactions \in 0 .. MaxLevel
  /\ afterCommit \in SUBSET [level : 1 .. MaxLevel, query : Queries]
  /\ announced \in SUBSET Queries
  /\ Ran \in SUBSET Queries
  /\ queryLevel \in [Ran -> 0 .. MaxLevel]

TypeOK == PdoTypeOK /\ SessionTypeOK

Init ==
  /\ PdoInit
  /\ transactions = 0
  /\ afterCommit = {}
  /\ announced = {}
  /\ queryLevel = [q \in {} |-> 0]

(* Mutants: the filter keeps one level too many, or one too few.                *)
FilteredOneMore(n) == {event \in afterCommit : event.level <= n + 1}
FilteredOneLess(n) == {event \in afterCommit : event.level < n}

(* filterAfterCommit, once the level is n.                                      *)
Filtered(n) == {event \in afterCommit : event.level <= n}

-------------------------------------------------------------------------------
(* Mutant: the savepoint is named after the current level.                      *)
BeginTransactionOldName(res) ==
  /\ Level < MaxLevel
  /\ \/ Level = 0 /\ PdoBegin(res)
     \/ Level >= 1 /\ Len(saves) < MaxSavepoints /\ PdoSavepoint(Level, res)
  /\ transactions' = IF res = "ok" THEN Level + 1 ELSE Level
  /\ UNCHANGED <<afterCommit, announced, queryLevel>>

(* beginTransaction with createTransaction: a real transaction at level 0 (a   *)
(* lost connection is retried once there, which only adds ways to succeed or    *)
(* fail), a savepoint named after the next level above it.                      *)
BeginTransaction(res) ==
  /\ Level < MaxLevel
  /\ \/ Level = 0 /\ PdoBegin(res)
     \/ Level >= 1 /\ Len(saves) < MaxSavepoints /\ PdoSavepoint(Level + 1, res)
  /\ transactions' = IF res = "ok" THEN Level + 1 ELSE Level
  /\ UNCHANGED <<afterCommit, announced, queryLevel>>

(* Mutant: the level is not kept at 0 by Math.max.                              *)
CommitNestedUnclamped ==
  /\ Level # 1
  /\ transactions' = Level - 1
  /\ UNCHANGED <<pdoVars, afterCommit, announced, queryLevel>>

(* performCommit without a real commit: at level 0 nothing is open, above       *)
(* level 1 only the level goes down.                                            *)
CommitNested ==
  /\ Level # 1
  /\ transactions' = IF Level = 0 THEN 0 ELSE Level - 1
  /\ IF Level = 0
       THEN /\ announced' = announced \union {event.query : event \in afterCommit}
            /\ afterCommit' = {}
       ELSE UNCHANGED <<announced, afterCommit>>
  /\ UNCHANGED <<pdoVars, queryLevel>>

(* performCommit at level 1: doRealCommit, then fireAfterCommitEvent; an error  *)
(* goes through handleCommitError.                                              *)
CommitReal(res) ==
  /\ Level = 1
  /\ PdoCommit(res)
  /\ transactions' = 0
  /\ IF res = "ok"
       THEN /\ announced' = announced \union {event.query : event \in afterCommit}
            /\ afterCommit' = {}
       ELSE /\ afterCommit' = Filtered(0)
            /\ UNCHANGED announced
  /\ UNCHANGED queryLevel

PerformCommit(res) ==
  \/ res = "ok" /\ CommitNested
  \/ CommitReal(res)

(* performRollBack: the real rollback to level 0, a savepoint above it.         *)
PerformRollBack(toLevel, res) ==
  \/ toLevel = 0 /\ PdoRollback(res)
  \/ toLevel > 0 /\ PdoRollbackTo(toLevel + 1, res)

(* rollBack that succeeds, or is rejected by an error the session does not      *)
(* recognise: handleRollBackError then changes nothing.                         *)
RollBackKnown(toLevel, res) ==
  /\ toLevel \in 0 .. Level - 1
  /\ res # "lost"
  /\ PerformRollBack(toLevel, res)
  /\ IF res = "ok"
       THEN transactions' = toLevel /\ afterCommit' = Filtered(toLevel)
       ELSE UNCHANGED <<transactions, afterCommit>>
  /\ UNCHANGED <<announced, queryLevel>>

(* Mutant: a lost savepoint rollback does not call the real rollback.           *)
RollBackLostKeepsConnection(toLevel) ==
  /\ toLevel \in 0 .. Level - 1
  /\ conn = "dead"
  /\ IF toLevel = 0 THEN PdoRollback("lost") ELSE UNCHANGED pdoVars
  /\ transactions' = 0
  /\ afterCommit' = Filtered(0)
  /\ UNCHANGED <<announced, queryLevel>>

(* rollBack on a lost connection: handleRollBackError calls the real rollback   *)
(* when only a savepoint was rolled back (its own error is swallowed), so that  *)
(* the connection goes back to the pool, and resets the level.                  *)
RollBackLost(toLevel) ==
  /\ toLevel \in 0 .. Level - 1
  /\ PdoRollback("lost")
  /\ transactions' = 0
  /\ afterCommit' = Filtered(0)
  /\ UNCHANGED <<announced, queryLevel>>

RollBack(toLevel, res) ==
  \/ RollBackKnown(toLevel, res)
  \/ res = "lost" /\ RollBackLost(toLevel)

(* logQuery for a query that succeeded: held back inside a transaction,         *)
(* announced at once outside one.                                               *)
LogQuery(q) ==
  /\ IF Level > 0
       THEN /\ afterCommit' = afterCommit \union {[level |-> Level, query |-> q]}
            /\ UNCHANGED announced
       ELSE /\ announced' = announced \union {q}
            /\ UNCHANGED afterCommit
  /\ queryLevel' = [r \in Ran \union {q} |-> IF r = q THEN Level ELSE queryLevel[r]]

(* A statement on a pool connection commits by itself.  A lost connection may   *)
(* hide that it was applied; run() sends it once more, whatever that gives.     *)
Autocommit(q, res) ==
  /\ \/ res = "ok" /\ durable' = durable \union {q}
     \/ res = "lost" /\ durable' \in {durable, durable \union {q}}
     \/ res \in {"concurrency", "generic"} /\ durable' = durable
  /\ UNCHANGED <<conn, work, saves>>

(* Mutant: getPdo takes the transaction above level 1 only.                     *)
RunQueryWrongPdo(q, res) ==
  /\ q \notin Ran \union durable
  /\ \/ Level > 1 /\ PdoWrite(q, res)
     \/ Level <= 1 /\ Autocommit(q, res)
  /\ IF res = "ok" THEN LogQuery(q)
                   ELSE UNCHANGED <<afterCommit, announced, queryLevel>>
  /\ UNCHANGED transactions

(* run: a query goes through getPdo, the transaction above level 0; above level *)
(* 0 handleQueryError throws every error.                                       *)
RunQuery(q, res) ==
  /\ q \notin Ran \union durable
  /\ \/ Level >= 1 /\ PdoWrite(q, res)
     \/ Level = 0 /\ Autocommit(q, res)
  /\ IF res = "ok" THEN LogQuery(q)
                   ELSE UNCHANGED <<afterCommit, announced, queryLevel>>
  /\ UNCHANGED transactions

(* The environment: the server goes away under the open transaction.            *)
LoseConnection == PdoDrop /\ UNCHANGED sessionVars

Next ==
  \/ \E res \in Results : BeginTransaction(res)
  \/ \E res \in Results : PerformCommit(res)
  \/ \E toLevel \in 0 .. MaxLevel - 1, res \in Results : RollBack(toLevel, res)
  \/ \E q \in Queries, res \in Results : RunQuery(q, res)
  \/ LoseConnection

Spec == Init /\ [][Next]_vars

-------------------------------------------------------------------------------
(* Outside a transaction the session holds no pool connection and no event:     *)
(* every way out of a transaction, through commit, rollback or an error of       *)
(* either, gives the connection back and drops or emits what was held back.     *)
IdleHoldsNothing == Level = 0 => conn = "closed" /\ afterCommit = {}

(* A query is announced outside its transaction (QueryExecuted with             *)
(* inTransaction = false) only when its effect is committed: logQuery,           *)
(* filterAfterCommit and fireAfterCommitEvent agree with what the server kept   *)
(* of the savepoints rolled back and of the failed commits.                     *)
AnnouncedIsDurable == announced \subseteq durable

(* Why AnnouncedIsDurable holds, as an inductive invariant: while the            *)
(* transaction is live, the newest savepoints of the open levels are there, in  *)
(* the order of the levels, and an event held back at some level is for a query *)
(* in force now and at every savepoint of a deeper level.                       *)
SavepointsOfLevels ==
  conn = "live" =>
    /\ \A n \in 2 .. Level : \E p \in DOMAIN saves : IsNewest(p, n)
    /\ \A n, m \in 2 .. Level : \A p, r \in DOMAIN saves :
         n < m /\ IsNewest(p, n) /\ IsNewest(r, m) => p < r

EventsInForce ==
  conn = "live" =>
    \A event \in afterCommit :
      /\ event.query \in work
      /\ \A n \in event.level + 1 .. Level : \A p \in DOMAIN saves :
           IsNewest(p, n) => event.query \in saves[p].held

HeldBackInv ==
  /\ IdleHoldsNothing
  /\ SavepointsOfLevels
  /\ EventsInForce
  /\ AnnouncedIsDurable

(* Why OutermostAnnounced holds: a query of the outermost level that is in      *)
(* force, or would be after a rollback to a savepoint, has its event held back. *)
EventHeldBack(q) ==
  q \in Ran /\ (queryLevel[q] = 1 => [level |-> 1, query |-> q] \in afterCommit)

OutermostHeldBack ==
  /\ \A q \in work : EventHeldBack(q)
  /\ \A p \in DOMAIN saves : \A q \in saves[p].held : EventHeldBack(q)

(* A successful commit announces every query it makes durable that ran directly *)
(* in the outermost transaction.                                                *)
OutermostAnnounced ==
  [][CommitReal("ok") =>
       \A q \in durable' \ durable : queryLevel[q] = 1 => q \in announced']_vars

(* README: all the queries executed inside a committed transaction generate a   *)
(* second event after the commit.                                               *)
CommittedAnnounced ==
  [][CommitReal("ok") => durable' \ durable \subseteq announced']_vars

(* What the session implements, while a concurrency error undoes no more than   *)
(* its statement: level n + 1 found, when it was entered, what the newest       *)
(* savepoint of its name holds.                                                 *)
FoundAtLevel(n) ==
  UNION {saves[p].held : p \in {i \in DOMAIN saves : IsNewest(i, n)}}

Abstract == INSTANCE NestedTransaction WITH
  held <- work,
  doomed <- Level > 0 /\ conn # "live",
  levels <- [n \in 1 .. Level |-> IF conn = "live" THEN FoundAtLevel(n) ELSE {}]
ImplementsNested == Abstract!Spec

===============================================================================
