---------------------------- MODULE SessionProofs -----------------------------
(* What a session guarantees for every set of queries, nesting depth and number  *)
(* of savepoints. First under manual control, to the point that it implements     *)
(* NestedTransaction: its names and numbers of savepoints, its level and its      *)
(* errors amount to a stack of sets of statements. Then what transaction(callback, *)
(* attempts) keeps for every number of attempts, nesting depth and number of      *)
(* calls, while callbacks let errors through.                                    *)
EXTENDS TransactionCall, SequenceTheorems, TLAPS

-------------------------------------------------------------------------------
(* Each call on the transaction object keeps its state typed.                   *)

LEMMA ReleaseType ==
  ASSUME PdoTypeOK, Release, durable' \in SUBSET Queries
  PROVE  PdoTypeOK'
<1>1. <<>> \in Seq(Savepoints)
  OBVIOUS
<1> QED BY <1>1 DEF PdoTypeOK, Release

LEMMA UnchangedPdoType ==
  ASSUME PdoTypeOK, UNCHANGED pdoVars
  PROVE  PdoTypeOK'
BY DEF PdoTypeOK, pdoVars

LEMMA PdoBeginType ==
  ASSUME PdoTypeOK, NEW res, PdoBegin(res)
  PROVE  PdoTypeOK'
<1>1. <<>> \in Seq(Savepoints)
  OBVIOUS
<1>2. CASE conn' = "live" /\ work' = {} /\ saves' = <<>> /\ UNCHANGED durable
  BY <1>1, <1>2 DEF PdoTypeOK
<1> QED BY <1>2, UnchangedPdoType DEF PdoBegin

LEMMA PdoWriteType ==
  ASSUME PdoTypeOK, NEW q \in Queries, NEW res, PdoWrite(q, res)
  PROVE  PdoTypeOK'
<1>1. <<>> \in Seq(Savepoints)
  OBVIOUS
<1>2. CASE work' = work \union {q} /\ UNCHANGED <<conn, saves, durable>>
  BY <1>2 DEF PdoTypeOK
<1>3. CASE UNCHANGED <<work, saves>> /\ UNCHANGED <<conn, durable>>
  BY <1>3 DEF PdoTypeOK
<1>4. CASE work' = {} /\ saves' = <<>> /\ UNCHANGED <<conn, durable>>
  BY <1>1, <1>4 DEF PdoTypeOK
<1> QED BY <1>2, <1>3, <1>4, UnchangedPdoType DEF PdoWrite

LEMMA PdoSavepointType ==
  ASSUME PdoTypeOK, NEW n \in Nat, NEW res, PdoSavepoint(n, res)
  PROVE  PdoTypeOK'
<1>1. CASE saves' = Append(saves, [name |-> n, held |-> work])
           /\ UNCHANGED <<conn, work, durable>>
  <2>1. [name |-> n, held |-> work] \in Savepoints
    BY DEF PdoTypeOK, Savepoints
  <2>2. saves' \in Seq(Savepoints)
    BY <1>1, <2>1 DEF PdoTypeOK
  <2> QED BY <1>1, <2>2 DEF PdoTypeOK
<1> QED BY <1>1, UnchangedPdoType DEF PdoSavepoint

LEMMA PdoRollbackToType ==
  ASSUME PdoTypeOK, NEW n, NEW res, PdoRollbackTo(n, res)
  PROVE  PdoTypeOK'
<1>1. ASSUME UNCHANGED <<conn, durable>>,
             NEW p \in DOMAIN saves, work' = saves[p].held, saves' = SubSeq(saves, 1, p)
      PROVE  PdoTypeOK'
  <2>1. saves[p] \in Savepoints /\ p \in 1 .. Len(saves)
    BY DEF PdoTypeOK
  <2>2. work' \in SUBSET Queries
    BY <1>1, <2>1 DEF Savepoints
  <2>3. saves' \in Seq(Savepoints)
    BY <1>1, <2>1 DEF PdoTypeOK
  <2> QED BY <1>1, <2>2, <2>3 DEF PdoTypeOK
<1> QED BY <1>1, UnchangedPdoType DEF PdoRollbackTo

LEMMA PdoCommitType ==
  ASSUME PdoTypeOK, NEW res, PdoCommit(res)
  PROVE  PdoTypeOK'
<1>1. durable' \in SUBSET Queries
  BY DEF PdoTypeOK, PdoCommit
<1> QED BY <1>1, ReleaseType DEF PdoCommit

LEMMA PdoRollbackType ==
  ASSUME PdoTypeOK, NEW res, PdoRollback(res)
  PROVE  PdoTypeOK'
<1>1. durable' \in SUBSET Queries
  BY DEF PdoTypeOK, PdoRollback
<1> QED BY <1>1, ReleaseType DEF PdoRollback

-------------------------------------------------------------------------------
(* Each action of the session keeps the types.                                  *)

LEMMA BeginType ==
  ASSUME TypeOK, NEW res, BeginTransaction(res)
  PROVE  TypeOK'
<1> USE BoundsAssumption DEF TypeOK
<1>1. PdoTypeOK'
  <2>1. Level + 1 \in Nat
    BY DEF SessionTypeOK, Level
  <2> QED BY <2>1, PdoBeginType, PdoSavepointType DEF BeginTransaction
<1>2. SessionTypeOK'
  BY DEF BeginTransaction, SessionTypeOK, Level, Ran
<1> QED BY <1>1, <1>2

LEMMA CommitType ==
  ASSUME TypeOK, NEW res, PerformCommit(res)
  PROVE  TypeOK'
<1> USE BoundsAssumption DEF TypeOK
<1>1. PdoTypeOK'
  BY PdoCommitType, UnchangedPdoType DEF PerformCommit, CommitReal, CommitNested
<1>2. {event.query : event \in afterCommit} \subseteq Queries
  BY DEF SessionTypeOK
<1>3. SessionTypeOK'
  <2>1. CASE CommitNested
    BY <1>2, <2>1 DEF CommitNested, SessionTypeOK, Level, Ran
  <2>2. CASE CommitReal(res)
    BY <1>2, <2>2 DEF CommitReal, SessionTypeOK, Filtered, Ran
  <2> QED BY <2>1, <2>2 DEF PerformCommit
<1> QED BY <1>1, <1>3

LEMMA RollBackType ==
  ASSUME TypeOK, NEW toLevel, NEW res, RollBack(toLevel, res)
  PROVE  TypeOK'
<1> USE BoundsAssumption DEF TypeOK
<1>1. PdoTypeOK'
  BY PdoRollbackType, PdoRollbackToType
     DEF RollBack, RollBackKnown, RollBackLost, PerformRollBack
<1>2. SessionTypeOK'
  BY DEF RollBack, RollBackKnown, RollBackLost, SessionTypeOK, Filtered, Level, Ran
<1> QED BY <1>1, <1>2

LEMMA QueryType ==
  ASSUME TypeOK, NEW q \in Queries, NEW res, RunQuery(q, res)
  PROVE  TypeOK'
<1> USE BoundsAssumption DEF TypeOK
<1>1. PdoTypeOK'
  <2>1. CASE Autocommit(q, res)
    BY <2>1 DEF Autocommit, PdoTypeOK
  <2> QED BY <2>1, PdoWriteType DEF RunQuery
<1>2. SessionTypeOK'
  <2>1. CASE res # "ok"
    BY <2>1 DEF RunQuery, SessionTypeOK, Ran
  <2>2. CASE res = "ok"
    <3>1. LogQuery(q) /\ UNCHANGED transactions
      BY <2>2 DEF RunQuery
    <3>2. /\ afterCommit' \in SUBSET [level : 1 .. MaxLevel, query : Queries]
          /\ announced' \in SUBSET Queries
      BY <3>1 DEF LogQuery, SessionTypeOK, Level
    <3>3. Ran' = Ran \union {q} /\ queryLevel' \in [Ran' -> 0 .. MaxLevel]
      BY <3>1 DEF LogQuery, SessionTypeOK, Level, Ran
    <3> QED BY <3>1, <3>2, <3>3 DEF SessionTypeOK
  <2> QED BY <2>1, <2>2
<1> QED BY <1>1, <1>2

LEMMA LoseType ==
  ASSUME TypeOK, LoseConnection
  PROVE  TypeOK'
<1>1. <<>> \in Seq(Savepoints)
  OBVIOUS
<1> QED BY <1>1 DEF TypeOK, PdoTypeOK, SessionTypeOK, Ran, LoseConnection, PdoDrop, sessionVars

LEMMA TypeInit == Init => TypeOK
<1>1. <<>> \in Seq(Savepoints)
  OBVIOUS
<1> QED BY <1>1, BoundsAssumption DEF Init, PdoInit, TypeOK, PdoTypeOK, SessionTypeOK, Ran

LEMMA TypeStep ==
  ASSUME TypeOK, [Next]_vars
  PROVE  TypeOK'
<1>1. CASE Next
  BY <1>1, BeginType, CommitType, RollBackType, QueryType, LoseType DEF Next
<1>2. CASE UNCHANGED vars
  BY <1>2 DEF vars, pdoVars, sessionVars, TypeOK, PdoTypeOK, SessionTypeOK, Ran
<1> QED BY <1>1, <1>2

(* The state of the session and of its transaction always has its type.         *)
THEOREM TypeCorrect == Spec => []TypeOK
<1>1. TypeOK /\ [Next]_vars => TypeOK'
  BY TypeStep
<1> QED BY <1>1, TypeInit, PTL DEF Spec

-------------------------------------------------------------------------------
(* Outside a transaction nothing is held: no hypothesis on the server.          *)

LEMMA NoEventAtLevelZero ==
  ASSUME TypeOK
  PROVE  Filtered(0) = {}
<1>1. \A event \in afterCommit : event.level \in Int /\ event.level >= 1
  BY BoundsAssumption DEF TypeOK, SessionTypeOK
<1> QED BY <1>1 DEF Filtered

LEMMA IdleStep ==
  ASSUME TypeOK, IdleHoldsNothing, [Next]_vars
  PROVE  IdleHoldsNothing'
<1> USE DEF IdleHoldsNothing, Level
<1>1. Filtered(0) = {}
  BY NoEventAtLevelZero
<1>2. transactions \in Nat
  BY BoundsAssumption DEF TypeOK, SessionTypeOK
<1>3. ASSUME NEW res \in Results, BeginTransaction(res) PROVE IdleHoldsNothing'
  BY <1>2, <1>3 DEF BeginTransaction, PdoBegin, pdoVars
<1>4. ASSUME NEW res \in Results, PerformCommit(res) PROVE IdleHoldsNothing'
  BY <1>1, <1>2, <1>4
     DEF PerformCommit, CommitNested, CommitReal, PdoCommit, Release, pdoVars
<1>5. ASSUME NEW toLevel, NEW res, RollBack(toLevel, res) PROVE IdleHoldsNothing'
  <2>1. CASE RollBackLost(toLevel)
    BY <1>1, <2>1 DEF RollBackLost, PdoRollback, Release
  <2>2. CASE RollBackKnown(toLevel, res) /\ res # "ok"
    BY <1>2, <2>2 DEF RollBackKnown
  <2>3. CASE RollBackKnown(toLevel, res) /\ res = "ok"
    BY <1>1, <1>2, <2>3
       DEF RollBackKnown, PerformRollBack, PdoRollback, Release
  <2> QED BY <1>5, <2>1, <2>2, <2>3 DEF RollBack
<1>6. ASSUME NEW q \in Queries, NEW res, RunQuery(q, res) PROVE IdleHoldsNothing'
  <2>1. CASE Level = 0
    BY <1>6, <2>1 DEF RunQuery, Autocommit, LogQuery
  <2>2. CASE Level # 0
    BY <1>6, <2>2 DEF RunQuery
  <2> QED BY <2>1, <2>2
<1>7. CASE LoseConnection
  BY <1>7 DEF LoseConnection, PdoDrop, sessionVars
<1>8. CASE UNCHANGED vars
  BY <1>8 DEF vars, pdoVars, sessionVars
<1> QED BY <1>3, <1>4, <1>5, <1>6, <1>7, <1>8 DEF Next

(* At level 0 the session holds no pool connection and no event, after every    *)
(* order of calls and every error.                                              *)
THEOREM NothingHeldWhenIdle == Spec => []IdleHoldsNothing
<1>1. Init => IdleHoldsNothing
  BY DEF Init, PdoInit, IdleHoldsNothing
<1> QED BY <1>1, IdleStep, TypeCorrect, PTL DEF Spec

-------------------------------------------------------------------------------
(* Savepoints and events held back, while an error undoes its statement alone.  *)

LEMMA NewestUnique ==
  ASSUME PdoTypeOK, NEW n, NEW p, NEW r, IsNewest(p, n), IsNewest(r, n)
  PROVE  p = r
BY DEF IsNewest, PdoTypeOK

(* A new savepoint is the newest of its name; the other names keep theirs.      *)
LEMMA NewestAfterAppend ==
  ASSUME PdoTypeOK, NEW n \in Nat,
         saves' = Append(saves, [name |-> n, held |-> work])
  PROVE  /\ DOMAIN saves' = DOMAIN saves \union {Len(saves) + 1}
         /\ \A p \in DOMAIN saves : saves'[p] = saves[p]
         /\ saves'[Len(saves) + 1].held = work
         /\ \A p : IsNewest(p, n)' <=> p = Len(saves) + 1
         /\ \A m, p : m # n => (IsNewest(p, m)' <=> IsNewest(p, m))
<1> DEFINE sp == [name |-> n, held |-> work]
<1>1. saves \in Seq(Savepoints) /\ sp \in Savepoints
  BY DEF PdoTypeOK, Savepoints
<1>2. /\ Len(saves') = Len(saves) + 1
      /\ Len(saves) \in Nat
      /\ DOMAIN saves = 1 .. Len(saves)
      /\ DOMAIN saves' = 1 .. Len(saves) + 1
      /\ \A p \in 1 .. Len(saves) : saves'[p] = saves[p]
      /\ saves'[Len(saves) + 1] = sp
  BY <1>1
<1>3. sp.name = n /\ sp.held = work
  OBVIOUS
<1> HIDE DEF sp
<1>4. DOMAIN saves' = DOMAIN saves \union {Len(saves) + 1}
  BY <1>2
<1>5. \A p : IsNewest(p, n)' <=> p = Len(saves) + 1
  BY <1>2, <1>3 DEF IsNewest
<1>6. \A m, p : m # n => (IsNewest(p, m)' <=> IsNewest(p, m))
  BY <1>2, <1>3 DEF IsNewest
<1> QED BY <1>2, <1>3, <1>4, <1>5, <1>6

(* Cutting the savepoints after p keeps the newest ones that are at or before p. *)
LEMMA NewestAfterCut ==
  ASSUME PdoTypeOK, NEW p \in DOMAIN saves, saves' = SubSeq(saves, 1, p)
  PROVE  /\ DOMAIN saves' = 1 .. p
         /\ \A r \in 1 .. p : r \in DOMAIN saves /\ saves'[r] = saves[r]
         /\ \A n, r : IsNewest(r, n) /\ r <= p => IsNewest(r, n)'
<1>1. /\ Len(saves) \in Nat
      /\ DOMAIN saves = 1 .. Len(saves)
      /\ DOMAIN saves' = 1 .. p
      /\ \A r \in 1 .. p : saves'[r] = saves[r]
  BY DEF PdoTypeOK
<1>2. \A r \in 1 .. p : r \in DOMAIN saves
  BY <1>1
<1>3. ASSUME NEW n, NEW r, IsNewest(r, n), r <= p
      PROVE  IsNewest(r, n)'
  BY <1>1, <1>3 DEF IsNewest
<1> QED BY <1>1, <1>2, <1>3

(* After a rollback to level k, the levels still open have the newest savepoints *)
(* they had, all of them before the one rolled back to.                         *)
LEMMA NewestAfterRollBack ==
  ASSUME TypeOK, SavepointsOfLevels, conn = "live", NEW k \in Nat, k + 1 \in 2 .. Level,
         NEW p \in DOMAIN saves, IsNewest(p, k + 1), saves' = SubSeq(saves, 1, p)
  PROVE  \A n \in 2 .. k :
           /\ \E r \in 1 .. p : IsNewest(r, n) /\ IsNewest(r, n)' /\ r < p
           /\ \A r : IsNewest(r, n)' => IsNewest(r, n) /\ r \in 1 .. p
<1>0. transactions \in Nat /\ PdoTypeOK
  BY BoundsAssumption DEF TypeOK, SessionTypeOK
<1>1. /\ DOMAIN saves' = 1 .. p
      /\ \A r \in 1 .. p : r \in DOMAIN saves /\ saves'[r] = saves[r]
      /\ \A n, r : IsNewest(r, n) /\ r <= p => IsNewest(r, n)'
  BY <1>0, NewestAfterCut
<1>2. DOMAIN saves \subseteq Nat
  BY <1>0 DEF PdoTypeOK
<1>3. ASSUME NEW n \in 2 .. k
      PROVE  \E r \in 1 .. p : IsNewest(r, n) /\ IsNewest(r, n)' /\ r < p
  <2>1. n \in 2 .. Level /\ n < k + 1
    BY <1>0 DEF Level
  <2>2. PICK r \in DOMAIN saves : IsNewest(r, n)
    BY <2>1 DEF SavepointsOfLevels
  <2>3. r < p
    BY <2>1, <2>2 DEF SavepointsOfLevels
  <2>4. r \in 1 .. p
    BY <1>0, <2>2, <2>3 DEF PdoTypeOK
  <2> QED BY <1>1, <1>2, <2>2, <2>3, <2>4
<1>4. ASSUME NEW n \in 2 .. k, NEW r, IsNewest(r, n)'
      PROVE  IsNewest(r, n) /\ r \in 1 .. p
  <2>1. PICK t \in 1 .. p : IsNewest(t, n) /\ IsNewest(t, n)'
    BY <1>3
  <2>2. r = t
    BY <1>1, <1>2, <1>4, <2>1 DEF IsNewest
  <2> QED BY <2>1, <2>2
<1> QED BY <1>3, <1>4

LEMMA HeldBackBegin ==
  ASSUME TypeOK, HeldBackInv, NEW res, BeginTransaction(res)
  PROVE  SavepointsOfLevels' /\ EventsInForce' /\ AnnouncedIsDurable'
<1> USE DEF HeldBackInv
<1>0. transactions \in Nat /\ PdoTypeOK
  BY BoundsAssumption DEF TypeOK, SessionTypeOK
<1>1. AnnouncedIsDurable'
  BY DEF BeginTransaction, PdoBegin, PdoSavepoint, pdoVars, AnnouncedIsDurable
<1>2. CASE Level = 0
  <2>1. afterCommit' = {} /\ transactions' \in {0, 1} /\ transactions' \in Nat
    BY <1>2 DEF BeginTransaction, IdleHoldsNothing, Level
  <2>2. 2 .. transactions' = {}
    BY <2>1
  <2> QED BY <1>1, <2>1, <2>2 DEF SavepointsOfLevels, EventsInForce, Level
<1>3. CASE Level >= 1 /\ conn = "live" /\ res = "ok"
           /\ saves' = Append(saves, [name |-> Level + 1, held |-> work])
           /\ UNCHANGED <<conn, work, durable>>
  <2>0. PICK k \in Nat : k = Level + 1
    BY <1>0 DEF Level
  <2>1. /\ transactions' = k /\ UNCHANGED afterCommit
        /\ saves' = Append(saves, [name |-> k, held |-> work])
    BY <1>3, <2>0 DEF BeginTransaction, Level
  <2>2. /\ DOMAIN saves' = DOMAIN saves \union {Len(saves) + 1}
        /\ \A p \in DOMAIN saves : saves'[p] = saves[p]
        /\ saves'[Len(saves) + 1].held = work
        /\ \A p : IsNewest(p, k)' <=> p = Len(saves) + 1
        /\ \A m, p : m # k => (IsNewest(p, m)' <=> IsNewest(p, m))
    BY <1>0, <2>1, NewestAfterAppend
  <2>3. Len(saves) \in Nat /\ DOMAIN saves = 1 .. Len(saves)
    BY <1>0 DEF PdoTypeOK
  <2>4. \A n \in 2 .. k : n = k \/ (n \in 2 .. Level /\ n # k)
    BY <1>0, <2>0 DEF Level
  <2>5. SavepointsOfLevels'
    <3>1. \A n \in 2 .. k : \E p \in DOMAIN saves' : IsNewest(p, n)'
      BY <1>3, <2>2, <2>4 DEF SavepointsOfLevels
    <3>2. ASSUME NEW n \in 2 .. k, NEW m \in 2 .. k, NEW p \in DOMAIN saves',
                 NEW r \in DOMAIN saves', n < m, IsNewest(p, n)', IsNewest(r, m)'
          PROVE  p < r
      <4>1. n # k /\ n \in 2 .. Level
        BY <1>0, <2>0, <2>4, <3>2 DEF Level
      <4>2. IsNewest(p, n) /\ p \in DOMAIN saves
        BY <2>2, <3>2, <4>1 DEF IsNewest
      <4>3. CASE m = k
        BY <2>2, <2>3, <3>2, <4>2, <4>3
      <4>4. CASE m # k
        <5>1. m \in 2 .. Level
          BY <2>4, <4>4
        <5>2. IsNewest(r, m) /\ r \in DOMAIN saves
          BY <2>2, <3>2, <4>4 DEF IsNewest
        <5> QED BY <1>3, <3>2, <4>1, <4>2, <5>1, <5>2 DEF SavepointsOfLevels
      <4> QED BY <4>3, <4>4
    <3> QED BY <2>1, <3>1, <3>2 DEF SavepointsOfLevels, Level
  <2>6. EventsInForce'
    <3>1. ASSUME NEW event \in afterCommit, NEW n \in event.level + 1 .. k,
                 NEW p \in DOMAIN saves', IsNewest(p, n)'
          PROVE  event.query \in saves'[p].held
      <4>1. CASE n = k
        BY <1>3, <2>2, <3>1, <4>1 DEF EventsInForce
      <4>2. CASE n # k
        <5>1. event.level \in Int
          BY BoundsAssumption DEF TypeOK, SessionTypeOK
        <5>2. n \in event.level + 1 .. Level
          BY <1>0, <2>0, <3>1, <4>2, <5>1 DEF Level
        <5>3. IsNewest(p, n) /\ p \in DOMAIN saves
          BY <2>2, <3>1, <4>2 DEF IsNewest
        <5> QED BY <1>3, <2>2, <5>2, <5>3 DEF EventsInForce
      <4> QED BY <4>1, <4>2
    <3>2. \A event \in afterCommit : event.query \in work
      BY <1>3 DEF EventsInForce
    <3> QED BY <1>3, <2>1, <3>1, <3>2 DEF EventsInForce, Level
  <2> QED BY <1>1, <2>5, <2>6
<1>4. CASE Level >= 1 /\ UNCHANGED pdoVars /\ res # "ok"
  <2>1. UNCHANGED <<conn, work, saves, transactions, afterCommit>>
    BY <1>4 DEF BeginTransaction, pdoVars, Level
  <2> QED BY <1>1, <2>1 DEF SavepointsOfLevels, EventsInForce, IsNewest, Level
<1>5. res = "ok" => ~Rejected(res)
  BY DEF Rejected
<1> QED BY <1>0, <1>2, <1>3, <1>4, <1>5 DEF BeginTransaction, PdoSavepoint, Level

LEMMA HeldBackCommit ==
  ASSUME TypeOK, HeldBackInv, NEW res \in Results, PerformCommit(res)
  PROVE  SavepointsOfLevels' /\ EventsInForce' /\ AnnouncedIsDurable'
<1> USE DEF HeldBackInv
<1>0. transactions \in Nat
  BY BoundsAssumption DEF TypeOK, SessionTypeOK
<1>1. CASE CommitReal(res)
  <2>1. conn' = "closed"
    BY <1>1 DEF CommitReal, PdoCommit, Release
  <2>2. AnnouncedIsDurable'
    <3>1. CASE res = "ok"
      <4>1. conn = "live" /\ durable' = durable \union work
        BY <1>1, <3>1 DEF CommitReal, PdoCommit, Rejected
      <4>2. \A event \in afterCommit : event.query \in work
        BY <4>1 DEF EventsInForce
      <4>3. announced' = announced \union {event.query : event \in afterCommit}
        BY <1>1, <3>1 DEF CommitReal
      <4> QED BY <4>1, <4>2, <4>3 DEF AnnouncedIsDurable
    <3>2. CASE res # "ok"
      <4>1. announced' = announced /\ durable \subseteq durable'
        BY <1>1, <3>2 DEF CommitReal, PdoCommit
      <4> QED BY <4>1 DEF AnnouncedIsDurable
    <3> QED BY <3>1, <3>2
  <2> QED BY <2>1, <2>2 DEF SavepointsOfLevels, EventsInForce
<1>2. CASE CommitNested /\ Level = 0
  <2>1. afterCommit = {} /\ conn' = "closed"
    BY <1>2 DEF CommitNested, IdleHoldsNothing, pdoVars
  <2>2. announced' = announced /\ durable' = durable
    BY <1>2, <2>1 DEF CommitNested, pdoVars
  <2> QED BY <2>1, <2>2 DEF SavepointsOfLevels, EventsInForce, AnnouncedIsDurable
<1>3. CASE CommitNested /\ Level > 1
  <2>1. PICK k \in Nat : k = Level - 1
    BY <1>0, <1>3 DEF Level
  <2>2. /\ transactions' = k
        /\ UNCHANGED <<conn, work, saves, durable, afterCommit, announced>>
    BY <1>0, <1>3, <2>1 DEF CommitNested, pdoVars, Level
  <2>3. 2 .. k \subseteq 2 .. Level
    BY <1>0, <2>1 DEF Level
  <2>4. \A event \in afterCommit :
          event.level + 1 .. k \subseteq event.level + 1 .. Level
    BY <1>0, <2>1, BoundsAssumption DEF Level, TypeOK, SessionTypeOK
  <2>5. SavepointsOfLevels'
    BY <2>2, <2>3 DEF SavepointsOfLevels, IsNewest, Level
  <2>6. EventsInForce'
    BY <2>2, <2>4 DEF EventsInForce, IsNewest, Level
  <2> QED BY <2>2, <2>5, <2>6 DEF AnnouncedIsDurable
<1> QED BY <1>0, <1>1, <1>2, <1>3 DEF PerformCommit, CommitNested, Level

LEMMA HeldBackRollBack ==
  ASSUME TypeOK, HeldBackInv, NEW toLevel, NEW res, RollBack(toLevel, res)
  PROVE  SavepointsOfLevels' /\ EventsInForce' /\ AnnouncedIsDurable'
<1> USE DEF HeldBackInv
<1>0. transactions \in Nat /\ PdoTypeOK
  BY BoundsAssumption DEF TypeOK, SessionTypeOK
<1>1. ASSUME conn' = "closed", UNCHANGED <<announced, durable>>
      PROVE  SavepointsOfLevels' /\ EventsInForce' /\ AnnouncedIsDurable'
  BY <1>1 DEF SavepointsOfLevels, EventsInForce, AnnouncedIsDurable
<1>2. CASE RollBackLost(toLevel)
  BY <1>1, <1>2 DEF RollBackLost, PdoRollback, Release
<1>3. CASE RollBackKnown(toLevel, res) /\ toLevel = 0
  BY <1>1, <1>3 DEF RollBackKnown, PerformRollBack, PdoRollback, Release
<1>4. CASE RollBackKnown(toLevel, res) /\ toLevel > 0 /\ res # "ok"
  <2>1. UNCHANGED <<conn, work, saves, durable, transactions, afterCommit, announced>>
    BY <1>4 DEF RollBackKnown, PerformRollBack, PdoRollbackTo, pdoVars
  <2> QED
    BY <2>1 DEF SavepointsOfLevels, EventsInForce, AnnouncedIsDurable, IsNewest, Level
<1>5. CASE RollBackKnown(toLevel, res) /\ toLevel > 0 /\ res = "ok"
  <2>0. toLevel \in Nat /\ toLevel + 1 \in 2 .. Level
    BY <1>0, <1>5 DEF RollBackKnown, Level
  <2>1. /\ conn = "live" /\ conn' = "live"
        /\ transactions' = toLevel /\ afterCommit' = Filtered(toLevel)
        /\ UNCHANGED <<durable, announced>>
    BY <1>5 DEF RollBackKnown, PerformRollBack, PdoRollbackTo, Rejected
  <2>2. PICK p \in DOMAIN saves :
          IsNewest(p, toLevel + 1) /\ work' = saves[p].held /\ saves' = SubSeq(saves, 1, p)
    BY <1>5 DEF RollBackKnown, PerformRollBack, PdoRollbackTo, Rejected
  <2>3. /\ DOMAIN saves' = 1 .. p
        /\ \A r \in 1 .. p : r \in DOMAIN saves /\ saves'[r] = saves[r]
        /\ \A n, r : IsNewest(r, n) /\ r <= p => IsNewest(r, n)'
    BY <1>0, <2>2, NewestAfterCut
  <2>5. \A n \in 2 .. toLevel :
          /\ \E r \in 1 .. p : IsNewest(r, n) /\ IsNewest(r, n)' /\ r < p
          /\ \A r : IsNewest(r, n)' => IsNewest(r, n) /\ r \in 1 .. p
    BY <2>0, <2>1, <2>2, NewestAfterRollBack
  <2>7. SavepointsOfLevels'
    <3>1. 2 .. toLevel \subseteq 2 .. Level
      BY <1>0, <2>0 DEF Level
    <3>2. \A n \in 2 .. toLevel : \E r \in DOMAIN saves' : IsNewest(r, n)'
      BY <2>3, <2>5
    <3>3. ASSUME NEW n \in 2 .. toLevel, NEW k \in 2 .. toLevel, NEW r, NEW t,
                 n < k, IsNewest(r, n)', IsNewest(t, k)'
          PROVE  r < t
      <4>1. IsNewest(r, n) /\ IsNewest(t, k) /\ r \in DOMAIN saves /\ t \in DOMAIN saves
        BY <2>3, <2>5, <3>3
      <4> QED BY <2>1, <3>1, <3>3, <4>1 DEF SavepointsOfLevels
    <3> QED BY <2>1, <3>2, <3>3 DEF SavepointsOfLevels, Level
  <2>8. EventsInForce'
    <3>1. ASSUME NEW event \in afterCommit'
          PROVE  /\ event.query \in work'
                 /\ \A n \in event.level + 1 .. toLevel : \A r \in DOMAIN saves' :
                      IsNewest(r, n)' => event.query \in saves'[r].held
      <4>1. event \in afterCommit /\ event.level \in 1 .. toLevel
        BY <2>0, <2>1, <3>1, BoundsAssumption DEF Filtered, TypeOK, SessionTypeOK
      <4>2. toLevel + 1 \in event.level + 1 .. Level
        BY <1>0, <2>0, <4>1 DEF Level
      <4>3. event.query \in work'
        BY <2>1, <2>2, <4>1, <4>2 DEF EventsInForce
      <4>4. ASSUME NEW n \in event.level + 1 .. toLevel, NEW r \in DOMAIN saves',
                   IsNewest(r, n)'
            PROVE  event.query \in saves'[r].held
        <5>1. n \in 2 .. toLevel /\ n \in event.level + 1 .. Level
          BY <1>0, <2>0, <4>1 DEF Level
        <5>2. IsNewest(r, n) /\ r \in 1 .. p
          BY <2>5, <4>4, <5>1
        <5> QED BY <2>1, <2>3, <4>1, <5>1, <5>2 DEF EventsInForce
      <4> QED BY <4>3, <4>4
    <3> QED BY <2>1, <3>1 DEF EventsInForce, Level
  <2>9. AnnouncedIsDurable'
    BY <2>1 DEF AnnouncedIsDurable
  <2> QED BY <2>7, <2>8, <2>9
<1> QED BY <1>0, <1>2, <1>3, <1>4, <1>5 DEF RollBack, RollBackKnown, Level

LEMMA HeldBackQuery ==
  ASSUME TypeOK, HeldBackInv, NEW q \in Queries, NEW res, RunQuery(q, res),
         ~DeadlockUndoes \/ res # "concurrency"
  PROVE  SavepointsOfLevels' /\ EventsInForce' /\ AnnouncedIsDurable'
<1> USE DEF HeldBackInv
<1>0. transactions \in Nat
  BY BoundsAssumption DEF TypeOK, SessionTypeOK
<1>1. CASE Level = 0
  <2>1. conn' = "closed"
    BY <1>1 DEF RunQuery, Autocommit, IdleHoldsNothing
  <2>2. AnnouncedIsDurable'
    BY <1>1 DEF RunQuery, Autocommit, LogQuery, AnnouncedIsDurable
  <2> QED BY <2>1, <2>2 DEF SavepointsOfLevels, EventsInForce
<1>2. CASE Level >= 1 /\ res = "ok"
  <2>1. /\ conn = "live" /\ work' = work \union {q}
        /\ UNCHANGED <<conn, saves, durable, transactions, announced>>
        /\ afterCommit' = afterCommit \union {[level |-> Level, query |-> q]}
    BY <1>0, <1>2 DEF RunQuery, PdoWrite, Rejected, LogQuery, Level
  <2>2. SavepointsOfLevels'
    BY <2>1 DEF SavepointsOfLevels, IsNewest, Level
  <2>3. EventsInForce'
    <3>1. ASSUME NEW event \in afterCommit'
          PROVE  /\ event.query \in work'
                 /\ \A n \in event.level + 1 .. Level : \A p \in DOMAIN saves :
                      IsNewest(p, n) => event.query \in saves[p].held
      <4>1. CASE event \in afterCommit
        BY <2>1, <4>1 DEF EventsInForce
      <4>2. CASE event = [level |-> Level, query |-> q]
        <5>1. event.query = q /\ event.level = Level
          BY <4>2
        <5>2. event.level + 1 .. Level = {}
          BY <1>0, <5>1 DEF Level
        <5> QED BY <2>1, <5>1, <5>2
      <4> QED BY <2>1, <3>1, <4>1, <4>2
    <3> QED BY <2>1, <3>1 DEF EventsInForce, IsNewest, Level
  <2> QED BY <2>1, <2>2, <2>3 DEF AnnouncedIsDurable
<1>3. CASE Level >= 1 /\ res # "ok"
  <2>1. UNCHANGED <<conn, work, saves, durable, transactions, afterCommit, announced>>
    BY <1>0, <1>3 DEF RunQuery, PdoWrite, pdoVars, Level
  <2> QED
    BY <2>1 DEF SavepointsOfLevels, EventsInForce, AnnouncedIsDurable, IsNewest, Level
<1> QED BY <1>0, <1>1, <1>2, <1>3 DEF Level

LEMMA HeldBackLose ==
  ASSUME HeldBackInv, LoseConnection
  PROVE  SavepointsOfLevels' /\ EventsInForce' /\ AnnouncedIsDurable'
BY DEF HeldBackInv, LoseConnection, PdoDrop, sessionVars,
       SavepointsOfLevels, EventsInForce, AnnouncedIsDurable

LEMMA HeldBackStep ==
  ASSUME ~DeadlockUndoes, TypeOK, HeldBackInv, [Next]_vars
  PROVE  HeldBackInv'
<1>1. IdleHoldsNothing'
  BY IdleStep DEF HeldBackInv
<1>2. CASE Next
  BY <1>1, <1>2, HeldBackBegin, HeldBackCommit, HeldBackRollBack, HeldBackQuery, HeldBackLose
     DEF Next, HeldBackInv
<1>3. CASE UNCHANGED vars
  BY <1>1, <1>3 DEF vars, pdoVars, sessionVars, HeldBackInv, SavepointsOfLevels,
                    EventsInForce, AnnouncedIsDurable, IsNewest, Level
<1> QED BY <1>2, <1>3

(* While a concurrency error fails no more than its statement, no query is       *)
(* announced outside its transaction before its effect is committed, and none   *)
(* whose effect was rolled back, however savepoints, rollbacks and errors are   *)
(* ordered.                                                                     *)
THEOREM AnnouncedOnlyIfDurable ==
  ASSUME ~DeadlockUndoes
  PROVE  Spec => []AnnouncedIsDurable
<1>1. Init => HeldBackInv
  BY DEF Init, PdoInit, HeldBackInv, IdleHoldsNothing, SavepointsOfLevels, EventsInForce,
         AnnouncedIsDurable
<1>2. TypeOK /\ HeldBackInv /\ [Next]_vars => HeldBackInv'
  BY HeldBackStep
<1>3. HeldBackInv => AnnouncedIsDurable
  BY DEF HeldBackInv
<1> QED BY <1>1, <1>2, <1>3, TypeCorrect, PTL DEF Spec

-------------------------------------------------------------------------------
(* Queries of the outermost level: no hypothesis on the server.                 *)

LEMMA OutermostStep ==
  ASSUME TypeOK, IdleHoldsNothing, OutermostHeldBack, [Next]_vars
  PROVE  OutermostHeldBack'
<1>0. transactions \in Nat /\ PdoTypeOK
  BY BoundsAssumption DEF TypeOK, SessionTypeOK
<1>1. ASSUME work' = {}, saves' = <<>>
      PROVE  OutermostHeldBack'
  BY <1>1 DEF OutermostHeldBack
<1>2. ASSUME UNCHANGED <<work, saves, queryLevel>>, \A q : EventHeldBack(q) => EventHeldBack(q)'
      PROVE  OutermostHeldBack'
  BY <1>2 DEF OutermostHeldBack
<1>3. ASSUME UNCHANGED <<queryLevel, afterCommit>>
      PROVE  \A q : EventHeldBack(q) => EventHeldBack(q)'
  BY <1>3 DEF EventHeldBack, Ran
<1>4. ASSUME NEW res \in Results, BeginTransaction(res)
      PROVE  OutermostHeldBack'
  <2>1. \A q : EventHeldBack(q) => EventHeldBack(q)'
    BY <1>3, <1>4 DEF BeginTransaction
  <2>2. CASE Level >= 1 /\ saves' = Append(saves, [name |-> Level + 1, held |-> work])
             /\ UNCHANGED work
    <3>1. PICK k \in Nat : k = Level + 1
      BY <1>0 DEF Level
    <3>2. /\ DOMAIN saves' = DOMAIN saves \union {Len(saves) + 1}
          /\ \A p \in DOMAIN saves : saves'[p] = saves[p]
          /\ saves'[Len(saves) + 1].held = work
      BY <1>0, <2>2, <3>1, NewestAfterAppend
    <3> QED BY <2>1, <2>2, <3>2 DEF OutermostHeldBack
  <2>3. CASE UNCHANGED pdoVars
    BY <1>2, <1>4, <2>1, <2>3 DEF BeginTransaction, pdoVars
  <2> QED BY <1>1, <1>4, <2>2, <2>3 DEF BeginTransaction, PdoBegin, PdoSavepoint
<1>5. ASSUME NEW res \in Results, PerformCommit(res)
      PROVE  OutermostHeldBack'
  <2>1. CASE CommitReal(res)
    BY <1>1, <2>1 DEF CommitReal, PdoCommit, Release
  <2>2. CASE CommitNested /\ Level # 0
    BY <1>2, <1>3, <2>2 DEF CommitNested, pdoVars
  <2>3. CASE CommitNested /\ Level = 0
    BY <1>2, <1>3, <2>3 DEF CommitNested, pdoVars, IdleHoldsNothing
  <2> QED BY <1>5, <2>1, <2>2, <2>3 DEF PerformCommit
<1>6. ASSUME NEW toLevel, NEW res, RollBack(toLevel, res)
      PROVE  OutermostHeldBack'
  <2>1. ASSUME NEW r, PdoRollback(r) PROVE OutermostHeldBack'
    BY <1>1, <2>1 DEF PdoRollback, Release
  <2>2. CASE RollBackKnown(toLevel, res) /\ toLevel > 0
    <3>1. toLevel \in Nat /\ toLevel >= 1 /\ UNCHANGED queryLevel
      BY <1>0, <2>2 DEF RollBackKnown, Level
    <3>2. \A q : EventHeldBack(q) => EventHeldBack(q)'
      BY <2>2, <3>1 DEF RollBackKnown, EventHeldBack, Filtered, Ran
    <3>3. CASE UNCHANGED pdoVars
      BY <1>2, <3>1, <3>2, <3>3 DEF pdoVars
    <3>4. ASSUME NEW p \in DOMAIN saves, work' = saves[p].held, saves' = SubSeq(saves, 1, p)
          PROVE  OutermostHeldBack'
      <4>1. /\ DOMAIN saves' = 1 .. p
            /\ \A r \in 1 .. p : r \in DOMAIN saves /\ saves'[r] = saves[r]
        BY <1>0, <3>4, NewestAfterCut
      <4> QED BY <3>2, <3>4, <4>1 DEF OutermostHeldBack
    <3> QED BY <2>2, <3>3, <3>4 DEF RollBackKnown, PerformRollBack, PdoRollbackTo
  <2>3. CASE RollBackKnown(toLevel, res) /\ ~(toLevel > 0)
    BY <2>1, <2>3 DEF RollBackKnown, PerformRollBack
  <2> QED BY <1>6, <2>1, <2>2, <2>3 DEF RollBack, RollBackLost
<1>7. ASSUME NEW q \in Queries, NEW res, RunQuery(q, res)
      PROVE  OutermostHeldBack'
  <2>1. CASE res # "ok"
    <3>1. \A r : EventHeldBack(r) => EventHeldBack(r)'
      BY <1>3, <1>7, <2>1 DEF RunQuery
    <3>2. CASE UNCHANGED <<work, saves>>
      BY <1>2, <1>7, <2>1, <3>1, <3>2 DEF RunQuery
    <3> QED BY <1>1, <1>7, <2>1, <3>2 DEF RunQuery, PdoWrite, Autocommit, pdoVars
  <2>2. CASE res = "ok"
    <3>1. LogQuery(q) /\ q \notin Ran
      BY <1>7, <2>2 DEF RunQuery
    <3>2. \A r : EventHeldBack(r) => EventHeldBack(r)'
      <4>1. Ran' = Ran \union {q} /\ \A r \in Ran : queryLevel'[r] = queryLevel[r]
        BY <3>1 DEF LogQuery, Ran
      <4>2. afterCommit \subseteq afterCommit'
        BY <3>1 DEF LogQuery
      <4> QED BY <4>1, <4>2 DEF EventHeldBack
    <3>3. CASE Level = 0
      BY <1>7, <3>2, <3>3 DEF RunQuery, Autocommit, OutermostHeldBack
    <3>4. CASE Level >= 1
      <4>1. work' = work \union {q} /\ UNCHANGED saves
        BY <1>0, <1>7, <2>2, <3>4 DEF RunQuery, PdoWrite, Rejected, Level
      <4>2. EventHeldBack(q)'
        BY <1>0, <3>1, <3>4 DEF LogQuery, EventHeldBack, Ran, Level
      <4> QED BY <3>2, <4>1, <4>2 DEF OutermostHeldBack
    <3> QED BY <1>0, <3>3, <3>4 DEF Level
  <2> QED BY <2>1, <2>2
<1>8. CASE LoseConnection
  BY <1>1, <1>8 DEF LoseConnection, PdoDrop
<1>9. CASE UNCHANGED vars
  BY <1>2, <1>3, <1>9 DEF vars, pdoVars, sessionVars
<1> QED BY <1>4, <1>5, <1>6, <1>7, <1>8, <1>9 DEF Next

(* A commit that succeeds announces every query it makes durable that ran in    *)
(* the outermost transaction.                                                   *)
THEOREM OutermostAreAnnounced == Spec => OutermostAnnounced
<1> DEFINE Step == CommitReal("ok") =>
             \A q \in durable' \ durable : queryLevel[q] = 1 => q \in announced'
<1>1. Init => OutermostHeldBack
  BY DEF Init, PdoInit, OutermostHeldBack
<1>2. OutermostHeldBack => Step
  <2> SUFFICES ASSUME OutermostHeldBack, CommitReal("ok"),
                      NEW q \in durable' \ durable, queryLevel[q] = 1
               PROVE  q \in announced'
    OBVIOUS
  <2>1. q \in work
    BY DEF CommitReal, PdoCommit, Rejected
  <2>2. [level |-> 1, query |-> q] \in afterCommit
    BY <2>1 DEF OutermostHeldBack, EventHeldBack
  <2> QED BY <2>2 DEF CommitReal
<1>3. OutermostHeldBack => [Step]_vars
  BY <1>2
<1> QED
  BY <1>1, <1>3, OutermostStep, TypeCorrect, NothingHeldWhenIdle, PTL DEF Spec, OutermostAnnounced

-------------------------------------------------------------------------------
(* Sequences given by what they hold at each place.                             *)

LEMMA FunctionIsSeq ==
  ASSUME NEW S, NEW k \in Nat, NEW f \in [1 .. k -> S]
  PROVE  f \in Seq(S) /\ Len(f) = k
<1>1. f \in Seq(S)
  BY SeqDef
<1> QED BY <1>1

LEMMA AppendedAt ==
  ASSUME NEW S, NEW k \in Nat, NEW f \in [1 .. k -> S], NEW x \in S,
         NEW g \in [1 .. k + 1 -> S],
         \A i \in 1 .. k : g[i] = f[i], g[k + 1] = x
  PROVE  g = Append(f, x)
<1>1. f \in Seq(S) /\ Len(f) = k /\ g \in Seq(S) /\ Len(g) = k + 1
  BY FunctionIsSeq
<1>2. /\ Append(f, x) \in Seq(S) /\ Len(Append(f, x)) = k + 1
      /\ \A i \in 1 .. k : Append(f, x)[i] = f[i]
      /\ Append(f, x)[k + 1] = x
  BY <1>1, AppendProperties
<1>3. \A i \in 1 .. k + 1 : i \in 1 .. k \/ i = k + 1
  OBVIOUS
<1>4. \A i \in 1 .. Len(g) : g[i] = Append(f, x)[i]
  BY <1>1, <1>2, <1>3
<1> QED BY <1>1, <1>2, <1>4, SeqEqual

LEMMA CutAt ==
  ASSUME NEW S, NEW k \in Nat, NEW f \in [1 .. k -> S], NEW j \in 0 .. k,
         NEW g \in [1 .. j -> S], \A i \in 1 .. j : g[i] = f[i]
  PROVE  g = SubSeq(f, 1, j)
<1>1. f \in Seq(S) /\ Len(f) = k /\ g \in Seq(S) /\ Len(g) = j
  BY FunctionIsSeq
<1>2. \A i \in 1 .. j : f[i] \in S
  OBVIOUS
<1>3. /\ SubSeq(f, 1, j) \in Seq(S) /\ Len(SubSeq(f, 1, j)) = j
      /\ \A i \in 1 .. j : SubSeq(f, 1, j)[i] = f[i]
  BY <1>1, <1>2, SubSeqProperties
<1>4. \A i \in 1 .. Len(g) : g[i] = SubSeq(f, 1, j)[i]
  BY <1>1, <1>3
<1> QED BY <1>1, <1>3, <1>4, SeqEqual

-------------------------------------------------------------------------------
(* The abstract stack, and what the server holds of it.                         *)

LevelFound(n) == IF conn = "live" THEN FoundAtLevel(n) ELSE {}
LevelsFound == [n \in 1 .. Level |-> LevelFound(n)]
Doomed == Level > 0 /\ conn # "live"

(* A transaction that is not live holds nothing, and no savepoint is named after *)
(* the outermost level, which begins with a real transaction.                   *)
ServerInv ==
  /\ conn # "live" => work = {} /\ saves = <<>>
  /\ \A p \in DOMAIN saves : saves[p].name >= 2

RefinementInv == TypeOK /\ IdleHoldsNothing /\ SavepointsOfLevels /\ ServerInv

LEMMA LevelIsNat ==
  ASSUME TypeOK
  PROVE  Level \in Nat
BY BoundsAssumption DEF TypeOK, SessionTypeOK, Level

LEMMA SavepointType ==
  ASSUME PdoTypeOK
  PROVE  /\ \A p \in DOMAIN saves : saves[p].held \in SUBSET Queries
         /\ \A p \in DOMAIN saves : saves[p].name \in Nat
<1>1. \A p \in DOMAIN saves : saves[p] \in Savepoints
  BY DEF PdoTypeOK
<1> QED BY <1>1 DEF Savepoints

(* Each level found a set of queries when it was entered, the outermost none.    *)
StackTypeOK ==
  /\ \A n : LevelFound(n) \in SUBSET Queries
  /\ LevelFound(1) = {}
  /\ LevelsFound \in [1 .. Level -> SUBSET Queries]
  /\ Len(LevelsFound) = Level

LEMMA StackType == RefinementInv => StackTypeOK
<1> SUFFICES ASSUME RefinementInv PROVE StackTypeOK
  OBVIOUS
<1>1. /\ \A p \in DOMAIN saves : saves[p].held \in SUBSET Queries
      /\ \A p \in DOMAIN saves : saves[p].name \in Nat
  BY SavepointType DEF RefinementInv, TypeOK
<1>2. \A n : LevelFound(n) \in SUBSET Queries
  BY <1>1 DEF LevelFound, FoundAtLevel
<1>3. LevelFound(1) = {}
  <2>1. \A p \in DOMAIN saves : ~(saves[p].name = 1)
    BY <1>1 DEF RefinementInv, ServerInv
  <2>2. {i \in DOMAIN saves : IsNewest(i, 1)} = {}
    BY <2>1 DEF IsNewest
  <2>3. FoundAtLevel(1) = {}
    BY <2>2 DEF FoundAtLevel
  <2> QED BY <2>3 DEF LevelFound
<1>4. LevelsFound \in [1 .. Level -> SUBSET Queries]
  BY <1>2 DEF LevelsFound
<1>5. Len(LevelsFound) = Level
  BY <1>4, LevelIsNat, FunctionIsSeq DEF RefinementInv
<1> QED BY <1>2, <1>3, <1>4, <1>5 DEF StackTypeOK

(* What a level found is what its newest savepoint holds.                       *)
LEMMA FoundByNewest ==
  ASSUME PdoTypeOK, NEW n, NEW p, IsNewest(p, n)
  PROVE  FoundAtLevel(n) = saves[p].held
<1>1. {i \in DOMAIN saves : IsNewest(i, n)} = {p}
  BY NewestUnique DEF IsNewest
<1> QED BY <1>1 DEF FoundAtLevel

(* The steps of the abstract stack, in the terms of the session.                *)
AbstractStutter ==
  LevelsFound' = LevelsFound /\ work' = work /\ Doomed' = Doomed /\ durable' = durable

LEMMA AbstractEnter ==
  ASSUME ~Doomed, LevelsFound' = Append(LevelsFound, work),
         work' = work, Doomed' = Doomed, durable' = durable
  PROVE  Abstract!Next
<1>1. Abstract!Enter
  BY DEF Abstract!Enter, LevelsFound, LevelFound, Doomed
<1> QED BY <1>1 DEF Abstract!Next

LEMMA AbstractWrite ==
  ASSUME ~Doomed, NEW q \in Queries,
         IF Len(LevelsFound) > 0
           THEN work' = work \union {q} /\ durable' = durable
           ELSE durable' = durable \union {q} /\ work' = work,
         LevelsFound' = LevelsFound, Doomed' = Doomed
  PROVE  Abstract!Next
<1>1. Abstract!Write(q)
  BY DEF Abstract!Write, Abstract!Depth, LevelsFound, LevelFound, Doomed
<1> QED BY <1>1 DEF Abstract!Next

LEMMA AbstractLeaveNested ==
  ASSUME Len(LevelsFound) > 1,
         LevelsFound' = SubSeq(LevelsFound, 1, Len(LevelsFound) - 1),
         work' = work, Doomed' = Doomed, durable' = durable
  PROVE  Abstract!Next
<1>1. Abstract!LeaveNested
  BY DEF Abstract!LeaveNested, Abstract!Depth, LevelsFound, LevelFound, Doomed
<1> QED BY <1>1 DEF Abstract!Next

LEMMA AbstractRollBackTo ==
  ASSUME ~Doomed, Len(LevelsFound) \in Nat, NEW k \in 0 .. Len(LevelsFound) - 1,
         work' = LevelsFound[k + 1], LevelsFound' = SubSeq(LevelsFound, 1, k),
         Doomed' = Doomed, durable' = durable
  PROVE  Abstract!Next
<1>1. Abstract!RollBackTo(k)
  BY DEF Abstract!RollBackTo, Abstract!Depth, LevelsFound, LevelFound, Doomed
<1>2. k \in 0 .. Len(LevelsFound)
  OBVIOUS
<1> QED BY <1>1, <1>2 DEF Abstract!Next, Abstract!Depth, LevelsFound, LevelFound

LEMMA AbstractFinish ==
  ASSUME Len(LevelsFound) > 0, NEW kept \in {{}, work},
         kept # {} => Len(LevelsFound) = 1,
         durable' = durable \union kept, LevelsFound' = <<>>, work' = {}, ~Doomed'
  PROVE  Abstract!Next
<1>1. Abstract!Finish(kept)
  BY DEF Abstract!Finish, Abstract!Depth, LevelsFound, LevelFound, Doomed
<1> QED BY <1>1 DEF Abstract!Next

LEMMA AbstractDoom ==
  ASSUME Len(LevelsFound) > 0, Doomed', work' = {}, durable' = durable,
         LevelsFound' = [n \in 1 .. Len(LevelsFound) |-> {}]
  PROVE  Abstract!Next
<1>1. Abstract!Doom
  BY DEF Abstract!Doom, Abstract!Depth, LevelsFound, LevelFound, Doomed
<1> QED BY <1>1 DEF Abstract!Next

-------------------------------------------------------------------------------
(* The invariant of the refinement.                                             *)

LEMMA ServerInvStep ==
  ASSUME TypeOK, IdleHoldsNothing, ServerInv, [Next]_vars
  PROVE  ServerInv'
<1>0. Level \in Nat /\ PdoTypeOK
  BY LevelIsNat DEF TypeOK
<1>1. ASSUME UNCHANGED pdoVars PROVE ServerInv'
  BY <1>1 DEF ServerInv, pdoVars
<1>2. ASSUME work' = {}, saves' = <<>> PROVE ServerInv'
  BY <1>2 DEF ServerInv
<1>3. ASSUME NEW res \in Results, BeginTransaction(res) PROVE ServerInv'
  <2>1. CASE Level >= 1 /\ conn = "live" /\ conn' = "live"
             /\ saves' = Append(saves, [name |-> Level + 1, held |-> work])
    <3>1. PICK k \in Nat : k = Level + 1 /\ k >= 2
      BY <1>0, <2>1
    <3>2. DEFINE sp == [name |-> k, held |-> work]
    <3>3. saves \in Seq(Savepoints) /\ sp \in Savepoints /\ sp.name = k
      BY <1>0 DEF PdoTypeOK, Savepoints
    <3>4. saves' = Append(saves, sp)
      BY <2>1, <3>1
    <3> HIDE DEF sp
    <3>5. \A p \in DOMAIN saves' : (p \in DOMAIN saves /\ saves'[p] = saves[p]) \/ saves'[p] = sp
      BY <3>3, <3>4
    <3> QED BY <2>1, <3>1, <3>3, <3>5 DEF ServerInv
  <2> QED BY <1>0, <1>1, <1>2, <1>3, <2>1 DEF BeginTransaction, PdoBegin, PdoSavepoint
<1>4. ASSUME NEW res \in Results, PerformCommit(res) PROVE ServerInv'
  BY <1>1, <1>2, <1>4 DEF PerformCommit, CommitNested, CommitReal, PdoCommit, Release
<1>5. ASSUME NEW toLevel, NEW res, RollBack(toLevel, res) PROVE ServerInv'
  <2>1. ASSUME NEW p \in DOMAIN saves, saves' = SubSeq(saves, 1, p), conn' = "live"
        PROVE  ServerInv'
    <3>1. \A r \in DOMAIN saves' : r \in DOMAIN saves /\ saves'[r] = saves[r]
      BY <1>0, <2>1, NewestAfterCut
    <3> QED BY <2>1, <3>1 DEF ServerInv
  <2>2. ASSUME NEW n, PdoRollbackTo(n, res) PROVE ServerInv'
    BY <1>1, <2>1, <2>2 DEF PdoRollbackTo
  <2> QED
    BY <1>2, <1>5, <2>2
       DEF RollBack, RollBackKnown, RollBackLost, PerformRollBack, PdoRollback, Release
<1>6. ASSUME NEW q \in Queries, NEW res, RunQuery(q, res) PROVE ServerInv'
  <2>1. CASE conn = "live" /\ UNCHANGED <<conn, saves>>
    BY <2>1 DEF ServerInv
  <2>2. ASSUME Autocommit(q, res) PROVE ServerInv'
    BY <2>2 DEF ServerInv, Autocommit
  <2> QED BY <1>1, <1>2, <1>6, <2>1, <2>2 DEF RunQuery, PdoWrite
<1>7. CASE LoseConnection
  BY <1>2, <1>7 DEF LoseConnection, PdoDrop
<1>8. CASE UNCHANGED vars
  BY <1>1, <1>8 DEF vars
<1> QED BY <1>3, <1>4, <1>5, <1>6, <1>7, <1>8 DEF Next

-------------------------------------------------------------------------------
(* Every step of the session is a step of the abstract stack, or leaves it.     *)

RefinementStep == Abstract!Next \/ AbstractStutter

LEMMA RefinementUnchanged ==
  ASSUME UNCHANGED <<transactions, conn, work, saves, durable>>
  PROVE  RefinementStep
BY DEF RefinementStep, AbstractStutter, LevelsFound, LevelFound, FoundAtLevel, IsNewest,
       Level, Doomed

LEMMA DoomedUnchanged ==
  ASSUME Doomed' <=> Doomed
  PROVE  Doomed' = Doomed
BY DEF Doomed

(* The session leaves its outermost transaction, with kept made durable.        *)
LEMMA RefinementFinish ==
  ASSUME RefinementInv, StackTypeOK, StackTypeOK', Level >= 1,
         NEW kept \in {{}, work}, kept # {} => Level = 1,
         durable' = durable \union kept, transactions' = 0, Release
  PROVE  RefinementStep
<1>1. Len(LevelsFound) = Level /\ Level \in Nat
  BY LevelIsNat DEF StackTypeOK, RefinementInv
<1>2. Level' = 0
  BY DEF Level
<1>3. LevelsFound' = <<>>
  <2>1. LevelsFound' \in Seq(SUBSET Queries) /\ Len(LevelsFound') = 0
    BY <1>2 DEF StackTypeOK
  <2> QED BY <2>1, EmptySeq
<1>4. work' = {} /\ ~Doomed'
  BY <1>2 DEF Release, Doomed
<1> QED BY <1>1, <1>3, <1>4, AbstractFinish DEF RefinementStep

(* The server has undone the transaction, and the level stays.                  *)
LEMMA RefinementDoom ==
  ASSUME RefinementInv, StackTypeOK, Level >= 1, transactions' = transactions,
         durable' = durable, work' = {}, conn' # "live"
  PROVE  RefinementStep
<1>1. Len(LevelsFound) = Level /\ Level \in Nat
  BY LevelIsNat DEF StackTypeOK, RefinementInv
<1>2. LevelsFound' = [n \in 1 .. Len(LevelsFound) |-> {}]
  BY <1>1 DEF LevelsFound, LevelFound, Level
<1>3. Doomed'
  BY <1>1 DEF Doomed, Level
<1> QED BY <1>1, <1>2, <1>3, AbstractDoom DEF RefinementStep

LEMMA RefinementBegin ==
  ASSUME RefinementInv, StackTypeOK, StackTypeOK', NEW res \in Results, BeginTransaction(res)
  PROVE  RefinementStep
<1>0. /\ Level \in Nat /\ Len(LevelsFound) = Level /\ PdoTypeOK /\ work \in SUBSET Queries
      /\ res = "ok" => ~Rejected(res)
  BY LevelIsNat DEF StackTypeOK, RefinementInv, TypeOK, PdoTypeOK, Rejected
<1>1. CASE res # "ok"
  <2>1. UNCHANGED pdoVars /\ UNCHANGED transactions
    BY <1>1, <1>0 DEF BeginTransaction, PdoBegin, PdoSavepoint, Level, Rejected
  <2> QED BY <2>1, RefinementUnchanged DEF pdoVars
<1>2. ASSUME conn' = "live", UNCHANGED durable, work' = work, ~Doomed,
             NEW k \in Nat, k = Level + 1, Level' = k, LevelFound(k)' = work,
             \A n \in 1 .. Level : LevelFound(n)' = LevelFound(n)
      PROVE  RefinementStep
  <2>1. LevelsFound \in [1 .. Level -> SUBSET Queries]
    BY DEF StackTypeOK
  <2>2. LevelsFound' \in [1 .. Level + 1 -> SUBSET Queries]
    BY <1>2 DEF StackTypeOK
  <2>3. LevelsFound' = [n \in 1 .. k |-> LevelFound(n)']
    BY <1>2 DEF LevelsFound
  <2>4. \A n \in 1 .. Level : LevelsFound'[n] = LevelsFound[n]
    BY <1>0, <1>2, <2>3 DEF LevelsFound
  <2>5. LevelsFound'[Level + 1] = work
    BY <1>0, <1>2, <2>3
  <2>6. LevelsFound' = Append(LevelsFound, work)
    BY <1>0, <2>1, <2>2, <2>4, <2>5, AppendedAt
  <2>7. Doomed' = Doomed
    BY <1>2, DoomedUnchanged DEF Doomed
  <2> QED BY <1>2, <2>6, <2>7, AbstractEnter DEF RefinementStep
<1>3. CASE Level = 0 /\ res = "ok"
  <2>1. conn = "closed" /\ work = {}
    BY <1>3 DEF RefinementInv, IdleHoldsNothing, ServerInv
  <2>2. conn' = "live" /\ work' = {} /\ UNCHANGED durable /\ Level' = 1
    BY <1>3 DEF BeginTransaction, PdoBegin, Errors, Level
  <2>3. LevelFound(1)' = work
    BY <2>1 DEF StackTypeOK
  <2>4. ~Doomed /\ 1 .. Level = {} /\ 1 = Level + 1
    BY <1>3 DEF Doomed
  <2> QED BY <1>2, <2>1, <2>2, <2>3, <2>4
<1>4. CASE Level >= 1 /\ res = "ok"
  <2>1. /\ conn = "live" /\ conn' = "live" /\ work' = work /\ UNCHANGED durable
        /\ transactions' = Level + 1
        /\ saves' = Append(saves, [name |-> Level + 1, held |-> work])
    BY <1>0, <1>4 DEF BeginTransaction, PdoSavepoint
  <2>2. PICK k \in Nat : k = Level + 1
    BY <1>0
  <2>3. /\ DOMAIN saves' = DOMAIN saves \union {Len(saves) + 1}
        /\ \A p \in DOMAIN saves : saves'[p] = saves[p]
        /\ saves'[Len(saves) + 1].held = work
        /\ \A p : IsNewest(p, k)' <=> p = Len(saves) + 1
        /\ \A m, p : m # k => (IsNewest(p, m)' <=> IsNewest(p, m))
    BY <1>0, <2>1, <2>2, NewestAfterAppend
  <2>4. LevelFound(k)' = work
    <3>1. {i \in DOMAIN saves' : IsNewest(i, k)'} = {Len(saves) + 1}
      BY <2>3
    <3>2. FoundAtLevel(k)' = work
      BY <2>3, <3>1 DEF FoundAtLevel
    <3> QED BY <2>1, <3>2 DEF LevelFound
  <2>5. ASSUME NEW n \in 1 .. Level PROVE LevelFound(n)' = LevelFound(n)
    <3>1. n # k
      BY <1>0, <2>2
    <3>2. {i \in DOMAIN saves' : IsNewest(i, n)'} = {i \in DOMAIN saves : IsNewest(i, n)}
      BY <2>3, <3>1 DEF IsNewest
    <3>3. FoundAtLevel(n)' = FoundAtLevel(n)
      BY <2>3, <3>2 DEF FoundAtLevel
    <3> QED BY <2>1, <3>3 DEF LevelFound
  <2>6. Level' = k /\ ~Doomed
    BY <2>1, <2>2 DEF Level, Doomed
  <2> QED BY <1>2, <2>1, <2>2, <2>4, <2>5, <2>6
<1> QED BY <1>0, <1>1, <1>3, <1>4

LEMMA RefinementCommit ==
  ASSUME RefinementInv, StackTypeOK, StackTypeOK', NEW res \in Results, PerformCommit(res)
  PROVE  RefinementStep
<1>0. Level \in Nat /\ Len(LevelsFound) = Level
  BY LevelIsNat DEF StackTypeOK, RefinementInv
<1>1. CASE CommitReal(res)
  <2>1. Level = 1 /\ transactions' = 0 /\ Release
    BY <1>1 DEF CommitReal, PdoCommit
  <2>2. PICK kept \in {{}, work} : durable' = durable \union kept
    BY <1>1 DEF CommitReal, PdoCommit
  <2> QED BY <2>1, <2>2, RefinementFinish
<1>2. CASE CommitNested /\ Level = 0
  BY <1>2, RefinementUnchanged DEF CommitNested, pdoVars, Level
<1>3. CASE CommitNested /\ Level > 1
  <2>1. transactions' = Level - 1 /\ UNCHANGED pdoVars
    BY <1>0, <1>3 DEF CommitNested
  <2>2. Level' = Level - 1 /\ Level - 1 \in 0 .. Level /\ Level' > 0
    BY <1>0, <1>3, <2>1 DEF Level
  <2>3. \A n : LevelFound(n)' = LevelFound(n)
    BY <2>1 DEF LevelFound, FoundAtLevel, IsNewest, pdoVars
  <2>4. LevelsFound' = SubSeq(LevelsFound, 1, Level - 1)
    <3>1. /\ LevelsFound \in [1 .. Level -> SUBSET Queries]
          /\ LevelsFound' \in [1 .. Level - 1 -> SUBSET Queries]
      BY <2>2 DEF StackTypeOK
    <3>2. \A n \in 1 .. Level - 1 : LevelsFound'[n] = LevelsFound[n]
      BY <1>0, <2>2, <2>3 DEF LevelsFound
    <3> QED BY <1>0, <2>2, <3>1, <3>2, CutAt
  <2>5. Doomed' = Doomed
    <3>1. Level > 0 /\ conn' = conn
      BY <1>0, <1>3, <2>1 DEF pdoVars
    <3> QED BY <2>2, <3>1, DoomedUnchanged DEF Doomed
  <2> QED BY <1>0, <1>3, <2>1, <2>4, <2>5, AbstractLeaveNested DEF RefinementStep, pdoVars
<1> QED BY <1>0, <1>1, <1>2, <1>3 DEF PerformCommit, CommitNested

LEMMA RefinementRollBack ==
  ASSUME RefinementInv, StackTypeOK, StackTypeOK', NEW toLevel, NEW res \in Results,
         RollBack(toLevel, res)
  PROVE  RefinementStep
<1>0. /\ Level \in Nat /\ Len(LevelsFound) = Level /\ PdoTypeOK
      /\ toLevel \in 0 .. Level - 1 /\ Level >= 1
  BY LevelIsNat
     DEF StackTypeOK, RefinementInv, TypeOK, RollBack, RollBackKnown, RollBackLost
<1>1. ASSUME transactions' = 0, Release, UNCHANGED durable
      PROVE  RefinementStep
  <2>1. {} \in {{}, work} /\ durable' = durable \union {}
    BY <1>1
  <2> QED BY <1>0, <1>1, <2>1, RefinementFinish
<1>2. CASE RollBackLost(toLevel)
  BY <1>1, <1>2 DEF RollBackLost, PdoRollback
<1>3. CASE RollBackKnown(toLevel, res) /\ toLevel = 0
  <2>1. Release /\ UNCHANGED durable
    BY <1>3 DEF RollBackKnown, PerformRollBack, PdoRollback
  <2>2. CASE res = "ok"
    BY <1>1, <1>3, <2>1, <2>2 DEF RollBackKnown
  <2>3. CASE res # "ok"
    <3>1. transactions' = transactions
      BY <1>3, <2>3 DEF RollBackKnown
    <3> QED BY <1>0, <2>1, <3>1, RefinementDoom DEF Release
  <2> QED BY <2>2, <2>3
<1>4. CASE RollBackKnown(toLevel, res) /\ toLevel > 0 /\ res # "ok"
  <2>1. UNCHANGED pdoVars /\ UNCHANGED transactions
    BY <1>4 DEF RollBackKnown, PerformRollBack, PdoRollbackTo
  <2> QED BY <2>1, RefinementUnchanged DEF pdoVars
<1>5. CASE RollBackKnown(toLevel, res) /\ toLevel > 0 /\ res = "ok"
  <2>1. PICK k \in Nat : k = toLevel /\ k + 1 \in 2 .. Level /\ k \in 0 .. Level
    BY <1>0, <1>5
  <2>2. /\ conn = "live" /\ conn' = "live" /\ UNCHANGED durable /\ transactions' = k
    BY <1>5, <2>1 DEF RollBackKnown, PerformRollBack, PdoRollbackTo, Rejected
  <2>3. PICK p \in DOMAIN saves :
          IsNewest(p, k + 1) /\ work' = saves[p].held /\ saves' = SubSeq(saves, 1, p)
    BY <1>5, <2>1 DEF RollBackKnown, PerformRollBack, PdoRollbackTo, Rejected
  <2>4. work' = LevelsFound[k + 1]
    <3>1. FoundAtLevel(k + 1) = work'
      BY <1>0, <2>3, FoundByNewest
    <3>2. k + 1 \in 1 .. Level
      BY <1>0, <2>1
    <3> QED BY <2>2, <3>1, <3>2 DEF LevelsFound, LevelFound
  <2>5. \A n \in 2 .. k :
          /\ \E r \in 1 .. p : IsNewest(r, n) /\ IsNewest(r, n)' /\ r < p
          /\ \A r : IsNewest(r, n)' => IsNewest(r, n) /\ r \in 1 .. p
    BY <2>1, <2>2, <2>3, NewestAfterRollBack DEF RefinementInv
  <2>6. /\ DOMAIN saves' = 1 .. p
        /\ \A r \in 1 .. p : r \in DOMAIN saves /\ saves'[r] = saves[r]
    BY <1>0, <2>3, NewestAfterCut
  <2>7. ASSUME NEW n \in 1 .. k PROVE LevelFound(n)' = LevelFound(n)
    <3>1. CASE n = 1
      BY <3>1 DEF StackTypeOK
    <3>2. CASE n # 1
      <4>1. n \in 2 .. k
        BY <2>1, <3>2
      <4>2. PICK r \in 1 .. p : IsNewest(r, n) /\ IsNewest(r, n)'
        BY <2>5, <4>1
      <4>3. FoundAtLevel(n) = saves[r].held
        BY <1>0, <4>2, FoundByNewest
      <4>4. {i \in DOMAIN saves' : IsNewest(i, n)'} = {r}
        BY <1>0, <2>5, <2>6, <4>1, <4>2, NewestUnique
      <4>5. FoundAtLevel(n)' = saves'[r].held
        BY <4>4 DEF FoundAtLevel
      <4> QED BY <2>2, <2>6, <4>2, <4>3, <4>5 DEF LevelFound
    <3> QED BY <3>1, <3>2
  <2>8. LevelsFound' = SubSeq(LevelsFound, 1, k)
    <3>1. Level' = k /\ 1 .. k \subseteq 1 .. Level
      BY <1>0, <2>1, <2>2 DEF Level
    <3>2. /\ LevelsFound \in [1 .. Level -> SUBSET Queries]
          /\ LevelsFound' \in [1 .. k -> SUBSET Queries]
      BY <3>1 DEF StackTypeOK
    <3>3. \A n \in 1 .. k : LevelsFound'[n] = LevelsFound[n]
      BY <2>7, <3>1 DEF LevelsFound
    <3> QED BY <1>0, <2>1, <3>2, <3>3, CutAt
  <2>9. ~Doomed /\ Doomed' = Doomed
    BY <2>2, DoomedUnchanged DEF Doomed
  <2>10. k \in 0 .. Len(LevelsFound) - 1
    BY <1>0, <2>1
  <2> QED BY <1>0, <2>2, <2>4, <2>8, <2>9, <2>10, AbstractRollBackTo DEF RefinementStep
<1>6. CASE RollBackKnown(toLevel, res)
  BY <1>0, <1>3, <1>4, <1>5, <1>6
<1> QED BY <1>2, <1>6 DEF RollBack

LEMMA RefinementQuery ==
  ASSUME RefinementInv, StackTypeOK, ~DeadlockUndoes, NEW q \in Queries, NEW res \in Results,
         RunQuery(q, res)
  PROVE  RefinementStep
<1>0. Level \in Nat /\ Len(LevelsFound) = Level /\ transactions' = transactions
  BY LevelIsNat DEF StackTypeOK, RefinementInv, RunQuery
<1>1. ASSUME UNCHANGED <<conn, saves>>
      PROVE  LevelsFound' = LevelsFound /\ Doomed' = Doomed
  <2>1. \A n : LevelFound(n)' = LevelFound(n)
    BY <1>1 DEF LevelFound, FoundAtLevel, IsNewest
  <2> QED BY <1>0, <1>1, <2>1 DEF LevelsFound, Doomed, Level
<1>2. CASE Level = 0
  <2>1. UNCHANGED <<conn, work, saves>> /\ durable' \in {durable, durable \union {q}}
    BY <1>2 DEF RunQuery, Autocommit
  <2>2. CASE durable' = durable
    BY <1>0, <2>1, <2>2, RefinementUnchanged
  <2>3. CASE durable' = durable \union {q}
    BY <1>0, <1>1, <1>2, <2>1, <2>3, AbstractWrite DEF RefinementStep, Doomed
  <2> QED BY <2>1, <2>2, <2>3
<1>3. CASE Level >= 1 /\ res = "ok"
  <2>1. conn = "live" /\ work' = work \union {q} /\ UNCHANGED <<conn, saves, durable>>
    BY <1>0, <1>3 DEF RunQuery, PdoWrite, Rejected
  <2> QED BY <1>0, <1>1, <1>3, <2>1, AbstractWrite DEF RefinementStep, Doomed
<1>4. CASE Level >= 1 /\ res # "ok"
  <2>1. UNCHANGED pdoVars
    BY <1>0, <1>4 DEF RunQuery, PdoWrite, pdoVars
  <2> QED BY <1>0, <2>1, RefinementUnchanged DEF pdoVars
<1> QED BY <1>0, <1>2, <1>3, <1>4

LEMMA RefinementLose ==
  ASSUME RefinementInv, StackTypeOK, LoseConnection
  PROVE  RefinementStep
<1>1. Level >= 1
  BY LevelIsNat DEF RefinementInv, IdleHoldsNothing, LoseConnection, PdoDrop
<1> QED BY <1>1, RefinementDoom DEF LoseConnection, PdoDrop, sessionVars

(* While a concurrency error fails no more than its statement, the session       *)
(* implements nested transactions: a rollback to a level gives back exactly what *)
(* that level found, and only the outermost commit makes anything durable.      *)
THEOREM SessionImplementsNested ==
  ASSUME ~DeadlockUndoes
  PROVE  Spec => ImplementsNested
<1> DEFINE SessionInv == HeldBackInv /\ ServerInv
<1>1. Init => SessionInv /\ Abstract!Init
  <2> SUFFICES ASSUME Init PROVE SessionInv /\ Abstract!Init
    OBVIOUS
  <2>1. SessionInv
    BY DEF Init, PdoInit, HeldBackInv, IdleHoldsNothing, SavepointsOfLevels, EventsInForce,
           AnnouncedIsDurable, ServerInv
  <2>2. Abstract!Init
    BY DEF Init, PdoInit, Abstract!Init, Level
  <2> QED BY <2>1, <2>2
<1>2. TypeOK /\ SessionInv /\ [Next]_vars => SessionInv'
  BY HeldBackStep, ServerInvStep DEF HeldBackInv
<1>3. TypeOK /\ SessionInv => RefinementInv
  BY DEF HeldBackInv, RefinementInv
<1>4. RefinementInv /\ StackTypeOK /\ StackTypeOK' /\ [Next]_vars
        => [Abstract!Next]_(Abstract!nestedVars)
  <2> SUFFICES ASSUME RefinementInv, StackTypeOK, StackTypeOK', [Next]_vars
               PROVE  [Abstract!Next]_(Abstract!nestedVars)
    OBVIOUS
  <2>1. RefinementStep
    <3>1. CASE Next
      BY <3>1, RefinementBegin, RefinementCommit, RefinementRollBack, RefinementQuery,
         RefinementLose DEF Next
    <3>2. CASE UNCHANGED vars
      BY <3>2, RefinementUnchanged DEF vars, pdoVars, sessionVars
    <3> QED BY <3>1, <3>2
  <2>2. AbstractStutter => UNCHANGED Abstract!nestedVars
    BY DEF AbstractStutter, Abstract!nestedVars, LevelsFound, LevelFound, Doomed
  <2> QED BY <2>1, <2>2 DEF RefinementStep
<1> QED
  BY <1>1, <1>2, <1>3, <1>4, StackType, TypeCorrect, PTL DEF Spec, ImplementsNested, Abstract!Spec

-------------------------------------------------------------------------------
(* transaction(callback, attempts).                                             *)

(* The level the call expects, and the states in which it is the level: after a   *)
(* rollback rejected with an unrecognised error the level stays above it.        *)
Expected == IF mode = "begin" THEN Depth - 1 ELSE Depth
Aligned == Level = Expected

(* An error of concurrency unwinds every call up to the real rollback, and the    *)
(* savepoints may be gone meanwhile.                                            *)
Failing == mode = "raise" /\ raised = "concurrency"
Sound == Aligned /\ ~Failing

(* A lost connection has reset the level under the calls in progress.            *)
Reset == mode = "raise" /\ raised = "lost" /\ Level = 0

Outcomes == {"open", "returned", "threw", "unknown"}
CallRecord == [max : Nat, attempt : Nat, outcome : Outcomes]

CallTypeOK ==
  /\ frames \in Seq(Nat)
  /\ calls \in Seq(CallRecord)
  /\ mode \in {"begin", "body", "raise"}
  /\ raised \in Errors \union {"none"}
  /\ path \in [Ran -> SUBSET [call : DOMAIN calls, attempt : Nat]]
  /\ stuck \in BOOLEAN

(* The calls in progress are those that have not settled.                       *)
FramesInv ==
  /\ \A i \in 1 .. Depth : frames[i] \in DOMAIN calls
  /\ \A i, j \in 1 .. Depth : frames[i] = frames[j] => i = j
  /\ \A c \in DOMAIN calls : calls[c].outcome = "open" <=> \E i \in 1 .. Depth : frames[i] = c

LevelInv ==
  /\ mode # "body" => Depth > 0
  /\ mode = "raise" <=> raised # "none"
  /\ Level >= Expected \/ Reset
  /\ ~stuck => Aligned \/ Reset

Mentions(q, c) == \E s \in path[q] : s.call = c

(* The query ran in the current attempts of calls that did not fail.             *)
Clean(q) ==
  \A s \in path[q] : /\ calls[s.call].outcome \in {"open", "returned"}
                     /\ s.attempt = calls[s.call].attempt

PathInv ==
  /\ \A q \in Ran : \A s \in path[q] : s.attempt <= calls[s.call].attempt
  /\ mode = "begin" =>
       \A q \in Ran : \A s \in path[q] : s.call = Top => s.attempt # calls[Top].attempt
  /\ \A q \in Ran : \A j \in 1 .. Depth : \A i \in 1 .. j :
       Mentions(q, frames[j]) => Mentions(q, frames[i])

(* The savepoints are those of the calls in progress, and what is in force, now    *)
(* or after a rollback to one of them, is the work of calls that did not fail.   *)
WorkInv ==
  Sound =>
    /\ SavepointsOfLevels
    /\ EventsInForce
    /\ conn = "live" =>
         /\ \A q \in work : q \in Ran /\ Clean(q)
         /\ \A n \in 2 .. Level : \A p \in DOMAIN saves : IsNewest(p, n) =>
              \A q \in saves[p].held : q \in Ran /\ Clean(q) /\ ~Mentions(q, frames[n])

DurableInv ==
  /\ durable \subseteq Ran
  /\ \A q \in durable : \A s \in path[q] :
       /\ calls[s.call].outcome \in {"returned", "unknown"}
       /\ s.attempt = calls[s.call].attempt

(* What ran in calls that did not fail is durable, or is in force in the           *)
(* outermost call in progress, and at the savepoints of the calls it is not of.  *)
ReturnInv ==
  ~stuck =>
    /\ \A q \in Ran \ durable : Clean(q) => Depth > 0 /\ Mentions(q, frames[1])
    /\ Sound /\ conn = "live" =>
         \A q \in Ran \ durable : Clean(q) =>
           /\ q \in work
           /\ \A n \in 2 .. Level : \A p \in DOMAIN saves :
                IsNewest(p, n) /\ ~Mentions(q, frames[n]) => q \in saves[p].held

CallInv ==
  /\ CallTypeOK /\ FramesInv /\ LevelInv /\ PathInv
  /\ WorkInv /\ DurableInv /\ ReturnInv /\ AnnouncedIsDurable

-------------------------------------------------------------------------------
(* A managed transaction takes the steps of a session under manual control.      *)

LEMMA CallStepIsSessionStep ==
  ASSUME TypeOK, [CallNext]_allVars
  PROVE  [Next]_vars
<1>1. ASSUME NEW res \in Results, BeginAttempt(res) PROVE Next
  BY <1>1 DEF BeginAttempt, Next
<1>2. ASSUME NEW q \in Queries, NEW res \in Results, CallbackStatement(q, res) PROVE Next
  BY <1>2 DEF CallbackStatement, Next
<1>3. ASSUME NEW res \in Results, CallbackReturn(res) PROVE Next
  BY <1>3 DEF CallbackReturn, Next
<1>4. CASE NestedDeadlock
  <2>1. CommitNested
    BY <1>4 DEF NestedDeadlock, CommitNested, Level, TypeOK, SessionTypeOK
  <2> QED BY <2>1 DEF PerformCommit, Results, Next
<1>5. ASSUME NEW res \in Results, HandleError(res) PROVE [Next]_vars
  <2>1. ASSUME RollBack(Level - 1, res) PROVE Level - 1 \in 0 .. MaxLevel - 1
    BY <2>1, BoundsAssumption
       DEF RollBack, RollBackKnown, RollBackLost, Level, TypeOK, SessionTypeOK
  <2> QED BY <1>5, <2>1 DEF HandleError, Next
<1>6. CASE LoseConnectionInCall
  BY <1>6 DEF LoseConnectionInCall, Next
<1>7. ASSUME UNCHANGED vars PROVE [Next]_vars
  BY <1>7
<1> QED BY <1>1, <1>2, <1>3, <1>4, <1>5, <1>6, <1>7
        DEF CallNext, Call, CallbackThrow, ProgramEnds, allVars

(* transaction() uses beginTransaction, the commit and rollBack as a program under *)
(* manual control may: what ConnectionSession guarantees, it guarantees to it.   *)
THEOREM CallsAreSessionSteps == CallSpec => Spec
<1>1. CallInit => Init
  BY DEF CallInit
<1>2. TypeOK /\ [CallNext]_allVars => TypeOK' /\ [Next]_vars
  BY CallStepIsSessionStep, TypeStep
<1> QED BY <1>1, <1>2, TypeInit, PTL DEF CallSpec, Spec

-------------------------------------------------------------------------------
(* The stack of the calls in progress.                                          *)

LEMMA CallPlaces ==
  ASSUME CallTypeOK
  PROVE  /\ Depth \in Nat /\ DOMAIN frames = 1 .. Depth
         /\ \A c \in DOMAIN calls : calls[c] \in CallRecord /\ c \in Nat
         /\ DOMAIN calls = 1 .. Len(calls) /\ Len(calls) \in Nat
         /\ \A q \in Ran : \A s \in path[q] : s.call \in DOMAIN calls /\ s.attempt \in Nat
<1>1. frames \in Seq(Nat) /\ calls \in Seq(CallRecord)
  BY DEF CallTypeOK
<1>2. \A q \in Ran : \A s \in path[q] : s \in [call : DOMAIN calls, attempt : Nat]
  BY DEF CallTypeOK
<1> QED BY <1>1, <1>2 DEF Depth

LEMMA TopIsOpen ==
  ASSUME CallTypeOK, FramesInv, Depth > 0
  PROVE  /\ Top \in DOMAIN calls /\ Depth \in 1 .. Depth /\ calls[Top].outcome = "open"
         /\ calls[Top] \in CallRecord /\ calls[Top].attempt \in Nat
<1>1. Depth \in 1 .. Depth
  BY CallPlaces
<1>2. Top \in DOMAIN calls /\ calls[Top].outcome = "open"
  BY <1>1 DEF FramesInv, Top
<1>3. calls[Top] \in CallRecord
  BY <1>2, CallPlaces
<1> QED BY <1>1, <1>2, <1>3 DEF CallRecord

(* One call goes to another attempt or settles.                                 *)
CallsStep(c, attempt, outcome) ==
  /\ calls' \in Seq(CallRecord) /\ DOMAIN calls' = DOMAIN calls
  /\ \A d \in DOMAIN calls : d # c => calls'[d] = calls[d]
  /\ calls'[c].attempt = attempt /\ calls'[c].outcome = outcome

LEMMA CallsStepOf ==
  ASSUME CallTypeOK, NEW c \in DOMAIN calls, NEW r \in CallRecord,
         calls' = [calls EXCEPT ![c] = r]
  PROVE  CallsStep(c, r.attempt, r.outcome)
<1>1. /\ calls \in Seq(CallRecord) /\ DOMAIN calls = 1 .. Len(calls) /\ Len(calls) \in Nat
      /\ calls \in [1 .. Len(calls) -> CallRecord]
  <2>1. calls \in Seq(CallRecord)
    BY DEF CallTypeOK
  <2> QED BY <2>1, LenProperties
<1>2. calls' \in [1 .. Len(calls) -> CallRecord]
  BY <1>1
<1>3. calls' \in Seq(CallRecord)
  BY <1>1, <1>2, SeqDef
<1> QED BY <1>1, <1>2, <1>3 DEF CallsStep

(* The innermost call settles.                                                  *)
Popped(outcome) ==
  /\ CallsStep(Top, calls[Top].attempt, outcome)
  /\ frames' \in Seq(Nat) /\ Depth' = Depth - 1
  /\ \A i \in 1 .. Depth - 1 : frames'[i] = frames[i]

LEMMA PoppedStep ==
  ASSUME CallTypeOK, FramesInv, Depth > 0, NEW outcome \in Outcomes,
         frames' = SubSeq(frames, 1, Depth - 1),
         calls' = [calls EXCEPT ![Top].outcome = outcome]
  PROVE  Popped(outcome)
<1> DEFINE r == [calls[Top] EXCEPT !.outcome = outcome]
<1>1. Top \in DOMAIN calls /\ calls[Top] \in CallRecord
  BY TopIsOpen
<1>2. r \in CallRecord /\ r.attempt = calls[Top].attempt /\ r.outcome = outcome
  BY <1>1 DEF CallRecord
<1>3. calls' = [calls EXCEPT ![Top] = r]
  BY <1>1
<1> HIDE DEF r
<1>4. CallsStep(Top, r.attempt, r.outcome)
  BY <1>1, <1>2, <1>3, CallsStepOf
<1>5. frames \in Seq(Nat) /\ Len(frames) \in Nat /\ Depth = Len(frames)
  BY DEF CallTypeOK, Depth
<1>6. /\ frames' \in Seq(Nat) /\ Len(frames') = Depth - 1
      /\ \A i \in 1 .. Depth - 1 : frames'[i] = frames[i]
  BY <1>5
<1> QED BY <1>2, <1>4, <1>6 DEF Popped, Depth

LEMMA SettlePops ==
  ASSUME CallTypeOK, FramesInv, Depth > 0, Settle
  PROVE  Popped("returned") /\ mode' = "body" /\ raised' = "none"
BY PoppedStep DEF Settle, Outcomes

LEMMA ThrowPops ==
  ASSUME CallTypeOK, FramesInv, Depth > 0, ~CallbackMayCatch,
         NEW err, NEW outcome \in Outcomes, Throw(err, outcome)
  PROVE  /\ Popped(outcome)
         /\ \/ Depth > 1 /\ mode' = "raise" /\ raised' = err
            \/ Depth = 1 /\ mode' = "body" /\ raised' = "none"
BY PoppedStep DEF Throw

LEMMA RetryStep ==
  ASSUME CallTypeOK, FramesInv, Depth > 0, Retry
  PROVE  /\ CallsStep(Top, calls[Top].attempt + 1, "open")
         /\ mode' = "begin" /\ raised' = "none" /\ frames' = frames
<1> DEFINE r == [calls[Top] EXCEPT !.attempt = calls[Top].attempt + 1]
<1>1. Top \in DOMAIN calls /\ calls[Top] \in CallRecord /\ calls[Top].outcome = "open"
  BY TopIsOpen
<1>2. r \in CallRecord /\ r.attempt = calls[Top].attempt + 1 /\ r.outcome = "open"
  BY <1>1 DEF CallRecord
<1>3. calls' = [calls EXCEPT ![Top] = r]
  BY <1>1 DEF Retry
<1> HIDE DEF r
<1>4. CallsStep(Top, r.attempt, r.outcome)
  BY <1>1, <1>2, <1>3, CallsStepOf
<1> QED BY <1>2, <1>4 DEF Retry

(* What a query is marked with, once the innermost call has settled.             *)
LEMMA CleanAfterPop ==
  ASSUME CallTypeOK, FramesInv, Depth > 0, NEW outcome \in Outcomes \ {"open"},
         Popped(outcome), path' = path, NEW q \in Ran
  PROVE  /\ outcome = "returned" => (Clean(q)' <=> Clean(q))
         /\ outcome # "returned" => (Clean(q)' <=> Clean(q) /\ ~Mentions(q, Top))
<1>1. /\ Top \in DOMAIN calls /\ calls[Top].outcome = "open"
      /\ calls'[Top].attempt = calls[Top].attempt /\ calls'[Top].outcome = outcome
      /\ \A c \in DOMAIN calls : c # Top => calls'[c] = calls[c]
  BY TopIsOpen DEF Popped, CallsStep
<1>2. \A s \in path[q] : s.call \in DOMAIN calls
  BY CallPlaces
<1>3. Clean(q)' <=> \A s \in path[q] : /\ calls'[s.call].outcome \in {"open", "returned"}
                                      /\ s.attempt = calls'[s.call].attempt
  BY DEF Clean
<1>4. CASE outcome = "returned"
  BY <1>1, <1>2, <1>3, <1>4 DEF Clean
<1>5. CASE outcome # "returned"
  BY <1>1, <1>2, <1>3, <1>5 DEF Clean, Mentions
<1> QED BY <1>4, <1>5

LEMMA PoppedKeeps ==
  ASSUME CallTypeOK, FramesInv, PathInv, DurableInv, Depth > 0,
         NEW outcome \in Outcomes \ {"open"}, Popped(outcome),
         mode' # "begin", UNCHANGED <<path, queryLevel>>
  PROVE  /\ FramesInv' /\ PathInv' /\ (durable' = durable => DurableInv')
         /\ path \in [Ran' -> SUBSET [call : DOMAIN calls', attempt : Nat]]
<1>1. /\ Top \in DOMAIN calls /\ calls[Top].outcome = "open" /\ Top = frames[Depth]
      /\ calls'[Top].attempt = calls[Top].attempt /\ calls'[Top].outcome = outcome
      /\ \A c \in DOMAIN calls : c # Top => calls'[c] = calls[c]
      /\ DOMAIN calls' = DOMAIN calls /\ Depth' = Depth - 1
      /\ \A i \in 1 .. Depth - 1 : frames'[i] = frames[i]
  BY TopIsOpen DEF Popped, CallsStep, Top
<1>2. /\ Depth \in Nat /\ Depth \in 1 .. Depth
      /\ \A i \in 1 .. Depth - 1 : i \in 1 .. Depth /\ i # Depth
      /\ \A i \in 1 .. Depth : i \in 1 .. Depth - 1 \/ i = Depth
  BY CallPlaces
<1>3. \A q \in Ran : \A s \in path[q] : s.call \in DOMAIN calls
  BY CallPlaces
<1>4. Ran' = Ran /\ path' = path
  BY DEF Ran
<1>5. FramesInv'
  <2>1. \A i \in 1 .. Depth' : frames'[i] \in DOMAIN calls'
    BY <1>1, <1>2 DEF FramesInv
  <2>2. \A i, j \in 1 .. Depth' : frames'[i] = frames'[j] => i = j
    BY <1>1, <1>2 DEF FramesInv
  <2>3. \A i \in 1 .. Depth - 1 : frames[i] # Top
    BY <1>1, <1>2 DEF FramesInv
  <2>4. ASSUME NEW c \in DOMAIN calls
        PROVE  calls'[c].outcome = "open" <=> \E i \in 1 .. Depth' : frames'[i] = c
    <3>1. CASE c = Top
      BY <1>1, <2>3, <3>1
    <3>2. CASE c # Top
      BY <1>1, <1>2, <3>2 DEF FramesInv
    <3> QED BY <3>1, <3>2
  <2> QED BY <1>1, <2>1, <2>2, <2>4 DEF FramesInv
<1>6. PathInv'
  <2>1. \A q \in Ran : \A s \in path[q] : s.attempt <= calls'[s.call].attempt
    BY <1>1, <1>3 DEF PathInv
  <2>2. \A q \in Ran : \A j \in 1 .. Depth' : \A i \in 1 .. j :
          Mentions(q, frames'[j]) => Mentions(q, frames'[i])
    <3> SUFFICES ASSUME NEW q \in Ran, NEW j \in 1 .. Depth - 1, NEW i \in 1 .. j,
                        Mentions(q, frames[j])
                 PROVE  Mentions(q, frames[i])
      BY <1>1, <1>2
    <3> QED BY <1>2 DEF PathInv
  <2> QED BY <1>4, <2>1, <2>2 DEF PathInv, Mentions
<1>7. durable' = durable => DurableInv'
  BY <1>1, <1>3, <1>4 DEF DurableInv
<1> QED BY <1>1, <1>4, <1>5, <1>6, <1>7 DEF CallTypeOK

(* A retry undoes the attempt: what ran in it is no longer clean.                *)
LEMMA RetryKeeps ==
  ASSUME CallTypeOK, FramesInv, PathInv, DurableInv, Depth > 0, Retry,
         UNCHANGED <<path, queryLevel, durable>>
  PROVE  /\ FramesInv' /\ PathInv' /\ DurableInv'
         /\ path \in [Ran' -> SUBSET [call : DOMAIN calls', attempt : Nat]]
         /\ \A q \in Ran : Clean(q)' => Clean(q) /\ ~Mentions(q, Top)
<1>1. /\ Top \in DOMAIN calls /\ calls[Top].outcome = "open" /\ calls[Top].attempt \in Nat
      /\ calls'[Top].attempt = calls[Top].attempt + 1 /\ calls'[Top].outcome = "open"
      /\ \A c \in DOMAIN calls : c # Top => calls'[c] = calls[c]
      /\ DOMAIN calls' = DOMAIN calls /\ frames' = frames
  BY TopIsOpen, RetryStep DEF CallsStep
<1>2. Depth' = Depth /\ Top' = Top /\ Ran' = Ran /\ path' = path
  BY <1>1 DEF Depth, Top, Ran
<1>3. \A q \in Ran : \A s \in path[q] : s.call \in DOMAIN calls /\ s.attempt \in Nat
  BY CallPlaces
<1>4. FramesInv'
  BY <1>1, <1>2 DEF FramesInv
<1>5. \A q \in Ran : \A s \in path[q] :
         s.call = Top => s.attempt <= calls[Top].attempt /\ s.attempt # calls[Top].attempt + 1
  <2> SUFFICES ASSUME NEW q \in Ran, NEW s \in path[q], s.call = Top
               PROVE  s.attempt <= calls[Top].attempt /\ s.attempt # calls[Top].attempt + 1
    OBVIOUS
  <2>1. s.attempt <= calls[Top].attempt
    BY DEF PathInv
  <2> QED BY <1>1, <1>3, <2>1
<1>6. PathInv'
  <2>1. \A q \in Ran : \A s \in path[q] : s.attempt <= calls'[s.call].attempt
    <3> SUFFICES ASSUME NEW q \in Ran, NEW s \in path[q]
                 PROVE  s.attempt <= calls'[s.call].attempt
      OBVIOUS
    <3>1. CASE s.call = Top
      BY <1>1, <1>3, <1>5, <3>1
    <3>2. CASE s.call # Top
      BY <1>1, <1>3, <3>2 DEF PathInv
    <3> QED BY <3>1, <3>2
  <2>2. \A q \in Ran : \A s \in path[q] : s.call = Top => s.attempt # calls'[Top].attempt
    BY <1>1, <1>5
  <2>3. \A q \in Ran : \A j \in 1 .. Depth : \A i \in 1 .. j :
          Mentions(q, frames[j]) => Mentions(q, frames[i])
    BY DEF PathInv
  <2> QED BY <1>1, <1>2, <2>1, <2>2, <2>3 DEF PathInv, Mentions
<1>7. DurableInv'
  BY <1>1, <1>2, <1>3 DEF DurableInv
<1>8. ASSUME NEW q \in Ran, Clean(q)' PROVE Clean(q) /\ ~Mentions(q, Top)
  <2>1. \A s \in path[q] : /\ calls'[s.call].outcome \in {"open", "returned"}
                          /\ s.attempt = calls'[s.call].attempt
    BY <1>2, <1>8 DEF Clean
  <2>2. \A s \in path[q] : s.call # Top
    BY <1>1, <1>5, <2>1
  <2> QED BY <1>1, <1>3, <2>1, <2>2 DEF Clean, Mentions
<1> QED BY <1>1, <1>2, <1>4, <1>6, <1>7, <1>8 DEF CallTypeOK

(* A new call is innermost, and no query ran in it.                              *)
LEMMA CallPushes ==
  ASSUME CallTypeOK, FramesInv, PathInv, NEW max \in Attempts, Call(max)
  PROVE  /\ frames' \in Seq(Nat) /\ calls' \in Seq(CallRecord)
         /\ Depth' = Depth + 1 /\ Top' \notin DOMAIN calls
         /\ \A i \in 1 .. Depth : frames'[i] = frames[i]
         /\ DOMAIN calls' = DOMAIN calls \union {Top'} /\ calls'[Top'].outcome = "open"
         /\ \A c \in DOMAIN calls : calls'[c] = calls[c]
<1> DEFINE r == [max |-> max, attempt |-> 1, outcome |-> "open"]
<1>1. r \in CallRecord /\ r.outcome = "open"
  BY CallAssumption DEF CallRecord, Outcomes
<1>2. calls' = Append(calls, r) /\ frames' = Append(frames, Len(calls) + 1)
  BY DEF Call
<1> HIDE DEF r
<1>3. /\ calls \in Seq(CallRecord) /\ frames \in Seq(Nat) /\ Len(calls) \in Nat
      /\ DOMAIN calls = 1 .. Len(calls) /\ Len(frames) \in Nat /\ Depth = Len(frames)
  BY DEF CallTypeOK, Depth
<1>4. /\ calls' \in Seq(CallRecord) /\ DOMAIN calls' = 1 .. Len(calls) + 1
      /\ \A c \in 1 .. Len(calls) : calls'[c] = calls[c]
      /\ calls'[Len(calls) + 1] = r
  BY <1>1, <1>2, <1>3
<1>5. /\ frames' \in Seq(Nat) /\ Len(frames') = Depth + 1
      /\ \A i \in 1 .. Depth : frames'[i] = frames[i]
      /\ frames'[Depth + 1] = Len(calls) + 1
  BY <1>2, <1>3
<1>6. Depth' = Depth + 1 /\ Top' = Len(calls) + 1
  BY <1>5 DEF Depth, Top
<1> QED BY <1>1, <1>3, <1>4, <1>5, <1>6

-------------------------------------------------------------------------------
(* Each step of the call keeps the invariant.                                   *)

LEMMA SessionUnchanged ==
  ASSUME UNCHANGED vars
  PROVE  /\ UNCHANGED <<conn, work, saves, durable, transactions, afterCommit, announced,
                        queryLevel>>
         /\ SavepointsOfLevels' <=> SavepointsOfLevels
         /\ EventsInForce' <=> EventsInForce
         /\ AnnouncedIsDurable' <=> AnnouncedIsDurable
         /\ \A p, n : IsNewest(p, n)' <=> IsNewest(p, n)
         /\ Level' = Level /\ Ran' = Ran
BY DEF vars, pdoVars, sessionVars, SavepointsOfLevels, EventsInForce, AnnouncedIsDurable,
       IsNewest, Level, Ran

(* In a sound state the levels are those of the calls in progress.               *)
LEMMA LevelPlaces ==
  ASSUME TypeOK, CallTypeOK
  PROVE  /\ Level \in Nat /\ Depth \in Nat
         /\ Aligned => \A n \in 2 .. Level : n \in 1 .. Depth /\ n \in Nat
<1>1. Level \in Nat /\ Depth \in Nat
  BY CallPlaces, BoundsAssumption DEF TypeOK, SessionTypeOK, Level
<1> QED BY <1>1 DEF Aligned, Expected

LEMMA CallKeeps ==
  ASSUME TypeOK, CallInv, NEW max \in Attempts, Call(max)
  PROVE  CallInv'
<1> USE DEF CallInv
<1>1. /\ mode = "body" /\ mode' = "begin" /\ UNCHANGED <<raised, path, stuck>> /\ UNCHANGED vars
  BY DEF Call
<1>2. /\ frames' \in Seq(Nat) /\ calls' \in Seq(CallRecord)
      /\ Depth' = Depth + 1 /\ Top' \notin DOMAIN calls /\ Top' = frames'[Depth + 1]
      /\ \A i \in 1 .. Depth : frames'[i] = frames[i]
      /\ DOMAIN calls' = DOMAIN calls \union {Top'} /\ calls'[Top'].outcome = "open"
      /\ \A c \in DOMAIN calls : calls'[c] = calls[c]
  BY CallPushes DEF Top
<1>3. /\ Level' = Level /\ Ran' = Ran /\ Level \in Nat /\ Depth \in Nat
      /\ \A i \in 1 .. Depth + 1 : i \in 1 .. Depth \/ i = Depth + 1
      /\ \A i \in 1 .. Depth : i \in 1 .. Depth + 1
  BY <1>1, SessionUnchanged, LevelPlaces
<1>4. \A q \in Ran : \A s \in path[q] : s.call \in DOMAIN calls
  BY CallPlaces
<1>5. /\ \A q \in Ran : Clean(q)' <=> Clean(q)
      /\ \A q \in Ran : ~Mentions(q, frames'[Depth + 1])
      /\ \A q, c : Mentions(q, c)' <=> Mentions(q, c)
  BY <1>1, <1>2, <1>4 DEF Clean, Mentions
<1>6. CallTypeOK'
  <2>1. path' \in [Ran' -> SUBSET [call : DOMAIN calls', attempt : Nat]]
    BY <1>1, <1>2, <1>3 DEF CallTypeOK
  <2> QED BY <1>1, <1>2, <2>1 DEF CallTypeOK
<1>7. FramesInv'
  <2>1. \A i \in 1 .. Depth : frames[i] \in DOMAIN calls /\ frames[i] # Top'
    BY <1>2 DEF FramesInv
  <2>2. \A i \in 1 .. Depth' : frames'[i] \in DOMAIN calls'
    BY <1>2, <1>3, <2>1
  <2>3. \A i, j \in 1 .. Depth' : frames'[i] = frames'[j] => i = j
    BY <1>2, <1>3, <2>1 DEF FramesInv
  <2>4. ASSUME NEW c \in DOMAIN calls'
        PROVE  calls'[c].outcome = "open" <=> \E i \in 1 .. Depth' : frames'[i] = c
    <3>1. CASE c = Top'
      BY <1>2, <1>3, <3>1
    <3>2. CASE c # Top'
      <4>1. c \in DOMAIN calls /\ calls'[c] = calls[c]
        BY <1>2, <3>2
      <4>2. (\E i \in 1 .. Depth' : frames'[i] = c) <=> \E i \in 1 .. Depth : frames[i] = c
        <5>1. \A i \in 1 .. Depth' : frames'[i] = c => i \in 1 .. Depth /\ frames[i] = c
          BY <1>2, <1>3, <3>2
        <5>2. \A i \in 1 .. Depth : i \in 1 .. Depth' /\ frames'[i] = frames[i]
          BY <1>2, <1>3
        <5> QED BY <5>1, <5>2
      <4> QED BY <4>1, <4>2 DEF FramesInv
    <3> QED BY <3>1, <3>2
  <2> QED BY <2>2, <2>3, <2>4 DEF FramesInv
<1>8. (Expected' = Expected) /\ (Aligned' <=> Aligned) /\ (Sound' <=> Sound) /\ ~Reset /\ ~Reset'
  BY <1>1, <1>2, <1>3 DEF Expected, Aligned, Sound, Failing, Reset
<1>9. LevelInv'
  BY <1>1, <1>2, <1>3, <1>8 DEF LevelInv
<1>10. PathInv'
  <2>1. \A q \in Ran : \A s \in path[q] : s.attempt <= calls'[s.call].attempt
    BY <1>2, <1>4 DEF PathInv
  <2>2. \A q \in Ran : \A s \in path[q] : s.call # Top'
    BY <1>2, <1>4
  <2>3. \A q \in Ran : \A j \in 1 .. Depth' : \A i \in 1 .. j :
          Mentions(q, frames'[j]) => Mentions(q, frames'[i])
    <3> SUFFICES ASSUME NEW q \in Ran, NEW j \in 1 .. Depth, NEW i \in 1 .. j,
                        Mentions(q, frames[j])
                 PROVE  Mentions(q, frames'[i])
      BY <1>2, <1>3, <1>5
    <3>1. i \in 1 .. Depth
      BY <1>3
    <3> QED BY <1>2, <3>1 DEF PathInv
  <2> QED BY <1>1, <1>3, <2>1, <2>2, <2>3 DEF PathInv, Mentions
<1>11. Aligned => \A n \in 2 .. Level : frames'[n] = frames[n]
  BY <1>2, LevelPlaces
<1>12. WorkInv'
  BY <1>1, <1>3, <1>5, <1>8, <1>11, SessionUnchanged DEF WorkInv, Sound
<1>13. DurableInv'
  BY <1>1, <1>2, <1>3, <1>4, SessionUnchanged DEF DurableInv
<1>14. ReturnInv'
  <2> SUFFICES ASSUME ~stuck PROVE ReturnInv'
    BY <1>1 DEF ReturnInv
  <2>1. \A q \in Ran \ durable : Clean(q) => Depth' > 0 /\ Mentions(q, frames'[1])
    BY <1>2, <1>3 DEF ReturnInv
  <2> QED BY <1>1, <1>3, <1>5, <1>8, <1>11, <2>1, SessionUnchanged DEF ReturnInv, Sound, Mentions
<1>15. AnnouncedIsDurable'
  BY <1>1, SessionUnchanged
<1> QED BY <1>6, <1>7, <1>9, <1>10, <1>12, <1>13, <1>14, <1>15

(* No query ran in the attempt that begins.                                     *)
LEMMA FreshAttempt ==
  ASSUME PathInv, mode = "begin", NEW q \in Ran, Clean(q)
  PROVE  ~Mentions(q, Top)
BY DEF PathInv, Clean, Mentions

LEMMA BeginFailsKeeps ==
  ASSUME TypeOK, CallInv, ~CallbackMayCatch, NEW res \in Errors, BeginAttempt(res)
  PROVE  CallInv'
<1> USE DEF CallInv
<1>1. mode = "begin" /\ Depth > 0 /\ UNCHANGED <<path, stuck>> /\ UNCHANGED vars
  <2>1. res # "ok"
    BY DEF Errors
  <2> QED BY <2>1 DEF BeginAttempt, BeginTransaction, PdoBegin, PdoSavepoint, vars, sessionVars,
                      LevelInv, Level
<1>2. /\ Popped("threw")
      /\ \/ Depth > 1 /\ mode' = "raise" /\ raised' = res
         \/ Depth = 1 /\ mode' = "body" /\ raised' = "none"
  BY <1>1, ThrowPops DEF BeginAttempt, Errors, Outcomes
<1>3. /\ Level' = Level /\ Ran' = Ran /\ Level \in Nat /\ Depth \in Nat /\ queryLevel' = queryLevel
      /\ durable' = durable /\ Depth' = Depth - 1 /\ frames' \in Seq(Nat)
      /\ calls' \in Seq(CallRecord) /\ \A i \in 1 .. Depth - 1 : frames'[i] = frames[i]
  BY <1>1, <1>2, SessionUnchanged, LevelPlaces DEF Popped, CallsStep
<1>4. /\ FramesInv' /\ PathInv' /\ DurableInv'
      /\ path \in [Ran' -> SUBSET [call : DOMAIN calls', attempt : Nat]]
  BY <1>1, <1>2, <1>3, PoppedKeeps DEF Outcomes
<1>5. \A q \in Ran : Clean(q)' <=> Clean(q)
  BY <1>1, <1>2, CleanAfterPop, FreshAttempt DEF Outcomes
<1>6. CallTypeOK'
  BY <1>1, <1>2, <1>3, <1>4 DEF CallTypeOK
<1>7. (Expected' = Expected) /\ (Aligned' <=> Aligned) /\ (Sound' => Sound) /\ ~Reset
  BY <1>1, <1>2, <1>3 DEF Expected, Aligned, Sound, Failing, Reset
<1>8. LevelInv'
  BY <1>1, <1>2, <1>3, <1>7 DEF LevelInv, Errors
<1>9. Aligned => \A n \in 2 .. Level : frames'[n] = frames[n]
  BY <1>1, <1>3 DEF Aligned, Expected
<1>10. WorkInv'
  BY <1>1, <1>3, <1>5, <1>7, <1>9, SessionUnchanged DEF WorkInv, Sound, Mentions
<1>11. ReturnInv'
  <2> SUFFICES ASSUME ~stuck PROVE ReturnInv'
    BY <1>1 DEF ReturnInv
  <2>1. ASSUME NEW q \in Ran \ durable, Clean(q)
        PROVE  Depth' > 0 /\ Mentions(q, frames'[1])
    <3>1. Mentions(q, frames[1]) /\ ~Mentions(q, Top)
      BY <1>1, <2>1, FreshAttempt DEF ReturnInv
    <3>2. Depth # 1
      BY <3>1 DEF Top
    <3> QED BY <1>1, <1>3, <3>1, <3>2
  <2> QED BY <1>1, <1>3, <1>5, <1>7, <1>9, <2>1, SessionUnchanged DEF ReturnInv, Sound, Mentions
<1> QED BY <1>1, <1>4, <1>6, <1>8, <1>10, <1>11, SessionUnchanged

LEMMA BeginSucceedsKeeps ==
  ASSUME TypeOK, IdleHoldsNothing, CallInv, BeginAttempt("ok")
  PROVE  CallInv'
<1> USE DEF CallInv
<1>1. /\ mode = "begin" /\ Depth > 0 /\ mode' = "body" /\ BeginTransaction("ok")
      /\ UNCHANGED <<frames, raised, calls, path, stuck>>
      /\ UNCHANGED <<afterCommit, announced, queryLevel, durable>>
      /\ transactions' = Level + 1 /\ raised = "none"
  BY DEF BeginAttempt, BeginTransaction, PdoBegin, PdoSavepoint, pdoVars, LevelInv
<1>2. /\ Level' = Level + 1 /\ Ran' = Ran /\ Depth' = Depth /\ Level \in Nat /\ Depth \in Nat
      /\ \A q : Clean(q)' <=> Clean(q)
      /\ \A q, c : Mentions(q, c)' <=> Mentions(q, c)
  BY <1>1, LevelPlaces DEF Level, Ran, Depth, Clean, Mentions
<1>3. CallTypeOK' /\ FramesInv' /\ DurableInv' /\ AnnouncedIsDurable'
  <2>1. CallTypeOK'
    BY <1>1, <1>2 DEF CallTypeOK
  <2>2. FramesInv'
    BY <1>1, <1>2 DEF FramesInv
  <2>3. DurableInv'
    BY <1>1, <1>2 DEF DurableInv
  <2> QED BY <1>1, <2>1, <2>2, <2>3 DEF AnnouncedIsDurable
<1>4. PathInv'
  BY <1>1, <1>2 DEF PathInv, Mentions
<1>5. /\ Expected' = Depth /\ Expected = Depth - 1 /\ (Aligned' <=> Aligned) /\ Aligned = Sound
      /\ ~Reset /\ ~Reset'
  BY <1>1, <1>2 DEF Expected, Aligned, Sound, Failing, Reset
<1>6. LevelInv'
  BY <1>1, <1>2, <1>5 DEF LevelInv
<1>7. \A q \in Ran : Clean(q) => ~Mentions(q, Top)
  BY <1>1, FreshAttempt
<1>8. CASE Level = 0
  <2>1. afterCommit' = {} /\ work' = {} /\ saves' = <<>>
    BY <1>1, <1>8 DEF IdleHoldsNothing, BeginTransaction, PdoBegin, Errors
  <2>2. 2 .. Level' = {}
    BY <1>2, <1>8
  <2>3. WorkInv'
    BY <2>1, <2>2 DEF WorkInv, SavepointsOfLevels, EventsInForce
  <2>4. Depth = 1
    BY <1>1, <1>2, <1>5, <1>8 DEF LevelInv
  <2>5. ~stuck => \A q \in Ran \ durable : ~Clean(q)
    BY <1>7, <2>4 DEF ReturnInv, Top
  <2>6. ReturnInv'
    BY <1>1, <1>2, <2>5 DEF ReturnInv
  <2> QED BY <1>3, <1>4, <1>6, <2>3, <2>6
<1>9. CASE Level # 0
  <2>0. PICK k \in Nat : k = Level + 1
    BY <1>2
  <2>1. /\ conn = "live" /\ conn' = "live" /\ work' = work
        /\ saves' = Append(saves, [name |-> k, held |-> work])
    BY <1>1, <1>9, <2>0 DEF BeginTransaction, PdoSavepoint, Rejected
  <2>2. /\ DOMAIN saves' = DOMAIN saves \union {Len(saves) + 1}
        /\ \A p \in DOMAIN saves : saves'[p] = saves[p]
        /\ saves'[Len(saves) + 1].held = work
        /\ \A p : IsNewest(p, k)' <=> p = Len(saves) + 1
        /\ \A m, p : m # k => (IsNewest(p, m)' <=> IsNewest(p, m))
    BY <2>1, NewestAfterAppend DEF TypeOK
  <2>3. \A n \in 2 .. Level' : n = k \/ (n \in 2 .. Level /\ n # k)
    BY <1>2, <2>0
  <2>4. Aligned => Top = frames[k]
    BY <1>2, <1>5, <2>0 DEF Aligned, Top
  <2>5. WorkInv'
    <3> SUFFICES ASSUME Sound' PROVE WorkInv'
      BY DEF WorkInv
    <3>1. Sound /\ Aligned
      BY <1>5 DEF Sound
    <3>2. SavepointsOfLevels' /\ EventsInForce'
      <4>1. HeldBackInv
        BY <3>1 DEF HeldBackInv, WorkInv
      <4> QED BY <1>1, <4>1, HeldBackBegin
    <3>3. \A q \in work' : q \in Ran' /\ Clean(q)'
      BY <1>2, <2>1, <3>1 DEF WorkInv
    <3>4. ASSUME NEW n \in 2 .. Level', NEW p \in DOMAIN saves', IsNewest(p, n)',
                 NEW q \in saves'[p].held
          PROVE  q \in Ran /\ Clean(q) /\ ~Mentions(q, frames[n])
      <4>1. CASE n = k
        <5>1. q \in work
          BY <2>2, <3>4, <4>1
        <5> QED BY <1>7, <2>1, <2>4, <3>1, <4>1, <5>1 DEF WorkInv
      <4>2. CASE n # k
        <5>1. n \in 2 .. Level /\ IsNewest(p, n)
          BY <2>2, <2>3, <3>4, <4>2
        <5>2. p \in DOMAIN saves /\ saves'[p] = saves[p]
          BY <2>2, <5>1 DEF IsNewest
        <5> QED BY <2>1, <3>1, <3>4, <5>1, <5>2 DEF WorkInv
      <4> QED BY <4>1, <4>2
    <3> QED BY <1>1, <1>2, <3>2, <3>3, <3>4 DEF WorkInv
  <2>6. ReturnInv'
    <3> SUFFICES ASSUME ~stuck PROVE ReturnInv'
      BY <1>1 DEF ReturnInv
    <3>1. ASSUME Aligned, NEW q \in Ran \ durable, Clean(q) PROVE q \in work
      BY <1>5, <2>1, <3>1 DEF ReturnInv
    <3>2. ASSUME Aligned, NEW q \in Ran \ durable, Clean(q), NEW n \in 2 .. Level',
                 NEW p \in DOMAIN saves', IsNewest(p, n)', ~Mentions(q, frames[n])
          PROVE  q \in saves'[p].held
      <4>1. CASE n = k
        BY <2>2, <3>1, <3>2, <4>1
      <4>2. CASE n # k
        <5>1. n \in 2 .. Level /\ IsNewest(p, n)
          BY <2>2, <2>3, <3>2, <4>2
        <5>2. p \in DOMAIN saves /\ saves'[p] = saves[p]
          BY <2>2, <5>1 DEF IsNewest
        <5> QED BY <1>5, <2>1, <3>2, <5>1, <5>2 DEF ReturnInv
      <4> QED BY <4>1, <4>2
    <3>3. \A q \in Ran \ durable : Clean(q) => Depth > 0 /\ Mentions(q, frames[1])
      BY DEF ReturnInv
    <3>4. Sound' => Aligned
      BY <1>5 DEF Sound
    <3> QED BY <1>1, <1>2, <2>1, <3>1, <3>2, <3>3, <3>4 DEF ReturnInv
  <2> QED BY <1>3, <1>4, <1>6, <2>5, <2>6
<1> QED BY <1>8, <1>9

(* A callback that runs is inside a transaction.                                *)
LEMMA BodyLevel ==
  ASSUME TypeOK, CallTypeOK, LevelInv, mode = "body", Depth > 0
  PROVE  Level >= 1 /\ Level >= Depth /\ (Sound <=> Level = Depth)
<1>1. Level \in Nat /\ Depth \in Nat
  BY LevelPlaces
<1> QED BY <1>1 DEF LevelInv, Expected, Reset, Sound, Aligned, Failing

(* What the statement leaves alone, and where it goes.                           *)
LEMMA StatementGoesToTransaction ==
  ASSUME TypeOK, CallInv, NEW q \in Queries, NEW res \in Results, CallbackStatement(q, res)
  PROVE  /\ mode = "body" /\ Depth > 0 /\ Level >= 1
         /\ RunQuery(q, res) /\ PdoWrite(q, res) /\ q \notin Ran /\ q \notin durable
         /\ UNCHANGED <<transactions, frames, calls, stuck, conn, saves, durable, announced>>
            \/ (res = "concurrency" /\ UNCHANGED <<transactions, frames, calls, stuck, conn, durable,
                                                  announced>>)
<1>1. mode = "body" /\ Depth > 0 /\ RunQuery(q, res) /\ UNCHANGED <<frames, calls, stuck>>
  BY DEF CallbackStatement
<1>2. Level >= 1 /\ Level \in Nat
  BY <1>1, BodyLevel, LevelPlaces DEF CallInv
<1>3. PdoWrite(q, res)
  BY <1>1, <1>2 DEF RunQuery
<1>4. UNCHANGED <<transactions, announced>>
  BY <1>1, <1>2 DEF RunQuery, LogQuery, Level
<1> QED BY <1>1, <1>2, <1>3, <1>4 DEF RunQuery, PdoWrite, pdoVars

LEMMA StatementFailsKeeps ==
  ASSUME TypeOK, CallInv, ~CallbackMayCatch, NEW q \in Queries, NEW res \in Errors,
         CallbackStatement(q, res)
  PROVE  CallInv'
<1> USE DEF CallInv
<1>1. res # "ok" /\ res # "none" /\ res \in Results
  BY DEF Errors, Results
<1>2. /\ mode = "body" /\ Depth > 0 /\ Level >= 1 /\ PdoWrite(q, res)
      /\ UNCHANGED <<transactions, frames, calls, stuck, conn, durable, announced>>
      /\ mode' = "raise" /\ raised' = res /\ UNCHANGED <<afterCommit, queryLevel>>
  BY <1>1, StatementGoesToTransaction DEF CallbackStatement, RunQuery
<1>3. path' = path
  <2>1. path' = [r \in Ran |-> path[r]]
    BY <1>2 DEF CallbackStatement, Ran
  <2> QED BY <2>1 DEF CallTypeOK
<1>4. /\ Level' = Level /\ Ran' = Ran /\ Depth' = Depth /\ Level \in Nat /\ Depth \in Nat
      /\ \A r : Clean(r)' <=> Clean(r)
      /\ \A r, c : Mentions(r, c)' <=> Mentions(r, c)
  BY <1>2, <1>3, LevelPlaces DEF Level, Ran, Depth, Clean, Mentions
<1>5. CallTypeOK'
  BY <1>2, <1>3, <1>4 DEF CallTypeOK
<1>6. FramesInv' /\ DurableInv'
  <2>1. FramesInv'
    BY <1>2, <1>4 DEF FramesInv
  <2>2. DurableInv'
    BY <1>2, <1>3, <1>4 DEF DurableInv
  <2> QED BY <2>1, <2>2
<1>7. PathInv'
  BY <1>2, <1>3, <1>4 DEF PathInv, Mentions
<1>8. /\ (Expected' = Expected) /\ (Aligned' <=> Aligned) /\ (Sound <=> Aligned) /\ ~Reset
      /\ Sound' => Sound /\ res # "concurrency"
  BY <1>2, <1>4 DEF Expected, Aligned, Sound, Failing, Reset
<1>9. LevelInv'
  BY <1>1, <1>2, <1>4, <1>8 DEF LevelInv
<1>10. res # "concurrency" => UNCHANGED vars
  BY <1>2, <1>1 DEF PdoWrite, vars, pdoVars, sessionVars
<1>11. WorkInv'
  BY <1>2, <1>3, <1>4, <1>8, <1>10, SessionUnchanged DEF WorkInv
<1>12. ReturnInv'
  <2> SUFFICES ASSUME ~stuck PROVE ReturnInv'
    BY <1>2 DEF ReturnInv
  <2> QED BY <1>2, <1>3, <1>4, <1>8, <1>10, SessionUnchanged DEF ReturnInv
<1> QED BY <1>2, <1>5, <1>6, <1>7, <1>9, <1>11, <1>12 DEF AnnouncedIsDurable

LEMMA StatementSucceedsKeeps ==
  ASSUME TypeOK, IdleHoldsNothing, CallInv, NEW q \in Queries, CallbackStatement(q, "ok")
  PROVE  CallInv'
<1> USE DEF CallInv
<1>1. /\ mode = "body" /\ Depth > 0 /\ Level >= 1 /\ RunQuery(q, "ok") /\ PdoWrite(q, "ok")
      /\ q \notin Ran /\ q \notin durable
      /\ UNCHANGED <<transactions, frames, calls, stuck, conn, saves, durable, announced>>
      /\ UNCHANGED <<mode, raised>>
  BY StatementGoesToTransaction DEF CallbackStatement, Results
<1>2. conn = "live" /\ work' = work \union {q} /\ Ran' = Ran \union {q}
  BY <1>1 DEF PdoWrite, Rejected, RunQuery, LogQuery, Ran
<1>3. /\ path' = [r \in Ran' |-> IF r \in Ran THEN path[r]
                     ELSE {[call |-> c, attempt |-> calls[c].attempt] :
                             c \in {frames[i] : i \in 1 .. Depth}}]
      /\ \A r \in Ran : path'[r] = path[r]
      /\ path'[q] = {[call |-> c, attempt |-> calls[c].attempt] :
                       c \in {frames[i] : i \in 1 .. Depth}}
  BY <1>1, <1>2, CallPlaces DEF CallbackStatement, Ran
<1>4. /\ Level' = Level /\ Depth' = Depth /\ Level \in Nat /\ Depth \in Nat
      /\ \A p, n : IsNewest(p, n)' <=> IsNewest(p, n)
  BY <1>1, LevelPlaces DEF Level, Depth, IsNewest
<1>5. /\ \A r \in Ran : Clean(r)' <=> Clean(r)
      /\ \A r \in Ran : \A c : Mentions(r, c)' <=> Mentions(r, c)
  BY <1>1, <1>3 DEF Clean, Mentions
<1>6. /\ \A i \in 1 .. Depth : frames[i] \in DOMAIN calls /\ calls[frames[i]].outcome = "open"
                              /\ calls[frames[i]].attempt \in Nat
  BY CallPlaces DEF FramesInv, CallRecord
<1>7. Clean(q)'
  BY <1>1, <1>3, <1>6 DEF Clean
<1>8. \A i \in 1 .. Depth : Mentions(q, frames[i])'
  <2> SUFFICES ASSUME NEW i \in 1 .. Depth PROVE \E s \in path'[q] : s.call = frames[i]
    BY <1>1 DEF Mentions
  <2>1. [call |-> frames[i], attempt |-> calls[frames[i]].attempt] \in path'[q]
    BY <1>3
  <2> QED BY <2>1
<1>9. CallTypeOK'
  <2>1. path'[q] \in SUBSET [call : DOMAIN calls, attempt : Nat]
    BY <1>3, <1>6
  <2>2. \A r \in Ran' : path'[r] \in SUBSET [call : DOMAIN calls, attempt : Nat]
    BY <1>2, <1>3, <2>1 DEF CallTypeOK
  <2>3. path' \in [Ran' -> SUBSET [call : DOMAIN calls', attempt : Nat]]
    BY <1>1, <1>3, <2>2
  <2> QED BY <1>1, <2>3 DEF CallTypeOK
<1>10. FramesInv'
  BY <1>1, <1>4 DEF FramesInv
<1>11. DurableInv'
  BY <1>1, <1>2, <1>3 DEF DurableInv
<1>12. PathInv'
  <2>1. \A s \in path'[q] : s.attempt <= calls[s.call].attempt
    BY <1>3, <1>6
  <2>2. \A r \in Ran' : \A s \in path'[r] : s.attempt <= calls'[s.call].attempt
    BY <1>1, <1>2, <1>3, <2>1 DEF PathInv
  <2>3. \A r \in Ran' : \A j \in 1 .. Depth : \A i \in 1 .. j :
          Mentions(r, frames[j])' => Mentions(r, frames[i])'
    <3> SUFFICES ASSUME NEW r \in Ran', NEW j \in 1 .. Depth, NEW i \in 1 .. j,
                        Mentions(r, frames[j])'
                 PROVE  Mentions(r, frames[i])'
      BY <1>1
    <3>1. i \in 1 .. Depth
      BY <1>4
    <3>2. CASE r = q
      BY <1>8, <3>1, <3>2
    <3>3. CASE r \in Ran
      BY <1>1, <1>5, <3>3 DEF PathInv
    <3> QED BY <1>2, <3>2, <3>3
  <2> QED BY <1>1, <1>4, <2>2, <2>3 DEF PathInv
<1>13. (Expected' = Expected) /\ (Aligned' <=> Aligned) /\ (Sound' <=> Sound) /\ ~Reset
  BY <1>1, <1>4 DEF Expected, Aligned, Sound, Failing, Reset
<1>14. LevelInv'
  BY <1>1, <1>4, <1>13 DEF LevelInv
<1>15. WorkInv'
  <2> SUFFICES ASSUME Sound PROVE WorkInv'
    BY <1>13 DEF WorkInv
  <2>1. SavepointsOfLevels' /\ EventsInForce'
    <3>1. HeldBackInv
      BY DEF HeldBackInv, WorkInv
    <3> QED BY <1>1, <3>1, HeldBackQuery
  <2>2. \A r \in work' : r \in Ran' /\ Clean(r)'
    BY <1>2, <1>5, <1>7 DEF WorkInv
  <2>3. \A n \in 2 .. Level : \A p \in DOMAIN saves : IsNewest(p, n) =>
          \A r \in saves[p].held : r \in Ran' /\ Clean(r)' /\ ~Mentions(r, frames[n])'
    BY <1>1, <1>2, <1>5 DEF WorkInv
  <2> QED BY <1>1, <1>4, <2>1, <2>2, <2>3 DEF WorkInv
<1>16. ReturnInv'
  <2> SUFFICES ASSUME ~stuck PROVE ReturnInv'
    BY <1>1 DEF ReturnInv
  <2>1. \A r \in Ran' \ durable : Clean(r)' => Depth > 0 /\ Mentions(r, frames[1])'
    BY <1>1, <1>2, <1>4, <1>5, <1>8 DEF ReturnInv
  <2>2. ASSUME Sound, NEW r \in Ran' \ durable, Clean(r)' PROVE r \in work'
    BY <1>2, <1>5, <2>2 DEF ReturnInv
  <2>3. ASSUME Sound, NEW r \in Ran' \ durable, Clean(r)', NEW n \in 2 .. Level,
               NEW p \in DOMAIN saves, IsNewest(p, n), ~Mentions(r, frames[n])'
        PROVE  r \in saves[p].held
    <3>1. n \in 1 .. Depth
      BY <2>3, LevelPlaces DEF Sound
    <3>2. r \in Ran
      BY <1>2, <1>8, <2>3, <3>1
    <3> QED BY <1>1, <1>2, <1>5, <2>3, <3>2 DEF ReturnInv
  <2> QED BY <1>1, <1>4, <1>13, <2>1, <2>2, <2>3 DEF ReturnInv
<1> QED BY <1>1, <1>9, <1>10, <1>11, <1>12, <1>14, <1>15, <1>16 DEF AnnouncedIsDurable

LEMMA CallbackThrowKeeps ==
  ASSUME TypeOK, CallInv, CallbackThrow
  PROVE  CallInv'
<1> USE DEF CallInv
<1>1. /\ mode = "body" /\ Depth > 0 /\ mode' = "raise" /\ raised' = "generic"
      /\ UNCHANGED <<frames, calls, path, stuck>> /\ UNCHANGED vars
  BY DEF CallbackThrow
<1>2. /\ Level' = Level /\ Ran' = Ran /\ Depth' = Depth /\ durable' = durable
      /\ \A r : Clean(r)' <=> Clean(r)
      /\ \A r, c : Mentions(r, c)' <=> Mentions(r, c)
  BY <1>1, SessionUnchanged DEF Depth, Clean, Mentions
<1>3. CallTypeOK'
  BY <1>1, <1>2 DEF CallTypeOK, Errors
<1>4. FramesInv'
  BY <1>1, <1>2 DEF FramesInv
<1>5. PathInv'
  BY <1>1, <1>2 DEF PathInv
<1>6. DurableInv'
  BY <1>1, <1>2 DEF DurableInv
<1>7. (Expected' = Expected) /\ (Aligned' <=> Aligned) /\ (Sound' <=> Sound) /\ ~Reset
  BY <1>1, <1>2 DEF Expected, Aligned, Sound, Failing, Reset
<1>8. LevelInv'
  BY <1>1, <1>2, <1>7 DEF LevelInv
<1>9. WorkInv'
  BY <1>1, <1>2, <1>7, SessionUnchanged DEF WorkInv
<1>10. ReturnInv'
  BY <1>1, <1>2, <1>7, SessionUnchanged DEF ReturnInv
<1> QED BY <1>1, <1>3, <1>4, <1>5, <1>6, <1>8, <1>9, <1>10, SessionUnchanged

LEMMA LoseKeeps ==
  ASSUME CallInv, LoseConnectionInCall
  PROVE  CallInv'
<1> USE DEF CallInv
<1>1. /\ conn' = "dead" /\ UNCHANGED <<durable, transactions, afterCommit, announced, queryLevel>>
      /\ UNCHANGED <<frames, mode, raised, calls, path, stuck>>
  BY DEF LoseConnectionInCall, LoseConnection, PdoDrop, sessionVars, callVars
<1>2. /\ Level' = Level /\ Ran' = Ran /\ Depth' = Depth
      /\ \A r : Clean(r)' <=> Clean(r)
      /\ \A r, c : Mentions(r, c)' <=> Mentions(r, c)
  BY <1>1 DEF Level, Ran, Depth, Clean, Mentions
<1>3. CallTypeOK'
  BY <1>1, <1>2 DEF CallTypeOK
<1>4. FramesInv'
  BY <1>1, <1>2 DEF FramesInv
<1>5. PathInv'
  BY <1>1, <1>2 DEF PathInv, Top
<1>6. DurableInv'
  BY <1>1, <1>2 DEF DurableInv
<1>7. LevelInv'
  BY <1>1, <1>2 DEF LevelInv, Expected, Aligned, Reset
<1>8. WorkInv'
  BY <1>1 DEF WorkInv, SavepointsOfLevels, EventsInForce
<1>9. ReturnInv'
  BY <1>1, <1>2 DEF ReturnInv
<1> QED BY <1>1, <1>3, <1>4, <1>5, <1>6, <1>7, <1>8, <1>9 DEF AnnouncedIsDurable

(* What the innermost call leaves behind, when it has settled.                   *)
LEMMA AfterPop ==
  ASSUME TypeOK, CallTypeOK, NEW outcome, Popped(outcome), UNCHANGED <<path, queryLevel>>
  PROVE  /\ Ran' = Ran /\ Level \in Nat /\ Depth \in Nat /\ Depth' = Depth - 1
         /\ frames' \in Seq(Nat) /\ calls' \in Seq(CallRecord)
         /\ \A i \in 1 .. Depth - 1 : frames'[i] = frames[i]
         /\ \A q, c : Mentions(q, c)' <=> Mentions(q, c)
BY LevelPlaces DEF Popped, CallsStep, Ran, Mentions

LEMMA NestedReturnKeeps ==
  ASSUME TypeOK, IdleHoldsNothing, CallInv, CallbackReturn("ok"), CommitNested
  PROVE  CallInv'
<1> USE DEF CallInv
<1>1. /\ mode = "body" /\ Depth > 0 /\ UNCHANGED <<path, stuck>> /\ Level # 1
      /\ Popped("returned") /\ mode' = "body" /\ raised' = "none"
  BY SettlePops DEF CallbackReturn, CommitNested, MayRetry
<1>2. Level > 1 /\ (Sound <=> Level = Depth)
  BY <1>1, BodyLevel, LevelPlaces
<1>3. /\ transactions' = Level - 1
      /\ UNCHANGED <<conn, work, saves, durable, afterCommit, announced, queryLevel>>
  BY <1>2 DEF CommitNested, Level, pdoVars
<1>4. /\ Ran' = Ran /\ Level \in Nat /\ Depth \in Nat /\ Depth' = Depth - 1
      /\ frames' \in Seq(Nat) /\ calls' \in Seq(CallRecord)
      /\ \A i \in 1 .. Depth - 1 : frames'[i] = frames[i]
      /\ \A q, c : Mentions(q, c)' <=> Mentions(q, c)
      /\ Level' = Level - 1 /\ \A p, n : IsNewest(p, n)' <=> IsNewest(p, n)
  BY <1>1, <1>3, AfterPop DEF Level, IsNewest
<1>5. /\ FramesInv' /\ PathInv' /\ DurableInv'
      /\ path \in [Ran' -> SUBSET [call : DOMAIN calls', attempt : Nat]]
  BY <1>1, <1>3, PoppedKeeps DEF Outcomes
<1>6. \A q \in Ran : Clean(q)' <=> Clean(q)
  BY <1>1, CleanAfterPop DEF Outcomes
<1>7. CallTypeOK'
  BY <1>1, <1>4, <1>5 DEF CallTypeOK
<1>8. (Aligned' <=> Aligned) /\ (Sound' <=> Sound) /\ ~Reset /\ ~Failing
  BY <1>1, <1>4 DEF Expected, Aligned, Sound, Failing, Reset
<1>9. LevelInv'
  BY <1>1, <1>2, <1>4, <1>8 DEF LevelInv, Expected
<1>10. Sound => /\ \A n \in 2 .. Level' : n \in 2 .. Level /\ frames'[n] = frames[n]
               /\ Depth > 1 /\ frames'[1] = frames[1]
  BY <1>2, <1>4
<1>11. WorkInv'
  <2> SUFFICES ASSUME Sound PROVE WorkInv'
    BY <1>8 DEF WorkInv
  <2>1. SavepointsOfLevels' /\ EventsInForce'
    <3>1. HeldBackInv /\ PerformCommit("ok") /\ "ok" \in Results
      BY DEF HeldBackInv, WorkInv, PerformCommit, Results
    <3> QED BY <3>1, HeldBackCommit
  <2> QED BY <1>3, <1>4, <1>6, <1>10, <2>1 DEF WorkInv
<1>12. ReturnInv'
  <2> SUFFICES ASSUME ~stuck PROVE ReturnInv'
    BY <1>1 DEF ReturnInv
  <2>1. Sound
    BY <1>8 DEF LevelInv, Sound
  <2>2. Depth' > 0 /\ \A q \in Ran \ durable : Clean(q) => Mentions(q, frames'[1])
    BY <1>4, <1>10, <2>1 DEF ReturnInv
  <2> QED BY <1>1, <1>3, <1>4, <1>6, <1>8, <1>10, <2>1, <2>2 DEF ReturnInv
<1> QED BY <1>3, <1>5, <1>7, <1>9, <1>11, <1>12 DEF AnnouncedIsDurable

(* What commit makes durable is the work of the outermost call and of the calls    *)
(* that returned in it.                                                         *)
LEMMA RealReturnKeeps ==
  ASSUME TypeOK, IdleHoldsNothing, CallInv, ~CallbackMayCatch, NEW res \in Results,
         CallbackReturn(res), CommitReal(res)
  PROVE  CallInv'
<1> USE DEF CallInv
<1>1. /\ mode = "body" /\ Depth > 0 /\ Level = 1 /\ PerformCommit(res)
      /\ UNCHANGED <<path, stuck, queryLevel>>
      /\ transactions' = 0 /\ conn' = "closed"
  BY DEF CallbackReturn, CommitReal, PdoCommit, Release, PerformCommit
<1>2. Depth = 1 /\ Sound /\ Aligned /\ HeldBackInv /\ Depth \in Nat
  <2>1. Depth = 1 /\ Sound /\ Depth \in Nat
    BY <1>1, BodyLevel, LevelPlaces
  <2> QED BY <2>1 DEF Sound, HeldBackInv, WorkInv
<1>3. /\ Top = frames[1] /\ Level' = 0 /\ Ran' = Ran
      /\ \A q, c : Mentions(q, c)' <=> Mentions(q, c)
  BY <1>1, <1>2 DEF Top, Level, Ran, Mentions
<1>4. AnnouncedIsDurable'
  BY <1>1, <1>2, HeldBackCommit
<1>5. WorkInv' /\ (Sound /\ conn = "live" => FALSE)'
  BY <1>1, <1>3 DEF WorkInv, SavepointsOfLevels, EventsInForce
<1>6. \A q \in Ran \ durable : ~stuck /\ Clean(q) => Mentions(q, Top)
  BY <1>3 DEF ReturnInv
<1>7. /\ conn = "live" => \A q \in work : q \in Ran /\ Clean(q)
      /\ ~stuck /\ conn = "live" => \A q \in Ran \ durable : Clean(q) => q \in work
  BY <1>2 DEF WorkInv, ReturnInv
<1>8. CASE MayRetry(res) /\ Retry
  <2>1. durable' = durable
    BY <1>8 DEF MayRetry, CommitReal, PdoCommit, Rejected
  <2>2. /\ FramesInv' /\ PathInv' /\ DurableInv'
        /\ path \in [Ran' -> SUBSET [call : DOMAIN calls', attempt : Nat]]
        /\ \A q \in Ran : Clean(q)' => Clean(q) /\ ~Mentions(q, Top)
    BY <1>1, <1>8, <2>1, RetryKeeps
  <2>3. mode' = "begin" /\ raised' = "none" /\ frames' = frames /\ calls' \in Seq(CallRecord)
        /\ Depth' = Depth
    BY <1>1, <1>8, RetryStep DEF CallsStep, Depth
  <2>4. CallTypeOK'
    BY <1>1, <2>2, <2>3 DEF CallTypeOK
  <2>5. LevelInv'
    BY <1>2, <1>3, <2>3 DEF LevelInv, Expected, Aligned, Reset
  <2>6. ReturnInv'
    BY <1>1, <1>3, <1>5, <1>6, <2>1, <2>2 DEF ReturnInv
  <2> QED BY <1>4, <1>5, <2>2, <2>4, <2>5, <2>6
<1>9. ASSUME NEW outcome \in Outcomes \ {"open"}, Popped(outcome), mode' = "body", raised' = "none",
             \/ durable' = durable /\ outcome # "returned"
             \/ /\ conn = "live" /\ durable' \in {durable, durable \union work}
                /\ outcome \in {"returned", "unknown"}
                /\ outcome = "returned" => durable' = durable \union work
      PROVE  CallInv'
  <2>1. /\ FramesInv' /\ PathInv' /\ (durable' = durable => DurableInv')
        /\ path \in [Ran' -> SUBSET [call : DOMAIN calls', attempt : Nat]]
    BY <1>1, <1>9, PoppedKeeps
  <2>2. /\ Depth' = 0 /\ frames' \in Seq(Nat) /\ calls' \in Seq(CallRecord)
        /\ DOMAIN calls' = DOMAIN calls
        /\ calls'[Top].outcome = outcome /\ calls'[Top].attempt = calls[Top].attempt
        /\ \A c \in DOMAIN calls : c # Top => calls'[c] = calls[c]
    BY <1>2, <1>9 DEF Popped, CallsStep
  <2>3. CallTypeOK'
    BY <1>1, <1>9, <2>1, <2>2 DEF CallTypeOK
  <2>4. LevelInv'
    BY <1>3, <1>9, <2>2 DEF LevelInv, Expected, Aligned, Reset
  <2>5. DurableInv'
    <3>1. CASE durable' = durable
      BY <2>1, <3>1
    <3>2. CASE durable' = durable \union work /\ conn = "live" /\ outcome \in {"returned", "unknown"}
      <4>1. ASSUME NEW c \in DOMAIN calls, calls[c].outcome \in {"open", "returned"}
            PROVE  /\ calls'[c].outcome \in {"returned", "unknown"}
                   /\ calls'[c].attempt = calls[c].attempt
        <5>1. CASE c = Top
          BY <2>2, <3>2, <5>1
        <5>2. CASE c # Top
          <6>1. \A i \in 1 .. Depth : frames[i] # c
            BY <1>2, <1>3, <5>2
          <6>2. calls[c].outcome # "open"
            BY <6>1 DEF FramesInv
          <6> QED BY <2>2, <4>1, <5>2, <6>2
        <5> QED BY <5>1, <5>2
      <4>2. ASSUME NEW q \in work
            PROVE  /\ q \in Ran
                   /\ \A s \in path[q] : /\ calls'[s.call].outcome \in {"returned", "unknown"}
                                         /\ s.attempt = calls'[s.call].attempt
        <5>1. q \in Ran /\ Clean(q)
          BY <1>7, <3>2
        <5> QED BY <4>1, <5>1, CallPlaces DEF Clean
      <4>3. ASSUME NEW q \in durable
            PROVE  /\ q \in Ran
                   /\ \A s \in path[q] : /\ calls'[s.call].outcome \in {"returned", "unknown"}
                                         /\ s.attempt = calls'[s.call].attempt
        <5>1. /\ q \in Ran
              /\ \A s \in path[q] : /\ calls[s.call].outcome \in {"returned", "unknown"}
                                    /\ s.attempt = calls[s.call].attempt
          BY DEF DurableInv
        <5>2. \A s \in path[q] : s.call # Top /\ s.call \in DOMAIN calls
          BY <1>1, <5>1, CallPlaces, TopIsOpen
        <5> QED BY <2>2, <5>1, <5>2
      <4> QED BY <1>1, <1>3, <3>2, <4>2, <4>3 DEF DurableInv
    <3> QED BY <1>9, <3>1, <3>2
  <2>6. ReturnInv'
    <3> SUFFICES ASSUME ~stuck, NEW q \in Ran \ durable', Clean(q)' PROVE FALSE
      BY <1>1, <1>3, <1>5 DEF ReturnInv
    <3>1. q \in Ran /\ q \notin durable
      BY <1>9
    <3>2. CASE outcome = "returned"
      <4>1. Clean(q)
        BY <1>1, <1>9, <3>1, <3>2, CleanAfterPop
      <4> QED BY <1>7, <1>9, <3>1, <3>2, <4>1
    <3>3. CASE outcome # "returned"
      <4>1. Clean(q) /\ ~Mentions(q, Top)
        BY <1>1, <1>9, <3>1, <3>3, CleanAfterPop
      <4> QED BY <1>6, <3>1, <4>1
    <3> QED BY <3>2, <3>3
  <2> QED BY <1>4, <1>5, <2>1, <2>3, <2>4, <2>5, <2>6
<1>10. CASE res = "ok" /\ Settle
  <2>1. conn = "live" /\ durable' = durable \union work
    BY <1>10 DEF CommitReal, PdoCommit, Rejected
  <2> QED BY <1>1, <1>9, <1>10, <2>1, SettlePops DEF Outcomes
<1>11. CASE res = "lost" /\ Throw(res, "unknown")
  <2>1. \/ conn = "live" /\ durable' \in {durable, durable \union work}
        \/ durable' = durable
    BY <1>11 DEF CommitReal, PdoCommit
  <2>2. Popped("unknown") /\ mode' = "body" /\ raised' = "none"
    BY <1>1, <1>2, <1>11, ThrowPops DEF Outcomes
  <2> QED BY <1>9, <2>1, <2>2 DEF Outcomes
<1>12. CASE res \in {"concurrency", "generic"} /\ Throw(res, "threw")
  <2>1. durable' = durable
    BY <1>12 DEF CommitReal, PdoCommit
  <2>2. Popped("threw") /\ mode' = "body" /\ raised' = "none"
    BY <1>1, <1>2, <1>12, ThrowPops DEF Outcomes
  <2> QED BY <1>9, <2>1, <2>2 DEF Outcomes
<1> QED BY <1>8, <1>10, <1>11, <1>12 DEF CallbackReturn, Results, Errors

LEMMA NestedDeadlockKeeps ==
  ASSUME TypeOK, CallInv, ~CallbackMayCatch, NestedDeadlock
  PROVE  CallInv'
<1> USE DEF CallInv
<1>1. /\ mode = "raise" /\ raised = "concurrency" /\ Level > 1 /\ Depth > 0
      /\ transactions' = Level - 1 /\ Throw("concurrency", "threw")
      /\ UNCHANGED <<conn, work, saves, durable, afterCommit, announced, queryLevel, path, stuck>>
  BY DEF NestedDeadlock, LevelInv, pdoVars
<1>2. /\ Popped("threw")
      /\ \/ Depth > 1 /\ mode' = "raise" /\ raised' = "concurrency"
         \/ Depth = 1 /\ mode' = "body" /\ raised' = "none"
  BY <1>1, ThrowPops DEF Outcomes
<1>3. /\ Ran' = Ran /\ Level \in Nat /\ Depth \in Nat /\ Depth' = Depth - 1
      /\ frames' \in Seq(Nat) /\ calls' \in Seq(CallRecord)
      /\ \A i \in 1 .. Depth - 1 : frames'[i] = frames[i]
      /\ \A q, c : Mentions(q, c)' <=> Mentions(q, c)
      /\ Level' = Level - 1
  BY <1>1, <1>2, AfterPop DEF Level
<1>4. /\ FramesInv' /\ PathInv' /\ DurableInv'
      /\ path \in [Ran' -> SUBSET [call : DOMAIN calls', attempt : Nat]]
  BY <1>1, <1>2, PoppedKeeps DEF Outcomes
<1>5. CallTypeOK'
  BY <1>1, <1>2, <1>3, <1>4 DEF CallTypeOK, Errors
<1>6. (Aligned' <=> Aligned) /\ ~Reset /\ Level >= Depth
  BY <1>1, <1>2, <1>3 DEF Expected, Aligned, Reset, LevelInv
<1>7. LevelInv'
  BY <1>1, <1>2, <1>3, <1>6 DEF LevelInv, Expected
<1>8. ~Sound'
  BY <1>1, <1>2, <1>3 DEF Sound, Failing, Aligned, Expected
<1>9. ReturnInv'
  <2> SUFFICES ASSUME ~stuck PROVE ReturnInv'
    BY <1>1 DEF ReturnInv
  <2>1. Depth = Level /\ Depth' > 0 /\ frames'[1] = frames[1]
    BY <1>1, <1>3, <1>6 DEF LevelInv, Aligned, Expected
  <2>2. \A q \in Ran : Clean(q)' => Clean(q)
    BY <1>1, <1>2, CleanAfterPop DEF Outcomes
  <2> QED BY <1>1, <1>3, <1>8, <2>1, <2>2 DEF ReturnInv
<1> QED BY <1>1, <1>4, <1>5, <1>7, <1>8, <1>9 DEF WorkInv, AnnouncedIsDurable

(* A call that throws at level 0, or whose level stays above it, leaves nothing     *)
(* sound behind.                                                                *)
LEMMA UnsoundThrowKeeps ==
  ASSUME TypeOK, CallInv, ~CallbackMayCatch, Depth > 0, NEW err \in Errors, Throw(err, "threw"),
         UNCHANGED <<path, queryLevel, durable, announced>>, stuck' \in BOOLEAN, stuck => stuck',
         \/ conn' # "live" /\ Level' = 0 /\ err = "lost"
         \/ conn' # "live" /\ Level' = 0 /\ Depth = 1
         \/ Level' = Level /\ Level >= Depth /\ stuck'
  PROVE  CallInv'
<1> USE DEF CallInv
<1>1. /\ Popped("threw")
      /\ \/ Depth > 1 /\ mode' = "raise" /\ raised' = err
         \/ Depth = 1 /\ mode' = "body" /\ raised' = "none"
  BY ThrowPops DEF Outcomes
<1>2. /\ Ran' = Ran /\ Level \in Nat /\ Depth \in Nat /\ Depth' = Depth - 1
      /\ frames' \in Seq(Nat) /\ calls' \in Seq(CallRecord)
      /\ \A i \in 1 .. Depth - 1 : frames'[i] = frames[i]
      /\ \A q, c : Mentions(q, c)' <=> Mentions(q, c)
  BY <1>1, AfterPop
<1>3. /\ FramesInv' /\ PathInv' /\ DurableInv'
      /\ path \in [Ran' -> SUBSET [call : DOMAIN calls', attempt : Nat]]
  BY <1>1, PoppedKeeps DEF Outcomes
<1>4. CallTypeOK'
  BY <1>1, <1>2, <1>3 DEF CallTypeOK
<1>5. Expected' = Depth - 1
  BY <1>1, <1>2 DEF Expected
<1>6. LevelInv'
  BY <1>1, <1>2, <1>5 DEF LevelInv, Aligned, Reset, Errors
<1>7. ~Sound' \/ conn' # "live"
  BY <1>2, <1>5 DEF Sound, Aligned
<1>8. conn' # "live" => SavepointsOfLevels' /\ EventsInForce'
  BY DEF SavepointsOfLevels, EventsInForce
<1>9. WorkInv'
  BY <1>7, <1>8 DEF WorkInv
<1>10. ReturnInv'
  <2> SUFFICES ASSUME ~stuck', NEW q \in Ran \ durable, Clean(q)'
               PROVE  Depth' > 0 /\ Mentions(q, frames'[1])
    BY <1>2, <1>7 DEF ReturnInv
  <2>1. Clean(q) /\ ~Mentions(q, Top)
    BY <1>1, CleanAfterPop DEF Outcomes
  <2>2. Mentions(q, frames[1])
    BY <2>1 DEF ReturnInv
  <2>3. Depth # 1
    BY <2>1, <2>2 DEF Top
  <2> QED BY <1>2, <2>2, <2>3
<1> QED BY <1>3, <1>4, <1>6, <1>9, <1>10 DEF AnnouncedIsDurable

(* The real rollback succeeds: the error is the one of the outermost call, which   *)
(* goes round or throws.                                                        *)
LEMMA RealRollBackKeeps ==
  ASSUME TypeOK, CallInv, ~CallbackMayCatch, HandleError("ok"), RollBackKnown(0, "ok"), Level = 1
  PROVE  CallInv'
<1> USE DEF CallInv
<1>1. /\ mode = "raise" /\ raised \in Errors /\ Depth > 0 /\ path' = path /\ stuck' = stuck
      /\ UNCHANGED <<queryLevel, durable, announced>>
      /\ conn' = "closed" /\ Level' = 0
  BY DEF HandleError, LevelInv, CallTypeOK, RollBackKnown, PerformRollBack, PdoRollback, Release,
         Level
<1>2. Depth = 1 /\ Depth \in Nat
  BY <1>1, LevelPlaces DEF LevelInv, Expected, Reset
<1>3. CASE Throw(raised, "threw")
  BY <1>1, <1>2, <1>3, UnsoundThrowKeeps DEF CallTypeOK
<1>4. CASE MayRetry(raised) /\ Retry
  <2>1. /\ FramesInv' /\ PathInv' /\ DurableInv'
        /\ path \in [Ran' -> SUBSET [call : DOMAIN calls', attempt : Nat]]
        /\ \A q \in Ran : Clean(q)' => Clean(q) /\ ~Mentions(q, Top)
    BY <1>1, <1>4, RetryKeeps
  <2>2. mode' = "begin" /\ raised' = "none" /\ frames' = frames /\ calls' \in Seq(CallRecord)
        /\ Depth' = Depth /\ Top = frames[1] /\ Ran' = Ran
    BY <1>1, <1>2, <1>4, RetryStep DEF CallsStep, Depth, Top, Ran
  <2>3. CallTypeOK'
    BY <1>1, <2>1, <2>2 DEF CallTypeOK
  <2>4. LevelInv'
    BY <1>1, <1>2, <2>2 DEF LevelInv, Expected, Aligned, Reset
  <2>5. WorkInv'
    BY <1>1 DEF WorkInv, SavepointsOfLevels, EventsInForce
  <2>6. ReturnInv'
    BY <1>1, <2>1, <2>2 DEF ReturnInv
  <2> QED BY <1>1, <2>1, <2>3, <2>4, <2>5, <2>6 DEF AnnouncedIsDurable
<1> QED BY <1>3, <1>4 DEF HandleError

(* A rollback to a savepoint succeeds: what the call that throws did is undone.    *)
LEMMA SavepointRollBackKeeps ==
  ASSUME TypeOK, IdleHoldsNothing, CallInv, ~CallbackMayCatch, HandleError("ok"),
         NEW k \in Nat, k = Level - 1, k > 0, RollBackKnown(k, "ok")
  PROVE  CallInv'
<1> USE DEF CallInv
<1>1. /\ mode = "raise" /\ raised \in Errors /\ raised # "concurrency" /\ Depth > 0
      /\ path' = path /\ stuck' = stuck /\ Throw(raised, "threw")
  <2>1. Level \in Nat /\ Level > 1
    BY LevelPlaces
  <2>2. mode = "raise" /\ path' = path /\ ~(raised = "concurrency" /\ Level > 1)
    BY DEF HandleError
  <2>3. raised # "concurrency"
    BY <2>1, <2>2
  <2>4. raised \in Errors /\ Depth > 0
    BY <2>2 DEF LevelInv, CallTypeOK
  <2>5. Throw(raised, "threw")
    BY <2>3 DEF HandleError, MayRetry
  <2>6. stuck' = stuck
    BY DEF HandleError, CallTypeOK
  <2> QED BY <2>2, <2>3, <2>4, <2>5, <2>6
<1>2. /\ Popped("threw")
      /\ \/ Depth > 1 /\ mode' = "raise" /\ raised' = raised
         \/ Depth = 1 /\ mode' = "body" /\ raised' = "none"
  BY <1>1, ThrowPops DEF Outcomes
<1>3. /\ conn = "live" /\ conn' = "live" /\ UNCHANGED <<durable, announced, queryLevel>>
      /\ transactions' = k /\ Level' = k
      /\ \E p \in DOMAIN saves :
           IsNewest(p, k + 1) /\ work' = saves[p].held /\ saves' = SubSeq(saves, 1, p)
  BY DEF RollBackKnown, PerformRollBack, PdoRollbackTo, Rejected, Level
<1>4. /\ Ran' = Ran /\ Level \in Nat /\ Depth \in Nat /\ Depth' = Depth - 1
      /\ frames' \in Seq(Nat) /\ calls' \in Seq(CallRecord)
      /\ \A i \in 1 .. Depth - 1 : frames'[i] = frames[i]
      /\ \A q, c : Mentions(q, c)' <=> Mentions(q, c)
  BY <1>1, <1>2, <1>3, AfterPop
<1>5. /\ FramesInv' /\ PathInv' /\ DurableInv'
      /\ path \in [Ran' -> SUBSET [call : DOMAIN calls', attempt : Nat]]
  BY <1>1, <1>2, <1>3, PoppedKeeps DEF Outcomes
<1>6. \A q \in Ran : Clean(q)' <=> Clean(q) /\ ~Mentions(q, Top)
  BY <1>1, <1>2, CleanAfterPop DEF Outcomes
<1>7. CallTypeOK'
  BY <1>1, <1>2, <1>4, <1>5 DEF CallTypeOK
<1>8. (Aligned' <=> Aligned) /\ (Sound' => Aligned) /\ (Aligned => Sound) /\ ~Reset
  BY <1>1, <1>2, <1>3, <1>4 DEF Expected, Aligned, Sound, Failing, Reset
<1>9. LevelInv'
  BY <1>1, <1>2, <1>3, <1>4, <1>8 DEF LevelInv, Expected
<1>10. Aligned => /\ Depth = k + 1 /\ Top = frames[k + 1] /\ k + 1 \in 2 .. Level
                 /\ \A n \in 2 .. k : /\ n \in 2 .. Level /\ n \in 1 .. Depth /\ n \in 1 .. k + 1
                                      /\ frames'[n] = frames[n]
  BY <1>1, <1>4 DEF Aligned, Expected, Top
<1>11. PICK p \in DOMAIN saves :
         IsNewest(p, k + 1) /\ work' = saves[p].held /\ saves' = SubSeq(saves, 1, p)
  BY <1>3
<1>12. ASSUME Aligned, NEW n \in 2 .. k, NEW r \in DOMAIN saves', IsNewest(r, n)'
       PROVE  IsNewest(r, n) /\ r \in DOMAIN saves /\ saves'[r] = saves[r]
  <2>1. IsNewest(r, n) /\ r \in 1 .. p
    <3>1. SavepointsOfLevels /\ k + 1 \in 2 .. Level
      BY <1>8, <1>10, <1>12 DEF WorkInv
    <3> QED BY <1>3, <1>11, <1>12, <3>1, NewestAfterRollBack
  <2>2. r \in DOMAIN saves /\ saves'[r] = saves[r]
    BY <1>11, <2>1, NewestAfterCut DEF TypeOK
  <2> QED BY <2>1, <2>2
<1>13. WorkInv'
  <2> SUFFICES ASSUME Aligned, Sound PROVE WorkInv'
    BY <1>8 DEF WorkInv
  <2>1. SavepointsOfLevels' /\ EventsInForce'
    <3>1. HeldBackInv /\ RollBack(k, "ok")
      BY DEF HeldBackInv, WorkInv, RollBack
    <3> QED BY <3>1, HeldBackRollBack
  <2>2. \A q \in work' : q \in Ran /\ Clean(q) /\ ~Mentions(q, Top)
    BY <1>3, <1>10, <1>11 DEF WorkInv
  <2>3. ASSUME NEW n \in 2 .. k, NEW r \in DOMAIN saves', IsNewest(r, n)', NEW q \in saves'[r].held
        PROVE  q \in Ran /\ Clean(q) /\ ~Mentions(q, frames[n]) /\ ~Mentions(q, Top)
    <3>1. q \in Ran /\ Clean(q) /\ ~Mentions(q, frames[n])
      <4>1. n \in 2 .. Level /\ IsNewest(r, n) /\ r \in DOMAIN saves /\ q \in saves[r].held
        BY <1>10, <1>12, <2>3
      <4> QED BY <1>3, <4>1 DEF WorkInv
    <3>2. k + 1 \in 1 .. Depth /\ n \in 1 .. k + 1
      BY <1>4, <1>10
    <3> QED BY <1>10, <3>1, <3>2 DEF PathInv
  <2> QED BY <1>3, <1>4, <1>6, <1>10, <2>1, <2>2, <2>3 DEF WorkInv
<1>14. ReturnInv'
  <2> SUFFICES ASSUME ~stuck PROVE ReturnInv'
    BY <1>1 DEF ReturnInv
  <2>1. Aligned /\ Sound
    BY <1>8 DEF LevelInv
  <2>2. ASSUME NEW q \in Ran \ durable, Clean(q), ~Mentions(q, Top)
        PROVE  /\ Depth' > 0 /\ Mentions(q, frames'[1])
               /\ q \in work'
               /\ \A n \in 2 .. k : \A r \in DOMAIN saves' :
                    IsNewest(r, n)' /\ ~Mentions(q, frames[n]) => q \in saves'[r].held
    <3>1. Depth' > 0 /\ Mentions(q, frames'[1])
      BY <1>4, <1>10, <2>1, <2>2 DEF ReturnInv
    <3>2. q \in work'
      BY <1>3, <1>10, <1>11, <2>1, <2>2 DEF ReturnInv
    <3>3. ASSUME NEW n \in 2 .. k, NEW r \in DOMAIN saves', IsNewest(r, n)', ~Mentions(q, frames[n])
          PROVE  q \in saves'[r].held
      <4>1. n \in 2 .. Level /\ IsNewest(r, n) /\ r \in DOMAIN saves /\ saves'[r] = saves[r]
        BY <1>10, <1>12, <2>1, <3>3
      <4> QED BY <1>3, <2>1, <2>2, <3>3, <4>1 DEF ReturnInv
    <3> QED BY <3>1, <3>2, <3>3
  <2> QED BY <1>1, <1>3, <1>4, <1>6, <1>10, <2>1, <2>2 DEF ReturnInv
<1> QED BY <1>3, <1>5, <1>7, <1>9, <1>13, <1>14 DEF AnnouncedIsDurable

LEMMA HandleErrorKeeps ==
  ASSUME TypeOK, IdleHoldsNothing, CallInv, ~CallbackMayCatch, NEW res \in Results, HandleError(res)
  PROVE  CallInv'
<1> USE DEF CallInv
<1>1. /\ mode = "raise" /\ raised \in Errors /\ Depth > 0 /\ path' = path
      /\ stuck' = (stuck \/ res \in {"generic", "concurrency"}) /\ stuck \in BOOLEAN
      /\ Level \in Nat /\ Depth \in Nat /\ (Level >= Depth \/ Reset)
  BY LevelPlaces DEF HandleError, LevelInv, CallTypeOK, Expected
<1>2. CASE Level = 0 /\ res = "ok" /\ UNCHANGED vars
  <2>1. raised = "lost"
    BY <1>1, <1>2 DEF Reset
  <2>2. conn' = "closed" /\ Level' = 0 /\ UNCHANGED <<queryLevel, durable, announced>>
    BY <1>2, SessionUnchanged DEF IdleHoldsNothing
  <2>3. Throw("lost", "threw")
    BY <1>2, <2>1 DEF HandleError, MayRetry
  <2> QED BY <1>1, <1>2, <2>2, <2>3, UnsoundThrowKeeps DEF Errors
<1>3. CASE RollBack(Level - 1, res) /\ Level >= 1
  <2>1. CASE res = "lost"
    <3>1. /\ conn' = "closed" /\ Level' = 0 /\ UNCHANGED <<queryLevel, durable, announced>>
      BY <1>3, <2>1 DEF RollBack, RollBackKnown, RollBackLost, PdoRollback, Release, Level
    <3> QED BY <1>1, <2>1, <3>1, UnsoundThrowKeeps DEF HandleError, Errors
  <2>2. CASE res \in {"generic", "concurrency"}
    <3>1. RollBackKnown(Level - 1, res) /\ res # "ok"
      BY <1>3, <2>2 DEF RollBack
    <3>2. Level' = Level /\ UNCHANGED <<queryLevel, durable, announced>>
      BY <3>1 DEF RollBackKnown, PerformRollBack, PdoRollback, PdoRollbackTo, Level, pdoVars
    <3>3. Throw(res, "threw") /\ ~Reset
      BY <1>3, <2>2 DEF HandleError, Reset
    <3> QED BY <1>1, <2>2, <3>2, <3>3, UnsoundThrowKeeps DEF Errors
  <2>3. CASE res = "ok"
    <3>1. RollBackKnown(Level - 1, "ok")
      BY <1>3, <2>3 DEF RollBack
    <3>2. PICK k \in Nat : k = Level - 1
      BY <1>1, <1>3
    <3>3. CASE k = 0
      BY <1>1, <2>3, <3>1, <3>2, <3>3, RealRollBackKeeps
    <3>4. CASE k > 0
      BY <2>3, <3>1, <3>2, <3>4, SavepointRollBackKeeps
    <3> QED BY <3>3, <3>4
  <2> QED BY <2>1, <2>2, <2>3 DEF Results, Errors
<1>4. RollBack(Level - 1, res) => Level >= 1
  BY <1>1 DEF RollBack, RollBackKnown, RollBackLost
<1> QED BY <1>2, <1>3, <1>4 DEF HandleError

-------------------------------------------------------------------------------
LEMMA CallInitHolds == CallInit => CallInv
<1> SUFFICES ASSUME CallInit PROVE CallInv
  OBVIOUS
<1>1. /\ frames = <<>> /\ calls = <<>> /\ mode = "body" /\ raised = "none" /\ stuck = FALSE
      /\ path = [q \in {} |-> {}] /\ queryLevel = [q \in {} |-> 0]
      /\ conn = "closed" /\ durable = {} /\ transactions = 0 /\ announced = {}
  BY DEF CallInit, Init, PdoInit
<1>2. /\ Ran = {} /\ Depth = 0 /\ Level = 0 /\ DOMAIN calls = {}
      /\ frames \in Seq(Nat) /\ calls \in Seq(CallRecord)
  BY <1>1 DEF Ran, Depth, Level
<1>3. CallTypeOK
  BY <1>1, <1>2 DEF CallTypeOK
<1>4. FramesInv /\ PathInv /\ DurableInv /\ AnnouncedIsDurable
  BY <1>1, <1>2 DEF FramesInv, PathInv, DurableInv, AnnouncedIsDurable
<1>5. LevelInv
  BY <1>1, <1>2 DEF LevelInv, Expected, Aligned, Reset
<1>6. WorkInv /\ ReturnInv
  BY <1>1, <1>2 DEF WorkInv, ReturnInv, SavepointsOfLevels, EventsInForce
<1> QED BY <1>3, <1>4, <1>5, <1>6 DEF CallInv

LEMMA CallUnchanged ==
  ASSUME CallInv, UNCHANGED allVars
  PROVE  CallInv'
<1> USE DEF CallInv
<1>1. UNCHANGED vars /\ UNCHANGED <<frames, mode, raised, calls, path, stuck>>
  BY DEF allVars, callVars
<1>2. /\ Level' = Level /\ Ran' = Ran /\ Depth' = Depth /\ durable' = durable
      /\ \A r : Clean(r)' <=> Clean(r)
      /\ \A r, c : Mentions(r, c)' <=> Mentions(r, c)
      /\ (Sound' <=> Sound)
  BY <1>1, SessionUnchanged DEF Depth, Clean, Mentions, Sound, Aligned, Expected, Failing
<1>3. CallTypeOK'
  BY <1>1, <1>2 DEF CallTypeOK
<1>4. FramesInv'
  BY <1>1, <1>2 DEF FramesInv
<1>5. PathInv'
  BY <1>1, <1>2 DEF PathInv, Top
<1>6. DurableInv'
  BY <1>1, <1>2 DEF DurableInv
<1>7. LevelInv'
  BY <1>1, <1>2 DEF LevelInv, Expected, Aligned, Reset
<1>8. WorkInv'
  BY <1>1, <1>2, SessionUnchanged DEF WorkInv
<1>9. ReturnInv'
  BY <1>1, <1>2, SessionUnchanged DEF ReturnInv
<1> QED BY <1>1, <1>3, <1>4, <1>5, <1>6, <1>7, <1>8, <1>9, SessionUnchanged

LEMMA CallStepHolds ==
  ASSUME ~CallbackMayCatch, TypeOK, IdleHoldsNothing, CallInv, [CallNext]_allVars
  PROVE  CallInv'
<1>1. ASSUME NEW res \in Results, BeginAttempt(res) PROVE CallInv'
  BY <1>1, BeginSucceedsKeeps, BeginFailsKeeps DEF Results
<1>2. ASSUME NEW q \in Queries, NEW res \in Results, CallbackStatement(q, res) PROVE CallInv'
  BY <1>2, StatementSucceedsKeeps, StatementFailsKeeps DEF Results
<1>3. ASSUME NEW res \in Results, CallbackReturn(res) PROVE CallInv'
  <2>1. PerformCommit(res)
    BY <1>3 DEF CallbackReturn
  <2> QED BY <1>3, <2>1, NestedReturnKeeps, RealReturnKeeps DEF PerformCommit
<1> QED BY <1>1, <1>2, <1>3, CallKeeps, CallbackThrowKeeps, NestedDeadlockKeeps, HandleErrorKeeps,
           LoseKeeps, CallUnchanged DEF CallNext, ProgramEnds

(* The invariant of transaction(callback, attempts), while callbacks let errors    *)
(* through.                                                                     *)
THEOREM CallInvariant ==
  ASSUME ~CallbackMayCatch
  PROVE  CallSpec => [](IdleHoldsNothing /\ CallInv)
<1>1. CallInit => CallInv
  BY CallInitHolds
<1>2. TypeOK /\ IdleHoldsNothing /\ CallInv /\ [CallNext]_allVars => CallInv'
  BY CallStepHolds
<1> QED BY <1>1, <1>2, CallsAreSessionSteps, TypeCorrect, NothingHeldWhenIdle, PTL DEF CallSpec

(* A retry never repeats what an earlier attempt left: of all the attempts of a     *)
(* call the statements of one at most are durable.                               *)
THEOREM NoAttemptTwice ==
  ASSUME ~CallbackMayCatch
  PROVE  CallSpec => []OneAttemptDurable
<1>1. CallInv => OneAttemptDurable
  BY DEF CallInv, DurableInv, OneAttemptDurable
<1> QED BY <1>1, CallInvariant, PTL

(* A call that threw is undone, nested or outermost, whatever the error and the     *)
(* errors of its rollback were.                                                 *)
THEOREM ThrowUndoes ==
  ASSUME ~CallbackMayCatch
  PROVE  CallSpec => []ThrewIsUndone
<1>1. CallInv => ThrewIsUndone
  BY DEF CallInv, DurableInv, ThrewIsUndone
<1> QED BY <1>1, CallInvariant, PTL

(* What ran in calls that returned is durable once the outermost has returned.      *)
THEOREM ReturnMakesDurable ==
  ASSUME ~CallbackMayCatch
  PROVE  CallSpec => []ReturnedIsDurable
<1>1. CallInv => ReturnedIsDurable
  BY DEF CallInv, ReturnInv, ReturnedIsDurable, Outside, Clean
<1> QED BY <1>1, CallInvariant, PTL

(* After the outermost call the level is 0, the connection is back and no event     *)
(* is held back, unless a rollback was rejected with an unrecognised error.      *)
THEOREM NothingLeft ==
  ASSUME ~CallbackMayCatch
  PROVE  CallSpec => []NothingLeftOpen
<1>1. IdleHoldsNothing /\ CallInv => NothingLeftOpen
  <2> SUFFICES ASSUME IdleHoldsNothing, CallInv, Outside, ~stuck
               PROVE  Level = 0 /\ conn = "closed" /\ afterCommit = {}
    BY DEF NothingLeftOpen
  <2>1. Level = 0
    BY DEF CallInv, LevelInv, Outside, Aligned, Expected, Reset
  <2> QED BY <2>1 DEF IdleHoldsNothing
<1> QED BY <1>1, CallInvariant, PTL

(* Under managed transactions a query is announced only when its effect is          *)
(* durable, also on a server whose concurrency errors undo the transaction.      *)
THEOREM CallAnnouncedOnlyIfDurable ==
  ASSUME ~CallbackMayCatch
  PROVE  CallSpec => []AnnouncedIsDurable
<1>1. CallInv => AnnouncedIsDurable
  BY DEF CallInv
<1> QED BY <1>1, CallInvariant, PTL

===============================================================================
