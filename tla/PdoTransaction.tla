---------------------------- MODULE PdoTransaction ----------------------------
(* The transaction object of the lupdo library and the database server behind  *)
(* it, as src/connections/connection-session.ts uses them: the library itself   *)
(* is not in the repository.  One object is modelled: a session holds one.      *)
(*                                                                             *)
(* A call on the object has a result: "ok", or the class of the error it is     *)
(* rejected with, as utils.ts classifies errors by their message: "lost"        *)
(* (causedByLostConnection), "concurrency" (causedByConcurrencyError), or       *)
(* "generic" (neither).                                                         *)
EXTENDS Integers, Sequences

CONSTANTS
  Queries,            \* identifiers of the statements a program runs
  DeadlockUndoes      \* TRUE when a concurrency error of a statement may undo
                      \* the whole transaction on the server (MySQL deadlock),
                      \* FALSE when it fails the statement alone (lock timeout)

ASSUME DeadlockUndoesAssumption == DeadlockUndoes \in BOOLEAN

VARIABLES
  conn,      \* "closed": no pool connection held, every call is rejected;
             \* "live": transaction open; "dead": held, but the server is gone
  work,      \* the statements the open transaction has applied
  saves,     \* the savepoints the server knows, oldest first
  durable    \* the statements whose effect is committed

pdoVars == <<conn, work, saves, durable>>

Errors == {"lost", "concurrency", "generic"}
Results == Errors \union {"ok"}

Savepoints == [name : Nat, held : SUBSET Queries]

PdoTypeOK ==
  /\ conn \in {"closed", "live", "dead"}
  /\ work \in SUBSET Queries
  /\ saves \in Seq(Savepoints)
  /\ durable \in SUBSET Queries

PdoInit == conn = "closed" /\ work = {} /\ saves = <<>> /\ durable = {}

(* The pool connection goes back and what was not committed is gone.            *)
Release == conn' = "closed" /\ work' = {} /\ saves' = <<>>

(* p is the newest savepoint called n: the one ROLLBACK TO SAVEPOINT n finds.   *)
IsNewest(p, n) ==
  /\ p \in DOMAIN saves
  /\ saves[p].name = n
  /\ \A i \in DOMAIN saves : i > p => saves[i].name # n

(* A call that does not reach a working transaction is rejected.                *)
Rejected(res) ==
  \/ conn = "dead" /\ res = "lost"
  \/ conn = "closed" /\ res = "generic"

-------------------------------------------------------------------------------
(* Pdo.beginTransaction: a connection from the pool, with a transaction open.   *)
PdoBegin(res) ==
  \/ /\ res = "ok"
     /\ conn' = "live" /\ work' = {} /\ saves' = <<>> /\ UNCHANGED durable
  \/ /\ res \in Errors
     /\ UNCHANGED pdoVars

(* A statement through the transaction.                                        *)
PdoWrite(q, res) ==
  \/ /\ conn = "live" /\ res = "ok"
     /\ work' = work \union {q}
     /\ UNCHANGED <<conn, saves, durable>>
  \/ /\ conn = "live" /\ res = "concurrency"
     /\ \/ UNCHANGED <<work, saves>>
        \/ DeadlockUndoes /\ work' = {} /\ saves' = <<>>
     /\ UNCHANGED <<conn, durable>>
  \/ /\ Rejected(res) \/ (conn = "live" /\ res = "generic")
     /\ UNCHANGED pdoVars

(* SAVEPOINT n: a name may be reused, the newest one wins.                      *)
PdoSavepoint(n, res) ==
  \/ /\ conn = "live" /\ res = "ok"
     /\ saves' = Append(saves, [name |-> n, held |-> work])
     /\ UNCHANGED <<conn, work, durable>>
  \/ /\ Rejected(res) \/ (conn = "live" /\ res \in {"generic", "concurrency"})
     /\ UNCHANGED pdoVars

(* ROLLBACK TO SAVEPOINT n: forgets what came after it, keeps the savepoint.    *)
PdoRollbackTo(n, res) ==
  \/ /\ conn = "live" /\ res = "ok"
     /\ \E p \in DOMAIN saves :
          /\ IsNewest(p, n)
          /\ work' = saves[p].held
          /\ saves' = SubSeq(saves, 1, p)
     /\ UNCHANGED <<conn, durable>>
  \/ /\ Rejected(res) \/ (conn = "live" /\ res = "generic")
     /\ UNCHANGED pdoVars

(* commit: releases the connection whatever happens.  A connection lost during  *)
(* the commit leaves open whether the server did it.                            *)
PdoCommit(res) ==
  \/ /\ conn = "live"
     /\ \/ res = "ok" /\ durable' = durable \union work
        \/ res = "lost" /\ durable' \in {durable, durable \union work}
        \/ res \in {"concurrency", "generic"} /\ durable' = durable
     /\ Release
  \/ /\ Rejected(res)
     /\ Release /\ UNCHANGED durable

(* rollback: releases the connection whatever happens.                          *)
PdoRollback(res) ==
  /\ \/ conn = "live" /\ res \in {"ok", "generic"}
     \/ Rejected(res)
  /\ Release /\ UNCHANGED durable

(* The server goes away between two calls: it forgets the open transaction.     *)
PdoDrop ==
  /\ conn = "live"
  /\ conn' = "dead" /\ work' = {} /\ saves' = <<>>
  /\ UNCHANGED durable

===============================================================================
