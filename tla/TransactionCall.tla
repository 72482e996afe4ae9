---------------------------- MODULE TransactionCall ----------------------------
(* ConnectionSession.transaction(callback, attempts): the managed transaction,   *)
(* with its retries, nested calls made by the callback, and errors raised by    *)
(* the callback, by its statements, or by the session itself.                   *)
(* The callback is any program that runs statements, nests calls, returns or    *)
(* throws; CallbackMayCatch says whether it may also swallow an error.          *)
EXTENDS ConnectionSession

CONSTANTS
  Attempts,           \* the values given for the attempts parameter
  MaxCalls,           \* bound: calls of transaction() in one behaviour
  CallbackMayCatch    \* TRUE when a callback may catch an error and carry on

ASSUME CallAssumption ==
  /\ Attempts \subseteq Nat \ {0}
  /\ MaxCalls \in Nat
  /\ CallbackMayCatch \in BOOLEAN

VARIABLES
  frames,     \* the calls in progress, innermost last
  mode,       \* what the innermost call is at: "begin", "body" or "raise"
  raised,     \* the error on its way out of a callback
  calls,      \* history: for every call its attempts, current attempt, outcome
  path,       \* history: the call and attempt of every frame a query ran in
  stuck       \* history: a rollback was rejected with an unrecognised error

callVars == <<frames, mode, raised, calls, path, stuck>>
allVars == <<vars, callVars>>

Depth == Len(frames)
Top == frames[Depth]

CallInit ==
  /\ Init
  /\ frames = <<>> /\ calls = <<>>
  /\ mode = "body" /\ raised = "none"
  /\ path = [q \in {} |-> {}]
  /\ stuck = FALSE

-------------------------------------------------------------------------------
(* The innermost call ends without an error.                                    *)
Settle ==
  /\ frames' = SubSeq(frames, 1, Depth - 1)
  /\ calls' = [calls EXCEPT ![Top].outcome = "returned"]
  /\ mode' = "body" /\ raised' = "none"

(* The innermost call rejects with err: the caller outside every callback gets  *)
(* it, an enclosing callback lets it through or, if it may, catches it.         *)
Throw(err, outcome) ==
  /\ frames' = SubSeq(frames, 1, Depth - 1)
  /\ calls' = [calls EXCEPT ![Top].outcome = outcome]
  /\ \/ Depth > 1 /\ mode' = "raise" /\ raised' = err
     \/ (Depth = 1 \/ CallbackMayCatch) /\ mode' = "body" /\ raised' = "none"

(* Mutant: the attempt is not counted.                                          *)
RetrySameAttempt ==
  /\ mode' = "begin" /\ raised' = "none"
  /\ UNCHANGED <<frames, calls>>

(* The loop of transaction() goes round.                                        *)
Retry ==
  /\ calls' = [calls EXCEPT ![Top].attempt = @ + 1]
  /\ mode' = "begin" /\ raised' = "none"
  /\ UNCHANGED frames

(* Mutant: a lost connection is retried as well.                                *)
MayRetryLost(err) ==
  err \in {"concurrency", "lost"} /\ calls[Top].attempt < calls[Top].max

(* Only a concurrency error is retried, while attempts are left.                *)
MayRetry(err) == err = "concurrency" /\ calls[Top].attempt < calls[Top].max

(* transaction() is called, by the program or by the callback that is running.  *)
Call(max) ==
  /\ mode = "body"
  /\ Len(calls) < MaxCalls
  /\ calls' = Append(calls, [max |-> max, attempt |-> 1, outcome |-> "open"])
  /\ frames' = Append(frames, Len(calls) + 1)
  /\ mode' = "begin"
  /\ UNCHANGED <<vars, raised, path, stuck>>

(* await this.beginTransaction(): its error is not caught by the loop.          *)
BeginAttempt(res) ==
  /\ mode = "begin"
  /\ BeginTransaction(res)
  /\ \/ res = "ok" /\ mode' = "body" /\ UNCHANGED <<frames, raised, calls>>
     \/ res # "ok" /\ Throw(res, "threw")
  /\ UNCHANGED <<path, stuck>>

(* The callback runs a statement, and stops at its error unless it catches it.  *)
CallbackStatement(q, res) ==
  /\ mode = "body" /\ Depth > 0
  /\ RunQuery(q, res)
  /\ \/ (res = "ok" \/ CallbackMayCatch) /\ UNCHANGED <<mode, raised>>
     \/ res # "ok" /\ mode' = "raise" /\ raised' = res
  /\ path' = [r \in DOMAIN queryLevel' |->
                IF r \in Ran THEN path[r]
                ELSE {[call |-> c, attempt |-> calls[c].attempt] :
                        c \in {frames[i] : i \in DOMAIN frames}}]
  /\ UNCHANGED <<frames, calls, stuck>>

(* The callback throws an error of its own.                                     *)
CallbackThrow ==
  /\ mode = "body" /\ Depth > 0
  /\ mode' = "raise" /\ raised' = "generic"
  /\ UNCHANGED <<vars, frames, calls, path, stuck>>

(* Mutant: a commit rejected by a concurrency error counts as done.             *)
CallbackReturnIgnoresError(res) ==
  /\ mode = "body" /\ Depth > 0
  /\ PerformCommit(res)
  /\ \/ res = "ok" \/ MayRetry(res)
  /\ Settle
  /\ UNCHANGED <<path, stuck>>

(* The callback has returned: performCommit, and handleCommitTransactionError   *)
(* when it rejects, at a level performCommit has already set to 0.              *)
CallbackReturn(res) ==
  /\ mode = "body" /\ Depth > 0
  /\ PerformCommit(res)
  /\ \/ res = "ok" /\ Settle
     \/ MayRetry(res) /\ Retry
     \/ res # "ok" /\ ~MayRetry(res)
        /\ Throw(res, IF res = "lost" THEN "unknown" ELSE "threw")
  /\ UNCHANGED <<path, stuck>>

(* Mutant: the level is not decremented before the DeadlockError.               *)
NestedDeadlockKeepsLevel ==
  /\ mode = "raise" /\ raised = "concurrency" /\ Level > 1
  /\ Throw("concurrency", "threw")
  /\ UNCHANGED <<vars, path, stuck>>

(* handleTransactionError, a concurrency error in a nested transaction: the     *)
(* level goes down and a DeadlockError is thrown, nothing is rolled back.       *)
NestedDeadlock ==
  /\ mode = "raise" /\ raised = "concurrency" /\ Level > 1
  /\ transactions' = Level - 1
  /\ Throw("concurrency", "threw")
  /\ UNCHANGED <<pdoVars, afterCommit, announced, queryLevel, path, stuck>>

(* handleTransactionError otherwise: rollBack() by one level (nothing to do at  *)
(* level 0), then the loop goes round or the error is thrown; an error of the    *)
(* rollback replaces it.                                                        *)
HandleError(res) ==
  /\ mode = "raise"
  /\ ~(raised = "concurrency" /\ Level > 1)
  /\ \/ Level = 0 /\ res = "ok" /\ UNCHANGED vars
     \/ RollBack(Level - 1, res)
  /\ \/ res = "ok" /\ MayRetry(raised) /\ Retry
     \/ res = "ok" /\ ~MayRetry(raised) /\ Throw(raised, "threw")
     \/ res # "ok" /\ Throw(res, "threw")
  /\ stuck' = (stuck \/ res \in {"generic", "concurrency"})
  /\ UNCHANGED path

LoseConnectionInCall == LoseConnection /\ UNCHANGED callVars

(* The program has made its last call (the bound): it rests.                    *)
ProgramEnds ==
  /\ mode = "body" /\ Depth = 0 /\ Len(calls) = MaxCalls
  /\ UNCHANGED allVars

CallNext ==
  \/ \E max \in Attempts : Call(max)
  \/ \E res \in Results : BeginAttempt(res)
  \/ \E q \in Queries, res \in Results : CallbackStatement(q, res)
  \/ CallbackThrow
  \/ \E res \in Results : CallbackReturn(res)
  \/ NestedDeadlock
  \/ \E res \in Results : HandleError(res)
  \/ LoseConnectionInCall
  \/ ProgramEnds

CallSpec == CallInit /\ [][CallNext]_allVars

(* Every promise the session awaits settles, and a callback returns in the end. *)
FairCallSpec ==
  /\ CallSpec
  /\ WF_allVars(\E res \in Results : BeginAttempt(res))
  /\ WF_allVars(\E res \in Results : CallbackReturn(res))
  /\ WF_allVars(NestedDeadlock)
  /\ WF_allVars(\E res \in Results : HandleError(res))

-------------------------------------------------------------------------------
Outside == Depth = 0 /\ mode = "body"

(* Retried or not, a call makes the statements of at most one of its attempts   *)
(* durable: an attempt is repeated only after the one before is undone.         *)
OneAttemptDurable ==
  \A q, r \in durable \intersect Ran : \A s \in path[q], t \in path[r] :
    s.call = t.call => s.attempt = t.attempt

(* README, Database Transactions: when the closure throws, the transaction is   *)
(* rolled back.  No statement of a call that threw is durable; only a commit    *)
(* whose connection was lost leaves that unknown.                               *)
ThrewIsUndone ==
  \A q \in durable \intersect Ran : \A s \in path[q] : calls[s.call].outcome # "threw"

(* Once the outermost call has returned, every statement of its last attempt is *)
(* durable, those of the nested calls that returned included, on a session no   *)
(* rollback was rejected on.                                                    *)
ReturnedIsDurable ==
  Outside /\ ~stuck => \A q \in Ran :
    (\A s \in path[q] : calls[s.call].outcome = "returned"
                        /\ s.attempt = calls[s.call].attempt) => q \in durable

(* After the outermost call nothing is left behind, on a session no rollback    *)
(* was rejected on: level 0, no pool connection held, no event held back.       *)
NothingLeftOpen ==
  Outside /\ ~stuck => Level = 0 /\ conn = "closed" /\ afterCommit = {}

(* Every call of transaction() settles: its retries are bounded.                *)
CallsSettle == Depth > 0 ~> Depth = 0

===============================================================================
