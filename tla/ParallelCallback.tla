--------------------------- MODULE ParallelCallback ---------------------------
(* transaction(callback, attempts) whose callback awaits Promise.all of one or   *)
(* several branches, each running statements on the session one after the other. *)
(* Promise.all rejects with the first branch that fails and leaves the others    *)
(* running, beside the rollback and beside the next attempt.  A step ends at an  *)
(* await: a statement reads the transaction level when it is sent, when it       *)
(* fails and when it is logged, which may be three different levels.             *)
EXTENDS Integers, FiniteSets

CONSTANTS
  Branches,     \* the promises a callback may await together
  Statements,   \* bound: the statements of one branch
  Attempts      \* the attempts parameter

ASSUME ParallelAssumption ==
  IsFiniteSet(Branches) /\ Statements \in Nat \ {0} /\ Attempts \in Nat \ {0}

VARIABLES
  transactions,   \* the number of active transactions
  afterCommit,    \* the QueryExecuted events held back until the commit
  announced,      \* the statements whose event with inTransaction = false was emitted
  phase,          \* the await transaction() is at, or "settled"
  attempt,        \* currentAttempt
  raised,         \* the error on its way out of transaction()
  outcome,        \* how the call settled
  together,       \* the branches this callback awaits together
  branch,         \* the branches of every attempt
  conn,           \* the transaction object of every attempt, as the pool sees it
  work,           \* what each transaction has applied
  durable,        \* the statements whose effect is committed
  inTime          \* history: statements settled when their callback rejected

session == <<transactions, afterCommit, announced>>
call == <<phase, attempt, raised, outcome, inTime, together>>
server == <<conn, work, durable>>
vars == <<session, call, branch, server>>

Level == transactions
AttemptIds == 1 .. Attempts
Pool == 0          \* a statement sent to a pool connection, outside transactions
Errors == {"lost", "concurrency", "generic"}
Results == Errors \union {"ok"}

Statement == AttemptIds \X Branches \X (1 .. Statements)

Init ==
  /\ transactions = 0 /\ afterCommit = {} /\ announced = {}
  /\ phase = "begin" /\ attempt = 1 /\ raised = "none" /\ outcome = "open"
  /\ together \in SUBSET Branches \ {{}}
  /\ branch = [b \in AttemptIds \X Branches |->
                 [stage |-> "waiting", number |-> 1, on |-> Pool, retried |-> FALSE]]
  /\ conn = [a \in AttemptIds |-> "none"]
  /\ work = [a \in AttemptIds |-> {}]
  /\ durable = {} /\ inTime = {}

StatementOf(b) == <<b[1], b[2], branch[b].number>>
Mine == {attempt} \X together      \* the branches the running callback awaits

-------------------------------------------------------------------------------
(* The call settles with the outcome, or the loop of transaction() goes round.  *)
Settle(how) == phase' = "settled" /\ outcome' = how /\ UNCHANGED attempt
Retry == phase' = "begin" /\ attempt' = attempt + 1 /\ UNCHANGED outcome

(* Mutant: a lost connection is retried as well.                                *)
MayRetryLost(err) == err \in {"concurrency", "lost"} /\ attempt < Attempts

(* Only a concurrency error is retried, while attempts are left.                *)
MayRetry(err) == err = "concurrency" /\ attempt < Attempts

(* await this.beginTransaction(); the callback then starts its branches.        *)
Begin(res) ==
  /\ phase = "begin" /\ Level = 0
  /\ raised' = "none"
  /\ IF res = "ok"
       THEN /\ conn' = [conn EXCEPT ![attempt] = "live"]
            /\ transactions' = Level + 1
            /\ branch' = [b \in DOMAIN branch |->
                            IF b \in Mine THEN [branch[b] EXCEPT !.stage = "running"]
                                          ELSE branch[b]]
            /\ phase' = "callback" /\ UNCHANGED <<attempt, outcome>>
       ELSE Settle("threw") /\ UNCHANGED <<conn, transactions, branch>>
  /\ UNCHANGED <<afterCommit, announced, inTime, together, work, durable>>

(* Mutant: getPdo takes the transaction above level 1 only.                     *)
SendWrongPdo(b) ==
  /\ branch[b].stage = "running"
  /\ branch' = [branch EXCEPT ![b].stage = "sent", ![b].retried = FALSE,
                              ![b].on = IF Level > 1 THEN attempt ELSE Pool]
  /\ UNCHANGED <<session, call, server>>

(* A branch calls a query method: getPdo reads the level now.                   *)
Send(b) ==
  /\ branch[b].stage = "running"
  /\ branch' = [branch EXCEPT ![b].stage = "sent", ![b].retried = FALSE,
                              ![b].on = IF Level > 0 THEN attempt ELSE Pool]
  /\ UNCHANGED <<session, call, server>>

(* What the server did with a statement of the branch.  A transaction that was  *)
(* given back rejects it, with the error of a lost connection when it was lost. *)
Execute(b, res) ==
  LET s == StatementOf(b)
      t == branch[b].on
  IN \/ /\ t = Pool
        /\ \/ res = "ok" /\ durable' = durable \union {s}
           \/ res = "lost" /\ durable' \in {durable, durable \union {s}}
           \/ res \in {"concurrency", "generic"} /\ UNCHANGED durable
        /\ UNCHANGED <<conn, work>>
     \/ /\ t # Pool /\ conn[t] = "live" /\ res # "lost"
        /\ work' = IF res = "ok" THEN [work EXCEPT ![t] = @ \union {s}] ELSE work
        /\ UNCHANGED <<conn, durable>>
     \/ /\ t # Pool
        /\ \/ conn[t] \in {"dead", "gone"} /\ res = "lost"
           \/ conn[t] \in {"closed", "gone"} /\ res = "generic"
        /\ UNCHANGED server

(* logQuery, with the level read now, and the branch goes on: the event is held *)
(* back inside a transaction, emitted for good outside one.                      *)
LogQuery(b) ==
  /\ IF Level > 0
       THEN /\ afterCommit' = afterCommit \union {[level |-> Level, query |-> StatementOf(b)]}
            /\ UNCHANGED announced
       ELSE announced' = announced \union {StatementOf(b)} /\ UNCHANGED afterCommit
  /\ branch' = [branch EXCEPT ![b] =
       LET n == branch[b].number
       IN  IF n < Statements THEN [branch[b] EXCEPT !.stage = "running", !.number = n + 1]
                             ELSE [branch[b] EXCEPT !.stage = "done"]]
  /\ UNCHANGED transactions

(* The statement succeeds: one of a transaction is logged at once, one of the    *)
(* pool awaits its close() first.                                               *)
Executed(b) ==
  /\ branch[b].stage = "sent"
  /\ Execute(b, "ok")
  /\ IF branch[b].on = Pool
       THEN branch' = [branch EXCEPT ![b].stage = "executed"] /\ UNCHANGED session
       ELSE LogQuery(b)
  /\ UNCHANGED call

Closed(b) ==
  /\ branch[b].stage = "executed"
  /\ LogQuery(b)
  /\ UNCHANGED <<call, server>>

(* The statement fails.  handleQueryError reads the level now: at level 0 a      *)
(* lost connection is tried again, through getPdo, on the pool; above it the     *)
(* branch rejects, and Promise.all with it if it is the first.                   *)
Failed(b, err) ==
  /\ branch[b].stage = "sent"
  /\ Execute(b, err)
  /\ IF Level = 0 /\ err = "lost" /\ ~branch[b].retried
       THEN branch' = [branch EXCEPT ![b].on = Pool, ![b].retried = TRUE] /\ UNCHANGED raised
       ELSE /\ branch' = [branch EXCEPT ![b].stage = "rejected"]
            /\ raised' = IF phase = "callback" /\ b \in Mine /\ raised = "none"
                           THEN err ELSE raised
  /\ UNCHANGED <<session, phase, attempt, outcome, inTime, together>>

-------------------------------------------------------------------------------
(* Statements of the running attempt whose promise has resolved.                *)
Resolved ==
  {s \in Statement : s[1] = attempt /\
     \/ branch[<<s[1], s[2]>>].number > s[3]
     \/ branch[<<s[1], s[2]>>].number = s[3] /\ branch[<<s[1], s[2]>>].stage = "done"}

(* Mutant: the error is thrown without a rollback.                              *)
CallbackRejectsNoRollback ==
  /\ phase = "callback" /\ raised # "none"
  /\ Settle("threw")
  /\ inTime' = inTime \union Resolved
  /\ UNCHANGED <<session, raised, together, branch, server>>

(* The callback rejected: handleTransactionError calls rollBack() at level 1.   *)
CallbackRejects ==
  /\ phase = "callback" /\ raised # "none"
  /\ phase' = "rollback"
  /\ inTime' = inTime \union Resolved
  /\ UNCHANGED <<session, attempt, raised, outcome, together, branch, server>>

(* The rollback settles, the connection is back in the pool.  A lost connection *)
(* resets the level, an unrecognised error changes nothing; both replace the     *)
(* error of the callback.                                                       *)
RolledBack(res) ==
  /\ phase = "rollback"
  /\ \/ conn[attempt] = "live" /\ res \in {"ok", "generic"}
        /\ conn' = [conn EXCEPT ![attempt] = "closed"]
     \/ conn[attempt] = "dead" /\ res = "lost"
        /\ conn' = [conn EXCEPT ![attempt] = "gone"]
  /\ work' = [work EXCEPT ![attempt] = {}]
  /\ IF res = "generic" THEN UNCHANGED <<transactions, afterCommit>>
                        ELSE transactions' = 0 /\ afterCommit' = {}
  /\ IF res = "ok" /\ MayRetry(raised) THEN Retry ELSE Settle("threw")
  /\ UNCHANGED <<announced, raised, inTime, together, branch, durable>>

(* Mutant: the callback is not awaited to its end.                              *)
CallbackReturnsEarly ==
  /\ phase = "callback" /\ raised = "none"
  /\ \E b \in Mine : branch[b].stage = "done"
  /\ phase' = "commit"
  /\ UNCHANGED <<session, attempt, raised, outcome, inTime, together, branch, server>>

(* The callback resolved: performCommit awaits the real commit.                 *)
CallbackReturns ==
  /\ phase = "callback" /\ raised = "none"
  /\ \A b \in Mine : branch[b].stage = "done"
  /\ phase' = "commit"
  /\ UNCHANGED <<session, attempt, raised, outcome, inTime, together, branch, server>>

(* Mutant: the events are emitted whatever the commit gave.                     *)
FireAfterCommitAlways(res) == announced' = announced \union {e.query : e \in afterCommit}

(* fireAfterCommitEvent at level 0, filterAfterCommit after an error.           *)
FireAfterCommit(res) ==
  announced' = IF res = "ok" THEN announced \union {e.query : e \in afterCommit}
                             ELSE announced

(* The commit settles: fireAfterCommitEvent, or handleCommitError and            *)
(* handleCommitTransactionError.                                                *)
Committed(res) ==
  /\ phase = "commit"
  /\ \/ conn[attempt] = "dead" /\ res = "lost" /\ UNCHANGED durable
     \/ conn[attempt] = "live" /\ res = "lost"
        /\ durable' \in {durable, durable \union work[attempt]}
     \/ conn[attempt] = "live" /\ res = "ok" /\ durable' = durable \union work[attempt]
     \/ conn[attempt] = "live" /\ res \in {"concurrency", "generic"} /\ UNCHANGED durable
  /\ conn' = [conn EXCEPT ![attempt] = IF res = "lost" THEN "gone" ELSE "closed"]
  /\ work' = [work EXCEPT ![attempt] = {}]
  /\ transactions' = 0 /\ afterCommit' = {}
  /\ FireAfterCommit(res)
  /\ IF MayRetry(res) THEN Retry
     ELSE Settle(CASE res = "ok" -> "returned" [] res = "lost" -> "unknown"
                   [] OTHER -> "threw")
  /\ UNCHANGED <<raised, inTime, together, branch>>

(* The environment: the server goes away under the open transaction.            *)
LoseConnection ==
  /\ conn[attempt] = "live"
  /\ conn' = [conn EXCEPT ![attempt] = "dead"]
  /\ work' = [work EXCEPT ![attempt] = {}]
  /\ UNCHANGED <<session, call, branch, durable>>

(* The call and every branch have settled.                                      *)
Rest ==
  /\ phase = "settled"
  /\ \A b \in DOMAIN branch : branch[b].stage \in {"waiting", "done", "rejected"}
  /\ UNCHANGED vars

Next ==
  \/ \E res \in Results : Begin(res)
  \/ \E b \in DOMAIN branch : Send(b) \/ Executed(b) \/ Closed(b)
  \/ \E b \in DOMAIN branch, err \in Errors : Failed(b, err)
  \/ CallbackRejects
  \/ \E res \in Results : RolledBack(res)
  \/ CallbackReturns
  \/ \E res \in Results : Committed(res)
  \/ LoseConnection
  \/ Rest

Spec == Init /\ [][Next]_vars

-------------------------------------------------------------------------------
(* A callback that awaits one statement before it sends the next has the whole   *)
(* promise: nothing of a call that threw is durable, and a retried callback      *)
(* applies each of its statements once.                                         *)
SequentialIsAtomic ==
  Cardinality(together) = 1 =>
    /\ outcome = "threw" => durable = {}
    /\ \A s, t \in durable : s[1] = t[1]

(* README, Events: a query is announced with inTransaction = false after the     *)
(* commit, so never without its effect.                                         *)
ParallelAnnouncedIsDurable == announced \subseteq durable

(* A call that returned made every statement of its last attempt durable and    *)
(* announced each, whatever the branches of earlier attempts were still doing.  *)
ParallelReturned ==
  outcome = "returned" =>
    {s \in Statement : s[1] = attempt /\ s[2] \in together} \subseteq durable \intersect announced

(* What escapes a call that threw are only statements that were still running   *)
(* when the callback rejected, never one a branch had seen succeed.             *)
OnlyStragglersEscape == outcome = "threw" => durable \intersect inTime = {}

(* A call that settled holds no pool connection, with branches still running.   *)
SettledHoldsNothing ==
  phase = "settled" => \A a \in AttemptIds : conn[a] \notin {"live", "dead"}

===============================================================================
