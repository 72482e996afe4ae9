------------------------ MODULE ParallelCallbackProofs ------------------------
(* What transaction() keeps while its callback awaits several branches, for      *)
(* every number of branches, statements and attempts.                           *)
EXTENDS ParallelCallback, TLAPS, FiniteSetTheorems

Open == phase \in {"callback", "rollback", "commit"}
Active(b) == branch[b].stage \in {"running", "sent", "executed"}

(* The promise of the statement has resolved.                                   *)
Past(s) ==
  \/ branch[<<s[1], s[2]>>].number > s[3]
  \/ branch[<<s[1], s[2]>>].number = s[3] /\ branch[<<s[1], s[2]>>].stage = "done"

Stages == {"waiting", "running", "sent", "executed", "done", "rejected"}
BranchIds == AttemptIds \X Branches

(* The state of the call, of its branches and of the server keeps its type.      *)
ParallelTypeOK ==
  /\ transactions \in {0, 1}
  /\ afterCommit \in SUBSET [level : {1}, query : Statement]
  /\ announced \in SUBSET Statement
  /\ phase \in {"begin", "callback", "rollback", "commit", "settled"}
  /\ attempt \in AttemptIds
  /\ raised \in Errors \union {"none"}
  /\ outcome \in {"open", "returned", "threw", "unknown"}
  /\ together \in SUBSET Branches
  /\ branch \in [BranchIds -> [stage : Stages, number : 1 .. Statements,
                               on : 0 .. Attempts, retried : BOOLEAN]]
  /\ conn \in [AttemptIds -> {"none", "live", "dead", "closed", "gone"}]
  /\ work \in [AttemptIds -> SUBSET Statement]
  /\ durable \in SUBSET Statement
  /\ inTime \in SUBSET Statement

(* Where the call is says what its level is and which connection it holds: that  *)
(* of the attempt in progress and no other.                                     *)
PhaseInv ==
  /\ phase = "begin" => transactions = 0
  /\ Open => transactions = 1
  /\ transactions = 0 => afterCommit = {}
  /\ phase = "settled" <=> outcome # "open"
  /\ \A a \in AttemptIds :
       /\ conn[a] \in {"live", "dead"} <=> a = attempt /\ Open
       /\ conn[a] # "live" => work[a] = {}

(* Branches start with their attempt; those of the attempt in progress send      *)
(* their statements through its transaction, never to the pool.                  *)
BranchOK(b) ==
  /\ branch[b].stage # "waiting" =>
       b[2] \in together /\ (b[1] < attempt \/ (b[1] = attempt /\ phase # "begin"))
  /\ branch[b].stage = "waiting" => branch[b].number = 1
  /\ branch[b].stage = "done" => branch[b].number = Statements
  /\ branch[b].stage = "executed" => StatementOf(b) \in durable
  /\ Open /\ b \in Mine =>
       /\ branch[b].stage \notin {"waiting", "executed"}
       /\ branch[b].stage = "sent" => branch[b].on = attempt

BranchInv ==
  /\ \A b \in BranchIds : BranchOK(b)
  /\ phase = "commit" => \A b \in Mine : branch[b].stage = "done"

(* An event held back is for a statement the transaction holds or that is        *)
(* durable, and every statement of the attempt that resolved has one.            *)
EventInv ==
  /\ \A e \in afterCommit :
       e.query \in durable \/ (conn[attempt] = "live" => e.query \in work[attempt])
  /\ phase \in {"callback", "commit"} =>
       \A s \in Statement : s[1] = attempt /\ s[2] \in together /\ Past(s) =>
         [level |-> 1, query |-> s] \in afterCommit

(* Nothing of the attempt in progress is durable before its commit settles, and  *)
(* what had resolved when a callback rejected never is.                         *)
EscapeInv ==
  /\ phase # "settled" => \A s \in durable : s[1] < attempt
  /\ \A s \in inTime :
       /\ s \notin durable /\ Past(s)
       /\ \A c \in AttemptIds : s \in work[c] => c = attempt /\ phase = "rollback"

(* With one branch nothing runs outside the callback of its attempt.             *)
SequentialInv ==
  Cardinality(together) = 1 =>
    /\ \A b \in BranchIds : Active(b) => b \in Mine /\ phase = "callback" /\ raised = "none"
    /\ phase # "settled" \/ outcome = "threw" => durable = {}
    /\ \A s \in durable : s[1] = attempt
    /\ \A c \in AttemptIds : \A s \in work[c] : s[1] = c

ParallelInv ==
  /\ ParallelTypeOK /\ PhaseInv /\ BranchInv /\ EventInv
  /\ ParallelAnnouncedIsDurable /\ ParallelReturned /\ EscapeInv /\ SequentialInv

-------------------------------------------------------------------------------
(* Statements, branches and what a step does to one branch.                      *)

LEMMA Places ==
  ASSUME ParallelTypeOK
  PROVE  /\ attempt \in Nat /\ attempt \in 1 .. Attempts /\ Attempts \in Nat /\ Statements \in Nat
         /\ DOMAIN branch = BranchIds /\ Mine \subseteq BranchIds
         /\ \A b \in BranchIds : b \in Mine <=> b[1] = attempt /\ b[2] \in together
BY ParallelAssumption DEF ParallelTypeOK, AttemptIds, BranchIds, Mine

LEMMA BranchType ==
  ASSUME ParallelTypeOK, NEW b \in BranchIds
  PROVE  /\ b[1] \in AttemptIds /\ b[1] \in Nat /\ b[2] \in Branches /\ b = <<b[1], b[2]>>
         /\ branch[b].number \in 1 .. Statements /\ branch[b].number \in Nat
         /\ branch[b].stage \in Stages /\ branch[b].on \in 0 .. Attempts
         /\ StatementOf(b) \in Statement
         /\ StatementOf(b)[1] = b[1] /\ StatementOf(b)[2] = b[2]
         /\ StatementOf(b)[3] = branch[b].number
<1>1. branch[b] \in [stage : Stages, number : 1 .. Statements, on : 0 .. Attempts, retried : BOOLEAN]
  BY DEF ParallelTypeOK
<1>2. b[1] \in AttemptIds /\ b[2] \in Branches /\ b = <<b[1], b[2]>> /\ b[1] \in Nat
  BY DEF BranchIds, AttemptIds
<1> QED BY <1>1, <1>2 DEF StatementOf, Statement

LEMMA StatementType ==
  ASSUME NEW s \in Statement
  PROVE  /\ s[1] \in AttemptIds /\ s[1] \in Nat /\ s[2] \in Branches
         /\ s[3] \in 1 .. Statements /\ s[3] \in Nat
         /\ s = <<s[1], s[2], s[3]>> /\ <<s[1], s[2]>> \in BranchIds
BY DEF Statement, AttemptIds, BranchIds

(* One branch goes to another stage, statement or connection.                   *)
BranchStep(b, stage, number, on) ==
  /\ branch' \in [BranchIds -> [stage : Stages, number : 1 .. Statements,
                                on : 0 .. Attempts, retried : BOOLEAN]]
  /\ \A c \in BranchIds : c # b => branch'[c] = branch[c]
  /\ branch'[b].stage = stage /\ branch'[b].number = number /\ branch'[b].on = on

LEMMA BranchStepOf ==
  ASSUME ParallelTypeOK, NEW b \in BranchIds, NEW r,
         r \in [stage : Stages, number : 1 .. Statements, on : 0 .. Attempts, retried : BOOLEAN],
         branch' = [branch EXCEPT ![b] = r]
  PROVE  BranchStep(b, r.stage, r.number, r.on)
BY DEF ParallelTypeOK, BranchStep

LEMMA SendStep ==
  ASSUME ParallelTypeOK, NEW b \in BranchIds, Send(b)
  PROVE  BranchStep(b, "sent", branch[b].number, IF Level > 0 THEN attempt ELSE Pool)
<1> DEFINE r == [branch[b] EXCEPT !.stage = "sent", !.retried = FALSE,
                                  !.on = IF Level > 0 THEN attempt ELSE Pool]
<1>1. branch[b] \in [stage : Stages, number : 1 .. Statements, on : 0 .. Attempts, retried : BOOLEAN]
  BY DEF ParallelTypeOK
<1>2. (IF Level > 0 THEN attempt ELSE Pool) \in 0 .. Attempts
  BY Places DEF Pool
<1>3. r \in [stage : Stages, number : 1 .. Statements, on : 0 .. Attempts, retried : BOOLEAN]
  BY <1>1, <1>2 DEF Stages
<1>4. /\ r.stage = "sent" /\ r.number = branch[b].number
      /\ r.on = IF Level > 0 THEN attempt ELSE Pool
  BY <1>1
<1>5. branch' = [branch EXCEPT ![b] = r]
  BY <1>1 DEF Send
<1> HIDE DEF r
<1> QED BY <1>3, <1>4, <1>5, BranchStepOf

LEMMA LoggedStep ==
  ASSUME ParallelTypeOK, NEW b \in BranchIds, LogQuery(b)
  PROVE  \/ branch[b].number < Statements
            /\ BranchStep(b, "running", branch[b].number + 1, branch[b].on)
         \/ branch[b].number = Statements
            /\ BranchStep(b, "done", branch[b].number, branch[b].on)
<1>1. branch[b] \in [stage : Stages, number : 1 .. Statements, on : 0 .. Attempts, retried : BOOLEAN]
  BY DEF ParallelTypeOK
<1>2. branch[b].number \in 1 .. Statements /\ Statements \in Nat
  BY <1>1, Places
<1>3. CASE branch[b].number < Statements
  <2> DEFINE r == [branch[b] EXCEPT !.stage = "running", !.number = branch[b].number + 1]
  <2>1. r \in [stage : Stages, number : 1 .. Statements, on : 0 .. Attempts, retried : BOOLEAN]
    <3>1. branch[b].number + 1 \in 1 .. Statements
      BY <1>2, <1>3
    <3> QED BY <1>1, <3>1 DEF Stages
  <2>2. r.stage = "running" /\ r.number = branch[b].number + 1 /\ r.on = branch[b].on
    BY <1>1
  <2>3. branch' = [branch EXCEPT ![b] = r]
    BY <1>1, <1>3 DEF LogQuery
  <2> HIDE DEF r
  <2> QED BY <1>3, <2>1, <2>2, <2>3, BranchStepOf
<1>4. CASE ~(branch[b].number < Statements)
  <2> DEFINE r == [branch[b] EXCEPT !.stage = "done"]
  <2>1. r \in [stage : Stages, number : 1 .. Statements, on : 0 .. Attempts, retried : BOOLEAN]
    BY <1>1 DEF Stages
  <2>2. r.stage = "done" /\ r.number = branch[b].number /\ r.on = branch[b].on
    BY <1>1
  <2>3. branch' = [branch EXCEPT ![b] = r]
    BY <1>4 DEF LogQuery
  <2>4. branch[b].number = Statements
    BY <1>2, <1>4
  <2> HIDE DEF r
  <2> QED BY <2>1, <2>2, <2>3, <2>4, BranchStepOf
<1> QED BY <1>3, <1>4

LEMMA ExecutedOnPoolStep ==
  ASSUME ParallelTypeOK, NEW b \in BranchIds, branch' = [branch EXCEPT ![b].stage = "executed"]
  PROVE  BranchStep(b, "executed", branch[b].number, branch[b].on)
<1> DEFINE r == [branch[b] EXCEPT !.stage = "executed"]
<1>1. branch[b] \in [stage : Stages, number : 1 .. Statements, on : 0 .. Attempts, retried : BOOLEAN]
  BY DEF ParallelTypeOK
<1>2. r \in [stage : Stages, number : 1 .. Statements, on : 0 .. Attempts, retried : BOOLEAN]
  BY <1>1 DEF Stages
<1>3. r.stage = "executed" /\ r.number = branch[b].number /\ r.on = branch[b].on
  BY <1>1
<1>4. branch' = [branch EXCEPT ![b] = r]
  OBVIOUS
<1> HIDE DEF r
<1>5. BranchStep(b, r.stage, r.number, r.on)
  BY <1>2, <1>4, BranchStepOf
<1> QED BY <1>3, <1>5

LEMMA FailedStep ==
  ASSUME ParallelTypeOK, NEW b \in BranchIds, NEW err, Failed(b, err)
  PROVE  \/ BranchStep(b, "sent", branch[b].number, Pool) /\ Level = 0 /\ raised' = raised
         \/ BranchStep(b, "rejected", branch[b].number, branch[b].on)
            /\ raised' = IF phase = "callback" /\ b \in Mine /\ raised = "none"
                           THEN err ELSE raised
<1>1. branch[b] \in [stage : Stages, number : 1 .. Statements, on : 0 .. Attempts, retried : BOOLEAN]
  BY DEF ParallelTypeOK
<1>2. CASE Level = 0 /\ err = "lost" /\ ~branch[b].retried
  <2> DEFINE r == [branch[b] EXCEPT !.on = Pool, !.retried = TRUE]
  <2>1. r \in [stage : Stages, number : 1 .. Statements, on : 0 .. Attempts, retried : BOOLEAN]
    <3>1. Pool \in 0 .. Attempts
      BY Places DEF Pool
    <3> QED BY <1>1, <3>1
  <2>2. r.stage = "sent" /\ r.number = branch[b].number /\ r.on = Pool
    BY <1>1 DEF Failed
  <2>3. branch' = [branch EXCEPT ![b] = r] /\ raised' = raised
    BY <1>2 DEF Failed
  <2> HIDE DEF r
  <2> QED BY <1>2, <2>1, <2>2, <2>3, BranchStepOf
<1>3. CASE ~(Level = 0 /\ err = "lost" /\ ~branch[b].retried)
  <2> DEFINE r == [branch[b] EXCEPT !.stage = "rejected"]
  <2>1. r \in [stage : Stages, number : 1 .. Statements, on : 0 .. Attempts, retried : BOOLEAN]
    BY <1>1 DEF Stages
  <2>2. r.stage = "rejected" /\ r.number = branch[b].number /\ r.on = branch[b].on
    BY <1>1
  <2>3. /\ branch' = [branch EXCEPT ![b] = r]
        /\ raised' = IF phase = "callback" /\ b \in Mine /\ raised = "none" THEN err ELSE raised
    BY <1>3 DEF Failed
  <2> HIDE DEF r
  <2> QED BY <2>1, <2>2, <2>3, BranchStepOf
<1> QED BY <1>2, <1>3

(* A branch that takes a step without resolving a statement changes no past.     *)
LEMMA PastKept ==
  ASSUME ParallelTypeOK, NEW b \in BranchIds, NEW stage, NEW on,
         BranchStep(b, stage, branch[b].number, on),
         stage # "done", branch[b].stage # "done", NEW s \in Statement
  PROVE  Past(s)' <=> Past(s)
<1>1. <<s[1], s[2]>> \in BranchIds
  BY StatementType
<1> QED BY <1>1 DEF BranchStep, Past

(* Logging a statement resolves that one.                                       *)
LEMMA PastLogged ==
  ASSUME ParallelTypeOK, NEW b \in BranchIds, LogQuery(b), branch[b].stage # "done",
         NEW s \in Statement
  PROVE  Past(s)' <=> Past(s) \/ s = StatementOf(b)
<1>1. /\ <<s[1], s[2]>> \in BranchIds /\ s[3] \in Nat /\ s[3] \in 1 .. Statements
      /\ s = <<s[1], s[2], s[3]>>
  BY StatementType
<1>2. b = <<b[1], b[2]>> /\ branch[b].number \in Nat
  BY BranchType
<1>3. CASE <<s[1], s[2]>> # b
  <2>1. branch'[<<s[1], s[2]>>] = branch[<<s[1], s[2]>>]
    BY <1>1, <1>3, LoggedStep DEF BranchStep
  <2>2. s # StatementOf(b)
    BY <1>2, <1>3 DEF StatementOf
  <2> QED BY <2>1, <2>2 DEF Past
<1>4. CASE <<s[1], s[2]>> = b
  <2>1. s = StatementOf(b) <=> s[3] = branch[b].number
    BY <1>1, <1>2, <1>4 DEF StatementOf
  <2>2. Past(s) <=> branch[b].number > s[3]
    BY <1>4 DEF Past
  <2>3. Past(s)' <=> (branch'[b].number > s[3]
                       \/ (branch'[b].number = s[3] /\ branch'[b].stage = "done"))
    BY <1>4 DEF Past
  <2>4. CASE branch'[b].number = branch[b].number + 1 /\ branch'[b].stage = "running"
    BY <1>1, <1>2, <2>1, <2>2, <2>3, <2>4
  <2>5. CASE branch'[b].number = branch[b].number /\ branch'[b].stage = "done"
    BY <1>1, <1>2, <2>1, <2>2, <2>3, <2>5
  <2> QED BY <2>4, <2>5, LoggedStep DEF BranchStep
<1> QED BY <1>3, <1>4

-------------------------------------------------------------------------------
(* The type of the state.                                                       *)

(* What a step of a branch does to the session, to the call and to the server.  *)
LEMMA ExecuteType ==
  ASSUME ParallelTypeOK, NEW b \in BranchIds, NEW res \in Results, Execute(b, res)
  PROVE  /\ durable' \in SUBSET Statement /\ conn' = conn
         /\ work' \in [AttemptIds -> SUBSET Statement]
<1>1. StatementOf(b) \in Statement /\ branch[b].on \in 0 .. Attempts
  BY BranchType
<1>2. branch[b].on # Pool => branch[b].on \in AttemptIds
  BY <1>1, Places DEF AttemptIds, Pool
<1> QED BY <1>1, <1>2 DEF ParallelTypeOK, Execute, server

LEMMA LogType ==
  ASSUME ParallelTypeOK, NEW b \in BranchIds, LogQuery(b)
  PROVE  /\ transactions' = transactions
         /\ afterCommit' \in SUBSET [level : {1}, query : Statement]
         /\ announced' \in SUBSET Statement
         /\ branch' \in [BranchIds -> [stage : Stages, number : 1 .. Statements,
                                       on : 0 .. Attempts, retried : BOOLEAN]]
<1>1. StatementOf(b) \in Statement
  BY BranchType
<1>2. branch' \in [BranchIds -> [stage : Stages, number : 1 .. Statements,
                                on : 0 .. Attempts, retried : BOOLEAN]]
  BY LoggedStep DEF BranchStep
<1> QED BY <1>1, <1>2 DEF ParallelTypeOK, LogQuery, Level

LEMMA StartedBranches ==
  ASSUME ParallelTypeOK, NEW res \in Results, Begin(res), res = "ok"
  PROVE  /\ branch' \in [BranchIds -> [stage : Stages, number : 1 .. Statements,
                                       on : 0 .. Attempts, retried : BOOLEAN]]
         /\ \A b \in BranchIds :
              /\ branch'[b].number = branch[b].number /\ branch'[b].on = branch[b].on
              /\ branch'[b].stage = IF b \in Mine THEN "running" ELSE branch[b].stage
<1>1. branch' = [b \in BranchIds |-> IF b \in Mine THEN [branch[b] EXCEPT !.stage = "running"]
                                                   ELSE branch[b]]
  BY Places DEF Begin
<1>2. ASSUME NEW b \in BranchIds
      PROVE  /\ branch'[b] \in [stage : Stages, number : 1 .. Statements,
                                on : 0 .. Attempts, retried : BOOLEAN]
             /\ branch'[b].number = branch[b].number /\ branch'[b].on = branch[b].on
             /\ branch'[b].stage = IF b \in Mine THEN "running" ELSE branch[b].stage
  <2>1. branch[b] \in [stage : Stages, number : 1 .. Statements, on : 0 .. Attempts, retried : BOOLEAN]
    BY DEF ParallelTypeOK
  <2> QED BY <1>1, <2>1 DEF Stages
<1> QED BY <1>1, <1>2

(* A retry is an attempt of the call.                                           *)
LEMMA LoopType ==
  ASSUME ParallelTypeOK, NEW err, NEW how \in {"returned", "threw", "unknown"},
         \/ MayRetry(err) /\ Retry
         \/ Settle(how)
  PROVE  /\ attempt' \in AttemptIds /\ phase' \in {"begin", "settled"}
         /\ outcome' \in {"open", "returned", "threw", "unknown"}
<1>1. CASE MayRetry(err) /\ Retry
  <2>1. attempt + 1 \in AttemptIds
    BY <1>1, Places DEF MayRetry, AttemptIds
  <2> QED BY <1>1, <2>1 DEF Retry, ParallelTypeOK
<1>2. CASE Settle(how)
  BY <1>2 DEF Settle, ParallelTypeOK
<1> QED BY <1>1, <1>2

LEMMA InitType == Init => ParallelTypeOK
<1> SUFFICES ASSUME Init PROVE ParallelTypeOK
  OBVIOUS
<1>1. 1 \in AttemptIds /\ 1 \in 1 .. Statements /\ 0 \in 0 .. Attempts
  BY ParallelAssumption DEF AttemptIds
<1>2. branch \in [BranchIds -> [stage : Stages, number : 1 .. Statements,
                               on : 0 .. Attempts, retried : BOOLEAN]]
  BY <1>1 DEF Init, BranchIds, Stages, Pool
<1>3. /\ conn \in [AttemptIds -> {"none", "live", "dead", "closed", "gone"}]
      /\ work \in [AttemptIds -> SUBSET Statement]
  BY DEF Init
<1>4. /\ transactions \in {0, 1} /\ afterCommit \in SUBSET [level : {1}, query : Statement]
      /\ announced \in SUBSET Statement /\ attempt \in AttemptIds
      /\ phase = "begin" /\ raised = "none" /\ outcome = "open"
      /\ together \in SUBSET Branches /\ durable \in SUBSET Statement /\ inTime \in SUBSET Statement
  BY <1>1 DEF Init
<1> QED BY <1>2, <1>3, <1>4 DEF ParallelTypeOK

LEMMA StepType ==
  ASSUME ParallelTypeOK, [Next]_vars
  PROVE  ParallelTypeOK'
<1>1. ASSUME NEW res \in Results, Begin(res) PROVE ParallelTypeOK'
  <2>1. CASE res = "ok"
    <3>1. /\ transactions' = 1 /\ phase' = "callback" /\ raised' = "none"
          /\ conn' = [conn EXCEPT ![attempt] = "live"]
          /\ UNCHANGED <<afterCommit, announced, inTime, together, work, durable, attempt, outcome>>
      BY <1>1, <2>1 DEF Begin, Level
    <3>2. branch' \in [BranchIds -> [stage : Stages, number : 1 .. Statements,
                                    on : 0 .. Attempts, retried : BOOLEAN]]
      BY <1>1, <2>1, StartedBranches
    <3> QED BY <3>1, <3>2 DEF ParallelTypeOK
  <2>2. CASE res # "ok"
    BY <1>1, <2>2 DEF Begin, Settle, ParallelTypeOK
  <2> QED BY <2>1, <2>2
<1>2. ASSUME NEW b \in BranchIds, Send(b) PROVE ParallelTypeOK'
  <2>1. branch' \in [BranchIds -> [stage : Stages, number : 1 .. Statements,
                                  on : 0 .. Attempts, retried : BOOLEAN]]
    BY <1>2, SendStep DEF BranchStep
  <2> QED BY <1>2, <2>1 DEF ParallelTypeOK, Send, session, call, server
<1>3. ASSUME NEW b \in BranchIds, Executed(b) PROVE ParallelTypeOK'
  <2>1. /\ durable' \in SUBSET Statement /\ conn' = conn
        /\ work' \in [AttemptIds -> SUBSET Statement]
    BY <1>3, ExecuteType DEF Executed, Results
  <2>2. CASE branch[b].on = Pool
    <3>1. branch' \in [BranchIds -> [stage : Stages, number : 1 .. Statements,
                                    on : 0 .. Attempts, retried : BOOLEAN]]
      BY <1>3, <2>2, ExecutedOnPoolStep DEF Executed, BranchStep
    <3> QED BY <1>3, <2>1, <2>2, <3>1 DEF ParallelTypeOK, Executed, session, call
  <2>3. CASE branch[b].on # Pool
    <3>1. LogQuery(b) /\ UNCHANGED call
      BY <1>3, <2>3 DEF Executed
    <3> QED BY <2>1, <3>1, LogType DEF ParallelTypeOK, call
  <2> QED BY <2>2, <2>3
<1>4. ASSUME NEW b \in BranchIds, Closed(b) PROVE ParallelTypeOK'
  <2>1. LogQuery(b) /\ UNCHANGED <<call, server>>
    BY <1>4 DEF Closed
  <2> QED BY <2>1, LogType DEF ParallelTypeOK, call, server
<1>5. ASSUME NEW b \in BranchIds, NEW err \in Errors, Failed(b, err) PROVE ParallelTypeOK'
  <2>1. /\ durable' \in SUBSET Statement /\ conn' = conn
        /\ work' \in [AttemptIds -> SUBSET Statement]
    BY <1>5, ExecuteType DEF Failed, Results
  <2>2. /\ branch' \in [BranchIds -> [stage : Stages, number : 1 .. Statements,
                                     on : 0 .. Attempts, retried : BOOLEAN]]
        /\ raised' \in {raised, err}
    BY <1>5, FailedStep DEF BranchStep
  <2>3. UNCHANGED <<session, phase, attempt, outcome, inTime, together>>
    BY <1>5 DEF Failed
  <2> QED BY <2>1, <2>2, <2>3 DEF ParallelTypeOK, session
<1>6. CASE CallbackRejects
  <2>1. Resolved \subseteq Statement
    BY DEF Resolved
  <2> QED BY <1>6, <2>1 DEF CallbackRejects, ParallelTypeOK, session, server
<1>7. ASSUME NEW res \in Results, RolledBack(res) PROVE ParallelTypeOK'
  <2>1. /\ attempt' \in AttemptIds /\ phase' \in {"begin", "settled"}
        /\ outcome' \in {"open", "returned", "threw", "unknown"}
    BY <1>7, LoopType DEF RolledBack
  <2>2. /\ conn' \in [AttemptIds -> {"none", "live", "dead", "closed", "gone"}]
        /\ work' \in [AttemptIds -> SUBSET Statement]
        /\ transactions' \in {0, 1} /\ afterCommit' \in SUBSET [level : {1}, query : Statement]
    BY <1>7 DEF RolledBack, ParallelTypeOK
  <2> QED BY <1>7, <2>1, <2>2 DEF RolledBack, ParallelTypeOK
<1>8. CASE CallbackReturns
  BY <1>8 DEF CallbackReturns, ParallelTypeOK, session, server
<1>9. ASSUME NEW res \in Results, Committed(res) PROVE ParallelTypeOK'
  <2>1. /\ attempt' \in AttemptIds /\ phase' \in {"begin", "settled"}
        /\ outcome' \in {"open", "returned", "threw", "unknown"}
    BY <1>9, LoopType DEF Committed
  <2>2. /\ conn' \in [AttemptIds -> {"none", "live", "dead", "closed", "gone"}]
        /\ work' \in [AttemptIds -> SUBSET Statement]
        /\ durable' \in SUBSET Statement
    BY <1>9 DEF Committed, ParallelTypeOK
  <2>3. announced' \in SUBSET Statement
    BY <1>9 DEF Committed, FireAfterCommit, ParallelTypeOK
  <2> QED BY <1>9, <2>1, <2>2, <2>3 DEF Committed, ParallelTypeOK
<1>10. CASE LoseConnection
  BY <1>10 DEF LoseConnection, ParallelTypeOK, session, call
<1>11. CASE UNCHANGED vars
  BY <1>11 DEF ParallelTypeOK, vars, session, call, server
<1> QED BY <1>1, <1>2, <1>3, <1>4, <1>5, <1>6, <1>7, <1>8, <1>9, <1>10, <1>11, Places
        DEF Next, Rest

(* The call, its branches and the server stay in the states the code has.        *)
THEOREM ParallelTypeCorrect == Spec => []ParallelTypeOK
<1>1. Init => ParallelTypeOK
  BY InitType
<1>2. ParallelTypeOK /\ [Next]_vars => ParallelTypeOK'
  BY StepType
<1> QED BY <1>1, <1>2, PTL DEF Spec

-------------------------------------------------------------------------------
(* A step of a branch keeps the invariant.                                      *)

(* A branch that is not awaited now belongs to an earlier attempt.               *)
LEMMA OldBranch ==
  ASSUME ParallelInv, NEW b \in BranchIds, Active(b), ~(Open /\ b \in Mine), phase # "settled"
  PROVE  b[1] < attempt
<1>1. b[2] \in together /\ (b[1] < attempt \/ (b[1] = attempt /\ phase # "begin"))
  BY DEF ParallelInv, BranchInv, BranchOK, Active
<1>2. b \in Mine <=> b[1] = attempt /\ b[2] \in together
  BY Places DEF ParallelInv
<1>3. phase # "begin" => Open
  BY DEF ParallelInv, ParallelTypeOK, Open
<1> QED BY <1>1, <1>2, <1>3

(* The other branches do not notice.                                            *)
LEMMA OthersKept ==
  ASSUME ParallelInv, NEW b \in BranchIds, NEW c \in BranchIds, c # b, branch'[c] = branch[c],
         UNCHANGED <<phase, attempt, together>>, durable \subseteq durable'
  PROVE  BranchOK(c)'
BY DEF ParallelInv, BranchInv, BranchOK, StatementOf, Open, Mine

(* A statement that is not settled has no past.                                 *)
LEMMA NotPast ==
  ASSUME ParallelTypeOK, NEW b \in BranchIds, branch[b].stage # "done"
  PROVE  ~Past(StatementOf(b))
<1>1. /\ StatementOf(b)[1] = b[1] /\ StatementOf(b)[2] = b[2]
      /\ StatementOf(b)[3] = branch[b].number /\ branch[b].number \in Nat
      /\ b = <<b[1], b[2]>>
  BY BranchType
<1> QED BY <1>1 DEF Past

LEMMA SendKeeps ==
  ASSUME ParallelInv, ParallelTypeOK', NEW b \in BranchIds, Send(b)
  PROVE  ParallelInv'
<1> USE DEF ParallelInv
<1>1. /\ BranchStep(b, "sent", branch[b].number, IF Level > 0 THEN attempt ELSE Pool)
      /\ branch[b].stage = "running"
      /\ UNCHANGED <<transactions, afterCommit, announced, phase, attempt, raised, outcome,
                     inTime, together, conn, work, durable>>
  BY SendStep DEF Send, session, call, server
<1>2. \A s \in Statement : Past(s)' <=> Past(s)
  BY <1>1, PastKept
<1>3. PhaseInv'
  BY <1>1 DEF PhaseInv, Open
<1>4. BranchInv'
  <2>1. ASSUME NEW c \in BranchIds PROVE BranchOK(c)'
    <3>1. CASE c = b
      <4>1. Open => branch'[b].on = attempt
        BY <1>1 DEF BranchStep, PhaseInv, Level
      <4>2. /\ branch'[b].stage = "sent"
            /\ b[2] \in together /\ (b[1] < attempt \/ (b[1] = attempt /\ phase # "begin"))
        BY <1>1 DEF BranchStep, BranchInv, BranchOK
      <4> QED BY <1>1, <3>1, <4>1, <4>2 DEF BranchOK, Open, Mine
    <3>2. CASE c # b
      BY <1>1, <3>2, OthersKept DEF BranchStep
    <3> QED BY <3>1, <3>2
  <2>2. (phase = "commit" => \A c \in Mine : branch[c].stage = "done")'
    BY <1>1, Places DEF BranchStep, BranchInv, Mine
  <2> QED BY <2>1, <2>2 DEF BranchInv
<1>5. EventInv'
  BY <1>1, <1>2 DEF EventInv
<1>6. ParallelAnnouncedIsDurable' /\ ParallelReturned'
  BY <1>1 DEF ParallelAnnouncedIsDurable, ParallelReturned
<1>7. EscapeInv'
  BY <1>1, <1>2 DEF EscapeInv, ParallelTypeOK
<1>8. SequentialInv'
  <2>1. \A c \in BranchIds : Active(c)' => Active(c)
    BY <1>1 DEF BranchStep, Active
  <2> QED BY <1>1, <2>1 DEF SequentialInv, Mine
<1> QED BY <1>3, <1>4, <1>5, <1>6, <1>7, <1>8

(* A statement of the pool succeeds, and belongs to an earlier attempt or to a    *)
(* call that settled.                                                           *)
LEMMA ExecutedOnPoolKeeps ==
  ASSUME ParallelInv, ParallelTypeOK', NEW b \in BranchIds, Executed(b), branch[b].on = Pool
  PROVE  ParallelInv'
<1> USE DEF ParallelInv
<1>1. /\ BranchStep(b, "executed", branch[b].number, branch[b].on)
      /\ branch[b].stage = "sent" /\ durable' = durable \union {StatementOf(b)}
      /\ UNCHANGED <<transactions, afterCommit, announced, phase, attempt, raised, outcome,
                     inTime, together, conn, work>>
  BY ExecutedOnPoolStep DEF Executed, Execute, session, call
<1>2. \A s \in Statement : Past(s)' <=> Past(s)
  BY <1>1, PastKept
<1>3. ~(Open /\ b \in Mine)
  <2>1. attempt # Pool
    BY Places DEF Pool
  <2> QED BY <1>1, <2>1 DEF BranchInv, BranchOK
<1>4. PhaseInv'
  BY <1>1 DEF PhaseInv, Open
<1>5. BranchInv'
  <2>1. ASSUME NEW c \in BranchIds PROVE BranchOK(c)'
    <3>1. CASE c = b
      <4>1. /\ branch'[b].stage = "executed" /\ StatementOf(b)' \in durable'
            /\ b[2] \in together /\ (b[1] < attempt \/ (b[1] = attempt /\ phase # "begin"))
        BY <1>1 DEF BranchStep, BranchInv, BranchOK, StatementOf
      <4> QED BY <1>1, <1>3, <3>1, <4>1 DEF BranchOK, Open, Mine
    <3>2. CASE c # b
      BY <1>1, <3>2, OthersKept DEF BranchStep
    <3> QED BY <3>1, <3>2
  <2>2. (phase = "commit" => \A c \in Mine : branch[c].stage = "done")'
    BY <1>1, Places DEF BranchStep, BranchInv, Mine
  <2> QED BY <2>1, <2>2 DEF BranchInv
<1>6. EventInv'
  BY <1>1, <1>2 DEF EventInv
<1>7. ParallelAnnouncedIsDurable' /\ ParallelReturned'
  BY <1>1 DEF ParallelAnnouncedIsDurable, ParallelReturned
<1>8. EscapeInv'
  <2>1. phase # "settled" => StatementOf(b)[1] < attempt
    BY <1>1, <1>3, OldBranch, BranchType DEF Active
  <2>2. StatementOf(b) \notin inTime
    BY <1>1, NotPast DEF EscapeInv
  <2> QED BY <1>1, <1>2, <2>1, <2>2 DEF EscapeInv, ParallelTypeOK
<1>9. SequentialInv'
  BY <1>1, <1>3 DEF SequentialInv, Active, Open
<1> QED BY <1>4, <1>5, <1>6, <1>7, <1>8, <1>9

(* A statement of the transaction succeeds: that transaction is the one of the    *)
(* attempt in progress, whichever attempt the branch belongs to.                 *)
LEMMA ExecutedInTransactionKeeps ==
  ASSUME ParallelInv, ParallelTypeOK', NEW b \in BranchIds, Executed(b), branch[b].on # Pool
  PROVE  ParallelInv'
<1> USE DEF ParallelInv
<1> DEFINE s == StatementOf(b)
<1>1. /\ LogQuery(b) /\ branch[b].stage = "sent" /\ conn[branch[b].on] = "live"
      /\ work' = [work EXCEPT ![branch[b].on] = work[branch[b].on] \union {s}]
      /\ UNCHANGED <<phase, attempt, raised, outcome, inTime, together, conn, durable>>
  BY DEF Executed, Execute, Results, Errors, call
<1>2. branch[b].on = attempt /\ Open /\ attempt \in AttemptIds
  <2>1. branch[b].on \in AttemptIds
    BY BranchType, Places DEF AttemptIds, Pool
  <2> QED BY <1>1, <2>1, Places DEF PhaseInv, AttemptIds
<1>3. /\ transactions = 1 /\ UNCHANGED <<transactions, announced>>
      /\ afterCommit' = afterCommit \union {[level |-> 1, query |-> s]}
  BY <1>1, <1>2 DEF PhaseInv, LogQuery, Level
<1>4. \A t \in Statement : Past(t)' <=> Past(t) \/ t = s
  BY <1>1, PastLogged
<1>5. s \in work'[attempt] /\ \A c \in AttemptIds : c # attempt => work'[c] = work[c]
  BY <1>1, <1>2 DEF ParallelTypeOK
<1>6. \A t : t \in work'[attempt] <=> t \in work[attempt] \/ t = s
  BY <1>1, <1>2 DEF ParallelTypeOK
<1>7. /\ \A c \in BranchIds : c # b => branch'[c] = branch[c]
      /\ branch'[b].stage \in {"running", "done"}
      /\ branch'[b].stage = "done" => branch'[b].number = Statements
  BY <1>1, LoggedStep DEF BranchStep
<1> HIDE DEF s
<1>8. PhaseInv'
  BY <1>1, <1>2, <1>3, <1>5 DEF PhaseInv, Open
<1>9. BranchInv'
  <2>1. ASSUME NEW c \in BranchIds PROVE BranchOK(c)'
    <3>1. CASE c = b
      <4>1. b[2] \in together /\ (b[1] < attempt \/ (b[1] = attempt /\ phase # "begin"))
        BY <1>1 DEF BranchInv, BranchOK
      <4> QED BY <1>1, <1>7, <3>1, <4>1 DEF BranchOK
    <3>2. CASE c # b
      BY <1>1, <1>7, <3>2, OthersKept
    <3> QED BY <3>1, <3>2
  <2>2. (phase = "commit" => \A c \in Mine : branch[c].stage = "done")'
    BY <1>1, <1>7, Places DEF BranchInv, Mine
  <2> QED BY <2>1, <2>2 DEF BranchInv
<1>10. EventInv'
  BY <1>1, <1>3, <1>4, <1>6 DEF EventInv
<1>11. ParallelAnnouncedIsDurable' /\ ParallelReturned'
  BY <1>1, <1>3 DEF ParallelAnnouncedIsDurable, ParallelReturned
<1>12. EscapeInv'
  <2>1. s \notin inTime
    BY <1>1, NotPast DEF EscapeInv, s
  <2> QED BY <1>1, <1>4, <1>5, <1>6, <2>1 DEF EscapeInv, ParallelTypeOK
<1>13. SequentialInv'
  <2>1. Active(b) /\ \A c \in BranchIds : Active(c)' => Active(c)
    BY <1>1, <1>7 DEF Active
  <2>2. s[1] = b[1]
    BY BranchType DEF s
  <2>3. b \in Mine => b[1] = attempt
    BY Places
  <2> QED BY <1>1, <1>2, <1>5, <1>6, <2>1, <2>2, <2>3 DEF SequentialInv, Mine
<1> QED BY <1>8, <1>9, <1>10, <1>11, <1>12, <1>13

(* A statement of the pool is logged once its connection is closed: its effect    *)
(* is durable, whatever the level is by then.                                   *)
LEMMA ClosedKeeps ==
  ASSUME ParallelInv, ParallelTypeOK', NEW b \in BranchIds, Closed(b)
  PROVE  ParallelInv'
<1> USE DEF ParallelInv
<1> DEFINE s == StatementOf(b)
<1>1. /\ LogQuery(b) /\ branch[b].stage = "executed" /\ s \in durable /\ s \in Statement
      /\ UNCHANGED <<transactions, phase, attempt, raised, outcome, inTime, together,
                     conn, work, durable>>
  BY BranchType DEF Closed, LogQuery, call, server, BranchInv, BranchOK
<1>2. /\ afterCommit' \in {afterCommit, afterCommit \union {[level |-> Level, query |-> s]}}
      /\ Level = 0 => afterCommit' = afterCommit
      /\ announced' \in {announced, announced \union {s}}
  BY <1>1 DEF LogQuery, Level, ParallelTypeOK
<1>3. \A t \in Statement : Past(t)' <=> Past(t) \/ t = s
  BY <1>1, PastLogged
<1>4. /\ \A c \in BranchIds : c # b => branch'[c] = branch[c]
      /\ branch'[b].stage \in {"running", "done"}
      /\ branch'[b].stage = "done" => branch'[b].number = Statements
  BY <1>1, LoggedStep DEF BranchStep
<1>5. ~(Open /\ b \in Mine)
  BY <1>1 DEF BranchInv, BranchOK
<1>6. s[1] = b[1] /\ s[2] = b[2]
  BY BranchType
<1> HIDE DEF s
<1>7. PhaseInv'
  BY <1>1, <1>2 DEF PhaseInv, Open, Level
<1>8. BranchInv'
  <2>1. ASSUME NEW c \in BranchIds PROVE BranchOK(c)'
    <3>1. CASE c = b
      <4>1. b[2] \in together /\ (b[1] < attempt \/ (b[1] = attempt /\ phase # "begin"))
        BY <1>1 DEF BranchInv, BranchOK
      <4> QED BY <1>1, <1>4, <3>1, <4>1 DEF BranchOK
    <3>2. CASE c # b
      BY <1>1, <1>4, <3>2, OthersKept
    <3> QED BY <3>1, <3>2
  <2>2. (phase = "commit" => \A c \in Mine : branch[c].stage = "done")'
    BY <1>1, <1>4, Places DEF BranchInv, Mine
  <2> QED BY <2>1, <2>2 DEF BranchInv
<1>9. EventInv'
  <2>1. ASSUME NEW e \in afterCommit'
        PROVE  (e.query \in durable \/ (conn[attempt] = "live" => e.query \in work[attempt]))'
    BY <1>1, <1>2, <2>1 DEF EventInv
  <2>2. phase \in {"callback", "commit"} => ~(s[1] = attempt /\ s[2] \in together)
    BY <1>5, <1>6, Places DEF Open
  <2> QED BY <1>1, <1>2, <1>3, <2>1, <2>2 DEF EventInv
<1>10. ParallelAnnouncedIsDurable' /\ ParallelReturned'
  BY <1>1, <1>2 DEF ParallelAnnouncedIsDurable, ParallelReturned
<1>11. EscapeInv'
  BY <1>1, <1>3 DEF EscapeInv, ParallelTypeOK
<1>12. SequentialInv'
  BY <1>1, <1>5 DEF SequentialInv, Active, Open
<1> QED BY <1>7, <1>8, <1>9, <1>10, <1>11, <1>12

(* With one branch, two branches of one attempt are the same.                   *)
LEMMA OneBranch ==
  ASSUME ParallelTypeOK, Cardinality(together) = 1,
         NEW b \in BranchIds, NEW c \in BranchIds, b \in Mine, c \in Mine
  PROVE  b = c
<1>1. IsFiniteSet(together)
  BY FS_Subset, ParallelAssumption DEF ParallelTypeOK
<1>2. \E x : together = {x}
  BY <1>1, FS_Singleton
<1>3. /\ b = <<b[1], b[2]>> /\ c = <<c[1], c[2]>> /\ b[1] = c[1]
      /\ b[2] \in together /\ c[2] \in together
  BY BranchType, Places
<1>4. b[2] = c[2]
  BY <1>2, <1>3
<1> QED BY <1>3, <1>4

(* A statement fails: it is tried again on the pool, or its branch rejects.      *)
LEMMA FailedKeeps ==
  ASSUME ParallelInv, ParallelTypeOK', NEW b \in BranchIds, NEW err \in Errors, Failed(b, err)
  PROVE  ParallelInv'
<1> USE DEF ParallelInv
<1> DEFINE s == StatementOf(b)
<1>1. /\ branch[b].stage = "sent" /\ conn' = conn /\ work' = work
      /\ durable' = durable \/ (durable' = durable \union {s} /\ branch[b].on = Pool)
      /\ UNCHANGED <<transactions, afterCommit, announced, phase, attempt, outcome, inTime, together>>
  BY DEF Failed, Execute, server, session, Errors
<1>2. \/ BranchStep(b, "sent", branch[b].number, Pool) /\ Level = 0 /\ raised' = raised
      \/ BranchStep(b, "rejected", branch[b].number, branch[b].on)
         /\ raised' = IF phase = "callback" /\ b \in Mine /\ raised = "none" THEN err ELSE raised
  BY FailedStep
<1>3. \A t \in Statement : Past(t)' <=> Past(t)
  BY <1>1, <1>2, PastKept
<1>4. Open /\ b \in Mine => durable' = durable
  <2>1. attempt # Pool
    BY Places DEF Pool
  <2> QED BY <1>1, <2>1 DEF BranchInv, BranchOK
<1>5. s \notin inTime /\ (durable' # durable /\ phase # "settled" => s[1] < attempt)
  <2>1. s \notin inTime
    BY <1>1, NotPast DEF EscapeInv
  <2> QED BY <1>1, <1>4, <2>1, OldBranch, BranchType DEF Active
<1> HIDE DEF s
<1>6. PhaseInv'
  BY <1>1 DEF PhaseInv, Open
<1>7. BranchInv'
  <2>1. ASSUME NEW c \in BranchIds PROVE BranchOK(c)'
    <3>1. CASE c = b
      <4>1. b[2] \in together /\ (b[1] < attempt \/ (b[1] = attempt /\ phase # "begin"))
        BY <1>1 DEF BranchInv, BranchOK
      <4>2. \/ branch'[b].stage = "sent" /\ ~Open
            \/ branch'[b].stage = "rejected"
        BY <1>2 DEF BranchStep, PhaseInv, Level
      <4> QED BY <1>1, <3>1, <4>1, <4>2 DEF BranchOK, Open
    <3>2. CASE c # b
      BY <1>1, <1>2, <3>2, OthersKept DEF BranchStep
    <3> QED BY <3>1, <3>2
  <2>2. (phase = "commit" => \A c \in Mine : branch[c].stage = "done")'
    BY <1>1, <1>2, Places DEF BranchStep, BranchInv, Mine
  <2> QED BY <2>1, <2>2 DEF BranchInv
<1>8. EventInv'
  BY <1>1, <1>3 DEF EventInv
<1>9. ParallelAnnouncedIsDurable' /\ ParallelReturned'
  BY <1>1 DEF ParallelAnnouncedIsDurable, ParallelReturned
<1>10. EscapeInv'
  BY <1>1, <1>3, <1>5 DEF EscapeInv, ParallelTypeOK
<1>11. SequentialInv'
  <2> SUFFICES ASSUME Cardinality(together) = 1
               PROVE  /\ \A c \in BranchIds : ~Active(c)'
                      /\ durable' = durable
    BY <1>1 DEF SequentialInv
  <2>1. b \in Mine /\ phase = "callback" /\ raised = "none"
    BY <1>1 DEF SequentialInv, Active
  <2>2. BranchStep(b, "rejected", branch[b].number, branch[b].on) /\ durable' = durable
    BY <1>2, <1>4, <2>1 DEF PhaseInv, Level, Open
  <2>3. ASSUME NEW c \in BranchIds, Active(c)' PROVE FALSE
    <3>1. c # b /\ Active(c)
      BY <2>2, <2>3 DEF BranchStep, Active
    <3>2. c \in Mine
      BY <3>1 DEF SequentialInv
    <3> QED BY <2>1, <3>1, <3>2, OneBranch
  <2> QED BY <2>2, <2>3
<1> QED BY <1>6, <1>7, <1>8, <1>9, <1>10, <1>11

-------------------------------------------------------------------------------
(* A step of the call keeps the invariant.                                      *)

(* While the invariant holds, no branch runs outside the callback when there is   *)
(* one branch, and only the attempt in progress holds work.                      *)
LEMMA WorkOfAttempt ==
  ASSUME ParallelInv, NEW c \in AttemptIds, work[c] # {}
  PROVE  c = attempt /\ Open /\ conn[c] = "live"
BY DEF ParallelInv, PhaseInv

LEMMA BeginKeeps ==
  ASSUME ParallelInv, ParallelTypeOK', NEW res \in Results, Begin(res)
  PROVE  ParallelInv'
<1> USE DEF ParallelInv
<1>1. /\ phase = "begin" /\ transactions = 0 /\ afterCommit = {} /\ raised' = "none"
      /\ UNCHANGED <<attempt, afterCommit, announced, inTime, together, work, durable>>
  BY DEF Begin, Settle, Level, PhaseInv
<1>2. \A b \in Mine : branch[b].stage = "waiting" /\ branch[b].number = 1
  BY <1>1, Places DEF BranchInv, BranchOK
<1>3. \A c \in BranchIds : branch[c].stage # "waiting" => c[1] < attempt /\ c[2] \in together
  BY <1>1 DEF BranchInv, BranchOK
<1>4. \A c \in AttemptIds : work[c] = {}
  BY <1>1, WorkOfAttempt DEF Open
<1>5. CASE res = "ok"
  <2>1. /\ transactions' = 1 /\ phase' = "callback" /\ outcome' = outcome
        /\ conn' = [conn EXCEPT ![attempt] = "live"]
    BY <1>5 DEF Begin, Level
  <2>2. \A b \in BranchIds :
           /\ branch'[b].number = branch[b].number
           /\ branch'[b].stage = IF b \in Mine THEN "running" ELSE branch[b].stage
    BY <1>5, StartedBranches
  <2>3. PhaseInv'
    BY <1>1, <1>4, <2>1 DEF PhaseInv, Open, ParallelTypeOK
  <2>4. BranchInv'
    <3>1. ASSUME NEW b \in BranchIds PROVE BranchOK(b)'
      <4>1. CASE b \in Mine
        BY <1>1, <2>1, <2>2, <4>1, Places DEF BranchOK
      <4>2. CASE b \notin Mine
        BY <1>1, <1>3, <2>1, <2>2, <4>2 DEF BranchOK, BranchInv, StatementOf, Mine
      <4> QED BY <4>1, <4>2
    <3> QED BY <2>1, <3>1 DEF BranchInv
  <2>5. \A s \in Statement : Past(s) => s[1] < attempt
    <3> SUFFICES ASSUME NEW s \in Statement, Past(s) PROVE s[1] < attempt
      OBVIOUS
    <3>1. <<s[1], s[2]>> \in BranchIds /\ s[3] \in Nat /\ s[3] >= 1 /\ <<s[1], s[2]>>[1] = s[1]
      BY StatementType
    <3>2. branch[<<s[1], s[2]>>].stage # "waiting"
      BY <3>1 DEF Past, BranchInv, BranchOK
    <3> QED BY <1>3, <3>1, <3>2
  <2>6. \A s \in Statement : s[1] # attempt \/ s[2] \notin together => (Past(s)' <=> Past(s))
    <3> SUFFICES ASSUME NEW s \in Statement, s[1] # attempt \/ s[2] \notin together
                 PROVE  Past(s)' <=> Past(s)
      OBVIOUS
    <3>1. <<s[1], s[2]>> \in BranchIds /\ <<s[1], s[2]>> \notin Mine
      BY StatementType DEF Mine
    <3> QED BY <2>2, <3>1 DEF Past
  <2>7. \A s \in Statement : s[1] = attempt /\ s[2] \in together => ~Past(s)'
    <3> SUFFICES ASSUME NEW s \in Statement, s[1] = attempt, s[2] \in together
                 PROVE  ~Past(s)'
      OBVIOUS
    <3>1. <<s[1], s[2]>> \in BranchIds /\ <<s[1], s[2]>> \in Mine /\ s[3] \in Nat /\ s[3] >= 1
      BY StatementType DEF Mine
    <3>2. branch'[<<s[1], s[2]>>].number = 1 /\ branch'[<<s[1], s[2]>>].stage = "running"
      BY <1>2, <2>2, <3>1
    <3> QED BY <3>1, <3>2 DEF Past
  <2>8. EventInv'
    BY <1>1, <2>7 DEF EventInv
  <2>9. ParallelAnnouncedIsDurable' /\ ParallelReturned'
    BY <1>1, <2>1 DEF ParallelAnnouncedIsDurable, ParallelReturned
  <2>10. EscapeInv'
    <3>1. \A s \in inTime : Past(s)'
      <4> SUFFICES ASSUME NEW s \in inTime PROVE Past(s)'
        OBVIOUS
      <4>1. s \in Statement /\ Past(s)
        BY DEF EscapeInv, ParallelTypeOK
      <4>2. s[1] # attempt
        BY <2>5, <4>1, Places, StatementType
      <4> QED BY <2>6, <4>1, <4>2
    <3> QED BY <1>1, <1>4, <3>1 DEF EscapeInv
  <2>11. SequentialInv'
    <3>1. Cardinality(together) = 1 => \A c \in BranchIds : Active(c)' => c \in Mine
      BY <1>1, <2>2 DEF SequentialInv, Active
    <3> QED BY <1>1, <1>4, <2>1, <3>1 DEF SequentialInv, Mine
  <2> QED BY <2>3, <2>4, <2>8, <2>9, <2>10, <2>11
<1>6. CASE res # "ok"
  <2>1. phase' = "settled" /\ outcome' = "threw" /\ UNCHANGED <<conn, transactions, branch>>
    BY <1>6 DEF Begin, Settle
  <2>2. PhaseInv'
    BY <1>1, <1>4, <2>1 DEF PhaseInv, Open
  <2>3. BranchInv'
    BY <1>1, <1>3, <2>1 DEF BranchInv, BranchOK, StatementOf, Open
  <2>4. EventInv' /\ ParallelAnnouncedIsDurable' /\ ParallelReturned'
    BY <1>1, <2>1 DEF EventInv, ParallelAnnouncedIsDurable, ParallelReturned
  <2>5. EscapeInv'
    BY <1>1, <1>4, <2>1 DEF EscapeInv, Past
  <2>6. SequentialInv'
    BY <1>1, <1>4, <2>1 DEF SequentialInv, Active
  <2> QED BY <2>2, <2>3, <2>4, <2>5, <2>6
<1> QED BY <1>5, <1>6

LEMMA CallbackRejectsKeeps ==
  ASSUME ParallelInv, ParallelTypeOK', CallbackRejects
  PROVE  ParallelInv'
<1> USE DEF ParallelInv
<1>1. /\ phase = "callback" /\ phase' = "rollback" /\ raised # "none"
      /\ inTime' = inTime \union Resolved
      /\ UNCHANGED <<transactions, afterCommit, announced, attempt, raised, outcome, together,
                     branch, conn, work, durable>>
  BY DEF CallbackRejects, session, server
<1>2. PhaseInv'
  BY <1>1 DEF PhaseInv, Open
<1>3. BranchInv'
  BY <1>1 DEF BranchInv, BranchOK, StatementOf, Open, Mine
<1>4. EventInv' /\ ParallelAnnouncedIsDurable' /\ ParallelReturned'
  BY <1>1 DEF EventInv, ParallelAnnouncedIsDurable, ParallelReturned
<1>5. EscapeInv'
  <2>1. \A s \in Resolved : s \notin durable /\ Past(s)
    <3> SUFFICES ASSUME NEW s \in Resolved PROVE s \notin durable /\ Past(s)
      OBVIOUS
    <3>1. s[1] = attempt /\ Past(s)
      BY DEF Resolved, Past
    <3>2. s \in durable => s[1] < attempt
      BY <1>1 DEF EscapeInv
    <3> QED BY <3>1, <3>2, Places
  <2>2. \A c \in AttemptIds : work[c] # {} => c = attempt
    BY WorkOfAttempt
  <2>3. \A s : Past(s)' <=> Past(s)
    BY <1>1 DEF Past
  <2> QED BY <1>1, <2>1, <2>2, <2>3 DEF EscapeInv
<1>6. SequentialInv'
  BY <1>1 DEF SequentialInv, Active
<1> QED BY <1>2, <1>3, <1>4, <1>5, <1>6

LEMMA CallbackReturnsKeeps ==
  ASSUME ParallelInv, ParallelTypeOK', CallbackReturns
  PROVE  ParallelInv'
<1> USE DEF ParallelInv
<1>1. /\ phase = "callback" /\ phase' = "commit" /\ raised = "none"
      /\ \A b \in Mine : branch[b].stage = "done"
      /\ UNCHANGED <<transactions, afterCommit, announced, attempt, raised, outcome, inTime,
                     together, branch, conn, work, durable>>
  BY DEF CallbackReturns, session, server
<1>2. PhaseInv'
  BY <1>1 DEF PhaseInv, Open
<1>3. BranchInv'
  BY <1>1 DEF BranchInv, BranchOK, StatementOf, Open, Mine
<1>4. EventInv' /\ ParallelAnnouncedIsDurable' /\ ParallelReturned'
  BY <1>1 DEF EventInv, ParallelAnnouncedIsDurable, ParallelReturned, Past
<1>5. EscapeInv'
  BY <1>1 DEF EscapeInv, Past
<1>6. SequentialInv'
  BY <1>1 DEF SequentialInv, Active
<1> QED BY <1>2, <1>3, <1>4, <1>5, <1>6

LEMMA LoseConnectionKeeps ==
  ASSUME ParallelInv, ParallelTypeOK', LoseConnection
  PROVE  ParallelInv'
<1> USE DEF ParallelInv
<1>1. /\ conn[attempt] = "live" /\ conn' = [conn EXCEPT ![attempt] = "dead"]
      /\ work' = [work EXCEPT ![attempt] = {}]
      /\ UNCHANGED <<transactions, afterCommit, announced, phase, attempt, raised, outcome,
                     inTime, together, branch, durable>>
  BY DEF LoseConnection, session, call
<1>2. Open /\ conn'[attempt] = "dead" /\ work'[attempt] = {}
      /\ \A c \in AttemptIds : c # attempt => conn'[c] = conn[c] /\ work'[c] = work[c]
  BY <1>1 DEF PhaseInv, ParallelTypeOK
<1>3. PhaseInv'
  BY <1>1, <1>2 DEF PhaseInv, Open
<1>4. BranchInv'
  BY <1>1 DEF BranchInv, BranchOK, StatementOf, Open, Mine
<1>5. EventInv' /\ ParallelAnnouncedIsDurable' /\ ParallelReturned'
  BY <1>1, <1>2 DEF EventInv, ParallelAnnouncedIsDurable, ParallelReturned, Past
<1>6. EscapeInv'
  BY <1>1, <1>2 DEF EscapeInv, Past
<1>7. SequentialInv'
  BY <1>1, <1>2 DEF SequentialInv, Active, Mine
<1> QED BY <1>3, <1>4, <1>5, <1>6, <1>7

(* What settles or restarts the call leaves its branches to an earlier attempt,   *)
(* or to nobody.                                                                *)
LEMMA BranchesLeft ==
  ASSUME ParallelInv, Open, durable \subseteq durable',
         UNCHANGED <<together, branch>>,
         \/ phase' = "settled" /\ attempt' = attempt
         \/ phase' = "begin" /\ attempt' = attempt + 1
  PROVE  BranchInv'
<1> USE DEF ParallelInv
<1>1. ASSUME NEW b \in BranchIds PROVE BranchOK(b)'
  <2>1. BranchOK(b) /\ b[1] \in Nat /\ attempt \in Nat
    BY BranchType, Places DEF BranchInv
  <2>2. ~Open'
    BY DEF Open
  <2>3. branch[b].stage # "waiting" =>
          b[2] \in together /\ (b[1] < attempt' \/ (b[1] = attempt' /\ phase' # "begin"))
    BY <2>1 DEF BranchOK
  <2> QED BY <2>1, <2>2, <2>3 DEF BranchOK, StatementOf
<1> QED BY <1>1 DEF BranchInv

LEMMA RolledBackKeeps ==
  ASSUME ParallelInv, ParallelTypeOK', NEW res \in Results, RolledBack(res)
  PROVE  ParallelInv'
<1> USE DEF ParallelInv
<1>1. /\ phase = "rollback" /\ work' = [work EXCEPT ![attempt] = {}]
      /\ UNCHANGED <<announced, raised, inTime, together, branch, durable>>
      /\ conn' = [conn EXCEPT ![attempt] = "closed"] \/ conn' = [conn EXCEPT ![attempt] = "gone"]
  BY DEF RolledBack
<1>2. /\ conn'[attempt] \in {"closed", "gone"} /\ work'[attempt] = {}
      /\ \A c \in AttemptIds : c # attempt => conn'[c] = conn[c] /\ work'[c] = work[c]
      /\ Open /\ outcome = "open" /\ attempt \in Nat
  BY <1>1, Places DEF PhaseInv, ParallelTypeOK, Open
<1>3. \/ phase' = "settled" /\ outcome' = "threw" /\ attempt' = attempt
      \/ phase' = "begin" /\ outcome' = outcome /\ attempt' = attempt + 1
         /\ transactions' = 0 /\ afterCommit' = {}
  BY DEF RolledBack, Retry, Settle
<1>4. \/ transactions' = 0 /\ afterCommit' = {}
      \/ transactions' = 1 /\ phase' = "settled"
  BY <1>2, <1>3 DEF RolledBack, PhaseInv
<1>5. \A c \in AttemptIds : work'[c] = {}
  BY <1>2, WorkOfAttempt
<1>6. PhaseInv'
  BY <1>1, <1>2, <1>3, <1>4, <1>5 DEF PhaseInv, Open
<1>7. BranchInv'
  BY <1>1, <1>2, <1>3, BranchesLeft
<1>8. EventInv'
  BY <1>2, <1>3, <1>4 DEF EventInv
<1>9. ParallelAnnouncedIsDurable' /\ ParallelReturned'
  BY <1>1, <1>2, <1>3 DEF ParallelAnnouncedIsDurable, ParallelReturned
<1>10. EscapeInv'
  <2>1. \A s : Past(s)' <=> Past(s)
    BY <1>1 DEF Past
  <2>2. \A s \in durable : s[1] < attempt /\ s[1] \in Nat
    BY <1>1, StatementType DEF EscapeInv, ParallelTypeOK
  <2> QED BY <1>1, <1>2, <1>3, <1>5, <2>1, <2>2 DEF EscapeInv
<1>11. SequentialInv'
  BY <1>1, <1>5 DEF SequentialInv, Active
<1> QED BY <1>6, <1>7, <1>8, <1>9, <1>10, <1>11

LEMMA CommittedKeeps ==
  ASSUME ParallelInv, ParallelTypeOK', NEW res \in Results, Committed(res)
  PROVE  ParallelInv'
<1> USE DEF ParallelInv
<1>1. /\ phase = "commit" /\ work' = [work EXCEPT ![attempt] = {}]
      /\ conn' = [conn EXCEPT ![attempt] = IF res = "lost" THEN "gone" ELSE "closed"]
      /\ transactions' = 0 /\ afterCommit' = {}
      /\ UNCHANGED <<raised, inTime, together, branch>>
      /\ durable' \in {durable, durable \union work[attempt]}
  BY DEF Committed
<1>2. res = "ok" => conn[attempt] = "live" /\ durable' = durable \union work[attempt]
  BY DEF Committed
<1>3. res \in {"concurrency", "generic"} => durable' = durable
  BY DEF Committed
<1>4. announced' = IF res = "ok" THEN announced \union {e.query : e \in afterCommit} ELSE announced
  BY DEF Committed, FireAfterCommit
<1>5. /\ conn'[attempt] \in {"closed", "gone"} /\ work'[attempt] = {}
      /\ \A c \in AttemptIds : c # attempt => conn'[c] = conn[c] /\ work'[c] = work[c]
      /\ Open /\ outcome = "open" /\ attempt \in Nat
  BY <1>1, Places DEF PhaseInv, ParallelTypeOK, Open
<1>6. \/ phase' = "settled" /\ attempt' = attempt
         /\ (outcome' = "returned" <=> res = "ok")
         /\ outcome' \in {"returned", "threw", "unknown"}
         /\ (outcome' = "threw" => res \in {"concurrency", "generic"})
      \/ phase' = "begin" /\ outcome' = outcome /\ attempt' = attempt + 1 /\ res = "concurrency"
  <2>1. CASE MayRetry(res)
    BY <2>1 DEF Committed, Retry, MayRetry
  <2>2. CASE ~MayRetry(res)
    <3>1. phase' = "settled" /\ attempt' = attempt
          /\ outcome' = CASE res = "ok" -> "returned" [] res = "lost" -> "unknown"
                          [] OTHER -> "threw"
      BY <2>2 DEF Committed, Settle
    <3>2. CASE res = "ok"
      BY <3>1, <3>2
    <3>3. CASE res = "lost"
      BY <3>1, <3>3
    <3>4. CASE res \in {"concurrency", "generic"}
      BY <3>1, <3>4
    <3> QED BY <3>2, <3>3, <3>4 DEF Results, Errors
  <2> QED BY <2>1, <2>2
<1>7. \A c \in AttemptIds : work'[c] = {}
  BY <1>5, WorkOfAttempt
<1>8. PhaseInv'
  BY <1>1, <1>5, <1>6, <1>7 DEF PhaseInv, Open
<1>9. BranchInv'
  <2>1. durable \subseteq durable'
    BY <1>1
  <2> QED BY <1>1, <1>5, <1>6, <2>1, BranchesLeft
<1>10. EventInv'
  BY <1>1, <1>6 DEF EventInv
<1>11. ParallelAnnouncedIsDurable'
  <2>1. res = "ok" => \A e \in afterCommit : e.query \in durable'
    BY <1>2 DEF EventInv
  <2> QED BY <1>1, <1>4, <2>1 DEF ParallelAnnouncedIsDurable
<1>12. ParallelReturned'
  <2> SUFFICES ASSUME outcome' = "returned", NEW s \in Statement, s[1] = attempt, s[2] \in together
               PROVE  s \in durable' /\ s \in announced'
    BY <1>1, <1>5, <1>6 DEF ParallelReturned
  <2>1. res = "ok"
    BY <1>5, <1>6
  <2>2. Past(s)
    <3>1. <<s[1], s[2]>> \in BranchIds /\ <<s[1], s[2]>> \in Mine
      BY StatementType DEF Mine
    <3>2. /\ branch[<<s[1], s[2]>>].stage = "done"
          /\ branch[<<s[1], s[2]>>].number = Statements
      BY <1>1, <3>1 DEF BranchInv, BranchOK
    <3>3. s[3] \in 1 .. Statements /\ Statements \in Nat
      BY StatementType, Places
    <3>4. Statements > s[3] \/ Statements = s[3]
      BY <3>3
    <3> QED BY <3>2, <3>4 DEF Past
  <2>3. [level |-> 1, query |-> s] \in afterCommit
    BY <1>1, <2>2 DEF EventInv
  <2>4. s \in announced'
    BY <1>4, <2>1, <2>3
  <2>5. s \in durable \/ s \in work[attempt]
    BY <1>2, <2>1, <2>3 DEF EventInv
  <2> QED BY <1>2, <2>1, <2>4, <2>5
<1>13. EscapeInv'
  <2>1. \A s : Past(s)' <=> Past(s)
    BY <1>1 DEF Past
  <2>2. \A s \in durable : s[1] < attempt /\ s[1] \in Nat
    BY <1>1, StatementType DEF EscapeInv, ParallelTypeOK
  <2>3. \A s \in inTime : s \notin durable /\ s \notin work[attempt] /\ Past(s)
    BY <1>1 DEF EscapeInv, ParallelTypeOK
  <2> QED BY <1>1, <1>3, <1>5, <1>6, <1>7, <2>1, <2>2, <2>3 DEF EscapeInv
<1>14. SequentialInv'
  <2> SUFFICES ASSUME Cardinality(together) = 1
               PROVE  /\ \A c \in BranchIds : ~Active(c)'
                      /\ phase' # "settled" \/ outcome' = "threw" => durable' = {}
                      /\ \A s \in durable' : s[1] = attempt'
    BY <1>1, <1>7 DEF SequentialInv
  <2>1. durable = {} /\ \A s \in work[attempt] : s[1] = attempt
    BY <1>1 DEF SequentialInv, ParallelTypeOK
  <2>2. \A c \in BranchIds : ~Active(c)'
    BY <1>1 DEF SequentialInv, Active
  <2> QED BY <1>1, <1>3, <1>6, <2>1, <2>2
<1> QED BY <1>8, <1>9, <1>10, <1>11, <1>12, <1>13, <1>14

-------------------------------------------------------------------------------
LEMMA InitHolds == Init => ParallelInv
<1> SUFFICES ASSUME Init PROVE ParallelInv
  OBVIOUS
<1>1. ParallelTypeOK
  BY InitType
<1>2. /\ transactions = 0 /\ afterCommit = {} /\ announced = {} /\ phase = "begin"
      /\ attempt = 1 /\ outcome = "open" /\ durable = {} /\ inTime = {}
      /\ \A b \in BranchIds : branch[b].stage = "waiting" /\ branch[b].number = 1
      /\ \A a \in AttemptIds : conn[a] = "none" /\ work[a] = {}
  BY DEF Init, BranchIds
<1>3. PhaseInv
  BY <1>2 DEF PhaseInv, Open
<1>4. BranchInv
  BY <1>2 DEF BranchInv, BranchOK, Open
<1>5. EventInv /\ ParallelAnnouncedIsDurable /\ ParallelReturned /\ EscapeInv
  BY <1>2 DEF EventInv, ParallelAnnouncedIsDurable, ParallelReturned, EscapeInv
<1>6. SequentialInv
  BY <1>2 DEF SequentialInv, Active
<1> QED BY <1>1, <1>3, <1>4, <1>5, <1>6 DEF ParallelInv

LEMMA StepHolds ==
  ASSUME ParallelInv, [Next]_vars
  PROVE  ParallelInv'
<1>1. ParallelTypeOK'
  BY StepType DEF ParallelInv
<1>2. ASSUME UNCHANGED vars PROVE ParallelInv'
  BY <1>2 DEF ParallelInv, ParallelTypeOK, PhaseInv, BranchInv, BranchOK, EventInv, EscapeInv,
              SequentialInv, ParallelAnnouncedIsDurable, ParallelReturned, Past, Active, Open,
              Mine, StatementOf, vars, session, call, server
<1>3. ASSUME NEW b \in BranchIds, Send(b) \/ Executed(b) \/ Closed(b) PROVE ParallelInv'
  BY <1>1, <1>3, SendKeeps, ExecutedOnPoolKeeps, ExecutedInTransactionKeeps, ClosedKeeps
<1>4. DOMAIN branch = BranchIds
  BY Places DEF ParallelInv
<1> QED BY <1>1, <1>2, <1>3, <1>4, BeginKeeps, FailedKeeps, CallbackRejectsKeeps, RolledBackKeeps,
           CallbackReturnsKeeps, CommittedKeeps, LoseConnectionKeeps
        DEF Next, Rest

(* The invariant of transaction() with a callback of several branches.           *)
THEOREM ParallelInvariant == Spec => []ParallelInv
<1>1. Init => ParallelInv
  BY InitHolds
<1>2. ParallelInv /\ [Next]_vars => ParallelInv'
  BY StepHolds
<1> QED BY <1>1, <1>2, PTL DEF Spec

(* logQuery announces a query with inTransaction = false only when its effect is  *)
(* durable, whatever the level was when the query was sent.                      *)
THEOREM AnnouncedHasEffect == Spec => []ParallelAnnouncedIsDurable
<1>1. ParallelInv => ParallelAnnouncedIsDurable
  BY DEF ParallelInv
<1> QED BY <1>1, ParallelInvariant, PTL

(* A transaction() that returned committed and announced every statement of its   *)
(* last attempt, whatever the branches of earlier attempts did meanwhile.        *)
THEOREM ReturnedIsComplete == Spec => []ParallelReturned
<1>1. ParallelInv => ParallelReturned
  BY DEF ParallelInv
<1> QED BY <1>1, ParallelInvariant, PTL

(* A statement whose promise had resolved when the callback rejected is undone by *)
(* rollBack(): only statements still running can outlive it, through the pool.   *)
THEOREM StragglersOnly == Spec => []OnlyStragglersEscape
<1>1. ParallelInv => OnlyStragglersEscape
  BY DEF ParallelInv, EscapeInv, OnlyStragglersEscape
<1> QED BY <1>1, ParallelInvariant, PTL

(* A callback that awaits each statement before the next is all or nothing: a     *)
(* transaction() that threw left nothing, and one attempt at most is durable.    *)
THEOREM SequentialAllOrNothing == Spec => []SequentialIsAtomic
<1>1. ParallelInv => SequentialIsAtomic
  BY DEF ParallelInv, SequentialInv, SequentialIsAtomic
<1> QED BY <1>1, ParallelInvariant, PTL

(* A transaction() that settled gave its connection back, also when commit or     *)
(* rollBack failed and with branches still running.                              *)
THEOREM NothingHeld == Spec => []SettledHoldsNothing
<1>1. ParallelInv => SettledHoldsNothing
  BY DEF ParallelInv, PhaseInv, Open, SettledHoldsNothing
<1> QED BY <1>1, ParallelInvariant, PTL

===============================================================================
