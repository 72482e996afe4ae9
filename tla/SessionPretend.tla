----------------------------- MODULE SessionPretend -----------------------------
(* The dry run of a ConnectionSession: pretend, withoutPretending and the query  *)
(* log, in any nesting a program makes of their callbacks.                       *)
EXTENDS Integers, Sequences

CONSTANTS
  Queries,          \* identifiers of the queries a program runs
  MaxDepth,         \* bound: callbacks are nested at most this deep
  NestedPretend,    \* TRUE when pretend may be called inside a pretend
  MayCatch          \* TRUE when a program may catch what a callback throws

ASSUME PretendAssumption ==
  MaxDepth \in Nat /\ NestedPretend \in BOOLEAN /\ MayCatch \in BOOLEAN

VARIABLES
  isPretending,     \* the session is in a dry run
  loggingQueries,   \* queries are being logged
  queryLog,         \* the queries logged since the last pretend began
  frames,           \* the callbacks in progress, innermost last
  ended,            \* the program stopped at an error, its session is not used again
  executed,         \* the queries that reached the database
  ran,              \* history: the queries run so far
  wanted,           \* history: those to be executed, by the innermost callback
  returned          \* history: what the last pretend returned, and what it should

flags == <<isPretending, loggingQueries, queryLog>>
vars == <<flags, frames, ended, executed, ran, wanted, returned>>

(* A frame: the call, the loggingQueries it backed up, whether the callback runs *)
(* in a dry run, and (history) the queries run directly in it.                  *)
Frame == [call : {"pretend", "without", "plain"}, logging : BOOLEAN,
          dry : BOOLEAN, issued : Seq(Queries)]

Init ==
  /\ isPretending = FALSE /\ loggingQueries = FALSE /\ queryLog = <<>>
  /\ frames = <<>> /\ ended = FALSE
  /\ executed = {} /\ ran = {} /\ wanted = {}
  /\ returned = [log |-> <<>>, issued |-> <<>>]

Depth == Len(frames)
Top == frames[Depth]

(* What the program asked for: a dry run, when its innermost callback is one.    *)
DryRun == Depth > 0 /\ Top.dry

Push(call, dry) ==
  /\ ~ended /\ Depth < MaxDepth
  /\ frames' = Append(frames, [call |-> call, logging |-> loggingQueries,
                               dry |-> dry, issued |-> <<>>])

(* A callback that ends returns to the one around it.                           *)
Pop == frames' = SubSeq(frames, 1, Depth - 1)

-------------------------------------------------------------------------------
(* Mutant: a query is logged only when it was executed.                         *)
LogQueryExecuted(q) ==
  queryLog' = IF loggingQueries /\ ~isPretending THEN Append(queryLog, q) ELSE queryLog

(* logQuery: a query that ran, or pretended to, is logged.                      *)
LogQuery(q) == queryLog' = IF loggingQueries THEN Append(queryLog, q) ELSE queryLog

(* select, statement, ..., unprepared: each returns a default when pretending.   *)
RunQuery(q) ==
  /\ ~ended /\ q \notin ran
  /\ ran' = ran \union {q}
  /\ wanted' = IF DryRun THEN wanted ELSE wanted \union {q}
  /\ executed' = IF isPretending THEN executed ELSE executed \union {q}
  /\ LogQuery(q)
  /\ frames' = IF DryRun THEN [frames EXCEPT ![Depth].issued = Append(@, q)] ELSE frames
  /\ UNCHANGED <<isPretending, loggingQueries, returned, ended>>

(* pretend, withFreshQueryLog: a fresh log, and the flag is set.                *)
Pretend ==
  /\ (\E i \in DOMAIN frames : frames[i].call = "pretend") => NestedPretend
  /\ Push("pretend", TRUE)
  /\ loggingQueries' = TRUE /\ queryLog' = <<>>
  /\ isPretending' = TRUE
  /\ UNCHANGED <<executed, ran, wanted, returned, ended>>

(* Mutants: the flag, or the query log, is not restored.                        *)
PretendEndsStillPretending ==
  /\ Depth > 0 /\ Top.call = "pretend"
  /\ returned' = [log |-> queryLog, issued |-> Top.issued]
  /\ loggingQueries' = Top.logging
  /\ Pop
  /\ UNCHANGED <<isPretending, queryLog, executed, ran, wanted, ended>>

PretendEndsStillLogging ==
  /\ Depth > 0 /\ Top.call = "pretend"
  /\ isPretending' = FALSE
  /\ returned' = [log |-> queryLog, issued |-> Top.issued]
  /\ Pop
  /\ UNCHANGED <<loggingQueries, queryLog, executed, ran, wanted, ended>>

(* The callback of pretend returns: the flag is cleared, the log returned.      *)
PretendEnds ==
  /\ Depth > 0 /\ Top.call = "pretend"
  /\ isPretending' = FALSE
  /\ returned' = [log |-> queryLog, issued |-> Top.issued]
  /\ loggingQueries' = Top.logging
  /\ Pop
  /\ UNCHANGED <<queryLog, executed, ran, wanted, ended>>

(* withoutPretending: outside a dry run it only calls back.                     *)
WithoutPretending ==
  /\ IF isPretending
       THEN /\ Push("without", FALSE)
            /\ isPretending' = FALSE /\ loggingQueries' = FALSE
       ELSE Push("plain", FALSE) /\ UNCHANGED <<isPretending, loggingQueries>>
  /\ UNCHANGED <<queryLog, executed, ran, wanted, returned, ended>>

(* Mutant: the dry run does not go on.                                          *)
WithoutPretendingStays ==
  /\ Depth > 0 /\ Top.call \in {"without", "plain"}
  /\ Pop
  /\ UNCHANGED <<flags, executed, ran, wanted, returned, ended>>

(* Its callback returns: the dry run and its log go on.                         *)
WithoutPretendingEnds ==
  /\ Depth > 0 /\ Top.call \in {"without", "plain"}
  /\ IF Top.call = "without"
       THEN isPretending' = TRUE /\ loggingQueries' = TRUE
       ELSE UNCHANGED <<isPretending, loggingQueries>>
  /\ Pop
  /\ UNCHANGED <<queryLog, executed, ran, wanted, returned, ended>>

(* A callback throws.  No method has a finally, the flags stay as they are; the  *)
(* program catches the error around the call, or ends with it.                  *)
Throw ==
  /\ Depth > 0
  /\ \/ MayCatch /\ Pop /\ UNCHANGED ended
     \/ frames' = <<>> /\ ended' = TRUE
  /\ UNCHANGED <<flags, executed, ran, wanted, returned>>

Rest == ended /\ UNCHANGED vars

Next ==
  \/ \E q \in Queries : RunQuery(q)
  \/ Pretend \/ PretendEnds
  \/ WithoutPretending \/ WithoutPretendingEnds
  \/ Throw
  \/ Rest

Spec == Init /\ [][Next]_vars

-------------------------------------------------------------------------------
(* connection-session.ts, pretend: the callback runs "in dry run mode".  No      *)
(* query of a dry run reaches the database, whatever callbacks came before it.   *)
DryRunExecutesNothing == executed \subseteq wanted

(* Every other query does: no dry run outlives its callback.                    *)
OthersExecuted == ran \intersect wanted \subseteq executed

(* pretend returns the queries of its dry run, all of them and in their order,   *)
(* and none of those run without pretending in between.                         *)
PretendReturnsItsQueries == returned.log = returned.issued

(* Outside every callback the session is as it was made: not pretending, not     *)
(* logging, so that a query log cannot grow for the life of the session.         *)
RestoredOutside == Depth = 0 /\ ~ended => ~isPretending /\ ~loggingQueries

===============================================================================
