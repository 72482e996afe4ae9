--------------------------- MODULE NestedTransaction ---------------------------
(* What a session promises of nested transactions, with no savepoint, no name   *)
(* and no connection: a rollback to level k gives back exactly what level k + 1 *)
(* found when it was entered, only the outermost commit makes anything durable, *)
(* and it makes all of it durable or nothing.                                   *)
EXTENDS Integers, Sequences

CONSTANT Queries

VARIABLES
  levels,    \* for every open level, the statements in force when it was entered
  held,      \* the statements in force now
  doomed,    \* the server has undone everything, the session can only leave
  durable    \* the statements that are committed

nestedVars == <<levels, held, doomed, durable>>

Depth == Len(levels)

Init == levels = <<>> /\ held = {} /\ doomed = FALSE /\ durable = {}

Enter ==
  /\ ~doomed
  /\ levels' = Append(levels, held)
  /\ UNCHANGED <<held, doomed, durable>>

(* A statement takes effect in the open transaction, or by itself without one.  *)
Write(q) ==
  /\ ~doomed
  /\ IF Depth > 0
       THEN held' = held \union {q} /\ UNCHANGED durable
       ELSE durable' = durable \union {q} /\ UNCHANGED held
  /\ UNCHANGED <<levels, doomed>>

LeaveNested ==
  /\ Depth > 1
  /\ levels' = SubSeq(levels, 1, Depth - 1)
  /\ UNCHANGED <<held, doomed, durable>>

RollBackTo(k) ==
  /\ ~doomed
  /\ k \in 0 .. Depth - 1
  /\ held' = levels[k + 1]
  /\ levels' = SubSeq(levels, 1, k)
  /\ UNCHANGED <<doomed, durable>>

(* The outermost level is left with everything durable, or with nothing.        *)
Finish(kept) ==
  /\ Depth > 0
  /\ kept \in {{}, held}
  /\ kept # {} => Depth = 1
  /\ durable' = durable \union kept
  /\ levels' = <<>> /\ held' = {} /\ doomed' = FALSE

(* Everything the transaction did is lost, its levels remain to be left.        *)
Doom ==
  /\ Depth > 0
  /\ doomed' = TRUE
  /\ held' = {}
  /\ levels' = [n \in 1 .. Depth |-> {}]
  /\ UNCHANGED durable

Next ==
  \/ Enter \/ LeaveNested \/ Doom
  \/ \E q \in Queries : Write(q)
  \/ \E k \in 0 .. Depth : RollBackTo(k)
  \/ \E kept \in {{}, held} : Finish(kept)

Spec == Init /\ [][Next]_nestedVars

===============================================================================
