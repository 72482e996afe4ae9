---------------------------- MODULE CursorPagination ----------------------------
(* cursorPaginate and CursorPaginator: a reader goes from page to page by the    *)
(* next and previous cursors while rows are inserted and deleted.               *)
(* A row is what the order columns hold of it; together they identify it, and   *)
(* none is NULL.                                                                *)
EXTENDS Integers, Sequences, FiniteSets, SequencesExt

CONSTANTS
  Columns,     \* the number of columns the query orders by
  Values,      \* the values of a column
  PerPage,     \* perPage
  MaxWrites    \* bound: rows inserted or deleted

ASSUME CursorAssumption ==
  /\ Columns \in Nat \ {0} /\ Values \subseteq Int
  /\ PerPage \in Nat \ {0} /\ MaxWrites \in Nat

VARIABLES
  orders,     \* the direction of each order column
  table,      \* the rows the query selects
  cursor,     \* the cursor the page was asked with, or none
  results,    \* the rows of the page the reader is on
  hasMore,    \* the query gave a row more than the page shows
  writes,     \* rows inserted or deleted so far (the bound)
  due,        \* history: the page the link promised, by the order of the rows
  walk,       \* history: the rows shown since the first page, by next cursors only
  steady      \* history: the rows there since the first page was shown

page == <<cursor, results, hasMore>>
vars == <<orders, table, page, writes, due, walk, steady>>

Rows == [1 .. Columns -> Values]
None == [points |-> "none"]

(* The order of the query, column by column.                                    *)
Comes(dir, x, y) == IF dir = "asc" THEN x < y ELSE x > y
Precedes(r, s) ==
  \E i \in 1 .. Columns :
    (\A j \in 1 .. i - 1 : r[j] = s[j]) /\ Comes(orders[i], r[i], s[i])
Size(n, S) == IF Cardinality(S) < n THEN Cardinality(S) ELSE n
FirstRows(n, S) ==
  [k \in 1 .. Size(n, S) |->
     CHOOSE r \in S : Cardinality({s \in S : Precedes(s, r)}) = k - 1]
LastRows(n, S) ==
  [k \in 1 .. Size(n, S) |->
     CHOOSE r \in S : Cardinality({s \in S : Precedes(r, s)}) = Size(n, S) - k]

-------------------------------------------------------------------------------
(* Mutant: the conditions of a previous page look forward.                      *)
DirectionsKept(c) == orders

(* ensureOrderForCursorPagination: the directions of the conditions; a cursor to *)
(* the previous items turns them around.                                        *)
Directions(c) ==
  IF c.points = "previous"
    THEN [i \in 1 .. Columns |-> IF orders[i] = "asc" THEN "desc" ELSE "asc"]
    ELSE orders

(* Mutant of addCursorConditions: all columns go one way.                        *)
SelectedOneWay(c, r) ==
  LET condition[i \in 1 .. Columns] ==
        /\ i > 1 => r[i - 1] = c.parameters[i - 1]
        /\ \/ Comes(Directions(c)[1], c.parameters[i], r[i])
           \/ i < Columns /\ condition[i + 1]
  IN c = None \/ condition[1]

(* addCursorConditions: the where clauses built from the order columns.         *)
Selected(c, r) ==
  LET dirs == Directions(c)
      condition[i \in 1 .. Columns] ==
        /\ i > 1 => r[i - 1] = c.parameters[i - 1]
        /\ \/ Comes(dirs[i], c.parameters[i], r[i])
           \/ i < Columns /\ condition[i + 1]
  IN c = None \/ condition[1]

(* paginateUsingCursor: perPage + 1 rows, in the order of the query.            *)
Get(c) == FirstRows(PerPage + 1, {r \in table : Selected(c, r)})

(* The constructor of CursorPaginator.                                          *)
Paginate(c) ==
  LET rows == IF c.points = "previous" THEN Reverse(Get(c)) ELSE Get(c)
  IN /\ cursor' = c
     /\ results' = SubSeq(rows, 1, IF Len(rows) < PerPage THEN Len(rows) ELSE PerPage)
     /\ hasMore' = (Len(rows) > PerPage)

CursorFor(r, points) == [points |-> points, parameters |-> r]

(* Mutant: only the first page has a next one.                                  *)
NextCursorOnce ==
  IF ~hasMore \/ cursor.points = "next" \/ results = <<>> THEN None
  ELSE CursorFor(results[Len(results)], "next")

(* nextCursor, previousCursor: None when there is no link to show.              *)
NextCursor ==
  IF (cursor.points # "previous" /\ ~hasMore) \/ results = <<>> THEN None
  ELSE CursorFor(results[Len(results)], "next")

PreviousCursor ==
  IF cursor = None \/ (cursor.points = "previous" /\ ~hasMore) \/ results = <<>> THEN None
  ELSE CursorFor(results[1], "previous")

-------------------------------------------------------------------------------
Init ==
  /\ orders \in [1 .. Columns -> {"asc", "desc"}]
  /\ table \in SUBSET Rows /\ IsFiniteSet(table)
  /\ cursor = None /\ results = FirstRows(PerPage, table)
  /\ hasMore = (Cardinality(table) > PerPage)
  /\ writes = 0 /\ due = results
  /\ walk = [rows |-> results, forward |-> TRUE]
  /\ steady = table

(* The reader follows the link to the next page, or to the previous one.        *)
FollowNext ==
  /\ NextCursor # None
  /\ Paginate(NextCursor)
  /\ due' = FirstRows(PerPage, {r \in table : Precedes(results[Len(results)], r)})
  /\ walk' = IF walk.forward THEN [walk EXCEPT !.rows = @ \o results'] ELSE walk
  /\ UNCHANGED <<orders, table, writes, steady>>

FollowPrevious ==
  /\ PreviousCursor # None
  /\ Paginate(PreviousCursor)
  /\ due' = LastRows(PerPage, {r \in table : Precedes(r, results[1])})
  /\ walk' = [rows |-> <<>>, forward |-> FALSE]
  /\ UNCHANGED <<orders, table, writes, steady>>

(* Other sessions.                                                              *)
Insert(r) ==
  /\ writes < MaxWrites /\ r \notin table
  /\ table' = table \union {r} /\ writes' = writes + 1
  /\ UNCHANGED <<orders, page, due, walk, steady>>

Delete(r) ==
  /\ writes < MaxWrites /\ r \in table
  /\ table' = table \ {r} /\ steady' = steady \ {r} /\ writes' = writes + 1
  /\ UNCHANGED <<orders, page, due, walk>>

(* A page without links.                                                        *)
Stay == NextCursor = None /\ PreviousCursor = None /\ UNCHANGED vars

Next ==
  \/ FollowNext \/ FollowPrevious
  \/ \E r \in Rows : Insert(r) \/ Delete(r)
  \/ Stay

Spec == Init /\ [][Next]_vars

-------------------------------------------------------------------------------
(* nextCursor "points to the next set of items": the page after a next cursor    *)
(* is made of the rows that come right after the last one shown, in order, with  *)
(* any mix of directions, whether that row still exists or not.                 *)
NextIsFollowing == cursor.points = "next" => results = due

(* Where the next links end, no row that was there all the time was missed.      *)
ForwardComplete == walk.forward /\ NextCursor = None => steady \subseteq Range(walk.rows)

(* Why (inductive): while only next links were followed, every row there all the  *)
(* time was shown or comes after the page; and a page with a row more is full.   *)
ForwardInv ==
  /\ hasMore => results # <<>>
  /\ walk.forward =>
       /\ cursor.points # "previous"
       /\ hasMore => \A r \in steady : \/ r \in Range(walk.rows)
                                      \/ Precedes(results[Len(results)], r)
       /\ ~hasMore => steady \subseteq Range(walk.rows)

(* The page after a previous cursor shows only rows that come before the one it  *)
(* left, as many as there are up to perPage, and when it has no previous link    *)
(* it shows them all.                                                           *)
PreviousStaysBefore ==
  [][FollowPrevious =>
       LET before == {r \in table : Precedes(r, results[1])}
       IN /\ Range(results') \subseteq before
          /\ Len(results') = Len(due')
          /\ ~hasMore' => Range(results') = before]_vars

(* types/paginations.ts: previousCursor gets "the cursor that points to the      *)
(* previous set of items", the rows right before those shown.                   *)
PreviousIsPreceding == cursor.points = "previous" => results = due

===============================================================================
