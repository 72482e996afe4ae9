------------------------------ MODULE ChunkPaging ------------------------------
(* A query read in pages while rows change: chunk and each, chunkById and       *)
(* eachById, lazy, lazyById, and the Desc variants.  The table is what the query *)
(* selects of it, a set of ids that other code adds to and removes from, also    *)
(* from inside the callback.  The query orders by id alone and has no offset or  *)
(* limit of its own.                                                            *)
EXTENDS Integers, FiniteSets, FiniteSetsExt

CONSTANTS
  Ids,         \* the primary keys
  Size,        \* count, chunkSize: rows of a page
  MaxWrites    \* bound: rows that enter or leave the result during one reading

ASSUME PagingAssumption ==
  /\ Ids \subseteq Nat \ {0} /\ IsFiniteSet(Ids)
  /\ Size \in Nat \ {0}
  /\ MaxWrites \in Nat

VARIABLES
  method,       \* the method the program reads with
  descending,   \* the order is by descending id
  keyed,        \* the results have the column the pages are made by
  matching,     \* the rows the query selects now
  page,         \* the page being read
  lastId,       \* the id the next page starts after, or null
  batch,        \* the rows of the page the program has yet to be given
  lastRow,      \* the last row of the page
  length,       \* results.length of the page
  status,       \* "query", "callback", "yield", or how the reading ended
  seen,         \* history: how often each row was given to the program
  steady,       \* history: the rows selected at every moment so far
  left,         \* history: how often a row left the result
  entered       \* history: how often a row entered it

reading == <<page, lastId, batch, lastRow, length, status, seen>>
table == <<matching, steady, left, entered>>
vars == <<method, descending, keyed, reading, table>>

null == 0
Endings == {"done", "stopped", "aborted"}
ById == method \in {"chunkById", "lazyById"}
Lazy == method \in {"lazy", "lazyById"}

(* The order of the rows.                                                       *)
Before(i, j) == IF descending THEN i > j ELSE i < j

TypeOK ==
  /\ method \in {"chunk", "lazy", "chunkById", "lazyById"}
  /\ descending \in BOOLEAN /\ keyed \in BOOLEAN
  /\ matching \in SUBSET Ids /\ steady \in SUBSET matching
  /\ page \in Nat \ {0} /\ lastId \in Ids \union {null} /\ lastRow \in Ids \union {null}
  /\ batch \in SUBSET Ids /\ length \in 0 .. Size
  /\ status \in {"query", "callback", "yield"} \union Endings
  /\ seen \in [Ids -> Nat]
  /\ left \in Nat /\ entered \in Nat

Init ==
  /\ method \in {"chunk", "lazy", "chunkById", "lazyById"}
  /\ descending \in BOOLEAN /\ keyed \in BOOLEAN
  /\ matching \in SUBSET Ids /\ steady = matching
  /\ page = 1 /\ lastId = null
  /\ batch = {} /\ lastRow = null /\ length = 0
  /\ status = "query"
  /\ seen = [i \in Ids |-> 0]
  /\ left = 0 /\ entered = 0

-------------------------------------------------------------------------------
(* The first n rows of a set, or all of it when it is smaller.                  *)
IsFirst(P, n, S) ==
  /\ P \subseteq S
  /\ \A i \in P, j \in S \ P : Before(i, j)
  /\ \/ Cardinality(P) = n
     \/ Cardinality(P) < n /\ P = S

(* Mutant: one page too far.                                                    *)
OffsetOnePage == page * Size

(* forPage: offset (page - 1) * perPage.                                        *)
Offset == (page - 1) * Size

(* Mutant: the direction is ignored.                                            *)
AfterLastAscending(i) == lastId = null \/ lastId < i

(* forPageAfterId, forPageBeforeId: the rows on the far side of lastId.         *)
AfterLast(i) == lastId = null \/ Before(lastId, i)

(* The query of one page.                                                       *)
IsPage(P) ==
  IF ById THEN IsFirst(P, Size, {i \in matching : AfterLast(i)})
          ELSE \E K \in SUBSET matching :
                 IsFirst(K, Offset, matching) /\ IsFirst(P, Size, matching \ K)

IsLast(i, P) == i \in P /\ \A j \in P \ {i} : Before(j, i)

(* await ....get(): an empty page ends the reading.                             *)
Query ==
  /\ status = "query"
  /\ \E P \in SUBSET matching :
       /\ IsPage(P)
       /\ batch' = P
       /\ length' = Cardinality(P)
       /\ \/ P = {} /\ UNCHANGED lastRow
          \/ \E i \in P : IsLast(i, P) /\ lastRow' = i
       /\ status' = IF P = {} THEN "done" ELSE IF Lazy THEN "yield" ELSE "callback"
  /\ UNCHANGED <<method, descending, keyed, page, lastId, seen, table>>

(* Mutant: a short page does not end the reading.                               *)
LastPageNever == FALSE

(* while (countResults === count).                                              *)
LastPage == length # Size

(* Mutants: the next page is never asked for; a missing key is not noticed.      *)
AdvanceNever == UNCHANGED <<lastId, page, status>>
AdvanceWithoutKey ==
  /\ lastId' = IF ById /\ keyed THEN lastRow ELSE lastId
  /\ page' = page + 1
  /\ status' = IF LastPage THEN "done" ELSE "query"

(* The page is done.  By id: the next one starts after its last row, and the     *)
(* reading is aborted when that row has no key; lazyById looks at the key only   *)
(* when there is a next page.                                                   *)
Advance ==
  /\ lastId' = IF ById /\ keyed THEN lastRow ELSE lastId
  /\ page' = page + 1
  /\ status' = IF Lazy /\ LastPage THEN "done"
               ELSE IF ById /\ ~keyed THEN "aborted"
               ELSE IF LastPage THEN "done" ELSE "query"

Give(S) == seen' = [i \in Ids |-> IF i \in S THEN seen[i] + 1 ELSE seen[i]]

(* The callback was given the page and returns: false stops the reading.        *)
CallbackReturns(goOn) ==
  /\ status = "callback"
  /\ Give(batch) /\ batch' = {}
  /\ IF goOn THEN Advance ELSE status' = "stopped" /\ UNCHANGED <<page, lastId>>
  /\ UNCHANGED <<method, descending, keyed, lastRow, length, table>>

(* The generator yields the next row of the page.                               *)
Yield ==
  /\ status = "yield"
  /\ \E i \in batch :
       /\ \A j \in batch \ {i} : Before(i, j)
       /\ Give({i}) /\ batch' = batch \ {i}
  /\ UNCHANGED <<method, descending, keyed, page, lastId, lastRow, length, status, table>>

(* It was asked for more than the page had, or was closed by a break.           *)
PageYielded ==
  /\ status = "yield" /\ batch = {}
  /\ Advance
  /\ UNCHANGED <<method, descending, keyed, batch, lastRow, length, seen, table>>

Break ==
  /\ status = "yield"
  /\ status' = "stopped"
  /\ UNCHANGED <<method, descending, keyed, page, lastId, batch, lastRow, length, seen, table>>

(* Any code, the callback included: a row is deleted, or updated so that the     *)
(* query no longer selects it; a row is inserted, or updated so that it does.    *)
Leave(i) ==
  /\ left + entered < MaxWrites
  /\ i \in matching
  /\ matching' = matching \ {i} /\ steady' = steady \ {i} /\ left' = left + 1
  /\ UNCHANGED <<method, descending, keyed, reading, entered>>

Enter(i) ==
  /\ left + entered < MaxWrites
  /\ i \notin matching
  /\ matching' = matching \union {i} /\ entered' = entered + 1
  /\ UNCHANGED <<method, descending, keyed, reading, steady, left>>

Rest == status \in Endings /\ UNCHANGED vars

Next ==
  \/ Query
  \/ \E goOn \in BOOLEAN : CallbackReturns(goOn)
  \/ Yield \/ PageYielded \/ Break
  \/ \E i \in Ids : Leave(i) \/ Enter(i)
  \/ Rest

(* Queries are answered, callbacks return, and the program goes on reading.     *)
Spec ==
  /\ Init /\ [][Next]_vars
  /\ WF_vars(Query)
  /\ WF_vars(\E goOn \in BOOLEAN : CallbackReturns(goOn))
  /\ WF_vars(Yield) /\ WF_vars(PageYielded)

-------------------------------------------------------------------------------
(* BUILDER.md, Chunking Results and Streaming Results Lazily: chunkById and     *)
(* lazyById are for queries whose rows are updated during the reading.  They     *)
(* give no row twice, whatever enters and leaves in the meantime.               *)
ByIdOnce == ById => \A i \in Ids : seen[i] <= 1

(* They miss no row that was selected all the time.                             *)
ByIdComplete == ById /\ status = "done" => \A i \in steady : seen[i] = 1

(* Why (inductive): between two pages, exactly the rows up to lastId were given;  *)
(* within a page, those up to lastRow except what is left of the batch; and a    *)
(* page that is not full holds all there was.                                   *)
ReadUpTo(last) ==
  \A i \in Ids :
    /\ seen[i] > 0 => i \notin batch /\ last # null /\ ~Before(last, i)
    /\ i \in steady /\ last # null /\ ~Before(last, i) => seen[i] > 0 \/ i \in batch

ByIdInv ==
  /\ ByIdOnce /\ ByIdComplete
  /\ ById =>
       /\ ~keyed /\ status = "query" => lastId = null
       /\ status = "query" => batch = {} /\ ReadUpTo(lastId)
       /\ status \in {"callback", "yield"} =>
            /\ ReadUpTo(lastRow) /\ lastRow # null
            /\ \A i \in batch : ~Before(lastRow, i)
            /\ length # Size => \A i \in steady : seen[i] > 0 \/ i \in batch

(* chunk and lazy go by position: each row that leaves makes them miss at most   *)
(* one row, each row that enters makes them give at most one row twice.  On a    *)
(* table nobody changes they give every row once.                               *)
Total(f, S) == MapThenSumSet(LAMBDA i : f[i], S)
Missed == {i \in steady : seen[i] = 0}
TwiceAndMore(f) == Total([i \in Ids |-> f[i] - 1], {i \in Ids : f[i] > 1})
Repeats == TwiceAndMore(seen)

OffsetDrift ==
  /\ ~ById /\ status = "done" => Cardinality(Missed) <= left
  /\ ~ById => Repeats <= entered

(* Why (inductive): count a row of the page as given already.  Before the        *)
(* position the reading has come to, at most as many rows were left out as have  *)
(* left; the rows given more than once, and those behind the position that will  *)
(* be given again, are at most as many as have entered.                         *)
Due == [i \in Ids |-> IF i \in batch THEN seen[i] + 1 ELSE seen[i]]
Position == IF status = "query" THEN (page - 1) * Size ELSE page * Size
Drifted(F) ==
  /\ IsFirst(F, Position, matching)
  /\ Cardinality({i \in steady \cap F : Due[i] = 0}) <= left
  /\ TwiceAndMore(Due) + Cardinality({i \in matching \ F : Due[i] > 0}) <= entered

OffsetInv ==
  /\ OffsetDrift
  /\ ~ById =>
       /\ status = "query" => batch = {}
       /\ status \in {"query", "callback", "yield"} => \E F \in SUBSET matching : Drifted(F)
       /\ status \in {"callback", "yield"} /\ length # Size =>
            Cardinality({i \in steady : Due[i] = 0}) <= left
       /\ TwiceAndMore(Due) <= entered

(* each and eachById number the rows (page - 1) * count + x: that is the number  *)
(* of rows given before.                                                        *)
EachIndex ==
  status = "callback" => Total(seen, Ids) = (page - 1) * Size

(* Why (inductive): all pages but the last are full.                             *)
EachInv ==
  /\ status = "callback" => ~Lazy /\ length = Cardinality(batch)
  /\ status = "yield" => Lazy
  /\ ~Lazy /\ status \in {"query", "callback"} => Total(seen, Ids) = (page - 1) * Size

(* A reading ends: with rows added at the end, too, while it goes on.           *)
ReadingEnds == <>(status \in Endings)

===============================================================================
