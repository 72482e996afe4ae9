------------------------------ MODULE SelectCache ------------------------------
(* Selects through the cache manager: ConnectionSession.select beside the cache *)
(* driver of a connection, for one query (one key).  Every call of the driver,   *)
(* and the query itself, is awaited: other selects, writes and transactions run  *)
(* in between.  The cache driver is external; it is modelled after the one of    *)
(* CACHE.md: it keeps an entry until it evicts it, and an entry is expired when  *)
(* time + duration < now.                                                        *)
EXTENDS Integers, Sequences

CONSTANTS
  Clients,              \* selects that may run at the same time
  Durations,            \* the durations sessions ask for
  MaxTime,              \* bound: the clock
  MaxVersion,           \* bound: the writes of the rows the query reads
  CachedInTransaction   \* TRUE when selects inside a transaction use the cache

ASSUME CacheAssumption ==
  /\ Durations \subseteq Nat
  /\ MaxTime \in Nat /\ MaxVersion \in Nat
  /\ CachedInTransaction \in BOOLEAN

VARIABLES
  now,        \* the clock
  history,    \* the committed versions of the rows, with the time of each commit
  pending,    \* the version an open transaction has written, or NoVersion
  fresh,      \* the version the next write makes
  entry,      \* what the driver holds for the key, or NoEntry
  select      \* for every client, its select

rows == <<history, pending, fresh>>
vars == <<now, rows, entry, select>>

NoVersion == -1
NoEntry == [found |-> FALSE]
Versions == 0 .. MaxVersion
Times == 0 .. MaxTime
QueryCache == [time : Times, duration : Durations]
Entry == [found : {TRUE}, time : Times, duration : Durations, result : Versions]

Stages == {"idle", "get", "expired?", "query", "store"}
Select == [stage : Stages \ {"idle"}, inTransaction : BOOLEAN, cached : BOOLEAN,
           retried : BOOLEAN, asked : Durations, cache : QueryCache,
           result : Versions \union {NoVersion}]
Idle == [stage |-> "idle"]

TypeOK ==
  /\ now \in Times
  /\ history \in Seq([version : Versions, since : Times])
  /\ pending \in Versions \union {NoVersion}
  /\ fresh \in 1 .. MaxVersion + 1
  /\ entry \in Entry \union {NoEntry}
  /\ select \in [Clients -> Select \union {Idle}]

Init ==
  /\ now = 0 /\ fresh = 1 /\ pending = NoVersion
  /\ history = <<[version |-> 0, since |-> 0]>>
  /\ entry = NoEntry
  /\ select = [c \in Clients |-> Idle]

Current == history[Len(history)].version

(* The driver of CACHE.md.                                                      *)
IsExpired(time, duration) == time + duration < now

-------------------------------------------------------------------------------
(* generateQueryCache: the duration asked for, the time it is asked at; without *)
(* a cache nothing is asked of the driver.                                      *)
GenerateQueryCache(d, cached, inTransaction, retried) ==
  [stage |-> IF cached THEN "get" ELSE "query",
   inTransaction |-> inTransaction, cached |-> cached, retried |-> retried,
   asked |-> d, cache |-> [time |-> now, duration |-> d],
   result |-> NoVersion]

Ends(c) == select' = [select EXCEPT ![c] = Idle]

(* select() is called, inside the open transaction or outside it.               *)
StartSelect(c, d, cached, inTransaction) ==
  /\ select[c] = Idle
  /\ inTransaction => pending # NoVersion /\ (cached => CachedInTransaction)
  /\ select' = [select EXCEPT ![c] = GenerateQueryCache(d, cached, inTransaction, FALSE)]
  /\ UNCHANGED <<now, rows, entry>>

(* driver.get: the stored entry, its own time and duration included, or only    *)
(* what generateQueryCache made.                                                *)
DriverGet(c) ==
  /\ select[c].stage = "get"
  /\ select' = [select EXCEPT ![c] =
       IF entry.found
         THEN [@ EXCEPT !.stage = "expired?", !.result = entry.result,
                        !.cache = [time |-> entry.time, duration |-> entry.duration]]
         ELSE [@ EXCEPT !.stage = "query"]]
  /\ UNCHANGED <<now, rows, entry>>

(* driver.isExpired: a result that is not expired is returned.                  *)
Hit(c) ==
  /\ select[c].stage = "expired?"
  /\ ~IsExpired(select[c].cache.time, select[c].cache.duration)
  /\ Ends(c)
  /\ UNCHANGED <<now, rows, entry>>

Expired(c) ==
  /\ select[c].stage = "expired?"
  /\ IsExpired(select[c].cache.time, select[c].cache.duration)
  /\ select' = [select EXCEPT ![c].stage = "query"]
  /\ UNCHANGED <<now, rows, entry>>

(* The query: a transaction sees what it wrote, others the committed rows.      *)
Query(c) ==
  /\ select[c].stage = "query"
  /\ IF select[c].cached
       THEN select' = [select EXCEPT ![c].stage = "store",
              ![c].result = IF select[c].inTransaction /\ pending # NoVersion THEN pending
                                                                     ELSE Current]
       ELSE Ends(c)
  /\ UNCHANGED <<now, rows, entry>>

(* The query fails.  A lost connection outside a transaction runs the whole     *)
(* callback of select() again, the cache included; any other error is thrown.   *)
QueryFails(c, lost) ==
  /\ select[c].stage = "query"
  /\ LET s == select[c] IN
       IF lost /\ ~s.inTransaction /\ ~s.retried
         THEN select' = [select EXCEPT ![c] =
                GenerateQueryCache(s.asked, s.cached, s.inTransaction, TRUE)]
         ELSE Ends(c)
  /\ UNCHANGED <<now, rows, entry>>

(* Mutant: the entry gets the time of the store.                                *)
StoreStampedNow(c) ==
  /\ select[c].stage = "store"
  /\ entry' = [found |-> TRUE, time |-> now,
               duration |-> select[c].cache.duration, result |-> select[c].result]
  /\ Ends(c)
  /\ UNCHANGED <<now, rows>>

(* cache manager store, driver.store: what get gave, with the new result.       *)
Store(c) ==
  /\ select[c].stage = "store"
  /\ entry' = [found |-> TRUE, time |-> select[c].cache.time,
               duration |-> select[c].cache.duration, result |-> select[c].result]
  /\ Ends(c)
  /\ UNCHANGED <<now, rows>>

(* The driver rejects: the cache manager catches no error.                      *)
DriverFails(c) ==
  /\ select[c].stage \in {"get", "expired?", "store"}
  /\ Ends(c)
  /\ UNCHANGED <<now, rows, entry>>

-------------------------------------------------------------------------------
(* The environment: writes, a transaction, eviction, time.                      *)
Commit(v) == history' = Append(history, [version |-> v, since |-> now])

Write ==
  /\ fresh <= MaxVersion
  /\ Commit(fresh) /\ fresh' = fresh + 1
  /\ UNCHANGED <<now, pending, entry, select>>

TransactionWrite ==
  /\ pending = NoVersion /\ fresh <= MaxVersion
  /\ pending' = fresh /\ fresh' = fresh + 1
  /\ UNCHANGED <<now, history, entry, select>>

TransactionEnd(committed) ==
  /\ pending # NoVersion
  /\ IF committed THEN Commit(pending) ELSE UNCHANGED history
  /\ pending' = NoVersion
  /\ UNCHANGED <<now, fresh, entry, select>>

Evict ==
  /\ entry.found /\ entry' = NoEntry
  /\ UNCHANGED <<now, rows, select>>

Tick ==
  /\ now < MaxTime /\ now' = now + 1
  /\ UNCHANGED <<rows, entry, select>>

Next ==
  \/ \E c \in Clients, d \in Durations, cached, inTransaction \in BOOLEAN :
       StartSelect(c, d, cached, inTransaction)
  \/ \E c \in Clients : DriverGet(c) \/ Hit(c) \/ Expired(c) \/ Query(c)
                          \/ Store(c) \/ DriverFails(c)
  \/ \E c \in Clients, lost \in BOOLEAN : QueryFails(c, lost)
  \/ Write \/ TransactionWrite \/ Evict \/ Tick
  \/ \E committed \in BOOLEAN : TransactionEnd(committed)

Spec == Init /\ [][Next]_vars

-------------------------------------------------------------------------------
(* Version v was the committed one at some time between from and to.            *)
WasCurrent(v, from, to) ==
  \E i \in DOMAIN history :
    /\ history[i].version = v
    /\ history[i].since <= to
    /\ i = Len(history) \/ history[i + 1].since >= from

(* A result served from the cache was the committed one no longer ago than the  *)
(* duration of its entry, however the selects that read and stored it, their     *)
(* retries and the writes were interleaved: the time is taken before the query.  *)
ServedWithinDuration ==
  [][\A c \in Clients : Hit(c) =>
       WasCurrent(select[c].result, now - select[c].cache.duration, now)]_vars

(* An entry that is not expired holds a result that was committed when its time  *)
(* was taken or later: a late store can bring back an older result, but not an   *)
(* older result with a newer time.                                               *)
EntryWithinTime == entry.found => WasCurrent(entry.result, entry.time, now)

===============================================================================
