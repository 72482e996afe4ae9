--------------------------- MODULE SelectCacheProofs ---------------------------
(* What is served from the cache is recent, for any number of clients, any       *)
(* durations and any clock, while selects of transactions stay off the cache.    *)
EXTENDS SelectCache, TLAPS

(* r was the committed result at the time t or since.                           *)
Recent(r, t) == t <= now /\ WasCurrent(r, t, now)

(* What a select is about to serve or to store.                                 *)
InHand(s) ==
  s.stage # "idle" =>
    /\ s.inTransaction => ~s.cached
    /\ s.cache.time <= now
    /\ s.stage \in {"get", "expired?", "store"} => s.cached
    /\ s.stage \in {"expired?", "store"} =>
         s.result \in Versions /\ Recent(s.result, s.cache.time)

(* The commits so far carry times that have passed.                             *)
HistoryPast ==
  /\ Len(history) >= 1
  /\ \A i \in DOMAIN history : history[i].since <= now

EntryRecent == entry.found => Recent(entry.result, entry.time)

(* The inductive invariant.                                                     *)
CacheInv ==
  /\ TypeOK
  /\ HistoryPast
  /\ EntryRecent
  /\ \A c \in Clients : InHand(select[c])

USE CacheAssumption DEF CacheAssumption

LEMMA SeqElement == ASSUME NEW S, NEW q \in Seq(S), NEW j \in DOMAIN q PROVE q[j] \in S
  OBVIOUS

LEMMA HistoryElement ==
  ASSUME TypeOK, NEW j \in DOMAIN history
  PROVE  history[j].version \in Versions /\ history[j].since \in Times
<1>1. history[j] \in [version : Versions, since : Times]
  BY SeqElement, history \in Seq([version : Versions, since : Times]) DEF TypeOK
<1> QED BY <1>1

(* Commits and the passing of time keep a result recent: a commit closes the     *)
(* interval of the last version at the present.                                 *)
LEMMA RecentKept ==
  ASSUME TypeOK, HistoryPast, now' \in Times, now <= now',
         \/ history' = history
         \/ \E v \in Versions : history' = Append(history, [version |-> v, since |-> now]),
         NEW r, NEW t \in Times, Recent(r, t)
  PROVE  Recent(r, t)'
<1>1. PICK i \in DOMAIN history :
        /\ history[i].version = r /\ history[i].since <= now
        /\ i = Len(history) \/ history[i + 1].since >= t
  BY DEF Recent, WasCurrent
<1>2. t <= now'  BY DEF Recent, TypeOK, Times
<1>3. now \in Int /\ now' \in Int /\ t \in Int /\ t <= now
  BY DEF TypeOK, Times, Recent
<1>4. history \in Seq([version : Versions, since : Times])  BY DEF TypeOK
<1>5. \A j \in DOMAIN history : history[j].since \in Int
  BY HistoryElement DEF Times
<1>6. CASE history' = history
  BY <1>1, <1>2, <1>3, <1>5, <1>6 DEF Recent, WasCurrent
<1>7. CASE \E v \in Versions : history' = Append(history, [version |-> v, since |-> now])
  <2>1. PICK v \in Versions : history' = Append(history, [version |-> v, since |-> now])
    BY <1>7
  <2>2. /\ Len(history') = Len(history) + 1
        /\ DOMAIN history' = 1 .. Len(history) + 1
        /\ \A j \in DOMAIN history : history'[j] = history[j]
        /\ history'[Len(history) + 1].since = now
    BY <1>4, <2>1
  <2>3. i \in DOMAIN history' /\ history'[i].version = r /\ history'[i].since <= now'
    BY <1>1, <1>3, <1>4, <1>5, <2>2
  <2>4. history'[i + 1].since >= t
    <3>1. CASE i = Len(history)  BY <1>3, <2>2, <3>1
    <3>2. CASE i # Len(history)
      <4>1. i + 1 \in DOMAIN history  BY <1>1, <1>4, <3>2
      <4> QED BY <1>1, <2>2, <3>2, <4>1
    <3> QED BY <3>1, <3>2
  <2> QED BY <1>2, <2>3, <2>4 DEF Recent, WasCurrent
<1> QED BY <1>6, <1>7

(* What a query reads of the committed rows is recent at any time before.       *)
LEMMA CurrentRecent ==
  ASSUME TypeOK, HistoryPast, NEW t \in Times, t <= now
  PROVE  Current \in Versions /\ Recent(Current, t)
<1>1. history \in Seq([version : Versions, since : Times])  BY DEF TypeOK
<1>2. Len(history) \in DOMAIN history  BY <1>1 DEF HistoryPast
<1>3. history[Len(history)].version \in Versions  BY <1>2, HistoryElement
<1>4. history[Len(history)].since <= now  BY <1>2 DEF HistoryPast
<1> QED BY <1>2, <1>3, <1>4 DEF Recent, WasCurrent, Current

LEMMA InitInv == Init => CacheInv
<1> SUFFICES ASSUME Init PROVE CacheInv  OBVIOUS
<1>1. TypeOK  BY DEF Init, TypeOK, Times, Versions, Idle
<1>2. HistoryPast  BY DEF Init, HistoryPast
<1>3. EntryRecent  BY DEF Init, EntryRecent, NoEntry
<1>4. \A c \in Clients : InHand(select[c])  BY DEF Init, InHand, Idle
<1> QED BY <1>1, <1>2, <1>3, <1>4 DEF CacheInv

(* A step of one client that touches neither the clock nor the rows.            *)
LEMMA ClientStep ==
  ASSUME CacheInv, NEW c \in Clients, UNCHANGED <<now, rows>>,
         NEW s \in Select \union {Idle}, InHand(s),
         select' = [select EXCEPT ![c] = s],
         \/ entry' = entry
         \/ entry' \in Entry /\ Recent(entry'.result, entry'.time)
  PROVE  CacheInv'
<1>1. TypeOK'  BY DEF CacheInv, TypeOK, rows
<1>2. HistoryPast'  BY DEF CacheInv, HistoryPast, rows
<1>3. ASSUME NEW r, NEW t, Recent(r, t) PROVE Recent(r, t)'
  BY <1>3 DEF Recent, WasCurrent, rows
<1>4. EntryRecent'
  BY <1>3 DEF CacheInv, EntryRecent
<1>5. ASSUME NEW x, InHand(x) PROVE InHand(x)'
  BY <1>3, <1>5 DEF InHand, rows
<1>6. \A d \in Clients : InHand(select[d])'
  <2>1. ASSUME NEW d \in Clients PROVE InHand(select'[d])
    BY DEF CacheInv, TypeOK
  <2> QED BY <1>5, <2>1
<1> QED BY <1>1, <1>2, <1>4, <1>6 DEF CacheInv


(* A step of the rows, the clock or the driver: no select changes.              *)
LEMMA EnvironmentStep ==
  ASSUME CacheInv, TypeOK', HistoryPast', now' \in Times, now <= now',
         \/ history' = history
         \/ \E v \in Versions : history' = Append(history, [version |-> v, since |-> now]),
         select' = select, entry' \in {entry, NoEntry}
  PROVE  CacheInv'
<1>1. ASSUME NEW r, NEW t \in Times, Recent(r, t) PROVE Recent(r, t)'
  BY <1>1, RecentKept DEF CacheInv
<1>2. EntryRecent'
  <2>1. CASE entry' = entry
    <3>1. entry.found => entry.time \in Times
      <4>1. entry \in Entry \union {NoEntry}  BY DEF CacheInv, TypeOK
      <4>2. entry = NoEntry => entry.found = FALSE  BY DEF NoEntry
      <4>3. entry \in Entry => entry.time \in Times  BY DEF Entry
      <4> QED BY <4>1, <4>2, <4>3
    <3> QED BY <1>1, <2>1, <3>1 DEF CacheInv, EntryRecent
  <2>2. CASE entry' = NoEntry  BY <2>2 DEF EntryRecent, NoEntry
  <2> QED BY <2>1, <2>2
<1>3. ASSUME NEW c \in Clients PROVE InHand(select[c])'
  <2>1. select[c] \in Select \union {Idle} /\ InHand(select[c])
    BY DEF CacheInv, TypeOK
  <2>2. select[c].stage # "idle" => select[c].cache.time \in Times
    BY <2>1 DEF Select, Idle, QueryCache
  <2>3. now \in Int /\ now' \in Int  BY DEF CacheInv, TypeOK, Times
  <2>4. select[c].stage # "idle" => select[c].cache.time <= now'
    BY <2>1, <2>2, <2>3 DEF InHand, Times
  <2> QED BY <1>1, <2>1, <2>2, <2>4 DEF InHand
<1> QED BY <1>2, <1>3 DEF CacheInv

(* The time only goes on, and what was committed stays.                         *)
LEMMA HistoryStep ==
  ASSUME TypeOK, HistoryPast, now' \in Times, now <= now',
         \/ history' = history
         \/ \E v \in Versions : history' = Append(history, [version |-> v, since |-> now])
  PROVE  HistoryPast' /\ history' \in Seq([version : Versions, since : Times])
<1>1. history \in Seq([version : Versions, since : Times])  BY DEF TypeOK
<1>2. now \in Times  BY DEF TypeOK
<1>3. CASE history' = history
  BY <1>1, <1>2, <1>3, HistoryElement DEF HistoryPast, Times
<1>4. CASE \E v \in Versions : history' = Append(history, [version |-> v, since |-> now])
  <2>1. PICK v \in Versions : history' = Append(history, [version |-> v, since |-> now])
    BY <1>4
  <2>2. history' \in Seq([version : Versions, since : Times])
    BY <1>1, <1>2, <2>1
  <2>3. ASSUME NEW i \in DOMAIN history' PROVE history'[i].since <= now'
    <3>1. CASE i = Len(history) + 1  BY <1>1, <1>2, <2>1, <3>1 DEF Times
    <3>2. CASE i # Len(history) + 1
      <4>1. i \in DOMAIN history /\ history'[i] = history[i]  BY <1>1, <2>1, <3>2
      <4> QED BY <1>2, <4>1, HistoryElement DEF HistoryPast, Times
    <3> QED BY <3>1, <3>2
  <2>4. Len(history') >= 1  BY <1>1, <2>1
  <2> QED BY <2>2, <2>3, <2>4 DEF HistoryPast
<1> QED BY <1>3, <1>4

(* What generateQueryCache makes is taken now.                                  *)
LEMMA GeneratedInHand ==
  ASSUME TypeOK, NEW d \in Durations, NEW cached \in BOOLEAN,
         NEW inTransaction \in BOOLEAN, NEW retried \in BOOLEAN,
         inTransaction => ~cached
  PROVE  LET s == GenerateQueryCache(d, cached, inTransaction, retried)
         IN  s \in Select /\ InHand(s)
<1>1. now \in Times /\ now <= now  BY DEF TypeOK, Times
<1> QED BY <1>1 DEF GenerateQueryCache, Select, Stages, QueryCache, InHand

LEMMA NextInv ==
  ASSUME ~CachedInTransaction, CacheInv, [Next]_vars
  PROVE  CacheInv'
<1> USE DEF CacheInv
<1>1. now \in Times /\ now <= now  BY DEF TypeOK, Times
<1>2. Idle \in Select \union {Idle} /\ InHand(Idle)  BY DEF Idle, InHand
<1>3. ASSUME NEW c \in Clients
      PROVE  /\ select[c] \in Select \union {Idle}
             /\ InHand(select[c])
             /\ select[c].stage # "idle" => select[c] \in Select
  BY DEF TypeOK, Idle
<1>4. ASSUME NEW c \in Clients, NEW d \in Durations, NEW cached \in BOOLEAN,
             NEW inTransaction \in BOOLEAN, StartSelect(c, d, cached, inTransaction)
      PROVE  CacheInv'
  <2>1. inTransaction => ~cached  BY <1>4 DEF StartSelect
  <2> QED BY <1>4, <2>1, GeneratedInHand, ClientStep DEF StartSelect
<1>5. ASSUME NEW c \in Clients, DriverGet(c) PROVE CacheInv'
  <2>1. select[c] \in Select /\ InHand(select[c])  BY <1>3, <1>5 DEF DriverGet
  <2>2. CASE entry.found
    <3> DEFINE s == [select[c] EXCEPT !.stage = "expired?", !.result = entry.result,
                        !.cache = [time |-> entry.time, duration |-> entry.duration]]
    <3>1. entry \in Entry /\ Recent(entry.result, entry.time)
      BY <2>2 DEF TypeOK, NoEntry, EntryRecent
    <3>2. s \in Select  BY <2>1, <3>1 DEF Select, Entry, QueryCache, Stages
    <3>3. InHand(s)
      BY <1>5, <2>1, <3>1 DEF InHand, Select, Entry, DriverGet, Recent
    <3>4. select' = [select EXCEPT ![c] = s] /\ UNCHANGED <<now, rows, entry>>
      BY <1>5, <2>2 DEF DriverGet
    <3> HIDE DEF s
    <3> QED BY <3>2, <3>3, <3>4, ClientStep
  <2>3. CASE ~entry.found
    <3> DEFINE s == [select[c] EXCEPT !.stage = "query"]
    <3>1. s \in Select  BY <2>1 DEF Select, Stages
    <3>2. InHand(s)  BY <1>5, <2>1 DEF InHand, Select, DriverGet
    <3>3. select' = [select EXCEPT ![c] = s] /\ UNCHANGED <<now, rows, entry>>
      BY <1>5, <2>3 DEF DriverGet
    <3> HIDE DEF s
    <3> QED BY <3>1, <3>2, <3>3, ClientStep
  <2> QED BY <2>2, <2>3
<1>6. ASSUME NEW c \in Clients, Hit(c) PROVE CacheInv'
  BY <1>2, <1>6, ClientStep DEF Hit, Ends
<1>7. ASSUME NEW c \in Clients, Expired(c) PROVE CacheInv'
  <2> DEFINE s == [select[c] EXCEPT !.stage = "query"]
  <2>1. select[c] \in Select /\ InHand(select[c])  BY <1>3, <1>7 DEF Expired
  <2>2. s \in Select  BY <2>1 DEF Select, Stages
  <2>3. InHand(s)  BY <1>7, <2>1 DEF InHand, Select, Expired
  <2>4. select' = [select EXCEPT ![c] = s] /\ UNCHANGED <<now, rows, entry>>
    BY <1>7 DEF Expired
  <2> HIDE DEF s
  <2> QED BY <2>2, <2>3, <2>4, ClientStep
<1>8. ASSUME NEW c \in Clients, Query(c) PROVE CacheInv'
  <2>1. select[c] \in Select /\ InHand(select[c])  BY <1>3, <1>8 DEF Query
  <2>2. CASE ~select[c].cached
    BY <1>2, <1>8, <2>2, ClientStep DEF Query, Ends
  <2>3. CASE select[c].cached
    <3> DEFINE s == [select[c] EXCEPT !.stage = "store", !.result = Current]
    <3>1. ~select[c].inTransaction  BY <1>8, <2>1, <2>3 DEF InHand, Query
    <3>2. select[c].cache.time \in Times /\ select[c].cache.time <= now
      BY <1>8, <2>1 DEF InHand, Query, Select, QueryCache
    <3>3. Current \in Versions /\ Recent(Current, select[c].cache.time)
      BY <3>2, CurrentRecent
    <3>4. s \in Select  BY <2>1, <3>3 DEF Select, Stages
    <3>5. InHand(s)  BY <2>1, <2>3, <3>1, <3>2, <3>3 DEF InHand, Select
    <3>6. select' = [select EXCEPT ![c] = s] /\ UNCHANGED <<now, rows, entry>>
      BY <1>8, <2>3, <3>1 DEF Query
    <3> HIDE DEF s
    <3> QED BY <3>4, <3>5, <3>6, ClientStep
  <2> QED BY <2>2, <2>3
<1>9. ASSUME NEW c \in Clients, NEW lost \in BOOLEAN, QueryFails(c, lost) PROVE CacheInv'
  <2>1. select[c] \in Select /\ InHand(select[c])  BY <1>3, <1>9 DEF QueryFails
  <2>2. select[c].inTransaction => ~select[c].cached
    BY <1>9, <2>1 DEF InHand, QueryFails
  <2>3. /\ select[c].asked \in Durations /\ select[c].cached \in BOOLEAN
        /\ select[c].inTransaction \in BOOLEAN
    BY <2>1 DEF Select
  <2>4. CASE lost /\ ~select[c].inTransaction /\ ~select[c].retried
    BY <1>9, <2>2, <2>3, <2>4, GeneratedInHand, ClientStep DEF QueryFails
  <2>5. CASE ~(lost /\ ~select[c].inTransaction /\ ~select[c].retried)
    BY <1>2, <1>9, <2>5, ClientStep DEF QueryFails, Ends
  <2> QED BY <2>4, <2>5
<1>10. ASSUME NEW c \in Clients, Store(c) PROVE CacheInv'
  <2>1. select[c] \in Select /\ InHand(select[c])  BY <1>3, <1>10 DEF Store
  <2>2. /\ select[c].result \in Versions
        /\ Recent(select[c].result, select[c].cache.time)
    BY <1>10, <2>1 DEF InHand, Store
  <2>3. select[c].cache \in QueryCache  BY <2>1 DEF Select
  <2>4. entry' \in Entry /\ Recent(entry'.result, entry'.time)
    BY <1>10, <2>2, <2>3 DEF Store, Entry, QueryCache
  <2> QED BY <1>2, <1>10, <2>4, ClientStep DEF Store, Ends
<1>11. ASSUME NEW c \in Clients, DriverFails(c) PROVE CacheInv'
  BY <1>2, <1>11, ClientStep DEF DriverFails, Ends
<1>12. CASE Write
  <2>1. fresh \in Versions /\ fresh' \in 1 .. MaxVersion + 1
    BY <1>12 DEF Write, TypeOK, Versions
  <2>2. now' = now /\ \E v \in Versions :
          history' = Append(history, [version |-> v, since |-> now])
    BY <1>12, <2>1 DEF Write, Commit
  <2>3. HistoryPast' /\ history' \in Seq([version : Versions, since : Times])
    BY <1>1, <2>2, HistoryStep
  <2>4. TypeOK'  BY <1>12, <2>1, <2>2, <2>3 DEF Write, TypeOK
  <2> QED BY <1>1, <1>12, <2>2, <2>3, <2>4, EnvironmentStep DEF Write
<1>13. CASE TransactionWrite
  <2>1. pending' \in Versions /\ fresh' \in 1 .. MaxVersion + 1
    BY <1>13 DEF TransactionWrite, TypeOK, Versions
  <2>2. TypeOK' /\ HistoryPast'
    BY <1>13, <2>1 DEF TransactionWrite, TypeOK, HistoryPast
  <2> QED BY <1>1, <1>13, <2>2, EnvironmentStep DEF TransactionWrite
<1>14. ASSUME NEW committed \in BOOLEAN, TransactionEnd(committed) PROVE CacheInv'
  <2>1. pending \in Versions  BY <1>14 DEF TransactionEnd, TypeOK
  <2>2. /\ now' = now
        /\ \/ history' = history
           \/ \E v \in Versions : history' = Append(history, [version |-> v, since |-> now])
    BY <1>14, <2>1 DEF TransactionEnd, Commit
  <2>3. HistoryPast' /\ history' \in Seq([version : Versions, since : Times])
    BY <1>1, <2>2, HistoryStep
  <2>4. TypeOK'  BY <1>14, <2>2, <2>3 DEF TransactionEnd, TypeOK
  <2> QED BY <1>1, <1>14, <2>2, <2>3, <2>4, EnvironmentStep DEF TransactionEnd
<1>15. CASE Evict
  <2>1. TypeOK' /\ HistoryPast'  BY <1>15 DEF Evict, TypeOK, rows, HistoryPast
  <2> QED BY <1>1, <1>15, <2>1, EnvironmentStep DEF Evict, rows
<1>16. CASE Tick
  <2>1. now' \in Times /\ now <= now'  BY <1>16 DEF Tick, TypeOK, Times
  <2>2. HistoryPast'  BY <1>16, <2>1, HistoryStep DEF Tick, rows
  <2>3. TypeOK'  BY <1>16, <2>1 DEF Tick, TypeOK, rows
  <2> QED BY <1>16, <2>1, <2>2, <2>3, EnvironmentStep DEF Tick, rows
<1>17. CASE UNCHANGED vars
  <2>1. TypeOK' /\ HistoryPast'  BY <1>17 DEF vars, rows, TypeOK, HistoryPast
  <2> QED BY <1>1, <1>17, <2>1, EnvironmentStep DEF vars, rows
<1> QED
  BY <1>4, <1>5, <1>6, <1>7, <1>8, <1>9, <1>10, <1>11, <1>12, <1>13, <1>14, <1>15,
     <1>16, <1>17 DEF Next

-------------------------------------------------------------------------------
(* The state of the selects and of the entry keeps its type.                    *)
THEOREM CacheTypeCorrect == ~CachedInTransaction /\ Spec => []TypeOK
<1> SUFFICES ASSUME ~CachedInTransaction PROVE Spec => []TypeOK  OBVIOUS
<1>1. CacheInv => TypeOK  BY DEF CacheInv
<1> QED BY InitInv, NextInv, <1>1, PTL DEF Spec

(* An entry's result was committed when its time was taken, or later.           *)
THEOREM EntriesWithinTime == ~CachedInTransaction /\ Spec => []EntryWithinTime
<1> SUFFICES ASSUME ~CachedInTransaction PROVE Spec => []EntryWithinTime  OBVIOUS
<1>1. CacheInv => EntryWithinTime
  BY DEF CacheInv, EntryRecent, EntryWithinTime, Recent
<1> QED BY InitInv, NextInv, <1>1, PTL DEF Spec

(* What is served was committed no longer ago than the duration of its entry.   *)
THEOREM ServedRecent == ~CachedInTransaction /\ Spec => ServedWithinDuration
<1> SUFFICES ASSUME ~CachedInTransaction PROVE Spec => ServedWithinDuration  OBVIOUS
<1> DEFINE Served == \A c \in Clients : Hit(c) =>
             WasCurrent(select[c].result, now - select[c].cache.duration, now)
<1>1. CacheInv => Served
  <2> SUFFICES ASSUME CacheInv, NEW c \in Clients, Hit(c)
               PROVE  WasCurrent(select[c].result, now - select[c].cache.duration, now)
    OBVIOUS
  <2>1. select[c] \in Select /\ InHand(select[c])
    BY DEF CacheInv, TypeOK, Hit, Idle
  <2>2. select[c].cache \in QueryCache  BY <2>1 DEF Select
  <2>3. select[c].cache.time \in Int /\ select[c].cache.duration \in Int /\ now \in Int
    <3>1. select[c].cache.time \in Times /\ select[c].cache.duration \in Durations
      BY <2>2 DEF QueryCache
    <3>2. now \in Times  BY DEF CacheInv, TypeOK
    <3>3. Times \subseteq Int /\ Durations \subseteq Int
      <4>1. \A d \in Durations : d \in Nat  OBVIOUS
      <4>2. \A n \in Nat : n \in Int  OBVIOUS
      <4>3. Times \subseteq Int  BY DEF Times
      <4> QED BY <4>1, <4>2, <4>3
    <3> QED BY <3>1, <3>2, <3>3
  <2>4. now - select[c].cache.duration <= select[c].cache.time
    BY <2>3 DEF Hit, IsExpired
  <2>5. WasCurrent(select[c].result, select[c].cache.time, now)
    BY <2>1 DEF Hit, InHand, Recent
  <2>6. \A i \in DOMAIN history : history[i].since \in Int
    BY HistoryElement DEF CacheInv, Times
  <2>7. PICK i \in DOMAIN history :
          /\ history[i].version = select[c].result /\ history[i].since <= now
          /\ i = Len(history) \/ history[i + 1].since >= select[c].cache.time
    BY <2>5 DEF WasCurrent
  <2>8. i = Len(history) \/ history[i + 1].since >= now - select[c].cache.duration
    <3>1. CASE i # Len(history)
      <4>1. history \in Seq([version : Versions, since : Times])  BY DEF CacheInv, TypeOK
      <4>2. i + 1 \in DOMAIN history  BY <2>7, <3>1, <4>1
      <4> QED BY <2>3, <2>4, <2>6, <2>7, <3>1, <4>2
    <3> QED BY <3>1
  <2> QED BY <2>7, <2>8 DEF WasCurrent
<1> QED BY InitInv, NextInv, <1>1, PTL DEF Spec, ServedWithinDuration

=============================================================================
