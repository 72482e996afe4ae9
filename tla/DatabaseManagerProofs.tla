------------------------- MODULE DatabaseManagerProofs -------------------------
(* Proofs about DatabaseManager, for any names, connections and calls: a pool the  *)
(* manager loses or leaves open opened beside the call, and a reconnect returns a *)
(* connection whose pools are open.                                             *)
EXTENDS DatabaseManager, TLAPS

USE ManagerAssumption

(* Every connection has one name for good, and only the pools of that name; a      *)
(* reconnect waits for pools of connections of its name.                         *)
Owned ==
  /\ \A n \in Names : connections[n] # None => owner[connections[n]] = n
  /\ \A w \in open : owner[w[1]] # None /\ w[2] \in PoolsOf(owner[w[1]])

Named ==
  \A p \in Calls :
    /\ calls[p].at = "new" <=> calls[p].op = "none"
    /\ calls[p].op \in {"purge", "disconnect", "reconnect"} => calls[p].name \in Names
    /\ calls[p].at \in {"done", "caching"} => calls[p].waits = {}
    /\ calls[p].at = "caching" => calls[p].op = "terminate"
    /\ calls[p].at \in {"reopening", "threw"} => calls[p].op = "reconnect"
    /\ calls[p].at \in {"reopening", "threw"} =>
         \A w \in calls[p].waits :
           owner[w[1]] = calls[p].name /\ w[2] \in PoolsOf(calls[p].name)

(* What a purge or a terminate has still to close, or will not have closed.       *)
Rest(p) == calls[p].waits \union opened[p] \union failed[p]

PurgeAccounts ==
  \A p \in Calls : calls[p].op = "purge" /\ calls[p].at = "disconnecting" =>
    \A w \in open : Registered(w[1]) /\ owner[w[1]] = calls[p].name => w \in Rest(p)

TerminateAccounts ==
  \A p \in Calls : calls[p].op = "terminate" =>
    \A w \in open : Registered(w[1]) => w \in Rest(p)

(* A connection is dropped by a purge of its name only.                          *)
DroppedByPurge ==
  \A c \in Connections : owner[c] # None /\ ~Registered(c) =>
    \E p \in Calls : /\ calls[p].op = "purge" /\ calls[p].at = "done"
                     /\ calls[p].name = owner[c]

ReconnectAccounts ==
  \A p \in Calls : calls[p].op = "reconnect" /\ calls[p].at \in {"reopening", "done"} =>
    \A k \in PoolsOf(calls[p].name) :
      <<calls[p].result, k>> \in calls[p].waits \union open \union closed[p]

-------------------------------------------------------------------------------
(* What a step changes of the record of its call.                                *)
LEMMA CallUpdates ==
  ASSUME NEW r \in Call, NEW a \in {"new", "done", "threw"} \union Waiting
  PROVE  /\ [r EXCEPT !.at = a] \in Call
         /\ \A c \in Connections : [r EXCEPT !.at = a, !.result = c] \in Call
         /\ \A s \in SUBSET (Connections \X Pools) :
              /\ [r EXCEPT !.waits = s] \in Call
              /\ [r EXCEPT !.waits = s, !.at = a] \in Call
              /\ \A c \in Connections : [r EXCEPT !.at = a, !.result = c, !.waits = s] \in Call
BY DEF Call

(* Every step keeps the type of the state.                                     *)
LEMMA TypePreserved ==
  ASSUME TypeOK, Named, [Next]_vars
  PROVE  TypeOK'
<1> USE DEF TypeOK
<1>1. ASSUME NEW n \in Names, Connection(n)
      PROVE  TypeOK'
  BY <1>1 DEF Connection, Created, Opens, PoolsOf
<1>2. ASSUME NEW p \in Calls, CallStep(p)
      PROVE  TypeOK'
  <2>1. \A n \in Names : Disconnects(n) \in SUBSET (Connections \X Pools)
    BY DEF Disconnects, PoolsOf
  <2>2. ASSUME NEW op \in {"purge", "disconnect", "reconnect", "terminate"},
               NEW name \in Names \union {None},
               NEW waits \in SUBSET (Connections \X Pools), Begin(p, op, name, waits)
        PROVE  TypeOK'
    BY <2>2 DEF Begin, Call, Waiting
  <2>3. CASE \E n \in Names : Purge(p, n) \/ Disconnect(p, n) \/ Reconnect(p, n)
    BY <2>1, <2>2, <2>3 DEF Purge, Disconnect, Reconnect
  <2>4. CASE Terminate(p)
    <3>1. UNION {Disconnects(n) : n \in Names} \in SUBSET (Connections \X Pools)
      BY <2>1
    <3> QED
      BY <2>2, <2>4, <3>1 DEF Terminate
  <2>5. calls[p] \in Call /\ {"done", "threw", "caching", "reopening"} \subseteq
                                {"new", "done", "threw"} \union Waiting
    BY DEF Waiting
  <2>6. CASE PurgeEnd(p)
    <3>1. [calls[p] EXCEPT !.at = "done"] \in Call
      BY <2>5, CallUpdates
    <3> QED
      BY <2>6, <3>1 DEF PurgeEnd
  <2>7. CASE DisconnectEnd(p) \/ TerminateCaches(p) \/ TerminateEnd(p) \/ ReconnectThrows(p)
               \/ ReconnectEnd(p)
    <3>1. \A a \in {"done", "threw", "caching"} : [calls[p] EXCEPT !.at = a] \in Call
      BY <2>5, CallUpdates
    <3>2. PICK a \in {"done", "threw", "caching"} : calls' = [calls EXCEPT ![p].at = a]
      BY <2>7 DEF DisconnectEnd, TerminateCaches, TerminateEnd, ReconnectThrows, ReconnectEnd
    <3>3. UNCHANGED <<connections, owner, open, opened, closed, failed>>
      BY <2>7 DEF DisconnectEnd, TerminateCaches, TerminateEnd, ReconnectThrows, ReconnectEnd
    <3> QED
      BY <3>1, <3>2, <3>3
  <2>8. CASE ReconnectCreates(p)
    <3>1. PICK c \in Connections : /\ Created(calls[p].name, c)
                                  /\ calls' = [calls EXCEPT ![p].at = "done", ![p].result = c]
      BY <2>8 DEF ReconnectCreates
    <3>2. [calls[p] EXCEPT !.at = "done", !.result = c] \in Call
      BY <2>5, CallUpdates
    <3>3. calls' \in [Calls -> Call]
      BY <3>1, <3>2
    <3>4. calls[p].name \in Names \union {None}
      BY <2>5 DEF Call
    <3>5. UNCHANGED <<closed, failed>>
      BY <2>8 DEF ReconnectCreates
    <3> QED
      BY <3>1, <3>3, <3>4, <3>5 DEF Created, Opens, PoolsOf
  <2>9. CASE ReconnectAgain(p)
    <3> DEFINE c == connections[calls[p].name]
               s == {c} \X PoolsOf(calls[p].name)
    <3>1. calls[p].name \in Names
      BY <2>9 DEF ReconnectAgain, Awaited, Named
    <3>2. c \in Connections /\ s \in SUBSET (Connections \X Pools)
      BY <3>1, <2>9 DEF ReconnectAgain, PoolsOf
    <3>3. [calls[p] EXCEPT !.at = "reopening", !.result = c, !.waits = s] \in Call
      BY <2>5, <3>2, CallUpdates
    <3>4. calls' \in [Calls -> Call]
      BY <2>9, <3>3 DEF ReconnectAgain
    <3> QED
      BY <2>9, <3>4 DEF ReconnectAgain
  <2> QED
    BY <1>2, <2>3, <2>4, <2>6, <2>7, <2>8, <2>9 DEF CallStep
<1>3. ASSUME NEW p \in Calls, Pool(p)
      PROVE  TypeOK'
  <2>1. PICK w \in Connections \X Pools : Disconnected(p, w) \/ Reopened(p, w) \/ NotReopened(p, w)
    BY <1>3 DEF Pool
  <2>2. /\ calls[p] \in Call /\ calls[p].waits \ {w} \in SUBSET (Connections \X Pools)
        /\ "threw" \in {"new", "done", "threw"} \union Waiting
    BY DEF Call
  <2>3. /\ [calls[p] EXCEPT !.waits = @ \ {w}] \in Call
        /\ [calls[p] EXCEPT !.waits = @ \ {w}, !.at = "threw"] \in Call
    BY <2>2, CallUpdates
  <2>4. calls' \in [Calls -> Call]
    BY <2>1, <2>3 DEF Disconnected, Reopened, NotReopened
  <2> QED
    BY <2>1, <2>4 DEF Disconnected, Reopened, NotReopened, Opens, Closes
<1>4. CASE UNCHANGED vars
  BY <1>4 DEF vars
<1> QED
  BY <1>1, <1>2, <1>3, <1>4 DEF Next

-------------------------------------------------------------------------------
(* The parts of the invariant that are not its type.                             *)
Parts ==
  /\ Owned /\ Named /\ PurgeAccounts /\ TerminateAccounts
  /\ DroppedByPurge /\ LostPoolExplained /\ ReconnectAccounts

(* What a step of a call makes of it, and of no other.                           *)
Becomes(p, at, waits, result) ==
  /\ \A q \in Calls : q # p => calls'[q] = calls[q]
  /\ calls'[p].op = calls[p].op /\ calls'[p].name = calls[p].name
  /\ calls'[p].at = at /\ calls'[p].waits = waits /\ calls'[p].result = result

(* A new connection: its pools open for every purge and terminate under way.   *)
LEMMA ConnectionPreserves ==
  ASSUME TypeOK, Parts, NEW n \in Names, Connection(n)
  PROVE  Parts'
<1> USE DEF Parts
<1>1. PICK c \in Connections : Created(n, c) /\ UNCHANGED <<calls, closed, failed>>
  BY DEF Connection
<1>2. \A w \in open' : Registered(w[1])' =>
         \/ w \in open /\ Registered(w[1]) /\ owner'[w[1]] = owner[w[1]]
         \/ w \in {c} \X PoolsOf(n)
  BY <1>1 DEF Created, Registered, Owned
<1>3. \A q \in Calls : Closing(q) => opened'[q] = opened[q] \union ({c} \X PoolsOf(n))
  BY <1>1 DEF Created, Opens
<1>4. Owned'
  BY <1>1, <1>2, <1>3 DEF TypeOK, Owned, Created
<1>5. Named'
  BY <1>1, <1>2, <1>3 DEF Named, Created
<1>6. PurgeAccounts'
  BY <1>1, <1>2, <1>3 DEF PurgeAccounts, Closing, Rest
<1>7. TerminateAccounts'
  BY <1>1, <1>2, <1>3 DEF TerminateAccounts, Closing, Rest
<1>8. DroppedByPurge'
  BY <1>1, <1>2, <1>3 DEF TypeOK, DroppedByPurge, Created, Registered
<1>9. LostPoolExplained'
  BY <1>1, <1>2, <1>3 DEF TypeOK, LostPoolExplained, Created, Closing, Registered
<1>10. ReconnectAccounts'
  BY <1>1, <1>2, <1>3 DEF ReconnectAccounts, Created
<1> QED
  BY <1>4, <1>5, <1>6, <1>7, <1>8, <1>9, <1>10

(* So they do when a reconnect finds no connection and makes one.              *)
LEMMA ReconnectCreatesPreserves ==
  ASSUME TypeOK, Parts, NEW p \in Calls, ReconnectCreates(p)
  PROVE  Parts'
<1> USE DEF Parts
<1>1. /\ calls[p].op = "reconnect" /\ calls[p].at = "disconnecting" /\ calls[p].waits = {}
      /\ calls[p].name \in Names
  BY DEF ReconnectCreates, Awaited, AllSettled, Named
<1>2. PICK c \in Connections : /\ Created(calls[p].name, c)
                              /\ Becomes(p, "done", {}, c)
                              /\ UNCHANGED <<closed, failed>>
  BY <1>1 DEF ReconnectCreates, Becomes, TypeOK
<1>3. \A w \in open' : Registered(w[1])' =>
         \/ w \in open /\ Registered(w[1]) /\ owner'[w[1]] = owner[w[1]]
         \/ w \in {c} \X PoolsOf(calls[p].name)
  BY <1>1, <1>2 DEF Created, Registered, Owned
<1>4. \A q \in Calls : Closing(q) => opened'[q] = opened[q] \union ({c} \X PoolsOf(calls[p].name))
  BY <1>1, <1>2 DEF Created, Opens
<1>5. Owned'
  BY <1>1, <1>2 DEF TypeOK, Owned, Created
<1>6. Named'
  BY <1>1, <1>2 DEF Named, Created, Becomes
<1>7. PurgeAccounts'
  BY <1>1, <1>2, <1>3, <1>4 DEF PurgeAccounts, Closing, Rest, Becomes
<1>8. TerminateAccounts'
  BY <1>1, <1>2, <1>3, <1>4 DEF TerminateAccounts, Closing, Rest, Becomes
<1>9. DroppedByPurge'
  BY <1>1, <1>2 DEF TypeOK, DroppedByPurge, Created, Registered, Becomes
<1>10. LostPoolExplained'
  BY <1>1, <1>2 DEF TypeOK, LostPoolExplained, Created, Opens, Closing, Registered, Becomes
<1>11. ReconnectAccounts'
  BY <1>1, <1>2 DEF ReconnectAccounts, Created, Becomes
<1> QED
  BY <1>5, <1>6, <1>7, <1>8, <1>9, <1>10, <1>11

(* A call that begins waits for all pools of the connections it closes.        *)
LEMMA BeginPreserves ==
  ASSUME TypeOK, Parts, NEW p \in Calls, NEW op \in {"purge", "disconnect", "reconnect", "terminate"},
         NEW name \in Names \union {None}, op # "terminate" => name \in Names,
         NEW waits \in SUBSET (Connections \X Pools), Begin(p, op, name, waits),
         \A n \in Names : n = name \/ op = "terminate" => Disconnects(n) \subseteq waits
  PROVE  Parts'
<1> USE DEF Parts
<1>1. /\ \A q \in Calls : q # p => calls'[q] = calls[q]
      /\ calls'[p].op = op /\ calls'[p].name = name /\ calls'[p].at = "disconnecting"
      /\ calls'[p].waits = waits /\ calls'[p].result = None
      /\ calls[p].at = "new" /\ calls[p].op = "none"
      /\ UNCHANGED <<connections, owner, open, opened, closed, failed>>
  BY DEF Begin, TypeOK, Named
<1>2. \A w \in open, n \in Names :
        Registered(w[1]) /\ owner[w[1]] = n /\ (n = name \/ op = "terminate") => w \in waits
  BY DEF Disconnects, Registered, TypeOK, Owned
<1>3. Owned'
  BY <1>1, <1>2 DEF Owned
<1>4. Named'
  BY <1>1, <1>2 DEF Named
<1>5. PurgeAccounts'
  BY <1>1, <1>2 DEF PurgeAccounts, Registered, Rest
<1>6. TerminateAccounts'
  BY <1>1, <1>2 DEF TypeOK, TerminateAccounts, Registered, Rest
<1>7. DroppedByPurge'
  BY <1>1, <1>2 DEF DroppedByPurge, Registered
<1>8. LostPoolExplained'
  BY <1>1, <1>2 DEF LostPoolExplained, Registered
<1>9. ReconnectAccounts'
  BY <1>1, <1>2 DEF ReconnectAccounts
<1> QED
  BY <1>3, <1>4, <1>5, <1>6, <1>7, <1>8, <1>9

(* A pool that closes is open no more; one that is rejected is remembered.     *)
LEMMA DisconnectedPreserves ==
  ASSUME TypeOK, Parts, NEW p \in Calls, NEW w \in Connections \X Pools, Disconnected(p, w)
  PROVE  Parts'
<1> USE DEF Parts
<1>1. /\ Becomes(p, "disconnecting", calls[p].waits \ {w}, calls[p].result)
      /\ calls[p].at = "disconnecting" /\ w \in calls[p].waits
      /\ UNCHANGED <<connections, owner, opened>>
  BY DEF Disconnected, Becomes, TypeOK
<1>2. \/ /\ open' = open \ {w} /\ UNCHANGED failed
         /\ \A q \in Calls : calls[q].op = "reconnect" => closed'[q] = closed[q] \union {w}
      \/ /\ UNCHANGED <<open, closed>>
         /\ \A q \in Calls : failed'[q] = IF q = p THEN failed[q] \union {w} ELSE failed[q]
  BY DEF Disconnected, Closes, TypeOK
<1>3. \A q \in Calls, v \in open' : v \in open /\ (v \in Rest(q) => v \in Rest(q)')
  BY <1>1, <1>2 DEF Rest, Becomes
<1>4. Owned'
  BY <1>1, <1>2 DEF Owned
<1>5. Named'
  BY <1>1, <1>2 DEF Named, Becomes
<1>6. PurgeAccounts'
  BY <1>1, <1>3 DEF PurgeAccounts, Registered, Becomes
<1>7. TerminateAccounts'
  BY <1>1, <1>3 DEF TerminateAccounts, Registered, Becomes
<1>8. DroppedByPurge'
  BY <1>1, <1>2 DEF DroppedByPurge, Registered, Becomes
<1>9. LostPoolExplained'
  BY <1>1, <1>2 DEF TypeOK, LostPoolExplained, Registered, Becomes
<1>10. ReconnectAccounts'
  BY <1>1, <1>2 DEF ReconnectAccounts, Becomes
<1> QED
  BY <1>4, <1>5, <1>6, <1>7, <1>8, <1>9, <1>10

(* A pool of what a purge drops is open only if it opened or was rejected.     *)
LEMMA PurgeEndPreserves ==
  ASSUME TypeOK, Parts, NEW p \in Calls, PurgeEnd(p)
  PROVE  Parts'
<1> USE DEF Parts
<1>1. /\ calls[p].op = "purge" /\ calls[p].at = "disconnecting" /\ calls[p].waits = {}
      /\ calls[p].name \in Names
  BY DEF PurgeEnd, Awaited, AllSettled, Named
<1>2. /\ Becomes(p, "done", {}, calls[p].result)
      /\ \A n \in Names : connections'[n] = IF n = calls[p].name THEN None ELSE connections[n]
      /\ UNCHANGED <<owner, open, opened, closed, failed>>
  BY <1>1 DEF PurgeEnd, Becomes, TypeOK
<1>3. Owned'
  BY <1>1, <1>2 DEF Owned
<1>4. Named'
  BY <1>1, <1>2 DEF Named, Becomes
<1>5. PurgeAccounts'
  BY <1>1, <1>2 DEF TypeOK, PurgeAccounts, Registered, Rest, Becomes
<1>6. TerminateAccounts'
  BY <1>1, <1>2 DEF TypeOK, TerminateAccounts, Registered, Rest, Becomes
<1>7. DroppedByPurge'
  BY <1>1, <1>2 DEF TypeOK, DroppedByPurge, Registered, Becomes
<1>8. LostPoolExplained'
  <2> SUFFICES ASSUME NEW w \in open, ~Registered(w[1])'
               PROVE  \E q \in Calls : /\ calls'[q].op = "purge" /\ calls'[q].at = "done"
                                       /\ calls'[q].name = owner[w[1]]
                                       /\ w \in opened[q] \union failed[q]
    BY <1>2 DEF LostPoolExplained
  <2>1. CASE Registered(w[1])
    <3>1. owner[w[1]] = calls[p].name
      BY <2>1, <1>2 DEF Registered, Owned, TypeOK
    <3>2. w \in opened[p] \union failed[p]
      BY <2>1, <3>1, <1>1 DEF PurgeAccounts, Rest
    <3> QED
      BY <3>1, <3>2, <1>1, <1>2 DEF Becomes
  <2>2. CASE ~Registered(w[1])
    BY <2>2, <1>1, <1>2 DEF LostPoolExplained, Becomes
  <2> QED
    BY <2>1, <2>2
<1>9. ReconnectAccounts'
  BY <1>1, <1>2 DEF ReconnectAccounts, Becomes
<1> QED
  BY <1>3, <1>4, <1>5, <1>6, <1>7, <1>8, <1>9

(* The ends of the other calls change nothing but the call.                    *)
LEMMA EndPreserves ==
  ASSUME TypeOK, Parts, NEW p \in Calls,
         DisconnectEnd(p) \/ TerminateCaches(p) \/ TerminateEnd(p) \/ ReconnectThrows(p)
           \/ ReconnectEnd(p)
  PROVE  Parts'
<1> USE DEF Parts
<1>1. /\ calls[p].waits = {}
      /\ calls[p].op \in {"disconnect", "terminate", "reconnect"}
      /\ calls[p].op = "reconnect" => calls'[p].at = "threw" \/ calls[p].at = "reopening"
      /\ UNCHANGED <<connections, owner, open, opened, closed, failed>>
  BY DEF DisconnectEnd, TerminateCaches, TerminateEnd, ReconnectThrows, ReconnectEnd, Awaited,
         AllSettled, Named, TypeOK, Call
<1>2. PICK a \in {"done", "caching", "threw"} :
        /\ Becomes(p, a, calls[p].waits, calls[p].result)
        /\ a = "caching" => calls[p].op = "terminate"
        /\ a = "threw" => calls[p].op = "reconnect"
  BY DEF DisconnectEnd, TerminateCaches, TerminateEnd, ReconnectThrows, ReconnectEnd, Awaited,
         Becomes, TypeOK, Call
<1>3. Owned'
  BY <1>1, <1>2 DEF Owned
<1>4. Named'
  BY <1>1, <1>2 DEF Named, Becomes
<1>5. PurgeAccounts'
  BY <1>1, <1>2 DEF PurgeAccounts, Registered, Rest, Becomes
<1>6. TerminateAccounts'
  BY <1>1, <1>2 DEF TerminateAccounts, Registered, Rest, Becomes
<1>7. DroppedByPurge'
  BY <1>1, <1>2 DEF DroppedByPurge, Registered, Becomes
<1>8. LostPoolExplained'
  BY <1>1, <1>2 DEF LostPoolExplained, Registered, Becomes
<1>9. ReconnectAccounts'
  BY <1>1, <1>2 DEF ReconnectAccounts, Becomes
<1> QED
  BY <1>3, <1>4, <1>5, <1>6, <1>7, <1>8, <1>9

(* A reconnect that goes on waits for all pools of what it returns.            *)
LEMMA ReconnectAgainPreserves ==
  ASSUME TypeOK, Parts, NEW p \in Calls, ReconnectAgain(p)
  PROVE  Parts'
<1> USE DEF Parts
<1> DEFINE c == connections[calls[p].name]
<1>1. /\ calls[p].op = "reconnect" /\ calls[p].at = "disconnecting" /\ calls[p].waits = {}
      /\ calls[p].name \in Names /\ c \in Connections /\ owner[c] = calls[p].name
  BY DEF ReconnectAgain, Awaited, AllSettled, Named, TypeOK, Owned
<1>2. /\ Becomes(p, "reopening", {c} \X PoolsOf(calls[p].name), c)
      /\ \A q \in Calls : q # p => closed'[q] = closed[q]
      /\ UNCHANGED <<connections, owner, open, opened, failed>>
  BY <1>1 DEF ReconnectAgain, Becomes, TypeOK
<1> HIDE DEF c
<1>3. Owned'
  BY <1>1, <1>2 DEF Owned
<1>4. Named'
  BY <1>1, <1>2 DEF Named, Becomes
<1>5. PurgeAccounts'
  BY <1>1, <1>2 DEF PurgeAccounts, Registered, Rest, Becomes
<1>6. TerminateAccounts'
  BY <1>1, <1>2 DEF TerminateAccounts, Registered, Rest, Becomes
<1>7. DroppedByPurge'
  BY <1>1, <1>2 DEF DroppedByPurge, Registered, Becomes
<1>8. LostPoolExplained'
  BY <1>1, <1>2 DEF LostPoolExplained, Registered, Becomes
<1>9. ReconnectAccounts'
  BY <1>1, <1>2 DEF ReconnectAccounts, Becomes
<1> QED
  BY <1>3, <1>4, <1>5, <1>6, <1>7, <1>8, <1>9

(* A pool that opens again, known or dropped, is accounted for.                *)
LEMMA ReopenedPreserves ==
  ASSUME TypeOK, Parts, NEW p \in Calls, NEW w \in Connections \X Pools,
         Reopened(p, w) \/ NotReopened(p, w)
  PROVE  Parts'
<1> USE DEF Parts
<1>1. /\ calls[p].op = "reconnect" /\ calls[p].at \in {"reopening", "threw"} /\ w \in calls[p].waits
      /\ calls[p].name \in Names /\ owner[w[1]] = calls[p].name
      /\ w[2] \in PoolsOf(owner[w[1]])
      /\ UNCHANGED <<connections, owner, closed, failed>>
  BY DEF Reopened, NotReopened, Named
<1>2. \E at \in {calls[p].at, "threw"} :
         /\ Becomes(p, at, calls[p].waits \ {w}, calls[p].result)
         /\ at # "threw" => w \in open'
  BY DEF Reopened, NotReopened, Becomes, TypeOK, Call
<1>3. \/ /\ open' = open \union {w}
         /\ \A q \in Calls : Closing(q) => opened'[q] = opened[q] \union {w}
      \/ UNCHANGED <<open, opened>>
  BY DEF Reopened, NotReopened, Opens
<1>4. Owned'
  BY <1>1, <1>2, <1>3 DEF Owned
<1>5. Named'
  BY <1>1, <1>2, <1>3 DEF Named, Becomes
<1>6. PurgeAccounts'
  BY <1>1, <1>2, <1>3 DEF PurgeAccounts, Closing, Registered, Rest, Becomes
<1>7. TerminateAccounts'
  BY <1>1, <1>2, <1>3 DEF TerminateAccounts, Closing, Registered, Rest, Becomes
<1>8. DroppedByPurge'
  BY <1>1, <1>2, <1>3 DEF DroppedByPurge, Registered, Becomes
<1>9. LostPoolExplained'
  <2> SUFFICES ASSUME NEW v \in open', ~Registered(v[1])
               PROVE  \E q \in Calls : /\ calls'[q].op = "purge" /\ calls'[q].at = "done"
                                       /\ calls'[q].name = owner[v[1]]
                                       /\ v \in opened'[q] \union failed[q]
    BY <1>1 DEF LostPoolExplained, Registered
  <2>1. PICK q \in Calls : /\ calls[q].op = "purge" /\ calls[q].at = "done"
                          /\ calls[q].name = owner[v[1]]
                          /\ \/ v \in opened[q] \union failed[q]
                             \/ v = w /\ v \notin open
    <3>1. CASE v \in open
      BY <3>1 DEF LostPoolExplained
    <3>2. CASE v \notin open
      <4>1. v = w
        BY <3>2, <1>3
      <4>2. w[1] \in Connections /\ owner[w[1]] # None
        BY <1>1
      <4> QED
        BY <3>2, <4>1, <4>2 DEF DroppedByPurge
    <3> QED
      BY <3>1, <3>2
  <2>2. q # p
    BY <2>1, <1>1
  <2>3. v \in opened'[q] \union failed[q]
    BY <2>1, <1>3 DEF Closing
  <2> QED
    BY <2>1, <2>2, <2>3, <1>2 DEF Becomes
<1>10. ReconnectAccounts'
  BY <1>1, <1>2, <1>3 DEF ReconnectAccounts, Becomes
<1> QED
  BY <1>4, <1>5, <1>6, <1>7, <1>8, <1>9, <1>10

-------------------------------------------------------------------------------
(* Every step of a call keeps the parts.                                       *)
LEMMA CallStepPreserves ==
  ASSUME TypeOK, Parts, NEW p \in Calls, CallStep(p)
  PROVE  Parts'
<1>1. \A n \in Names : Disconnects(n) \in SUBSET (Connections \X Pools)
  BY DEF TypeOK, Disconnects, PoolsOf
<1>2. CASE \E n \in Names : Purge(p, n) \/ Disconnect(p, n) \/ Reconnect(p, n)
  <2>1. PICK n \in Names, op \in {"purge", "disconnect", "reconnect"} :
          Begin(p, op, n, Disconnects(n))
    BY <1>2 DEF Purge, Disconnect, Reconnect
  <2>2. op # "terminate" /\ n # None
    OBVIOUS
  <2> QED
    BY <1>1, <2>1, <2>2, BeginPreserves
<1>3. CASE Terminate(p)
  <2> DEFINE all == UNION {Disconnects(n) : n \in Names}
  <2>1. all \in SUBSET (Connections \X Pools) /\ \A n \in Names : Disconnects(n) \subseteq all
    BY <1>1
  <2>2. Begin(p, "terminate", None, all)
    BY <1>3 DEF Terminate
  <2> HIDE DEF all
  <2> QED
    BY <2>1, <2>2, BeginPreserves
<1> QED
  BY <1>2, <1>3, PurgeEndPreserves, EndPreserves, ReconnectCreatesPreserves,
     ReconnectAgainPreserves DEF CallStep

(* The invariant holds initially, and every step keeps it.                       *)
LEMMA ManagerInvariant == Spec => [](TypeOK /\ Parts)
<1>1. Init => TypeOK /\ Parts
  BY DEF Init, TypeOK, Call, Waiting, Parts, Owned, Named, PurgeAccounts, TerminateAccounts,
         DroppedByPurge, LostPoolExplained, ReconnectAccounts
<1>2. TypeOK /\ Parts /\ [Next]_vars => (TypeOK /\ Parts)'
  <2> SUFFICES ASSUME TypeOK, Parts, [Next]_vars PROVE TypeOK' /\ Parts'
    OBVIOUS
  <2>1. TypeOK'
    BY TypePreserved DEF Parts
  <2>2. CASE \E n \in Names : Connection(n)
    BY <2>1, <2>2, ConnectionPreserves
  <2>3. CASE \E p \in Calls : CallStep(p)
    BY <2>1, <2>3, CallStepPreserves
  <2>4. CASE \E p \in Calls : Pool(p)
    BY <2>1, <2>4, DisconnectedPreserves, ReopenedPreserves DEF Pool
  <2>5. CASE UNCHANGED vars
    BY <2>1, <2>5 DEF vars, Parts, Owned, Named, PurgeAccounts, TerminateAccounts, DroppedByPurge,
                      LostPoolExplained, ReconnectAccounts, Registered, Rest
  <2> QED
    BY <2>1, <2>2, <2>3, <2>4, <2>5 DEF Next
<1> QED
  BY <1>1, <1>2, PTL DEF Spec

(* The state of the manager, its connections and the calls keeps its type.        *)
THEOREM ManagerTypeCorrect == Spec => []TypeOK
BY ManagerInvariant, PTL

(* However many calls overlap, a pool that the manager has lost track of and that  *)
(* is open opened beside the purge that dropped its connection, or that purge      *)
(* could not disconnect it.                                                      *)
THEOREM PurgeLosesNothing == Spec => []LostPoolExplained
<1>1. Parts => LostPoolExplained
  BY DEF Parts
<1> QED
  BY <1>1, ManagerInvariant, PTL

(* After terminate, the pools of the manager that are open opened since it began,  *)
(* or could not be disconnected.                                                 *)
THEOREM TerminateCloses == Spec => []TerminatedClosed
<1>1. Parts => TerminatedClosed
  BY DEF Parts, Named, TerminateAccounts, TerminatedClosed, Rest
<1> QED
  BY <1>1, ManagerInvariant, PTL

(* What reconnect returns has every pool open that no other call has closed.      *)
THEOREM ReconnectReturnsUsable == Spec => []ReconnectedUsable
<1>1. Parts => ReconnectedUsable
  BY DEF Parts, Named, ReconnectAccounts, ReconnectedUsable
<1> QED
  BY <1>1, ManagerInvariant, PTL

===============================================================================
