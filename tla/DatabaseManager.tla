---------------------------- MODULE DatabaseManager ----------------------------
(* The connections of a DatabaseManager and the pools of each: calls of          *)
(* connection, which is one step, and of purge, disconnect, reconnect and          *)
(* terminate, split at their awaits, by callers that do not wait for one another. *)
(* The pool (a Pdo of the lupdo package) is external: a disconnect or a reconnect *)
(* of it takes effect, or is rejected and changes nothing, when it settles.       *)
EXTENDS FiniteSets

CONSTANTS
  Names,        \* the connections of the configuration
  ReadWrite,    \* those configured with read and write apart
  Connections,  \* connection objects; bound: as many as are created
  Calls,        \* calls that await something; bound: as many as are made
  None          \* no connection, no name

ASSUME ManagerAssumption ==
  /\ ReadWrite \subseteq Names
  /\ None \notin Connections /\ None \notin Names

Pools == {"pdo", "schemaPdo", "readPdo"}

VARIABLES
  connections,  \* name |-> the connection of the manager, or None
  owner,        \* connection |-> its name, None before it is created
  open,         \* <<connection, pool>>: the pools that are open
  calls,        \* call |-> what it does and where it awaits
  (* History, which no step reads: *)
  opened,       \* purge or terminate |-> the pools that opened since it began
  closed,       \* reconnect |-> the pools that closed since it began to reopen
  failed        \* call |-> the pools it could not disconnect

vars == <<connections, owner, open, calls, opened, closed, failed>>

Waiting == {"disconnecting", "reopening", "caching"}
Call == [op : {"none", "purge", "disconnect", "reconnect", "terminate"},
         name : Names \union {None},
         at : {"new", "done", "threw"} \union Waiting,
         waits : SUBSET (Connections \X Pools),
         result : Connections \union {None}]

TypeOK ==
  /\ connections \in [Names -> Connections \union {None}]
  /\ owner \in [Connections -> Names \union {None}]
  /\ open \subseteq Connections \X Pools
  /\ calls \in [Calls -> Call]
  /\ opened \in [Calls -> SUBSET (Connections \X Pools)]
  /\ closed \in [Calls -> SUBSET (Connections \X Pools)]
  /\ failed \in [Calls -> SUBSET (Connections \X Pools)]

Registered(c) == owner[c] # None /\ connections[owner[c]] = c

PoolsOf(name) == IF name \in ReadWrite THEN Pools ELSE Pools \ {"readPdo"}

(* Mutant: the pool for reading is not disconnected.                             *)
DisconnectWritePools(name) ==
  IF connections[name] = None THEN {} ELSE {connections[name]} \X {"pdo", "schemaPdo"}

(* Connection.disconnect of the connection of a name, if there is one.           *)
Disconnects(name) ==
  IF connections[name] = None THEN {} ELSE {connections[name]} \X PoolsOf(name)

Closing(p) == calls[p].op \in {"purge", "terminate"}
Opens(ws) == opened' = [p \in Calls |-> IF Closing(p) THEN opened[p] \union ws ELSE {}]
Closes(w) ==
  closed' = [p \in Calls |-> IF calls[p].op = "reconnect" THEN closed[p] \union {w} ELSE {}]

-------------------------------------------------------------------------------
Init ==
  /\ connections = [n \in Names |-> None]
  /\ owner = [c \in Connections |-> None]
  /\ open = {}
  /\ calls = [p \in Calls |-> [op |-> "none", name |-> None, at |-> "new",
                               waits |-> {}, result |-> None]]
  /\ opened = [p \in Calls |-> {}]
  /\ closed = [p \in Calls |-> {}]
  /\ failed = [p \in Calls |-> {}]

(* connection(name) makes the connection that the manager does not have, with its  *)
(* pools; one it has is returned, and a driver, connector or configuration that    *)
(* throws leaves nothing: those change no state.                                 *)
Created(name, c) ==
  /\ connections[name] = None /\ owner[c] = None
  /\ owner' = [owner EXCEPT ![c] = name]
  /\ connections' = [connections EXCEPT ![name] = c]
  /\ open' = open \union ({c} \X PoolsOf(name))
  /\ Opens({c} \X PoolsOf(name))

Connection(name) ==
  /\ \E c \in Connections : Created(name, c)
  /\ UNCHANGED <<calls, closed, failed>>

(* purge, disconnect and reconnect begin with the disconnect of the connection,   *)
(* terminate with that of every connection there is.                             *)
Begin(p, op, name, waits) ==
  /\ calls[p].at = "new"
  /\ calls' = [calls EXCEPT ![p] = [op |-> op, name |-> name, at |-> "disconnecting",
                                    waits |-> waits, result |-> None]]
  /\ UNCHANGED <<connections, owner, open, opened, closed, failed>>

Purge(p, name) == Begin(p, "purge", name, Disconnects(name))
Disconnect(p, name) == Begin(p, "disconnect", name, Disconnects(name))
Reconnect(p, name) == Begin(p, "reconnect", name, Disconnects(name))
Terminate(p) == Begin(p, "terminate", None, UNION {Disconnects(n) : n \in Names})

(* A pool is disconnected, or its disconnect is rejected, which is swallowed.    *)
Disconnected(p, w) ==
  /\ calls[p].at = "disconnecting" /\ w \in calls[p].waits
  /\ calls' = [calls EXCEPT ![p].waits = @ \ {w}]
  /\ \/ /\ open' = open \ {w}
        /\ Closes(w)
        /\ UNCHANGED failed
     \/ /\ failed' = [failed EXCEPT ![p] = @ \union {w}]
        /\ UNCHANGED <<open, closed>>
  /\ UNCHANGED <<connections, owner, opened>>

(* Mutant: one rejected disconnect ends the wait for all of them.               *)
AllSettledOrRejected(p) == calls[p].waits = {} \/ failed[p] # {}

AllSettled(p) == calls[p].waits = {}

(* Awaited(p, op): every disconnect of the call has settled.                    *)
Awaited(p, op) ==
  calls[p].op = op /\ calls[p].at = "disconnecting" /\ AllSettled(p)

PurgeEnd(p) ==
  /\ Awaited(p, "purge")
  /\ connections' = [connections EXCEPT ![calls[p].name] = None]
  /\ calls' = [calls EXCEPT ![p].at = "done"]
  /\ UNCHANGED <<owner, open, opened, closed, failed>>

DisconnectEnd(p) ==
  /\ Awaited(p, "disconnect")
  /\ calls' = [calls EXCEPT ![p].at = "done"]
  /\ UNCHANGED <<connections, owner, open, opened, closed, failed>>

(* terminate then disconnects the drivers of the caches, and awaits those.       *)
TerminateCaches(p) ==
  /\ Awaited(p, "terminate")
  /\ calls' = [calls EXCEPT ![p].at = "caching"]
  /\ UNCHANGED <<connections, owner, open, opened, closed, failed>>

TerminateEnd(p) ==
  /\ calls[p].at = "caching"
  /\ calls' = [calls EXCEPT ![p].at = "done"]
  /\ UNCHANGED <<connections, owner, open, opened, closed, failed>>

(* reconnect goes on with the connection of the name after the disconnect: none,   *)
(* and then a new one is its result, unless making it throws; or that one, which   *)
(* need not be the one it disconnected.                                          *)
ReconnectCreates(p) ==
  /\ Awaited(p, "reconnect")
  /\ \E c \in Connections :
       /\ Created(calls[p].name, c)
       /\ calls' = [calls EXCEPT ![p].at = "done", ![p].result = c]
  /\ UNCHANGED <<closed, failed>>

ReconnectThrows(p) ==
  /\ Awaited(p, "reconnect") /\ connections[calls[p].name] = None
  /\ calls' = [calls EXCEPT ![p].at = "threw"]
  /\ UNCHANGED <<connections, owner, open, opened, closed, failed>>

ReconnectAgain(p) ==
  /\ Awaited(p, "reconnect")
  /\ LET c == connections[calls[p].name]
     IN /\ c # None
        /\ calls' = [calls EXCEPT ![p].at = "reopening", ![p].result = c,
                                  ![p].waits = {c} \X PoolsOf(calls[p].name)]
  /\ closed' = [closed EXCEPT ![p] = {}]
  /\ UNCHANGED <<connections, owner, open, opened, failed>>

(* Mutant: the reconnect of the first pool ends the call.                        *)
ReopenedFirst(p, w) ==
  /\ calls[p].at = "reopening" /\ w \in calls[p].waits
  /\ calls' = [calls EXCEPT ![p].waits = @ \ {w}, ![p].at = "done"]
  /\ open' = open \union {w}
  /\ Opens({w})
  /\ UNCHANGED <<connections, owner, closed, failed>>

(* A pool opens again; one that is rejected makes the call throw, and the others  *)
(* go on without it.                                                            *)
Reopened(p, w) ==
  /\ calls[p].at \in {"reopening", "threw"} /\ w \in calls[p].waits
  /\ calls' = [calls EXCEPT ![p].waits = @ \ {w}]
  /\ open' = open \union {w}
  /\ Opens({w})
  /\ UNCHANGED <<connections, owner, closed, failed>>

NotReopened(p, w) ==
  /\ calls[p].at \in {"reopening", "threw"} /\ w \in calls[p].waits
  /\ calls' = [calls EXCEPT ![p].waits = @ \ {w}, ![p].at = "threw"]
  /\ UNCHANGED <<connections, owner, open, opened, closed, failed>>

ReconnectEnd(p) ==
  /\ calls[p].at = "reopening" /\ calls[p].waits = {}
  /\ calls' = [calls EXCEPT ![p].at = "done"]
  /\ UNCHANGED <<connections, owner, open, opened, closed, failed>>

Pool(p) ==
  \E w \in Connections \X Pools : Disconnected(p, w) \/ Reopened(p, w) \/ NotReopened(p, w)

CallStep(p) ==
  \/ \E n \in Names : Purge(p, n) \/ Disconnect(p, n) \/ Reconnect(p, n)
  \/ Terminate(p) \/ PurgeEnd(p) \/ DisconnectEnd(p) \/ TerminateCaches(p) \/ TerminateEnd(p)
  \/ ReconnectCreates(p) \/ ReconnectThrows(p) \/ ReconnectAgain(p) \/ ReconnectEnd(p)

Next == (\E n \in Names : Connection(n)) \/ (\E p \in Calls : CallStep(p) \/ Pool(p))

Spec == Init /\ [][Next]_vars

-------------------------------------------------------------------------------
(* A connection that the manager no longer knows has an open pool only if the     *)
(* pool opened while or after the purge that dropped it ran, or the disconnect of *)
(* that purge was rejected: purge reads the entry, awaits, and deletes whatever   *)
(* entry there is then (database-manager.ts:99-100).                             *)
LostPoolExplained ==
  \A w \in open : ~Registered(w[1]) =>
    \E p \in Calls : /\ calls[p].op = "purge" /\ calls[p].at = "done"
                     /\ calls[p].name = owner[w[1]]
                     /\ w \in opened[p] \union failed[p]

(* When terminate has returned, a pool of a connection of the manager is open     *)
(* only if it opened since the call began, or its disconnect was rejected.       *)
TerminatedClosed ==
  \A p \in Calls : calls[p].op = "terminate" /\ calls[p].at \in {"caching", "done"} =>
    \A w \in open : Registered(w[1]) => w \in opened[p] \union failed[p]

(* The connection a reconnect returns has every pool open, but for those that     *)
(* another call closed after the reconnect had disconnected its own.             *)
ReconnectedUsable ==
  \A p \in Calls : calls[p].op = "reconnect" /\ calls[p].at = "done" =>
    \A k \in PoolsOf(calls[p].name) :
      LET w == <<calls[p].result, k>>
      IN w \in open \/ w \in closed[p]

===============================================================================
