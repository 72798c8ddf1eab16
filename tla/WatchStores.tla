----------------------------- MODULE WatchStores -----------------------------
(***************************************************************************)
(* The in-memory stores (internal/store) and what keeps them in step with  *)
(* Postgres: NOTIFY and the listener (internal/pgnotify), the reloads of   *)
(* cmd/tronvent/main.go and the handlers of internal/api that change a     *)
(* watch list or an endpoint and then their own replica's store.           *)
(*                                                                         *)
(* Every replica keeps three stores.  A reload is a query followed, after  *)
(* an arbitrary delay, by the exchange of the contents; it may be run by   *)
(* the listener, by main (startup, then the periodic resync) and by a      *)
(* request handler, and these do not exclude each other.                   *)
(***************************************************************************)
EXTENDS Integers

CONSTANTS
  Replica,      \* processes
  Client,       \* goroutines that serve requests, or the delivery worker
  Address, Contract, Endpoint,  \* what may be watched or subscribed
  None,         \* nothing
  Stored,       \* the rows that exist, active, when the replicas start
  Resync,       \* STATE_RESYNC_INTERVAL_SECONDS > 0
  MaxChanges,   \* bound: requests
  MaxFaults     \* bound: failed queries, lost connections, crashes

Item == Address \cup Contract \cup Endpoint

ASSUME StoresAssumption ==
  /\ Address \cap Contract = {} /\ Address \cap Endpoint = {} /\ Contract \cap Endpoint = {}
  /\ None \notin Item \cup Replica \cup Client
  /\ Client \cap (Replica \X {"listener", "main"}) = {}
  /\ Stored \subseteq Item
  /\ Resync \in BOOLEAN
  /\ MaxChanges \in Nat
  /\ MaxFaults \in Nat

Kind == {"addresses", "contracts", "endpoints"}

Members(k) == CASE k = "addresses" -> Address
                [] k = "contracts" -> Contract
                [] k = "endpoints" -> Endpoint

KindOf(i) == IF i \in Address THEN "addresses"
             ELSE IF i \in Contract THEN "contracts" ELSE "endpoints"

Value == {"absent", "active", "inactive"}

\* Who may be reloading a store.
Goroutine == (Replica \X {"listener", "main"}) \cup Client
Listener(r) == <<r, "listener">>
Main(r) == <<r, "main">>

VARIABLES
  table,      \* the rows in Postgres
  version,    \* changes announced on each channel
  memory,     \* the contents of each replica's stores
  installed,  \* the version its last reload had read
  conn,       \* the listener's connection
  notes,      \* notifications it has not taken yet
  up,         \* has main finished the startup loads?
  todo,       \* the stores a goroutine still has to reload
  snap,       \* what it has read and not installed yet
  at,         \* the replica that serves a client's request
  apply,      \* what the handler will write into its own store
  missed,     \* stores whose notification was used up by a query that failed, or
              \* whose reload was overtaken by an older one
  changes, faults

dbVars == <<table, version>>
storeVars == <<memory, installed>>
listenVars == <<conn, notes>>
clientVars == <<at, apply>>
vars == <<dbVars, storeVars, listenVars, up, todo, snap, clientVars, missed, changes, faults>>

Fault ==
  /\ faults < MaxFaults
  /\ faults' = faults + 1
  /\ UNCHANGED changes

Change ==
  /\ changes < MaxChanges
  /\ changes' = changes + 1
  /\ UNCHANGED faults

Host(g) == IF g \in Client THEN at[g] ELSE g[1]

-----------------------------------------------------------------------------
(***************************************************************************)
(* Reloading a store.                                                      *)
(***************************************************************************)

\* What ListActiveAddresses, ListActiveContracts and ListWebhookEndpoints
\* return: only the last lists rows that are not active.
View(i) ==
  IF table[i] = "active" \/ (i \in Endpoint /\ table[i] = "inactive") THEN table[i] ELSE "absent"

\* reloadAll takes the stores in this order.
Turn(g) == IF "addresses" \in todo[g] THEN "addresses"
           ELSE IF "contracts" \in todo[g] THEN "contracts" ELSE "endpoints"

\* The query of a Reload.
ReadTable(g) ==
  /\ todo[g] # {}
  /\ snap[g] = None
  /\ snap' = [snap EXCEPT ![g] = [ver |-> version[Turn(g)],
                                  rows |-> [i \in Members(Turn(g)) |-> View(i)]]]
  /\ UNCHANGED <<dbVars, storeVars, listenVars, up, todo, clientVars, missed, changes, faults>>

\* A handler that has nothing left to do answers its request.
Answered(g) == at' = IF g \in Client THEN [at EXCEPT ![g] = None] ELSE at

\* main goes on to start the API, the scanner and the worker.
StartedAfter(g, rest) ==
  up' = IF rest = {} /\ g = Main(Host(g)) THEN [up EXCEPT ![Host(g)] = "yes"] ELSE up

\* The contents are exchanged under the store's lock, whatever is in it by now.
Install(g) ==
  LET r == Host(g)
      k == Turn(g)
  IN  /\ snap[g] # None
      /\ memory' = [memory EXCEPT ![r] = [i \in Item |-> IF i \in Members(k)
                                                         THEN snap[g].rows[i] ELSE memory[r][i]]]
      /\ installed' = [installed EXCEPT ![r][k] = snap[g].ver]
      /\ missed' = IF snap[g].ver = version[k] THEN missed \ {<<r, k>>}
                   ELSE IF snap[g].ver < installed[r][k] THEN missed \cup {<<r, k>>}
                   ELSE missed
      /\ snap' = [snap EXCEPT ![g] = None]
      /\ todo' = [todo EXCEPT ![g] = @ \ {k}]
      /\ StartedAfter(g, todo[g] \ {k})
      /\ Answered(g)
      /\ UNCHANGED <<dbVars, listenVars, apply, changes, faults>>

\* The query fails.  A notification is used up all the same; a resync after a
\* reconnect fails as a whole, once the other stores had their turn; the reload
\* of a handler or of the ticker is only logged.
ReloadFails(g) ==
  LET r == Host(g)
      k == Turn(g)
  IN  /\ todo[g] # {}
      /\ snap[g] = None
      /\ g = Main(r) => up[r] = "yes"
      /\ Fault
      /\ todo' = [todo EXCEPT ![g] = @ \ {k}]
      /\ missed' = IF g = Listener(r) /\ conn[r] = "listening"
                   THEN missed \cup {<<r, k>>} ELSE missed
      /\ conn' = IF g = Listener(r) /\ conn[r] = "resync"
                 THEN [conn EXCEPT ![r] = "failing"] ELSE conn
      /\ Answered(g)
      /\ UNCHANGED <<dbVars, storeVars, notes, up, snap, apply>>

-----------------------------------------------------------------------------
(***************************************************************************)
(* The listener (Run and listenOnce).                                      *)
(***************************************************************************)

\* (Mutant: the notification is dropped while a resync is running.)
NotifyListening(k) ==
  notes' = [r \in Replica |-> IF conn[r] = "listening"
                              THEN [notes[r] EXCEPT ![k] = @ + 1] ELSE notes[r]]

\* pg_notify reaches every connection that has executed LISTEN.
Notify(k) ==
  notes' = [r \in Replica |-> IF conn[r] # "down"
                              THEN [notes[r] EXCEPT ![k] = @ + 1] ELSE notes[r]]

\* (Mutant: the handler also runs when there is no notification.)
TakeNothing(r, k) ==
  /\ conn[r] = "listening"
  /\ todo[Listener(r)] = {}
  /\ notes' = [notes EXCEPT ![r][k] = @ - 1]
  /\ todo' = [todo EXCEPT ![Listener(r)] = {k}]
  /\ UNCHANGED <<dbVars, storeVars, conn, up, snap, clientVars, missed, changes, faults>>

\* WaitForNotification returns and the handler starts to reload that store.
TakeNotification(r, k) ==
  /\ conn[r] = "listening"
  /\ todo[Listener(r)] = {}
  /\ notes[r][k] > 0
  /\ notes' = [notes EXCEPT ![r][k] = @ - 1]
  /\ todo' = [todo EXCEPT ![Listener(r)] = {k}]
  /\ UNCHANGED <<dbVars, storeVars, conn, up, snap, clientVars, missed, changes, faults>>

\* The connection breaks; what it had received is gone with it.
LoseConnection(r) ==
  /\ conn[r] # "down"
  /\ Fault
  /\ conn' = [conn EXCEPT ![r] = "down"]
  /\ notes' = [notes EXCEPT ![r] = [k \in Kind |-> 0]]
  /\ UNCHANGED <<dbVars, storeVars, up, todo, snap, clientVars, missed>>

\* LISTEN on the new connection, then onReconnect reloads all stores.
Reconnect(r) ==
  /\ conn[r] = "down"
  /\ todo[Listener(r)] = {}
  /\ conn' = [conn EXCEPT ![r] = "resync"]
  /\ todo' = [todo EXCEPT ![Listener(r)] = Kind]
  /\ UNCHANGED <<dbVars, storeVars, notes, up, snap, clientVars, missed, changes, faults>>

\* onReconnect returns: notifications are taken from here on, or the connection
\* is closed and the listener tries again.
ResyncEnds(r) ==
  /\ conn[r] \in {"resync", "failing"}
  /\ todo[Listener(r)] = {}
  /\ \/ /\ conn[r] = "resync"
        /\ conn' = [conn EXCEPT ![r] = "listening"]
        /\ UNCHANGED notes
     \/ /\ conn[r] = "failing"
        /\ conn' = [conn EXCEPT ![r] = "down"]
        /\ notes' = [notes EXCEPT ![r] = [k \in Kind |-> 0]]
  /\ UNCHANGED <<dbVars, storeVars, up, todo, snap, clientVars, missed, changes, faults>>

\* (Mutant: the periodic resync reloads the addresses only.)
PeriodicAddressesOnly(r) ==
  /\ Resync
  /\ up[r] = "yes"
  /\ todo[Main(r)] = {}
  /\ todo' = [todo EXCEPT ![Main(r)] = {"addresses"}]
  /\ UNCHANGED <<dbVars, storeVars, listenVars, up, snap, clientVars, missed, changes, faults>>

\* The ticker of STATE_RESYNC_INTERVAL_SECONDS.
PeriodicResync(r) ==
  /\ Resync
  /\ up[r] = "yes"
  /\ todo[Main(r)] = {}
  /\ todo' = [todo EXCEPT ![Main(r)] = Kind]
  /\ UNCHANGED <<dbVars, storeVars, listenVars, up, snap, clientVars, missed, changes, faults>>

\* The process dies and is started again: it listens before it loads.
Restart(r) ==
  /\ Fault
  /\ conn' = [conn EXCEPT ![r] = "listening"]
  /\ notes' = [notes EXCEPT ![r] = [k \in Kind |-> 0]]
  /\ up' = [up EXCEPT ![r] = "no"]
  /\ memory' = [memory EXCEPT ![r] = [i \in Item |-> "absent"]]
  /\ installed' = [installed EXCEPT ![r] = [k \in Kind |-> 0]]
  /\ todo' = [g \in Goroutine |-> IF g = Main(r) THEN Kind
                                  ELSE IF Host(g) = r THEN {} ELSE todo[g]]
  /\ snap' = [g \in Goroutine |-> IF Host(g) = r THEN None ELSE snap[g]]
  /\ apply' = [c \in Client |-> IF at[c] = r THEN None ELSE apply[c]]
  /\ at' = [c \in Client |-> IF at[c] = r THEN None ELSE at[c]]
  /\ missed' = {m \in missed : m[1] # r}
  /\ UNCHANGED dbVars

-----------------------------------------------------------------------------
(***************************************************************************)
(* Requests.  The transaction is one step, what the handler then does to   *)
(* its own replica's store another.                                        *)
(***************************************************************************)

\* The row is written and the channel notified in one transaction.
WriteAndNotify(i, value) ==
  /\ table' = [table EXCEPT ![i] = value]
  /\ version' = [version EXCEPT ![KindOf(i)] = @ + 1]
  /\ Notify(KindOf(i))

Served(r, c) ==
  /\ up[r] = "yes"
  /\ at[c] = None
  /\ Change
  /\ at' = [at EXCEPT ![c] = r]
  /\ UNCHANGED <<storeVars, conn, up, snap, missed>>

ThenApply(c, i, value) ==
  /\ apply' = [apply EXCEPT ![c] = <<i, value>>]
  /\ UNCHANGED todo

\* AddWatchedAddress: a row that is active already is left alone.
AddWatchedAddress(i) ==
  IF table[i] = "active" THEN UNCHANGED <<dbVars, notes>> ELSE WriteAndNotify(i, "active")

\* POST /api/v1/addresses
HandlePostAddress(r, c, i) ==
  /\ Served(r, c)
  /\ AddWatchedAddress(i)
  /\ ThenApply(c, i, "active")

\* DeactivateWatchedAddress neither notifies nor touches a filter.
DeactivateWatchedAddress(i) ==
  /\ table' = [table EXCEPT ![i] = IF @ = "active" THEN "inactive" ELSE @]
  /\ UNCHANGED <<version, notes>>

\* DELETE /api/v1/addresses/{address}
HandleDeleteAddress(i) ==
  /\ \E r \in Replica : up[r] = "yes"
  /\ table[i] = "active"
  /\ Change
  /\ DeactivateWatchedAddress(i)
  /\ UNCHANGED <<storeVars, conn, up, todo, snap, clientVars, missed>>

AddWatchedContract(i) ==
  IF table[i] = "active" THEN UNCHANGED <<dbVars, notes>> ELSE WriteAndNotify(i, "active")

\* POST /api/v1/contracts
HandlePostContract(r, c, i) ==
  /\ Served(r, c)
  /\ AddWatchedContract(i)
  /\ ThenApply(c, i, "active")

DeactivateWatchedContract(i) ==
  IF table[i] = "active" THEN WriteAndNotify(i, "inactive") ELSE UNCHANGED <<dbVars, notes>>

\* DELETE /api/v1/contracts/{contractAddress}: the handler reloads the store.
HandleDeleteContract(r, c, i) ==
  /\ Served(r, c)
  /\ table[i] # "absent"
  /\ DeactivateWatchedContract(i)
  /\ todo' = [todo EXCEPT ![c] = {"contracts"}]
  /\ UNCHANGED apply

\* POST, PUT and PATCH of an endpoint: the handler writes the row it got back.
\* The id of a deleted endpoint never comes back.
SaveEndpoint(r, c, i, value) ==
  /\ Served(r, c)
  /\ table[i] # "deleted"
  /\ WriteAndNotify(i, value)
  /\ ThenApply(c, i, value)

\* DELETE /api/v1/webhook/endpoints/{endpointID}
HandleDeleteWebhookEndpoint(r, c, i) ==
  /\ Served(r, c)
  /\ table[i] \in {"active", "inactive"}
  /\ WriteAndNotify(i, "deleted")
  /\ ThenApply(c, i, "absent")

\* disableEndpointAndNotify: the worker writes the copy it took from the store,
\* also when the row has been deleted since.
DisableEndpointAndNotify(r, c, i) ==
  /\ Served(r, c)
  /\ memory[r][i] = "active"
  /\ IF table[i] # "deleted" THEN WriteAndNotify(i, "inactive") ELSE UNCHANGED <<dbVars, notes>>
  /\ ThenApply(c, i, "inactive")

\* resolveEndpoint: the worker misses an endpoint in its store and reads the row.
ResolveEndpoint(r, c, i) ==
  /\ Served(r, c)
  /\ memory[r][i] = "absent"
  /\ table[i] \in {"active", "inactive"}
  /\ ThenApply(c, i, table[i])
  /\ UNCHANGED <<dbVars, notes>>

\* The dashboard's forms: add, reactivate and deactivate an address, a contract.
HandleDashboardAddress(r, c, i) == HandlePostAddress(r, c, i) \/ HandleDeleteAddress(i)

HandleDashboardContract(r, c, i) == HandlePostContract(r, c, i) \/ HandleDeleteContract(r, c, i)

\* AddressStore.Add, ContractStore.Add, UpsertEndpoint, RemoveEndpoint.
ApplyToStore(c) ==
  /\ apply[c] # None
  /\ memory' = [memory EXCEPT ![at[c]][apply[c][1]] = apply[c][2]]
  /\ apply' = [apply EXCEPT ![c] = None]
  /\ at' = [at EXCEPT ![c] = None]
  /\ UNCHANGED <<dbVars, installed, listenVars, up, todo, snap, missed, changes, faults>>

\* The transaction is committed, but the handler gets an error and returns.
Unacknowledged(c) ==
  /\ apply[c] # None
  /\ Fault
  /\ apply' = [apply EXCEPT ![c] = None]
  /\ at' = [at EXCEPT ![c] = None]
  /\ UNCHANGED <<dbVars, storeVars, listenVars, up, todo, snap, missed>>

-----------------------------------------------------------------------------
Init ==
  /\ table = [i \in Item |-> IF i \in Stored THEN "active" ELSE "absent"]
  /\ version = [k \in Kind |-> 0]
  /\ memory = [r \in Replica |-> [i \in Item |-> "absent"]]
  /\ installed = [r \in Replica |-> [k \in Kind |-> 0]]
  /\ conn = [r \in Replica |-> "listening"]
  /\ notes = [r \in Replica |-> [k \in Kind |-> 0]]
  /\ up = [r \in Replica |-> "no"]
  /\ todo = [g \in Goroutine |-> IF g \in {Main(r) : r \in Replica} THEN Kind ELSE {}]
  /\ snap = [g \in Goroutine |-> None]
  /\ at = [c \in Client |-> None]
  /\ apply = [c \in Client |-> None]
  /\ missed = {}
  /\ changes = 0
  /\ faults = 0

Request(r, c) ==
  \/ \E i \in Address : \/ HandlePostAddress(r, c, i)
                        \/ HandleDashboardAddress(r, c, i)
  \/ \E i \in Contract : \/ HandlePostContract(r, c, i) \/ HandleDeleteContract(r, c, i)
                         \/ HandleDashboardContract(r, c, i)
  \/ \E i \in Endpoint : \/ \E value \in {"active", "inactive"} : SaveEndpoint(r, c, i, value)
                         \/ HandleDeleteWebhookEndpoint(r, c, i)
                         \/ DisableEndpointAndNotify(r, c, i)
                         \/ ResolveEndpoint(r, c, i)

Reload(g) == ReadTable(g) \/ Install(g)

Listen(r) == Reconnect(r) \/ ResyncEnds(r) \/ \E k \in Kind : TakeNotification(r, k)

Next ==
  \/ \E g \in Goroutine : Reload(g) \/ ReloadFails(g)
  \/ \E r \in Replica : Listen(r) \/ PeriodicResync(r) \/ LoseConnection(r) \/ Restart(r)
  \/ \E r \in Replica, c \in Client : Request(r, c)
  \/ \E i \in Address : HandleDeleteAddress(i)
  \/ \E c \in Client : ApplyToStore(c) \/ Unacknowledged(c)

Spec == Init /\ [][Next]_vars

\* Goroutines run, the ticker ticks, the listener reconnects after its delay.
Fairness ==
  /\ \A g \in Goroutine : WF_vars(Reload(g))
  /\ \A r \in Replica : WF_vars(Listen(r)) /\ WF_vars(PeriodicResync(r))
  /\ \A c \in Client : WF_vars(ApplyToStore(c))

FairSpec == Spec /\ Fairness

-----------------------------------------------------------------------------
Snapshot == UNION {[ver : 0..MaxChanges, rows : [Members(k) -> Value]] : k \in Kind}

TypeOK ==
  /\ table \in [Item -> Value \cup {"deleted"}]
  /\ version \in [Kind -> 0..MaxChanges]
  /\ memory \in [Replica -> [Item -> Value]]
  /\ installed \in [Replica -> [Kind -> 0..MaxChanges]]
  /\ conn \in [Replica -> {"listening", "resync", "failing", "down"}]
  /\ notes \in [Replica -> [Kind -> Nat]]
  /\ up \in [Replica -> {"yes", "no"}]
  /\ todo \in [Goroutine -> SUBSET Kind]
  /\ snap \in [Goroutine -> Snapshot \cup {None}]
  /\ at \in [Client -> Replica \cup {None}]
  /\ apply \in [Client -> (Item \X Value) \cup {None}]
  /\ missed \in SUBSET (Replica \X Kind)
  /\ changes \in 0..MaxChanges
  /\ faults \in 0..MaxFaults

(***************************************************************************)
(* A reload that has not read yet, or has read the last change.            *)
(***************************************************************************)
WillBring(g, k) ==
  /\ k \in todo[g]
  /\ Turn(g) = k /\ snap[g] # None => snap[g].ver = version[k]

ReloadComing(r, k) ==
  \/ conn[r] \in {"down", "failing"}
  \/ notes[r][k] > 0
  \/ WillBring(Listener(r), k)
  \/ up[r] = "no" /\ WillBring(Main(r), k)

(***************************************************************************)
(* No announced change slips past a replica: while its stores come from an *)
(* older version, a notification is waiting, or a reload that will read    *)
(* the change is under way or certain to follow.  The exceptions are the   *)
(* stores in missed: a query failed while a notification was handled, or   *)
(* an older reload was installed over a newer one; the failed reload of a  *)
(* request or of the periodic resync is none.  It rests on the order       *)
(* LISTEN, then load, at startup (main.go:132-153) and after a reconnect   *)
(* (listener.go:129-142).                                                  *)
(***************************************************************************)
NoLostNotification ==
  \A r \in Replica, k \in Kind :
    installed[r][k] < version[k] /\ <<r, k>> \notin missed => ReloadComing(r, k)

Agrees(r) == \A i \in Item : memory[r][i] = View(i)

(***************************************************************************)
(* With the periodic resync every store comes to agree with Postgres for   *)
(* good once the changes and the faults are over, whatever notifications   *)
(* were lost and whichever reloads and handlers wrote old contents over    *)
(* new ones (main.go:87-106 and 154-170).                                  *)
(***************************************************************************)
StoresConverge == <>[](\A r \in Replica : Agrees(r))

=============================================================================
