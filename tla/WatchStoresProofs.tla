-------------------------- MODULE WatchStoresProofs ---------------------------
(***************************************************************************)
(* Proofs about WatchStores, for every set of replicas, goroutines and     *)
(* rows.  The inductive invariant says what a goroutine in the middle of a *)
(* reload has in hand and which handlers are bound to a replica; with it   *)
(* NoLostNotification is preserved by every step.                          *)
(***************************************************************************)
EXTENDS WatchStores, TLAPS

\* What a goroutine has read is of the store whose turn it is.
SnapInv ==
  \A g \in Goroutine : snap[g] # None =>
    /\ todo[g] # {}
    /\ snap[g] \in [ver : 0..MaxChanges, rows : [Members(Turn(g)) -> Value]]

\* A handler with something left to do serves a request at a replica.
ClientInv ==
  \A c \in Client :
    /\ todo[c] \in {{}, {"contracts"}}
    /\ todo[c] # {} \/ apply[c] # None => at[c] \in Replica
    /\ apply[c] # None => todo[c] = {}

\* Only a request moves a version.
VersionInv == \A k \in Kind : version[k] <= changes

StoresInv ==
  /\ TypeOK
  /\ SnapInv
  /\ ClientInv
  /\ VersionInv
  /\ NoLostNotification

-----------------------------------------------------------------------------
(***************************************************************************)
(* What the steps do.                                                      *)
(***************************************************************************)
LEMMA GoroutineIs ==
  /\ \A r \in Replica : Listener(r) \in Goroutine /\ Main(r) \in Goroutine
  /\ \A r, q \in Replica : Listener(r) # Main(q)
  /\ \A r, q \in Replica : r # q => Listener(r) # Listener(q) /\ Main(r) # Main(q)
  /\ \A r \in Replica : Listener(r) \notin Client /\ Main(r) \notin Client
  /\ \A r \in Replica : Host(Listener(r)) = r /\ Host(Main(r)) = r
  /\ \A g \in Goroutine \ Client : g[1] \in Replica /\ g \in {Listener(g[1]), Main(g[1])}
<1>1. \A r \in Replica : Listener(r) \notin Client /\ Main(r) \notin Client
  BY StoresAssumption DEF Listener, Main
<1>2. \A r \in Replica : Host(Listener(r)) = r /\ Host(Main(r)) = r
  BY <1>1 DEF Host, Listener, Main
<1>. QED  BY <1>1, <1>2 DEF Goroutine, Listener, Main

\* The store whose turn it is is one the goroutine has to reload.
LEMMA TurnIs ==
  ASSUME TypeOK, NEW g \in Goroutine, todo[g] # {}
  PROVE  Turn(g) \in todo[g] /\ Turn(g) \in Kind
BY DEF TypeOK, Turn, Kind

\* A goroutine with something to do is at a replica.
LEMMA HostIs ==
  ASSUME TypeOK, ClientInv, NEW g \in Goroutine, todo[g] # {}
  PROVE  Host(g) \in Replica
<1>1. CASE g \in Client
  BY <1>1 DEF Host, ClientInv
<1>2. CASE g \notin Client
  BY <1>2, GoroutineIs DEF Host
<1>. QED  BY <1>1, <1>2

\* What a request does: its transaction, then what is left to the handler.
Transaction ==
  \/ UNCHANGED <<dbVars, notes>>
  \/ \E i \in Item, value \in Value \cup {"deleted"} : WriteAndNotify(i, value)

LeftToDo(c) ==
  \/ \E i \in Item, value \in Value : ThenApply(c, i, value)
  \/ todo' = [todo EXCEPT ![c] = {"contracts"}] /\ UNCHANGED apply

LEMMA RequestIs ==
  ASSUME NEW r \in Replica, NEW c \in Client, Request(r, c)
  PROVE  \/ \E i \in Address : HandleDeleteAddress(i)
         \/ Served(r, c) /\ Transaction /\ LeftToDo(c)
<1>1. ASSUME NEW i \in Address, HandlePostAddress(r, c, i)
      PROVE  Served(r, c) /\ Transaction /\ LeftToDo(c)
  BY <1>1 DEF HandlePostAddress, AddWatchedAddress, Transaction, LeftToDo, Item, Value
<1>2. ASSUME NEW i \in Contract, HandlePostContract(r, c, i)
      PROVE  Served(r, c) /\ Transaction /\ LeftToDo(c)
  BY <1>2 DEF HandlePostContract, AddWatchedContract, Transaction, LeftToDo, Item, Value
<1>3. ASSUME NEW i \in Contract, HandleDeleteContract(r, c, i)
      PROVE  Served(r, c) /\ Transaction /\ LeftToDo(c)
  BY <1>3 DEF HandleDeleteContract, DeactivateWatchedContract, Transaction, LeftToDo, Item, Value
<1>4. ASSUME NEW i \in Endpoint, NEW value \in {"active", "inactive"}, SaveEndpoint(r, c, i, value)
      PROVE  Served(r, c) /\ Transaction /\ LeftToDo(c)
  BY <1>4 DEF SaveEndpoint, Transaction, LeftToDo, Item, Value
<1>5. ASSUME NEW i \in Endpoint, HandleDeleteWebhookEndpoint(r, c, i)
      PROVE  Served(r, c) /\ Transaction /\ LeftToDo(c)
  BY <1>5 DEF HandleDeleteWebhookEndpoint, Transaction, LeftToDo, Item, Value
<1>6. ASSUME NEW i \in Endpoint, DisableEndpointAndNotify(r, c, i)
      PROVE  Served(r, c) /\ Transaction /\ LeftToDo(c)
  BY <1>6 DEF DisableEndpointAndNotify, Transaction, LeftToDo, Item, Value
<1>7. ASSUME NEW i \in Endpoint, ResolveEndpoint(r, c, i)
      PROVE  Served(r, c) /\ Transaction /\ LeftToDo(c)
  BY <1>7 DEF ResolveEndpoint, Transaction, LeftToDo, Item, Value
<1>. QED  BY <1>1, <1>2, <1>3, <1>4, <1>5, <1>6, <1>7
          DEF Request, HandleDashboardAddress, HandleDashboardContract

\* The steps of Next, with the requests in two classes.
LEMMA StepIs ==
  ASSUME [Next]_vars
  PROVE  \/ \E g \in Goroutine : ReadTable(g) \/ Install(g) \/ ReloadFails(g)
         \/ \E r \in Replica : Reconnect(r) \/ ResyncEnds(r) \/ \E k \in Kind : TakeNotification(r, k)
         \/ \E r \in Replica : PeriodicResync(r) \/ LoseConnection(r) \/ Restart(r)
         \/ \E r \in Replica, c \in Client : Served(r, c) /\ Transaction /\ LeftToDo(c)
         \/ \E i \in Address : HandleDeleteAddress(i)
         \/ \E c \in Client : ApplyToStore(c) \/ Unacknowledged(c)
         \/ UNCHANGED vars
BY RequestIs DEF Next, Reload, Listen

-----------------------------------------------------------------------------
(***************************************************************************)
(* The invariant is inductive.                                             *)
(***************************************************************************)
LEMMA InitStores == Init => StoresInv
<1>. SUFFICES ASSUME Init PROVE StoresInv
  OBVIOUS
<1>1. TypeOK
  BY StoresAssumption DEF Init, TypeOK, Value, Kind
<1>2. SnapInv
  BY DEF Init, SnapInv
<1>3. ClientInv
  <2>1. \A c \in Client : c \in Goroutine /\ c \notin {Main(r) : r \in Replica}
    BY GoroutineIs DEF Goroutine
  <2>. QED  BY <2>1 DEF Init, ClientInv
<1>4. VersionInv
  BY DEF Init, VersionInv
<1>5. NoLostNotification
  BY DEF Init, NoLostNotification
<1>. QED  BY <1>1, <1>2, <1>3, <1>4, <1>5 DEF StoresInv

\* Rows, versions and bounds.
LEMMA StepDb == StoresInv /\ [Next]_vars =>
  /\ table' \in [Item -> Value \cup {"deleted"}]
  /\ version' \in [Kind -> 0..MaxChanges]
  /\ changes' \in 0..MaxChanges
  /\ faults' \in 0..MaxFaults
  /\ VersionInv'
<1>. DEFINE Goal ==
       /\ table' \in [Item -> Value \cup {"deleted"}]
       /\ version' \in [Kind -> 0..MaxChanges]
       /\ changes' \in 0..MaxChanges
       /\ faults' \in 0..MaxFaults
       /\ VersionInv'
<1>. SUFFICES ASSUME StoresInv, [Next]_vars PROVE Goal
  OBVIOUS
<1>0. /\ table \in [Item -> Value \cup {"deleted"}]
      /\ version \in [Kind -> 0..MaxChanges]
      /\ changes \in 0..MaxChanges
      /\ faults \in 0..MaxFaults
      /\ \A k \in Kind : version[k] <= changes
  BY DEF StoresInv, TypeOK, VersionInv
<1>1. ASSUME UNCHANGED <<dbVars, changes, faults>> PROVE Goal
  BY <1>0, <1>1 DEF dbVars, VersionInv
<1>2. ASSUME UNCHANGED dbVars, Fault PROVE Goal
  BY <1>0, <1>2, StoresAssumption DEF dbVars, Fault, VersionInv
<1>3. CASE \/ \E g \in Goroutine : ReadTable(g) \/ Install(g)
           \/ \E r \in Replica : \/ Reconnect(r) \/ ResyncEnds(r) \/ PeriodicResync(r)
                                \/ \E k \in Kind : TakeNotification(r, k)
           \/ \E c \in Client : ApplyToStore(c)
           \/ UNCHANGED vars
  BY <1>1, <1>3 DEF ReadTable, Install, Reconnect, ResyncEnds, PeriodicResync, TakeNotification,
                    ApplyToStore, vars
<1>4. CASE \/ \E g \in Goroutine : ReloadFails(g)
           \/ \E r \in Replica : LoseConnection(r) \/ Restart(r)
           \/ \E c \in Client : Unacknowledged(c)
  BY <1>2, <1>4 DEF ReloadFails, LoseConnection, Restart, Unacknowledged
<1>5. ASSUME NEW r \in Replica, NEW c \in Client, Served(r, c), Transaction PROVE Goal
  <2>1. changes' = changes + 1 /\ changes' \in 0..MaxChanges /\ faults' = faults
    BY <1>0, <1>5, StoresAssumption DEF Served, Change
  <2>2. CASE UNCHANGED dbVars
    BY <1>0, <2>1, <2>2, StoresAssumption DEF dbVars, VersionInv
  <2>3. ASSUME NEW i \in Item, NEW value \in Value \cup {"deleted"}, WriteAndNotify(i, value)
        PROVE  Goal
    <3>1. KindOf(i) \in Kind
      BY DEF KindOf, Kind
    <3>2. /\ table' = [table EXCEPT ![i] = value]
          /\ version' = [version EXCEPT ![KindOf(i)] = @ + 1]
      BY <2>3 DEF WriteAndNotify
    <3>3. table' \in [Item -> Value \cup {"deleted"}]
      BY <1>0, <3>2
    <3>4. version[KindOf(i)] + 1 \in 0..MaxChanges /\ version[KindOf(i)] + 1 <= changes'
      BY <1>0, <2>1, <3>1, StoresAssumption
    <3>5. version' \in [Kind -> 0..MaxChanges]
      BY <1>0, <3>1, <3>2, <3>4
    <3>6. \A k \in Kind : version'[k] <= changes'
      BY <1>0, <2>1, <3>1, <3>2, <3>4, StoresAssumption
    <3>. QED  BY <1>0, <2>1, <3>3, <3>5, <3>6 DEF VersionInv
  <2>. HIDE DEF Goal
  <2>. QED  BY <1>5, <2>2, <2>3 DEF Transaction
<1>6. ASSUME NEW i \in Address, HandleDeleteAddress(i) PROVE Goal
  <2>1. changes' = changes + 1 /\ changes' \in 0..MaxChanges /\ faults' = faults
    BY <1>0, <1>6, StoresAssumption DEF HandleDeleteAddress, Change
  <2>2. /\ version' = version
        /\ table' = [table EXCEPT ![i] = IF @ = "active" THEN "inactive" ELSE @]
    BY <1>6 DEF HandleDeleteAddress, DeactivateWatchedAddress
  <2>3. table' \in [Item -> Value \cup {"deleted"}]
    BY <1>0, <2>2 DEF Value
  <2>. QED  BY <1>0, <2>1, <2>2, <2>3, StoresAssumption DEF VersionInv
<1>. HIDE DEF Goal
<1>. QED  BY <1>3, <1>4, <1>5, <1>6, StepIs

\* The listeners' connections and notifications.
LEMMA StepListen == StoresInv /\ [Next]_vars =>
  /\ conn' \in [Replica -> {"listening", "resync", "failing", "down"}]
  /\ notes' \in [Replica -> [Kind -> Nat]]
  /\ up' \in [Replica -> {"yes", "no"}]
<1>. DEFINE Goal ==
       /\ conn' \in [Replica -> {"listening", "resync", "failing", "down"}]
       /\ notes' \in [Replica -> [Kind -> Nat]]
       /\ up' \in [Replica -> {"yes", "no"}]
<1>. SUFFICES ASSUME StoresInv, [Next]_vars PROVE Goal
  OBVIOUS
<1>0. TypeOK /\ SnapInv /\ ClientInv
  BY DEF StoresInv
<1>a. /\ conn \in [Replica -> {"listening", "resync", "failing", "down"}]
      /\ notes \in [Replica -> [Kind -> Nat]]
      /\ up \in [Replica -> {"yes", "no"}]
  BY <1>0 DEF TypeOK
<1>1. ASSUME UNCHANGED <<conn, notes, up>> PROVE Goal
  BY <1>a, <1>1
<1>2. ASSUME NEW g \in Goroutine, ReadTable(g) PROVE Goal
  BY <1>1, <1>2 DEF ReadTable, listenVars
<1>3. ASSUME NEW g \in Goroutine, Install(g) PROVE Goal
  <2>1. up' = up \/ up' = [up EXCEPT ![Host(g)] = "yes"]
    BY <1>3 DEF Install, StartedAfter
  <2>. QED  BY <1>a, <1>3, <2>1 DEF Install, listenVars
<1>4. ASSUME NEW g \in Goroutine, ReloadFails(g) PROVE Goal
  <2>1. conn' = conn \/ conn' = [conn EXCEPT ![Host(g)] = "failing"]
    BY <1>4 DEF ReloadFails
  <2>. QED  BY <1>a, <1>4, <2>1 DEF ReloadFails
<1>5. ASSUME NEW r \in Replica, NEW k \in Kind, TakeNotification(r, k) PROVE Goal
  <2>1. notes[r][k] \in Nat /\ notes[r][k] > 0
    BY <1>a, <1>5 DEF TakeNotification
  <2>2. notes[r][k] - 1 \in Nat
    BY <2>1
  <2>3. notes' = [notes EXCEPT ![r] = [notes[r] EXCEPT ![k] = notes[r][k] - 1]]
    BY <1>5 DEF TakeNotification
  <2>4. [notes[r] EXCEPT ![k] = notes[r][k] - 1] \in [Kind -> Nat]
    BY <1>a, <2>2
  <2>. QED  BY <1>a, <1>5, <2>3, <2>4 DEF TakeNotification
<1>6. ASSUME NEW r \in Replica, Reconnect(r) \/ ResyncEnds(r) \/ LoseConnection(r) \/ Restart(r)
      PROVE  Goal
  <2>1. [k \in Kind |-> 0] \in [Kind -> Nat]
    OBVIOUS
  <2>. QED  BY <1>a, <1>6, <2>1 DEF Reconnect, ResyncEnds, LoseConnection, Restart
<1>7. ASSUME NEW r \in Replica, PeriodicResync(r) PROVE Goal
  BY <1>1, <1>7 DEF PeriodicResync, listenVars
<1>8. ASSUME NEW r \in Replica, NEW c \in Client, Served(r, c), Transaction PROVE Goal
  <2>1. UNCHANGED <<conn, up>>
    BY <1>8 DEF Served
  <2>2. CASE UNCHANGED notes
    BY <1>a, <2>1, <2>2
  <2>3. ASSUME NEW i \in Item, NEW value \in Value \cup {"deleted"}, WriteAndNotify(i, value)
        PROVE  notes' \in [Replica -> [Kind -> Nat]]
    <3>1. KindOf(i) \in Kind
      BY DEF KindOf, Kind
    <3>2. \A q \in Replica : [notes[q] EXCEPT ![KindOf(i)] = @ + 1] \in [Kind -> Nat]
      BY <1>a, <3>1
    <3>. QED  BY <1>a, <2>3, <3>2 DEF WriteAndNotify, Notify
  <2>. QED  BY <1>a, <1>8, <2>1, <2>2, <2>3 DEF Transaction
<1>9. ASSUME NEW i \in Address, HandleDeleteAddress(i) PROVE Goal
  BY <1>1, <1>9 DEF HandleDeleteAddress, DeactivateWatchedAddress
<1>10. CASE \/ \E c \in Client : ApplyToStore(c) \/ Unacknowledged(c)
            \/ UNCHANGED vars
  BY <1>1, <1>10 DEF ApplyToStore, Unacknowledged, listenVars, vars
<1>. HIDE DEF Goal
<1>. QED  BY <1>2, <1>3, <1>4, <1>5, <1>6, <1>7, <1>8, <1>9, <1>10, StepIs

\* A goroutine that installs what it has read.
LEMMA InstallIs ==
  ASSUME StoresInv, NEW g \in Goroutine, Install(g)
  PROVE  /\ Host(g) \in Replica
         /\ Turn(g) \in Kind /\ Turn(g) \in todo[g]
         /\ snap[g].ver \in 0..MaxChanges
         /\ snap[g].rows \in [Members(Turn(g)) -> Value]
<1>1. TypeOK /\ ClientInv /\ snap[g] # None
  BY DEF StoresInv, Install
<1>2. todo[g] # {} /\ snap[g] \in [ver : 0..MaxChanges, rows : [Members(Turn(g)) -> Value]]
  BY <1>1 DEF StoresInv, SnapInv
<1>. QED  BY <1>1, <1>2, HostIs, TurnIs

\* The stores.
LEMMA StepMemory == StoresInv /\ [Next]_vars =>
  /\ memory' \in [Replica -> [Item -> Value]]
  /\ installed' \in [Replica -> [Kind -> 0..MaxChanges]]
  /\ missed' \in SUBSET (Replica \X Kind)
<1>. DEFINE Goal ==
       /\ memory' \in [Replica -> [Item -> Value]]
       /\ installed' \in [Replica -> [Kind -> 0..MaxChanges]]
       /\ missed' \in SUBSET (Replica \X Kind)
<1>. SUFFICES ASSUME StoresInv, [Next]_vars PROVE Goal
  OBVIOUS
<1>0. TypeOK /\ SnapInv /\ ClientInv
  BY DEF StoresInv
<1>a. /\ memory \in [Replica -> [Item -> Value]]
      /\ installed \in [Replica -> [Kind -> 0..MaxChanges]]
      /\ missed \in SUBSET (Replica \X Kind)
  BY <1>0 DEF TypeOK
<1>1. ASSUME UNCHANGED <<memory, installed, missed>> PROVE Goal
  BY <1>a, <1>1
<1>2. ASSUME NEW g \in Goroutine, Install(g) PROVE Goal
  <2>. DEFINE r == Host(g)
              k == Turn(g)
              contents == [i \in Item |-> IF i \in Members(k) THEN snap[g].rows[i] ELSE memory[r][i]]
  <2>1. /\ r \in Replica /\ k \in Kind
        /\ snap[g].ver \in 0..MaxChanges
        /\ snap[g].rows \in [Members(k) -> Value]
    BY <1>2, InstallIs
  <2>2. /\ memory' = [memory EXCEPT ![r] = contents]
        /\ installed' = [installed EXCEPT ![r][k] = snap[g].ver]
        /\ missed' \in {missed, missed \ {<<r, k>>}, missed \cup {<<r, k>>}}
    BY <1>2 DEF Install
  <2>. HIDE DEF r, k
  <2>3. contents \in [Item -> Value]
    BY <1>a, <2>1
  <2>. HIDE DEF contents
  <2>4. memory' \in [Replica -> [Item -> Value]]
    BY <1>a, <2>2, <2>3
  <2>5. installed' \in [Replica -> [Kind -> 0..MaxChanges]]
    BY <1>a, <2>1, <2>2
  <2>6. missed' \in SUBSET (Replica \X Kind)
    BY <1>a, <2>1, <2>2
  <2>. QED  BY <2>4, <2>5, <2>6
<1>3. ASSUME NEW g \in Goroutine, ReloadFails(g) PROVE Goal
  <2>1. Host(g) \in Replica /\ Turn(g) \in Kind
    BY <1>0, <1>3, HostIs, TurnIs DEF ReloadFails
  <2>. QED  BY <1>a, <1>3, <2>1 DEF ReloadFails, storeVars
<1>4. ASSUME NEW r \in Replica, Restart(r) PROVE Goal
  <2>1. [i \in Item |-> "absent"] \in [Item -> Value] /\ [k \in Kind |-> 0] \in [Kind -> 0..MaxChanges]
    BY StoresAssumption DEF Value
  <2>. QED  BY <1>a, <1>4, <2>1 DEF Restart
<1>5. ASSUME NEW c \in Client, ApplyToStore(c) PROVE Goal
  <2>1. at[c] \in Replica /\ apply[c] \in Item \X Value
    BY <1>0, <1>5 DEF ApplyToStore, ClientInv, TypeOK
  <2>2. apply[c][1] \in Item /\ apply[c][2] \in Value
    BY <2>1
  <2>3. memory' = [memory EXCEPT ![at[c]][apply[c][1]] = apply[c][2]] /\ UNCHANGED <<installed, missed>>
    BY <1>5 DEF ApplyToStore
  <2>. QED  BY <1>a, <2>1, <2>2, <2>3
<1>6. CASE \/ \E g \in Goroutine : ReadTable(g)
           \/ \E r \in Replica : \/ Reconnect(r) \/ ResyncEnds(r) \/ PeriodicResync(r) \/ LoseConnection(r)
                                \/ \E k \in Kind : TakeNotification(r, k)
           \/ \E c \in Client : Unacknowledged(c)
           \/ \E r \in Replica, c \in Client : Served(r, c)
           \/ \E i \in Address : HandleDeleteAddress(i)
           \/ UNCHANGED vars
  BY <1>1, <1>6 DEF ReadTable, Reconnect, ResyncEnds, PeriodicResync, LoseConnection, TakeNotification,
                    Unacknowledged, Served, HandleDeleteAddress, storeVars, vars
<1>. HIDE DEF Goal
<1>. QED  BY <1>2, <1>3, <1>4, <1>5, <1>6, StepIs

\* What the goroutines have to do and have read.
LEMMA StepReloads == StoresInv /\ [Next]_vars =>
  /\ todo' \in [Goroutine -> SUBSET Kind]
  /\ snap' \in [Goroutine -> Snapshot \cup {None}]
  /\ SnapInv'
<1>. DEFINE Goal ==
       /\ todo' \in [Goroutine -> SUBSET Kind]
       /\ snap' \in [Goroutine -> Snapshot \cup {None}]
       /\ SnapInv'
<1>. SUFFICES ASSUME StoresInv, [Next]_vars PROVE Goal
  OBVIOUS
<1>0. TypeOK /\ SnapInv /\ ClientInv
  BY DEF StoresInv
<1>a. /\ todo \in [Goroutine -> SUBSET Kind]
      /\ snap \in [Goroutine -> Snapshot \cup {None}]
  BY <1>0 DEF TypeOK
<1>b. \A g \in Goroutine : todo[g] = {} => snap[g] = None
  BY <1>0 DEF SnapInv
<1>1. ASSUME todo' \in [Goroutine -> SUBSET Kind], UNCHANGED snap,
             \A g \in Goroutine : snap[g] # None => todo'[g] = todo[g]
      PROVE  Goal
  <2>1. \A g \in Goroutine : snap[g] # None => Turn(g)' = Turn(g)
    BY <1>1 DEF Turn
  <2>. QED  BY <1>0, <1>a, <1>1, <2>1 DEF SnapInv
<1>2. ASSUME NEW g \in Goroutine, ReadTable(g) PROVE Goal
  <2>. DEFINE s == [ver |-> version[Turn(g)], rows |-> [i \in Members(Turn(g)) |-> View(i)]]
  <2>1. Turn(g) \in Kind /\ todo[g] # {}
    BY <1>0, <1>2, TurnIs DEF ReadTable
  <2>2. Members(Turn(g)) \subseteq Item
    BY <2>1 DEF Members, Kind, Item
  <2>3. \A i \in Item : View(i) \in Value
    BY <1>0 DEF View, Value, TypeOK
  <2>4. version[Turn(g)] \in 0..MaxChanges
    BY <1>0, <2>1 DEF TypeOK
  <2>5. s \in [ver : 0..MaxChanges, rows : [Members(Turn(g)) -> Value]]
    BY <2>2, <2>3, <2>4
  <2>6. snap' = [snap EXCEPT ![g] = s] /\ UNCHANGED todo
    BY <1>2 DEF ReadTable
  <2>. HIDE DEF s
  <2>7. s \in Snapshot
    BY <2>1, <2>5 DEF Snapshot
  <2>8. \A h \in Goroutine : Turn(h)' = Turn(h)
    BY <2>6 DEF Turn
  <2>. QED  BY <1>0, <1>a, <2>1, <2>5, <2>6, <2>7, <2>8 DEF SnapInv
<1>3. ASSUME NEW g \in Goroutine, Install(g) PROVE Goal
  <2>1. snap' = [snap EXCEPT ![g] = None] /\ todo' = [todo EXCEPT ![g] = @ \ {Turn(g)}]
    BY <1>3 DEF Install
  <2>2. \A h \in Goroutine \ {g} : todo'[h] = todo[h] /\ snap'[h] = snap[h] /\ Turn(h)' = Turn(h)
    BY <1>a, <2>1 DEF Turn
  <2>. QED  BY <1>0, <1>a, <2>1, <2>2 DEF SnapInv
<1>4. ASSUME NEW g \in Goroutine, ReloadFails(g) PROVE Goal
  BY <1>a, <1>1, <1>4 DEF ReloadFails
<1>5. ASSUME NEW r \in Replica, NEW v \in SUBSET Kind, NEW g \in {Listener(r), Main(r)},
             todo[g] = {}, todo' = [todo EXCEPT ![g] = v], UNCHANGED snap
      PROVE  Goal
  <2>1. g \in Goroutine
    BY GoroutineIs
  <2>. QED  BY <1>a, <1>b, <1>1, <1>5, <2>1
<1>6. ASSUME NEW r \in Replica, Reconnect(r) \/ PeriodicResync(r) \/ \E k \in Kind : TakeNotification(r, k)
      PROVE  Goal
  BY <1>5, <1>6 DEF Reconnect, PeriodicResync, TakeNotification
<1>7. ASSUME NEW r \in Replica, Restart(r) PROVE Goal
  <2>1. /\ todo' = [g \in Goroutine |-> IF g = Main(r) THEN Kind
                                         ELSE IF Host(g) = r THEN {} ELSE todo[g]]
        /\ snap' = [g \in Goroutine |-> IF Host(g) = r THEN None ELSE snap[g]]
    BY <1>7 DEF Restart
  <2>2. \A g \in Goroutine : snap'[g] # None =>
          todo'[g] = todo[g] /\ snap'[g] = snap[g] /\ Turn(g)' = Turn(g)
    BY <2>1, GoroutineIs DEF Turn
  <2>3. todo' \in [Goroutine -> SUBSET Kind]
    BY <1>a, <2>1
  <2>4. snap' \in [Goroutine -> Snapshot \cup {None}]
    BY <1>a, <2>1
  <2>. QED  BY <1>0, <2>2, <2>3, <2>4 DEF SnapInv
<1>8. ASSUME NEW r \in Replica, NEW c \in Client, Served(r, c), LeftToDo(c) PROVE Goal
  <2>1. c \in Goroutine /\ todo[c] = {} /\ UNCHANGED snap
    BY <1>0, <1>8, StoresAssumption DEF Served, ClientInv, Goroutine
  <2>2. todo' = todo \/ todo' = [todo EXCEPT ![c] = {"contracts"}]
    BY <1>8 DEF LeftToDo, ThenApply
  <2>. QED  BY <1>a, <1>b, <1>1, <2>1, <2>2 DEF Kind
<1>9. CASE \/ \E r \in Replica : ResyncEnds(r) \/ LoseConnection(r)
           \/ \E c \in Client : ApplyToStore(c) \/ Unacknowledged(c)
           \/ \E i \in Address : HandleDeleteAddress(i)
           \/ UNCHANGED vars
  BY <1>a, <1>1, <1>9 DEF ResyncEnds, LoseConnection, ApplyToStore, Unacknowledged,
                          HandleDeleteAddress, vars
<1>. HIDE DEF Goal
<1>. QED  BY <1>2, <1>3, <1>4, <1>6, <1>7, <1>8, <1>9, StepIs

\* The handlers.
LEMMA StepClients == StoresInv /\ [Next]_vars =>
  /\ at' \in [Client -> Replica \cup {None}]
  /\ apply' \in [Client -> (Item \X Value) \cup {None}]
  /\ ClientInv'
<1>. DEFINE Goal ==
       /\ at' \in [Client -> Replica \cup {None}]
       /\ apply' \in [Client -> (Item \X Value) \cup {None}]
       /\ ClientInv'
<1>. SUFFICES ASSUME StoresInv, [Next]_vars PROVE Goal
  OBVIOUS
<1>0. TypeOK /\ SnapInv /\ ClientInv
  BY DEF StoresInv
<1>a. /\ at \in [Client -> Replica \cup {None}]
      /\ apply \in [Client -> (Item \X Value) \cup {None}]
      /\ \A c \in Client :
           /\ todo[c] \in {{}, {"contracts"}}
           /\ todo[c] # {} \/ apply[c] # None => at[c] \in Replica
           /\ apply[c] # None => todo[c] = {}
      /\ todo \in [Goroutine -> SUBSET Kind]
      /\ Client \subseteq Goroutine
  BY <1>0 DEF TypeOK, ClientInv, Goroutine
<1>1. ASSUME UNCHANGED <<at, apply>>, \A c \in Client : todo'[c] = todo[c] PROVE Goal
  BY <1>a, <1>1 DEF ClientInv
<1>2. ASSUME NEW g \in Goroutine, Install(g) \/ ReloadFails(g) PROVE Goal
  <2>1. todo' = [todo EXCEPT ![g] = @ \ {Turn(g)}] /\ Answered(g) /\ UNCHANGED apply
    BY <1>2 DEF Install, ReloadFails
  <2>2. todo[g] # {}
    BY <1>0, <1>2 DEF Install, ReloadFails, SnapInv
  <2>3. CASE g \notin Client
    BY <1>a, <1>1, <2>1, <2>3 DEF Answered
  <2>4. CASE g \in Client
    <3>1. todo[g] = {"contracts"} /\ apply[g] = None
      BY <1>a, <2>2, <2>4
    <3>2. Turn(g) = "contracts"
      BY <3>1 DEF Turn
    <3>3. todo'[g] = {} /\ \A c \in Client \ {g} : todo'[c] = todo[c]
      BY <1>a, <2>1, <3>1, <3>2
    <3>4. at' = [at EXCEPT ![g] = None]
      BY <2>1, <2>4 DEF Answered
    <3>. QED  BY <1>a, <2>1, <2>4, <3>1, <3>3, <3>4 DEF ClientInv
  <2>. QED  BY <2>3, <2>4
<1>3. ASSUME NEW r \in Replica, NEW v, NEW g \in {Listener(r), Main(r)},
             todo' = [todo EXCEPT ![g] = v], UNCHANGED clientVars
      PROVE  Goal
  <2>1. g \notin Client
    BY GoroutineIs
  <2>. QED  BY <1>a, <1>1, <1>3, <2>1 DEF clientVars
<1>4. ASSUME NEW r \in Replica, Reconnect(r) \/ PeriodicResync(r) \/ \E k \in Kind : TakeNotification(r, k)
      PROVE  Goal
  BY <1>3, <1>4 DEF Reconnect, PeriodicResync, TakeNotification
<1>5. ASSUME NEW r \in Replica, Restart(r) PROVE Goal
  <2>1. /\ todo' = [g \in Goroutine |-> IF g = Main(r) THEN Kind
                                         ELSE IF Host(g) = r THEN {} ELSE todo[g]]
        /\ apply' = [c \in Client |-> IF at[c] = r THEN None ELSE apply[c]]
        /\ at' = [c \in Client |-> IF at[c] = r THEN None ELSE at[c]]
    BY <1>5 DEF Restart
  <2>2. \A c \in Client : c # Main(r) /\ Host(c) = at[c]
    BY GoroutineIs DEF Host
  <2>3. \A c \in Client : todo'[c] = IF at[c] = r THEN {} ELSE todo[c]
    BY <1>a, <2>1, <2>2
  <2>. QED  BY <1>a, <2>1, <2>3 DEF ClientInv
<1>6. ASSUME NEW r \in Replica, NEW c \in Client, Served(r, c), LeftToDo(c) PROVE Goal
  <2>1. at[c] = None /\ at' = [at EXCEPT ![c] = r] /\ None \notin Replica
    BY <1>6, StoresAssumption DEF Served
  <2>2. todo[c] = {} /\ apply[c] = None
    BY <1>a, <2>1
  <2>3. CASE \E i \in Item, value \in Value : ThenApply(c, i, value)
    BY <1>a, <2>1, <2>2, <2>3 DEF ThenApply, ClientInv
  <2>4. CASE todo' = [todo EXCEPT ![c] = {"contracts"}] /\ UNCHANGED apply
    BY <1>a, <2>1, <2>2, <2>4 DEF ClientInv
  <2>. QED  BY <1>6, <2>3, <2>4 DEF LeftToDo
<1>7. ASSUME NEW c \in Client, ApplyToStore(c) \/ Unacknowledged(c) PROVE Goal
  <2>1. /\ apply[c] # None /\ UNCHANGED todo
        /\ apply' = [apply EXCEPT ![c] = None] /\ at' = [at EXCEPT ![c] = None]
    BY <1>7 DEF ApplyToStore, Unacknowledged
  <2>. QED  BY <1>a, <2>1 DEF ClientInv
<1>8. CASE \/ \E g \in Goroutine : ReadTable(g)
           \/ \E r \in Replica : ResyncEnds(r) \/ LoseConnection(r)
           \/ \E i \in Address : HandleDeleteAddress(i)
           \/ UNCHANGED vars
  BY <1>1, <1>8 DEF ReadTable, ResyncEnds, LoseConnection, HandleDeleteAddress, clientVars, vars
<1>. HIDE DEF Goal
<1>. QED  BY <1>2, <1>4, <1>5, <1>6, <1>7, <1>8, StepIs

\* A reload that has not been touched still brings the change.
LEMMA WillBringStays ==
  ASSUME NEW g \in Goroutine, NEW k \in Kind, WillBring(g, k),
         todo'[g] = todo[g], snap'[g] = snap[g], version'[k] = version[k]
  PROVE  WillBring(g, k)'
<1>1. Turn(g)' = Turn(g)
  BY DEF Turn
<1>. QED  BY <1>1 DEF WillBring

\* No announced change slips past a replica.
LEMMA StepNoLost == StoresInv /\ [Next]_vars => NoLostNotification'
<1>. SUFFICES ASSUME StoresInv, [Next]_vars, NEW q \in Replica, NEW k \in Kind,
                     installed'[q][k] < version'[k], <<q, k>> \notin missed'
              PROVE  ReloadComing(q, k)'
  BY DEF NoLostNotification
<1>0. TypeOK /\ SnapInv /\ ClientInv
  BY DEF StoresInv
<1>a. installed[q][k] < version[k] /\ <<q, k>> \notin missed => ReloadComing(q, k)
  BY DEF StoresInv, NoLostNotification
<1>b. /\ Listener(q) \in Goroutine /\ Main(q) \in Goroutine /\ Listener(q) # Main(q)
      /\ Listener(q) \notin Client /\ Main(q) \notin Client
      /\ Host(Listener(q)) = q /\ Host(Main(q)) = q
  BY GoroutineIs
<1>c. /\ conn \in [Replica -> {"listening", "resync", "failing", "down"}]
      /\ notes \in [Replica -> [Kind -> Nat]]
      /\ up \in [Replica -> {"yes", "no"}]
      /\ todo \in [Goroutine -> SUBSET Kind]
      /\ snap \in [Goroutine -> Snapshot \cup {None}]
      /\ version \in [Kind -> 0..MaxChanges]
      /\ installed \in [Replica -> [Kind -> 0..MaxChanges]]
  BY <1>0 DEF TypeOK
<1>d. \A g \in Goroutine : todo[g] = {} => snap[g] = None
  BY <1>0 DEF SnapInv
<1>1. ASSUME installed'[q][k] = installed[q][k], version'[k] = version[k], <<q, k>> \notin missed,
             conn[q] \in {"down", "failing"} => conn'[q] \in {"down", "failing"},
             notes[q][k] > 0 => notes'[q][k] > 0,
             WillBring(Listener(q), k) => WillBring(Listener(q), k)',
             up[q] = "no" /\ WillBring(Main(q), k) => up'[q] = "no" /\ WillBring(Main(q), k)'
      PROVE  ReloadComing(q, k)'
  BY <1>a, <1>1 DEF ReloadComing
<1>2. ASSUME UNCHANGED <<installed, missed, version, conn, notes, up>>,
             todo'[Listener(q)] = todo[Listener(q)], snap'[Listener(q)] = snap[Listener(q)],
             todo'[Main(q)] = todo[Main(q)], snap'[Main(q)] = snap[Main(q)]
      PROVE  ReloadComing(q, k)'
  BY <1>1, <1>2, <1>b, WillBringStays
<1>3. ASSUME NEW g \in Goroutine, ReadTable(g) PROVE ReloadComing(q, k)'
  <2>1. /\ UNCHANGED <<installed, missed, version, conn, notes, up, todo>>
        /\ snap' = [snap EXCEPT ![g] = [ver |-> version[Turn(g)],
                                        rows |-> [i \in Members(Turn(g)) |-> View(i)]]]
    BY <1>3 DEF ReadTable, dbVars, storeVars, listenVars
  <2>2. ASSUME NEW h \in Goroutine, WillBring(h, k) PROVE WillBring(h, k)'
    <3>1. CASE h # g
      BY <2>1, <2>2, <3>1, <1>c, WillBringStays
    <3>2. CASE h = g
      <4>1. snap'[h].ver = version[Turn(h)] /\ Turn(h)' = Turn(h)
        BY <1>c, <2>1, <3>2 DEF Turn
      <4>. QED  BY <2>1, <2>2, <4>1 DEF WillBring
    <3>. QED  BY <3>1, <3>2
  <2>. QED  BY <1>1, <1>b, <2>1, <2>2
<1>4. ASSUME NEW g \in Goroutine, Install(g) PROVE ReloadComing(q, k)'
  <2>. DEFINE r == Host(g)
              t == Turn(g)
  <2>0. r \in Replica /\ t \in Kind /\ t \in todo[g] /\ snap[g] # None /\ snap[g].ver \in 0..MaxChanges
    BY <1>4, InstallIs DEF Install
  <2>1. /\ UNCHANGED <<version, conn, notes>>
        /\ installed' = [installed EXCEPT ![r][t] = snap[g].ver]
        /\ missed' = IF snap[g].ver = version[t] THEN missed \ {<<r, t>>}
                     ELSE IF snap[g].ver < installed[r][t] THEN missed \cup {<<r, t>>}
                     ELSE missed
        /\ snap' = [snap EXCEPT ![g] = None]
        /\ todo' = [todo EXCEPT ![g] = @ \ {t}]
        /\ up' = IF todo[g] \ {t} = {} /\ g = Main(r) THEN [up EXCEPT ![r] = "yes"] ELSE up
    BY <1>4 DEF Install, dbVars, listenVars, StartedAfter
  <2>2. g \in {Listener(q), Main(q)} => r = q
    BY <1>b
  <2>3. ASSUME NEW h \in Goroutine, h # g, WillBring(h, k) PROVE WillBring(h, k)'
    BY <1>c, <2>1, <2>3, WillBringStays
  <2>4. WillBring(g, k) /\ k = t => snap[g].ver = version[k]
    BY <2>0 DEF WillBring
  <2>5. WillBring(g, k) /\ k # t => WillBring(g, k)' /\ todo[g] \ {t} # {}
    BY <1>c, <2>1 DEF WillBring
  <2>. HIDE DEF r, t
  <2>6. CASE r = q /\ k = t
    <3>1. installed'[q][k] = snap[g].ver
      BY <1>c, <2>0, <2>1, <2>6
    <3>2. snap[g].ver # version[k] /\ ~(snap[g].ver < installed[q][k]) /\ missed' = missed
      BY <1>c, <2>0, <2>1, <2>6, <3>1
    <3>3. installed[q][k] < version[k]
      BY <1>c, <2>0, <2>1, <3>1, <3>2, StoresAssumption
    <3>4. ReloadComing(q, k)
      BY <1>a, <3>2, <3>3
    <3>5. ~WillBring(g, k)
      BY <2>4, <2>6, <3>2
    <3>6. WillBring(Main(q), k) /\ g # Main(q) => up'[q] = up[q]
      BY <2>1, <2>6
    <3>. QED  BY <1>b, <2>1, <2>3, <3>4, <3>5, <3>6 DEF ReloadComing
  <2>7. CASE r = q /\ k # t
    <3>1. installed'[q][k] = installed[q][k] /\ <<q, k>> \notin missed
      BY <1>c, <2>0, <2>1, <2>7
    <3>2. WillBring(Listener(q), k) => WillBring(Listener(q), k)'
      BY <1>b, <2>3, <2>5, <2>7
    <3>3. WillBring(Main(q), k) => WillBring(Main(q), k)' /\ up' = up
      BY <1>b, <2>1, <2>3, <2>5, <2>7
    <3>. QED  BY <1>1, <2>1, <3>1, <3>2, <3>3
  <2>8. CASE r # q
    <3>1. installed'[q][k] = installed[q][k] /\ <<q, k>> \notin missed
      BY <1>c, <2>0, <2>1, <2>8
    <3>2. up'[q] = up[q]
      BY <1>c, <2>1, <2>8
    <3>3. g # Listener(q) /\ g # Main(q)
      BY <2>2, <2>8
    <3>. QED  BY <1>1, <1>b, <2>1, <2>3, <3>1, <3>2, <3>3
  <2>. QED  BY <2>6, <2>7, <2>8
<1>5. ASSUME NEW g \in Goroutine, ReloadFails(g) PROVE ReloadComing(q, k)'
  <2>. DEFINE r == Host(g)
              t == Turn(g)
  <2>0. r \in Replica /\ t \in Kind /\ snap[g] = None
    BY <1>0, <1>5, HostIs, TurnIs DEF ReloadFails
  <2>1. /\ UNCHANGED <<version, installed, notes, up, snap>>
        /\ missed' = IF g = Listener(r) /\ conn[r] = "listening"
                     THEN missed \cup {<<r, t>>} ELSE missed
        /\ todo' = [todo EXCEPT ![g] = @ \ {t}]
        /\ conn' = IF g = Listener(r) /\ conn[r] = "resync"
                   THEN [conn EXCEPT ![r] = "failing"] ELSE conn
        /\ g = Main(r) => up[r] = "yes"
    BY <1>5 DEF ReloadFails, dbVars, storeVars
  <2>2. g \in {Listener(q), Main(q)} => r = q
    BY <1>b
  <2>3. ASSUME NEW h \in Goroutine, h # g, WillBring(h, k) PROVE WillBring(h, k)'
    BY <1>c, <2>1, <2>3, WillBringStays
  <2>. HIDE DEF r, t
  <2>4. <<q, k>> \notin missed
    BY <2>1
  <2>5. CASE g = Listener(q)
    <3>1. WillBring(Main(q), k) => WillBring(Main(q), k)'
      BY <1>b, <2>3, <2>5
    <3>2. CASE conn[q] = "listening"
      <4>1. k # t /\ conn' = conn
        BY <2>1, <2>2, <2>5, <3>2
      <4>2. WillBring(Listener(q), k) => WillBring(Listener(q), k)'
        BY <1>c, <2>0, <2>1, <2>5, <4>1 DEF WillBring
      <4>. QED  BY <1>1, <2>1, <2>4, <3>1, <4>1, <4>2
    <3>3. CASE conn[q] # "listening"
      <4>1. conn'[q] \in {"down", "failing"}
        BY <1>c, <2>1, <2>2, <2>5, <3>3
      <4>. QED  BY <4>1 DEF ReloadComing
    <3>. QED  BY <3>2, <3>3
  <2>6. CASE g # Listener(q)
    <3>1. WillBring(Listener(q), k) => WillBring(Listener(q), k)'
      BY <1>b, <2>3, <2>6
    <3>2. up[q] = "no" /\ WillBring(Main(q), k) => WillBring(Main(q), k)'
      BY <1>b, <2>1, <2>2, <2>3
    <3>3. conn'[q] = conn[q]
      BY <1>c, <2>1, <2>6
    <3>. QED  BY <1>1, <2>1, <2>4, <3>1, <3>2, <3>3
  <2>. QED  BY <2>5, <2>6
<1>6. ASSUME NEW r \in Replica, NEW j \in Kind, TakeNotification(r, j) PROVE ReloadComing(q, k)'
  <2>1. /\ UNCHANGED <<installed, missed, version, conn, up, snap>>
        /\ notes' = [notes EXCEPT ![r][j] = @ - 1]
        /\ todo[Listener(r)] = {}
        /\ todo' = [todo EXCEPT ![Listener(r)] = {j}]
    BY <1>6 DEF TakeNotification, dbVars, storeVars
  <2>2. CASE r = q /\ j = k
    <3>1. k \in todo'[Listener(q)] /\ snap'[Listener(q)] = None
      BY <1>b, <1>c, <1>d, <2>1, <2>2
    <3>. QED  BY <3>1 DEF ReloadComing, WillBring
  <2>3. CASE ~(r = q /\ j = k)
    <3>1. notes'[q][k] = notes[q][k]
      BY <1>c, <2>1, <2>3
    <3>2. ~WillBring(Listener(r), k)
      BY <2>1 DEF WillBring
    <3>3. Main(q) # Listener(r) /\ (r # q => Listener(q) # Listener(r))
      BY GoroutineIs
    <3>4. WillBring(Main(q), k) => WillBring(Main(q), k)'
      BY <1>b, <1>c, <2>1, <3>3, WillBringStays
    <3>5. WillBring(Listener(q), k) => WillBring(Listener(q), k)'
      BY <1>b, <1>c, <2>1, <3>2, <3>3, WillBringStays
    <3>. QED  BY <1>1, <2>1, <3>1, <3>4, <3>5
  <2>. QED  BY <2>2, <2>3
<1>7. ASSUME NEW r \in Replica, Reconnect(r) PROVE ReloadComing(q, k)'
  <2>1. /\ UNCHANGED <<installed, missed, version, notes, up, snap>>
        /\ todo[Listener(r)] = {}
        /\ todo' = [todo EXCEPT ![Listener(r)] = Kind]
        /\ conn' = [conn EXCEPT ![r] = "resync"]
    BY <1>7 DEF Reconnect, dbVars, storeVars
  <2>2. CASE r = q
    <3>1. k \in todo'[Listener(q)] /\ snap'[Listener(q)] = None
      BY <1>b, <1>c, <1>d, <2>1, <2>2
    <3>. QED  BY <3>1 DEF ReloadComing, WillBring
  <2>3. CASE r # q
    <3>1. Main(q) # Listener(r) /\ Listener(q) # Listener(r)
      BY <2>3, GoroutineIs
    <3>2. /\ WillBring(Main(q), k) => WillBring(Main(q), k)'
          /\ WillBring(Listener(q), k) => WillBring(Listener(q), k)'
      BY <1>b, <1>c, <2>1, <3>1, WillBringStays
    <3>3. conn'[q] = conn[q]
      BY <1>c, <2>1, <2>3
    <3>. QED  BY <1>1, <2>1, <3>2, <3>3
  <2>. QED  BY <2>2, <2>3
<1>8. ASSUME NEW r \in Replica, ResyncEnds(r) \/ LoseConnection(r) PROVE ReloadComing(q, k)'
  <2>1. UNCHANGED <<installed, missed, version, up, todo, snap>>
    BY <1>8 DEF ResyncEnds, LoseConnection, dbVars, storeVars
  <2>2. \/ conn[r] = "resync" /\ conn' = [conn EXCEPT ![r] = "listening"] /\ UNCHANGED notes
        \/ conn' = [conn EXCEPT ![r] = "down"] /\ notes' = [notes EXCEPT ![r] = [j \in Kind |-> 0]]
    BY <1>8 DEF ResyncEnds, LoseConnection
  <2>3. \A h \in {Listener(q), Main(q)} : WillBring(h, k) => WillBring(h, k)'
    BY <1>b, <2>1, WillBringStays
  <2>4. CASE conn'[q] = "down"
    BY <2>4 DEF ReloadComing
  <2>5. CASE conn'[q] # "down"
    <3>1. /\ conn[q] \in {"down", "failing"} => conn'[q] \in {"down", "failing"}
          /\ notes'[q][k] = notes[q][k]
      BY <1>c, <2>2, <2>5
    <3>. QED  BY <1>1, <2>1, <2>3, <3>1
  <2>. QED  BY <2>4, <2>5
<1>9. ASSUME NEW r \in Replica, PeriodicResync(r) PROVE ReloadComing(q, k)'
  <2>1. /\ UNCHANGED <<installed, missed, version, conn, notes, up, snap>>
        /\ up[r] = "yes"
        /\ todo' = [todo EXCEPT ![Main(r)] = Kind]
    BY <1>9 DEF PeriodicResync, dbVars, storeVars, listenVars
  <2>2. WillBring(Listener(q), k) => WillBring(Listener(q), k)'
    <3>1. Listener(q) # Main(r)
      BY GoroutineIs
    <3>. QED  BY <1>b, <1>c, <2>1, <3>1, WillBringStays
  <2>3. up[q] = "no" /\ WillBring(Main(q), k) => WillBring(Main(q), k)'
    <3>1. up[q] = "no" => Main(q) # Main(r)
      BY <2>1, GoroutineIs
    <3>. QED  BY <1>b, <1>c, <2>1, <3>1, WillBringStays
  <2>. QED  BY <1>1, <2>1, <2>2, <2>3
<1>10. ASSUME NEW r \in Replica, Restart(r) PROVE ReloadComing(q, k)'
  <2>1. /\ version' = version
        /\ conn' = [conn EXCEPT ![r] = "listening"]
        /\ notes' = [notes EXCEPT ![r] = [j \in Kind |-> 0]]
        /\ up' = [up EXCEPT ![r] = "no"]
        /\ installed' = [installed EXCEPT ![r] = [j \in Kind |-> 0]]
        /\ todo' = [g \in Goroutine |-> IF g = Main(r) THEN Kind
                                         ELSE IF Host(g) = r THEN {} ELSE todo[g]]
        /\ snap' = [g \in Goroutine |-> IF Host(g) = r THEN None ELSE snap[g]]
        /\ missed' = {m \in missed : m[1] # r}
    BY <1>10 DEF Restart, dbVars
  <2>2. CASE r = q
    <3>1. k \in todo'[Main(q)] /\ snap'[Main(q)] = None /\ up'[q] = "no"
      BY <1>b, <1>c, <2>1, <2>2
    <3>. QED  BY <3>1 DEF ReloadComing, WillBring
  <2>3. CASE r # q
    <3>1. Main(q) # Main(r) /\ Listener(q) # Main(r)
      BY <2>3, GoroutineIs
    <3>2. \A h \in {Listener(q), Main(q)} : todo'[h] = todo[h] /\ snap'[h] = snap[h]
      BY <1>b, <2>1, <2>3, <3>1
    <3>3. \A h \in {Listener(q), Main(q)} : WillBring(h, k) => WillBring(h, k)'
      BY <1>b, <2>1, <3>2, WillBringStays
    <3>4. /\ conn'[q] = conn[q] /\ notes'[q] = notes[q] /\ up'[q] = up[q] /\ installed'[q] = installed[q]
          /\ <<q, k>> \notin missed
      BY <1>c, <2>1, <2>3
    <3>. QED  BY <1>1, <2>1, <3>3, <3>4
  <2>. QED  BY <2>2, <2>3
<1>11. ASSUME NEW r \in Replica, NEW c \in Client, Served(r, c), Transaction, LeftToDo(c)
       PROVE  ReloadComing(q, k)'
  <2>1. UNCHANGED <<installed, conn, up, snap, missed>>
    BY <1>11 DEF Served, storeVars
  <2>2. todo'[Listener(q)] = todo[Listener(q)] /\ todo'[Main(q)] = todo[Main(q)]
    BY <1>11, <1>b, <1>c DEF LeftToDo, ThenApply
  <2>3. CASE UNCHANGED <<dbVars, notes>>
    BY <1>2, <2>1, <2>2, <2>3 DEF dbVars
  <2>4. ASSUME NEW i \in Item, NEW value, WriteAndNotify(i, value) PROVE ReloadComing(q, k)'
    <3>1. /\ version' = [version EXCEPT ![KindOf(i)] = @ + 1]
          /\ notes' = [p \in Replica |-> IF conn[p] # "down"
                                         THEN [notes[p] EXCEPT ![KindOf(i)] = @ + 1] ELSE notes[p]]
      BY <2>4 DEF WriteAndNotify, Notify
    <3>2. CASE KindOf(i) = k
      <4>1. CASE conn[q] = "down"
        BY <2>1, <4>1 DEF ReloadComing
      <4>2. CASE conn[q] # "down"
        <5>1. notes[q] \in [Kind -> Nat] /\ notes[q][k] \in Nat
          BY <1>c
        <5>2. notes'[q][k] = notes[q][k] + 1
          BY <3>1, <3>2, <4>2, <5>1
        <5>. QED  BY <5>1, <5>2 DEF ReloadComing
      <4>. QED  BY <4>1, <4>2
    <3>3. CASE KindOf(i) # k
      <4>1. notes[q] \in [Kind -> Nat]
        BY <1>c
      <4>2. version'[k] = version[k] /\ notes'[q][k] = notes[q][k]
        BY <1>c, <3>1, <3>3, <4>1
      <4>3. \A h \in {Listener(q), Main(q)} : WillBring(h, k) => WillBring(h, k)'
        BY <1>b, <2>1, <2>2, <4>2, WillBringStays
      <4>. QED  BY <1>1, <2>1, <4>2, <4>3
    <3>. QED  BY <3>2, <3>3
  <2>. QED  BY <1>11, <2>3, <2>4 DEF Transaction
<1>12. CASE \/ \E i \in Address : HandleDeleteAddress(i)
            \/ \E c \in Client : ApplyToStore(c) \/ Unacknowledged(c)
            \/ UNCHANGED vars
  <2>1. UNCHANGED <<installed, missed, version, conn, notes, up, todo, snap>>
    BY <1>12 DEF HandleDeleteAddress, DeactivateWatchedAddress, ApplyToStore, Unacknowledged,
                 dbVars, storeVars, listenVars, vars
  <2>. QED  BY <1>2, <2>1
<1>. QED  BY <1>3, <1>4, <1>5, <1>6, <1>7, <1>8, <1>9, <1>10, <1>11, <1>12, StepIs

LEMMA StepStores == StoresInv /\ [Next]_vars => StoresInv'
<1>. SUFFICES ASSUME StoresInv, [Next]_vars PROVE StoresInv'
  OBVIOUS
<1>1. TypeOK'
  BY StepDb, StepListen, StepMemory, StepReloads, StepClients DEF TypeOK
<1>. QED  BY <1>1, StepDb, StepReloads, StepClients, StepNoLost DEF StoresInv

\* StoresInv is an invariant.
LEMMA Invariance == Spec => []StoresInv
BY InitStores, StepStores, PTL DEF Spec

-----------------------------------------------------------------------------
(***************************************************************************)
(* Type correctness: what a reload installs are rows of the store it read, *)
(* and a handler that writes to a store is at a replica.                   *)
(***************************************************************************)
THEOREM TypeCorrect == Spec => []TypeOK
<1>1. StoresInv => TypeOK
  BY DEF StoresInv
<1>. QED  BY <1>1, Invariance, PTL

(***************************************************************************)
(* NoLostNotification, for every number of replicas and requests: LISTEN   *)
(* before load, at startup and after a reconnect, leaves no gap in which   *)
(* an announced change is missed (main, listenOnce).                       *)
(***************************************************************************)
THEOREM ChangesArrive == Spec => []NoLostNotification
<1>1. StoresInv => NoLostNotification
  BY DEF StoresInv
<1>. QED  BY <1>1, Invariance, PTL

=============================================================================
