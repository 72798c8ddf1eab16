--------------------------- MODULE WebhookEndpoints ---------------------------
(***************************************************************************)
(* Subscriber endpoints (internal/db/webhook_endpoints.go), the requests   *)
(* that change them (internal/api) and the fan-out of a matched transfer   *)
(* to one outbox row per endpoint (EnqueueWebhookEvent).                   *)
(*                                                                         *)
(* A save is several statements without a lock: it reads the row, reads it *)
(* again for the previous signing key and writes all columns.  A delete    *)
(* and an enqueue are transactions that meet on the endpoint's row lock:   *)
(* FOR UPDATE against FOR KEY SHARE.                                       *)
(***************************************************************************)
EXTENDS Integers

CONSTANTS
  Client,        \* goroutines that serve requests, or start a replica
  Scanner,       \* goroutines that enqueue matched transfers
  Key,           \* transfers
  Secret,        \* signing keys
  FirstSecret,   \* the key of the endpoints configured before
  None,          \* nothing
  MaxEndpoints,  \* bound: endpoints ever created
  MaxRequests,   \* bound: requests
  MaxEnqueues,   \* bound: transfers enqueued
  MaxFaults      \* bound: failed statements, crashes

\* Endpoints are numbered in the order of created_at.
Endpoint == 1..MaxEndpoints

ASSUME EndpointsAssumption ==
  /\ Client \cap Scanner = {}
  /\ None \notin Client \cup Key \cup Secret \cup Int
  /\ FirstSecret \in Secret
  /\ MaxEndpoints \in Nat
  /\ MaxRequests \in Nat
  /\ MaxEnqueues \in Nat
  /\ MaxFaults \in Nat

VARIABLES
  status,     \* the endpoints: not created yet, stored, deleted
  secret,     \* signing_secret
  previous,   \* signing_secret_previous
  active,     \* is_active
  lock,       \* the transaction that holds FOR UPDATE on the row
  outbox,     \* webhook_events by dedupe_key; "gone" with their endpoint
  pc,         \* where each request stands
  target,     \* the endpoint it is about
  ep,         \* the WebhookEndpoint it will save
  seen,       \* the signing key its second read returned
  force,      \* ?force=true
  job,        \* the transfer a scanner is enqueueing
  listed,     \* the endpoints it had to reach when it listed them
  todo,       \* the ones it has not come to yet
  cur,        \* the one it has locked and not inserted for yet
  share,      \* the rows it holds FOR KEY SHARE
  mine,       \* the rows it has inserted and not committed
  requests, enqueues, faults

rowVars == <<status, secret, previous, active>>
requestVars == <<pc, target, ep, seen, force>>
enqueueVars == <<job, listed, todo, cur, share, mine>>
boundVars == <<requests, enqueues, faults>>
vars == <<rowVars, lock, outbox, requestVars, enqueueVars, boundVars>>

Live == {e \in Endpoint : status[e] = "live"}

Request ==
  /\ requests < MaxRequests
  /\ requests' = requests + 1
  /\ UNCHANGED <<enqueues, faults>>

Fault ==
  /\ faults < MaxFaults
  /\ faults' = faults + 1
  /\ UNCHANGED <<requests, enqueues>>

Goto(c, label) == pc' = [pc EXCEPT ![c] = label]

Blank == [secret |-> None, previous |-> None, active |-> "no"]

\* The request is answered and its variables are gone.
Answer(c) ==
  /\ Goto(c, "idle")
  /\ target' = [target EXCEPT ![c] = None]
  /\ ep' = [ep EXCEPT ![c] = Blank]
  /\ seen' = [seen EXCEPT ![c] = None]
  /\ force' = [force EXCEPT ![c] = "no"]

GoOn(c, label) == Goto(c, label) /\ UNCHANGED <<target, ep, seen, force>>

\* An UPDATE of the row waits for a delete that has it locked, not for enqueues.
CanUpdate(e) == lock[e] = None

-----------------------------------------------------------------------------
(***************************************************************************)
(* Saving an endpoint (UpsertWebhookEndpoint).                             *)
(***************************************************************************)

\* INSERT: the new endpoint is the youngest, and has no previous key.
Insert(key, isActive) ==
  \E e \in Endpoint :
    /\ status[e] = "new"
    /\ \A f \in Endpoint : f < e => status[f] # "new"
    /\ status' = [status EXCEPT ![e] = "live"]
    /\ secret' = [secret EXCEPT ![e] = key]
    /\ previous' = [previous EXCEPT ![e] = None]
    /\ active' = [active EXCEPT ![e] = isActive]

\* POST /api/v1/webhook/endpoints; a key that is not given is generated.
HandlePostWebhookEndpoint(c, key) ==
  /\ pc[c] = "idle"
  /\ Request
  /\ Insert(key, "yes")
  /\ UNCHANGED <<lock, outbox, requestVars, enqueueVars>>

Given(value, kept) == IF value = None THEN kept ELSE value

\* PATCH: the first read, and the merge of what the request gives.
HandlePatchWebhookEndpoint(c, e, key, isActive) ==
  /\ pc[c] = "idle"
  /\ Request
  /\ status[e] = "live"
  /\ target' = [target EXCEPT ![c] = e]
  /\ ep' = [ep EXCEPT ![c] = [secret |-> Given(key, secret[e]), previous |-> previous[e],
                              active |-> Given(isActive, active[e])]]
  /\ Goto(c, "previous")
  /\ UNCHANGED <<rowVars, lock, outbox, seen, force, enqueueVars>>

SavePrimary(c, key, isActive) ==
  /\ pc[c] = "idle"
  /\ Request
  /\ ep' = [ep EXCEPT ![c] = [secret |-> key, previous |-> None, active |-> isActive]]
  /\ Goto(c, "primary")
  /\ UNCHANGED <<rowVars, lock, outbox, target, seen, force, enqueueVars>>

\* PUT /api/v1/webhook
HandlePutWebhook(c, key) == SavePrimary(c, key, "yes")

HandleDashboardWebhookSettings(c, key, isActive) == SavePrimary(c, key, isActive)

\* A replica starts and finds no endpoint: it saves the one of its environment.
BootstrapWebhookEndpoints(c, key) == Live = {} /\ SavePrimary(c, key, "yes")

\* (Mutant: no key is generated for an endpoint created without one.)
ListPrimaryKeyless(c) ==
  /\ pc[c] = "primary"
  /\ Live = {}
  /\ Goto(c, "insert")
  /\ UNCHANGED <<rowVars, lock, outbox, target, ep, seen, force, enqueueVars, boundVars>>

\* UpsertPrimaryWebhookEndpointPreserveSecret lists the endpoints and changes
\* the oldest, or goes on to create one.
ListPrimary(c) ==
  /\ pc[c] = "primary"
  /\ \/ \E e \in Live :
          /\ \A f \in Live : e <= f
          /\ target' = [target EXCEPT ![c] = e]
          /\ ep' = [ep EXCEPT ![c] = [secret |-> Given(@.secret, secret[e]),
                                      previous |-> previous[e], active |-> @.active]]
          /\ Goto(c, "previous")
     \/ /\ Live = {}
        /\ \E key \in Secret :
             ep' = [ep EXCEPT ![c].secret = Given(@, key)]
        /\ Goto(c, "insert")
        /\ UNCHANGED target
  /\ UNCHANGED <<rowVars, lock, outbox, seen, force, enqueueVars, boundVars>>

InsertPrimary(c) ==
  /\ pc[c] = "insert"
  /\ Insert(ep[c].secret, ep[c].active)
  /\ Answer(c)
  /\ UNCHANGED <<lock, outbox, enqueueVars, boundVars>>

\* (Mutant: the previous key is the one of the first read.)
ReadNothing(c) ==
  /\ pc[c] = "previous"
  /\ seen' = [seen EXCEPT ![c] = IF status[target[c]] = "live" THEN secret[target[c]] ELSE None]
  /\ Goto(c, "update")
  /\ UNCHANGED <<rowVars, lock, outbox, target, ep, force, enqueueVars, boundVars>>

\* The second read: a key that is about to be replaced becomes the previous one.
ReadPrevious(c) ==
  LET e == target[c]
  IN  /\ pc[c] = "previous"
      /\ seen' = [seen EXCEPT ![c] = IF status[e] = "live" THEN secret[e] ELSE None]
      /\ ep' = [ep EXCEPT ![c].previous = IF status[e] # "live" THEN None
                                          ELSE IF secret[e] # ep[c].secret THEN secret[e]
                                          ELSE previous[e]]
      /\ Goto(c, "update")
      /\ UNCHANGED <<rowVars, lock, outbox, target, force, enqueueVars, boundVars>>

\* The UPDATE of every column; no row, no update.
UpdateEndpoint(c) ==
  LET e == target[c]
  IN  /\ pc[c] = "update"
      /\ CanUpdate(e)
      /\ IF status[e] = "live"
         THEN /\ secret' = [secret EXCEPT ![e] = ep[c].secret]
              /\ previous' = [previous EXCEPT ![e] = ep[c].previous]
              /\ active' = [active EXCEPT ![e] = ep[c].active]
         ELSE UNCHANGED <<secret, previous, active>>
      /\ Answer(c)
      /\ UNCHANGED <<status, lock, outbox, enqueueVars, boundVars>>

\* DeactivateWebhookEndpoint, for the delivery worker.
DeactivateWebhookEndpoint(e) ==
  /\ Request
  /\ status[e] = "live"
  /\ CanUpdate(e)
  /\ active' = [active EXCEPT ![e] = "no"]
  /\ UNCHANGED <<status, secret, previous, lock, outbox, requestVars, enqueueVars>>

-----------------------------------------------------------------------------
(***************************************************************************)
(* DELETE /api/v1/webhook/endpoints/{endpointID}                           *)
(***************************************************************************)
Undelivered == {"pending", "reopened"}

HandleDeleteWebhookEndpoint(c, e, forced) ==
  /\ pc[c] = "idle"
  /\ Request
  /\ target' = [target EXCEPT ![c] = e]
  /\ force' = [force EXCEPT ![c] = forced]
  /\ Goto(c, "lock")
  /\ UNCHANGED <<rowVars, lock, outbox, ep, seen, enqueueVars>>

\* (Mutant: the row is read without FOR UPDATE.)
ReadForDelete(c) ==
  /\ pc[c] = "lock"
  /\ IF status[target[c]] = "live" THEN GoOn(c, "check") ELSE Answer(c)
  /\ UNCHANGED <<rowVars, lock, outbox, enqueueVars, boundVars>>

\* FOR UPDATE waits for every other lock on the row.
LockForDelete(c) ==
  LET e == target[c]
  IN  /\ pc[c] = "lock"
      /\ lock[e] = None
      /\ \A s \in Scanner : e \notin share[s]
      /\ IF status[e] = "live"
         THEN lock' = [lock EXCEPT ![e] = c] /\ GoOn(c, "check")
         ELSE Answer(c) /\ UNCHANGED lock
      /\ UNCHANGED <<rowVars, outbox, enqueueVars, boundVars>>

Unlock(c) == lock' = [e \in Endpoint |-> IF lock[e] = c THEN None ELSE lock[e]]

CheckUndelivered(c) ==
  /\ pc[c] = "check"
  /\ IF force[c] = "no" /\ \E k \in Key : outbox[<<k, target[c]>>] \in Undelivered
     THEN Answer(c) /\ Unlock(c)
     ELSE GoOn(c, "delete") /\ UNCHANGED lock
  /\ UNCHANGED <<rowVars, outbox, enqueueVars, boundVars>>

\* The endpoint's outbox rows go with it (ON DELETE CASCADE).
DeleteEndpoint(c) ==
  LET e == target[c]
  IN  /\ pc[c] = "delete"
      /\ status' = [status EXCEPT ![e] = "deleted"]
      /\ outbox' = [x \in Key \X Endpoint |-> IF x[2] = e /\ outbox[x] # "none"
                                              THEN "gone" ELSE outbox[x]]
      /\ Answer(c)
      /\ Unlock(c)
      /\ UNCHANGED <<secret, previous, active, enqueueVars, boundVars>>

\* A statement fails or the process dies: the transaction is rolled back.
AbortRequest(c) ==
  /\ pc[c] # "idle"
  /\ Fault
  /\ Answer(c)
  /\ Unlock(c)
  /\ UNCHANGED <<rowVars, outbox, enqueueVars>>

-----------------------------------------------------------------------------
(***************************************************************************)
(* The fan-out (EnqueueWebhookEvent).                                      *)
(***************************************************************************)

\* The list is read before the transaction begins.  Endpoints that have not
\* subscribed to the event's type are passed over like the ones not active.
EnqueueWebhookEvent(s, k) ==
  LET wanted == {e \in Live : active[e] = "yes"}
  IN  /\ job[s] = None
      /\ wanted # {}
      /\ enqueues < MaxEnqueues
      /\ enqueues' = enqueues + 1
      /\ job' = [job EXCEPT ![s] = k]
      /\ listed' = [listed EXCEPT ![s] = wanted]
      /\ todo' = [todo EXCEPT ![s] = wanted]
      /\ UNCHANGED <<rowVars, lock, outbox, requestVars, cur, share, mine, requests, faults>>

\* (Mutant: the endpoints come in any order.)
InAnyOrder(s, e) == e \in todo[s]

\* ORDER BY created_at
InTurn(s, e) == e \in todo[s] /\ \A f \in todo[s] : e <= f

\* (Mutant: the row is read without FOR KEY SHARE.)
ReadEndpoint(s) ==
  \E e \in Endpoint :
    /\ job[s] # None /\ cur[s] = None
    /\ InTurn(s, e)
    /\ todo' = [todo EXCEPT ![s] = @ \ {e}]
    /\ cur' = [cur EXCEPT ![s] = IF status[e] = "live" THEN e ELSE None]
    /\ UNCHANGED <<rowVars, lock, outbox, requestVars, job, listed, share, mine, boundVars>>

\* FOR KEY SHARE waits for a delete; a row that is gone is passed over.
LockEndpoint(s) ==
  \E e \in Endpoint :
    /\ job[s] # None /\ cur[s] = None
    /\ InTurn(s, e)
    /\ lock[e] = None
    /\ todo' = [todo EXCEPT ![s] = @ \ {e}]
    /\ cur' = [cur EXCEPT ![s] = IF status[e] = "live" THEN e ELSE None]
    /\ share' = [share EXCEPT ![s] = IF status[e] = "live" THEN @ \cup {e} ELSE @]
    /\ UNCHANGED <<rowVars, lock, outbox, requestVars, job, listed, mine, boundVars>>

\* What every end of the transaction does.
Ended(s) ==
  /\ job' = [job EXCEPT ![s] = None]
  /\ listed' = [listed EXCEPT ![s] = {}]
  /\ todo' = [todo EXCEPT ![s] = {}]
  /\ cur' = [cur EXCEPT ![s] = None]
  /\ share' = [share EXCEPT ![s] = {}]
  /\ mine' = [mine EXCEPT ![s] = {}]

\* The transfer has a row for the endpoint, under today's dedupe_key or, as
\* legacyWebhookDedupeExists finds out, under one of an older release.
Recorded(k, e) == outbox[<<k, e>>] # "none"

\* Another transaction has inserted the same dedupe_key and not ended.
Contended(s, e) == \E t \in Scanner \ {s} : job[t] = job[s] /\ e \in mine[t]

\* INSERT ... ON CONFLICT DO NOTHING.  It waits for an insert of the same key;
\* without its endpoint it violates the foreign key and the whole transaction
\* is rolled back.
InsertEvent(s) ==
  LET e == cur[s]
  IN  /\ e # None
      /\ ~Contended(s, e)
      /\ lock[e] = None
      /\ IF Recorded(job[s], e) \/ status[e] = "live"
         THEN /\ mine' = [mine EXCEPT ![s] = IF Recorded(job[s], e) THEN @ ELSE @ \cup {e}]
              /\ share' = [share EXCEPT ![s] = @ \cup {e}]
              /\ cur' = [cur EXCEPT ![s] = None]
              /\ UNCHANGED <<job, listed, todo>>
         ELSE Ended(s)
      /\ UNCHANGED <<rowVars, lock, outbox, requestVars, boundVars>>

CommitEnqueue(s) ==
  /\ job[s] # None /\ cur[s] = None /\ todo[s] = {}
  /\ outbox' = [x \in Key \X Endpoint |-> IF x[1] = job[s] /\ x[2] \in mine[s]
                                          THEN "pending" ELSE outbox[x]]
  /\ Ended(s)
  /\ UNCHANGED <<rowVars, lock, requestVars, boundVars>>

AbortEnqueue(s) ==
  /\ job[s] # None
  /\ Fault
  /\ Ended(s)
  /\ UNCHANGED <<rowVars, lock, outbox, requestVars>>

\* The delivery worker ends with the row: delivered or dead.
Settle(x) ==
  /\ outbox[x] \in Undelivered
  /\ outbox' = [outbox EXCEPT ![x] = "settled"]
  /\ UNCHANGED <<rowVars, lock, requestVars, enqueueVars, boundVars>>

\* The retry API makes a dead row pending again.
RetryWebhookEvent(x) ==
  /\ Request
  /\ outbox[x] = "settled"
  /\ outbox' = [outbox EXCEPT ![x] = "reopened"]
  /\ UNCHANGED <<rowVars, lock, requestVars, enqueueVars>>

-----------------------------------------------------------------------------
\* Some endpoints have been configured before.
Init ==
  /\ \E n \in 0..MaxEndpoints :
       status = [e \in Endpoint |-> IF e <= n THEN "live" ELSE "new"]
  /\ secret = [e \in Endpoint |-> FirstSecret]
  /\ previous = [e \in Endpoint |-> None]
  /\ active = [e \in Endpoint |-> "yes"]
  /\ lock = [e \in Endpoint |-> None]
  /\ outbox = [x \in Key \X Endpoint |-> "none"]
  /\ pc = [c \in Client |-> "idle"]
  /\ target = [c \in Client |-> None]
  /\ ep = [c \in Client |-> Blank]
  /\ seen = [c \in Client |-> None]
  /\ force = [c \in Client |-> "no"]
  /\ job = [s \in Scanner |-> None]
  /\ listed = [s \in Scanner |-> {}]
  /\ todo = [s \in Scanner |-> {}]
  /\ cur = [s \in Scanner |-> None]
  /\ share = [s \in Scanner |-> {}]
  /\ mine = [s \in Scanner |-> {}]
  /\ requests = 0
  /\ enqueues = 0
  /\ faults = 0

Start(c) ==
  \/ \E key \in Secret : HandlePostWebhookEndpoint(c, key)
  \/ \E key \in Secret \cup {None} :
       \/ \E e \in Endpoint, isActive \in {"yes", "no", None} :
            HandlePatchWebhookEndpoint(c, e, key, isActive)
       \/ HandlePutWebhook(c, key) \/ BootstrapWebhookEndpoints(c, key)
       \/ \E isActive \in {"yes", "no"} : HandleDashboardWebhookSettings(c, key, isActive)
  \/ \E e \in Endpoint, forced \in {"yes", "no"} : HandleDeleteWebhookEndpoint(c, e, forced)

Continue(c) ==
  \/ ListPrimary(c) \/ InsertPrimary(c) \/ ReadPrevious(c) \/ UpdateEndpoint(c)
  \/ LockForDelete(c) \/ CheckUndelivered(c) \/ DeleteEndpoint(c)

Enqueue(s) == LockEndpoint(s) \/ InsertEvent(s) \/ CommitEnqueue(s)

Next ==
  \/ \E c \in Client : Start(c) \/ Continue(c) \/ AbortRequest(c)
  \/ \E s \in Scanner : Enqueue(s) \/ AbortEnqueue(s) \/ \E k \in Key : EnqueueWebhookEvent(s, k)
  \/ \E e \in Endpoint : DeactivateWebhookEndpoint(e)
  \/ \E x \in Key \X Endpoint : Settle(x) \/ RetryWebhookEvent(x)

Spec == Init /\ [][Next]_vars

\* Goroutines run, and Postgres grants a lock once nobody is in its way.
Fairness ==
  /\ \A c \in Client : WF_vars(Continue(c))
  /\ \A s \in Scanner : WF_vars(Enqueue(s))

FairSpec == Spec /\ Fairness

-----------------------------------------------------------------------------
TypeOK ==
  /\ status \in [Endpoint -> {"new", "live", "deleted"}]
  /\ secret \in [Endpoint -> Secret]
  /\ previous \in [Endpoint -> Secret \cup {None}]
  /\ active \in [Endpoint -> {"yes", "no"}]
  /\ lock \in [Endpoint -> Client \cup {None}]
  /\ outbox \in [Key \X Endpoint -> {"none", "pending", "settled", "reopened", "gone"}]
  /\ pc \in [Client -> {"idle", "primary", "insert", "previous", "update",
                        "lock", "check", "delete"}]
  /\ target \in [Client -> Endpoint \cup {None}]
  /\ ep \in [Client -> [secret : Secret \cup {None}, previous : Secret \cup {None},
                        active : {"yes", "no"}]]
  /\ seen \in [Client -> Secret \cup {None}]
  /\ force \in [Client -> {"yes", "no"}]
  /\ job \in [Scanner -> Key \cup {None}]
  /\ listed \in [Scanner -> SUBSET Endpoint]
  /\ todo \in [Scanner -> SUBSET Endpoint]
  /\ cur \in [Scanner -> Endpoint \cup {None}]
  /\ share \in [Scanner -> SUBSET Endpoint]
  /\ mine \in [Scanner -> SUBSET Endpoint]
  /\ requests \in 0..MaxRequests
  /\ enqueues \in 0..MaxEnqueues
  /\ faults \in 0..MaxFaults

(***************************************************************************)
(* A delete without force discards no event that is still waiting for its  *)
(* first outcome: none may be committed between the check and the delete   *)
(* (webhook_endpoints.go:265-296, scanner.go:769-781).  A row that was     *)
(* dead at the check and is retried before the delete is the exception.    *)
(***************************************************************************)
NothingDiscarded ==
  [][\A x \in Key \X Endpoint : outbox[x] = "pending" /\ outbox'[x] = "gone" =>
       \E c \in Client : pc[c] = "delete" /\ pc'[c] = "idle" /\ force[c] = "yes"]_vars

(***************************************************************************)
(* An enqueue that meets no fault reaches every endpoint on its list: each *)
(* has a row for the transfer or has been deleted.  No delete in between   *)
(* makes it fail for the others (scanner.go:765-852).                      *)
(***************************************************************************)
FanOutComplete ==
  [][\A s \in Scanner : job[s] # None /\ job'[s] = None /\ faults' = faults =>
       \A e \in listed[s] : status'[e] = "deleted" \/ outbox'[<<job[s], e>>] # "none"]_vars

(***************************************************************************)
(* A signing key that a save replaces is still accepted as the previous    *)
(* one, also when the save began before that key was set: it must be lost  *)
(* only to another change between the save's second read and its write     *)
(* (webhook_endpoints.go:169-183).                                         *)
(***************************************************************************)
ReplacedKeyKept ==
  [][\A c \in Client, e \in Endpoint :
       /\ pc[c] = "update" /\ pc'[c] = "idle" /\ faults' = faults
       /\ target[c] = e /\ status[e] = "live" /\ secret[e] = seen[c]
       => secret[e] \in {secret'[e], previous'[e]}]_vars

(***************************************************************************)
(* Nobody waits for ever: once no more requests and transfers come, the    *)
(* enqueues of one transfer that wait for each other's rows, the deletes   *)
(* that wait for enqueues and the enqueues and saves that wait for deletes *)
(* have all ended (scanner.go:765-852, webhook_endpoints.go:265-296).      *)
(***************************************************************************)
EverythingEnds ==
  <>[](/\ \A s \in Scanner : job[s] = None
       /\ \A c \in Client : pc[c] = "idle")

=============================================================================
