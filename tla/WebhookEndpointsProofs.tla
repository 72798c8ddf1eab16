------------------------ MODULE WebhookEndpointsProofs ------------------------
(***************************************************************************)
(* Machine-checked proofs about WebhookEndpoints, for any number of        *)
(* requests, scanners, transfers and endpoints: type correctness, that a   *)
(* delete without force discards no waiting event, that an enqueue reaches *)
(* all the endpoints on its list, and that a replaced signing key is kept. *)
(***************************************************************************)
EXTENDS WebhookEndpoints, TLAPS

-----------------------------------------------------------------------------
\* What a request knows about itself: a save, past its first read, has a key, and
\* a request about an endpoint names one.
RequestInv ==
  \A c \in Client :
    /\ pc[c] \in {"previous", "update", "lock", "check", "delete"} => target[c] \in Endpoint
    /\ pc[c] \in {"insert", "previous", "update"} => ep[c].secret \in Secret

LEMMA InitTypes == Init => TypeOK /\ RequestInv
BY EndpointsAssumption DEF Init, TypeOK, RequestInv, Blank, Endpoint

\* A request that starts, from its handler to its first statement.
LEMMA StartTypes ==
  ASSUME TypeOK, RequestInv, NEW c \in Client, Start(c)
  PROVE  TypeOK' /\ RequestInv'
<1> USE EndpointsAssumption DEF TypeOK, RequestInv, Request, Goto, rowVars, requestVars, enqueueVars
<1>1. ASSUME NEW key \in Secret, HandlePostWebhookEndpoint(c, key)
      PROVE  TypeOK' /\ RequestInv'
  BY <1>1 DEF HandlePostWebhookEndpoint, Insert
<1>2. ASSUME NEW key \in Secret \cup {None}, NEW e \in Endpoint, NEW isActive \in {"yes", "no", None},
             HandlePatchWebhookEndpoint(c, e, key, isActive)
      PROVE  TypeOK' /\ RequestInv'
  <2>1. /\ Given(key, secret[e]) \in Secret
        /\ Given(isActive, active[e]) \in {"yes", "no"}
    BY DEF Given
  <2> QED
    BY <1>2, <2>1 DEF HandlePatchWebhookEndpoint
<1>3. ASSUME NEW key \in Secret \cup {None}, NEW isActive \in {"yes", "no"},
             SavePrimary(c, key, isActive)
      PROVE  TypeOK' /\ RequestInv'
  BY <1>3 DEF SavePrimary
<1>4. ASSUME NEW e \in Endpoint, NEW forced \in {"yes", "no"}, HandleDeleteWebhookEndpoint(c, e, forced)
      PROVE  TypeOK' /\ RequestInv'
  BY <1>4 DEF HandleDeleteWebhookEndpoint
<1> HIDE DEF TypeOK, RequestInv
<1> QED
  BY <1>1, <1>2, <1>3, <1>4 DEF Start, HandlePutWebhook, BootstrapWebhookEndpoints,
     HandleDashboardWebhookSettings

\* The types of a request's variables.
RequestTypes ==
  /\ pc \in [Client -> {"idle", "primary", "insert", "previous", "update",
                        "lock", "check", "delete"}]
  /\ target \in [Client -> Endpoint \cup {None}]
  /\ ep \in [Client -> [secret : Secret \cup {None}, previous : Secret \cup {None},
                        active : {"yes", "no"}]]
  /\ seen \in [Client -> Secret \cup {None}]
  /\ force \in [Client -> {"yes", "no"}]

\* The end of a request, or its next statement, keeps its types; so does the
\* release of its lock.
LEMMA RequestEnds ==
  ASSUME TypeOK, RequestInv, NEW c \in Client, Answer(c)
  PROVE  RequestTypes' /\ RequestInv'
BY EndpointsAssumption DEF TypeOK, RequestTypes, RequestInv, Answer, Goto, Blank

LEMMA RequestGoesOn ==
  ASSUME TypeOK, RequestInv, NEW c \in Client, target[c] \in Endpoint,
         NEW label \in {"check", "delete"}, GoOn(c, label)
  PROVE  RequestTypes' /\ RequestInv'
BY DEF TypeOK, RequestTypes, RequestInv, GoOn, Goto

LEMMA LockType ==
  ASSUME TypeOK, NEW c \in Client, Unlock(c)
  PROVE  lock' \in [Endpoint -> Client \cup {None}]
BY DEF TypeOK, Unlock

\* Setting one field of what a request will save.
Saved == [secret : Secret \cup {None}, previous : Secret \cup {None}, active : {"yes", "no"}]

LEMMA SetSecret ==
  ASSUME NEW f \in [Client -> Saved], NEW c \in Client, NEW key \in Secret
  PROVE  /\ [f EXCEPT ![c].secret = key] \in [Client -> Saved]
         /\ [f EXCEPT ![c].secret = key][c].secret \in Secret
         /\ \A d \in Client \ {c} : [f EXCEPT ![c].secret = key][d] = f[d]
BY DEF Saved

LEMMA SetPrevious ==
  ASSUME NEW f \in [Client -> Saved], NEW c \in Client, NEW key \in Secret \cup {None}
  PROVE  /\ [f EXCEPT ![c].previous = key] \in [Client -> Saved]
         /\ \A d \in Client : [f EXCEPT ![c].previous = key][d].secret = f[d].secret
         /\ [f EXCEPT ![c].previous = key][c].previous = key
BY DEF Saved

\* A request that goes on, one statement after the other, or is broken off.
LEMMA ContinueTypes ==
  ASSUME TypeOK, RequestInv, NEW c \in Client, Continue(c) \/ AbortRequest(c)
  PROVE  TypeOK' /\ RequestInv'
<1> USE DEF rowVars, requestVars, enqueueVars, boundVars
<1>1. CASE ListPrimary(c)
  <2>1. RequestTypes' /\ RequestInv'
    <3>1. ASSUME NEW key \in Secret
          PROVE  Given(ep[c].secret, key) \in Secret
      BY DEF Given, TypeOK
    <3>2. ASSUME NEW e \in Endpoint,
                 target' = [target EXCEPT ![c] = e],
                 ep' = [ep EXCEPT ![c] = [secret |-> Given(@.secret, secret[e]),
                                          previous |-> previous[e], active |-> @.active]],
                 pc' = [pc EXCEPT ![c] = "previous"],
                 UNCHANGED <<seen, force>>
          PROVE  RequestTypes' /\ RequestInv'
      <4>1. Given(ep[c].secret, secret[e]) \in Secret
        BY <3>1 DEF TypeOK
      <4>2. ep' \in [Client -> [secret : Secret \cup {None}, previous : Secret \cup {None},
                                active : {"yes", "no"}]] /\ ep'[c].secret \in Secret
        BY <3>2, <4>1 DEF TypeOK
      <4> QED
        BY <3>2, <4>2 DEF TypeOK, RequestTypes, RequestInv
    <3>3. ASSUME NEW key \in Secret,
                 ep' = [ep EXCEPT ![c].secret = Given(@, key)],
                 pc' = [pc EXCEPT ![c] = "insert"],
                 UNCHANGED <<target, seen, force>>
          PROVE  RequestTypes' /\ RequestInv'
      <4> DEFINE given == Given(ep[c].secret, key)
      <4>1. given \in Secret
        BY <3>1
      <4>2. ep' = [ep EXCEPT ![c].secret = given]
        BY <3>3
      <4>3. ep \in [Client -> Saved]
        BY DEF TypeOK, Saved
      <4> HIDE DEF given
      <4>4. /\ ep' \in [Client -> Saved] /\ ep'[c].secret \in Secret
            /\ \A d \in Client \ {c} : ep'[d] = ep[d]
        BY <4>1, <4>2, <4>3, SetSecret
      <4> QED
        BY <3>3, <4>4 DEF TypeOK, RequestTypes, RequestInv, Saved
    <3> QED
      BY <1>1, <3>2, <3>3 DEF ListPrimary, Live, Goto
  <2> QED
    BY <1>1, <2>1 DEF ListPrimary, TypeOK, RequestTypes
<1>2. CASE InsertPrimary(c)
  BY <1>2, RequestEnds DEF InsertPrimary, Insert, TypeOK, RequestTypes, RequestInv
<1>3. CASE ReadPrevious(c)
  <2>1. target[c] \in Endpoint /\ ep[c].secret \in Secret
    BY <1>3 DEF ReadPrevious, RequestInv
  <2> DEFINE e == target[c]
             kept == IF status[e] # "live" THEN None
                     ELSE IF secret[e] # ep[c].secret THEN secret[e] ELSE previous[e]
             known == IF status[e] = "live" THEN secret[e] ELSE None
  <2>a. kept \in Secret \cup {None} /\ known \in Secret \cup {None}
    BY <2>1 DEF TypeOK
  <2>2. /\ ep' = [ep EXCEPT ![c].previous = kept]
        /\ seen' = [seen EXCEPT ![c] = known]
    BY <1>3 DEF ReadPrevious
  <2>b. ep \in [Client -> Saved]
    BY DEF TypeOK, Saved
  <2> HIDE DEF e, kept, known
  <2>3. /\ ep' \in [Client -> Saved]
        /\ \A d \in Client : ep'[d].secret = ep[d].secret
    BY <2>a, <2>2, <2>b, SetPrevious
  <2>c. seen' \in [Client -> Secret \cup {None}]
    BY <2>a, <2>2 DEF TypeOK
  <2>4. pc' = [pc EXCEPT ![c] = "update"] /\ UNCHANGED <<target, force>>
    BY <1>3 DEF ReadPrevious, Goto
  <2>5. RequestInv'
    BY <2>1, <2>3, <2>4 DEF TypeOK, RequestInv
  <2> QED
    BY <1>3, <2>3, <2>c, <2>4, <2>5 DEF ReadPrevious, TypeOK, Saved
<1>4. CASE UpdateEndpoint(c)
  <2>1. RequestTypes' /\ RequestInv'
    BY <1>4, RequestEnds DEF UpdateEndpoint
  <2>2. /\ target[c] \in Endpoint /\ ep[c].secret \in Secret
        /\ ep[c].previous \in Secret \cup {None} /\ ep[c].active \in {"yes", "no"}
    BY <1>4 DEF UpdateEndpoint, RequestInv, TypeOK
  <2>3. /\ secret' \in [Endpoint -> Secret]
        /\ previous' \in [Endpoint -> Secret \cup {None}]
        /\ active' \in [Endpoint -> {"yes", "no"}]
    BY <1>4, <2>2 DEF UpdateEndpoint, TypeOK
  <2> QED
    BY <1>4, <2>1, <2>3 DEF UpdateEndpoint, TypeOK, RequestTypes
<1>5. CASE LockForDelete(c)
  <2>1. target[c] \in Endpoint
    BY <1>5 DEF LockForDelete, RequestInv
  <2>2. RequestTypes' /\ RequestInv'
    BY <1>5, <2>1, RequestEnds, RequestGoesOn DEF LockForDelete
  <2>3. lock' \in [Endpoint -> Client \cup {None}]
    BY <1>5, <2>1 DEF LockForDelete, TypeOK
  <2> QED
    BY <1>5, <2>2, <2>3 DEF LockForDelete, TypeOK, RequestTypes
<1>6. CASE CheckUndelivered(c)
  <2>1. target[c] \in Endpoint
    BY <1>6 DEF CheckUndelivered, RequestInv
  <2>2. RequestTypes' /\ RequestInv'
    BY <1>6, <2>1, RequestEnds, RequestGoesOn DEF CheckUndelivered
  <2>3. lock' \in [Endpoint -> Client \cup {None}]
    BY <1>6, LockType DEF CheckUndelivered, TypeOK
  <2> QED
    BY <1>6, <2>2, <2>3 DEF CheckUndelivered, TypeOK, RequestTypes
<1>7. CASE DeleteEndpoint(c)
  <2>1. target[c] \in Endpoint
    BY <1>7 DEF DeleteEndpoint, RequestInv
  <2>2. RequestTypes' /\ RequestInv' /\ lock' \in [Endpoint -> Client \cup {None}]
    BY <1>7, RequestEnds, LockType DEF DeleteEndpoint
  <2>3. /\ status' \in [Endpoint -> {"new", "live", "deleted"}]
        /\ outbox' \in [Key \X Endpoint -> {"none", "pending", "settled", "reopened", "gone"}]
    BY <1>7, <2>1 DEF DeleteEndpoint, TypeOK
  <2> QED
    BY <1>7, <2>2, <2>3 DEF DeleteEndpoint, TypeOK, RequestTypes
<1>8. CASE AbortRequest(c)
  <2>1. RequestTypes' /\ RequestInv' /\ lock' \in [Endpoint -> Client \cup {None}]
    BY <1>8, RequestEnds, LockType DEF AbortRequest
  <2> QED
    BY <1>8, <2>1, EndpointsAssumption DEF AbortRequest, Fault, TypeOK, RequestTypes
<1> QED
  BY <1>1, <1>2, <1>3, <1>4, <1>5, <1>6, <1>7, <1>8 DEF Continue

\* A step of a scanner's enqueue.
LEMMA EnqueueTypes ==
  ASSUME TypeOK, RequestInv, NEW s \in Scanner,
         Enqueue(s) \/ AbortEnqueue(s) \/ \E k \in Key : EnqueueWebhookEvent(s, k)
  PROVE  TypeOK' /\ RequestInv'
<1> USE EndpointsAssumption DEF TypeOK, RequestInv, rowVars, requestVars, enqueueVars, boundVars
<1>1. ASSUME NEW k \in Key, EnqueueWebhookEvent(s, k)
      PROVE  TypeOK' /\ RequestInv'
  BY <1>1 DEF EnqueueWebhookEvent, Live
<1>2. CASE LockEndpoint(s)
  BY <1>2 DEF LockEndpoint
<1>3. CASE InsertEvent(s)
  <2>1. cur[s] \in Endpoint
    BY <1>3 DEF InsertEvent
  <2> DEFINE added == IF Recorded(job[s], cur[s]) THEN mine[s] ELSE mine[s] \cup {cur[s]}
  <2>2. added \in SUBSET Endpoint
    BY <2>1
  <2>3. \/ Ended(s)
        \/ /\ mine' = [mine EXCEPT ![s] = added]
           /\ share' = [share EXCEPT ![s] = share[s] \cup {cur[s]}]
           /\ cur' = [cur EXCEPT ![s] = None]
           /\ UNCHANGED <<job, listed, todo>>
    BY <1>3 DEF InsertEvent
  <2> HIDE DEF added
  <2>4. /\ job' \in [Scanner -> Key \cup {None}] /\ listed' \in [Scanner -> SUBSET Endpoint]
        /\ todo' \in [Scanner -> SUBSET Endpoint] /\ cur' \in [Scanner -> Endpoint \cup {None}]
    BY <2>3 DEF Ended
  <2> DEFINE shared == share[s] \cup {cur[s]}
  <2>a. shared \in SUBSET Endpoint
    BY <2>1
  <2>b. share' = [share EXCEPT ![s] = {}] \/ share' = [share EXCEPT ![s] = shared]
    BY <2>3 DEF Ended
  <2> HIDE DEF shared
  <2>5. share' \in [Scanner -> SUBSET Endpoint]
    BY <2>a, <2>b
  <2>6. mine' \in [Scanner -> SUBSET Endpoint]
    BY <2>2, <2>3 DEF Ended
  <2> QED
    BY <1>3, <2>4, <2>5, <2>6 DEF InsertEvent
<1>4. CASE CommitEnqueue(s)
  BY <1>4 DEF CommitEnqueue, Ended
<1>5. CASE AbortEnqueue(s)
  BY <1>5 DEF AbortEnqueue, Fault, Ended
<1> HIDE DEF TypeOK, RequestInv
<1> QED
  BY <1>1, <1>2, <1>3, <1>4, <1>5 DEF Enqueue

\* The delivery worker and the retry API.
LEMMA OutsideTypes ==
  ASSUME TypeOK, RequestInv,
         \/ \E e \in Endpoint : DeactivateWebhookEndpoint(e)
         \/ \E x \in Key \X Endpoint : Settle(x) \/ RetryWebhookEvent(x)
         \/ UNCHANGED vars
  PROVE  TypeOK' /\ RequestInv'
<1> USE EndpointsAssumption DEF TypeOK, RequestInv, rowVars, requestVars, enqueueVars, boundVars, Request
<1>1. ASSUME NEW e \in Endpoint, DeactivateWebhookEndpoint(e)
      PROVE  TypeOK' /\ RequestInv'
  BY <1>1 DEF DeactivateWebhookEndpoint
<1>2. ASSUME NEW x \in Key \X Endpoint, Settle(x) \/ RetryWebhookEvent(x)
      PROVE  TypeOK' /\ RequestInv'
  <2>1. outbox' \in [Key \X Endpoint -> {"none", "pending", "settled", "reopened", "gone"}]
    BY <1>2 DEF Settle, RetryWebhookEvent
  <2> QED
    BY <1>2, <2>1 DEF Settle, RetryWebhookEvent
<1>3. CASE UNCHANGED vars
  BY <1>3 DEF vars
<1> HIDE DEF TypeOK, RequestInv
<1> QED
  BY <1>1, <1>2, <1>3

LEMMA TypeStep == TypeOK /\ RequestInv /\ [Next]_vars => TypeOK' /\ RequestInv'
BY StartTypes, ContinueTypes, EnqueueTypes, OutsideTypes DEF Next

(***************************************************************************)
(* Type correctness of endpoints, outbox, requests and enqueues.           *)
(***************************************************************************)
THEOREM TypeCorrect == Spec => []TypeOK
<1>1. TypeOK /\ RequestInv /\ [Next]_vars => (TypeOK /\ RequestInv)'
  BY TypeStep
<1> QED
  BY <1>1, InitTypes, PTL DEF Spec

-----------------------------------------------------------------------------
(***************************************************************************)
(* The lock discipline.  A delete past its first statement has the row     *)
(* locked; a row that an enqueue shares is not locked and is live; and an  *)
(* enqueue has inserted, or will insert, only for rows it shares.          *)
(***************************************************************************)
LockInv ==
  /\ \A c \in Client : pc[c] \in {"check", "delete"} => lock[target[c]] = c
  /\ \A s \in Scanner : /\ \A e \in share[s] : lock[e] = None /\ status[e] = "live"
                        /\ mine[s] \subseteq share[s]
                        /\ cur[s] # None => cur[s] \in share[s]

\* A delete without force that has passed its check finds nothing waiting.
NothingWaits ==
  \A c \in Client : pc[c] = "delete" /\ force[c] = "no" =>
    \A k \in Key : outbox[<<k, target[c]>>] # "pending"

\* No endpoint on the list of an enqueue is forgotten.
Reached(s, e) ==
  \/ e \in todo[s] \/ e = cur[s] \/ e \in mine[s]
  \/ status[e] = "deleted" \/ outbox[<<job[s], e>>] # "none"

FanOutInv ==
  \A s \in Scanner : job[s] # None =>
    \A e \in listed[s] : status[e] # "new" /\ Reached(s, e)

\* A save keeps the key its second read returned, as the new or the previous one.
KeyInv ==
  \A c \in Client : pc[c] = "update" =>
    seen[c] = None \/ seen[c] \in {ep[c].secret, ep[c].previous}

-----------------------------------------------------------------------------
\* What a step that is not part of a delete or an enqueue does to the locks.
LEMMA NoLocking ==
  ASSUME TypeOK, NEW c \in Client,
         \/ Start(c)
         \/ ListPrimary(c) \/ InsertPrimary(c) \/ ReadPrevious(c) \/ UpdateEndpoint(c)
  PROVE  /\ UNCHANGED <<lock, outbox, enqueueVars>>
         /\ \A e \in Endpoint : status'[e] = status[e] \/ (status[e] = "new" /\ status'[e] = "live")
         /\ pc'[c] \notin {"check", "delete"}
         /\ \A d \in Client \ {c} : /\ pc'[d] = pc[d] /\ target'[d] = target[d]
                                    /\ force'[d] = force[d] /\ ep'[d] = ep[d] /\ seen'[d] = seen[d]
<1> USE DEF Goto, rowVars, requestVars
<1>1. ASSUME NEW key \in Secret, HandlePostWebhookEndpoint(c, key)
      PROVE  /\ UNCHANGED <<lock, outbox, requestVars, enqueueVars>>
             /\ \E e \in Endpoint : status[e] = "new" /\ status' = [status EXCEPT ![e] = "live"]
             /\ pc[c] = "idle"
  BY <1>1 DEF HandlePostWebhookEndpoint, Insert
<1>2. CASE \E key \in Secret : HandlePostWebhookEndpoint(c, key)
  BY <1>1, <1>2 DEF TypeOK
<1>3. CASE InsertPrimary(c)
  BY <1>3 DEF InsertPrimary, Insert, Answer, TypeOK
<1>4. CASE ListPrimary(c) \/ ReadPrevious(c)
  BY <1>4 DEF ListPrimary, ReadPrevious, TypeOK
<1>5. CASE UpdateEndpoint(c)
  BY <1>5 DEF UpdateEndpoint, Answer, TypeOK
<1>6. ASSUME NEW key, NEW e, NEW isActive,
             HandlePatchWebhookEndpoint(c, e, key, isActive) \/ SavePrimary(c, key, isActive)
             \/ HandleDeleteWebhookEndpoint(c, e, isActive)
      PROVE  /\ UNCHANGED <<lock, outbox, rowVars, enqueueVars>>
             /\ pc'[c] \notin {"check", "delete"}
             /\ \A d \in Client \ {c} : /\ pc'[d] = pc[d] /\ target'[d] = target[d]
                                        /\ force'[d] = force[d] /\ ep'[d] = ep[d] /\ seen'[d] = seen[d]
  BY <1>6 DEF HandlePatchWebhookEndpoint, SavePrimary, HandleDeleteWebhookEndpoint, TypeOK
<1> QED
  BY <1>2, <1>3, <1>4, <1>5, <1>6 DEF Start, HandlePutWebhook, BootstrapWebhookEndpoints,
     HandleDashboardWebhookSettings

\* What a step of a delete does, or the end of any request.
LEMMA Deleting ==
  ASSUME TypeOK, RequestInv, NEW c \in Client,
         LockForDelete(c) \/ CheckUndelivered(c) \/ DeleteEndpoint(c) \/ AbortRequest(c)
  PROVE  /\ UNCHANGED enqueueVars
         /\ \A d \in Client \ {c} : /\ pc'[d] = pc[d] /\ target'[d] = target[d]
                                    /\ force'[d] = force[d] /\ ep'[d] = ep[d] /\ seen'[d] = seen[d]
         /\ pc'[c] # "update"
<1>1. /\ UNCHANGED enqueueVars
      /\ Answer(c) \/ GoOn(c, "check") \/ GoOn(c, "delete")
  BY DEF LockForDelete, CheckUndelivered, DeleteEndpoint, AbortRequest
<1>2. CASE Answer(c)
  BY <1>1, <1>2 DEF Answer, Goto, TypeOK
<1>3. CASE GoOn(c, "check") \/ GoOn(c, "delete")
  BY <1>1, <1>3 DEF GoOn, Goto, TypeOK
<1> QED
  BY <1>1, <1>2, <1>3

\* A request that ends gives up its own locks and nobody else's.
LEMMA UnlockKeeps ==
  ASSUME TypeOK, RequestInv, LockInv, NEW c \in Client, Unlock(c), pc'[c] = "idle",
         \A d \in Client \ {c} : pc'[d] = pc[d] /\ target'[d] = target[d]
  PROVE  /\ \A d \in Client : pc'[d] \in {"check", "delete"} => lock'[target'[d]] = d
         /\ \A e \in Endpoint : lock[e] = None => lock'[e] = None
<1>1. \A d \in Client : pc'[d] \in {"check", "delete"} =>
        /\ d # c /\ pc[d] \in {"check", "delete"} /\ target'[d] = target[d]
        /\ target[d] \in Endpoint /\ lock[target[d]] = d
  BY DEF LockInv, RequestInv
<1>2. \A e \in Endpoint : lock'[e] = IF lock[e] = c THEN None ELSE lock[e]
  BY DEF Unlock
<1> QED
  BY <1>1, <1>2

LEMMA LockStep ==
  ASSUME TypeOK, RequestInv, LockInv, [Next]_vars
  PROVE  LockInv'
<1>1. ASSUME NEW c \in Client,
             \/ Start(c)
             \/ ListPrimary(c) \/ InsertPrimary(c) \/ ReadPrevious(c) \/ UpdateEndpoint(c)
      PROVE  LockInv'
  <2>1. \A d \in Client : pc'[d] \in {"check", "delete"} => lock'[target'[d]] = d
    BY <1>1, NoLocking DEF LockInv
  <2>2. UNCHANGED <<lock, share, mine, cur>> /\ \A e \in Endpoint : status[e] = "live" => status'[e] = "live"
    BY <1>1, NoLocking DEF enqueueVars
  <2> QED
    BY <2>1, <2>2 DEF LockInv, TypeOK
<1>2. ASSUME NEW c \in Client, LockForDelete(c)
      PROVE  LockInv'
  <2>1. target[c] \in Endpoint /\ lock[target[c]] = None /\ \A s \in Scanner : target[c] \notin share[s]
    BY <1>2 DEF LockForDelete, RequestInv
  <2>2. \/ UNCHANGED lock /\ pc'[c] = "idle"
        \/ lock' = [lock EXCEPT ![target[c]] = c] /\ target'[c] = target[c]
    BY <1>2 DEF LockForDelete, Answer, GoOn, Goto, TypeOK
  <2>3. UNCHANGED <<status, enqueueVars>>
    BY <1>2 DEF LockForDelete, rowVars
  <2>4. \A d \in Client \ {c} : pc'[d] = pc[d] /\ target'[d] = target[d]
    BY <1>2, Deleting
  <2>5. \A d \in Client : pc'[d] \in {"check", "delete"} => lock'[target'[d]] = d
    BY <2>1, <2>2, <2>4, EndpointsAssumption DEF LockInv, RequestInv, TypeOK
  <2> QED
    BY <2>1, <2>2, <2>3, <2>5 DEF LockInv, TypeOK, enqueueVars
<1>3. ASSUME NEW c \in Client, CheckUndelivered(c)
      PROVE  LockInv'
  <2>1. \/ Unlock(c) /\ pc'[c] = "idle"
        \/ UNCHANGED lock /\ pc[c] = "check" /\ target'[c] = target[c]
    BY <1>3 DEF CheckUndelivered, Answer, GoOn, Goto, TypeOK
  <2>2. UNCHANGED <<status, enqueueVars>>
    BY <1>3 DEF CheckUndelivered, rowVars
  <2>3. \A d \in Client \ {c} : pc'[d] = pc[d] /\ target'[d] = target[d]
    BY <1>3, Deleting
  <2>4. /\ \A d \in Client : pc'[d] \in {"check", "delete"} => lock'[target'[d]] = d
        /\ \A e \in Endpoint : lock[e] = None => lock'[e] = None
    <3>1. CASE Unlock(c) /\ pc'[c] = "idle"
      BY <2>3, <3>1, UnlockKeeps
    <3>2. CASE UNCHANGED lock /\ pc[c] = "check" /\ target'[c] = target[c]
      BY <2>3, <3>2 DEF LockInv
    <3> QED
      BY <2>1, <3>1, <3>2
  <2> QED
    BY <2>2, <2>4 DEF LockInv, TypeOK, enqueueVars
<1>4. ASSUME NEW c \in Client, DeleteEndpoint(c)
      PROVE  LockInv'
  <2>1. target[c] \in Endpoint /\ lock[target[c]] = c /\ pc'[c] = "idle" /\ Unlock(c)
    BY <1>4 DEF DeleteEndpoint, LockInv, RequestInv, Answer, Goto, TypeOK
  <2>2. status' = [status EXCEPT ![target[c]] = "deleted"] /\ UNCHANGED enqueueVars
    BY <1>4 DEF DeleteEndpoint
  <2>3. \A d \in Client \ {c} : pc'[d] = pc[d] /\ target'[d] = target[d]
    BY <1>4, Deleting
  <2>4. \A s \in Scanner : target[c] \notin share[s]
    BY <2>1, EndpointsAssumption DEF LockInv
  <2>5. /\ \A d \in Client : pc'[d] \in {"check", "delete"} => lock'[target'[d]] = d
        /\ \A e \in Endpoint : lock[e] = None => lock'[e] = None
    BY <2>1, <2>3, UnlockKeeps
  <2> QED
    BY <2>2, <2>4, <2>5 DEF LockInv, TypeOK, enqueueVars
<1>5. ASSUME NEW c \in Client, AbortRequest(c)
      PROVE  LockInv'
  <2>1. pc'[c] = "idle" /\ Unlock(c) /\ UNCHANGED <<status, enqueueVars>>
    BY <1>5 DEF AbortRequest, Answer, Goto, TypeOK, rowVars
  <2>2. \A d \in Client \ {c} : pc'[d] = pc[d] /\ target'[d] = target[d]
    BY <1>5, Deleting
  <2>3. /\ \A d \in Client : pc'[d] \in {"check", "delete"} => lock'[target'[d]] = d
        /\ \A e \in Endpoint : lock[e] = None => lock'[e] = None
    BY <2>1, <2>2, UnlockKeeps
  <2> QED
    BY <2>1, <2>3 DEF LockInv, TypeOK, enqueueVars
<1>6. ASSUME NEW s \in Scanner, Enqueue(s) \/ AbortEnqueue(s) \/ \E k \in Key : EnqueueWebhookEvent(s, k)
      PROVE  LockInv'
  <2>1. UNCHANGED <<status, lock, pc, target>>
    BY <1>6 DEF Enqueue, LockEndpoint, InsertEvent, CommitEnqueue, AbortEnqueue, EnqueueWebhookEvent,
       rowVars, requestVars
  <2>2. \A t \in Scanner \ {s} : share'[t] = share[t] /\ mine'[t] = mine[t] /\ cur'[t] = cur[t]
    BY <1>6 DEF Enqueue, LockEndpoint, InsertEvent, CommitEnqueue, AbortEnqueue, EnqueueWebhookEvent,
       Ended, TypeOK
  <2> DEFINE Disciplined(t) ==
        /\ \A e \in share'[t] : lock[e] = None /\ status[e] = "live"
        /\ mine'[t] \subseteq share'[t]
        /\ cur'[t] # None => cur'[t] \in share'[t]
  <2>3. Disciplined(s)
    <3>1. CASE LockEndpoint(s)
      BY <3>1 DEF LockEndpoint, LockInv, TypeOK
    <3>2. CASE InsertEvent(s)
      BY <3>2 DEF InsertEvent, Ended, LockInv, TypeOK
    <3>3. CASE CommitEnqueue(s) \/ AbortEnqueue(s)
      BY <3>3 DEF CommitEnqueue, AbortEnqueue, Ended, TypeOK
    <3>4. CASE \E k \in Key : EnqueueWebhookEvent(s, k)
      BY <3>4 DEF EnqueueWebhookEvent, LockInv
    <3> QED
      BY <1>6, <3>1, <3>2, <3>3, <3>4 DEF Enqueue
  <2>4. \A t \in Scanner : Disciplined(t)
    BY <2>2, <2>3 DEF LockInv
  <2> QED
    BY <2>1, <2>4 DEF LockInv
<1>7. CASE \/ \E e \in Endpoint : DeactivateWebhookEndpoint(e)
           \/ \E x \in Key \X Endpoint : Settle(x) \/ RetryWebhookEvent(x)
           \/ UNCHANGED vars
  BY <1>7 DEF DeactivateWebhookEndpoint, Settle, RetryWebhookEvent, vars, rowVars, requestVars,
     enqueueVars, LockInv
<1> QED
  BY <1>1, <1>2, <1>3, <1>4, <1>5, <1>6, <1>7 DEF Next, Continue

-----------------------------------------------------------------------------
\* The rows are only ever added to, whatever the step.
LEMMA Monotone ==
  ASSUME TypeOK, RequestInv, [Next]_vars
  PROVE  /\ \A x \in Key \X Endpoint : outbox[x] # "none" => outbox'[x] # "none"
         /\ \A e \in Endpoint : /\ status[e] # "new" => status'[e] # "new"
                                /\ status[e] = "deleted" => status'[e] = "deleted"
<1>1. ASSUME NEW c \in Client, DeleteEndpoint(c)
      PROVE  /\ \A x \in Key \X Endpoint : outbox[x] # "none" => outbox'[x] # "none"
             /\ \A e \in Endpoint : /\ status[e] # "new" => status'[e] # "new"
                                    /\ status[e] = "deleted" => status'[e] = "deleted"
  BY <1>1 DEF DeleteEndpoint, TypeOK
<1>2. ASSUME NEW s \in Scanner, CommitEnqueue(s)
      PROVE  /\ \A x \in Key \X Endpoint : outbox[x] # "none" => outbox'[x] # "none"
             /\ UNCHANGED status
  BY <1>2 DEF CommitEnqueue, TypeOK, rowVars
<1>3. ASSUME NEW x \in Key \X Endpoint, Settle(x) \/ RetryWebhookEvent(x)
      PROVE  /\ \A y \in Key \X Endpoint : outbox[y] # "none" => outbox'[y] # "none"
             /\ UNCHANGED status
  BY <1>3 DEF Settle, RetryWebhookEvent, TypeOK, rowVars
<1>4. ASSUME \/ \E c \in Client : LockForDelete(c) \/ CheckUndelivered(c) \/ AbortRequest(c)
             \/ \E s \in Scanner : \/ LockEndpoint(s) \/ InsertEvent(s) \/ AbortEnqueue(s)
                                   \/ \E k \in Key : EnqueueWebhookEvent(s, k)
             \/ \E e \in Endpoint : DeactivateWebhookEndpoint(e)
             \/ UNCHANGED vars
      PROVE  UNCHANGED <<outbox, status>>
  BY <1>4 DEF LockForDelete, CheckUndelivered, AbortRequest, LockEndpoint, InsertEvent, AbortEnqueue,
     EnqueueWebhookEvent, DeactivateWebhookEndpoint, vars, rowVars
<1>5. ASSUME NEW c \in Client,
             \/ Start(c)
             \/ ListPrimary(c) \/ InsertPrimary(c) \/ ReadPrevious(c) \/ UpdateEndpoint(c)
      PROVE  /\ \A x \in Key \X Endpoint : outbox[x] # "none" => outbox'[x] # "none"
             /\ \A e \in Endpoint : /\ status[e] # "new" => status'[e] # "new"
                                    /\ status[e] = "deleted" => status'[e] = "deleted"
  BY <1>5, NoLocking
<1> QED
  BY <1>1, <1>2, <1>3, <1>4, <1>5 DEF Next, Continue, Enqueue

-----------------------------------------------------------------------------
LEMMA WaitStep ==
  ASSUME TypeOK, RequestInv, LockInv, NothingWaits, [Next]_vars
  PROVE  NothingWaits'
<1> DEFINE Deletes(d) == pc[d] = "delete" /\ force[d] = "no"
<1>1. SUFFICES ASSUME NEW d \in Client, Deletes(d)', NEW k \in Key
               PROVE  outbox'[<<k, target'[d]>>] # "pending"
  BY DEF NothingWaits
<1>2. ASSUME Deletes(d), target'[d] = target[d],
             outbox'[<<k, target[d]>>] = "pending" => outbox[<<k, target[d]>>] = "pending"
      PROVE  outbox'[<<k, target'[d]>>] # "pending"
  BY <1>2 DEF NothingWaits
<1>3. ASSUME NEW c \in Client,
             \/ Start(c)
             \/ ListPrimary(c) \/ InsertPrimary(c) \/ ReadPrevious(c) \/ UpdateEndpoint(c)
      PROVE  outbox'[<<k, target'[d]>>] # "pending"
  BY <1>1, <1>2, <1>3, NoLocking
<1>4. ASSUME NEW c \in Client, LockForDelete(c) \/ AbortRequest(c)
      PROVE  outbox'[<<k, target'[d]>>] # "pending"
  <2>1. d # c /\ UNCHANGED outbox
    BY <1>1, <1>4 DEF LockForDelete, AbortRequest, GoOn, Answer, Goto, TypeOK
  <2> QED
    BY <1>1, <1>2, <1>4, <2>1, Deleting
<1>5. ASSUME NEW c \in Client, CheckUndelivered(c)
      PROVE  outbox'[<<k, target'[d]>>] # "pending"
  <2>1. CASE d = c
    <3>1. ~Answer(c)
      BY <1>1, <2>1 DEF Answer, Goto, TypeOK
    <3>2. /\ GoOn(c, "delete") /\ UNCHANGED outbox
          /\ force[c] = "no" => \A j \in Key : outbox[<<j, target[c]>>] \notin Undelivered
      BY <1>5, <3>1 DEF CheckUndelivered
    <3> QED
      BY <1>1, <2>1, <3>2 DEF GoOn, Undelivered
  <2>2. CASE d # c
    <3>1. UNCHANGED outbox
      BY <1>5 DEF CheckUndelivered
    <3> QED
      BY <1>1, <1>2, <1>5, <2>2, <3>1, Deleting
  <2> QED
    BY <2>1, <2>2
<1>6. ASSUME NEW c \in Client, DeleteEndpoint(c)
      PROVE  outbox'[<<k, target'[d]>>] # "pending"
  <2>1. d # c
    BY <1>1, <1>6 DEF DeleteEndpoint, Answer, Goto, TypeOK
  <2>2. Deletes(d) /\ target'[d] = target[d]
    BY <1>1, <1>6, <2>1, Deleting
  <2>3. target[d] \in Endpoint
    BY <2>2 DEF RequestInv
  <2>4. outbox'[<<k, target[d]>>] \in {outbox[<<k, target[d]>>], "gone"}
    BY <1>6, <2>3 DEF DeleteEndpoint
  <2> QED
    BY <1>2, <2>2, <2>4
<1>7. ASSUME NEW s \in Scanner, Enqueue(s) \/ AbortEnqueue(s) \/ \E j \in Key : EnqueueWebhookEvent(s, j)
      PROVE  outbox'[<<k, target'[d]>>] # "pending"
  <2>1. UNCHANGED <<pc, target, force>>
    BY <1>7 DEF Enqueue, LockEndpoint, InsertEvent, CommitEnqueue, AbortEnqueue, EnqueueWebhookEvent,
       requestVars
  <2>2. Deletes(d) /\ target[d] \in Endpoint /\ lock[target[d]] = d
    BY <1>1, <2>1 DEF RequestInv, LockInv
  <2>3. target[d] \notin mine[s]
    BY <2>2, EndpointsAssumption DEF LockInv
  <2>4. outbox'[<<k, target[d]>>] = outbox[<<k, target[d]>>]
    <3>1. CASE CommitEnqueue(s)
      BY <2>2, <2>3, <3>1 DEF CommitEnqueue
    <3>2. CASE ~CommitEnqueue(s)
      BY <1>7, <3>2 DEF Enqueue, LockEndpoint, InsertEvent, AbortEnqueue, EnqueueWebhookEvent
    <3> QED
      BY <3>1, <3>2
  <2> QED
    BY <1>2, <2>1, <2>2, <2>4
<1>8. ASSUME NEW x \in Key \X Endpoint, Settle(x) \/ RetryWebhookEvent(x)
      PROVE  outbox'[<<k, target'[d]>>] # "pending"
  <2>1. UNCHANGED <<pc, target, force>>
    BY <1>8 DEF Settle, RetryWebhookEvent, requestVars
  <2>2. Deletes(d) /\ target[d] \in Endpoint
    BY <1>1, <2>1 DEF RequestInv
  <2>3. \A y \in Key \X Endpoint : outbox'[y] \in {outbox[y], "settled", "reopened"}
    BY <1>8 DEF Settle, RetryWebhookEvent, TypeOK
  <2> QED
    BY <1>2, <2>1, <2>2, <2>3
<1>9. CASE \E e \in Endpoint : DeactivateWebhookEndpoint(e)
  BY <1>1, <1>2, <1>9 DEF DeactivateWebhookEndpoint, requestVars
<1>10. CASE UNCHANGED vars
  BY <1>1, <1>2, <1>10 DEF vars, requestVars
<1> QED
  BY <1>3, <1>4, <1>5, <1>6, <1>7, <1>8, <1>9, <1>10 DEF Next, Continue

-----------------------------------------------------------------------------
LEMMA FanOutStep ==
  ASSUME TypeOK, RequestInv, LockInv, FanOutInv, [Next]_vars
  PROVE  FanOutInv'
<1>1. SUFFICES ASSUME NEW t \in Scanner, job'[t] # None, NEW e \in listed'[t]
               PROVE  status'[e] # "new" /\ Reached(t, e)'
  BY DEF FanOutInv
<1>2. TypeOK' /\ e \in Endpoint
  BY <1>1, TypeStep DEF TypeOK
\* Nothing the other actors do makes an endpoint unreached.
<1>3. ASSUME job'[t] = job[t], listed'[t] = listed[t], todo'[t] = todo[t], cur'[t] = cur[t],
             mine'[t] = mine[t]
      PROVE  status'[e] # "new" /\ Reached(t, e)'
  <2>1. job[t] # None /\ e \in listed[t] /\ job[t] \in Key
    BY <1>1, <1>3 DEF TypeOK
  <2>2. status[e] # "new" /\ Reached(t, e)
    BY <2>1 DEF FanOutInv
  <2> QED
    BY <1>2, <1>3, <2>1, <2>2, Monotone DEF Reached
<1>4. ASSUME NEW c \in Client, Start(c) \/ Continue(c) \/ AbortRequest(c)
      PROVE  status'[e] # "new" /\ Reached(t, e)'
  BY <1>3, <1>4, NoLocking, Deleting DEF Continue, enqueueVars
<1>5. ASSUME NEW s \in Scanner, s # t,
             Enqueue(s) \/ AbortEnqueue(s) \/ \E k \in Key : EnqueueWebhookEvent(s, k)
      PROVE  status'[e] # "new" /\ Reached(t, e)'
  <2>1. /\ job'[t] = job[t] /\ listed'[t] = listed[t] /\ todo'[t] = todo[t] /\ cur'[t] = cur[t]
        /\ mine'[t] = mine[t]
    BY <1>5 DEF Enqueue, LockEndpoint, InsertEvent, CommitEnqueue, AbortEnqueue, EnqueueWebhookEvent,
       Ended, TypeOK
  <2> QED
    BY <1>3, <2>1
<1>6. ASSUME NEW k \in Key, EnqueueWebhookEvent(t, k)
      PROVE  status'[e] # "new" /\ Reached(t, e)'
  <2>1. /\ listed' = [listed EXCEPT ![t] = {f \in Live : active[f] = "yes"}]
        /\ todo' = [todo EXCEPT ![t] = {f \in Live : active[f] = "yes"}]
        /\ UNCHANGED status
    BY <1>6 DEF EnqueueWebhookEvent, rowVars
  <2>2. e \in todo'[t] /\ status[e] = "live"
    BY <1>1, <2>1 DEF TypeOK, Live
  <2> QED
    BY <2>1, <2>2 DEF Reached
<1>7. CASE LockEndpoint(t)
  <2>1. PICK f \in Endpoint :
          /\ todo' = [todo EXCEPT ![t] = @ \ {f}]
          /\ cur' = [cur EXCEPT ![t] = IF status[f] = "live" THEN f ELSE None]
          /\ cur[t] = None
    BY <1>7 DEF LockEndpoint
  <2>2. UNCHANGED <<status, outbox, job, listed, mine>>
    BY <1>7 DEF LockEndpoint, rowVars
  <2>3. status[e] # "new" /\ Reached(t, e)
    BY <1>1, <2>2 DEF FanOutInv
  <2>4. CASE e = f
    BY <2>1, <2>2, <2>3, <2>4, <1>2 DEF Reached, TypeOK
  <2>5. CASE e # f
    BY <2>1, <2>2, <2>3, <2>5, <1>2, EndpointsAssumption DEF Reached, TypeOK, Endpoint
  <2> QED
    BY <2>4, <2>5
<1>8. CASE InsertEvent(t)
  <2>1. ~Ended(t)
    BY <1>1 DEF Ended, TypeOK
  <2>2. /\ mine' = [mine EXCEPT ![t] = IF Recorded(job[t], cur[t]) THEN @ ELSE @ \cup {cur[t]}]
        /\ UNCHANGED <<status, outbox, job, listed, todo>>
    BY <1>8, <2>1 DEF InsertEvent, rowVars
  <2>3. status[e] # "new" /\ Reached(t, e)
    BY <1>1, <2>2 DEF FanOutInv
  <2>4. CASE e = cur[t]
    BY <2>2, <2>3, <2>4 DEF Reached, Recorded, TypeOK
  <2>5. CASE e # cur[t]
    BY <2>2, <2>3, <2>5 DEF Reached, TypeOK
  <2> QED
    BY <2>4, <2>5
<1>9. CASE CommitEnqueue(t) \/ AbortEnqueue(t)
  BY <1>1, <1>9 DEF CommitEnqueue, AbortEnqueue, Ended, TypeOK
<1>10. CASE \/ \E f \in Endpoint : DeactivateWebhookEndpoint(f)
            \/ \E x \in Key \X Endpoint : Settle(x) \/ RetryWebhookEvent(x)
            \/ UNCHANGED vars
  <2>1. UNCHANGED enqueueVars
    BY <1>10 DEF DeactivateWebhookEndpoint, Settle, RetryWebhookEvent, vars
  <2> QED
    BY <1>3, <2>1 DEF enqueueVars
<1> QED
  BY <1>4, <1>5, <1>6, <1>7, <1>8, <1>9, <1>10 DEF Next, Enqueue

LEMMA KeyStep ==
  ASSUME TypeOK, RequestInv, KeyInv, [Next]_vars
  PROVE  KeyInv'
<1>1. SUFFICES ASSUME NEW d \in Client, pc'[d] = "update"
               PROVE  seen'[d] = None \/ seen'[d] \in {ep'[d].secret, ep'[d].previous}
  BY DEF KeyInv
<1>2. CASE pc[d] = "update" /\ seen'[d] = seen[d] /\ ep'[d] = ep[d]
  BY <1>2 DEF KeyInv
<1>3. CASE ReadPrevious(d)
  <2> DEFINE e == target[d]
             kept == IF status[e] # "live" THEN None
                     ELSE IF secret[e] # ep[d].secret THEN secret[e] ELSE previous[e]
             known == IF status[e] = "live" THEN secret[e] ELSE None
  <2>1. e \in Endpoint /\ ep \in [Client -> Saved]
    BY <1>3 DEF ReadPrevious, RequestInv, TypeOK, Saved
  <2>2. /\ kept \in Secret \cup {None}
        /\ known = None \/ known \in {ep[d].secret, kept}
    BY <2>1 DEF TypeOK
  <2>3. ep' = [ep EXCEPT ![d].previous = kept] /\ seen' = [seen EXCEPT ![d] = known]
    BY <1>3 DEF ReadPrevious
  <2> HIDE DEF e, kept, known
  <2>4. seen'[d] = known /\ ep'[d].secret = ep[d].secret /\ ep'[d].previous = kept
    BY <2>1, <2>2, <2>3, SetPrevious DEF TypeOK
  <2> QED
    BY <2>2, <2>4
<1>4. ASSUME NEW c \in Client, c # d,
             Start(c) \/ Continue(c) \/ AbortRequest(c)
      PROVE  pc[d] = "update" /\ seen'[d] = seen[d] /\ ep'[d] = ep[d]
  BY <1>1, <1>4, NoLocking, Deleting DEF Continue
<1>5. ~LockForDelete(d) /\ ~CheckUndelivered(d) /\ ~DeleteEndpoint(d) /\ ~AbortRequest(d)
  BY <1>1, Deleting
<1>6. ~ListPrimary(d) /\ ~InsertPrimary(d) /\ ~UpdateEndpoint(d)
  BY <1>1 DEF ListPrimary, InsertPrimary, UpdateEndpoint, Answer, Goto, TypeOK
<1>7. ~Start(d)
  BY <1>1 DEF Start, HandlePostWebhookEndpoint, HandlePatchWebhookEndpoint, HandlePutWebhook,
     BootstrapWebhookEndpoints, HandleDashboardWebhookSettings, HandleDeleteWebhookEndpoint, SavePrimary,
     Goto, TypeOK, requestVars
<1>8. ASSUME \/ \E s \in Scanner : \/ Enqueue(s) \/ AbortEnqueue(s)
                                   \/ \E k \in Key : EnqueueWebhookEvent(s, k)
             \/ \E e \in Endpoint : DeactivateWebhookEndpoint(e)
             \/ \E x \in Key \X Endpoint : Settle(x) \/ RetryWebhookEvent(x)
             \/ UNCHANGED vars
      PROVE  pc[d] = "update" /\ seen'[d] = seen[d] /\ ep'[d] = ep[d]
  BY <1>1, <1>8 DEF Enqueue, LockEndpoint, InsertEvent, CommitEnqueue, AbortEnqueue, EnqueueWebhookEvent,
     DeactivateWebhookEndpoint, Settle, RetryWebhookEvent, vars, requestVars
<1> QED
  BY <1>2, <1>3, <1>4, <1>5, <1>6, <1>7, <1>8 DEF Next, Continue

-----------------------------------------------------------------------------
EndpointsInv == TypeOK /\ RequestInv /\ LockInv /\ NothingWaits /\ FanOutInv /\ KeyInv

LEMMA Invariance == Spec => []EndpointsInv
<1>1. Init => LockInv /\ NothingWaits /\ FanOutInv /\ KeyInv
  BY EndpointsAssumption DEF Init, LockInv, NothingWaits, FanOutInv, KeyInv, Endpoint
<1>2. Init => EndpointsInv
  BY <1>1, InitTypes DEF EndpointsInv
<1>3. EndpointsInv /\ [Next]_vars => EndpointsInv'
  BY TypeStep, LockStep, WaitStep, FanOutStep, KeyStep DEF EndpointsInv
<1> QED
  BY <1>2, <1>3, PTL DEF Spec

\* A row is gone only with its endpoint.
LEMMA OnlyDeleteDiscards ==
  ASSUME TypeOK, [Next]_vars, NEW x \in Key \X Endpoint, outbox[x] = "pending", outbox'[x] = "gone"
  PROVE  \E c \in Client : DeleteEndpoint(c)
<1>1. ASSUME NEW s \in Scanner, CommitEnqueue(s)
      PROVE  outbox'[x] \in {"pending", outbox[x]}
  BY <1>1 DEF CommitEnqueue
<1>2. ASSUME NEW y \in Key \X Endpoint, Settle(y) \/ RetryWebhookEvent(y)
      PROVE  outbox'[x] \in {outbox[x], "settled", "reopened"}
  BY <1>2 DEF Settle, RetryWebhookEvent, TypeOK
<1>3. ASSUME \/ \E c \in Client : LockForDelete(c) \/ CheckUndelivered(c) \/ AbortRequest(c)
             \/ \E s \in Scanner : \/ LockEndpoint(s) \/ InsertEvent(s) \/ AbortEnqueue(s)
                                   \/ \E k \in Key : EnqueueWebhookEvent(s, k)
             \/ \E e \in Endpoint : DeactivateWebhookEndpoint(e)
             \/ UNCHANGED vars
      PROVE  UNCHANGED outbox
  BY <1>3 DEF LockForDelete, CheckUndelivered, AbortRequest, LockEndpoint, InsertEvent, AbortEnqueue,
     EnqueueWebhookEvent, DeactivateWebhookEndpoint, vars
<1>4. ASSUME NEW c \in Client,
             \/ Start(c)
             \/ ListPrimary(c) \/ InsertPrimary(c) \/ ReadPrevious(c) \/ UpdateEndpoint(c)
      PROVE  UNCHANGED outbox
  BY <1>4, NoLocking
<1> QED
  BY <1>1, <1>2, <1>3, <1>4 DEF Next, Continue, Enqueue

(***************************************************************************)
(* A delete without force discards no event that waits for its first       *)
(* outcome (DeleteWebhookEndpoint's row lock against EnqueueWebhookEvent). *)
(***************************************************************************)
THEOREM DeleteDiscardsNothing == Spec => NothingDiscarded
<1> DEFINE Forced == \E c \in Client : pc[c] = "delete" /\ pc'[c] = "idle" /\ force[c] = "yes"
           Kept == \A x \in Key \X Endpoint : outbox[x] = "pending" /\ outbox'[x] = "gone" => Forced
<1>1. ASSUME EndpointsInv, [Next]_vars, NEW x \in Key \X Endpoint,
             outbox[x] = "pending", outbox'[x] = "gone"
      PROVE  Forced
  <2>1. PICK c \in Client : DeleteEndpoint(c)
    BY <1>1, OnlyDeleteDiscards DEF EndpointsInv
  <2>2. pc[c] = "delete" /\ pc'[c] = "idle"
    BY <1>1, <2>1 DEF DeleteEndpoint, Answer, Goto, EndpointsInv, TypeOK
  <2>3. x[2] = target[c] /\ x = <<x[1], x[2]>> /\ x[1] \in Key
    BY <1>1, <2>1 DEF DeleteEndpoint
  <2>4. force[c] # "no"
    BY <1>1, <2>2, <2>3 DEF EndpointsInv, NothingWaits
  <2>5. force[c] = "yes"
    BY <1>1, <2>4 DEF EndpointsInv, TypeOK
  <2> QED
    BY <2>2, <2>5
<1>2. EndpointsInv /\ [Next]_vars => [Kept]_vars
  BY <1>1
<1>3. NothingDiscarded <=> [][Kept]_vars
  BY DEF NothingDiscarded
<1> HIDE DEF Kept
<1> QED
  BY <1>2, <1>3, Invariance, PTL DEF Spec

(***************************************************************************)
(* An enqueue that meets no fault ends with a row for every endpoint on    *)
(* its list that has not been deleted, and never by a violation of the     *)
(* foreign key (EnqueueWebhookEvent).                                      *)
(***************************************************************************)
THEOREM FanOutReachesAll == Spec => FanOutComplete
<1> DEFINE Complete ==
      \A s \in Scanner : job[s] # None /\ job'[s] = None /\ faults' = faults =>
        \A e \in listed[s] : status'[e] = "deleted" \/ outbox'[<<job[s], e>>] # "none"
<1>1. ASSUME EndpointsInv, [Next]_vars, NEW s \in Scanner,
             job[s] # None, job'[s] = None, faults' = faults, NEW e \in listed[s]
      PROVE  status'[e] = "deleted" \/ outbox'[<<job[s], e>>] # "none"
  <2> USE <1>1 DEF EndpointsInv
  <2>1. e \in Endpoint /\ job[s] \in Key
    BY DEF TypeOK
  <2>2. ~AbortEnqueue(s)
    BY DEF AbortEnqueue, Fault, TypeOK
  <2>3. ASSUME InsertEvent(s)
        PROVE  FALSE
    <3>1. status[cur[s]] = "live"
      BY <2>3 DEF InsertEvent, LockInv, TypeOK
    <3>2. UNCHANGED job
      BY <2>3, <3>1 DEF InsertEvent
    <3> QED
      BY <3>2
  <2>4. \A c \in Client : ~Start(c) /\ ~Continue(c) /\ ~AbortRequest(c)
    BY NoLocking, Deleting DEF Continue, enqueueVars
  <2>5. \A t \in Scanner \ {s} : /\ ~Enqueue(t) /\ ~AbortEnqueue(t)
                                 /\ \A k \in Key : ~EnqueueWebhookEvent(t, k)
    BY DEF Enqueue, LockEndpoint, InsertEvent, CommitEnqueue, AbortEnqueue, EnqueueWebhookEvent, Ended,
       TypeOK
  <2>6. ~LockEndpoint(s) /\ \A k \in Key : ~EnqueueWebhookEvent(s, k)
    BY DEF LockEndpoint, EnqueueWebhookEvent
  <2>7. ~UNCHANGED vars /\ (\A f \in Endpoint : ~DeactivateWebhookEndpoint(f))
        /\ \A x \in Key \X Endpoint : ~Settle(x) /\ ~RetryWebhookEvent(x)
    BY DEF vars, enqueueVars, DeactivateWebhookEndpoint, Settle, RetryWebhookEvent
  <2>8. CommitEnqueue(s)
    BY <2>2, <2>3, <2>4, <2>5, <2>6, <2>7 DEF Next, Enqueue
  <2>9. e \in mine[s] \/ status[e] = "deleted" \/ outbox[<<job[s], e>>] # "none"
    BY <2>1, <2>8, EndpointsAssumption DEF CommitEnqueue, FanOutInv, Reached, Endpoint
  <2> QED
    BY <2>1, <2>8, <2>9 DEF CommitEnqueue, rowVars
<1>2. EndpointsInv /\ [Next]_vars => [Complete]_vars
  BY <1>1
<1>3. FanOutComplete <=> [][Complete]_vars
  BY DEF FanOutComplete
<1> HIDE DEF Complete
<1> QED
  BY <1>2, <1>3, Invariance, PTL DEF Spec

(***************************************************************************)
(* A save keeps the key it replaces as the previous one, however many      *)
(* other requests ran between its two reads (UpsertWebhookEndpoint).       *)
(***************************************************************************)
THEOREM SaveKeepsReplacedKey == Spec => ReplacedKeyKept
<1> DEFINE Saves(c, e) ==
             /\ pc[c] = "update" /\ pc'[c] = "idle" /\ faults' = faults
             /\ target[c] = e /\ status[e] = "live" /\ secret[e] = seen[c]
           Kept == \A c \in Client, e \in Endpoint :
                     Saves(c, e) => secret[e] \in {secret'[e], previous'[e]}
<1>1. ASSUME EndpointsInv, [Next]_vars, NEW c \in Client, NEW e \in Endpoint, Saves(c, e)
      PROVE  secret[e] \in {secret'[e], previous'[e]}
  <2> USE <1>1 DEF EndpointsInv
  <2>1. ~AbortRequest(c) /\ ~Start(c)
    BY DEF AbortRequest, Fault, TypeOK, Start, HandlePostWebhookEndpoint, HandlePatchWebhookEndpoint,
       HandlePutWebhook, BootstrapWebhookEndpoints, HandleDashboardWebhookSettings,
       HandleDeleteWebhookEndpoint, SavePrimary
  <2>2. /\ ~ListPrimary(c) /\ ~InsertPrimary(c) /\ ~ReadPrevious(c) /\ ~LockForDelete(c)
        /\ ~CheckUndelivered(c) /\ ~DeleteEndpoint(c)
    BY DEF ListPrimary, InsertPrimary, ReadPrevious, LockForDelete, CheckUndelivered, DeleteEndpoint
  <2>3. \A d \in Client \ {c} : ~Start(d) /\ ~Continue(d) /\ ~AbortRequest(d)
    BY NoLocking, Deleting DEF Continue
  <2>4. \A s \in Scanner : /\ ~Enqueue(s) /\ ~AbortEnqueue(s)
                           /\ \A k \in Key : ~EnqueueWebhookEvent(s, k)
    BY DEF Enqueue, LockEndpoint, InsertEvent, CommitEnqueue, AbortEnqueue, EnqueueWebhookEvent, requestVars
  <2>5. ~UNCHANGED vars /\ (\A f \in Endpoint : ~DeactivateWebhookEndpoint(f))
        /\ \A x \in Key \X Endpoint : ~Settle(x) /\ ~RetryWebhookEvent(x)
    BY DEF vars, requestVars, DeactivateWebhookEndpoint, Settle, RetryWebhookEvent
  <2>6. UpdateEndpoint(c)
    BY <2>1, <2>2, <2>3, <2>4, <2>5 DEF Next, Continue
  <2>7. secret'[e] = ep[c].secret /\ previous'[e] = ep[c].previous
    BY <2>6 DEF UpdateEndpoint, TypeOK
  <2>8. seen[c] # None
    BY EndpointsAssumption DEF TypeOK
  <2> QED
    BY <2>7, <2>8 DEF KeyInv
<1>2. EndpointsInv /\ [Next]_vars => [Kept]_vars
  BY <1>1
<1>3. ReplacedKeyKept <=> [][Kept]_vars
  BY DEF ReplacedKeyKept
<1> HIDE DEF Kept
<1> QED
  BY <1>2, <1>3, Invariance, PTL DEF Spec

=============================================================================
