------------------------ MODULE WebhookDeliveryProofs ------------------------
(***************************************************************************)
(* Machine-checked proofs about WebhookDelivery, for every set of rows and *)
(* workers and every bound.                                                *)
(***************************************************************************)
EXTENDS WebhookDelivery, FiniteSetTheorems, TLAPS

LEMMA TypeInit == Init => TypeOK
BY DeliveryAssumption DEF Init, TypeOK

LEMMA BoundsType ==
  ASSUME TypeOK, Fault \/ Command \/ UNCHANGED boundVars
  PROVE  faults' \in 0..MaxFaults /\ overruns' \in 0..MaxOverruns /\ commands' \in 0..MaxCommands
BY DeliveryAssumption DEF TypeOK, Fault, Command, boundVars

LEMMA RowType ==
  ASSUME TypeOK,
         \/ \E rows \in SUBSET Event : ClaimRows(rows)
         \/ \E w \in Worker : MarkRow(w) /\ event[w] \in Event
         \/ UNCHANGED rowVars
  PROVE  /\ status' \in [Event -> {"absent", "pending", "delivering", "failed", "delivered", "dead"}]
         /\ attempts' \in [Event -> Nat]
         /\ due' \in [Event -> {"yes", "no"}]
         /\ stale' \in [Event -> {"yes", "no"}]
<1>1. CASE \E rows \in SUBSET Event : ClaimRows(rows)
  BY <1>1 DEF TypeOK, ClaimRows
<1>2. CASE \E w \in Worker : MarkRow(w) /\ event[w] \in Event
  BY <1>2, DeliveryAssumption DEF TypeOK, MarkRow, MarkWebhookEventDelivered, MarkWebhookEventFailed
<1>3. CASE UNCHANGED rowVars
  BY <1>3 DEF TypeOK, rowVars
<1> QED
  BY <1>1, <1>2, <1>3

LEMMA TypeStep ==
  ASSUME TypeOK, BusyHasRow, [Next]_vars
  PROVE  TypeOK' /\ BusyHasRow'
<1> USE DEF workerVars, historyVars
<1>1. ASSUME NEW w \in Worker, ClaimPendingWebhookEvents(w)
      PROVE  TypeOK' /\ BusyHasRow'
  <2>1. PICK rows \in SUBSET Event :
          /\ ClaimRows(rows)
          /\ batch' = [batch EXCEPT ![w] = {<<e, attempts'[e]>> : e \in rows}]
    BY <1>1 DEF ClaimPendingWebhookEvents
  <2>2. attempts' \in [Event -> Nat]
    BY <2>1, RowType
  <2>3. {<<e, attempts'[e]>> : e \in rows} \in SUBSET (Event \X Nat)
    BY <2>2
  <2>4. batch' \in [Worker -> SUBSET (Event \X Nat)]
    BY <2>1, <2>3 DEF TypeOK
  <2> QED
    BY <1>1, <2>1, <2>4, RowType, BoundsType DEF ClaimPendingWebhookEvents, TypeOK, BusyHasRow
<1>2. ASSUME NEW w \in Worker, Send(w)
      PROVE  TypeOK' /\ BusyHasRow'
  <2>1. PICK row \in batch[w] :
       /\ batch' = [batch EXCEPT ![w] = @ \ {row}]
       /\ event' = [event EXCEPT ![w] = row[1]]
       /\ attempt' = [attempt EXCEPT ![w] = row[2] + 1]
       /\ \/ /\ outcome' = [outcome EXCEPT ![w] = "fail"]
             /\ pc' = [pc EXCEPT ![w] = "mark"]
             /\ UNCHANGED historyVars
          \/ /\ \E response \in Response :
                  /\ outcome' = [outcome EXCEPT ![w] = ClassifyDelivery(response)]
                  /\ accepted' = IF response = "2xx" THEN accepted \cup {row[1]} ELSE accepted
             /\ posts' = [posts EXCEPT ![row[1]] = @ + 1]
             /\ pc' = [pc EXCEPT ![w] = "record"]
    BY <1>2 DEF Send
  <2>2. row[1] \in Event /\ row[2] \in Nat
    BY DEF TypeOK
  <2>3. \A response \in Response : ClassifyDelivery(response) \in {"success", "gone", "retry", "fail"}
    BY DEF Response, ClassifyDelivery
  <2>4. outcome' \in [Worker -> {"none", "success", "gone", "retry", "fail"}]
    BY <2>1, <2>3 DEF TypeOK
  <2>5. accepted' \in SUBSET Event /\ posts' \in [Event -> Nat]
    BY <2>1, <2>2 DEF TypeOK
  <2>6. /\ batch' \in [Worker -> SUBSET (Event \X Nat)]
        /\ event' \in [Worker -> Event \cup {None}]
        /\ attempt' \in [Worker -> Nat]
        /\ pc' \in [Worker -> {"idle", "deliver", "record", "disable", "mark", "exhausted"}]
    BY <2>1, <2>2 DEF TypeOK
  <2>7. BusyHasRow'
    BY <2>1, <2>2 DEF TypeOK, BusyHasRow
  <2> QED
    BY <1>2, <2>4, <2>5, <2>6, <2>7, RowType, BoundsType DEF Send, TypeOK
<1>3. ASSUME NEW w \in Worker, RecordWebhookDeliveryAttempt(w)
      PROVE  TypeOK' /\ BusyHasRow'
  <2>1. log' \in SUBSET (Event \X Nat)
    BY <1>3 DEF RecordWebhookDeliveryAttempt, TypeOK, BusyHasRow
  <2> QED
    BY <1>3, <2>1, RowType, BoundsType DEF RecordWebhookDeliveryAttempt, TypeOK, BusyHasRow
<1>4. ASSUME NEW w \in Worker, Mark(w) \/ MarkFails(w)
      PROVE  TypeOK' /\ BusyHasRow'
  <2>1. (MarkRow(w) /\ event[w] \in Event) \/ UNCHANGED rowVars
    BY <1>4 DEF Mark, MarkFails, BusyHasRow
  <2> QED
    BY <1>4, <2>1, RowType, BoundsType DEF Mark, MarkFails, AfterRow, TypeOK, BusyHasRow
<1>5. ASSUME NEW w \in Worker, DisableEndpointAndNotify(w)
      PROVE  TypeOK' /\ BusyHasRow'
  BY <1>5, RowType, BoundsType DEF DisableEndpointAndNotify, AfterRow, TypeOK, BusyHasRow
<1>6. ASSUME NEW w \in Worker, ClaimUnacknowledged(w)
      PROVE  TypeOK' /\ BusyHasRow'
  BY <1>6, RowType, BoundsType DEF ClaimUnacknowledged, TypeOK, BusyHasRow
<1>7. ASSUME NEW w \in Worker, ResolveFails(w)
      PROVE  TypeOK' /\ BusyHasRow'
  BY <1>7, RowType, BoundsType DEF ResolveFails, TypeOK, BusyHasRow
<1>8. ASSUME NEW w \in Worker, Crash(w) \/ Reload(w)
      PROVE  TypeOK' /\ BusyHasRow'
  <2>1. CASE Crash(w)
    <3>1. /\ pc' \in [Worker -> {"idle", "deliver", "record", "disable", "mark", "exhausted"}]
          /\ batch' \in [Worker -> SUBSET (Event \X Nat)]
          /\ event' \in [Worker -> Event \cup {None}]
          /\ attempt' \in [Worker -> Nat]
      BY <2>1 DEF Crash, TypeOK
    <3>2. /\ outcome' \in [Worker -> {"none", "success", "gone", "retry", "fail"}]
          /\ cached' \in [Worker -> {"yes", "no"}]
      BY <2>1 DEF Crash, TypeOK
    <3>3. BusyHasRow'
      BY <2>1 DEF Crash, TypeOK, BusyHasRow
    <3> QED
      BY <2>1, <3>1, <3>2, <3>3, RowType, BoundsType DEF Crash, TypeOK
  <2>2. CASE Reload(w)
    BY <2>2, RowType, BoundsType DEF Reload, TypeOK, BusyHasRow
  <2> QED
    BY <1>8, <2>1, <2>2
<1>9. ASSUME NEW w \in Worker, NEW value \in {"yes", "no"}, SetEndpointActive(w, value)
      PROVE  TypeOK' /\ BusyHasRow'
  BY <1>9, RowType, BoundsType DEF SetEndpointActive, TypeOK, BusyHasRow
<1>10. ASSUME NEW e \in Event, EnqueueWebhookEvent(e) \/ TimePasses(e) \/ RetryWebhookEvent(e)
       PROVE  TypeOK' /\ BusyHasRow'
  BY <1>10, BoundsType DEF EnqueueWebhookEvent, TimePasses, Orphaned, BecomesDue, RetryWebhookEvent,
     TypeOK, BusyHasRow
<1>11. ASSUME NEW e \in Event, Overrun(e)
       PROVE  TypeOK' /\ BusyHasRow'
  BY <1>11, DeliveryAssumption DEF Overrun, TypeOK, BusyHasRow
<1>12. CASE RetryAllFailedDeadWebhookEvents
  BY <1>12, BoundsType DEF RetryAllFailedDeadWebhookEvents, TypeOK, BusyHasRow
<1>13. CASE UNCHANGED vars
  BY <1>13 DEF vars, rowVars, boundVars, TypeOK, BusyHasRow
<1> QED
  BY <1>1, <1>2, <1>3, <1>4, <1>5, <1>6, <1>7, <1>8, <1>9, <1>10, <1>11, <1>12, <1>13
     DEF Next, WorkerStep, WorkerFault

(***************************************************************************)
(* Type correctness of the outbox, the workers and the attempt log.        *)
(***************************************************************************)
THEOREM TypeCorrect == Spec => []TypeOK
<1>1. Init => TypeOK /\ BusyHasRow
  BY TypeInit DEF Init, BusyHasRow
<1>2. TypeOK /\ BusyHasRow /\ [Next]_vars => TypeOK' /\ BusyHasRow'
  BY TypeStep
<1> QED
  BY <1>1, <1>2, PTL DEF Spec

-----------------------------------------------------------------------------
HandsInv == TypeOK /\ BusyHasRow /\ HeldOutOfReach /\ Exclusive /\ HeldOnce

\* A step that gives nobody a row and does not touch a held one is harmless.
LEMMA HandsKept ==
  ASSUME HandsInv, overruns' = overruns,
         \A v \in Worker : Held(v)' \subseteq Held(v),
         \A v \in Worker : \A e \in Held(v)' : status'[e] = status[e] /\ stale'[e] = stale[e]
  PROVE  HeldOutOfReach' /\ Exclusive'
BY DEF HandsInv, HeldOutOfReach, Exclusive

\* Claimable rows are in nobody's hands.
LEMMA ClaimHitsNoHeldRow ==
  ASSUME HandsInv, overruns = 0, NEW v \in Worker, NEW e \in Event, Claimable(e)
  PROVE  e \notin Held(v)
BY DEF HandsInv, HeldOutOfReach, Claimable, Reclaimable

LEMMA HeldSame ==
  ASSUME NEW v \in Worker, batch'[v] = batch[v], event'[v] = event[v],
         pc'[v] = pc[v] \/ {pc[v], pc'[v]} \subseteq {"record", "disable", "mark"}
  PROVE  Held(v)' = Held(v)
BY DEF Held

LEMMA HandsStep ==
  ASSUME HandsInv, [Next]_vars
  PROVE  HandsInv'
<1> USE DEF workerVars
<1>t. TypeOK /\ BusyHasRow /\ TypeOK' /\ BusyHasRow'
  BY TypeStep DEF HandsInv
<1>p. /\ pc \in [Worker -> {"idle", "deliver", "record", "disable", "mark", "exhausted"}]
      /\ batch \in [Worker -> SUBSET (Event \X Nat)]
      /\ event \in [Worker -> Event \cup {None}]
      /\ status \in [Event -> {"absent", "pending", "delivering", "failed", "delivered", "dead"}]
      /\ stale \in [Event -> {"yes", "no"}]
      /\ \A v \in Worker : Held(v) \subseteq Event
  BY <1>t DEF TypeOK, BusyHasRow, Held
<1>1. ASSUME NEW w \in Worker, ClaimPendingWebhookEvents(w)
      PROVE  HeldOutOfReach' /\ Exclusive' /\ HeldOnce'
  <2>1. PICK rows \in SUBSET Event :
          /\ ClaimRows(rows)
          /\ batch' = [batch EXCEPT ![w] = {<<e, attempts'[e]>> : e \in rows}]
    BY <1>1 DEF ClaimPendingWebhookEvents
  <2>2. pc' = [pc EXCEPT ![w] = "deliver"] /\ event' = event /\ overruns' = overruns
    BY <1>1 DEF ClaimPendingWebhookEvents, boundVars
  <2>3. Held(w)' = rows
    <3>1. batch'[w] = {<<e, attempts'[e]>> : e \in rows} /\ pc'[w] = "deliver"
      BY <2>1, <2>2, <1>p
    <3>2. {row[1] : row \in batch'[w]} = rows
      <4>1. ASSUME NEW e \in rows PROVE e \in {row[1] : row \in batch'[w]}
        <5>1. <<e, attempts'[e]>> \in batch'[w] /\ <<e, attempts'[e]>>[1] = e
          BY <3>1
        <5> QED
          BY <5>1
      <4>2. ASSUME NEW row \in batch'[w] PROVE row[1] \in rows
        BY <3>1
      <4> QED
        BY <4>1, <4>2
    <3>3. Held(w)' = {row[1] : row \in batch'[w]}
      BY <3>1 DEF Held
    <3> QED
      BY <3>2, <3>3
  <2>4. \A v \in Worker : v # w => Held(v)' = Held(v)
    BY <2>1, <2>2, <1>p, HeldSame
  <2>5. \A e \in rows : status'[e] = "delivering" /\ stale'[e] = "no"
    BY <2>1 DEF ClaimRows
  <2>6. \A e \in Event \ rows : status'[e] = status[e] /\ stale'[e] = stale[e]
    BY <2>1 DEF ClaimRows
  <2>7. overruns = 0 => \A v \in Worker : rows \cap Held(v) = {}
    BY <2>1, ClaimHitsNoHeldRow DEF ClaimRows
  <2>8. HeldOutOfReach' /\ Exclusive'
    BY <1>p, <2>2, <2>3, <2>4, <2>5, <2>6, <2>7 DEF HandsInv, HeldOutOfReach, Exclusive
  <2>9. HeldOnce'
    <3>1. \A r, s \in batch'[w] : r[1] = s[1] => r = s
      BY <2>1, <1>p
    <3>2. pc'[w] = "deliver"
      BY <2>2, <1>p
    <3>3. \A v \in Worker : v # w => batch'[v] = batch[v] /\ pc'[v] = pc[v] /\ event'[v] = event[v]
      BY <2>1, <2>2, <1>p
    <3> QED
      BY <3>1, <3>2, <3>3 DEF HandsInv, HeldOnce
  <2> QED
    BY <2>8, <2>9
<1>2. ASSUME NEW w \in Worker, Send(w)
      PROVE  HeldOutOfReach' /\ Exclusive' /\ HeldOnce'
  <2>1. PICK row \in batch[w] :
          /\ batch' = [batch EXCEPT ![w] = @ \ {row}]
          /\ event' = [event EXCEPT ![w] = row[1]]
          /\ pc'[w] \in {"mark", "record"}
          /\ \A v \in Worker : v # w => pc'[v] = pc[v]
    BY <1>2, <1>p DEF Send
  <2>2. status' = status /\ stale' = stale /\ overruns' = overruns
    BY <1>2 DEF Send, rowVars, boundVars
  <2>3. Held(w)' \subseteq Held(w)
    BY <2>1, <1>p DEF Held
  <2>4. \A v \in Worker : v # w => Held(v)' = Held(v)
    BY <2>1, <1>p, HeldSame
  <2>5. HeldOnce'
    BY <2>1, <1>p DEF HandsInv, HeldOnce
  <2> QED
    BY <2>2, <2>3, <2>4, <2>5, HandsKept
<1>3. ASSUME NEW w \in Worker, RecordWebhookDeliveryAttempt(w)
      PROVE  HeldOutOfReach' /\ Exclusive' /\ HeldOnce'
  <2>1. /\ pc[w] = "record" /\ pc'[w] \in {"disable", "mark"}
        /\ \A v \in Worker : v # w => pc'[v] = pc[v]
        /\ batch' = batch /\ event' = event
        /\ status' = status /\ stale' = stale /\ overruns' = overruns
    BY <1>3, <1>p DEF RecordWebhookDeliveryAttempt, rowVars, boundVars, Fault
  <2>2. \A v \in Worker : Held(v)' = Held(v)
    BY <2>1, HeldSame
  <2>3. HeldOnce'
    BY <2>1 DEF HandsInv, HeldOnce
  <2> QED
    BY <2>1, <2>2, <2>3, HandsKept
<1>4. ASSUME NEW w \in Worker, Mark(w) \/ MarkFails(w)
      PROVE  HeldOutOfReach' /\ Exclusive' /\ HeldOnce'
  <2>1. /\ pc[w] = "mark" /\ pc'[w] \in {"idle", "deliver", "exhausted"}
        /\ \A v \in Worker : v # w => pc'[v] = pc[v] /\ event'[v] = event[v]
        /\ batch' = batch /\ overruns' = overruns
    BY <1>4, <1>p DEF Mark, MarkFails, AfterRow, boundVars, Fault
  <2>2. \A e \in Event : e # event[w] => status'[e] = status[e] /\ stale'[e] = stale[e]
    BY <1>4, <1>p DEF Mark, MarkFails, MarkRow, MarkWebhookEventDelivered, MarkWebhookEventFailed, rowVars
  <2>3. Held(w)' \subseteq Held(w) /\ event[w] \in Held(w) /\ event[w] \notin Held(w)'
    BY <2>1 DEF Held, HandsInv, HeldOnce
  <2>4. \A v \in Worker : v # w => Held(v)' = Held(v)
    BY <2>1, HeldSame
  <2>5. HeldOnce'
    BY <2>1 DEF HandsInv, HeldOnce
  <2>6. HeldOutOfReach' /\ Exclusive'
    BY <1>p, <2>1, <2>2, <2>3, <2>4 DEF HandsInv, HeldOutOfReach, Exclusive
  <2> QED
    BY <2>5, <2>6
<1>5. ASSUME NEW w \in Worker, DisableEndpointAndNotify(w) \/ ResolveFails(w) \/ Crash(w)
      PROVE  HeldOutOfReach' /\ Exclusive' /\ HeldOnce'
  <2>1. /\ batch'[w] \subseteq batch[w]
        /\ \/ pc[w] = "disable" /\ pc'[w] = "mark" /\ event'[w] = event[w]
           \/ pc'[w] \in {"idle", "deliver"}
        /\ \A v \in Worker : v # w => pc'[v] = pc[v] /\ event'[v] = event[v] /\ batch'[v] = batch[v]
        /\ status' = status /\ stale' = stale /\ overruns' = overruns
    BY <1>5, <1>p DEF DisableEndpointAndNotify, ResolveFails, Crash, AfterRow, rowVars, boundVars, Fault
  <2>2. Held(w)' \subseteq Held(w)
    BY <2>1 DEF Held
  <2>3. \A v \in Worker : v # w => Held(v)' = Held(v)
    BY <2>1, HeldSame
  <2>4. HeldOnce'
    BY <2>1 DEF HandsInv, HeldOnce
  <2> QED
    BY <2>1, <2>2, <2>3, <2>4, HandsKept
<1>6. ASSUME NEW w \in Worker, ClaimUnacknowledged(w)
      PROVE  HeldOutOfReach' /\ Exclusive' /\ HeldOnce'
  <2>1. PICK rows \in SUBSET Event : ClaimRows(rows)
    BY <1>6 DEF ClaimUnacknowledged
  <2>2. /\ pc' = pc /\ event' = event /\ batch' = batch /\ overruns' = overruns
    BY <1>6 DEF ClaimUnacknowledged, Fault
  <2>3. \A v \in Worker : Held(v)' = Held(v)
    BY <2>2, HeldSame
  <2>4. \A e \in Event \ rows : status'[e] = status[e] /\ stale'[e] = stale[e]
    BY <2>1 DEF ClaimRows
  <2>5. overruns = 0 => \A v \in Worker : rows \cap Held(v) = {}
    BY <2>1, ClaimHitsNoHeldRow DEF ClaimRows
  <2>6. HeldOutOfReach' /\ Exclusive'
    BY <1>p, <2>2, <2>3, <2>4, <2>5 DEF HandsInv, HeldOutOfReach, Exclusive
  <2>7. HeldOnce'
    BY <2>2 DEF HandsInv, HeldOnce
  <2> QED
    BY <2>6, <2>7
<1>7. ASSUME NEW e \in Event, Overrun(e)
      PROVE  HeldOutOfReach' /\ Exclusive' /\ HeldOnce'
  <2>1. overruns' # 0
    BY <1>7, <1>t DEF Overrun, TypeOK
  <2> QED
    BY <1>7, <2>1 DEF Overrun, HeldOutOfReach, Exclusive, HandsInv, HeldOnce
<1>8. ASSUME UNCHANGED <<pc, batch, event, overruns>>,
             \A e \in Event : \/ status'[e] = status[e] /\ stale'[e] = stale[e]
                              \/ status[e] # "delivering"
                              \/ \A v \in Worker : e \notin Held(v)
      PROVE  HeldOutOfReach' /\ Exclusive' /\ HeldOnce'
  <2>1. \A v \in Worker : Held(v)' = Held(v)
    BY <1>8, HeldSame
  <2>2. HeldOnce'
    BY <1>8 DEF HandsInv, HeldOnce
  <2>3. HeldOutOfReach' /\ Exclusive'
    BY <1>8, <1>p, <2>1 DEF HandsInv, HeldOutOfReach, Exclusive
  <2> QED
    BY <2>2, <2>3
<1>9. CASE \/ \E w \in Worker : Reload(w)
           \/ \E w \in Worker, value \in {"yes", "no"} : SetEndpointActive(w, value)
           \/ \E e \in Event : EnqueueWebhookEvent(e) \/ TimePasses(e) \/ RetryWebhookEvent(e)
           \/ RetryAllFailedDeadWebhookEvents
           \/ UNCHANGED vars
  <2>1. UNCHANGED <<pc, batch, event, overruns>>
    BY <1>9 DEF Reload, SetEndpointActive, EnqueueWebhookEvent, TimePasses, Orphaned, BecomesDue,
       RetryWebhookEvent, RetryAllFailedDeadWebhookEvents, vars, boundVars, Command
  <2>2. \A e \in Event : \/ status'[e] = status[e] /\ stale'[e] = stale[e]
                         \/ status[e] # "delivering"
                         \/ \A v \in Worker : e \notin Held(v)
    <3>1. CASE \E w \in Worker : Reload(w)
      BY <3>1 DEF Reload, rowVars
    <3>2. CASE \E w \in Worker, value \in {"yes", "no"} : SetEndpointActive(w, value)
      BY <3>2 DEF SetEndpointActive, rowVars
    <3>3. CASE \E e \in Event : EnqueueWebhookEvent(e) \/ BecomesDue(e) \/ RetryWebhookEvent(e)
      BY <3>3, <1>p DEF EnqueueWebhookEvent, BecomesDue, RetryWebhookEvent
    <3>4. CASE \E e \in Event : Orphaned(e)
      BY <3>4, <1>p DEF Orphaned
    <3>5. CASE RetryAllFailedDeadWebhookEvents
      BY <3>5, <1>p DEF RetryAllFailedDeadWebhookEvents
    <3>6. CASE UNCHANGED vars
      BY <3>6 DEF vars, rowVars
    <3> QED
      BY <1>9, <3>1, <3>2, <3>3, <3>4, <3>5, <3>6 DEF TimePasses
  <2> QED
    BY <1>t, <1>8, <2>1, <2>2 DEF HandsInv
<1> QED
  BY <1>t, <1>1, <1>2, <1>3, <1>4, <1>5, <1>6, <1>7, <1>9
     DEF HandsInv, Next, WorkerStep, WorkerFault

LEMMA HandsInit == Init => HandsInv
BY TypeInit DEF Init, HandsInv, BusyHasRow, HeldOutOfReach, Exclusive, HeldOnce, Held

(***************************************************************************)
(* While no worker has kept a row for five minutes, no row is in the hands *)
(* of two workers (ClaimPendingWebhookEvents, deliverOne).                 *)
(***************************************************************************)
THEOREM OneWorkerPerRow == Spec => []Exclusive
<1>1. HandsInv => Exclusive
  BY DEF HandsInv
<1>2. HandsInv /\ [Next]_vars => HandsInv'
  BY HandsStep
<1> QED
  BY <1>1, <1>2, HandsInit, PTL DEF Spec

\* Which steps write a row's status: a claim, a mark by the worker that has the
\* row, an insert, or a retry request.
LEMMA StatusStep ==
  ASSUME TypeOK, BusyHasRow, [Next]_vars, NEW e \in Event
  PROVE  \/ status'[e] = status[e] /\ attempts'[e] = attempts[e]
         \/ status'[e] \in {"pending", "delivering"} /\ status[e] # "delivered"
         \/ \E w \in Worker : pc[w] = "mark" /\ event[w] = e /\ MarkRow(w)
<1>t. /\ status \in [Event -> {"absent", "pending", "delivering", "failed", "delivered", "dead"}]
      /\ attempts \in [Event -> Nat]
      /\ pc \in [Worker -> {"idle", "deliver", "record", "disable", "mark", "exhausted"}]
  BY DEF TypeOK
<1>1. ASSUME NEW rows \in SUBSET Event, ClaimRows(rows)
      PROVE  \/ status'[e] = status[e] /\ attempts'[e] = attempts[e]
             \/ status'[e] = "delivering" /\ status[e] # "delivered"
  BY <1>1, <1>t DEF ClaimRows, Claimable, Reclaimable
<1>2. ASSUME NEW w \in Worker, Mark(w) \/ MarkFails(w), event[w] # e
      PROVE  status'[e] = status[e] /\ attempts'[e] = attempts[e]
  BY <1>2, <1>t DEF Mark, MarkFails, MarkRow, MarkWebhookEventDelivered, MarkWebhookEventFailed, rowVars
<1>3. ASSUME NEW w \in Worker, Mark(w) \/ MarkFails(w)
      PROVE  \/ status' = status /\ attempts' = attempts
             \/ pc[w] = "mark" /\ MarkRow(w)
  BY <1>3 DEF Mark, MarkFails, rowVars
<1>4. ASSUME NEW w \in Worker, WorkerStep(w) \/ WorkerFault(w) \/ Reload(w)
      PROVE  \/ status' = status /\ attempts' = attempts
             \/ \E rows \in SUBSET Event : ClaimRows(rows)
             \/ Mark(w) \/ MarkFails(w)
  BY <1>4 DEF WorkerStep, WorkerFault, Reload, ClaimPendingWebhookEvents, ClaimUnacknowledged, Send,
     ResolveFails, RecordWebhookDeliveryAttempt, DisableEndpointAndNotify, Crash, rowVars
<1>5. CASE \E w \in Worker : WorkerStep(w) \/ WorkerFault(w) \/ Reload(w)
  BY <1>5, <1>1, <1>2, <1>3, <1>4
<1>6. CASE \/ \E w \in Worker, value \in {"yes", "no"} : SetEndpointActive(w, value)
           \/ UNCHANGED vars
  BY <1>6 DEF SetEndpointActive, vars, rowVars
<1>7. ASSUME NEW f \in Event, EnqueueWebhookEvent(f) \/ TimePasses(f) \/ Overrun(f) \/ RetryWebhookEvent(f)
      PROVE  \/ status'[e] = status[e] /\ attempts'[e] = attempts[e]
             \/ status'[e] = "pending" /\ status[e] # "delivered"
  BY <1>7, <1>t DEF EnqueueWebhookEvent, TimePasses, Orphaned, BecomesDue, Overrun, RetryWebhookEvent
<1>8. CASE RetryAllFailedDeadWebhookEvents
  BY <1>8, <1>t DEF RetryAllFailedDeadWebhookEvents
<1> QED
  BY <1>5, <1>6, <1>7, <1>8 DEF Next

(***************************************************************************)
(* A delivered row stays delivered while no worker has overrun: the mark   *)
(* of any worker goes to a row that is in delivery.                        *)
(***************************************************************************)
THEOREM DeliveredStays == Spec => DeliveredIsFinal
<1>1. ASSUME HandsInv, [Next]_vars, NEW e \in Event, overruns = 0, status[e] = "delivered"
      PROVE  status'[e] = "delivered"
  <2>1. \A w \in Worker : pc[w] = "mark" /\ event[w] = e => e \in Held(w)
    BY DEF Held
  <2>2. \A w \in Worker : e \notin Held(w)
    BY <1>1 DEF HandsInv, HeldOutOfReach
  <2> QED
    BY <1>1, <2>1, <2>2, StatusStep DEF HandsInv
<1>2. HandsInv /\ [Next]_vars =>
        [\A e \in Event : overruns = 0 /\ status[e] = "delivered" => status'[e] = "delivered"]_vars
  BY <1>1
<1>3. HandsInv /\ [Next]_vars => HandsInv'
  BY HandsStep
<1> QED
  BY <1>2, <1>3, HandsInit, PTL DEF Spec, DeliveredIsFinal

LEMMA StatusFitsStep ==
  ASSUME TypeOK, BusyHasRow, StatusFitsAttempts, [Next]_vars
  PROVE  StatusFitsAttempts'
<1> SUFFICES ASSUME NEW e \in Event
             PROVE  /\ status'[e] = "failed" => attempts'[e] < MaxAttempts
                    /\ status'[e] = "dead" => attempts'[e] >= MaxAttempts
  BY DEF StatusFitsAttempts
<1>1. ASSUME NEW w \in Worker, event[w] = e, MarkRow(w)
      PROVE  /\ status'[e] = "failed" => attempts'[e] < MaxAttempts
             /\ status'[e] = "dead" => attempts'[e] >= MaxAttempts
  BY <1>1, DeliveryAssumption DEF MarkRow, MarkWebhookEventDelivered, MarkWebhookEventFailed, TypeOK
<1> QED
  BY <1>1, StatusStep DEF StatusFitsAttempts

(***************************************************************************)
(* With any number of overruns, a row waiting for another attempt has      *)
(* attempts left and a dead row has none (MarkWebhookEventFailed).         *)
(***************************************************************************)
THEOREM StatusFits == Spec => []StatusFitsAttempts
<1> DEFINE I == TypeOK /\ BusyHasRow /\ StatusFitsAttempts
<1>1. Init => I
  BY TypeInit DEF Init, BusyHasRow, StatusFitsAttempts
<1>2. I /\ [Next]_vars => I'
  BY TypeStep, StatusFitsStep
<1> QED
  BY <1>1, <1>2, PTL DEF Spec

(***************************************************************************)
(* With any number of overruns, crashes and failed updates, a row is       *)
(* delivered only if the subscriber answered it with 2xx.                  *)
(***************************************************************************)
THEOREM AcceptedBeforeDelivered == Spec => []DeliveredWasAccepted
<1> DEFINE I == TypeOK /\ BusyHasRow /\ SuccessIsAnswered /\ DeliveredWasAccepted
<1>1. Init => I
  BY TypeInit DEF Init, BusyHasRow, SuccessIsAnswered, DeliveredWasAccepted
<1>2. I /\ [Next]_vars => I'
  <2> SUFFICES ASSUME I, [Next]_vars PROVE SuccessIsAnswered' /\ DeliveredWasAccepted'
    BY TypeStep
  <2>t. /\ outcome \in [Worker -> {"none", "success", "gone", "retry", "fail"}]
        /\ event \in [Worker -> Event \cup {None}]
        /\ status \in [Event -> {"absent", "pending", "delivering", "failed", "delivered", "dead"}]
    BY DEF TypeOK
  <2>1. ASSUME NEW w \in Worker, Send(w)
        PROVE  accepted \subseteq accepted' /\ SuccessIsAnswered'
    <3>1. PICK row \in batch[w] :
            /\ event' = [event EXCEPT ![w] = row[1]]
            /\ \/ /\ outcome' = [outcome EXCEPT ![w] = "fail"]
                  /\ accepted' = accepted
               \/ \E response \in Response :
                    /\ outcome' = [outcome EXCEPT ![w] = ClassifyDelivery(response)]
                    /\ accepted' = IF response = "2xx" THEN accepted \cup {row[1]} ELSE accepted
      BY <2>1 DEF Send, historyVars
    <3>2. \A response \in Response : ClassifyDelivery(response) = "success" => response = "2xx"
      BY DEF Response, ClassifyDelivery
    <3>3. outcome'[w] = "success" => row[1] \in accepted'
      BY <2>t, <3>1, <3>2
    <3> QED
      BY <2>t, <3>1, <3>3 DEF SuccessIsAnswered
  <2>2. ASSUME NEW w \in Worker, \/ Mark(w) \/ MarkFails(w) \/ DisableEndpointAndNotify(w) \/ Crash(w)
        PROVE  accepted \subseteq accepted' /\ SuccessIsAnswered'
    BY <2>2, <2>t DEF Mark, MarkFails, DisableEndpointAndNotify, Crash, AfterRow, historyVars, SuccessIsAnswered
  <2>3. ASSUME UNCHANGED <<outcome, event, accepted>>
        PROVE  accepted \subseteq accepted' /\ SuccessIsAnswered'
    BY <2>3 DEF SuccessIsAnswered
  <2>4. \/ \E w \in Worker : Send(w) \/ Mark(w) \/ MarkFails(w) \/ DisableEndpointAndNotify(w) \/ Crash(w)
        \/ UNCHANGED <<outcome, event, accepted>>
    BY DEF Next, WorkerStep, WorkerFault, Reload, SetEndpointActive, ClaimPendingWebhookEvents,
       ClaimUnacknowledged, ResolveFails, RecordWebhookDeliveryAttempt, EnqueueWebhookEvent, TimePasses,
       Orphaned, BecomesDue, Overrun, RetryWebhookEvent, RetryAllFailedDeadWebhookEvents, vars,
       workerVars, historyVars
  <2>5. accepted \subseteq accepted' /\ SuccessIsAnswered'
    BY <2>1, <2>2, <2>3, <2>4
  <2>6. ASSUME NEW w \in Worker, event[w] \in Event, MarkRow(w), status'[event[w]] = "delivered"
        PROVE  event[w] \in accepted
    BY <2>6, <2>t DEF MarkRow, MarkWebhookEventFailed, SuccessIsAnswered
  <2>7. ASSUME NEW e \in Event, status'[e] = "delivered"
        PROVE  e \in accepted'
    BY <2>5, <2>6, <2>7, StatusStep DEF DeliveredWasAccepted
  <2> QED
    BY <2>5, <2>7 DEF DeliveredWasAccepted
<1> QED
  BY <1>1, <1>2, PTL DEF Spec

-----------------------------------------------------------------------------
(***************************************************************************)
(* Neither AttemptsWithinBudget nor EveryAttemptLogged is inductive: both  *)
(* rest on the numbers that the workers carry.  While no worker has        *)
(* overrun, a claimed row carries the attempt_count of its row, and the    *)
(* attempt in hand is the next one (Numbered).  A row that is not settled  *)
(* has been posted as often as its count says, but for faults and retry    *)
(* requests, and once more while a worker is between the post and the mark *)
(* (Budgeted).                                                             *)
(***************************************************************************)
Busy == {"record", "disable", "mark"}

InFlight(e) == \E w \in Worker : pc[w] \in Busy /\ event[w] = e

Settled(e) == status[e] \in {"delivered", "dead"}

NumbersFit(w) ==
  /\ \A r \in batch[w] : r[2] = attempts[r[1]]
  /\ pc[w] \in Busy => attempt[w] = attempts[event[w]] + 1

Numbered == overruns = 0 => \A w \in Worker : NumbersFit(w)

Budgeted(e) ==
  /\ posts[e] <= MaxAttempts + faults + commands
  /\ ~Settled(e) /\ InFlight(e) => posts[e] <= attempts[e] + 1 + faults + commands
  /\ ~Settled(e) /\ ~InFlight(e) => /\ posts[e] <= attempts[e] + faults + commands
                                    /\ posts[e] < MaxAttempts + faults + commands

BudgetInv ==
  /\ HandsInv
  /\ StatusFitsAttempts
  /\ Numbered
  /\ overruns = 0 => \A e \in Event : Budgeted(e)

(***************************************************************************)
(* For the log: an attempt in it has a number up to the count of its row,  *)
(* or one more while the row is in delivery, so that the next attempt to   *)
(* be recorded has a number that is not in the log (Recorded).             *)
(***************************************************************************)
Logged(e) == {r \in log : r[1] = e}

AtRecord(e) == \E w \in Worker : pc[w] = "record" /\ event[w] = e

Queued(e) == \E w \in Worker : \E r \in batch[w] : r[1] = e

\* No attempt with the next number has been made.
Unnumbered(e) == status[e] \in {"absent", "pending", "failed"} \/ Queued(e) \/ AtRecord(e)

Recorded(e) ==
  /\ posts[e] <= Cardinality(Logged(e)) + faults + (IF AtRecord(e) THEN 1 ELSE 0)
  /\ ~Settled(e) => \A r \in Logged(e) : r[2] <= attempts[e] + 1
  /\ Unnumbered(e) => \A r \in Logged(e) : r[2] <= attempts[e]

LogInv ==
  /\ HandsInv
  /\ Numbered
  /\ IsFiniteSet(log)
  /\ overruns = 0 /\ commands = 0 => \A e \in Event : Recorded(e)

-----------------------------------------------------------------------------
\* Every step is one of a worker, which leaves the other workers alone, or of
\* somebody else, which leaves all workers and all posts and records alone.
Others(w) ==
  \A v \in Worker : v # w => /\ pc'[v] = pc[v] /\ batch'[v] = batch[v]
                            /\ event'[v] = event[v] /\ attempt'[v] = attempt[v]

Bystander ==
  \/ \E w \in Worker : Reload(w)
  \/ \E w \in Worker, value \in {"yes", "no"} : SetEndpointActive(w, value)
  \/ \E e \in Event : EnqueueWebhookEvent(e) \/ TimePasses(e) \/ Overrun(e) \/ RetryWebhookEvent(e)
  \/ RetryAllFailedDeadWebhookEvents
  \/ UNCHANGED vars

LEMMA StepIs ==
  ASSUME [Next]_vars
  PROVE  \/ \E w \in Worker : WorkerStep(w) \/ WorkerFault(w)
         \/ Bystander
BY DEF Next, Bystander

LEMMA WorkerAlone ==
  ASSUME TypeOK, NEW w \in Worker, WorkerStep(w) \/ WorkerFault(w)
  PROVE  Others(w)
<1>t. /\ pc \in [Worker -> {"idle", "deliver", "record", "disable", "mark", "exhausted"}]
      /\ batch \in [Worker -> SUBSET (Event \X Nat)]
      /\ event \in [Worker -> Event \cup {None}] /\ attempt \in [Worker -> Nat]
  BY DEF TypeOK
<1> SUFFICES ASSUME NEW v \in Worker, v # w
             PROVE  /\ pc'[v] = pc[v] /\ batch'[v] = batch[v]
                    /\ event'[v] = event[v] /\ attempt'[v] = attempt[v]
  BY DEF Others
<1>1. CASE WorkerStep(w)
  BY <1>t, <1>1 DEF WorkerStep, ClaimPendingWebhookEvents, Send, RecordWebhookDeliveryAttempt,
     Mark, DisableEndpointAndNotify, AfterRow
<1>2. CASE WorkerFault(w)
  BY <1>t, <1>2 DEF WorkerFault, ClaimUnacknowledged, ResolveFails, MarkFails, Crash, AfterRow, workerVars
<1> QED
  BY <1>1, <1>2

LEMMA BystanderKeeps ==
  ASSUME TypeOK, Bystander
  PROVE  UNCHANGED <<pc, batch, event, attempt, posts, log, faults, attempts>>
BY DEF Bystander, Reload, SetEndpointActive, EnqueueWebhookEvent, TimePasses, Orphaned, BecomesDue,
       Overrun, RetryWebhookEvent, RetryAllFailedDeadWebhookEvents, vars, workerVars, historyVars,
       rowVars, boundVars, Command

\* The bounded counters do not go down.
LEMMA CountersGrow ==
  ASSUME TypeOK, [Next]_vars
  PROVE  /\ faults' >= faults /\ commands' >= commands /\ overruns' >= overruns
         /\ faults \in Nat /\ commands \in Nat /\ overruns \in Nat
<1>t. faults \in Nat /\ commands \in Nat /\ overruns \in Nat
  BY DeliveryAssumption DEF TypeOK
<1>1. \/ Fault \/ Command \/ UNCHANGED boundVars
      \/ overruns' = overruns + 1 /\ UNCHANGED <<faults, commands>>
  BY DEF Next, WorkerStep, WorkerFault, ClaimPendingWebhookEvents, Send, RecordWebhookDeliveryAttempt,
     Mark, DisableEndpointAndNotify, ClaimUnacknowledged, ResolveFails, MarkFails, Crash,
     Reload, SetEndpointActive, EnqueueWebhookEvent, TimePasses, Orphaned, BecomesDue,
     Overrun, RetryWebhookEvent, RetryAllFailedDeadWebhookEvents, vars
<1> QED
  BY <1>t, <1>1 DEF Fault, Command, boundVars

-----------------------------------------------------------------------------
\* The rows of a worker's batch, and the one it is busy with, are held.
LEMMA HeldIs ==
  ASSUME NEW v \in Worker
  PROVE  /\ \A r \in batch[v] : r[1] \in Held(v)
         /\ pc[v] \in Busy => event[v] \in Held(v)
<1>1. ASSUME NEW r \in batch[v]
      PROVE  r[1] \in Held(v)
  <2>1. r[1] \in {row[1] : row \in batch[v]}
    OBVIOUS
  <2> QED
    BY <2>1 DEF Held
<1>2. pc[v] \in Busy => event[v] \in Held(v)
  BY DEF Held, Busy
<1> QED
  BY <1>1, <1>2

\* What Exclusive says of a row that a worker holds.
LEMMA HeldAlone ==
  ASSUME HandsInv, overruns = 0, NEW w \in Worker, NEW e \in Held(w)
  PROVE  /\ e \in Event /\ status[e] = "delivering" /\ stale[e] = "no"
         /\ \A v \in Worker : v # w => e \notin Held(v)
<1>1. e \in Event
  BY DEF HandsInv, TypeOK, BusyHasRow, Held
<1>2. \A v \in Worker : v # w => e \notin Held(v)
  BY <1>1 DEF HandsInv, Exclusive
<1>3. status[e] = "delivering" /\ stale[e] = "no"
  BY DEF HandsInv, HeldOutOfReach
<1> QED
  BY <1>1, <1>2, <1>3

LEMMA NumbersKept ==
  ASSUME NEW v \in Worker, NumbersFit(v), batch'[v] \subseteq batch[v],
         \A r \in batch'[v] : attempts'[r[1]] = attempts[r[1]],
         pc'[v] \in Busy => /\ pc[v] \in Busy /\ event'[v] = event[v] /\ attempt'[v] = attempt[v]
                           /\ attempts'[event[v]] = attempts[event[v]]
  PROVE  NumbersFit(v)'
<1>1. ASSUME NEW r \in batch'[v]
      PROVE  r[2] = attempts'[r[1]]
  BY <1>1 DEF NumbersFit
<1>2. pc'[v] \in Busy => attempt'[v] = attempts'[event'[v]] + 1
  BY DEF NumbersFit
<1> QED
  BY <1>1, <1>2 DEF NumbersFit, Busy

LEMMA NumberedStep ==
  ASSUME HandsInv, Numbered, [Next]_vars
  PROVE  Numbered'
<1> SUFFICES ASSUME overruns' = 0, NEW v \in Worker
             PROVE  NumbersFit(v)'
  BY DEF Numbered
<1>t. /\ TypeOK /\ BusyHasRow
      /\ pc \in [Worker -> {"idle", "deliver", "record", "disable", "mark", "exhausted"}]
      /\ batch \in [Worker -> SUBSET (Event \X Nat)]
      /\ event \in [Worker -> Event \cup {None}] /\ attempt \in [Worker -> Nat]
      /\ attempts \in [Event -> Nat]
  BY DEF HandsInv, TypeOK
<1>o. overruns = 0
  BY <1>t, CountersGrow
<1>n. \A u \in Worker : NumbersFit(u)
  BY <1>o DEF Numbered
<1>e. /\ \A r \in batch[v] : r[1] \in Event
      /\ pc[v] \in Busy => event[v] \in Event
  BY <1>t DEF BusyHasRow, Busy
<1>1. CASE Bystander
  <2>1. UNCHANGED <<pc, batch, event, attempt, attempts>>
    BY <1>t, <1>1, BystanderKeeps
  <2> QED
    BY <1>n, <2>1, NumbersKept
<1>2. ASSUME NEW w \in Worker, ClaimPendingWebhookEvents(w) \/ ClaimUnacknowledged(w)
      PROVE  NumbersFit(v)'
  <2>1. PICK rows \in SUBSET Event :
          /\ ClaimRows(rows)
          /\ \/ /\ batch' = [batch EXCEPT ![w] = {<<e, attempts'[e]>> : e \in rows}]
                /\ pc' = [pc EXCEPT ![w] = "deliver"]
             \/ batch' = batch /\ pc' = pc
    BY <1>2 DEF ClaimPendingWebhookEvents, ClaimUnacknowledged, workerVars
  <2>2. event' = event /\ attempt' = attempt
    BY <1>2 DEF ClaimPendingWebhookEvents, ClaimUnacknowledged, workerVars
  <2>3. \A e \in Event : e \in rows \/ attempts'[e] = attempts[e]
    BY <2>1, <1>t DEF ClaimRows
  <2>4. Held(v) \cap rows = {}
    BY <1>o, <2>1, ClaimHitsNoHeldRow DEF ClaimRows
  <2>5. /\ \A r \in batch[v] : attempts'[r[1]] = attempts[r[1]]
        /\ pc[v] \in Busy => attempts'[event[v]] = attempts[event[v]]
    BY <1>e, <2>3, <2>4, HeldIs
  <2>6. CASE batch'[v] = batch[v] /\ pc'[v] = pc[v]
    BY <1>n, <2>2, <2>5, <2>6, NumbersKept
  <2>7. CASE batch'[v] = {<<e, attempts'[e]>> : e \in rows} /\ pc'[v] = "deliver"
    <3>1. ASSUME NEW r \in batch'[v] PROVE r[2] = attempts'[r[1]]
      BY <2>7, <3>1
    <3> QED
      BY <2>7, <3>1 DEF NumbersFit, Busy
  <2> QED
    BY <1>t, <2>1, <2>6, <2>7
<1>3. ASSUME NEW w \in Worker, Send(w)
      PROVE  NumbersFit(v)'
  <2>1. PICK row \in batch[w] :
          /\ batch' = [batch EXCEPT ![w] = @ \ {row}]
          /\ event' = [event EXCEPT ![w] = row[1]]
          /\ attempt' = [attempt EXCEPT ![w] = row[2] + 1]
    BY <1>3 DEF Send
  <2>2. attempts' = attempts /\ (v # w => pc'[v] = pc[v])
    BY <1>3, <1>t DEF Send, rowVars
  <2>3. CASE v # w
    BY <1>t, <1>n, <2>1, <2>2, <2>3, NumbersKept
  <2>4. CASE v = w
    <3>1. batch'[v] \subseteq batch[v] /\ event'[v] = row[1] /\ attempt'[v] = row[2] + 1
      BY <1>t, <2>1, <2>4
    <3>2. row[2] = attempts[row[1]]
      BY <1>n DEF NumbersFit
    <3>3. ASSUME NEW r \in batch'[v] PROVE r[2] = attempts'[r[1]]
      BY <1>n, <2>2, <3>1 DEF NumbersFit
    <3> QED
      BY <2>2, <3>1, <3>2, <3>3 DEF NumbersFit, Busy
  <2> QED
    BY <2>3, <2>4
<1>4. ASSUME NEW w \in Worker, Mark(w) \/ MarkFails(w)
      PROVE  NumbersFit(v)'
  <2>1. pc[w] = "mark" /\ pc'[w] \notin Busy /\ batch' = batch
    BY <1>4, <1>t DEF Mark, MarkFails, AfterRow, Busy
  <2>2. Others(w)
    BY <1>4, <1>t, WorkerAlone DEF WorkerStep, WorkerFault
  <2>3. \A e \in Event : e # event[w] => attempts'[e] = attempts[e]
    BY <1>4, <1>t DEF Mark, MarkFails, MarkRow, MarkWebhookEventDelivered, MarkWebhookEventFailed, rowVars
  <2>4. event[w] \in Held(w) /\ \A r \in batch[w] : r[1] # event[w]
    BY <2>1, HeldIs DEF HandsInv, HeldOnce, Busy
  <2>5. v # w => event[w] \notin Held(v)
    BY <1>o, <2>4, HeldAlone
  <2>6. \A r \in batch[v] : attempts'[r[1]] = attempts[r[1]]
    BY <1>e, <2>3, <2>4, <2>5, HeldIs
  <2>7. pc'[v] \in Busy => /\ pc[v] \in Busy /\ event'[v] = event[v] /\ attempt'[v] = attempt[v]
                          /\ attempts'[event[v]] = attempts[event[v]]
    BY <1>e, <2>1, <2>2, <2>3, <2>5, HeldIs DEF Others
  <2> QED
    BY <1>n, <2>1, <2>6, <2>7, NumbersKept
<1>5. ASSUME NEW w \in Worker,
             \/ RecordWebhookDeliveryAttempt(w) \/ DisableEndpointAndNotify(w)
             \/ ResolveFails(w) \/ Crash(w)
      PROVE  NumbersFit(v)'
  <2>1. /\ batch'[w] \subseteq batch[w] /\ attempts' = attempts
        /\ pc'[w] \in Busy => /\ pc[w] \in Busy /\ event'[w] = event[w]
                              /\ attempt'[w] = attempt[w]
    BY <1>5, <1>t DEF RecordWebhookDeliveryAttempt, DisableEndpointAndNotify, ResolveFails, Crash,
       AfterRow, rowVars, Busy
  <2>2. Others(w)
    BY <1>5, <1>t, WorkerAlone DEF WorkerStep, WorkerFault
  <2> QED
    BY <1>n, <2>1, <2>2, NumbersKept DEF Others
<1> QED
  BY <1>1, <1>2, <1>3, <1>4, <1>5, StepIs DEF WorkerStep, WorkerFault

-----------------------------------------------------------------------------
\* A step of w takes a row up or lays it down only as w's own program counter says.
LEMMA FlightSame ==
  ASSUME NEW w \in Worker, Others(w), NEW e,
         (pc'[w] \in Busy /\ event'[w] = e) <=> (pc[w] \in Busy /\ event[w] = e)
  PROVE  InFlight(e)' <=> InFlight(e)
<1>1. \A v \in Worker : (pc'[v] \in Busy /\ event'[v] = e) <=> (pc[v] \in Busy /\ event[v] = e)
  BY DEF Others
<1> QED
  BY <1>1 DEF InFlight, Busy

\* A row in flight is in the hands of the worker that holds it.
LEMMA FlightOfHolder ==
  ASSUME HandsInv, overruns = 0, NEW w \in Worker, NEW e \in Held(w), InFlight(e)
  PROVE  pc[w] \in Busy /\ event[w] = e
<1>1. PICK v \in Worker : pc[v] \in Busy /\ event[v] = e
  BY DEF InFlight
<1>2. e \in Held(v)
  BY <1>1, HeldIs
<1> QED
  BY <1>1, <1>2, HeldAlone

LEMMA FlightIsDelivering ==
  ASSUME HandsInv, overruns = 0, NEW e, InFlight(e)
  PROVE  status[e] = "delivering"
<1>1. PICK v \in Worker : pc[v] \in Busy /\ event[v] = e
  BY DEF InFlight
<1> QED
  BY <1>1, HeldIs, HeldAlone

\* A row that is not posted keeps its budget, unless it leaves a worker's hands.
LEMMA BudgetKept ==
  ASSUME TypeOK, TypeOK', NEW e \in Event, Budgeted(e), posts'[e] = posts[e],
         faults' >= faults, commands' >= commands,
         InFlight(e)' <=> InFlight(e),
         ~Settled(e)' => ~Settled(e) /\ attempts'[e] >= attempts[e]
  PROVE  Budgeted(e)'
<1>t. /\ posts[e] \in Nat /\ attempts[e] \in Nat /\ attempts'[e] \in Nat /\ MaxAttempts \in Nat
      /\ faults \in Nat /\ commands \in Nat /\ faults' \in Nat /\ commands' \in Nat
  BY DeliveryAssumption DEF TypeOK
<1> QED
  BY <1>t DEF Budgeted

\* A fault makes room for the post that it leaves unmarked.
LEMMA BudgetOfFault ==
  ASSUME TypeOK, TypeOK', NEW e \in Event, Budgeted(e), posts'[e] = posts[e],
         faults' = faults + 1, commands' = commands,
         InFlight(e)' => InFlight(e),
         ~Settled(e)' => ~Settled(e) /\ attempts'[e] >= attempts[e]
  PROVE  Budgeted(e)'
<1>t. /\ posts[e] \in Nat /\ attempts[e] \in Nat /\ attempts'[e] \in Nat /\ MaxAttempts \in Nat
      /\ faults \in Nat /\ commands \in Nat
  BY DeliveryAssumption DEF TypeOK
<1> QED
  BY <1>t DEF Budgeted

LEMMA BudgetOfWorker ==
  ASSUME BudgetInv, TypeOK', [Next]_vars, overruns = 0, NEW e \in Event, NEW w \in Worker,
         WorkerStep(w) \/ WorkerFault(w)
  PROVE  Budgeted(e)'
<1>t. /\ TypeOK /\ BusyHasRow
      /\ pc \in [Worker -> {"idle", "deliver", "record", "disable", "mark", "exhausted"}]
      /\ batch \in [Worker -> SUBSET (Event \X Nat)]
      /\ event \in [Worker -> Event \cup {None}]
      /\ attempts \in [Event -> Nat] /\ posts \in [Event -> Nat]
      /\ status \in [Event -> {"absent", "pending", "delivering", "failed", "delivered", "dead"}]
  BY DEF BudgetInv, HandsInv, TypeOK
<1>n. /\ posts[e] \in Nat /\ attempts[e] \in Nat /\ MaxAttempts \in Nat
      /\ faults \in Nat /\ commands \in Nat /\ faults' \in Nat /\ commands' \in Nat
  BY <1>t, DeliveryAssumption DEF TypeOK
<1>h. HandsInv /\ Budgeted(e) /\ Numbered
  BY DEF BudgetInv
<1>c. faults' >= faults /\ commands' >= commands
  BY <1>t, CountersGrow
<1>o. Others(w)
  BY <1>t, WorkerAlone
<1>1. CASE ClaimPendingWebhookEvents(w) \/ ClaimUnacknowledged(w)
  <2>1. PICK rows \in SUBSET Event : ClaimRows(rows)
    BY <1>1 DEF ClaimPendingWebhookEvents, ClaimUnacknowledged
  <2>2. pc[w] = "idle" /\ pc'[w] \notin Busy /\ posts' = posts
    BY <1>1, <1>t DEF ClaimPendingWebhookEvents, ClaimUnacknowledged, workerVars, historyVars, Busy
  <2>3. InFlight(e)' <=> InFlight(e)
    BY <1>o, <2>2, FlightSame DEF Busy
  <2>4. ~Settled(e)' => ~Settled(e) /\ attempts'[e] >= attempts[e]
    <3>1. CASE e \in rows
      BY <1>t, <1>n, <2>1, <3>1 DEF ClaimRows, Claimable, Reclaimable, Settled
    <3>2. CASE e \notin rows
      BY <1>t, <1>n, <2>1, <3>2 DEF ClaimRows, Settled
    <3> QED
      BY <3>1, <3>2
  <2> QED
    BY <1>t, <1>h, <1>c, <2>2, <2>3, <2>4, BudgetKept
<1>2. CASE Send(w)
  <2>1. PICK row \in batch[w] :
          /\ event' = [event EXCEPT ![w] = row[1]]
          /\ posts' = posts \/ posts' = [posts EXCEPT ![row[1]] = @ + 1]
    BY <1>2 DEF Send, historyVars
  <2>2. /\ pc[w] = "deliver" /\ pc'[w] \in Busy /\ status' = status /\ attempts' = attempts
        /\ faults' = faults /\ commands' = commands
    BY <1>2, <1>t DEF Send, rowVars, boundVars, Busy
  <2>3. row[1] \in Event /\ row[1] \in Held(w) /\ event'[w] = row[1]
    BY <1>t, <2>1, HeldIs
  <2>4. CASE e = row[1]
    <3>1. ~InFlight(e)
      BY <1>h, <2>2, <2>3, <2>4, FlightOfHolder DEF Busy
    <3>2. InFlight(e)'
      BY <2>2, <2>3, <2>4 DEF InFlight, Busy
    <3>3. ~Settled(e)
      BY <1>h, <2>3, <2>4, HeldAlone DEF Settled
    <3>4. posts'[e] = posts[e] \/ posts'[e] = posts[e] + 1
      BY <1>t, <2>1, <2>4
    <3> QED
      BY <1>h, <1>n, <2>2, <3>1, <3>2, <3>3, <3>4 DEF Budgeted
  <2>5. CASE e # row[1]
    <3>1. InFlight(e)' <=> InFlight(e)
      BY <1>o, <2>2, <2>3, <2>5, FlightSame DEF Busy
    <3>2. posts'[e] = posts[e]
      BY <1>t, <2>1, <2>5
    <3> QED
      BY <1>h, <1>t, <1>n, <1>c, <2>2, <3>1, <3>2, BudgetKept DEF Settled
  <2> QED
    BY <2>4, <2>5
<1>3. CASE RecordWebhookDeliveryAttempt(w) \/ DisableEndpointAndNotify(w) \/ ResolveFails(w)
  <2>1. /\ posts' = posts /\ status' = status /\ attempts' = attempts
        /\ \/ pc[w] \in Busy /\ pc'[w] \in Busy /\ event'[w] = event[w]
           \/ pc[w] \notin Busy /\ pc'[w] \notin Busy
    BY <1>3, <1>t DEF RecordWebhookDeliveryAttempt, DisableEndpointAndNotify, ResolveFails, AfterRow,
       rowVars, historyVars, Busy
  <2>2. InFlight(e)' <=> InFlight(e)
    BY <1>o, <2>1, FlightSame
  <2> QED
    BY <1>t, <1>h, <1>n, <1>c, <2>1, <2>2, BudgetKept DEF Settled
<1>4. CASE Crash(w)
  <2>1. /\ pc'[w] \notin Busy /\ posts' = posts /\ status' = status /\ attempts' = attempts
        /\ faults' = faults + 1 /\ commands' = commands
    BY <1>4, <1>t DEF Crash, Fault, rowVars, historyVars, Busy
  <2>2. InFlight(e)' => InFlight(e)
    BY <1>o, <2>1 DEF InFlight, Others, Busy
  <2> QED
    BY <1>t, <1>h, <1>n, <2>1, <2>2, BudgetOfFault DEF Settled
<1>5. CASE Mark(w) \/ MarkFails(w)
  <2>1. /\ pc[w] = "mark" /\ pc'[w] \notin Busy /\ posts' = posts
        /\ MarkRow(w) \/ (UNCHANGED rowVars /\ faults' = faults + 1 /\ commands' = commands)
    BY <1>5, <1>t DEF Mark, MarkFails, AfterRow, Fault, historyVars, Busy
  <2>2. event[w] \in Event /\ event[w] \in Held(w)
    BY <1>t, <2>1, HeldIs DEF BusyHasRow, Busy
  <2>3. CASE e # event[w]
    <3>1. InFlight(e)' <=> InFlight(e)
      BY <1>o, <2>1, <2>3, FlightSame
    <3>2. status'[e] = status[e] /\ attempts'[e] = attempts[e]
      BY <1>t, <2>1, <2>3 DEF MarkRow, MarkWebhookEventDelivered, MarkWebhookEventFailed, rowVars
    <3> QED
      BY <1>t, <1>h, <1>n, <1>c, <2>1, <3>1, <3>2, BudgetKept DEF Settled
  <2>4. CASE e = event[w]
    <3>1. InFlight(e) /\ ~Settled(e)
      BY <1>h, <2>1, <2>2, <2>4, HeldAlone DEF InFlight, Busy, Settled
    <3>2. attempt[w] = attempts[e] + 1
      BY <1>h, <2>1, <2>4 DEF Numbered, NumbersFit, Busy
    <3>3. posts[e] <= attempts[e] + 1 + faults + commands /\ posts[e] <= MaxAttempts + faults + commands
      BY <1>h, <3>1 DEF Budgeted
    <3>4. CASE UNCHANGED rowVars /\ faults' = faults + 1 /\ commands' = commands
      BY <1>n, <2>1, <3>3, <3>4 DEF Budgeted, rowVars
    <3>5. CASE MarkRow(w)
      <4>1. \/ Settled(e)'
            \/ attempts'[e] = attempt[w] /\ attempt[w] < MaxAttempts
        BY <1>t, <1>n, <2>2, <2>4, <3>2, <3>5
           DEF MarkRow, MarkWebhookEventDelivered, MarkWebhookEventFailed, Settled
      <4>2. ~InFlight(e)'
        <5>1. \A v \in Worker : v # w => ~(pc[v] \in Busy /\ event[v] = e)
          BY <1>h, <2>2, <2>4, HeldIs, HeldAlone
        <5> QED
          BY <1>o, <2>1, <5>1 DEF Others, InFlight, Busy
      <4> QED
        BY <1>n, <1>c, <2>1, <3>2, <3>3, <4>1, <4>2 DEF Budgeted
    <3> QED
      BY <2>1, <3>4, <3>5
  <2> QED
    BY <2>3, <2>4
<1> QED
  BY <1>1, <1>2, <1>3, <1>4, <1>5 DEF WorkerStep, WorkerFault

LEMMA BudgetOfBystander ==
  ASSUME BudgetInv, TypeOK', [Next]_vars, overruns = 0, NEW e \in Event, Bystander
  PROVE  Budgeted(e)'
<1>t. /\ TypeOK
      /\ status \in [Event -> {"absent", "pending", "delivering", "failed", "delivered", "dead"}]
  BY DEF BudgetInv, HandsInv, TypeOK
<1>n. /\ posts[e] \in Nat /\ attempts[e] \in Nat /\ MaxAttempts \in Nat
      /\ faults \in Nat /\ commands \in Nat /\ faults' \in Nat /\ commands' \in Nat
  BY <1>t, DeliveryAssumption DEF TypeOK
<1>h. HandsInv /\ Budgeted(e) /\ StatusFitsAttempts
  BY DEF BudgetInv
<1>c. faults' >= faults /\ commands' >= commands
  BY <1>t, CountersGrow
<1>u. UNCHANGED <<pc, batch, event, attempt, posts, log, faults, attempts>>
  BY <1>t, BystanderKeeps
<1>f. InFlight(e)' <=> InFlight(e)
  BY <1>u DEF InFlight, Busy
<1>1. CASE ~Settled(e)' => ~Settled(e)
  BY <1>t, <1>h, <1>n, <1>c, <1>u, <1>f, <1>1, BudgetKept
<1>2. CASE Settled(e) /\ ~Settled(e)'
  <2>1. status[e] = "dead" /\ commands' = commands + 1
    BY <1>t, <1>2 DEF Bystander, Reload, SetEndpointActive, EnqueueWebhookEvent, TimePasses, Orphaned,
       BecomesDue, Overrun, RetryWebhookEvent, RetryAllFailedDeadWebhookEvents, vars, rowVars,
       Command, Settled
  <2>2. attempts[e] >= MaxAttempts
    BY <1>h, <2>1 DEF StatusFitsAttempts
  <2>3. ~InFlight(e)
    BY <1>h, <2>1, FlightIsDelivering
  <2> QED
    BY <1>h, <1>n, <1>u, <1>f, <2>1, <2>2, <2>3 DEF Budgeted
<1> QED
  BY <1>1, <1>2

LEMMA BudgetStep ==
  ASSUME BudgetInv, [Next]_vars
  PROVE  BudgetInv'
<1>1. TypeOK /\ HandsInv' /\ TypeOK' /\ StatusFitsAttempts' /\ Numbered'
  BY HandsStep, StatusFitsStep, NumberedStep DEF BudgetInv, HandsInv
<1>2. overruns' = 0 => overruns = 0
  BY <1>1, CountersGrow
<1>3. overruns' = 0 => \A e \in Event : Budgeted(e)'
  BY <1>1, <1>2, StepIs, BudgetOfWorker, BudgetOfBystander
<1> QED
  BY <1>1, <1>3 DEF BudgetInv

LEMMA BudgetInit == Init => BudgetInv
<1> SUFFICES ASSUME Init PROVE BudgetInv
  OBVIOUS
<1>1. HandsInv
  BY HandsInit
<1>2. StatusFitsAttempts
  BY DEF Init, StatusFitsAttempts
<1>3. Numbered
  BY DEF Init, Numbered, NumbersFit, Busy
<1>4. \A e \in Event : Budgeted(e)
  BY DeliveryAssumption DEF Init, Budgeted, InFlight, Busy, Settled
<1> QED
  BY <1>1, <1>2, <1>3, <1>4 DEF BudgetInv

(***************************************************************************)
(* While no worker has overrun, the subscriber sees a row at most          *)
(* WEBHOOK_MAX_ATTEMPTS times, and once more for each fault and each       *)
(* manual retry: a reclaim (scanner.go:875) does not look at               *)
(* attempt_count, yet each one follows a fault.                            *)
(***************************************************************************)
THEOREM PostsAreBounded == Spec => []AttemptsWithinBudget
<1>1. BudgetInv => AttemptsWithinBudget
  BY DEF BudgetInv, Budgeted, AttemptsWithinBudget
<1>2. BudgetInv /\ [Next]_vars => BudgetInv'
  BY BudgetStep
<1> QED
  BY <1>1, <1>2, BudgetInit, PTL DEF Spec

-----------------------------------------------------------------------------
LEMMA LoggedFinite ==
  ASSUME IsFiniteSet(log), NEW e
  PROVE  IsFiniteSet(Logged(e)) /\ Cardinality(Logged(e)) \in Nat
<1>1. Logged(e) \subseteq log
  BY DEF Logged
<1> QED
  BY <1>1, FS_Subset, FS_CardinalityType

\* A row keeps its account of the log when nothing is posted or recorded for it.
LEMMA RecordedKept ==
  ASSUME TypeOK, TypeOK', IsFiniteSet(log), NEW e \in Event, Recorded(e),
         posts'[e] = posts[e], Logged(e)' = Logged(e), faults' >= faults,
         AtRecord(e) => AtRecord(e)' \/ faults' >= faults + 1,
         ~Settled(e)' => ~Settled(e) /\ attempts'[e] >= attempts[e],
         Unnumbered(e)' => Unnumbered(e) \/ attempts'[e] >= attempts[e] + 1,
         Unnumbered(e)' => attempts'[e] >= attempts[e] /\ ~Settled(e)
  PROVE  Recorded(e)'
<1>t. /\ posts[e] \in Nat /\ attempts[e] \in Nat /\ attempts'[e] \in Nat
      /\ faults \in Nat /\ faults' \in Nat /\ Cardinality(Logged(e)) \in Nat
  BY DeliveryAssumption, LoggedFinite DEF TypeOK
<1>r. \A r \in Logged(e) : r[2] \in Nat
  BY DEF Logged, TypeOK
<1>1. posts'[e] <= Cardinality(Logged(e)') + faults' + (IF AtRecord(e)' THEN 1 ELSE 0)
  BY <1>t DEF Recorded
<1>2. ~Settled(e)' => \A r \in Logged(e)' : r[2] <= attempts'[e] + 1
  <2> SUFFICES ASSUME ~Settled(e)', NEW r \in Logged(e) PROVE r[2] <= attempts'[e] + 1
    OBVIOUS
  <2>1. r[2] <= attempts[e] + 1 /\ attempts'[e] >= attempts[e] /\ r[2] \in Nat
    BY <1>r DEF Recorded
  <2> QED
    BY <1>t, <2>1
<1>3. Unnumbered(e)' => \A r \in Logged(e)' : r[2] <= attempts'[e]
  <2> SUFFICES ASSUME Unnumbered(e)', NEW r \in Logged(e) PROVE r[2] <= attempts'[e]
    OBVIOUS
  <2>1. r[2] \in Nat /\ r[2] <= attempts[e] + 1
    BY <1>r DEF Recorded
  <2>2. Unnumbered(e) => r[2] <= attempts[e]
    BY DEF Recorded
  <2> QED
    BY <1>t, <2>1, <2>2
<1> QED
  BY <1>1, <1>2, <1>3 DEF Recorded

\* A row with an attempt to come is not settled.
LEMMA UnnumberedIsOpen ==
  ASSUME HandsInv, overruns = 0, NEW e, Unnumbered(e)
  PROVE  ~Settled(e)
<1>1. ASSUME Queued(e) PROVE status[e] = "delivering"
  <2>1. PICK v \in Worker : \E r \in batch[v] : r[1] = e
    BY <1>1 DEF Queued
  <2> QED
    BY <2>1, HeldIs, HeldAlone
<1>2. ASSUME AtRecord(e) PROVE status[e] = "delivering"
  <2>1. PICK v \in Worker : pc[v] = "record" /\ event[v] = e
    BY <1>2 DEF AtRecord
  <2> QED
    BY <2>1, HeldIs, HeldAlone DEF Busy
<1> QED
  BY <1>1, <1>2 DEF Unnumbered, Settled

\* The row that a worker is busy with is in no batch, and no other records it.
LEMMA BusyRowAlone ==
  ASSUME HandsInv, overruns = 0, NEW w \in Worker, pc[w] \in Busy
  PROVE  /\ ~Queued(event[w])
         /\ \A v \in Worker : v # w => ~(pc[v] \in Busy /\ event[v] = event[w])
         /\ status[event[w]] = "delivering"
<1>1. event[w] \in Held(w)
  BY HeldIs
<1>2. \A r \in batch[w] : r[1] # event[w]
  BY DEF HandsInv, HeldOnce, Busy
<1>3. \A v \in Worker : v # w => event[w] \notin Held(v)
  BY <1>1, HeldAlone
<1>4. ~Queued(event[w])
  <2> SUFFICES ASSUME NEW v \in Worker, NEW r \in batch[v], r[1] = event[w] PROVE FALSE
    BY DEF Queued
  <2> QED
    BY <1>2, <1>3, HeldIs
<1>5. \A v \in Worker : v # w => ~(pc[v] \in Busy /\ event[v] = event[w])
  BY <1>3, HeldIs
<1> QED
  BY <1>1, <1>4, <1>5, HeldAlone

LEMMA LogOfWorker ==
  ASSUME LogInv, TypeOK', [Next]_vars, overruns = 0, commands = 0, NEW e \in Event,
         NEW w \in Worker, WorkerStep(w) \/ WorkerFault(w)
  PROVE  Recorded(e)'
<1>t. /\ TypeOK /\ BusyHasRow
      /\ pc \in [Worker -> {"idle", "deliver", "record", "disable", "mark", "exhausted"}]
      /\ batch \in [Worker -> SUBSET (Event \X Nat)]
      /\ event \in [Worker -> Event \cup {None}]
      /\ attempts \in [Event -> Nat] /\ posts \in [Event -> Nat]
      /\ status \in [Event -> {"absent", "pending", "delivering", "failed", "delivered", "dead"}]
  BY DEF LogInv, HandsInv, TypeOK
<1>n. posts[e] \in Nat /\ attempts[e] \in Nat /\ faults \in Nat /\ faults' \in Nat
  BY <1>t, DeliveryAssumption DEF TypeOK
<1>h. HandsInv /\ Recorded(e) /\ Numbered /\ IsFiniteSet(log)
  BY DEF LogInv
<1>c. faults' >= faults
  BY <1>t, CountersGrow
<1>o. Others(w)
  BY <1>t, WorkerAlone
<1>a. \A v \in Worker : v # w => pc'[v] = pc[v] /\ event'[v] = event[v] /\ batch'[v] = batch[v]
  BY <1>o DEF Others
<1>u. Unnumbered(e) => ~Settled(e)
  BY <1>h, UnnumberedIsOpen
<1>1. CASE ClaimPendingWebhookEvents(w) \/ ClaimUnacknowledged(w)
  <2>1. PICK rows \in SUBSET Event :
          /\ ClaimRows(rows)
          /\ batch' = batch \/ batch' = [batch EXCEPT ![w] = {<<f, attempts'[f]>> : f \in rows}]
    BY <1>1 DEF ClaimPendingWebhookEvents, ClaimUnacknowledged, workerVars
  <2>2. pc[w] # "record" /\ pc'[w] # "record" /\ posts' = posts /\ log' = log
    BY <1>1, <1>t DEF ClaimPendingWebhookEvents, ClaimUnacknowledged, workerVars, historyVars
  <2>3. AtRecord(e)' <=> AtRecord(e)
    BY <1>a, <2>2 DEF AtRecord
  <2>4. Logged(e)' = Logged(e)
    BY <2>2 DEF Logged
  <2>5. CASE e \in rows
    <3>1. /\ ~Settled(e) /\ attempts'[e] >= attempts[e]
          /\ status[e] \in {"pending", "failed"} \/ attempts'[e] >= attempts[e] + 1
      BY <1>t, <1>n, <2>1, <2>5 DEF ClaimRows, Claimable, Reclaimable, Settled
    <3> QED
      BY <1>t, <1>h, <1>c, <2>2, <2>3, <2>4, <3>1, RecordedKept DEF Unnumbered
  <2>6. CASE e \notin rows
    <3>1. status'[e] = status[e] /\ attempts'[e] = attempts[e]
      BY <1>t, <2>1, <2>6 DEF ClaimRows
    <3>2. Queued(e)' => Queued(e)
      <4> SUFFICES ASSUME NEW v \in Worker, NEW r \in batch'[v], r[1] = e
                   PROVE  r \in batch[v]
        BY DEF Queued
      <4>1. batch'[v] = batch[v] \/ batch'[v] = {<<f, attempts'[f]>> : f \in rows}
        BY <1>t, <2>1
      <4> QED
        BY <2>6, <4>1
    <3>3. Unnumbered(e)' => Unnumbered(e)
      BY <2>3, <3>1, <3>2 DEF Unnumbered
    <3> QED
      BY <1>t, <1>n, <1>h, <1>c, <1>u, <2>2, <2>3, <2>4, <3>1, <3>3, RecordedKept DEF Settled
  <2> QED
    BY <2>5, <2>6
<1>2. CASE Send(w)
  <2>1. PICK row \in batch[w] :
          /\ batch' = [batch EXCEPT ![w] = @ \ {row}]
          /\ event' = [event EXCEPT ![w] = row[1]]
          /\ \/ posts' = posts /\ pc' = [pc EXCEPT ![w] = "mark"]
             \/ posts' = [posts EXCEPT ![row[1]] = @ + 1] /\ pc' = [pc EXCEPT ![w] = "record"]
    BY <1>2 DEF Send, historyVars
  <2>2. /\ pc[w] = "deliver" /\ status' = status /\ attempts' = attempts
        /\ faults' = faults /\ log' = log
    BY <1>2 DEF Send, rowVars, boundVars
  <2>3. row[1] \in Event /\ row[1] \in Held(w) /\ event'[w] = row[1]
    BY <1>t, <2>1, HeldIs
  <2>4. Logged(e)' = Logged(e)
    BY <2>2 DEF Logged
  <2>5. Queued(e)' => Queued(e)
    <3> SUFFICES ASSUME NEW v \in Worker, NEW r \in batch'[v], r[1] = e
                 PROVE  r \in batch[v]
      BY DEF Queued
    <3> QED
      BY <1>t, <2>1
  <2>6. CASE e # row[1]
    <3>1. posts'[e] = posts[e]
      BY <1>t, <2>1, <2>6
    <3>2. AtRecord(e)' <=> AtRecord(e)
      BY <1>a, <2>2, <2>3, <2>6 DEF AtRecord
    <3>3. Unnumbered(e)' => Unnumbered(e)
      BY <2>2, <2>5, <3>2 DEF Unnumbered
    <3> QED
      BY <1>t, <1>n, <1>h, <1>c, <1>u, <2>2, <2>4, <3>1, <3>2, <3>3, RecordedKept DEF Settled
  <2>7. CASE e = row[1]
    <3>1. ~AtRecord(e)
      <4> SUFFICES ASSUME AtRecord(e) PROVE FALSE
        OBVIOUS
      <4>1. InFlight(e)
        BY DEF AtRecord, InFlight, Busy
      <4> QED
        BY <1>h, <2>2, <2>3, <2>7, <4>1, FlightOfHolder DEF Busy
    <3>2. Unnumbered(e)
      BY <2>7 DEF Unnumbered, Queued
    <3>3. CASE posts' = posts
      BY <1>t, <1>n, <1>h, <1>c, <1>u, <2>2, <2>4, <3>1, <3>2, <3>3, RecordedKept DEF Settled
    <3>4. CASE posts' = [posts EXCEPT ![row[1]] = @ + 1] /\ pc' = [pc EXCEPT ![w] = "record"]
      <4>1. posts'[e] = posts[e] + 1 /\ AtRecord(e)'
        BY <1>t, <2>3, <2>7, <3>4 DEF AtRecord
      <4>2. Cardinality(Logged(e)) \in Nat /\ posts[e] <= Cardinality(Logged(e)) + faults
        BY <1>h, <1>n, <3>1, LoggedFinite DEF Recorded
      <4>3. posts'[e] <= Cardinality(Logged(e)') + faults' + (IF AtRecord(e)' THEN 1 ELSE 0)
        BY <1>n, <2>2, <2>4, <4>1, <4>2
      <4>4. \A r \in Logged(e)' : r[2] <= attempts'[e] /\ r[2] <= attempts'[e] + 1
        BY <1>h, <1>u, <2>2, <2>4, <3>2 DEF Recorded
      <4> QED
        BY <4>3, <4>4 DEF Recorded
    <3> QED
      BY <2>1, <3>3, <3>4
  <2> QED
    BY <2>6, <2>7
<1>3. CASE RecordWebhookDeliveryAttempt(w)
  <2>1. /\ pc[w] = "record" /\ pc'[w] # "record" /\ batch' = batch /\ event' = event
        /\ status' = status /\ attempts' = attempts /\ posts' = posts
        /\ \/ log' = log \cup {<<event[w], attempt[w]>>} /\ faults' = faults
           \/ log' = log /\ faults' = faults + 1
    BY <1>3, <1>t DEF RecordWebhookDeliveryAttempt, rowVars, historyVars, boundVars, Fault
  <2>2. Queued(e)' <=> Queued(e)
    BY <2>1 DEF Queued
  <2>3. CASE e # event[w]
    <3>1. AtRecord(e)' <=> AtRecord(e)
      BY <1>a, <2>1, <2>3 DEF AtRecord
    <3>2. Logged(e)' = Logged(e)
      BY <2>1, <2>3 DEF Logged
    <3>3. Unnumbered(e)' => Unnumbered(e)
      BY <2>1, <2>2, <3>1 DEF Unnumbered
    <3> QED
      BY <1>t, <1>n, <1>h, <1>c, <1>u, <2>1, <3>1, <3>2, <3>3, RecordedKept DEF Settled
  <2>4. CASE e = event[w]
    <3>1. /\ ~Queued(e) /\ status[e] = "delivering"
          /\ \A v \in Worker : v # w => ~(pc[v] \in Busy /\ event[v] = e)
      BY <1>h, <2>1, <2>4, BusyRowAlone DEF Busy
    <3>2. AtRecord(e) /\ Unnumbered(e)
      BY <2>1, <2>4 DEF AtRecord, Unnumbered
    <3>3. ~AtRecord(e)'
      BY <1>a, <2>1, <3>1 DEF AtRecord, Busy
    <3>4. ~Unnumbered(e)'
      BY <2>1, <2>2, <3>1, <3>3 DEF Unnumbered
    <3>5. attempt[w] = attempts[e] + 1
      BY <1>h, <2>1, <2>4 DEF Numbered, NumbersFit, Busy
    <3>6. CASE log' = log /\ faults' = faults + 1
      <4>1. Logged(e)' = Logged(e)
        BY <3>6 DEF Logged
      <4> QED
        BY <1>t, <1>n, <1>h, <1>c, <1>u, <2>1, <3>4, <3>6, <4>1, RecordedKept DEF Settled
    <3>7. CASE log' = log \cup {<<event[w], attempt[w]>>} /\ faults' = faults
      <4> DEFINE x == <<e, attempt[w]>>
      <4>1. Logged(e)' = Logged(e) \cup {x}
        BY <2>4, <3>7 DEF Logged
      <4>2. \A r \in Logged(e) : r[2] <= attempts[e] /\ r[2] \in Nat
        <5>1. \A r \in Logged(e) : r[2] \in Nat
          BY <1>t DEF Logged, TypeOK
        <5> QED
          BY <1>h, <3>2, <5>1 DEF Recorded
      <4>3. x \notin Logged(e) /\ x[2] = attempts[e] + 1
        BY <1>n, <3>5, <4>2
      <4>4. Cardinality(Logged(e)) \in Nat /\ IsFiniteSet(Logged(e))
        BY <1>h, LoggedFinite
      <4> HIDE DEF x
      <4>5. Cardinality(Logged(e)') = Cardinality(Logged(e)) + 1
        BY <4>1, <4>3, <4>4, FS_AddElement
      <4>6. posts[e] <= Cardinality(Logged(e)) + faults + 1
        BY <1>h, <3>2 DEF Recorded
      <4>7. posts'[e] <= Cardinality(Logged(e)') + faults' + (IF AtRecord(e)' THEN 1 ELSE 0)
        BY <1>n, <2>1, <3>3, <3>7, <4>4, <4>5, <4>6
      <4>8. \A r \in Logged(e)' : r[2] <= attempts'[e] + 1
        BY <1>n, <2>1, <4>1, <4>2, <4>3
      <4> QED
        BY <3>4, <4>7, <4>8 DEF Recorded
    <3> QED
      BY <2>1, <3>6, <3>7
  <2> QED
    BY <2>3, <2>4
<1>4. CASE Mark(w) \/ MarkFails(w)
  <2>1. /\ pc[w] = "mark" /\ pc'[w] # "record" /\ posts' = posts /\ log' = log /\ batch' = batch
        /\ MarkRow(w) \/ UNCHANGED rowVars
    BY <1>4, <1>t DEF Mark, MarkFails, AfterRow, historyVars
  <2>2. AtRecord(e)' <=> AtRecord(e)
    BY <1>a, <2>1 DEF AtRecord
  <2>3. Logged(e)' = Logged(e) /\ (Queued(e)' <=> Queued(e))
    BY <2>1 DEF Logged, Queued
  <2>4. CASE e # event[w]
    <3>1. status'[e] = status[e] /\ attempts'[e] = attempts[e]
      BY <1>t, <2>1, <2>4 DEF MarkRow, MarkWebhookEventDelivered, MarkWebhookEventFailed, rowVars
    <3>2. Unnumbered(e)' => Unnumbered(e)
      BY <2>2, <2>3, <3>1 DEF Unnumbered
    <3> QED
      BY <1>t, <1>n, <1>h, <1>c, <1>u, <2>1, <2>2, <2>3, <3>1, <3>2, RecordedKept DEF Settled
  <2>5. CASE e = event[w]
    <3>1. /\ ~Queued(e) /\ status[e] = "delivering"
          /\ \A v \in Worker : v # w => ~(pc[v] \in Busy /\ event[v] = e)
      BY <1>h, <2>1, <2>5, BusyRowAlone DEF Busy
    <3>2. ~AtRecord(e)
      BY <2>1, <3>1 DEF AtRecord, Busy
    <3>3. attempt[w] = attempts[e] + 1
      BY <1>h, <2>1, <2>5 DEF Numbered, NumbersFit, Busy
    <3>4. \/ Settled(e)'
          \/ status'[e] = "delivering" /\ attempts'[e] = attempts[e]
          \/ status'[e] = "failed" /\ attempts'[e] = attempt[w]
      <4>1. MaxAttempts >= MaxAttempts
        BY DeliveryAssumption
      <4> QED
        BY <1>t, <1>n, <2>1, <2>5, <3>1, <4>1
           DEF MarkRow, MarkWebhookEventDelivered, MarkWebhookEventFailed, Settled, rowVars
    <3>5. ~Settled(e)
      BY <3>1 DEF Settled
    <3>6. Unnumbered(e)' => attempts'[e] = attempts[e] + 1
      BY <2>2, <2>3, <3>1, <3>2, <3>3, <3>4 DEF Unnumbered, Settled
    <3>7. ~Settled(e)' => attempts'[e] >= attempts[e]
      BY <1>n, <3>3, <3>4
    <3> QED
      BY <1>t, <1>n, <1>h, <1>c, <2>1, <2>2, <2>3, <3>5, <3>6, <3>7, RecordedKept
  <2> QED
    BY <2>4, <2>5
<1>5. CASE DisableEndpointAndNotify(w) \/ ResolveFails(w) \/ Crash(w)
  <2>1. /\ posts' = posts /\ log' = log /\ status' = status /\ attempts' = attempts
        /\ batch'[w] \subseteq batch[w] /\ pc'[w] # "record"
        /\ pc[w] # "record" \/ faults' = faults + 1
    BY <1>5, <1>t DEF DisableEndpointAndNotify, ResolveFails, Crash, AfterRow, Fault, rowVars, historyVars
  <2>2. AtRecord(e)' => AtRecord(e)
    BY <1>a, <2>1 DEF AtRecord
  <2>3. AtRecord(e) => AtRecord(e)' \/ faults' >= faults + 1
    BY <1>a, <1>n, <2>1 DEF AtRecord
  <2>4. Queued(e)' => Queued(e)
    BY <1>a, <2>1 DEF Queued
  <2>5. Logged(e)' = Logged(e)
    BY <2>1 DEF Logged
  <2>6. Unnumbered(e)' => Unnumbered(e)
    BY <2>1, <2>2, <2>4 DEF Unnumbered
  <2> QED
    BY <1>t, <1>n, <1>h, <1>c, <1>u, <2>1, <2>3, <2>5, <2>6, RecordedKept DEF Settled
<1> QED
  BY <1>1, <1>2, <1>3, <1>4, <1>5 DEF WorkerStep, WorkerFault

LEMMA LogOfBystander ==
  ASSUME LogInv, TypeOK', [Next]_vars, overruns = 0, commands' = 0, NEW e \in Event, Bystander
  PROVE  Recorded(e)'
<1>t. /\ TypeOK
      /\ status \in [Event -> {"absent", "pending", "delivering", "failed", "delivered", "dead"}]
  BY DEF LogInv, HandsInv, TypeOK
<1>n. attempts[e] \in Nat /\ faults \in Nat /\ commands \in Nat /\ commands = 0
  BY <1>t, DeliveryAssumption, CountersGrow DEF TypeOK
<1>h. HandsInv /\ Recorded(e) /\ IsFiniteSet(log)
  BY <1>n DEF LogInv
<1>u. UNCHANGED <<pc, batch, event, attempt, posts, log, faults, attempts>>
  BY <1>t, BystanderKeeps
<1>1. status'[e] = status[e] \/ (status[e] = "absent" /\ status'[e] = "pending")
  <2>1. ~Command
    BY <1>n DEF Command
  <2> QED
    BY <1>t, <2>1 DEF Bystander, Reload, SetEndpointActive, EnqueueWebhookEvent, TimePasses, Orphaned,
       BecomesDue, Overrun, RetryWebhookEvent, RetryAllFailedDeadWebhookEvents, vars, rowVars
<1>2. /\ AtRecord(e)' <=> AtRecord(e)
      /\ Queued(e)' <=> Queued(e)
      /\ Logged(e)' = Logged(e)
  BY <1>u DEF AtRecord, Queued, Logged
<1>3. Unnumbered(e)' => Unnumbered(e)
  BY <1>1, <1>2 DEF Unnumbered
<1>4. ~Settled(e)' => ~Settled(e)
  BY <1>1 DEF Settled
<1>5. Unnumbered(e) => ~Settled(e)
  BY <1>h, UnnumberedIsOpen
<1> QED
  BY <1>t, <1>n, <1>h, <1>u, <1>2, <1>3, <1>4, <1>5, RecordedKept

LEMMA LogStep ==
  ASSUME LogInv, [Next]_vars
  PROVE  LogInv'
<1>1. TypeOK /\ HandsInv' /\ TypeOK' /\ Numbered'
  BY HandsStep, NumberedStep DEF LogInv, HandsInv
<1>2. overruns' = 0 /\ commands' = 0 => overruns = 0 /\ commands = 0
  BY <1>1, CountersGrow
<1>3. IsFiniteSet(log')
  <2>1. log' = log \/ \E x : log' = log \cup {x}
    <3>1. CASE Bystander
      BY <1>1, <3>1, BystanderKeeps
    <3>2. CASE \E w \in Worker : WorkerStep(w) \/ WorkerFault(w)
      BY <3>2 DEF WorkerStep, WorkerFault, ClaimPendingWebhookEvents, Send,
         RecordWebhookDeliveryAttempt, Mark, DisableEndpointAndNotify, ClaimUnacknowledged,
         ResolveFails, MarkFails, Crash
    <3> QED
      BY <3>1, <3>2, StepIs
  <2>2. IsFiniteSet(log)
    BY DEF LogInv
  <2> QED
    BY <2>1, <2>2, FS_AddElement
<1>4. overruns' = 0 /\ commands' = 0 => \A e \in Event : Recorded(e)'
  BY <1>1, <1>2, StepIs, LogOfWorker, LogOfBystander
<1> QED
  BY <1>1, <1>3, <1>4 DEF LogInv

LEMMA LogInit == Init => LogInv
<1> SUFFICES ASSUME Init PROVE LogInv
  OBVIOUS
<1>1. HandsInv
  BY HandsInit
<1>2. Numbered
  BY DEF Init, Numbered, NumbersFit, Busy
<1>3. IsFiniteSet(log)
  BY FS_EmptySet DEF Init
<1>4. \A e \in Event : Recorded(e)
  <2> SUFFICES ASSUME NEW e \in Event PROVE Recorded(e)
    OBVIOUS
  <2>1. Logged(e) = {} /\ ~AtRecord(e) /\ posts[e] = 0 /\ faults = 0
    BY DEF Init, Logged, AtRecord
  <2>2. Cardinality(Logged(e)) = 0
    BY <2>1, FS_EmptySet
  <2> QED
    BY <2>1, <2>2 DEF Recorded
<1> QED
  BY <1>1, <1>2, <1>3, <1>4 DEF LogInv

(***************************************************************************)
(* Without overruns and manual retries, all posts of a row that no worker  *)
(* is busy with are in webhook_delivery_attempts, but for one per fault:   *)
(* the unique index on (event, attempt_number) never refuses an attempt,   *)
(* because a reclaim raises attempt_count first (worker.go:163-167).       *)
(***************************************************************************)
THEOREM AttemptsAreLogged == Spec => []EveryAttemptLogged
<1>1. LogInv => EveryAttemptLogged
  <2> SUFFICES ASSUME LogInv, overruns = 0, commands = 0, NEW e \in Event,
                      \A w \in Worker : event[w] # e
               PROVE  posts[e] <= Cardinality({r \in log : r[1] = e}) + faults
    BY DEF EveryAttemptLogged
  <2>1. ~AtRecord(e) /\ IsFiniteSet(log)
    BY DEF AtRecord, LogInv
  <2>2. /\ posts[e] <= Cardinality(Logged(e)) + faults + 0
        /\ Cardinality(Logged(e)) \in Nat /\ faults \in Nat
    BY <2>1, LoggedFinite, DeliveryAssumption DEF LogInv, Recorded, HandsInv, TypeOK
  <2> QED
    BY <2>2 DEF Logged
<1>2. LogInv /\ [Next]_vars => LogInv'
  BY LogStep
<1> QED
  BY <1>1, <1>2, LogInit, PTL DEF Spec

=============================================================================
