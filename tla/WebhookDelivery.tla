--------------------------- MODULE WebhookDelivery ---------------------------
(***************************************************************************)
(* The outbox (webhook_events, internal/db/scanner.go) and the delivery    *)
(* workers that drain it (internal/webhook/worker.go), for one subscriber  *)
(* endpoint.  Every replica runs one worker: it claims a batch of rows,    *)
(* POSTs them one after the other, logs each attempt and marks the row.    *)
(* The row is locked only while it is claimed; from then on nothing but    *)
(* status = 'delivering' keeps the others away, and only for five minutes. *)
(*                                                                         *)
(* next_attempt_at and updated_at are modelled by where they lie relative  *)
(* to now(): "due" and "stale".                                            *)
(***************************************************************************)
EXTENDS Integers, FiniteSets

CONSTANTS
  Event,        \* outbox rows of the endpoint
  Worker,       \* delivery workers, one per replica
  None,         \* no row
  MaxAttempts,  \* WEBHOOK_MAX_ATTEMPTS
  BatchLimit,   \* the limit of ClaimPendingWebhookEvents
  MaxFaults,    \* bound: crashes and failed database calls
  MaxOverruns,  \* bound: rows that outlive five minutes in a live worker's hands
  MaxCommands   \* bound: requests of an operator

ASSUME DeliveryAssumption ==
  /\ None \notin Event
  /\ MaxAttempts \in Nat \ {0}
  /\ BatchLimit \in Nat \ {0}
  /\ MaxFaults \in Nat
  /\ MaxOverruns \in Nat
  /\ MaxCommands \in Nat

VARIABLES
  status,     \* webhook_events.status; "absent" before the row is inserted
  attempts,   \* attempt_count
  due,        \* is next_attempt_at <= now()?
  stale,      \* is updated_at < now() - 5 minutes?
  log,        \* webhook_delivery_attempts: <<event, attempt_number>>
  active,     \* webhook_endpoints.is_active
  pc,         \* where each worker stands
  batch,      \* claimed rows it has not come to yet: <<event, AttemptCount>>
  event,      \* the row it is delivering
  attempt,    \* attemptNumber
  outcome,    \* what came of the attempt
  cached,     \* is_active in the process's WebhookConfigStore
  accepted,   \* rows the subscriber answered with 2xx
  posts,      \* attempts made for a row
  faults, overruns, commands

rowVars == <<status, attempts, due, stale>>
workerVars == <<pc, batch, event, attempt, outcome>>
historyVars == <<accepted, posts>>
boundVars == <<faults, overruns, commands>>
vars == <<rowVars, log, active, workerVars, cached, historyVars, boundVars>>

Fault ==
  /\ faults < MaxFaults
  /\ faults' = faults + 1
  /\ UNCHANGED <<overruns, commands>>

Command ==
  /\ commands < MaxCommands
  /\ commands' = commands + 1
  /\ UNCHANGED <<faults, overruns>>

-----------------------------------------------------------------------------
(***************************************************************************)
(* What an answer means (webhookspec/retry.go).  "error" stands for every  *)
(* transport error, a failed DNS lookup and a body that cannot be read.    *)
(***************************************************************************)
Response == {"2xx", "3xx", "410", "429", "4xx", "5xx", "error"}

\* (Mutant: a redirect counts as a delivery.)
ClassifyRedirectAsSuccess(response) ==
  CASE response \in {"2xx", "3xx"}          -> "success"
    [] response = "410"                     -> "gone"
    [] response \in {"429", "5xx", "error"} -> "retry"
    [] OTHER                                -> "fail"

ClassifyDelivery(response) ==
  CASE response = "2xx"                     -> "success"
    [] response = "410"                     -> "gone"
    [] response \in {"429", "5xx", "error"} -> "retry"
    [] response \in {"3xx", "4xx"}          -> "fail"

-----------------------------------------------------------------------------
\* (Mutant: the row is inserted with a status no claim looks for.)
EnqueueAsQueued(e) ==
  /\ status[e] = "absent"
  /\ active = "yes"
  /\ status' = [status EXCEPT ![e] = "queued"]
  /\ UNCHANGED <<attempts, due, stale, log, active, workerVars, cached, historyVars, boundVars>>

\* EnqueueWebhookEvent: an endpoint that is not active gets no row, and a row
\* with the same dedupe_key is left as it is.
EnqueueWebhookEvent(e) ==
  /\ status[e] = "absent"
  /\ active = "yes"
  /\ status' = [status EXCEPT ![e] = "pending"]
  /\ UNCHANGED <<attempts, due, stale, log, active, workerVars, cached, historyVars, boundVars>>

\* (Mutant: rows in delivery are claimed whatever their age.)
ReclaimableAtOnce(e) == status[e] = "delivering"

\* (Mutant: rows in delivery are never claimed again.)
NeverReclaimable(e) == FALSE

\* A row whose worker seems to be dead.
Reclaimable(e) == status[e] = "delivering" /\ stale[e] = "yes"

Claimable(e) == Reclaimable(e) \/ (status[e] \in {"pending", "failed"} /\ due[e] = "yes")

\* One UPDATE ... RETURNING.  Rows that another claim has locked are skipped, so
\* any of the claimable rows may be taken.
ClaimRows(rows) ==
  /\ rows # {}
  /\ Cardinality(rows) <= BatchLimit
  /\ \A e \in rows : Claimable(e)
  /\ status' = [e \in Event |-> IF e \in rows THEN "delivering" ELSE status[e]]
  /\ attempts' = [e \in Event |-> IF e \in rows /\ Reclaimable(e)
                                  THEN attempts[e] + 1 ELSE attempts[e]]
  /\ stale' = [e \in Event |-> IF e \in rows THEN "no" ELSE stale[e]]
  /\ UNCHANGED due

ClaimPendingWebhookEvents(w) ==
  /\ pc[w] = "idle"
  /\ \E rows \in SUBSET Event :
       /\ ClaimRows(rows)
       /\ batch' = [batch EXCEPT ![w] = {<<e, attempts'[e]>> : e \in rows}]
  /\ pc' = [pc EXCEPT ![w] = "deliver"]
  /\ UNCHANGED <<log, active, event, attempt, outcome, cached, historyVars, boundVars>>

\* The claim is committed but the worker gets an error and forgets the rows.
ClaimUnacknowledged(w) ==
  /\ pc[w] = "idle"
  /\ Fault
  /\ \E rows \in SUBSET Event : ClaimRows(rows)
  /\ UNCHANGED <<log, active, workerVars, cached, historyVars>>

\* The rest of the batch, or the next tick.
AfterRow(w) ==
  /\ pc' = [pc EXCEPT ![w] = IF batch[w] = {} THEN "idle" ELSE "deliver"]
  /\ event' = [event EXCEPT ![w] = None]
  /\ attempt' = [attempt EXCEPT ![w] = 0]
  /\ outcome' = [outcome EXCEPT ![w] = "none"]

\* deliverOne up to the answer: without an active endpoint, or with a URL, a
\* payload or a key that cannot be used, nothing is sent and nothing is logged.
Send(w) ==
  /\ pc[w] = "deliver"
  /\ \E row \in batch[w] :
       /\ batch' = [batch EXCEPT ![w] = @ \ {row}]
       /\ event' = [event EXCEPT ![w] = row[1]]
       /\ attempt' = [attempt EXCEPT ![w] = row[2] + 1]
       /\ \/ /\ outcome' = [outcome EXCEPT ![w] = "fail"]
             /\ pc' = [pc EXCEPT ![w] = "mark"]
             /\ UNCHANGED historyVars
          \/ /\ cached[w] = "yes"
             /\ \E response \in Response :
                  /\ outcome' = [outcome EXCEPT ![w] = ClassifyDelivery(response)]
                  /\ accepted' = IF response = "2xx" THEN accepted \cup {row[1]} ELSE accepted
             /\ posts' = [posts EXCEPT ![row[1]] = @ + 1]
             /\ pc' = [pc EXCEPT ![w] = "record"]
  /\ UNCHANGED <<rowVars, log, active, cached, boundVars>>

\* resolveEndpoint fails: the row is dropped and stays in delivery.
ResolveFails(w) ==
  /\ pc[w] = "deliver"
  /\ Fault
  /\ \E row \in batch[w] :
       /\ batch' = [batch EXCEPT ![w] = @ \ {row}]
       /\ pc' = [pc EXCEPT ![w] = IF batch[w] = {row} THEN "idle" ELSE "deliver"]
  /\ UNCHANGED <<rowVars, log, active, event, attempt, outcome, cached, historyVars>>

\* RecordWebhookDeliveryAttempt: a second row for the same attempt violates the
\* unique index.  That error, like any other, is only logged.
RecordWebhookDeliveryAttempt(w) ==
  /\ pc[w] = "record"
  /\ \/ /\ log' = log \cup {<<event[w], attempt[w]>>}
        /\ UNCHANGED boundVars
     \/ /\ Fault
        /\ UNCHANGED log
  /\ pc' = [pc EXCEPT ![w] = IF outcome[w] = "gone" THEN "disable" ELSE "mark"]
  /\ UNCHANGED <<rowVars, active, batch, event, attempt, outcome, cached, historyVars>>

MarkWebhookEventDelivered(e) ==
  /\ status' = [status EXCEPT ![e] = "delivered"]
  /\ stale' = [stale EXCEPT ![e] = "no"]
  /\ UNCHANGED <<attempts, due>>

\* (Mutant: the last attempt is scheduled once more.)
MarkFailedOneMore(e, n) ==
  /\ status' = [status EXCEPT ![e] = IF n > MaxAttempts THEN "dead" ELSE "failed"]
  /\ attempts' = [attempts EXCEPT ![e] = n]
  /\ stale' = [stale EXCEPT ![e] = "no"]
  /\ \E d \in {"yes", "no"} : due' = [due EXCEPT ![e] = d]

\* (Mutant: attempt_count is not written.)
MarkFailedUncounted(e, n) ==
  /\ status' = [status EXCEPT ![e] = IF n >= MaxAttempts THEN "dead" ELSE "failed"]
  /\ stale' = [stale EXCEPT ![e] = "no"]
  /\ UNCHANGED attempts
  /\ \E d \in {"yes", "no"} : due' = [due EXCEPT ![e] = d]

\* The schedule counts from created_at, so the next attempt may be due already.
MarkWebhookEventFailed(e, n) ==
  /\ status' = [status EXCEPT ![e] = IF n >= MaxAttempts THEN "dead" ELSE "failed"]
  /\ attempts' = [attempts EXCEPT ![e] = n]
  /\ stale' = [stale EXCEPT ![e] = "no"]
  /\ IF n >= MaxAttempts
     THEN UNCHANGED due
     ELSE \E d \in {"yes", "no"} : due' = [due EXCEPT ![e] = d]

\* Delivered; or dead at once (markEventDead passes maxAttempts as the attempt);
\* or failed, and dead when that was the last attempt.  No update looks at the
\* status it overwrites.
MarkRow(w) ==
  \/ outcome[w] = "success" /\ MarkWebhookEventDelivered(event[w])
  \/ outcome[w] \in {"fail", "gone"} /\ MarkWebhookEventFailed(event[w], MaxAttempts)
  \/ outcome[w] = "retry" /\ MarkWebhookEventFailed(event[w], attempt[w])

Exhausted(w) == outcome[w] = "retry" /\ attempt[w] >= MaxAttempts

Mark(w) ==
  /\ pc[w] = "mark"
  /\ MarkRow(w)
  /\ IF Exhausted(w)
     THEN pc' = [pc EXCEPT ![w] = "exhausted"] /\ UNCHANGED <<event, attempt, outcome>>
     ELSE AfterRow(w)
  /\ UNCHANGED <<log, active, batch, cached, historyVars, boundVars>>

\* The update fails, or is committed and not acknowledged: deliverOne returns.
MarkFails(w) ==
  /\ pc[w] = "mark"
  /\ Fault
  /\ MarkRow(w) \/ UNCHANGED rowVars
  /\ AfterRow(w)
  /\ UNCHANGED <<log, active, batch, cached, historyVars>>

\* disableEndpointAndNotify, before the row is marked (410) or after it (the last
\* attempt failed).  If the update fails the cached copy is left alone.
DisableEndpointAndNotify(w) ==
  /\ pc[w] \in {"disable", "exhausted"}
  /\ \/ /\ active' = "no"
        /\ cached' = [cached EXCEPT ![w] = "no"]
        /\ UNCHANGED boundVars
     \/ /\ Fault
        /\ UNCHANGED <<active, cached>>
  /\ IF pc[w] = "disable"
     THEN pc' = [pc EXCEPT ![w] = "mark"] /\ UNCHANGED <<event, attempt, outcome>>
     ELSE AfterRow(w)
  /\ UNCHANGED <<rowVars, log, batch, historyVars>>

-----------------------------------------------------------------------------
\* The process dies and is started again; its store is loaded from Postgres.
Crash(w) ==
  /\ Fault
  /\ pc' = [pc EXCEPT ![w] = "idle"]
  /\ batch' = [batch EXCEPT ![w] = {}]
  /\ event' = [event EXCEPT ![w] = None]
  /\ attempt' = [attempt EXCEPT ![w] = 0]
  /\ outcome' = [outcome EXCEPT ![w] = "none"]
  /\ cached' = [cached EXCEPT ![w] = active]
  /\ UNCHANGED <<rowVars, log, active, historyVars>>

\* The NOTIFY of an endpoint change reaches the process, or it resyncs.
Reload(w) ==
  /\ cached[w] # active
  /\ cached' = [cached EXCEPT ![w] = active]
  /\ UNCHANGED <<rowVars, log, active, workerVars, historyVars, boundVars>>

\* The rows a worker still has to mark.
Held(w) == {row[1] : row \in batch[w]} \cup
           (IF pc[w] \in {"record", "disable", "mark"} THEN {event[w]} ELSE {})

\* Five minutes pass for a row in delivery that nobody holds.
Orphaned(e) ==
  /\ status[e] = "delivering"
  /\ stale[e] = "no"
  /\ \A w \in Worker : e \notin Held(w)
  /\ stale' = [stale EXCEPT ![e] = "yes"]
  /\ UNCHANGED <<status, attempts, due, log, active, workerVars, cached, historyVars, boundVars>>

\* Five minutes pass although a worker is busy with the row, or with the nine
\* before it: 10 rows at WEBHOOK_HTTP_TIMEOUT_SECONDS = 30 take that long.
Overrun(e) ==
  /\ status[e] = "delivering"
  /\ stale[e] = "no"
  /\ \E w \in Worker : e \in Held(w)
  /\ overruns < MaxOverruns
  /\ overruns' = overruns + 1
  /\ stale' = [stale EXCEPT ![e] = "yes"]
  /\ UNCHANGED <<status, attempts, due, log, active, workerVars, cached, historyVars, faults, commands>>

BecomesDue(e) ==
  /\ status[e] \in {"pending", "failed"}
  /\ due[e] = "no"
  /\ due' = [due EXCEPT ![e] = "yes"]
  /\ UNCHANGED <<status, attempts, stale, log, active, workerVars, cached, historyVars, boundVars>>

\* (Mutant: the retry request does not look at the status.)
RetryAnyEvent(e) ==
  /\ status[e] # "absent"
  /\ Command
  /\ status' = [status EXCEPT ![e] = "pending"]
  /\ due' = [due EXCEPT ![e] = "yes"]
  /\ stale' = [stale EXCEPT ![e] = "no"]
  /\ UNCHANGED <<attempts, log, active, workerVars, cached, historyVars>>

\* POST /api/v1/webhooks/{eventID}/retry
RetryWebhookEvent(e) ==
  /\ status[e] \in {"failed", "dead"}
  /\ Command
  /\ status' = [status EXCEPT ![e] = "pending"]
  /\ due' = [due EXCEPT ![e] = "yes"]
  /\ stale' = [stale EXCEPT ![e] = "no"]
  /\ UNCHANGED <<attempts, log, active, workerVars, cached, historyVars>>

\* POST /api/v1/webhooks/retry-all
RetryAllFailedDeadWebhookEvents ==
  LET rows == {e \in Event : status[e] \in {"failed", "dead"}}
  IN  /\ rows # {}
      /\ Command
      /\ status' = [e \in Event |-> IF e \in rows THEN "pending" ELSE status[e]]
      /\ due' = [e \in Event |-> IF e \in rows THEN "yes" ELSE due[e]]
      /\ stale' = [e \in Event |-> IF e \in rows THEN "no" ELSE stale[e]]
      /\ UNCHANGED <<attempts, log, active, workerVars, cached, historyVars>>

\* PATCH /api/v1/webhook/endpoints/{id} with isActive, answered by w's process.
SetEndpointActive(w, value) ==
  /\ active # value
  /\ Command
  /\ active' = value
  /\ cached' = [cached EXCEPT ![w] = value]
  /\ UNCHANGED <<rowVars, log, workerVars, historyVars>>

-----------------------------------------------------------------------------
WorkerStep(w) ==
  \/ ClaimPendingWebhookEvents(w)
  \/ Send(w)
  \/ RecordWebhookDeliveryAttempt(w)
  \/ Mark(w)
  \/ DisableEndpointAndNotify(w)

WorkerFault(w) ==
  \/ ClaimUnacknowledged(w)
  \/ ResolveFails(w)
  \/ MarkFails(w)
  \/ Crash(w)

TimePasses(e) == Orphaned(e) \/ BecomesDue(e)

Init ==
  /\ status = [e \in Event |-> "absent"]
  /\ attempts = [e \in Event |-> 0]
  /\ due = [e \in Event |-> "yes"]
  /\ stale = [e \in Event |-> "no"]
  /\ log = {}
  /\ active = "yes"
  /\ pc = [w \in Worker |-> "idle"]
  /\ batch = [w \in Worker |-> {}]
  /\ event = [w \in Worker |-> None]
  /\ attempt = [w \in Worker |-> 0]
  /\ outcome = [w \in Worker |-> "none"]
  /\ cached = [w \in Worker |-> "yes"]
  /\ accepted = {}
  /\ posts = [e \in Event |-> 0]
  /\ faults = 0
  /\ overruns = 0
  /\ commands = 0

Next ==
  \/ \E w \in Worker : WorkerStep(w) \/ WorkerFault(w) \/ Reload(w)
  \/ \E w \in Worker, value \in {"yes", "no"} : SetEndpointActive(w, value)
  \/ \E e \in Event : EnqueueWebhookEvent(e) \/ TimePasses(e) \/ Overrun(e) \/ RetryWebhookEvent(e)
  \/ RetryAllFailedDeadWebhookEvents

Spec == Init /\ [][Next]_vars

\* Workers tick, time passes; nothing is assumed of operators and faults.
Fairness ==
  /\ \A w \in Worker : WF_vars(WorkerStep(w))
  /\ \A e \in Event : WF_vars(TimePasses(e))

FairSpec == Spec /\ Fairness

-----------------------------------------------------------------------------
TypeOK ==
  /\ status \in [Event -> {"absent", "pending", "delivering", "failed", "delivered", "dead"}]
  /\ attempts \in [Event -> Nat]
  /\ due \in [Event -> {"yes", "no"}]
  /\ stale \in [Event -> {"yes", "no"}]
  /\ log \in SUBSET (Event \X Nat)
  /\ active \in {"yes", "no"}
  /\ pc \in [Worker -> {"idle", "deliver", "record", "disable", "mark", "exhausted"}]
  /\ batch \in [Worker -> SUBSET (Event \X Nat)]
  /\ event \in [Worker -> Event \cup {None}]
  /\ attempt \in [Worker -> Nat]
  /\ outcome \in [Worker -> {"none", "success", "gone", "retry", "fail"}]
  /\ cached \in [Worker -> {"yes", "no"}]
  /\ accepted \in SUBSET Event
  /\ posts \in [Event -> Nat]
  /\ faults \in 0..MaxFaults
  /\ overruns \in 0..MaxOverruns
  /\ commands \in 0..MaxCommands

(***************************************************************************)
(* A row is in at most one worker's hands as long as no worker has kept a  *)
(* row for more than five minutes, whatever crashes and failed updates     *)
(* leave behind (scanner.go:856-905: nothing but the status and the age of *)
(* the row guards it once the claim has committed).                        *)
(***************************************************************************)
Exclusive ==
  overruns = 0 =>
    \A v, w \in Worker : \A e \in Event : e \in Held(v) /\ e \in Held(w) => v = w

(***************************************************************************)
(* What Exclusive and the other safety properties rest on: a worker that   *)
(* is past Send has a row; while nobody has overrun, the rows in a         *)
(* worker's hands are in delivery and fresh, so no claim can reach them; a *)
(* worker has each row once; and an outcome "success" is a 2xx that came.  *)
(***************************************************************************)
BusyHasRow ==
  \A w \in Worker : pc[w] \in {"record", "disable", "mark", "exhausted"} => event[w] \in Event

HeldOutOfReach ==
  overruns = 0 =>
    \A w \in Worker : \A e \in Held(w) : status[e] = "delivering" /\ stale[e] = "no"

HeldOnce ==
  \A w \in Worker :
    /\ \A r, s \in batch[w] : r[1] = s[1] => r = s
    /\ pc[w] \in {"record", "disable", "mark"} => \A r \in batch[w] : r[1] # event[w]

SuccessIsAnswered == \A w \in Worker : outcome[w] = "success" => event[w] \in accepted

(***************************************************************************)
(* A row is 'delivered' only if the subscriber answered 2xx to it, however *)
(* late the worker that saw the answer comes to mark it (worker.go:169-171 *)
(* and ClassifyDelivery).                                                  *)
(***************************************************************************)
DeliveredWasAccepted == \A e \in Event : status[e] = "delivered" => e \in accepted

(***************************************************************************)
(* A row waiting for another attempt has attempts left, and a dead one has *)
(* none (scanner.go:922-945), with stale workers writing over each other   *)
(* and reclaims counting an attempt each.                                  *)
(***************************************************************************)
StatusFitsAttempts ==
  \A e \in Event : /\ status[e] = "failed" => attempts[e] < MaxAttempts
                   /\ status[e] = "dead" => attempts[e] >= MaxAttempts

(***************************************************************************)
(* Delivered is final while no worker has overrun: neither a retry request *)
(* nor a reclaim nor another worker's mark takes it back.                  *)
(***************************************************************************)
DeliveredIsFinal ==
  [][\A e \in Event : overruns = 0 /\ status[e] = "delivered" => status'[e] = "delivered"]_vars

(***************************************************************************)
(* Every row in the outbox is eventually delivered or dead: a row orphaned *)
(* in 'delivering' by a crash or a failed update is reclaimed.             *)
(***************************************************************************)
EventuallySettled ==
  \A e \in Event : status[e] # "absent" ~> status[e] \in {"delivered", "dead"}

(***************************************************************************)
(* The subscriber sees at most WEBHOOK_MAX_ATTEMPTS posts of a row, and    *)
(* one more for each crash or failed update (the reclaim at                *)
(* scanner.go:875 does not look at attempt_count) and for each manual      *)
(* retry, while no worker has overrun.                                     *)
(***************************************************************************)
AttemptsWithinBudget ==
  overruns = 0 => \A e \in Event : posts[e] <= MaxAttempts + faults + commands

(***************************************************************************)
(* Attempt numbers do not repeat, so the unique index on the log loses no  *)
(* attempt: without overruns and manual retries every post that no worker  *)
(* is busy with is logged, up to one for each fault (worker.go:163-167).   *)
(***************************************************************************)
EveryAttemptLogged ==
  overruns = 0 /\ commands = 0 =>
    \A e \in Event : (\A w \in Worker : event[w] # e) =>
      posts[e] <= Cardinality({r \in log : r[1] = e}) + faults

(***************************************************************************)
(* README.md:501 says that a dead event is not delivered further until the *)
(* retry API is called: it does not become 'failed', which is claimable.   *)
(***************************************************************************)
DeadUntilRetried ==
  [][\A e \in Event : status[e] = "dead" => status'[e] # "failed"]_vars

=============================================================================
