--------------------------- MODULE BlockRangeJobs ---------------------------
(***************************************************************************)
(* The block-range jobs of queue_jobs (internal/db/db.go, retry_jobs.go)   *)
(* and the goroutines that work them off (internal/scanner/poller.go).     *)
(* Every replica has two: RunReconciler takes one tron-reconcile job at a  *)
(* time, and each poll drains the tron-admin-retry queue.  Both replay a   *)
(* job with replayScan, one goroutine per scope, and mark it afterwards.   *)
(*                                                                         *)
(* A range is replayed in batches of at most 100 blocks; a batch is the    *)
(* unit here.  Rows are numbered in the order of their insertion, and      *)
(* run_after and locked_at are modelled by where they lie relative to      *)
(* now(): "ready" and "locked".                                            *)
(***************************************************************************)
EXTENDS Integers, FiniteSets

CONSTANTS
  Replica,      \* running tronvent processes
  Job,          \* rows that queue_jobs can come to hold
  Range,        \* block ranges
  Scope,        \* "TRX" and the watched contracts
  Client,       \* concurrent requests to the retry API
  None,         \* no job, no range
  Batches,      \* batches of a range
  MaxAttempts,  \* max_attempts
  RetryLimit,   \* the limit poll passes to ClaimBlockRangeJobs
  MaxFaults,    \* bound: crashes, failed updates, claims without an answer
  MaxRequests   \* bound: requests to the retry API

ASSUME JobsAssumption ==
  /\ Job \subseteq Nat
  /\ None \notin Job
  /\ None \notin Range
  /\ Batches \in Nat \ {0}
  /\ MaxAttempts \in Nat \ {0}
  /\ RetryLimit \in Nat \ {0}
  /\ MaxFaults \in Nat
  /\ MaxRequests \in Nat

Queue == {"tron-reconcile", "tron-admin-retry"}

Worker == Replica \X Queue

VARIABLES
  queue,     \* queue of a job
  range,     \* its payload: fromBlock and toBlock
  status,    \* "absent" before the row is inserted
  attempts,
  ready,     \* is run_after <= now()?
  locked,    \* locked_at: "no", "fresh", or "old" after five minutes
  request,   \* the range each API request has looked up and is about to insert
  pc,        \* where each goroutine stands
  todo,      \* claimed jobs it has not come to yet
  job,       \* the job it replays
  pos,       \* batches its replay has done in each scope
  ended,     \* scopes whose goroutine has returned
  err,       \* has firstErr been set?
  replayed,  \* <<job, scope, batch>>: gone through by the job's last attempt
  faults, requests

rowVars == <<queue, range, status, attempts, ready, locked>>
workerVars == <<pc, todo, job, pos, ended, err>>
boundVars == <<faults, requests>>
vars == <<rowVars, request, workerVars, replayed, boundVars>>

Fault ==
  /\ faults < MaxFaults
  /\ faults' = faults + 1
  /\ UNCHANGED requests

-----------------------------------------------------------------------------
\* INSERT INTO queue_jobs, from runStartupReconcile or the retry API.
InsertJob(j, q, r) ==
  /\ status[j] = "absent"
  /\ \A i \in Job : i < j => status[i] # "absent"
  /\ queue' = [queue EXCEPT ![j] = q]
  /\ range' = [range EXCEPT ![j] = r]
  /\ status' = [status EXCEPT ![j] = "pending"]
  /\ UNCHANGED <<attempts, ready, locked>>

EnqueueBlockRangeJob(j, r) ==
  /\ InsertJob(j, "tron-reconcile", r)
  /\ UNCHANGED <<request, workerVars, replayed, boundVars>>

\* EnqueueRetryJob looks for a job with the same range ...
Duplicates(r) ==
  {j \in Job : /\ queue[j] = "tron-admin-retry"
               /\ status[j] \in {"pending", "running"}
               /\ range[j] = r}

LookUpRetryJob(c, r) ==
  /\ request[c] = None
  /\ requests < MaxRequests
  /\ requests' = requests + 1
  /\ request' = IF Duplicates(r) = {} THEN [request EXCEPT ![c] = r] ELSE request
  /\ UNCHANGED <<rowVars, workerVars, replayed, faults>>

\* ... and inserts one, in a statement of its own.
InsertRetryJob(c, j) ==
  /\ request[c] # None
  /\ InsertJob(j, "tron-admin-retry", request[c])
  /\ request' = [request EXCEPT ![c] = None]
  /\ UNCHANGED <<workerVars, replayed, boundVars>>

-----------------------------------------------------------------------------
\* (Mutant: a running job is claimed again when its lock is old.)
ClaimableWhenOld(j) ==
  /\ status[j] \in {"pending", "failed", "running"}
  /\ ready[j] = "yes"
  /\ locked[j] # "fresh"

\* (Mutant: only pending jobs are claimed.)
ClaimableIfPending(j) ==
  /\ status[j] = "pending"
  /\ ready[j] = "yes"
  /\ locked[j] # "fresh"

Claimable(j) ==
  /\ status[j] \in {"pending", "failed"}
  /\ ready[j] = "yes"
  /\ locked[j] # "fresh"

Limit(q) == IF q = "tron-reconcile" THEN 1 ELSE RetryLimit

\* One UPDATE ... RETURNING; SKIP LOCKED may leave out any of the rows.
ClaimRows(q, rows) ==
  /\ rows # {}
  /\ Cardinality(rows) <= Limit(q)
  /\ \A j \in rows : queue[j] = q /\ Claimable(j)
  /\ status' = [j \in Job |-> IF j \in rows THEN "running" ELSE status[j]]
  /\ attempts' = [j \in Job |-> IF j \in rows THEN attempts[j] + 1 ELSE attempts[j]]
  /\ locked' = [j \in Job |-> IF j \in rows THEN "fresh" ELSE locked[j]]
  /\ UNCHANGED <<queue, range, ready>>

\* replayScan of one of the jobs in hand: a goroutine for TRX and one for each
\* contract.
ReplayScan(w, jobs) ==
  /\ \E j \in jobs : job' = [job EXCEPT ![w] = j] /\ todo' = [todo EXCEPT ![w] = jobs \ {j}]
  /\ pos' = [pos EXCEPT ![w] = [s \in Scope |-> 0]]
  /\ ended' = [ended EXCEPT ![w] = {}]
  /\ err' = [err EXCEPT ![w] = "no"]
  /\ pc' = [pc EXCEPT ![w] = "replay"]

ClaimBlockRangeJobs(w) ==
  /\ pc[w] = "idle"
  /\ \E rows \in SUBSET Job : ClaimRows(w[2], rows) /\ ReplayScan(w, rows)
  /\ UNCHANGED <<request, replayed, boundVars>>

\* The claim is committed but the goroutine gets an error.
ClaimUnacknowledged(w) ==
  /\ pc[w] = "idle"
  /\ Fault
  /\ \E rows \in SUBSET Job : ClaimRows(w[2], rows)
  /\ UNCHANGED <<request, workerVars, replayed>>

\* The goroutine of a scope returns, and its position is gone.
ScopeReturns(w, s) ==
  /\ ended' = [ended EXCEPT ![w] = @ \cup {s}]
  /\ pos' = [pos EXCEPT ![w][s] = 0]

\* (Mutant: a goroutine that returns without an error clears firstErr.)
ReplayBatchClearsErr(w, s) ==
  /\ pc[w] = "replay"
  /\ s \notin ended[w]
  /\ replayed' = replayed \cup {<<job[w], s, pos[w][s] + 1>>}
  /\ IF pos[w][s] + 1 = Batches
     THEN ScopeReturns(w, s) /\ err' = [err EXCEPT ![w] = "no"]
     ELSE pos' = [pos EXCEPT ![w][s] = @ + 1] /\ UNCHANGED <<ended, err>>
  /\ UNCHANGED <<rowVars, request, pc, todo, job, boundVars>>

\* replayTrxRange and replayTrc20Range: the next batch of a scope is fetched and
\* its matches go to the outbox; blocks the answer does not hold and failed
\* inserts are logged and passed over.  After the last batch the goroutine
\* returns without an error.
ReplayBatch(w, s) ==
  /\ pc[w] = "replay"
  /\ s \notin ended[w]
  /\ replayed' = replayed \cup {<<job[w], s, pos[w][s] + 1>>}
  /\ IF pos[w][s] + 1 = Batches
     THEN ScopeReturns(w, s)
     ELSE pos' = [pos EXCEPT ![w][s] = @ + 1] /\ UNCHANGED ended
  /\ UNCHANGED <<rowVars, request, pc, todo, job, err, boundVars>>

\* A TronGrid call fails: this scope gives up and sets firstErr.
ReplayRangeFails(w, s) ==
  /\ pc[w] = "replay"
  /\ s \notin ended[w]
  /\ ScopeReturns(w, s)
  /\ err' = [err EXCEPT ![w] = "yes"]
  /\ UNCHANGED <<rowVars, request, pc, todo, job, replayed, boundVars>>

\* (Mutant: a status that nothing else knows.)
CompleteJobAsDone(j) ==
  /\ status' = [status EXCEPT ![j] = "done"]
  /\ locked' = [locked EXCEPT ![j] = "no"]
  /\ UNCHANGED <<queue, range, attempts, ready>>

CompleteJob(j) ==
  /\ status' = [status EXCEPT ![j] = "completed"]
  /\ locked' = [locked EXCEPT ![j] = "no"]
  /\ UNCHANGED <<queue, range, attempts, ready>>

\* (Mutant: one attempt too many.)
FailJobOneMore(j) ==
  /\ status' = [status EXCEPT ![j] = IF attempts[j] > MaxAttempts THEN "dead" ELSE "failed"]
  /\ locked' = [locked EXCEPT ![j] = "no"]
  /\ ready' = [ready EXCEPT ![j] = "no"]
  /\ UNCHANGED <<queue, range, attempts>>

FailJob(j) ==
  /\ status' = [status EXCEPT ![j] = IF attempts[j] >= MaxAttempts THEN "dead" ELSE "failed"]
  /\ locked' = [locked EXCEPT ![j] = "no"]
  /\ ready' = [ready EXCEPT ![j] = "no"]
  /\ UNCHANGED <<queue, range, attempts>>

\* The rest of the claimed jobs, or the next round.
AfterJob(w) ==
  \/ todo[w] # {} /\ ReplayScan(w, todo[w])
  \/ /\ todo[w] = {}
     /\ pc' = [pc EXCEPT ![w] = "idle"]
     /\ job' = [job EXCEPT ![w] = None]
     /\ pos' = [pos EXCEPT ![w] = [s \in Scope |-> 0]]
     /\ ended' = [ended EXCEPT ![w] = {}]
     /\ err' = [err EXCEPT ![w] = "no"]
     /\ UNCHANGED todo

\* All goroutines of the replay have returned (wg.Wait).  What a failed attempt has
\* gone through does not count for the next one.
Mark(w) ==
  /\ pc[w] = "replay"
  /\ ended[w] = Scope
  /\ IF err[w] = "yes"
     THEN FailJob(job[w]) /\ replayed' = {b \in replayed : b[1] # job[w]}
     ELSE CompleteJob(job[w]) /\ UNCHANGED replayed
  /\ AfterJob(w)
  /\ UNCHANGED <<request, boundVars>>

\* The update fails and the error is logged: the job stays running.
MarkFails(w) ==
  /\ pc[w] = "replay"
  /\ ended[w] = Scope
  /\ Fault
  /\ AfterJob(w)
  /\ UNCHANGED <<rowVars, request, replayed>>

\* A process with work in hand dies, or is told to stop: a cancelled context makes
\* the replay and the update of its job fail alike.
Crash(p) ==
  /\ \E q \in Queue : pc[<<p, q>>] = "replay"
  /\ Fault
  /\ pc' = [w \in Worker |-> IF w[1] = p THEN "idle" ELSE pc[w]]
  /\ todo' = [w \in Worker |-> IF w[1] = p THEN {} ELSE todo[w]]
  /\ job' = [w \in Worker |-> IF w[1] = p THEN None ELSE job[w]]
  /\ pos' = [w \in Worker |-> IF w[1] = p THEN [s \in Scope |-> 0] ELSE pos[w]]
  /\ ended' = [w \in Worker |-> IF w[1] = p THEN {} ELSE ended[w]]
  /\ err' = [w \in Worker |-> IF w[1] = p THEN "no" ELSE err[w]]
  /\ UNCHANGED <<rowVars, request, replayed>>

\* Thirty seconds after a failure.  run_after of other rows is not looked at.
BecomesReady(j) ==
  /\ status[j] = "failed"
  /\ ready[j] = "no"
  /\ ready' = [ready EXCEPT ![j] = "yes"]
  /\ UNCHANGED <<queue, range, status, attempts, locked, request, workerVars, replayed, boundVars>>

LockGrowsOld(j) ==
  /\ locked[j] = "fresh"
  /\ locked' = [locked EXCEPT ![j] = "old"]
  /\ UNCHANGED <<queue, range, status, attempts, ready, request, workerVars, replayed, boundVars>>

-----------------------------------------------------------------------------
WorkerStep(w) ==
  \/ ClaimBlockRangeJobs(w)
  \/ \E s \in Scope : ReplayBatch(w, s) \/ ReplayRangeFails(w, s)
  \/ Mark(w)

Init ==
  /\ queue = [j \in Job |-> "tron-reconcile"]
  /\ range = [j \in Job |-> None]
  /\ status = [j \in Job |-> "absent"]
  /\ attempts = [j \in Job |-> 0]
  /\ ready = [j \in Job |-> "yes"]
  /\ locked = [j \in Job |-> "no"]
  /\ request = [c \in Client |-> None]
  /\ pc = [w \in Worker |-> "idle"]
  /\ todo = [w \in Worker |-> {}]
  /\ job = [w \in Worker |-> None]
  /\ pos = [w \in Worker |-> [s \in Scope |-> 0]]
  /\ ended = [w \in Worker |-> {}]
  /\ err = [w \in Worker |-> "no"]
  /\ replayed = {}
  /\ faults = 0
  /\ requests = 0

Next ==
  \/ \E w \in Worker : WorkerStep(w) \/ ClaimUnacknowledged(w) \/ MarkFails(w)
  \/ \E p \in Replica : Crash(p)
  \/ \E j \in Job : BecomesReady(j) \/ LockGrowsOld(j)
  \/ \E j \in Job, r \in Range : EnqueueBlockRangeJob(j, r)
  \/ \E c \in Client, r \in Range : LookUpRetryJob(c, r)
  \/ \E c \in Client, j \in Job : InsertRetryJob(c, j)

Spec == Init /\ [][Next]_vars

\* Goroutines are scheduled and time passes; requests and faults are free.
Fairness ==
  /\ \A w \in Worker : WF_vars(WorkerStep(w))
  /\ \A j \in Job : WF_vars(BecomesReady(j))

FairSpec == Spec /\ Fairness

-----------------------------------------------------------------------------
TypeOK ==
  /\ queue \in [Job -> Queue]
  /\ range \in [Job -> Range \cup {None}]
  /\ status \in [Job -> {"absent", "pending", "running", "failed", "completed", "dead"}]
  /\ attempts \in [Job -> Nat]
  /\ ready \in [Job -> {"yes", "no"}]
  /\ locked \in [Job -> {"no", "fresh", "old"}]
  /\ request \in [Client -> Range \cup {None}]
  /\ pc \in [Worker -> {"idle", "replay"}]
  /\ todo \in [Worker -> SUBSET Job]
  /\ job \in [Worker -> Job \cup {None}]
  /\ pos \in [Worker -> [Scope -> Nat]]
  /\ ended \in [Worker -> SUBSET Scope]
  /\ err \in [Worker -> {"yes", "no"}]
  /\ replayed \subseteq Job \X Scope \X Nat
  /\ faults \in 0..MaxFaults
  /\ requests \in 0..MaxRequests

\* The jobs a goroutine has claimed and not marked.
Held(w) == todo[w] \cup (IF pc[w] = "replay" THEN {job[w]} ELSE {})

(***************************************************************************)
(* A job is in at most one goroutine's hands, however long its replay      *)
(* takes and whatever crashes leave behind (db.go:70-77): CompleteJob and  *)
(* FailJob update by id alone and rely on it.                              *)
(***************************************************************************)
OneWorkerPerJob ==
  \A v, w \in Worker : \A j \in Job : j \in Held(v) /\ j \in Held(w) => v = w

(***************************************************************************)
(* A job is 'completed' only when, in the attempt that completed it, every *)
(* scope has gone through its whole range, although firstErr is set by     *)
(* concurrent goroutines and read after wg.Wait (poller.go:700-736), one   *)
(* scope may give up while others go on, and a failed attempt may be       *)
(* followed by others on other replicas.                                   *)
(***************************************************************************)
CompletedWasReplayed ==
  \A j \in Job : status[j] = "completed" =>
    \A s \in Scope, n \in 1..Batches : <<j, s, n>> \in replayed

(***************************************************************************)
(* max_attempts bounds the claims of a job (db.go:138): a failed job has   *)
(* attempts left, a dead one has used all of them.                         *)
(***************************************************************************)
AttemptsBounded ==
  \A j \in Job :
    /\ attempts[j] <= MaxAttempts
    /\ status[j] = "failed" => attempts[j] < MaxAttempts
    /\ status[j] = "dead" => attempts[j] = MaxAttempts

(***************************************************************************)
(* A job that has ended stays ended: no goroutine marks or claims it later *)
(* (CompleteJob and FailJob do not look at the status they overwrite).     *)
(***************************************************************************)
EndedStays ==
  [][\A j \in Job : status[j] \in {"completed", "dead"} => status'[j] = status[j]]_vars

(***************************************************************************)
(* What these rest on: a held job is running, so no claim can reach it; a  *)
(* job that can be claimed has attempts left; and what a replay has gone   *)
(* through in a scope has been dealt with, all of it when the scope ended  *)
(* without an error.                                                       *)
(***************************************************************************)
HeldIsRunning == \A w \in Worker : \A j \in Held(w) : status[j] = "running"

HeldOnce == \A w \in Worker : pc[w] = "replay" => job[w] \in Job /\ job[w] \notin todo[w]

AttemptsLeft ==
  \A j \in Job : status[j] \in {"absent", "pending", "failed"} => attempts[j] < MaxAttempts

ReplayProgress ==
  \A w \in Worker : pc[w] = "replay" =>
    \A s \in Scope :
      /\ \A n \in 1..pos[w][s] : <<job[w], s, n>> \in replayed
      /\ s \in ended[w] /\ err[w] = "no" =>
           \A n \in 1..Batches : <<job[w], s, n>> \in replayed

JobsInv ==
  /\ TypeOK
  /\ OneWorkerPerJob
  /\ HeldIsRunning
  /\ HeldOnce
  /\ AttemptsLeft
  /\ AttemptsBounded
  /\ ReplayProgress
  /\ CompletedWasReplayed

Abandoned(j) == status[j] = "running" /\ \A w \in Worker : j \notin Held(w)

(***************************************************************************)
(* Every job that is inserted ends, unless a crash or a failed update      *)
(* leaves it in 'running' with nobody at work on it.                       *)
(***************************************************************************)
EndsUnlessAbandoned ==
  \A j \in Job : status[j] = "pending" ~> (status[j] \in {"completed", "dead"} \/ Abandoned(j))

(***************************************************************************)
(* README.md:100 says that crashes do not lose matches: a job that was     *)
(* inserted is eventually completed or dead, also after a crash.           *)
(***************************************************************************)
JobsEnd == \A j \in Job : status[j] = "pending" ~> status[j] \in {"completed", "dead"}

=============================================================================
