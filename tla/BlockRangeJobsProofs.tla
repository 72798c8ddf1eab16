------------------------ MODULE BlockRangeJobsProofs ------------------------
(***************************************************************************)
(* The safety of the job queue for any number of replicas, jobs, ranges,   *)
(* scopes, requests and faults.  JobsInv is inductive; the proof goes      *)
(* conjunct group by conjunct group, action by action.                     *)
(***************************************************************************)
EXTENDS BlockRangeJobs, TLAPS

(***************************************************************************)
(* A bounded counter stays within its bound.                               *)
(***************************************************************************)
LEMMA FaultsType ==
  ASSUME faults \in 0..MaxFaults, faults < MaxFaults, faults' = faults + 1
  PROVE  faults' \in 0..MaxFaults
BY JobsAssumption

(***************************************************************************)
(* The locals of a goroutine keep their types when it turns to its next    *)
(* job or goes idle.                                                       *)
(***************************************************************************)
LocalsOK ==
  /\ pc \in [Worker -> {"idle", "replay"}]
  /\ todo \in [Worker -> SUBSET Job]
  /\ job \in [Worker -> Job \cup {None}]
  /\ pos \in [Worker -> [Scope -> Nat]]
  /\ ended \in [Worker -> SUBSET Scope]
  /\ err \in [Worker -> {"yes", "no"}]

LEMMA AfterJobType ==
  ASSUME TypeOK, NEW w \in Worker, AfterJob(w)
  PROVE  LocalsOK'
<1>1. ASSUME ReplayScan(w, todo[w]) PROVE LocalsOK'
  BY <1>1 DEF ReplayScan, TypeOK, LocalsOK
<1>2. ASSUME ~ReplayScan(w, todo[w]) PROVE LocalsOK'
  <2>1. /\ pc' = [pc EXCEPT ![w] = "idle"]
        /\ job' = [job EXCEPT ![w] = None]
        /\ ended' = [ended EXCEPT ![w] = {}]
        /\ err' = [err EXCEPT ![w] = "no"]
        /\ todo' = todo
    BY <1>2 DEF AfterJob
  <2>2. pos' = [pos EXCEPT ![w] = [s \in Scope |-> 0]]
    BY <1>2 DEF AfterJob
  <2>3. pos' \in [Worker -> [Scope -> Nat]]
    BY <2>2 DEF TypeOK
  <2> QED
    BY <2>1, <2>3 DEF TypeOK, LocalsOK
<1> QED
  BY <1>1, <1>2 DEF AfterJob

(***************************************************************************)
(* Types are preserved by every step.                                      *)
(***************************************************************************)
LEMMA TypeStep ==
  ASSUME TypeOK, HeldOnce, [Next]_vars
  PROVE  TypeOK'
<1> USE JobsAssumption
<1>1. ASSUME NEW w \in Worker, ClaimBlockRangeJobs(w) PROVE TypeOK'
  <2>1. PICK rows \in SUBSET Job : ClaimRows(w[2], rows) /\ ReplayScan(w, rows)
    BY <1>1 DEF ClaimBlockRangeJobs
  <2>2. UNCHANGED <<request, replayed, boundVars>>
    BY <1>1 DEF ClaimBlockRangeJobs
  <2> QED
    BY <2>1, <2>2 DEF ClaimRows, ReplayScan, TypeOK, boundVars
<1>3. ASSUME NEW w \in Worker, NEW s \in Scope, ReplayBatch(w, s) PROVE TypeOK'
  <2>1. job[w] \in Job /\ pos[w][s] + 1 \in Nat
    BY <1>3 DEF ReplayBatch, HeldOnce, TypeOK
  <2>2. replayed' \subseteq Job \X Scope \X Nat
    BY <1>3, <2>1 DEF ReplayBatch, TypeOK
  <2>3. pos' \in [Worker -> [Scope -> Nat]] /\ ended' \in [Worker -> SUBSET Scope]
    <3>1. ended' = ended \/ ended' = [ended EXCEPT ![w] = @ \cup {s}]
      BY <1>3 DEF ReplayBatch, ScopeReturns
    <3>2. pos' = [pos EXCEPT ![w][s] = 0] \/ pos' = [pos EXCEPT ![w][s] = pos[w][s] + 1]
      BY <1>3 DEF ReplayBatch, ScopeReturns
    <3>3. pos' \in [Worker -> [Scope -> Nat]]
      BY <2>1, <3>2 DEF TypeOK
    <3>4. ended \in [Worker -> SUBSET Scope]
      BY DEF TypeOK
    <3>5. [ended EXCEPT ![w] = @ \cup {s}] \in [Worker -> SUBSET Scope]
      BY <3>4
    <3> QED
      BY <3>1, <3>3, <3>4, <3>5
  <2> QED
    BY <1>3, <2>2, <2>3 DEF ReplayBatch, TypeOK, rowVars, boundVars
<1>5. ASSUME NEW w \in Worker, NEW s \in Scope, ReplayRangeFails(w, s) PROVE TypeOK'
  BY <1>5 DEF ReplayRangeFails, ScopeReturns, TypeOK, rowVars, boundVars
<1>6. ASSUME NEW w \in Worker, Mark(w) PROVE TypeOK'
  <2>1. /\ queue' = queue /\ range' = range /\ attempts' = attempts
        /\ status' \in [Job -> {"absent", "pending", "running", "failed", "completed", "dead"}]
        /\ locked' \in [Job -> {"no", "fresh", "old"}]
        /\ ready' \in [Job -> {"yes", "no"}]
        /\ replayed' \subseteq replayed
    BY <1>6 DEF Mark, FailJob, CompleteJob, TypeOK
  <2>2. AfterJob(w) /\ UNCHANGED <<request, boundVars>>
    BY <1>6 DEF Mark
  <2>3. LocalsOK'
    BY <2>2, AfterJobType
  <2> QED
    BY <2>1, <2>2, <2>3 DEF TypeOK, LocalsOK, boundVars
<1>7. ASSUME NEW w \in Worker, ClaimUnacknowledged(w) PROVE TypeOK'
  BY <1>7 DEF ClaimUnacknowledged, ClaimRows, Fault, TypeOK, workerVars
<1>8. ASSUME NEW w \in Worker, MarkFails(w) PROVE TypeOK'
  <2>1. LocalsOK'
    BY <1>8, AfterJobType DEF MarkFails
  <2> QED
    BY <1>8, <2>1 DEF MarkFails, Fault, LocalsOK, TypeOK, rowVars
<1>9. ASSUME NEW p \in Replica, Crash(p) PROVE TypeOK'
  <2>1. /\ pc' \in [Worker -> {"idle", "replay"}]
        /\ todo' \in [Worker -> SUBSET Job]
        /\ job' \in [Worker -> Job \cup {None}]
        /\ ended' \in [Worker -> SUBSET Scope]
        /\ err' \in [Worker -> {"yes", "no"}]
    BY <1>9 DEF Crash, TypeOK
  <2>2. pos' \in [Worker -> [Scope -> Nat]]
    BY <1>9 DEF Crash, TypeOK
  <2> QED
    BY <1>9, <2>1, <2>2 DEF Crash, Fault, TypeOK, rowVars
<1>10. ASSUME NEW j \in Job, BecomesReady(j) PROVE TypeOK'
  BY <1>10 DEF BecomesReady, TypeOK, workerVars, boundVars
<1>11. ASSUME NEW j \in Job, LockGrowsOld(j) PROVE TypeOK'
  BY <1>11 DEF LockGrowsOld, TypeOK, workerVars, boundVars
<1>12. ASSUME NEW j \in Job, NEW r \in Range, EnqueueBlockRangeJob(j, r) PROVE TypeOK'
  BY <1>12 DEF EnqueueBlockRangeJob, InsertJob, Queue, TypeOK, workerVars, boundVars
<1>13. ASSUME NEW c \in Client, NEW r \in Range, LookUpRetryJob(c, r) PROVE TypeOK'
  BY <1>13 DEF LookUpRetryJob, TypeOK, rowVars, workerVars
<1>14. ASSUME NEW c \in Client, NEW j \in Job, InsertRetryJob(c, j) PROVE TypeOK'
  BY <1>14 DEF InsertRetryJob, InsertJob, Queue, TypeOK, workerVars, boundVars
<1>15. CASE UNCHANGED vars
  BY <1>15 DEF vars, rowVars, workerVars, boundVars, TypeOK
<1> QED
  BY <1>1, <1>3, <1>5, <1>6, <1>7, <1>8, <1>9, <1>10, <1>11, <1>12, <1>13, <1>14, <1>15
     DEF Next, WorkerStep

(***************************************************************************)
(* Jobs that change hands only by being let go of keep to one goroutine.   *)
(***************************************************************************)
LEMMA HeldShrinks ==
  ASSUME OneWorkerPerJob, HeldIsRunning,
         \A w \in Worker : Held(w)' \subseteq Held(w),
         \A w \in Worker : \A j \in Held(w)' : status'[j] = "running"
  PROVE  OneWorkerPerJob' /\ HeldIsRunning'
BY DEF OneWorkerPerJob, HeldIsRunning

(***************************************************************************)
(* A claim takes only jobs that nobody holds, because held jobs run.       *)
(***************************************************************************)
LEMMA ClaimTakesFreeJobs ==
  ASSUME TypeOK, HeldIsRunning, NEW q \in Queue, NEW rows \in SUBSET Job, ClaimRows(q, rows)
  PROVE  /\ \A j \in rows : status'[j] = "running"
         /\ \A w \in Worker : \A j \in Held(w) : j \notin rows
         /\ \A j \in Job : status[j] = "running" => status'[j] = "running"
BY DEF ClaimRows, Claimable, HeldIsRunning, TypeOK

(***************************************************************************)
(* A goroutine holds the jobs it starts on, and then those it has not come *)
(* to yet.                                                                 *)
(***************************************************************************)
LEMMA ScanHolds ==
  ASSUME TypeOK, HeldOnce, NEW w \in Worker, NEW jobs \in SUBSET Job, ReplayScan(w, jobs)
  PROVE  /\ Held(w)' = jobs
         /\ \A v \in Worker : v # w => Held(v)' = Held(v)
         /\ HeldOnce'
<1>1. PICK j \in jobs : job' = [job EXCEPT ![w] = j] /\ todo' = [todo EXCEPT ![w] = jobs \ {j}]
  BY DEF ReplayScan
<1>2. pc' = [pc EXCEPT ![w] = "replay"]
  BY DEF ReplayScan
<1>3. pc'[w] = "replay" /\ job'[w] = j /\ todo'[w] = jobs \ {j}
  BY <1>1, <1>2 DEF TypeOK
<1>4. \A v \in Worker : v # w => pc'[v] = pc[v] /\ job'[v] = job[v] /\ todo'[v] = todo[v]
  BY <1>1, <1>2 DEF TypeOK
<1> QED
  BY <1>1, <1>3, <1>4 DEF Held, HeldOnce

LEMMA AfterJobHolds ==
  ASSUME TypeOK, HeldOnce, NEW w \in Worker, AfterJob(w)
  PROVE  /\ Held(w)' = todo[w]
         /\ \A v \in Worker : v # w => Held(v)' = Held(v)
         /\ HeldOnce'
<1>1. todo[w] \in SUBSET Job
  BY DEF TypeOK
<1>2. CASE ReplayScan(w, todo[w])
  BY <1>1, <1>2, ScanHolds
<1>3. CASE ~ReplayScan(w, todo[w])
  <2>1. /\ todo[w] = {} /\ todo' = todo
        /\ pc' = [pc EXCEPT ![w] = "idle"] /\ job' = [job EXCEPT ![w] = None]
    BY <1>3 DEF AfterJob
  <2>2. pc'[w] = "idle" /\ todo'[w] = {}
    BY <2>1 DEF TypeOK
  <2>3. \A v \in Worker : v # w => pc'[v] = pc[v] /\ job'[v] = job[v] /\ todo'[v] = todo[v]
    BY <2>1 DEF TypeOK
  <2> QED
    BY <2>1, <2>2, <2>3 DEF Held, HeldOnce
<1> QED
  BY <1>2, <1>3

(***************************************************************************)
(* Ownership is preserved by every step.                                   *)
(***************************************************************************)
LEMMA OwnershipStep ==
  ASSUME TypeOK, OneWorkerPerJob, HeldIsRunning, HeldOnce, [Next]_vars
  PROVE  OneWorkerPerJob' /\ HeldIsRunning' /\ HeldOnce'
<1> DEFINE Goal == OneWorkerPerJob' /\ HeldIsRunning' /\ HeldOnce'
<1> USE JobsAssumption
<1>0. \A w \in Worker : Held(w) \subseteq Job
  BY DEF Held, HeldOnce, TypeOK
<1>1. ASSUME NEW w \in Worker, ClaimBlockRangeJobs(w) PROVE Goal
  <2>1. PICK rows \in SUBSET Job : ClaimRows(w[2], rows) /\ ReplayScan(w, rows)
    BY <1>1 DEF ClaimBlockRangeJobs
  <2>2. w[2] \in Queue
    BY DEF Worker
  <2>3. /\ \A j \in rows : status'[j] = "running"
        /\ \A v \in Worker : \A j \in Held(v) : j \notin rows
        /\ \A j \in Job : status[j] = "running" => status'[j] = "running"
    BY <2>1, <2>2, ClaimTakesFreeJobs
  <2>4. Held(w)' = rows /\ HeldOnce' /\ \A v \in Worker : v # w => Held(v)' = Held(v)
    BY <2>1, ScanHolds
  <2>5. HeldIsRunning'
    BY <1>0, <2>3, <2>4 DEF HeldIsRunning
  <2>6. ASSUME NEW u \in Worker, NEW v \in Worker, NEW j \in Job, j \in Held(u)', j \in Held(v)'
        PROVE  u = v
    <3>1. (u = w /\ j \in rows) \/ (u # w /\ j \in Held(u))
      BY <2>4, <2>6
    <3>2. (v = w /\ j \in rows) \/ (v # w /\ j \in Held(v))
      BY <2>4, <2>6
    <3> QED
      BY <2>3, <3>1, <3>2 DEF OneWorkerPerJob
  <2>7. OneWorkerPerJob'
    BY <2>6 DEF OneWorkerPerJob
  <2> QED
    BY <2>4, <2>5, <2>7
<1>3. ASSUME NEW w \in Worker, NEW s \in Scope,
             ReplayBatch(w, s) \/ ReplayRangeFails(w, s)
      PROVE  Goal
  <2>1. UNCHANGED <<pc, todo, job, status>>
    BY <1>3 DEF ReplayBatch, ReplayRangeFails, rowVars
  <2> QED
    BY <2>1, HeldShrinks DEF HeldOnce, HeldIsRunning, Held
<1>4. ASSUME NEW w \in Worker, Mark(w) PROVE Goal
  <2>1. /\ Held(w)' = todo[w] /\ HeldOnce'
        /\ \A v \in Worker : v # w => Held(v)' = Held(v)
    BY <1>4, AfterJobHolds DEF Mark
  <2>2. /\ job[w] \in Held(w) /\ job[w] \notin todo[w] /\ job[w] \in Job
        /\ todo[w] \subseteq Held(w)
    BY <1>4 DEF Mark, HeldOnce, Held
  <2>3. \A j \in Job : j # job[w] => status'[j] = status[j]
    BY <1>4, <2>2 DEF Mark, FailJob, CompleteJob, TypeOK
  <2>4. \A v \in Worker : Held(v)' \subseteq Held(v) /\ job[w] \notin Held(v)'
    BY <2>1, <2>2 DEF OneWorkerPerJob
  <2> QED
    BY <1>0, <2>1, <2>3, <2>4, HeldShrinks DEF HeldIsRunning
<1>5. ASSUME NEW w \in Worker, ClaimUnacknowledged(w) PROVE Goal
  <2>1. PICK rows \in SUBSET Job : ClaimRows(w[2], rows)
    BY <1>5 DEF ClaimUnacknowledged
  <2>2. \A j \in Job : status[j] = "running" => status'[j] = "running"
    BY <2>1, ClaimTakesFreeJobs DEF Worker
  <2>3. UNCHANGED <<pc, todo, job>>
    BY <1>5 DEF ClaimUnacknowledged, workerVars
  <2> QED
    BY <1>0, <2>2, <2>3, HeldShrinks DEF HeldOnce, HeldIsRunning, Held
<1>6. ASSUME NEW w \in Worker, MarkFails(w) PROVE Goal
  <2>1. HeldOnce' /\ \A v \in Worker : Held(v)' \subseteq Held(v)
    BY <1>6, AfterJobHolds DEF MarkFails, Held
  <2>2. status' = status
    BY <1>6 DEF MarkFails, rowVars
  <2> QED
    BY <2>1, <2>2, HeldShrinks DEF HeldIsRunning
<1>7. ASSUME NEW p \in Replica, Crash(p) PROVE Goal
  <2>1. \A v \in Worker : Held(v)' \subseteq Held(v)
    BY <1>7 DEF Crash, Held, TypeOK
  <2>2. status' = status /\ HeldOnce'
    BY <1>7 DEF Crash, HeldOnce, TypeOK, rowVars
  <2> QED
    BY <2>1, <2>2, HeldShrinks DEF HeldIsRunning
<1>8. ASSUME NEW j \in Job, BecomesReady(j) \/ LockGrowsOld(j) PROVE Goal
  <2>1. UNCHANGED <<pc, todo, job, status>>
    BY <1>8 DEF BecomesReady, LockGrowsOld, workerVars
  <2> QED
    BY <2>1, HeldShrinks DEF HeldOnce, HeldIsRunning, Held
<1>9. ASSUME NEW j \in Job, NEW q, NEW r, InsertJob(j, q, r), UNCHANGED workerVars PROVE Goal
  <2>1. UNCHANGED <<pc, todo, job>>
    BY <1>9 DEF workerVars
  <2>2. \A i \in Job : status[i] = "running" => status'[i] = "running"
    BY <1>9 DEF InsertJob, TypeOK
  <2> QED
    BY <1>0, <2>1, <2>2, HeldShrinks DEF HeldOnce, HeldIsRunning, Held
<1>10. ASSUME NEW c \in Client, NEW r \in Range, LookUpRetryJob(c, r) PROVE Goal
  <2>1. UNCHANGED <<pc, todo, job, status>>
    BY <1>10 DEF LookUpRetryJob, workerVars, rowVars
  <2> QED
    BY <2>1, HeldShrinks DEF HeldOnce, HeldIsRunning, Held
<1>11. CASE UNCHANGED vars
  <2>1. UNCHANGED <<pc, todo, job, status>>
    BY <1>11 DEF vars, workerVars, rowVars
  <2> QED
    BY <2>1, HeldShrinks DEF HeldOnce, HeldIsRunning, Held
<1> QED
  BY <1>1, <1>3, <1>4, <1>5, <1>6, <1>7, <1>8, <1>9, <1>10, <1>11
     DEF Next, WorkerStep, EnqueueBlockRangeJob, InsertRetryJob

(***************************************************************************)
(* The attempts of jobs stay within max_attempts.                          *)
(***************************************************************************)
LEMMA AttemptsStep ==
  ASSUME TypeOK, HeldOnce, AttemptsLeft, AttemptsBounded, [Next]_vars
  PROVE  AttemptsLeft' /\ AttemptsBounded'
<1> DEFINE Goal == AttemptsLeft' /\ AttemptsBounded'
<1> USE JobsAssumption
<1>1. ASSUME NEW q, NEW rows \in SUBSET Job, ClaimRows(q, rows) PROVE Goal
  <2>1. ASSUME NEW j \in Job PROVE
          \/ /\ status'[j] = "running" /\ attempts'[j] = attempts[j] + 1
             /\ attempts[j] < MaxAttempts
          \/ status'[j] = status[j] /\ attempts'[j] = attempts[j]
    BY <1>1 DEF ClaimRows, Claimable, AttemptsLeft, TypeOK
  <2>2. \A j \in Job : attempts[j] \in Nat
    BY DEF TypeOK
  <2> QED
    BY <2>1, <2>2 DEF AttemptsLeft, AttemptsBounded
<1>2. ASSUME NEW w \in Worker, Mark(w) PROVE Goal
  <2>1. job[w] \in Job /\ attempts' = attempts /\ \A j \in Job : attempts[j] \in Nat
    BY <1>2 DEF Mark, FailJob, CompleteJob, HeldOnce, TypeOK
  <2>2. \A j \in Job : j # job[w] => status'[j] = status[j]
    BY <1>2 DEF Mark, FailJob, CompleteJob, TypeOK
  <2>3. \/ status'[job[w]] = "completed"
        \/ status'[job[w]] = "dead" /\ attempts[job[w]] >= MaxAttempts
        \/ status'[job[w]] = "failed" /\ ~(attempts[job[w]] >= MaxAttempts)
    BY <1>2, <2>1 DEF Mark, FailJob, CompleteJob, TypeOK
  <2> QED
    BY <2>1, <2>2, <2>3 DEF AttemptsLeft, AttemptsBounded
<1>3. ASSUME NEW j \in Job, NEW q, NEW r, InsertJob(j, q, r) PROVE Goal
  BY <1>3 DEF InsertJob, AttemptsLeft, AttemptsBounded, TypeOK
<1>4. ASSUME UNCHANGED <<status, attempts>> PROVE Goal
  BY <1>4 DEF AttemptsLeft, AttemptsBounded
<1>5. ASSUME NEW w \in Worker, ClaimBlockRangeJobs(w) \/ ClaimUnacknowledged(w) PROVE Goal
  BY <1>1, <1>5 DEF ClaimBlockRangeJobs, ClaimUnacknowledged
<1>6. ASSUME NEW w \in Worker, MarkFails(w) PROVE Goal
  BY <1>4, <1>6 DEF MarkFails, rowVars
<1>7. ASSUME NEW w \in Worker, NEW s \in Scope,
             ReplayBatch(w, s) \/ ReplayRangeFails(w, s)
      PROVE  Goal
  BY <1>4, <1>7 DEF ReplayBatch, ReplayRangeFails, rowVars
<1>8. ASSUME NEW p \in Replica, Crash(p) PROVE Goal
  BY <1>4, <1>8 DEF Crash, rowVars
<1>9. ASSUME NEW j \in Job, BecomesReady(j) \/ LockGrowsOld(j) PROVE Goal
  BY <1>4, <1>9 DEF BecomesReady, LockGrowsOld
<1>10. ASSUME NEW c \in Client, NEW r \in Range, LookUpRetryJob(c, r) PROVE Goal
  BY <1>4, <1>10 DEF LookUpRetryJob, rowVars
<1>11. CASE UNCHANGED vars
  BY <1>4, <1>11 DEF vars, rowVars
<1> QED
  BY <1>2, <1>3, <1>5, <1>6, <1>7, <1>8, <1>9, <1>10, <1>11
     DEF Next, WorkerStep, EnqueueBlockRangeJob, InsertRetryJob

(***************************************************************************)
(* ReplayProgress, for one goroutine.                                      *)
(***************************************************************************)
ProgressOf(w) ==
  pc[w] = "replay" =>
    \A s \in Scope :
      /\ \A n \in 1..pos[w][s] : <<job[w], s, n>> \in replayed
      /\ s \in ended[w] /\ err[w] = "no" => \A n \in 1..Batches : <<job[w], s, n>> \in replayed

(***************************************************************************)
(* A goroutine that takes no step keeps its progress as long as nothing of *)
(* what its own job has gone through is taken back.                        *)
(***************************************************************************)
LEMMA ProgressKept ==
  ASSUME NEW w \in Worker, ProgressOf(w),
         pc'[w] = "replay" =>
           /\ pc[w] = "replay"
           /\ job'[w] = job[w] /\ pos'[w] = pos[w]
           /\ ended'[w] = ended[w] /\ err'[w] = err[w]
           /\ \A s \in Scope, n \in Nat : <<job[w], s, n>> \in replayed => <<job[w], s, n>> \in replayed',
         TypeOK
  PROVE  ProgressOf(w)'
<1> SUFFICES ASSUME pc'[w] = "replay" PROVE ProgressOf(w)'
  BY DEF ProgressOf
<1>1. \A s \in Scope : 1..pos[w][s] \subseteq Nat /\ 1..Batches \subseteq Nat
  BY JobsAssumption DEF TypeOK
<1> QED
  BY <1>1 DEF ProgressOf

(***************************************************************************)
(* A goroutine that starts on a job has gone through nothing yet.          *)
(***************************************************************************)
LEMMA ScanProgress ==
  ASSUME TypeOK, NEW w \in Worker, NEW jobs \in SUBSET Job, ReplayScan(w, jobs)
  PROVE  /\ ProgressOf(w)'
         /\ \A v \in Worker : v # w =>
              /\ pc'[v] = pc[v] /\ job'[v] = job[v] /\ pos'[v] = pos[v]
              /\ ended'[v] = ended[v] /\ err'[v] = err[v]
<1>1. PICK j \in jobs : job' = [job EXCEPT ![w] = j]
  BY DEF ReplayScan
<1>2. ended'[w] = {} /\ \A s \in Scope : pos'[w][s] = 0
  BY DEF ReplayScan, TypeOK
<1>3. ProgressOf(w)'
  BY <1>2 DEF ProgressOf
<1>4. ASSUME NEW v \in Worker, v # w
      PROVE  /\ pc'[v] = pc[v] /\ job'[v] = job[v] /\ pos'[v] = pos[v]
             /\ ended'[v] = ended[v] /\ err'[v] = err[v]
  BY <1>1, <1>4 DEF ReplayScan, TypeOK
<1> QED
  BY <1>3, <1>4

LEMMA AfterJobProgress ==
  ASSUME TypeOK, NEW w \in Worker, AfterJob(w)
  PROVE  /\ ProgressOf(w)'
         /\ \A v \in Worker : v # w =>
              /\ pc'[v] = pc[v] /\ job'[v] = job[v] /\ pos'[v] = pos[v]
              /\ ended'[v] = ended[v] /\ err'[v] = err[v]
<1>1. todo[w] \in SUBSET Job
  BY DEF TypeOK
<1>2. CASE ReplayScan(w, todo[w])
  BY <1>1, <1>2, ScanProgress
<1>3. CASE ~ReplayScan(w, todo[w])
  <2>1. pc'[w] = "idle"
    BY <1>3 DEF AfterJob, TypeOK
  <2>2. ASSUME NEW v \in Worker, v # w
        PROVE  /\ pc'[v] = pc[v] /\ job'[v] = job[v] /\ pos'[v] = pos[v]
               /\ ended'[v] = ended[v] /\ err'[v] = err[v]
    BY <1>3, <2>2 DEF AfterJob, TypeOK
  <2> QED
    BY <2>1, <2>2 DEF ProgressOf
<1> QED
  BY <1>2, <1>3

(***************************************************************************)
(* Only a replay that went through everything completes its job.           *)
(***************************************************************************)
LEMMA CompletedKept ==
  ASSUME CompletedWasReplayed,
         replayed \subseteq replayed',
         \A j \in Job : status'[j] = "completed" => status[j] = "completed"
  PROVE  CompletedWasReplayed'
BY DEF CompletedWasReplayed

LEMMA ReplayStep ==
  ASSUME TypeOK, OneWorkerPerJob, HeldOnce, HeldIsRunning, ReplayProgress, CompletedWasReplayed,
         [Next]_vars
  PROVE  ReplayProgress' /\ CompletedWasReplayed'
<1> DEFINE Goal == ReplayProgress' /\ CompletedWasReplayed'
<1> USE JobsAssumption
<1>0. /\ ReplayProgress <=> \A w \in Worker : ProgressOf(w)
      /\ ReplayProgress' <=> \A w \in Worker : ProgressOf(w)'
  BY DEF ReplayProgress, ProgressOf
<1>1. ASSUME NEW q, NEW rows \in SUBSET Job, ClaimRows(q, rows)
      PROVE  \A j \in Job : status'[j] = "completed" => status[j] = "completed"
  BY <1>1 DEF ClaimRows, TypeOK
<1>3. ASSUME NEW w \in Worker, NEW s \in Scope, ReplayBatch(w, s) PROVE Goal
  <2>1. replayed \subseteq replayed' /\ <<job[w], s, pos[w][s] + 1>> \in replayed'
    BY <1>3 DEF ReplayBatch
  <2>2. UNCHANGED <<status, pc, job, err>>
    BY <1>3 DEF ReplayBatch, rowVars
  <2>3. /\ pos[w][s] \in Nat
        /\ \/ pos[w][s] + 1 = Batches /\ pos'[w][s] = 0
           \/ pos'[w][s] = pos[w][s] + 1 /\ s \notin ended'[w]
        /\ \A t \in Scope : t # s => pos'[w][t] = pos[w][t] /\ (t \in ended'[w] => t \in ended[w])
        /\ \A v \in Worker : v # w => pos'[v] = pos[v] /\ ended'[v] = ended[v]
    BY <1>3 DEF ReplayBatch, ScopeReturns, TypeOK
  <2>4. ProgressOf(w) /\ pc[w] = "replay"
    BY <1>0, <1>3 DEF ReplayBatch
  <2>5. \A n \in 1..(pos[w][s] + 1) : n \in 1..pos[w][s] \/ n = pos[w][s] + 1
    BY <2>3
  <2>6. \A n \in 1..(pos[w][s] + 1) : <<job[w], s, n>> \in replayed'
    BY <2>1, <2>4, <2>5 DEF ProgressOf
  <2>7. ProgressOf(w)'
    <3>1. ASSUME NEW t \in Scope, t # s
          PROVE  /\ \A n \in 1..pos'[w][t] : <<job'[w], t, n>> \in replayed'
                 /\ t \in ended'[w] /\ err'[w] = "no" =>
                      \A n \in 1..Batches : <<job'[w], t, n>> \in replayed'
      BY <2>1, <2>2, <2>3, <2>4, <3>1 DEF ProgressOf
    <3>2. /\ \A n \in 1..pos'[w][s] : <<job'[w], s, n>> \in replayed'
          /\ s \in ended'[w] => \A n \in 1..Batches : <<job'[w], s, n>> \in replayed'
      BY <2>2, <2>3, <2>6
    <3> QED
      BY <3>1, <3>2 DEF ProgressOf
  <2>8. ASSUME NEW v \in Worker, v # w PROVE ProgressOf(v)'
    BY <1>0, <2>1, <2>2, <2>3, <2>8, ProgressKept
  <2>9. CompletedWasReplayed'
    BY <2>1, <2>2, CompletedKept
  <2> QED
    BY <1>0, <2>7, <2>8, <2>9
<1>4. ASSUME NEW w \in Worker, NEW s \in Scope, ReplayRangeFails(w, s) PROVE Goal
  <2>1. UNCHANGED <<status, pc, job, replayed>>
    BY <1>4 DEF ReplayRangeFails, rowVars
  <2>2. /\ err'[w] = "yes" /\ pos'[w][s] = 0
        /\ \A t \in Scope : t # s => pos'[w][t] = pos[w][t]
    BY <1>4 DEF ReplayRangeFails, ScopeReturns, TypeOK
  <2>3. ProgressOf(w)'
    BY <1>0, <2>1, <2>2 DEF ProgressOf
  <2>4. ASSUME NEW v \in Worker, v # w
        PROVE  pos'[v] = pos[v] /\ ended'[v] = ended[v] /\ err'[v] = err[v]
    BY <1>4, <2>4 DEF ReplayRangeFails, ScopeReturns, TypeOK
  <2>5. \A v \in Worker : v # w => ProgressOf(v)'
    BY <1>0, <2>1, <2>4, ProgressKept
  <2>6. CompletedWasReplayed'
    BY <2>1, CompletedKept
  <2> QED
    BY <1>0, <2>3, <2>5, <2>6
<1>5. ASSUME NEW w \in Worker, Mark(w) PROVE Goal
  <2>1. /\ job[w] \in Job /\ pc[w] = "replay" /\ ended[w] = Scope
        /\ \A j \in Job : j # job[w] => status'[j] = status[j]
        /\ \A j \in Job, s \in Scope, n \in Nat :
             j # job[w] /\ <<j, s, n>> \in replayed => <<j, s, n>> \in replayed'
    BY <1>5 DEF Mark, FailJob, CompleteJob, HeldOnce, TypeOK
  <2>2. /\ ProgressOf(w)'
        /\ \A v \in Worker : v # w =>
             /\ pc'[v] = pc[v] /\ job'[v] = job[v] /\ pos'[v] = pos[v]
             /\ ended'[v] = ended[v] /\ err'[v] = err[v]
    BY <1>5, AfterJobProgress DEF Mark
  <2>3. ASSUME NEW v \in Worker, v # w, pc[v] = "replay" PROVE job[v] \in Job /\ job[v] # job[w]
    BY <2>1, <2>3 DEF OneWorkerPerJob, HeldOnce, Held
  <2>4. ASSUME NEW v \in Worker, v # w PROVE ProgressOf(v)'
    BY <1>0, <2>1, <2>2, <2>3, <2>4, ProgressKept
  <2>5. ASSUME status'[job[w]] = "completed"
        PROVE  \A s \in Scope, n \in 1..Batches : <<job[w], s, n>> \in replayed'
    <3>1. err[w] = "no" /\ replayed' = replayed
      BY <1>5, <2>1, <2>5 DEF Mark, FailJob, TypeOK
    <3> QED
      BY <1>0, <2>1, <3>1 DEF ProgressOf
  <2>6. 1..Batches \subseteq Nat
    OBVIOUS
  <2>7. CompletedWasReplayed'
    BY <2>1, <2>5, <2>6 DEF CompletedWasReplayed
  <2> QED
    BY <1>0, <2>2, <2>4, <2>7
<1>6. ASSUME NEW w \in Worker, ClaimBlockRangeJobs(w) PROVE Goal
  <2>1. PICK rows \in SUBSET Job : ClaimRows(w[2], rows) /\ ReplayScan(w, rows)
    BY <1>6 DEF ClaimBlockRangeJobs
  <2>2. replayed' = replayed
    BY <1>6 DEF ClaimBlockRangeJobs
  <2>3. /\ ProgressOf(w)'
        /\ \A v \in Worker : v # w =>
             /\ pc'[v] = pc[v] /\ job'[v] = job[v] /\ pos'[v] = pos[v]
             /\ ended'[v] = ended[v] /\ err'[v] = err[v]
    BY <2>1, ScanProgress
  <2>4. ASSUME NEW v \in Worker, v # w PROVE ProgressOf(v)'
    BY <1>0, <2>2, <2>3, <2>4, ProgressKept
  <2>5. CompletedWasReplayed'
    BY <1>1, <2>1, <2>2, CompletedKept
  <2> QED
    BY <1>0, <2>3, <2>4, <2>5
<1>7. ASSUME NEW w \in Worker, ClaimUnacknowledged(w) PROVE Goal
  <2>1. UNCHANGED <<pc, job, pos, ended, err, replayed>>
    BY <1>7 DEF ClaimUnacknowledged, workerVars
  <2>2. \A j \in Job : status'[j] = "completed" => status[j] = "completed"
    BY <1>1, <1>7 DEF ClaimUnacknowledged
  <2> QED
    BY <1>0, <2>1, <2>2, ProgressKept, CompletedKept
<1>8. ASSUME NEW w \in Worker, MarkFails(w) PROVE Goal
  <2>1. UNCHANGED <<status, replayed>>
    BY <1>8 DEF MarkFails, rowVars
  <2>2. /\ ProgressOf(w)'
        /\ \A v \in Worker : v # w =>
             /\ pc'[v] = pc[v] /\ job'[v] = job[v] /\ pos'[v] = pos[v]
             /\ ended'[v] = ended[v] /\ err'[v] = err[v]
    BY <1>8, AfterJobProgress DEF MarkFails
  <2>3. ASSUME NEW v \in Worker, v # w PROVE ProgressOf(v)'
    BY <1>0, <2>1, <2>2, <2>3, ProgressKept
  <2> QED
    BY <1>0, <2>1, <2>2, <2>3, CompletedKept
<1>9. ASSUME NEW p \in Replica, Crash(p) PROVE Goal
  <2>1. ASSUME NEW v \in Worker, pc'[v] = "replay"
        PROVE  /\ pc[v] = "replay" /\ job'[v] = job[v] /\ pos'[v] = pos[v]
               /\ ended'[v] = ended[v] /\ err'[v] = err[v]
    BY <1>9, <2>1 DEF Crash, TypeOK
  <2>2. UNCHANGED <<status, replayed>>
    BY <1>9 DEF Crash, rowVars
  <2> QED
    BY <1>0, <2>1, <2>2, ProgressKept, CompletedKept
<1>10. ASSUME NEW j \in Job, NEW q, NEW r, InsertJob(j, q, r), UNCHANGED <<workerVars, replayed>>
       PROVE  Goal
  <2>1. \A i \in Job : status'[i] = "completed" => status[i] = "completed"
    BY <1>10 DEF InsertJob, TypeOK
  <2>2. UNCHANGED <<pc, job, pos, ended, err, replayed>>
    BY <1>10 DEF workerVars
  <2> QED
    BY <1>0, <2>1, <2>2, ProgressKept, CompletedKept
<1>11. ASSUME UNCHANGED <<status, workerVars, replayed>> PROVE Goal
  BY <1>0, <1>11, ProgressKept, CompletedKept DEF workerVars
<1>12. ASSUME NEW j \in Job, BecomesReady(j) \/ LockGrowsOld(j) PROVE Goal
  BY <1>11, <1>12 DEF BecomesReady, LockGrowsOld
<1>13. ASSUME NEW c \in Client, NEW r \in Range, LookUpRetryJob(c, r) PROVE Goal
  BY <1>11, <1>13 DEF LookUpRetryJob, rowVars
<1>14. CASE UNCHANGED vars
  BY <1>11, <1>14 DEF vars, rowVars
<1> QED
  BY <1>3, <1>4, <1>5, <1>6, <1>7, <1>8, <1>9, <1>10, <1>12, <1>13, <1>14
     DEF Next, WorkerStep, EnqueueBlockRangeJob, InsertRetryJob

-----------------------------------------------------------------------------
(***************************************************************************)
(* JobsInv holds initially and is preserved.                               *)
(***************************************************************************)
LEMMA InitInv == Init => JobsInv
<1> SUFFICES ASSUME Init PROVE JobsInv
  OBVIOUS
<1> USE JobsAssumption
<1>1. TypeOK
  BY DEF Init, TypeOK, Queue
<1>2. \A w \in Worker : pc[w] = "idle" /\ Held(w) = {}
  BY DEF Init, Held
<1>3. OneWorkerPerJob /\ HeldIsRunning /\ HeldOnce /\ ReplayProgress
  BY <1>2 DEF OneWorkerPerJob, HeldIsRunning, HeldOnce, ReplayProgress
<1>4. AttemptsLeft /\ AttemptsBounded /\ CompletedWasReplayed
  BY DEF Init, AttemptsLeft, AttemptsBounded, CompletedWasReplayed
<1> QED
  BY <1>1, <1>3, <1>4 DEF JobsInv

LEMMA InvStep == JobsInv /\ [Next]_vars => JobsInv'
<1> SUFFICES ASSUME JobsInv, [Next]_vars PROVE JobsInv'
  OBVIOUS
<1>1. TypeOK'
  BY TypeStep DEF JobsInv
<1>2. OneWorkerPerJob' /\ HeldIsRunning' /\ HeldOnce'
  BY OwnershipStep DEF JobsInv
<1>3. AttemptsLeft' /\ AttemptsBounded'
  BY AttemptsStep DEF JobsInv
<1>4. ReplayProgress' /\ CompletedWasReplayed'
  BY ReplayStep DEF JobsInv
<1> QED
  BY <1>1, <1>2, <1>3, <1>4 DEF JobsInv

LEMMA InvAlways == Spec => []JobsInv
BY InitInv, InvStep, PTL DEF Spec

(***************************************************************************)
(* Every column and every local of the queue keeps its type.               *)
(***************************************************************************)
THEOREM TypeCorrect == Spec => []TypeOK
<1>1. JobsInv => TypeOK
  BY DEF JobsInv
<1> QED
  BY <1>1, InvAlways, PTL

(***************************************************************************)
(* A job is never in the hands of two goroutines, without any bound on how *)
(* long a replay takes: ClaimBlockRangeJobs leaves running jobs alone.     *)
(***************************************************************************)
THEOREM OneGoroutinePerJob == Spec => []OneWorkerPerJob
<1>1. JobsInv => OneWorkerPerJob
  BY DEF JobsInv
<1> QED
  BY <1>1, InvAlways, PTL

(***************************************************************************)
(* A completed job was replayed in every scope from end to end.            *)
(***************************************************************************)
THEOREM CompletedMeansReplayed == Spec => []CompletedWasReplayed
<1>1. JobsInv => CompletedWasReplayed
  BY DEF JobsInv
<1> QED
  BY <1>1, InvAlways, PTL

(***************************************************************************)
(* No job is claimed more often than max_attempts allows.                  *)
(***************************************************************************)
THEOREM AttemptsWithinMax == Spec => []AttemptsBounded
<1>1. JobsInv => AttemptsBounded
  BY DEF JobsInv
<1> QED
  BY <1>1, InvAlways, PTL

(***************************************************************************)
(* A completed or dead job keeps its status: the only goroutine that marks *)
(* a job holds it, and a held job is running.                              *)
(***************************************************************************)
THEOREM EndedIsFinal == Spec => EndedStays
<1> DEFINE Stays == \A j \in Job : status[j] \in {"completed", "dead"} => status'[j] = status[j]
<1>1. JobsInv /\ [Next]_vars => [Stays]_vars
  <2> SUFFICES ASSUME JobsInv, Next PROVE Stays
    OBVIOUS
  <2> USE DEF JobsInv
  <2>1. ASSUME NEW q, NEW rows \in SUBSET Job, ClaimRows(q, rows) PROVE Stays
    BY <2>1 DEF ClaimRows, Claimable, TypeOK
  <2>2. ASSUME NEW w \in Worker, Mark(w) PROVE Stays
    <3>1. job[w] \in Job /\ status[job[w]] = "running"
      BY <2>2 DEF Mark, HeldOnce, HeldIsRunning, Held
    <3>2. \A j \in Job : j # job[w] => status'[j] = status[j]
      BY <2>2 DEF Mark, FailJob, CompleteJob, TypeOK
    <3> QED
      BY <3>1, <3>2
  <2>3. ASSUME NEW j \in Job, NEW q, NEW r, InsertJob(j, q, r) PROVE Stays
    BY <2>3 DEF InsertJob, TypeOK
  <2>4. ASSUME UNCHANGED status PROVE Stays
    BY <2>4
  <2>5. ASSUME NEW w \in Worker, WorkerStep(w) \/ ClaimUnacknowledged(w) \/ MarkFails(w) PROVE Stays
    BY <2>1, <2>2, <2>4, <2>5
       DEF WorkerStep, ClaimBlockRangeJobs, ClaimUnacknowledged, MarkFails,
           ReplayBatch, ReplayRangeFails, rowVars
  <2>6. ASSUME NEW p \in Replica, Crash(p) PROVE Stays
    BY <2>4, <2>6 DEF Crash, rowVars
  <2>7. ASSUME NEW j \in Job, BecomesReady(j) \/ LockGrowsOld(j) PROVE Stays
    BY <2>4, <2>7 DEF BecomesReady, LockGrowsOld
  <2>8. ASSUME NEW c \in Client, NEW r \in Range, LookUpRetryJob(c, r) PROVE Stays
    BY <2>4, <2>8 DEF LookUpRetryJob, rowVars
  <2> QED
    BY <2>3, <2>5, <2>6, <2>7, <2>8 DEF Next, EnqueueBlockRangeJob, InsertRetryJob
<1>2. EndedStays <=> [][Stays]_vars
  BY DEF EndedStays
<1> QED
  BY <1>1, <1>2, InvAlways, PTL DEF Spec

=============================================================================
