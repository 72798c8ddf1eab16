-------------------------- MODULE StartupReconcile --------------------------
(***************************************************************************)
(* runStartupReconcile (cmd/tronvent/main.go) for one scope.  Every        *)
(* process runs it once, in a goroutine beside its poller: when the scope  *)
(* is far behind the safe block it hands the whole gap to block-range jobs *)
(* and moves the cursor over it.                                           *)
(*                                                                         *)
(* The module also declares what all scanning actors of a scope share: the *)
(* chain tip, the outbox, and the record of how each block was dealt with. *)
(***************************************************************************)
EXTENDS ScopeLease

CONSTANTS
  RequiredConfs,   \* TRON_REQUIRED_CONFIRMATIONS
  ReconcileBatch,  \* TRON_RECONCILE_BATCH_SIZE
  MaxTip,          \* bound: the chain stops growing here
  MaxFaults        \* bound: crashes, failed calls and leases lost by live workers

ASSUME ReconcileAssumption ==
  /\ RequiredConfs \in Nat
  /\ ReconcileBatch \in Nat \ {0}
  /\ MaxTip \in Nat
  /\ MaxFaults \in Nat

VARIABLES
  tip,         \* the latest block of the chain
  faults,      \* faults so far
  published,   \* blocks whose matched events are in webhook_events
  queued,      \* blocks covered by an inserted tron-reconcile job
  skipped,     \* <<block, why>>: blocks the code passed over, and at which line
  rpc,         \* where runStartupReconcile of each process stands
  rsafe,       \* its safeBlock
  rlast        \* the block before its next job ("start" - 1)

chainVars == <<tip, faults>>
blockVars == <<published, queued, skipped>>
reconcileVars == <<rpc, rsafe, rlast>>

\* "cold": below the starting point chosen without a cursor; "missing": absent
\* from the range response; "outbox": the outbox insert failed; "job": the
\* reconcile job could not be inserted; "unindexed": not in the events API.
Reason == {"cold", "missing", "outbox", "job", "unindexed"}

PassOver(blocks, why) == skipped' = skipped \cup (blocks \X {why})

Accounted == published \cup queued \cup {s[1] : s \in skipped}

Fault ==
  /\ faults < MaxFaults
  /\ faults' = faults + 1

Mine ==
  /\ tip < MaxTip
  /\ tip' = tip + 1
  /\ UNCHANGED <<faults, rowVars, blockVars, reconcileVars>>

\* The goroutine leaves the scope, or is started anew: its locals are gone.
ReconcileReturn(p, l) ==
  /\ rpc' = [rpc EXCEPT ![p] = l]
  /\ rsafe' = [rsafe EXCEPT ![p] = 0]
  /\ rlast' = [rlast EXCEPT ![p] = 0]

-----------------------------------------------------------------------------
\* GetLatestBlockNumber and the test for a chain that is too short.
ReconcileStart(p) ==
  /\ rpc[p] = "start"
  /\ IF tip - RequiredConfs <= 0
     THEN ReconcileReturn(p, "done")
     ELSE /\ rsafe' = [rsafe EXCEPT ![p] = tip - RequiredConfs]
          /\ rpc' = [rpc EXCEPT ![p] = "read"]
          /\ UNCHANGED rlast
  /\ UNCHANGED <<chainVars, rowVars, blockVars>>

\* GetScannedBlock, before any lease is held: the cursor read here is the one
\* the jobs are cut from.
GapTooSmall(c, safe) == c <= 0 \/ c >= safe \/ safe - c < ReconcileBatch

ReconcileRead(p) ==
  /\ rpc[p] = "read"
  /\ IF GapTooSmall(highest, rsafe[p])
     THEN ReconcileReturn(p, "done")
     ELSE /\ rlast' = [rlast EXCEPT ![p] = highest]
          /\ rpc' = [rpc EXCEPT ![p] = "claim"]
          /\ UNCHANGED rsafe
  /\ UNCHANGED <<chainVars, rowVars, blockVars>>

ReconcileClaim(p) ==
  /\ rpc[p] = "claim"
  /\ \/ /\ TryClaimScannerScope(ReconcileId(p))
        /\ rpc' = [rpc EXCEPT ![p] = "jobs"]
        /\ UNCHANGED <<rsafe, rlast>>
     \/ /\ ~Claimable(ReconcileId(p))
        /\ ReconcileReturn(p, "done")
        /\ UNCHANGED rowVars
  /\ UNCHANGED <<chainVars, blockVars>>

\* One turn of the job loop: renew, then EnqueueBlockRangeJob.  A failed insert
\* is logged and the loop goes on; a lost lease leaves it.
JobEnd(p) == MinOf(rlast[p] + ReconcileBatch, rsafe[p])

ReconcileEnqueue(p) ==
  /\ rpc[p] = "jobs"
  /\ rlast[p] < rsafe[p]
  /\ RenewScannerScopeLease(ReconcileId(p))
  /\ LET blocks == (rlast[p] + 1)..JobEnd(p)
     IN  \/ /\ queued' = queued \cup blocks
            /\ UNCHANGED <<skipped, faults>>
         \/ /\ Fault
            /\ PassOver(blocks, "job")
            /\ UNCHANGED queued
  /\ rlast' = [rlast EXCEPT ![p] = JobEnd(p)]
  /\ UNCHANGED <<rpc, rsafe, tip, published>>

ReconcileLeaseLost(p) ==
  /\ rpc[p] = "jobs"
  /\ rlast[p] < rsafe[p]
  /\ lockedBy # ReconcileId(p)
  /\ rpc' = [rpc EXCEPT ![p] = "release"]
  /\ UNCHANGED <<rsafe, rlast, chainVars, rowVars, blockVars>>

\* SetScannedBlock(safeBlock); a conflict is logged.
ReconcileAdvance(p) ==
  /\ rpc[p] = "jobs"
  /\ rlast[p] >= rsafe[p]
  /\ \/ SetScannedBlock(ReconcileId(p), rsafe[p])
     \/ SetScannedBlockConflict(ReconcileId(p))
  /\ rpc' = [rpc EXCEPT ![p] = "release"]
  /\ UNCHANGED <<rsafe, rlast, chainVars, blockVars>>

ReconcileRelease(p) ==
  /\ rpc[p] = "release"
  /\ \/ ReleaseScannerScope(ReconcileId(p)) /\ UNCHANGED faults
     \/ Fault /\ UNCHANGED rowVars
  /\ ReconcileReturn(p, "done")
  /\ UNCHANGED <<tip, blockVars>>

\* A call of this goroutine returns an error and has had no effect: the scope is
\* left alone, or, with the lease in hand, released.
ReconcileCallFails(p) ==
  /\ rpc[p] \in {"start", "read", "claim", "jobs"}
  /\ Fault
  /\ IF rpc[p] = "jobs"
     THEN rpc' = [rpc EXCEPT ![p] = "release"] /\ UNCHANGED <<rsafe, rlast>>
     ELSE ReconcileReturn(p, "done")
  /\ UNCHANGED <<tip, rowVars, blockVars>>

\* The claim is committed but its acknowledgement is lost: the scope is left, and
\* the lease with it.
ReconcileClaimUnacknowledged(p) ==
  /\ rpc[p] = "claim"
  /\ Fault
  /\ TryClaimScannerScope(ReconcileId(p))
  /\ ReconcileReturn(p, "done")
  /\ UNCHANGED <<tip, blockVars>>

ReconcileStep(p) ==
  \/ ReconcileStart(p)
  \/ ReconcileRead(p)
  \/ ReconcileClaim(p)
  \/ ReconcileEnqueue(p)
  \/ ReconcileLeaseLost(p)
  \/ ReconcileAdvance(p)
  \/ ReconcileRelease(p)
  \/ ReconcileCallFails(p)
  \/ ReconcileClaimUnacknowledged(p)

-----------------------------------------------------------------------------
\* A scope met at any cursor; everything up to it was dealt with before.
ReconcileInit(c) ==
  /\ RowInit(c)
  /\ tip = c + RequiredConfs
  /\ faults = 0
  /\ published = 1..c
  /\ queued = {}
  /\ skipped = {}
  /\ rpc = [p \in Replica |-> "start"]
  /\ rsafe = [p \in Replica |-> 0]
  /\ rlast = [p \in Replica |-> 0]

ReconcileTypeOK ==
  /\ RowTypeOK
  /\ tip \in Nat
  /\ faults \in 0..MaxFaults
  /\ published \in SUBSET Int
  /\ queued \in SUBSET Int
  /\ skipped \in SUBSET (Int \X Reason)
  /\ rpc \in [Replica -> {"start", "read", "claim", "jobs", "release", "done"}]
  /\ rsafe \in [Replica -> Int]
  /\ rlast \in [Replica -> Nat]

=============================================================================
