------------------------------ MODULE ScopeScan ------------------------------
(***************************************************************************)
(* The part of the forward scan that TRX and TRC-20 scopes have in common  *)
(* (internal/scanner/poller.go and scope_lease.go): a poll tick of a       *)
(* replica reads the tip, claims the scope, works out where to start, then *)
(* goes batch by batch, renewing the lease around the TronGrid fetches,    *)
(* and releases the lease whatever happens.  What is done with a fetched   *)
(* batch is left to TrxScan and Trc20Scan.                                 *)
(*                                                                         *)
(* A poll waits for its scans (wg.Wait), so a replica runs at most one     *)
(* scan of a scope at a time: its program counter is one value.            *)
(***************************************************************************)
EXTENDS StartupReconcile

CONSTANTS
  ExtraConfs,      \* 0 for TRX, TRON_TRC20_EVENT_CONFS for a contract
  StartBlock,      \* TRON_START_BLOCK
  BatchSize,       \* blockBatchSize
  InitialCursors,  \* cursors the scope may be met at
  Probed           \* replicas with a liveness probe on /health

ASSUME ScanAssumption ==
  /\ ExtraConfs \in Nat
  /\ StartBlock \in Nat
  /\ BatchSize \in Nat \ {0}
  /\ InitialCursors \subseteq Nat
  /\ Probed \subseteq Replica

VARIABLES
  pc,         \* where the scan of each replica stands
  target,     \* latestBlock of scanTrx/scanTrc20: the newest block to scan
  from,       \* fromBlock
  next,       \* batchStart, then the block being committed
  batchEnd,   \* batchEnd
  got         \* the blocks of the batch that the range response held

scanVars == <<pc, target, from, next, batchEnd, got>>

Goto(p, l) == pc' = [pc EXCEPT ![p] = l]

\* The locals of the scan are gone.
ReturnTo(p, l) ==
  /\ pc' = [pc EXCEPT ![p] = l]
  /\ target' = [target EXCEPT ![p] = 0]
  /\ from' = [from EXCEPT ![p] = 0]
  /\ next' = [next EXCEPT ![p] = 0]
  /\ batchEnd' = [batchEnd EXCEPT ![p] = 0]
  /\ got' = [got EXCEPT ![p] = {}]

\* The scan returns, and the loop waits for the next tick.
Return(p) == ReturnTo(p, "idle")

-----------------------------------------------------------------------------
\* Run asks for the lease columns (ensureScopeLeases) and enters the poll loop ...
StartPolling(p) ==
  /\ pc[p] = "start"
  /\ Goto(p, "idle")
  /\ UNCHANGED <<target, from, next, batchEnd, got, chainVars, rowVars, blockVars, reconcileVars>>

\* ... or returns when the query fails: this process polls no more, while its
\* other goroutines go on.
StartFails(p) ==
  /\ pc[p] = "start"
  /\ Fault
  /\ Goto(p, "off")
  /\ UNCHANGED <<target, from, next, batchEnd, got, tip, rowVars, blockVars, reconcileVars>>

\* GetLatestBlockNumber; nothing is scanned while safeBlock <= 0.
Poll(p) ==
  /\ pc[p] = "idle"
  /\ tip - RequiredConfs > 0
  /\ target' = [target EXCEPT ![p] = tip - RequiredConfs - ExtraConfs]
  /\ Goto(p, "claim")
  /\ UNCHANGED <<from, next, batchEnd, got, chainVars, rowVars, blockVars, reconcileVars>>

\* withScopeLease: TryClaimScannerScope returns the cursor it found.
ClaimScope(p) ==
  /\ pc[p] = "claim"
  /\ \/ /\ TryClaimScannerScope(ScanId(p))
        /\ from' = [from EXCEPT ![p] = highest]
        /\ Goto(p, "read")
        /\ UNCHANGED <<target, next, batchEnd, got>>
     \/ /\ ~Claimable(ScanId(p))
        /\ Return(p)
        /\ UNCHANGED rowVars
  /\ UNCHANGED <<chainVars, blockVars, reconcileVars>>

\* Where the scan goes once fromBlock is known.
StartOrStop(p, f) == Goto(p, IF target[p] - f <= 0 THEN "release" ELSE "renew")

\* cursorAfterClaim reads the cursor again and keeps the larger; without a
\* cursor the scan starts after StartBlock, or at the tip (the next action).
CursorAfterClaim(p) ==
  LET f == MaxOf(from[p], highest)
      s == IF f = 0 THEN StartBlock ELSE f
  IN  /\ pc[p] = "read"
      /\ from' = [from EXCEPT ![p] = s]
      /\ next' = [next EXCEPT ![p] = s + 1]
      /\ IF f = 0 /\ StartBlock = 0
         THEN Goto(p, "cold")
         ELSE StartOrStop(p, s)
      /\ IF f = 0 THEN PassOver(1..StartBlock, "cold") ELSE UNCHANGED skipped
      /\ UNCHANGED <<target, batchEnd, got, chainVars, rowVars, published, queued, reconcileVars>>

\* Cold start at the safe tip: the tip becomes the cursor, and as nothing is
\* left to scan the lease is released.  Without a conflict everything between
\* the stored cursor and the tip is given up.
ColdStart(p) ==
  /\ pc[p] = "cold"
  /\ \/ /\ SetScannedBlock(ScanId(p), target[p])
        /\ PassOver((highest + 1)..target[p], "cold")
     \/ /\ SetScannedBlockConflict(ScanId(p))
        /\ UNCHANGED skipped
  /\ Goto(p, "release")
  /\ UNCHANGED <<target, from, next, batchEnd, got, chainVars, published, queued, reconcileVars>>

\* renewScopeLease: go on, or give up with ErrScopeLeaseLost.
RenewOrAbort(p, l) ==
  \/ RenewScannerScopeLease(ScanId(p)) /\ Goto(p, l)
  \/ lockedBy # ScanId(p) /\ Goto(p, "release") /\ UNCHANGED rowVars

\* The head of the batch loop.
BeginBatch(p) ==
  /\ pc[p] = "renew"
  /\ RenewOrAbort(p, "fetch")
  /\ batchEnd' = [batchEnd EXCEPT ![p] = MinOf(next[p] + BatchSize - 1, target[p])]
  /\ UNCHANGED <<target, from, next, got, chainVars, blockVars, reconcileVars>>

\* getBlockRange answers with some of the blocks asked for, and the lease is
\* renewed.  An incomplete answer is the provider's fault.
FetchBlocks(p, after) ==
  /\ pc[p] = "fetch"
  /\ \E blocks \in SUBSET (next[p]..batchEnd[p]) :
       /\ got' = [got EXCEPT ![p] = blocks]
       /\ IF blocks = next[p]..batchEnd[p] THEN UNCHANGED faults ELSE Fault
  /\ RenewOrAbort(p, after)
  /\ UNCHANGED <<target, from, next, batchEnd, tip, blockVars, reconcileVars>>

\* The foot of the batch loop: renew, then the next batch or the end.
EndBatch(p) ==
  /\ pc[p] = "tail"
  /\ RenewOrAbort(p, IF batchEnd[p] + 1 <= target[p] THEN "renew" ELSE "release")
  /\ next' = [next EXCEPT ![p] = batchEnd[p] + 1]
  /\ UNCHANGED <<target, from, batchEnd, got, chainVars, blockVars, reconcileVars>>

\* The deferred release; its error is only logged and the lease then stays.
ReleaseScope(p) ==
  /\ pc[p] = "release"
  /\ \/ ReleaseScannerScope(ScanId(p)) /\ UNCHANGED faults
     \/ Fault /\ UNCHANGED rowVars
  /\ Return(p)
  /\ UNCHANGED <<tip, blockVars, reconcileVars>>

\* A database or TronGrid call returns an error without having had an effect.
\* Every such error ends the scan, and the deferred release follows it; without
\* the tip or the lease there is nothing to release.
CallFails(p) ==
  /\ pc[p] \in {"idle", "claim", "read", "cold", "renew", "fetch", "events", "again", "found",
               "save", "tail"}
  /\ Fault
  /\ IF pc[p] \in {"idle", "claim"}
     THEN Return(p)
     ELSE Goto(p, "release") /\ UNCHANGED <<target, from, next, batchEnd, got>>
  /\ UNCHANGED <<tip, rowVars, blockVars, reconcileVars>>

\* The claim is committed but its acknowledgement is lost.
ClaimUnacknowledged(p) ==
  /\ pc[p] = "claim"
  /\ Fault
  /\ TryClaimScannerScope(ScanId(p))
  /\ Return(p)
  /\ UNCHANGED <<tip, blockVars, reconcileVars>>

\* The process is started again: it starts polling with new worker ids and runs
\* its startup reconciliation.
Restarted(p) ==
  /\ HolderDies(p)
  /\ ReturnTo(p, "start")
  /\ ReconcileReturn(p, "start")

Crash(p) ==
  /\ Fault
  /\ Restarted(p)
  /\ UNCHANGED <<tip, blockVars>>

\* handleHealth answers 503 while the poll loop is not running.  Such a process may
\* be restarted; with the liveness probe of the Helm chart it is (see Fairness).
RestartUnready(p) ==
  /\ pc[p] = "off"
  /\ Restarted(p)
  /\ UNCHANGED <<chainVars, blockVars>>

\* A lease whose holder is at work may run out too; that counts as a fault.
HolderAtWork ==
  \E p \in Replica : \/ lockedBy = ScanId(p) /\ pc[p] \notin {"start", "off", "idle", "claim"}
                     \/ lockedBy = ReconcileId(p) /\ rpc[p] \in {"jobs", "release"}

LeaseExpires ==
  /\ LeaseRunsOut
  /\ ~HolderAtWork
  /\ UNCHANGED <<chainVars, blockVars, reconcileVars, scanVars>>

LeaseLostByLiveWorker ==
  /\ LeaseRunsOut
  /\ HolderAtWork
  /\ Fault
  /\ UNCHANGED <<tip, blockVars, reconcileVars, scanVars>>

\* The steps of a replica's scan outside the handling of a batch.
CommonScanStep(p) ==
  \/ StartPolling(p)
  \/ Poll(p)
  \/ ClaimScope(p)
  \/ CursorAfterClaim(p)
  \/ ColdStart(p)
  \/ BeginBatch(p)
  \/ EndBatch(p)
  \/ ReleaseScope(p)

\* What goes wrong, and the restart that follows a failed start.
ScanFault(p) ==
  \/ StartFails(p)
  \/ CallFails(p)
  \/ ClaimUnacknowledged(p)
  \/ Crash(p)
  \/ RestartUnready(p)

\* The chain, the other goroutine and the clock.
Around ==
  \/ Mine /\ UNCHANGED scanVars
  \/ \E p \in Replica : ReconcileStep(p) /\ UNCHANGED scanVars
  \/ \E p \in Replica : ScanFault(p)
  \/ LeaseExpires
  \/ LeaseLostByLiveWorker

-----------------------------------------------------------------------------
ScanInit ==
  /\ \E c \in InitialCursors : ReconcileInit(c)
  /\ pc = [p \in Replica |-> "start"]
  /\ target = [p \in Replica |-> 0]
  /\ from = [p \in Replica |-> 0]
  /\ next = [p \in Replica |-> 0]
  /\ batchEnd = [p \in Replica |-> 0]
  /\ got = [p \in Replica |-> {}]

ScanTypeOK(labels) ==
  /\ ReconcileTypeOK
  /\ pc \in [Replica -> labels]
  /\ target \in [Replica -> Int]
  /\ from \in [Replica -> Int]
  /\ next \in [Replica -> Int]
  /\ batchEnd \in [Replica -> Int]
  /\ got \in [Replica -> SUBSET Int]

-----------------------------------------------------------------------------
\* What the scope promises whatever the replicas do (see CursorContract): the
\* cursor never moves down, and never over a block that was not dealt with.
Contract == INSTANCE CursorContract WITH cursor <- highest, accounted <- Accounted

=============================================================================
