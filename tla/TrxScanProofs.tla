---------------------------- MODULE TrxScanProofs ----------------------------
(***************************************************************************)
(* Machine-checked proofs about TrxScan, for every set of replicas and     *)
(* every value of the parameters: type correctness, the absence of silent  *)
(* gaps below the cursor, and that the scope implements CursorContract.    *)
(***************************************************************************)
EXTENDS TrxScan, TLAPS

-----------------------------------------------------------------------------
\* The operations on the row keep its type: highest stays a natural number and
\* locked_by names a worker, nobody, or a dead worker.
LEMMA RowType ==
  ASSUME RowTypeOK, NEW id \in WorkerId, NEW p \in Replica, NEW n \in Int,
         \/ TryClaimScannerScope(id) \/ RenewScannerScopeLease(id)
         \/ ReleaseScannerScope(id) \/ SetScannedBlock(id, n)
         \/ SetScannedBlockConflict(id) \/ LeaseRunsOut \/ HolderDies(p)
         \/ UNCHANGED rowVars
  PROVE  RowTypeOK'
BY DEF RowTypeOK, TryClaimScannerScope, RenewScannerScopeLease,
       ReleaseScannerScope, SetScannedBlock, SetScannedBlockConflict,
       LeaseRunsOut, HolderDies, rowVars, MaxOf

-----------------------------------------------------------------------------
\* A step of the startup reconciliation keeps the types.
LEMMA ReconcileType ==
  ASSUME TypeOK, NEW p \in Replica, ReconcileStep(p), UNCHANGED scanVars
  PROVE  TypeOK'
<1> USE LeaseAssumption, ReconcileAssumption, ScanAssumption
    DEF TypeOK, ScanTypeOK, ReconcileTypeOK, RowTypeOK, Label, Reason,
        rowVars, chainVars, blockVars, reconcileVars, scanVars,
        WorkerId, ScanId, ReconcileId
<1>1. CASE ReconcileStart(p)
  BY <1>1 DEF ReconcileStart, ReconcileReturn
<1>2. CASE ReconcileRead(p)
  BY <1>2 DEF ReconcileRead, ReconcileReturn
<1>3. CASE ReconcileClaim(p)
  BY <1>3 DEF ReconcileClaim, Claimable, TryClaimScannerScope, ReconcileReturn
<1>4. CASE ReconcileEnqueue(p)
  <2>1. JobEnd(p) \in Nat
    BY <1>4 DEF ReconcileEnqueue, JobEnd, MinOf
  <2>2. /\ queued' \in SUBSET Int
        /\ faults' \in 0..MaxFaults
        /\ skipped' \in SUBSET (Int \X Reason)
    <3> DEFINE blocks == (rlast[p] + 1)..JobEnd(p)
    <3>1. blocks \in SUBSET Int
      BY <2>1
    <3>2. blocks \X {"job"} \in SUBSET (Int \X Reason)
      BY <3>1
    <3>3. \/ queued' = queued \cup blocks /\ UNCHANGED <<skipped, faults>>
          \/ Fault /\ skipped' = skipped \cup (blocks \X {"job"}) /\ UNCHANGED queued
      BY <1>4 DEF ReconcileEnqueue, PassOver
    <3> DEFINE passed == blocks \X {"job"}
    <3> HIDE DEF blocks, passed
    <3>4. skipped' = skipped \/ skipped' = skipped \cup passed
      BY <3>3 DEF passed
    <3>5. passed \in SUBSET (Int \X Reason)
      BY <3>2 DEF passed
    <3>6. skipped' \in SUBSET (Int \X Reason)
      BY <3>4, <3>5
    <3>7. queued' \in SUBSET Int
      BY <3>1, <3>3
    <3>8. faults' \in 0..MaxFaults
      BY <3>3 DEF Fault
    <3> QED
      BY <3>6, <3>7, <3>8
  <2> QED
    BY <1>4, <2>1, <2>2 DEF ReconcileEnqueue, RenewScannerScopeLease
<1>5. CASE ReconcileLeaseLost(p)
  BY <1>5 DEF ReconcileLeaseLost
<1>6. CASE ReconcileAdvance(p)
  BY <1>6 DEF ReconcileAdvance, SetScannedBlock, SetScannedBlockConflict, MaxOf
<1>7. CASE ReconcileRelease(p)
  BY <1>7 DEF ReconcileRelease, ReleaseScannerScope, Fault, ReconcileReturn
<1>8. CASE ReconcileCallFails(p)
  BY <1>8 DEF ReconcileCallFails, Fault, ReconcileReturn
<1>9. CASE ReconcileClaimUnacknowledged(p)
  BY <1>9 DEF ReconcileClaimUnacknowledged, Fault, Claimable, TryClaimScannerScope, ReconcileReturn
<1> QED
  BY <1>1, <1>2, <1>3, <1>4, <1>5, <1>6, <1>7, <1>8, <1>9 DEF ReconcileStep

\* A step of the scan keeps the types.
LEMMA ScanType ==
  ASSUME TypeOK, NEW p \in Replica,
         \/ ScanStep(p) \/ ScanFault(p) \/ SaveUnacknowledged(p)
  PROVE  TypeOK'
<1> USE LeaseAssumption, ReconcileAssumption, ScanAssumption
    DEF TypeOK, ScanTypeOK, ReconcileTypeOK, RowTypeOK, Label, Reason,
        rowVars, chainVars, blockVars, reconcileVars, scanVars,
        WorkerId, ScanId, ReconcileId, Goto
<1>1. CASE Poll(p)
  BY <1>1 DEF Poll
<1>2. CASE ClaimScope(p)
  BY <1>2 DEF ClaimScope, Claimable, TryClaimScannerScope, Return, ReturnTo
<1>3. CASE CursorAfterClaim(p)
  BY <1>3 DEF CursorAfterClaim, StartOrStop, PassOver, MaxOf
<1>4. CASE ColdStart(p)
  BY <1>4 DEF ColdStart, SetScannedBlock, SetScannedBlockConflict, MaxOf, PassOver
<1>5. CASE BeginBatch(p)
  BY <1>5 DEF BeginBatch, RenewOrAbort, RenewScannerScopeLease, MinOf
<1>6. CASE EndBatch(p)
  BY <1>6 DEF EndBatch, RenewOrAbort, RenewScannerScopeLease
<1>7. CASE ReleaseScope(p)
  BY <1>7 DEF ReleaseScope, ReleaseScannerScope, Fault, Return, ReturnTo
<1>8. CASE FetchTrxBlocks(p)
  <2>1. got' \in [Replica -> SUBSET Int] /\ faults' \in 0..MaxFaults
    <3>1. PICK blocks \in SUBSET (next[p]..batchEnd[p]) :
            /\ got' = [got EXCEPT ![p] = blocks]
            /\ UNCHANGED faults \/ Fault
      BY <1>8 DEF FetchTrxBlocks, FetchBlocks
    <3>2. blocks \in SUBSET Int
      OBVIOUS
    <3> QED
      BY <3>1, <3>2 DEF Fault
  <2> QED
    BY <1>8, <2>1 DEF FetchTrxBlocks, FetchBlocks, RenewOrAbort, RenewScannerScopeLease
<1>9. CASE EnqueueBlock(p)
  <2>1. skipped' \in SUBSET (Int \X Reason) /\ published' \in SUBSET Int
    BY <1>9 DEF EnqueueBlock, PassOver
  <2>2. faults' \in 0..MaxFaults
    BY <1>9 DEF EnqueueBlock, Fault
  <2>3. pc' \in [Replica -> Label]
    BY <1>9 DEF EnqueueBlock
  <2> QED
    BY <1>9, <2>1, <2>2, <2>3 DEF EnqueueBlock
<1>10. CASE SaveBlock(p)
  BY <1>10 DEF SaveBlock, SetScannedBlock, SetScannedBlockConflict, MaxOf
<1>11. CASE SaveUnacknowledged(p)
  BY <1>11 DEF SaveUnacknowledged, SetScannedBlock, MaxOf, Fault
<1>12. CASE CallFails(p)
  BY <1>12 DEF CallFails, Fault, Return, ReturnTo
<1>13. CASE ClaimUnacknowledged(p)
  BY <1>13 DEF ClaimUnacknowledged, Claimable, TryClaimScannerScope, Fault, Return, ReturnTo
<1>14. CASE Crash(p)
  BY <1>14 DEF Crash, Restarted, HolderDies, Fault, ReturnTo, ReconcileReturn
<1>15. CASE RestartUnready(p)
  BY <1>15 DEF RestartUnready, Restarted, HolderDies, ReturnTo, ReconcileReturn
<1>16. CASE StartPolling(p)
  BY <1>16 DEF StartPolling
<1>17. CASE StartFails(p)
  BY <1>17 DEF StartFails, Fault
<1> QED
  BY <1>1, <1>2, <1>3, <1>4, <1>5, <1>6, <1>7, <1>8, <1>9, <1>10, <1>11, <1>12, <1>13, <1>14,
     <1>15, <1>16, <1>17 DEF ScanStep, CommonScanStep, ScanFault

LEMMA TypeStep ==
  ASSUME TypeOK, [Next]_vars
  PROVE  TypeOK'
<1>1. CASE Mine /\ UNCHANGED scanVars
  BY <1>1, ReconcileAssumption DEF Mine, TypeOK, ScanTypeOK, ReconcileTypeOK, RowTypeOK,
     rowVars, blockVars, reconcileVars, scanVars
<1>2. CASE LeaseExpires \/ LeaseLostByLiveWorker
  <2>1. /\ LeaseRunsOut
        /\ UNCHANGED faults \/ Fault
        /\ UNCHANGED <<tip, blockVars, reconcileVars, scanVars>>
    BY <1>2 DEF LeaseExpires, LeaseLostByLiveWorker, chainVars
  <2>2. /\ lockedUntil' \in {"future", "past"}
        /\ UNCHANGED <<highest, lockedBy>>
    BY <2>1 DEF LeaseRunsOut
  <2>3. faults' \in 0..MaxFaults
    BY <2>1, ReconcileAssumption DEF Fault, TypeOK, ScanTypeOK, ReconcileTypeOK
  <2> QED
    BY <2>1, <2>2, <2>3
       DEF TypeOK, ScanTypeOK, ReconcileTypeOK, RowTypeOK, blockVars, reconcileVars, scanVars
<1>3. CASE UNCHANGED vars
  BY <1>3 DEF vars, TypeOK, ScanTypeOK, ReconcileTypeOK, RowTypeOK,
     rowVars, chainVars, blockVars, reconcileVars, scanVars
<1> QED
  BY <1>1, <1>2, <1>3, ReconcileType, ScanType DEF Next, Around

LEMMA TypeInit == Init => TypeOK
<1> SUFFICES ASSUME Init PROVE TypeOK
  OBVIOUS
<1>1. PICK c \in Nat : ReconcileInit(c)
  BY ScanAssumption DEF Init, ScanInit
<1>2. ReconcileTypeOK
  BY <1>1, ReconcileAssumption DEF ReconcileInit, RowInit, ReconcileTypeOK, RowTypeOK
<1> QED
  BY <1>2 DEF Init, ScanInit, TypeOK, ScanTypeOK, Label

(***************************************************************************)
(* Type correctness: in every behaviour the row of scanner_cursors, the    *)
(* locals of scanTrxWithLease and those of runStartupReconcile hold values *)
(* of the right kind; in particular the fault counter stays in its bound.  *)
(***************************************************************************)
THEOREM TypeCorrect == Spec => []TypeOK
<1>1. TypeOK /\ [Next]_vars => TypeOK'
  BY TypeStep
<1> QED
  BY <1>1, TypeInit, PTL DEF Spec

-----------------------------------------------------------------------------
\* Every operation on the row keeps highest or raises it.
LEMMA RowMonotone ==
  ASSUME RowTypeOK, NEW id, NEW p, NEW n \in Int,
         \/ TryClaimScannerScope(id) \/ RenewScannerScopeLease(id)
         \/ ReleaseScannerScope(id) \/ SetScannedBlock(id, n)
         \/ SetScannedBlockConflict(id) \/ LeaseRunsOut \/ HolderDies(p)
         \/ UNCHANGED rowVars
  PROVE  highest' >= highest
BY DEF RowTypeOK, TryClaimScannerScope, RenewScannerScopeLease,
       ReleaseScannerScope, SetScannedBlock, SetScannedBlockConflict,
       LeaseRunsOut, HolderDies, rowVars, MaxOf

\* A block that was dealt with stays so, and the cursor never moves down.
LEMMA ReconcileMonotone ==
  ASSUME TypeOK, NEW p \in Replica, ReconcileStep(p)
  PROVE  /\ highest' >= highest
         /\ published \subseteq published' /\ queued \subseteq queued' /\ skipped \subseteq skipped'
<1>1. RowTypeOK /\ rsafe[p] \in Int
  BY DEF TypeOK, ScanTypeOK, ReconcileTypeOK
<1>2. highest' >= highest
  BY <1>1, RowMonotone
     DEF ReconcileStep, ReconcileStart, ReconcileRead, ReconcileClaim, ReconcileEnqueue,
         ReconcileLeaseLost, ReconcileAdvance, ReconcileRelease,
         ReconcileCallFails, ReconcileClaimUnacknowledged
<1>3. published' = published
  BY DEF ReconcileStep, ReconcileStart, ReconcileRead, ReconcileClaim, ReconcileEnqueue,
         ReconcileLeaseLost, ReconcileAdvance, ReconcileRelease,
         ReconcileCallFails, ReconcileClaimUnacknowledged, blockVars
<1>4. queued \subseteq queued' /\ skipped \subseteq skipped'
  BY DEF ReconcileStep, ReconcileStart, ReconcileRead, ReconcileClaim, ReconcileEnqueue,
         ReconcileLeaseLost, ReconcileAdvance, ReconcileRelease,
         ReconcileCallFails, ReconcileClaimUnacknowledged, blockVars, PassOver
<1> QED
  BY <1>2, <1>3, <1>4

LEMMA ScanMonotone ==
  ASSUME TypeOK, NEW p \in Replica,
         \/ ScanStep(p) \/ ScanFault(p) \/ SaveUnacknowledged(p)
  PROVE  /\ highest' >= highest
         /\ published \subseteq published' /\ queued \subseteq queued' /\ skipped \subseteq skipped'
<1>1. RowTypeOK /\ target[p] \in Int /\ next[p] \in Int
  BY DEF TypeOK, ScanTypeOK, ReconcileTypeOK
<1>2. highest' >= highest
  BY <1>1, RowMonotone
     DEF ScanStep, CommonScanStep, ScanFault, Poll, ClaimScope, CursorAfterClaim, ColdStart,
         BeginBatch, EndBatch, ReleaseScope, RenewOrAbort, FetchTrxBlocks, FetchBlocks,
         EnqueueBlock, SaveBlock, SaveUnacknowledged, CallFails, ClaimUnacknowledged, Crash,
         StartPolling, StartFails, RestartUnready, Restarted
<1>3. queued' = queued
  BY DEF ScanStep, CommonScanStep, ScanFault, Poll, ClaimScope, CursorAfterClaim, ColdStart,
         BeginBatch, EndBatch, ReleaseScope, FetchTrxBlocks, FetchBlocks, blockVars,
         EnqueueBlock, SaveBlock, SaveUnacknowledged, CallFails, ClaimUnacknowledged, Crash,
         StartPolling, StartFails, RestartUnready, Restarted
<1>4. published \subseteq published' /\ skipped \subseteq skipped'
  BY DEF ScanStep, CommonScanStep, ScanFault, Poll, ClaimScope, CursorAfterClaim, ColdStart,
         BeginBatch, EndBatch, ReleaseScope, FetchTrxBlocks, FetchBlocks, blockVars, PassOver,
         EnqueueBlock, SaveBlock, SaveUnacknowledged, CallFails, ClaimUnacknowledged, Crash,
         StartPolling, StartFails, RestartUnready, Restarted
<1> QED
  BY <1>2, <1>3, <1>4

LEMMA Monotone ==
  ASSUME TypeOK, [Next]_vars
  PROVE  highest' >= highest /\ Accounted \subseteq Accounted'
<1>1. /\ highest' >= highest
      /\ published \subseteq published' /\ queued \subseteq queued' /\ skipped \subseteq skipped'
  <2>1. CASE Mine /\ UNCHANGED scanVars
    BY <2>1 DEF Mine, rowVars, blockVars, TypeOK, ScanTypeOK, ReconcileTypeOK, RowTypeOK
  <2>2. CASE LeaseExpires \/ LeaseLostByLiveWorker
    BY <2>2 DEF LeaseExpires, LeaseLostByLiveWorker, LeaseRunsOut, blockVars,
       TypeOK, ScanTypeOK, ReconcileTypeOK, RowTypeOK
  <2>3. CASE UNCHANGED vars
    BY <2>3 DEF vars, rowVars, blockVars, TypeOK, ScanTypeOK, ReconcileTypeOK, RowTypeOK
  <2> QED
    BY <2>1, <2>2, <2>3, ReconcileMonotone, ScanMonotone DEF Next, Around
<1> QED
  BY <1>1 DEF Accounted

-----------------------------------------------------------------------------
\* A scan that does not move keeps its position, whatever the others do.
LEMMA ScanPositionKept ==
  ASSUME TypeOK, highest' \in Nat, highest' >= highest, Accounted \subseteq Accounted',
         NEW q \in Replica, ScanPosition(q),
         pc'[q] = pc[q], from'[q] = from[q], next'[q] = next[q], batchEnd'[q] = batchEnd[q]
  PROVE  ScanPosition(q)'
BY DEF ScanPosition, DealtUpTo, TypeOK, ScanTypeOK, ReconcileTypeOK, RowTypeOK

LEMMA ReconcilePositionKept ==
  ASSUME Accounted \subseteq Accounted', NEW q \in Replica, ReconcilePosition(q),
         rpc'[q] = rpc[q], rlast'[q] = rlast[q]
  PROVE  ReconcilePosition(q)'
BY DEF ReconcilePosition, DealtUpTo

\* A scan that gave up or returned claims nothing.
LEMMA ScanPositionIdle ==
  ASSUME NEW q \in Replica, pc'[q] \in {"start", "off", "idle", "claim", "cold", "release"}
  PROVE  ScanPosition(q)'
BY DEF ScanPosition

LEMMA ReconcilePositionIdle ==
  ASSUME NEW q \in Replica, rpc'[q] \in {"start", "read", "release", "done"}
  PROVE  ReconcilePosition(q)'
BY DEF ReconcilePosition

\* A step of the startup reconciliation keeps the invariant.
LEMMA ReconcileGap ==
  ASSUME GapInv, NEW p \in Replica, ReconcileStep(p), UNCHANGED scanVars,
         TypeOK', highest' >= highest, Accounted \subseteq Accounted'
  PROVE  GapInv'
<1> USE DEF GapInv
<1>t. /\ highest \in Nat /\ highest' \in Nat /\ rsafe[p] \in Int /\ rlast[p] \in Nat
      /\ rlast \in [Replica -> Nat] /\ rpc \in [Replica -> {"start", "read", "claim", "jobs", "release", "done"}]
  BY DEF TypeOK, ScanTypeOK, ReconcileTypeOK, RowTypeOK
<1>1. DealtUpTo(highest)'
  <2>1. CASE ReconcileAdvance(p)
    <3>1. highest' = highest \/ highest' = MaxOf(highest, rsafe[p])
      BY <2>1 DEF ReconcileAdvance, SetScannedBlock, SetScannedBlockConflict, rowVars
    <3>2. DealtUpTo(rlast[p]) /\ rlast[p] >= rsafe[p]
      BY <2>1 DEF ReconcileAdvance, ReconcilePosition
    <3> QED
      BY <1>t, <3>1, <3>2 DEF DealtUpTo, MaxOf
  <2>2. CASE ~ReconcileAdvance(p)
    <3>1. highest' = highest
      BY <2>2 DEF ReconcileStep, ReconcileStart, ReconcileRead, ReconcileClaim, ReconcileEnqueue,
         ReconcileLeaseLost, ReconcileRelease,
         ReconcileCallFails, ReconcileClaimUnacknowledged, rowVars,
         TryClaimScannerScope, RenewScannerScopeLease, ReleaseScannerScope
    <3> QED
      BY <3>1 DEF DealtUpTo
  <2> QED
    BY <2>1, <2>2
<1>2. \A q \in Replica : ScanPosition(q)'
  BY <1>t, ScanPositionKept DEF scanVars
<1>3. ReconcilePosition(p)'
  <2>1. CASE ReconcileRead(p)
    BY <2>1, <1>t DEF ReconcileRead, ReconcileReturn, ReconcilePosition, DealtUpTo
  <2>2. CASE ReconcileClaim(p)
    BY <2>2, <1>t DEF ReconcileClaim, ReconcileReturn, ReconcilePosition, DealtUpTo
  <2>3. CASE ReconcileEnqueue(p)
    <3>1. /\ rpc[p] = "jobs"
          /\ DealtUpTo(rlast[p])
          /\ rlast'[p] = JobEnd(p)
      BY <2>3, <1>t DEF ReconcileEnqueue, ReconcilePosition
    <3>2. JobEnd(p) \in Int
      BY <1>t, ReconcileAssumption DEF JobEnd, MinOf
    <3>3. (rlast[p] + 1)..JobEnd(p) \subseteq Accounted'
      <4>1. CASE queued' = queued \cup (rlast[p] + 1)..JobEnd(p)
        BY <4>1 DEF Accounted
      <4>2. CASE PassOver((rlast[p] + 1)..JobEnd(p), "job")
        <5> SUFFICES ASSUME NEW b \in (rlast[p] + 1)..JobEnd(p) PROVE b \in Accounted'
          OBVIOUS
        <5>1. <<b, "job">> \in skipped'
          BY <4>2 DEF PassOver
        <5> QED
          BY <5>1 DEF Accounted
      <4> QED
        BY <2>3, <4>1, <4>2 DEF ReconcileEnqueue
    <3>4. \A b \in 1..JobEnd(p) : b \in Accounted'
      BY <1>t, <3>1, <3>2, <3>3 DEF DealtUpTo
    <3> QED
      BY <3>1, <3>4 DEF ReconcilePosition, DealtUpTo
  <2>4. CASE \/ ReconcileStart(p) \/ ReconcileLeaseLost(p) \/ ReconcileAdvance(p)
             \/ ReconcileRelease(p) \/ ReconcileCallFails(p) \/ ReconcileClaimUnacknowledged(p)
             \/ ReconcileClaimUnacknowledged(p)
    <3>1. rpc'[p] \in {"start", "read", "release", "done"}
      BY <2>4, <1>t DEF ReconcileStart, ReconcileLeaseLost, ReconcileAdvance, ReconcileRelease,
         ReconcileCallFails, ReconcileClaimUnacknowledged, ReconcileReturn
    <3> QED
      BY <3>1, ReconcilePositionIdle
  <2> QED
    BY <2>1, <2>2, <2>3, <2>4 DEF ReconcileStep
<1>4. ASSUME NEW q \in Replica, q # p
      PROVE  ReconcilePosition(q)'
  <2>1. rpc'[q] = rpc[q] /\ rlast'[q] = rlast[q]
    BY <1>t, <1>4 DEF ReconcileStep, ReconcileStart, ReconcileRead, ReconcileClaim, ReconcileEnqueue,
       ReconcileLeaseLost, ReconcileAdvance, ReconcileRelease,
         ReconcileCallFails, ReconcileClaimUnacknowledged, ReconcileReturn
  <2> QED
    BY <2>1, ReconcilePositionKept
<1> QED
  BY <1>1, <1>2, <1>3, <1>4

\* A block passed over for any reason is dealt with.
LEMMA PassedOver ==
  ASSUME NEW S, NEW why, PassOver(S, why)
  PROVE  S \subseteq Accounted'
<1> SUFFICES ASSUME NEW b \in S PROVE b \in Accounted'
  OBVIOUS
<1>1. <<b, why>> \in skipped'
  BY DEF PassOver
<1> QED
  BY <1>1 DEF Accounted

\* A step of a scan keeps the invariant.
LEMMA ScanGap ==
  ASSUME GapInv, NEW p \in Replica,
         ScanStep(p) \/ ScanFault(p) \/ SaveUnacknowledged(p),
         TypeOK', highest' >= highest, Accounted \subseteq Accounted'
  PROVE  GapInv'
<1> USE DEF GapInv
<1>t. /\ highest \in Nat /\ highest' \in Nat
      /\ target[p] \in Int /\ next[p] \in Int /\ from[p] \in Int /\ batchEnd[p] \in Int
      /\ pc \in [Replica -> Label] /\ from \in [Replica -> Int] /\ next \in [Replica -> Int]
      /\ batchEnd \in [Replica -> Int]
  BY DEF TypeOK, ScanTypeOK, ReconcileTypeOK, RowTypeOK
<1>r. rpc \in [Replica -> {"start", "read", "claim", "jobs", "release", "done"}] /\ rlast \in [Replica -> Nat]
  BY DEF TypeOK, ScanTypeOK, ReconcileTypeOK
<1>1. DealtUpTo(highest)'
  <2>1. CASE ColdStart(p)
    <3>1. CASE highest' = highest
      BY <3>1 DEF DealtUpTo
    <3>2. CASE highest' # highest
      <4>1. highest' = MaxOf(highest, target[p]) /\ PassOver((highest + 1)..target[p], "cold")
        BY <2>1, <3>2 DEF ColdStart, SetScannedBlock, SetScannedBlockConflict, rowVars
      <4>2. (highest + 1)..target[p] \subseteq Accounted'
        BY <4>1, PassedOver
      <4>3. highest' = target[p]
        BY <1>t, <3>2, <4>1 DEF MaxOf
      <4>4. ASSUME NEW b \in 1..target[p]
            PROVE  b \in 1..highest \/ b \in (highest + 1)..target[p]
        BY <1>t
      <4>5. DealtUpTo(highest)
        OBVIOUS
      <4> QED
        BY <4>2, <4>3, <4>4, <4>5 DEF DealtUpTo
    <3> QED
      BY <3>1, <3>2
  <2>2. CASE SaveBlock(p) \/ SaveUnacknowledged(p)
    <3>1. highest' = highest \/ highest' = MaxOf(highest, next[p])
      BY <2>2 DEF SaveBlock, SaveUnacknowledged, SetScannedBlock, SetScannedBlockConflict, rowVars
    <3>2. DealtUpTo(next[p] - 1) /\ next[p] \in Accounted
      BY <2>2 DEF SaveBlock, SaveUnacknowledged, ScanPosition
    <3> QED
      BY <1>t, <3>1, <3>2 DEF DealtUpTo, MaxOf
  <2>3. CASE ~ColdStart(p) /\ ~SaveBlock(p) /\ ~SaveUnacknowledged(p)
    <3>1. highest' = highest
      BY <2>3 DEF ScanStep, CommonScanStep, ScanFault, Poll, ClaimScope, CursorAfterClaim,
         BeginBatch, EndBatch, ReleaseScope, RenewOrAbort, FetchTrxBlocks, FetchBlocks, rowVars,
         EnqueueBlock, CallFails, ClaimUnacknowledged, Crash,
         StartPolling, StartFails, RestartUnready, Restarted, TryClaimScannerScope,
         RenewScannerScopeLease, ReleaseScannerScope, HolderDies
    <3> QED
      BY <3>1 DEF DealtUpTo
  <2> QED
    BY <2>1, <2>2, <2>3
<1>2. ScanPosition(p)'
  <2>1. CASE ClaimScope(p)
    BY <2>1, <1>t DEF ClaimScope, Return, ReturnTo, Goto, TryClaimScannerScope, ScanPosition
  <2>2. CASE CursorAfterClaim(p)
    <3> DEFINE f == MaxOf(from[p], highest)
               s == IF f = 0 THEN StartBlock ELSE f
    <3>1. /\ pc[p] = "read" /\ from[p] <= highest
          /\ pc'[p] \in {"cold", "release", "renew"}
          /\ next'[p] = s + 1
          /\ f = 0 => PassOver(1..StartBlock, "cold")
      BY <2>2, <1>t DEF CursorAfterClaim, Goto, StartOrStop, ScanPosition
    <3>2. f = highest
      BY <1>t, <3>1 DEF MaxOf
    <3>3. CASE f = 0
      <4>1. 1..StartBlock \subseteq Accounted'
        BY <3>1, <3>3, PassedOver
      <4>2. next'[p] - 1 = StartBlock
        BY <3>1, <3>3, ScanAssumption
      <4> QED
        BY <3>1, <4>1, <4>2 DEF ScanPosition, DealtUpTo
    <3>4. CASE f # 0
      <4>1. next'[p] - 1 = highest
        BY <1>t, <3>1, <3>2, <3>4
      <4> QED
        BY <3>1, <4>1 DEF ScanPosition, DealtUpTo
    <3> QED
      BY <3>3, <3>4
  <2>3. CASE BeginBatch(p)
    BY <2>3, <1>t DEF BeginBatch, RenewOrAbort, Goto, ScanPosition, DealtUpTo
  <2>4. CASE FetchTrxBlocks(p)
    BY <2>4, <1>t DEF FetchTrxBlocks, FetchBlocks, RenewOrAbort, Goto, ScanPosition, DealtUpTo
  <2>5. CASE EnqueueBlock(p)
    <3>1. pc[p] = "enqueue" /\ pc'[p] = "save" /\ next'[p] = next[p]
      BY <2>5, <1>t DEF EnqueueBlock, Goto
    <3>2. next[p] \in Accounted'
      <4>1. CASE published' = published \cup {next[p]}
        BY <4>1 DEF Accounted
      <4>2. CASE PassOver({next[p]}, "outbox") \/ PassOver({next[p]}, "missing")
        BY <4>2, PassedOver
      <4> QED
        BY <2>5, <4>1, <4>2 DEF EnqueueBlock
    <3> QED
      BY <3>1, <3>2 DEF ScanPosition, DealtUpTo
  <2>6. CASE SaveBlock(p)
    <3>1. CASE pc'[p] = "release"
      BY <3>1, ScanPositionIdle
    <3>2. CASE pc'[p] # "release"
      <4>1. /\ pc[p] = "save" /\ next'[p] = next[p] + 1 /\ batchEnd'[p] = batchEnd[p]
            /\ pc'[p] = IF next[p] = batchEnd[p] THEN "tail" ELSE "enqueue"
        BY <2>6, <3>2, <1>t DEF SaveBlock, Goto
      <4>2. DealtUpTo(next[p] - 1) /\ next[p] \in Accounted
        BY <4>1 DEF ScanPosition
      <4>3. \A b \in 1..(next'[p] - 1) : b \in Accounted'
        BY <4>1, <4>2, <1>t DEF DealtUpTo
      <4> QED
        BY <4>1, <4>3 DEF ScanPosition, DealtUpTo
    <3> QED
      BY <3>1, <3>2
  <2>7. CASE EndBatch(p)
    <3>1. /\ pc[p] = "tail" /\ next'[p] = batchEnd[p] + 1
          /\ pc'[p] \in {"renew", "release"}
      BY <2>7, <1>t DEF EndBatch, RenewOrAbort, Goto
    <3>2. next'[p] = next[p] /\ DealtUpTo(next[p] - 1)
      BY <3>1 DEF ScanPosition
    <3> QED
      BY <3>1, <3>2 DEF ScanPosition, DealtUpTo
  <2>8. CASE \/ Poll(p) \/ ColdStart(p) \/ ReleaseScope(p) \/ SaveUnacknowledged(p)
             \/ CallFails(p) \/ ClaimUnacknowledged(p) \/ Crash(p)
             \/ StartPolling(p) \/ StartFails(p) \/ RestartUnready(p)
    <3>1. pc'[p] \in {"start", "off", "idle", "claim", "cold", "release"}
      BY <2>8, <1>t DEF Poll, ColdStart, ReleaseScope, SaveUnacknowledged, CallFails,
         ClaimUnacknowledged, Crash,
         StartPolling, StartFails, RestartUnready, Restarted, Return, ReturnTo, Goto
    <3> QED
      BY <3>1, ScanPositionIdle
  <2> QED
    BY <2>1, <2>2, <2>3, <2>4, <2>5, <2>6, <2>7, <2>8 DEF ScanStep, CommonScanStep, ScanFault
<1>3. ASSUME NEW q \in Replica, q # p
      PROVE  ScanPosition(q)'
  <2>1. /\ pc'[q] = pc[q] /\ from'[q] = from[q] /\ next'[q] = next[q] /\ batchEnd'[q] = batchEnd[q]
    BY <1>t, <1>3 DEF ScanStep, CommonScanStep, ScanFault, Poll, ClaimScope, CursorAfterClaim,
       StartOrStop, ColdStart, BeginBatch, EndBatch, ReleaseScope, RenewOrAbort, FetchTrxBlocks,
       FetchBlocks, EnqueueBlock, SaveBlock, SaveUnacknowledged, CallFails, ClaimUnacknowledged,
       Crash, StartPolling, StartFails, RestartUnready, Restarted, Return, ReturnTo, Goto
  <2> QED
    BY <1>t, <2>1, ScanPositionKept
<1>4. ASSUME NEW q \in Replica
      PROVE  ReconcilePosition(q)'
  <2>1. \/ rpc'[q] = rpc[q] /\ rlast'[q] = rlast[q]
        \/ rpc'[q] = "start"
    BY <1>r DEF ScanStep, CommonScanStep, ScanFault, Poll, ClaimScope, CursorAfterClaim,
       ColdStart, BeginBatch, EndBatch, ReleaseScope, FetchTrxBlocks, FetchBlocks, EnqueueBlock,
       SaveBlock, SaveUnacknowledged, CallFails, ClaimUnacknowledged, Crash,
       StartPolling, StartFails, RestartUnready, Restarted, ReconcileReturn,
       reconcileVars
  <2> QED
    BY <2>1, ReconcilePositionKept, ReconcilePositionIdle
<1> QED
  BY <1>1, <1>2, <1>3, <1>4

-----------------------------------------------------------------------------
LEMMA GapStep ==
  ASSUME GapInv, [Next]_vars
  PROVE  GapInv'
<1>1. TypeOK /\ TypeOK' /\ highest' >= highest /\ Accounted \subseteq Accounted'
  BY TypeStep, Monotone DEF GapInv
<1>2. CASE UNCHANGED <<highest, blockVars, reconcileVars, scanVars>>
  <2>1. highest' \in Nat /\ \A q \in Replica : ScanPosition(q)'
    BY <1>1, <1>2, ScanPositionKept
       DEF GapInv, scanVars, TypeOK, ScanTypeOK, ReconcileTypeOK, RowTypeOK
  <2>2. \A q \in Replica : ReconcilePosition(q)'
    BY <1>1, <1>2, ReconcilePositionKept DEF GapInv, reconcileVars
  <2>3. DealtUpTo(highest)'
    BY <1>1, <1>2 DEF GapInv, DealtUpTo
  <2> QED
    BY <1>1, <2>1, <2>2, <2>3 DEF GapInv
<1>3. CASE ~UNCHANGED <<highest, blockVars, reconcileVars, scanVars>>
  <2>1. \/ \E p \in Replica : ReconcileStep(p) /\ UNCHANGED scanVars
        \/ \E p \in Replica : ScanStep(p) \/ ScanFault(p) \/ SaveUnacknowledged(p)
    BY <1>3 DEF Next, Around, Mine, LeaseExpires, LeaseLostByLiveWorker, LeaseRunsOut, vars, rowVars
  <2> QED
    BY <1>1, <2>1, ReconcileGap, ScanGap
<1> QED
  BY <1>2, <1>3

LEMMA GapInit == Init => GapInv
<1> SUFFICES ASSUME Init PROVE GapInv
  OBVIOUS
<1>1. TypeOK
  BY TypeInit
<1>2. PICK c \in Nat : ReconcileInit(c)
  BY ScanAssumption DEF Init, ScanInit
<1>3. DealtUpTo(highest)
  BY <1>2 DEF ReconcileInit, RowInit, DealtUpTo, Accounted
<1>4. \A p \in Replica : pc[p] = "start" /\ rpc[p] = "start"
  BY <1>2 DEF Init, ScanInit, ReconcileInit
<1> QED
  BY <1>1, <1>3, <1>4 DEF GapInv, ScanPosition, ReconcilePosition

(***************************************************************************)
(* For any number of replicas, any batch sizes and any faults, no block at *)
(* or below the cursor escapes the outbox, the reconcile jobs and the      *)
(* lines that knowingly pass a block over (poller.go scanTrxWithLease,     *)
(* main.go runStartupReconcile).                                           *)
(***************************************************************************)
THEOREM NoGap == Spec => []NoSilentGap
<1>1. GapInv => NoSilentGap
  BY DEF GapInv, DealtUpTo, NoSilentGap
<1>2. GapInv /\ [Next]_vars => GapInv'
  BY GapStep
<1> QED
  BY <1>1, <1>2, GapInit, PTL DEF Spec

(***************************************************************************)
(* The TRX scan implements the contract of a cursor: SetScannedBlock       *)
(* (db/scanner.go) called by any mixture of live, stale and restarted      *)
(* workers moves the cursor only up and only over blocks dealt with.       *)
(***************************************************************************)
THEOREM ImplementsContract == Spec => CursorContractHolds
<1>1. Init => Contract!Init
  <2> SUFFICES ASSUME Init PROVE Contract!Init
    OBVIOUS
  <2>1. PICK c \in Nat : ReconcileInit(c)
    BY ScanAssumption DEF Init, ScanInit
  <2>2. highest = c /\ Accounted = 1..c
    BY <2>1 DEF ReconcileInit, RowInit, Accounted
  <2> QED
    BY <2>2 DEF Contract!Init
<1>2. GapInv /\ [Next]_vars => [Contract!Next]_(Contract!contractVars)
  <2> SUFFICES ASSUME GapInv, [Next]_vars PROVE Contract!Advance
    BY DEF Contract!Next
  <2>1. GapInv' /\ highest' >= highest /\ Accounted \subseteq Accounted'
    BY GapStep, Monotone DEF GapInv
  <2> QED
    BY <2>1 DEF Contract!Advance, GapInv, DealtUpTo
<1>3. GapInv /\ [Next]_vars => GapInv'
  BY GapStep
<1> QED
  BY <1>1, <1>2, <1>3, GapInit, PTL DEF Spec, CursorContractHolds, Contract!Spec

=============================================================================
