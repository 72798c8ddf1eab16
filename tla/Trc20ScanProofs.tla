--------------------------- MODULE Trc20ScanProofs ---------------------------
(***************************************************************************)
(* Machine-checked proofs about Trc20Scan, for every set of replicas and   *)
(* every value of the parameters: type correctness, that the scope         *)
(* implements CursorContract, and how late the events API may be before an *)
(* event is lost.                                                          *)
(***************************************************************************)
EXTENDS Trc20Scan, TLAPS

ReconcileLabel == {"start", "read", "claim", "jobs", "release", "done"}

\* The bound of "tries" grows with nothing; a call keeps it or counts one more.
LEMMA TriesKept ==
  ASSUME tries \in [Replica -> 0..EventRetries], KeepTries
  PROVE  tries' \in [Replica -> 0..EventRetries]
BY Trc20Assumption DEF KeepTries

-----------------------------------------------------------------------------
\* Passing blocks over keeps the record a set of blocks with reasons.
LEMMA PassOverType ==
  ASSUME skipped \in SUBSET (Int \X Reason), NEW S \in SUBSET Int, NEW why \in Reason,
         PassOver(S, why)
  PROVE  skipped' \in SUBSET (Int \X Reason)
<1>1. S \X {why} \in SUBSET (Int \X Reason)
  OBVIOUS
<1> QED
  BY <1>1 DEF PassOver

\* A step of the startup reconciliation keeps the types.
LEMMA ReconcileType ==
  ASSUME ReconcileTypeOK, NEW p \in Replica, ReconcileStep(p)
  PROVE  ReconcileTypeOK'
<1> USE LeaseAssumption, ReconcileAssumption
    DEF ReconcileTypeOK, RowTypeOK, rowVars, chainVars, blockVars, WorkerId, ReconcileId
<1>1. CASE ReconcileStart(p)
  BY <1>1 DEF ReconcileStart, ReconcileReturn
<1>2. CASE ReconcileRead(p)
  BY <1>2 DEF ReconcileRead, ReconcileReturn
<1>3. CASE ReconcileClaim(p)
  BY <1>3 DEF ReconcileClaim, TryClaimScannerScope, ReconcileReturn
<1>4. CASE ReconcileEnqueue(p)
  <2>1. JobEnd(p) \in Nat
    BY <1>4 DEF ReconcileEnqueue, JobEnd, MinOf
  <2> DEFINE blocks == (rlast[p] + 1)..JobEnd(p)
  <2>2. blocks \in SUBSET Int /\ "job" \in Reason
    BY <2>1 DEF Reason
  <2>3. \/ queued' = queued \cup blocks /\ UNCHANGED <<skipped, faults>>
        \/ Fault /\ PassOver(blocks, "job") /\ UNCHANGED queued
    BY <1>4 DEF ReconcileEnqueue
  <2> HIDE DEF blocks
  <2>4. skipped' \in SUBSET (Int \X Reason)
    BY <2>2, <2>3, PassOverType
  <2>5. queued' \in SUBSET Int /\ faults' \in 0..MaxFaults
    <3>1. faults' = faults \/ Fault
      BY <2>3
    <3>2. queued' = queued \/ queued' = queued \cup blocks
      BY <2>3
    <3>3. faults' \in 0..MaxFaults
      BY <3>1 DEF Fault
    <3>4. queued' \in SUBSET Int
      BY <2>2, <3>2
    <3> QED
      BY <3>3, <3>4
  <2>6. RowTypeOK' /\ tip' \in Nat /\ published' \in SUBSET Int
    BY <1>4 DEF ReconcileEnqueue, RenewScannerScopeLease
  <2>7. rpc' = rpc /\ rsafe' = rsafe /\ rlast' \in [Replica -> Nat]
    BY <1>4, <2>1 DEF ReconcileEnqueue
  <2> QED
    BY <2>4, <2>5, <2>6, <2>7
<1>5. CASE ReconcileLeaseLost(p)
  BY <1>5 DEF ReconcileLeaseLost
<1>6. CASE ReconcileAdvance(p)
  BY <1>6 DEF ReconcileAdvance, SetScannedBlock, SetScannedBlockConflict, MaxOf
<1>7. CASE ReconcileRelease(p)
  BY <1>7 DEF ReconcileRelease, ReleaseScannerScope, Fault, ReconcileReturn
<1>8. CASE ReconcileCallFails(p)
  BY <1>8 DEF ReconcileCallFails, Fault, ReconcileReturn
<1>9. CASE ReconcileClaimUnacknowledged(p)
  BY <1>9 DEF ReconcileClaimUnacknowledged, Fault, TryClaimScannerScope, ReconcileReturn
<1> QED
  BY <1>1, <1>2, <1>3, <1>4, <1>5, <1>6, <1>7, <1>8, <1>9 DEF ReconcileStep

\* A step of the scan outside the handling of a batch keeps the types.
LEMMA CommonType ==
  ASSUME ScanTypeOK(Label), NEW p \in Replica, CommonScanStep(p) \/ ScanFault(p)
  PROVE  ScanTypeOK(Label)'
<1> USE LeaseAssumption, ReconcileAssumption, ScanAssumption
    DEF ScanTypeOK, ReconcileTypeOK, RowTypeOK, Label,
        rowVars, chainVars, blockVars, reconcileVars,
        WorkerId, ScanId, ReconcileId, Goto
<1>1. CASE Poll(p)
  BY <1>1 DEF Poll
<1>2. CASE ClaimScope(p)
  BY <1>2 DEF ClaimScope, TryClaimScannerScope, Return, ReturnTo
<1>3. CASE CursorAfterClaim(p)
  <2>1. skipped' \in SUBSET (Int \X Reason)
    <3>1. 1..StartBlock \in SUBSET Int /\ "cold" \in Reason
      BY DEF Reason
    <3>2. UNCHANGED skipped \/ PassOver(1..StartBlock, "cold")
      BY <1>3 DEF CursorAfterClaim
    <3> QED
      BY <3>1, <3>2, PassOverType
  <2>2. /\ from' \in [Replica -> Int] /\ next' \in [Replica -> Int]
        /\ pc' \in [Replica -> Label]
    <3> DEFINE f == MaxOf(from[p], highest)
               s == IF f = 0 THEN StartBlock ELSE f
    <3>1. s \in Int
      BY DEF MaxOf
    <3> HIDE DEF s
    <3>2. /\ from' = [from EXCEPT ![p] = s] /\ next' = [next EXCEPT ![p] = s + 1]
          /\ \E l \in {"cold", "release", "renew"} : pc' = [pc EXCEPT ![p] = l]
      BY <1>3 DEF CursorAfterClaim, StartOrStop, s
    <3> QED
      BY <3>1, <3>2
  <2>3. UNCHANGED <<target, batchEnd, got, chainVars, rowVars, published, queued, reconcileVars>>
    BY <1>3 DEF CursorAfterClaim
  <2> QED
    BY <2>1, <2>2, <2>3
<1>4. CASE ColdStart(p)
  <2>1. skipped' \in SUBSET (Int \X Reason)
    <3>1. (highest + 1)..target[p] \in SUBSET Int /\ "cold" \in Reason
      BY DEF Reason
    <3>2. UNCHANGED skipped \/ PassOver((highest + 1)..target[p], "cold")
      BY <1>4 DEF ColdStart
    <3> QED
      BY <3>1, <3>2, PassOverType
  <2>2. pc' \in [Replica -> Label]
    BY <1>4 DEF ColdStart
  <2>3. highest' \in Nat /\ UNCHANGED <<lockedBy, lockedUntil>>
    BY <1>4 DEF ColdStart, SetScannedBlock, SetScannedBlockConflict, MaxOf
  <2> QED
    BY <1>4, <2>1, <2>2, <2>3 DEF ColdStart
<1>5. CASE BeginBatch(p)
  BY <1>5 DEF BeginBatch, RenewOrAbort, RenewScannerScopeLease, MinOf
<1>6. CASE EndBatch(p)
  BY <1>6 DEF EndBatch, RenewOrAbort, RenewScannerScopeLease
<1>7. CASE ReleaseScope(p)
  BY <1>7 DEF ReleaseScope, ReleaseScannerScope, Fault, Return, ReturnTo
<1>8. CASE CallFails(p)
  BY <1>8 DEF CallFails, Fault, Return, ReturnTo
<1>9. CASE ClaimUnacknowledged(p)
  BY <1>9 DEF ClaimUnacknowledged, TryClaimScannerScope, Fault, Return, ReturnTo
<1>10. CASE Crash(p)
  BY <1>10 DEF Crash, Restarted, HolderDies, Fault, ReturnTo, ReconcileReturn
<1>11. CASE RestartUnready(p)
  BY <1>11 DEF RestartUnready, Restarted, HolderDies, ReturnTo, ReconcileReturn
<1>12. CASE StartPolling(p)
  BY <1>12 DEF StartPolling
<1>13. CASE StartFails(p)
  BY <1>13 DEF StartFails, Fault
<1> QED
  BY <1>1, <1>2, <1>3, <1>4, <1>5, <1>6, <1>7, <1>8, <1>9, <1>10, <1>11, <1>12, <1>13
     DEF CommonScanStep, ScanFault

\* What the parts of a batch that the events API answers for are.
LEMMA WindowType ==
  ASSUME TypeOK, NEW p \in Replica
  PROVE  /\ Found(p) \in SUBSET Int /\ Unindexed(p) \in SUBSET Int /\ OutOfWindow(p) \in SUBSET Int
         /\ next[p]..batchEnd[p] \subseteq Found(p) \cup Unindexed(p) \cup OutOfWindow(p)
         /\ Unindexed(p) \subseteq {b \in next[p]..batchEnd[p] : b > indexed}
<1>1. next[p] \in Int /\ batchEnd[p] \in Int /\ indexed \in Nat
  BY DEF TypeOK, ScanTypeOK
<1> QED
  BY <1>1 DEF Found, Unindexed, OutOfWindow

\* A step that handles a batch keeps the types.
LEMMA BatchType ==
  ASSUME TypeOK, NEW p \in Replica,
         \/ FetchTrc20Blocks(p) \/ FetchEvents(p) \/ EventsRenew(p)
         \/ EnqueueTrc20Block(p) \/ SaveTrc20(p) \/ SaveUnacknowledged(p)
  PROVE  TypeOK'
<1> USE LeaseAssumption, ReconcileAssumption, ScanAssumption, Trc20Assumption
    DEF TypeOK, ScanTypeOK, ReconcileTypeOK, RowTypeOK, Label,
        rowVars, chainVars, blockVars, reconcileVars, Goto
<1>1. CASE FetchTrc20Blocks(p)
  <2>1. got' \in [Replica -> SUBSET Int] /\ faults' \in 0..MaxFaults
    <3>1. PICK blocks \in SUBSET (next[p]..batchEnd[p]) :
            /\ got' = [got EXCEPT ![p] = blocks]
            /\ UNCHANGED faults \/ Fault
      BY <1>1 DEF FetchTrc20Blocks, FetchBlocks
    <3>2. blocks \in SUBSET Int
      OBVIOUS
    <3> QED
      BY <3>1, <3>2 DEF Fault
  <2>2. tries' \in [Replica -> 0..EventRetries]
    BY <1>1, TriesKept DEF FetchTrc20Blocks
  <2> QED
    BY <1>1, <2>1, <2>2 DEF FetchTrc20Blocks, FetchBlocks, RenewOrAbort, RenewScannerScopeLease
<1>2. CASE FetchEvents(p)
  <2>1. tries' \in [Replica -> 0..EventRetries]
    <3>1. \/ KeepTries
          \/ tries[p] + 1 < EventRetries /\ tries' = [tries EXCEPT ![p] = @ + 1]
      BY <1>2 DEF FetchEvents
    <3> QED
      BY <3>1, TriesKept
  <2>2. got' \in [Replica -> SUBSET Int]
    <3>1. got' = got \/ got' = [got EXCEPT ![p] = Found(p)]
      BY <1>2 DEF FetchEvents
    <3> QED
      BY <3>1, WindowType
  <2>3. skipped' \in SUBSET (Int \X Reason)
    <3> DEFINE late == Unindexed(p) \X {"unindexed"}
               out == OutOfWindow(p) \X {"missing"}
    <3>1. late \in SUBSET (Int \X Reason) /\ out \in SUBSET (Int \X Reason)
      BY WindowType DEF Reason
    <3>2. skipped' = skipped \/ skipped' = skipped \cup late \cup out
      BY <1>2 DEF FetchEvents
    <3> HIDE DEF late, out
    <3> QED
      BY <3>1, <3>2
  <2>4. pc' \in [Replica -> Label] /\ RowTypeOK'
    BY <1>2 DEF FetchEvents, RenewScannerScopeLease
  <2> QED
    BY <1>2, <2>1, <2>2, <2>3, <2>4 DEF FetchEvents
<1>3. CASE EventsRenew(p)
  <2>1. tries' \in [Replica -> 0..EventRetries]
    BY <1>3, TriesKept DEF EventsRenew
  <2> QED
    BY <1>3, <2>1 DEF EventsRenew, RenewOrAbort, RenewScannerScopeLease
<1>4. CASE EnqueueTrc20Block(p)
  <2>1. PICK b \in got[p] :
          /\ \/ published' = published \cup {b} /\ UNCHANGED <<skipped, faults>>
             \/ PassOver({b}, "outbox") /\ Fault /\ UNCHANGED published
          /\ got' = [got EXCEPT ![p] = @ \ {b}]
    BY <1>4 DEF EnqueueTrc20Block
  <2>2. {b} \in SUBSET Int /\ "outbox" \in Reason
    BY DEF Reason
  <2>3. skipped' \in SUBSET (Int \X Reason)
    BY <2>1, <2>2, PassOverType
  <2>4. /\ published' \in SUBSET Int /\ faults' \in 0..MaxFaults
        /\ got' \in [Replica -> SUBSET Int]
    <3>1. faults' = faults \/ Fault
      BY <2>1
    <3>2. published' = published \/ published' = published \cup {b}
      BY <2>1
    <3>3. faults' \in 0..MaxFaults
      BY <3>1 DEF Fault
    <3>4. published' \in SUBSET Int
      <4>1. published \in SUBSET Int /\ published \cup {b} \in SUBSET Int
        BY <2>2
      <4> QED
        BY <3>2, <4>1
    <3>5. got' \in [Replica -> SUBSET Int]
      <4>1. got[p] \ {b} \in SUBSET Int /\ got' = [got EXCEPT ![p] = got[p] \ {b}]
        BY <2>1
      <4> QED
        BY <4>1
    <3> QED
      BY <3>3, <3>4, <3>5
  <2>5. tries' \in [Replica -> 0..EventRetries]
    BY <1>4, TriesKept DEF EnqueueTrc20Block
  <2>6. /\ pc' \in [Replica -> Label]
        /\ UNCHANGED <<target, from, next, batchEnd, tip, rowVars, queued, reconcileVars, indexed>>
    BY <1>4 DEF EnqueueTrc20Block
  <2> QED
    BY <2>3, <2>4, <2>5, <2>6
<1>5. CASE SaveTrc20(p) \/ SaveUnacknowledged(p)
  <2>1. Trc20CursorAfterBatch(from[p], next[p], batchEnd[p]) \in Int
    BY DEF Trc20CursorAfterBatch, MaxOf
  <2>2. tries' \in [Replica -> 0..EventRetries]
    BY <1>5, TriesKept DEF SaveTrc20, SaveUnacknowledged
  <2> DEFINE cursor == Trc20CursorAfterBatch(from[p], next[p], batchEnd[p])
  <2>3. /\ SetScannedBlock(ScanId(p), cursor) \/ SetScannedBlockConflict(ScanId(p))
        /\ from' = [from EXCEPT ![p] = cursor] \/ from' = from
        /\ pc' = [pc EXCEPT ![p] = "tail"] \/ pc' = [pc EXCEPT ![p] = "release"]
        /\ Fault \/ UNCHANGED faults
        /\ UNCHANGED <<target, next, batchEnd, got, tip, blockVars, reconcileVars, indexed>>
    BY <1>5 DEF SaveTrc20, SaveUnacknowledged
  <2> HIDE DEF cursor
  <2>4. cursor \in Int
    BY <2>1 DEF cursor
  <2>5. RowTypeOK'
    BY <2>3, <2>4 DEF SetScannedBlock, SetScannedBlockConflict, MaxOf
  <2>6. from' \in [Replica -> Int] /\ pc' \in [Replica -> Label] /\ faults' \in 0..MaxFaults
    BY <2>3, <2>4 DEF Fault
  <2> QED
    BY <2>2, <2>3, <2>5, <2>6
<1> QED
  BY <1>1, <1>2, <1>3, <1>4, <1>5

\* The steps of the specification, one by one.
LEMMA StepIs ==
  ASSUME [Next]_vars
  PROVE  \/ UNCHANGED vars
         \/ Index
         \/ Mine /\ UNCHANGED scanVars /\ tip' - indexed <= MaxLag /\ KeepTries /\ UNCHANGED indexed
         \/ (LeaseExpires \/ LeaseLostByLiveWorker) /\ KeepTries /\ UNCHANGED indexed
         \/ \E p \in Replica : ReconcileStep(p) /\ UNCHANGED scanVars /\ KeepTries /\ UNCHANGED indexed
         \/ \E p \in Replica : (CommonScanStep(p) \/ ScanFault(p)) /\ KeepTries /\ UNCHANGED indexed
         \/ \E p \in Replica :
              \/ FetchTrc20Blocks(p) \/ FetchEvents(p) \/ EventsRenew(p)
              \/ EnqueueTrc20Block(p) \/ SaveTrc20(p) \/ SaveUnacknowledged(p)
BY DEF Next, Around, ScanStep

LEMMA TypeStep ==
  ASSUME TypeOK, [Next]_vars
  PROVE  TypeOK'
<1>t. /\ ScanTypeOK(Label) /\ ReconcileTypeOK /\ indexed \in Nat
      /\ tries \in [Replica -> 0..EventRetries]
  BY DEF TypeOK, ScanTypeOK
<1>1. CASE Mine /\ UNCHANGED scanVars /\ KeepTries /\ UNCHANGED indexed
  <2>1. tries' \in [Replica -> 0..EventRetries]
    BY <1>t, <1>1, TriesKept
  <2> QED
    BY <1>1, <2>1 DEF Mine, TypeOK, ScanTypeOK, ReconcileTypeOK, RowTypeOK,
       rowVars, blockVars, reconcileVars, scanVars
<1>2. CASE (LeaseExpires \/ LeaseLostByLiveWorker) /\ KeepTries /\ UNCHANGED indexed
  <2>1. /\ LeaseRunsOut
        /\ UNCHANGED faults \/ Fault
        /\ UNCHANGED <<tip, blockVars, reconcileVars, scanVars>>
    BY <1>2 DEF LeaseExpires, LeaseLostByLiveWorker, chainVars
  <2>2. lockedUntil' \in {"future", "past"} /\ UNCHANGED <<highest, lockedBy>>
    BY <2>1 DEF LeaseRunsOut
  <2>3. faults' \in 0..MaxFaults
    BY <1>t, <2>1, ReconcileAssumption DEF Fault, ReconcileTypeOK
  <2>4. tries' \in [Replica -> 0..EventRetries]
    BY <1>t, <1>2, TriesKept
  <2> QED
    BY <1>2, <2>1, <2>2, <2>3, <2>4
       DEF TypeOK, ScanTypeOK, ReconcileTypeOK, RowTypeOK, blockVars, reconcileVars, scanVars
<1>3. CASE UNCHANGED vars
  BY <1>3 DEF vars, TypeOK, ScanTypeOK, ReconcileTypeOK, RowTypeOK,
     rowVars, chainVars, blockVars, reconcileVars, scanVars
<1>4. CASE Index
  BY <1>4 DEF Index, TypeOK, ScanTypeOK, ReconcileTypeOK, RowTypeOK,
     rowVars, chainVars, blockVars, reconcileVars, scanVars
<1>5. ASSUME NEW p \in Replica, ReconcileStep(p), UNCHANGED scanVars, KeepTries, UNCHANGED indexed
      PROVE  TypeOK'
  <2>1. ReconcileTypeOK' /\ tries' \in [Replica -> 0..EventRetries]
    BY <1>t, <1>5, ReconcileType, TriesKept
  <2> QED
    BY <1>5, <2>1 DEF TypeOK, ScanTypeOK, scanVars
<1>6. ASSUME NEW p \in Replica, CommonScanStep(p) \/ ScanFault(p), KeepTries, UNCHANGED indexed
      PROVE  TypeOK'
  <2>1. ScanTypeOK(Label)' /\ tries' \in [Replica -> 0..EventRetries]
    BY <1>t, <1>6, CommonType, TriesKept
  <2> QED
    BY <1>6, <2>1 DEF TypeOK
<1> QED
  BY <1>1, <1>2, <1>3, <1>4, <1>5, <1>6, BatchType, StepIs

LEMMA TypeInit == Init => TypeOK
<1> SUFFICES ASSUME Init PROVE TypeOK
  OBVIOUS
<1>1. PICK c \in Nat : ReconcileInit(c)
  BY ScanAssumption DEF Init, ScanInit
<1>2. ReconcileTypeOK
  BY <1>1, ReconcileAssumption DEF ReconcileInit, RowInit, ReconcileTypeOK, RowTypeOK
<1>3. indexed \in Nat /\ tries \in [Replica -> 0..EventRetries]
  BY <1>2, Trc20Assumption DEF Init, ReconcileTypeOK
<1> QED
  BY <1>2, <1>3 DEF Init, ScanInit, TypeOK, ScanTypeOK, Label

(***************************************************************************)
(* Type correctness: in every behaviour the row of the contract's scope,   *)
(* the locals of scanTrc20WithLease and those of runStartupReconcile hold  *)
(* values of the right kind; in particular an answer is asked for at most  *)
(* TRON_TRC20_EVENT_RETRIES times (fetchTrc20EventsWithRetry).             *)
(***************************************************************************)
THEOREM TypeCorrect == Spec => []TypeOK
<1>1. TypeOK /\ [Next]_vars => TypeOK'
  BY TypeStep
<1> QED
  BY <1>1, TypeInit, PTL DEF Spec

-----------------------------------------------------------------------------
(***************************************************************************)
(* Neither the contract nor LagCovered is inductive: a scan that lost its  *)
(* lease may still save, so what lies below the positions of all scans and *)
(* reconciliations has to be dealt with too.  The two are proved at once.  *)
(* Kept(R) are the blocks in the outbox, in a job, or passed over for a    *)
(* reason in R: with every reason these are the accounted blocks, without  *)
(* "unindexed" the blocks that no event-index lag can have cost anything.  *)
(***************************************************************************)
Kept(R) == published \cup queued \cup {b \in Int : \E why \in R : <<b, why>> \in skipped}

KeptUpTo(R, n) == \A b \in 1..n : b \in Kept(R)

\* The lag that leaves at most the last block of a scan without its events.
LagBound == RequiredConfs + ExtraConfs + MinOf(Retain, 1)

\* The reasons the invariant is proved for.
Reasons(R) ==
  /\ Reason \ {"unindexed"} \subseteq R
  /\ "unindexed" \in R \/ MaxLag <= LagBound

\* A block of the batch that may be passed over for a reason outside R.
Late(R, p) == IF "unindexed" \in R \/ Retain = 0 THEN {} ELSE {target[p]}

Working == {"renew", "fetch", "events", "again", "found", "enqueue", "save", "tail"}

NotScanning == {"start", "off", "idle"}

ScanPosition(R, p) ==
  /\ pc[p] \notin NotScanning => target[p] <= tip - RequiredConfs - ExtraConfs
  /\ pc[p] = "read" => from[p] <= highest
  /\ pc[p] \in Working => KeptUpTo(R, next[p] - 1) /\ KeptUpTo(R, from[p])
  /\ pc[p] \in Working \ {"renew"} => batchEnd[p] <= target[p]
  /\ pc[p] \in {"found", "enqueue"} =>
       \A b \in next[p]..batchEnd[p] : b \in Kept(R) \cup Late(R, p) \cup got[p]
  /\ pc[p] \in {"save", "tail"} =>
       \A b \in next[p]..batchEnd[p] : b \in Kept(R) \cup Late(R, p)

ReconcilePosition(R, p) == rpc[p] \in {"claim", "jobs"} => KeptUpTo(R, rlast[p])

GapInv(R) ==
  /\ TypeOK
  /\ tip - indexed <= MaxLag
  /\ KeptUpTo(R, highest)
  /\ \A p \in Replica : ScanPosition(R, p) /\ ReconcilePosition(R, p)

-----------------------------------------------------------------------------
\* Every operation on the row keeps highest or raises it.
LEMMA RowMonotone ==
  ASSUME RowTypeOK, NEW id, NEW p, NEW n \in Int,
         \/ TryClaimScannerScope(id) \/ RenewScannerScopeLease(id)
         \/ ReleaseScannerScope(id) \/ SetScannedBlock(id, n)
         \/ SetScannedBlockConflict(id) \/ LeaseRunsOut \/ HolderDies(p)
         \/ UNCHANGED rowVars
  PROVE  highest' >= highest
BY DEF RowTypeOK, TryClaimScannerScope, RenewScannerScopeLease,
       ReleaseScannerScope, SetScannedBlock, SetScannedBlockConflict,
       LeaseRunsOut, HolderDies, rowVars, MaxOf

\* What only grows: the cursor, the chain, and the records of the blocks.
Grows ==
  /\ highest' >= highest /\ tip' >= tip
  /\ published \subseteq published' /\ queued \subseteq queued' /\ skipped \subseteq skipped'

LEMMA ReconcileGrows ==
  ASSUME ReconcileTypeOK, NEW p \in Replica, ReconcileStep(p)
  PROVE  Grows
<1> USE DEF ReconcileStep, ReconcileStart, ReconcileRead, ReconcileClaim, ReconcileEnqueue,
        ReconcileLeaseLost, ReconcileAdvance, ReconcileRelease,
        ReconcileCallFails, ReconcileClaimUnacknowledged
<1>1. RowTypeOK /\ rsafe[p] \in Int /\ tip \in Nat
  BY DEF ReconcileTypeOK
<1>2. highest' >= highest
  BY <1>1, RowMonotone
<1>3. tip' = tip
  BY DEF chainVars
<1>4. published' = published
  BY DEF blockVars
<1>5. queued \subseteq queued' /\ skipped \subseteq skipped'
  BY DEF blockVars, PassOver
<1> QED
  BY <1>1, <1>2, <1>3, <1>4, <1>5 DEF Grows

LEMMA CommonGrows ==
  ASSUME ScanTypeOK(Label), NEW p \in Replica, CommonScanStep(p) \/ ScanFault(p)
  PROVE  Grows /\ tip' = tip
<1> USE DEF CommonScanStep, ScanFault, Poll, ClaimScope, CursorAfterClaim, ColdStart,
        BeginBatch, EndBatch, ReleaseScope, CallFails, ClaimUnacknowledged, Crash,
        StartPolling, StartFails, RestartUnready, Restarted
<1>1. RowTypeOK /\ target[p] \in Int /\ tip \in Nat
  BY DEF ScanTypeOK, ReconcileTypeOK
<1>2. highest' >= highest
  BY <1>1, RowMonotone DEF RenewOrAbort
<1>3. tip' = tip
  BY DEF chainVars
<1>4. published' = published /\ queued' = queued
  BY DEF blockVars
<1>5. skipped \subseteq skipped'
  BY DEF blockVars, PassOver
<1> QED
  BY <1>1, <1>2, <1>3, <1>4, <1>5 DEF Grows

LEMMA BatchGrows ==
  ASSUME TypeOK, NEW p \in Replica,
         \/ FetchTrc20Blocks(p) \/ FetchEvents(p) \/ EventsRenew(p)
         \/ EnqueueTrc20Block(p) \/ SaveTrc20(p) \/ SaveUnacknowledged(p)
  PROVE  Grows /\ tip' = tip /\ indexed' = indexed
<1> USE DEF FetchTrc20Blocks, FetchBlocks, FetchEvents, EventsRenew, EnqueueTrc20Block,
        SaveTrc20, SaveUnacknowledged
<1>1. RowTypeOK /\ tip \in Nat /\ Trc20CursorAfterBatch(from[p], next[p], batchEnd[p]) \in Int
  BY Trc20Assumption DEF TypeOK, ScanTypeOK, ReconcileTypeOK, Trc20CursorAfterBatch, MaxOf
<1>2. highest' >= highest
  BY <1>1, RowMonotone DEF RenewOrAbort, rowVars
<1>3. tip' = tip /\ indexed' = indexed
  BY DEF chainVars
<1>4. queued' = queued
  BY DEF blockVars
<1>5. published \subseteq published' /\ skipped \subseteq skipped'
  BY DEF blockVars, PassOver
<1> QED
  BY <1>1, <1>2, <1>3, <1>4, <1>5 DEF Grows

LEMMA StepGrows ==
  ASSUME TypeOK, [Next]_vars
  PROVE  Grows
<1>t. ScanTypeOK(Label) /\ ReconcileTypeOK /\ tip \in Nat /\ highest \in Nat
  BY DEF TypeOK, ScanTypeOK, ReconcileTypeOK, RowTypeOK
<1>1. CASE Mine
  BY <1>1, <1>t DEF Mine, rowVars, blockVars, Grows
<1>2. CASE LeaseExpires \/ LeaseLostByLiveWorker
  BY <1>2, <1>t DEF LeaseExpires, LeaseLostByLiveWorker, LeaseRunsOut, blockVars, chainVars, Grows
<1>3. CASE UNCHANGED vars \/ Index
  BY <1>3, <1>t DEF vars, Index, rowVars, blockVars, chainVars, Grows
<1> QED
  BY <1>t, <1>1, <1>2, <1>3, ReconcileGrows, CommonGrows, BatchGrows, StepIs

-----------------------------------------------------------------------------
\* A block that was kept stays so.
LEMMA KeptGrows ==
  ASSUME Grows, NEW R
  PROVE  Kept(R) \subseteq Kept(R)'
BY DEF Grows, Kept

LEMMA KeptUpToGrows ==
  ASSUME NEW R, Kept(R) \subseteq Kept(R)', NEW n, KeptUpTo(R, n)
  PROVE  \A b \in 1..n : b \in Kept(R)'
BY DEF KeptUpTo

\* A block passed over for a reason in R is kept.
LEMMA PassedOver ==
  ASSUME NEW R, NEW S \in SUBSET Int, NEW why \in R, S \X {why} \subseteq skipped'
  PROVE  S \subseteq Kept(R)'
<1> SUFFICES ASSUME NEW b \in S PROVE b \in Kept(R)'
  OBVIOUS
<1>1. <<b, why>> \in skipped' /\ b \in Int
  OBVIOUS
<1> QED
  BY <1>1 DEF Kept

\* A scan that does not move keeps its position, whatever the others do.
LEMMA ScanPositionKept ==
  ASSUME NEW R, Kept(R) \subseteq Kept(R)', NEW q \in Replica, ScanPosition(R, q),
         tip \in Nat, tip' \in Nat, tip' >= tip,
         highest \in Nat, highest' \in Nat, highest' >= highest,
         target[q] \in Int, from[q] \in Int,
         pc'[q] = pc[q], target'[q] = target[q], from'[q] = from[q], next'[q] = next[q],
         batchEnd'[q] = batchEnd[q], got'[q] = got[q]
  PROVE  ScanPosition(R, q)'
<1> USE DEF ScanPosition
<1>1. pc'[q] \notin NotScanning => target'[q] <= tip' - RequiredConfs - ExtraConfs
  BY ReconcileAssumption, ScanAssumption
<1>2. pc'[q] = "read" => from'[q] <= highest'
  OBVIOUS
<1>3. pc'[q] \in Working => KeptUpTo(R, next[q] - 1)' /\ KeptUpTo(R, from[q])'
  BY KeptUpToGrows DEF KeptUpTo
<1>4. Late(R, q)' = Late(R, q)
  BY DEF Late
<1> QED
  BY <1>1, <1>2, <1>3, <1>4

\* A scan that gave up or returned claims nothing.
LEMMA ScanPositionIdle ==
  ASSUME NEW R, NEW q \in Replica, pc'[q] \in {"start", "off", "idle", "claim", "cold", "release"},
         pc'[q] \notin NotScanning => target'[q] <= tip' - RequiredConfs - ExtraConfs
  PROVE  ScanPosition(R, q)'
BY DEF ScanPosition, Working, NotScanning

LEMMA ReconcilePositionKept ==
  ASSUME NEW R, Kept(R) \subseteq Kept(R)', NEW q \in Replica, ReconcilePosition(R, q),
         rpc'[q] = rpc[q], rlast'[q] = rlast[q]
  PROVE  ReconcilePosition(R, q)'
BY DEF ReconcilePosition, KeptUpTo

LEMMA ReconcilePositionIdle ==
  ASSUME NEW R, NEW q \in Replica, rpc'[q] \in {"start", "read", "release", "done"}
  PROVE  ReconcilePosition(R, q)'
BY DEF ReconcilePosition

\* A step of the startup reconciliation keeps the invariant.
LEMMA ReconcileGap ==
  ASSUME NEW R, Reasons(R), GapInv(R), NEW p \in Replica, ReconcileStep(p),
         UNCHANGED scanVars, UNCHANGED indexed, TypeOK', Grows
  PROVE  GapInv(R)'
<1>t. /\ highest \in Nat /\ highest' \in Nat /\ rsafe[p] \in Int /\ rlast[p] \in Nat
      /\ rlast \in [Replica -> Nat] /\ rpc \in [Replica -> ReconcileLabel]
      /\ tip \in Nat /\ tip' \in Nat /\ tip' >= tip /\ highest' >= highest
      /\ target \in [Replica -> Int] /\ from \in [Replica -> Int]
  BY DEF GapInv, TypeOK, ScanTypeOK, ReconcileTypeOK, RowTypeOK, Grows, ReconcileLabel
<1>k. Kept(R) \subseteq Kept(R)'
  BY KeptGrows
<1>i. /\ KeptUpTo(R, highest)
      /\ \A q \in Replica : ScanPosition(R, q) /\ ReconcilePosition(R, q)
  BY DEF GapInv
<1>1. KeptUpTo(R, highest)'
  <2>1. CASE ReconcileAdvance(p)
    <3>1. highest' = highest \/ highest' = MaxOf(highest, rsafe[p])
      BY <2>1 DEF ReconcileAdvance, SetScannedBlock, SetScannedBlockConflict, rowVars
    <3>2. KeptUpTo(R, rlast[p]) /\ rlast[p] >= rsafe[p]
      BY <1>i, <2>1 DEF ReconcileAdvance, ReconcilePosition
    <3> QED
      BY <1>t, <1>k, <1>i, <3>1, <3>2 DEF KeptUpTo, MaxOf
  <2>2. CASE ~ReconcileAdvance(p)
    <3>1. highest' = highest
      BY <2>2 DEF ReconcileStep, ReconcileStart, ReconcileRead, ReconcileClaim, ReconcileEnqueue,
         ReconcileLeaseLost, ReconcileRelease,
         ReconcileCallFails, ReconcileClaimUnacknowledged, rowVars,
         TryClaimScannerScope, RenewScannerScopeLease, ReleaseScannerScope
    <3> QED
      BY <1>k, <1>i, <3>1 DEF KeptUpTo
  <2> QED
    BY <2>1, <2>2
<1>2. \A q \in Replica : ScanPosition(R, q)'
  BY <1>t, <1>k, <1>i, ScanPositionKept DEF scanVars
<1>3. ReconcilePosition(R, p)'
  <2>1. CASE ReconcileRead(p)
    <3>1. rpc'[p] = "done" \/ rlast'[p] = highest
      BY <2>1, <1>t DEF ReconcileRead, ReconcileReturn
    <3> QED
      BY <3>1, <1>k, <1>i, KeptUpToGrows DEF ReconcilePosition, KeptUpTo
  <2>2. CASE ReconcileClaim(p)
    <3>1. rpc'[p] = "done" \/ (rpc[p] = "claim" /\ rlast'[p] = rlast[p])
      BY <2>2, <1>t DEF ReconcileClaim, ReconcileReturn
    <3> QED
      BY <3>1, <1>k, <1>i DEF ReconcilePosition, KeptUpTo
  <2>3. CASE ReconcileEnqueue(p)
    <3>1. /\ rpc[p] = "jobs"
          /\ KeptUpTo(R, rlast[p])
          /\ rlast'[p] = JobEnd(p)
      BY <2>3, <1>t, <1>i DEF ReconcileEnqueue, ReconcilePosition
    <3>2. JobEnd(p) \in Int
      BY <1>t, ReconcileAssumption DEF JobEnd, MinOf
    <3> DEFINE blocks == (rlast[p] + 1)..JobEnd(p)
    <3>3. blocks \subseteq Kept(R)'
      <4>1. CASE queued' = queued \cup blocks
        BY <4>1 DEF Kept
      <4>2. CASE PassOver(blocks, "job")
        <5>1. "job" \in R /\ blocks \in SUBSET Int
          BY <3>2 DEF Reasons, Reason
        <5>2. blocks \X {"job"} \subseteq skipped'
          BY <4>2 DEF PassOver
        <5> QED
          BY <5>1, <5>2, PassedOver
      <4> QED
        BY <2>3, <4>1, <4>2 DEF ReconcileEnqueue
    <3>4. \A b \in 1..JobEnd(p) : b \in 1..rlast[p] \/ b \in blocks
      BY <1>t, <3>2
    <3> HIDE DEF blocks
    <3>5. \A b \in 1..JobEnd(p) : b \in Kept(R)'
      BY <1>k, <3>1, <3>3, <3>4 DEF KeptUpTo
    <3> QED
      BY <3>1, <3>5 DEF ReconcilePosition, KeptUpTo
  <2>4. CASE \/ ReconcileStart(p) \/ ReconcileLeaseLost(p) \/ ReconcileAdvance(p)
             \/ ReconcileRelease(p) \/ ReconcileCallFails(p) \/ ReconcileClaimUnacknowledged(p)
    <3>1. rpc'[p] \in {"start", "read", "release", "done"}
      BY <2>4, <1>t DEF ReconcileStart, ReconcileLeaseLost, ReconcileAdvance, ReconcileRelease,
         ReconcileCallFails, ReconcileClaimUnacknowledged, ReconcileReturn
    <3> QED
      BY <3>1, ReconcilePositionIdle
  <2> QED
    BY <2>1, <2>2, <2>3, <2>4 DEF ReconcileStep
<1>4. ASSUME NEW q \in Replica, q # p
      PROVE  ReconcilePosition(R, q)'
  <2>1. rpc'[q] = rpc[q] /\ rlast'[q] = rlast[q]
    BY <1>t, <1>4 DEF ReconcileStep, ReconcileStart, ReconcileRead, ReconcileClaim, ReconcileEnqueue,
       ReconcileLeaseLost, ReconcileAdvance, ReconcileRelease,
       ReconcileCallFails, ReconcileClaimUnacknowledged, ReconcileReturn
  <2> QED
    BY <2>1, <1>k, <1>i, ReconcilePositionKept
<1>5. tip' - indexed' <= MaxLag
  <2>1. tip' = tip
    BY DEF ReconcileStep, ReconcileStart, ReconcileRead, ReconcileClaim, ReconcileEnqueue,
       ReconcileLeaseLost, ReconcileAdvance, ReconcileRelease,
       ReconcileCallFails, ReconcileClaimUnacknowledged, chainVars
  <2> QED
    BY <2>1 DEF GapInv
<1> QED
  BY <1>1, <1>2, <1>3, <1>4, <1>5 DEF GapInv

-----------------------------------------------------------------------------
\* Whatever the batch lacked, the block that trc20CursorAfterBatch chooses has
\* nothing but kept blocks below it: a late block is the last of its batch and
\* of its scan, and the retained window or batchStart - 1 is below it.
LEMMA CursorKept ==
  ASSUME NEW R, Reasons(R), GapInv(R), NEW p \in Replica, pc[p] = "save"
  PROVE  KeptUpTo(R, Trc20CursorAfterBatch(from[p], next[p], batchEnd[p]))
<1>t. from[p] \in Int /\ next[p] \in Int /\ batchEnd[p] \in Int /\ target[p] \in Int /\ Retain \in Nat
  BY Trc20Assumption DEF GapInv, TypeOK, ScanTypeOK
<1>i. /\ KeptUpTo(R, next[p] - 1) /\ KeptUpTo(R, from[p]) /\ batchEnd[p] <= target[p]
      /\ \A b \in next[p]..batchEnd[p] : b \in Kept(R) \cup Late(R, p)
  BY DEF GapInv, ScanPosition, Working, NotScanning
<1>1. CASE Retain = 0
  <2>1. \A b \in next[p]..batchEnd[p] : b \in Kept(R)
    BY <1>1, <1>i DEF Late
  <2> QED
    BY <1>1, <1>t, <1>i, <2>1 DEF Trc20CursorAfterBatch, KeptUpTo
<1>2. CASE Retain > 0
  <2>1. KeptUpTo(R, batchEnd[p] - Retain)
    <3> SUFFICES ASSUME NEW b \in 1..(batchEnd[p] - Retain) PROVE b \in Kept(R)
      BY DEF KeptUpTo
    <3>1. b # target[p] /\ (b \in 1..(next[p] - 1) \/ b \in next[p]..batchEnd[p])
      BY <1>t, <1>i, <1>2
    <3> QED
      BY <1>i, <3>1 DEF Late, KeptUpTo
  <2>2. \/ Trc20CursorAfterBatch(from[p], next[p], batchEnd[p]) = batchEnd[p] - Retain
        \/ Trc20CursorAfterBatch(from[p], next[p], batchEnd[p]) = next[p] - 1
        \/ Trc20CursorAfterBatch(from[p], next[p], batchEnd[p]) = from[p]
    BY <1>t, <1>2 DEF Trc20CursorAfterBatch, MaxOf
  <2> QED
    BY <1>i, <2>1, <2>2
<1> QED
  BY <1>t, <1>1, <1>2

\* A block whose events the API lacked is late: the tip is at most MaxLag ahead of
\* the index, and a scan stays behind the tip by the confirmations.
LEMMA UnindexedIsLate ==
  ASSUME NEW R, Reasons(R), GapInv(R), NEW p \in Replica, pc[p] = "events",
         "unindexed" \notin R
  PROVE  Unindexed(p) \subseteq Late(R, p)
<1>t. /\ tip \in Nat /\ indexed \in Nat /\ target[p] \in Int /\ batchEnd[p] \in Int
      /\ next[p] \in Int /\ tip - indexed <= MaxLag
      /\ Retain \in Nat /\ MaxLag \in Nat /\ RequiredConfs \in Nat /\ ExtraConfs \in Nat
  BY Trc20Assumption, ReconcileAssumption, ScanAssumption DEF GapInv, TypeOK, ScanTypeOK, ReconcileTypeOK
<1>i. target[p] <= tip - RequiredConfs - ExtraConfs /\ batchEnd[p] <= target[p]
  BY DEF GapInv, ScanPosition, Working, NotScanning
<1>m. MaxLag <= RequiredConfs + ExtraConfs + (IF Retain < 1 THEN Retain ELSE 1)
  BY DEF Reasons, LagBound, MinOf
<1> SUFFICES ASSUME NEW b \in Unindexed(p) PROVE b \in Late(R, p)
  OBVIOUS
<1>1. b \in Int /\ b <= batchEnd[p] /\ b > indexed
  BY <1>t DEF Unindexed
<1>2. Retain # 0 /\ b = target[p]
  BY <1>t, <1>i, <1>m, <1>1
<1> QED
  BY <1>2 DEF Late

\* A step of the scan outside the handling of a batch keeps its own position.
LEMMA CommonPosition ==
  ASSUME NEW R, Reasons(R), GapInv(R), NEW p \in Replica, CommonScanStep(p) \/ ScanFault(p),
         TypeOK', Grows, tip' = tip
  PROVE  ScanPosition(R, p)'
<1>t. /\ highest \in Nat /\ tip \in Nat /\ target[p] \in Int /\ next[p] \in Int
      /\ from[p] \in Int /\ batchEnd[p] \in Int
      /\ pc \in [Replica -> Label] /\ target \in [Replica -> Int] /\ from \in [Replica -> Int]
      /\ next \in [Replica -> Int] /\ batchEnd \in [Replica -> Int]
  BY DEF GapInv, TypeOK, ScanTypeOK, ReconcileTypeOK, RowTypeOK
<1>k. Kept(R) \subseteq Kept(R)'
  BY KeptGrows
<1>i. ScanPosition(R, p) /\ KeptUpTo(R, highest)
  BY DEF GapInv
<1>b. pc[p] \notin NotScanning => target[p] <= tip - RequiredConfs - ExtraConfs
  BY <1>i DEF ScanPosition
<1>1. CASE Poll(p)
  <2>1. pc'[p] = "claim" /\ target'[p] = tip - RequiredConfs - ExtraConfs
    BY <1>1, <1>t DEF Poll, Goto
  <2> QED
    BY <2>1, <1>t, ReconcileAssumption, ScanAssumption, ScanPositionIdle
<1>2. CASE ClaimScope(p)
  <2>1. CASE pc'[p] = "idle"
    BY <2>1, ScanPositionIdle DEF NotScanning
  <2>2. CASE pc'[p] # "idle"
    <3>1. /\ pc[p] = "claim" /\ pc'[p] = "read" /\ from'[p] = highest /\ highest' = highest
          /\ target'[p] = target[p]
      BY <1>2, <2>2, <1>t DEF ClaimScope, Return, ReturnTo, Goto, TryClaimScannerScope
    <3> QED
      BY <3>1, <1>t, <1>b DEF ScanPosition, Working, NotScanning
  <2> QED
    BY <2>1, <2>2
<1>3. CASE CursorAfterClaim(p)
  <2> DEFINE f == MaxOf(from[p], highest)
             s == IF f = 0 THEN StartBlock ELSE f
  <2>1. /\ pc[p] = "read" /\ from[p] <= highest
        /\ pc'[p] \in {"cold", "release", "renew"}
        /\ next'[p] = s + 1 /\ from'[p] = s /\ target'[p] = target[p]
        /\ f = 0 => PassOver(1..StartBlock, "cold")
    BY <1>3, <1>t, <1>i DEF CursorAfterClaim, Goto, StartOrStop, ScanPosition
  <2>2. f = highest
    BY <1>t, <2>1 DEF MaxOf
  <2>3. s \in Int /\ \A b \in 1..s : b \in Kept(R)'
    <3>1. CASE f = 0
      <4>1. "cold" \in R /\ 1..StartBlock \in SUBSET Int
        BY DEF Reasons, Reason
      <4>2. (1..StartBlock) \X {"cold"} \subseteq skipped'
        BY <2>1, <3>1 DEF PassOver
      <4>3. 1..StartBlock \subseteq Kept(R)'
        BY <4>1, <4>2, PassedOver
      <4> QED
        BY <3>1, <4>3, ScanAssumption
    <3>2. CASE f # 0
      <4>1. s = highest
        BY <2>2, <3>2
      <4> QED
        BY <1>t, <1>k, <1>i, <4>1 DEF KeptUpTo
    <3> QED
      BY <3>1, <3>2
  <2> HIDE DEF s
  <2>4. next'[p] - 1 = s
    BY <2>1, <2>3
  <2> QED
    BY <1>b, <2>1, <2>3, <2>4 DEF ScanPosition, KeptUpTo, Working, NotScanning
<1>4. CASE BeginBatch(p)
  <2>1. /\ pc[p] = "renew" /\ pc'[p] \in {"fetch", "release"}
        /\ target'[p] = target[p] /\ from'[p] = from[p] /\ next'[p] = next[p]
        /\ batchEnd'[p] = MinOf(next[p] + BatchSize - 1, target[p])
    BY <1>4, <1>t DEF BeginBatch, RenewOrAbort, Goto
  <2>2. batchEnd'[p] <= target'[p]
    BY <2>1, <1>t, ScanAssumption DEF MinOf
  <2>3. KeptUpTo(R, next[p] - 1) /\ KeptUpTo(R, from[p])
    BY <1>i, <2>1 DEF ScanPosition, Working, NotScanning
  <2> QED
    BY <1>b, <1>k, <2>1, <2>2, <2>3 DEF ScanPosition, KeptUpTo, Working, NotScanning
<1>5. CASE EndBatch(p)
  <2>1. CASE pc'[p] = "release"
    <3>1. pc[p] \notin NotScanning /\ target'[p] = target[p]
      BY <1>5 DEF EndBatch, NotScanning
    <3> QED
      BY <2>1, <3>1, <1>b, ScanPositionIdle
  <2>2. CASE pc'[p] # "release"
    <3>1. /\ pc[p] = "tail" /\ pc'[p] = "renew" /\ batchEnd[p] + 1 <= target[p]
          /\ next'[p] = batchEnd[p] + 1 /\ target'[p] = target[p] /\ from'[p] = from[p]
      BY <1>5, <2>2, <1>t DEF EndBatch, RenewOrAbort, Goto
    <3>2. /\ KeptUpTo(R, next[p] - 1) /\ KeptUpTo(R, from[p])
          /\ \A b \in next[p]..batchEnd[p] : b \in Kept(R) \cup Late(R, p)
      BY <1>i, <3>1 DEF ScanPosition, Working, NotScanning
    <3>3. ASSUME NEW b \in 1..(next'[p] - 1)
          PROVE  b \in Kept(R)'
      <4>1. b # target[p] /\ (b \in 1..(next[p] - 1) \/ b \in next[p]..batchEnd[p])
        BY <1>t, <3>1
      <4> QED
        BY <1>k, <3>2, <4>1 DEF Late, KeptUpTo
    <3> QED
      BY <1>b, <1>k, <3>1, <3>2, <3>3 DEF ScanPosition, KeptUpTo, Working, NotScanning
  <2> QED
    BY <2>1, <2>2
<1>6. CASE \/ ColdStart(p) \/ ReleaseScope(p) \/ CallFails(p)
           \/ ClaimUnacknowledged(p) \/ Crash(p)
           \/ StartPolling(p) \/ StartFails(p) \/ RestartUnready(p)
  <2>1. \/ pc'[p] \in NotScanning
        \/ pc'[p] = "release" /\ pc[p] \notin NotScanning /\ target'[p] = target[p]
    BY <1>6, <1>t DEF ColdStart, ReleaseScope, CallFails, ClaimUnacknowledged, Crash,
       StartPolling, StartFails, RestartUnready, Restarted, Return, ReturnTo, Goto, NotScanning
  <2> QED
    BY <2>1, <1>b, ScanPositionIdle DEF NotScanning
<1> QED
  BY <1>1, <1>2, <1>3, <1>4, <1>5, <1>6 DEF CommonScanStep, ScanFault

\* A step that handles a batch keeps its own position.
LEMMA BatchPosition ==
  ASSUME NEW R, Reasons(R), GapInv(R), NEW p \in Replica, TypeOK', Grows, tip' = tip,
         \/ FetchTrc20Blocks(p) \/ FetchEvents(p) \/ EventsRenew(p)
         \/ EnqueueTrc20Block(p) \/ SaveTrc20(p) \/ SaveUnacknowledged(p)
  PROVE  ScanPosition(R, p)'
<1>t. /\ target[p] \in Int /\ next[p] \in Int /\ from[p] \in Int /\ batchEnd[p] \in Int
      /\ pc \in [Replica -> Label] /\ from \in [Replica -> Int]
      /\ got \in [Replica -> SUBSET Int]
  BY DEF GapInv, TypeOK, ScanTypeOK
<1>k. Kept(R) \subseteq Kept(R)'
  BY KeptGrows
<1>i. ScanPosition(R, p)
  BY DEF GapInv
<1>u. /\ pc[p] \in Working \ {"renew"}
      /\ target'[p] = target[p] /\ next'[p] = next[p] /\ batchEnd'[p] = batchEnd[p]
  BY DEF FetchTrc20Blocks, FetchBlocks, FetchEvents, EventsRenew, EnqueueTrc20Block, SaveTrc20,
         SaveUnacknowledged, Working
<1>b. target'[p] <= tip' - RequiredConfs - ExtraConfs /\ batchEnd'[p] <= target'[p]
  BY <1>i, <1>u DEF ScanPosition, Working, NotScanning
<1>n. \A b \in 1..(next'[p] - 1) : b \in Kept(R)'
  BY <1>i, <1>k, <1>u DEF ScanPosition, KeptUpTo
<1>f. \A b \in 1..from[p] : b \in Kept(R)'
  BY <1>i, <1>k, <1>u DEF ScanPosition, KeptUpTo
<1>l. Late(R, p)' = Late(R, p)
  BY <1>u DEF Late
<1>0. CASE pc'[p] = "release"
  BY <1>0, <1>b, ScanPositionIdle
<1>1. ASSUME FetchTrc20Blocks(p), pc'[p] # "release"
      PROVE  ScanPosition(R, p)'
  <2>1. pc'[p] = "events" /\ from'[p] = from[p]
    BY <1>1, <1>t DEF FetchTrc20Blocks, FetchBlocks, RenewOrAbort, Goto
  <2> QED
    BY <2>1, <1>b, <1>n, <1>f DEF ScanPosition, KeptUpTo
<1>2. ASSUME FetchEvents(p), pc'[p] # "release"
      PROVE  ScanPosition(R, p)'
  <2>1. CASE pc'[p] = "again"
    <3>1. from'[p] = from[p]
      BY <1>2 DEF FetchEvents
    <3> QED
      BY <2>1, <3>1, <1>b, <1>n, <1>f DEF ScanPosition, KeptUpTo
  <2>2. CASE pc'[p] # "again"
    <3>1. /\ pc[p] = "events" /\ pc'[p] = "found" /\ from'[p] = from[p] /\ got'[p] = Found(p)
          /\ skipped' = skipped \cup (Unindexed(p) \X {"unindexed"})
                                \cup (OutOfWindow(p) \X {"missing"})
      BY <1>2, <2>2, <1>t DEF FetchEvents, Goto
    <3>2. OutOfWindow(p) \subseteq Kept(R)'
      <4>1. "missing" \in R /\ OutOfWindow(p) \in SUBSET Int
        BY WindowType DEF Reasons, Reason, GapInv
      <4>2. OutOfWindow(p) \X {"missing"} \subseteq skipped'
        BY <3>1
      <4> QED
        BY <4>1, <4>2, PassedOver
    <3>3. Unindexed(p) \subseteq Kept(R)' \cup Late(R, p)
      <4>1. CASE "unindexed" \in R
        <5>1. Unindexed(p) \in SUBSET Int
          BY WindowType DEF GapInv
        <5>2. Unindexed(p) \X {"unindexed"} \subseteq skipped'
          BY <3>1
        <5>3. Unindexed(p) \subseteq Kept(R)'
          BY <4>1, <5>1, <5>2, PassedOver
        <5> QED
          BY <5>3
      <4>2. CASE "unindexed" \notin R
        <5>1. Unindexed(p) \subseteq Late(R, p)
          BY <3>1, <4>2, UnindexedIsLate
        <5> QED
          BY <5>1
      <4> QED
        BY <4>1, <4>2
    <3>4. next[p]..batchEnd[p] \subseteq Found(p) \cup Unindexed(p) \cup OutOfWindow(p)
      BY WindowType DEF GapInv
    <3>5. \A b \in next'[p]..batchEnd'[p] : b \in Kept(R)' \cup Late(R, p)' \cup got'[p]
      BY <1>u, <1>l, <3>1, <3>2, <3>3, <3>4
    <3> QED
      BY <1>b, <1>n, <1>f, <3>1, <3>5 DEF ScanPosition, KeptUpTo
  <2> QED
    BY <2>1, <2>2
<1>3. ASSUME EventsRenew(p), pc'[p] # "release"
      PROVE  ScanPosition(R, p)'
  <2>1. /\ from'[p] = from[p] /\ got'[p] = got[p]
        /\ \/ pc[p] = "again" /\ pc'[p] = "events"
           \/ pc[p] = "found" /\ pc'[p] = "enqueue"
           \/ pc[p] = "found" /\ got[p] = {} /\ pc'[p] = "save"
    BY <1>3, <1>t DEF EventsRenew, RenewOrAbort, Goto
  <2>2. pc[p] = "found" =>
          \A b \in next'[p]..batchEnd'[p] : b \in Kept(R)' \cup Late(R, p)' \cup got[p]
    BY <1>i, <1>k, <1>l, <1>u DEF ScanPosition
  <2> QED
    BY <2>1, <2>2, <1>b, <1>n, <1>f DEF ScanPosition, KeptUpTo
<1>4. ASSUME EnqueueTrc20Block(p), pc'[p] # "release"
      PROVE  ScanPosition(R, p)'
  <2>1. PICK b \in got[p] :
          /\ published' = published \cup {b} \/ PassOver({b}, "outbox")
          /\ got'[p] = got[p] \ {b}
          /\ pc'[p] = IF got[p] = {b} THEN "save" ELSE "enqueue"
    BY <1>4, <1>t DEF EnqueueTrc20Block, Goto
  <2>2. b \in Kept(R)'
    <3>1. CASE published' = published \cup {b}
      BY <3>1 DEF Kept
    <3>2. CASE PassOver({b}, "outbox")
      <4>1. "outbox" \in R /\ {b} \in SUBSET Int
        BY <1>t DEF Reasons, Reason
      <4>2. {b} \X {"outbox"} \subseteq skipped'
        BY <3>2 DEF PassOver
      <4>3. {b} \subseteq Kept(R)'
        BY <4>1, <4>2, PassedOver
      <4> QED
        BY <4>3
    <3> QED
      BY <2>1, <3>1, <3>2
  <2>3. \A c \in next'[p]..batchEnd'[p] : c \in Kept(R)' \cup Late(R, p)' \cup got[p]
    BY <1>4, <1>i, <1>k, <1>l, <1>u DEF ScanPosition, EnqueueTrc20Block
  <2>4. \A c \in next'[p]..batchEnd'[p] : c \in Kept(R)' \cup Late(R, p)' \cup got'[p]
    BY <2>1, <2>2, <2>3
  <2>5. pc'[p] = "save" => got'[p] = {}
    BY <2>1
  <2>6. from'[p] = from[p] /\ pc'[p] \in {"save", "enqueue"}
    BY <1>4, <2>1 DEF EnqueueTrc20Block
  <2> QED
    BY <2>4, <2>5, <2>6, <1>b, <1>n, <1>f DEF ScanPosition, KeptUpTo
<1>5. ASSUME SaveTrc20(p) \/ SaveUnacknowledged(p), pc'[p] # "release"
      PROVE  ScanPosition(R, p)'
  <2>1. /\ pc[p] = "save" /\ pc'[p] = "tail"
        /\ from'[p] = Trc20CursorAfterBatch(from[p], next[p], batchEnd[p])
    BY <1>5, <1>t DEF SaveTrc20, SaveUnacknowledged, Goto
  <2>2. \A b \in 1..from'[p] : b \in Kept(R)'
    BY <1>k, <2>1, CursorKept DEF KeptUpTo
  <2>3. \A b \in next'[p]..batchEnd'[p] : b \in Kept(R)' \cup Late(R, p)'
    BY <1>i, <1>k, <1>l, <1>u, <2>1 DEF ScanPosition
  <2> QED
    BY <2>1, <2>2, <2>3, <1>b, <1>n DEF ScanPosition, KeptUpTo
<1> QED
  BY <1>0, <1>1, <1>2, <1>3, <1>4, <1>5

\* A step of a scan moves the cursor over kept blocks only.
LEMMA ScanCursor ==
  ASSUME NEW R, Reasons(R), GapInv(R), NEW p \in Replica, TypeOK', Grows,
         \/ CommonScanStep(p) \/ ScanFault(p)
         \/ FetchTrc20Blocks(p) \/ FetchEvents(p) \/ EventsRenew(p)
         \/ EnqueueTrc20Block(p) \/ SaveTrc20(p) \/ SaveUnacknowledged(p)
  PROVE  KeptUpTo(R, highest)'
<1>t. highest \in Nat /\ highest' \in Nat /\ target[p] \in Int
  BY DEF GapInv, TypeOK, ScanTypeOK, ReconcileTypeOK, RowTypeOK
<1>k. Kept(R) \subseteq Kept(R)' /\ KeptUpTo(R, highest)
  BY KeptGrows DEF GapInv
<1>0. CASE highest' = highest
  BY <1>0, <1>k DEF KeptUpTo
<1>1. ASSUME ColdStart(p), highest' # highest
      PROVE  KeptUpTo(R, highest)'
  <2>1. highest' = MaxOf(highest, target[p]) /\ PassOver((highest + 1)..target[p], "cold")
    BY <1>1 DEF ColdStart, SetScannedBlock, SetScannedBlockConflict, rowVars
  <2> DEFINE blocks == (highest + 1)..target[p]
  <2>2. "cold" \in R /\ blocks \in SUBSET Int
    BY DEF Reasons, Reason
  <2>3. blocks \X {"cold"} \subseteq skipped'
    BY <2>1 DEF PassOver
  <2>4. \A b \in 1..highest' : b \in 1..highest \/ b \in blocks
    BY <1>t, <2>1 DEF MaxOf
  <2> HIDE DEF blocks
  <2>5. blocks \subseteq Kept(R)'
    BY <2>2, <2>3, PassedOver
  <2> QED
    BY <1>k, <2>4, <2>5 DEF KeptUpTo
<1>2. ASSUME SaveTrc20(p) \/ SaveUnacknowledged(p), highest' # highest
      PROVE  KeptUpTo(R, highest)'
  <2> DEFINE cursor == Trc20CursorAfterBatch(from[p], next[p], batchEnd[p])
  <2>1. pc[p] = "save" /\ highest' = MaxOf(highest, cursor)
    BY <1>2 DEF SaveTrc20, SaveUnacknowledged, SetScannedBlock, SetScannedBlockConflict, rowVars
  <2>2. KeptUpTo(R, cursor)
    BY <2>1, CursorKept
  <2>3. highest' = cursor
    BY <1>2, <2>1 DEF MaxOf
  <2> QED
    BY <1>k, <2>2, <2>3 DEF KeptUpTo
<1>3. ASSUME ~ColdStart(p), ~SaveTrc20(p), ~SaveUnacknowledged(p)
      PROVE  highest' = highest
  BY <1>3 DEF CommonScanStep, ScanFault, Poll, ClaimScope, CursorAfterClaim,
     BeginBatch, EndBatch, ReleaseScope, RenewOrAbort, FetchTrc20Blocks, FetchBlocks, rowVars,
     FetchEvents, EventsRenew, EnqueueTrc20Block, CallFails, ClaimUnacknowledged, Crash,
     StartPolling, StartFails, RestartUnready, Restarted,
     TryClaimScannerScope, RenewScannerScopeLease, ReleaseScannerScope, HolderDies
<1> QED
  BY <1>0, <1>1, <1>2, <1>3

\* A step of a scan leaves the other scans and the reconciliations alone.
LEMMA ScanLeavesOthers ==
  ASSUME NEW R, GapInv(R), NEW p \in Replica, TypeOK', Grows, NEW q \in Replica,
         \/ CommonScanStep(p) \/ ScanFault(p)
         \/ FetchTrc20Blocks(p) \/ FetchEvents(p) \/ EventsRenew(p)
         \/ EnqueueTrc20Block(p) \/ SaveTrc20(p) \/ SaveUnacknowledged(p)
  PROVE  /\ q # p => ScanPosition(R, q)'
         /\ ReconcilePosition(R, q)'
<1> USE DEF CommonScanStep, ScanFault, Poll, ClaimScope, CursorAfterClaim, ColdStart,
        BeginBatch, EndBatch, ReleaseScope, FetchTrc20Blocks, FetchBlocks, FetchEvents,
        EventsRenew, EnqueueTrc20Block, SaveTrc20, SaveUnacknowledged, CallFails,
        ClaimUnacknowledged, Crash, StartPolling, StartFails, RestartUnready, Restarted
<1>t. /\ pc \in [Replica -> Label] /\ target \in [Replica -> Int] /\ from \in [Replica -> Int]
      /\ next \in [Replica -> Int] /\ batchEnd \in [Replica -> Int]
      /\ got \in [Replica -> SUBSET Int]
  BY DEF GapInv, TypeOK, ScanTypeOK
<1>h. /\ highest \in Nat /\ highest' \in Nat /\ tip \in Nat /\ tip' \in Nat
      /\ tip' >= tip /\ highest' >= highest
  BY DEF GapInv, TypeOK, ScanTypeOK, ReconcileTypeOK, RowTypeOK, Grows
<1>k. /\ Kept(R) \subseteq Kept(R)'
      /\ ScanPosition(R, q) /\ ReconcilePosition(R, q)
  BY KeptGrows DEF GapInv
<1>1. ASSUME q # p
      PROVE  ScanPosition(R, q)'
  <2>1. /\ pc'[q] = pc[q] /\ target'[q] = target[q]
        /\ from'[q] = from[q] /\ next'[q] = next[q]
    BY <1>t, <1>1 DEF RenewOrAbort, StartOrStop, Return, ReturnTo, Goto
  <2>2. batchEnd'[q] = batchEnd[q] /\ got'[q] = got[q]
    BY <1>t, <1>1 DEF Return, ReturnTo
  <2> QED
    BY <1>t, <1>h, <1>k, <2>1, <2>2, ScanPositionKept
<1>2. ReconcilePosition(R, q)'
  <2>1. rpc \in [Replica -> ReconcileLabel] /\ rlast \in [Replica -> Nat]
    BY DEF GapInv, TypeOK, ScanTypeOK, ReconcileTypeOK, ReconcileLabel
  <2>2. \/ rpc'[q] = rpc[q] /\ rlast'[q] = rlast[q]
        \/ rpc'[q] = "start"
    BY <2>1 DEF ReconcileReturn, reconcileVars
  <2> QED
    BY <1>k, <2>2, ReconcilePositionKept, ReconcilePositionIdle
<1> QED
  BY <1>1, <1>2

-----------------------------------------------------------------------------
LEMMA GapStep ==
  ASSUME NEW R, Reasons(R), GapInv(R), [Next]_vars
  PROVE  GapInv(R)'
<1>t. TypeOK /\ TypeOK' /\ Grows /\ ScanTypeOK(Label)
  BY TypeStep, StepGrows DEF GapInv, TypeOK
<1>1. ASSUME UNCHANGED <<highest, blockVars, reconcileVars, scanVars>>,
             tip' - indexed' <= MaxLag
      PROVE  GapInv(R)'
  <2>1. /\ highest \in Nat /\ highest' \in Nat /\ tip \in Nat /\ tip' \in Nat
        /\ tip' >= tip /\ highest' >= highest
        /\ target \in [Replica -> Int] /\ from \in [Replica -> Int]
    BY <1>t DEF Grows, TypeOK, ScanTypeOK, ReconcileTypeOK, RowTypeOK
  <2>2. Kept(R) \subseteq Kept(R)'
    BY <1>t, KeptGrows
  <2>3. \A q \in Replica : ScanPosition(R, q)'
    BY <1>1, <2>1, <2>2, ScanPositionKept DEF GapInv, scanVars
  <2>4. \A q \in Replica : ReconcilePosition(R, q)'
    BY <1>1, <2>2, ReconcilePositionKept DEF GapInv, reconcileVars
  <2>5. KeptUpTo(R, highest)'
    BY <1>1, <2>2 DEF GapInv, KeptUpTo
  <2> QED
    BY <1>t, <1>1, <2>3, <2>4, <2>5 DEF GapInv
<1>2. CASE UNCHANGED vars
  <2>1. tip' - indexed' <= MaxLag
    BY <1>2 DEF GapInv, vars, chainVars
  <2> QED
    BY <1>1, <1>2, <2>1 DEF vars, rowVars
<1>3. CASE Index
  <2>1. tip' - indexed' <= MaxLag
    BY <1>3, <1>t, Trc20Assumption
       DEF GapInv, Index, chainVars, TypeOK, ScanTypeOK, ReconcileTypeOK
  <2> QED
    BY <1>1, <1>3, <2>1 DEF Index, rowVars
<1>4. CASE Mine /\ UNCHANGED scanVars /\ tip' - indexed <= MaxLag /\ UNCHANGED indexed
  BY <1>1, <1>4 DEF Mine, rowVars
<1>5. CASE (LeaseExpires \/ LeaseLostByLiveWorker) /\ UNCHANGED indexed
  <2>1. tip' - indexed' <= MaxLag
    BY <1>5 DEF GapInv, LeaseExpires, LeaseLostByLiveWorker, chainVars
  <2> QED
    BY <1>1, <1>5, <2>1 DEF LeaseExpires, LeaseLostByLiveWorker, LeaseRunsOut
<1>6. ASSUME NEW p \in Replica, ReconcileStep(p), UNCHANGED scanVars, UNCHANGED indexed
      PROVE  GapInv(R)'
  BY <1>t, <1>6, ReconcileGap
<1>7. ASSUME NEW p \in Replica, CommonScanStep(p) \/ ScanFault(p), UNCHANGED indexed
      PROVE  GapInv(R)'
  <2>1. tip' = tip
    BY <1>t, <1>7, CommonGrows
  <2>2. tip' - indexed' <= MaxLag
    BY <1>7, <2>1 DEF GapInv
  <2>3. KeptUpTo(R, highest)' /\ ScanPosition(R, p)'
    BY <1>t, <1>7, <2>1, CommonPosition, ScanCursor
  <2>4. \A q \in Replica : ScanPosition(R, q)' /\ ReconcilePosition(R, q)'
    BY <1>t, <1>7, <2>3, ScanLeavesOthers
  <2> QED
    BY <1>t, <2>2, <2>3, <2>4 DEF GapInv
<1>8. ASSUME NEW p \in Replica,
             \/ FetchTrc20Blocks(p) \/ FetchEvents(p) \/ EventsRenew(p)
             \/ EnqueueTrc20Block(p) \/ SaveTrc20(p) \/ SaveUnacknowledged(p)
      PROVE  GapInv(R)'
  <2>1. tip' = tip /\ indexed' = indexed
    BY <1>t, <1>8, BatchGrows
  <2>2. tip' - indexed' <= MaxLag
    BY <2>1 DEF GapInv
  <2>3. KeptUpTo(R, highest)' /\ ScanPosition(R, p)'
    BY <1>t, <1>8, <2>1, BatchPosition, ScanCursor
  <2>4. \A q \in Replica : ScanPosition(R, q)' /\ ReconcilePosition(R, q)'
    BY <1>t, <1>8, <2>3, ScanLeavesOthers
  <2> QED
    BY <1>t, <2>2, <2>3, <2>4 DEF GapInv
<1> QED
  BY <1>2, <1>3, <1>4, <1>5, <1>6, <1>7, <1>8, StepIs

LEMMA GapInit ==
  ASSUME NEW R, Init
  PROVE  GapInv(R)
<1>1. TypeOK
  BY TypeInit
<1>2. PICK c \in Nat : ReconcileInit(c)
  BY ScanAssumption DEF Init, ScanInit
<1>3. KeptUpTo(R, highest)
  BY <1>2 DEF ReconcileInit, RowInit, KeptUpTo, Kept
<1>4. \A p \in Replica : pc[p] = "start" /\ rpc[p] = "start"
  BY <1>2 DEF Init, ScanInit, ReconcileInit
<1>5. tip - indexed <= MaxLag
  BY DEF Init
<1> QED
  BY <1>1, <1>3, <1>4, <1>5 DEF GapInv, ScanPosition, ReconcilePosition, Working, NotScanning

\* The accounted blocks are those kept for whatever reason.
LEMMA AccountedIsKept == TypeOK => Accounted = Kept(Reason)
<1> SUFFICES ASSUME TypeOK PROVE Accounted = Kept(Reason)
  OBVIOUS
<1>1. skipped \in SUBSET (Int \X Reason)
  BY DEF TypeOK, ScanTypeOK, ReconcileTypeOK
<1>2. ASSUME NEW b
      PROVE  b \in {s[1] : s \in skipped} <=>
             b \in Int /\ \E why \in Reason : <<b, why>> \in skipped
  <2>1. ASSUME NEW s \in skipped, b = s[1]
        PROVE  b \in Int /\ \E why \in Reason : <<b, why>> \in skipped
    <3>1. s = <<s[1], s[2]>> /\ s[1] \in Int /\ s[2] \in Reason
      BY <1>1
    <3> QED
      BY <2>1, <3>1
  <2>2. ASSUME NEW why \in Reason, <<b, why>> \in skipped
        PROVE  b \in {s[1] : s \in skipped}
    BY <2>2
  <2> QED
    BY <2>1, <2>2
<1> QED
  BY <1>2 DEF Accounted, Kept

(***************************************************************************)
(* The TRC-20 scan implements the contract of a cursor: one save per       *)
(* batch, set back by the retained window and bounded below by batchStart  *)
(* - 1 and fromBlock (trc20CursorAfterBatch), never lowers the cursor and  *)
(* never lifts it over an unaccounted block, whichever workers call it.    *)
(***************************************************************************)
THEOREM ImplementsContract == Spec => CursorContractHolds
<1> DEFINE Inv == GapInv(Reason)
<1>r. Reasons(Reason)
  BY DEF Reasons, Reason
<1>1. Init => Contract!Init
  <2> SUFFICES ASSUME Init PROVE Contract!Init
    OBVIOUS
  <2>1. PICK c \in Nat : ReconcileInit(c)
    BY ScanAssumption DEF Init, ScanInit
  <2>2. highest = c /\ Accounted = 1..c
    BY <2>1 DEF ReconcileInit, RowInit, Accounted
  <2> QED
    BY <2>2 DEF Contract!Init
<1>2. Inv /\ [Next]_vars => Inv'
  BY <1>r, GapStep
<1>a. (TypeOK => Accounted = Kept(Reason))'
  BY AccountedIsKept, PTL
<1>3. Inv /\ [Next]_vars => [Contract!Next]_(Contract!contractVars)
  <2> SUFFICES ASSUME Inv, [Next]_vars PROVE Contract!Advance
    BY DEF Contract!Next
  <2>1. Inv' /\ Grows
    BY <1>2, StepGrows DEF GapInv
  <2>2. KeptUpTo(Reason, highest)' /\ TypeOK /\ TypeOK'
    BY <2>1 DEF GapInv
  <2>3. Accounted = Kept(Reason) /\ Accounted' = Kept(Reason)'
    BY <1>a, <2>2, AccountedIsKept
  <2>4. Kept(Reason) \subseteq Kept(Reason)'
    BY <2>1, KeptGrows
  <2>5. \A b \in 1..highest' : b \in Accounted'
    BY <2>2, <2>3 DEF KeptUpTo
  <2>6. highest' >= highest /\ Accounted \subseteq Accounted'
    BY <2>1, <2>3, <2>4 DEF Grows
  <2> QED
    BY <2>5, <2>6 DEF Contract!Advance
<1>4. Init => Inv
  BY GapInit
<1> QED
  BY <1>1, <1>2, <1>3, <1>4, PTL DEF Spec, CursorContractHolds, Contract!Spec

(***************************************************************************)
(* An events API that is behind the chain by no more than the              *)
(* confirmations and, when a window is retained at all, one block more     *)
(* costs no event.  A larger TRON_TRC20_CURSOR_RETAIN does not raise this  *)
(* bound: trc20CursorAfterBatch does not go below batchStart - 1, so only  *)
(* the last block of a scan is sure to be asked for again.                 *)
(***************************************************************************)
THEOREM LateEventsKept ==
  ASSUME MaxLag <= RequiredConfs + ExtraConfs + MinOf(Retain, 1)
  PROVE  Spec => []LagCovered
<1> DEFINE R == Reason \ {"unindexed"}
           Inv == GapInv(R)
<1>r. Reasons(R)
  BY DEF Reasons, LagBound
<1>1. Init => Inv
  BY GapInit
<1>2. Inv /\ [Next]_vars => Inv'
  BY <1>r, GapStep
<1>3. Inv => LagCovered
  BY DEF GapInv, KeptUpTo, Kept, LagCovered
<1> HIDE DEF Inv
<1> QED
  BY <1>1, <1>2, <1>3, PTL DEF Spec

=============================================================================
