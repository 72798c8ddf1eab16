------------------------------ MODULE Trc20Scan ------------------------------
(***************************************************************************)
(* The forward scan of a TRC-20 contract (scanTrc20WithLease).  The blocks *)
(* of a batch only give the time window for a second request, to the       *)
(* events API; the events found are committed block by block, and the      *)
(* cursor is saved once per batch, Trc20CursorRetain blocks behind its     *)
(* end, so that the next poll looks at those blocks again: the API indexes *)
(* events some time after their block is on the chain.                     *)
(*                                                                         *)
(* Every block is taken to hold a matching Transfer event, and the events  *)
(* of a block are indexed all at once.                                     *)
(***************************************************************************)
EXTENDS ScopeScan

CONSTANTS
  Retain,        \* TRON_TRC20_CURSOR_RETAIN
  EventRetries,  \* TRON_TRC20_EVENT_RETRIES
  MaxLag         \* bound: blocks by which the events API is behind the chain

ASSUME Trc20Assumption ==
  /\ Retain \in Nat
  /\ EventRetries \in Nat \ {0}
  /\ MaxLag \in Nat

VARIABLES
  indexed,  \* the last block whose events the API returns
  tries     \* calls of the events API so far, for the batch in hand

vars == <<chainVars, rowVars, blockVars, reconcileVars, scanVars, indexed, tries>>

Label == {"start", "off", "idle", "claim", "read", "cold", "renew", "fetch", "events", "again",
          "found", "enqueue", "save", "tail", "release"}

\* tries lives as long as fetchTrc20EventsWithRetry does.
KeepTries ==
  tries' = [p \in Replica |-> IF pc'[p] \in {"events", "again"} THEN tries[p] ELSE 0]

-----------------------------------------------------------------------------
\* The API catches up with the chain, block by block.
Index ==
  /\ indexed < tip
  /\ indexed' = indexed + 1
  /\ UNCHANGED <<chainVars, rowVars, blockVars, reconcileVars, scanVars, tries>>

\* An answer without any block leaves the loop; the scan ends without an error.
FetchTrc20Blocks(p) ==
  /\ FetchBlocks(p, IF got'[p] = {} THEN "release" ELSE "events")
  /\ KeepTries
  /\ UNCHANGED indexed

\* getAllTrc20EventsByTimeRange: the window runs from the first to the last block
\* of the range response.
InWindow(p, b) == \E lo, hi \in got[p] : lo <= b /\ b <= hi

Found(p) == {b \in next[p]..batchEnd[p] : InWindow(p, b) /\ b <= indexed}

Unindexed(p) == {b \in next[p]..batchEnd[p] : InWindow(p, b) /\ b > indexed}

OutOfWindow(p) == {b \in next[p]..batchEnd[p] : ~InWindow(p, b)}

\* The lease is renewed before a page.  An answer without events is asked for
\* again, EventRetries times in all; otherwise "got" becomes the blocks with
\* events and the others are passed over.
FetchEvents(p) ==
  /\ pc[p] = "events"
  /\ \/ /\ RenewScannerScopeLease(ScanId(p))
        /\ IF Found(p) = {} /\ tries[p] + 1 < EventRetries
           THEN /\ Goto(p, "again")
                /\ tries' = [tries EXCEPT ![p] = @ + 1]
                /\ UNCHANGED <<got, skipped>>
           ELSE /\ Goto(p, "found")
                /\ got' = [got EXCEPT ![p] = Found(p)]
                /\ skipped' = skipped \cup (Unindexed(p) \X {"unindexed"})
                                      \cup (OutOfWindow(p) \X {"missing"})
                /\ KeepTries
     \/ /\ lockedBy # ScanId(p)
        /\ Goto(p, "release")
        /\ KeepTries
        /\ UNCHANGED <<rowVars, got, skipped>>
  /\ UNCHANGED <<target, from, next, batchEnd, chainVars, published, queued, reconcileVars, indexed>>

\* The lease is renewed after the answer, before another try and before the commit.
EventsRenew(p) ==
  /\ pc[p] \in {"again", "found"}
  /\ RenewOrAbort(p, CASE pc[p] = "again" -> "events"
                       [] pc[p] = "found" /\ got[p] # {} -> "enqueue"
                       [] OTHER -> "save")
  /\ KeepTries
  /\ UNCHANGED <<target, from, next, batchEnd, got, chainVars, blockVars, reconcileVars, indexed>>

\* The events of the next block with any go to the outbox; a failed insert is
\* logged and the loop goes on.
EnqueueTrc20Block(p) ==
  /\ pc[p] = "enqueue"
  /\ \E b \in got[p] :
       /\ \A c \in got[p] : b <= c
       /\ \/ published' = published \cup {b} /\ UNCHANGED <<skipped, faults>>
          \/ PassOver({b}, "outbox") /\ Fault /\ UNCHANGED published
       /\ got' = [got EXCEPT ![p] = @ \ {b}]
       /\ Goto(p, IF got[p] = {b} THEN "save" ELSE "enqueue")
  /\ KeepTries
  /\ UNCHANGED <<target, from, next, batchEnd, tip, rowVars, queued, reconcileVars, indexed>>

\* (Mutant: nothing is retained.)
CursorAtBatchEnd(fromBlock, batchStart, end) == end

\* (Mutant: the window is added.)
CursorAhead(fromBlock, batchStart, end) == MaxOf(end + Retain, fromBlock)

\* (Mutant: a batch that barely reaches past the window leaves the cursor where it was.)
CursorStays(fromBlock, batchStart, end) ==
  IF end - Retain <= batchStart THEN fromBlock ELSE end - Retain

Trc20CursorAfterBatch(fromBlock, batchStart, end) ==
  IF Retain = 0 THEN end
  ELSE MaxOf(MaxOf(end - Retain, batchStart - 1), fromBlock)

\* saveHighestBlock, once per batch.
SaveTrc20(p) ==
  LET cursor == Trc20CursorAfterBatch(from[p], next[p], batchEnd[p])
  IN  /\ pc[p] = "save"
      /\ \/ /\ SetScannedBlock(ScanId(p), cursor)
            /\ from' = [from EXCEPT ![p] = cursor]
            /\ Goto(p, "tail")
         \/ /\ SetScannedBlockConflict(ScanId(p))
            /\ Goto(p, "release")
            /\ UNCHANGED from
      /\ KeepTries
      /\ UNCHANGED <<target, next, batchEnd, got, chainVars, blockVars, reconcileVars, indexed>>

SaveUnacknowledged(p) ==
  /\ pc[p] = "save"
  /\ Fault
  /\ SetScannedBlock(ScanId(p), Trc20CursorAfterBatch(from[p], next[p], batchEnd[p]))
  /\ Goto(p, "release")
  /\ KeepTries
  /\ UNCHANGED <<target, from, next, batchEnd, got, tip, blockVars, reconcileVars, indexed>>

ScanStep(p) ==
  \/ CommonScanStep(p) /\ KeepTries /\ UNCHANGED indexed
  \/ FetchTrc20Blocks(p)
  \/ FetchEvents(p)
  \/ EventsRenew(p)
  \/ EnqueueTrc20Block(p)
  \/ SaveTrc20(p)

-----------------------------------------------------------------------------
Init ==
  /\ ScanInit
  /\ indexed \in {n \in 0..tip : tip - n <= MaxLag}
  /\ tries = [p \in Replica |-> 0]

Next ==
  \/ Index
  \/ Around /\ tip' - indexed <= MaxLag /\ KeepTries /\ UNCHANGED indexed
  \/ \E p \in Replica : ScanStep(p) \/ SaveUnacknowledged(p)

Spec == Init /\ [][Next]_vars

\* As for TRX; and the API does not stop indexing.
Fairness ==
  /\ WF_vars(Index)
  /\ WF_vars(Mine /\ tip' - indexed <= MaxLag /\ UNCHANGED <<scanVars, indexed>> /\ KeepTries)
  /\ WF_vars(LeaseExpires /\ KeepTries /\ UNCHANGED indexed)
  /\ \A p \in Probed : WF_vars(RestartUnready(p) /\ KeepTries /\ UNCHANGED indexed)
  /\ \A p \in Replica : WF_vars(ScanStep(p))
  /\ \A p \in Replica : WF_vars(ReconcileStep(p) /\ UNCHANGED <<scanVars, indexed>> /\ KeepTries)

FairSpec == Spec /\ Fairness

-----------------------------------------------------------------------------
TypeOK ==
  /\ ScanTypeOK(Label)
  /\ indexed \in Nat
  /\ tries \in [Replica -> 0..EventRetries]

(***************************************************************************)
(* The contract of a cursor, for a TRC-20 scope: with the cursor saved     *)
(* once per batch, set back by the retained window, and from a fromBlock   *)
(* that lags behind the batches, no save lowers it or lifts it over an     *)
(* unaccounted block (poller.go:660-665).                                  *)
(***************************************************************************)
CursorContractHolds == Contract!Spec

(***************************************************************************)
(* Events that the API does not show yet are not lost: while it is behind  *)
(* by no more than the confirmations and the retained window together, a   *)
(* block whose events were missing from an answer is in the outbox, or in  *)
(* a job, or was given up for another reason, before the cursor passes it  *)
(* (poller.go:977-990).                                                    *)
(***************************************************************************)
LagCovered ==
  \A b \in 1..highest : <<b, "unindexed">> \in skipped =>
    \/ b \in published \cup queued
    \/ \E why \in Reason \ {"unindexed"} : <<b, why>> \in skipped

(***************************************************************************)
(* The cursor follows the chain at the distance of the confirmations and   *)
(* the retained window, although every save is set back and every poll     *)
(* starts again inside the window.  A single replica needs the probe: a    *)
(* failed query at the start of Run ends its polling (poller.go:195-199).  *)
(***************************************************************************)
CatchesUp == (tip = MaxTip) ~> (highest >= MaxTip - RequiredConfs - ExtraConfs - Retain)

=============================================================================
