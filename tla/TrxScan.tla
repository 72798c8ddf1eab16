------------------------------- MODULE TrxScan -------------------------------
(***************************************************************************)
(* The forward scan of the TRX scope (scanTrxWithLease): the blocks of a   *)
(* fetched batch are committed one by one, in order; for each block its    *)
(* matched events go to the outbox and then the cursor moves onto it.      *)
(*                                                                         *)
(* Every block is taken to hold a matching transfer, the worst case.       *)
(***************************************************************************)
EXTENDS ScopeScan

vars == <<chainVars, rowVars, blockVars, reconcileVars, scanVars>>

Label == {"start", "off", "idle", "claim", "read", "cold", "renew", "fetch", "enqueue", "save",
          "tail", "release"}

FetchTrxBlocks(p) == FetchBlocks(p, "enqueue")

\* The events of block "next" go to the outbox.  A block that the response did
\* not hold is passed over, and so is one whose insert fails: the error is
\* logged and the loop goes on to move the cursor.
EnqueueBlock(p) ==
  /\ pc[p] = "enqueue"
  /\ \/ /\ next[p] \in got[p]
        /\ published' = published \cup {next[p]}
        /\ UNCHANGED <<skipped, faults>>
     \/ /\ next[p] \in got[p]
        /\ Fault
        /\ PassOver({next[p]}, "outbox")
        /\ UNCHANGED published
     \/ /\ next[p] \notin got[p]
        /\ PassOver({next[p]}, "missing")
        /\ UNCHANGED <<published, faults>>
  /\ Goto(p, "save")
  /\ UNCHANGED <<target, from, next, batchEnd, got, tip, rowVars, queued, reconcileVars>>

\* (Mutant: the first block of a batch saves the cursor for all of it.)
SaveBatch(p) ==
  /\ pc[p] = "save"
  /\ \/ /\ SetScannedBlock(ScanId(p), batchEnd[p])
        /\ Goto(p, IF next[p] = batchEnd[p] THEN "tail" ELSE "enqueue")
        /\ next' = [next EXCEPT ![p] = @ + 1]
     \/ /\ SetScannedBlockConflict(ScanId(p))
        /\ Goto(p, "release")
        /\ UNCHANGED next
  /\ UNCHANGED <<target, from, batchEnd, got, chainVars, blockVars, reconcileVars>>

\* saveHighestBlock(next), a transaction of its own.
SaveBlock(p) ==
  /\ pc[p] = "save"
  /\ \/ /\ SetScannedBlock(ScanId(p), next[p])
        /\ Goto(p, IF next[p] = batchEnd[p] THEN "tail" ELSE "enqueue")
        /\ next' = [next EXCEPT ![p] = @ + 1]
     \/ /\ SetScannedBlockConflict(ScanId(p))
        /\ Goto(p, "release")
        /\ UNCHANGED next
  /\ UNCHANGED <<target, from, batchEnd, got, chainVars, blockVars, reconcileVars>>

\* The cursor is saved but the acknowledgement is lost: the scan ends.
SaveUnacknowledged(p) ==
  /\ pc[p] = "save"
  /\ Fault
  /\ SetScannedBlock(ScanId(p), next[p])
  /\ Goto(p, "release")
  /\ UNCHANGED <<target, from, next, batchEnd, got, tip, blockVars, reconcileVars>>

ScanStep(p) ==
  \/ CommonScanStep(p)
  \/ FetchTrxBlocks(p)
  \/ EnqueueBlock(p)
  \/ SaveBlock(p)

Init == ScanInit

Next ==
  \/ Around
  \/ \E p \in Replica : ScanStep(p) \/ SaveUnacknowledged(p)

Spec == Init /\ [][Next]_vars

\* Goroutines are scheduled, ten minutes pass, the chain grows, and a probe that
\* is configured does its work.  Faults are finite, so nothing is assumed of
\* calls that may fail.
Fairness ==
  /\ WF_vars(Mine /\ UNCHANGED scanVars)
  /\ WF_vars(LeaseExpires)
  /\ \A p \in Probed : WF_vars(RestartUnready(p))
  /\ \A p \in Replica : WF_vars(ScanStep(p))
  /\ \A p \in Replica : WF_vars(ReconcileStep(p) /\ UNCHANGED scanVars)

FairSpec == Spec /\ Fairness

-----------------------------------------------------------------------------
TypeOK == ScanTypeOK(Label)

(***************************************************************************)
(* Every block at or below the cursor is in the outbox, or in a reconcile  *)
(* job, or was passed over by one of the lines that say so.  The cursor is *)
(* what a restarted or competing replica resumes from (poller.go:464,      *)
(* main.go:294), so a block that escapes this is never looked at again.    *)
(***************************************************************************)
NoSilentGap == \A b \in 1..highest : b \in Accounted

(***************************************************************************)
(* NoSilentGap is not inductive: a scan that was overtaken long ago still  *)
(* saves its block when no lease forbids it.  What carries it through is   *)
(* that every block below a scan's position, and below the next job of a   *)
(* startup reconciliation, has been dealt with, and that this cannot be    *)
(* undone.                                                                 *)
(***************************************************************************)
DealtUpTo(n) == \A b \in 1..n : b \in Accounted

ScanPosition(p) ==
  /\ pc[p] = "read" => from[p] <= highest
  /\ pc[p] \in {"renew", "fetch", "enqueue", "save", "tail"} => DealtUpTo(next[p] - 1)
  /\ pc[p] = "save" => next[p] \in Accounted
  /\ pc[p] = "tail" => next[p] = batchEnd[p] + 1

ReconcilePosition(p) == rpc[p] \in {"claim", "jobs"} => DealtUpTo(rlast[p])

GapInv ==
  /\ TypeOK
  /\ DealtUpTo(highest)
  /\ \A p \in Replica : ScanPosition(p) /\ ReconcilePosition(p)

(***************************************************************************)
(* The scope implements the contract of a cursor: with leases stolen,      *)
(* calls failing and replicas crashing at any point, SetScannedBlock never *)
(* lowers the cursor and never lifts it over an unaccounted block.         *)
(***************************************************************************)
CursorContractHolds == Contract!Spec

(***************************************************************************)
(* The scan catches up with the chain: whatever lease a dead replica left  *)
(* behind, whichever replica is refused and whichever one's Run returned   *)
(* at its start (poller.go:195-199), the cursor reaches the last safe      *)
(* block once the chain stops growing.  Without a probe this takes more    *)
(* replicas than faults.                                                   *)
(***************************************************************************)
CatchesUp == (tip = MaxTip) ~> (highest >= MaxTip - RequiredConfs)

(***************************************************************************)
(* README.md:96 says that transient database errors do not drop in-flight  *)
(* matches: a block whose outbox insert failed is not left below the       *)
(* cursor (poller.go:457-466 logs the error and saves the cursor).         *)
(***************************************************************************)
TransientErrorKeepsMatch ==
  \A b \in 1..highest : <<b, "outbox">> \in skipped => b \in published \cup queued

=============================================================================
