----------------------------- MODULE ScopeLease -----------------------------
(***************************************************************************)
(* One row of scanner_cursors: the cursor of a scope ("TRX" or a TRC-20    *)
(* contract) and the lease that lets one replica at a time scan the scope  *)
(* (internal/db/scanner.go).  Each operator below is one SQL statement or  *)
(* one transaction of the code, and so one atomic step of its caller.      *)
(*                                                                         *)
(* locked_until is modelled by where it lies relative to now(): the lease  *)
(* lasts ten minutes and nothing in the code bounds how long a caller may  *)
(* take, so a lease may run out between any two steps.                     *)
(*                                                                         *)
(* A row that does not exist yet behaves as the row 0 with no lease:       *)
(* GetScannedBlock returns 0 for it and TryClaimScannerScope inserts it.   *)
(***************************************************************************)
EXTENDS Integers

CONSTANTS
  Replica,     \* running tronvent processes
  Nobody,      \* locked_by IS NULL
  Gone,        \* the worker id of a process that has crashed
  ClockSkew    \* may a replica's clock disagree with Postgres's?

\* Every process draws two worker ids, one for its poller and one for its
\* startup reconciliation (NewScannerWorkerID).
ScanId(p) == <<p, "scan">>
ReconcileId(p) == <<p, "reconcile">>
WorkerId == Replica \X {"scan", "reconcile"}

ASSUME LeaseAssumption ==
  /\ Nobody \notin WorkerId
  /\ Gone \notin WorkerId
  /\ Nobody # Gone
  /\ ClockSkew \in BOOLEAN

VARIABLES
  highest,     \* highest_block
  lockedBy,    \* locked_by
  lockedUntil  \* locked_until, relative to now()

rowVars == <<highest, lockedBy, lockedUntil>>

RowTypeOK ==
  /\ highest \in Nat
  /\ lockedBy \in WorkerId \cup {Nobody, Gone}
  /\ lockedUntil \in {"future", "past"}

RowInit(c) ==
  /\ highest = c
  /\ lockedBy = Nobody
  /\ lockedUntil = "future"

MaxOf(a, b) == IF a > b THEN a ELSE b

MinOf(a, b) == IF a < b THEN a ELSE b

-----------------------------------------------------------------------------
\* The WHERE clause of the claim: no lease, one that ran out, or our own.
\* (Mutant: a lease left by a dead worker is never taken over.)
ClaimableUnlessHeld(id) == lockedBy \in {Nobody, id}

Claimable(id) == lockedBy \in {Nobody, id} \/ lockedUntil = "past"

TryClaimScannerScope(id) ==
  /\ Claimable(id)
  /\ lockedBy' = id
  /\ lockedUntil' = "future"
  /\ UNCHANGED highest

\* Only locked_by is compared: a lease that ran out and that nobody has taken
\* since is simply extended.
RenewScannerScopeLease(id) ==
  /\ lockedBy = id
  /\ lockedUntil' = "future"
  /\ UNCHANGED <<highest, lockedBy>>

\* (Mutant: locked_by is cleared to the empty string, not to NULL.)
ReleaseToEmptyHolder(id) ==
  /\ lockedBy' = IF lockedBy = id THEN "" ELSE lockedBy
  /\ lockedUntil' = IF lockedBy = id THEN "future" ELSE lockedUntil
  /\ UNCHANGED highest

\* Zero rows are updated when another worker holds the lease by now.
ReleaseScannerScope(id) ==
  /\ lockedBy' = IF lockedBy = id THEN Nobody ELSE lockedBy
  /\ lockedUntil' = IF lockedBy = id THEN "future" ELSE lockedUntil
  /\ UNCHANGED highest

\* activeScannerLease compares locked_until with the replica's own clock, the
\* other operations with Postgres's; skewed clocks may see either answer.
SeenActive(active) ==
  IF lockedBy = Nobody THEN active = FALSE
  ELSE active \in IF ClockSkew THEN BOOLEAN ELSE {lockedUntil = "future"}

LeaseConflict(id, active) == active /\ lockedBy # id

\* (Mutant: the given block is written even when it is the smaller one.)
SetScannedBlockBlindly(id, block) ==
  /\ \E active \in BOOLEAN : SeenActive(active) /\ ~LeaseConflict(id, active)
  /\ highest' = block
  /\ UNCHANGED <<lockedBy, lockedUntil>>

\* SELECT ... FOR UPDATE, the conflict check, and the UPDATE, in one
\* transaction.  The larger of the stored and the given block is kept.
SetScannedBlock(id, block) ==
  /\ \E active \in BOOLEAN : SeenActive(active) /\ ~LeaseConflict(id, active)
  /\ highest' = MaxOf(highest, block)
  /\ UNCHANGED <<lockedBy, lockedUntil>>

\* The same call, refused with ErrCursorLeaseConflict.
SetScannedBlockConflict(id) ==
  /\ \E active \in BOOLEAN : SeenActive(active) /\ LeaseConflict(id, active)
  /\ UNCHANGED rowVars

\* Ten minutes pass without a renewal.
LeaseRunsOut ==
  /\ lockedBy # Nobody
  /\ lockedUntil = "future"
  /\ lockedUntil' = "past"
  /\ UNCHANGED <<highest, lockedBy>>

\* The holder dies.  A restarted process draws new ids, so the lease is left
\* with an id that nobody has.
HolderDies(p) ==
  /\ lockedBy' = IF lockedBy \in {ScanId(p), ReconcileId(p)} THEN Gone ELSE lockedBy
  /\ UNCHANGED <<highest, lockedUntil>>

=============================================================================
