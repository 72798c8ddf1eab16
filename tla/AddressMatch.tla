----------------------------- MODULE AddressMatch -----------------------------
(***************************************************************************)
(* How a scan decides which transfers of a block or page are matches: the  *)
(* filter's candidates are looked up in Postgres once for the whole batch  *)
(* (AddressConfirm.Prefetch), then every transfer's receiver and sender    *)
(* are checked against the filter and that cache (matchedTransferEvents).  *)
(* Meanwhile addresses are added, reactivated and deactivated, the filter  *)
(* is changed or rebuilt, queries fail and the scan may be cancelled.      *)
(***************************************************************************)
EXTENDS Integers, Sequences

CONSTANTS
  Address,        \* addresses that occur in transfers
  FalsePositive,  \* addresses the Bloom filter takes for members anyway
  MaxLegs,        \* bound: transfers of a batch
  MaxAttempts,    \* addressConfirmMaxAttempts
  MaxChanges,     \* bound: changes of the watch list and the filter
  MaxCancels      \* bound: cancelled scans

ASSUME MatchAssumption ==
  /\ FalsePositive \subseteq Address
  /\ MaxLegs \in Nat \ {0}
  /\ MaxAttempts \in Nat \ {0}
  /\ MaxChanges \in Nat
  /\ MaxCancels \in Nat

Role == {"to", "from"}

VARIABLES
  active,     \* addresses with an active row in Postgres
  filter,     \* addresses put into the filter
  cancelled,  \* has the scan's context been cancelled?
  pc,         \* where the scan stands
  legs,       \* the batch's transfers
  need,       \* candidates still to be confirmed
  asking,     \* the address that is looked up on its own
  cache,      \* AddressConfirm.cache: the addresses decided so far
  granted,    \* the ones among them it takes for active
  attempt,    \* failed attempts of the query at hand
  leg, role,  \* the transfer and the side it is at
  matched,    \* the events found so far: <<leg, role>>
  inFilter,   \* history: addresses in the filter ever since the batch began
  wasActive,  \* history: addresses active ever since
  everActive, \* history: addresses active at some time since
  spent,      \* history: failed attempts to look an address up; all of them when
              \* the lookup was cut short
  changes, cancels

scanVars == <<pc, legs, need, asking, cache, granted, attempt, leg, role, matched>>
historyVars == <<inFilter, wasActive, everActive, spent>>
boundVars == <<changes, cancels>>
vars == <<active, filter, cancelled, scanVars, historyVars, boundVars>>

Contains(a) == a \in filter \cup FalsePositive

Side(i, r) == IF r = "to" THEN legs[i].to ELSE legs[i].from

-----------------------------------------------------------------------------
(***************************************************************************)
(* The watch list and the filter.                                          *)
(***************************************************************************)
Change ==
  /\ changes < MaxChanges
  /\ changes' = changes + 1
  /\ UNCHANGED <<cancelled, scanVars, spent, cancels>>

\* AddWatchedAddress: the row first, the filter later.
Activate(a) ==
  /\ a \notin active
  /\ Change
  /\ active' = active \cup {a}
  /\ everActive' = everActive \cup {a}
  /\ UNCHANGED <<filter, inFilter, wasActive>>

\* DeactivateWatchedAddress leaves the filter alone.
Deactivate(a) ==
  /\ a \in active
  /\ Change
  /\ active' = active \ {a}
  /\ wasActive' = wasActive \ {a}
  /\ UNCHANGED <<filter, inFilter, everActive>>

\* AddressStore.Add, of a row that was written earlier and may be inactive by now.
AddToFilter(a) ==
  /\ a \notin filter
  /\ Change
  /\ filter' = filter \cup {a}
  /\ UNCHANGED <<active, inFilter, wasActive, everActive>>

\* AddressStore.Reload
RebuildFilter ==
  /\ filter # active
  /\ Change
  /\ filter' = active
  /\ inFilter' = inFilter \cap (active \cup FalsePositive)
  /\ UNCHANGED <<active, wasActive, everActive>>

\* The process is told to stop.
Cancel ==
  /\ pc # "idle"
  /\ cancelled = "no"
  /\ cancels < MaxCancels
  /\ cancels' = cancels + 1
  /\ cancelled' = "yes"
  /\ UNCHANGED <<active, filter, scanVars, historyVars, changes>>

-----------------------------------------------------------------------------
(***************************************************************************)
(* Prefetch.                                                               *)
(***************************************************************************)

\* bloomConfirmCandidates for every transfer of the batch, with one state of the
\* filter: an address that comes or goes meanwhile does so before or after.
Candidates(batch) == {a \in Address : Contains(a) /\ \E i \in DOMAIN batch :
                                                       a \in {batch[i].to, batch[i].from}}

BeginBatch(batch) ==
  /\ pc = "idle"
  /\ pc' = IF Candidates(batch) = {} THEN "leg" ELSE "prefetch"
  /\ legs' = batch
  /\ need' = Candidates(batch)
  /\ inFilter' = {a \in Address : Contains(a)}
  /\ wasActive' = active
  /\ everActive' = active
  /\ spent' = [a \in Address |-> 0]
  /\ UNCHANGED <<active, filter, cancelled, asking, cache, granted, attempt, leg, role, matched, boundVars>>

\* (Mutant: the addresses stay on the list.)
DecideAgain(asked, yes) ==
  /\ cache' = cache \cup asked
  /\ granted' = granted \cup (asked \cap yes)
  /\ attempt' = 0
  /\ UNCHANGED need

\* Decide the addresses in asked; the ones in yes are taken for active.
Decide(asked, yes) ==
  /\ cache' = cache \cup asked
  /\ granted' = granted \cup (asked \cap yes)
  /\ need' = need \ asked
  /\ attempt' = 0

\* An attempt for the address being asked for has failed.
CountFailure ==
  spent' = [a \in Address |-> IF a \in asking /\ spent[a] < MaxAttempts THEN spent[a] + 1 ELSE spent[a]]

\* No further attempt is made for the addresses in asked.
CutShort(asked) == spent' = [a \in Address |-> IF a \in asked THEN MaxAttempts ELSE spent[a]]

\* ActiveWatchedAddresses: one statement for all candidates.
BatchQuery ==
  /\ pc = "prefetch"
  /\ cancelled = "no"
  /\ Decide(need, active)
  /\ pc' = "leg"
  /\ UNCHANGED <<active, filter, cancelled, legs, asking, leg, role, matched, historyVars, boundVars>>

\* (Mutant: a failed batch query counts as "none of them is watched".)
BatchFailsClosed ==
  /\ pc = "prefetch"
  /\ cancelled = "no"
  /\ IF attempt + 1 < MaxAttempts
     THEN /\ attempt' = attempt + 1
          /\ UNCHANGED <<pc, need, cache, granted>>
     ELSE Decide(need, {}) /\ pc' = "leg"
  /\ UNCHANGED <<active, filter, cancelled, legs, asking, leg, role, matched,
                 historyVars, boundVars>>

\* (Mutant: one attempt more.)
BatchFailsOnceMore ==
  /\ pc = "prefetch"
  /\ cancelled = "no"
  /\ IF attempt < MaxAttempts
     THEN attempt' = attempt + 1 /\ UNCHANGED pc
     ELSE attempt' = 0 /\ pc' = "each"
  /\ UNCHANGED <<active, filter, cancelled, legs, need, asking, cache, granted, leg, role, matched,
                 historyVars, boundVars>>

\* After the last attempt every address is asked for on its own.
BatchQueryFails ==
  /\ pc = "prefetch"
  /\ cancelled = "no"
  /\ IF attempt + 1 < MaxAttempts
     THEN attempt' = attempt + 1 /\ UNCHANGED pc
     ELSE attempt' = 0 /\ pc' = "each"
  /\ UNCHANGED <<active, filter, cancelled, legs, need, asking, cache, granted, leg, role, matched,
                 historyVars, boundVars>>

\* failOpenAddresses: the query ends with context.Canceled or DeadlineExceeded, of
\* the scan's context or of its own, or the pause before it is cancelled.  Once
\* the scan is cancelled this is all a query can do.
BatchCutShort ==
  /\ pc = "prefetch"
  /\ CutShort(need)
  /\ Decide(need, need)
  /\ pc' = "leg"
  /\ UNCHANGED <<active, filter, cancelled, legs, asking, leg, role, matched,
                 inFilter, wasActive, everActive, boundVars>>

-----------------------------------------------------------------------------
(***************************************************************************)
(* populateCache for one address: in Prefetch, or because the address came *)
(* into the filter after it.                                               *)
(***************************************************************************)

\* Prefetch goes over the candidates one by one.
LookUp(a) ==
  /\ pc = "each"
  /\ a \in need
  /\ asking' = {a}
  /\ pc' = "one"
  /\ UNCHANGED <<active, filter, cancelled, legs, need, cache, granted, attempt, leg, role, matched,
                 historyVars, boundVars>>

\* The receiver's side of a transfer comes first, then the sender's.
NextSide ==
  \/ role = "to" /\ role' = "from" /\ pc' = "side" /\ UNCHANGED leg
  \/ role = "from" /\ role' = "to" /\ pc' = "leg" /\ leg' = leg + 1

\* (Mutant: the answer is used and not cached.)
PopulatedUncached(yes) ==
  /\ need' = need \ asking
  /\ attempt' = 0
  /\ asking' = {}
  /\ UNCHANGED <<cache, granted>>
  /\ \/ /\ need # {}
        /\ pc' = IF need = asking THEN "leg" ELSE "each"
        /\ UNCHANGED <<leg, role, matched>>
     \/ /\ need = {}
        /\ matched' = IF asking \subseteq yes THEN matched \cup {<<leg, role>>} ELSE matched
        /\ NextSide

\* The address is decided: on with the candidates or, where IsActive asked, with
\* the transfer.
Populated(yes) ==
  /\ Decide(asking, yes)
  /\ asking' = {}
  /\ \/ /\ need # {}
        /\ pc' = IF need = asking THEN "leg" ELSE "each"
        /\ UNCHANGED <<leg, role, matched>>
     \/ /\ need = {}
        /\ matched' = IF asking \subseteq yes THEN matched \cup {<<leg, role>>} ELSE matched
        /\ NextSide

ConfirmOne ==
  /\ pc = "one"
  /\ cancelled = "no"
  /\ Populated(active)
  /\ UNCHANGED <<active, filter, cancelled, legs, historyVars, boundVars>>

\* (Mutant: fail open at the first error.)
ConfirmFailsOpenAtOnce ==
  /\ pc = "one"
  /\ cancelled = "no"
  /\ CountFailure
  /\ Populated(asking)
  /\ UNCHANGED <<active, filter, cancelled, legs, inFilter, wasActive, everActive, boundVars>>

\* After the last attempt the address is taken for active.
ConfirmOneFails ==
  /\ pc = "one"
  /\ cancelled = "no"
  /\ CountFailure
  /\ \/ /\ attempt + 1 < MaxAttempts
        /\ attempt' = attempt + 1
        /\ UNCHANGED <<pc, need, asking, cache, granted, leg, role, matched>>
     \/ /\ attempt + 1 = MaxAttempts
        /\ Populated(asking)
  /\ UNCHANGED <<active, filter, cancelled, legs, inFilter, wasActive, everActive, boundVars>>

\* Cut short like the batch query, and without another attempt.
ConfirmCutShort ==
  /\ pc = "one"
  /\ CutShort(asking)
  /\ Populated(asking)
  /\ UNCHANGED <<active, filter, cancelled, legs, inFilter, wasActive, everActive, boundVars>>

-----------------------------------------------------------------------------
(***************************************************************************)
(* matchedTransferEvents.                                                  *)
(***************************************************************************)

\* A transfer neither side of which is in the filter is left at once.
EnterLeg ==
  /\ pc = "leg"
  /\ \/ /\ leg > Len(legs)
        /\ pc' = "done"
        /\ UNCHANGED leg
     \/ /\ leg <= Len(legs)
        /\ \E r \in Role : Contains(Side(leg, r))
        /\ pc' = "side"
        /\ UNCHANGED leg
     \/ /\ leg <= Len(legs)
        /\ \A r \in Role : ~Contains(Side(leg, r))
        /\ leg' = leg + 1
        /\ UNCHANGED pc
  /\ UNCHANGED <<active, filter, cancelled, legs, need, asking, cache, granted, attempt, role, matched,
                 historyVars, boundVars>>

\* IsActive answers from the cache, or looks the address up first.
CheckSide ==
  LET a == Side(leg, role)
  IN  /\ pc = "side"
      /\ \/ /\ Contains(a) => a \in cache
            /\ matched' = IF Contains(a) /\ a \in granted THEN matched \cup {<<leg, role>>} ELSE matched
            /\ NextSide
            /\ UNCHANGED asking
         \/ /\ Contains(a) /\ a \notin cache
            /\ asking' = {a}
            /\ pc' = "one"
            /\ UNCHANGED <<leg, role, matched>>
      /\ UNCHANGED <<active, filter, cancelled, legs, need, cache, granted, attempt,
                     historyVars, boundVars>>

\* The events are enqueued; the next batch has a confirmation cache of its own.
EndBatch ==
  /\ pc = "done"
  /\ pc' = "idle"
  /\ legs' = <<>>
  /\ cache' = {}
  /\ granted' = {}
  /\ leg' = 1
  /\ matched' = {}
  /\ inFilter' = {} /\ wasActive' = {} /\ everActive' = {}
  /\ spent' = [a \in Address |-> 0]
  /\ cancelled' = "no"
  /\ UNCHANGED <<active, filter, need, asking, attempt, role, boundVars>>

-----------------------------------------------------------------------------
Leg == [to : Address, from : Address]

Batches == UNION {[1..n -> Leg] : n \in 1..MaxLegs}

\* Rows and filter as an earlier reload and later deactivations leave them.
Init ==
  /\ filter \in SUBSET Address
  /\ active \in SUBSET filter
  /\ cancelled = "no"
  /\ pc = "idle"
  /\ legs = <<>>
  /\ need = {}
  /\ asking = {}
  /\ cache = {}
  /\ granted = {}
  /\ attempt = 0
  /\ leg = 1
  /\ role = "to"
  /\ matched = {}
  /\ inFilter = {} /\ wasActive = {} /\ everActive = {}
  /\ spent = [a \in Address |-> 0]
  /\ changes = 0
  /\ cancels = 0

Prefetch ==
  \/ BatchQuery \/ BatchQueryFails \/ BatchCutShort
  \/ \E a \in Address : LookUp(a)

Confirm == ConfirmOne \/ ConfirmOneFails \/ ConfirmCutShort

Scan == Prefetch \/ Confirm \/ EnterLeg \/ CheckSide \/ EndBatch

WatchList ==
  \/ \E a \in Address : Activate(a) \/ Deactivate(a) \/ AddToFilter(a)
  \/ RebuildFilter

Next ==
  \/ \E batch \in Batches : BeginBatch(batch)
  \/ Scan
  \/ WatchList
  \/ Cancel

Spec == Init /\ [][Next]_vars

\* The scan goroutine runs.
FairSpec == Spec /\ WF_vars(Scan)

-----------------------------------------------------------------------------
TypeOK ==
  /\ active \subseteq Address
  /\ filter \subseteq Address
  /\ cancelled \in {"yes", "no"}
  /\ pc \in {"idle", "prefetch", "each", "one", "leg", "side", "done"}
  /\ legs = <<>> \/ legs \in Batches
  /\ need \subseteq Address
  /\ asking \subseteq Address
  /\ cache \subseteq Address
  /\ granted \subseteq cache
  /\ attempt \in 0..(MaxAttempts - 1)
  /\ leg \in 1..(MaxLegs + 1)
  /\ role \in Role
  /\ matched \subseteq (1..MaxLegs) \X Role
  /\ inFilter \subseteq Address /\ wasActive \subseteq Address /\ everActive \subseteq Address
  /\ spent \in [Address -> 0..MaxAttempts]
  /\ changes \in 0..MaxChanges
  /\ cancels \in 0..MaxCancels

(***************************************************************************)
(* A watched address is never missed while it remains in the filter        *)
(* (README.md:90): whatever queries fail, and whenever the scan is         *)
(* cancelled, each of its sides in the batch has become an event           *)
(* (address_confirm.go:36-90, matched_events.go:20-45).                    *)
(***************************************************************************)
NothingMissed ==
  pc = "done" => \A i \in DOMAIN legs, r \in Role :
                   Side(i, r) \in inFilter \cap wasActive => <<i, r>> \in matched

(***************************************************************************)
(* False positives and deactivated rows produce no event (README.md:91),   *)
(* but by failing open: an address that was at no time active since the    *)
(* batch began gets through only when every attempt at its own lookup has  *)
(* failed or its query was cut short.  A failed batch query alone, and     *)
(* whatever happens to another address, lets none through                  *)
(* (address_confirm.go:36-90).                                             *)
(***************************************************************************)
OnlyWatched ==
  pc = "done" => \A m \in matched : LET a == Side(m[1], m[2])
                                   IN  a \in everActive \/ spent[a] = MaxAttempts

(***************************************************************************)
(* One verdict per batch: while an address stays in the filter its sides   *)
(* all become events or none does, although its row may change and queries *)
(* may fail between two transfers (the cache of address_confirm.go:60-70). *)
(***************************************************************************)
OneVerdict ==
  pc = "done" =>
    \A i, j \in DOMAIN legs, r, s \in Role :
      /\ Side(i, r) = Side(j, s)
      /\ Side(i, r) \in inFilter
      => (<<i, r>> \in matched <=> <<j, s>> \in matched)

(***************************************************************************)
(* Every batch comes to its end, with retries exhausted or the context     *)
(* cancelled at any point (address_confirm.go:92-150).                     *)
(***************************************************************************)
BatchEnds == (pc # "idle") ~> (pc = "idle")

=============================================================================
