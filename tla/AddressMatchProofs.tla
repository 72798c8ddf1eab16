-------------------------- MODULE AddressMatchProofs --------------------------
(***************************************************************************)
(* Proofs about AddressMatch, for every set of addresses, false positives  *)
(* and batch length.  The inductive invariant follows the scan over the    *)
(* sides of the batch: what is known of the sides it has gone through, and *)
(* of the verdicts it has put into the cache.                              *)
(***************************************************************************)
EXTENDS AddressMatch, SequenceTheorems, TLAPS

\* What is settled where the scan stands.
PlaceInv ==
  /\ pc = "idle" => legs = <<>> /\ cache = {} /\ granted = {}
  /\ pc # "idle" => legs \in Batches
  /\ pc \in {"idle", "prefetch", "each"} \/ need # {} => leg = 1 /\ role = "to" /\ matched = {}
  /\ pc \in {"prefetch", "each"} => need # {}
  /\ pc \in {"idle", "leg", "side", "done"} => need = {}
  /\ pc # "one" => asking = {}
  /\ pc = "one" /\ need # {} => asking \subseteq need
  /\ pc = "one" /\ need = {} => leg \in DOMAIN legs /\ asking = {Side(leg, role)}
  /\ pc = "side" => leg \in DOMAIN legs
  /\ pc \in {"leg", "done"} => role = "to"
  /\ pc = "done" => leg > Len(legs)
  /\ pc \notin {"prefetch", "one"} => attempt = 0
  /\ pc = "one" => \A a \in asking : attempt <= spent[a]

\* The histories against the filter and the rows.
HistoryInv ==
  /\ inFilter \subseteq filter \cup FalsePositive
  /\ wasActive \subseteq active
  /\ pc # "idle" => active \subseteq everActive

\* The verdicts: an address is decided once, never against a row that was
\* active all the while and for one that was not active at all only when the
\* attempts at its lookup are spent.
CacheInv ==
  /\ cache \cap (need \cup asking) = {}
  /\ cache \cap wasActive \subseteq granted
  /\ \A a \in granted : a \in everActive \/ spent[a] = MaxAttempts

\* The sides the scan has gone through.
Passed(i, r) == i < leg \/ (i = leg /\ r = "to" /\ role = "from")

\* They are matched as the cache says, as far as they stayed in the filter.
SidesInv ==
  /\ matched \subseteq (DOMAIN legs) \X Role
  /\ \A i \in DOMAIN legs, r \in Role :
       /\ <<i, r>> \in matched => Passed(i, r) /\ Side(i, r) \in granted
       /\ Passed(i, r) /\ Side(i, r) \in inFilter =>
            Side(i, r) \in cache /\ (Side(i, r) \in granted => <<i, r>> \in matched)

MatchInv ==
  /\ TypeOK
  /\ PlaceInv
  /\ HistoryInv
  /\ CacheInv
  /\ SidesInv

-----------------------------------------------------------------------------
(***************************************************************************)
(* What the steps do.                                                      *)
(***************************************************************************)

\* A batch is a sequence of at most MaxLegs transfers.
LEMMA BatchIs ==
  ASSUME NEW batch \in Batches
  PROVE  /\ Len(batch) \in 1..MaxLegs
         /\ DOMAIN batch = 1..Len(batch)
         /\ \A i \in DOMAIN batch : batch[i].to \in Address /\ batch[i].from \in Address
<1>1. PICK n \in 1..MaxLegs : batch \in [1..n -> Leg]
  BY DEF Batches
<1>2. n \in Nat
  BY MatchAssumption
<1>3. batch \in Seq(Leg) /\ Len(batch) = n
  BY <1>1, <1>2
<1>. QED  BY <1>1, <1>3 DEF Leg

LEMMA SideIs ==
  ASSUME TypeOK, NEW i \in DOMAIN legs, NEW r \in Role
  PROVE  Side(i, r) \in Address
<1>1. CASE legs \in Batches
  BY <1>1, BatchIs DEF Side
<1>2. CASE legs = <<>>
  BY <1>2
<1>. QED  BY <1>1, <1>2 DEF TypeOK

\* A lookup of one address that comes to a verdict, and one that is tried again.
Verdict ==
  /\ pc = "one"
  /\ \/ Populated(active) /\ UNCHANGED spent
     \/ Populated(asking) /\ attempt + 1 = MaxAttempts /\ CountFailure
     \/ Populated(asking) /\ CutShort(asking)
  /\ UNCHANGED <<active, filter, cancelled, legs, inFilter, wasActive, everActive, boundVars>>

TryAgain ==
  /\ pc = "one"
  /\ attempt + 1 < MaxAttempts /\ attempt' = attempt + 1
  /\ CountFailure
  /\ UNCHANGED <<active, filter, cancelled, pc, legs, need, asking, cache, granted, leg, role,
                 matched, inFilter, wasActive, everActive, boundVars>>

LEMMA ConfirmIs == Confirm => Verdict \/ TryAgain
BY DEF Confirm, ConfirmOne, ConfirmOneFails, ConfirmCutShort, Verdict, TryAgain, historyVars

\* The attempts spent on an address within a batch: none is taken back.
LEMMA SpentIs ==
  ASSUME TypeOK, NEW S \in SUBSET Address, CountFailure \/ CutShort(S) \/ UNCHANGED spent
  PROVE  /\ spent' \in [Address -> 0..MaxAttempts]
         /\ \A a \in Address : spent[a] = MaxAttempts => spent'[a] = MaxAttempts
<1>0. spent \in [Address -> 0..MaxAttempts]
  BY DEF TypeOK
<1>1. CASE CountFailure
  BY <1>0, <1>1, MatchAssumption DEF CountFailure
<1>2. CASE CutShort(S)
  BY <1>0, <1>2, MatchAssumption DEF CutShort
<1>. QED  BY <1>0, <1>1, <1>2

\* A failed attempt counts for the address being asked for.
LEMMA CountIs ==
  ASSUME TypeOK, CountFailure, NEW a \in asking, attempt <= spent[a]
  PROVE  attempt + 1 <= spent'[a]
<1>1. a \in Address /\ spent[a] \in 0..MaxAttempts /\ attempt \in 0..(MaxAttempts - 1)
  BY DEF TypeOK
<1>2. spent'[a] = IF spent[a] < MaxAttempts THEN spent[a] + 1 ELSE spent[a]
  BY <1>1 DEF CountFailure
<1>. QED  BY <1>1, <1>2, MatchAssumption

\* The steps of Next, with those of Confirm in two classes.
LEMMA StepIs ==
  ASSUME [Next]_vars
  PROVE  \/ \E batch \in Batches : BeginBatch(batch)
         \/ BatchQuery \/ BatchQueryFails \/ BatchCutShort
         \/ \E a \in Address : LookUp(a)
         \/ Verdict \/ TryAgain
         \/ EnterLeg \/ CheckSide \/ EndBatch
         \/ WatchList \/ Cancel
         \/ UNCHANGED vars
BY ConfirmIs DEF Next, Scan, Prefetch

\* The watch list, the filter and the context change beside the scan.
LEMMA OutsideIs ==
  ASSUME WatchList \/ Cancel \/ UNCHANGED vars
  PROVE  UNCHANGED <<pc, legs, need, asking, cache, granted, attempt, leg, role, matched, spent>>
BY DEF WatchList, Cancel, Activate, Deactivate, AddToFilter, RebuildFilter, Change,
       vars, scanVars, historyVars

\* Where the scan goes after a side of transfer leg.
LEMMA NextSideIs ==
  ASSUME TypeOK, leg \in DOMAIN legs, NextSide
  PROVE  /\ leg \in 1..MaxLegs /\ leg' \in 1..(MaxLegs + 1)
         /\ role' \in Role
         /\ pc' \in {"side", "leg"}
         /\ pc' = "side" => leg' = leg
         /\ pc' = "leg" => role' = "to"
         /\ ~Passed(leg, role)
         /\ \A i \in DOMAIN legs, r \in Role :
              Passed(i, r)' <=> Passed(i, r) \/ (i = leg /\ r = role)
<1>0. legs \in Batches
  BY DEF TypeOK
<1>1. Len(legs) \in 1..MaxLegs /\ DOMAIN legs = 1..Len(legs)
  BY <1>0, BatchIs
<1>2. leg \in 1..MaxLegs /\ leg \in Int /\ \A i \in DOMAIN legs : i \in Int
  BY <1>1, MatchAssumption
<1>. QED  BY <1>2, MatchAssumption DEF NextSide, Passed, Role

-----------------------------------------------------------------------------
(***************************************************************************)
(* The invariant is inductive.                                             *)
(***************************************************************************)
LEMMA InitMatch == Init => MatchInv
<1>. SUFFICES ASSUME Init PROVE MatchInv
  OBVIOUS
<1>1. TypeOK
  BY MatchAssumption DEF Init, TypeOK, Role
<1>2. PlaceInv
  BY DEF Init, PlaceInv
<1>3. HistoryInv /\ CacheInv
  BY DEF Init, HistoryInv, CacheInv
<1>4. SidesInv
  BY DEF Init, SidesInv, Passed
<1>. QED  BY <1>1, <1>2, <1>3, <1>4 DEF MatchInv

\* Types: rows, filter and histories.
LEMMA StepTypeOutside == MatchInv /\ [Next]_vars =>
  /\ active' \subseteq Address
  /\ filter' \subseteq Address
  /\ cancelled' \in {"yes", "no"}
  /\ inFilter' \subseteq Address /\ wasActive' \subseteq Address /\ everActive' \subseteq Address
  /\ changes' \in 0..MaxChanges
  /\ cancels' \in 0..MaxCancels
<1>. DEFINE Goal ==
       /\ active' \subseteq Address
       /\ filter' \subseteq Address
       /\ cancelled' \in {"yes", "no"}
       /\ inFilter' \subseteq Address /\ wasActive' \subseteq Address /\ everActive' \subseteq Address
       /\ changes' \in 0..MaxChanges
       /\ cancels' \in 0..MaxCancels
<1>. SUFFICES ASSUME MatchInv, [Next]_vars PROVE Goal
  OBVIOUS
<1>0. /\ active \subseteq Address
      /\ filter \subseteq Address
      /\ cancelled \in {"yes", "no"}
      /\ inFilter \subseteq Address /\ wasActive \subseteq Address /\ everActive \subseteq Address
      /\ changes \in 0..MaxChanges
      /\ cancels \in 0..MaxCancels
  BY DEF MatchInv, TypeOK
<1>1. ASSUME UNCHANGED <<active, filter, cancelled, inFilter, wasActive, everActive, boundVars>>
      PROVE  Goal
  BY <1>0, <1>1 DEF boundVars
<1>2. CASE \E batch \in Batches : BeginBatch(batch)
  BY <1>0, <1>2 DEF BeginBatch, boundVars
<1>3. CASE BatchQuery \/ BatchQueryFails \/ BatchCutShort \/ \E a \in Address : LookUp(a)
  BY <1>1, <1>3 DEF BatchQuery, BatchQueryFails, BatchCutShort, LookUp, historyVars
<1>4. CASE Verdict \/ TryAgain
  BY <1>1, <1>4 DEF Verdict, TryAgain
<1>5. CASE EnterLeg \/ CheckSide
  BY <1>1, <1>5 DEF EnterLeg, CheckSide, historyVars
<1>6. CASE EndBatch
  BY <1>0, <1>6 DEF EndBatch, boundVars
<1>7. CASE WatchList
  BY <1>0, <1>7, MatchAssumption
     DEF WatchList, Activate, Deactivate, AddToFilter, RebuildFilter, Change
<1>8. CASE Cancel
  BY <1>0, <1>8, MatchAssumption DEF Cancel, historyVars
<1>9. CASE UNCHANGED vars
  BY <1>1, <1>9 DEF vars, historyVars
<1>. HIDE DEF Goal
<1>. QED  BY <1>2, <1>3, <1>4, <1>5, <1>6, <1>7, <1>8, <1>9, StepIs

\* Types: where the scan stands.
LEMMA StepTypeScan == MatchInv /\ [Next]_vars =>
  /\ pc' \in {"idle", "prefetch", "each", "one", "leg", "side", "done"}
  /\ legs' = <<>> \/ legs' \in Batches
  /\ attempt' \in 0..(MaxAttempts - 1)
  /\ leg' \in 1..(MaxLegs + 1)
  /\ role' \in Role
  /\ matched' \subseteq (1..MaxLegs) \X Role
  /\ spent' \in [Address -> 0..MaxAttempts]
<1>. DEFINE Goal ==
       /\ pc' \in {"idle", "prefetch", "each", "one", "leg", "side", "done"}
       /\ legs' = <<>> \/ legs' \in Batches
       /\ attempt' \in 0..(MaxAttempts - 1)
       /\ leg' \in 1..(MaxLegs + 1)
       /\ role' \in Role
       /\ matched' \subseteq (1..MaxLegs) \X Role
       /\ spent' \in [Address -> 0..MaxAttempts]
<1>. SUFFICES ASSUME MatchInv, [Next]_vars PROVE Goal
  OBVIOUS
<1>0. TypeOK /\ PlaceInv
  BY DEF MatchInv
<1>a. /\ pc \in {"idle", "prefetch", "each", "one", "leg", "side", "done"}
      /\ legs = <<>> \/ legs \in Batches
      /\ attempt \in 0..(MaxAttempts - 1)
      /\ leg \in 1..(MaxLegs + 1)
      /\ role \in Role
      /\ matched \subseteq (1..MaxLegs) \X Role
      /\ spent \in [Address -> 0..MaxAttempts]
      /\ need \subseteq Address /\ asking \subseteq Address
  BY <1>0 DEF TypeOK
<1>b. 0 \in 0..(MaxAttempts - 1) /\ 0 \in 0..MaxAttempts /\ 1 \in 1..(MaxLegs + 1)
  BY MatchAssumption
<1>1. CASE \E batch \in Batches : BeginBatch(batch)
  BY <1>a, <1>b, <1>1 DEF BeginBatch
<1>2. CASE BatchQuery \/ BatchCutShort
  <2>1. spent' \in [Address -> 0..MaxAttempts]
    BY <1>0, <1>a, <1>2, SpentIs DEF BatchQuery, BatchCutShort, historyVars
  <2>. QED  BY <1>a, <1>b, <1>2, <2>1 DEF BatchQuery, BatchCutShort, Decide
<1>3. CASE BatchQueryFails
  <2>1. UNCHANGED spent
    BY <1>3 DEF BatchQueryFails, historyVars
  <2>2. attempt' \in 0..(MaxAttempts - 1) /\ pc' \in {"prefetch", "each"}
    BY <1>a, <1>b, <1>3, MatchAssumption DEF BatchQueryFails
  <2>. QED  BY <1>a, <1>3, <2>1, <2>2 DEF BatchQueryFails
<1>4. CASE \E a \in Address : LookUp(a)
  BY <1>a, <1>4 DEF LookUp, historyVars
<1>5. CASE Verdict
  <2>1. attempt' = 0 /\ legs' = legs
    BY <1>5 DEF Verdict, Populated, Decide
  <2>a. spent' \in [Address -> 0..MaxAttempts]
    BY <1>0, <1>a, <1>5, SpentIs DEF Verdict
  <2>2. CASE need # {}
    <3>1. pc' \in {"leg", "each"} /\ UNCHANGED <<leg, role, matched>>
      BY <1>5, <2>2 DEF Verdict, Populated
    <3>. QED  BY <1>a, <1>b, <2>1, <2>a, <3>1
  <2>3. CASE need = {}
    <3>1. leg \in DOMAIN legs
      BY <1>0, <1>5, <2>3 DEF Verdict, PlaceInv
    <3>2. NextSide /\ matched' \subseteq matched \cup {<<leg, role>>}
      BY <1>5, <2>3 DEF Verdict, Populated
    <3>3. matched' \subseteq (1..MaxLegs) \X Role
      BY <1>0, <1>a, <3>1, <3>2, NextSideIs
    <3>. QED  BY <1>0, <1>a, <1>b, <2>1, <2>a, <3>1, <3>2, <3>3, NextSideIs
  <2>. QED  BY <2>2, <2>3
<1>6. CASE TryAgain
  <2>1. spent' \in [Address -> 0..MaxAttempts]
    BY <1>0, <1>a, <1>6, SpentIs DEF TryAgain
  <2>. QED  BY <1>a, <1>6, <2>1, MatchAssumption DEF TryAgain
<1>7. CASE EnterLeg
  <2>1. leg' = leg \/ (leg' = leg + 1 /\ leg <= Len(legs))
    BY <1>7 DEF EnterLeg
  <2>2. legs \in Batches
    BY <1>0, <1>7 DEF EnterLeg, PlaceInv
  <2>3. leg' \in 1..(MaxLegs + 1)
    BY <1>a, <2>1, <2>2, BatchIs, MatchAssumption
  <2>. QED  BY <1>a, <1>7, <2>3 DEF EnterLeg, historyVars
<1>8. CASE CheckSide
  <2>1. leg \in DOMAIN legs
    BY <1>0, <1>8 DEF CheckSide, PlaceInv
  <2>2. CASE NextSide /\ matched' \subseteq matched \cup {<<leg, role>>}
    <3>1. matched' \subseteq (1..MaxLegs) \X Role
      BY <1>0, <1>a, <2>1, <2>2, NextSideIs
    <3>. QED  BY <1>0, <1>a, <1>8, <2>1, <2>2, <3>1, NextSideIs DEF CheckSide, historyVars
  <2>3. CASE pc' = "one" /\ UNCHANGED <<leg, role, matched>>
    BY <1>a, <1>8, <2>3 DEF CheckSide, historyVars
  <2>. QED  BY <1>8, <2>2, <2>3 DEF CheckSide
<1>9. CASE EndBatch
  BY <1>a, <1>b, <1>9 DEF EndBatch
<1>10. CASE WatchList \/ Cancel \/ UNCHANGED vars
  BY <1>a, <1>10, OutsideIs
<1>. HIDE DEF Goal
<1>. QED  BY <1>1, <1>2, <1>3, <1>4, <1>5, <1>6, <1>7, <1>8, <1>9, <1>10, StepIs

\* Types: the candidates and the cache.
LEMMA StepTypeCache == MatchInv /\ [Next]_vars =>
  /\ need' \subseteq Address
  /\ asking' \subseteq Address
  /\ cache' \subseteq Address
  /\ granted' \subseteq cache'
<1>. DEFINE Goal ==
       /\ need' \subseteq Address
       /\ asking' \subseteq Address
       /\ cache' \subseteq Address
       /\ granted' \subseteq cache'
<1>. SUFFICES ASSUME MatchInv, [Next]_vars PROVE Goal
  OBVIOUS
<1>0. TypeOK /\ PlaceInv
  BY DEF MatchInv
<1>a. need \subseteq Address /\ asking \subseteq Address /\ cache \subseteq Address /\ granted \subseteq cache
  BY <1>0 DEF TypeOK
<1>1. CASE \E batch \in Batches : BeginBatch(batch)
  BY <1>a, <1>1 DEF BeginBatch, Candidates
<1>2. CASE BatchQuery \/ BatchCutShort
  BY <1>a, <1>2 DEF BatchQuery, BatchCutShort, Decide
<1>3. CASE BatchQueryFails \/ \E a \in Address : LookUp(a)
  BY <1>a, <1>3 DEF BatchQueryFails, LookUp
<1>4. CASE Verdict
  BY <1>a, <1>4 DEF Verdict, Populated, Decide
<1>5. CASE TryAgain \/ EnterLeg \/ EndBatch
  BY <1>a, <1>5 DEF TryAgain, EnterLeg, EndBatch
<1>6. CASE CheckSide
  <2>1. leg \in DOMAIN legs /\ role \in Role
    BY <1>0, <1>6 DEF CheckSide, PlaceInv, TypeOK
  <2>2. Side(leg, role) \in Address
    BY <1>0, <2>1, SideIs
  <2>. QED  BY <1>a, <1>6, <2>2 DEF CheckSide
<1>7. CASE WatchList \/ Cancel \/ UNCHANGED vars
  BY <1>a, <1>7, OutsideIs
<1>. HIDE DEF Goal
<1>. QED  BY <1>1, <1>2, <1>3, <1>4, <1>5, <1>6, <1>7, StepIs

\* Where the scan stands.
LEMMA StepPlace == MatchInv /\ [Next]_vars => PlaceInv'
<1>. SUFFICES ASSUME MatchInv, [Next]_vars PROVE PlaceInv'
  OBVIOUS
<1>0. TypeOK /\ PlaceInv
  BY DEF MatchInv
<1>a. /\ attempt \in 0..(MaxAttempts - 1) /\ asking \subseteq Address
      /\ spent \in [Address -> 0..MaxAttempts]
  BY <1>0 DEF TypeOK
<1>1. ASSUME NEW batch \in Batches, BeginBatch(batch) PROVE PlaceInv'
  BY <1>0, <1>1 DEF BeginBatch, PlaceInv
<1>2. CASE BatchQuery \/ BatchCutShort
  <2>1. /\ pc = "prefetch" /\ pc' = "leg" /\ need' = {} /\ attempt' = 0
        /\ UNCHANGED <<legs, asking, leg, role, matched>>
    BY <1>2 DEF BatchQuery, BatchCutShort, Decide
  <2>. QED  BY <1>0, <2>1 DEF PlaceInv
<1>3. CASE BatchQueryFails
  <2>1. /\ pc = "prefetch" /\ pc' \in {"prefetch", "each"}
        /\ pc' = "each" => attempt' = 0
        /\ UNCHANGED <<legs, need, asking, cache, granted, leg, role, matched>>
    BY <1>3 DEF BatchQueryFails
  <2>. QED  BY <1>0, <2>1 DEF PlaceInv
<1>4. ASSUME NEW a \in Address, LookUp(a) PROVE PlaceInv'
  <2>1. attempt' = 0 /\ spent' = spent /\ asking' = {a}
    BY <1>0, <1>4 DEF LookUp, historyVars, PlaceInv
  <2>2. \A b \in asking' : attempt' <= spent'[b]
    BY <1>a, <2>1
  <2>. QED  BY <1>0, <1>4, <2>2 DEF LookUp, PlaceInv
<1>5. CASE Verdict
  <2>1. /\ pc = "one" /\ attempt' = 0 /\ asking' = {} /\ need' = need \ asking
        /\ legs' = legs
    BY <1>5 DEF Verdict, Populated, Decide
  <2>3. CASE need # {}
    <3>1. /\ pc' = IF need = asking THEN "leg" ELSE "each"
          /\ UNCHANGED <<leg, role, matched>>
      BY <1>5, <2>3 DEF Verdict, Populated
    <3>2. asking \subseteq need /\ leg = 1 /\ role = "to" /\ matched = {} /\ legs \in Batches
      BY <1>0, <2>1, <2>3 DEF PlaceInv
    <3>3. CASE need = asking
      BY <2>1, <3>1, <3>2, <3>3 DEF PlaceInv
    <3>4. CASE need # asking
      <4>1. need' # {}
        BY <2>1, <3>2, <3>4
      <4>. QED  BY <2>1, <3>1, <3>2, <3>4, <4>1 DEF PlaceInv
    <3>. QED  BY <3>3, <3>4
  <2>4. CASE need = {}
    <3>1. leg \in DOMAIN legs /\ legs \in Batches
      BY <1>0, <2>1, <2>4 DEF PlaceInv
    <3>2. NextSide
      BY <1>5, <2>4 DEF Verdict, Populated
    <3>3. /\ pc' \in {"side", "leg"}
          /\ pc' = "side" => leg' = leg
          /\ pc' = "leg" => role' = "to"
      BY <1>0, <3>1, <3>2, NextSideIs
    <3>. QED  BY <2>1, <2>4, <3>1, <3>3 DEF PlaceInv
  <2>. QED  BY <2>3, <2>4
<1>6. CASE TryAgain
  <2>1. \A a \in asking' : attempt' <= spent'[a]
    <3>1. pc = "one" /\ CountFailure /\ attempt' = attempt + 1 /\ asking' = asking
      BY <1>6 DEF TryAgain
    <3>. QED  BY <1>0, <3>1, CountIs DEF PlaceInv
  <2>. QED  BY <1>0, <1>6, <2>1 DEF TryAgain, PlaceInv, Side
<1>7. CASE EnterLeg
  <2>1. legs \in Batches /\ leg \in 1..(MaxLegs + 1)
    BY <1>0, <1>7 DEF EnterLeg, PlaceInv, TypeOK
  <2>2. DOMAIN legs = 1..Len(legs) /\ Len(legs) \in Nat
    BY <2>1, BatchIs, MatchAssumption
  <2>3. /\ pc' \in {"done", "side", "leg"}
        /\ pc' = "side" => leg' \in DOMAIN legs
        /\ pc' = "done" => leg' > Len(legs)
    BY <1>7, <2>1, <2>2, MatchAssumption DEF EnterLeg
  <2>4. UNCHANGED <<legs, need, asking, cache, granted, attempt, role, matched>> /\ pc = "leg"
    BY <1>7 DEF EnterLeg
  <2>. QED  BY <1>0, <2>1, <2>3, <2>4 DEF PlaceInv
<1>8. CASE CheckSide
  <2>1. leg \in DOMAIN legs /\ legs \in Batches /\ need = {} /\ asking = {} /\ attempt = 0
    BY <1>0, <1>8 DEF CheckSide, PlaceInv
  <2>2. UNCHANGED <<legs, need, cache, granted, attempt, spent>>
    BY <1>8 DEF CheckSide, historyVars
  <2>3. CASE NextSide /\ UNCHANGED asking
    <3>1. /\ pc' \in {"side", "leg"}
          /\ pc' = "side" => leg' = leg
          /\ pc' = "leg" => role' = "to"
      BY <1>0, <2>1, <2>3, NextSideIs
    <3>. QED  BY <1>a, <2>1, <2>2, <2>3, <3>1 DEF PlaceInv
  <2>4. CASE pc' = "one" /\ asking' = {Side(leg, role)} /\ UNCHANGED <<leg, role, matched>>
    <3>1. Side(leg, role) \in Address
      BY <1>0, <2>1, SideIs DEF TypeOK
    <3>2. \A b \in asking' : attempt' <= spent'[b]
      BY <1>a, <2>1, <2>2, <2>4, <3>1
    <3>. QED  BY <2>1, <2>2, <2>4, <3>2 DEF PlaceInv, Side
  <2>. QED  BY <1>8, <2>3, <2>4 DEF CheckSide
<1>9. CASE EndBatch
  <2>1. need = {} /\ asking = {} /\ role = "to" /\ attempt = 0
    BY <1>0, <1>9 DEF EndBatch, PlaceInv
  <2>. QED  BY <1>9, <2>1 DEF EndBatch, PlaceInv
<1>10. CASE WatchList \/ Cancel \/ UNCHANGED vars
  <2>1. UNCHANGED <<pc, legs, need, asking, cache, granted, attempt, leg, role, matched, spent>>
    BY <1>10, OutsideIs
  <2>. QED  BY <1>0, <2>1 DEF PlaceInv, Side
<1>. QED  BY <1>1, <1>2, <1>3, <1>4, <1>5, <1>6, <1>7, <1>8, <1>9, <1>10, StepIs

\* The histories.
LEMMA StepHistory == MatchInv /\ [Next]_vars => HistoryInv'
<1>. SUFFICES ASSUME MatchInv, [Next]_vars PROVE HistoryInv'
  OBVIOUS
<1>0. HistoryInv
  BY DEF MatchInv
<1>1. ASSUME UNCHANGED <<active, filter, inFilter, wasActive, everActive>>, pc # "idle"
      PROVE  HistoryInv'
  BY <1>0, <1>1 DEF HistoryInv
<1>2. CASE \E batch \in Batches : BeginBatch(batch)
  BY <1>2 DEF BeginBatch, HistoryInv, Contains
<1>3. CASE BatchQuery \/ BatchQueryFails \/ BatchCutShort \/ \E a \in Address : LookUp(a)
  BY <1>1, <1>3 DEF BatchQuery, BatchQueryFails, BatchCutShort, LookUp, historyVars
<1>4. CASE Verdict \/ TryAgain
  BY <1>1, <1>4 DEF Verdict, TryAgain
<1>5. CASE EnterLeg \/ CheckSide
  BY <1>1, <1>5 DEF EnterLeg, CheckSide, historyVars
<1>6. CASE EndBatch
  BY <1>6 DEF EndBatch, HistoryInv
<1>7. CASE WatchList
  BY <1>0, <1>7
     DEF WatchList, Activate, Deactivate, AddToFilter, RebuildFilter, Change, scanVars, HistoryInv
<1>8. CASE Cancel \/ UNCHANGED vars
  BY <1>0, <1>8 DEF Cancel, vars, scanVars, historyVars, HistoryInv
<1>. QED  BY <1>2, <1>3, <1>4, <1>5, <1>6, <1>7, <1>8, StepIs

\* The verdicts.
LEMMA StepCache == MatchInv /\ [Next]_vars => CacheInv'
<1>. SUFFICES ASSUME MatchInv, [Next]_vars PROVE CacheInv'
  OBVIOUS
<1>0. TypeOK /\ PlaceInv /\ HistoryInv /\ CacheInv
  BY DEF MatchInv
<1>a. /\ need \subseteq Address /\ asking \subseteq Address /\ granted \subseteq Address
      /\ spent \in [Address -> 0..MaxAttempts]
  BY <1>0 DEF TypeOK
<1>b. ASSUME NEW S \in SUBSET Address, CountFailure \/ CutShort(S) \/ UNCHANGED spent,
             everActive \subseteq everActive'
      PROVE  \A a \in granted : a \in everActive' \/ spent'[a] = MaxAttempts
  BY <1>0, <1>a, <1>b, SpentIs DEF CacheInv
<1>1. CASE \E batch \in Batches : BeginBatch(batch)
  BY <1>0, <1>1 DEF BeginBatch, PlaceInv, CacheInv
<1>2. CASE BatchQuery
  <2>1. asking = {} /\ active \subseteq everActive /\ wasActive \subseteq active
    BY <1>0, <1>2 DEF BatchQuery, PlaceInv, HistoryInv
  <2>2. /\ cache' = cache \cup need /\ granted' = granted \cup (need \cap active) /\ need' = {}
        /\ UNCHANGED <<asking, wasActive, everActive, spent>>
    BY <1>2 DEF BatchQuery, Decide, historyVars
  <2>. QED  BY <1>0, <2>1, <2>2 DEF CacheInv
<1>3. CASE BatchCutShort
  <2>1. asking = {}
    BY <1>0, <1>3 DEF BatchCutShort, PlaceInv
  <2>2. /\ cache' = cache \cup need /\ granted' = granted \cup need /\ need' = {}
        /\ CutShort(need)
        /\ UNCHANGED <<asking, wasActive, everActive>>
    BY <1>3 DEF BatchCutShort, Decide
  <2>3. \A a \in granted : a \in everActive' \/ spent'[a] = MaxAttempts
    BY <1>a, <1>b, <2>2
  <2>4. \A a \in need : spent'[a] = MaxAttempts
    BY <1>a, <2>2 DEF CutShort
  <2>. QED  BY <1>0, <2>1, <2>2, <2>3, <2>4 DEF CacheInv
<1>4. CASE BatchQueryFails \/ TryAgain
  <2>1. UNCHANGED <<need, asking, cache, granted, wasActive, everActive>>
    BY <1>4 DEF BatchQueryFails, TryAgain, historyVars
  <2>2. \A a \in granted : a \in everActive' \/ spent'[a] = MaxAttempts
    BY <1>a, <1>b, <1>4, <2>1 DEF BatchQueryFails, TryAgain, historyVars
  <2>. QED  BY <1>0, <2>1, <2>2 DEF CacheInv
<1>5. ASSUME NEW a \in Address, LookUp(a) PROVE CacheInv'
  BY <1>0, <1>5 DEF LookUp, historyVars, CacheInv
<1>6. CASE Verdict
  <2>0. active \subseteq everActive /\ wasActive \subseteq active
    BY <1>0, <1>6 DEF Verdict, HistoryInv
  <2>1. /\ cache' = cache \cup asking /\ need' = need \ asking /\ asking' = {}
        /\ UNCHANGED <<wasActive, everActive>>
    BY <1>6 DEF Verdict, Populated, Decide
  <2>2. \A a \in granted : a \in everActive' \/ spent'[a] = MaxAttempts
    BY <1>a, <1>b, <1>6, <2>1 DEF Verdict
  <2>3. CASE granted' = granted \cup (asking \cap active)
    BY <1>0, <2>0, <2>1, <2>2, <2>3 DEF CacheInv
  <2>4. CASE granted' = granted \cup asking /\ \A a \in asking : spent'[a] = MaxAttempts
    BY <1>0, <2>1, <2>2, <2>4 DEF CacheInv
  <2>5. ASSUME attempt + 1 = MaxAttempts, CountFailure, NEW a \in asking
        PROVE  spent'[a] = MaxAttempts
    <3>1. MaxAttempts <= spent'[a]
      BY <1>0, <1>6, <2>5, CountIs DEF Verdict, PlaceInv
    <3>2. spent'[a] \in 0..MaxAttempts
      BY <1>0, <1>a, <2>5, SpentIs
    <3>. QED  BY <3>1, <3>2, MatchAssumption
  <2>6. ASSUME CutShort(asking), NEW a \in asking PROVE spent'[a] = MaxAttempts
    BY <1>a, <2>6 DEF CutShort
  <2>. QED  BY <1>6, <2>3, <2>4, <2>5, <2>6 DEF Verdict, Populated, Decide
<1>7. CASE EnterLeg
  BY <1>0, <1>7 DEF EnterLeg, historyVars, CacheInv
<1>8. CASE CheckSide
  <2>1. need = {}
    BY <1>0, <1>8 DEF CheckSide, PlaceInv
  <2>2. UNCHANGED <<need, cache, granted, wasActive, everActive, spent>>
    BY <1>8 DEF CheckSide, historyVars
  <2>3. cache \cap asking' = {}
    BY <1>0, <1>8 DEF CheckSide, CacheInv
  <2>. QED  BY <1>0, <2>1, <2>2, <2>3 DEF CacheInv
<1>9. CASE EndBatch
  BY <1>9 DEF EndBatch, CacheInv
<1>10. CASE WatchList
  <2>1. /\ UNCHANGED <<need, asking, cache, granted, spent>>
        /\ wasActive' \subseteq wasActive /\ everActive \subseteq everActive'
    BY <1>10 DEF WatchList, Activate, Deactivate, AddToFilter, RebuildFilter, Change, scanVars
  <2>. QED  BY <1>0, <2>1 DEF CacheInv
<1>11. CASE Cancel \/ UNCHANGED vars
  BY <1>0, <1>11 DEF Cancel, vars, scanVars, historyVars, CacheInv
<1>. QED  BY <1>1, <1>2, <1>3, <1>4, <1>5, <1>6, <1>7, <1>8, <1>9, <1>10, <1>11, StepIs

\* A verdict stands until the batch ends.
LEMMA VerdictsStand ==
  ASSUME MatchInv, [Next]_vars, ~EndBatch
  PROVE  cache \subseteq cache' /\ \A a \in cache : a \in granted' <=> a \in granted
<1>0. CacheInv
  BY DEF MatchInv
<1>1. CASE UNCHANGED <<cache, granted>>
  BY <1>1
<1>2. CASE BatchQuery \/ BatchCutShort
  BY <1>0, <1>2 DEF BatchQuery, BatchCutShort, Decide, CacheInv
<1>3. CASE Verdict
  BY <1>0, <1>3 DEF Verdict, Populated, Decide, CacheInv
<1>4. CASE WatchList \/ Cancel \/ UNCHANGED vars
  BY <1>1, <1>4, OutsideIs
<1>5. CASE \/ \E batch \in Batches : BeginBatch(batch)
           \/ \E a \in Address : LookUp(a)
           \/ BatchQueryFails \/ TryAgain \/ EnterLeg \/ CheckSide
  BY <1>1, <1>5 DEF BeginBatch, LookUp, BatchQueryFails, TryAgain, EnterLeg, CheckSide
<1>. QED  BY <1>2, <1>3, <1>4, <1>5, StepIs

\* The sides gone through.
LEMMA StepSides == MatchInv /\ [Next]_vars => SidesInv'
<1>. SUFFICES ASSUME MatchInv, [Next]_vars PROVE SidesInv'
  OBVIOUS
<1>0. TypeOK /\ PlaceInv /\ HistoryInv /\ CacheInv /\ SidesInv /\ granted \subseteq cache
  BY DEF MatchInv, TypeOK
<1>a. ASSUME UNCHANGED legs PROVE \A i, r : Side(i, r)' = Side(i, r)
  BY <1>a DEF Side
<1>1. ASSUME UNCHANGED <<legs, leg, role, matched>>, inFilter' \subseteq inFilter, ~EndBatch
      PROVE  SidesInv'
  <2>1. cache \subseteq cache' /\ \A a \in cache : a \in granted' <=> a \in granted
    BY <1>1, VerdictsStand
  <2>2. \A i, r : Side(i, r)' = Side(i, r) /\ (Passed(i, r)' <=> Passed(i, r))
    BY <1>1 DEF Side, Passed
  <2>. QED  BY <1>0, <1>1, <2>1, <2>2 DEF SidesInv
<1>2. ASSUME leg \in DOMAIN legs, NextSide, UNCHANGED <<legs, inFilter>>, ~EndBatch,
             matched' \subseteq matched \cup {<<leg, role>>}, matched \subseteq matched',
             <<leg, role>> \in matched' => Side(leg, role) \in granted',
             Side(leg, role) \in inFilter =>
               /\ Side(leg, role) \in cache'
               /\ Side(leg, role) \in granted' => <<leg, role>> \in matched'
      PROVE  SidesInv'
  <2>1. cache \subseteq cache' /\ \A a \in cache : a \in granted' <=> a \in granted
    BY <1>2, VerdictsStand
  <2>2. \A i \in DOMAIN legs, r \in Role :
           Passed(i, r)' <=> Passed(i, r) \/ (i = leg /\ r = role)
    BY <1>0, <1>2, NextSideIs
  <2>3. \A i, r : Side(i, r)' = Side(i, r)
    BY <1>2, <1>a
  <2>4. role \in Role
    BY <1>0 DEF TypeOK
  <2>5. matched' \subseteq (DOMAIN legs') \X Role
    BY <1>0, <1>2, <2>4 DEF SidesInv
  <2>6. ASSUME NEW i \in DOMAIN legs, NEW r \in Role
        PROVE  /\ <<i, r>> \in matched' => Passed(i, r)' /\ Side(i, r) \in granted'
               /\ Passed(i, r)' /\ Side(i, r) \in inFilter =>
                    Side(i, r) \in cache' /\ (Side(i, r) \in granted' => <<i, r>> \in matched')
    <3>1. CASE i = leg /\ r = role
      BY <1>2, <2>2, <3>1
    <3>2. CASE ~(i = leg /\ r = role)
      <4>1. <<i, r>> \in matched' <=> <<i, r>> \in matched
        BY <1>2, <3>2
      <4>2. Passed(i, r)' <=> Passed(i, r)
        BY <2>2, <3>2
      <4>. QED  BY <1>0, <2>1, <4>1, <4>2 DEF SidesInv
    <3>. QED  BY <3>1, <3>2
  <2>. QED  BY <1>2, <2>3, <2>5, <2>6 DEF SidesInv
<1>3. ASSUME NEW batch \in Batches, BeginBatch(batch) PROVE SidesInv'
  <2>1. leg' = 1 /\ role' = "to" /\ matched' = {} /\ legs' = batch
    BY <1>0, <1>3 DEF BeginBatch, PlaceInv
  <2>2. DOMAIN batch = 1..Len(batch) /\ Len(batch) \in Nat
    BY BatchIs, MatchAssumption
  <2>3. \A i \in DOMAIN batch, r \in Role : ~Passed(i, r)'
    BY <2>1, <2>2 DEF Passed
  <2>. QED  BY <2>1, <2>3 DEF SidesInv
<1>4. CASE \/ BatchQuery \/ BatchQueryFails \/ BatchCutShort \/ \E a \in Address : LookUp(a)
           \/ TryAgain
  <2>1. pc \in {"prefetch", "each", "one"} /\ UNCHANGED <<legs, leg, role, matched, inFilter>>
    BY <1>4 DEF BatchQuery, BatchQueryFails, BatchCutShort, LookUp, TryAgain, historyVars
  <2>. QED  BY <1>1, <2>1 DEF EndBatch
<1>5. CASE Verdict
  <2>0. pc = "one" /\ UNCHANGED <<legs, inFilter>>
    BY <1>5 DEF Verdict
  <2>1. CASE need # {}
    <3>1. UNCHANGED <<leg, role, matched>>
      BY <1>5, <2>1 DEF Verdict, Populated
    <3>. QED  BY <1>1, <2>0, <3>1 DEF EndBatch
  <2>2. CASE need = {}
    <3>1. leg \in DOMAIN legs /\ asking = {Side(leg, role)}
      BY <1>0, <2>0, <2>2 DEF PlaceInv
    <3>2. PICK yes \in {active, asking} :
            /\ cache' = cache \cup asking
            /\ granted' = granted \cup (asking \cap yes)
            /\ matched' = IF asking \subseteq yes THEN matched \cup {<<leg, role>>} ELSE matched
            /\ NextSide
      BY <1>5, <2>2 DEF Verdict, Populated, Decide
    <3>3. ~Passed(leg, role) /\ role \in Role
      BY <1>0, <3>1, <3>2, NextSideIs DEF TypeOK
    <3>4. <<leg, role>> \notin matched
      BY <1>0, <3>1, <3>3 DEF SidesInv
    <3>5. Side(leg, role) \notin cache
      BY <1>0, <3>1 DEF CacheInv
    <3>6. Side(leg, role) \in granted' <=> asking \subseteq yes
      BY <1>0, <3>1, <3>2, <3>5
    <3>. QED  BY <1>2, <2>0, <3>1, <3>2, <3>4, <3>6 DEF EndBatch
  <2>. QED  BY <2>1, <2>2
<1>6. CASE EnterLeg
  <2>0. pc = "leg" /\ UNCHANGED <<legs, role, matched, inFilter>>
    BY <1>6 DEF EnterLeg, historyVars
  <2>1. CASE UNCHANGED leg
    BY <1>1, <2>0, <2>1 DEF EndBatch
  <2>2. CASE leg' = leg + 1 /\ \A r \in Role : ~Contains(Side(leg, r))
    <3>1. \A r \in Role : Side(leg, r) \notin inFilter
      BY <1>0, <2>2 DEF HistoryInv, Contains
    <3>2. leg \in Int /\ \A i \in DOMAIN legs : i \in Int
      <4>1. legs \in Batches
        BY <1>0, <2>0 DEF PlaceInv
      <4>. QED  BY <1>0, <4>1, BatchIs, MatchAssumption DEF TypeOK
    <3>3. role = "to"
      BY <1>0, <2>0 DEF PlaceInv
    <3>4. \A i \in DOMAIN legs, r \in Role : Passed(i, r)' <=> Passed(i, r) \/ i = leg
      BY <2>0, <2>2, <3>2, <3>3 DEF Passed
    <3>5. \A i, r : Side(i, r)' = Side(i, r)
      BY <2>0, <1>a
    <3>6. UNCHANGED <<cache, granted>>
      BY <1>6 DEF EnterLeg
    <3>. QED  BY <1>0, <2>0, <3>1, <3>4, <3>5, <3>6 DEF SidesInv
  <2>. QED  BY <1>6, <2>1, <2>2 DEF EnterLeg
<1>7. CASE CheckSide
  <2>0. pc = "side" /\ UNCHANGED <<legs, inFilter, cache, granted>>
    BY <1>7 DEF CheckSide, historyVars
  <2>1. leg \in DOMAIN legs
    BY <1>0, <2>0 DEF PlaceInv
  <2>2. CASE UNCHANGED <<leg, role, matched>>
    BY <1>1, <2>0, <2>2 DEF EndBatch
  <2>. DEFINE a == Side(leg, role)
  <2>3. CASE /\ Contains(a) => a \in cache
             /\ matched' = IF Contains(a) /\ a \in granted THEN matched \cup {<<leg, role>>} ELSE matched
             /\ NextSide
    <3>1. ~Passed(leg, role) /\ role \in Role
      BY <1>0, <2>1, <2>3, NextSideIs DEF TypeOK
    <3>2. <<leg, role>> \notin matched
      BY <1>0, <2>1, <3>1 DEF SidesInv
    <3>3. a \in inFilter => Contains(a)
      BY <1>0 DEF HistoryInv, Contains
    <3>. HIDE DEF a
    <3>4. /\ matched' \subseteq matched \cup {<<leg, role>>} /\ matched \subseteq matched'
          /\ <<leg, role>> \in matched' => a \in granted'
          /\ a \in inFilter => a \in cache' /\ (a \in granted' => <<leg, role>> \in matched')
      BY <2>0, <2>3, <3>2, <3>3
    <3>. QED  BY <1>2, <2>0, <2>1, <2>3, <3>4 DEF EndBatch, a
  <2>. QED  BY <1>7, <2>2, <2>3 DEF CheckSide
<1>8. CASE EndBatch
  BY <1>8 DEF EndBatch, SidesInv
<1>9. CASE WatchList \/ Cancel \/ UNCHANGED vars
  <2>1. UNCHANGED <<legs, leg, role, matched>> /\ UNCHANGED pc
    BY <1>9, OutsideIs
  <2>2. inFilter' \subseteq inFilter
    BY <1>9 DEF WatchList, Activate, Deactivate, AddToFilter, RebuildFilter, Cancel, historyVars, vars
  <2>3. ~EndBatch
    BY <2>1 DEF EndBatch
  <2>. QED  BY <1>1, <2>1, <2>2, <2>3
<1>. QED  BY <1>3, <1>4, <1>5, <1>6, <1>7, <1>8, <1>9, StepIs

LEMMA StepMatch == MatchInv /\ [Next]_vars => MatchInv'
<1>. SUFFICES ASSUME MatchInv, [Next]_vars PROVE MatchInv'
  OBVIOUS
<1>1. TypeOK'
  BY StepTypeOutside, StepTypeScan, StepTypeCache DEF TypeOK
<1>. QED  BY <1>1, StepPlace, StepHistory, StepCache, StepSides DEF MatchInv

\* MatchInv is an invariant.
LEMMA Invariance == Spec => []MatchInv
BY InitMatch, StepMatch, PTL DEF Spec

\* When the batch is done every side has been gone through.
LEMMA AllPassed ==
  ASSUME MatchInv, pc = "done", NEW i \in DOMAIN legs, NEW r \in Role
  PROVE  Passed(i, r)
<1>1. legs \in Batches /\ leg > Len(legs) /\ leg \in Int
  BY MatchAssumption DEF MatchInv, PlaceInv, TypeOK
<1>2. i \in 1..Len(legs) /\ Len(legs) \in Int
  BY <1>1, BatchIs
<1>. QED  BY <1>1, <1>2 DEF Passed

-----------------------------------------------------------------------------
(***************************************************************************)
(* Type correctness: the scan stays within its batch, the cache grants     *)
(* only what it holds, and attempts stay below the limit.                  *)
(***************************************************************************)
THEOREM TypeCorrect == Spec => []TypeOK
<1>1. MatchInv => TypeOK
  BY DEF MatchInv
<1>. QED  BY <1>1, Invariance, PTL

(***************************************************************************)
(* NothingMissed, for every batch: a side whose address was in the filter  *)
(* and active all the while is an event, whatever failed or was cancelled  *)
(* (Prefetch, IsActive, matchedTransferEvents).                            *)
(***************************************************************************)
THEOREM WatchedAreMatched == Spec => []NothingMissed
<1>1. MatchInv => NothingMissed
  <2>. SUFFICES ASSUME MatchInv, pc = "done", NEW i \in DOMAIN legs, NEW r \in Role,
                       Side(i, r) \in inFilter \cap wasActive
                PROVE  <<i, r>> \in matched
    BY DEF NothingMissed
  <2>1. Passed(i, r)
    BY AllPassed
  <2>. QED  BY <2>1 DEF MatchInv, SidesInv, CacheInv
<1>. QED  BY <1>1, Invariance, PTL

(***************************************************************************)
(* OnlyWatched, for every batch: an address that was at no time active     *)
(* becomes an event only where the attempts at its own lookup are spent or *)
(* the lookup was cut short (Prefetch, populateCache).                     *)
(***************************************************************************)
THEOREM MatchedAreWatched == Spec => []OnlyWatched
<1>1. MatchInv => OnlyWatched
  <2>. SUFFICES ASSUME MatchInv, pc = "done", NEW m \in matched
                PROVE  \/ Side(m[1], m[2]) \in everActive
                       \/ spent[Side(m[1], m[2])] = MaxAttempts
    BY DEF OnlyWatched
  <2>1. m \in (DOMAIN legs) \X Role
    BY DEF MatchInv, SidesInv
  <2>2. PICK i \in DOMAIN legs, r \in Role : m = <<i, r>>
    BY <2>1
  <2>3. Side(i, r) \in granted
    BY <2>2 DEF MatchInv, SidesInv
  <2>4. \A a \in granted : a \in everActive \/ spent[a] = MaxAttempts
    BY DEF MatchInv, CacheInv
  <2>. QED  BY <2>2, <2>3, <2>4
<1>. QED  BY <1>1, Invariance, PTL

(***************************************************************************)
(* OneVerdict, for every batch: two sides with one address that stayed in  *)
(* the filter are both events or neither is (the cache of AddressConfirm). *)
(***************************************************************************)
THEOREM VerdictIsShared == Spec => []OneVerdict
<1>1. MatchInv => OneVerdict
  <2>. SUFFICES ASSUME MatchInv, pc = "done",
                       NEW i \in DOMAIN legs, NEW j \in DOMAIN legs, NEW r \in Role, NEW s \in Role,
                       Side(i, r) = Side(j, s), Side(i, r) \in inFilter
                PROVE  <<i, r>> \in matched <=> <<j, s>> \in matched
    BY DEF OneVerdict
  <2>1. Passed(i, r) /\ Passed(j, s)
    BY AllPassed
  <2>2. <<i, r>> \in matched <=> Side(i, r) \in granted
    BY <2>1 DEF MatchInv, SidesInv
  <2>3. <<j, s>> \in matched <=> Side(j, s) \in granted
    BY <2>1 DEF MatchInv, SidesInv
  <2>. QED  BY <2>2, <2>3
<1>. QED  BY <1>1, Invariance, PTL

=============================================================================
