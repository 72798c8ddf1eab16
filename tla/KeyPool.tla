------------------------------- MODULE KeyPool --------------------------------
(***************************************************************************)
(* Calls to TronGrid (tronGridDo) and the pool of API keys they share      *)
(* (tronGridAPIKeyPool).  A call takes a slot of the semaphore, then a key *)
(* in round-robin order, sleeping while all of them cool down; an answer   *)
(* 429 puts the key to rest and the call tries again after a pause.  Time  *)
(* is relative: cool[k] and wait[c] are what is left of a cooldown and of  *)
(* a timer.  A timer fires at zero or any time later.                      *)
(***************************************************************************)
EXTENDS Integers, Sequences, FiniteSets, SequencesExt

CONSTANTS
  Caller,         \* goroutines that call TronGrid
  NumKeys,        \* configured keys
  Slots,          \* capacity of the semaphore
  MaxRetries,     \* attempts of a call
  MaxRetryAfter,  \* bound: longest Retry-After
  MaxLimits       \* bound: answers 429

\* The pause after attempt a, and the cooldown where no Retry-After came.
Backoff(a) == 2^a

\* The conjunct on Backoff is arithmetic that no prover here knows.
ASSUME PoolAssumption ==
  /\ IsFiniteSet(Caller)
  /\ NumKeys \in Nat \ {0}
  /\ Slots \in Nat \ {0}
  /\ MaxRetries \in Nat \ {0}
  /\ MaxRetryAfter \in Nat
  /\ MaxLimits \in Nat
  /\ \A a \in 0..(MaxRetries - 1) : Backoff(a) \in Nat \ {0}

Key == 0..(NumKeys - 1)

VARIABLES
  next,     \* tronGridAPIKeyPool.next
  cool,     \* what is left until cooldownUntil of each key
  sem,      \* slots taken
  queue,    \* calls blocked on the semaphore, in their order
  pc,       \* where each caller stands
  attempt,  \* attempts before the one at hand
  key,      \* the key of the attempt at hand
  wait,     \* what is left of the timer the caller sleeps on
  limits,   \* answers 429 so far
  owed,     \* history: pauses TronGrid asked for, <<key, what is left>>
  passed    \* history: requests since the key was used or at rest

callVars == <<sem, queue, pc, attempt, key, wait>>
vars == <<next, cool, callVars, limits, owed, passed>>

-----------------------------------------------------------------------------
(***************************************************************************)
(* The semaphore.                                                          *)
(***************************************************************************)
Call(c) ==
  /\ pc[c] = "idle"
  /\ pc' = [pc EXCEPT ![c] = "queued"]
  /\ queue' = Append(queue, c)
  /\ UNCHANGED <<next, cool, sem, attempt, key, wait, limits, owed, passed>>

\* A free slot goes to the call that has waited longest.
Acquire(c) ==
  /\ queue # <<>> /\ Head(queue) = c
  /\ sem < Slots
  /\ sem' = sem + 1
  /\ queue' = Tail(queue)
  /\ pc' = [pc EXCEPT ![c] = "pick"]
  /\ attempt' = [attempt EXCEPT ![c] = 0]
  /\ UNCHANGED <<next, cool, key, wait, limits, owed, passed>>

\* The context is done before the call has a slot.
CancelQueued(c) ==
  /\ pc[c] = "queued"
  /\ \E i \in DOMAIN queue : queue[i] = c /\ queue' = RemoveAt(queue, i)
  /\ pc' = [pc EXCEPT ![c] = "idle"]
  /\ UNCHANGED <<next, cool, sem, attempt, key, wait, limits, owed, passed>>

\* The call returns; the deferred function gives its slot back.
Return(c) ==
  /\ pc' = [pc EXCEPT ![c] = "idle"]
  /\ sem' = sem - 1
  /\ wait' = [wait EXCEPT ![c] = 0]
  /\ UNCHANGED <<queue, attempt, key>>

-----------------------------------------------------------------------------
(***************************************************************************)
(* nextAvailable.                                                          *)
(***************************************************************************)

\* The key at an offset from next.
KeyAt(offset) == (next + offset) % NumKeys

Available(k) == cool[k] = 0

\* (Mutant: the search always begins at the first key.)
AdvanceNever(k) == next

\* (Mutant: without the remainder.)
AdvancePast(k) == k + 1

Advance(k) == (k + 1) % NumKeys

\* The first available key in round-robin order.
PickKey(c) ==
  /\ pc[c] = "pick"
  /\ \E k \in Key : Available(k)
  /\ LET offset == Min({o \in Key : Available(KeyAt(o))})
         k == KeyAt(offset)
     IN  /\ key' = [key EXCEPT ![c] = k]
         /\ next' = Advance(k)
         /\ passed' = [j \in Key |-> IF j = k \/ ~Available(j) THEN 0 ELSE passed[j] + 1]
  /\ pc' = [pc EXCEPT ![c] = "sent"]
  /\ UNCHANGED <<cool, sem, queue, attempt, wait, limits, owed>>

\* (Mutant: until the last key is available.)
LatestCooldown == Max({cool[k] : k \in Key})

EarliestCooldown == Min({cool[k] : k \in Key})

\* All keys cool down.
AwaitKey(c) ==
  /\ pc[c] = "pick"
  /\ \A k \in Key : ~Available(k)
  /\ wait' = [wait EXCEPT ![c] = EarliestCooldown]
  /\ pc' = [pc EXCEPT ![c] = "waiting"]
  /\ UNCHANGED <<next, cool, sem, queue, attempt, key, limits, owed, passed>>

\* A timer fires: the one on the keys, or the pause between two attempts.
Wake(c) ==
  /\ pc[c] \in {"waiting", "backoff"}
  /\ wait[c] = 0
  /\ pc' = [pc EXCEPT ![c] = "pick"]
  /\ UNCHANGED <<next, cool, sem, queue, attempt, key, wait, limits, owed, passed>>

\* (Mutant: the slot is kept.)
CancelSleepKeepsSlot(c) ==
  /\ pc[c] \in {"waiting", "backoff"}
  /\ pc' = [pc EXCEPT ![c] = "idle"]
  /\ wait' = [wait EXCEPT ![c] = 0]
  /\ UNCHANGED <<next, cool, sem, queue, attempt, key, limits, owed, passed>>

\* The context is done while the call sleeps.
CancelSleep(c) ==
  /\ pc[c] \in {"waiting", "backoff"}
  /\ Return(c)
  /\ UNCHANGED <<next, cool, limits, owed, passed>>

-----------------------------------------------------------------------------
(***************************************************************************)
(* The answer.                                                             *)
(***************************************************************************)

\* 200, another status, no answer, or a body that cannot be read or decoded.
Answer(c) ==
  /\ pc[c] = "sent"
  /\ Return(c)
  /\ UNCHANGED <<next, cool, limits, owed, passed>>

\* (Mutant: the last cooldown counts.)
CooldownOverwrites(k, duration) ==
  cool' = [cool EXCEPT ![k] = duration]

\* A cooldown is only ever prolonged.
Cooldown(k, duration) ==
  cool' = [cool EXCEPT ![k] = Max({@, duration})]

\* retryAfterDuration gives zero for a header that is missing, zero, past or
\* unreadable.
RestAsked(retryAfter, a) == IF retryAfter > 0 THEN retryAfter ELSE Backoff(a)

\* 429
RateLimited(c, retryAfter) ==
  LET duration == RestAsked(retryAfter, attempt[c])
  IN  /\ pc[c] = "sent"
      /\ limits < MaxLimits
      /\ limits' = limits + 1
      /\ Cooldown(key[c], duration)
      /\ owed' = owed \cup {<<key[c], duration>>}
      /\ passed' = [passed EXCEPT ![key[c]] = 0]
      /\ \/ /\ attempt[c] + 1 < MaxRetries
            /\ attempt' = [attempt EXCEPT ![c] = @ + 1]
            /\ wait' = [wait EXCEPT ![c] = Backoff(attempt[c])]
            /\ pc' = [pc EXCEPT ![c] = "backoff"]
            /\ UNCHANGED <<sem, queue, key>>
         \/ /\ attempt[c] + 1 = MaxRetries
            /\ Return(c)
      /\ UNCHANGED next

-----------------------------------------------------------------------------
Less(n) == IF n > 0 THEN n - 1 ELSE 0

\* Time passes.
Tick ==
  /\ \/ \E k \in Key : cool[k] > 0
     \/ \E c \in Caller : wait[c] > 0
  /\ cool' = [k \in Key |-> Less(cool[k])]
  /\ wait' = [c \in Caller |-> Less(wait[c])]
  /\ owed' = {<<o[1], Less(o[2])>> : o \in {o \in owed : o[2] > 1}}
  /\ UNCHANGED <<next, sem, queue, pc, attempt, key, limits, passed>>

Init ==
  /\ next = 0
  /\ cool = [k \in Key |-> 0]
  /\ sem = 0
  /\ queue = <<>>
  /\ pc = [c \in Caller |-> "idle"]
  /\ attempt = [c \in Caller |-> 0]
  /\ key = [c \in Caller |-> 0]
  /\ wait = [c \in Caller |-> 0]
  /\ limits = 0
  /\ owed = {}
  /\ passed = [k \in Key |-> 0]

Step(c) ==
  \/ Acquire(c) \/ PickKey(c) \/ AwaitKey(c) \/ Wake(c) \/ Answer(c)
  \/ \E retryAfter \in 0..MaxRetryAfter : RateLimited(c, retryAfter)

Next ==
  \/ \E c \in Caller : Call(c) \/ Step(c) \/ CancelQueued(c) \/ CancelSleep(c)
  \/ Tick

Spec == Init /\ [][Next]_vars

\* Goroutines run, the HTTP client gives up in time, and time passes.
FairSpec ==
  /\ Spec
  /\ \A c \in Caller : WF_vars(Step(c))
  /\ WF_vars(Tick)

-----------------------------------------------------------------------------
TypeOK ==
  /\ next \in Key
  /\ cool \in [Key -> Nat]
  /\ sem \in 0..Slots
  /\ queue \in Seq(Caller)
  /\ pc \in [Caller -> {"idle", "queued", "pick", "waiting", "sent", "backoff"}]
  /\ attempt \in [Caller -> 0..(MaxRetries - 1)]
  /\ key \in [Caller -> Key]
  /\ wait \in [Caller -> Nat]
  /\ limits \in 0..MaxLimits
  /\ owed \subseteq Key \X (Nat \ {0})
  /\ passed \in [Key -> Nat]

(***************************************************************************)
(* A key that TronGrid asked to rest is not used before the time it asked  *)
(* for is over, whatever other answers arrive for requests that were in    *)
(* flight with the same key (trongrid_keys.go:84-99).                      *)
(***************************************************************************)
KeysRested ==
  [][\A c \in Caller : PickKey(c) => \A o \in owed : o[1] # key'[c]]_vars

(***************************************************************************)
(* No key is left out: one that is available all the while is used by the  *)
(* NumKeys-th request at the latest, with keys going to rest and coming    *)
(* back around it (trongrid_keys.go:57-72).                                *)
(***************************************************************************)
NoKeyLeftOut == \A k \in Key : passed[k] < NumKeys

(***************************************************************************)
(* A call does not sleep while a key is available: the timer it sleeps on  *)
(* has run out by the time any key is, although cooldowns are prolonged    *)
(* meanwhile (trongrid_keys.go:69-83).                                     *)
(***************************************************************************)
NoIdleSleep ==
  \A c \in Caller : pc[c] = "waiting" /\ wait[c] > 0 => \A k \in Key : ~Available(k)

(***************************************************************************)
(* Once TronGrid stops limiting, every call comes to its end, however many *)
(* others are made: slots come back on every path, the semaphore is fair,  *)
(* and a call that slept finds a key (poller.go:1076-1161).                *)
(***************************************************************************)
CallsEnd == \A c \in Caller : pc[c] # "idle" ~> pc[c] = "idle"

=============================================================================
