---------------------------- MODULE KeyPoolProofs -----------------------------
(***************************************************************************)
(* Proofs about KeyPool, for every number of callers, keys, slots and      *)
(* attempts.  The inductive invariant relates the semaphore to the callers *)
(* that hold a slot, the timers and the pauses TronGrid asked for to the   *)
(* cooldowns, and the turns a key has waited to its distance from next.    *)
(***************************************************************************)
EXTENDS KeyPool, FiniteSetTheorems, SequenceTheorems, WellFoundedInduction, TLAPS

Holding == {"pick", "waiting", "sent", "backoff"}

Holders == {c \in Caller : pc[c] \in Holding}

\* The slots that are taken are those of the callers between Acquire and
\* Return.
SlotInv == sem = Cardinality(Holders)

\* A blocked call is in the queue once, and has not got its slot.
QueueInv ==
  /\ \A i \in 1..Len(queue) : pc[queue[i]] = "queued"
  /\ \A i, j \in 1..Len(queue) : queue[i] = queue[j] => i = j

\* The timer on the keys never outlasts a cooldown.
SleepInv ==
  \A c \in Caller : pc[c] = "waiting" => \A k \in Key : wait[c] <= cool[k]

\* A cooldown covers every pause asked for.
RestInv == \A o \in owed : o[2] <= cool[o[1]]

\* Requests that still come before the turn of k, if all keys are available.
Dist(k, n) == IF k >= n THEN k - n ELSE k - n + NumKeys

TurnInv == \A k \in Key : passed[k] + Dist(k, next) < NumKeys

PoolInv ==
  /\ TypeOK
  /\ SlotInv
  /\ QueueInv
  /\ SleepInv
  /\ RestInv
  /\ TurnInv

-----------------------------------------------------------------------------
(***************************************************************************)
(* Facts about the operators.                                              *)
(***************************************************************************)

\* Min of a nonempty set of naturals is a lower bound that is reached.
LEMMA MinOfNats ==
  ASSUME NEW S \in SUBSET Nat, S # {}
  PROVE  Min(S) \in S /\ \A n \in S : Min(S) <= n
<1>. DEFINE R == {ss \in Nat \X Nat : ss[1] < ss[2]}
<1>0. IsWellFoundedOn(R, Nat)
  BY NatLessThanWellFounded DEF OpToRel
<1>1. PICK m \in S : \A n \in S : <<n, m>> \notin R
  <2>. HIDE DEF R
  <2>. QED  BY <1>0, WFMin
<1>2. ASSUME NEW n \in S, n < m PROVE FALSE
  <2>1. n \in Nat /\ m \in Nat
    OBVIOUS
  <2>2. <<n, m>> \in R
    BY <2>1, <1>2
  <2>. QED  BY <2>2, <1>1
<1>3. \A n \in S : m <= n
  BY <1>2
<1>. QED  BY <1>3 DEF Min

\* Max of two naturals.
LEMMA MaxOfTwo ==
  ASSUME NEW a \in Nat, NEW b \in Nat
  PROVE  Max({a, b}) \in {a, b} /\ Max({a, b}) >= a /\ Max({a, b}) >= b
BY DEF Max

\* Every key is at some offset from next: at its distance.
LEMMA DistIsOffset ==
  ASSUME next \in Key, NEW k \in Key
  PROVE  /\ Dist(k, next) \in Key
         /\ KeyAt(Dist(k, next)) = k
<1>1. Dist(k, next) \in Key
  BY PoolAssumption DEF Key, Dist
<1>2. (next + Dist(k, next)) % NumKeys = k
  <2>1. (next + Dist(k, next)) % NumKeys
          = IF next + Dist(k, next) < NumKeys THEN next + Dist(k, next)
                                              ELSE next + Dist(k, next) - NumKeys
    BY <1>1, PoolAssumption DEF Key
  <2>. QED  BY <2>1, PoolAssumption DEF Key, Dist
<1>. QED  BY <1>1, <1>2 DEF KeyAt

\* A key at an offset is a key, and its distance is that offset.
LEMMA OffsetIsDist ==
  ASSUME next \in Key, NEW o \in Key
  PROVE  /\ KeyAt(o) \in Key
         /\ KeyAt(o) = IF next + o < NumKeys THEN next + o ELSE next + o - NumKeys
         /\ Dist(KeyAt(o), next) = o
<1>1. next \in Int /\ o \in Int
  BY DEF Key
<1>2. KeyAt(o) = IF next + o < NumKeys THEN next + o ELSE next + o - NumKeys
  BY <1>1, PoolAssumption DEF KeyAt, Key
<1>. QED  BY <1>2, PoolAssumption DEF Key, Dist

\* After a key is taken the search begins behind it.
LEMMA AdvanceIs ==
  ASSUME NEW k \in Key
  PROVE  /\ Advance(k) \in Key
         /\ Advance(k) = IF k + 1 < NumKeys THEN k + 1 ELSE 0
<1>2. (k + 1) % NumKeys = IF k + 1 < NumKeys THEN k + 1 ELSE k + 1 - NumKeys
  BY PoolAssumption DEF Key
<1>. QED  BY <1>2, PoolAssumption DEF Key, Advance

\* Taking the key at offset o brings the keys behind it closer by o + 1.
LEMMA DistAfter ==
  ASSUME next \in Key, NEW o \in Key, NEW j \in Key, Dist(j, next) > o
  PROVE  Dist(j, Advance(KeyAt(o))) = Dist(j, next) - o - 1
<1>1. /\ KeyAt(o) \in Key
      /\ KeyAt(o) = IF next + o < NumKeys THEN next + o ELSE next + o - NumKeys
  BY OffsetIsDist
<1>2. Advance(KeyAt(o)) = IF KeyAt(o) + 1 < NumKeys THEN KeyAt(o) + 1 ELSE 0
  BY <1>1, AdvanceIs
<1>. HIDE DEF KeyAt, Advance
<1>. QED  BY <1>1, <1>2, PoolAssumption DEF Key, Dist

\* The distance of any key is less than NumKeys.
LEMMA DistBound ==
  ASSUME NEW n \in Key, NEW k \in Key
  PROVE  Dist(k, n) \in 0..(NumKeys - 1)
BY PoolAssumption DEF Key, Dist

\* What RemoveAt leaves.
LEMMA RemoveAtIs ==
  ASSUME NEW q \in Seq(Caller), NEW i \in 1..Len(q)
  PROVE  /\ RemoveAt(q, i) \in Seq(Caller)
         /\ Len(RemoveAt(q, i)) = Len(q) - 1
         /\ \A j \in 1..(Len(q) - 1) :
              RemoveAt(q, i)[j] = q[IF j < i THEN j ELSE j + 1]
<1>. DEFINE front == SubSeq(q, 1, i - 1)
            back == SubSeq(q, i + 1, Len(q))
<1>0. Len(q) \in Nat /\ i \in Nat /\ 1 <= i /\ i <= Len(q)
  OBVIOUS
<1>1. /\ front \in Seq(Caller)
      /\ Len(front) = i - 1
      /\ \A j \in 1..(i - 1) : front[j] = q[j]
  BY <1>0
<1>2. /\ back \in Seq(Caller)
      /\ Len(back) = Len(q) - i
      /\ \A j \in 1..(Len(q) - i) : back[j] = q[i + j]
  BY <1>0
<1>3. RemoveAt(q, i) = front \o back
  BY DEF RemoveAt
<1>. HIDE DEF front, back
<1>4. /\ front \o back \in Seq(Caller)
      /\ Len(front \o back) = Len(q) - 1
  <2>1. front \o back \in Seq(Caller) /\ Len(front \o back) = Len(front) + Len(back)
    BY <1>1, <1>2, ConcatProperties
  <2>. QED  BY <2>1, <1>0, <1>1, <1>2
<1>5. ASSUME NEW j \in 1..(Len(q) - 1)
      PROVE  (front \o back)[j] = q[IF j < i THEN j ELSE j + 1]
  <2>1. CASE j < i
    <3>1. j \in 1..Len(front) /\ (front \o back)[j] = front[j]
      BY <1>0, <1>1, <1>2, <2>1
    <3>. QED  BY <3>1, <1>1, <2>1
  <2>2. CASE ~(j < i)
    <3>1. (front \o back)[j] = back[j - (i - 1)]
      BY <1>0, <1>1, <1>2, <2>2
    <3>2. j - (i - 1) \in 1..(Len(q) - i) /\ i + (j - (i - 1)) = j + 1
      BY <1>0, <2>2
    <3>3. back[j - (i - 1)] = q[j + 1]
      BY <1>2, <3>2
    <3>. QED  BY <3>1, <3>3, <2>2
  <2>. QED  BY <2>1, <2>2
<1>. QED  BY <1>3, <1>4, <1>5

-----------------------------------------------------------------------------
(***************************************************************************)
(* What the steps do.                                                      *)
(***************************************************************************)

\* A slot is held by finitely many callers; one that holds a slot is counted.
LEMMA HoldersFinite ==
  /\ IsFiniteSet(Holders)
  /\ Cardinality(Holders) \in Nat
  /\ \A c \in Holders : Cardinality(Holders) > 0
<1>1. IsFiniteSet(Holders) /\ Cardinality(Holders) \in Nat
  BY PoolAssumption, FS_Subset, FS_CardinalityType DEF Holders
<1>2. Cardinality(Holders) = 0 <=> Holders = {}
  BY <1>1, FS_EmptySet
<1>. QED  BY <1>1, <1>2

\* Acquire adds its caller to the holders.
LEMMA HoldersGrow ==
  ASSUME TypeOK, QueueInv, NEW c \in Caller, Acquire(c)
  PROVE  Cardinality(Holders') = Cardinality(Holders) + 1
<1>1. pc[c] = "queued"
  <2>1. queue \in Seq(Caller) /\ queue # <<>> /\ Head(queue) = c
    BY DEF TypeOK, Acquire
  <2>2. Head(queue) = queue[1] /\ 1 \in 1..Len(queue)
    BY <2>1
  <2>. QED  BY <2>1, <2>2 DEF QueueInv
<1>2. c \notin Holders /\ Holders' = Holders \cup {c}
  BY <1>1 DEF Holders, Holding, TypeOK, Acquire
<1>. QED  BY <1>2, HoldersFinite, FS_AddElement

\* Return takes its caller out of them.
LEMMA HoldersShrink ==
  ASSUME TypeOK, NEW c \in Caller, pc[c] \in Holding, Return(c)
  PROVE  Cardinality(Holders') = Cardinality(Holders) - 1
<1>1. c \in Holders /\ Holders' = Holders \ {c}
  BY DEF Holders, Holding, TypeOK, Return
<1>. QED  BY <1>1, HoldersFinite, FS_RemoveElement

\* PickKey takes an available key, and of those the one nearest to next.
LEMMA PickIs ==
  ASSUME TypeOK, NEW c \in Caller, PickKey(c)
  PROVE  \E o \in Key :
           /\ KeyAt(o) \in Key
           /\ Available(KeyAt(o))
           /\ \A j \in Key : Available(j) => Dist(j, next) >= o
           /\ key' = [key EXCEPT ![c] = KeyAt(o)]
           /\ next' = Advance(KeyAt(o))
           /\ passed' = [j \in Key |-> IF j = KeyAt(o) \/ ~Available(j)
                                       THEN 0 ELSE passed[j] + 1]
<1>. DEFINE S == {o \in Key : Available(KeyAt(o))}
            o == Min(S)
<1>0. next \in Key
  BY DEF TypeOK
<1>1. \A j \in Key : Available(j) => Dist(j, next) \in S
  BY <1>0, DistIsOffset
<1>2. S # {}
  BY <1>1 DEF PickKey
<1>3. S \in SUBSET Nat
  BY DEF Key
<1>4. o \in S /\ \A n \in S : o <= n
  <2>. HIDE DEF S
  <2>. QED  BY <1>2, <1>3, MinOfNats
<1>5. /\ key' = [key EXCEPT ![c] = KeyAt(o)]
      /\ next' = Advance(KeyAt(o))
      /\ passed' = [j \in Key |-> IF j = KeyAt(o) \/ ~Available(j)
                                  THEN 0 ELSE passed[j] + 1]
  BY DEF PickKey
<1>6. o \in Key /\ Available(KeyAt(o))
  BY <1>4
<1>7. \A j \in Key : Available(j) => Dist(j, next) >= o
  <2>. SUFFICES ASSUME NEW j \in Key, Available(j)  PROVE Dist(j, next) >= o
    OBVIOUS
  <2>1. Dist(j, next) \in Key /\ o <= Dist(j, next)
    BY <1>0, <1>1, <1>4, DistIsOffset
  <2>2. o \in Int /\ Dist(j, next) \in Int
    <3>. HIDE DEF o
    <3>. QED  BY <1>6, <2>1 DEF Key
  <2>. HIDE DEF o
  <2>. QED  BY <2>1, <2>2
<1>8. KeyAt(o) \in Key
  BY <1>0, <1>6, OffsetIsDist
<1>. HIDE DEF o
<1>. QED  BY <1>5, <1>6, <1>7, <1>8

\* AwaitKey sleeps no longer than any cooldown, and some time.
LEMMA EarliestIs ==
  ASSUME TypeOK
  PROVE  /\ EarliestCooldown \in Nat
         /\ \A k \in Key : EarliestCooldown <= cool[k]
<1>. DEFINE S == {cool[k] : k \in Key}
<1>1. S \in SUBSET Nat /\ \A k \in Key : cool[k] \in S
  BY DEF TypeOK
<1>2. S # {}
  <2>1. 0 \in Key
    BY PoolAssumption DEF Key
  <2>. QED  BY <1>1, <2>1
<1>3. EarliestCooldown = Min(S)
  BY DEF EarliestCooldown
<1>. HIDE DEF S
<1>4. Min(S) \in S /\ \A n \in S : Min(S) <= n
  BY <1>1, <1>2, MinOfNats
<1>. QED  BY <1>1, <1>3, <1>4

\* An answer 429 prolongs one cooldown, to the pause asked for at least.
LEMMA CooldownIs ==
  ASSUME TypeOK, NEW c \in Caller, NEW r \in 0..MaxRetryAfter, RateLimited(c, r)
  PROVE  LET d == RestAsked(r, attempt[c])
         IN  /\ d \in Nat \ {0}
             /\ cool' \in [Key -> Nat]
             /\ \A k \in Key : cool'[k] >= cool[k]
             /\ cool'[key[c]] >= d
             /\ owed' = owed \cup {<<key[c], d>>}
<1>. DEFINE d == RestAsked(r, attempt[c])
            m == Max({cool[key[c]], d})
<1>1. attempt[c] \in 0..(MaxRetries - 1) /\ key[c] \in Key
  BY DEF TypeOK
<1>2. Backoff(attempt[c]) \in Nat \ {0}
  BY <1>1, PoolAssumption
<1>3. d \in Nat \ {0}
  BY <1>2, PoolAssumption DEF RestAsked
<1>4. cool' = [cool EXCEPT ![key[c]] = m] /\ owed' = owed \cup {<<key[c], d>>}
  BY DEF RateLimited, Cooldown
<1>. HIDE DEF d
<1>5. cool[key[c]] \in Nat
  BY <1>1 DEF TypeOK
<1>6. m \in Nat /\ m >= cool[key[c]] /\ m >= d
  BY <1>3, <1>5, MaxOfTwo
<1>. HIDE DEF m
<1>7. /\ cool' \in [Key -> Nat]
      /\ \A k \in Key : cool'[k] >= cool[k]
      /\ cool'[key[c]] >= d
  BY <1>1, <1>4, <1>5, <1>6 DEF TypeOK
<1>. QED  BY <1>3, <1>4, <1>7 DEF d

-----------------------------------------------------------------------------
(***************************************************************************)
(* The invariant is inductive.                                             *)
(***************************************************************************)

LEMMA InitPool == Init => PoolInv
<1>. SUFFICES ASSUME Init PROVE PoolInv
  OBVIOUS
<1>1. TypeOK
  BY PoolAssumption DEF Init, TypeOK, Key
<1>2. SlotInv
  <2>1. Holders = {}
    BY DEF Init, Holders, Holding
  <2>. QED  BY <2>1, FS_EmptySet DEF Init, SlotInv
<1>3. QueueInv
  BY DEF Init, QueueInv
<1>4. SleepInv /\ RestInv
  BY DEF Init, SleepInv, RestInv
<1>5. TurnInv
  BY PoolAssumption DEF Init, TurnInv, Dist, Key
<1>. QED  BY <1>1, <1>2, <1>3, <1>4, <1>5 DEF PoolInv

\* The slots: a path that returns gives back the one it took.
LEMMA StepSlot == PoolInv /\ [Next]_vars => SlotInv' /\ sem' \in 0..Slots
<1>. SUFFICES ASSUME PoolInv, [Next]_vars PROVE SlotInv' /\ sem' \in 0..Slots
  OBVIOUS
<1>0. TypeOK /\ QueueInv /\ SlotInv /\ sem \in 0..Slots
  BY DEF PoolInv, TypeOK
<1>1. ASSUME sem' = sem, Holders' = Holders PROVE SlotInv' /\ sem' \in 0..Slots
  BY <1>0, <1>1 DEF SlotInv
<1>2. ASSUME NEW c \in Caller, pc[c] \in Holding, Return(c)
      PROVE  SlotInv' /\ sem' \in 0..Slots
  <2>1. Cardinality(Holders') = Cardinality(Holders) - 1 /\ sem' = sem - 1
    BY <1>0, <1>2, HoldersShrink DEF Return
  <2>2. c \in Holders
    BY <1>2 DEF Holders
  <2>3. sem > 0
    BY <1>0, <2>2, HoldersFinite DEF SlotInv
  <2>. QED  BY <1>0, <2>1, <2>3, PoolAssumption DEF SlotInv
<1>3. ASSUME NEW c \in Caller, Call(c) \/ CancelQueued(c)
      PROVE  SlotInv' /\ sem' \in 0..Slots
  BY <1>0, <1>1, <1>3 DEF Call, CancelQueued, Holders, Holding, TypeOK
<1>4. ASSUME NEW c \in Caller, Acquire(c)
      PROVE  SlotInv' /\ sem' \in 0..Slots
  <2>1. Cardinality(Holders') = Cardinality(Holders) + 1
    BY <1>0, <1>4, HoldersGrow
  <2>2. sem' = sem + 1 /\ sem < Slots
    BY <1>4 DEF Acquire
  <2>. QED  BY <1>0, <2>1, <2>2, PoolAssumption DEF SlotInv
<1>5. ASSUME NEW c \in Caller, PickKey(c) \/ AwaitKey(c) \/ Wake(c)
      PROVE  SlotInv' /\ sem' \in 0..Slots
  BY <1>0, <1>1, <1>5 DEF PickKey, AwaitKey, Wake, Holders, Holding, TypeOK
<1>6. ASSUME NEW c \in Caller, Answer(c) \/ CancelSleep(c)
      PROVE  SlotInv' /\ sem' \in 0..Slots
  BY <1>2, <1>6 DEF Answer, CancelSleep, Holding
<1>7. ASSUME NEW c \in Caller, NEW r \in 0..MaxRetryAfter, RateLimited(c, r)
      PROVE  SlotInv' /\ sem' \in 0..Slots
  <2>0. pc[c] = "sent"
    BY <1>7 DEF RateLimited
  <2>1. CASE Return(c)
    BY <1>2, <2>0, <2>1 DEF Holding
  <2>2. CASE sem' = sem /\ pc' = [pc EXCEPT ![c] = "backoff"]
    BY <1>0, <1>1, <2>0, <2>2 DEF Holders, Holding, TypeOK
  <2>. QED  BY <1>7, <2>1, <2>2 DEF RateLimited
<1>8. CASE Tick \/ UNCHANGED vars
  BY <1>1, <1>8 DEF Tick, vars, callVars, Holders
<1>9. ASSUME NEW c \in Caller, Call(c) \/ Step(c) \/ CancelQueued(c) \/ CancelSleep(c)
      PROVE  SlotInv' /\ sem' \in 0..Slots
  BY <1>3, <1>4, <1>5, <1>6, <1>7, <1>9 DEF Step
<1>. QED  BY <1>8, <1>9 DEF Next

\* The queue.
LEMMA StepQueue == PoolInv /\ [Next]_vars => QueueInv' /\ queue' \in Seq(Caller)
<1>. SUFFICES ASSUME PoolInv, [Next]_vars PROVE QueueInv' /\ queue' \in Seq(Caller)
  OBVIOUS
<1>0. /\ queue \in Seq(Caller) /\ Len(queue) \in Nat
      /\ \A i \in 1..Len(queue) : queue[i] \in Caller /\ pc[queue[i]] = "queued"
      /\ \A i, j \in 1..Len(queue) : queue[i] = queue[j] => i = j
      /\ DOMAIN pc = Caller
      /\ DOMAIN queue = 1..Len(queue)
  BY DEF PoolInv, TypeOK, QueueInv
<1>1. ASSUME NEW c \in Caller, pc[c] # "queued", UNCHANGED queue,
             \A d \in Caller \ {c} : pc'[d] = pc[d]
      PROVE  QueueInv' /\ queue' \in Seq(Caller)
  BY <1>0, <1>1 DEF QueueInv
<1>2. ASSUME NEW c \in Caller, Call(c)
      PROVE  QueueInv' /\ queue' \in Seq(Caller)
  <2>1. queue' = Append(queue, c) /\ pc' = [pc EXCEPT ![c] = "queued"] /\ pc[c] = "idle"
    BY <1>2 DEF Call
  <2>2. /\ queue' \in Seq(Caller)
        /\ Len(queue') = Len(queue) + 1
        /\ \A i \in 1..Len(queue) : queue'[i] = queue[i]
        /\ queue'[Len(queue) + 1] = c
    BY <1>0, <2>1, AppendProperties
  <2>3. \A i \in 1..Len(queue) : queue[i] # c
    BY <1>0, <2>1
  <2>. QED  BY <1>0, <2>1, <2>2, <2>3 DEF QueueInv
<1>3. ASSUME NEW c \in Caller, Acquire(c)
      PROVE  QueueInv' /\ queue' \in Seq(Caller)
  <2>1. queue # <<>> /\ queue[1] = c /\ queue' = Tail(queue) /\ pc' = [pc EXCEPT ![c] = "pick"]
    BY <1>0, <1>3 DEF Acquire
  <2>2. /\ queue' \in Seq(Caller)
        /\ Len(queue') = Len(queue) - 1
        /\ \A i \in 1..(Len(queue) - 1) : queue'[i] = queue[i + 1]
    BY <1>0, <2>1
  <2>3. \A i \in 1..Len(queue') : i + 1 \in 1..Len(queue) /\ queue'[i] = queue[i + 1] /\ queue'[i] # c
    BY <1>0, <2>1, <2>2
  <2>. QED  BY <1>0, <2>1, <2>2, <2>3 DEF QueueInv
<1>4. ASSUME NEW c \in Caller, CancelQueued(c)
      PROVE  QueueInv' /\ queue' \in Seq(Caller)
  <2>1. PICK i \in 1..Len(queue) : queue[i] = c /\ queue' = RemoveAt(queue, i)
    BY <1>0, <1>4 DEF CancelQueued
  <2>2. pc' = [pc EXCEPT ![c] = "idle"]
    BY <1>4 DEF CancelQueued
  <2>3. /\ queue' \in Seq(Caller)
        /\ Len(queue') = Len(queue) - 1
        /\ \A j \in 1..(Len(queue) - 1) : queue'[j] = queue[IF j < i THEN j ELSE j + 1]
    BY <1>0, <2>1, RemoveAtIs
  <2>4. ASSUME NEW j \in 1..Len(queue')
        PROVE  \E n \in 1..Len(queue) :
                 /\ n = IF j < i THEN j ELSE j + 1
                 /\ n # i
                 /\ queue'[j] = queue[n]
    BY <1>0, <2>3
  <2>5. \A j \in 1..Len(queue') : queue'[j] # c /\ pc[queue'[j]] = "queued"
    BY <1>0, <2>1, <2>4
  <2>6. \A j \in 1..Len(queue') : pc'[queue'[j]] = "queued"
    BY <1>0, <2>2, <2>5
  <2>7. ASSUME NEW j \in 1..Len(queue'), NEW l \in 1..Len(queue'), queue'[j] = queue'[l]
        PROVE  j = l
    <3>1. PICK n \in 1..Len(queue) : n = (IF j < i THEN j ELSE j + 1) /\ queue'[j] = queue[n]
      BY <2>4
    <3>2. PICK p \in 1..Len(queue) : p = (IF l < i THEN l ELSE l + 1) /\ queue'[l] = queue[p]
      BY <2>4
    <3>3. n = p
      BY <1>0, <2>7, <3>1, <3>2
    <3>4. j \in Int /\ l \in Int /\ i \in Int
      BY <1>0, <2>3
    <3>. QED  BY <3>1, <3>2, <3>3, <3>4
  <2>. QED  BY <2>3, <2>6, <2>7 DEF QueueInv
<1>5. ASSUME NEW c \in Caller,
             \/ PickKey(c) \/ AwaitKey(c) \/ Wake(c) \/ Answer(c) \/ CancelSleep(c)
             \/ \E r \in 0..MaxRetryAfter : RateLimited(c, r)
      PROVE  QueueInv' /\ queue' \in Seq(Caller)
  <2>1. pc[c] # "queued" /\ UNCHANGED queue /\ \A d \in Caller \ {c} : pc'[d] = pc[d]
    BY <1>0, <1>5 DEF PickKey, AwaitKey, Wake, Answer, CancelSleep, RateLimited, Return
  <2>. QED  BY <1>1, <2>1
<1>6. CASE Tick \/ UNCHANGED vars
  BY <1>0, <1>6 DEF Tick, vars, callVars, QueueInv
<1>. QED  BY <1>2, <1>3, <1>4, <1>5, <1>6 DEF Next, Step

\* The timers against the cooldowns.
LEMMA StepSleep == PoolInv /\ [Next]_vars => SleepInv'
<1>. SUFFICES ASSUME PoolInv, [Next]_vars,
                     NEW d \in Caller, pc'[d] = "waiting", NEW k \in Key
              PROVE  wait'[d] <= cool'[k]
  BY DEF SleepInv
<1>0. /\ TypeOK
      /\ pc[d] = "waiting" => wait[d] <= cool[k]
      /\ cool[k] \in Nat /\ wait[d] \in Nat
      /\ DOMAIN pc = Caller /\ DOMAIN wait = Caller
  BY DEF PoolInv, SleepInv, TypeOK
<1>1. ASSUME pc[d] = "waiting", wait'[d] = wait[d], cool'[k] \in Nat, cool'[k] >= cool[k]
      PROVE  wait'[d] <= cool'[k]
  BY <1>0, <1>1
<1>2. ASSUME NEW c \in Caller,
             \/ Call(c) \/ CancelQueued(c) \/ Acquire(c) \/ PickKey(c)
             \/ Wake(c) \/ Answer(c) \/ CancelSleep(c)
      PROVE  wait'[d] <= cool'[k]
  <2>1. pc[d] = "waiting" /\ wait'[d] = wait[d] /\ cool' = cool
    BY <1>0, <1>2
       DEF Call, CancelQueued, Acquire, PickKey, Wake, Answer, CancelSleep, Return
  <2>. QED  BY <1>0, <2>1
<1>3. ASSUME NEW c \in Caller, AwaitKey(c)
      PROVE  wait'[d] <= cool'[k]
  <2>1. CASE c = d
    BY <1>0, <1>3, <2>1, EarliestIs DEF AwaitKey
  <2>2. CASE c # d
    BY <1>0, <1>3, <2>2 DEF AwaitKey
  <2>. QED  BY <2>1, <2>2
<1>4. ASSUME NEW c \in Caller, NEW r \in 0..MaxRetryAfter, RateLimited(c, r)
      PROVE  wait'[d] <= cool'[k]
  <2>1. cool' \in [Key -> Nat] /\ cool'[k] >= cool[k]
    BY <1>0, <1>4, CooldownIs
  <2>2. c # d /\ pc'[d] = pc[d] /\ wait'[d] = wait[d]
    BY <1>0, <1>4 DEF RateLimited, Return
  <2>. QED  BY <1>1, <2>1, <2>2
<1>5. CASE Tick
  <2>1. /\ pc[d] = "waiting"
        /\ wait'[d] = Less(wait[d])
        /\ cool'[k] = Less(cool[k])
    BY <1>5 DEF Tick
  <2>. QED  BY <1>0, <2>1 DEF Less
<1>6. CASE UNCHANGED vars
  BY <1>0, <1>6 DEF vars, callVars
<1>7. ASSUME NEW c \in Caller, Call(c) \/ Step(c) \/ CancelQueued(c) \/ CancelSleep(c)
      PROVE  wait'[d] <= cool'[k]
  BY <1>2, <1>3, <1>4, <1>7 DEF Step
<1>. QED  BY <1>5, <1>6, <1>7 DEF Next

\* The pauses TronGrid asked for against the cooldowns.
LEMMA StepRest == PoolInv /\ [Next]_vars =>
  RestInv' /\ owed' \subseteq Key \X (Nat \ {0}) /\ cool' \in [Key -> Nat]
<1>. SUFFICES ASSUME PoolInv, [Next]_vars
              PROVE  RestInv' /\ owed' \subseteq Key \X (Nat \ {0}) /\ cool' \in [Key -> Nat]
  OBVIOUS
<1>0. /\ TypeOK /\ RestInv
      /\ cool \in [Key -> Nat]
      /\ owed \subseteq Key \X (Nat \ {0})
  BY DEF PoolInv, TypeOK
<1>1. ASSUME UNCHANGED <<cool, owed>>
      PROVE  RestInv' /\ owed' \subseteq Key \X (Nat \ {0}) /\ cool' \in [Key -> Nat]
  BY <1>0, <1>1 DEF RestInv
<1>2. ASSUME NEW c \in Caller, NEW r \in 0..MaxRetryAfter, RateLimited(c, r)
      PROVE  RestInv' /\ owed' \subseteq Key \X (Nat \ {0}) /\ cool' \in [Key -> Nat]
  <2>. DEFINE d == RestAsked(r, attempt[c])
  <2>1. /\ d \in Nat \ {0}
        /\ cool' \in [Key -> Nat]
        /\ \A k \in Key : cool'[k] >= cool[k]
        /\ cool'[key[c]] >= d
        /\ owed' = owed \cup {<<key[c], d>>}
    BY <1>0, <1>2, CooldownIs
  <2>2. key[c] \in Key
    BY <1>0 DEF TypeOK
  <2>. HIDE DEF d
  <2>3. owed' \subseteq Key \X (Nat \ {0})
    BY <1>0, <2>1, <2>2
  <2>4. ASSUME NEW o \in owed' PROVE o[2] <= cool'[o[1]]
    <3>1. CASE o \in owed
      <4>1. o[1] \in Key /\ o[2] \in Nat /\ o[2] <= cool[o[1]]
        BY <1>0, <3>1 DEF RestInv
      <4>2. cool'[o[1]] >= cool[o[1]] /\ cool'[o[1]] \in Nat /\ cool[o[1]] \in Nat
        BY <1>0, <2>1, <4>1
      <4>. QED  BY <4>1, <4>2
    <3>2. CASE o = <<key[c], d>>
      <4>1. cool'[key[c]] \in Nat /\ d \in Nat
        BY <2>1, <2>2
      <4>. QED  BY <2>1, <3>2, <4>1
    <3>. QED  BY <2>1, <3>1, <3>2
  <2>. QED  BY <2>1, <2>3, <2>4 DEF RestInv
<1>3. CASE Tick
  <2>1. /\ cool' = [k \in Key |-> Less(cool[k])]
        /\ owed' = {<<o[1], Less(o[2])>> : o \in {o \in owed : o[2] > 1}}
    BY <1>3 DEF Tick
  <2>2. \A n \in Nat : Less(n) \in Nat /\ (n > 1 => Less(n) \in Nat \ {0})
    BY DEF Less
  <2>3. \A m, n \in Nat : m <= n => Less(m) <= Less(n)
    BY DEF Less
  <2>4. cool' \in [Key -> Nat]
    BY <1>0, <2>1, <2>2
  <2>5. ASSUME NEW p \in owed'
        PROVE  p \in Key \X (Nat \ {0}) /\ p[2] <= cool'[p[1]]
    <3>1. PICK o \in owed : o[2] > 1 /\ p = <<o[1], Less(o[2])>>
      BY <2>1
    <3>2. o[1] \in Key /\ o[2] \in Nat /\ o[2] <= cool[o[1]] /\ cool[o[1]] \in Nat
      BY <1>0 DEF RestInv
    <3>3. Less(o[2]) \in Nat \ {0} /\ Less(o[2]) <= Less(cool[o[1]])
      BY <2>2, <2>3, <3>1, <3>2
    <3>4. cool'[o[1]] = Less(cool[o[1]])
      BY <2>1, <3>2
    <3>. QED  BY <3>1, <3>2, <3>3, <3>4
  <2>. QED  BY <2>4, <2>5 DEF RestInv
<1>4. CASE UNCHANGED vars
  BY <1>1, <1>4 DEF vars
<1>5. ASSUME NEW c \in Caller,
             \/ Call(c) \/ CancelQueued(c) \/ Acquire(c) \/ PickKey(c) \/ AwaitKey(c)
             \/ Wake(c) \/ Answer(c) \/ CancelSleep(c)
      PROVE  UNCHANGED <<cool, owed>>
  BY <1>5 DEF Call, CancelQueued, Acquire, PickKey, AwaitKey, Wake, Answer, CancelSleep
<1>6. ASSUME NEW c \in Caller, Call(c) \/ Step(c) \/ CancelQueued(c) \/ CancelSleep(c)
      PROVE  RestInv' /\ owed' \subseteq Key \X (Nat \ {0}) /\ cool' \in [Key -> Nat]
  BY <1>1, <1>2, <1>5, <1>6 DEF Step
<1>. QED  BY <1>3, <1>4, <1>6 DEF Next

\* The turns: a request that passes k over takes a key before it, and so
\* brings next closer to k.
LEMMA StepTurn == PoolInv /\ [Next]_vars =>
  TurnInv' /\ passed' \in [Key -> Nat] /\ next' \in Key
<1>. SUFFICES ASSUME PoolInv, [Next]_vars
              PROVE  TurnInv' /\ passed' \in [Key -> Nat] /\ next' \in Key
  OBVIOUS
<1>0. /\ TypeOK
      /\ next \in Key
      /\ passed \in [Key -> Nat]
      /\ \A k \in Key : passed[k] + Dist(k, next) < NumKeys
  BY DEF PoolInv, TurnInv, TypeOK
<1>1. ASSUME UNCHANGED <<passed, next>>
      PROVE  TurnInv' /\ passed' \in [Key -> Nat] /\ next' \in Key
  BY <1>0, <1>1 DEF TurnInv
<1>2. ASSUME NEW c \in Caller, PickKey(c)
      PROVE  TurnInv' /\ passed' \in [Key -> Nat] /\ next' \in Key
  <2>1. PICK o \in Key :
          /\ KeyAt(o) \in Key
          /\ \A j \in Key : Available(j) => Dist(j, next) >= o
          /\ next' = Advance(KeyAt(o))
          /\ passed' = [j \in Key |-> IF j = KeyAt(o) \/ ~Available(j)
                                      THEN 0 ELSE passed[j] + 1]
    BY <1>0, <1>2, PickIs
  <2>2. next' \in Key
    BY <2>1, AdvanceIs
  <2>3. passed' \in [Key -> Nat]
    BY <1>0, <2>1
  <2>4. ASSUME NEW j \in Key PROVE passed'[j] + Dist(j, next') < NumKeys
    <3>1. CASE j = KeyAt(o) \/ ~Available(j)
      <4>1. passed'[j] = 0
        BY <2>1, <3>1
      <4>2. Dist(j, next') \in 0..(NumKeys - 1)
        BY <2>2, DistBound
      <4>. QED  BY <4>1, <4>2, PoolAssumption
    <3>2. CASE j # KeyAt(o) /\ Available(j)
      <4>1. passed'[j] = passed[j] + 1
        BY <2>1, <3>2
      <4>2. Dist(j, next) # o
        BY <1>0, <3>2, DistIsOffset
      <4>3. Dist(j, next) \in Int /\ o \in Int /\ o >= 0 /\ Dist(j, next) >= o
        BY <1>0, <2>1, <3>2, DistBound DEF Key
      <4>4. Dist(j, next') = Dist(j, next) - o - 1
        BY <1>0, <2>1, <4>2, <4>3, DistAfter
      <4>5. passed[j] \in Nat /\ passed[j] + Dist(j, next) < NumKeys
        BY <1>0
      <4>. QED  BY <4>1, <4>3, <4>4, <4>5, PoolAssumption
    <3>. QED  BY <3>1, <3>2
  <2>. QED  BY <2>2, <2>3, <2>4 DEF TurnInv
<1>3. ASSUME NEW c \in Caller, NEW r \in 0..MaxRetryAfter, RateLimited(c, r)
      PROVE  TurnInv' /\ passed' \in [Key -> Nat] /\ next' \in Key
  <2>1. key[c] \in Key
    BY <1>0 DEF TypeOK
  <2>2. passed' = [passed EXCEPT ![key[c]] = 0] /\ next' = next
    BY <1>3 DEF RateLimited
  <2>3. ASSUME NEW k \in Key PROVE passed'[k] + Dist(k, next) < NumKeys
    <3>1. Dist(k, next) \in 0..(NumKeys - 1)
      BY <1>0, DistBound
    <3>2. passed'[k] = 0 \/ passed'[k] = passed[k]
      BY <1>0, <2>1, <2>2
    <3>. QED  BY <1>0, <3>1, <3>2, PoolAssumption
  <2>. QED  BY <1>0, <2>1, <2>2, <2>3 DEF TurnInv
<1>4. ASSUME NEW c \in Caller,
             \/ Call(c) \/ CancelQueued(c) \/ Acquire(c) \/ AwaitKey(c)
             \/ Wake(c) \/ Answer(c) \/ CancelSleep(c)
      PROVE  UNCHANGED <<passed, next>>
  BY <1>4 DEF Call, CancelQueued, Acquire, AwaitKey, Wake, Answer, CancelSleep
<1>5. CASE Tick \/ UNCHANGED vars
  BY <1>1, <1>5 DEF Tick, vars
<1>6. ASSUME NEW c \in Caller, Call(c) \/ Step(c) \/ CancelQueued(c) \/ CancelSleep(c)
      PROVE  TurnInv' /\ passed' \in [Key -> Nat] /\ next' \in Key
  BY <1>1, <1>2, <1>3, <1>4, <1>6 DEF Step
<1>. QED  BY <1>5, <1>6 DEF Next

\* The types of what is left.
LEMMA StepCallers == PoolInv /\ [Next]_vars =>
  /\ pc' \in [Caller -> {"idle", "queued", "pick", "waiting", "sent", "backoff"}]
  /\ attempt' \in [Caller -> 0..(MaxRetries - 1)]
  /\ key' \in [Caller -> Key]
  /\ wait' \in [Caller -> Nat]
  /\ limits' \in 0..MaxLimits
<1>. DEFINE Goal ==
       /\ pc' \in [Caller -> {"idle", "queued", "pick", "waiting", "sent", "backoff"}]
       /\ attempt' \in [Caller -> 0..(MaxRetries - 1)]
       /\ key' \in [Caller -> Key]
       /\ wait' \in [Caller -> Nat]
       /\ limits' \in 0..MaxLimits
<1>. SUFFICES ASSUME PoolInv, [Next]_vars PROVE Goal
  OBVIOUS
<1>0. TypeOK
  BY DEF PoolInv
<1>a. /\ pc \in [Caller -> {"idle", "queued", "pick", "waiting", "sent", "backoff"}]
      /\ attempt \in [Caller -> 0..(MaxRetries - 1)]
      /\ key \in [Caller -> Key]
      /\ wait \in [Caller -> Nat]
      /\ limits \in 0..MaxLimits
  BY <1>0 DEF TypeOK
<1>1. ASSUME NEW c \in Caller,
             \/ Call(c) \/ CancelQueued(c) \/ Wake(c) \/ Answer(c) \/ CancelSleep(c)
      PROVE  Goal
  <2>1. CASE Call(c) \/ CancelQueued(c) \/ Wake(c)
    <3>1. /\ \E v \in {"queued", "idle", "pick"} : pc' = [pc EXCEPT ![c] = v]
          /\ UNCHANGED <<attempt, key, wait, limits>>
      BY <2>1 DEF Call, CancelQueued, Wake
    <3>. QED  BY <1>a, <3>1
  <2>2. CASE Answer(c) \/ CancelSleep(c)
    BY <1>a, <2>2 DEF Answer, CancelSleep, Return
  <2>. QED  BY <1>1, <2>1, <2>2
<1>2. ASSUME NEW c \in Caller, Acquire(c)
      PROVE  Goal
  <2>1. /\ pc' = [pc EXCEPT ![c] = "pick"]
        /\ attempt' = [attempt EXCEPT ![c] = 0]
        /\ UNCHANGED <<key, wait, limits>>
    BY <1>2 DEF Acquire
  <2>2. 0 \in 0..(MaxRetries - 1)
    BY PoolAssumption
  <2>. QED  BY <1>a, <2>1, <2>2
<1>3. ASSUME NEW c \in Caller, PickKey(c)
      PROVE  Goal
  <2>1. PICK o \in Key : KeyAt(o) \in Key /\ key' = [key EXCEPT ![c] = KeyAt(o)]
    BY <1>0, <1>3, PickIs
  <2>2. key' \in [Caller -> Key]
    BY <1>0, <2>1 DEF TypeOK
  <2>. QED  BY <1>0, <1>3, <2>2 DEF PickKey, TypeOK
<1>4. ASSUME NEW c \in Caller, AwaitKey(c)
      PROVE  Goal
  BY <1>0, <1>4, EarliestIs DEF AwaitKey, TypeOK
<1>5. ASSUME NEW c \in Caller, NEW r \in 0..MaxRetryAfter, RateLimited(c, r)
      PROVE  Goal
  <2>0. attempt[c] \in 0..(MaxRetries - 1)
    BY <1>0 DEF TypeOK
  <2>1. Backoff(attempt[c]) \in Nat
    BY <2>0, PoolAssumption
  <2>2. limits' \in 0..MaxLimits
    BY <1>0, <1>5, PoolAssumption DEF RateLimited, TypeOK
  <2>3. CASE Return(c)
    BY <1>0, <2>2, <2>3 DEF Return, TypeOK
  <2>4. CASE /\ attempt[c] + 1 < MaxRetries
             /\ attempt' = [attempt EXCEPT ![c] = @ + 1]
             /\ wait' = [wait EXCEPT ![c] = Backoff(attempt[c])]
             /\ pc' = [pc EXCEPT ![c] = "backoff"]
             /\ UNCHANGED key
    <3>1. attempt[c] + 1 \in 0..(MaxRetries - 1)
      BY <2>0, <2>4, PoolAssumption
    <3>2. attempt' \in [Caller -> 0..(MaxRetries - 1)]
      BY <1>0, <2>4, <3>1 DEF TypeOK
    <3>. QED  BY <1>0, <2>1, <2>2, <2>4, <3>2 DEF TypeOK
  <2>. QED  BY <1>5, <2>3, <2>4 DEF RateLimited
<1>6. CASE Tick
  <2>1. \A n \in Nat : Less(n) \in Nat
    BY DEF Less
  <2>. QED  BY <1>0, <1>6, <2>1 DEF Tick, TypeOK
<1>7. CASE UNCHANGED vars
  BY <1>0, <1>7 DEF vars, callVars, TypeOK
<1>8. ASSUME NEW c \in Caller, Call(c) \/ Step(c) \/ CancelQueued(c) \/ CancelSleep(c)
      PROVE  Goal
  <2>. HIDE DEF Goal
  <2>. QED  BY <1>1, <1>2, <1>3, <1>4, <1>5, <1>8 DEF Step
<1>. HIDE DEF Goal
<1>. QED  BY <1>6, <1>7, <1>8 DEF Next

LEMMA StepPool == PoolInv /\ [Next]_vars => PoolInv'
<1>. SUFFICES ASSUME PoolInv, [Next]_vars PROVE PoolInv'
  OBVIOUS
<1>1. TypeOK'
  BY StepSlot, StepQueue, StepRest, StepTurn, StepCallers DEF TypeOK
<1>. QED  BY <1>1, StepSlot, StepQueue, StepSleep, StepRest, StepTurn DEF PoolInv

\* PoolInv is an invariant.
LEMMA Invariance == Spec => []PoolInv
BY InitPool, StepPool, PTL DEF Spec

-----------------------------------------------------------------------------
(***************************************************************************)
(* Type correctness, with the semaphore: the slots taken are never more    *)
(* than its capacity and never below zero, on every path of tronGridDo.    *)
(***************************************************************************)
THEOREM TypeCorrect == Spec => []TypeOK
<1>1. PoolInv => TypeOK
  BY DEF PoolInv
<1>. QED  BY <1>1, Invariance, PTL

(***************************************************************************)
(* Round robin leaves no key out: NoKeyLeftOut, for any number of keys.    *)
(* What a key has waited and its distance from next, together, stay below  *)
(* NumKeys (nextAvailable).                                                *)
(***************************************************************************)
THEOREM EveryKeyHasItsTurn == Spec => []NoKeyLeftOut
<1>1. PoolInv => NoKeyLeftOut
  <2>. SUFFICES ASSUME PoolInv, NEW k \in Key PROVE passed[k] < NumKeys
    BY DEF NoKeyLeftOut
  <2>1. next \in Key /\ passed[k] \in Nat /\ passed[k] + Dist(k, next) < NumKeys
    BY DEF PoolInv, TypeOK, TurnInv
  <2>2. Dist(k, next) \in 0..(NumKeys - 1)
    BY <2>1, DistBound
  <2>. QED  BY <2>1, <2>2, PoolAssumption
<1>. QED  BY <1>1, Invariance, PTL

(***************************************************************************)
(* A call does not sleep past the moment a key is available: NoIdleSleep.  *)
(* A cooldown only grows while a call sleeps on the earliest of them       *)
(* (nextAvailable, cooldown).                                              *)
(***************************************************************************)
THEOREM SleepEndsInTime == Spec => []NoIdleSleep
<1>1. PoolInv => NoIdleSleep
  <2>. SUFFICES ASSUME PoolInv, NEW c \in Caller, pc[c] = "waiting", wait[c] > 0,
                       NEW k \in Key
                PROVE  ~Available(k)
    BY DEF NoIdleSleep
  <2>1. wait[c] \in Nat /\ cool[k] \in Nat /\ wait[c] <= cool[k]
    BY DEF PoolInv, TypeOK, SleepInv
  <2>. QED  BY <2>1 DEF Available
<1>. QED  BY <1>1, Invariance, PTL

(***************************************************************************)
(* A key rests for as long as any answer asked: KeysRested (cooldown only  *)
(* ever prolongs, nextAvailable takes a key that has cooled down).         *)
(***************************************************************************)
THEOREM PausesAreKept == Spec => KeysRested
<1>. DEFINE A == \A c \in Caller : PickKey(c) => \A o \in owed : o[1] # key'[c]
<1>1. PoolInv /\ [Next]_vars => [A]_vars
  <2>. SUFFICES ASSUME PoolInv, NEW c \in Caller, PickKey(c), NEW o \in owed
                PROVE  o[1] # key'[c]
    OBVIOUS
  <2>0. TypeOK
    BY DEF PoolInv
  <2>1. PICK n \in Key :
          /\ KeyAt(n) \in Key
          /\ Available(KeyAt(n))
          /\ key' = [key EXCEPT ![c] = KeyAt(n)]
    BY <2>0, PickIs
  <2>2. key'[c] = KeyAt(n) /\ cool[key'[c]] = 0
    BY <2>0, <2>1 DEF TypeOK, Available
  <2>3. o[2] \in Nat /\ o[2] > 0 /\ o[2] <= cool[o[1]]
    BY DEF PoolInv, TypeOK, RestInv
  <2>. QED  BY <2>2, <2>3
<1>2. KeysRested <=> [][A]_vars
  BY DEF KeysRested
<1>. HIDE DEF A
<1>. QED  BY <1>1, <1>2, Invariance, PTL DEF Spec

=============================================================================
