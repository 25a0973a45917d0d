-------------------------- MODULE BoundedQueueProofs --------------------------
(* Theorems about BoundedQueue for every set of threads, every capacity and   *)
(* every bound on the calls, with their proofs.                               *)
EXTENDS BoundedQueue, TLAPS, FiniteSetTheorems

USE DEF const, state, history, Threads, Policies

(* Type correctness: whatever the threads do, the fields of the queue stay in *)
(* the ranges the C++ types give them, and the capacity is never 0.           *)
THEOREM TypeCorrect == Spec => []TypeOK
<1> USE DEF TypeOK, Goto
<1>1. Init => TypeOK
  <2> SUFFICES ASSUME Init PROVE TypeOK
    OBVIOUS
  <2>1. capacity \in Nat \ {0} /\ policy \in Policies
    BY CapacityAssumption DEF Init
  <2>2. queue \in Seq(Nat) /\ accepted \in Seq(Nat) /\ delivered \in Seq(Nat)
    BY DEF Init
  <2>3. pc \in [Threads -> {"idle", "locking", "waiting", "notifying"}]
    BY DEF Init
  <2> QED
    BY <2>1, <2>2, <2>3 DEF Init
<1>2. TypeOK /\ [Next]_vars => TypeOK'
  <2> SUFFICES ASSUME TypeOK, [Next]_vars PROVE TypeOK'
    OBVIOUS
  <2>1. ASSUME NEW p \in Producers, CallPush(p) PROVE TypeOK'
    BY <2>1 DEF CallPush
  <2>2. ASSUME NEW p \in Producers, PushWait(p) \/ PushClosed(p) PROVE TypeOK'
    BY <2>2 DEF PushWait, PushClosed
  <2>3. ASSUME NEW p \in Producers, PushDropNewest(p) PROVE TypeOK'
    BY <2>3 DEF PushDropNewest
  <2>4. ASSUME NEW p \in Producers, PushDropOldest(p) PROVE TypeOK'
    <3>1. queue # <<>>
      BY <2>4 DEF PushDropOldest, Full
    <3>2. Tail(queue) \in Seq(Nat) /\ item[p] \in Nat
      BY <3>1
    <3> QED
      BY <2>4, <3>2 DEF PushDropOldest
  <2>5. ASSUME NEW p \in Producers, PushAppend(p) PROVE TypeOK'
    <3>1. item[p] \in Nat
      OBVIOUS
    <3> QED
      BY <2>5, <3>1 DEF PushAppend
  <2>6. ASSUME NEW p \in Producers, PushNotify(p) PROVE TypeOK'
    BY <2>6 DEF PushNotify, NotifyOne, At
  <2>7. ASSUME NEW c \in Consumers, CallPop(c) \/ PopWait(c) \/ PopEnd(c) PROVE TypeOK'
    BY <2>7 DEF CallPop, PopWait, PopEnd
  <2>8. ASSUME NEW c \in Consumers, PopTake(c) PROVE TypeOK'
    <3>1. Tail(queue) \in Seq(Nat) /\ Head(queue) \in Nat
      BY <2>8 DEF PopTake
    <3> QED
      BY <2>8, <3>1 DEF PopTake
  <2>9. ASSUME NEW c \in Consumers, PopNotify(c) PROVE TypeOK'
    BY <2>9 DEF PopNotify, NotifyOne, At
  <2>10. CASE Close
    BY <2>10 DEF Close
  <2>11. ASSUME NEW t \in Threads, SpuriousWakeup(t) PROVE TypeOK'
    BY <2>11 DEF SpuriousWakeup
  <2>12. CASE UNCHANGED vars
    BY <2>12 DEF vars
  <2> QED
    BY <2>1, <2>2, <2>3, <2>4, <2>5, <2>6, <2>7, <2>8, <2>9, <2>10, <2>11, <2>12
    DEF Next, Push, Pop
<1> QED
  BY <1>1, <1>2, PTL DEF Spec
------------------------------------------------------------------------------
(* The fields a queue operation touches are related as NewestSuffix and       *)
(* DropsAccounted say; the two are inductive together with TypeOK.            *)

(* What is queued is the newest part of what was accepted, in order, and     *)
(* never more than the capacity.                                             *)
THEOREM QueueIsNewestSuffix == Spec => []NewestSuffix
<1> USE DEF NewestSuffix, TypeOK
<1>1. Init => NewestSuffix
  BY CapacityAssumption DEF Init
<1>2. TypeOK /\ NewestSuffix /\ [Next]_vars => NewestSuffix'
  <2> SUFFICES ASSUME TypeOK, NewestSuffix, [Next]_vars PROVE NewestSuffix'
    OBVIOUS
  <2>1. ASSUME NEW p \in Producers, PushDropOldest(p) PROVE NewestSuffix'
    <3>1. /\ queue # <<>> /\ Len(queue) = capacity
          /\ capacity' = capacity
          /\ queue' = Append(Tail(queue), item[p])
          /\ accepted' = Append(accepted, item[p])
          /\ item[p] \in Nat
      BY <2>1 DEF PushDropOldest, Full
    <3>2. /\ Tail(queue) \in Seq(Nat)
          /\ Len(Tail(queue)) = Len(queue) - 1
          /\ \A i \in 1..Len(queue) - 1 : Tail(queue)[i] = queue[i + 1]
      BY <3>1
    <3>3. Len(queue) = Len(queue') /\ Len(accepted') = Len(accepted) + 1
      BY <3>1, <3>2
    <3>4. ASSUME NEW i \in 1..Len(queue)
          PROVE  queue'[i] = accepted'[Len(accepted) + 1 - Len(queue) + i]
      <4>1. CASE i = Len(queue)
        BY <4>1, <3>1, <3>2
      <4>2. CASE i # Len(queue)
        <5>1. i \in 1..Len(queue) - 1 /\ i + 1 \in 1..Len(queue)
          BY <4>2
        <5>2. queue'[i] = Tail(queue)[i]
          BY <5>1, <3>1, <3>2
        <5>3. queue'[i] = accepted[Len(accepted) - Len(queue) + (i + 1)]
          BY <5>1, <5>2, <3>2
        <5>4. Len(accepted) - Len(queue) + (i + 1) \in 1..Len(accepted)
          BY <5>1
        <5> QED
          BY <5>3, <5>4, <3>1
      <4> QED
        BY <4>1, <4>2
    <3>5. ASSUME NEW i \in 1..Len(queue')
          PROVE  queue'[i] = accepted'[Len(accepted') - Len(queue') + i]
      <4>1. i \in 1..Len(queue) /\ Len(accepted') - Len(queue') = Len(accepted) + 1 - Len(queue)
        BY <3>3
      <4> QED
        BY <4>1, <3>4
    <3>6. Len(queue') <= capacity' /\ Len(queue') <= Len(accepted')
      BY <3>1, <3>3
    <3> QED
      BY <3>5, <3>6
  <2>2. ASSUME NEW p \in Producers, PushAppend(p) PROVE NewestSuffix'
    <3>1. /\ Len(queue) < capacity
          /\ capacity' = capacity
          /\ queue' = Append(queue, item[p])
          /\ accepted' = Append(accepted, item[p])
          /\ item[p] \in Nat
      BY <2>2 DEF PushAppend, Full
    <3>2. Len(queue') = Len(queue) + 1 /\ Len(accepted') = Len(accepted) + 1
      BY <3>1
    <3>3. ASSUME NEW i \in 1..Len(queue) + 1
          PROVE  queue'[i] = accepted'[Len(accepted) - Len(queue) + i]
      <4>1. CASE i = Len(queue) + 1
        BY <4>1, <3>1
      <4>2. CASE i # Len(queue) + 1
        <5>1. i \in 1..Len(queue) /\ Len(accepted) - Len(queue) + i \in 1..Len(accepted)
          BY <4>2
        <5> QED
          BY <5>1, <3>1
      <4> QED
        BY <4>1, <4>2
    <3>4. ASSUME NEW i \in 1..Len(queue')
          PROVE  queue'[i] = accepted'[Len(accepted') - Len(queue') + i]
      <4>1. /\ i \in 1..Len(queue) + 1
            /\ Len(accepted') - Len(queue') = Len(accepted) - Len(queue)
        BY <3>2
      <4> QED
        BY <4>1, <3>3
    <3>5. Len(queue') <= capacity' /\ Len(queue') <= Len(accepted')
      BY <3>1, <3>2
    <3> QED
      BY <3>4, <3>5
  <2>3. ASSUME NEW c \in Consumers, PopTake(c) PROVE NewestSuffix'
    <3>1. /\ queue # <<>> /\ queue' = Tail(queue)
          /\ UNCHANGED <<capacity, accepted>>
      BY <2>3 DEF PopTake
    <3>2. /\ Len(Tail(queue)) = Len(queue) - 1
          /\ \A i \in 1..Len(queue) - 1 : Tail(queue)[i] = queue[i + 1]
      BY <3>1
    <3> QED
      BY <3>1, <3>2, SMTT(20)
  <2>4. ASSUME UNCHANGED <<capacity, queue, accepted>> PROVE NewestSuffix'
    BY <2>4
  <2> QED
    BY <2>1, <2>2, <2>3, <2>4
    DEF Next, Push, Pop, CallPush, PushWait, PushClosed, PushDropNewest, PushNotify,
        CallPop, PopWait, PopEnd, PopNotify, Close, SpuriousWakeup, vars
<1> QED
  BY <1>1, <1>2, TypeCorrect, PTL DEF Spec

(* droppedCount() is exact: an item given to push on an open queue is handed  *)
(* out, still queued, or counted.                                            *)
THEOREM DropsAreAccounted == Spec => []DropsAccounted
<1> USE DEF DropsAccounted, TypeOK
<1>1. Init => DropsAccounted
  BY DEF Init
<1>2. TypeOK /\ DropsAccounted /\ [Next]_vars => DropsAccounted'
  <2> SUFFICES ASSUME TypeOK, DropsAccounted, [Next]_vars PROVE DropsAccounted'
    OBVIOUS
  <2>1. ASSUME NEW p \in Producers, PushDropNewest(p) PROVE DropsAccounted'
    BY <2>1 DEF PushDropNewest
  <2>2. ASSUME NEW p \in Producers, PushDropOldest(p) PROVE DropsAccounted'
    <3>1. queue # <<>> /\ item[p] \in Nat
      BY <2>2 DEF PushDropOldest, Full
    <3>2. Tail(queue) \in Seq(Nat) /\ Len(Tail(queue)) = Len(queue) - 1
      BY <3>1
    <3>3. Len(queue) = Len(queue') /\ Len(accepted') = Len(accepted) + 1
      BY <2>2, <3>1, <3>2 DEF PushDropOldest
    <3>4. dropped' = dropped + 1 /\ UNCHANGED <<rejected, delivered>>
      BY <2>2 DEF PushDropOldest
    <3>5. Len(queue) \in Nat /\ Len(accepted) \in Nat /\ Len(delivered) \in Nat
      OBVIOUS
    <3> HIDE DEF TypeOK
    <3>6. Len(accepted) + 1 + rejected = Len(delivered) + Len(queue) + (dropped + 1)
      BY <3>5 DEF TypeOK
    <3> QED
      BY <3>3, <3>4, <3>6
  <2>3. ASSUME NEW p \in Producers, PushAppend(p) PROVE DropsAccounted'
    <3>1. Len(queue') = Len(queue) + 1 /\ Len(accepted') = Len(accepted) + 1
      BY <2>3 DEF PushAppend
    <3> QED
      BY <2>3, <3>1 DEF PushAppend
  <2>4. ASSUME NEW c \in Consumers, PopTake(c) PROVE DropsAccounted'
    <3>1. Len(queue') = Len(queue) - 1 /\ Len(delivered') = Len(delivered) + 1
      BY <2>4 DEF PopTake
    <3> QED
      BY <2>4, <3>1 DEF PopTake
  <2>5. ASSUME UNCHANGED <<queue, dropped, accepted, rejected, delivered>>
        PROVE  DropsAccounted'
    BY <2>5
  <2> QED
    BY <2>1, <2>2, <2>3, <2>4, <2>5
    DEF Next, Push, Pop, CallPush, PushWait, PushClosed, PushNotify,
        CallPop, PopWait, PopEnd, PopNotify, Close, SpuriousWakeup, vars
<1> QED
  BY <1>1, <1>2, TypeCorrect, PTL DEF Spec

(* No thread sleeps on a closed queue: the waits test m_closed under the lock *)
(* and close wakes everybody while it holds the lock.                        *)
THEOREM NobodySleepsAfterClose == Spec => []NoSleeperAfterClose
<1> USE DEF NoSleeperAfterClose, At, Goto, TypeOK
<1>1. Init => NoSleeperAfterClose
  BY DEF Init
<1>2. TypeOK /\ NoSleeperAfterClose /\ [Next]_vars => NoSleeperAfterClose'
  <2> SUFFICES ASSUME TypeOK, NoSleeperAfterClose, [Next]_vars
               PROVE  NoSleeperAfterClose'
    OBVIOUS
  <2>1. ASSUME NEW p \in Producers, CallPush(p) \/ Push(p) PROVE NoSleeperAfterClose'
    BY <2>1 DEF CallPush, Push, PushWait, PushClosed, PushDropNewest, PushDropOldest,
                PushAppend, PushNotify, NotifyOne
  <2>2. ASSUME NEW c \in Consumers, CallPop(c) \/ Pop(c) PROVE NoSleeperAfterClose'
    BY <2>2 DEF CallPop, Pop, PopWait, PopEnd, PopTake, PopNotify, NotifyOne
  <2>3. CASE Close
    BY <2>3 DEF Close
  <2>4. ASSUME NEW t \in Threads, SpuriousWakeup(t) PROVE NoSleeperAfterClose'
    BY <2>4 DEF SpuriousWakeup
  <2>5. CASE UNCHANGED vars
    BY <2>5 DEF vars
  <2> QED
    BY <2>1, <2>2, <2>3, <2>4, <2>5 DEF Next
<1> QED
  BY <1>1, <1>2, TypeCorrect, PTL DEF Spec
------------------------------------------------------------------------------
(* Counting facts for the wakeup invariants.                                 *)

(* A set that contains another finite set has at least as many elements.     *)
LEMMA KeepsAll ==
  ASSUME NEW S, NEW T, IsFiniteSet(T), S \subseteq T
  PROVE  Cardinality(S) \in Nat /\ Cardinality(T) \in Nat /\ Cardinality(S) <= Cardinality(T)
BY FS_Subset, FS_CardinalityType

(* A set that misses at most one element of S is at most one smaller.        *)
LEMMA LosesOne ==
  ASSUME NEW S, NEW T, NEW x, IsFiniteSet(S), IsFiniteSet(T), S \ {x} \subseteq T
  PROVE  /\ Cardinality(S) \in Nat /\ Cardinality(T) \in Nat
         /\ Cardinality(S) - 1 <= Cardinality(T)
<1>0. Cardinality(S) \in Nat /\ IsFiniteSet(S \ {x})
  BY FS_CardinalityType, FS_RemoveElement
<1>1. Cardinality(S) - 1 <= Cardinality(S \ {x})
  <2>1. Cardinality(S \ {x}) = IF x \in S THEN Cardinality(S) - 1 ELSE Cardinality(S)
    BY FS_RemoveElement
  <2> QED
    BY <1>0, <2>1
<1>2. Cardinality(S \ {x}) \in Nat /\ Cardinality(T) \in Nat
  BY <1>0, FS_CardinalityType
<1>3. Cardinality(S \ {x}) <= Cardinality(T)
  BY KeepsAll
<1> QED
  BY <1>0, <1>1, <1>2, <1>3

(* A set with a new element beside all of S is larger.                       *)
LEMMA GainsOne ==
  ASSUME NEW S, NEW T, NEW x, IsFiniteSet(T), S \subseteq T, x \in T, x \notin S
  PROVE  /\ Cardinality(S) \in Nat /\ Cardinality(T) \in Nat
         /\ Cardinality(S) + 1 <= Cardinality(T)
<1>1. IsFiniteSet(S)
  BY FS_Subset
<1>2. Cardinality(S \cup {x}) = Cardinality(S) + 1
  BY <1>1, FS_AddElement
<1>3. Cardinality(S \cup {x}) <= Cardinality(T)
  BY KeepsAll
<1>4. Cardinality(S) \in Nat /\ Cardinality(T) \in Nat
  BY <1>1, FS_CardinalityType
<1> QED
  BY <1>2, <1>3, <1>4

(* Replacing one element by a new one loses none.                            *)
LEMMA SwapsOne ==
  ASSUME NEW S, NEW T, NEW x, NEW y, IsFiniteSet(T),
         S \ {x} \subseteq T, y \in T, y \notin S
  PROVE  /\ Cardinality(S) \in Nat /\ Cardinality(T) \in Nat
         /\ Cardinality(S) <= Cardinality(T)
<1>1. S \subseteq T \cup {x}
  OBVIOUS
<1>2. IsFiniteSet(S)
  BY <1>1, FS_AddElement, FS_Subset
<1>3. Cardinality(S \ {x}) + 1 <= Cardinality(T)
  BY GainsOne
<1>4. IsFiniteSet(S \ {x})
  BY <1>2, FS_RemoveElement
<1>5. /\ Cardinality(S) \in Nat /\ Cardinality(T) \in Nat
      /\ Cardinality(S \ {x}) \in Nat
  BY <1>2, <1>4, FS_CardinalityType
<1>6. Cardinality(S) - 1 <= Cardinality(S \ {x})
  BY <1>2, <1>4, LosesOne
<1> QED
  BY <1>3, <1>5, <1>6

(* The threads on their way are finitely many, now and in the next state.    *)
LEMMA TowardsFinite ==
  /\ IsFiniteSet(TowardsItem) /\ IsFiniteSet(TowardsItem')
  /\ IsFiniteSet(TowardsSlot) /\ IsFiniteSet(TowardsSlot')
<1>1. IsFiniteSet(Threads)
  BY ThreadsAssumption, FS_Union
<1>2. /\ TowardsItem \subseteq Threads /\ TowardsItem' \subseteq Threads
      /\ TowardsSlot \subseteq Threads /\ TowardsSlot' \subseteq Threads
  BY DEF TowardsItem, TowardsSlot, At
<1> QED
  BY <1>1, <1>2, FS_Subset

(* No wakeup of a consumer is lost although notify_one runs after the unlock: *)
(* while some consumer sleeps, each queued item has its own thread on the way *)
(* to it.  Inductive with TypeOK.                                            *)
THEOREM NoItemWakeupIsLost == Spec => []NoLostItemWakeup
<1> USE DEF NoLostItemWakeup, At, Goto
<1>1. Init => NoLostItemWakeup
  BY DEF Init
<1>2. TypeOK /\ NoLostItemWakeup /\ [Next]_vars => NoLostItemWakeup'
  <2> SUFFICES ASSUME TypeOK, NoLostItemWakeup, [Next]_vars,
                      At(Consumers, "waiting")' # {}
               PROVE  Len(queue') <= Cardinality(TowardsItem')
    BY DEF TowardsItem
  <2> USE TowardsFinite
  <2>0. Len(queue) \in Nat /\ pc \in [Threads -> {"idle", "locking", "waiting", "notifying"}]
    BY DEF TypeOK
  <2>1. ASSUME UNCHANGED queue, TowardsItem \subseteq TowardsItem',
               At(Consumers, "waiting")' \subseteq At(Consumers, "waiting")
        PROVE  Len(queue') <= Cardinality(TowardsItem')
    BY <2>0, <2>1, KeepsAll
  <2>2. ASSUME NEW p \in Producers, CallPush(p) PROVE Len(queue') <= Cardinality(TowardsItem')
    BY <2>0, <2>1, <2>2, ThreadsAssumption DEF CallPush, TowardsItem
  <2>3. ASSUME NEW p \in Producers, PushWait(p) \/ PushClosed(p) \/ PushDropNewest(p)
        PROVE  Len(queue') <= Cardinality(TowardsItem')
    BY <2>0, <2>1, <2>3, ThreadsAssumption
    DEF PushWait, PushClosed, PushDropNewest, TowardsItem
  <2>4. ASSUME NEW p \in Producers, PushDropOldest(p)
        PROVE  Len(queue') <= Cardinality(TowardsItem')
    <3>1. Len(queue') = Len(queue)
      <4>1. queue # <<>> /\ queue' = Append(Tail(queue), item[p]) /\ item[p] \in Nat
        BY <2>4 DEF PushDropOldest, Full, TypeOK
      <4>2. Tail(queue) \in Seq(Nat) /\ Len(Tail(queue)) = Len(queue) - 1
        BY <4>1 DEF TypeOK
      <4> QED
        BY <4>1, <4>2, <2>0
    <3>2. /\ TowardsItem \subseteq TowardsItem'
          /\ At(Consumers, "waiting")' = At(Consumers, "waiting")
      BY <2>0, <2>4, ThreadsAssumption DEF PushDropOldest, TowardsItem
    <3> QED
      BY <2>0, <3>1, <3>2, KeepsAll
  <2>5. ASSUME NEW p \in Producers, PushAppend(p)
        PROVE  Len(queue') <= Cardinality(TowardsItem')
    <3>1. Len(queue') = Len(queue) + 1
      BY <2>5 DEF PushAppend, TypeOK
    <3>2. /\ TowardsItem \subseteq TowardsItem'
          /\ p \in TowardsItem' /\ p \notin TowardsItem
          /\ At(Consumers, "waiting")' = At(Consumers, "waiting")
      BY <2>0, <2>5, ThreadsAssumption DEF PushAppend, TowardsItem
    <3> QED
      BY <2>0, <3>1, <3>2, GainsOne
  <2>6. ASSUME NEW p \in Producers, PushNotify(p)
        PROVE  Len(queue') <= Cardinality(TowardsItem')
    <3>1. queue' = queue
      BY <2>6 DEF PushNotify
    <3>2. At(Consumers, "waiting") # {}
      BY <2>0, <2>6, ThreadsAssumption DEF PushNotify, NotifyOne
    <3>3. PICK w \in At(Consumers, "waiting") :
             pc' = [pc EXCEPT ![p] = "idle", ![w] = "locking"]
      BY <2>6, <3>2 DEF PushNotify, NotifyOne
    <3>4. /\ TowardsItem \ {p} \subseteq TowardsItem'
          /\ w \in TowardsItem' /\ w \notin TowardsItem
      BY <2>0, <2>6, <3>3, ThreadsAssumption DEF PushNotify, TowardsItem
    <3>5. Cardinality(TowardsItem) <= Cardinality(TowardsItem')
      BY <3>4, SwapsOne
    <3>6. Len(queue) <= Cardinality(TowardsItem)
      BY <3>2
    <3> QED
      BY <2>0, <3>1, <3>5, <3>6, FS_CardinalityType
  <2>7. ASSUME NEW c \in Consumers, CallPop(c)
        PROVE  Len(queue') <= Cardinality(TowardsItem')
    BY <2>0, <2>1, <2>7, ThreadsAssumption DEF CallPop, TowardsItem
  <2>8. ASSUME NEW c \in Consumers, PopWait(c) \/ PopEnd(c)
        PROVE  Len(queue') <= Cardinality(TowardsItem')
    <3>1. Len(queue') = 0
      BY <2>8 DEF PopWait, PopEnd
    <3> QED
      BY <3>1, FS_CardinalityType
  <2>9. ASSUME NEW c \in Consumers, PopTake(c)
        PROVE  Len(queue') <= Cardinality(TowardsItem')
    <3>1. Len(queue') = Len(queue) - 1
      BY <2>9 DEF PopTake, TypeOK
    <3>2. /\ TowardsItem \ {c} \subseteq TowardsItem'
          /\ At(Consumers, "waiting")' = At(Consumers, "waiting")
      BY <2>0, <2>9, ThreadsAssumption DEF PopTake, TowardsItem
    <3>3. Cardinality(TowardsItem) - 1 <= Cardinality(TowardsItem')
      BY <3>2, LosesOne
    <3>4. Len(queue) <= Cardinality(TowardsItem)
      BY <3>2
    <3> QED
      BY <2>0, <3>1, <3>3, <3>4, FS_CardinalityType
  <2>10. ASSUME NEW c \in Consumers, PopNotify(c)
         PROVE  Len(queue') <= Cardinality(TowardsItem')
    BY <2>0, <2>1, <2>10, ThreadsAssumption DEF PopNotify, NotifyOne, TowardsItem
  <2>11. CASE Close
    BY <2>0, <2>11 DEF Close
  <2>12. ASSUME NEW t \in Threads, SpuriousWakeup(t)
         PROVE  Len(queue') <= Cardinality(TowardsItem')
    BY <2>0, <2>1, <2>12, ThreadsAssumption DEF SpuriousWakeup, TowardsItem
  <2>13. CASE UNCHANGED vars
    BY <2>1, <2>13 DEF vars, TowardsItem
  <2> QED
    BY <2>2, <2>3, <2>4, <2>5, <2>6, <2>7, <2>8, <2>9, <2>10, <2>11, <2>12, <2>13
    DEF Next, Push, Pop
<1> QED
  BY <1>1, <1>2, TypeCorrect, PTL DEF Spec

(* No wakeup of a blocked producer is lost either: while one sleeps, each     *)
(* free slot has a producer about to test for it or a consumer about to      *)
(* announce it.  It needs the bound on the queue (PushDropOldest leaves it   *)
(* full) and that nobody sleeps on a closed queue (PushClosed takes no slot).*)
THEOREM NoSlotWakeupIsLost == Spec => []NoLostSlotWakeup
<1> USE DEF NoLostSlotWakeup, At, Goto
<1>1. Init => NoLostSlotWakeup
  BY DEF Init
<1>2. TypeOK /\ NoSleeperAfterClose /\ NoLostSlotWakeup /\ [Next]_vars
        => NoLostSlotWakeup'
  <2> SUFFICES ASSUME TypeOK, NoSleeperAfterClose, NoLostSlotWakeup, [Next]_vars,
                      At(Producers, "waiting")' # {}
               PROVE  capacity' - Len(queue') <= Cardinality(TowardsSlot')
    BY DEF TowardsSlot
  <2> DEFINE Goal == capacity' - Len(queue') <= Cardinality(TowardsSlot')
  <2> USE TowardsFinite
  <2>0. /\ Len(queue) \in Nat /\ capacity \in Nat
        /\ pc \in [Threads -> {"idle", "locking", "waiting", "notifying"}]
    BY DEF TypeOK
  <2>1. ASSUME UNCHANGED <<capacity, queue>>, TowardsSlot \subseteq TowardsSlot',
               At(Producers, "waiting")' \subseteq At(Producers, "waiting")
        PROVE  Goal
    BY <2>0, <2>1, KeepsAll
  <2>2. ASSUME NEW p \in Producers, CallPush(p) PROVE Goal
    BY <2>0, <2>1, <2>2, ThreadsAssumption DEF CallPush, TowardsSlot
  <2>3. ASSUME NEW p \in Producers, PushWait(p) \/ PushDropNewest(p) PROVE Goal
    <3>1. capacity' - Len(queue') <= 0
      BY <2>0, <2>3 DEF PushWait, PushDropNewest, Full
    <3>2. Cardinality(TowardsSlot') \in Nat
      BY FS_CardinalityType
    <3>3. capacity' - Len(queue') \in Int
      BY <2>0, <2>3 DEF PushWait, PushDropNewest
    <3> QED
      BY <3>1, <3>2, <3>3
  <2>4. ASSUME NEW p \in Producers, PushClosed(p) PROVE Goal
    BY <2>0, <2>4 DEF PushClosed, NoSleeperAfterClose
  <2>5. ASSUME NEW p \in Producers, PushDropOldest(p) PROVE Goal
    <3>1. /\ queue # <<>> /\ queue' = Append(Tail(queue), item[p]) /\ item[p] \in Nat
          /\ capacity' = capacity /\ capacity <= Len(queue)
      BY <2>0, <2>5 DEF PushDropOldest, Full, TypeOK
    <3>2. Tail(queue) \in Seq(Nat) /\ Len(Tail(queue)) = Len(queue) - 1
      BY <3>1 DEF TypeOK
    <3>3. Len(queue') \in Nat /\ capacity' - Len(queue') <= 0
      BY <3>1, <3>2, <2>0
    <3>4. Cardinality(TowardsSlot') \in Nat
      BY FS_CardinalityType
    <3> QED
      BY <2>0, <3>1, <3>3, <3>4
  <2>6. ASSUME NEW p \in Producers, PushAppend(p) PROVE Goal
    <3>1. Len(queue') = Len(queue) + 1 /\ capacity' = capacity
      BY <2>6 DEF PushAppend, TypeOK
    <3>2. /\ TowardsSlot \ {p} \subseteq TowardsSlot'
          /\ At(Producers, "waiting")' = At(Producers, "waiting")
      BY <2>0, <2>6, ThreadsAssumption DEF PushAppend, TowardsSlot
    <3>3. Cardinality(TowardsSlot) - 1 <= Cardinality(TowardsSlot')
      BY <3>2, LosesOne
    <3>4. capacity - Len(queue) <= Cardinality(TowardsSlot)
      BY <3>2
    <3> QED
      BY <2>0, <3>1, <3>3, <3>4, FS_CardinalityType
  <2>7. ASSUME NEW p \in Producers, PushNotify(p) PROVE Goal
    BY <2>0, <2>1, <2>7, ThreadsAssumption DEF PushNotify, NotifyOne, TowardsSlot
  <2>8. ASSUME NEW c \in Consumers, CallPop(c) \/ PopWait(c) \/ PopEnd(c) PROVE Goal
    BY <2>0, <2>1, <2>8, ThreadsAssumption DEF CallPop, PopWait, PopEnd, TowardsSlot
  <2>9. ASSUME NEW c \in Consumers, PopTake(c) PROVE Goal
    <3>1. Len(queue') = Len(queue) - 1 /\ capacity' = capacity
      BY <2>9 DEF PopTake, TypeOK
    <3>2. /\ TowardsSlot \subseteq TowardsSlot'
          /\ c \in TowardsSlot' /\ c \notin TowardsSlot
          /\ At(Producers, "waiting")' = At(Producers, "waiting")
      BY <2>0, <2>9, ThreadsAssumption DEF PopTake, TowardsSlot
    <3>3. Cardinality(TowardsSlot) + 1 <= Cardinality(TowardsSlot')
      BY <3>2, GainsOne
    <3>4. capacity - Len(queue) <= Cardinality(TowardsSlot)
      BY <3>2
    <3> QED
      BY <2>0, <3>1, <3>3, <3>4, FS_CardinalityType
  <2>10. ASSUME NEW c \in Consumers, PopNotify(c) PROVE Goal
    <3>1. UNCHANGED <<queue, capacity>>
      BY <2>10 DEF PopNotify
    <3>2. At(Producers, "waiting") # {}
      BY <2>0, <2>10, ThreadsAssumption DEF PopNotify, NotifyOne
    <3>3. PICK w \in At(Producers, "waiting") :
             pc' = [pc EXCEPT ![c] = "idle", ![w] = "locking"]
      BY <2>10, <3>2 DEF PopNotify, NotifyOne
    <3>4. /\ TowardsSlot \ {c} \subseteq TowardsSlot'
          /\ w \in TowardsSlot' /\ w \notin TowardsSlot
      BY <2>0, <2>10, <3>3, ThreadsAssumption DEF PopNotify, TowardsSlot
    <3>5. Cardinality(TowardsSlot) <= Cardinality(TowardsSlot')
      BY <3>4, SwapsOne
    <3>6. capacity - Len(queue) <= Cardinality(TowardsSlot)
      BY <3>2
    <3> QED
      BY <2>0, <3>1, <3>5, <3>6, FS_CardinalityType
  <2>11. CASE Close
    BY <2>0, <2>11 DEF Close
  <2>12. ASSUME NEW t \in Threads, SpuriousWakeup(t) PROVE Goal
    BY <2>0, <2>1, <2>12, ThreadsAssumption DEF SpuriousWakeup, TowardsSlot
  <2>13. CASE UNCHANGED vars
    BY <2>1, <2>13 DEF vars, TowardsSlot
  <2> QED
    BY <2>2, <2>3, <2>4, <2>5, <2>6, <2>7, <2>8, <2>9, <2>10, <2>11, <2>12, <2>13
    DEF Next, Push, Pop
<1> QED
  BY <1>1, <1>2, TypeCorrect, NobodySleepsAfterClose, PTL DEF Spec
------------------------------------------------------------------------------
(* The tickets in flight are tickets the bounded environment has issued.     *)
TicketsInRange == /\ calls <= MaxPushes
                  /\ \A p \in Producers :
                        pc[p] \in {"locking", "waiting"} => item[p] \in Tickets

(* A producer contending for the lock or waiting holds a ticket it was given *)
(* when push was called.                                                     *)
THEOREM TicketsStayInRange == Spec => []TicketsInRange
<1> USE DEF TicketsInRange, Goto, TypeOK, Tickets
<1>1. Init => TicketsInRange
  BY MaxPushesAssumption DEF Init
<1>2. TypeOK /\ TicketsInRange /\ [Next]_vars => TicketsInRange'
  <2> SUFFICES ASSUME TypeOK, TicketsInRange, [Next]_vars PROVE TicketsInRange'
    OBVIOUS
  <2>1. ASSUME NEW p \in Producers, CallPush(p) PROVE TicketsInRange'
    BY <2>1, MaxPushesAssumption DEF CallPush
  <2>2. ASSUME NEW p \in Producers, Push(p) PROVE TicketsInRange'
    BY <2>2, ThreadsAssumption
    DEF Push, PushWait, PushClosed, PushDropNewest, PushDropOldest, PushAppend,
        PushNotify, NotifyOne, At
  <2>3. ASSUME NEW c \in Consumers, CallPop(c) \/ Pop(c) PROVE TicketsInRange'
    BY <2>3, ThreadsAssumption
    DEF CallPop, Pop, PopWait, PopEnd, PopTake, PopNotify, NotifyOne, At
  <2>4. CASE Close
    BY <2>4 DEF Close
  <2>5. ASSUME NEW t \in Threads, SpuriousWakeup(t) PROVE TicketsInRange'
    BY <2>5 DEF SpuriousWakeup
  <2>6. CASE UNCHANGED vars
    BY <2>6 DEF vars
  <2> QED
    BY <2>1, <2>2, <2>3, <2>4, <2>5, <2>6 DEF Next
<1> QED
  BY <1>1, <1>2, TypeCorrect, PTL DEF Spec

(* The queue is a bounded FIFO channel.  The abstract reading position is     *)
(* just before the queued suffix of accepted; NewestSuffix makes the head of *)
(* the queue the next abstract item, and makes a full queue a full channel.  *)
THEOREM QueueImplementsFifo == Spec => ImplementsFifo
<1> DEFINE Inv == TypeOK /\ NewestSuffix /\ TicketsInRange
<1>1. Init => Fifo!Init
  BY CapacityAssumption DEF Init, Fifo!Init
<1>2. Inv /\ [Next]_vars => [Fifo!Next]_Fifo!fifoVars
  <2> SUFFICES ASSUME TypeOK, NewestSuffix, TicketsInRange, [Next]_vars
               PROVE  [Fifo!Next]_Fifo!fifoVars
    OBVIOUS
  <2> USE DEF Fifo!Next, Fifo!Backlog
  <2>0. Len(queue) \in Nat /\ Len(accepted) \in Nat /\ capacity \in Nat
    BY DEF TypeOK
  <2>1. ASSUME NEW p \in Producers, PushDropOldest(p) PROVE Fifo!Send(item[p])
    <3>1. /\ ~closed /\ policy = "DropOldest"
          /\ queue # <<>> /\ Len(queue) = capacity
          /\ queue' = Append(Tail(queue), item[p])
          /\ accepted' = Append(accepted, item[p])
          /\ item[p] \in Nat
          /\ UNCHANGED <<capacity, policy, delivered, closed, ended>>
      BY <2>1 DEF PushDropOldest, Full, NewestSuffix, TypeOK
    <3>2. Tail(queue) \in Seq(Nat) /\ Len(Tail(queue)) = Len(queue) - 1
      BY <3>1 DEF TypeOK
    <3>3. Len(queue') = Len(queue) /\ Len(accepted') = Len(accepted) + 1
      BY <3>1, <3>2, <2>0 DEF TypeOK
    <3>4. Len(accepted') + 1 - Len(queue') = (Len(accepted) + 1 - Len(queue)) + 1
      BY <3>3, <2>0
    <3>5. Len(accepted) + 1 - (Len(accepted) + 1 - Len(queue)) = capacity
      BY <3>1, <2>0
    <3> QED
      BY <3>1, <3>4, <3>5 DEF Fifo!Send
  <2>2. ASSUME NEW p \in Producers, PushAppend(p) PROVE Fifo!Send(item[p])
    <3>1. /\ ~closed /\ Len(queue) < capacity
          /\ queue' = Append(queue, item[p])
          /\ accepted' = Append(accepted, item[p])
          /\ item[p] \in Nat
          /\ UNCHANGED <<capacity, policy, delivered, closed, ended>>
      BY <2>2, <2>0 DEF PushAppend, Full, TypeOK
    <3>2. Len(queue') = Len(queue) + 1 /\ Len(accepted') = Len(accepted) + 1
      BY <3>1 DEF TypeOK
    <3>3. Len(accepted') + 1 - Len(queue') = Len(accepted) + 1 - Len(queue)
      BY <3>2, <2>0
    <3>4. Len(accepted) + 1 - (Len(accepted) + 1 - Len(queue)) < capacity
      BY <3>1, <2>0
    <3> QED
      BY <3>1, <3>3, <3>4 DEF Fifo!Send
  <2>3. ASSUME NEW c \in Consumers, PopTake(c) PROVE Fifo!Receive
    <3>1. /\ queue # <<>> /\ queue' = Tail(queue)
          /\ delivered' = Append(delivered, Head(queue))
          /\ UNCHANGED <<capacity, policy, accepted, closed, ended>>
      BY <2>3 DEF PopTake
    <3>2. Len(queue) > 0 /\ Head(queue) = queue[1] /\ Len(queue') = Len(queue) - 1
      BY <3>1 DEF TypeOK
    <3>3. Head(queue) = accepted[Len(accepted) - Len(queue) + 1]
      BY <3>2, <2>0 DEF NewestSuffix
    <3>4. Len(accepted) - Len(queue) + 1 = Len(accepted) + 1 - Len(queue)
      BY <2>0
    <3>5. /\ Len(accepted) + 1 - Len(queue) <= Len(accepted)
          /\ Len(accepted) + 1 - Len(queue') = (Len(accepted) + 1 - Len(queue)) + 1
      BY <3>2, <2>0
    <3> QED
      BY <3>1, <3>3, <3>4, <3>5 DEF Fifo!Receive
  <2>4. ASSUME NEW c \in Consumers, PopEnd(c) PROVE Fifo!End
    BY <2>4, <2>0 DEF PopEnd, Fifo!End
  <2>5. CASE Close
    BY <2>5 DEF Close, Fifo!Shut
  <2>6. ASSUME UNCHANGED <<capacity, policy, queue, closed, accepted, delivered, ended>>
        PROVE  UNCHANGED Fifo!fifoVars
    BY <2>6 DEF Fifo!fifoVars
  <2>7. ASSUME NEW p \in Producers, pc[p] = "locking" PROVE item[p] \in Tickets
    BY <2>7 DEF TicketsInRange
  <2>8. ASSUME NEW p \in Producers, CallPush(p) \/ Push(p)
        PROVE  [Fifo!Next]_Fifo!fifoVars
    <3>1. CASE PushDropOldest(p)
      BY <3>1, <2>1, <2>7 DEF PushDropOldest
    <3>2. CASE PushAppend(p)
      BY <3>2, <2>2, <2>7 DEF PushAppend
    <3>3. CASE CallPush(p) \/ PushWait(p) \/ PushClosed(p) \/ PushDropNewest(p) \/ PushNotify(p)
      BY <3>3, <2>6 DEF CallPush, PushWait, PushClosed, PushDropNewest, PushNotify
    <3> QED
      BY <2>8, <3>1, <3>2, <3>3 DEF Push
  <2>9. ASSUME NEW c \in Consumers, CallPop(c) \/ Pop(c)
        PROVE  [Fifo!Next]_Fifo!fifoVars
    <3>1. CASE CallPop(c) \/ PopWait(c) \/ PopNotify(c)
      BY <3>1, <2>6 DEF CallPop, PopWait, PopNotify
    <3> QED
      BY <2>9, <3>1, <2>3, <2>4 DEF Pop
  <2>10. ASSUME NEW t \in Threads, SpuriousWakeup(t) PROVE UNCHANGED Fifo!fifoVars
    BY <2>10, <2>6 DEF SpuriousWakeup
  <2>11. CASE UNCHANGED vars
    BY <2>11, <2>6 DEF vars
  <2> QED
    BY <2>5, <2>8, <2>9, <2>10, <2>11 DEF Next
<1> QED
  BY <1>1, <1>2, TypeCorrect, QueueIsNewestSuffix, TicketsStayInRange, PTL
  DEF Spec, ImplementsFifo, Fifo!Spec

\* For every capacity, policy and number of pushes each item is queued in its
\* place or accounted for.
THEOREM BacklogIsExplained == Spec => []BacklogExplained
<1>1. NewestSuffix /\ DropsAccounted => BacklogExplained
  BY DEF BacklogExplained
<1> QED
  BY <1>1, QueueIsNewestSuffix, DropsAreAccounted, PTL

\* For any number of threads nobody sleeps through an item, a slot or the close.
THEOREM NoWakeupIsLost == Spec => []NoLostWakeup
<1>1. NoLostItemWakeup /\ NoLostSlotWakeup /\ NoSleeperAfterClose => NoLostWakeup
  BY DEF NoLostWakeup
<1> QED
  BY <1>1, NoItemWakeupIsLost, NoSlotWakeupIsLost, NobodySleepsAfterClose, PTL
==============================================================================
