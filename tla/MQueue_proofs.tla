--------------------------- MODULE MQueue_proofs ----------------------------
(* Proofs about MQueue, for any number of threads, buffers and slots.        *)
EXTENDS MQueue, FiniteSetTheorems, SequenceTheorems, TLAPS

\* What a step needs to know of the set of sleepers after a signal.
LEMMA SignalPopShape ==
    ASSUME SignalPop
    PROVE  /\ popcv' \subseteq popcv
           /\ popcv # {} => \E t \in popcv : popcv' = popcv \ {t}
BY DEF SignalPop

LEMMA SignalPushShape ==
    ASSUME SignalPush
    PROVE  /\ pushcv' \subseteq pushcv
           /\ pushcv # {} => \E t \in pushcv : pushcv' = pushcv \ {t}
BY DEF SignalPush

\* The array without its top slot.
LEMMA FrontFacts ==
    ASSUME NEW S, NEW q \in Seq(S), q # << >>
    PROVE  LET f == SubSeq(q, 1, Len(q) - 1)
           IN  /\ f \in Seq(S)
               /\ Len(f) = Len(q) - 1
               /\ \A i \in 1 .. Len(q) - 1 : f[i] = q[i]
               /\ q[Len(q)] \in S
               /\ Len(q) \in Nat \ {0}
<1>1. Len(q) \in Nat \ {0}
  BY EmptySeq
<1>2. \A i \in 1 .. Len(q) : q[i] \in S
  BY ElementOfSeq
<1>3. \A i \in 1 .. Len(q) - 1 : q[i] \in S
  BY <1>1, <1>2
<1> DEFINE n == Len(q) - 1
<1>4. 1 \in Int /\ n \in Nat
  BY <1>1
<1> HIDE DEF n
<1>5. /\ SubSeq(q, 1, n) \in Seq(S)
      /\ Len(SubSeq(q, 1, n)) = IF 1 <= n THEN n - 1 + 1 ELSE 0
      /\ \A i \in 1 .. n - 1 + 1 : SubSeq(q, 1, n)[i] = q[1 + i - 1]
  BY <1>3, <1>4, SubSeqProperties DEF n
<1>6. Len(SubSeq(q, 1, n)) = n
  BY <1>4, <1>5
<1>7. \A i \in 1 .. n : SubSeq(q, 1, n)[i] = q[i]
  BY <1>4, <1>5
<1> QED
  BY <1>1, <1>2, <1>5, <1>6, <1>7 DEF n

\* Each thread is where its role allows, sleepers are inside the call they
\* sleep in, and the array never holds more than Size buffers.
THEOREM TypeCorrect == Spec => []TypeOK
<1>1. Init => TypeOK
  <2> SUFFICES ASSUME Init PROVE TypeOK
    OBVIOUS
  <2>1. queue \in Seq(Elems) /\ Len(queue) <= Size
    <3>1. CASE queue = << >>
      BY <3>1, SizeAssumption
    <3>2. CASE queue \in [1 .. Size -> Elems]
      BY <3>2, SizeAssumption, SeqDef
    <3> QED
      BY <3>1, <3>2 DEF Init, NewQueue
  <2> QED
    BY <2>1 DEF Init, TypeOK, Threads
<1>2. TypeOK /\ [Next]_vars => TypeOK'
  <2> SUFFICES ASSUME TypeOK, [Next]_vars PROVE TypeOK'
    OBVIOUS
  <2> USE SizeAssumption, ThreadsAssumption, NullAssumption DEF TypeOK, Threads
  <2>1. ASSUME NEW t \in Pushers, CallPush(t) PROVE TypeOK'
    BY <2>1 DEF CallPush
  <2>2. ASSUME NEW t \in Pushers, PushWait(t) PROVE TypeOK'
    BY <2>2 DEF PushWait
  <2>3. ASSUME NEW t \in Pushers, Push(t) PROVE TypeOK'
    BY <2>3, SignalPopShape DEF Push
  <2>4. ASSUME NEW t \in Poppers, Release(t) PROVE TypeOK'
    BY <2>4 DEF Release
  <2>5. ASSUME NEW t \in Poppers, CallPop(t) PROVE TypeOK'
    BY <2>5 DEF CallPop
  <2>6. ASSUME NEW t \in Poppers, PopWait(t) PROVE TypeOK'
    BY <2>6 DEF PopWait
  <2>7. ASSUME NEW t \in Poppers, queue # << >>, t \notin popcv, TakeTop(t) PROVE TypeOK'
    BY <2>7, SignalPushShape, FrontFacts DEF TakeTop
  <2>8. ASSUME NEW t \in Poppers, WaitReturn(t) PROVE TypeOK'
    BY <2>8 DEF WaitReturn
  <2>9. ASSUME NEW t \in Poppers, pc[t] = "try", queue = << >>,
               pc' = [pc EXCEPT ![t] = "idle"],
               UNCHANGED <<queue, hand, popcv, pushcv>>
        PROVE TypeOK'
    BY <2>9
  <2>10. ASSUME NEW t \in Threads, WakeSpuriously(t) PROVE TypeOK'
    BY <2>10 DEF WakeSpuriously
  <2>11. CASE UNCHANGED vars
    BY <2>11 DEF vars
  <2> QED
    BY <2>1, <2>2, <2>3, <2>4, <2>5, <2>6, <2>7, <2>8, <2>9, <2>10, <2>11
       DEF Next, PusherStep, PopperStep, Pop, TryPop
<1> QED
  BY <1>1, <1>2, PTL DEF Spec
-----------------------------------------------------------------------------
\* Sets of threads are finite, so they can be counted.
LEMMA ThreadSets ==
    /\ \A S \in SUBSET Poppers : IsFiniteSet(S) /\ Cardinality(S) \in Nat
    /\ \A S \in SUBSET Pushers : IsFiniteSet(S) /\ Cardinality(S) \in Nat
BY ThreadsAssumption, FS_Subset, FS_CardinalityType

\* One thread more, one thread less.
LEMMA CountPlusOne ==
    ASSUME NEW S, NEW x, IsFiniteSet(S), x \notin S
    PROVE  Cardinality(S \cup {x}) = Cardinality(S) + 1
BY FS_AddElement

LEMMA CountMinusOne ==
    ASSUME NEW S, NEW x, IsFiniteSet(S), x \in S
    PROVE  Cardinality(S \ {x}) = Cardinality(S) - 1
BY FS_RemoveElement

WakeupsKept == NoStrandedPopper /\ NoStrandedPusher

\* A push wakes one sleeping consumer: one more awake for the one buffer more.
LEMMA PushKeepsWakeups ==
    ASSUME TypeOK, WakeupsKept, NEW t \in Pushers, Push(t)
    PROVE  WakeupsKept'
<1> USE DEF TypeOK, Threads
<1>1. Len(queue) \in Nat /\ Len(queue') = Len(queue) + 1
  BY DEF Push
<1>2. NoStrandedPopper'
  <2> SUFFICES ASSUME popcv' # {}
               PROVE  Len(queue') <= Cardinality(AwakePoppers')
    BY DEF NoStrandedPopper
  <2>1. PICK w \in popcv : popcv' = popcv \ {w}
    BY SignalPopShape DEF Push
  <2>2. AwakePoppers' = AwakePoppers \cup {w} /\ w \notin AwakePoppers
    BY <2>1, ThreadsAssumption DEF AwakePoppers, Push
  <2>3. IsFiniteSet(AwakePoppers) /\ Cardinality(AwakePoppers) \in Nat
    BY ThreadSets DEF AwakePoppers
  <2>4. Cardinality(AwakePoppers') = Cardinality(AwakePoppers) + 1
    BY <2>2, <2>3, CountPlusOne
  <2> QED
    BY <1>1, <2>1, <2>3, <2>4 DEF WakeupsKept, NoStrandedPopper
<1>3. NoStrandedPusher'
  <2> SUFFICES ASSUME pushcv' # {}
               PROVE  Size - Len(queue') <= Cardinality(AwakePushers')
    BY DEF NoStrandedPusher
  <2>1. AwakePushers' = AwakePushers \ {t} /\ t \in AwakePushers
    BY ThreadsAssumption DEF AwakePushers, Push
  <2>2. IsFiniteSet(AwakePushers) /\ Cardinality(AwakePushers) \in Nat
    BY ThreadSets DEF AwakePushers
  <2>3. Cardinality(AwakePushers') = Cardinality(AwakePushers) - 1
    BY <2>1, <2>2, CountMinusOne
  <2>4. pushcv # {}
    BY DEF Push
  <2> QED
    BY <1>1, <2>2, <2>3, <2>4, SizeAssumption DEF WakeupsKept, NoStrandedPusher
<1> QED
  BY <1>2, <1>3 DEF WakeupsKept

\* A pop, blocking or not, wakes one sleeping producer for the slot it frees.
LEMMA TakeTopKeepsWakeups ==
    ASSUME TypeOK, WakeupsKept, NEW t \in AwakePoppers, queue # << >>, TakeTop(t)
    PROVE  WakeupsKept'
<1> USE DEF TypeOK, Threads
<1>1. Len(queue) \in Nat /\ Len(queue') = Len(queue) - 1
  BY FrontFacts DEF TakeTop
<1>2. t \in Poppers
  BY DEF AwakePoppers
<1>3. NoStrandedPopper'
  <2> SUFFICES ASSUME popcv' # {}
               PROVE  Len(queue') <= Cardinality(AwakePoppers')
    BY DEF NoStrandedPopper
  <2>1. AwakePoppers' = AwakePoppers \ {t}
    BY <1>2 DEF AwakePoppers, TakeTop
  <2>2. IsFiniteSet(AwakePoppers) /\ Cardinality(AwakePoppers) \in Nat
    BY ThreadSets DEF AwakePoppers
  <2>3. Cardinality(AwakePoppers') = Cardinality(AwakePoppers) - 1
    BY <2>1, <2>2, CountMinusOne
  <2>4. popcv # {}
    BY DEF TakeTop
  <2> QED
    BY <1>1, <2>2, <2>3, <2>4 DEF WakeupsKept, NoStrandedPopper
<1>4. NoStrandedPusher'
  <2> SUFFICES ASSUME pushcv' # {}
               PROVE  Size - Len(queue') <= Cardinality(AwakePushers')
    BY DEF NoStrandedPusher
  <2>1. PICK w \in pushcv : pushcv' = pushcv \ {w}
    BY SignalPushShape DEF TakeTop
  <2>2. AwakePushers' = AwakePushers \cup {w} /\ w \notin AwakePushers
    BY <1>2, <2>1, ThreadsAssumption DEF AwakePushers, TakeTop
  <2>3. IsFiniteSet(AwakePushers) /\ Cardinality(AwakePushers) \in Nat
    BY ThreadSets DEF AwakePushers
  <2>4. Cardinality(AwakePushers') = Cardinality(AwakePushers) + 1
    BY <2>2, <2>3, CountPlusOne
  <2> QED
    BY <1>1, <2>1, <2>3, <2>4, SizeAssumption DEF WakeupsKept, NoStrandedPusher
<1> QED
  BY <1>3, <1>4 DEF WakeupsKept

\* A step that adds awake threads and leaves the array alone strands nobody.
LEMMA MoreAwake ==
    ASSUME WakeupsKept, queue' = queue,
           AwakePoppers \subseteq AwakePoppers', popcv' \subseteq popcv,
           AwakePushers \subseteq AwakePushers', pushcv' \subseteq pushcv,
           TypeOK
    PROVE  WakeupsKept'
<1>1. /\ IsFiniteSet(AwakePoppers) /\ Cardinality(AwakePoppers) \in Nat
      /\ IsFiniteSet(AwakePoppers') /\ Cardinality(AwakePoppers') \in Nat
      /\ IsFiniteSet(AwakePushers) /\ Cardinality(AwakePushers) \in Nat
      /\ IsFiniteSet(AwakePushers') /\ Cardinality(AwakePushers') \in Nat
  BY ThreadSets DEF AwakePoppers, AwakePushers
<1>2. /\ Cardinality(AwakePoppers) <= Cardinality(AwakePoppers')
      /\ Cardinality(AwakePushers) <= Cardinality(AwakePushers')
  BY <1>1, FS_Subset
<1>3. Len(queue) \in Nat
  BY DEF TypeOK
<1> QED
  BY <1>1, <1>2, <1>3, SizeAssumption
     DEF WakeupsKept, NoStrandedPopper, NoStrandedPusher

\* Every step keeps an awake thread for every queued buffer and every free slot.
LEMMA WakeupInvariance == Spec => []WakeupsKept
<1>1. Init => WakeupsKept
  BY DEF Init, WakeupsKept, NoStrandedPopper, NoStrandedPusher
<1>2. TypeOK /\ TypeOK' /\ WakeupsKept /\ [Next]_vars => WakeupsKept'
  <2> SUFFICES ASSUME TypeOK, TypeOK', WakeupsKept, [Next]_vars
               PROVE  WakeupsKept'
    OBVIOUS
  <2> USE ThreadsAssumption DEF Threads
  <2>1. ASSUME NEW t \in Pushers, CallPush(t) PROVE WakeupsKept'
    BY <2>1, MoreAwake DEF TypeOK, CallPush, AwakePoppers, AwakePushers
  <2>2. ASSUME NEW t \in Pushers, PushWait(t) PROVE WakeupsKept'
    <3>1. AwakePoppers' = AwakePoppers /\ popcv' = popcv /\ queue' = queue
      BY <2>2 DEF PushWait, AwakePoppers
    <3>2. Cardinality(AwakePushers') \in Nat
      BY ThreadSets DEF AwakePushers
    <3>3. Size - Len(queue') = 0
      BY <2>2, SizeAssumption DEF PushWait
    <3> QED
      BY <3>1, <3>2, <3>3 DEF WakeupsKept, NoStrandedPopper, NoStrandedPusher
  <2>3. ASSUME NEW t \in Pushers, Push(t) PROVE WakeupsKept'
    BY <2>3, PushKeepsWakeups
  <2>4. ASSUME NEW t \in Poppers, Release(t) PROVE WakeupsKept'
    BY <2>4, MoreAwake DEF Release, AwakePoppers, AwakePushers
  <2>5. ASSUME NEW t \in Poppers, CallPop(t) PROVE WakeupsKept'
    BY <2>5, MoreAwake DEF TypeOK, CallPop, AwakePoppers, AwakePushers
  <2>6. ASSUME NEW t \in Poppers, queue = << >>, queue' = queue,
               pushcv' = pushcv, AwakePushers' = AwakePushers
        PROVE  WakeupsKept'
    <3>1. Len(queue') = 0 /\ Cardinality(AwakePoppers') \in Nat
      BY <2>6, ThreadSets DEF AwakePoppers
    <3> QED
      BY <2>6, <3>1 DEF WakeupsKept, NoStrandedPopper, NoStrandedPusher
  <2>7. ASSUME NEW t \in Poppers, PopWait(t) PROVE WakeupsKept'
    BY <2>6, <2>7 DEF PopWait, AwakePushers
  <2>8. ASSUME NEW t \in Poppers, Pop(t) PROVE WakeupsKept'
    BY <2>8, TakeTopKeepsWakeups DEF Pop, AwakePoppers
  <2>9. ASSUME NEW t \in Poppers, WaitReturn(t) PROVE WakeupsKept'
    BY <2>9, MoreAwake DEF TypeOK, WaitReturn, AwakePoppers, AwakePushers
  <2>10. ASSUME NEW t \in Poppers, TryPop(t) PROVE WakeupsKept'
    <3>1. CASE queue # << >> /\ TakeTop(t)
      BY <2>10, <3>1, TakeTopKeepsWakeups DEF TypeOK, TryPop, AwakePoppers
    <3>2. CASE /\ queue = << >>
               /\ pc' = [pc EXCEPT ![t] = "idle"]
               /\ UNCHANGED <<queue, hand, popcv, pushcv>>
      BY <2>6, <3>2 DEF TypeOK, AwakePushers
    <3> QED
      BY <2>10, <3>1, <3>2 DEF TryPop
  <2>11. ASSUME NEW t \in Threads, WakeSpuriously(t) PROVE WakeupsKept'
    BY <2>11, MoreAwake DEF WakeSpuriously, AwakePoppers, AwakePushers
  <2>12. CASE UNCHANGED vars
    BY <2>12, MoreAwake DEF vars, AwakePoppers, AwakePushers
  <2> QED
    BY <2>1, <2>2, <2>3, <2>4, <2>5, <2>7, <2>8, <2>9, <2>10, <2>11, <2>12
       DEF Next, PusherStep, PopperStep
<1> QED
  BY <1>1, <1>2, TypeCorrect, PTL DEF Spec

\* No wake-up of a consumer is lost: for any number of producers and consumers
\* mixing mqueue_pop, mqueue_wait and mqueue_trypop, nobody sleeps on popcv unless
\* there is an awake consumer for every queued buffer.
THEOREM NoLostWakeup == Spec => []NoStrandedPopper
BY WakeupInvariance, PTL DEF WakeupsKept

\* No wake-up of a producer is lost: mqueue_pop, mqueue_wait and mqueue_trypop
\* leave an awake producer for every free slot while one sleeps on pushcv.
THEOREM NoLostWakeupPush == Spec => []NoStrandedPusher
BY WakeupInvariance, PTL DEF WakeupsKept
-----------------------------------------------------------------------------
\* Ownership of a buffer passes from hand to slot to hand and is never shared.
THEOREM Ownership == Spec => []OwnedOnce
<1>1. Init => OwnedOnce
  <2> SUFFICES ASSUME Init PROVE OwnedOnce
    OBVIOUS
  <2>1. CASE queue = << >>
    BY <2>1 DEF Init, OwnedOnce, Threads
  <2>2. CASE queue \in [1 .. Size -> Elems]
    BY <2>2, NullAssumption, SizeAssumption DEF Init, NewQueue, OwnedOnce, Threads
  <2> QED
    BY <2>1, <2>2 DEF Init, NewQueue
<1>2. TypeOK /\ OwnedOnce /\ [Next]_vars => OwnedOnce'
  <2> SUFFICES ASSUME TypeOK, OwnedOnce, [Next]_vars PROVE OwnedOnce'
    OBVIOUS
  <2> USE NullAssumption DEF TypeOK, Threads
  <2>1. /\ Len(queue) \in Nat
        /\ DOMAIN queue = 1 .. Len(queue)
        /\ \A i \in DOMAIN queue : queue[i] \in Elems
    BY LenProperties, ElementOfSeq
  <2>2. ASSUME NEW t \in Pushers, CallPush(t) PROVE OwnedOnce'
    <3>1. PICK e \in Elems \ (Held \cup Queued) : hand' = [hand EXCEPT ![t] = e]
      BY <2>2 DEF CallPush
    <3>2. \A u \in Threads : hand[u] # e
      BY <3>1 DEF Held
    <3>3. \A i \in DOMAIN queue : queue[i] # e
      BY <3>1 DEF Queued
    <3>4. queue' = queue
      BY <2>2 DEF CallPush
    <3> QED
      BY <3>1, <3>2, <3>3, <3>4 DEF OwnedOnce
  <2>3. ASSUME NEW t \in Pushers, Push(t) PROVE OwnedOnce'
    <3>1. /\ DOMAIN queue' = 1 .. Len(queue) + 1
          /\ \A i \in 1 .. Len(queue) : queue'[i] = queue[i]
          /\ queue'[Len(queue) + 1] = hand[t]
      BY <2>1, <2>3 DEF Push
    <3>2. hand' = [hand EXCEPT ![t] = NULL] /\ hand[t] \in Elems
      BY <2>3 DEF Push
    <3>3. \A i \in 1 .. Len(queue) : i \in DOMAIN queue
      BY <2>1
    <3>4. \A i \in DOMAIN queue' : i \in 1 .. Len(queue) \/ i = Len(queue) + 1
      BY <2>1, <3>1
    <3>5. \A i, j \in DOMAIN queue' : i # j => queue'[i] # queue'[j]
      BY <3>1, <3>3, <3>4 DEF OwnedOnce
    <3>6. \A u, v \in Threads : u # v /\ hand'[u] # NULL => hand'[u] # hand'[v]
      BY <3>2 DEF OwnedOnce
    <3>7. \A u \in Threads, i \in DOMAIN queue' : hand'[u] # queue'[i]
      <4> SUFFICES ASSUME NEW u \in Threads, NEW i \in DOMAIN queue'
                   PROVE  hand'[u] # queue'[i]
        OBVIOUS
      <4>1. CASE u = t
        BY <2>1, <3>1, <3>2, <3>3, <3>4, <4>1
      <4>2. CASE u # t
        BY <3>1, <3>2, <3>3, <3>4, <4>2 DEF OwnedOnce
      <4> QED
        BY <4>1, <4>2
    <3> QED
      BY <3>5, <3>6, <3>7 DEF OwnedOnce
  <2>4. ASSUME NEW t \in Poppers, queue # << >>, TakeTop(t) PROVE OwnedOnce'
    <3> DEFINE n == Len(queue)
    <3>1. /\ n \in DOMAIN queue
          /\ DOMAIN queue' = 1 .. n - 1
          /\ \A i \in DOMAIN queue' : i \in DOMAIN queue /\ i # n /\ queue'[i] = queue[i]
      <4>1. queue' \in Seq(Elems) /\ Len(queue') = n - 1 /\ n \in Nat \ {0}
        BY <2>4, FrontFacts DEF TakeTop
      <4>2. DOMAIN queue' = 1 .. n - 1
        BY <4>1, LenProperties
      <4>3. \A i \in 1 .. n - 1 : queue'[i] = queue[i]
        BY <2>4, FrontFacts DEF TakeTop
      <4> QED
        BY <2>1, <4>1, <4>2, <4>3
    <3>2. hand' = [hand EXCEPT ![t] = queue[n]]
      BY <2>4 DEF TakeTop
    <3> HIDE DEF n
    <3> QED
      BY <2>1, <3>1, <3>2 DEF OwnedOnce
  <2>5. ASSUME NEW t \in Poppers, Release(t) PROVE OwnedOnce'
    BY <2>5 DEF Release, OwnedOnce
  <2>6. CASE UNCHANGED <<queue, hand>>
    BY <2>6 DEF OwnedOnce
  <2> QED
    BY <2>2, <2>3, <2>4, <2>5, <2>6
       DEF Next, PusherStep, PopperStep, PushWait, CallPop, PopWait, Pop,
           WaitReturn, TryPop, WakeSpuriously, vars
<1> QED
  BY <1>1, <1>2, TypeCorrect, PTL DEF Spec

\* The monitor implements the bounded stack: a caller may reason about
\* mqueue_push and mqueue_pop as if they were atomic.
THEOREM Refinement == Spec => ImplementsStack
<1>1. TypeOK /\ Init => Stack!Init
  BY DEF TypeOK, Stack!Init
<1>2. TypeOK /\ [Next]_vars => [Stack!Next]_queue
  <2> SUFFICES ASSUME TypeOK, [Next]_vars, queue' # queue PROVE Stack!Next
    OBVIOUS
  <2> USE DEF TypeOK, Threads
  <2>1. ASSUME NEW t \in Pushers, Push(t) PROVE Stack!Push
    BY <2>1, SizeAssumption, NullAssumption DEF Push, Stack!Push
  <2>2. ASSUME NEW t \in Poppers, queue # << >>, TakeTop(t) PROVE Stack!Pop
    BY <2>2 DEF TakeTop, Stack!Pop
  <2> QED
    BY <2>1, <2>2
       DEF Next, PusherStep, PopperStep, CallPush, PushWait, Release, CallPop,
           PopWait, Pop, WaitReturn, TryPop, WakeSpuriously, vars, Stack!Next
<1> QED
  BY <1>1, <1>2, TypeCorrect, PTL DEF Spec, ImplementsStack, Stack!Spec
=============================================================================
