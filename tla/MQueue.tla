------------------------------- MODULE MQueue -------------------------------
(* The queues of src/mbuf.c (mqueue and miovq are the same code over two     *)
(* element types): an array used as a stack, one mutex, and two condition    *)
(* variables.  A critical section, from pthread_mutex_lock to the unlock or  *)
(* to the pthread_cond_wait that releases the mutex, is one step.            *)
(*                                                                           *)
(* The callers are any number of producers, which hold a buffer and push it, *)
(* and consumers, which call mqueue_pop, mqueue_trypop, or mqueue_wait       *)
(* followed by mqueue_trypop as write_tfs_pkts does in one-packet mode.      *)
EXTENDS Naturals, Sequences, FiniteSets

CONSTANTS Pushers,   \* threads that push
          Poppers,   \* threads that pop, wait or try
          Elems,     \* the buffers
          Size,      \* mq->size
          NULL,      \* no buffer in hand
          Spurious   \* may pthread_cond_wait return without a signal?

ASSUME ThreadsAssumption ==
    /\ IsFiniteSet(Pushers)
    /\ IsFiniteSet(Poppers)
    /\ Pushers \cap Poppers = {}
ASSUME SizeAssumption == Size \in Nat \ {0}
ASSUME NullAssumption == NULL \notin Elems
ASSUME SpuriousAssumption == Spurious \in BOOLEAN

VARIABLES
    queue,   \* mq->queue[0 .. depth-1]; the last element is the next popped
    pc,      \* where each thread is: outside the queue, or in which call
    hand,    \* the buffer each thread holds
    popcv,   \* threads asleep on mq->popcv
    pushcv   \* threads asleep on mq->pushcv

vars == <<queue, pc, hand, popcv, pushcv>>

Threads == Pushers \cup Poppers

Held == {hand[t] : t \in Threads} \ {NULL}
Queued == {queue[i] : i \in DOMAIN queue}

\* mqueue_new leaves the array empty; mqueue_new_freeq fills it with distinct
\* buffers, size of them.
NewQueue(q) ==
    \/ q = << >>
    \/ /\ q \in [1 .. Size -> Elems]
       /\ \A i, j \in 1 .. Size : i # j => q[i] # q[j]

Init ==
    /\ NewQueue(queue)
    /\ pc = [t \in Threads |-> "idle"]
    /\ hand = [t \in Threads |-> NULL]
    /\ popcv = {}
    /\ pushcv = {}

\* pthread_cond_signal: wakes one sleeper, if there is one, and is otherwise lost.
SignalPop ==
    \/ popcv = {} /\ popcv' = {}
    \/ \E t \in popcv : popcv' = popcv \ {t}
SignalPush ==
    \/ pushcv = {} /\ pushcv' = {}
    \/ \E t \in pushcv : pushcv' = pushcv \ {t}

\* A producer comes by a buffer that nobody else has and calls mqueue_push.
CallPush(t) ==
    /\ pc[t] = "idle"
    /\ \E e \in Elems \ (Held \cup Queued) : hand' = [hand EXCEPT ![t] = e]
    /\ pc' = [pc EXCEPT ![t] = "push"]
    /\ UNCHANGED <<queue, popcv, pushcv>>

\* mqueue_push finds the queue full and sleeps.
PushWait(t) ==
    /\ pc[t] = "push" /\ t \notin pushcv
    /\ Len(queue) = Size
    /\ pushcv' = pushcv \cup {t}
    /\ UNCHANGED <<queue, pc, hand, popcv>>

\* Variant of Push without pthread_cond_signal(&mq->popcv).
PushUnsignalled(t) ==
    /\ pc[t] = "push" /\ t \notin pushcv
    /\ Len(queue) # Size
    /\ queue' = Append(queue, hand[t])
    /\ pc' = [pc EXCEPT ![t] = "idle"]
    /\ hand' = [hand EXCEPT ![t] = NULL]
    /\ UNCHANGED <<popcv, pushcv>>

\* Variant of Push that tests for room once, not again after each wake-up.
PushUntested(t) ==
    /\ pc[t] = "push" /\ t \notin pushcv
    /\ SignalPop
    /\ queue' = Append(queue, hand[t])
    /\ pc' = [pc EXCEPT ![t] = "idle"]
    /\ hand' = [hand EXCEPT ![t] = NULL]
    /\ UNCHANGED pushcv

\* mqueue_push finds room: signal a popper, store, return.
Push(t) ==
    /\ pc[t] = "push" /\ t \notin pushcv
    /\ Len(queue) # Size
    /\ SignalPop
    /\ queue' = Append(queue, hand[t])
    /\ pc' = [pc EXCEPT ![t] = "idle"]
    /\ hand' = [hand EXCEPT ![t] = NULL]
    /\ UNCHANGED pushcv

\* A consumer passes on the buffer it popped.
Release(t) ==
    /\ pc[t] = "idle" /\ hand[t] # NULL
    /\ hand' = [hand EXCEPT ![t] = NULL]
    /\ UNCHANGED <<queue, pc, popcv, pushcv>>

\* A consumer with empty hands calls mqueue_pop, mqueue_wait or mqueue_trypop.
CallPop(t) ==
    /\ pc[t] = "idle" /\ hand[t] = NULL
    /\ \E c \in {"pop", "wait", "try"} : pc' = [pc EXCEPT ![t] = c]
    /\ UNCHANGED <<queue, hand, popcv, pushcv>>

\* mqueue_pop or mqueue_wait finds the queue empty and sleeps.
PopWait(t) ==
    /\ pc[t] \in {"pop", "wait"} /\ t \notin popcv
    /\ queue = << >>
    /\ popcv' = popcv \cup {t}
    /\ UNCHANGED <<queue, pc, hand, pushcv>>

\* Variant of TakeTop without pthread_cond_signal(&mq->pushcv).
TakeTopUnsignalled(t) ==
    /\ hand' = [hand EXCEPT ![t] = queue[Len(queue)]]
    /\ queue' = SubSeq(queue, 1, Len(queue) - 1)
    /\ pc' = [pc EXCEPT ![t] = "idle"]
    /\ UNCHANGED <<popcv, pushcv>>

\* Variant of TakeTop that reads the top slot and leaves the depth as it was.
TakeTopNoDecrement(t) ==
    /\ SignalPush
    /\ hand' = [hand EXCEPT ![t] = queue[Len(queue)]]
    /\ pc' = [pc EXCEPT ![t] = "idle"]
    /\ UNCHANGED <<queue, popcv>>

\* The tail that mqueue_pop and a successful mqueue_trypop share.
TakeTop(t) ==
    /\ SignalPush
    /\ hand' = [hand EXCEPT ![t] = queue[Len(queue)]]
    /\ queue' = SubSeq(queue, 1, Len(queue) - 1)
    /\ pc' = [pc EXCEPT ![t] = "idle"]
    /\ UNCHANGED popcv

Pop(t) ==
    /\ pc[t] = "pop" /\ t \notin popcv
    /\ queue # << >>
    /\ TakeTop(t)

\* mqueue_wait returns without taking anything; its caller goes on to try.  (Or,
\* with the rest of a cut packet to send first, comes back to mqueue_wait, which
\* does not sleep while there is something in the queue: the thread is in "wait"
\* and awake before and after, a stuttering step.)
WaitReturn(t) ==
    /\ pc[t] = "wait" /\ t \notin popcv
    /\ queue # << >>
    /\ pc' = [pc EXCEPT ![t] = "try"]
    /\ UNCHANGED <<queue, hand, popcv, pushcv>>

\* mqueue_trypop never sleeps.  (Every caller passes maxsize = 0: main() exits
\* on -D, the option that would set g_dontfrag.)
TryPop(t) ==
    /\ pc[t] = "try"
    /\ \/ queue # << >> /\ TakeTop(t)
       \/ /\ queue = << >>
          /\ pc' = [pc EXCEPT ![t] = "idle"]
          /\ UNCHANGED <<queue, hand, popcv, pushcv>>

\* POSIX lets pthread_cond_wait return unsignalled; the while loops re-test.
WakeSpuriously(t) ==
    /\ Spurious
    /\ t \in popcv \cup pushcv
    /\ popcv' = popcv \ {t}
    /\ pushcv' = pushcv \ {t}
    /\ UNCHANGED <<queue, pc, hand>>

PusherStep(t) == PushWait(t) \/ Push(t)
PopperStep(t) == PopWait(t) \/ Pop(t) \/ WaitReturn(t) \/ TryPop(t)

Next ==
    \/ \E t \in Pushers : CallPush(t) \/ PusherStep(t)
    \/ \E t \in Poppers : Release(t) \/ CallPop(t) \/ PopperStep(t)
    \/ \E t \in Threads : WakeSpuriously(t)

\* A thread inside a call that can run does run.  Nobody is obliged to call.
Fairness ==
    /\ \A t \in Pushers : WF_vars(PusherStep(t))
    /\ \A t \in Poppers : WF_vars(PopperStep(t))

Spec == Init /\ [][Next]_vars
FairSpec == Spec /\ Fairness

-----------------------------------------------------------------------------
TypeOK ==
    /\ queue \in Seq(Elems) /\ Len(queue) <= Size
    /\ pc \in [Threads -> {"idle", "push", "pop", "wait", "try"}]
    /\ hand \in [Threads -> Elems \cup {NULL}]
    /\ popcv \subseteq {t \in Poppers : pc[t] \in {"pop", "wait"}}
    /\ pushcv \subseteq {t \in Pushers : pc[t] = "push"}
    /\ \A t \in Pushers : \/ pc[t] = "idle"
                          \/ pc[t] = "push" /\ hand[t] # NULL
    /\ \A t \in Poppers : pc[t] # "push"

\* A buffer is never in two places: no two slots of the array, no two threads,
\* nor a slot and a thread have the same mbuf (mqueue_pop and mqueue_push
\* transfer ownership; every buffer that is reused relies on it).
OwnedOnce ==
    /\ \A i, j \in DOMAIN queue : i # j => queue[i] # queue[j]
    /\ \A t, u \in Threads : t # u /\ hand[t] # NULL => hand[t] # hand[u]
    /\ \A t \in Threads, i \in DOMAIN queue : hand[t] # queue[i]

\* Consumers inside a call that will look at the queue without being woken.
AwakePoppers == {t \in Poppers : pc[t] \in {"pop", "wait", "try"}} \ popcv
AwakePushers == {t \in Pushers : pc[t] = "push"} \ pushcv

\* No lost wake-up on popcv: one signal per push is enough, because while some
\* consumer sleeps there is an awake one for every buffer in the queue, also
\* when the signal went to a caller of mqueue_wait, which takes nothing.
NoStrandedPopper ==
    popcv # {} => Len(queue) <= Cardinality(AwakePoppers)

\* No lost wake-up on pushcv: while some producer sleeps there is an awake one
\* for every free slot, although mqueue_pop signals before it frees the slot.
NoStrandedPusher ==
    pushcv # {} => Size - Len(queue) <= Cardinality(AwakePushers)

Stack == INSTANCE BoundedStack WITH stack <- queue

\* Whatever the interleaving, the calls of mbuf.c act on the array as atomic
\* pushes and pops of the newest element, and never overrun or underrun it.
ImplementsStack == Stack!Spec

\* Every sleeper in mqueue_pop or mqueue_wait is woken once buffers stay queued,
\* and every sleeper in mqueue_push once there stays room: the state in which
\* some thread sleeps although it could proceed does not last, for any number
\* of callers, if threads inside a call are scheduled.
SleepersWake ==
    /\ (popcv # {} /\ queue # << >>) ~> (popcv = {} \/ queue = << >>)
    /\ (pushcv # {} /\ Len(queue) < Size) ~> (pushcv = {} \/ Len(queue) = Size)
=============================================================================
