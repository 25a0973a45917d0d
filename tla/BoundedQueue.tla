----------------------------- MODULE BoundedQueue -----------------------------
(***************************************************************************)
(* core/BoundedQueue.h: the queue between the capture and the inference    *)
(* thread of VisionPipeline, and between the GUI and the writer thread of  *)
(* EventWriter.  The granularity is that of m_mutex: everything push, pop  *)
(* or close does while it holds the lock is one step, and the notify_one   *)
(* that push and pop issue AFTER unlocking is a step of its own.  A thread *)
(* that waits on m_notEmpty or m_notFull runs again only when notified     *)
(* (or spuriously), and must then take the lock and test its predicate     *)
(* once more.                                                              *)
(*                                                                         *)
(* Items are tickets: the n-th call of push carries the item n.            *)
(***************************************************************************)
EXTENDS Naturals, Sequences, FiniteSets

CONSTANTS Producers,   \* threads that call push
          Consumers,   \* threads that call pop
          Capacities,  \* capacities the constructor may be given
          MaxPushes    \* bound: calls of push in a behaviour

ASSUME ThreadsAssumption == /\ IsFiniteSet(Producers)
                            /\ IsFiniteSet(Consumers)
                            /\ Producers \cap Consumers = {}

\* The constructor throws std::invalid_argument for capacity 0.
ASSUME CapacityAssumption == Capacities \subseteq Nat \ {0}

ASSUME MaxPushesAssumption == MaxPushes \in Nat

VARIABLES capacity,  \* m_capacity
          policy,    \* m_policy
          queue,     \* m_queue
          closed,    \* m_closed
          dropped,   \* m_dropped
          pc,        \* where each thread is in its call
          item,      \* the argument of a producer's current push
          calls,     \* history: calls of push so far
          accepted,  \* history: items put in the queue, in order
          rejected,  \* history: items DropNewest turned away
          delivered, \* history: items pop handed out, in order
          ended      \* history: some pop has returned false

const == <<capacity, policy>>
state == <<queue, closed, dropped>>
history == <<accepted, rejected, delivered, ended>>
vars == <<const, state, pc, item, calls, history>>

Policies == {"BlockProducer", "DropNewest", "DropOldest"}
Threads == Producers \cup Consumers
Tickets == 1..MaxPushes

Init == /\ capacity \in Capacities
        /\ policy \in Policies
        /\ queue = <<>>
        /\ closed = FALSE
        /\ dropped = 0
        /\ pc = [t \in Threads |-> "idle"]
        /\ item = [p \in Producers |-> 0]
        /\ calls = 0
        /\ accepted = <<>>
        /\ rejected = 0
        /\ delivered = <<>>
        /\ ended = FALSE

Full == Len(queue) >= capacity
At(T, place) == {t \in T : pc[t] = place}
Goto(t, place) == pc' = [pc EXCEPT ![t] = place]

\* condition_variable::notify_one, the last thing a call does: any one of the
\* threads waiting there, if there is one, goes back to contend for the lock.
NotifyOne(t, T) ==
    \/ At(T, "waiting") = {} /\ Goto(t, "idle")
    \/ \E w \in At(T, "waiting") :
          pc' = [pc EXCEPT ![t] = "idle", ![w] = "locking"]
------------------------------------------------------------------------------
CallPush(p) == /\ pc[p] = "idle"
               /\ calls < MaxPushes
               /\ calls' = calls + 1
               /\ item' = [item EXCEPT ![p] = calls + 1]
               /\ Goto(p, "locking")
               /\ UNCHANGED <<const, state, history>>

\* m_notFull.wait: only BlockProducer waits, and never on a closed queue.
PushWait(p) == /\ pc[p] = "locking"
               /\ policy = "BlockProducer"
               /\ ~closed /\ Full
               /\ Goto(p, "waiting")
               /\ UNCHANGED <<const, state, item, calls, history>>

\* Push on a closed queue returns false.
PushClosed(p) == /\ pc[p] = "locking"
                 /\ closed
                 /\ Goto(p, "idle")
                 /\ UNCHANGED <<const, state, item, calls, history>>

PushDropNewest(p) == /\ pc[p] = "locking"
                     /\ policy = "DropNewest"
                     /\ ~closed /\ Full
                     /\ dropped' = dropped + 1
                     /\ rejected' = rejected + 1
                     /\ Goto(p, "idle")
                     /\ UNCHANGED <<const, queue, closed, item, calls,
                                    accepted, delivered, ended>>

\* Mutant: the newest queued item goes instead of the oldest.
PushDropBack(p) ==
    /\ pc[p] = "locking"
    /\ policy = "DropOldest"
    /\ ~closed /\ Full
    /\ queue' = Append(SubSeq(queue, 1, Len(queue) - 1), item[p])
    /\ dropped' = dropped + 1
    /\ accepted' = Append(accepted, item[p])
    /\ Goto(p, "notifying")
    /\ UNCHANGED <<const, closed, item, calls, rejected, delivered, ended>>

\* DropOldest, full: pop_front, count it, push_back.
PushDropOldest(p) == /\ pc[p] = "locking"
                     /\ policy = "DropOldest"
                     /\ ~closed /\ Full
                     /\ queue' = Append(Tail(queue), item[p])
                     /\ dropped' = dropped + 1
                     /\ accepted' = Append(accepted, item[p])
                     /\ Goto(p, "notifying")
                     /\ UNCHANGED <<const, closed, item, calls,
                                    rejected, delivered, ended>>

PushAppend(p) == /\ pc[p] = "locking"
                 /\ ~closed /\ ~Full
                 /\ queue' = Append(queue, item[p])
                 /\ accepted' = Append(accepted, item[p])
                 /\ Goto(p, "notifying")
                 /\ UNCHANGED <<const, closed, dropped, item, calls,
                                rejected, delivered, ended>>

\* Mutant: push returns without notifying.
PushNotifyForgotten(p) == /\ pc[p] = "notifying"
                          /\ Goto(p, "idle")
                          /\ UNCHANGED <<const, state, item, calls, history>>

PushNotify(p) == /\ pc[p] = "notifying"
                 /\ NotifyOne(p, Consumers)
                 /\ UNCHANGED <<const, state, item, calls, history>>
------------------------------------------------------------------------------
CallPop(c) == /\ pc[c] = "idle"
              /\ Goto(c, "locking")
              /\ UNCHANGED <<const, state, item, calls, history>>

PopWait(c) == /\ pc[c] = "locking"
              /\ ~closed /\ queue = <<>>
              /\ Goto(c, "waiting")
              /\ UNCHANGED <<const, state, item, calls, history>>

\* Mutant: a closed queue returns false before it is drained.
PopEndUndrained(c) == /\ pc[c] = "locking"
                      /\ closed
                      /\ ended' = TRUE
                      /\ Goto(c, "idle")
                      /\ UNCHANGED <<const, state, item, calls,
                                     accepted, rejected, delivered>>

\* Pop returns false: the queue is closed and empty.
PopEnd(c) == /\ pc[c] = "locking"
             /\ closed /\ queue = <<>>
             /\ ended' = TRUE
             /\ Goto(c, "idle")
             /\ UNCHANGED <<const, state, item, calls,
                            accepted, rejected, delivered>>

PopTake(c) == /\ pc[c] = "locking"
              /\ queue # <<>>
              /\ delivered' = Append(delivered, Head(queue))
              /\ queue' = Tail(queue)
              /\ Goto(c, "notifying")
              /\ UNCHANGED <<const, closed, dropped, item, calls,
                             accepted, rejected, ended>>

\* Mutant: pop returns without notifying.
PopNotifyForgotten(c) == /\ pc[c] = "notifying"
                         /\ Goto(c, "idle")
                         /\ UNCHANGED <<const, state, item, calls, history>>

PopNotify(c) == /\ pc[c] = "notifying"
                /\ NotifyOne(c, Producers)
                /\ UNCHANGED <<const, state, item, calls, history>>
------------------------------------------------------------------------------
\* Mutant: close wakes the consumers only.
CloseNotEmptyOnly ==
    /\ ~closed
    /\ closed' = TRUE
    /\ pc' = [t \in Threads |-> IF t \in At(Consumers, "waiting") THEN "locking" ELSE pc[t]]
    /\ UNCHANGED <<const, queue, dropped, item, calls, history>>

\* Close by any thread (the destructor too): notify_all on both conditions.
\* A second close returns at once and changes nothing.
Close == /\ ~closed
         /\ closed' = TRUE
         /\ pc' = [t \in Threads |-> IF pc[t] = "waiting" THEN "locking" ELSE pc[t]]
         /\ UNCHANGED <<const, queue, dropped, item, calls, history>>

\* A condition variable may return without a notification.
SpuriousWakeup(t) == /\ pc[t] = "waiting"
                     /\ Goto(t, "locking")
                     /\ UNCHANGED <<const, state, item, calls, history>>
------------------------------------------------------------------------------
Push(p) == \/ PushWait(p) \/ PushClosed(p) \/ PushDropNewest(p)
           \/ PushDropOldest(p) \/ PushAppend(p) \/ PushNotify(p)

Pop(c) == PopWait(c) \/ PopEnd(c) \/ PopTake(c) \/ PopNotify(c)

Next == \/ \E p \in Producers : CallPush(p) \/ Push(p)
        \/ \E c \in Consumers : CallPop(c) \/ Pop(c)
        \/ Close
        \/ \E t \in Threads : SpuriousWakeup(t)

Spec == Init /\ [][Next]_vars

\* A thread inside a call that the lock does not hold back keeps running, and
\* each consumer is a worker loop that calls pop again (InferenceWorker::run,
\* EventWriter::runLoop).  Nothing obliges anybody to push or to close, and no
\* spurious wakeup is promised.
Fairness == /\ \A p \in Producers : WF_vars(Push(p))
            /\ \A c \in Consumers : WF_vars(CallPop(c) \/ Pop(c))

FairSpec == Spec /\ Fairness
------------------------------------------------------------------------------
TypeOK == /\ capacity \in Nat \ {0}
          /\ policy \in Policies
          /\ queue \in Seq(Nat)
          /\ closed \in BOOLEAN
          /\ dropped \in Nat
          /\ pc \in [Threads -> {"idle", "locking", "waiting", "notifying"}]
          /\ item \in [Producers -> Nat]
          /\ calls \in Nat
          /\ accepted \in Seq(Nat)
          /\ rejected \in Nat
          /\ delivered \in Seq(Nat)
          /\ ended \in BOOLEAN

\* The backlog never outgrows the capacity, and what is queued is exactly the
\* most recently accepted items in the order push accepted them: whichever
\* policy evicts or refuses, and however pushes and pops interleave, nothing
\* is reordered and only the oldest items leave.
NewestSuffix ==
    /\ Len(queue) <= capacity
    /\ Len(queue) <= Len(accepted)
    /\ \A i \in 1..Len(queue) : queue[i] = accepted[Len(accepted) - Len(queue) + i]

\* droppedCount() accounts for every lost item: an item given to push is
\* queued, was handed to one pop, was refused by a closed queue, or is counted.
DropsAccounted ==
    Len(accepted) + rejected = Len(delivered) + Len(queue) + dropped

\* What a user of the queue can conclude from the backlog and the counters: each
\* item is queued, in its place among the newest, or accounted for.
BacklogExplained == NewestSuffix /\ DropsAccounted

\* Threads on their way to an item: consumers that will test the queue, and
\* producers that have yet to notify a consumer.  PushNotify happens after the
\* unlock, so a consumer may sleep beside a non-empty queue for a while; as
\* long as one does, every queued item has a thread on its way to it.  This is
\* why notify_one (not notify_all) outside the lock loses no wakeup.
TowardsItem == At(Consumers, "locking") \cup At(Producers, "notifying")
NoLostItemWakeup ==
    At(Consumers, "waiting") # {} => Len(queue) <= Cardinality(TowardsItem)

\* The mirror image for producers blocked on a full queue: each free slot has a
\* producer about to test for it or a consumer about to announce it.
TowardsSlot == At(Producers, "locking") \cup At(Consumers, "notifying")
NoLostSlotWakeup ==
    At(Producers, "waiting") # {} =>
        capacity - Len(queue) <= Cardinality(TowardsSlot)

\* Once close has run nobody sleeps: no thread can enter a wait on a closed
\* queue, and the notify_all of close missed nobody, so joining the workers
\* after close terminates.
NoSleeperAfterClose == closed => At(Threads, "waiting") = {}

\* No thread sleeps through what it waits for: an item, a slot or the close.
NoLostWakeup == NoLostItemWakeup /\ NoLostSlotWakeup /\ NoSleeperAfterClose

\* The queue implements a bounded FIFO channel: after close nothing is
\* accepted, pop says false only when the closed queue is drained, items come
\* out in the order they went in and each at most once, and an item is
\* skipped only by DropOldest on a full queue.
Fifo == INSTANCE LossyFifo
            WITH Items <- Tickets, bound <- capacity,
                 lossy <- (policy = "DropOldest"),
                 sent <- accepted, next <- Len(accepted) + 1 - Len(queue),
                 received <- delivered, shut <- closed
ImplementsFifo == Fifo!Spec

\* No accepted item is stranded: it is handed to a consumer or, under
\* DropOldest, overtaken by newer items, even if close comes first.
Settled(n) == Len(accepted) - Len(queue) >= n
NoItemStranded == \A n \in Tickets : Len(accepted) >= n ~> Settled(n)

\* After close every call in progress returns: nobody is left inside push or
\* pop, which VisionPipeline::joinWorkers and EventWriter::stop rely on.
CloseReleases ==
    \A t \in Threads : closed /\ pc[t] # "idle" ~> pc[t] = "idle"
===============================================================================
