----------------------------- MODULE RequestQueue -----------------------------
(***************************************************************************)
(* pictor-runtime/src/request_queue.rs: a bounded queue with a mutex and   *)
(* two condition variables, and the numbering of requests on top of it.    *)
(* Everything a method does while it holds the mutex is one step; waiting  *)
(* on a condition variable splits it.  A thread that waits is "parked"; a  *)
(* notification makes it "woken", its timeout makes it "expired", and in   *)
(* both cases it still has to get the mutex back.                          *)
(***************************************************************************)
EXTENDS FiniteSets, Naturals, Sequences

CONSTANTS
    Producers,  \* threads that submit or push
    Consumers,  \* threads that pop
    Capacity,   \* BoundedQueue::new(capacity)
    MaxItems    \* bound: requests submitted in all

ASSUME CapacityAssumption == Capacity \in Nat \ {0}
ASSUME ThreadsAssumption == IsFiniteSet(Producers) /\ IsFiniteSet(Consumers)
ASSUME ItemsAssumption == MaxItems \in Nat

VARIABLES
    queue,     \* the VecDeque; an item is its request id
    nextId,    \* InferenceQueue::next_id
    making,    \* the item each producer is trying to push, 0 if none
    producer,  \* phase of each producer
    consumer,  \* phase of each consumer
    accepted,  \* history: items in the order in which they were pushed
    handed,    \* history: items in the order in which they were taken out
    dropped    \* items refused (total_dropped counts them)

queueVars == <<queue, nextId, making, producer, consumer, accepted, handed, dropped>>

ThreadPhases == {"idle", "ready", "parked", "woken", "expired"}
Items == 1 .. MaxItems

Waiting(threads, label) == {t \in DOMAIN threads : threads[t] = label}

QueueTypeOK ==
    /\ queue \in Seq(Items) /\ Len(queue) <= Capacity
    /\ nextId \in 1 .. MaxItems + 1
    /\ making \in [Producers -> Items \cup {0}]
    /\ producer \in [Producers -> ThreadPhases]
    /\ consumer \in [Consumers -> ThreadPhases \ {"ready"}]
    /\ accepted \in Seq(Items) /\ handed \in Seq(Items)
    /\ dropped \subseteq Items

QueueInit ==
    /\ queue = <<>>
    /\ nextId = 1
    /\ making = [p \in Producers |-> 0]
    /\ producer = [p \in Producers |-> "idle"]
    /\ consumer = [c \in Consumers |-> "idle"]
    /\ accepted = <<>> /\ handed = <<>>
    /\ dropped = {}

Full == Len(queue) >= Capacity

\* notify_one: any one of the parked threads, if there is one.
NotifyOne(before, after) ==
    IF Waiting(before, "parked") = {} THEN after = before
    ELSE \E t \in Waiting(before, "parked") : after = [before EXCEPT ![t] = "woken"]

\* submit: the id is drawn before the queue is locked.
DrawId(p) ==
    /\ producer[p] = "idle"
    /\ nextId <= MaxItems
    /\ nextId' = nextId + 1
    /\ making' = [making EXCEPT ![p] = nextId]
    /\ producer' = [producer EXCEPT ![p] = "ready"]
    /\ UNCHANGED <<queue, consumer, accepted, handed, dropped>>

\* (mutant) A producer that was woken pushes without looking again.
PushWithoutRecheck(p) ==
    /\ producer[p] = "woken" \/ (producer[p] = "ready" /\ ~ Full)
    /\ queue' = Append(queue, making[p])
    /\ accepted' = Append(accepted, making[p])
    /\ NotifyOne(consumer, consumer')
    /\ making' = [making EXCEPT ![p] = 0]
    /\ producer' = [producer EXCEPT ![p] = "idle"]
    /\ UNCHANGED <<nextId, handed, dropped>>

\* (mutant) A push notifies nobody.
PushSilently(p) ==
    /\ producer[p] \in {"ready", "woken"}
    /\ ~ Full
    /\ queue' = Append(queue, making[p])
    /\ accepted' = Append(accepted, making[p])
    /\ making' = [making EXCEPT ![p] = 0]
    /\ producer' = [producer EXCEPT ![p] = "idle"]
    /\ UNCHANGED <<nextId, consumer, handed, dropped>>

\* try_push, and a turn of the loop in push_timeout: there is room.
Push(p) ==
    /\ producer[p] \in {"ready", "woken"}
    /\ ~ Full
    /\ queue' = Append(queue, making[p])
    /\ accepted' = Append(accepted, making[p])
    /\ NotifyOne(consumer, consumer')
    /\ making' = [making EXCEPT ![p] = 0]
    /\ producer' = [producer EXCEPT ![p] = "idle"]
    /\ UNCHANGED <<nextId, handed, dropped>>

\* There is none: try_push fails, or the deadline of push_timeout has passed.
\* A wait that ended by its timeout fails without looking at the queue again.
Refuse(p) ==
    /\ \/ producer[p] \in {"ready", "woken"} /\ Full
       \/ producer[p] = "expired"
    /\ dropped' = dropped \cup {making[p]}
    /\ making' = [making EXCEPT ![p] = 0]
    /\ producer' = [producer EXCEPT ![p] = "idle"]
    /\ UNCHANGED <<queue, nextId, consumer, accepted, handed>>

\* push_timeout waits for not_full.
ParkProducer(p) ==
    /\ producer[p] \in {"ready", "woken"}
    /\ Full
    /\ producer' = [producer EXCEPT ![p] = "parked"]
    /\ UNCHANGED <<queue, nextId, making, consumer, accepted, handed, dropped>>

\* (mutant) The newest item is taken.
PopNewest(c) ==
    /\ consumer[c] \in {"idle", "woken", "expired"}
    /\ queue # <<>>
    /\ handed' = Append(handed, queue[Len(queue)])
    /\ queue' = SubSeq(queue, 1, Len(queue) - 1)
    /\ NotifyOne(producer, producer')
    /\ consumer' = [consumer EXCEPT ![c] = "idle"]
    /\ UNCHANGED <<nextId, making, accepted, dropped>>

\* pop, and a turn of the loop in pop_timeout, also after its wait timed out.
PopItem(c) ==
    /\ consumer[c] \in {"idle", "woken", "expired"}
    /\ queue # <<>>
    /\ handed' = Append(handed, Head(queue))
    /\ queue' = Tail(queue)
    /\ NotifyOne(producer, producer')
    /\ consumer' = [consumer EXCEPT ![c] = "idle"]
    /\ UNCHANGED <<nextId, making, accepted, dropped>>

\* pop_timeout waits for not_empty.
ParkConsumer(c) ==
    /\ consumer[c] \in {"idle", "woken"}
    /\ queue = <<>>
    /\ consumer' = [consumer EXCEPT ![c] = "parked"]
    /\ UNCHANGED <<queue, nextId, making, producer, accepted, handed, dropped>>

\* None: nothing came before the deadline.
PopNothing(c) ==
    /\ consumer[c] \in {"woken", "expired"}
    /\ queue = <<>>
    /\ consumer' = [consumer EXCEPT ![c] = "idle"]
    /\ UNCHANGED <<queue, nextId, making, producer, accepted, handed, dropped>>

\* A wait ends without a notification: its timeout, or for no reason.
LeaveProducer(p) ==
    /\ producer[p] = "parked"
    /\ \E to \in {"expired", "woken"} : producer' = [producer EXCEPT ![p] = to]
    /\ UNCHANGED <<queue, nextId, making, consumer, accepted, handed, dropped>>

LeaveConsumer(c) ==
    /\ consumer[c] = "parked"
    /\ \E to \in {"expired", "woken"} : consumer' = [consumer EXCEPT ![c] = to]
    /\ UNCHANGED <<queue, nextId, making, producer, accepted, handed, dropped>>

\* (mutant) drain notifies one producer for all the slots it frees.
DrainNotifiesOne ==
    /\ queue # <<>>
    /\ handed' = handed \o queue
    /\ queue' = <<>>
    /\ NotifyOne(producer, producer')
    /\ UNCHANGED <<nextId, making, consumer, accepted, dropped>>

\* drain: everything at once, and every waiting producer is woken.
Drain ==
    /\ queue # <<>>
    /\ handed' = handed \o queue
    /\ queue' = <<>>
    /\ producer' = [p \in Producers |-> IF producer[p] = "parked" THEN "woken" ELSE producer[p]]
    /\ UNCHANGED <<nextId, making, consumer, accepted, dropped>>

QueueNext ==
    \/ Drain
    \/ \E p \in Producers :
         DrawId(p) \/ Push(p) \/ Refuse(p) \/ ParkProducer(p) \/ LeaveProducer(p)
    \/ \E c \in Consumers :
         PopItem(c) \/ ParkConsumer(c) \/ PopNothing(c) \/ LeaveConsumer(c)

QueueSpec == QueueInit /\ [][QueueNext]_queueVars

\* A consumer that is not waiting comes back for the next item.  No fairness
\* is given to the ends of waits: a waiting thread may have to rely on being notified.
QueueFairness == \A c \in Consumers : WF_queueVars(PopItem(c))
QueueFairSpec == QueueSpec /\ QueueFairness

-----------------------------------------------------------------------------
\* Every item that was accepted is handed out once, in the order of the pushes,
\* whoever pops, and a refused item never is (try_push, pop, drain: 86-101,
\* 150-200, 250-263).
FifoOnce ==
    /\ accepted = handed \o queue
    /\ \A i, j \in DOMAIN accepted : accepted[i] = accepted[j] => i = j
    /\ \A i \in DOMAIN accepted : accepted[i] \notin dropped

\* What was accepted waits in a queue that never outgrows its capacity, although
\* a woken producer may find its slot taken (try_push, push_timeout: 88-143), and
\* leaves it once and in order.
BoundedFifo == Len(queue) <= Capacity /\ FifoOnce

\* No wake-up is lost: while a producer is parked every free slot has a
\* notified producer on its way, and the same for consumers and items.
NoLostWakeup ==
    /\ Waiting(producer, "parked") # {}
         => Capacity - Len(queue) <= Cardinality(Waiting(producer, "woken"))
    /\ Waiting(consumer, "parked") # {}
         => Len(queue) <= Cardinality(Waiting(consumer, "woken"))

\* Ids are drawn once: what a producer holds was not pushed or refused before.
IdsFresh ==
    /\ \A p \in Producers : making[p] = 0 <=> producer[p] = "idle"
    /\ \A p \in Producers : making[p] < nextId /\ making[p] \notin dropped
    /\ \A p, r \in Producers : making[p] = making[r] /\ making[p] # 0 => p = r
    /\ \A i \in DOMAIN accepted :
         accepted[i] < nextId /\ \A p \in Producers : accepted[i] # making[p]
    /\ \A d \in dropped : d < nextId

\* The inductive invariant: types, and the safety properties with the freshness
\* of ids on which the uniqueness of items rests.
QueueInv == QueueTypeOK /\ IdsFresh /\ FifoOnce /\ NoLostWakeup

\* Every accepted item is taken out in the end, even if no wait ever times out.
EveryItemServed ==
    \A i \in Items : (i \in {queue[k] : k \in DOMAIN queue})
                       ~> (i \in {handed[k] : k \in DOMAIN handed})
=============================================================================
