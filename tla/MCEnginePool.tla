----------------------------- MODULE MCEnginePool -----------------------------
(* Instances for TLC of the two places where requests wait: an engine pool   *)
(* (two replicas for four requests, and beside it the pool EnginePool::new   *)
(* builds from an empty vector), and a request queue (three producers of     *)
(* five requests, two consumers, two slots).  A behaviour is of one of them. *)
EXTENDS EnginePool, RequestQueue
CONSTANTS c1, c2, c3, c4, p1, p2, p3
MCClients == {c1, c2, c3, c4}
MCProducers == {p1, p2, p3}
MCConsumers == {c1, c2}

VARIABLES part, emptyPermits, emptyWaiters, emptyHolders, emptyIdle, emptyPhase, emptyLease
emptyVars == <<emptyPermits, emptyWaiters, emptyHolders, emptyIdle, emptyPhase, emptyLease>>
Empty == INSTANCE EnginePool
    WITH Clients <- {c1, c2}, Permits <- 1, NumEngines <- 0,
         permits <- emptyPermits, waiters <- emptyWaiters, holders <- emptyHolders,
         idle <- emptyIdle, phase <- emptyPhase, lease <- emptyLease

MCInit == part \in {"pools", "queue"} /\ Init /\ Empty!Init /\ QueueInit
MCNext == \/ part = "pools" /\ Next /\ UNCHANGED <<part, emptyVars, queueVars>>
          \/ part = "pools" /\ Empty!Next /\ UNCHANGED <<part, vars, queueVars>>
          \/ part = "queue" /\ QueueNext /\ UNCHANGED <<part, vars, emptyVars>>
MCSpec == /\ MCInit /\ [][MCNext]_<<part, vars, emptyVars, queueVars>>
          /\ Fairness /\ Empty!Fairness /\ QueueFairness

\* A request is answered by either pool: by the empty one with an error.
EveryPoolAnswers == EveryRequestAnswered /\ Empty!EveryRequestAnswered
=============================================================================
