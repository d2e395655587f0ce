------------------------------ MODULE QueueDepth ------------------------------
(***************************************************************************)
(* QueueDepthTracker of pictor-runtime/src/server.rs: a counter that       *)
(* threads raise with one load and one compare_exchange, and lower with    *)
(* fetch_sub.  A thread whose exchange fails is told that the queue is     *)
(* full, whatever the counter says.                                        *)
(***************************************************************************)
EXTENDS Integers, FiniteSets

CONSTANTS
    Acquirers,   \* threads
    MaxDepth     \* as given to new, which raises 0 to 1

ASSUME DepthAssumption == MaxDepth \in Nat /\ IsFiniteSet(Acquirers)

VARIABLES
    depth,     \* current
    slot,      \* thread -> "out", "loaded" (between load and exchange) or "in"
    loaded     \* thread -> what it loaded

depthVars == <<depth, slot, loaded>>

Capacity == IF MaxDepth < 1 THEN 1 ELSE MaxDepth

DepthInit ==
    /\ depth = 0
    /\ slot = [t \in Acquirers |-> "out"]
    /\ loaded = [t \in Acquirers |-> 0]

LoadDepth(t) ==
    /\ slot[t] = "out"
    /\ depth < Capacity
    /\ slot' = [slot EXCEPT ![t] = "loaded"]
    /\ loaded' = [loaded EXCEPT ![t] = depth]
    /\ UNCHANGED depth

\* (mutant) The counter is stored, whatever happened since the load.
StoreDepth(t) ==
    /\ slot[t] = "loaded"
    /\ depth' = loaded[t] + 1
    /\ slot' = [slot EXCEPT ![t] = "in"]
    /\ UNCHANGED loaded

ExchangeDepth(t) ==
    /\ slot[t] = "loaded"
    /\ \/ /\ depth = loaded[t]
          /\ depth' = depth + 1
          /\ slot' = [slot EXCEPT ![t] = "in"]
       \/ /\ depth # loaded[t]
          /\ slot' = [slot EXCEPT ![t] = "out"]
          /\ UNCHANGED depth
    /\ UNCHANGED loaded

\* Called by holders of a slot only.
ReleaseDepth(t) ==
    /\ slot[t] = "in"
    /\ depth' = depth - 1
    /\ slot' = [slot EXCEPT ![t] = "out"]
    /\ UNCHANGED loaded

DepthNext ==
    \E t \in Acquirers : LoadDepth(t) \/ ExchangeDepth(t) \/ ReleaseDepth(t)

DepthSpec == DepthInit /\ [][DepthNext]_depthVars
-----------------------------------------------------------------------------
DepthHolders == {t \in Acquirers : slot[t] = "in"}

DepthTypeOK ==
    /\ depth \in Nat
    /\ slot \in [Acquirers -> {"out", "loaded", "in"}]
    /\ loaded \in [Acquirers -> Nat]

\* However loads, exchanges and releases interleave, the counter is the number
\* of slots handed out and never passes the maximum (try_acquire, release): it
\* neither admits too many nor wraps below zero, even when it has been at the
\* loaded value twice.
DepthCountsHolders ==
    depth = Cardinality(DepthHolders) /\ depth <= Capacity

DepthInv ==
    /\ DepthTypeOK
    /\ DepthCountsHolders
    /\ \A t \in Acquirers : slot[t] = "loaded" => loaded[t] < Capacity
=============================================================================
