------------------------------ MODULE ModelCache ------------------------------
(***************************************************************************)
(* ModelCache of pictor-runtime/src/model_cache.rs: loaded models by key,  *)
(* under one mutex that is also held while a model is loaded, so that      *)
(* every operation is one action.  Entries leave because they were not     *)
(* used for ttl, because the table is full, or because the memory budget   *)
(* would be passed.  Time is ticks since the last use; it stops at         *)
(* IdleHorizon.                                                            *)
(***************************************************************************)
EXTENDS Integers, FiniteSets, FiniteSetsExt, Functions

CONSTANTS
    ModelKeys,
    Sizes,        \* memory_bytes a loader may report
    MaxModels,
    ModelTtl,
    Budget,       \* memory_budget_bytes, under evict_on_memory_pressure
    IdleHorizon   \* where idle times stop

\* With max_models = 0 the first eviction loop never ends.
ASSUME ModelCacheAssumption ==
    /\ MaxModels \in Nat \ {0} /\ ModelTtl \in Nat /\ Budget \in Nat
    /\ Sizes \subseteq Nat /\ IdleHorizon \in Nat /\ IdleHorizon >= ModelTtl

VARIABLES
    entries,   \* key -> [size, idle]
    lastKey    \* history: the key of the last get_or_insert

modelVars == <<entries, lastKey>>

ModelInit == entries = <<>> /\ lastKey \in ModelKeys

PassTime ==
    /\ entries' = [k \in DOMAIN entries |-> [entries[k] EXCEPT !.idle = Min({IdleHorizon, @ + 1})]]
    /\ UNCHANGED lastKey

FreshKeys == {k \in DOMAIN entries : entries[k].idle < ModelTtl}

Without(cache, k) == Restrict(cache, DOMAIN cache \ {k})

\* The sum of the sizes: as many as there are bytes in all entries together.
HeldBytes(cache) == UNION {{k} \X (1 .. cache[k].size) : k \in DOMAIN cache}
Memory(cache) == Cardinality(HeldBytes(cache))

\* evict_lru: one of those unused for longest.
LeastRecent(cache) == {k \in DOMAIN cache : \A j \in DOMAIN cache : cache[j].idle <= cache[k].idle}

\* evict_if_needed_locked, first loop: room for one more.
MadeRoom(cache) ==
    IF Cardinality(DOMAIN cache) >= MaxModels
    THEN {Without(cache, k) : k \in LeastRecent(cache)}
    ELSE {cache}

\* (mutant) The projection leaves the incoming model out.
UnderPressureLate(cache, incoming) == IF Memory(cache) > Budget THEN <<>> ELSE cache

\* Second loop: its condition does not change, so that it removes all or none.
UnderPressure(cache, incoming) == IF Memory(cache) + incoming > Budget THEN <<>> ELSE cache

GetOrInsert(key, size) ==
    /\ lastKey' = key
    /\ IF key \in FreshKeys
       THEN entries' = [entries EXCEPT ![key].idle = 0]
       ELSE \E cache \in MadeRoom(Without(entries, key)) :
               LET kept == UnderPressure(cache, size)
               IN  entries' = [k \in DOMAIN kept \cup {key} |->
                                  IF k = key THEN [size |-> size, idle |-> 0] ELSE kept[k]]

Evict(key) ==
    /\ key \in DOMAIN entries
    /\ entries' = Without(entries, key)
    /\ UNCHANGED lastKey

EvictStaleModels ==
    /\ entries' = Restrict(entries, FreshKeys)
    /\ UNCHANGED lastKey

ModelNext ==
    \/ PassTime
    \/ \E key \in ModelKeys, size \in Sizes : GetOrInsert(key, size)
    \/ \E key \in ModelKeys : Evict(key)
    \/ EvictStaleModels

ModelSpec == ModelInit /\ [][ModelNext]_modelVars
-----------------------------------------------------------------------------
\* Whatever was loaded, used and forgotten before, there are no more models
\* than allowed and they fit the budget, except for one that is too large by
\* itself: that one was asked for last, and stands alone (get_or_insert,
\* evict_if_needed_locked).
ModelsFit ==
    /\ Cardinality(DOMAIN entries) <= MaxModels
    /\ Memory(entries) > Budget => DOMAIN entries = {lastKey}
-----------------------------------------------------------------------------
\* The inductive invariant behind ModelsAlwaysFit of LibraryProofs.
ModelInv ==
    /\ entries \in [DOMAIN entries -> [size : Nat, idle : Nat]]
    /\ IsFiniteSet(DOMAIN entries) /\ IsFiniteSet(HeldBytes(entries))
    /\ ModelsFit
=============================================================================
