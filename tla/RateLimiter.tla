----------------------------- MODULE RateLimiter -----------------------------
(***************************************************************************)
(* pictor-runtime/src/rate_limiter.rs: one token bucket per client, in a   *)
(* table that forgets clients, and a global one in front.  The two have    *)
(* mutexes of their own: a request takes a token of the global bucket, and *)
(* asks the client's bucket in a later step.  Buckets are refilled when    *)
(* they are next looked at, from the time since the last refill.           *)
(*                                                                         *)
(* Time is ticks; a tick refills Rps tokens of a client's bucket.  An      *)
(* instant is kept as its age.  Ages stop at Horizon, where every bucket   *)
(* is full and every entry stale.                                          *)
(***************************************************************************)
EXTENDS Integers, FiniteSets, Functions

CONSTANTS
    ClientIds,    \* names that requests come with
    Callers,      \* threads that ask
    Burst,        \* capacity of a client's bucket
    Rps,          \* tokens that a tick adds to it
    GlobalRps,    \* tokens that a tick adds to the global bucket; it holds twice as many
    MaxClients,   \* table size from which on stale entries are removed
    Ttl,          \* age from which on an entry is stale
    Horizon,      \* where ages stop
    NoId

ASSUME LimiterAssumption ==
    /\ Burst \in Nat \ {0} /\ Rps \in Nat \ {0} /\ GlobalRps \in Nat \ {0}
    /\ MaxClients \in Nat /\ Ttl \in Nat /\ Horizon \in Nat
    /\ NoId \notin ClientIds
\* A client that is forgotten has been idle long enough to be full again: of
\* the configurations, those that keep this (the default does: 300 s, 10/s, 20).
ASSUME IdleIsFullAssumption == Ttl * Rps >= Burst
ASSUME HorizonAssumption == Horizon * Rps >= Burst /\ Horizon >= Ttl /\ Horizon >= 2

VARIABLES
    table,     \* client -> [tokens, age: since the last refill, seen: since the last request]
    global,    \* [tokens, age]
    call,      \* caller -> the client it holds a global token for
    verdict    \* caller -> its last answer

limiterVars == <<table, global, call, verdict>>

LimiterInit ==
    /\ table = <<>>
    /\ global = [tokens |-> 2 * GlobalRps, age |-> 0]
    /\ call = [c \in Callers |-> NoId]
    /\ verdict = [c \in Callers |-> "none"]

AtMost(cap, n) == IF n < cap THEN n ELSE cap
Refilled(b, cap, rate) == AtMost(cap, b.tokens + rate * b.age)
ClientTokens(b) == Refilled(b, Burst, Rps)
GlobalTokens == Refilled(global, 2 * GlobalRps, GlobalRps)
Older(age) == AtMost(Horizon, age + 1)

Aged(b) == [tokens |-> b.tokens, age |-> Older(b.age), seen |-> Older(b.seen)]

Tick ==
    /\ table' = [id \in DOMAIN table |-> Aged(table[id])]
    /\ global' = [global EXCEPT !.age = Older(@)]
    /\ UNCHANGED <<call, verdict>>

\* check_and_consume, first half.  A refused call still refills the bucket.
TakeGlobal(c, id) ==
    /\ call[c] = NoId
    /\ \/ /\ GlobalTokens >= 1
          /\ global' = [tokens |-> GlobalTokens - 1, age |-> 0]
          /\ call' = [call EXCEPT ![c] = id]
          /\ UNCHANGED verdict
       \/ /\ GlobalTokens < 1
          /\ global' = [tokens |-> GlobalTokens, age |-> 0]
          /\ verdict' = [verdict EXCEPT ![c] = "saturated"]
          /\ UNCHANGED call
    /\ UNCHANGED table

Fresh == {id \in DOMAIN table : table[id].seen < Ttl}

\* (mutant) At capacity the client that was idle for longest goes, stale or not.
KeptByRecency ==
    IF Cardinality(DOMAIN table) >= MaxClients
    THEN {id \in DOMAIN table : \E other \in DOMAIN table : table[other].seen > table[id].seen}
    ELSE DOMAIN table

Kept == IF Cardinality(DOMAIN table) >= MaxClients THEN Fresh ELSE DOMAIN table

\* Second half: an unknown client starts with a full bucket.
TakeClient(c) ==
    LET id == call[c]
        tokens == IF id \in Kept THEN ClientTokens(table[id]) ELSE Burst
        left == IF tokens >= 1 THEN tokens - 1 ELSE tokens
    IN  /\ id # NoId
        /\ table' = [k \in Kept \cup {id} |->
                        IF k = id THEN [tokens |-> left, age |-> 0, seen |-> 0] ELSE table[k]]
        /\ verdict' = [verdict EXCEPT ![c] = IF tokens >= 1 THEN "allow" ELSE "deny"]
        /\ call' = [call EXCEPT ![c] = NoId]
        /\ UNCHANGED global

\* check: the client's bucket is refilled, the global one is not.
Check(id) ==
    /\ global.tokens >= 1
    /\ id \in DOMAIN table
    /\ table' = [table EXCEPT ![id] = [tokens |-> ClientTokens(@), age |-> 0, seen |-> @.seen]]
    /\ UNCHANGED <<global, call, verdict>>

EvictStale ==
    /\ table' = Restrict(table, Fresh)
    /\ UNCHANGED <<global, call, verdict>>

ResetClient(id) ==
    /\ table' = Restrict(table, DOMAIN table \ {id})
    /\ UNCHANGED <<global, call, verdict>>

LimiterNext ==
    \/ Tick
    \/ \E c \in Callers, id \in ClientIds : TakeGlobal(c, id)
    \/ \E c \in Callers : TakeClient(c)
    \/ \E id \in ClientIds : Check(id)
    \/ EvictStale
    \/ \E id \in ClientIds : ResetClient(id)

LimiterSpec == LimiterInit /\ [][LimiterNext]_limiterVars
-----------------------------------------------------------------------------
\* An entry may be gone only when its bucket would be full.
Credit == [id \in ClientIds |-> IF id \in DOMAIN table THEN ClientTokens(table[id]) ELSE Burst]

Buckets == INSTANCE TokenBuckets WITH credit <- Credit, globalCredit <- GlobalTokens

\* However requests, evictions and peeks interleave, clients are treated as if
\* each had a bucket of its own that is never forgotten (check_and_consume,
\* evict_stale): forgetting a client gives it no token it had not earned.
LimiterImplementsBuckets == Buckets!BucketSpec
-----------------------------------------------------------------------------
Entries == [tokens : Nat, age : 0 .. Horizon, seen : 0 .. Horizon]

\* Peeks move the refill and not the last request: what a bucket earned since
\* its last request is in it nevertheless, so that a stale bucket is full.
EarnedSinceSeen == \A id \in DOMAIN table : ClientTokens(table[id]) >= AtMost(Burst, Rps * table[id].seen)

\* The inductive invariant behind BucketsAreNeverForgotten of LibraryProofs.
LimiterInv ==
    /\ table \in [DOMAIN table -> Entries] /\ DOMAIN table \subseteq ClientIds
    /\ global \in [tokens : Nat, age : 0 .. Horizon]
    /\ call \in [Callers -> ClientIds \cup {NoId}]
    /\ EarnedSinceSeen
=============================================================================
