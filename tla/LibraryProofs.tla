---------------------------- MODULE LibraryProofs ----------------------------
(***************************************************************************)
(* Theorems about the parts of the runtime that stand on their own: the    *)
(* depth tracker, the asynchronous engine, the continuous batch scheduler, *)
(* the model cache and the rate limiter.  Each has an inductive invariant, *)
(* stated in its module; the rate limiter is shown to implement buckets    *)
(* that are never forgotten.                                               *)
(***************************************************************************)
EXTENDS QueueDepth, AsyncEngine, BatchScheduler, ModelCache, RateLimiter,
        FiniteSetTheorems, SequenceTheorems, WellFoundedInduction, TLAPS

\* Min of a non-empty set of numbers is its least element.
LEMMA MinIsLeast ==
  ASSUME NEW S \in SUBSET Nat, S # {}
  PROVE  Min(S) \in S /\ \A n \in S : Min(S) <= n
<1> DEFINE R == OpToRel(<, Nat)
<1>1. IsWellFoundedOn(R, Nat)
  BY NatLessThanWellFounded
<1>2. \A m, n \in Nat : n < m => <<n, m>> \in R
  BY DEF OpToRel
<1> HIDE DEF R
<1>3. PICK m \in S : \A n \in S : ~ (<<n, m>> \in R)
  BY <1>1, WFMin
<1>4. ASSUME NEW n \in S PROVE m <= n
  <2>1. ~ (n < m)
    BY <1>2, <1>3
  <2> QED  BY <2>1
<1> QED  BY <1>4 DEF Min
-----------------------------------------------------------------------------
(* The depth counter counts the holders and stays within its maximum.  What *)
(* makes it inductive is that a value once loaded was below the maximum and  *)
(* stays so: an exchange that succeeds has compared the counter with it.     *)
\* new: a maximum of zero is raised to one.
LEMMA CapacityPositive == Capacity \in Nat /\ Capacity >= 1
  BY DepthAssumption DEF Capacity

\* One more holder, one more in the count.
LEMMA HolderEnters ==
  ASSUME NEW t \in Acquirers, DepthTypeOK, slot[t] # "in",
         slot' = [slot EXCEPT ![t] = "in"]
  PROVE  Cardinality(DepthHolders') = Cardinality(DepthHolders) + 1
<1>1. DepthHolders' = DepthHolders \cup {t}
  BY DEF DepthHolders, DepthTypeOK
<1>2. IsFiniteSet(DepthHolders) /\ t \notin DepthHolders
  BY DepthAssumption, FS_Subset DEF DepthHolders
<1> QED  BY <1>1, <1>2, FS_AddElement

\* One holder fewer, one less in the count.
LEMMA HolderLeaves ==
  ASSUME NEW t \in Acquirers, DepthTypeOK, slot[t] = "in",
         slot' = [slot EXCEPT ![t] = "out"]
  PROVE  Cardinality(DepthHolders') = Cardinality(DepthHolders) - 1
<1>1. DepthHolders' = DepthHolders \ {t}
  BY DEF DepthHolders, DepthTypeOK
<1>2. IsFiniteSet(DepthHolders) /\ t \in DepthHolders
  BY DepthAssumption, FS_Subset DEF DepthHolders
<1> QED  BY <1>1, <1>2, FS_RemoveElement

\* Threads that neither enter nor leave do not change the count.
LEMMA HoldersStay ==
  ASSUME NEW t \in Acquirers, NEW s \in {"out", "loaded"}, DepthTypeOK,
         slot[t] # "in", slot' = [slot EXCEPT ![t] = s]
  PROVE  DepthHolders' = DepthHolders
  BY DEF DepthHolders, DepthTypeOK

\* Nobody holds a slot of a new tracker (QueueDepthTracker::new).
LEMMA DepthInitially == DepthInit => DepthInv
<1> SUFFICES ASSUME DepthInit PROVE DepthInv  OBVIOUS
<1>1. DepthTypeOK
  BY DEF DepthInit, DepthTypeOK
<1>2. DepthHolders = {}
  BY DEF DepthInit, DepthHolders
<1>3. DepthCountsHolders
  BY <1>2, FS_EmptySet, CapacityPositive DEF DepthCountsHolders, DepthInit
<1> QED  BY <1>1, <1>3 DEF DepthInv, DepthInit

\* Each load, exchange and release keeps the count.
LEMMA DepthInductive == DepthInv /\ [DepthNext]_depthVars => DepthInv'
<1> SUFFICES ASSUME DepthInv, [DepthNext]_depthVars PROVE DepthInv'  OBVIOUS
<1> USE CapacityPositive
<1>t. DepthTypeOK /\ DepthCountsHolders
  BY DEF DepthInv
<1>1. ASSUME NEW t \in Acquirers, LoadDepth(t) PROVE DepthInv'
  <2>1. DepthHolders' = DepthHolders
    BY <1>1, <1>t, HoldersStay DEF LoadDepth
  <2>2. DepthTypeOK'
    BY <1>1, <1>t DEF LoadDepth, DepthTypeOK
  <2>3. \A u \in Acquirers : slot'[u] = "loaded" => loaded'[u] < Capacity'
    BY <1>1 DEF LoadDepth, DepthInv, DepthTypeOK, Capacity
  <2> QED  BY <2>1, <2>2, <2>3, <1>1 DEF DepthInv, DepthCountsHolders, LoadDepth, Capacity
<1>2. ASSUME NEW t \in Acquirers, ExchangeDepth(t) PROVE DepthInv'
  <2>0. slot[t] = "loaded" /\ loaded[t] < Capacity /\ UNCHANGED loaded
    BY <1>2 DEF ExchangeDepth, DepthInv
  <2>1. CASE depth = loaded[t] /\ depth' = depth + 1 /\ slot' = [slot EXCEPT ![t] = "in"]
    <3>1. Cardinality(DepthHolders') = Cardinality(DepthHolders) + 1
      BY <2>0, <2>1, <1>t, HolderEnters
    <3>2. DepthTypeOK'
      BY <2>0, <2>1, <1>t DEF DepthTypeOK
    <3>3. DepthCountsHolders'
      BY <2>0, <2>1, <3>1, <1>t DEF DepthCountsHolders, DepthTypeOK, Capacity
    <3> QED  BY <2>0, <2>1, <3>2, <3>3 DEF DepthInv, DepthTypeOK, Capacity
  <2>2. CASE depth # loaded[t] /\ slot' = [slot EXCEPT ![t] = "out"] /\ UNCHANGED depth
    <3>1. DepthHolders' = DepthHolders
      BY <2>0, <2>2, <1>t, HoldersStay
    <3>2. DepthTypeOK'
      BY <2>0, <2>2, <1>t DEF DepthTypeOK
    <3> QED
      BY <2>0, <2>2, <3>1, <3>2 DEF DepthInv, DepthCountsHolders, DepthTypeOK, Capacity
  <2> QED  BY <1>2, <2>1, <2>2 DEF ExchangeDepth
<1>3. ASSUME NEW t \in Acquirers, ReleaseDepth(t) PROVE DepthInv'
  <2>1. Cardinality(DepthHolders') = Cardinality(DepthHolders) - 1
    BY <1>3, <1>t, HolderLeaves DEF ReleaseDepth
  <2>2. IsFiniteSet(DepthHolders) /\ t \in DepthHolders
    BY <1>3, DepthAssumption, FS_Subset DEF DepthHolders, ReleaseDepth
  <2>3. Cardinality(DepthHolders) >= 1
    <3>1. Cardinality(DepthHolders \ {t}) = Cardinality(DepthHolders) - 1
      BY <2>2, FS_RemoveElement
    <3>2. Cardinality(DepthHolders \ {t}) \in Nat /\ Cardinality(DepthHolders) \in Nat
      BY <2>2, FS_RemoveElement, FS_CardinalityType
    <3> QED  BY <3>1, <3>2
  <2>4. DepthTypeOK'
    BY <1>3, <1>t, <2>3 DEF ReleaseDepth, DepthTypeOK, DepthCountsHolders
  <2>5. DepthCountsHolders'
    BY <1>3, <1>t, <2>1 DEF ReleaseDepth, DepthCountsHolders, DepthTypeOK, Capacity
  <2> QED  BY <1>3, <2>4, <2>5 DEF DepthInv, DepthTypeOK, ReleaseDepth, Capacity
<1>4. CASE UNCHANGED depthVars
  <2>1. DepthHolders' = DepthHolders
    BY <1>4 DEF depthVars, DepthHolders
  <2> QED
    BY <1>4, <2>1 DEF depthVars, DepthInv, DepthTypeOK, DepthCountsHolders, Capacity
<1> QED  BY <1>1, <1>2, <1>3, <1>4 DEF DepthNext

\* For every number of threads, at every moment: the counter of try_acquire
\* and release is the number of slots handed out and at most the maximum.
THEOREM DepthIsExact == DepthSpec => []DepthCountsHolders
<1>1. DepthSpec => []DepthInv
  BY DepthInitially, DepthInductive, PTL DEF DepthSpec
<1>2. DepthInv => DepthCountsHolders
  BY DEF DepthInv
<1> QED  BY <1>1, <1>2, PTL
-----------------------------------------------------------------------------
(* The asynchronous engine: its two semaphores are those of FairSemaphore,  *)
(* what is proved of that one is used of both.                               *)
SlotLemmas == INSTANCE FairSemaphoreProofs WITH
    Clients <- Calls, Permits <- MaxInFlight,
    permits <- slotsFree, waiters <- slotQueue, holders <- slotHolders
LockLemmas == INSTANCE FairSemaphoreProofs WITH
    Clients <- Calls, Permits <- 1,
    permits <- lockFree, waiters <- lockQueue, holders <- lockHolders

\* What the semaphore lemmas assume of their clients and permits holds here.
LEMMA AsyncSemaphores ==
    /\ SlotLemmas!ClientsAssumption /\ SlotLemmas!PermitsAssumption
    /\ LockLemmas!ClientsAssumption /\ LockLemmas!PermitsAssumption
  BY AsyncAssumption
     DEF SlotLemmas!ClientsAssumption, SlotLemmas!PermitsAssumption, SlotLemmas!IsFiniteSet,
         LockLemmas!ClientsAssumption, LockLemmas!PermitsAssumption, LockLemmas!IsFiniteSet, IsFiniteSet

\* The queue of the permits, as the two instances of the semaphore see it.
LEMMA SlotNames ==
    /\ SlotLemmas!SemInv <=> Slots!SemInv
    /\ SlotLemmas!SemInv' <=> Slots!SemInv'
    /\ SlotLemmas!SemInit <=> Slots!SemInit
    /\ \A c \in Calls : /\ SlotLemmas!Queued(c) <=> Slots!Queued(c)
                        /\ SlotLemmas!SemRequest(c) <=> Slots!SemRequest(c)
                        /\ SlotLemmas!SemRelease(c) <=> Slots!SemRelease(c)
                        /\ SlotLemmas!SemForget(c) <=> Slots!SemForget(c)
  BY DEF SlotLemmas!SemInv, SlotLemmas!SemTypeOK, SlotLemmas!PermitsConserved,
         SlotLemmas!NoIdlePermitWhileQueued, SlotLemmas!QueuedOnce, SlotLemmas!Cardinality,
         Slots!SemInv, Slots!SemTypeOK, Slots!PermitsConserved,
         Slots!NoIdlePermitWhileQueued, Slots!QueuedOnce, Slots!Cardinality,
         SlotLemmas!SemInit, Slots!SemInit, SlotLemmas!Queued, Slots!Queued,
         SlotLemmas!SemRequest, Slots!SemRequest, SlotLemmas!SemRelease, Slots!SemRelease,
         SlotLemmas!SemForget, Slots!SemForget, SlotLemmas!RemoveAt, Slots!RemoveAt

\* The same for the mutex.
LEMMA LockNames ==
    /\ LockLemmas!SemInv <=> Lock!SemInv
    /\ LockLemmas!SemInv' <=> Lock!SemInv'
    /\ LockLemmas!SemInit <=> Lock!SemInit
    /\ \A c \in Calls : /\ LockLemmas!Queued(c) <=> Lock!Queued(c)
                        /\ LockLemmas!SemRequest(c) <=> Lock!SemRequest(c)
                        /\ LockLemmas!SemRelease(c) <=> Lock!SemRelease(c)
  BY DEF LockLemmas!SemInv, LockLemmas!SemTypeOK, LockLemmas!PermitsConserved,
         LockLemmas!NoIdlePermitWhileQueued, LockLemmas!QueuedOnce, LockLemmas!Cardinality,
         Lock!SemInv, Lock!SemTypeOK, Lock!PermitsConserved,
         Lock!NoIdlePermitWhileQueued, Lock!QueuedOnce, Lock!Cardinality,
         LockLemmas!SemInit, Lock!SemInit, LockLemmas!Queued, Lock!Queued,
         LockLemmas!SemRequest, Lock!SemRequest, LockLemmas!SemRelease, Lock!SemRelease

\* Acquire: the caller gets a permit or a place in the queue, nobody else does.
LEMMA SlotAsked ==
  ASSUME Slots!SemInv, NEW c \in Calls, c \notin slotHolders, ~ Slots!Queued(c), Slots!SemRequest(c)
  PROVE  /\ Slots!SemInv'
         /\ slotHolders \subseteq slotHolders' /\ slotHolders' \subseteq slotHolders \cup {c}
         /\ \A d \in Calls : Slots!Queued(d)' => d = c \/ Slots!Queued(d)
<1>1. /\ SlotLemmas!SemInv'
      /\ slotHolders' \in {slotHolders, slotHolders \cup {c}}
      /\ \A i \in DOMAIN slotQueue' :
            slotQueue'[i] = c \/ \E j \in DOMAIN slotQueue : slotQueue'[i] = slotQueue[j]
  BY AsyncSemaphores, SlotNames, SlotLemmas!SemRequestInv
<1>2. \A d \in Calls : Slots!Queued(d)' => d = c \/ Slots!Queued(d)
  BY <1>1 DEF Slots!Queued
<1> QED  BY <1>1, <1>2, SlotNames

\* A permit that is dropped goes to somebody who was queued, or to nobody.
LEMMA SlotReleased ==
  ASSUME Slots!SemInv, NEW c \in Calls, Slots!SemRelease(c)
  PROVE  /\ Slots!SemInv'
         /\ slotHolders \ {c} \subseteq slotHolders' /\ c \notin slotHolders'
         /\ \A d \in slotHolders' : d \in slotHolders \/ Slots!Queued(d)
         /\ \A d \in Calls : Slots!Queued(d)' => Slots!Queued(d)
<1>1. /\ SlotLemmas!SemInv'
      /\ \A d \in slotHolders' : d \in slotHolders \ {c} \/ SlotLemmas!Queued(d)
      /\ slotHolders \ {c} \subseteq slotHolders'
      /\ \A i \in DOMAIN slotQueue' : \E j \in DOMAIN slotQueue : slotQueue'[i] = slotQueue[j]
  BY AsyncSemaphores, SlotNames, SlotLemmas!SemReleaseInv
<1>2. \A d \in Calls : Slots!Queued(d)' => Slots!Queued(d)
  BY <1>1 DEF Slots!Queued
<1>3. c \in slotHolders /\ ~ Slots!Queued(c)
  BY DEF Slots!SemRelease, Slots!SemInv, Slots!QueuedOnce, Slots!Queued
<1>4. slotHolders' \subseteq Calls
  BY <1>1, SlotNames DEF Slots!SemInv, Slots!SemTypeOK
<1> QED  BY <1>1, <1>2, <1>3, <1>4, SlotNames

\* A queued caller that gives up leaves the queue.
LEMMA SlotForgotten ==
  ASSUME Slots!SemInv, NEW c \in Calls, Slots!SemForget(c)
  PROVE  /\ Slots!SemInv'
         /\ slotHolders' = slotHolders
         /\ \A d \in Calls : Slots!Queued(d)' => d # c /\ Slots!Queued(d)
<1>1. /\ SlotLemmas!SemInv'
      /\ slotHolders' = slotHolders
      /\ \A i \in DOMAIN slotQueue' :
            slotQueue'[i] # c /\ \E j \in DOMAIN slotQueue : slotQueue'[i] = slotQueue[j]
  BY AsyncSemaphores, SlotNames, SlotLemmas!SemForgetInv
<1>2. \A d \in Calls : Slots!Queued(d)' => d # c /\ Slots!Queued(d)
  BY <1>1 DEF Slots!Queued
<1> QED  BY <1>1, <1>2, SlotNames

\* A job asks for the engine.
LEMMA LockAsked ==
  ASSUME Lock!SemInv, NEW c \in Calls, c \notin lockHolders, ~ Lock!Queued(c), Lock!SemRequest(c)
  PROVE  /\ Lock!SemInv'
         /\ lockHolders \subseteq lockHolders' /\ lockHolders' \subseteq lockHolders \cup {c}
         /\ \A d \in Calls : Lock!Queued(d)' => d = c \/ Lock!Queued(d)
<1>1. /\ LockLemmas!SemInv'
      /\ lockHolders' \in {lockHolders, lockHolders \cup {c}}
      /\ \A i \in DOMAIN lockQueue' :
            lockQueue'[i] = c \/ \E j \in DOMAIN lockQueue : lockQueue'[i] = lockQueue[j]
  BY AsyncSemaphores, LockNames, LockLemmas!SemRequestInv
<1>2. \A d \in Calls : Lock!Queued(d)' => d = c \/ Lock!Queued(d)
  BY <1>1 DEF Lock!Queued
<1> QED  BY <1>1, <1>2, LockNames

\* The engine goes to the job that has waited for longest, or is free.
LEMMA LockReleased ==
  ASSUME Lock!SemInv, NEW c \in Calls, Lock!SemRelease(c)
  PROVE  /\ Lock!SemInv'
         /\ lockHolders \ {c} \subseteq lockHolders' /\ c \notin lockHolders'
         /\ \A d \in lockHolders' : d \in lockHolders \/ Lock!Queued(d)
         /\ \A d \in Calls : Lock!Queued(d)' => Lock!Queued(d) /\ d # c
<1>1. /\ LockLemmas!SemInv'
      /\ \A d \in lockHolders' : d \in lockHolders \ {c} \/ LockLemmas!Queued(d)
      /\ lockHolders \ {c} \subseteq lockHolders'
      /\ \A i \in DOMAIN lockQueue' : \E j \in DOMAIN lockQueue : lockQueue'[i] = lockQueue[j]
  BY AsyncSemaphores, LockNames, LockLemmas!SemReleaseInv
<1>2. \A d \in Calls : Lock!Queued(d)' => Lock!Queued(d)
  BY <1>1 DEF Lock!Queued
<1>3. c \in lockHolders /\ ~ Lock!Queued(c)
  BY DEF Lock!SemRelease, Lock!SemInv, Lock!QueuedOnce, Lock!Queued
<1>4. lockHolders' \subseteq Calls
  BY <1>1, LockNames DEF Lock!SemInv, Lock!SemTypeOK
<1> QED  BY <1>1, <1>2, <1>3, <1>4, LockNames
-----------------------------------------------------------------------------
\* The control of the calls, step by step: types, permits and the mutex.
LEMMA AsyncControlKept ==
  ASSUME AsyncInv, AsyncNext
  PROVE  (Slots!SemInv /\ Lock!SemInv /\ AsyncTypes /\ SlotsFollowCalls /\ LockFollowsJobs)'
<1> DEFINE Control == Slots!SemInv /\ Lock!SemInv /\ AsyncTypes /\ SlotsFollowCalls /\ LockFollowsJobs
<1>0. Control
  BY DEF AsyncInv
<1>s. /\ slotHolders \subseteq Calls /\ lockHolders \subseteq Calls
      /\ UNCHANGED slotVars => /\ Slots!SemInv' /\ UNCHANGED slotHolders
                               /\ \A d \in Calls : Slots!Queued(d)' <=> Slots!Queued(d)
      /\ UNCHANGED lockVars => /\ Lock!SemInv' /\ UNCHANGED lockHolders
                               /\ \A d \in Calls : Lock!Queued(d)' <=> Lock!Queued(d)
  BY <1>0 DEF slotVars, lockVars, Slots!SemInv, Slots!SemTypeOK, Slots!PermitsConserved,
       Slots!NoIdlePermitWhileQueued, Slots!QueuedOnce, Slots!Queued, Slots!Cardinality,
       Lock!SemInv, Lock!SemTypeOK, Lock!PermitsConserved,
       Lock!NoIdlePermitWhileQueued, Lock!QueuedOnce, Lock!Queued, Lock!Cardinality
<1> USE DEF AsyncTypes, SlotsFollowCalls, LockFollowsJobs, Working
<1>a. ASSUME NEW c \in Calls, NEW streaming \in BOOLEAN, Ask(c, streaming) PROVE Control'
  <2>1. /\ future[c] = "idle" /\ future' = [future EXCEPT ![c] = "asking"]
        /\ streams' \in {streams, streams \cup {c}}
        /\ Slots!SemRequest(c) /\ UNCHANGED <<lockVars, job, gauge>>
    BY <1>a DEF Ask
  <2>2. c \notin slotHolders /\ ~ Slots!Queued(c)
    BY <1>0, <2>1
  <2>3. Slots!SemInv' /\ slotHolders \subseteq slotHolders' /\ slotHolders' \subseteq slotHolders \cup {c}
        /\ \A d \in Calls : Slots!Queued(d)' => d = c \/ Slots!Queued(d)
    BY <1>0, <2>1, <2>2, SlotAsked
  <2> QED  BY <1>0, <1>s, <2>1, <2>3
<1>b. ASSUME NEW c \in Calls, Spawn(c) PROVE Control'
  <2>1. ~ Slots!Queued(c)
    BY <1>0, <1>b DEF Spawn, Slots!SemInv, Slots!QueuedOnce, Slots!Queued
  <2> QED  BY <1>0, <1>s, <1>b, <2>1 DEF Spawn
<1>c. ASSUME NEW c \in Calls, RequestLock(c) PROVE Control'
  <2>1. c \notin lockHolders /\ ~ Lock!Queued(c)
    BY <1>0, <1>c DEF RequestLock
  <2>2. Lock!SemInv' /\ lockHolders \subseteq lockHolders' /\ lockHolders' \subseteq lockHolders \cup {c}
        /\ \A d \in Calls : Lock!Queued(d)' => d = c \/ Lock!Queued(d)
    BY <1>0, <1>c, <2>1, LockAsked DEF RequestLock
  <2> QED  BY <1>0, <1>s, <1>c, <2>2 DEF RequestLock
<1>d. ASSUME NEW c \in Calls, Generate(c) PROVE Control'
  <2>1. ~ Lock!Queued(c)
    BY <1>0, <1>d DEF Generate, Lock!SemInv, Lock!QueuedOnce, Lock!Queued
  <2> QED  BY <1>0, <1>s, <1>d, <2>1 DEF Generate
\* What the release of a permit or of the mutex leaves of the control.
<1>1. ASSUME NEW c \in Calls, Slots!SemRelease(c)
      PROVE  /\ Slots!SemInv' /\ c \notin slotHolders' /\ slotHolders \ {c} \subseteq slotHolders'
             /\ \A d \in slotHolders' : d \in slotHolders \/ future[d] = "asking"
             /\ \A d \in Calls : Slots!Queued(d)' => Slots!Queued(d)
             /\ slotHolders' \subseteq Calls
  <2>1. slotHolders' \subseteq Calls
    BY <1>0, <1>1, SlotReleased DEF Slots!SemInv, Slots!SemTypeOK
  <2> QED  BY <1>0, <1>1, <2>1, SlotReleased
<1>2. ASSUME NEW c \in Calls, Lock!SemRelease(c)
      PROVE  /\ Lock!SemInv' /\ c \notin lockHolders' /\ lockHolders \ {c} \subseteq lockHolders'
             /\ \A d \in lockHolders' : d \in lockHolders \/ job[d] = "locking"
             /\ \A d \in Calls : Lock!Queued(d)' => Lock!Queued(d) /\ d # c
             /\ lockHolders' \subseteq Calls
  <2>1. lockHolders' \subseteq Calls
    BY <1>0, <1>2, LockReleased DEF Lock!SemInv, Lock!SemTypeOK
  <2> QED  BY <1>0, <1>2, <2>1, LockReleased
<1>e. ASSUME NEW c \in Calls, FinishJob(c) PROVE Control'
  <2>1. CASE c \notin streams
    <3>1. /\ job[c] = "generating" /\ job' = [job EXCEPT ![c] = "done"]
          /\ Lock!SemRelease(c) /\ UNCHANGED <<slotVars, future, streams, gauge>>
      BY <1>e, <2>1 DEF FinishJob
    <3>2. c \in slotHolders => future[c] # "returned"
      BY <1>0, <3>1, <2>1
    <3> QED  BY <1>0, <1>s, <1>2, <3>1, <3>2
  <2>2. CASE c \in streams
    <3>1. /\ job[c] = "generating" /\ job' = [job EXCEPT ![c] = "unlocking"]
          /\ gauge' = gauge - 1
          /\ Slots!SemRelease(c) /\ UNCHANGED <<lockVars, future, streams>>
      BY <1>e, <2>2 DEF FinishJob
    <3> QED  BY <1>0, <1>s, <1>1, <3>1, <2>2
  <2> QED  BY <2>1, <2>2
<1>f. ASSUME NEW c \in Calls, Unlock(c) PROVE Control'
  BY <1>0, <1>s, <1>2, <1>f DEF Unlock
<1>g. ASSUME NEW c \in Calls, PanicJob(c) PROVE Control'
  <2>1. /\ job[c] = "generating" /\ job' = [job EXCEPT ![c] = "panicked"]
        /\ Lock!SemRelease(c) /\ UNCHANGED <<future, streams, gauge>>
    BY <1>g DEF PanicJob
  <2>2. CASE c \in streams /\ Slots!SemRelease(c)
    BY <1>0, <1>s, <1>1, <1>2, <2>1, <2>2
  <2>3. CASE c \notin streams /\ UNCHANGED slotVars
    <3>1. c \in slotHolders => future[c] # "returned"
      BY <1>0, <2>1, <2>3
    <3> QED  BY <1>0, <1>s, <1>2, <2>1, <2>3, <3>1
  <2> QED  BY <1>g, <2>2, <2>3 DEF PanicJob
<1>h. ASSUME NEW c \in Calls, Return(c) PROVE Control'
  BY <1>0, <1>s, <1>1, <1>h DEF Return
<1>i. ASSUME NEW c \in Calls, HangUp(c) PROVE Control'
  <2>1. /\ future[c] \in {"asking", "awaiting"} /\ future' = [future EXCEPT ![c] = "dropped"]
        /\ UNCHANGED <<lockVars, streams, job, gauge>>
    BY <1>i DEF HangUp
  <2>2. CASE Slots!SemRelease(c)
    <3>1. ~ Slots!Queued(c)'
      BY <1>0, <1>1, <2>2 DEF Slots!SemRelease, Slots!SemInv, Slots!QueuedOnce, Slots!Queued
    <3> QED  BY <1>0, <1>s, <1>1, <2>1, <2>2, <3>1
  <2>3. CASE c \notin slotHolders /\ Slots!SemForget(c)
    BY <1>0, <1>s, <2>1, <2>3, SlotForgotten
  <2> QED  BY <1>i, <2>2, <2>3 DEF HangUp
<1> QED
  BY <1>a, <1>b, <1>c, <1>d, <1>e, <1>f, <1>g, <1>h, <1>i DEF AsyncNext, Proceed

\* The gauge over one step: a call leaves the counted ones, joins them or neither.
LEMMA CountedMoves ==
  ASSUME NEW c \in Calls, gauge \in Int, gauge' \in Int, GaugeCoversCounted,
         \/ Counted' \subseteq Counted /\ gauge' = gauge
         \/ Counted' \subseteq Counted \ {c} /\ c \in Counted /\ gauge' = gauge - 1
         \/ Counted' = Counted \cup {c} /\ gauge' = gauge + 1
  PROVE  GaugeCoversCounted'
<1>1. IsFiniteSet(Counted) /\ Cardinality(Counted) \in Nat
  BY AsyncAssumption, FS_Subset, FS_CardinalityType DEF Counted, Working
<1>2. CASE Counted' \subseteq Counted /\ gauge' = gauge
  BY <1>1, <1>2, FS_Subset, FS_CardinalityType DEF GaugeCoversCounted
<1>3. CASE Counted' \subseteq Counted \ {c} /\ c \in Counted /\ gauge' = gauge - 1
  <2>1. IsFiniteSet(Counted \ {c}) /\ Cardinality(Counted \ {c}) = Cardinality(Counted) - 1
    BY <1>1, <1>3, FS_RemoveElement
  <2>2. Cardinality(Counted') <= Cardinality(Counted \ {c}) /\ Cardinality(Counted') \in Nat
    BY <1>3, <2>1, FS_Subset, FS_CardinalityType
  <2> QED  BY <1>1, <1>3, <2>1, <2>2 DEF GaugeCoversCounted
<1>4. CASE Counted' = Counted \cup {c} /\ gauge' = gauge + 1
  <2>1. CASE c \in Counted
    <3>1. Counted' = Counted
      BY <1>4, <2>1
    <3> QED  BY <1>1, <1>4, <3>1 DEF GaugeCoversCounted
  <2>2. CASE c \notin Counted
    <3>1. Cardinality(Counted') = Cardinality(Counted) + 1
      BY <1>1, <1>4, <2>2, FS_AddElement
    <3> QED  BY <1>1, <1>4, <3>1 DEF GaugeCoversCounted
  <2> QED  BY <2>1, <2>2
<1> QED  BY <1>2, <1>3, <1>4

\* Jobs are counted when they are spawned and until they are uncounted.
LEMMA AsyncGaugeKept ==
  ASSUME AsyncInv, AsyncNext
  PROVE  GaugeCoversCounted'
<1> USE DEF AsyncInv, AsyncTypes, Counted, Working
<1>a. ASSUME NEW c \in Calls, NEW streaming \in BOOLEAN, Ask(c, streaming) PROVE GaugeCoversCounted'
  <2>1. Counted' \subseteq Counted /\ gauge' = gauge
    BY <1>a DEF Ask
  <2> QED  BY <2>1, CountedMoves
<1>b. ASSUME NEW c \in Calls, Spawn(c) PROVE GaugeCoversCounted'
  <2>1. Counted' = Counted \cup {c} /\ gauge' = gauge + 1
    BY <1>b DEF Spawn
  <2> QED  BY <2>1, CountedMoves
<1>c. ASSUME NEW c \in Calls, RequestLock(c) \/ Generate(c) PROVE GaugeCoversCounted'
  <2>1. Counted' \subseteq Counted /\ gauge' = gauge
    BY <1>c DEF RequestLock, Generate
  <2> QED  BY <2>1, CountedMoves
<1>d. ASSUME NEW c \in Calls, FinishJob(c) PROVE GaugeCoversCounted'
  <2>1. CASE c \notin streams
    <3>1. Counted' \subseteq Counted /\ gauge' = gauge
      BY <1>d, <2>1 DEF FinishJob
    <3> QED  BY <3>1, CountedMoves
  <2>2. CASE c \in streams
    <3>1. Counted' \subseteq Counted \ {c} /\ c \in Counted /\ gauge' = gauge - 1
      BY <1>d, <2>2 DEF FinishJob
    <3> QED  BY <3>1, CountedMoves
  <2> QED  BY <2>1, <2>2
<1>e. ASSUME NEW c \in Calls, Unlock(c) PROVE GaugeCoversCounted'
  <2>1. future[c] # "awaiting"
    BY <1>e DEF Unlock, SlotsFollowCalls, LockFollowsJobs
  <2>2. Counted' \subseteq Counted /\ gauge' = gauge
    BY <1>e, <2>1 DEF Unlock
  <2> QED  BY <2>2, CountedMoves
<1>f. ASSUME NEW c \in Calls, PanicJob(c) PROVE GaugeCoversCounted'
  <2>1. Counted' \subseteq Counted /\ gauge' = gauge
    BY <1>f DEF PanicJob
  <2> QED  BY <2>1, CountedMoves
<1>g. ASSUME NEW c \in Calls, Return(c) PROVE GaugeCoversCounted'
  <2>1. CASE job[c] = "done"
    <3>1. Counted' \subseteq Counted \ {c} /\ c \in Counted /\ gauge' = gauge - 1
      BY <1>g, <2>1 DEF Return
    <3> QED  BY <3>1, CountedMoves
  <2>2. CASE job[c] # "done"
    <3>1. Counted' \subseteq Counted /\ gauge' = gauge
      BY <1>g, <2>2 DEF Return
    <3> QED  BY <3>1, CountedMoves
  <2> QED  BY <2>1, <2>2
<1>h. ASSUME NEW c \in Calls, HangUp(c) PROVE GaugeCoversCounted'
  <2>1. Counted' \subseteq Counted /\ gauge' = gauge
    BY <1>h DEF HangUp
  <2> QED  BY <2>1, CountedMoves
<1> QED  BY <1>a, <1>b, <1>c, <1>d, <1>e, <1>f, <1>g, <1>h DEF AsyncNext, Proceed

\* No call was made yet.
LEMMA AsyncInitially == AsyncInit => AsyncInv
<1> SUFFICES ASSUME AsyncInit PROVE AsyncInv
  OBVIOUS
<1>1. Slots!SemInv /\ Lock!SemInv
  BY AsyncSemaphores, SlotNames, LockNames, SlotLemmas!SemInitInv, LockLemmas!SemInitInv DEF AsyncInit
<1>2. slotQueue = <<>> /\ slotHolders = {} /\ lockQueue = <<>> /\ lockHolders = {}
  BY DEF AsyncInit, Slots!SemInit, Lock!SemInit
<1>3. AsyncTypes /\ SlotsFollowCalls /\ LockFollowsJobs
  BY <1>2 DEF AsyncInit, AsyncTypes, SlotsFollowCalls, LockFollowsJobs, Working,
              Slots!Queued, Lock!Queued
<1>4. Counted = {} /\ gauge = 0
  BY DEF AsyncInit, Counted, Working
<1> QED  BY <1>1, <1>3, <1>4, FS_EmptySet DEF AsyncInv, GaugeCoversCounted

\* Every step of every call keeps the invariant.
LEMMA AsyncInductive == AsyncInv /\ [AsyncNext]_asyncVars => AsyncInv'
<1> SUFFICES ASSUME AsyncInv, [AsyncNext]_asyncVars PROVE AsyncInv'
  OBVIOUS
<1>1. CASE AsyncNext
  BY <1>1, AsyncControlKept, AsyncGaugeKept DEF AsyncInv
<1>2. CASE UNCHANGED asyncVars
  BY <1>2 DEF asyncVars, AsyncInv, AsyncTypes, SlotsFollowCalls, LockFollowsJobs, Working,
       Counted, GaugeCoversCounted, Slots!SemInv, Slots!SemTypeOK, Slots!PermitsConserved,
       Slots!NoIdlePermitWhileQueued, Slots!QueuedOnce, Slots!Queued, Slots!Cardinality,
       Lock!SemInv, Lock!SemTypeOK, Lock!PermitsConserved,
       Lock!NoIdlePermitWhileQueued, Lock!QueuedOnce, Lock!Queued, Lock!Cardinality
<1> QED  BY <1>1, <1>2

\* For every number of calls, hung up or not, and of panics: no job works
\* without a permit unless its caller is gone, permits are neither minted nor
\* lost, the gauge is never too low, and one job has the engine.
THEOREM AdmittedWork == AsyncSpec => []WorkIsAdmitted
<1>1. AsyncSpec => []AsyncInv
  BY AsyncInitially, AsyncInductive, PTL DEF AsyncSpec
<1>2. AsyncInv => WorkIsAdmitted
  <2> SUFFICES ASSUME AsyncInv PROVE WorkIsAdmitted
    OBVIOUS
  <2>1. \A c \in Working : c \in slotHolders \/ future[c] = "dropped"
    BY DEF AsyncInv, SlotsFollowCalls, Working
  <2>2. Cardinality(slotHolders) + slotsFree = MaxInFlight
    <3>1. slotHolders \subseteq Calls /\ slotsFree \in Nat
          /\ slotsFree + Cardinality(slotHolders) = MaxInFlight
      BY DEF AsyncInv, Slots!SemInv, Slots!SemTypeOK, Slots!PermitsConserved, Slots!Cardinality, Cardinality
    <3>2. Cardinality(slotHolders) \in Nat
      BY <3>1, AsyncAssumption, FS_Subset, FS_CardinalityType
    <3> QED  BY <3>1, <3>2
  <2>3. gauge >= Cardinality(Working)
    <3>1. IsFiniteSet(Counted) /\ Working \subseteq Counted
      BY AsyncAssumption, FS_Subset DEF Counted, Working
    <3>2. Cardinality(Working) <= Cardinality(Counted) /\ Cardinality(Working) \in Nat
          /\ Cardinality(Counted) \in Nat
      BY <3>1, FS_Subset, FS_CardinalityType
    <3> QED  BY <3>2 DEF AsyncInv, GaugeCoversCounted, AsyncTypes
  <2>4. Cardinality({c \in Calls : job[c] \in {"generating", "unlocking"}}) <= 1
    <3> DEFINE busy == {c \in Calls : job[c] \in {"generating", "unlocking"}}
    <3>1. busy \subseteq lockHolders
      BY DEF AsyncInv, LockFollowsJobs
    <3>2. lockHolders \subseteq Calls /\ lockFree \in Nat /\ lockFree + Cardinality(lockHolders) = 1
      BY DEF AsyncInv, Lock!SemInv, Lock!SemTypeOK, Lock!PermitsConserved, Lock!Cardinality, Cardinality
    <3>3. IsFiniteSet(lockHolders) /\ Cardinality(lockHolders) \in Nat
      BY <3>2, AsyncAssumption, FS_Subset, FS_CardinalityType
    <3> HIDE DEF busy
    <3>4. Cardinality(busy) <= Cardinality(lockHolders) /\ Cardinality(busy) \in Nat
      BY <3>1, <3>3, FS_Subset, FS_CardinalityType
    <3>5. Cardinality(busy) <= 1
      BY <3>2, <3>3, <3>4
    <3> QED  BY <3>5 DEF busy
  <2> QED  BY <2>1, <2>2, <2>3, <2>4 DEF WorkIsAdmitted
<1> QED  BY <1>1, <1>2, PTL
-----------------------------------------------------------------------------
(* The continuous batch scheduler.                                           *)
\* Inserting moves what stood there and behind by one place.
LEMMA InsertAtFacts ==
  ASSUME NEW S, NEW s \in Seq(S), NEW i \in 1 .. Len(s) + 1, NEW e \in S
  PROVE  /\ InsertAt(s, i, e) \in Seq(S)
         /\ Len(InsertAt(s, i, e)) = Len(s) + 1
         /\ \A j \in 1 .. Len(s) + 1 :
               InsertAt(s, i, e)[j] = IF j < i THEN s[j] ELSE IF j = i THEN e ELSE s[j - 1]
<1> DEFINE a == SubSeq(s, 1, i - 1)
           b == SubSeq(s, i, Len(s))
           c == a \o <<e>>
<1>1. Len(s) \in Nat /\ DOMAIN s = 1 .. Len(s)
  OBVIOUS
<1>2. /\ a \in Seq(S) /\ Len(a) = i - 1
      /\ \A j \in 1 .. (i - 1) : a[j] = s[j]
  BY <1>1
<1>3. /\ b \in Seq(S) /\ Len(b) = Len(s) + 1 - i
      /\ \A j \in 1 .. (Len(s) + 1 - i) : b[j] = s[i + j - 1]
  BY <1>1
<1>4. InsertAt(s, i, e) = c \o b
  BY DEF InsertAt
<1> HIDE DEF a, b
<1>5. /\ c \in Seq(S) /\ Len(c) = i
      /\ \A j \in 1 .. i : c[j] = IF j < i THEN a[j] ELSE e
  BY <1>2
<1> HIDE DEF c
<1>6. /\ c \o b \in Seq(S) /\ Len(c \o b) = Len(s) + 1
      /\ \A j \in 1 .. Len(s) + 1 : (c \o b)[j] = IF j <= i THEN c[j] ELSE b[j - i]
  <2>1. /\ c \o b \in Seq(S) /\ Len(c \o b) = Len(c) + Len(b)
        /\ \A j \in 1 .. Len(c) + Len(b) : (c \o b)[j] = IF j <= Len(c) THEN c[j] ELSE b[j - Len(c)]
    BY <1>3, <1>5, ConcatProperties
  <2> QED  BY <2>1, <1>1, <1>3, <1>5
<1>7. ASSUME NEW j \in 1 .. Len(s) + 1
      PROVE  (c \o b)[j] = IF j < i THEN s[j] ELSE IF j = i THEN e ELSE s[j - 1]
  <2>1. CASE j <= i
    BY <1>1, <1>2, <1>5, <1>6, <2>1
  <2>2. CASE ~ (j <= i)
    <3>1. j - i \in 1 .. (Len(s) + 1 - i) /\ i + (j - i) - 1 = j - 1
      BY <1>1, <2>2
    <3> QED  BY <1>3, <1>6, <2>2, <3>1
  <2> QED  BY <2>1, <2>2
<1> QED  BY <1>4, <1>6, <1>7

\* What is known of a request in a sequence of requests.
LEMMA RequestFields ==
  ASSUME NEW s \in Seq(Requests)
  PROVE  /\ Len(s) \in Nat /\ DOMAIN s = 1 .. Len(s)
         /\ \A i \in DOMAIN s : s[i] \in Requests /\ s[i].id \in Nat /\ s[i].priority \in Nat
<1>1. Len(s) \in Nat /\ DOMAIN s = 1 .. Len(s) /\ \A i \in DOMAIN s : s[i] \in Requests
  OBVIOUS
<1>2. \A r \in Requests : r.id \in Nat /\ r.priority \in Nat
  BY DEF Requests
<1> QED  BY <1>1, <1>2

\* submit_with_priority: all in front have at least the priority, all behind less.
LEMMA PlaceFacts ==
  ASSUME SchedulerInv, NEW priority \in Nat
  PROVE  /\ Place(priority) \in 1 .. Len(queue) + 1
         /\ \A i \in DOMAIN queue : i < Place(priority) <=> queue[i].priority >= priority
<1> DEFINE lower == {i \in DOMAIN queue : queue[i].priority < priority}
           S == lower \cup {Len(queue) + 1}
           p == Place(priority)
<1>1. Len(queue) \in Nat /\ DOMAIN queue = 1 .. Len(queue)
      /\ \A i \in DOMAIN queue : queue[i].priority \in Nat
  BY RequestFields DEF SchedulerInv
<1>2. S \in SUBSET Nat /\ S # {}
  BY <1>1
<1>3. p = Min(S)
  BY DEF Place
<1>4. p \in S /\ \A n \in S : p <= n
  BY <1>2, <1>3, MinIsLeast
<1> HIDE DEF p
<1>5. p \in 1 .. Len(queue) + 1
  BY <1>1, <1>4
<1>6. ASSUME NEW i \in DOMAIN queue, i < p PROVE queue[i].priority >= priority
  <2>1. i \notin lower
    BY <1>1, <1>4, <1>5, <1>6
  <2> QED  BY <1>1, <2>1
<1>7. ASSUME NEW i \in DOMAIN queue, ~ (i < p) PROVE queue[i].priority < priority
  <2>1. p \in DOMAIN queue /\ queue[p].priority < priority
    BY <1>1, <1>4, <1>5, <1>7
  <2>2. CASE i = p
    BY <2>1, <2>2
  <2>3. CASE i # p
    <3>1. p < i
      BY <1>1, <1>5, <1>7, <2>3
    <3>2. queue[p].priority >= queue[i].priority
      BY <2>1, <3>1 DEF SchedulerInv, QueueInOrder
    <3> QED  BY <1>1, <2>1, <3>2
  <2> QED  BY <2>2, <2>3
<1>8. \A i \in DOMAIN queue : i < p <=> queue[i].priority >= priority
  BY <1>1, <1>5, <1>6, <1>7
<1> QED  BY <1>5, <1>8 DEF p

\* A new request is put behind all that may precede it and in front of none
\* that must not follow it.
LEMMA SubmitKeepsOrder ==
  ASSUME SchedulerInv, NEW priority \in Priorities, NEW budget \in Budgets, Submit(priority, budget)
  PROVE  SchedulerInv'
<1> DEFINE p == Place(priority)
           r == NewRequest(priority, budget)
<1>0. /\ issued \in Nat /\ queue \in Seq(Requests) /\ promoted \in Seq(Requests)
      /\ \A i \in DOMAIN queue : queue[i].id <= issued
      /\ \A i \in DOMAIN promoted : promoted[i].id <= issued
      /\ QueueInOrder
      /\ \A i \in DOMAIN promoted, j \in DOMAIN queue : MayPrecede(promoted[i], queue[j])
      /\ NoOvertaking
  BY DEF SchedulerInv
<1>1. r \in Requests /\ r.id = issued + 1 /\ r.priority = priority /\ priority \in Nat
  BY <1>0, SchedulerAssumption DEF NewRequest, Requests
<1>2. p \in 1 .. Len(queue) + 1 /\ \A i \in DOMAIN queue : i < p <=> queue[i].priority >= priority
  BY <1>1, PlaceFacts
<1>3. issued' = issued + 1 /\ promoted' = promoted /\ queue' = InsertAt(queue, p, r)
  BY DEF Submit
<1> HIDE DEF p, r
<1>4. /\ queue' \in Seq(Requests) /\ Len(queue') = Len(queue) + 1
      /\ \A j \in 1 .. Len(queue) + 1 :
            queue'[j] = IF j < p THEN queue[j] ELSE IF j = p THEN r ELSE queue[j - 1]
  <2>1. queue \in Seq(Requests)
    BY <1>0
  <2> QED  BY <2>1, <1>1, <1>2, <1>3, InsertAtFacts
<1>5. /\ Len(queue) \in Nat /\ DOMAIN queue = 1 .. Len(queue) /\ DOMAIN queue' = 1 .. Len(queue) + 1
      /\ \A i \in DOMAIN queue : queue[i].id \in Nat /\ queue[i].priority \in Nat
      /\ \A i \in DOMAIN promoted : promoted[i].id \in Nat /\ promoted[i].priority \in Nat
  BY <1>0, <1>4, RequestFields
<1>6. \A j \in DOMAIN queue' : queue'[j].id <= issued'
  <2> SUFFICES ASSUME NEW j \in DOMAIN queue' PROVE queue'[j].id <= issued + 1
    BY <1>3
  <2>1. CASE j < p
    BY <1>0, <1>2, <1>4, <1>5, <2>1
  <2>2. CASE j = p
    BY <1>0, <1>1, <1>4, <1>5, <2>2
  <2>3. CASE j > p
    <3>1. j - 1 \in DOMAIN queue /\ queue'[j] = queue[j - 1]
      BY <1>2, <1>4, <1>5, <2>3
    <3> QED  BY <1>0, <1>5, <3>1
  <2> QED  BY <1>2, <1>5, <2>1, <2>2, <2>3
<1>7. QueueInOrder'
  <2> SUFFICES ASSUME NEW i \in DOMAIN queue', NEW j \in DOMAIN queue', i < j
               PROVE  queue'[i].priority >= queue'[j].priority /\ MayPrecede(queue'[i], queue'[j])
    BY DEF QueueInOrder, MayPrecede
  <2> USE DEF QueueInOrder, MayPrecede
  <2>1. CASE j < p
    BY <1>0, <1>2, <1>4, <1>5, <2>1
  <2>2. CASE j = p
    <3>1. i \in DOMAIN queue /\ queue'[i] = queue[i] /\ queue'[j] = r
      BY <1>2, <1>4, <1>5, <2>2
    <3> QED  BY <1>0, <1>1, <1>2, <1>5, <2>2, <3>1
  <2>3. CASE j > p
    <3>1. j - 1 \in DOMAIN queue /\ queue'[j] = queue[j - 1]
      BY <1>2, <1>4, <1>5, <2>3
    <3>2. CASE i = p
      <4>1. queue'[i] = r /\ ~ (j - 1 < p)
        BY <1>2, <1>4, <1>5, <2>3, <3>2
      <4> QED  BY <1>0, <1>1, <1>2, <1>5, <3>1, <4>1
    <3>3. CASE i < p
      <4>1. i \in DOMAIN queue /\ queue'[i] = queue[i] /\ i < j - 1
        BY <1>2, <1>4, <1>5, <2>3, <3>3
      <4> QED  BY <1>0, <3>1, <4>1
    <3>4. CASE i > p
      <4>1. i - 1 \in DOMAIN queue /\ queue'[i] = queue[i - 1] /\ i - 1 < j - 1
        BY <1>2, <1>4, <1>5, <2>3, <3>4
      <4> QED  BY <1>0, <3>1, <4>1
    <3> QED  BY <1>2, <1>5, <3>2, <3>3, <3>4
  <2> QED  BY <1>2, <1>5, <2>1, <2>2, <2>3
<1>8. \A i \in DOMAIN promoted', j \in DOMAIN queue' : MayPrecede(promoted'[i], queue'[j])
  <2> SUFFICES ASSUME NEW i \in DOMAIN promoted, NEW j \in DOMAIN queue'
               PROVE  MayPrecede(promoted[i], queue'[j])
    BY <1>3
  <2> USE DEF MayPrecede
  <2>1. CASE j < p
    <3>1. j \in DOMAIN queue /\ queue'[j] = queue[j]
      BY <1>2, <1>4, <1>5, <2>1
    <3> QED  BY <1>0, <3>1
  <2>2. CASE j = p
    BY <1>0, <1>1, <1>4, <1>5, <2>2
  <2>3. CASE j > p
    <3>1. j - 1 \in DOMAIN queue /\ queue'[j] = queue[j - 1]
      BY <1>2, <1>4, <1>5, <2>3
    <3> QED  BY <1>0, <3>1
  <2> QED  BY <1>2, <1>5, <2>1, <2>2, <2>3
<1>9. \A i \in DOMAIN promoted' : promoted'[i].id <= issued'
  BY <1>0, <1>3, <1>5
<1>10. NoOvertaking'
  BY <1>0, <1>3 DEF NoOvertaking
<1> QED  BY <1>0, <1>3, <1>4, <1>6, <1>7, <1>8, <1>9, <1>10 DEF SchedulerInv

\* As many waiting requests enter as there are places, and no more than wait.
LEMMA RoomFacts ==
  ASSUME SchedulerInv
  PROVE  Room \in 0 .. Len(queue)
<1> DEFINE R == {i \in DOMAIN queue : Len(active) + i <= AtLeastOne(MaxConcurrent)}
<1>1. Len(queue) \in Nat /\ DOMAIN queue = 1 .. Len(queue)
  BY DEF SchedulerInv
<1>2. IsFiniteSet(1 .. Len(queue)) /\ Cardinality(1 .. Len(queue)) = Len(queue)
  <2> DEFINE n == Len(queue)
  <2>1. IsFiniteSet(1 .. n) /\ Cardinality(1 .. n) = IF 1 > n THEN 0 ELSE n - 1 + 1
    BY <1>1, FS_Interval
  <2> QED  BY <1>1, <2>1
<1>3. Cardinality(R) <= Len(queue) /\ Cardinality(R) \in Nat
  BY <1>1, <1>2, FS_Subset, FS_CardinalityType
<1> QED  BY <1>1, <1>3 DEF Room

\* step: requests leave the queue from its head, in its order.
LEMMA StepKeepsOrder ==
  ASSUME SchedulerInv, Step
  PROVE  SchedulerInv'
<1> DEFINE n == Len(promoted)
<1>0. /\ issued \in Nat /\ queue \in Seq(Requests) /\ promoted \in Seq(Requests)
      /\ \A i \in DOMAIN queue : queue[i].id <= issued
      /\ \A i \in DOMAIN promoted : promoted[i].id <= issued
      /\ QueueInOrder
      /\ \A i \in DOMAIN promoted, j \in DOMAIN queue : MayPrecede(promoted[i], queue[j])
      /\ NoOvertaking
  BY DEF SchedulerInv
<1>1. /\ Room \in 0 .. Len(queue) /\ Len(queue) \in Nat /\ DOMAIN queue = 1 .. Len(queue)
      /\ n \in Nat /\ DOMAIN promoted = 1 .. n
  BY <1>0, RoomFacts
<1>2. /\ queue' = SubSeq(queue, Room + 1, Len(queue)) /\ promoted' = promoted \o Entering
      /\ issued' = issued
  BY DEF Step
<1>3. /\ queue' \in Seq(Requests) /\ Len(queue') = Len(queue) - Room
      /\ \A i \in 1 .. Len(queue) - Room : queue'[i] = queue[Room + i]
  <2> DEFINE m == Room + 1
             k == Len(queue)
  <2>1. m \in Int /\ k \in Int /\ \A i \in m .. k : queue[i] \in Requests
    BY <1>0, <1>1, RequestFields
  <2>2. queue' = SubSeq(queue, m, k)
    BY <1>2
  <2> HIDE DEF m, k
  <2>3. /\ queue' \in Seq(Requests) /\ Len(queue') = IF m <= k THEN k - m + 1 ELSE 0
        /\ \A i \in 1 .. k - m + 1 : queue'[i] = queue[m + i - 1]
    BY <2>1, <2>2, SubSeqProperties
  <2>4. Len(queue') = Len(queue) - Room
    <3>1. m \in Int /\ k \in Int /\ m - 1 <= k /\ k - m + 1 = Len(queue) - Room
      BY <1>1 DEF m, k
    <3>2. (IF m <= k THEN k - m + 1 ELSE 0) = k - m + 1
      BY <3>1
    <3> QED  BY <2>3, <3>1, <3>2
  <2>5. ASSUME NEW i \in 1 .. Len(queue) - Room PROVE queue'[i] = queue[Room + i]
    <3>1. i \in 1 .. k - m + 1 /\ m + i - 1 = Room + i
      BY <1>1 DEF m, k
    <3> QED  BY <2>3, <3>1
  <2> QED  BY <2>3, <2>4, <2>5
<1>4. /\ Entering \in Seq(Requests) /\ Len(Entering) = Room
      /\ \A i \in 1 .. Room : Entering[i].id = queue[i].id /\ Entering[i].priority = queue[i].priority
  <2>1. \A r \in Requests :
           /\ [r EXCEPT !.state = "Prefilling"] \in Requests
           /\ [r EXCEPT !.state = "Prefilling"].id = r.id
           /\ [r EXCEPT !.state = "Prefilling"].priority = r.priority
    BY DEF Requests
  <2>2. \A i \in 1 .. Room : queue[i] \in Requests
    BY <1>0, <1>1
  <2>3. Entering \in [1 .. Room -> Requests]
    BY <2>1, <2>2 DEF Entering
  <2>4. Room \in Nat
    BY <1>1
  <2>5. Entering \in Seq(Requests) /\ Len(Entering) = Room
    BY <2>3, <2>4, SeqDef
  <2> QED  BY <2>1, <2>2, <2>5 DEF Entering
<1>5. /\ promoted' \in Seq(Requests) /\ Len(promoted') = n + Room
      /\ DOMAIN promoted' = 1 .. n + Room
      /\ \A i \in 1 .. n + Room : promoted'[i] = IF i <= n THEN promoted[i] ELSE Entering[i - n]
  <2>1. /\ promoted \in Seq(Requests) /\ Entering \in Seq(Requests)
        /\ promoted' = promoted \o Entering /\ Len(Entering) = Room
    BY <1>0, <1>2, <1>4
  <2>2. /\ promoted' \in Seq(Requests) /\ Len(promoted') = Len(promoted) + Len(Entering)
        /\ \A i \in 1 .. Len(promoted) + Len(Entering) :
              promoted'[i] = IF i <= Len(promoted) THEN promoted[i] ELSE Entering[i - Len(promoted)]
    BY <2>1, ConcatProperties
  <2>3. DOMAIN promoted' = 1 .. Len(promoted')
    BY <2>2, LenProperties
  <2> QED  BY <2>1, <2>2, <2>3
<1>6. \A i \in DOMAIN queue' : Room + i \in DOMAIN queue /\ queue'[i] = queue[Room + i]
  BY <1>1, <1>3
<1>7. ASSUME NEW i \in DOMAIN promoted', i > n
      PROVE  /\ i - n \in DOMAIN queue /\ i - n <= Room
             /\ promoted'[i].id = queue[i - n].id /\ promoted'[i].priority = queue[i - n].priority
  BY <1>1, <1>4, <1>5, <1>7
<1>8. ASSUME NEW i \in DOMAIN promoted', ~ (i > n)
      PROVE  i \in DOMAIN promoted /\ promoted'[i] = promoted[i]
  BY <1>1, <1>5, <1>8
<1> HIDE DEF n
<1>a. (\A i \in DOMAIN queue' : queue'[i].id <= issued') /\ QueueInOrder'
  <2>1. ASSUME NEW i \in DOMAIN queue', NEW j \in DOMAIN queue', i < j
        PROVE  queue'[i].priority >= queue'[j].priority /\ MayPrecede(queue'[i], queue'[j])
    <3>1. Room + i < Room + j
      BY <1>1, <1>3, <2>1
    <3> QED  BY <1>0, <1>6, <3>1 DEF QueueInOrder
  <2>2. QueueInOrder'
    BY <2>1 DEF QueueInOrder, MayPrecede
  <2>3. \A i \in DOMAIN queue' : queue'[i].id <= issued'
    BY <1>0, <1>2, <1>6
  <2> QED  BY <2>2, <2>3
<1>b. \A i \in DOMAIN promoted' : promoted'[i].id <= issued'
  BY <1>0, <1>2, <1>7, <1>8
<1>c. ASSUME NEW i \in DOMAIN promoted', NEW j \in DOMAIN queue'
      PROVE  MayPrecede(promoted'[i], queue'[j])
  <2>1. CASE i > n
    <3>1. i - n < Room + j /\ Room + j \in DOMAIN queue
      BY <1>1, <1>3, <1>5, <1>6, <1>7, <2>1
    <3>2. MayPrecede(queue[i - n], queue[Room + j])
      BY <1>0, <1>7, <2>1, <3>1 DEF QueueInOrder
    <3> QED  BY <1>6, <1>7, <2>1, <3>2 DEF MayPrecede
  <2>2. CASE ~ (i > n)
    BY <1>0, <1>6, <1>8, <2>2
  <2> QED  BY <2>1, <2>2
<1>d. NoOvertaking'
  <2> SUFFICES ASSUME NEW i \in DOMAIN promoted', NEW j \in DOMAIN promoted', i < j
               PROVE  MayPrecede(promoted'[i], promoted'[j])
    BY DEF NoOvertaking, MayPrecede
  <2>1. CASE i > n
    <3>1. j > n /\ i - n < j - n
      BY <1>1, <1>5, <2>1
    <3>2. MayPrecede(queue[i - n], queue[j - n])
      BY <1>0, <1>7, <2>1, <3>1 DEF QueueInOrder
    <3> QED  BY <1>7, <2>1, <3>1, <3>2 DEF MayPrecede
  <2>2. CASE ~ (i > n) /\ j > n
    <3>1. MayPrecede(promoted[i], queue[j - n])
      BY <1>0, <1>7, <1>8, <2>2
    <3> QED  BY <1>7, <1>8, <2>2, <3>1 DEF MayPrecede
  <2>3. CASE ~ (i > n) /\ ~ (j > n)
    BY <1>0, <1>8, <2>3 DEF NoOvertaking, MayPrecede
  <2> QED  BY <2>1, <2>2, <2>3
<1> QED  BY <1>0, <1>2, <1>3, <1>5, <1>a, <1>b, <1>c, <1>d DEF SchedulerInv

\* For every queue, batch and priorities: a request is never served after one
\* that was submitted later with no higher priority (submit_with_priority, step).
THEOREM ServedInOrder == SchedulerSpec => []NoOvertaking
<1>1. SchedulerInit => SchedulerInv
  BY DEF SchedulerInit, SchedulerInv, QueueInOrder, NoOvertaking
<1>2. SchedulerInv /\ [SchedulerNext]_schedulerVars => SchedulerInv'
  <2> SUFFICES ASSUME SchedulerInv, [SchedulerNext]_schedulerVars PROVE SchedulerInv'
    OBVIOUS
  <2>1. ASSUME UNCHANGED <<queue, promoted, issued>> PROVE SchedulerInv'
    BY <2>1 DEF SchedulerInv, QueueInOrder, NoOvertaking, MayPrecede
  <2>2. CASE DrainCompleted
    BY <2>1, <2>2 DEF DrainCompleted
  <2>3. CASE UNCHANGED schedulerVars
    BY <2>1, <2>3 DEF schedulerVars
  <2> QED  BY <2>2, <2>3, SubmitKeepsOrder, StepKeepsOrder DEF SchedulerNext
<1>3. SchedulerInv => NoOvertaking
  BY DEF SchedulerInv
<1> QED  BY <1>1, <1>2, <1>3, PTL DEF SchedulerSpec
-----------------------------------------------------------------------------
(* The model cache.                                                          *)
Models == [size : Nat, idle : Nat]

\* A cache whose entries are among those of another takes no more memory.
LEMMA FewerBytes ==
  ASSUME NEW old, NEW new, IsFiniteSet(HeldBytes(old)), IsFiniteSet(DOMAIN old),
         DOMAIN new \subseteq DOMAIN old,
         \A k \in DOMAIN new : new[k].size = old[k].size
  PROVE  /\ IsFiniteSet(HeldBytes(new)) /\ IsFiniteSet(DOMAIN new)
         /\ Memory(new) <= Memory(old) /\ Memory(new) \in Nat
         /\ Cardinality(DOMAIN new) <= Cardinality(DOMAIN old)
         /\ Cardinality(DOMAIN new) \in Nat
         /\ DOMAIN new = DOMAIN old => Memory(new) = Memory(old)
         /\ DOMAIN new = {} => Memory(new) = 0
<1>1. HeldBytes(new) \subseteq HeldBytes(old)
  BY DEF HeldBytes
<1>2. DOMAIN new = DOMAIN old => HeldBytes(new) = HeldBytes(old)
  BY DEF HeldBytes
<1>3. DOMAIN new = {} => HeldBytes(new) = {}
  BY DEF HeldBytes
<1> QED  BY <1>1, <1>2, <1>3, FS_Subset, FS_CardinalityType, FS_EmptySet DEF Memory

\* Time, uses and evictions: no entry is new, and none has another size.
LEMMA NoNewModelFits ==
  ASSUME ModelInv, entries' \in [DOMAIN entries' -> Models],
         DOMAIN entries' \subseteq DOMAIN entries,
         \A k \in DOMAIN entries' : entries'[k].size = entries[k].size,
         lastKey' = lastKey \/ lastKey' \in DOMAIN entries'
  PROVE  ModelInv'
<1> USE DEF ModelInv, ModelsFit, Models
<1>1. /\ IsFiniteSet(HeldBytes(entries')) /\ IsFiniteSet(DOMAIN entries')
      /\ Memory(entries') <= Memory(entries) /\ Memory(entries') \in Nat
      /\ Cardinality(DOMAIN entries') <= Cardinality(DOMAIN entries)
      /\ Cardinality(DOMAIN entries') \in Nat
      /\ DOMAIN entries' = {} => Memory(entries') = 0
  BY FewerBytes
<1>2. Memory(entries) \in Nat /\ Cardinality(DOMAIN entries) \in Nat
  BY FS_CardinalityType DEF Memory
<1>3. MaxModels \in Nat /\ Budget \in Nat
  BY ModelCacheAssumption
<1>4. ASSUME Memory(entries') > Budget PROVE DOMAIN entries' = {lastKey'}
  <2>1. DOMAIN entries = {lastKey}
    BY <1>1, <1>2, <1>3, <1>4
  <2>2. ASSUME DOMAIN entries' = {} PROVE FALSE
    <3>1. Memory(entries') = 0
      BY <1>1, <2>2
    <3> QED  BY <1>3, <1>4, <3>1
  <2> QED  BY <2>1, <2>2
<1>5. Cardinality(DOMAIN entries') <= MaxModels
  BY <1>1, <1>2, <1>3
<1> QED  BY <1>1, <1>4, <1>5

\* evict_if_needed_locked, first loop: there is room for one more.
LEMMA RoomForOne ==
  ASSUME ModelInv, NEW key, NEW cache \in MadeRoom(Without(entries, key))
  PROVE  /\ DOMAIN cache \subseteq DOMAIN entries \ {key}
         /\ \A k \in DOMAIN cache : cache[k] = entries[k]
         /\ Cardinality(DOMAIN cache) < MaxModels
<1> DEFINE left == Without(entries, key)
<1>1. DOMAIN left = DOMAIN entries \ {key} /\ \A k \in DOMAIN left : left[k] = entries[k]
  BY DEF Without, Restrict
<1>2. IsFiniteSet(DOMAIN left) /\ Cardinality(DOMAIN left) <= MaxModels
      /\ Cardinality(DOMAIN left) \in Nat
  <2>1. Cardinality(DOMAIN entries) <= MaxModels /\ IsFiniteSet(DOMAIN entries)
    BY DEF ModelInv, ModelsFit
  <2>2. IsFiniteSet(DOMAIN left) /\ Cardinality(DOMAIN left) <= Cardinality(DOMAIN entries)
    BY <1>1, <2>1, FS_Subset
  <2>3. Cardinality(DOMAIN left) \in Nat /\ Cardinality(DOMAIN entries) \in Nat
    BY <2>1, <2>2, FS_CardinalityType
  <2> QED  BY <2>1, <2>2, <2>3, ModelCacheAssumption
<1> HIDE DEF left
<1>3. CASE Cardinality(DOMAIN left) >= MaxModels
  <2>1. PICK k \in LeastRecent(left) : cache = Without(left, k)
    BY <1>3 DEF MadeRoom, left
  <2>2. k \in DOMAIN left /\ DOMAIN cache = DOMAIN left \ {k}
        /\ \A j \in DOMAIN cache : cache[j] = left[j]
    BY <2>1 DEF LeastRecent, Without, Restrict
  <2>3. Cardinality(DOMAIN cache) = Cardinality(DOMAIN left) - 1
    BY <1>2, <2>2, FS_RemoveElement
  <2> QED  BY <1>1, <1>2, <2>2, <2>3, ModelCacheAssumption
<1>4. CASE ~ (Cardinality(DOMAIN left) >= MaxModels)
  <2>1. cache = left
    BY <1>4 DEF MadeRoom, left
  <2> QED  BY <1>1, <1>2, <1>4, <2>1, ModelCacheAssumption
<1> QED  BY <1>3, <1>4

\* A model that was loaded stands with what was kept, or alone.
LEMMA LoadedModelFits ==
  ASSUME ModelInv, NEW key \in ModelKeys, NEW size \in Sizes, key \notin FreshKeys,
         GetOrInsert(key, size)
  PROVE  ModelInv'
<1>0. /\ size \in Nat /\ MaxModels \in Nat \ {0} /\ Budget \in Nat
      /\ entries \in [DOMAIN entries -> Models]
      /\ IsFiniteSet(DOMAIN entries) /\ IsFiniteSet(HeldBytes(entries))
  BY ModelCacheAssumption DEF ModelInv, Models
<1>1. PICK cache \in MadeRoom(Without(entries, key)) :
         /\ lastKey' = key
         /\ entries' = [k \in DOMAIN UnderPressure(cache, size) \cup {key} |->
                           IF k = key THEN [size |-> size, idle |-> 0]
                           ELSE UnderPressure(cache, size)[k]]
  BY DEF GetOrInsert
<1> DEFINE kept == UnderPressure(cache, size)
           new == {key} \X (1 .. size)
<1>2. /\ DOMAIN cache \subseteq DOMAIN entries \ {key}
      /\ \A k \in DOMAIN cache : cache[k] = entries[k]
      /\ Cardinality(DOMAIN cache) < MaxModels
  BY RoomForOne
<1>3. kept = <<>> \/ (kept = cache /\ ~ (Memory(cache) + size > Budget))
  <2>1. CASE Memory(cache) + size > Budget
    BY <2>1 DEF UnderPressure
  <2>2. CASE ~ (Memory(cache) + size > Budget)
    BY <2>2 DEF UnderPressure
  <2> QED  BY <2>1, <2>2
<1>4. DOMAIN kept \subseteq DOMAIN cache /\ \A k \in DOMAIN kept : kept[k] = entries[k]
  BY <1>2, <1>3
<1> HIDE DEF kept
<1>5. /\ DOMAIN entries' = DOMAIN kept \cup {key} /\ key \notin DOMAIN kept
      /\ entries'[key].size = size
      /\ \A k \in DOMAIN kept : entries'[k] = kept[k]
      /\ entries' \in [DOMAIN entries' -> Models]
  <2>1. entries' = [k \in DOMAIN kept \cup {key} |->
                      IF k = key THEN [size |-> size, idle |-> 0] ELSE kept[k]]
    BY <1>1 DEF kept
  <2>2. [size |-> size, idle |-> 0] \in Models /\ \A k \in DOMAIN kept : kept[k] \in Models
    BY <1>0, <1>2, <1>4 DEF Models
  <2> QED  BY <1>2, <1>4, <2>1, <2>2
<1>6. /\ IsFiniteSet(HeldBytes(kept)) /\ IsFiniteSet(DOMAIN kept) /\ Memory(kept) \in Nat
      /\ Cardinality(DOMAIN kept) \in Nat
  BY <1>0, <1>2, <1>4, FewerBytes
<1>7. IsFiniteSet(new) /\ Cardinality(new) = size
  <2>1. IsFiniteSet({key}) /\ Cardinality({key}) = 1
    BY FS_Singleton
  <2>2. IsFiniteSet(1 .. size) /\ Cardinality(1 .. size) = size
    BY <1>0, FS_Interval
  <2>3. IsFiniteSet(new) /\ Cardinality(new) = Cardinality({key}) * Cardinality(1 .. size)
    BY ONLY <2>1, <2>2, FS_Product
  <2> QED  BY <1>0, <2>1, <2>2, <2>3
<1>8. HeldBytes(entries') = HeldBytes(kept) \cup new /\ HeldBytes(kept) \cap new = {}
  BY <1>5 DEF HeldBytes
<1> HIDE DEF new
<1>9. IsFiniteSet(HeldBytes(entries')) /\ Memory(entries') = Memory(kept) + size
  <2>1. IsFiniteSet(HeldBytes(kept) \cup new)
        /\ Cardinality(HeldBytes(kept) \cup new)
              = Cardinality(HeldBytes(kept)) + Cardinality(new) - Cardinality(HeldBytes(kept) \cap new)
    BY <1>6, <1>7, FS_Union
  <2>2. Cardinality(HeldBytes(kept) \cap new) = 0
    BY <1>8, FS_EmptySet
  <2>3. Memory(entries') = Cardinality(HeldBytes(kept)) + size - 0
    BY <1>7, <1>8, <2>1, <2>2 DEF Memory
  <2>4. IsFiniteSet(HeldBytes(entries'))
    BY <1>8, <2>1
  <2> QED  BY <1>0, <1>6, <2>3, <2>4 DEF Memory
<1>10. IsFiniteSet(DOMAIN entries') /\ Cardinality(DOMAIN entries') = Cardinality(DOMAIN kept) + 1
  BY <1>5, <1>6, FS_AddElement
<1>11. ModelsFit'
  <2>1. CASE kept = <<>>
    <3>1. DOMAIN kept = {}
      BY <2>1
    <3>2. DOMAIN entries' = {lastKey'} /\ Cardinality(DOMAIN entries') = 1
      BY <1>1, <1>5, <1>10, <3>1, FS_EmptySet
    <3> QED  BY <1>0, <3>2 DEF ModelsFit
  <2>2. CASE kept = cache /\ ~ (Memory(cache) + size > Budget)
    <3>1. ~ (Memory(entries') > Budget)
      BY <1>9, <2>2
    <3>2. Cardinality(DOMAIN entries') <= MaxModels
      BY <1>0, <1>2, <1>6, <1>10, <2>2
    <3> QED  BY <3>1, <3>2 DEF ModelsFit
  <2> QED  BY <1>3, <2>1, <2>2 DEF kept
<1> QED  BY <1>5, <1>9, <1>10, <1>11 DEF ModelInv, Models

\* For all sizes, limits and budgets, however time passes between the uses:
\* the table never has more models than allowed, nor more bytes, but for one
\* model that is too large by itself (evict_if_needed_locked).
THEOREM ModelsAlwaysFit == ModelSpec => []ModelsFit
<1>1. ModelInit => ModelInv
  <2> SUFFICES ASSUME ModelInit PROVE ModelInv
    OBVIOUS
  <2>1. DOMAIN entries = {}
    BY DEF ModelInit
  <2>2. HeldBytes(entries) = {}
    BY <2>1 DEF HeldBytes
  <2>3. entries \in [DOMAIN entries -> [size : Nat, idle : Nat]]
    BY <2>1 DEF ModelInit
  <2> QED  BY <2>1, <2>2, <2>3, FS_EmptySet, ModelCacheAssumption DEF ModelInv, ModelsFit, Memory
<1>2. ModelInv /\ [ModelNext]_modelVars => ModelInv'
  <2> SUFFICES ASSUME ModelInv, [ModelNext]_modelVars PROVE ModelInv'
    OBVIOUS
  <2>0. entries \in [DOMAIN entries -> Models]
    BY DEF ModelInv, Models
  <2>1. CASE PassTime
    <3>1. \A k \in DOMAIN entries : Min({IdleHorizon, entries[k].idle + 1}) \in Nat
      <4> SUFFICES ASSUME NEW k \in DOMAIN entries PROVE Min({IdleHorizon, entries[k].idle + 1}) \in Nat
        OBVIOUS
      <4>1. {IdleHorizon, entries[k].idle + 1} \in SUBSET Nat
        BY <2>0, ModelCacheAssumption DEF Models
      <4> QED  BY <4>1, MinIsLeast
    <3>2. \A m \in Models, n \in Nat : [m EXCEPT !.idle = n] \in Models
                                      /\ [m EXCEPT !.idle = n].size = m.size
      BY DEF Models
    <3>3. /\ DOMAIN entries' = DOMAIN entries /\ lastKey' = lastKey
          /\ \A k \in DOMAIN entries : entries'[k] \in Models /\ entries'[k].size = entries[k].size
          /\ entries' = [k \in DOMAIN entries |-> entries'[k]]
      BY <2>0, <2>1, <3>1, <3>2 DEF PassTime
    <3> QED  BY <3>3, NoNewModelFits
  <2>2. ASSUME NEW key \in ModelKeys, NEW size \in Sizes, GetOrInsert(key, size) PROVE ModelInv'
    <3>1. CASE key \in FreshKeys
      <4>1. entries' = [entries EXCEPT ![key].idle = 0] /\ lastKey' = key /\ key \in DOMAIN entries
        BY <2>2, <3>1 DEF GetOrInsert, FreshKeys
      <4>2. \A m \in Models : [m EXCEPT !.idle = 0] \in Models /\ [m EXCEPT !.idle = 0].size = m.size
        BY DEF Models
      <4>3. /\ DOMAIN entries' = DOMAIN entries
            /\ \A k \in DOMAIN entries : entries'[k] \in Models /\ entries'[k].size = entries[k].size
            /\ entries' = [k \in DOMAIN entries |-> entries'[k]]
        BY <2>0, <4>1, <4>2
      <4> QED  BY <4>1, <4>3, NoNewModelFits
    <3>2. CASE key \notin FreshKeys
      BY <2>2, <3>2, LoadedModelFits
    <3> QED  BY <3>1, <3>2
  <2>3. ASSUME NEW kept, entries' = Restrict(entries, kept), kept \subseteq DOMAIN entries,
               lastKey' = lastKey
        PROVE  ModelInv'
    <3>1. /\ DOMAIN entries' = kept
          /\ entries' = [k \in kept |-> entries[k]]
          /\ \A k \in kept : entries'[k] = entries[k]
      BY <2>3 DEF Restrict
    <3>2. \A k \in kept : entries[k] \in Models
      BY <2>0, <2>3
    <3>3. entries' \in [kept -> Models]
      BY <3>1, <3>2
    <3> QED  BY <2>3, <3>1, <3>3, NoNewModelFits
  <2>4. ASSUME NEW key \in ModelKeys, Evict(key) PROVE ModelInv'
    BY <2>3, <2>4 DEF Evict, Without
  <2>5. CASE EvictStaleModels
    BY <2>3, <2>5 DEF EvictStaleModels, FreshKeys
  <2>6. CASE UNCHANGED modelVars
    BY <2>0, <2>6, NoNewModelFits DEF modelVars
  <2> QED  BY <2>1, <2>2, <2>4, <2>5, <2>6 DEF ModelNext
<1>3. ModelInv => ModelsFit
  BY DEF ModelInv
<1> QED  BY <1>1, <1>2, <1>3, PTL DEF ModelSpec
-----------------------------------------------------------------------------
(* The rate limiter.                                                         *)
\* A tick later a bucket holds what it held and what a tick adds, up to its
\* capacity; where ages stop it is full.
LEMMA RefillOverATick ==
  ASSUME NEW cap \in Nat, NEW rate \in Nat, NEW tokens \in Nat, NEW age \in 0 .. Horizon,
         Horizon * rate >= cap
  PROVE  AtMost(cap, tokens + rate * Older(age)) = AtMost(cap, AtMost(cap, tokens + rate * age) + rate)
<1>1. Horizon \in Nat /\ age \in Nat
  BY LimiterAssumption
<1>2. rate * age \in Nat /\ rate * (age + 1) = rate * age + rate /\ rate * Horizon = Horizon * rate
  BY <1>1
<1>3. CASE age + 1 <= Horizon
  <2>1. Older(age) = age + 1
    BY <1>1, <1>3 DEF Older, AtMost
  <2> DEFINE m == rate * age
  <2>2. rate * Older(age) = m + rate /\ m \in Nat
    BY <1>2, <2>1
  <2> HIDE DEF m
  <2>3. AtMost(cap, tokens + (m + rate)) = AtMost(cap, AtMost(cap, tokens + m) + rate)
    BY <2>2 DEF AtMost
  <2> QED  BY <2>2, <2>3 DEF m
<1>4. CASE ~ (age + 1 <= Horizon)
  <2>1. age = Horizon /\ Older(age) = Horizon
    BY <1>1, <1>4 DEF Older, AtMost
  <2> DEFINE m == rate * age
  <2>2. rate * Older(age) = m /\ m \in Nat /\ m >= cap
    BY <1>2, <2>1
  <2> HIDE DEF m
  <2>3. AtMost(cap, tokens + m) = AtMost(cap, AtMost(cap, tokens + m) + rate)
    BY <2>2 DEF AtMost
  <2> QED  BY <2>2, <2>3 DEF m
<1> QED  BY <1>3, <1>4

\* What a bucket holds is a number up to its capacity.
LEMMA RefilledRange ==
  ASSUME NEW cap \in Nat, NEW rate \in Nat, NEW tokens \in Nat, NEW age \in Nat
  PROVE  /\ rate * age \in Nat
         /\ AtMost(cap, tokens + rate * age) \in 0 .. cap
         /\ tokens <= cap => AtMost(cap, tokens + rate * 0) = tokens
<1>1. rate * age \in Nat /\ rate * 0 = 0
  OBVIOUS
<1> DEFINE m == rate * age
<1>2. m \in Nat
  BY <1>1
<1> HIDE DEF m
<1>3. AtMost(cap, tokens + m) \in 0 .. cap
  BY <1>2 DEF AtMost
<1>4. tokens <= cap => AtMost(cap, tokens + 0) = tokens
  BY DEF AtMost
<1> QED  BY <1>1, <1>2, <1>3, <1>4 DEF m
-----------------------------------------------------------------------------
\* The numbers of the configuration.
LEMMA LimiterNumbers ==
    /\ Burst \in Nat /\ Burst >= 1 /\ Rps \in Nat /\ 2 * GlobalRps \in Nat /\ GlobalRps \in Nat
    /\ Ttl \in Nat /\ Horizon \in Nat /\ 0 \in 0 .. Horizon
    /\ Horizon * Rps >= Burst /\ Horizon * GlobalRps >= 2 * GlobalRps
<1>1. Horizon * GlobalRps >= 2 * GlobalRps
  <2>1. Horizon >= 2 /\ Horizon \in Nat /\ GlobalRps \in Nat
    BY LimiterAssumption, HorizonAssumption
  <2>2. \E d \in Nat : Horizon = 2 + d
    <3>1. Horizon - 2 \in Nat /\ Horizon = 2 + (Horizon - 2)
      BY <2>1
    <3> QED  BY <3>1
  <2>3. PICK d \in Nat : Horizon = 2 + d
    BY <2>2
  <2>4. (2 + d) * GlobalRps = 2 * GlobalRps + d * GlobalRps /\ d * GlobalRps \in Nat
    BY <2>1
  <2> QED  BY <2>1, <2>3, <2>4
<1> QED  BY <1>1, LimiterAssumption, HorizonAssumption

\* An entry and what is left of it.
LEMMA EntryFacts ==
  ASSUME NEW b \in Entries
  PROVE  /\ b.tokens \in Nat /\ b.age \in 0 .. Horizon /\ b.seen \in 0 .. Horizon
         /\ ClientTokens(b) \in 0 .. Burst
         /\ Aged(b) \in Entries
<1>1. b.tokens \in Nat /\ b.age \in 0 .. Horizon /\ b.seen \in 0 .. Horizon
      /\ b = [tokens |-> b.tokens, age |-> b.age, seen |-> b.seen]
  BY DEF Entries
<1>2. ClientTokens(b) \in 0 .. Burst
  <2>1. b.age \in Nat /\ b.tokens \in Nat /\ Burst \in Nat /\ Rps \in Nat
    BY <1>1, LimiterNumbers
  <2>2. AtMost(Burst, b.tokens + Rps * b.age) \in 0 .. Burst
    BY <2>1, RefilledRange
  <2> QED  BY <2>2 DEF ClientTokens, Refilled
<1>3. \A age \in 0 .. Horizon : Older(age) \in 0 .. Horizon
  BY LimiterNumbers DEF Older, AtMost
<1> QED  BY <1>1, <1>2, <1>3, LimiterNumbers DEF Entries, Aged

\* A client that was not seen for Ttl has a full bucket.
LEMMA StaleIsFull ==
  ASSUME LimiterInv, NEW id \in DOMAIN table, id \notin Fresh
  PROVE  ClientTokens(table[id]) = Burst
<1>1. table[id] \in Entries /\ ClientTokens(table[id]) >= AtMost(Burst, Rps * table[id].seen)
  BY DEF LimiterInv, EarnedSinceSeen
<1> DEFINE seen == table[id].seen
<1>2. seen \in Nat /\ seen >= Ttl /\ Ttl \in Nat /\ Rps \in Nat
  <2>1. seen \in 0 .. Horizon /\ ~ (seen < Ttl)
    BY <1>1, EntryFacts DEF Fresh
  <2> QED  BY <2>1, LimiterNumbers
<1> HIDE DEF seen
<1>3. Rps * seen \in Nat /\ Rps * seen >= Burst
  <2>1. PICK d \in Nat : seen = Ttl + d
    <3>1. seen - Ttl \in Nat /\ seen = Ttl + (seen - Ttl)
      BY <1>2
    <3> QED  BY <3>1
  <2>2. Rps * (Ttl + d) = Ttl * Rps + Rps * d /\ Rps * d \in Nat /\ Ttl * Rps \in Nat
    BY <1>2
  <2> QED  BY <1>2, <2>1, <2>2, IdleIsFullAssumption, LimiterNumbers
<1>4. AtMost(Burst, Rps * seen) = Burst
  BY <1>3, LimiterNumbers DEF AtMost
<1>5. ClientTokens(table[id]) \in 0 .. Burst /\ ClientTokens(table[id]) >= Burst
  BY <1>1, <1>4, EntryFacts DEF seen
<1> QED  BY <1>5, LimiterNumbers

\* What a client is credited with, and what of it is in the table.
LEMMA CreditFacts ==
  ASSUME LimiterInv
  PROVE  /\ \A id \in ClientIds : Credit[id] \in 0 .. Burst
         /\ \A id \in DOMAIN table : Credit[id] = ClientTokens(table[id])
         /\ \A id \in ClientIds \ DOMAIN table : Credit[id] = Burst
         /\ \A id \in DOMAIN table \ Fresh : Credit[id] = Burst
         /\ GlobalTokens \in 0 .. 2 * GlobalRps
<1>1. \A id \in DOMAIN table : id \in ClientIds /\ table[id] \in Entries
  BY DEF LimiterInv
<1>2. \A id \in DOMAIN table : Credit[id] = ClientTokens(table[id])
  BY <1>1 DEF Credit
<1>3. \A id \in ClientIds \ DOMAIN table : Credit[id] = Burst
  BY DEF Credit
<1>4. \A id \in ClientIds : Credit[id] \in 0 .. Burst
  <2> SUFFICES ASSUME NEW id \in ClientIds PROVE Credit[id] \in 0 .. Burst
    OBVIOUS
  <2>1. CASE id \in DOMAIN table
    <3>1. table[id] \in Entries
      BY <1>1, <2>1
    <3> QED  BY <1>2, <2>1, <3>1, EntryFacts
  <2>2. CASE id \notin DOMAIN table
    BY <1>3, <2>2, LimiterNumbers
  <2> QED  BY <2>1, <2>2
<1>5. GlobalTokens \in 0 .. 2 * GlobalRps
  <2>1. global.tokens \in Nat /\ global.age \in Nat
    BY LimiterNumbers DEF LimiterInv
  <2> QED  BY <2>1, LimiterNumbers, RefilledRange DEF GlobalTokens, Refilled
<1> QED  BY <1>1, <1>2, <1>3, <1>4, <1>5, StaleIsFull

\* A client that was looked at has in its entry what it was credited with.
LEMMA FreshEntry ==
  ASSUME NEW n \in 0 .. Burst, NEW seen \in 0 .. Horizon
  PROVE  /\ [tokens |-> n, age |-> 0, seen |-> seen] \in Entries
         /\ ClientTokens([tokens |-> n, age |-> 0, seen |-> seen]) = n
<1>1. n \in Nat /\ n <= Burst
  BY LimiterNumbers
<1>2. AtMost(Burst, n + Rps * 0) = n
  BY <1>1, LimiterNumbers, RefilledRange
<1> QED  BY <1>1, <1>2, LimiterNumbers DEF Entries, ClientTokens, Refilled

\* Evictions: nothing is credited or charged.
LEMMA EvictionsKeepCredit ==
  ASSUME LimiterInv, NEW kept, Fresh \subseteq kept, kept \subseteq DOMAIN table,
         table' = Restrict(table, kept), UNCHANGED <<global, call, verdict>>
  PROVE  LimiterInv' /\ UNCHANGED <<Credit, GlobalTokens>>
<1>1. DOMAIN table' = kept /\ \A id \in kept : table'[id] = table[id]
  BY DEF Restrict
<1>2. table' \in [DOMAIN table' -> Entries] /\ DOMAIN table' \subseteq ClientIds
  BY <1>1 DEF LimiterInv, Restrict
<1>3. EarnedSinceSeen'
  BY <1>1 DEF LimiterInv, EarnedSinceSeen, ClientTokens, Refilled, AtMost
<1>4. \A id \in ClientIds : Credit'[id] = Credit[id]
  <2> SUFFICES ASSUME NEW id \in ClientIds PROVE Credit'[id] = Credit[id]
    OBVIOUS
  <2>1. Credit'[id] = IF id \in kept THEN ClientTokens(table[id]) ELSE Burst
    BY <1>1 DEF Credit, ClientTokens, Refilled, AtMost
  <2> QED  BY <2>1, CreditFacts
<1>5. Credit' = Credit
  BY <1>4 DEF Credit
<1>6. GlobalTokens' = GlobalTokens
  BY DEF GlobalTokens, Refilled, AtMost
<1> QED  BY <1>2, <1>3, <1>5, <1>6 DEF LimiterInv
-----------------------------------------------------------------------------
\* Time: every bucket gains what a tick adds, whatever of it is in the table.
LEMMA TickRefines ==
  ASSUME LimiterInv, Tick
  PROVE  LimiterInv' /\ Buckets!TimePasses
<1>1. \A id \in DOMAIN table : id \in ClientIds /\ table[id] \in Entries
  BY DEF LimiterInv
<1>2. /\ DOMAIN table' = DOMAIN table /\ \A id \in DOMAIN table : table'[id] = Aged(table[id])
      /\ table' = [id \in DOMAIN table |-> Aged(table[id])]
      /\ UNCHANGED <<call, verdict>> /\ global' = [global EXCEPT !.age = Older(@)]
  BY DEF Tick
<1>3. table' \in [DOMAIN table' -> Entries] /\ DOMAIN table' \subseteq ClientIds
  <2>1. \A id \in DOMAIN table : Aged(table[id]) \in Entries
    BY <1>1, EntryFacts
  <2> QED  BY <1>1, <1>2, <2>1
<1>4. ASSUME NEW id \in DOMAIN table
      PROVE  ClientTokens(Aged(table[id])) = AtMost(Burst, ClientTokens(table[id]) + Rps)
  <2> DEFINE b == table[id]
  <2>1. b.tokens \in Nat /\ b.age \in 0 .. Horizon
    BY <1>1, EntryFacts
  <2> HIDE DEF b
  <2>2. Burst \in Nat /\ Rps \in Nat /\ Horizon * Rps >= Burst
    BY LimiterNumbers
  <2>3. AtMost(Burst, b.tokens + Rps * Older(b.age)) = AtMost(Burst, AtMost(Burst, b.tokens + Rps * b.age) + Rps)
    BY <2>1, <2>2, RefillOverATick
  <2> QED  BY <2>3 DEF ClientTokens, Refilled, Aged, b
<1>5. Credit' = [id \in ClientIds |-> AtMost(Burst, Credit[id] + Rps)]
  <2>1. ASSUME NEW id \in ClientIds PROVE Credit'[id] = AtMost(Burst, Credit[id] + Rps)
    <3>1. CASE id \in DOMAIN table
      <4>1. Credit'[id] = ClientTokens(Aged(table[id]))
        BY <1>2, <3>1 DEF Credit, ClientTokens, Refilled, AtMost
      <4> QED  BY <1>4, <3>1, <4>1, CreditFacts
    <3>2. CASE id \notin DOMAIN table
      <4>1. Credit'[id] = Burst /\ Credit[id] = Burst
        BY <1>2, <3>2 DEF Credit
      <4>2. AtMost(Burst, Burst + Rps) = Burst
        BY LimiterNumbers DEF AtMost
      <4> QED  BY <4>1, <4>2
    <3> QED  BY <3>1, <3>2
  <2> QED  BY <2>1 DEF Credit
<1>6. GlobalTokens' = AtMost(2 * GlobalRps, GlobalTokens + GlobalRps) /\ global' \in [tokens : Nat, age : 0 .. Horizon]
  <2> DEFINE cap == 2 * GlobalRps
  <2>1. global.tokens \in Nat /\ global.age \in 0 .. Horizon /\ global'.tokens = global.tokens
        /\ global'.age = Older(global.age) /\ global \in [tokens : Nat, age : 0 .. Horizon]
    BY <1>2 DEF LimiterInv
  <2>2. Older(global.age) \in 0 .. Horizon
    BY <2>1, LimiterNumbers DEF Older, AtMost
  <2>3. cap \in Nat /\ GlobalRps \in Nat /\ Horizon * GlobalRps >= cap
    BY LimiterNumbers
  <2>4. AtMost(cap, global.tokens + GlobalRps * Older(global.age))
           = AtMost(cap, AtMost(cap, global.tokens + GlobalRps * global.age) + GlobalRps)
    BY <2>1, <2>3, RefillOverATick
  <2>5. GlobalTokens' = AtMost(cap, global.tokens + GlobalRps * Older(global.age))
    BY <2>1 DEF GlobalTokens, Refilled, AtMost
  <2>6. global' \in [tokens : Nat, age : 0 .. Horizon]
    BY <1>2, <2>1, <2>2
  <2> QED  BY <2>4, <2>5, <2>6 DEF GlobalTokens, Refilled
<1>7. EarnedSinceSeen'
  <2> SUFFICES ASSUME NEW id \in DOMAIN table
               PROVE  ClientTokens(Aged(table[id])) >= AtMost(Burst, Rps * Older(table[id].seen))
    BY <1>2 DEF EarnedSinceSeen, ClientTokens, Refilled, AtMost, Aged
  <2> DEFINE seen == table[id].seen
             held == ClientTokens(table[id])
  <2>1. seen \in 0 .. Horizon /\ held \in 0 .. Burst /\ held >= AtMost(Burst, Rps * seen)
    BY <1>1, EntryFacts DEF LimiterInv, EarnedSinceSeen
  <2>2. AtMost(Burst, 0 + Rps * Older(seen)) = AtMost(Burst, AtMost(Burst, 0 + Rps * seen) + Rps)
    BY <2>1, LimiterNumbers, RefillOverATick
  <2>3. seen \in Nat
    BY <2>1, LimiterNumbers
  <2>4. Older(seen) \in Nat
    BY <2>1, LimiterNumbers DEF Older, AtMost
  <2>5. Rps * seen \in Nat /\ Rps * Older(seen) \in Nat
    BY <2>3, <2>4, LimiterNumbers
  <2>6. ClientTokens(Aged(table[id])) = AtMost(Burst, held + Rps)
    BY <1>4
  <2> HIDE DEF seen, held
  <2> DEFINE m == Rps * seen
             k == Rps * Older(seen)
  <2>7. AtMost(Burst, k) = AtMost(Burst, AtMost(Burst, m) + Rps) /\ m \in Nat /\ k \in Nat
    BY <2>2, <2>5
  <2>8. held \in 0 .. Burst /\ held >= AtMost(Burst, m)
    BY <2>1
  <2> HIDE DEF m, k
  <2>9. AtMost(Burst, held + Rps) >= AtMost(Burst, AtMost(Burst, m) + Rps)
    BY <2>7, <2>8, LimiterNumbers DEF AtMost
  <2> QED  BY <2>6, <2>7, <2>9 DEF seen, k
<1>8. call' \in [Callers -> ClientIds \cup {NoId}]
  BY <1>2 DEF LimiterInv
<1>9. Buckets!TimePasses
  BY <1>2, <1>5, <1>6 DEF Buckets!TimePasses, Buckets!AtMost, AtMost
<1> QED  BY <1>3, <1>6, <1>7, <1>8, <1>9 DEF LimiterInv

\* check_and_consume, first half: a token of the global bucket, or none.
LEMMA TakeGlobalRefines ==
  ASSUME LimiterInv, NEW c \in Callers, NEW id \in ClientIds, TakeGlobal(c, id)
  PROVE  LimiterInv' /\ Buckets!Admit(c, id)
<1>1. GlobalTokens \in 0 .. 2 * GlobalRps
  BY CreditFacts
<1>2. ASSUME NEW n \in 0 .. 2 * GlobalRps, global' = [tokens |-> n, age |-> 0]
      PROVE  GlobalTokens' = n /\ global' \in [tokens : Nat, age : 0 .. Horizon]
  <2> DEFINE cap == 2 * GlobalRps
  <2>1. cap \in Nat /\ n \in Nat /\ n <= cap
    BY LimiterNumbers
  <2>2. AtMost(cap, n + GlobalRps * 0) = n
    BY <2>1, LimiterNumbers, RefilledRange
  <2>3. global'.tokens = n /\ global'.age = 0
    BY <1>2
  <2>4. GlobalTokens' = AtMost(cap, n + GlobalRps * 0)
    BY <2>3 DEF GlobalTokens, Refilled, AtMost
  <2> QED  BY <1>2, <2>1, <2>2, <2>4, LimiterNumbers
<1>3. Credit' = Credit /\ EarnedSinceSeen' /\ table' = table
  BY DEF TakeGlobal, Credit, LimiterInv, EarnedSinceSeen, ClientTokens, Refilled, AtMost
<1>4. CASE /\ GlobalTokens >= 1 /\ global' = [tokens |-> GlobalTokens - 1, age |-> 0]
           /\ call' = [call EXCEPT ![c] = id] /\ verdict' = verdict
  <2>1. GlobalTokens - 1 \in 0 .. 2 * GlobalRps
    BY <1>1, <1>4, LimiterNumbers
  <2>2. GlobalTokens' = GlobalTokens - 1 /\ global' \in [tokens : Nat, age : 0 .. Horizon]
    BY <1>2, <1>4, <2>1
  <2>3. LimiterInv'
    BY <1>3, <1>4, <2>2 DEF LimiterInv
  <2> QED  BY <1>3, <1>4, <2>2, <2>3 DEF Buckets!Admit, TakeGlobal
<1>5. CASE /\ GlobalTokens < 1 /\ global' = [tokens |-> GlobalTokens, age |-> 0]
           /\ verdict' = [verdict EXCEPT ![c] = "saturated"] /\ call' = call
  <2>1. GlobalTokens' = GlobalTokens /\ global' \in [tokens : Nat, age : 0 .. Horizon]
    BY <1>1, <1>2, <1>5
  <2>2. LimiterInv'
    BY <1>3, <1>5, <2>1 DEF LimiterInv
  <2> QED  BY <1>3, <1>5, <2>1, <2>2 DEF Buckets!Admit, TakeGlobal
<1> QED  BY <1>4, <1>5 DEF TakeGlobal

\* Second half: the client is charged what its own bucket would be, even when
\* its entry, or that of others, was dropped as stale.
LEMMA TakeClientRefines ==
  ASSUME LimiterInv, NEW c \in Callers, TakeClient(c)
  PROVE  LimiterInv' /\ Buckets!Answer(c)
<1> DEFINE id == call[c]
           n == Credit[id]
           left == IF n >= 1 THEN n - 1 ELSE n
           entry == [tokens |-> left, age |-> 0, seen |-> 0]
<1>1. id \in ClientIds /\ id # NoId
  BY DEF TakeClient, LimiterInv
<1>2. Fresh \subseteq Kept /\ Kept \subseteq DOMAIN table
  BY DEF Kept, Fresh
<1>3. n = IF id \in Kept THEN ClientTokens(table[id]) ELSE Burst
  BY <1>1, <1>2, CreditFacts
<1>4. /\ table' = [k \in Kept \cup {id} |-> IF k = id THEN entry ELSE table[k]]
      /\ verdict' = [verdict EXCEPT ![c] = IF n >= 1 THEN "allow" ELSE "deny"]
      /\ call' = [call EXCEPT ![c] = NoId] /\ global' = global
  BY <1>3 DEF TakeClient
<1>5. n \in 0 .. Burst /\ left \in 0 .. Burst /\ 0 \in 0 .. Horizon
  <2>1. n \in 0 .. Burst
    BY <1>1, CreditFacts
  <2> QED  BY <2>1, LimiterNumbers
<1>6. entry \in Entries /\ ClientTokens(entry) = left /\ entry.seen = 0
  BY <1>5, FreshEntry
<1> HIDE DEF id, n, left, entry
<1>7. /\ DOMAIN table' = Kept \cup {id}
      /\ table'[id] = entry /\ \A k \in Kept \ {id} : table'[k] = table[k]
  BY <1>4
<1>8. table' \in [DOMAIN table' -> Entries] /\ DOMAIN table' \subseteq ClientIds
  <2>1. \A k \in Kept : table[k] \in Entries /\ k \in ClientIds
    BY <1>2 DEF LimiterInv
  <2> QED  BY <1>1, <1>4, <1>6, <2>1
<1>9. Credit' = [Credit EXCEPT ![id] = left]
  <2>1. ASSUME NEW k \in ClientIds PROVE Credit'[k] = IF k = id THEN left ELSE Credit[k]
    <3>1. Credit'[k] = IF k \in Kept \cup {id} THEN ClientTokens(table'[k]) ELSE Burst
      BY <1>7 DEF Credit, ClientTokens, Refilled, AtMost
    <3>2. k \notin Kept => Credit[k] = Burst
      BY <1>2, CreditFacts
    <3> QED  BY <1>2, <1>6, <1>7, <3>1, <3>2, CreditFacts
  <2> QED  BY <2>1 DEF Credit
<1>10. EarnedSinceSeen'
  <2> SUFFICES ASSUME NEW k \in Kept \cup {id}
               PROVE  ClientTokens(table'[k]) >= AtMost(Burst, Rps * table'[k].seen)
    BY <1>7 DEF EarnedSinceSeen, ClientTokens, Refilled, AtMost
  <2>1. CASE k = id
    <3>1. Rps * 0 = 0 /\ AtMost(Burst, 0) = 0
      BY LimiterNumbers DEF AtMost
    <3> QED  BY <1>5, <1>6, <1>7, <2>1, <3>1
  <2>2. CASE k # id
    BY <1>2, <1>7, <2>2 DEF LimiterInv, EarnedSinceSeen
  <2> QED  BY <2>1, <2>2
<1>11. GlobalTokens' = GlobalTokens
  BY <1>4 DEF GlobalTokens, Refilled, AtMost
<1>12. call' \in [Callers -> ClientIds \cup {NoId}]
  BY <1>4 DEF LimiterInv
<1>13. Buckets!Answer(c)
  <2>1. CASE n >= 1
    <3>1. Credit' = [Credit EXCEPT ![call[c]] = @ - 1] /\ Credit[call[c]] >= 1
      BY <1>9, <2>1 DEF id, n, left
    <3> QED  BY <1>1, <1>4, <1>11, <2>1, <3>1 DEF Buckets!Answer, id
  <2>2. CASE ~ (n >= 1)
    <3>1. Credit' = Credit /\ Credit[call[c]] < 1
      BY <1>5, <1>9, <2>2 DEF id, n, left, Credit
    <3> QED  BY <1>1, <1>4, <1>11, <2>2, <3>1 DEF Buckets!Answer, id
  <2> QED  BY <2>1, <2>2
<1> QED  BY <1>4, <1>8, <1>10, <1>12, <1>13 DEF LimiterInv

\* check: a peek moves the refill into the entry and credits nothing.
LEMMA CheckRefines ==
  ASSUME LimiterInv, NEW id \in ClientIds, Check(id)
  PROVE  LimiterInv' /\ UNCHANGED <<Credit, GlobalTokens, call, verdict>>
<1> DEFINE b == table[id]
           n == ClientTokens(b)
           entry == [tokens |-> n, age |-> 0, seen |-> b.seen]
<1>1. id \in DOMAIN table /\ b \in Entries /\ n \in 0 .. Burst /\ b.seen \in 0 .. Horizon
  BY EntryFacts DEF Check, LimiterInv
<1>2. entry \in Entries /\ ClientTokens(entry) = n /\ entry.seen = b.seen
  BY <1>1, FreshEntry
<1>3. table' = [table EXCEPT ![id] = entry] /\ UNCHANGED <<global, call, verdict>>
  BY <1>1 DEF Check, LimiterInv, Entries
<1> HIDE DEF entry
<1>4. /\ DOMAIN table' = DOMAIN table /\ table'[id] = entry
      /\ \A k \in DOMAIN table : k # id => table'[k] = table[k]
      /\ table' \in [DOMAIN table' -> Entries]
  BY <1>1, <1>2, <1>3 DEF LimiterInv
<1>5. \A k \in DOMAIN table : ClientTokens(table'[k]) = ClientTokens(table[k]) /\ table'[k].seen = table[k].seen
  BY <1>2, <1>4
<1>6. Credit' = Credit /\ EarnedSinceSeen'
  BY <1>4, <1>5 DEF Credit, LimiterInv, EarnedSinceSeen, ClientTokens, Refilled, AtMost
<1>7. GlobalTokens' = GlobalTokens
  BY <1>3 DEF GlobalTokens, Refilled, AtMost
<1> QED  BY <1>3, <1>4, <1>6, <1>7 DEF LimiterInv

\* reset_client: the only way to a full bucket that is not time.
LEMMA ResetRefines ==
  ASSUME LimiterInv, NEW id \in ClientIds, ResetClient(id)
  PROVE  LimiterInv' /\ Buckets!Forgive(id)
<1>1. /\ DOMAIN table' = DOMAIN table \ {id} /\ \A k \in DOMAIN table' : table'[k] = table[k]
      /\ table' = [k \in DOMAIN table \ {id} |-> table[k]] /\ UNCHANGED <<global, call, verdict>>
  BY DEF ResetClient, Restrict
<1>2. Credit' = [Credit EXCEPT ![id] = Burst]
  <2>1. ASSUME NEW k \in ClientIds PROVE Credit'[k] = IF k = id THEN Burst ELSE Credit[k]
    BY <1>1 DEF Credit, ClientTokens, Refilled, AtMost
  <2> QED  BY <2>1 DEF Credit
<1>3. EarnedSinceSeen'
  BY <1>1 DEF LimiterInv, EarnedSinceSeen, ClientTokens, Refilled, AtMost
<1>4. GlobalTokens' = GlobalTokens
  BY <1>1 DEF GlobalTokens, Refilled, AtMost
<1>5. table' \in [DOMAIN table' -> Entries] /\ DOMAIN table' \subseteq ClientIds
  BY <1>1 DEF LimiterInv
<1> QED  BY <1>1, <1>2, <1>3, <1>4, <1>5 DEF LimiterInv, Buckets!Forgive

\* For all numbers of clients, rates and capacities: forgetting a client gives
\* it no token it had not earned (evict_stale, check_and_consume).  The table
\* of buckets is a bucket for everybody.
THEOREM BucketsAreNeverForgotten == LimiterSpec => LimiterImplementsBuckets
<1>1. LimiterInit => LimiterInv /\ Buckets!BucketInit
  <2> SUFFICES ASSUME LimiterInit PROVE LimiterInv /\ Buckets!BucketInit
    OBVIOUS
  <2>1. DOMAIN table = {} /\ table \in [DOMAIN table -> Entries]
    BY DEF LimiterInit
  <2>2. EarnedSinceSeen
    BY <2>1 DEF EarnedSinceSeen
  <2>3. global \in [tokens : Nat, age : 0 .. Horizon] /\ global.tokens = 2 * GlobalRps /\ global.age = 0
    BY LimiterNumbers DEF LimiterInit
  <2>4. Credit = [id \in ClientIds |-> Burst]
    BY <2>1 DEF Credit
  <2>5. GlobalTokens = 2 * GlobalRps
    <3> DEFINE cap == 2 * GlobalRps
    <3>1. AtMost(cap, cap + GlobalRps * 0) = cap
      BY LimiterNumbers, RefilledRange
    <3> QED  BY <2>3, <3>1 DEF GlobalTokens, Refilled
  <2> QED  BY <2>1, <2>2, <2>3, <2>4, <2>5 DEF LimiterInit, LimiterInv, Buckets!BucketInit
<1>2. LimiterInv /\ [LimiterNext]_limiterVars => LimiterInv' /\ [Buckets!BucketNext]_(Buckets!bucketVars)
  <2> SUFFICES ASSUME LimiterInv, [LimiterNext]_limiterVars
               PROVE  LimiterInv' /\ [Buckets!BucketNext]_(Buckets!bucketVars)
    OBVIOUS
  <2> USE DEF Buckets!BucketNext
  <2>1. CASE Tick
    BY <2>1, TickRefines
  <2>2. ASSUME NEW c \in Callers, NEW id \in ClientIds, TakeGlobal(c, id)
        PROVE  LimiterInv' /\ [Buckets!BucketNext]_(Buckets!bucketVars)
    BY <2>2, TakeGlobalRefines
  <2>3. ASSUME NEW c \in Callers, TakeClient(c)
        PROVE  LimiterInv' /\ [Buckets!BucketNext]_(Buckets!bucketVars)
    BY <2>3, TakeClientRefines
  <2>4. ASSUME NEW id \in ClientIds, Check(id)
        PROVE  LimiterInv' /\ [Buckets!BucketNext]_(Buckets!bucketVars)
    BY <2>4, CheckRefines DEF Buckets!bucketVars
  <2>5. CASE EvictStale
    BY <2>5, EvictionsKeepCredit DEF EvictStale, Buckets!bucketVars, Fresh
  <2>6. ASSUME NEW id \in ClientIds, ResetClient(id)
        PROVE  LimiterInv' /\ [Buckets!BucketNext]_(Buckets!bucketVars)
    BY <2>6, ResetRefines
  <2>7. CASE UNCHANGED limiterVars
    BY <2>7 DEF limiterVars, LimiterInv, EarnedSinceSeen, ClientTokens, Refilled, AtMost,
                Credit, GlobalTokens, Buckets!bucketVars
  <2> QED  BY <2>1, <2>2, <2>3, <2>4, <2>5, <2>6, <2>7 DEF LimiterNext
<1> QED  BY <1>1, <1>2, PTL DEF LimiterSpec, LimiterImplementsBuckets, Buckets!BucketSpec
=============================================================================
