--------------------------- MODULE ChatServerProofs ---------------------------
(***************************************************************************)
(* Proofs about the engine pool, for every number of engines and of        *)
(* clients, and about the request handlers, for every number of requests   *)
(* of every kind.  IInv is inductive: its semaphore part comes from        *)
(* FairSemaphoreProofs, so each action of the pool only owes the pool's    *)
(* own conjuncts.  The handlers do not prove it again: a step of a handler *)
(* is a step of the pool or leaves it alone.                               *)
(***************************************************************************)
EXTENDS ChatServer, FairSemaphoreProofs

\* IInv holds of a fresh pool.
LEMMA InitIInv == Init => IInv
<1> SUFFICES ASSUME Init PROVE IInv
  OBVIOUS
<1>1. SemInv
  BY SemInitInv DEF Init
<1>2. /\ idle \in Seq(Engines)
      /\ Len(idle) = NumEngines
      /\ \A i \in DOMAIN idle : idle[i] = i
  BY EnginesAssumption DEF Init, Engines
<1>3. Leased = {}
  BY DEF Init, Leased
<1>4. Cardinality(Leased) = 0
  BY <1>3, FS_EmptySet
<1>5. TypeOK
  BY <1>1, <1>2 DEF Init, TypeOK, SemInv, Phases
<1>6. PhaseMatchesPermit
  BY DEF Init, SemInit, PhaseMatchesPermit
<1>7. EachEngineInOnePlace
  BY <1>2, <1>3, <1>4, EnginesAssumption DEF EachEngineInOnePlace
<1> QED BY <1>1, <1>5, <1>6, <1>7 DEF IInv

\* A step that keeps every lease keeps the engines where they are.
LEMMA LeasesUntouched ==
  ASSUME EachEngineInOnePlace, Leased' = Leased, UNCHANGED <<idle, lease>>
  PROVE  EachEngineInOnePlace'
  BY DEF EachEngineInOnePlace

LEMMA AcquireIInv ==
  ASSUME IInv, NEW c \in Clients, Acquire(c)
  PROVE  IInv'
<1> USE DEF IInv, Acquire
<1>1. c \notin holders /\ ~ Queued(c)
  BY DEF PhaseMatchesPermit, Queued
<1>2. /\ SemInv'
      /\ holders' \in {holders, holders \cup {c}}
      /\ \A i \in DOMAIN waiters' :
            waiters'[i] = c \/ \E j \in DOMAIN waiters : waiters'[i] = waiters[j]
  BY <1>1, SemRequestInv
<1>3. TypeOK'
  BY <1>2 DEF TypeOK, SemInv, Phases
<1>4. PhaseMatchesPermit'
  BY <1>2 DEF PhaseMatchesPermit, TypeOK
<1>5. EachEngineInOnePlace'
  <2>1. Leased' = Leased
    BY DEF Leased, TypeOK
  <2> QED BY <2>1, LeasesUntouched
<1> QED BY <1>2, <1>3, <1>4, <1>5

LEMMA PopIInv ==
  ASSUME IInv, NEW c \in Clients, Pop(c)
  PROVE  IInv'
<1> USE DEF IInv, Pop
<1> DEFINE e == Last(idle)
           n == Len(idle)
<1>1. /\ idle \in Seq(Engines) /\ n \in Nat \ {0}
      /\ e = idle[n] /\ e \in Engines /\ e # NoEngine
      /\ DOMAIN idle = 1 .. n
  BY EnginesAssumption DEF TypeOK, Last, Engines, NoEngine
<1>2. /\ idle' \in Seq(Engines) /\ Len(idle') = n - 1
      /\ DOMAIN idle' = 1 .. (n - 1)
      /\ \A i \in 1 .. (n - 1) : idle'[i] = idle[i]
  BY <1>1 DEF Front
<1>3. SemInv'
  BY DEF SemInv, SemTypeOK, PermitsConserved, NoIdlePermitWhileQueued,
         QueuedOnce, semVars
<1>4. TypeOK'
  BY <1>1, <1>2, <1>3 DEF TypeOK, SemInv, Phases
<1>5. PhaseMatchesPermit'
  <2>1. /\ phase' = [phase EXCEPT ![c] = "leased"]
        /\ lease' = [lease EXCEPT ![c] = e]
        /\ holders' = holders /\ waiters' = waiters
    BY DEF semVars
  <2>2. \A i \in DOMAIN waiters : waiters[i] # c
    BY DEF SemInv, QueuedOnce
  <2> QED BY <1>1, <2>1, <2>2 DEF PhaseMatchesPermit, TypeOK
<1>6. EachEngineInOnePlace'
  <2>1. Leased' = Leased \cup {c} /\ c \notin Leased
    BY DEF Leased, TypeOK
  <2>2. Cardinality(Leased') = Cardinality(Leased) + 1 /\ Cardinality(Leased) \in Nat
    <3>1. IsFiniteSet(Leased)
      BY ClientsAssumption, FS_Subset DEF Leased
    <3> HIDE DEF IInv, Pop
    <3> QED BY <2>1, <3>1, FS_AddElement, FS_CardinalityType
  <2>3. lease'[c] = e /\ \A d \in Leased : lease'[d] = lease[d]
    BY <2>1 DEF TypeOK, Leased
  <2>4. \A i, j \in DOMAIN idle' : idle'[i] = idle'[j] => i = j
    BY <1>1, <1>2 DEF EachEngineInOnePlace
  <2>5. \A d \in Leased' : \A i \in DOMAIN idle' : idle'[i] # lease'[d]
    BY <1>1, <1>2, <2>1, <2>3 DEF EachEngineInOnePlace
  <2>6. \A d, f \in Leased' : lease'[d] = lease'[f] => d = f
    BY <1>1, <2>1, <2>3 DEF EachEngineInOnePlace
  <2>7. Len(idle') + Cardinality(Leased') = NumEngines
    BY <1>1, <1>2, <2>2 DEF EachEngineInOnePlace
  <2> QED BY <2>4, <2>5, <2>6, <2>7 DEF EachEngineInOnePlace
<1> QED BY <1>3, <1>4, <1>5, <1>6

\* The three ways of leaving `acquire` or the lease with a permit given up.
LEMMA ReleaseIInv ==
  ASSUME IInv, NEW c \in Clients, phase[c] \in {"acquiring", "returning"},
         phase' = [phase EXCEPT ![c] = "away"],
         SemRelease(c) \/ SemForget(c),
         UNCHANGED <<idle, lease>>
  PROVE  IInv'
<1> USE DEF IInv
<1>1. /\ SemInv'
      /\ \A d \in holders' : (d \in holders /\ d # c) \/ Queued(d)
      /\ holders \ {c} \subseteq holders'
      /\ \A i \in DOMAIN waiters' :
            waiters'[i] # c /\ \E j \in DOMAIN waiters : waiters'[i] = waiters[j]
  <2>1. CASE SemRelease(c)
    BY <2>1, SemReleaseInv DEF SemRelease, SemInv, QueuedOnce
  <2>2. CASE SemForget(c)
    <3>1. c \notin holders
      BY <2>2 DEF SemForget, SemInv, QueuedOnce
    <3> QED BY <2>2, <3>1, SemForgetInv
  <2> QED BY <2>1, <2>2
<1>2. ~ (\E d \in holders' : d = c)
  <2>1. CASE SemRelease(c)
    BY <1>1, <2>1 DEF SemRelease, SemInv, QueuedOnce, Queued
  <2>2. CASE SemForget(c)
    BY <2>2 DEF SemForget, SemInv, QueuedOnce
  <2> QED BY <2>1, <2>2
<1>3. TypeOK'
  BY <1>1 DEF TypeOK, SemInv, Phases
<1>4. PhaseMatchesPermit'
  <2>1. \A d \in Clients : phase'[d] = IF d = c THEN "away" ELSE phase[d]
    BY DEF TypeOK
  <2>2. \A d \in holders' : phase'[d] # "away"
    BY <1>1, <1>2, <1>3, <2>1 DEF PhaseMatchesPermit, Queued, TypeOK, SemTypeOK
  <2>3. \A i \in DOMAIN waiters' : phase'[waiters'[i]] = "acquiring"
    BY <1>1, <2>1 DEF PhaseMatchesPermit, SemInv, SemTypeOK
  <2> QED BY <1>1, <2>1, <2>2, <2>3 DEF PhaseMatchesPermit
<1>5. EachEngineInOnePlace'
  <2>1. Leased' = Leased
    BY DEF Leased, TypeOK
  <2> QED BY <2>1, LeasesUntouched
<1> QED BY <1>1, <1>3, <1>4, <1>5

LEMMA ReturnEngineIInv ==
  ASSUME IInv, NEW c \in Clients, ReturnEngine(c)
  PROVE  IInv'
<1> USE DEF IInv, ReturnEngine
<1> DEFINE n == Len(idle)
<1>1. /\ idle \in Seq(Engines) /\ n \in Nat /\ DOMAIN idle = 1 .. n
      /\ c \in Leased /\ lease[c] \in Engines
  BY DEF TypeOK, Leased, PhaseMatchesPermit
<1>2. /\ idle' \in Seq(Engines) /\ Len(idle') = n + 1
      /\ DOMAIN idle' = 1 .. (n + 1)
      /\ \A i \in 1 .. n : idle'[i] = idle[i]
      /\ idle'[n + 1] = lease[c]
  BY <1>1
<1>3. SemInv'
  BY DEF SemInv, SemTypeOK, PermitsConserved, NoIdlePermitWhileQueued,
         QueuedOnce, semVars
<1>4. TypeOK'
  BY <1>1, <1>2, <1>3 DEF TypeOK, SemInv, Phases
<1>5. PhaseMatchesPermit'
  <2>1. /\ phase' = [phase EXCEPT ![c] = "returning"]
        /\ lease' = [lease EXCEPT ![c] = NoEngine]
        /\ holders' = holders /\ waiters' = waiters
    BY DEF semVars
  <2>2. \A i \in DOMAIN waiters : waiters[i] # c
    BY DEF PhaseMatchesPermit
  <2> QED BY <2>1, <2>2 DEF PhaseMatchesPermit, TypeOK
<1>6. EachEngineInOnePlace'
  <2>1. Leased' = Leased \ {c} /\ c \in Leased
    BY <1>1 DEF Leased, TypeOK
  <2>2. Cardinality(Leased') = Cardinality(Leased) - 1 /\ Cardinality(Leased) \in Nat
    <3>1. IsFiniteSet(Leased)
      BY ClientsAssumption, FS_Subset DEF Leased
    <3> HIDE DEF IInv, ReturnEngine
    <3> QED BY <2>1, <3>1, FS_RemoveElement, FS_CardinalityType
  <2>3. \A d \in Leased' : lease'[d] = lease[d] /\ lease[d] # lease[c]
    BY <2>1 DEF TypeOK, Leased, EachEngineInOnePlace
  <2>4. \A i, j \in DOMAIN idle' : idle'[i] = idle'[j] => i = j
    BY <1>1, <1>2 DEF EachEngineInOnePlace
  <2>5. \A d \in Leased' : \A i \in DOMAIN idle' : idle'[i] # lease'[d]
    BY <1>1, <1>2, <2>1, <2>3 DEF EachEngineInOnePlace
  <2>6. \A d, f \in Leased' : lease'[d] = lease'[f] => d = f
    BY <2>1, <2>3 DEF EachEngineInOnePlace
  <2>7. Len(idle') + Cardinality(Leased') = NumEngines
    BY <1>1, <1>2, <2>2 DEF EachEngineInOnePlace
  <2> QED BY <2>4, <2>5, <2>6, <2>7 DEF EachEngineInOnePlace
<1> QED BY <1>3, <1>4, <1>5, <1>6

\* Every step of the pool preserves IInv.
LEMMA NextIInv == IInv /\ [Next]_vars => IInv'
<1> SUFFICES ASSUME IInv, [Next]_vars PROVE IInv'
  OBVIOUS
<1>1. ASSUME NEW c \in Clients, Acquire(c) PROVE IInv'
  BY <1>1, AcquireIInv
<1>2. ASSUME NEW c \in Clients, Pop(c) PROVE IInv'
  BY <1>2, PopIInv
<1>3. ASSUME NEW c \in Clients, PopEmpty(c) PROVE IInv'
  BY <1>3, ReleaseIInv DEF PopEmpty
<1>4. ASSUME NEW c \in Clients, Cancel(c) PROVE IInv'
  BY <1>4, ReleaseIInv DEF Cancel
<1>5. ASSUME NEW c \in Clients, ReturnEngine(c) PROVE IInv'
  BY <1>5, ReturnEngineIInv
<1>6. ASSUME NEW c \in Clients, ReleasePermit(c) PROVE IInv'
  BY <1>6, ReleaseIInv DEF ReleasePermit
<1>7. CASE UNCHANGED vars
  BY <1>7 DEF vars, IInv, TypeOK, SemInv, SemTypeOK, PermitsConserved,
              NoIdlePermitWhileQueued, QueuedOnce, PhaseMatchesPermit,
              EachEngineInOnePlace, Leased
<1> QED BY <1>1, <1>2, <1>3, <1>4, <1>5, <1>6, <1>7 DEF Next

\* IInv is an invariant of the pool.
THEOREM InductiveInvariant == Spec => []IInv
  BY InitIInv, NextIInv, PTL DEF Spec

\* The variables keep their types.
THEOREM TypeCorrect == Spec => []TypeOK
  BY InductiveInvariant, PTL DEF IInv

\* No replica is ever leased to two requests, or leased and idle at once, and
\* checked out plus idle always makes up the pool (engine_pool.rs 74-76).
THEOREM ExclusiveEngines == Spec => []EachEngineInOnePlace
  BY InductiveInvariant, PTL DEF IInv

\* Leases hold exactly the permits that are not free, and a free permit is
\* never kept from a queued request.
THEOREM SemaphoreSafe == Spec => []SemInv
  BY InductiveInvariant, PTL DEF IInv

\* The counting argument behind "cannot happen under correct operation": a
\* client that was handed a permit holds one that no lease accounts for.
LEMMA GrantedFindsEngineInv == IInv => GrantedFindsEngine
<1> SUFFICES ASSUME IInv, NumEngines > 0, NEW c \in holders, phase[c] = "acquiring"
             PROVE  idle # <<>>
  BY DEF GrantedFindsEngine
<1> USE DEF IInv
<1>1. Leased \subseteq holders /\ Leased # holders
  BY DEF Leased, PhaseMatchesPermit
<1>2. IsFiniteSet(holders)
  BY ClientsAssumption, FS_Subset DEF TypeOK, SemTypeOK
<1>3. Cardinality(Leased) < Cardinality(holders)
  <2>1. IsFiniteSet(Leased)
    BY <1>1, <1>2, FS_Subset
  <2>2. Cardinality(Leased) \in Nat /\ Cardinality(holders) \in Nat
    BY <1>2, <2>1, FS_CardinalityType
  <2>3. /\ Cardinality(Leased) <= Cardinality(holders)
        /\ Cardinality(holders) # Cardinality(Leased)
    BY <1>1, <1>2, FS_Subset
  <2> QED BY <2>2, <2>3
<1>4. permits + Cardinality(holders) = NumEngines /\ permits \in Nat
  BY EnginesAssumption, PoolSizeAssumption
     DEF SemInv, SemTypeOK, PermitsConserved, PoolSize
<1>5. Len(idle) + Cardinality(Leased) = NumEngines
  BY DEF EachEngineInOnePlace
<1>6. IsFiniteSet(Leased) /\ Cardinality(Leased) \in Nat /\ Cardinality(holders) \in Nat
  BY <1>1, <1>2, FS_Subset, FS_CardinalityType
<1>7. Len(idle) # 0
  BY <1>3, <1>4, <1>5, <1>6, EnginesAssumption DEF TypeOK
<1> QED BY <1>7

\* PoolError::Empty is unreachable in a pool built with engines.
THEOREM NeverUnexpectedlyEmpty == Spec => []GrantedFindsEngine
  BY InductiveInvariant, GrantedFindsEngineInv, PTL
-----------------------------------------------------------------------------
\* Each step of the pool is a step of the abstract lease relation, or leaves
\* that relation alone.
LEMMA StepRefines ==
  IInv /\ [Next]_vars => [Exclusive!Next]_<<Asking, LeasePairs>>
<1> SUFFICES ASSUME IInv, [Next]_vars
             PROVE  Exclusive!Next \/ UNCHANGED <<Asking, LeasePairs>>
  OBVIOUS
<1> USE DEF IInv
<1>1. ASSUME NEW c \in Clients, Acquire(c) PROVE Exclusive!Ask(c)
  <2>1. Asking' = Asking \cup {c} /\ c \notin Asking
    BY <1>1 DEF Acquire, Asking, TypeOK
  <2>2. LeasePairs' = LeasePairs
    BY <1>1 DEF Acquire, LeasePairs, Leased, TypeOK
  <2>3. \A e \in Engines : <<c, e>> \notin LeasePairs
    BY <1>1 DEF Acquire, LeasePairs, Leased
  <2> QED BY <2>1, <2>2, <2>3 DEF Exclusive!Ask
<1>2. ASSUME NEW c \in Clients, Pop(c)
      PROVE  \E e \in Engines : Exclusive!Grant(c, e)
  <2> DEFINE e == Last(idle)
             n == Len(idle)
  <2>1. /\ n \in DOMAIN idle /\ e = idle[n] /\ e \in Engines
    BY <1>2 DEF Pop, TypeOK, Last
  <2>2. c \in Asking /\ Asking' = Asking \ {c}
    BY <1>2 DEF Pop, Asking, TypeOK
  <2>3. \A d \in Clients : <<d, e>> \notin LeasePairs
    BY <2>1 DEF LeasePairs, EachEngineInOnePlace
  <2>4. Leased' = Leased \cup {c} /\ c \notin Leased
    BY <1>2 DEF Pop, Leased, TypeOK
  <2>5. lease'[c] = e /\ \A d \in Leased : lease'[d] = lease[d]
    BY <1>2, <2>4 DEF Pop, TypeOK, Leased
  <2>6. LeasePairs' = LeasePairs \cup {<<c, e>>}
    BY <2>4, <2>5 DEF LeasePairs
  <2> QED BY <2>1, <2>2, <2>3, <2>6 DEF Exclusive!Grant
<1>3. ASSUME NEW c \in Clients, PopEmpty(c) \/ Cancel(c)
      PROVE  Exclusive!Withdraw(c)
  <2>1. c \in Asking /\ Asking' = Asking \ {c}
    BY <1>3 DEF PopEmpty, Cancel, Asking, TypeOK
  <2>2. LeasePairs' = LeasePairs
    BY <1>3 DEF PopEmpty, Cancel, LeasePairs, Leased, TypeOK
  <2> QED BY <2>1, <2>2 DEF Exclusive!Withdraw
<1>4. ASSUME NEW c \in Clients, ReturnEngine(c)
      PROVE  \E e \in Engines : Exclusive!GiveBack(c, e)
  <2>1. c \in Leased /\ lease[c] \in Engines
    BY <1>4 DEF ReturnEngine, Leased, TypeOK, PhaseMatchesPermit
  <2>2. Asking' = Asking
    BY <1>4 DEF ReturnEngine, Asking, TypeOK
  <2>3. Leased' = Leased \ {c}
    BY <1>4 DEF ReturnEngine, Leased, TypeOK
  <2>4. \A d \in Leased' : lease'[d] = lease[d]
    BY <1>4, <2>3 DEF ReturnEngine, TypeOK, Leased
  <2>5. LeasePairs' = LeasePairs \ {<<c, lease[c]>>}
    BY <2>3, <2>4 DEF LeasePairs
  <2>6. <<c, lease[c]>> \in LeasePairs
    BY <2>1 DEF LeasePairs
  <2> QED BY <2>1, <2>2, <2>5, <2>6 DEF Exclusive!GiveBack
<1>5. ASSUME NEW c \in Clients, ReleasePermit(c)
      PROVE  UNCHANGED <<Asking, LeasePairs>>
  BY <1>5 DEF ReleasePermit, Asking, LeasePairs, Leased, TypeOK
<1>6. CASE UNCHANGED vars
  BY <1>6 DEF vars, Asking, LeasePairs, Leased
<1> QED
  BY <1>1, <1>2, <1>3, <1>4, <1>5, <1>6 DEF Next, Exclusive!Next

\* The pool implements the abstract exclusive leases.
THEOREM Refinement == Spec => LeasesAreExclusive
<1>1. Init => Exclusive!Init
  BY DEF Init, Exclusive!Init, Asking, LeasePairs, Leased
<1> QED
  BY <1>1, StepRefines, InductiveInvariant, PTL
     DEF Spec, LeasesAreExclusive, Exclusive!Spec
-----------------------------------------------------------------------------
(* The request handlers.                                                     *)

\* Handlers touch the pool through acquire and the drop of a lease only.
LEMMA PoolStep == [ServerNext]_allVars => [Next]_vars
<1> SUFFICES ASSUME [ServerNext]_allVars PROVE [Next]_vars
  OBVIOUS
<1>1. ASSUME NEW c \in Clients, Arrive(c) PROVE Next
  BY <1>1 DEF Arrive, Next
<1>2. ASSUME NEW c \in Clients, HangUpWaiting(c) PROVE Next
  BY <1>2 DEF HangUpWaiting, Next
<1>3. ASSUME NEW c \in Clients, GetEngine(c) PROVE Next
  BY <1>3 DEF GetEngine, Next
<1>4. ASSUME NEW c \in Clients, GiveEngineBack(c) PROVE Next
  BY <1>4 DEF GiveEngineBack, Next
<1>5. ASSUME NEW c \in Clients, GivePermitBack(c) PROVE Next
  BY <1>5 DEF GivePermitBack, Next
<1>6. ASSUME NEW c \in Clients,
             \/ RejectPrompt(c) \/ HangUpStreaming(c) \/ AnswerStream(c)
             \/ Generate(c) \/ CloseChannel(c) \/ FinishStream(c)
             \/ FailRequest(c) \/ FinishRequest(c) \/ FailDecode(c)
      PROVE UNCHANGED vars
  BY <1>6 DEF RejectPrompt, HangUpStreaming, AnswerStream, Generate, StartGenerate, Prefill, Send,
              Forward, EndGenerate, CloseChannel, FinishStream, FailRequest, FinishRequest,
              FailDecode
<1>7. CASE UNCHANGED allVars
  BY <1>7 DEF allVars
<1> QED  BY <1>1, <1>2, <1>3, <1>4, <1>5, <1>6, <1>7 DEF ServerNext, Work

\* The server's pool behaves as EnginePool says: what is proved there holds here.
THEOREM ServerUsesThePool == ServerSpec => UsesThePool
<1>1. ServerInit => Init
  BY DEF ServerInit
<1> QED  BY <1>1, PoolStep, PTL DEF ServerSpec, Spec, UsesThePool
-----------------------------------------------------------------------------
\* What each handler step does to the control state of its request.
LEMMA TypesKept ==
  ASSUME ServerInv, ServerNext
  PROVE  HandlerTypes'
<1> USE DEF ServerInv, HandlerTypes, Handlers, Workers, Stages, generation
<1>e. \A c \in Clients : worker[c] \in {"ready", "running", "ended"} => lease[c] \in Engines
  BY DEF HandlerMatchesPhase, IInv, PhaseMatchesPermit, TypeOK
<1>a. ASSUME NEW c \in Clients, RejectPrompt(c) \/ Arrive(c) \/ HangUpWaiting(c) \/ HangUpStreaming(c)
      PROVE  HandlerTypes'
  BY <1>a DEF RejectPrompt, Arrive, HangUpWaiting, HangUpStreaming, Tick, Metered
<1>b. ASSUME NEW c \in Clients, GetEngine(c) \/ AnswerStream(c)
      PROVE  HandlerTypes'
  BY <1>b DEF GetEngine, AnswerStream, Tick, Metered
<1>c. ASSUME NEW c \in Clients, StartGenerate(c)
      PROVE  HandlerTypes'
  BY <1>c, <1>e DEF StartGenerate, AllParams, WantedParams
<1>d. ASSUME NEW c \in Clients, EndGenerate(c)
      PROVE  HandlerTypes'
  <2>1. worker[c] = "running" /\ saved[c] \in AllParams
    BY <1>d DEF EndGenerate
  <2>2. \E w \in {"ready", "ended"} : worker' = [worker EXCEPT ![c] = w]
    BY <1>d DEF EndGenerate
  <2>3. unread' \in [Clients -> Nat] /\ choices' \in [Clients -> Int]
    BY <1>d DEF EndGenerate, PassEnds
  <2>4. /\ params' = [params EXCEPT ![lease[c]] = saved[c]]
        /\ saved' = [saved EXCEPT ![c] = StartupParams]
        /\ UNCHANGED <<kind, handler, stage, active>>
    BY <1>d DEF EndGenerate
  <2> QED  BY <1>e, <2>1, <2>2, <2>3, <2>4 DEF AllParams
<1>h. ASSUME NEW c \in Clients, Prefill(c) \/ Send(c) \/ Forward(c)
      PROVE  HandlerTypes'
  BY <1>h DEF Prefill, Send, Forward, PassEnds
<1>f. ASSUME NEW c \in Clients, GiveEngineBack(c) \/ GivePermitBack(c) \/ CloseChannel(c) \/ FinishStream(c)
      PROVE  HandlerTypes'
  BY <1>f DEF GiveEngineBack, GivePermitBack, CloseChannel, FinishStream
<1>g. ASSUME NEW c \in Clients, FailRequest(c) \/ FinishRequest(c) \/ FailDecode(c)
      PROVE  HandlerTypes'
  BY <1>g DEF FailRequest, FinishRequest, FailDecode, Tick, Metered
<1> QED  BY <1>a, <1>b, <1>c, <1>d, <1>f, <1>g, <1>h DEF ServerNext, Work, Generate

\* Handler, worker and pool move together.
LEMMA PhasesKept ==
  ASSUME ServerInv, ServerNext
  PROVE  HandlerMatchesPhase'
<1> USE DEF ServerInv, HandlerTypes, HandlerMatchesPhase, IInv, TypeOK, Phases, Handlers, Workers
<1>a. ASSUME NEW c \in Clients, RejectPrompt(c) PROVE HandlerMatchesPhase'
  BY <1>a DEF RejectPrompt, vars
<1>b. ASSUME NEW c \in Clients, Arrive(c) PROVE HandlerMatchesPhase'
  BY <1>b DEF Arrive, Acquire
<1>c. ASSUME NEW c \in Clients, HangUpWaiting(c) PROVE HandlerMatchesPhase'
  BY <1>c DEF HangUpWaiting, Cancel
<1>d. ASSUME NEW c \in Clients, HangUpStreaming(c) PROVE HandlerMatchesPhase'
  BY <1>d DEF HangUpStreaming, vars
<1>e. ASSUME NEW c \in Clients, Prefill(c) \/ Send(c) \/ Forward(c) PROVE HandlerMatchesPhase'
  <2>1. UNCHANGED <<vars, handler, worker>>
    BY <1>e DEF Prefill, Send, Forward
  <2> QED  BY <2>1 DEF vars
<1>f. ASSUME NEW c \in Clients, GetEngine(c) PROVE HandlerMatchesPhase'
  BY <1>f DEF GetEngine, Pop
<1>g. ASSUME NEW c \in Clients, AnswerStream(c) PROVE HandlerMatchesPhase'
  BY <1>g DEF AnswerStream, vars
<1>h. ASSUME NEW c \in Clients, StartGenerate(c) \/ EndGenerate(c) PROVE HandlerMatchesPhase'
  <2>1. /\ worker[c] \in {"ready", "running"} /\ UNCHANGED <<vars, handler>>
        /\ \E w \in {"ready", "running", "ended"} : worker' = [worker EXCEPT ![c] = w]
    BY <1>h DEF StartGenerate, EndGenerate
  <2> QED  BY <2>1 DEF vars
<1>i. ASSUME NEW c \in Clients, GiveEngineBack(c) PROVE HandlerMatchesPhase'
  BY <1>i DEF GiveEngineBack, ReturnEngine
<1>j. ASSUME NEW c \in Clients, GivePermitBack(c) PROVE HandlerMatchesPhase'
  BY <1>j DEF GivePermitBack, ReleasePermit
<1>k. ASSUME NEW c \in Clients, CloseChannel(c) \/ FinishStream(c) PROVE HandlerMatchesPhase'
  BY <1>k DEF CloseChannel, FinishStream, vars
<1>l. ASSUME NEW c \in Clients, FailRequest(c) \/ FinishRequest(c) \/ FailDecode(c)
      PROVE  HandlerMatchesPhase'
  BY <1>l DEF FailRequest, FinishRequest, FailDecode, vars
<1> QED
  BY <1>a, <1>b, <1>c, <1>d, <1>e, <1>f, <1>g, <1>h, <1>i, <1>j, <1>k, <1>l
     DEF ServerNext, Work, Generate

\* Parameters go in and out with the generation they belong to.
LEMMA ParametersKept ==
  ASSUME ServerInv, ServerNext
  PROVE  ParamsKept'
<1> USE DEF ServerInv, HandlerTypes, Workers
<1>1. \A c, d \in Clients :
         worker[c] \in {"ready", "running", "ended"} =>
            /\ lease[c] \in Engines
            /\ worker[d] \in {"ready", "running", "ended"} /\ lease[c] = lease[d] => c = d
  BY DEF HandlerMatchesPhase, IInv, PhaseMatchesPermit, TypeOK, EachEngineInOnePlace, Leased
<1>a. ASSUME NEW c \in Clients, StartGenerate(c) PROVE ParamsKept'
  <2>1. /\ worker' = [worker EXCEPT ![c] = "running"]
        /\ worker[c] = "ready" /\ lease' = lease /\ kind' = kind
        /\ saved' = [saved EXCEPT ![c] = params[lease[c]]]
        /\ params' = [params EXCEPT ![lease[c]] =
                         IF kind[c] = "completion" THEN @ ELSE WantedParams(c)]
    BY <1>a DEF StartGenerate, vars
  <2>2. params[lease[c]] = StartupParams
    BY <1>1, <2>1 DEF ParamsKept
  <2>3. params'[lease[c]] = WantedParams(c) /\ lease[c] \in Engines
    BY <1>1, <2>1, <2>2 DEF WantedParams
  <2>4. \A d \in Clients : worker'[d] = "running" => saved'[d] = StartupParams
    BY <2>1, <2>2 DEF ParamsKept
  <2>5. \A d \in Clients : worker'[d] = "running" => params'[lease'[d]] = WantedParams(d)'
    BY <1>1, <2>1, <2>3 DEF ParamsKept, WantedParams
  <2>6. \A e \in Engines : params'[e] # StartupParams =>
                              \E d \in Clients : worker'[d] = "running" /\ lease'[d] = e
    <3> SUFFICES ASSUME NEW e \in Engines, params'[e] # StartupParams
                 PROVE  \E d \in Clients : worker'[d] = "running" /\ lease'[d] = e
      OBVIOUS
    <3>1. CASE e = lease[c]
      BY <2>1, <3>1
    <3>2. CASE e # lease[c]
      <4>1. params[e] # StartupParams
        BY <2>1, <3>2
      <4>2. PICK d \in Clients : worker[d] = "running" /\ lease[d] = e
        BY <4>1 DEF ParamsKept
      <4> QED  BY <2>1, <4>2
    <3> QED  BY <3>1, <3>2
  <2> QED  BY <2>4, <2>5, <2>6 DEF ParamsKept
<1>b. ASSUME NEW c \in Clients, EndGenerate(c) PROVE ParamsKept'
  <2>1. /\ worker[c] = "running" /\ lease' = lease /\ kind' = kind
        /\ \E w \in {"ready", "ended"} : worker' = [worker EXCEPT ![c] = w]
        /\ saved' = [saved EXCEPT ![c] = StartupParams]
        /\ params' = [params EXCEPT ![lease[c]] = saved[c]]
    BY <1>b DEF EndGenerate, vars
  <2>2. saved[c] = StartupParams /\ lease[c] \in Engines
    BY <1>1, <2>1 DEF ParamsKept
  <2>3. \A d \in Clients : worker'[d] = "running" => d # c /\ worker[d] = "running"
    BY <2>1
  <2>4. \A d \in Clients : worker'[d] = "running" =>
           saved'[d] = StartupParams /\ params'[lease'[d]] = WantedParams(d)'
    BY <1>1, <2>1, <2>3 DEF ParamsKept, WantedParams
  <2>5. ASSUME NEW e \in Engines, params'[e] # StartupParams
        PROVE  \E d \in Clients : worker'[d] = "running" /\ lease'[d] = e
    <3>1. e # lease[c] /\ params[e] # StartupParams
      BY <2>1, <2>2, <2>5
    <3>2. PICK d \in Clients : worker[d] = "running" /\ lease[d] = e
      BY <3>1 DEF ParamsKept
    <3> QED  BY <2>1, <3>1, <3>2
  <2> QED  BY <2>4, <2>5 DEF ParamsKept
\* Elsewhere no generation is running that was not running, none stops, and
\* a lease in use is not touched.
<1>2. ASSUME UNCHANGED <<kind, params, saved>>,
             \A c \in Clients : /\ worker'[c] = "running" <=> worker[c] = "running"
                                /\ worker[c] = "running" => lease'[c] = lease[c]
      PROVE  ParamsKept'
  BY <1>2 DEF ParamsKept, WantedParams
<1>c. ASSUME NEW c \in Clients, GetEngine(c) PROVE ParamsKept'
  <2>1. worker[c] = "none"
    BY <1>c DEF GetEngine, HandlerMatchesPhase
  <2> QED  BY <1>2, <1>c, <2>1 DEF GetEngine, Pop, IInv, TypeOK
<1>d. ASSUME NEW c \in Clients, GiveEngineBack(c) PROVE ParamsKept'
  BY <1>2, <1>d DEF GiveEngineBack, ReturnEngine, IInv, TypeOK
<1>f. ASSUME NEW c \in Clients,
             RejectPrompt(c) \/ Arrive(c) \/ HangUpWaiting(c) \/ HangUpStreaming(c)
      PROVE ParamsKept'
  BY <1>2, <1>f DEF RejectPrompt, Arrive, Acquire, HangUpWaiting, Cancel, HangUpStreaming, vars
<1>i. ASSUME NEW c \in Clients, Prefill(c) \/ Send(c) \/ Forward(c)
      PROVE ParamsKept'
  BY <1>2, <1>i DEF Prefill, Send, Forward, vars
<1>g. ASSUME NEW c \in Clients, AnswerStream(c) \/ GivePermitBack(c) \/ CloseChannel(c) \/ FinishStream(c)
      PROVE ParamsKept'
  BY <1>2, <1>g DEF AnswerStream, GivePermitBack, ReleasePermit, CloseChannel, FinishStream, vars
<1>h. ASSUME NEW c \in Clients, FailRequest(c) \/ FinishRequest(c) \/ FailDecode(c)
      PROVE ParamsKept'
  BY <1>2, <1>h DEF FailRequest, FinishRequest, FailDecode, vars
<1> QED  BY <1>a, <1>b, <1>c, <1>d, <1>f, <1>g, <1>h, <1>i DEF ServerNext, Work, Generate
-----------------------------------------------------------------------------
Unanswered == {c \in Clients : Metered(c) /\ handler[c] \in {"acquiring", "busy"}}

\* A request counted by the gauge may leave it to be decremented, or not.
LEMMA GaugeMoves ==
  ASSUME HandlerTypes, GaugeCoversHandlers, NEW c \in Clients, kind' = kind,
         NEW h \in Handlers, handler' = [handler EXCEPT ![c] = h],
         \/ /\ handler[c] \notin {"acquiring", "busy"} /\ h \in {"acquiring", "busy"}
            /\ active' = active + Tick(c)
         \/ /\ handler[c] \in {"acquiring", "busy"} /\ h \notin {"acquiring", "busy"}
            /\ active' \in {active, active - Tick(c)}
         \/ /\ handler[c] \in {"acquiring", "busy"} <=> h \in {"acquiring", "busy"}
            /\ active' = active
  PROVE  GaugeCoversHandlers'
<1> USE DEF HandlerTypes
<1>1. active >= Cardinality(Unanswered) /\ (GaugeCoversHandlers' <=> active' >= Cardinality(Unanswered'))
  BY DEF GaugeCoversHandlers, Unanswered, Metered
<1>2. \A d \in Clients : handler'[d] = IF d = c THEN h ELSE handler[d]
  OBVIOUS
<1>3. IsFiniteSet(Unanswered) /\ Cardinality(Unanswered) \in Nat
  BY ClientsAssumption, FS_Subset, FS_CardinalityType DEF Unanswered
<1>4. \/ Unanswered' = Unanswered
      \/ Unanswered' = Unanswered \cup {c} /\ c \notin Unanswered /\ Tick(c) = 1
                                           /\ h \in {"acquiring", "busy"}
      \/ Unanswered' = Unanswered \ {c} /\ c \in Unanswered /\ Tick(c) = 1
                                        /\ h \notin {"acquiring", "busy"}
  BY <1>2 DEF Unanswered, Metered, Tick
<1>5. Unanswered' = Unanswered /\ active' # active => Tick(c) = 0
  BY <1>2 DEF Unanswered, Metered, Tick
<1>6. /\ Cardinality(Unanswered \cup {c}) = IF c \in Unanswered THEN Cardinality(Unanswered)
                                            ELSE Cardinality(Unanswered) + 1
      /\ Cardinality(Unanswered \ {c}) = IF c \in Unanswered THEN Cardinality(Unanswered) - 1
                                         ELSE Cardinality(Unanswered)
  BY <1>3, FS_AddElement, FS_RemoveElement
<1>7. Tick(c) \in {0, 1}
  BY DEF Tick
<1>a. CASE Unanswered' = Unanswered
  BY <1>1, <1>3, <1>5, <1>7, <1>a
<1>b. CASE Unanswered' = Unanswered \cup {c} /\ c \notin Unanswered /\ Tick(c) = 1 /\ h \in {"acquiring", "busy"}
  <2>1. handler[c] \notin {"acquiring", "busy"}
    BY <1>b DEF Unanswered, Metered, Tick
  <2> QED  BY <1>1, <1>3, <1>6, <1>b, <2>1
<1>c. CASE Unanswered' = Unanswered \ {c} /\ c \in Unanswered /\ Tick(c) = 1 /\ h \notin {"acquiring", "busy"}
  <2>1. active' \in {active, active - 1}
    BY <1>c DEF Unanswered
  <2> QED  BY <1>1, <1>3, <1>6, <1>c, <2>1
<1> QED  BY <1>4, <1>a, <1>b, <1>c

\* No step leaves an unanswered request uncounted.
LEMMA GaugeKept ==
  ASSUME ServerInv, ServerNext
  PROVE  GaugeCoversHandlers'
<1> USE DEF ServerInv
<1>1. ASSUME UNCHANGED <<kind, handler, active>> PROVE GaugeCoversHandlers'
  BY <1>1 DEF GaugeCoversHandlers, Metered
<1>a. ASSUME NEW c \in Clients, RejectPrompt(c) PROVE GaugeCoversHandlers'
  BY <1>a, GaugeMoves DEF RejectPrompt, Handlers
<1>b. ASSUME NEW c \in Clients, Arrive(c) PROVE GaugeCoversHandlers'
  BY <1>b, GaugeMoves DEF Arrive, Handlers
<1>c. ASSUME NEW c \in Clients, HangUpWaiting(c) PROVE GaugeCoversHandlers'
  BY <1>c, GaugeMoves DEF HangUpWaiting, Handlers
<1>d. ASSUME NEW c \in Clients, HangUpStreaming(c) PROVE GaugeCoversHandlers'
  BY <1>d, GaugeMoves DEF HangUpStreaming, Handlers
<1>e. ASSUME NEW c \in Clients, GetEngine(c) PROVE GaugeCoversHandlers'
  BY <1>e, GaugeMoves DEF GetEngine, Handlers
<1>f. ASSUME NEW c \in Clients, AnswerStream(c) PROVE GaugeCoversHandlers'
  BY <1>f, GaugeMoves DEF AnswerStream, Handlers
<1>g. ASSUME NEW c \in Clients, FinishStream(c) PROVE GaugeCoversHandlers'
  BY <1>g, GaugeMoves DEF FinishStream, Handlers
<1>h. ASSUME NEW c \in Clients, FailRequest(c) PROVE GaugeCoversHandlers'
  BY <1>h, GaugeMoves DEF FailRequest, Handlers
<1>i. ASSUME NEW c \in Clients, FinishRequest(c) PROVE GaugeCoversHandlers'
  BY <1>i, GaugeMoves DEF FinishRequest, Handlers
<1>j. ASSUME NEW c \in Clients, FailDecode(c) PROVE GaugeCoversHandlers'
  BY <1>j, GaugeMoves DEF FailDecode, Handlers, Tick, Metered
<1>k. ASSUME NEW c \in Clients,
             \/ StartGenerate(c) \/ Prefill(c) \/ Send(c) \/ Forward(c) \/ EndGenerate(c)
             \/ GiveEngineBack(c) \/ GivePermitBack(c) \/ CloseChannel(c)
      PROVE GaugeCoversHandlers'
  BY <1>1, <1>k DEF StartGenerate, Prefill, Send, Forward, EndGenerate, GiveEngineBack,
                    GivePermitBack, CloseChannel
<1> QED
  BY <1>a, <1>b, <1>c, <1>d, <1>e, <1>f, <1>g, <1>h, <1>i, <1>j, <1>k
     DEF ServerNext, Work, Generate
-----------------------------------------------------------------------------
\* A generation whose reader is gone notices before it starts another pass.
LEMMA HangUpKept ==
  ASSUME ServerInv, ServerNext
  PROVE  HangUpIsNoticed'
<1> USE DEF ServerInv, HandlerTypes, Handlers, Workers, Stages, HangUpIsNoticed
<1>1. ASSUME UNCHANGED <<kind, handler, worker, stage, unread, choices>> PROVE HangUpIsNoticed'
  BY <1>1
<1>2. \A c \in Clients : /\ handler[c] = "acquiring" => worker[c] = "none" /\ unread[c] = 0
                         /\ handler[c] # "dropped" => unread[c] = 0
  BY DEF HandlerMatchesPhase
<1>a. ASSUME NEW c \in Clients,
             RejectPrompt(c) \/ Arrive(c) \/ AnswerStream(c) \/ HangUpWaiting(c) \/ HangUpStreaming(c)
      PROVE  HangUpIsNoticed'
  BY <1>2, <1>a DEF RejectPrompt, Arrive, AnswerStream, HangUpWaiting, HangUpStreaming, generation
<1>b. ASSUME NEW c \in Clients, GetEngine(c) PROVE HangUpIsNoticed'
  BY <1>2, <1>b DEF GetEngine, generation
<1>c. ASSUME NEW c \in Clients, StartGenerate(c) PROVE HangUpIsNoticed'
  BY <1>2, <1>c DEF StartGenerate
<1>d. ASSUME NEW c \in Clients, Prefill(c) \/ Forward(c) PROVE HangUpIsNoticed'
  BY <1>2, <1>d DEF Prefill, Forward, PassEnds
<1>e. ASSUME NEW c \in Clients, Send(c) PROVE HangUpIsNoticed'
  BY <1>2, <1>e DEF Send
<1>f. ASSUME NEW c \in Clients, EndGenerate(c) PROVE HangUpIsNoticed'
  <2>1. /\ worker[c] = "running" /\ UNCHANGED <<kind, handler, stage>>
        /\ choices' = [choices EXCEPT ![c] = @ - 1]
        /\ \E w \in {"ready", "ended"} :
              worker' = [worker EXCEPT ![c] = w] /\ (w = "ready" => choices[c] > 1)
        /\ unread' = unread \/ (stage[c] # "sample" /\ PassEnds(c))
    BY <1>f DEF EndGenerate
  <2>2. handler[c] = "dropped" => choices[c] <= 1
    BY <2>1
  <2> QED  BY <1>2, <2>1, <2>2 DEF PassEnds
<1>g. ASSUME NEW c \in Clients, GiveEngineBack(c) \/ GivePermitBack(c) \/ CloseChannel(c)
      PROVE  HangUpIsNoticed'
  BY <1>2, <1>g DEF GiveEngineBack, GivePermitBack, CloseChannel, generation
<1>h. ASSUME NEW c \in Clients,
             FinishStream(c) \/ FailRequest(c) \/ FinishRequest(c) \/ FailDecode(c)
      PROVE  HangUpIsNoticed'
  BY <1>2, <1>h DEF FinishStream, FailRequest, FinishRequest, FailDecode, generation
<1> QED
  BY <1>a, <1>b, <1>c, <1>d, <1>e, <1>f, <1>g, <1>h DEF ServerNext, Work, Generate
-----------------------------------------------------------------------------
\* A server without requests.
LEMMA ServerInitially == ServerInit => ServerInv
<1> SUFFICES ASSUME ServerInit PROVE ServerInv
  OBVIOUS
<1>1. IInv
  BY InitIInv DEF ServerInit
<1>2. HandlerTypes
  BY MixAssumption, TokenAssumption DEF ServerInit, HandlerTypes, Handlers, Workers, Stages, AllParams
<1>3. HandlerMatchesPhase
  BY DEF ServerInit, Init, HandlerMatchesPhase
<1>4. ParamsKept
  BY DEF ServerInit, ParamsKept
<1>5. GaugeCoversHandlers
  <2>1. {c \in Clients : Metered(c) /\ handler[c] \in {"acquiring", "busy"}} = {}
    BY DEF ServerInit
  <2> QED  BY <2>1, FS_EmptySet DEF GaugeCoversHandlers, ServerInit
<1>6. HangUpIsNoticed
  BY MixAssumption DEF ServerInit, HangUpIsNoticed
<1> QED  BY <1>1, <1>2, <1>3, <1>4, <1>5, <1>6 DEF ServerInv

\* Every step keeps the invariant.
LEMMA ServerInductive == ServerInv /\ [ServerNext]_allVars => ServerInv'
<1> SUFFICES ASSUME ServerInv, [ServerNext]_allVars PROVE ServerInv'
  OBVIOUS
<1>1. IInv'
  BY PoolStep, NextIInv DEF ServerInv
<1>2. CASE ServerNext
  BY <1>1, <1>2, TypesKept, PhasesKept, ParametersKept, GaugeKept, HangUpKept DEF ServerInv
<1>3. CASE UNCHANGED allVars
  <2>1. UNCHANGED <<kind, handler, worker, stage, unread, choices, params, saved, active,
                     phase, lease>>
    BY <1>3 DEF allVars, vars, serverVars, generation
  <2>2. HandlerTypes' /\ HandlerMatchesPhase'
    BY <2>1 DEF ServerInv, HandlerTypes, HandlerMatchesPhase
  <2>3. ParamsKept' /\ GaugeCoversHandlers'
    BY <2>1 DEF ServerInv, ParamsKept, GaugeCoversHandlers, WantedParams, Metered
  <2>4. HangUpIsNoticed'
    BY <2>1 DEF ServerInv, HangUpIsNoticed
  <2> QED  BY <1>1, <2>2, <2>3, <2>4 DEF ServerInv
<1> QED  BY <1>2, <1>3

THEOREM ServerInvariant == ServerSpec => []ServerInv
  BY ServerInitially, ServerInductive, PTL DEF ServerSpec

\* Whatever requests end, fail or are given up: an idle replica has its
\* startup parameters (generate_with_params puts them back on every path), and
\* a running generation samples with its own.
THEOREM ParamsAreKeptApart == ServerSpec => []ParamsStayWithTheirRequest
<1>1. ServerInv => ParamsStayWithTheirRequest
  <2> SUFFICES ASSUME ServerInv PROVE ParamsStayWithTheirRequest
    OBVIOUS
  <2>1. ASSUME NEW i \in DOMAIN idle PROVE params[idle[i]] = StartupParams
    <3>1. idle[i] \in Engines
      BY DEF ServerInv, IInv, TypeOK
    <3>2. ASSUME NEW c \in Clients, worker[c] = "running" PROVE lease[c] # idle[i]
      BY <3>2 DEF ServerInv, HandlerMatchesPhase, IInv, EachEngineInOnePlace, Leased
    <3> QED  BY <3>1, <3>2 DEF ServerInv, ParamsKept
  <2> QED  BY <2>1 DEF ServerInv, ParamsKept, ParamsStayWithTheirRequest
<1> QED  BY <1>1, ServerInvariant, PTL

\* A client that has its whole answer neither holds a permit nor waits for one
\* (the lease is dropped before the answer or [DONE] goes out).
THEOREM AnswerComesLast == ServerSpec => []AnsweredMeansReturned
<1>1. ServerInv => AnsweredMeansReturned
  <2> SUFFICES ASSUME ServerInv, NEW c \in Clients, handler[c] \in {"done", "failed"}
               PROVE  phase[c] = "away" /\ c \notin holders /\ ~ Queued(c)
    BY DEF AnsweredMeansReturned
  <2>1. phase[c] = "away"
    BY DEF ServerInv, HandlerMatchesPhase, IInv, TypeOK, Phases
  <2> QED  BY <2>1 DEF ServerInv, IInv, PhaseMatchesPermit, Queued
<1> QED  BY <1>1, ServerInvariant, PTL

\* active_requests is never less than the handlers that owe an answer.
THEOREM GaugeNeverTooLow == ServerSpec => []GaugeCoversHandlers
  BY ServerInvariant, PTL DEF ServerInv

\* However many tokens a stream still had to produce, once its reader is gone the
\* engine runs at most one more pass of the model for it: the receiver is looked
\* for before every forward pass (engine.rs 708-712), and only there.
THEOREM HangUpCostsAtMostOnePass == ServerSpec => []HangUpCostsOnePass
<1>1. ServerInv => HangUpCostsOnePass
  <2> SUFFICES ASSUME ServerInv, NEW c \in Clients PROVE unread[c] <= 1
    BY DEF HangUpCostsOnePass
  <2>1. unread[c] \in Nat
    BY DEF ServerInv, HandlerTypes
  <2> QED  BY <2>1 DEF ServerInv, HangUpIsNoticed
<1> QED  BY <1>1, ServerInvariant, PTL
=============================================================================
