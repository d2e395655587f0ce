------------------------------ MODULE EnginePool ------------------------------
(***************************************************************************)
(* pictor-runtime/src/engine_pool.rs: a stack of interchangeable inference *)
(* engines behind a semaphore.  `acquire` waits for a permit and then pops *)
(* an engine under a mutex; dropping the lease pushes the engine back and  *)
(* only then lets the permit go.  Every separate critical section is an    *)
(* action, so the pool is examined between any two of them.                *)
(*                                                                         *)
(* A client is a request task.  It may come back for another lease, may be *)
(* dropped at the one await point of `acquire` (its peer disconnected),    *)
(* and keeps a lease for as long as one generation takes.                  *)
(***************************************************************************)
EXTENDS FairSemaphore

CONSTANT NumEngines    \* length of the vector given to EnginePool::new

ASSUME EnginesAssumption == NumEngines \in Nat

Engines == 1 .. NumEngines
NoEngine == 0

\* EnginePool::new: size = engines.len().max(1), and that many permits.
PoolSize == IF NumEngines = 0 THEN 1 ELSE NumEngines
ASSUME PoolSizeAssumption == Permits = PoolSize

VARIABLES
    idle,     \* the Vec of idle engines; its last element is popped first
    phase,    \* where each client is in acquire / use / drop
    lease     \* the engine inside each client's EngineLease, if it has one

vars == <<permits, waiters, holders, idle, phase, lease>>

Phases == {"away", "acquiring", "leased", "returning"}

TypeOK ==
    /\ SemTypeOK
    /\ idle \in Seq(Engines)
    /\ phase \in [Clients -> Phases]
    /\ lease \in [Clients -> Engines \cup {NoEngine}]

Init ==
    /\ SemInit
    /\ idle = [i \in 1 .. NumEngines |-> i]
    /\ phase = [c \in Clients |-> "away"]
    /\ lease = [c \in Clients |-> NoEngine]

\* acquire(): the future is polled for the first time.
Acquire(c) ==
    /\ phase[c] = "away"
    /\ phase' = [phase EXCEPT ![c] = "acquiring"]
    /\ SemRequest(c)
    /\ UNCHANGED <<idle, lease>>

\* (mutant) The replica is looked at but not taken off the stack.
PopWithoutRemoving(c) ==
    /\ phase[c] = "acquiring"
    /\ c \in holders
    /\ idle # <<>>
    /\ lease' = [lease EXCEPT ![c] = Last(idle)]
    /\ phase' = [phase EXCEPT ![c] = "leased"]
    /\ UNCHANGED <<permits, waiters, holders, idle>>

\* acquire() after its await: pop an engine and build the lease.
Pop(c) ==
    /\ phase[c] = "acquiring"
    /\ c \in holders
    /\ idle # <<>>
    /\ lease' = [lease EXCEPT ![c] = Last(idle)]
    /\ idle' = Front(idle)
    /\ phase' = [phase EXCEPT ![c] = "leased"]
    /\ UNCHANGED semVars

\* (mutant) The permit of a failed acquisition is forgotten.
PopEmptyKeepsPermit(c) ==
    /\ phase[c] = "acquiring"
    /\ c \in holders
    /\ idle = <<>>
    /\ phase' = [phase EXCEPT ![c] = "away"]
    /\ UNCHANGED <<permits, waiters, holders, idle, lease>>

\* acquire() after its await, nothing to pop: PoolError::Empty, and the `?`
\* drops the permit.
PopEmpty(c) ==
    /\ phase[c] = "acquiring"
    /\ c \in holders
    /\ idle = <<>>
    /\ phase' = [phase EXCEPT ![c] = "away"]
    /\ SemRelease(c)
    /\ UNCHANGED <<idle, lease>>

\* (mutant) A request dropped after it was handed its permit takes it along.
CancelLeaksPermit(c) ==
    /\ phase[c] = "acquiring"
    /\ phase' = [phase EXCEPT ![c] = "away"]
    /\ SemForget(c) \/ (c \in holders /\ holders' = holders \ {c}
                                     /\ UNCHANGED <<permits, waiters>>)
    /\ UNCHANGED <<idle, lease>>

\* The request task is dropped at the await: its place in the queue, or the
\* permit it was handed meanwhile, goes back to the semaphore.
Cancel(c) ==
    /\ phase[c] = "acquiring"
    /\ phase' = [phase EXCEPT ![c] = "away"]
    /\ SemForget(c) \/ SemRelease(c)
    /\ UNCHANGED <<idle, lease>>

\* (mutant) The lease is dropped without its replica going back.
ReturnEngineDropsReplica(c) ==
    /\ phase[c] = "leased"
    /\ lease' = [lease EXCEPT ![c] = NoEngine]
    /\ phase' = [phase EXCEPT ![c] = "returning"]
    /\ UNCHANGED <<permits, waiters, holders, idle>>

\* Drop for EngineLease: the engine goes back on the stack first ...
ReturnEngine(c) ==
    /\ phase[c] = "leased"
    /\ idle' = Append(idle, lease[c])
    /\ lease' = [lease EXCEPT ![c] = NoEngine]
    /\ phase' = [phase EXCEPT ![c] = "returning"]
    /\ UNCHANGED semVars

\* ... and the `_permit` field is dropped last.
ReleasePermit(c) ==
    /\ phase[c] = "returning"
    /\ phase' = [phase EXCEPT ![c] = "away"]
    /\ SemRelease(c)
    /\ UNCHANGED <<idle, lease>>

Next ==
    \E c \in Clients :
        \/ Acquire(c)
        \/ Pop(c)
        \/ PopEmpty(c)
        \/ Cancel(c)
        \/ ReturnEngine(c)
        \/ ReleasePermit(c)

\* The executor polls a woken task, a generation ends (it is bounded by
\* max_tokens) and a drop runs to its end.  Nobody has to ask or to cancel.
Fairness ==
    \A c \in Clients :
        /\ WF_vars(Pop(c) \/ PopEmpty(c))
        /\ WF_vars(ReturnEngine(c))
        /\ WF_vars(ReleasePermit(c))

Spec == Init /\ [][Next]_vars
FairSpec == Spec /\ Fairness
-----------------------------------------------------------------------------
Leased == {c \in Clients : phase[c] = "leased"}

\* The field comment of `idle` (lines 74-76): the engines checked out and the
\* idle ones always add up to `size`, and no engine is counted twice: two
\* requests never run on one replica, none is both leased and idle.
EachEngineInOnePlace ==
    /\ \A i, j \in DOMAIN idle : idle[i] = idle[j] => i = j
    /\ \A c \in Leased : \A i \in DOMAIN idle : idle[i] # lease[c]
    /\ \A c, d \in Leased : lease[c] = lease[d] => c = d
    /\ Len(idle) + Cardinality(Leased) = NumEngines

\* PoolError::Empty "cannot happen under correct operation" (lines 56-60): a
\* client that has been handed a permit finds an engine on the stack.
GrantedFindsEngine ==
    NumEngines > 0 =>
        \A c \in holders : phase[c] = "acquiring" => idle # <<>>

\* A request waiting for an engine is eventually answered, however many
\* others keep coming back: it gets its engine, an error, or goes away.
EveryRequestAnswered ==
    \A c \in Clients : phase[c] = "acquiring" ~> phase[c] # "acquiring"
\* The phase of a client against the semaphore: a lease, or one being dropped,
\* always has its permit, and only a client inside `acquire` is queued.
PhaseMatchesPermit ==
    /\ \A c \in Clients : phase[c] \in {"leased", "returning"} => c \in holders
    /\ \A c \in holders : phase[c] # "away"
    /\ \A i \in DOMAIN waiters : phase[waiters[i]] = "acquiring"
    /\ \A c \in Clients : lease[c] # NoEngine <=> phase[c] = "leased"

\* The inductive invariant behind the theorems of ChatServerProofs.
IInv ==
    /\ TypeOK
    /\ SemInv
    /\ PhaseMatchesPermit
    /\ EachEngineInOnePlace
-----------------------------------------------------------------------------
\* What the pool is for, as a relation between clients and engines.
Asking == {c \in Clients : phase[c] = "acquiring"}
LeasePairs == {<<c, lease[c]>> : c \in Leased}

Exclusive == INSTANCE ExclusiveLeases WITH wants <- Asking, owns <- LeasePairs

\* The pool implements exclusive leases: every step is one of theirs or none.
LeasesAreExclusive == Exclusive!Spec
=============================================================================
