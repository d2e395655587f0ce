----------------------------- MODULE AsyncEngine -----------------------------
(***************************************************************************)
(* AsyncInferenceEngine of pictor-runtime/src/async_engine.rs: a semaphore *)
(* of max_concurrent permits in front of one engine behind a tokio mutex,  *)
(* both fair.  A call is a future that spawns a blocking job.  The permit  *)
(* of generate belongs to the future and that of generate_streaming to the *)
(* job; a dropped future leaves its job running.  A job may panic.         *)
(***************************************************************************)
EXTENDS Integers, FiniteSets

CONSTANTS
    Calls,         \* calls made in a behaviour, each once
    MaxInFlight    \* max_concurrent

\* new raises max_concurrent to one.
ASSUME AsyncAssumption == IsFiniteSet(Calls) /\ MaxInFlight \in Nat \ {0}

VARIABLES
    slotsFree, slotQueue, slotHolders,   \* the semaphore
    lockFree, lockQueue, lockHolders,    \* the mutex of the engine
    future,   \* "idle", "asking", "awaiting", "returned", "failed" or "dropped"
    streams,  \* calls of generate_streaming
    job,      \* "none", "spawned", "locking", "generating", "unlocking", "done" or "panicked"
    gauge     \* metrics.active_requests

slotVars == <<slotsFree, slotQueue, slotHolders>>
lockVars == <<lockFree, lockQueue, lockHolders>>
asyncVars == <<slotsFree, slotQueue, slotHolders, lockFree, lockQueue, lockHolders,
               future, streams, job, gauge>>

Slots == INSTANCE FairSemaphore WITH
    Clients <- Calls, Permits <- MaxInFlight,
    permits <- slotsFree, waiters <- slotQueue, holders <- slotHolders
Lock == INSTANCE FairSemaphore WITH
    Clients <- Calls, Permits <- 1,
    permits <- lockFree, waiters <- lockQueue, holders <- lockHolders

AsyncInit ==
    /\ Slots!SemInit /\ Lock!SemInit
    /\ future = [c \in Calls |-> "idle"]
    /\ streams = {}
    /\ job = [c \in Calls |-> "none"]
    /\ gauge = 0

Ask(c, streaming) ==
    /\ future[c] = "idle"
    /\ future' = [future EXCEPT ![c] = "asking"]
    /\ streams' = IF streaming THEN streams \cup {c} ELSE streams
    /\ Slots!SemRequest(c)
    /\ UNCHANGED <<lockVars, job, gauge>>

\* (mutant) The streaming call returns its permit together with the receiver.
SpawnWithoutPermit(c) ==
    /\ future[c] = "asking" /\ c \in slotHolders
    /\ gauge' = gauge + 1
    /\ job' = [job EXCEPT ![c] = "spawned"]
    /\ future' = [future EXCEPT ![c] = IF c \in streams THEN "returned" ELSE "awaiting"]
    /\ IF c \in streams THEN Slots!SemRelease(c) ELSE UNCHANGED slotVars
    /\ UNCHANGED <<lockVars, streams>>

\* The permit is there: count, spawn the job; a stream returns its receiver.
Spawn(c) ==
    /\ future[c] = "asking" /\ c \in slotHolders
    /\ gauge' = gauge + 1
    /\ job' = [job EXCEPT ![c] = "spawned"]
    /\ future' = [future EXCEPT ![c] = IF c \in streams THEN "returned" ELSE "awaiting"]
    /\ UNCHANGED <<slotVars, lockVars, streams>>

RequestLock(c) ==
    /\ job[c] = "spawned"
    /\ job' = [job EXCEPT ![c] = "locking"]
    /\ Lock!SemRequest(c)
    /\ UNCHANGED <<slotVars, future, streams, gauge>>

Generate(c) ==
    /\ job[c] = "locking" /\ c \in lockHolders
    /\ job' = [job EXCEPT ![c] = "generating"]
    /\ UNCHANGED <<slotVars, lockVars, future, streams, gauge>>

\* A stream uncounts itself and drops its permit before the lock goes.
FinishJob(c) ==
    /\ job[c] = "generating"
    /\ \/ /\ c \notin streams
          /\ job' = [job EXCEPT ![c] = "done"]
          /\ Lock!SemRelease(c)
          /\ UNCHANGED <<slotVars, gauge>>
       \/ /\ c \in streams
          /\ job' = [job EXCEPT ![c] = "unlocking"]
          /\ gauge' = gauge - 1
          /\ Slots!SemRelease(c)
          /\ UNCHANGED lockVars
    /\ UNCHANGED <<future, streams>>

Unlock(c) ==
    /\ job[c] = "unlocking"
    /\ job' = [job EXCEPT ![c] = "done"]
    /\ Lock!SemRelease(c)
    /\ UNCHANGED <<slotVars, future, streams, gauge>>

\* (mutant) As with a mutex that is poisoned, the lock stays.
PanicKeepsLock(c) ==
    /\ job[c] = "generating"
    /\ job' = [job EXCEPT ![c] = "panicked"]
    /\ IF c \in streams THEN Slots!SemRelease(c) ELSE UNCHANGED slotVars
    /\ UNCHANGED <<lockVars, future, streams, gauge>>

\* The guard goes when the job unwinds, and the permit when it is a stream's;
\* nothing uncounts the request.
PanicJob(c) ==
    /\ job[c] = "generating"
    /\ job' = [job EXCEPT ![c] = "panicked"]
    /\ Lock!SemRelease(c)
    /\ IF c \in streams THEN Slots!SemRelease(c) ELSE UNCHANGED slotVars
    /\ UNCHANGED <<future, streams, gauge>>

\* generate resumes; `?` skips the gauge when the job panicked.
Return(c) ==
    /\ future[c] = "awaiting"
    /\ \/ /\ job[c] = "done"
          /\ future' = [future EXCEPT ![c] = "returned"]
          /\ gauge' = gauge - 1
       \/ /\ job[c] = "panicked"
          /\ future' = [future EXCEPT ![c] = "failed"]
          /\ UNCHANGED gauge
    /\ Slots!SemRelease(c)
    /\ UNCHANGED <<lockVars, streams, job>>

\* The future is dropped: so is its place in the queue or its permit, and
\* neither the job nor the gauge hears of it.
HangUp(c) ==
    /\ future[c] \in {"asking", "awaiting"}
    /\ future' = [future EXCEPT ![c] = "dropped"]
    /\ IF c \in slotHolders THEN Slots!SemRelease(c) ELSE Slots!SemForget(c)
    /\ UNCHANGED <<lockVars, streams, job, gauge>>

\* What runs by itself: at most one of these is enabled for a call.
Proceed(c) ==
    Spawn(c) \/ RequestLock(c) \/ Generate(c) \/ FinishJob(c) \/ PanicJob(c) \/ Unlock(c) \/ Return(c)

AsyncNext ==
    \E c \in Calls :
        \/ \E streaming \in BOOLEAN : Ask(c, streaming)
        \/ Proceed(c)
        \/ HangUp(c)

\* The runtime polls woken futures and runs spawned jobs; generation ends.
AsyncFairness == \A c \in Calls : WF_asyncVars(Proceed(c))

AsyncSpec == AsyncInit /\ [][AsyncNext]_asyncVars /\ AsyncFairness
-----------------------------------------------------------------------------
Working == {c \in Calls : job[c] \in {"spawned", "locking", "generating"}}

\* Every job is covered by a permit until it has generated, unless its caller
\* hung up (generate, generate_streaming); the gauge counts them all, those
\* too, and one generates at a time.
WorkIsAdmitted ==
    /\ \A c \in Working : c \in slotHolders \/ future[c] = "dropped"
    /\ Cardinality(slotHolders) + slotsFree = MaxInFlight
    /\ gauge >= Cardinality(Working)
    /\ Cardinality({c \in Calls : job[c] \in {"generating", "unlocking"}}) <= 1

\* Whoever asks is answered or hangs up, whatever other callers and jobs do:
\* dropped futures, abandoned jobs and panics keep neither a permit nor the
\* engine for ever.
EveryCallAnswered ==
    \A c \in Calls : future[c] = "asking" ~> future[c] \in {"returned", "failed", "dropped"}
-----------------------------------------------------------------------------
AsyncTypes ==
    /\ future \in [Calls -> {"idle", "asking", "awaiting", "returned", "failed", "dropped"}]
    /\ streams \subseteq Calls
    /\ job \in [Calls -> {"none", "spawned", "locking", "generating", "unlocking", "done", "panicked"}]
    /\ gauge \in Int

\* A permit is with a future that waits or with the job of a stream; a future
\* that is gone has given up its permit and its place in the queue.
SlotsFollowCalls ==
    \A c \in Calls :
        /\ future[c] \in {"idle", "asking"} => job[c] = "none"
        /\ Slots!Queued(c) => future[c] = "asking"
        /\ c \in slotHolders => \/ future[c] \in {"asking", "awaiting"}
                                \/ future[c] = "returned" /\ c \in Working \cap streams
        /\ future[c] = "awaiting" => c \notin streams /\ job[c] # "none"
        /\ c \in Working => c \in slotHolders \/ future[c] = "dropped"

\* The mutex is asked for by jobs that lock and held by those that generate.
LockFollowsJobs ==
    \A c \in Calls :
        /\ Lock!Queued(c) => job[c] = "locking"
        /\ c \in lockHolders => job[c] \in {"locking", "generating", "unlocking"}
        /\ job[c] \in {"generating", "unlocking"} => c \in lockHolders
        /\ job[c] = "unlocking" => c \in streams

\* Who will still be subtracted from the gauge, or should be.
Counted == Working \cup {c \in Calls : future[c] = "awaiting" /\ job[c] = "done"}
GaugeCoversCounted == gauge >= Cardinality(Counted)

\* The inductive invariant behind AdmittedWork of LibraryProofs.
AsyncInv ==
    /\ Slots!SemInv
    /\ Lock!SemInv
    /\ AsyncTypes
    /\ SlotsFollowCalls
    /\ LockFollowsJobs
    /\ GaugeCoversCounted
=============================================================================
