---------------------------- MODULE FairSemaphore ----------------------------
(***************************************************************************)
(* The tokio semaphore that guards engine_pool.rs and async_engine.rs,     *)
(* modelled from how those files use it: single-permit acquisitions that   *)
(* queue first come first served, a permit handed straight to the oldest   *)
(* waiter on release, and a future that may be dropped both while it is    *)
(* queued and after it was handed its permit but before it ran again.      *)
(***************************************************************************)
EXTENDS Integers, Sequences, SequencesExt, FiniteSets

CONSTANTS
    Clients,    \* the tasks that may ask for a permit
    Permits     \* the permits the semaphore is built with

ASSUME ClientsAssumption == IsFiniteSet(Clients)
ASSUME PermitsAssumption == Permits \in Nat \ {0}

VARIABLES
    permits,    \* permits nobody holds
    waiters,    \* clients whose acquire future is queued, oldest first
    holders     \* clients that hold a permit, or were handed one

semVars == <<permits, waiters, holders>>

SemTypeOK ==
    /\ permits \in Nat
    /\ waiters \in Seq(Clients)
    /\ holders \subseteq Clients

SemInit ==
    /\ permits = Permits
    /\ waiters = <<>>
    /\ holders = {}

Queued(c) == \E i \in DOMAIN waiters : waiters[i] = c

\* First poll of an acquire: take a free permit, or join the end of the queue.
SemRequest(c) ==
    \/ /\ permits > 0
       /\ permits' = permits - 1
       /\ holders' = holders \cup {c}
       /\ UNCHANGED waiters
    \/ /\ permits = 0
       /\ waiters' = Append(waiters, c)
       /\ UNCHANGED <<permits, holders>>

\* A permit is dropped: the oldest waiter gets it, or it becomes free.
SemRelease(c) ==
    /\ c \in holders
    /\ \/ /\ waiters = <<>>
          /\ permits' = permits + 1
          /\ holders' = holders \ {c}
          /\ UNCHANGED waiters
       \/ /\ waiters # <<>>
          /\ holders' = (holders \ {c}) \cup {Head(waiters)}
          /\ waiters' = Tail(waiters)
          /\ UNCHANGED permits

\* A queued acquire future is dropped.
SemForget(c) ==
    \E i \in DOMAIN waiters :
        /\ waiters[i] = c
        /\ waiters' = RemoveAt(waiters, i)
        /\ UNCHANGED <<permits, holders>>
-----------------------------------------------------------------------------
\* Permits are neither minted nor lost, whatever is cancelled when (`sem` has
\* exactly `size` permits, engine_pool.rs lines 78-80).
PermitsConserved == permits + Cardinality(holders) = Permits

\* A free permit is never kept from a queued client: no lost wakeup.
NoIdlePermitWhileQueued == waiters # <<>> => permits = 0

\* A client is in the queue at most once, and not while it holds a permit.
QueuedOnce ==
    /\ \A i, j \in DOMAIN waiters : waiters[i] = waiters[j] => i = j
    /\ \A i \in DOMAIN waiters : waiters[i] \notin holders

\* The inductive invariant of every module built on the semaphore.
SemInv ==
    /\ SemTypeOK
    /\ PermitsConserved
    /\ NoIdlePermitWhileQueued
    /\ QueuedOnce
=============================================================================
