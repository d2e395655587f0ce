---------------------------- MODULE CircuitBreaker ----------------------------
(***************************************************************************)
(* pictor-runtime/src/circuit_breaker.rs: a breaker shared by threads that *)
(* guard their calls with `execute`.  Its four atomics and the mutex       *)
(* around the time of the last failure are separate cells, and no method   *)
(* holds two of them together: every load, store and fetch_add is a step   *)
(* of its own here, so that methods of several threads interleave the way  *)
(* they do in the program.  pc names the next cell a thread will touch.    *)
(*                                                                         *)
(* The three counters are only ever compared with their limits by `>=` or  *)
(* `<`, so counting stops at the limit.  The clock is what the code asks   *)
(* of it: whether recovery_timeout has passed since the recorded failure.  *)
(***************************************************************************)
EXTENDS Naturals

CONSTANTS
    Threads,          \* callers of the breaker
    FailureThreshold, \* failures that open it
    SuccessThreshold, \* successes that close it from half-open
    HalfOpenMax       \* half_open_max_requests

ASSUME LimitsAssumption ==
    /\ FailureThreshold \in Nat \ {0}
    /\ SuccessThreshold \in Nat \ {0}
    /\ HalfOpenMax \in Nat

VARIABLES
    state,               \* "Closed", "Open" or "HalfOpen"
    failure_count,       \* failures since it was last cleared
    success_count,       \* successes while half-open
    half_open_requests,  \* trials asked for while half-open
    last_failure_time,   \* "never", "recent" or "elapsed" (recovery_timeout ago)
    pc                   \* next step of each thread

vars == <<state, failure_count, success_count, half_open_requests, last_failure_time, pc>>

Labels ==
    {"idle", "running",
     "timer", "halfOpen", "clearTrials", "clearWins", "trial",          \* allow_request
     "forgive", "win", "close", "closeFailures", "closeWins",          \* record_success
     "fail", "open", "stamp", "reopen", "restamp", "reTrials", "reWins", \* record_failure
     "resetFailures", "resetWins", "resetTrials", "resetTime"}          \* reset

TypeOK ==
    /\ state \in {"Closed", "Open", "HalfOpen"}
    /\ failure_count \in 0 .. FailureThreshold
    /\ success_count \in 0 .. SuccessThreshold
    /\ half_open_requests \in 0 .. HalfOpenMax
    /\ last_failure_time \in {"never", "recent", "elapsed"}
    /\ pc \in [Threads -> Labels]

Init ==
    /\ state = "Closed"
    /\ failure_count = 0
    /\ success_count = 0
    /\ half_open_requests = 0
    /\ last_failure_time = "never"
    /\ pc = [t \in Threads |-> "idle"]

\* Thread t takes its step named `from` and goes on with `to`.
MethodStep(t, from, to) ==
    /\ pc[t] = from
    /\ pc' = [pc EXCEPT ![t] = to]

\* fetch_add(1), counted no further than the limit it is compared with.
Bump(n, limit) == IF n < limit THEN n + 1 ELSE limit

\* One store: thread t writes v to the cell and goes on with `to`.
StoreState(t, from, v, to) ==
    /\ MethodStep(t, from, to)
    /\ state' = v
    /\ UNCHANGED <<failure_count, success_count, half_open_requests, last_failure_time>>

ClearFailures(t, from, to) ==
    /\ MethodStep(t, from, to)
    /\ failure_count' = 0
    /\ UNCHANGED <<state, success_count, half_open_requests, last_failure_time>>

ClearSuccesses(t, from, to) ==
    /\ MethodStep(t, from, to)
    /\ success_count' = 0
    /\ UNCHANGED <<state, failure_count, half_open_requests, last_failure_time>>

ClearTrials(t, from, to) ==
    /\ MethodStep(t, from, to)
    /\ half_open_requests' = 0
    /\ UNCHANGED <<state, failure_count, success_count, last_failure_time>>

StoreTime(t, from, v, to) ==
    /\ MethodStep(t, from, to)
    /\ last_failure_time' = v
    /\ UNCHANGED <<state, failure_count, success_count, half_open_requests>>

\* One load of the state, which only decides where thread t goes on.
Branch(t, from, closed, open, half) ==
    /\ MethodStep(t, from, CASE state = "Closed" -> closed
                       [] state = "Open" -> open
                       [] OTHER -> half)
    /\ UNCHANGED <<state, failure_count, success_count, half_open_requests, last_failure_time>>

---------------------------------------------------------------------------
\* execute -> allow_request: a closed breaker lets the call through.
AllowRequest(t) == Branch(t, "idle", "running", "timer", "trial")

\* (mutant) An open breaker whose time is up still refuses.
LookAtTimerForever(t) ==
    /\ MethodStep(t, "timer", IF last_failure_time = "never" THEN "halfOpen" ELSE "idle")
    /\ UNCHANGED <<state, failure_count, success_count, half_open_requests, last_failure_time>>

\* Open: under the mutex, is it time to try again?  If not, the call is refused.
LookAtTimer(t) ==
    /\ MethodStep(t, "timer", IF last_failure_time = "recent" THEN "idle" ELSE "halfOpen")
    /\ UNCHANGED <<state, failure_count, success_count, half_open_requests, last_failure_time>>

\* The thread that found the time elapsed opens the trial phase, and its own
\* call goes through without being counted.
EnterHalfOpen(t) ==
    \/ StoreState(t, "halfOpen", "HalfOpen", "clearTrials")
    \/ ClearTrials(t, "clearTrials", "clearWins")
    \/ ClearSuccesses(t, "clearWins", "running")

\* Half-open: the first HalfOpenMax calls counted are let through.
CountTrial(t) ==
    /\ MethodStep(t, "trial", IF half_open_requests < HalfOpenMax THEN "running" ELSE "idle")
    /\ half_open_requests' = Bump(half_open_requests, HalfOpenMax)
    /\ UNCHANGED <<state, failure_count, success_count, last_failure_time>>

\* The guarded call panics: it unwinds through execute and nothing is recorded.
Panic(t) ==
    /\ MethodStep(t, "running", "idle")
    /\ UNCHANGED <<state, failure_count, success_count, half_open_requests, last_failure_time>>

---------------------------------------------------------------------------
\* The guarded call returned Ok: record_success.
Succeed(t) == Branch(t, "running", "forgive", "idle", "win")

Forgive(t) == ClearFailures(t, "forgive", "idle")

\* (mutant) One success more than success_threshold is asked for.
CountSuccessStrictly(t) ==
    /\ MethodStep(t, "win", IF success_count + 1 > SuccessThreshold THEN "close" ELSE "idle")
    /\ success_count' = Bump(success_count, SuccessThreshold)
    /\ UNCHANGED <<state, failure_count, half_open_requests, last_failure_time>>

CountSuccess(t) ==
    /\ MethodStep(t, "win", IF success_count + 1 >= SuccessThreshold THEN "close" ELSE "idle")
    /\ success_count' = Bump(success_count, SuccessThreshold)
    /\ UNCHANGED <<state, failure_count, half_open_requests, last_failure_time>>

\* Enough successes: close, and only then forget both counts.
Close(t) ==
    \/ StoreState(t, "close", "Closed", "closeFailures")
    \/ ClearFailures(t, "closeFailures", "closeWins")
    \/ ClearSuccesses(t, "closeWins", "idle")

---------------------------------------------------------------------------
\* The guarded call returned Err: record_failure.
Fail(t) == Branch(t, "running", "fail", "stamp", "reopen")

CountFailure(t) ==
    /\ MethodStep(t, "fail", IF failure_count + 1 >= FailureThreshold THEN "open" ELSE "idle")
    /\ failure_count' = Bump(failure_count, FailureThreshold)
    /\ UNCHANGED <<state, success_count, half_open_requests, last_failure_time>>

\* Too many failures: the state is stored before the time of the failure.
Open(t) ==
    \/ StoreState(t, "open", "Open", "stamp")
    \/ StoreTime(t, "stamp", "recent", "idle")

\* A trial failed.
Reopen(t) ==
    \/ StoreState(t, "reopen", "Open", "restamp")
    \/ StoreTime(t, "restamp", "recent", "reTrials")
    \/ ClearTrials(t, "reTrials", "reWins")
    \/ ClearSuccesses(t, "reWins", "idle")

---------------------------------------------------------------------------
\* reset(): by an operator, at any moment.
Reset(t) ==
    \/ StoreState(t, "idle", "Closed", "resetFailures")
    \/ ClearFailures(t, "resetFailures", "resetWins")
    \/ ClearSuccesses(t, "resetWins", "resetTrials")
    \/ ClearTrials(t, "resetTrials", "resetTime")
    \/ StoreTime(t, "resetTime", "never", "idle")

\* recovery_timeout passes.
Elapse ==
    /\ last_failure_time = "recent"
    /\ last_failure_time' = "elapsed"
    /\ UNCHANGED <<state, failure_count, success_count, half_open_requests, pc>>

Outcome(t) == Succeed(t) \/ Fail(t) \/ Panic(t)

\* The rest of a method a thread has begun.
GoOn(t) ==
    \/ LookAtTimer(t) \/ EnterHalfOpen(t) \/ CountTrial(t)
    \/ Forgive(t) \/ CountSuccess(t) \/ Close(t)
    \/ CountFailure(t) \/ Open(t) \/ Reopen(t)
    \/ Reset(t) /\ pc[t] # "idle"

Next ==
    \/ Elapse
    \/ \E t \in Threads :
         \/ AllowRequest(t) \/ Succeed(t) \/ Fail(t) \/ Panic(t) \/ Reset(t)
         \/ LookAtTimer(t) \/ EnterHalfOpen(t) \/ CountTrial(t)
         \/ Forgive(t) \/ CountSuccess(t) \/ Close(t)
         \/ CountFailure(t) \/ Open(t) \/ Reopen(t)

Spec == Init /\ [][Next]_vars

\* Time passes, callers keep calling, a guarded call ends, and a thread inside
\* a method goes on (none of them blocks: the mutex is never held for long).
Fairness ==
    /\ WF_vars(Elapse)
    /\ \A t \in Threads : WF_vars(AllowRequest(t)) /\ WF_vars(Outcome(t)) /\ WF_vars(GoOn(t))

FairSpec == Spec /\ Fairness

---------------------------------------------------------------------------
AtRest == \A t \in Threads : pc[t] \in {"idle", "running"}

\* Whenever no method is under way the breaker has acted on its counts: it is
\* not closed with failure_threshold failures on record, nor half-open with
\* success_threshold successes.  Two methods that interleave could each leave
\* the verdict to the other (circuit_breaker.rs 150-242).
NoVerdictPending ==
    AtRest =>
        /\ state = "Closed" => failure_count < FailureThreshold
        /\ state = "HalfOpen" => success_count < SuccessThreshold

\* What makes it inductive: a count at its limit belongs to a thread that is
\* about to store the verdict or about to clear the count.
FailuresAnswered ==
    state = "Closed" /\ failure_count = FailureThreshold =>
        \E t \in Threads : pc[t] \in {"open", "closeFailures", "resetFailures"}

SuccessesAnswered ==
    state = "HalfOpen" /\ success_count = SuccessThreshold =>
        \E t \in Threads : pc[t] \in {"close", "clearTrials", "clearWins"}

IInv == TypeOK /\ FailuresAnswered /\ SuccessesAnswered

\* An open breaker never stays open for good while calls keep arriving: late
\* failures push its timer back, but only those already running can
\* (allow_request, the Open arm, 112-138, against record_failure, 211-218).
OpenIsTried == (state = "Open") ~> (state # "Open")
=============================================================================
