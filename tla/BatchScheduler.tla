---------------------------- MODULE BatchScheduler ----------------------------
(***************************************************************************)
(* ContinuousBatchScheduler of pictor-runtime/src/continuous_batch.rs: a   *)
(* waiting queue ordered by priority, a set of active requests that each   *)
(* get one token per step, and a list of finished ones.  It is used by one *)
(* caller at a time (&mut self): a step is one action, what the engine     *)
(* makes of each active request is an input of it.                         *)
(***************************************************************************)
EXTENDS Integers, Sequences, SequencesExt, FiniteSetsExt

CONSTANTS
    MaxConcurrent,  \* as given to new, which raises 0 to 1
    MaxQueue,
    Priorities,     \* numbers, a greater one is served first
    Budgets,        \* values of max_tokens
    MaxRequests     \* bound: requests submitted in a behaviour

ASSUME SchedulerAssumption ==
    /\ MaxConcurrent \in Nat /\ MaxQueue \in Nat /\ MaxRequests \in Nat
    /\ Priorities \subseteq Nat /\ Budgets \subseteq Nat

VARIABLES
    queue,      \* waiting requests, the next one first
    active,     \* requests that are being served
    completed,  \* finished requests that were not drained yet
    issued,     \* ids handed out: 1 .. issued
    promoted    \* history: requests in the order in which they left the queue

schedulerVars == <<queue, active, completed, issued, promoted>>

AtLeastOne(n) == IF n = 0 THEN 1 ELSE n

SchedulerInit ==
    /\ queue = <<>> /\ active = <<>> /\ completed = <<>>
    /\ issued = 0
    /\ promoted = <<>>

NewRequest(priority, budget) ==
    [id |-> issued + 1, priority |-> priority, budget |-> budget, made |-> 0, state |-> "Waiting"]

\* (mutant) In front of requests of the same priority.
PlaceBeforeEqual(priority) ==
    Min({i \in DOMAIN queue : queue[i].priority <= priority} \cup {Len(queue) + 1})

\* In front of the first request of lower priority, or at the end.
Place(priority) ==
    Min({i \in DOMAIN queue : queue[i].priority < priority} \cup {Len(queue) + 1})

Submit(priority, budget) ==
    /\ issued < MaxRequests
    /\ Len(queue) < AtLeastOne(MaxQueue)
    /\ queue' = InsertAt(queue, Place(priority), NewRequest(priority, budget))
    /\ issued' = issued + 1
    /\ UNCHANGED <<active, completed, promoted>>

\* How many waiting requests find room.
Room == Cardinality({i \in DOMAIN queue : Len(active) + i <= AtLeastOne(MaxConcurrent)})
Entering == [i \in 1 .. Room |-> [queue[i] EXCEPT !.state = "Prefilling"]]

\* One call of the engine for a request: a token, the end of the text, or an error.
Served(r, outcome) ==
    LET made == IF outcome = "token" THEN r.made + 1 ELSE r.made
    IN  [r EXCEPT !.made = made,
                  !.state = CASE outcome = "error" -> "Failed"
                              [] outcome = "eos" \/ made >= r.budget -> "Completed"
                              [] OTHER -> "Decoding"]

Finished(r) == r.state \in {"Completed", "Failed"}
FinishedIndices(served) == {i \in DOMAIN served : Finished(served[i])}

\* (mutant) From the first to the last: each removal shifts those behind it.
RemovedForward(served) ==
    {i + Cardinality({j \in FinishedIndices(served) : j < i}) : i \in FinishedIndices(served)}

\* finished_indices are removed from the last to the first: each is still valid.
Removed(served) == FinishedIndices(served)

Picked(served, indices) ==
    LET picked == SelectSeq([i \in DOMAIN served |-> i], LAMBDA i : i \in indices)
    IN  [n \in DOMAIN picked |-> served[picked[n]]]

Step ==
    /\ Len(active) + Room > 0
    /\ queue' = SubSeq(queue, Room + 1, Len(queue))
    /\ promoted' = promoted \o Entering
    /\ LET running == active \o Entering
       IN  \E outcome \in [DOMAIN running -> {"token", "eos", "error"}] :
              LET served == [i \in DOMAIN running |-> Served(running[i], outcome[i])]
                  removed == Removed(served) \cap DOMAIN served
              IN  /\ active' = Picked(served, DOMAIN served \ removed)
                  /\ completed' = completed \o Reverse(Picked(served, removed))
    /\ UNCHANGED issued

DrainCompleted ==
    /\ completed # <<>>
    /\ completed' = <<>>
    /\ UNCHANGED <<queue, active, issued, promoted>>

SchedulerNext ==
    \/ \E priority \in Priorities, budget \in Budgets : Submit(priority, budget)
    \/ Step
    \/ DrainCompleted

\* run_to_completion calls step until nothing is left.
SchedulerFairness == WF_schedulerVars(Step)

SchedulerSpec == SchedulerInit /\ [][SchedulerNext]_schedulerVars /\ SchedulerFairness
-----------------------------------------------------------------------------
\* A request enters the batch before every other that was submitted after it
\* with no higher priority, however submissions and steps alternate
\* (submit_with_priority, step).
NoOvertaking ==
    \A i, j \in DOMAIN promoted :
        i < j => ~ (/\ promoted[j].id < promoted[i].id
                    /\ promoted[j].priority >= promoted[i].priority)

Pending(id) == (\E i \in DOMAIN queue : queue[i].id = id)
            \/ (\E i \in DOMAIN active : active[i].id = id)

\* Once submissions end, every request is handed back as completed or failed
\* (step, run_to_completion): none is lost when several finish in one step.
EveryRequestFinishes ==
    \A id \in 1 .. MaxRequests :
        Pending(id) ~> \E i \in DOMAIN completed : completed[i].id = id /\ Finished(completed[i])
-----------------------------------------------------------------------------
Requests == [id : Nat, priority : Nat, budget : Nat, made : Nat, state : {"Waiting", "Prefilling"}]

\* `a` may be served before `b`: it was not submitted later with no higher priority.
MayPrecede(a, b) == ~ (b.id < a.id /\ b.priority >= a.priority)

\* Waiting requests stand by falling priority, and by age where it is equal.
QueueInOrder ==
    \A i, j \in DOMAIN queue :
        i < j => queue[i].priority >= queue[j].priority /\ MayPrecede(queue[i], queue[j])

\* The inductive invariant behind ServedInOrder of LibraryProofs: whoever left
\* the queue was ahead of all who are still in it.
SchedulerInv ==
    /\ issued \in Nat
    /\ queue \in Seq(Requests) /\ promoted \in Seq(Requests)
    /\ \A i \in DOMAIN queue : queue[i].id <= issued
    /\ \A i \in DOMAIN promoted : promoted[i].id <= issued
    /\ QueueInOrder
    /\ \A i \in DOMAIN promoted, j \in DOMAIN queue : MayPrecede(promoted[i], queue[j])
    /\ NoOvertaking
=============================================================================
