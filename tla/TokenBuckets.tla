---------------------------- MODULE TokenBuckets ----------------------------
(***************************************************************************)
(* What a rate limiter promises: every client has a bucket that fills with *)
(* time and loses a token for every request let through, and all of them   *)
(* share a global one.  A request is turned away only by an empty bucket,  *)
(* and only a reset fills a client's bucket otherwise than by time.        *)
(***************************************************************************)
EXTENDS Integers

CONSTANTS ClientIds, Callers, Burst, Rps, GlobalRps, NoId

VARIABLES
    credit,        \* ClientIds -> tokens
    globalCredit,
    call,          \* Callers -> the client asked for, once past the global bucket
    verdict        \* Callers -> the last answer

bucketVars == <<credit, globalCredit, call, verdict>>

AtMost(cap, n) == IF n < cap THEN n ELSE cap

BucketInit ==
    /\ credit = [id \in ClientIds |-> Burst]
    /\ globalCredit = 2 * GlobalRps
    /\ call = [c \in Callers |-> NoId]
    /\ verdict = [c \in Callers |-> "none"]

TimePasses ==
    /\ credit' = [id \in ClientIds |-> AtMost(Burst, credit[id] + Rps)]
    /\ globalCredit' = AtMost(2 * GlobalRps, globalCredit + GlobalRps)
    /\ UNCHANGED <<call, verdict>>

Admit(c, id) ==
    /\ call[c] = NoId
    /\ \/ /\ globalCredit >= 1
          /\ globalCredit' = globalCredit - 1
          /\ call' = [call EXCEPT ![c] = id]
          /\ UNCHANGED verdict
       \/ /\ globalCredit < 1
          /\ verdict' = [verdict EXCEPT ![c] = "saturated"]
          /\ UNCHANGED <<globalCredit, call>>
    /\ UNCHANGED credit

Answer(c) ==
    /\ call[c] # NoId
    /\ \/ /\ credit[call[c]] >= 1
          /\ credit' = [credit EXCEPT ![call[c]] = @ - 1]
          /\ verdict' = [verdict EXCEPT ![c] = "allow"]
       \/ /\ credit[call[c]] < 1
          /\ verdict' = [verdict EXCEPT ![c] = "deny"]
          /\ UNCHANGED credit
    /\ call' = [call EXCEPT ![c] = NoId]
    /\ UNCHANGED globalCredit

Forgive(id) ==
    /\ credit' = [credit EXCEPT ![id] = Burst]
    /\ UNCHANGED <<globalCredit, call, verdict>>

BucketNext ==
    \/ TimePasses
    \/ \E c \in Callers, id \in ClientIds : Admit(c, id)
    \/ \E c \in Callers : Answer(c)
    \/ \E id \in ClientIds : Forgive(id)

BucketSpec == BucketInit /\ [][BucketNext]_bucketVars
=============================================================================
