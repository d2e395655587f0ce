------------------------------ MODULE ChatServer ------------------------------
(***************************************************************************)
(* The request handlers over the engine pool: POST /v1/chat/completions    *)
(* plain and streamed (server.rs), POST /v1/completions (completions.rs)   *)
(* and the extended chat route (api_extensions.rs), with the part of       *)
(* engine.rs they call: a request's sampling parameters are swapped into   *)
(* the replica for one generation and swapped out again.                   *)
(*                                                                         *)
(* A plain handler generates inline, so it can only be dropped while it    *)
(* awaits its engine.  A streaming handler moves the lease into a blocking *)
(* worker and returns at once; the worker, the response body and a client  *)
(* that hangs up then run side by side, joined by a token channel.         *)
(***************************************************************************)
EXTENDS EnginePool

CONSTANTS
    Mixes,         \* what the clients may ask for: functions to Kinds
    MaxTokens,     \* max_tokens of every request
    MaxChoices,    \* `n` of an extended request
    EngineMetrics  \* set_metrics_all gave the replicas the server's metrics

Kinds == {"chat", "stream", "completion", "extended"}

ASSUME MixAssumption == Mixes \subseteq [Clients -> Kinds]
ASSUME TokenAssumption == MaxTokens \in Nat /\ MaxChoices \in Nat \ {0}
ASSUME MetricsAssumption == EngineMetrics \in BOOLEAN

\* The sampling parameters an engine is built with; the others are named by
\* the request that brought them.
StartupParams == "startup"

VARIABLES
    kind,        \* what each client asks for
    handler,     \* the async handler and, once it answered, its response body
    worker,      \* the generation: inline for a plain request, else a thread
    result,      \* what the last generation of a request returned
    stage,       \* where a running generation is: before or in its prefill,
                 \* about to sample, or in the forward pass of a token it sent
    produced,    \* tokens of the current generation of a request
    unread,      \* history: passes of the model that ended after a hang-up
    choices,     \* generations an extended request still owes
    params,      \* sampling parameters inside each replica
    saved,       \* parameters a running generation will put back
    active,      \* metrics.active_requests
    counted      \* metrics.tokens_generated_total

generation == <<stage, produced, unread>>
serverVars == <<kind, handler, worker, result, generation, choices, params, saved, active, counted>>
allVars == <<vars, serverVars>>

Handlers == {"new", "acquiring", "busy", "body", "done", "failed", "dropped"}
Workers == {"none", "ready", "running", "ended", "returning", "returned", "closed"}
Stages == {"prefill", "sample", "forward"}
AllParams == Clients \cup {StartupParams}

ServerTypeOK ==
    /\ TypeOK
    /\ kind \in Mixes
    /\ handler \in [Clients -> Handlers]
    /\ worker \in [Clients -> Workers]
    /\ result \in [Clients -> {"none", "ok", "err"}]
    /\ stage \in [Clients -> Stages]
    /\ produced \in [Clients -> 0 .. MaxTokens]
    /\ unread \in [Clients -> Nat]
    /\ choices \in [Clients -> 0 .. MaxChoices]
    /\ params \in [Engines -> AllParams]
    /\ saved \in [Clients -> AllParams]
    /\ active \in 0 .. Cardinality(Clients)
    /\ counted \in Nat

ServerInit ==
    /\ Init
    /\ kind \in Mixes
    /\ handler = [c \in Clients |-> "new"]
    /\ worker = [c \in Clients |-> "none"]
    /\ result = [c \in Clients |-> "none"]
    /\ stage = [c \in Clients |-> "prefill"]
    /\ produced = [c \in Clients |-> 0]
    /\ unread = [c \in Clients |-> 0]
    /\ choices = [c \in Clients |-> IF kind[c] = "extended" THEN MaxChoices ELSE 1]
    /\ params = [e \in Engines |-> StartupParams]
    /\ saved = [c \in Clients |-> StartupParams]
    /\ active = 0
    /\ counted = 0

\* The extended route touches no metric.
Metered(c) == kind[c] # "extended"
Tick(c) == IF Metered(c) THEN 1 ELSE 0

\* Every route but /v1/completions swaps the request's parameters in.
WantedParams(c) == IF kind[c] = "completion" THEN StartupParams ELSE c

-----------------------------------------------------------------------------
\* A request whose prompt the tokenizer rejects is answered on the spot.
RejectPrompt(c) ==
    /\ handler[c] = "new"
    /\ handler' = [handler EXCEPT ![c] = "failed"]
    /\ UNCHANGED <<kind, vars, worker, result, generation, choices, params, saved, active, counted>>

\* The handler up to its only await: active_requests.inc, tokenize, acquire.
Arrive(c) ==
    /\ handler[c] = "new"
    /\ handler' = [handler EXCEPT ![c] = "acquiring"]
    /\ active' = active + Tick(c)
    /\ Acquire(c)
    /\ UNCHANGED <<kind, worker, result, generation, choices, params, saved, counted>>

\* The connection closes during that await and the handler is dropped there.
HangUpWaiting(c) ==
    /\ handler[c] = "acquiring"
    /\ handler' = [handler EXCEPT ![c] = "dropped"]
    /\ Cancel(c)
    /\ UNCHANGED <<kind, worker, result, generation, choices, params, saved, active, counted>>

GetEngine(c) ==
    /\ handler[c] = "acquiring"
    /\ handler' = [handler EXCEPT ![c] = "busy"]
    /\ worker' = [worker EXCEPT ![c] = "ready"]
    /\ Pop(c)
    /\ UNCHANGED <<kind, result, generation, choices, params, saved, active, counted>>

\* A streaming handler answers as soon as the worker is spawned.
AnswerStream(c) ==
    /\ kind[c] = "stream"
    /\ handler[c] = "busy"
    /\ handler' = [handler EXCEPT ![c] = "body"]
    /\ active' = active - Tick(c)
    /\ UNCHANGED <<kind, vars, worker, result, generation, choices, params, saved, counted>>

\* The client of a streamed response goes away: the receiver is dropped.
HangUpStreaming(c) ==
    /\ handler[c] = "body"
    /\ handler' = [handler EXCEPT ![c] = "dropped"]
    /\ UNCHANGED <<kind, vars, worker, result, generation, choices, params, saved, active, counted>>
-----------------------------------------------------------------------------
\* generate_with_params / generate_with_seed: put the request's parameters in.
StartGenerate(c) ==
    /\ worker[c] = "ready"
    /\ worker' = [worker EXCEPT ![c] = "running"]
    /\ stage' = [stage EXCEPT ![c] = "prefill"]
    /\ produced' = [produced EXCEPT ![c] = 0]
    /\ saved' = [saved EXCEPT ![c] = params[lease[c]]]
    /\ params' = [params EXCEPT ![lease[c]] =
                     IF kind[c] = "completion" THEN @ ELSE WantedParams(c)]
    /\ UNCHANGED <<kind, vars, handler, result, unread, choices, active, counted>>

\* A pass of the model ends.  Nobody looks for the client while it runs.
PassEnds(c) ==
    unread' = [unread EXCEPT ![c] = IF handler[c] = "dropped" THEN @ + 1 ELSE @]

\* forward_prefill, whether the client of a stream is still there or not.
Prefill(c) ==
    /\ worker[c] = "running" /\ stage[c] = "prefill"
    /\ stage' = [stage EXCEPT ![c] = "sample"]
    /\ PassEnds(c)
    /\ UNCHANGED <<kind, vars, handler, worker, result, produced, choices, params, saved, active,
                   counted>>

\* (mutant) The generation goes on although the receiver is gone.
SendIgnored(c) ==
    /\ worker[c] = "running" /\ stage[c] = "sample"
    /\ produced[c] < MaxTokens
    /\ stage' = [stage EXCEPT ![c] = "forward"]
    /\ UNCHANGED <<kind, vars, handler, worker, result, produced, unread, choices, params, saved,
                   active, counted>>

\* A token is sampled and, in a stream, sent: that fails without a receiver.
Send(c) ==
    /\ worker[c] = "running" /\ stage[c] = "sample"
    /\ produced[c] < MaxTokens
    /\ handler[c] # "dropped"
    /\ stage' = [stage EXCEPT ![c] = "forward"]
    /\ UNCHANGED <<kind, vars, handler, worker, result, produced, unread, choices, params, saved,
                   active, counted>>

\* forward of that token, which counts from here on; the client may have gone
\* since it was sent.
Forward(c) ==
    /\ worker[c] = "running" /\ stage[c] = "forward"
    /\ stage' = [stage EXCEPT ![c] = "sample"]
    /\ produced' = [produced EXCEPT ![c] = @ + 1]
    /\ PassEnds(c)
    /\ UNCHANGED <<kind, vars, handler, worker, result, choices, params, saved, active, counted>>

\* How a generation may end: with an error anywhere, with an empty prompt
\* before the prefill, and before sampling at EOS, the token budget or a
\* closed receiver.
Endings(c) == {"err"} \cup (IF stage[c] = "forward" THEN {} ELSE {"ok"})

\* (mutant) A failed generation returns before the parameters are put back.
EndGenerateEarlyReturn(c) ==
    /\ worker[c] = "running"
    /\ \E r \in Endings(c) :
          /\ result' = [result EXCEPT ![c] = r]
          /\ params' = IF r = "err" THEN params
                       ELSE [params EXCEPT ![lease[c]] = saved[c]]
          /\ worker' = [worker EXCEPT ![c] = "ended"]
          /\ choices' = [choices EXCEPT ![c] = @ - 1]
    /\ UNCHANGED <<kind, vars, handler, generation, saved, active, counted>>

\* The parameters are put back on every path.  The engine counts the tokens
\* of a generation that did not fail.  An extended request starts over until it
\* has its choices or one of them failed.
EndGenerate(c) ==
    /\ worker[c] = "running"
    /\ \E r \in Endings(c) :
          /\ result' = [result EXCEPT ![c] = r]
          /\ choices' = [choices EXCEPT ![c] = @ - 1]
          /\ worker' = [worker EXCEPT ![c] =
                           IF r = "ok" /\ choices[c] > 1 THEN "ready" ELSE "ended"]
          /\ counted' = IF EngineMetrics /\ r = "ok" THEN counted + produced[c] ELSE counted
          /\ IF r = "err" /\ stage[c] # "sample" THEN PassEnds(c) ELSE UNCHANGED unread
    /\ params' = [params EXCEPT ![lease[c]] = saved[c]]
    /\ saved' = [saved EXCEPT ![c] = StartupParams]
    /\ UNCHANGED <<kind, vars, handler, stage, produced, active>>

\* The lease is dropped: engine first, then the permit ...
GiveEngineBack(c) ==
    /\ worker[c] = "ended"
    /\ worker' = [worker EXCEPT ![c] = "returning"]
    /\ ReturnEngine(c)
    /\ UNCHANGED <<kind, handler, result, generation, choices, params, saved, active, counted>>

\* (mutant) The channel is closed as soon as the engine is back.
GivePermitBackLate(c) ==
    /\ worker[c] = "returning"
    /\ worker' = [worker EXCEPT ![c] = "closed"]
    /\ UNCHANGED <<kind, vars, handler, result, generation, choices, params, saved, active, counted>>

GivePermitBack(c) ==
    /\ worker[c] = "returning"
    /\ worker' = [worker EXCEPT ![c] = "returned"]
    /\ ReleasePermit(c)
    /\ UNCHANGED <<kind, handler, result, generation, choices, params, saved, active, counted>>

\* ... and then, in a worker thread, the sender of the token channel.
CloseChannel(c) ==
    /\ worker[c] = "returned"
    /\ worker' = [worker EXCEPT ![c] = "closed"]
    /\ UNCHANGED <<kind, vars, handler, result, generation, choices, params, saved, active, counted>>
-----------------------------------------------------------------------------
\* The response body reaches [DONE] once the channel is closed and drained.
FinishStream(c) ==
    /\ kind[c] = "stream"
    /\ handler[c] = "body"
    /\ worker[c] = "closed"
    /\ handler' = [handler EXCEPT ![c] = "done"]
    /\ UNCHANGED <<kind, vars, worker, result, generation, choices, params, saved, active, counted>>

\* (mutant) The gauge is also decremented where the error is mapped.
FailRequestTwice(c) ==
    /\ kind[c] # "stream"
    /\ handler[c] = "busy" /\ worker[c] = "closed" /\ result[c] = "err"
    /\ handler' = [handler EXCEPT ![c] = "failed"]
    /\ active' = active - 2 * Tick(c)
    /\ UNCHANGED <<kind, vars, worker, result, generation, choices, params, saved, counted>>

\* A plain request whose generation failed.
FailRequest(c) ==
    /\ kind[c] # "stream"
    /\ handler[c] = "busy" /\ worker[c] = "closed" /\ result[c] = "err"
    /\ handler' = [handler EXCEPT ![c] = "failed"]
    /\ active' = active - Tick(c)
    /\ UNCHANGED <<kind, vars, worker, result, generation, choices, params, saved, counted>>

\* A plain request whose tokens are decoded and answered.
FinishRequest(c) ==
    /\ kind[c] # "stream"
    /\ handler[c] = "busy" /\ worker[c] = "closed" /\ result[c] = "ok"
    /\ handler' = [handler EXCEPT ![c] = "done"]
    /\ counted' = IF Metered(c) THEN counted + produced[c] ELSE counted
    /\ active' = active - Tick(c)
    /\ UNCHANGED <<kind, vars, worker, result, generation, choices, params, saved>>

\* A plain request whose tokens do not decode: completions.rs returns through
\* `?` without the decrement, the extended route falls back to another text.
FailDecode(c) ==
    /\ kind[c] \in {"chat", "completion"}
    /\ handler[c] = "busy" /\ worker[c] = "closed" /\ result[c] = "ok"
    /\ handler' = [handler EXCEPT ![c] = "failed"]
    /\ counted' = counted + produced[c]
    /\ active' = IF kind[c] = "chat" THEN active - 1 ELSE active
    /\ UNCHANGED <<kind, vars, worker, result, generation, choices, params, saved>>

Generate(c) ==
    \/ StartGenerate(c)
    \/ Prefill(c)
    \/ Send(c)
    \/ Forward(c)
    \/ EndGenerate(c)

Work(c) ==
    \/ GetEngine(c)
    \/ AnswerStream(c)
    \/ Generate(c)
    \/ GiveEngineBack(c)
    \/ GivePermitBack(c)
    \/ CloseChannel(c)
    \/ FinishStream(c)
    \/ FailRequest(c)
    \/ FinishRequest(c)
    \/ FailDecode(c)

ServerNext ==
    \E c \in Clients :
        \/ RejectPrompt(c)
        \/ Arrive(c)
        \/ HangUpWaiting(c)
        \/ HangUpStreaming(c)
        \/ Work(c)

\* The runtime keeps polling ready tasks and running threads, and clients of a
\* stream that stay connected read it; nobody has to arrive or to hang up.  That
\* a generation ends is not assumed: it runs out of tokens.
ServerFairness ==
    \A c \in Clients :
        /\ WF_allVars(GetEngine(c))
        /\ WF_allVars(AnswerStream(c))
        /\ WF_allVars(Generate(c))
        /\ WF_allVars(GiveEngineBack(c) \/ GivePermitBack(c) \/ CloseChannel(c))
        /\ WF_allVars(FinishStream(c) \/ FailRequest(c) \/ FinishRequest(c) \/ FailDecode(c))

ServerSpec == ServerInit /\ [][ServerNext]_allVars
FairServerSpec == ServerSpec /\ ServerFairness
-----------------------------------------------------------------------------
Over == {"done", "failed", "dropped"}

\* The next request to take a replica finds the startup parameters in it, so
\* one that omits `temperature` is not served with another's (server.rs
\* 382-385), and a running generation samples with its own.
ParamsStayWithTheirRequest ==
    /\ \A i \in DOMAIN idle : params[idle[i]] = StartupParams
    /\ \A c \in Clients :
          worker[c] = "running" => params[lease[c]] = WantedParams(c)

\* A client that has its whole answer, [DONE] included, knows that the replica
\* and its slot are free again: asking anew cannot queue behind itself.
AnsweredMeansReturned ==
    \A c \in Clients :
        handler[c] \in {"done", "failed"} =>
            phase[c] = "away" /\ c \notin holders /\ ~ Queued(c)

\* active_requests covers every handler that has not answered yet and never
\* goes below zero, whichever error path is taken.
GaugeCoversHandlers ==
    active >= Cardinality({c \in Clients : Metered(c) /\ handler[c] \in {"acquiring", "busy"}})

\* "If receiver dropped, stop generating" (engine.rs 708): a stream that nobody
\* reads costs at most one more pass of the model, be it the prefill or the forward
\* pass of the token that was sent last, however the hang-up falls between the two.
HangUpCostsOnePass == \A c \in Clients : unread[c] <= 1

\* Whoever arrived is answered or gone in the end, and its replica is back.
EveryRequestEnds ==
    \A c \in Clients :
        handler[c] = "acquiring" ~> (handler[c] \in Over /\ phase[c] = "away")

\* metrics.rs 320: "Number of currently active (in-flight) requests".  With
\* every request over, that number is zero.
GaugeZeroWhenQuiet ==
    (\A c \in Clients : handler[c] \in Over /\ phase[c] = "away") => active = 0
-----------------------------------------------------------------------------
\* Handler, worker and pool agree on how far a request has come.
HandlerMatchesPhase ==
    \A c \in Clients :
        /\ handler[c] = "acquiring" <=> phase[c] = "acquiring"
        /\ phase[c] = "leased" <=> worker[c] \in {"ready", "running", "ended"}
        /\ phase[c] = "returning" <=> worker[c] = "returning"
        /\ handler[c] \in {"new", "acquiring"} => worker[c] = "none"
        /\ handler[c] \in {"done", "failed"} => worker[c] \in {"none", "closed"}

\* A replica has other parameters than at startup only while a generation that
\* brought them is running in it, and that generation has the old ones saved.
ParamsKept ==
    /\ \A c \in Clients :
          worker[c] = "running" => /\ saved[c] = StartupParams
                                  /\ params[lease[c]] = WantedParams(c)
    /\ \A e \in Engines :
          params[e] # StartupParams => \E c \in Clients : worker[c] = "running" /\ lease[c] = e

\* Who hung up on a stream has one generation, and after a pass nobody waited for
\* that generation is about to notice, or over.
HangUpIsNoticed ==
    \A c \in Clients :
        /\ kind[c] # "extended" => choices[c] <= 1
        /\ handler[c] = "body" => kind[c] = "stream"
        /\ handler[c] = "dropped" => worker[c] = "none" \/ kind[c] = "stream"
        /\ unread[c] > 0 => /\ unread[c] = 1 /\ handler[c] = "dropped"
                            /\ worker[c] \notin {"none", "ready"}
                            /\ worker[c] = "running" => stage[c] = "sample"

HandlerTypes ==
    /\ kind \in [Clients -> Kinds]
    /\ handler \in [Clients -> Handlers]
    /\ worker \in [Clients -> Workers]
    /\ stage \in [Clients -> Stages]
    /\ unread \in [Clients -> Nat]
    /\ choices \in [Clients -> Int]
    /\ params \in [Engines -> AllParams]
    /\ saved \in [Clients -> AllParams]
    /\ active \in Int

\* The inductive invariant behind the theorems of ChatServerProofs.
ServerInv ==
    /\ IInv
    /\ HandlerTypes
    /\ HandlerMatchesPhase
    /\ ParamsKept
    /\ GaugeCoversHandlers
    /\ HangUpIsNoticed

\* The handlers use the pool in no way but its own.
UsesThePool == Spec
=============================================================================
