------------------------------ MODULE GpuForward ------------------------------
(***************************************************************************)
(* Where a forward pass runs and what it reads: pictor-model/src/model/    *)
(* types (forward, forward_prefill, forward_prefill_verify), the CUDA full *)
(* forward with its captured driver graph, the CUDA batch prefill, and the *)
(* Metal twins.                                                            *)
(*                                                                         *)
(* A process keeps several KV stores: one per model in CPU memory, one on  *)
(* the GPU for decoding, and on CUDA one more per batch-prefill path.  All *)
(* GPU state belongs to the process and outlives the model: activation     *)
(* buffers, KV, the handles of all layers (cached_model_weights), norm     *)
(* weights under fixed keys, and the recorded kernel sequence (the driver  *)
(* graph), which holds raw pointers into all of these.  Buffers and KV are *)
(* reallocated when their dimensions stop to match.                        *)
(*                                                                         *)
(* A row of a store is the model and the tokens it was computed from:      *)
(* Empty when nothing was written, Bad when computed from anything else    *)
(* than a model's own prefix.  `right` says whether every answer of the    *)
(* running generation came from the loaded model and the rows of exactly   *)
(* its own prefix.  The engine serves one request at a time (GPU tiers run *)
(* a single replica), so an action is one forward call.                    *)
(***************************************************************************)
EXTENDS Integers, Sequences, SequencesExt

CONSTANTS
    Models,      \* what the process may load, one after the other
    Format,      \* "onebit", "fp32head" (1-bit blocks, FP32 head), "ternary" or "std"
    Layers,      \* number of layers of each model
    Dims,        \* its other dimensions, as one value
    Contexts,    \* context lengths (max_seq_len) a model is loaded with
    Machines,    \* [device: "cuda" | "metal" | "none", captures, lmFits, serves]
    Tokens,
    Prompts,
    BatchMax,    \* on CUDA, prompts up to this length run token by token: 16
    MaxDraft,    \* speculation_k of the Metal greedy loop: 4
    LongExcluded, \* <<device, format>> pairs whose longer prompts are left out
    PromptOnly    \* those whose batched prompts are asked for one token only

ASSUME ShapesAssumption ==
    /\ Format \in [Models -> {"onebit", "fp32head", "ternary", "std"}]
    /\ Contexts \subseteq Nat \ {0}
    /\ \E n \in Contexts : \A k \in Contexts : k <= n
    /\ BatchMax \in Nat /\ MaxDraft \in Nat
ASSUME MachinesAssumption ==
    Machines \subseteq [device : {"cuda", "metal", "none"},
                        captures : BOOLEAN, lmFits : BOOLEAN, serves : SUBSET Models]
ASSUME NoModelAssumption == "none" \notin Models
\* generate answers an empty prompt without a forward call.
ASSUME PromptsAssumption == Prompts \subseteq Seq(Tokens) \ {<<>>}
\* The GPU caches tell models apart by their dimensions and their number of
\* layers only: the model is of processes whose models differ in both.
ASSUME SizesAssumption ==
    \A p \in Machines : \A m, n \in p.serves :
        m # n => Dims[m] # Dims[n] /\ Layers[m] # Layers[n]

VARIABLES
    machine,  \* the process: its device, what fails there, what it may load
    loaded,   \* the loaded model and its context length
    norms,    \* f32 weight cache: whose norms the fixed keys of a family hold
    weights,  \* cached_model_weights: whose layers it holds
    bufs,     \* the dimensions of the activation buffers
    kv,       \* the GPU KV cache of the decode path
    pre,      \* the KV caches private to the CUDA batch prefills, per family
    cpu,      \* KvCache of the loaded model
    driver,   \* cuda_driver_graph
    stage,    \* what the engine is doing
    todo,     \* prompt tokens still to be run
    ctx,      \* the tokens run so far in this generation
    right     \* all answers of this generation right so far?

vars == <<machine, loaded, norms, weights, bufs, kv, pre, cpu, driver,
          stage, todo, ctx, right>>

MaxContext == CHOOSE n \in Contexts : \A k \in Contexts : k <= n
Positions == 0 .. MaxContext - 1
Empty == <<>>
Bad == <<"bad">>
EmptyRows == [i \in Positions |-> Empty]
NoStore == [shape |-> <<>>, rows |-> EmptyRows]
NoGraph == [state |-> "none", weights |-> "none", norm |-> FALSE, live |-> TRUE]

\* Fixed handle ranges: 1M for 1-bit norms, 5M for ternary, 8M and up for the rest.
FamilyOf(m) ==
    CASE Format[m] \in {"onebit", "fp32head"} -> "q1"
      [] Format[m] = "ternary" -> "ternary"
      [] OTHER -> "std"
Families == {"q1", "ternary", "std"}

M == loaded.model
OnGpu == machine.device # "none" /\ Format[M] # "std"
BufShape == <<Dims[M], loaded.cap>>
KvShape == <<Layers[M], Dims[M], loaded.cap>>

Init ==
    /\ machine \in Machines
    /\ loaded \in [model : machine.serves, cap : Contexts]
    /\ norms = [f \in Families |-> "none"]
    /\ weights = "none"
    /\ bufs = <<>>
    /\ kv = NoStore
    /\ pre = [f \in Families |-> NoStore]
    /\ cpu = EmptyRows
    /\ driver = NoGraph
    /\ stage = "idle"
    /\ todo = <<>>
    /\ ctx = <<>>
    /\ right = TRUE
-----------------------------------------------------------------------------
\* The row that the loaded model writes for the last token of a prefix.
Row(prefix) == <<M>> \o prefix
Sound(rows) == \A i \in 0 .. Len(ctx) - 1 : rows[i] = Row(SubSeq(ctx, 1, i + 1))

\* `rows` after running `batch` behind the context: each row comes out right
\* if those before it are, and the weights are the model's own.
Ran(rows, batch, ownWeights) ==
    [i \in Positions |->
        IF i \in Len(ctx) .. Len(ctx) + Len(batch) - 1
        THEN IF ownWeights /\ Sound(rows)
             THEN Row(ctx \o SubSeq(batch, 1, i + 1 - Len(ctx)))
             ELSE Bad
        ELSE rows[i]]

\* get_or_upload_f32_weight: who comes first keeps the key.
UploadNorms == norms' = [norms EXCEPT ![FamilyOf(M)] = IF @ = "none" THEN M ELSE @]
OwnNorms == norms'[FamilyOf(M)] = M

\* acquire_kv_cache and its twins: a new, zeroed store unless it matches.
Acquired(store) == IF store.shape = KvShape THEN store
                                            ELSE [shape |-> KvShape, rows |-> EmptyRows]

\* get_or_build_model_weights: the number of layers is the only token.
BuildWeights ==
    weights' = IF weights # "none" /\ Layers[weights] = Layers[M] THEN weights ELSE M

\* (mutant) New buffers leave the recorded graph in place.
KeepGraph == [driver EXCEPT !.live = @ /\ (bufs = BufShape) /\ (kv.shape = KvShape)]

\* acquire_full_layer_buffers drops the graph with the buffers it points to;
\* acquire_kv_cache does not, and leaves it with pointers to the old store.
AcquiredGraph ==
    IF bufs # BufShape THEN NoGraph
    ELSE [driver EXCEPT !.live = @ /\ kv.shape = KvShape]

\* The final norm is part of the recorded sequence, except with an FP32 head.
NormOnGpu == Format[M] # "fp32head"

\* encode_full_forward(_ternary) for one token: replay the graph if there is
\* one, else launch the layers one by one and then try to record them.
\* Says that the hidden state comes out right in `ok`.
CudaLayers(t, ok) ==
    LET store == Acquired(kv)
        graph == AcquiredGraph
        replay == graph.state = "captured"
        own == OwnNorms /\ (IF replay THEN graph.weights ELSE weights') = M
    IN  /\ UploadNorms
        /\ BuildWeights
        /\ bufs' = BufShape
        /\ kv' = IF replay /\ ~ graph.live THEN store
                 ELSE [store EXCEPT !.rows = Ran(@, <<t>>, own)]
        /\ driver' = IF graph.state # "none" THEN graph
                     ELSE IF machine.captures
                     THEN [state |-> "captured", weights |-> weights',
                           norm |-> NormOnGpu, live |-> TRUE]
                     ELSE [graph EXCEPT !.state = "failed"]
        /\ ok = (own /\ Sound(store.rows) /\ (replay => graph.live /\ graph.norm = NormOnGpu))

\* What is left to do on the CPU when the LM head cannot be uploaded.  1-bit:
\* the layers run again without the final norm, which a recorded graph
\* applies all the same.  Ternary: every block on the CPU.
LmHeadFallback(t, ok) ==
    IF Format[M] = "ternary"
    THEN cpu' = Ran(cpu, <<t>>, TRUE) /\ right' = (right /\ Sound(cpu))
    ELSE UNCHANGED cpu /\ right' = (right /\ ok /\ driver'.state # "captured")

CudaForward(t) ==
    \E ok \in BOOLEAN :
        /\ CudaLayers(t, ok)
        /\ IF NormOnGpu /\ ~ machine.lmFits
           THEN LmHeadFallback(t, ok)
           ELSE UNCHANGED cpu /\ right' = (right /\ ok)
        /\ UNCHANGED pre

\* Metal encodes every layer anew for each call, batch or single token, and
\* all of its paths share one KV cache.
MetalRun(batch) ==
    /\ UploadNorms
    /\ bufs' = BufShape
    /\ kv' = [Acquired(kv) EXCEPT !.rows = Ran(@, batch, OwnNorms)]
    /\ right' = (right /\ OwnNorms /\ Sound(Acquired(kv).rows))
    /\ UNCHANGED <<weights, driver, cpu, pre>>

\* One token, a whole prompt, or a draft to verify.
MetalToken(t) == MetalRun(<<t>>)
MetalPrompt(prompt) == MetalRun(prompt)
MetalDraft(draft) == MetalRun(draft)

\* block.forward for every block, KV in CPU memory.
CpuRun(batch) ==
    /\ cpu' = Ran(cpu, batch, TRUE)
    /\ right' = (right /\ Sound(cpu))
    /\ UNCHANGED <<norms, weights, bufs, kv, pre, driver>>

Forward(t) ==
    \/ OnGpu /\ machine.device = "cuda" /\ CudaForward(t)
    \/ OnGpu /\ machine.device = "metal" /\ MetalToken(t)
    \/ ~ OnGpu /\ CpuRun(<<t>>)

\* (mutant) The ternary batch prefill of CUDA is switched on again.
BatchesTernaryToo(p) ==
    \/ machine.device = "cuda" /\ Len(p) > BatchMax /\ Format[M] \in {"onebit", "std", "ternary"}
    \/ machine.device = "metal" /\ Len(p) > 1 /\ Format[M] \in {"onebit", "ternary"}

\* Which prompts forward_prefill gives to a batch path.
Batches(p) ==
    \/ machine.device = "cuda" /\ Len(p) > BatchMax /\ Format[M] \in {"onebit", "std"}
    \/ machine.device = "metal" /\ Len(p) > 1 /\ Format[M] \in {"onebit", "ternary"}

\* The CUDA batch prefills: KV of their own.  The 1-bit one never uploads
\* the position, so that all tokens write row 0 and attend to nothing.
CudaBatch(batch) ==
    LET f == FamilyOf(M)
        store == Acquired(pre[f])
    IN  /\ UploadNorms
        /\ IF f = "q1"
           THEN /\ pre' = [pre EXCEPT ![f] = [store EXCEPT !.rows[0] = Bad]]
                /\ right' = FALSE
           ELSE /\ pre' = [pre EXCEPT ![f] = [store EXCEPT !.rows = Ran(@, batch, OwnNorms)]]
                /\ right' = (right /\ OwnNorms /\ Sound(store.rows))
        /\ UNCHANGED <<weights, bufs, kv, cpu, driver>>
-----------------------------------------------------------------------------
\* Another model, or the same one with another context, takes over.  Its CPU
\* cache is new, the state of the GPU stays.
Load(m, n) ==
    /\ stage = "idle"
    /\ m \in machine.serves
    /\ loaded' = [model |-> m, cap |-> n]
    /\ cpu' = EmptyRows
    /\ ctx' = <<>>
    /\ UNCHANGED <<machine, norms, weights, bufs, kv, pre, driver, stage, todo, right>>

\* generate: reset() rewinds the CPU cache, no store is erased.
Start(p) ==
    /\ stage = "idle"
    /\ Len(p) <= loaded.cap
    /\ Len(p) > BatchMax => <<machine.device, Format[M]>> \notin LongExcluded
    /\ ctx' = <<>>
    /\ todo' = p
    /\ right' = TRUE
    /\ stage' = IF Batches(p) THEN "batch" ELSE "sequential"
    /\ UNCHANGED <<machine, loaded, norms, weights, bufs, kv, pre, cpu, driver>>

\* forward_prefill, one forward call per prompt token.
PrefillToken ==
    /\ stage = "sequential"
    /\ Forward(Head(todo))
    /\ ctx' = Append(ctx, Head(todo))
    /\ todo' = Tail(todo)
    /\ stage' = IF Len(todo) = 1 THEN "decode" ELSE "sequential"
    /\ UNCHANGED <<machine, loaded>>

\* forward_prefill, the whole prompt in one call.
PrefillBatch ==
    /\ stage = "batch"
    /\ \/ machine.device = "cuda" /\ CudaBatch(todo)
       \/ machine.device = "metal" /\ MetalPrompt(todo)
    /\ ctx' = todo
    /\ todo' = <<>>
    /\ stage' = IF <<machine.device, Format[M]>> \in PromptOnly THEN "answered" ELSE "decode"
    /\ UNCHANGED <<machine, loaded>>

\* The next token of the decode loop; the position is checked first.
Decode(t) ==
    /\ stage = "decode"
    /\ Len(ctx) < loaded.cap
    /\ Forward(t)
    /\ ctx' = Append(ctx, t)
    /\ UNCHANGED <<machine, loaded, stage, todo>>

\* generate_greedy_gpu with a draft: the pending token and the draft run as
\* one batch; those up to the first rejected one join the context, the rows
\* of the others stay behind it.
Speculate(batch, accepted) ==
    /\ stage = "decode"
    /\ machine.device = "metal"
    /\ Len(ctx) + Len(batch) <= loaded.cap
    /\ IF OnGpu THEN MetalDraft(batch) ELSE CpuRun(batch)
    /\ ctx' = ctx \o SubSeq(batch, 1, accepted + 1)
    /\ UNCHANGED <<machine, loaded, stage, todo>>

\* End of sequence, enough tokens, or no room for another.
Finish ==
    /\ stage \in {"decode", "answered"}
    /\ stage' = "idle"
    /\ UNCHANGED <<machine, loaded, norms, weights, bufs, kv, pre, cpu, driver, todo, ctx, right>>

Drafts == UNION {[1 .. n + 1 -> Tokens] : n \in 1 .. MaxDraft}

Next ==
    \/ \E m \in Models, n \in Contexts : Load(m, n)
    \/ \E p \in Prompts : Start(p)
    \/ PrefillToken
    \/ PrefillBatch
    \/ \E t \in Tokens : Decode(t)
    \/ \E batch \in Drafts : \E accepted \in 0 .. Len(batch) - 1 : Speculate(batch, accepted)
    \/ Finish

Spec == Init /\ [][Next]_vars
-----------------------------------------------------------------------------
Stores == [shape : {<<>>} \cup {<<Layers[m], Dims[m], n>> : m \in Models, n \in Contexts},
           rows : [Positions -> Seq(Models \cup Tokens \cup {"bad"})]]

GpuTypeOK ==
    /\ machine \in Machines
    /\ loaded \in [model : machine.serves, cap : Contexts]
    /\ norms \in [Families -> Models \cup {"none"}]
    /\ weights \in Models \cup {"none"}
    /\ bufs \in {<<>>} \cup {<<Dims[m], n>> : m \in Models, n \in Contexts}
    /\ kv \in Stores
    /\ pre \in [Families -> Stores]
    /\ cpu \in [Positions -> Seq(Models \cup Tokens \cup {"bad"})]
    /\ driver \in [state : {"none", "failed", "captured"}, weights : Models \cup {"none"},
                   norm : BOOLEAN, live : BOOLEAN]
    /\ stage \in {"idle", "sequential", "batch", "decode", "answered"}
    /\ todo \in Seq(Tokens)
    /\ ctx \in Seq(Tokens)
    /\ right \in BOOLEAN

\* Whatever path a token takes, its logits come from the loaded model and
\* from the KV rows of its own prefix: sequential or batched prompt, decode,
\* draft verification with rejected tokens, after a reload, after a failed
\* capture, on a machine whose LM head does not fit.
AnswersFromOwnPrefix == right

\* "the pointers always remain valid during replay" (encode_q1.rs:486-489): a
\* recorded graph points at the live buffers and KV store, and at the layers
\* that cached_model_weights still keeps alive.
ReplayIsCurrent ==
    driver.state = "captured" => driver.live /\ driver.weights = weights

\* What keeps it so, and is inductive: buffers and KV store are those of one
\* model and context, a recorded graph is of the model the buffers fit, and
\* only CUDA records.
GraphInv ==
    /\ GpuTypeOK
    /\ stage = "sequential" => todo # <<>>
    /\ machine.device # "cuda" => driver = NoGraph
    /\ weights \in machine.serves \cup {"none"}
    /\ \/ bufs = <<>> /\ kv.shape = <<>>
       \/ \E m \in machine.serves, n \in Contexts :
              bufs = <<Dims[m], n>> /\ kv.shape = <<Layers[m], Dims[m], n>>
    /\ driver.state # "captured" => driver.live
    /\ driver.state = "captured" =>
          /\ ReplayIsCurrent
          /\ weights # "none"
          /\ \E n \in Contexts : bufs = <<Dims[weights], n>>

\* "The Q1 (1-bit) batch path below is fine" (q1.rs:328): a prompt that went
\* through it is answered from its own prefix.
Q1BatchIsFine == (Format[M] = "onebit" /\ stage \in {"decode", "answered"}) => right
=============================================================================
