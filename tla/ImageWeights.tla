----------------------------- MODULE ImageWeights -----------------------------
(***************************************************************************)
(* Which weights a product on the GPU is computed with, when pictor-image  *)
(* renders (pictor-image/src/te/weights.rs, te/gpu.rs, te/cuda_gpu.rs,     *)
(* te/forward.rs, cuda_gpu.rs, math.rs; pictor-kernels:                    *)
(* cuda_graph/cudagraph_accessors_1.rs, metal_graph/graph.rs).             *)
(*                                                                         *)
(* A dense linear is decoded into a buffer of the host, and the GPU's copy *)
(* is cached under that buffer's address.  A buffer that was freed leaves  *)
(* its address to the next one: CUDA takes the copy out of the cache after *)
(* each product, Metal keeps it.                                           *)
(***************************************************************************)
EXTENDS Naturals, FiniteSets

CONSTANTS
    TeLinears,     \* of the text encoder
    DitLinears,    \* dense ones of the transformer: bf16, decoded at each use
    Addresses,
    Renderers,     \* threads, each with sessions of its own
    Hosts,         \* [device, source, resident, sessions]
    GpuFaults,     \* what may fail on the GPU: "upload", "gemm"
    Free           \* content of an address nobody holds

ASSUME WeightsAssumption ==
    /\ Free \notin TeLinears \cup DitLinears
    /\ TeLinears \cap DitLinears = {}
    /\ GpuFaults \subseteq {"upload", "gemm"}
    /\ \A m \in Hosts : m.device \in {"cuda", "metal"} /\ m.source \in {"npy", "mlx"}

VARIABLES
    host,
    heap,      \* address -> the linear decoded there, or Free
    registry,  \* renderer -> linear -> its address, for those TeWeights keeps
    gpuCopy,   \* f32_weight_cache, or Metal's weight_cache: address -> what was uploaded
    scope,     \* renderer -> addresses its current layer of the encoder holds
    task,      \* renderer -> the product it is at
    sessions,  \* renderer -> sessions it had
    product    \* renderer -> its last product: asked for, computed with

weightVars == <<host, heap, registry, gpuCopy, scope, task, sessions, product>>

Linears == TeLinears \cup DitLinears
NoTask == [at |-> "idle"]

WeightsInit ==
    /\ host \in Hosts
    /\ heap = [a \in Addresses |-> Free]
    /\ registry = [r \in Renderers |-> <<>>]
    /\ gpuCopy = <<>>
    /\ scope = [r \in Renderers |-> {}]
    /\ task = [r \in Renderers |-> NoTask]
    /\ sessions = [r \in Renderers |-> 1]
    /\ product = [r \in Renderers |-> <<>>]

Without(f, x) == [y \in DOMAIN f \ {x} |-> f[y]]
With(f, x, v) == [y \in DOMAIN f \cup {x} |-> IF y = x THEN v ELSE f[y]]

\* TeWeights::get keeps what it reads: .npy always, 4-bit only when resident.
Kept(l) == l \in TeLinears /\ (host.source = "npy" \/ host.resident)

\* get, to_f32_vec: a buffer of its own, unless the registry has one.  (A layer
\* decodes some of its linears before it uses the first; that changes nothing,
\* as it holds them all to its end.)
DecodeWeight(r, l) ==
    /\ task[r].at = "idle"
    /\ \A a \in scope[r] : heap[a] # l
    /\ IF l \in DOMAIN registry[r]
       THEN /\ task' = [task EXCEPT ![r] = [at |-> "decoded", linear |-> l, address |-> registry[r][l]]]
            /\ UNCHANGED <<heap, registry, scope>>
       ELSE \E a \in Addresses :
            /\ heap[a] = Free
            /\ heap' = [heap EXCEPT ![a] = l]
            /\ registry' = IF Kept(l) THEN [registry EXCEPT ![r] = With(@, l, a)] ELSE registry
            /\ scope' = IF l \in TeLinears /\ ~Kept(l) THEN [scope EXCEPT ![r] = @ \cup {a}] ELSE scope
            /\ task' = [task EXCEPT ![r] = [at |-> "decoded", linear |-> l, address |-> a]]
    /\ UNCHANGED <<host, gpuCopy, sessions, product>>

ComputedWith(r, content) == product' = [product EXCEPT ![r] = <<task[r].linear, content>>]

\* gemm_abt, on the host's buffer: where the GPU fails, and on Metal for the
\* transformer, whose dense linears go there on CUDA only.
OnCpu(r) ==
    /\ ComputedWith(r, heap[task[r].address])
    /\ task' = [task EXCEPT ![r].at = "computed"]

GoesToGpu(l) == host.device = "cuda" \/ l \in TeLinears

NotOnGpu(r) ==
    /\ task[r].at = "decoded" /\ ~GoesToGpu(task[r].linear) /\ OnCpu(r)
    /\ UNCHANGED <<host, heap, registry, scope, gpuCopy, sessions>>

\* get_or_upload_f32_weight: the copy under this address, or a new one.
GetOrUpload(r) ==
    /\ task[r].at = "decoded" /\ GoesToGpu(task[r].linear)
    /\ LET a == task[r].address
           content == IF a \in DOMAIN gpuCopy THEN gpuCopy[a] ELSE heap[a]
       IN  \/ /\ gpuCopy' = With(gpuCopy, a, content)
              /\ task' = [task EXCEPT ![r] = [at |-> "uploaded", linear |-> @.linear, address |-> a,
                                              handle |-> content]]
              /\ UNCHANGED product
           \/ /\ "upload" \in GpuFaults /\ a \notin DOMAIN gpuCopy
              /\ OnCpu(r) /\ UNCHANGED gpuCopy
    /\ UNCHANGED <<host, heap, registry, scope, sessions>>

\* encode_gemm_f32.  A failure returns at once, past the eviction.
EncodeGemm(r) ==
    /\ task[r].at = "uploaded"
    /\ \/ /\ ComputedWith(r, task[r].handle)
          /\ task' = [task EXCEPT ![r].at = IF host.device = "cuda" THEN "evict" ELSE "computed"]
       \/ "gemm" \in GpuFaults /\ OnCpu(r)
    /\ UNCHANGED <<host, heap, registry, scope, gpuCopy, sessions>>

\* (mutant) The copy stays for the next product of this linear.
NotEvicted(r) ==
    /\ task[r].at = "evict"
    /\ task' = [task EXCEPT ![r].at = "computed"]
    /\ UNCHANGED <<host, heap, registry, scope, gpuCopy, sessions, product>>

EvictF32Weight(r) ==
    /\ task[r].at = "evict"
    /\ gpuCopy' = Without(gpuCopy, task[r].address)
    /\ task' = [task EXCEPT ![r].at = "computed"]
    /\ UNCHANGED <<host, heap, registry, scope, sessions, product>>

\* The transformer drops its buffer as soon as the product is there.
DropBuffer(r) ==
    /\ task[r].at = "computed"
    /\ heap' = IF task[r].linear \in DitLinears THEN [heap EXCEPT ![task[r].address] = Free] ELSE heap
    /\ task' = [task EXCEPT ![r] = NoTask]
    /\ UNCHANGED <<host, registry, scope, gpuCopy, sessions, product>>

\* decoder_layer returns: what it decoded and nobody keeps is freed.
EndLayer(r) ==
    /\ task[r].at = "idle" /\ scope[r] # {}
    /\ heap' = [a \in Addresses |-> IF a \in scope[r] THEN Free ELSE heap[a]]
    /\ scope' = [scope EXCEPT ![r] = {}]
    /\ UNCHANGED <<host, registry, gpuCopy, task, sessions, product>>

\* The session ends and its TeWeights with it; another one may begin.
NextSession(r) ==
    /\ task[r].at = "idle" /\ scope[r] = {} /\ sessions[r] < host.sessions
    /\ heap' = [a \in Addresses |->
                   IF \E l \in DOMAIN registry[r] : registry[r][l] = a THEN Free ELSE heap[a]]
    /\ registry' = [registry EXCEPT ![r] = <<>>]
    /\ sessions' = [sessions EXCEPT ![r] = @ + 1]
    /\ UNCHANGED <<host, gpuCopy, scope, task, product>>

WeightsNext ==
    \E r \in Renderers :
        \/ \E l \in Linears : DecodeWeight(r, l)
        \/ NotOnGpu(r) \/ GetOrUpload(r) \/ EncodeGemm(r) \/ EvictF32Weight(r) \/ DropBuffer(r)
        \/ EndLayer(r) \/ NextSession(r)

WeightsSpec == WeightsInit /\ [][WeightsNext]_weightVars
-----------------------------------------------------------------------------
(* Every product is computed with the weights it asked for, whatever buffers *)
(* had its buffer's address before (te/weights.rs 173-175: the GPU path      *)
(* "evicts the key immediately after each GEMM", so "every matmul re-uploads *)
(* fresh").                                                                  *)
ProductsUseTheirWeights == \A r \in Renderers : product[r] # <<>> => product[r][1] = product[r][2]
=============================================================================
