------------------------------- MODULE MCThreads ------------------------------
(* Instances for TLC of what many threads run at once: the kernels, on the    *)
(* thread groups of a GPU or the threads of rayon, and the circuit breaker.   *)
(* A behaviour is of one part, the others stand still.                        *)
EXTENDS CpuKernels, ElementKernels, CircuitBreaker
VARIABLE part

\* One thread block and two; fewer blocks in a row than lanes and more; a chunk
\* of columns, one more column, and two chunks.
MCShapes == {[rows |-> 12, width |-> 34, batch |-> 9], [rows |-> 8, width |-> 3, batch |-> 8],
             [rows |-> 3, width |-> 8, batch |-> 16]}

\* One kernel: a group of sixteen rows and two more; an odd number of blocks.
MCCpuShapes == {[rows |-> 18, width |-> 3, batch |-> 2], [rows |-> 1, width |-> 2, batch |-> 1]}
\* Below, between and above the limits, with a last tile that is not full.
MCTiledShapes == {[rows |-> r, width |-> w, batch |-> b] : r \in {2, 3, 4, 7}, w \in {1, 2}, b \in {1, 3}}

(* Launches of the element kernels, with GROUP threads for 256.               *)
MCPlain(k, n) == [kernel |-> k, n |-> n]
MCRows ==
    {MCPlain(k, n) : n \in {3, 35},
         k \in {"relu", "silu", "swiglu", "residual_add", "swiglu_fused", "softmax", "rmsnorm",
                "rmsnorm_weighted_v2", "cuda_rmsnorm_weighted_v2", "silu_f32", "cuda_silu_f32"}}
    \cup {[kernel |-> k, n |-> 36, batch |-> 2] :
             k \in {"batched_swiglu", "cuda_batched_swiglu", "batched_rmsnorm_v2", "cuda_batched_rmsnorm_v2"}}
    \cup {[kernel |-> "matvec_f32", rows |-> 34, n |-> 2]}
    \cup {[kernel |-> k, data |-> dd] : k \in {"argmax", "argmax_f32"},
             dd \in {<<1, 3, 2, 3>>, <<4>>, [i \in 1 .. 40 |-> (i * 37) % 41]}}
\* Two heads of queries to one of keys, in the second layer of a cache for five.
MCAttention ==
    {[kernel |-> k, nq |-> 2, nkv |-> 1, heads_per_group |-> 2, head_dim |-> 10, max_seq |-> 5,
      seq_len |-> 5, pos |-> 3, layer_offset |-> 50] :
         k \in {"fused_qk_norm", "cuda_fused_qk_norm", "cuda_fused_qk_rope", "fused_qk_norm_rope",
                "cuda_fused_qk_norm_rope", "fused_kv_store", "cuda_fused_kv_store",
                "batched_attention_scores", "batched_attention_scores_v2", "batched_attn_scores_v2",
                "batched_softmax", "cuda_batched_softmax", "batched_attention_weighted_sum",
                "batched_attn_weighted_sum"}}
\* A call whose buffers are right, and those with one that is one too short.
MCFit(w, lens) ==
    {[lens |-> lens, fits |-> TRUE] @@ w}
    \cup {[lens |-> [lens EXCEPT ![b] = @ - 1], fits |-> FALSE] @@ w : b \in {x \in DOMAIN lens : lens[x] > 0}}
MCConv(k, c_in, c_out, h, w, kk, pad) ==
    MCFit([kernel |-> k, c_in |-> c_in, c_out |-> c_out, h |-> h, w |-> w, k |-> kk, pad |-> pad],
          [input |-> c_in * h * w, weight |-> c_out * kk * kk * c_in, bias |-> c_out,
           output |-> c_out * (h + 2 * pad + 1 - kk) * (w + 2 * pad + 1 - kk)])
\* Without the CUDA call of one tap whose weight is too short, see the README.
MCIsShortPointwise(w) ==
    /\ w.kernel = "cuda_conv2d" /\ w.k = 1 /\ w.pad = 0
    /\ w.lens.weight < w.c_in * w.c_out
MCDecoder ==
    {w \in UNION {MCConv(k, 2, 3, 3, 4, 3, 1) \cup MCConv(k, 2, 2, 2, 3, 1, 0) \cup MCConv(k, 1, 2, 3, 3, 2, 0)
                  \cup MCConv(k, 0, 2, 3, 3, 2, 0) : k \in {"conv2d", "cuda_conv2d"}} : ~MCIsShortPointwise(w)}
    \cup UNION {MCFit([kernel |-> k, channels |-> 4, hw |-> 18, num_groups |-> 2],
                      [x |-> 72, weight |-> 4, bias |-> 4]) : k \in {"groupnorm", "cuda_groupnorm"}}
    \cup UNION {MCFit([kernel |-> k, c |-> 2, h |-> 3, w |-> 2], [input |-> 12, output |-> 48])
                : k \in {"upsample", "cuda_upsample"}}
MCGlue ==
    MCFit([kernel |-> "modulate", rows |-> 7, dim |-> 10], [x |-> 70, shift |-> 10, scale |-> 10])
    \cup MCFit([kernel |-> "gated_residual_add", rows |-> 7, dim |-> 10], [h |-> 70, delta |-> 70, gate |-> 10])
    \cup MCFit([kernel |-> "layer_norm", rows |-> 2, dim |-> 35], [x |-> 70])
    \cup MCFit([kernel |-> "rms_norm_heads", rows |-> 2, dim |-> 18], [x |-> 36, weight |-> 18])
    \cup MCFit([kernel |-> "dit_swiglu", rows |-> 7, half |-> 10], [x |-> 140, out |-> 70])
    \cup MCFit([kernel |-> "rope_interleaved", num_heads |-> 3, seq |-> 4, head_dim |-> 12],
               [x |-> 144, cos |-> 24, sin |-> 24])
    \cup MCFit([kernel |-> "tokens_to_heads", num_heads |-> 3, seq |-> 4, head_dim |-> 6,
                src_stride |-> 20, src_off |-> 2], [src |-> 80, dst |-> 72])
    \cup MCFit([kernel |-> "strided_row_copy", rows |-> 7, cols |-> 10, dst_stride |-> 12, dst_off |-> 2,
                src_stride |-> 11, src_off |-> 1], [src |-> 77, dst |-> 84])
MCFewWorks == {MCPlain("relu", 3)}
MCWorks == MCRows \cup MCAttention \cup MCDecoder \cup MCGlue

-----------------------------------------------------------------------------
ThreadsInit ==
    /\ part \in {"products", "cpu", "elements", "breaker"}
    /\ IF part = "products" THEN KernelInit
       ELSE /\ launch = CHOOSE l \in [kernel : DOMAIN Kernels, shape : Shapes] : TRUE
            /\ pending = {0} /\ out = <<>>      \* not begun
    /\ IF part = "cpu" THEN CpuInit
       ELSE /\ product = (CHOOSE c \in CpuCalls : TRUE) /\ tasks = {<<>>} /\ result = <<>>
    /\ Init
    /\ ElementInit /\ (part # "elements" => work = CHOOSE w \in Works : TRUE)

threadsVars == <<part, kernelVars, cpuVars, elementVars, vars>>

\* A launch ends.
Ended ==
    \/ part = "products" /\ pending = {}
    \/ part = "cpu" /\ tasks = {}
    \/ part = "elements" /\ Finished(Steps(work))

ThreadsNext ==
    \/ part = "products" /\ KernelNext /\ UNCHANGED <<part, cpuVars, elementVars, vars>>
    \/ part = "cpu" /\ CpuNext /\ UNCHANGED <<part, kernelVars, elementVars, vars>>
    \/ part = "elements" /\ ElementNext /\ UNCHANGED <<part, kernelVars, cpuVars, vars>>
    \/ part = "breaker" /\ Next /\ UNCHANGED <<part, kernelVars, cpuVars, elementVars>>
    \/ Ended /\ UNCHANGED threadsVars

\* As Fairness of CircuitBreaker, in the part about it.
BreakerFairness ==
    LET here == part = "breaker" IN
    /\ WF_vars(here /\ Elapse)
    /\ \A t \in Threads :
          /\ WF_vars(here /\ AllowRequest(t))
          /\ WF_vars(here /\ Outcome(t))
          /\ WF_vars(here /\ GoOn(t))

ThreadsSpec == ThreadsInit /\ [][ThreadsNext]_threadsVars /\ BreakerFairness

\* A launch takes every bit of its weights for what the processor does and, if it
\* is of an element kernel, leaves what the processor computes.
LaunchesLikeReference ==
    /\ BitsLikeReference
    /\ part = "elements" => ElementsLikeReference
=============================================================================
