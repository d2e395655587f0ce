# Pictor in TLA+

Pictor is a Rust inference stack for quantised language models: GGUF loading,
SIMD and GPU kernels, a Qwen3 transformer with several KV caches, constrained
decoding, an image model, and a runtime that serves an OpenAI-style HTTP API.
This directory specifies the parts of it in which several actors meet, in which
a long sequence of legal calls could lead to an illegal state, or in which one
computation is written down many times and has to stay the same; TLC checks them
on small instances, and TLAPS proves the main safety properties for every
instance.

Paths below are relative to `src/crates/<crate>/src/`. Where no crate is named
the file is in `pictor-runtime`.

## 1. The system

| Component | State it keeps | Operations | Meets others through | What is hard |
|---|---|---|---|---|
| Engine pool (`engine_pool.rs`) | a stack of idle engines, a semaphore with one permit per engine | `acquire`, drop of `EngineLease` | every HTTP handler | cancellation at the await, the two halves of the drop, starvation |
| HTTP handlers (`server.rs`, `completions.rs`, `api_extensions.rs`) | one task per request, `active_requests`, `tokens_generated_total` | plain, streamed, completion and extended chat | pool, engine, token channel | a peer that disconnects, error paths, order of the end of a stream |
| Engine entry points (`engine.rs`) | the sampler and its parameters | `generate_with_params`, `..._with_seed`, `generate_streaming_with_params` | one lease at a time | parameters of one request left in a shared engine |
| Prefix cache (`pictor-model/prefix_cache.rs`) | trie of token blocks, arena, reference counts, free slots, stamps of last use | `prepare`, `store_blocks`, `release_session`, `clear` | prefix-cached engine | reuse of slots, pinned blocks, blocks found through replaced ancestors |
| Prefix-cached engine (`prefix_cache_engine.rs`) | the prefix cache beside the model's CPU KV cache | `generate`, `clear_cache` | prefix cache, model | stale KV state, CPU and GPU caches that differ, errors after pinning |
| Paged KV cache (`pictor-model/paged_kv_cache.rs`) | page pool, page tables per sequence and layer | `create_sequence`, `ensure_capacity`, `write_kv`, `drop_sequence` | library users | running out halfway, pages with two owners, page edges |
| Forward pass and its stores (`pictor-model/model/types/`, `engine.rs`, `pictor-kernels/gpu_backend`) | KV stores of CPU, decoding and batch prefill, activation buffers, cached layer handles, a recorded driver graph | `forward`, `forward_prefill`, verification of drafts, `reset`, load of another model | engine, GPU state of the process | GPU state outlives the model, a prompt and its answer may use different stores |
| GPU kernel sequences (`cuda_full_layer`, `cuda_prefill`, `cuda_q_std_prefill`, `cuda_fp8_prefill`, `cuda_k_quant_prefill`, `metal_full_layer`, `metal_prefill`) | device buffers, KV rows, captured launches | encoding of one token or a batch | forward pass | buffers shared by layers, GEMMs that add to their output, replayed launch arguments |
| Compute kernels (`pictor-kernels`: CUDA and Metal sources, scalar, AVX2, AVX-512 and NEON tiers, tilings, rayon) | none between calls | matrix products of a dozen block formats | kernel sequences, CPU forward pass | the same format decoded in many texts, remainders of every tile |
| Grammars (`grammar/`) | chart of the recognizer, cache of masks | `allowed_mask`, `advance`, `reset`; compilers of regular expressions, GBNF, JSON schemas | sampler | nullable rules, masks that are reused |
| GGUF files (`pictor-core/gguf/`) | the streaming parser's buffer, state and count of dropped bytes | `GgufWriter::write`, `GgufFile::parse`, `feed` | files | chunks that end anywhere, damaged bytes, two readers that must agree |
| Tokenizer (`pictor-tokenizer`) | the trainer's words and rules; the bytes a streaming decoder still holds back | `train`, `encode` (BPE, Unigram, WordPiece), `decode`, `push_token` | text and ids | trainer and encoder merge by different keys, characters cut between ids |
| Circuit breaker (`circuit_breaker.rs`) | state, three counters, time of the last failure, each its own cell | `execute`, `reset` | library users, any number of threads | no method holds two cells at once |
| Request queue (`request_queue.rs`) | bounded `VecDeque`, two condition variables, id counter | `try_push`, `push_timeout`, `pop`, `pop_timeout`, `drain`, `submit` | producer and consumer threads | lost wake-ups, time-outs that race a notification |
| Rate limiter (`rate_limiter.rs`) | global bucket, table of client buckets, two mutexes | `check`, `check_and_consume`, `evict_stale`, `reset_client` | request threads | two-step checks, a table that forgets |
| Queue depth tracker (`server.rs` 717-772) | one atomic counter | `try_acquire`, `release` | request threads | load and exchange are two steps |
| Continuous batching (`continuous_batch.rs`) | waiting queue, active set, completed list | `submit_with_priority`, `step`, `drain_completed` | one engine | order within a priority, removal by index |
| Async engine (`async_engine.rs`) | semaphore, engine mutex, gauge | `generate`, `generate_streaming` | blocking threads | a dropped future whose thread goes on, panics |
| Model cache (`model_cache.rs`) | entries with sizes and times of use, under one mutex | `get_or_insert`, `evict`, `evict_stale` | request threads | two eviction loops under two limits |
| Diffusion transformer (`pictor-image/forward.rs`, `blocks.rs`, `math.rs`, `cuda_gpu.rs`) | two token streams, later one | `sample`: steps, double blocks, single blocks, fused or per operation | CUDA graph encoders | strides and offsets of the fused texts, fallback after a failure |
| Image weights on the GPU (`pictor-image/te/weights.rs`, `te/gpu.rs`, `te/cuda_gpu.rs`) | decoded host buffers, device copies keyed by their addresses | products of the text encoder and of the transformer's dense linears | several threads and sessions of a process | an address that was freed and used again |

`PROJECT.json` lists the remaining parts too, with the reason why they have no
module. Its `hazards` name the lines at which the components above can go wrong
in ways a test hardly reaches.

The HTTP server uses the engine pool and nothing else of the concurrent parts;
the prefix-cached engine is a library type that owns its cache. Breaker, queues,
rate limiter, schedulers and caches are public library types the server does
not wire in, so their modules let any number of threads call every method at
any time. Forward pass, kernel sequences and kernels are three views of one
computation: which store and which weights a token meets (`GpuForward`), which
launches read and write what (`GpuLayer`), which bits and elements one launch
multiplies (`GpuKernels`, `CpuKernels`) or, around the products, sums, rotates and
moves (`ElementKernels`).

## 2. Modules

```
FairSemaphore  <-  EnginePool  <-  ChatServer          ExclusiveLeases
PrefixCache    <-  PrefixCachedEngine
PagedKv                                                KvStore
CircuitBreaker     RequestQueue     QueueDepth
RateLimiter                                            TokenBuckets
BatchScheduler     ModelCache       AsyncEngine (two FairSemaphores)
GpuForward         GpuLayer
BlockFormats   <-  GpuKernels  <-  CpuKernels          ElementKernels
Grammars       <-  GrammarConstraint  <-  GrammarCompilers
ImageForward       ImageWeights       GgufFile         Tokenizer
```

`<-` is EXTENDS. `ExclusiveLeases`, `KvStore` and `TokenBuckets` are abstract
specifications; `EnginePool`, `PagedKv` and `RateLimiter` implement them. A
module `MCx` holds the constants of the instances, `xProofs` the theorems about
`x`: `ChatServerProofs` is about `EnginePool` and `ChatServer` and builds on
`FairSemaphoreProofs`; `KvCacheProofs` is about `PagedKv`, `PrefixCache` and
`PrefixCachedEngine`, `GpuForwardProofs` about `GpuForward`, `ImageWeights` and
`ImageForward`, `GpuLayerProofs` about `GpuLayer`, `ThreadsProofs` about `CircuitBreaker`, `GpuKernels`, `CpuKernels` and
the grids of `ElementKernels`, `LibraryProofs` about `QueueDepth`, `AsyncEngine`, `BatchScheduler`, `ModelCache`
and `RateLimiter`. Operators marked `(mutant)` are faulty variants of the definition that
follows them; no specification uses them, and each is a bug the properties were
tried against.

**FairSemaphore.** The tokio semaphore as the pool uses it: single permits, a
first-come-first-served queue, a permit handed straight to the oldest waiter on
release, and a future that may be dropped both while queued and after it was
handed its permit. It is not in this repository and is modelled from how
`engine_pool.rs` and `async_engine.rs` rely on it.

**EnginePool.** `Acquire` is the first poll, `Pop` the code after the await,
`PopEmpty` its error path, `Cancel` a task dropped at the await, `ReturnEngine`
and `ReleasePermit` the two halves of a lease's drop (the engine is pushed by
`Drop`, the permit field goes after it). `idle` is the Vec, `phase` and `lease`
the control state of each request task. Clients may come back for ever.

**ChatServer** runs the handlers on the pool. `handler` is the async task and
then its response body, `worker` the generation: inline for plain requests, so
that it cannot be cancelled, in a blocking thread for a stream. `params` and
`saved` follow the sampling parameters that `generate_with_params` swaps in and
out of the replica. A generation goes through the steps of `generate_streaming`
one by one: `Prefill`, and per token `Send` (sample, and fail without a receiver)
and `Forward`, so that a hang-up may fall before, between or after them; `stage` is
where it is and `produced` the tokens forwarded so far. `unread` is a history
variable, which no guard reads: the passes of the model that ended after the client
had hung up. `EndGenerate` ends it at any of the ways out and, if the replicas were
given the server's metrics (`EngineMetrics`), counts its tokens as the engine does;
the plain handlers count theirs once more. Tokens, prompts and JSON are left out, and
so is a panic inside a generation, which would skip the restore of the parameters.
Where `completions.rs` 192-201 lowers the gauge before it drops the lease, the model
lowers it after, as the other handlers do. Each client makes one request.

**PrefixCache.** A prompt is a sequence of whole blocks (the code ignores an
incomplete last block). Tensors are represented by *what they were computed
from* (`blockKv`), which is all that decides whether injecting them is right. The
`for` loop of `store_blocks` is split into `Evict` and `Insert` turns; since the
cache is behind `&mut self`, nothing else runs between them. Of the `last_used`
stamps only their comparison counts: `recency` is the relation of blocks that were
used before others. Edge keys are assumed not to collide, as the comment at
lines 378-380 does.

**PrefixCachedEngine** serves one request after the other. `cpuKv` and `gpuKv`
are what each position of the two KV caches was computed under; `reset()` only
rewinds the length, so old contents stay. On a machine with fallbacks each
forward call picks its device. `rightLogits` records whether the logits used so
far came from the KV state of the request's own prompt.

**PagedKv.** `op` is the call being executed; each page taken or given back is
one step, so `OutOfMemory` can strike between two layers. Length checks of
vectors are left out. `written` is a history of successful writes and the domain
of the refinement: what can be read back is a `KvStore`.

**GpuForward.** One action is one forward call: a decode step, a prompt in one
batch or token by token, a speculative round of the Metal greedy loop, a reset, a
load of another model or context length. A KV row is the model and the tokens it
was computed from, `Bad` when that was not a prefix of the running context. The
buffers, the decoding store, the cached layers and the recorded graph belong to
the process and outlive the model; `ReplayIsCurrent` says what a replay touches.
A *machine* fixes what does not change while the process runs: the device, whether
capturing works, whether the LM head fits, which models it serves.

**GpuLayer.** A back end is a `Program`: the list of its launches for one layer,
each reading some buffers and writing or adding to one. Values are terms, so two
computations are equal when they apply the same operations to the same operands;
a buffer that is not cleared, a launch that reads one layer too late or a recorded
argument that should have changed make another term. `last` names the call that
just returned and `seen` what it should have computed.

**BlockFormats, GpuKernels, CpuKernels.** `BlockFormats` says for each of the
block formats which bits are the code, the scale and the minimum of each
weight, as the processor's reference decodes them. In `GpuKernels` a launch is a
grid of thread blocks that run in any order; a result is the bag of *(weight bits,
input element)* pairs added into it. In `CpuKernels` the same is said of the loops
of the four tiers over the lanes of their registers, of the dispatcher, and of the
tilings whose tasks the threads of rayon take in any order, slice by slice. Arithmetic
is left out, addressing is not. A shape has at least a row, a block and a column
(`ShapesAssumption`, `CpuShapesAssumption`); no size of a tile is zero
(`TilesAssumption`).

**ElementKernels.** The kernels between the products: norms, rotary embeddings,
softmax and attention over the cache, activations, argmax, and those of the image
models, with the length checks and launches of the host around them. The groups of a
launch run in any order, the threads of a group in phases between barriers. A value
is the term that made it, so that a sum over the wrong elements, an element summed
twice and a reduction cut short are other terms. `raced` says that two threads met at
a cell without a barrier between them, `strayed` that a cell was outside its buffer; a
call whose lengths do not fit has to be refused.

**Grammars, GrammarConstraint, GrammarCompilers.** `Grammars` normalises
terminals and lists a grammar's words up to a length, straight from the rules: the
reference. `GrammarConstraint` is the Earley recognizer with item sets in
hash order (every order is a choice), the mask over the vocabulary and the cache
of masks. `GrammarCompilers` translates regular expressions (Thompson automaton,
subset construction), GBNF and JSON schemas from their parsed form and compares
with what the source text describes.

**CircuitBreaker.** One step per load, store or `fetch_add`; `pc` names the next
cell a thread touches. The counters are only compared with limits, so the model
stops counting there. The clock is reduced to the question the code asks. A
guarded call succeeds, fails or panics.

**RequestQueue.** What happens under the mutex is one step; a wait splits it.
A parked thread becomes "woken" by a notification or spuriously, "expired" by its
timeout, and then has to take the mutex again. `accepted`, `handed` and `dropped`
are histories. Ids are drawn before the lock, as in `submit`.

**RateLimiter.** A request takes a token of the global bucket in one step and asks
its client's bucket in the next; buckets are refilled when they are looked at. An
instant is kept as its age. `TokenBuckets` has no table, no lazy refill and no
ages; the refinement mapping credits each client with what a refill would give.

**QueueDepth, BatchScheduler, AsyncEngine, ModelCache.** The tracker's load and
compare-exchange are two steps of any number of threads. A scheduler step is one
action (`&mut self`), with the engine's outcome per active request as its input.
The async engine has one future and one blocking job per call, which part when
the future is dropped; both locks are `FairSemaphore`s. The model cache holds its
mutex while it loads, so an operation is one action.

**ImageForward.** `perOp` runs every block operation by operation next to the
streams the program has, which may come from fused calls that succeed or fail.
Tensors are flat functions, offsets and strides are the code's, an element is a
fingerprint of the term that computes it (a number below 32 749, so that different
terms could in principle agree).

**ImageWeights.** `heap` is the host's allocator: a freed address may be given
out again. `gpuCopy` is the device cache by address, `registry` the buffers that
`TeWeights` keeps, `scope` those that live until the end of the current layer.

**GgufFile.** A file is its bytes: `write` is the writer, `parse` the
reader of a whole file, both pure; `Feed` gives the next chunk to the streaming
parser, whose buffer, state and count of dropped bytes are variables. One byte of
the file may be changed before it is read. Text is ASCII.

**Tokenizer.** A behaviour is about one `subject`. `LearnMerge` is one turn of the
trainer's loop and `PushToken` one id given to the streaming decoder; the pure
directions (encoding, decoding, Unigram's best path, WordPiece) are functions, and
their inputs initial states. A string is the sequence of its code points, the name
`<0xHH>` of a byte a symbol of its own. What the encoder merges is found by the
texts of a pair, what the trainer merged by its ids, as in the code. Log-probabilities
are integers.

**Composition.** Parts that share nothing are checked side by side: a behaviour of
`MCEnginePool`, `MCThreads` or `MCLibrary` is of one `part`, one of `MCInference` of
one `area` (within it the caches choose a `part`, `MCGpuForward` a `view`), and the
variables of the others stand still.

## 3. Runs

All passing runs are exhaustive. Distinct states are given for orientation.

| Run | Instance | States | Shows |
|---|---|---|---|
| `engine_pool` | 2 engines, 4 clients who return without end; beside it a pool without engines; beside it a queue of 2 slots with 3 producers, 2 consumers, 5 items | 281 060 | every engine in one place, no granted permit without an engine, implements `ExclusiveLeases`, every request answered (by the empty pool with `PoolError::Empty`); accepted items leave once and in order, no lost wake-up, all served |
| `chat_server` | 1 engine, with metrics; chat or extended, stream, completion; 1 token, 2 choices | 563 445 | parameters stay with their request, an answer means the replica is back, the gauge is never too low, a hang-up costs at most one more pass of the model, every request ends |
| `inference` | the four areas below | 1 467 681 | |
| area caches | 2 sessions over prompts `ab`, `aba`, `b` and 2 blocks; the engine on them, CPU and GPU machines; 2 paged sequences, 2 layers, 3 pages of 2 slots, 3 positions, 2 values | 808 300 | pinned blocks stay and are right, counts exact, arena consistent, the arena within its capacity or what sessions can pin (6 blocks here); answers come from the state of the whole prompt, the trie holds only right blocks; pages disjoint and conserved, implements `KvStore` |
| area forward | machines with CUDA, Metal and neither, with and without capture and a fitting LM head, over pairs of models; every program over 2 layers, 3 slots, batches of 1 and 2, 3 calls | 388 323 | every answer comes from its own prefix, a replay touches current memory, every call's rows and logits are the reference block's (`LayersLikeReference`) |
| area image | 2 heads of 4, 2 text tokens, 3 patches, 2 + 2 blocks, 2 steps; fused calls fail before they write | 68 | streams and latents are those of the per-operation path |
| area weights | 2 threads, 3 addresses, 3 linears, 5 hosts; uploads may fail | 270 990 | each product uses the weights it asked for |
| `threads` | four parts, below; of the breaker 3 threads, thresholds 2 and 2, 1 trial | 737 688 | every kernel leaves what the reference computes, in whatever order groups, threads and tasks run; no verdict left undecided between methods, an open breaker is tried again |
| `library` | nine parts, below | 243 495 | see below |
| `chat_server_gauge` | chat, stream, completion | stops | **violation**: `active_requests` stays up |
| `prefix_engine_fallback` | machine with GPU fallbacks | stops | **violation**: the trie is poisoned |
| `gpu_prompt` | a 1-bit model on CUDA, a prompt above the sequential limit | stops | **violation**: the prompt's rows are all written at position 0 |
| `reserved_code` | blocks with the ternary code 3 | stops | **violation**: tiers disagree on its value |
| `nullable_rules` | a list of blanks and an item, all optional | stops | **violation**: a word of the grammar is refused |
| `mask_cache` | one inner part in two contexts | stops | **violation**: the mask of another text is served |
| `stale_weights` | Metal, 4-bit text encoder that is not resident | stops | **violation**: a product uses another linear's weights |

The parts of `threads`: the 76 matrix kernels of the GPUs on three shapes; the 65 of the
processor and 18 tilings on 18 shapes (`ProductsLikeReference` for what they add up,
`LaunchesLikeReference` for the bits they take a weight from); 46 kernels of norms,
attention, activations and images, those of the image models with buffers that fit and
with one that is an element short (`LaunchesLikeReference`); the breaker (`NoVerdictPending`, `OpenIsTried`).

The parts of `library`: two threads and two clients on a rate limiter whose table
holds one (`LimiterImplementsBuckets`); four threads on a depth of two
(`DepthCountsHolders`); four requests of two priorities in a batch of three
(`NoOvertaking`, `EveryRequestFinishes`); three asynchronous calls on two permits
with dropped futures and panics (`WorkIsAdmitted`, `EveryCallAnswered`); three
models in a cache for two and a budget of three (`ModelsFit`); four grammars under a
constraint with two masks, and 281 patterns, rule books and schemas through the
compilers (`TextLikeReference`); up to four merges learned from every word of up to
seven letters and from pairs of words, 3 906 texts encoded and decoded, streams of up
to four ids of two tokenizers, 2 184 texts cut by Unigram and 1 093 by WordPiece (also
`TextLikeReference`); the files of 17 models, one of them also with one byte in 64
places changed, in chunks of 1 and of 50 bytes (`ModelFilesLikeReference`).

*Why the bounds are enough.* Four clients over two engines give two leases, a
queue of two and a client that comes back to the end of it. Three requests over
one replica have one that runs, one that was handed a permit and one that waits.
The three prompts contain a prefix pair, a repeated block and an unrelated first
block, and two cache blocks are fewer than one prompt needs, so eviction of
ancestors, reuse of slots, double insertion by two sessions and a full pinned cache
all occur. Three pages are one short of what a two-layer sequence with three
positions needs, so that allocation fails between layers with pages of the other
sequence in use. Three breaker threads let one act on a stale count while two
others reopen and clear. Five items over two slots (`MaxItems`) let all three
producers park behind a full queue, also while a notified thread is overtaken by
one that never waited. A ternary model and one other of another size per machine,
two contexts and prompts below and above `BatchMax` reach every reallocation and
every path; three calls of two layers let a buffer's leftovers of either layer and
of an earlier call be met. The kernel shapes have one thread block and two, fewer
blocks in a row than lanes and more, a full chunk of columns, one more, and two;
the processor's have an odd block, a last tile that is not full, and rows below,
between and above every (scaled) threshold. The rows of the element kernels are
shorter and longer than a (scaled) group of threads and no multiple of a warp, so that
every strided loop and every tree of a reduction has a remainder. The image sizes make every stride
different from every other. Chunks of one byte end inside every field of a file. The
models hold every kind of value and every tensor type, and the changed bytes fall on
every kind of field. Words of two letters repeat pairs and overlap them
(`aaa`, `abab`) at every distance, and four ids carry the bytes of a character apart. Three addresses for the four buffers two renderers may
want force reuse. Except for some computations over data (decoding of bits, element kernels,
grammars, tokenizer, files) every safety property of a passing run is also
proved for all values, see section 4.

*Bounds.* Named in the modules: `MaxItems` (queue), `MaxSeqs` and `MaxPos` (paged
cache), `MaxRequests` (scheduler), `Horizon` and `IdleHorizon` (ages, where nothing
changes any more), `MaxCalls` (kernel sequences), `MaxBytes`, `MaxWord` and
`MaxText` (grammars), `MaxIds` (streamed ids), `MaxTokens`, `MaxChoices`, `BatchMax` (16 in the code) and
`MaxDraft` (inputs or constants of the code). Constants of the code that are scaled
down, so that small inputs reach what is beyond them: the thresholds of the tilings,
`GROUP` (32 for 256 threads), `WARP` (4 for 32), `DIT_GLUE_MAX_GRID` and
`IM2COL_TILE_CAP_BYTES`. Everything else is finite by itself.
Deadlock is checked in every run but those of `ChatServer`, where every client
makes one request and the system comes to rest; parts that end by their nature
stutter in an explicit last disjunct of their `MC` module.

*What a passing instance leaves aside on purpose.* `inference` excludes the 1-bit
prompts above `BatchMax` on CUDA (`LongExcluded`), the fallback machine, the host of
`stale_weights` and faults other than `"encode"` and `"upload"`; `threads` the
reserved ternary code and CUDA's convolution of one tap with a weight that is too
short (`MCIsShortPointwise`); `library` the two grammars of the violations. Each is the subject
of a run of its own or of section 5. `StreamedBy` has no tokenizer with space marks in the
legacy mode of the decoder, the corpora are ASCII: section 5 says why. For the formats whose prompts decode from a
store the batch did not write (`PromptOnly`) only the prompt's own answer is asked
for.

### Fairness

* Pool: `WF` on a polled task after its await, on the end of a generation (it is
  bounded by `max_tokens`) and on the two steps of a drop. Nobody has to ask, and
  nobody has to cancel. With a strong semaphore queue weak fairness suffices.
* Server: the tokio executor polls ready tasks, threads run, and a connected
  client reads its stream. The steps of a generation are weakly fair together
  (`Generate`), as one thread takes them one after the other; that it ends follows,
  since it runs out of tokens. Hang-ups and arrivals are not fair.
* Breaker: time passes, callers keep calling, a guarded call ends, a thread
  inside a method goes on. Without calls an open breaker stays open, rightly.
* Queue: only `Pop` is fair: a consumer that is not waiting comes back. Ends of
  waits are *not* fair, so that a thread may depend on being notified; with fair
  timeouts a lost notification would go unnoticed.
* Scheduler: `run_to_completion` calls `step` until nothing is left. Only that is
  fair, submissions are not.
* Async engine: the executor polls, blocking threads run and a generation ends.
  Calls, drops and panics are not fair.

## 4. Proofs

Every theorem holds for all values of the constants under the named assumptions of
the modules: finite sets of clients, threads, sessions and calls, positive limits, and
the few that say something about the program: edge keys do not collide
(`KeyAssumption`), two models of one process differ in their dimensions
(`SizesAssumption`), there is a greatest context length and a longest prompt
(`LongestPromptAssumption`), and no linear layer belongs to
both the text encoder and the transformer. A theorem that needs more says so in an
ASSUME of its own. Every inductive invariant was checked by TLC on the instance of its
run before it was proved.

**FairSemaphoreProofs, and the pool in ChatServerProofs.** `IInv` = types, `SemInv` (permits conserved,
none free while a client queues, nobody queued twice), `PhaseMatchesPermit` (a lease or
one being dropped always has its permit) and `EachEngineInOnePlace`.
`PhaseMatchesPermit` is what makes it inductive: without it the pop could not be shown
to find an engine. From it: `TypeCorrect`, `SemaphoreSafe`, `ExclusiveEngines`,
`NeverUnexpectedlyEmpty` (a counting argument: each leased engine has a holder of its
own, and a granted client is one more), and `Refinement` (`EnginePool`
implements `ExclusiveLeases`). What the semaphore's operations do to `SemInv` is proved once and
used three times, by the pool and by both locks of the asynchronous engine.

**ChatServerProofs, the handlers.** `ServerUsesThePool` shows first that every step of the server is
a step of the pool or leaves it alone, so that the pool's `IInv` holds of the server.
`ServerInv` adds the handlers' types, `HandlerMatchesPhase` (where a handler and its
generation may be while its request is queued, granted, leased or returning),
`ParamsKept`, `GaugeCoversHandlers` and `HangUpIsNoticed` (after a pass nobody waited
for, the generation is about to sample, where it finds the receiver gone, or is over;
and a stream has no second generation to start). That a replica carries its own parameters
again as soon as nobody generates on it rests on the exclusive lease: two workers on
one replica would restore each other's. From it `ParamsAreKeptApart`,
`AnswerComesLast`, `GaugeNeverTooLow` (the handlers that count are counted as a set
whose size changes by one) and `HangUpCostsAtMostOnePass`.

**KvCacheProofs**, in three parts.

* *Prefix cache.* `PrefixInv` = types, `SessionsInOrder` (how far a session has got),
  `HeldBlocksStay` (what it holds is pinned and right) and `ArenaConsistent`. The heart is that a path in
  the trie determines the prefix it stands for, that a slot belongs to one node, and
  that a node which a session holds has a count above zero and is no victim. A block
  may outlive the ancestors it was inserted under; it stays right since its tensors
  were computed from the whole path, which the lookup walks again.
  `PrefixesStayRight`, `ArenaStaysConsistent`. `ArenaStaysBounded` adds the bound
  itself and the origin of the prompts (`ArenaInv`): a new slot above `max_blocks` is
  taken only when every slot is pinned; each pinned slot is then the block of some
  session at some place of its prompt, which maps the slots one to one into sessions
  times places, and the block to be stored has a place of its own besides.
* *Prefix-cached engine.* `EngineInv` = `PrefixInv`, types, `SessionFollowsStage`,
  `ComputesRight` (at every stage, which positions of which KV cache hold the state of
  the prompt of the request) and `TrieNotPoisoned`. `TrieStaysClean` and
  `CachedAnswersAreRight` assume `"fallback" \notin Tiers`; `prefix_engine_fallback`
  shows that without it they are false.
* *Paged cache.* `PagedInv` = types, disjoint pages, every written position mapped, and
  owners known (a dropped sequence owns nothing but what its drop is still giving
  back). It yields `DisjointPages` and `PagedIsPrivateMemory`: a write changes one
  `KvStore` entry because the page and slot of two different places differ, which
  rests on disjointness and on division with remainder by `BlockSize`. With
  `Accounted` (each page is free or someone's, counted) also `NoPageIsLost`.

**ThreadsProofs**, about what many threads run at once.

* *Circuit breaker.* `NoVerdictPending` (`VerdictsAreGiven`) speaks of moments without a
  method under way and is not inductive. `IInv` says at *every* moment that a count at
  its limit belongs to a thread about to store the verdict or to clear the count.
* *Tasks of the products.* `TasksShareTheOutput`: for every shape, all limits and sizes
  of tiles (none empty, `TilesAssumption`), the tasks an entry of `parallel.rs`,
  `tiled.rs` or `parallel_tiled.rs` cuts its output into are a `Partition` of it. Each
  cell is written by one slice of one task, and a slice, whose kernel counts rows and
  columns from 0, goes to the cells of its own rows and columns. It rests on
  `TilesPartition`, division with remainder for a `while` loop with a shorter last
  tile; `TiledColumn` puts such tiles at a place of a column and `PartsPartition` puts
  the columns together. The sequential `gemm_tiled` flattens three nested loops into one
  task; `GemmTiledPartition` goes from a round of the flat loop to the counters of the
  nested ones and back.
* *What the products hold.* `GpuProducts`: for each of the 76 matrix kernels, every
  shape and every order of the thread blocks, a cell holds the sum over all blocks of
  its row and column, at the bytes where the host laid them out. `KInv` says that the
  rows of blocks that ran are done and all others are as the host left them.
  `WarpHasAllBlocks` is about the reduction within a warp: a level of the shuffle or
  of the halving loop leaves in a lane the bag of all blocks whose number has the
  lane's remainder, so that the last one leaves all in the first lane, none twice.
  `CpuProducts` says the same of the processor's 65 kernels under the 18 entries, whatever order
  the tasks and their slices run in: in `CInv` the slices left are in
  place and share no cell, the cells of the others are done and theirs untouched; the
  partition of the previous point makes it inductive. Together they are
  `ProductsAreRight`.
* *Grids of the element kernels.* `EveryElementOnce`: the loops of a grid that is cut
  off at `DIT_GLUE_MAX_GRID` groups take every element once.

**RequestQueueProofs.** `QueueInv` = types and capacity, freshness of ids, FIFO
and `NoLostWakeup` in its counting form: while a producer is parked, the free
slots are no more than the notified producers on their way (and the same for
consumers and items). The plain form, "a parked thread and a free slot never
coexist", is false in between and not inductive. From it `ItemsLeaveOnceInOrder`
(`BoundedFifo`: never above its capacity, each accepted item out once and in order) and
`WakeupsAreKept`.

**GpuForwardProofs**, about what outlives a call on the device, and what a call computes.

* `RecordedGraphIsKept` and `ReplayedPointersAreValid`: a recorded graph never points
  at buffers, a KV store or layers that were given back. `acquire_kv_cache` does not
  drop the graph; it is kept safe because buffers and store always belong to one model
  and context, so that the store is only replaced together with the buffers, which do
  drop it. `SizesAssumption` is what the argument rests on: see the next section for
  models of equal shape.
* `AnswersAreOwn`: every logit comes from the loaded model and the rows of the
  running context. `AnswerInv` adds to the graph's invariant that the recorded norm is
  the one this model needs, that no norm of another model is cached under a key in
  use, that the store has room, and that in mid-generation the store decoding reads
  holds the whole prefix. Its three hypotheses name what the code does not
  guard: `SeparateKeys` (the final norms are cached under keys fixed per family, so that a
  second model of a family would get the first one's), `OwnStores` (1-bit prompts in
  one batch on CUDA, which is `gpu_prompt`, and standard formats, whose batch fills a
  store that decoding does not read) and `NormOnce` (a graph recorded with the final
  norm, beside an LM head left to the CPU, which applies it again). The run's
  instance satisfies all three.
* `WeightsAreNeverStale`: `WeightsInv` says that a buffer has one owner, holds
  what its owner put there, and that every copy on the device equals its buffer and
  belongs to the product under way (CUDA) or to a buffer that stays (Metal). It is for
  hosts that evict or keep; the other hosts are those of `stale_weights`, and a failing
  `"gemm"`, which leaves its copy behind, is assumed away (section 5).
* `FusedImageIsPerOp` (`ImageLikePerOp`): for all widths, heads, numbers of blocks and
  steps, and whichever fused calls fail before they write, the streams and latents are
  those of the per-operation path. `ImageInv` says so between any two blocks, with the
  shapes of the streams. `SameDoubleBlock` and `SameSingleBlock` compare where a fused kernel
  puts each element (heads within the packed projection, columns of the concatenated
  rows) with where the separate operations do, by division with remainder, whatever the
  device buffers held before. The loop over all single blocks in one device call goes by the
  least number of blocks at which it could differ. Nothing is used of what `Fingerprint`
  computes, so the collisions its small range allows play no part here. Its hypothesis is
  `"download" \notin Faults`: with it the property is false (section 5).

**GpuLayerProofs.** `LaunchesComputeTheBlocks` is `LayersLikeReference` for every
number of layers, slots, columns and calls and for all token sequences. The argument goes
from the small to the large.

* *One launch* sets one cell or one row and leaves the others (`Sets`, `StoreIs`); what it
  sets there depends only on its sources, the position and the rows up to it.
* *One token.* The launches of attention and of the feed-forward part, fused or
  stepped, in their order, turn a hidden state into that of `RefBlock`, provided the layer's
  earlier rows are the reference's (`AttentionRuns`, `LayerOfToken`).
* *One batch.* A launch for every column does to each column what it does to one, since no
  column reads what another one writes (`ColsRun`); the loop over the tokens within a
  layer stores their rows one after the other (`BatchStep`).
* *A call.* All layers of a token or a batch (`LayersRun`), then the uploads, the final
  norms and the LM head: `CallRight`, one case for each of the 14 programs and kinds of call.
* *The process.* `LayerInv` says that the rows of the tokens seen are in the cache, that
  a recorded sequence is the one that would be launched, that the tokens fit, and what
  the last call returned. A rewind keeps rows that are right because the reference rows
  of a prefix do not depend on what follows it.

Nothing is assumed about what the buffers held before. The 1-bit CUDA batch is outside
the property (`KnowsItsPosition`): it never uploads its position, see `gpu_prompt` in
section 5.

**LibraryProofs.**

* *Depth.* `DepthIsExact`: the counter is the number of threads that hold a slot and
  at most the maximum. A loaded value may be stale (and equal again) at the
  exchange; what counts is that the exchange compares with the counter of that moment,
  so the invariant needs nothing about `loaded` but its type and bound.
* *Asynchronous engine.* `AsyncInv` = `SemInv` of both locks, types,
  `SlotsFollowCalls`, `LockFollowsJobs` (which job may have which lock, also after its
  future is gone) and `GaugeCoversCounted`; from it `AdmittedWork`.
* *Scheduler.* `SchedulerInv` keeps the waiting queue sorted by priority and,
  within one, by arrival, and relates it to what was already admitted: `ServedInOrder`.
* *Model cache.* `ModelsAlwaysFit`, for every budget and every set of models: the
  bytes held are a sum over the entries, and each turn of the eviction loops takes one
  out of it.
* *Rate limiter.* `BucketsAreNeverForgotten` refines `TokenBuckets`. `LimiterInv` ties
  each bucket's level to what it would have earned since it was last seen; a bucket
  may be forgotten since `Ttl * Rps >= Burst`: it would be full by then (`EarnedSinceSeen`).

Every safety invariant, action property and refinement a passing run checks is one of
these theorems, but for three. Only model-checked are

* the liveness properties `EveryPoolAnswers`, `EveryRequestEnds`, `OpenIsTried`,
  `EveryItemServed`, `EveryRequestFinishes` and `EveryCallAnswered`, since fairness and
  ENABLED are outside the prover's reach;
* `LaunchesLikeReference`. Which bits a kernel takes a weight from is a finite table for
  each format, which TLC goes through completely: no shape enters it. Of the
  element kernels, the reductions are trees over a group whose size is a power of two,
  with values that are terms; only the grids are proved;
* `TextLikeReference` and `ModelFilesLikeReference`: recursion over words, rules and
  bytes. The grammars and the files are modelled with RECURSIVE operators and bitwise
  arithmetic, which the provers do not read.

## 5. Where code and documentation differ

With a run (`PROJECT.json` quotes the lines):

* `active_requests` is documented as the number of in-flight requests
  (`metrics.rs` 320). A handler dropped while it awaits an engine never decrements
  it, nor does `/v1/completions` when its tokens do not decode (`completions.rs`
  212-215). `chat_server_gauge`.
* `prefix_cache_engine.rs` 28-34 says a probe for real KV state keeps the trie
  from being poisoned on GPU tiers. The probe asks whether *some* key of the prompt
  is non-zero; after a fallback of part of the calls it passes while other
  positions were never computed on the CPU. `prefix_engine_fallback`.
* A comment calls the 1-bit batch prefill of CUDA fine
  (`forward_cuda/q1.rs` 328). It never uploads a token's position. `gpu_prompt`.
* The ternary code `0b11` is documented as 0 in every tier (`traits.rs` 147).
  Several SIMD kernels decode it as +1. `reserved_code`.
* The recognizer is said to handle nullable grammars without special treatment
  (`earley.rs` 5-6); an item that comes to expect an already completed empty rule is
  never advanced. `nullable_rules`.
* The cache of masks admits only hash collisions as a source of a wrong mask
  (`cache.rs` 8-10); its key leaves out the earlier item sets. `mask_cache`.
* The GPU path is said to evict a weight after each product (`te/weights.rs` 173);
  only CUDA's does. `stale_weights`.

Seen while modelling, without a run of their own:

* *Prefix cache.* It exceeds `max_blocks` while every block is pinned
  (229-234); `ArenaIsBounded` states by how much at most. A lookup compares the
  tokens of each block but not of its ancestors, so a collision of the 32-bit edge
  key could hand out wrong state (189 and 378-380); `clear()` leaves open sessions
  with indices into the next arena (364).
* *Paged cache.* `read_kv` returns what an unwritten slot of a mapped page holds,
  possibly another sequence's old value (519), and `sequence_length` reports
  capacity rather than tokens (555); `written` is therefore a history here.
* *Breaker.* It stores `Open` before the time of the failure (180, 187): a caller in
  between is let through although the header promises immediate rejection (16). The
  thread that enters half-open is not counted, so one trial more than
  `half_open_max_requests` runs, which a test acknowledges. If all trials are lost
  to panics the breaker stays half-open until `reset`.
* *Queues.* A producer whose wait times out drops its item although a slot may
  just have come free (`request_queue.rs` 139-143); ids are drawn before the lock, so
  queue order is not id order. Low priorities starve under a stream of high ones in
  the continuous scheduler, by its design.
* *Token count.* With the server's metrics attached to the replicas
  (`set_metrics_all`, `engine_pool.rs` 118) the engine adds the tokens of every
  generation to `tokens_generated_total` (`engine.rs` 509, 587, 730) and the plain
  handlers add theirs again (`server.rs` 410, `completions.rs` 207), so streamed
  tokens are counted once and others twice. Without, streamed tokens are not
  counted. Nothing in this repository calls `set_metrics_all`.
* *Admission.* `check_and_consume` says a denial modifies no state
  (`rate_limiter.rs` 218) but takes the global token first and touches the client
  table, which `max_clients` bounds only when stale entries exist (239; the doc at
  101 speaks of LRU); `check` and `is_global_limited` peek without a refill (187).
  `try_acquire` has one `compare_exchange` under the comment "CAS loop"
  (`server.rs` 742), so a caller can be turned away from a queue with room.
* *Async engine.* The permit of `generate` goes with its future while the job
  runs on, so more jobs than permits may exist; the engine mutex serialises them.
* *Model cache and hot reload.* With `max_models = 0` the first eviction loop of
  `get_or_insert` does not end (`model_cache.rs` 321); the projected memory is computed
  once (329), so one entry too many empties the cache. Two reloads may enter the
  history in the other order of their generations (`hot_reload.rs` 118).
* *Semantic cache.* A lookup skips vectors "whose dimension no longer matches" after
  a refit (`semantic_cache.rs` 434-436); a refit that ends with the same number of
  features (always so once `max_features` caps the vocabulary) leaves old vectors
  to be compared with queries of another vocabulary. `clear` takes its locks one after
  the other, so an insert in between leaves `stats.entries` at 0 beside an entry.
* *Metrics.* `admin.rs` 192 resets a counter by adding the complement of what it
  read, other increments in between survive.
* *GPU state.* Two models of equal shape share the cached layers of the first one;
  a failing LM head after a capture applies the final norm twice; the layer handles
  start at the fixed number 2 000 000; `encode_full_layer` of CUDA reads a position
  nobody uploads. With the standard formats a GPU batch prefill is followed by
  decoding from the CPU's KV cache, against `model/types/mod.rs` 340.
* *Kernels.* The GPU loads of 16 bytes need aligned rows, which some of the
  layouts do not have for every shape (`cuda_kernels.rs` about 655, `reformat.rs` 20);
  `DataAligned` names the condition. FP8 codes for NaN and infinity decode to 0 on
  the GPU only. Indices are computed in 32 bits. `argmax_f32` breaks ties by thread.
  `gemm_*_par` panics for `n_rows = 0`. CUDA's `batched_swiglu` and Metal's expect
  different layouts, each its own callers'.
* *Model files.* With `general.alignment` among the metadata and another
  `set_alignment` the writer pads to the one and announces the other, although it
  writes the key "so that the reader can reconstruct the correct data_offset"
  (`writer.rs` 222-227). It pads by remainder, both readers by mask, which agree for
  powers of two only. Of an alignment that comes twice the streaming parser takes the
  first, the reader the last, and the reader accepts other integer types for it:
  `OneAlignment` limits the comparison of data offsets. The streaming parser keeps
  four dimensions of a tensor, the reader all.
* *Tokenizer.* The streaming decoder decodes each id into an empty buffer, so in the
  legacy mode the space of a `Ġ` token is lost on every id (`tokenizer.rs` 303),
  against `tokenizer.rs` 253-254 ("so that the two paths stay byte-for-byte
  identical"): with such a tokenizer in `StreamedBy`, `StreamedAsDecoded` is
  violated. A byte that no text can start with holds back all that follows, until
  `finish` (`streaming.rs` 168-171). A tokenizer file that names no special tokens
  leaves ids 0 to 3 in their default roles, and decoding drops them
  (`tokenizer.rs` 58-72). `encode` never maps bytes to GPT-2's characters, which
  byte-level vocabularies are made of. With a trained vocabulary the mark `Ġ` has no
  token and is encoded as its two bytes, so that a space comes back as that
  character; words beyond ASCII are cut otherwise than in training, where symbols
  are bytes and not characters. A byte without a token vanishes if another of its
  word has one (`bpe.rs` 189-202).
* *Convolution.* The CUDA launcher of the VAE's convolutions promises an error on any
  length mismatch (`cudagraph_imagen_vae_group.rs` 77-79), but its fast path for one tap
  without padding (from 146) returns before the weight's length is looked at (194): with
  such a call, `LaunchesLikeReference` is violated.
* *Masks.* The key of a mask leaves out the vocabulary's size.
* *Image.* `blocks.rs` 98-101 promises untouched streams after an error of the
  fused double block; its two downloads
  (`cudagraph_dit_double_block_group.rs` 386-389) may fail between each other. With
  `"download"` in `Faults`, `ImageLikePerOp` is violated. A failing GEMM returns
  before the eviction of its weight (`cuda_gpu.rs` 229-230, `te/cuda_gpu.rs` 116-117):
  with `"gemm"` in `GpuFaults`, `ProductsUseTheirWeights` is violated, as it is for a
  second session of a process on Metal.

## 6. Not modelled

* Arithmetic. Whatever a kernel computes with the right operands (rounding,
  quantisation error, overflow of accumulators) is taken as done.
* Of the kernels: de-quantisation on the GPU, flash attention, implicit convolution, the
  tiled products of the image models and their buffer pools, superseded kernels
  (`kernel_sources/archive.rs`), tuning, benchmarks and the order of arguments in host
  launchers.
* Failures of single GPU calls in the language model's forward pass, and two
  models of equal shape in one process (excluded by `SizesAssumption`).
* Lexing and parsing of grammar notations; the older automata in
  `constrained_decoding/`.
* The text encoder's layers, the VAE, PNG, safetensors; the ternary weights of the
  image model, whose cache is keyed by addresses of the memory map and never
  evicted.
* Version reports and model cards of GGUF files, safetensors, the quantisers and the
  views of tensor data; of the tokenizer BOS, EOS and `max_length`, `finish_lossy`, the
  parsing of tokenizer files and of training documents, serialization and chat templates;
  sampling, evaluation, retrieval, training, conversion,
  the web assembly build, configuration and start-up: sequential text, byte or
  floating-point algorithms, or wiring, with no state shared between actors.
* Response caches, registries and routing, hot reload, error recovery, middleware,
  metrics: maps and counters, each behind one lock or atomic, or, for the semantic
  cache, a property of floating-point similarity. What reading them brought up is in
  section 5.

## 7. Running

```
tlc -workers 2 -config MCEnginePool.cfg MCEnginePool
tlapm ChatServerProofs.tla
```

The largest instances take two to four minutes; every proof module checks within
about four.
