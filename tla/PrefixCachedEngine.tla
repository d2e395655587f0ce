-------------------------- MODULE PrefixCachedEngine --------------------------
(***************************************************************************)
(* pictor-runtime/src/prefix_cache_engine.rs: one engine that serves its   *)
(* requests one after the other and restores the KV state of a cached      *)
(* prefix before it runs the rest of the prompt.                           *)
(*                                                                         *)
(* The model keeps one KV cache in CPU memory and the GPU backends keep    *)
(* another one; every forward call uses one of them, and falls back from   *)
(* the GPU to the CPU when the GPU call fails.  The cache below only ever  *)
(* touches the CPU one.  What a cache slot holds is abstracted, as in      *)
(* PrefixCache, to the blocks it was computed under: ZeroKv for a slot     *)
(* never written, Garbage for one computed under anything but a prompt.    *)
(***************************************************************************)
EXTENDS PrefixCache

CONSTANTS
    gen,      \* the session of the request being served: the engine opens no other
    Tiers     \* the kinds of machine: subset of {"cpu", "gpu", "fallback"}

ASSUME GenAssumption == gen \in Sessions
ASSUME TiersAssumption == Tiers \subseteq {"cpu", "gpu", "fallback"}

VARIABLES
    tier,         \* where this process computes
    genStage,     \* where generate is
    cpuKv,        \* KvCache: what each block of positions was computed under
    gpuKv,        \* the same for the KV cache the GPU keeps
    rightLogits   \* were all logits so far computed under the prompt itself?

engineVars == <<tier, genStage, cpuKv, gpuKv, rightLogits>>
allVars == <<trie, tokens, blockKv, refs, occupied, pool, recency, phase, prompt,
             held, next, tier, genStage, cpuKv, gpuKv, rightLogits>>

ZeroKv == <<>>
Garbage == <<"garbage">>
KvSlots == {1} \cup UNION {1 .. Len(p) + 1 : p \in SessionPrompts}

Devices == CASE tier = "cpu" -> {"cpu"}
             [] tier = "gpu" -> {"gpu"}
             [] tier = "fallback" -> {"cpu", "gpu"}

EngineInit ==
    /\ PrefixInit
    /\ tier \in Tiers
    /\ genStage = "idle"
    /\ cpuKv = [i \in KvSlots |-> ZeroKv]
    /\ gpuKv = [i \in KvSlots |-> ZeroKv]
    /\ rightLogits = TRUE
-----------------------------------------------------------------------------
\* generate, steps 1 to 3: reset (which only rewinds the length), look the
\* prompt up and copy what was found into the CPU cache.
Begin(p) ==
    /\ genStage = "idle"
    /\ Prepare(gen, p)
    /\ genStage' = "prepared"
    /\ cpuKv' = [i \in KvSlots |-> IF i <= Matched(p) THEN blockKv[trie[Path(p, i)]] ELSE cpuKv[i]]
    /\ rightLogits' = TRUE
    /\ UNCHANGED <<tier, gpuKv>>

RightAt(cache, i) == cache[i] = SubSeq(prompt[gen], 1, i)
Fresh == Len(held[gen]) + 1 .. Len(prompt[gen])

\* `cache` after device `d` has run blocks up to `upto` of those that `where`
\* gives it: a block comes out right if all blocks before it are.
Filled(cache, d, where, upto) ==
    [i \in KvSlots |->
        IF i \in Fresh /\ i <= upto /\ where[i] = d
        THEN IF \A j \in 1 .. i - 1 : RightAt(cache, j) \/ (j \in Fresh /\ where[j] = d)
             THEN SubSeq(prompt[gen], 1, i)
             ELSE Garbage
        ELSE cache[i]]

CacheOf(d) == IF d = "cpu" THEN cpuKv ELSE gpuKv
AllRight(cache) == \A i \in DOMAIN prompt[gen] : RightAt(cache, i)

\* generate, step 4, when there is a suffix: prefill_from_pos.  Each forward
\* call may run on another device.
Prefill ==
    /\ genStage = "prepared"
    /\ Fresh # {}
    /\ \E where \in [Fresh -> Devices] :
          LET last == where[Len(prompt[gen])]
          IN  /\ cpuKv' = Filled(cpuKv, "cpu", where, Len(prompt[gen]))
              /\ gpuKv' = Filled(gpuKv, "gpu", where, Len(prompt[gen]))
              /\ rightLogits' = AllRight(IF last = "cpu" THEN cpuKv' ELSE gpuKv')
    /\ genStage' = "prefilled"
    /\ UNCHANGED <<tier, cacheVars, sessionVars>>

\* generate, step 4, when everything was cached: the last token runs again
\* and only its own position is written.
RerunLast ==
    /\ genStage = "prepared"
    /\ Fresh = {}
    /\ \E d \in Devices : rightLogits' = AllRight(CacheOf(d))
    /\ genStage' = "prefilled"
    /\ UNCHANGED <<tier, cpuKv, gpuKv, cacheVars, sessionVars>>

\* The forward pass fails at some block (out of context, bad token): the
\* session is released, generate returns an empty answer, and the positions
\* written before the error stay as they are.
PrefillFails ==
    /\ genStage = "prepared"
    /\ \E where \in [Fresh -> Devices], upto \in {Len(held[gen])} \cup Fresh :
          /\ cpuKv' = Filled(cpuKv, "cpu", where, upto - 1)
          /\ gpuKv' = Filled(gpuKv, "gpu", where, upto - 1)
    /\ ReleaseSession(gen)
    /\ genStage' = "idle"
    /\ UNCHANGED <<tier, rightLogits>>

\* (mutant) Whatever the CPU cache holds is taken for KV state.
NoProbe == TRUE

\* real_cpu_kv: some key of the prompt's positions is not zero.
RealCpuKv == \E i \in DOMAIN prompt[gen] : cpuKv[i] # ZeroKv

MustStore == genStage = "prefilled" /\ Fresh # {} /\ RealCpuKv /\ phase[gen] # "stored"

\* (mutant) Extraction starts at the beginning of the prompt.
StoreFromStart ==
    /\ MustStore
    /\ Insert(gen, cpuKv[next[gen] - Len(held[gen])])
    /\ UNCHANGED engineVars

\* generate, step 6: the new blocks are extracted and stored one by one.
Store ==
    /\ MustStore
    /\ Insert(gen, cpuKv[next[gen]])
    /\ UNCHANGED engineVars

MakeRoom ==
    /\ MustStore
    /\ Evict(gen)
    /\ UNCHANGED engineVars

\* generate, steps 7 and 8: decode, which writes positions behind the prompt
\* on whatever device each token runs, and release the session.
DecodeAndRelease ==
    /\ genStage = "prefilled"
    /\ ~ MustStore
    /\ \E used \in SUBSET Devices :
          /\ LET n == Len(prompt[gen]) + 1
             IN  /\ cpuKv' = IF "cpu" \in used THEN [cpuKv EXCEPT ![n] = Garbage] ELSE cpuKv
                 /\ gpuKv' = IF "gpu" \in used THEN [gpuKv EXCEPT ![n] = Garbage] ELSE gpuKv
          /\ rightLogits' = (rightLogits /\ \A d \in used : AllRight(CacheOf(d)))
    /\ ReleaseSession(gen)
    /\ genStage' = "answered"
    /\ UNCHANGED tier

\* The answer is taken and the engine waits for the next request.
Answer ==
    /\ genStage = "answered"
    /\ genStage' = "idle"
    /\ UNCHANGED <<tier, cpuKv, gpuKv, rightLogits, cacheVars, sessionVars>>

\* clear_cache: the trie goes, the model's own KV cache stays.
ClearCache ==
    /\ genStage = "idle"
    /\ Clear
    /\ UNCHANGED engineVars

EngineNext ==
    \/ \E p \in SessionPrompts : Begin(p)
    \/ Prefill
    \/ RerunLast
    \/ PrefillFails
    \/ Store
    \/ MakeRoom
    \/ DecodeAndRelease
    \/ Answer
    \/ ClearCache

EngineSpec == EngineInit /\ [][EngineNext]_allVars
-----------------------------------------------------------------------------
\* No KV state is kept for a prefix it was not computed under: the engine
\* "falls back to plain prefill without poisoning the trie" (lines 28-34).
TrieNotPoisoned ==
    \A q \in DOMAIN trie :
        \E p \in SessionPrompts : \E n \in DOMAIN p :
            blockKv[trie[q]] = SubSeq(p, 1, n) /\ q = Path(p, n)

\* A request answered with the help of the cache is answered from exactly the
\* state that running its whole prompt would have produced.
AnswersLikePlainEngine == genStage = "answered" => rightLogits
-----------------------------------------------------------------------------
EngineTypes ==
    /\ tier \in {"cpu", "gpu"}
    /\ genStage \in {"idle", "prepared", "prefilled", "answered"}
    /\ cpuKv = [i \in KvSlots |-> cpuKv[i]] /\ gpuKv = [i \in KvSlots |-> gpuKv[i]]

\* The session of a request is open from lookup to release.
SessionFollowsStage ==
    /\ genStage \in {"idle", "answered"} => phase[gen] = "closed"
    /\ genStage = "prepared" => phase[gen] = "open" /\ next[gen] = Len(held[gen]) + 1
    /\ genStage = "prefilled" => phase[gen] # "closed"
    /\ phase[gen] # "closed" => prompt[gen] \in SessionPrompts

\* The cache that is computed with is right as far as it was filled, and where
\* the CPU cache is not computed with, nothing gets into it or into the trie.
ComputesRight ==
    /\ genStage # "idle" => rightLogits
    /\ genStage = "prefilled" => AllRight(CacheOf(tier))
    /\ tier = "cpu" /\ genStage = "prepared" => \A i \in DOMAIN held[gen] : RightAt(cpuKv, i)
    /\ tier = "gpu" => /\ DOMAIN trie = {} /\ Len(held[gen]) = 0
                       /\ \A i \in KvSlots : cpuKv[i] = ZeroKv

\* The inductive invariant behind the theorems on the engine of KvCacheProofs,
\* on machines that always compute on the same device.
EngineInv ==
    /\ PrefixInv
    /\ EngineTypes
    /\ SessionFollowsStage
    /\ ComputesRight
    /\ TrieNotPoisoned
=============================================================================
