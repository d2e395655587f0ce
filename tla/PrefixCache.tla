----------------------------- MODULE PrefixCache -----------------------------
(***************************************************************************)
(* pictor-model/src/prefix_cache.rs: a trie of fixed-size token blocks     *)
(* whose nodes point at blocks of precomputed KV state.  A session pins    *)
(* the blocks of the longest cached prefix of its prompt (`prepare`),      *)
(* stores the blocks it computed itself (`store_blocks`) and unpins        *)
(* (`release_session`).  Unpinned blocks are evicted, coldest first.       *)
(*                                                                         *)
(* A prompt is a sequence of whole blocks.  The content of a block stands  *)
(* for its tokens and KeyOf for the 32-bit hash that labels trie edges.    *)
(* `blockKv` is the tensors of a block, abstracted to the sequence of      *)
(* blocks they were computed under: KV state of a block is only right for  *)
(* a prompt that starts with that very sequence.  A trie node without a    *)
(* block is found by nobody, so `trie` keeps only the nodes that carry     *)
(* one.  No two `last_used` stamps are equal, so `recency` keeps           *)
(* only the order they put on the blocks: who was used before whom.        *)
(***************************************************************************)
EXTENDS Integers, Sequences, SequencesExt, FiniteSets

CONSTANTS
    Sessions,        \* requests that may hold a CacheSession at one time
    Content,         \* token blocks that occur in prompts
    KeyOf,           \* block_edge_key: a function on Content
    SessionPrompts,         \* the prompts of the requests, as sequences of blocks
    MaxBlocks        \* max_blocks given to PrefixCache::new

ASSUME SessionPromptsAssumption == SessionPrompts \subseteq Seq(Content)
\* No prompt is longer than the context.
ASSUME LongestPromptAssumption ==
    \E p \in SessionPrompts : \A q \in SessionPrompts : Len(q) <= Len(p)
ASSUME MaxBlocksAssumption == MaxBlocks \in Nat
ASSUME SessionsAssumption == IsFiniteSet(Sessions)
\* "distinct token sequences produce distinct keys with very high
\* probability" (lines 378-379): the model is of the runs in which they do.
ASSUME KeyAssumption == \A c, d \in Content : KeyOf[c] = KeyOf[d] => c = d

VARIABLES
    trie,       \* trie nodes carrying a block: edge keys from the root -> index
    tokens,     \* the arena: the token_ids of each block, ...
    blockKv,    \* ... what its tensors were computed from
    refs,       \* ... and its ref_count
    occupied,   \* occupied_blocks
    pool,       \* free_block_pool, a stack
    recency,    \* <<a, b>> when block a was used before block b
    phase,      \* where each session is in prepare / store_blocks / release
    prompt,     \* the token_ids of each open session
    held,       \* block_indices of each open session
    next        \* the block each session stores next

cacheVars == <<trie, tokens, blockKv, refs, occupied, pool, recency>>
sessionVars == <<phase, prompt, held, next>>
prefixVars == <<trie, tokens, blockKv, refs, occupied, pool, recency, phase, prompt, held, next>>

Phases == {"closed", "open", "storing", "stored"}
Indices == 1 .. Len(tokens)

TypeOK ==
    /\ tokens \in Seq(Content)
    /\ blockKv \in [Indices -> Seq(Content)]
    /\ refs \in [Indices -> Nat]
    /\ occupied \subseteq Indices
    /\ pool \in Seq(Indices)
    /\ recency \subseteq Indices \X Indices
    /\ phase \in [Sessions -> Phases]
    /\ prompt \in [Sessions -> Seq(Content)]
    /\ held \in [Sessions -> Seq(Nat)]
    /\ next \in [Sessions -> Nat]

CacheInit ==
    /\ trie = [path \in {} |-> 0]
    /\ tokens = <<>>
    /\ blockKv = <<>>
    /\ refs = <<>>
    /\ occupied = {}
    /\ pool = <<>>
    /\ recency = {}

PrefixInit ==
    /\ CacheInit
    /\ phase = [s \in Sessions |-> "closed"]
    /\ prompt = [s \in Sessions |-> <<>>]
    /\ held = [s \in Sessions |-> <<>>]
    /\ next = [s \in Sessions |-> 1]
-----------------------------------------------------------------------------
Path(p, n) == [i \in 1 .. n |-> KeyOf[p[i]]]

\* lookup, one turn: the edge leads to a node that carries a block, and the
\* tokens of that block (not those of its ancestors) equal the prompt's.
Hit(p, n) ==
    /\ Path(p, n) \in DOMAIN trie
    /\ tokens[trie[Path(p, n)]] = p[n]

\* lookup stops at the first miss.
Matched(p) ==
    CHOOSE n \in 0 .. Len(p) :
        /\ \A i \in 1 .. n : Hit(p, i)
        /\ n < Len(p) => ~ Hit(p, n + 1)

WithoutUses(blocks) == {u \in recency : u[1] \notin blocks /\ u[2] \notin blocks}

\* The blocks of a sequence are stamped one after the other.
Touched(blocks) ==
    LET last == Range(blocks)
    IN  WithoutUses(last) \cup ((occupied \ last) \X last)
        \cup {u \in last \X last :
                  \E i, j \in DOMAIN blocks : i < j /\ u = <<blocks[i], blocks[j]>>}

\* `&mut self`: the loop of store_blocks is not interleaved with other calls.
NobodyStoring == \A s \in Sessions : phase[s] # "storing"

\* (mutant) The blocks handed to the session are not pinned.
PrepareUnpinned(s, p) ==
    /\ NobodyStoring
    /\ phase[s] = "closed"
    /\ LET found == [i \in 1 .. Matched(p) |-> trie[Path(p, i)]]
       IN  /\ recency' = Touched(found)
           /\ held' = [held EXCEPT ![s] = found]
           /\ next' = [next EXCEPT ![s] = Len(found) + 1]
    /\ phase' = [phase EXCEPT ![s] = "open"]
    /\ prompt' = [prompt EXCEPT ![s] = p]
    /\ UNCHANGED <<trie, tokens, blockKv, refs, occupied, pool>>

\* prepare: lookup pins and stamps the blocks it finds; the session names
\* them (find_block_idx_for_edge walks the same nodes again).
Prepare(s, p) ==
    /\ NobodyStoring
    /\ phase[s] = "closed"
    /\ LET found == [i \in 1 .. Matched(p) |-> trie[Path(p, i)]]
       IN  /\ refs' = [b \in Indices |->
                          IF b \in Range(found) THEN refs[b] + 1 ELSE refs[b]]
           /\ recency' = Touched(found)
           /\ held' = [held EXCEPT ![s] = found]
           /\ next' = [next EXCEPT ![s] = Len(found) + 1]
    /\ phase' = [phase EXCEPT ![s] = "open"]
    /\ prompt' = [prompt EXCEPT ![s] = p]
    /\ UNCHANGED <<trie, tokens, blockKv, occupied, pool>>
-----------------------------------------------------------------------------
\* store_blocks is at a block that the prompt still covers.
StoresNext(s) ==
    /\ phase[s] \in {"open", "storing"}
    /\ next[s] <= Len(prompt[s])
    /\ \A t \in Sessions \ {s} : phase[t] # "storing"

Full == Cardinality(occupied) >= MaxBlocks
Evictable == {b \in occupied : refs[b] = 0}

\* The least recently used block without references.
IsColdest(b) ==
    /\ b \in Evictable
    /\ \A other \in Evictable \ {b} : <<b, other>> \in recency

\* (mutant) Eviction does not look at the reference counts.
EvictPinned(s) ==
    /\ StoresNext(s)
    /\ Full
    /\ \E b \in occupied :
          /\ \A other \in occupied \ {b} : <<b, other>> \in recency
          /\ occupied' = occupied \ {b}
          /\ recency' = WithoutUses({b})
          /\ pool' = Append(pool, b)
          /\ trie' = [path \in {q \in DOMAIN trie : trie[q] # b} |-> trie[path]]
    /\ phase' = [phase EXCEPT ![s] = "storing"]
    /\ UNCHANGED <<tokens, blockKv, refs, prompt, held, next>>

\* (mutant) The trie node keeps pointing at the block that was evicted.
EvictKeepsNode(s) ==
    /\ StoresNext(s)
    /\ Full
    /\ \E b \in occupied :
          /\ IsColdest(b)
          /\ occupied' = occupied \ {b}
          /\ recency' = WithoutUses({b})
          /\ pool' = Append(pool, b)
    /\ phase' = [phase EXCEPT ![s] = "storing"]
    /\ UNCHANGED <<trie, tokens, blockKv, refs, prompt, held, next>>

\* insert, its first loop: evict_lru frees one block and clears the trie
\* node that points at it.
Evict(s) ==
    /\ StoresNext(s)
    /\ Full
    /\ \E b \in occupied :
          /\ IsColdest(b)
          /\ occupied' = occupied \ {b}
          /\ recency' = WithoutUses({b})
          /\ pool' = Append(pool, b)
          /\ trie' = [path \in {q \in DOMAIN trie : trie[q] # b} |-> trie[path]]
    /\ phase' = [phase EXCEPT ![s] = "storing"]
    /\ UNCHANGED <<tokens, blockKv, refs, prompt, held, next>>

\* What the tensors of the next block were computed under: the KV state of
\* the last block the session was given, and the prompt from there on.
Computed(s) ==
    LET m == Len(held[s])
        given == IF m = 0 THEN <<>> ELSE blockKv[held[s][m]]
    IN  given \o SubSeq(prompt[s], m + 1, next[s])

\* (mutant) The cache makes no room before it inserts.
InsertWithoutEvicting(s, tensors) ==
    /\ StoresNext(s)
    /\ LET path == Path(prompt[s], next[s])
           b == Len(tokens) + 1
       IN  /\ tokens' = Append(tokens, prompt[s][next[s]])
           /\ blockKv' = Append(blockKv, tensors)
           /\ refs' = Append(refs, 0)
           /\ trie' = [q \in DOMAIN trie \cup {path} |->
                          IF q = path THEN b ELSE trie[q]]
           /\ occupied' = occupied \cup {b}
           /\ recency' = recency \cup (occupied \X {b})
    /\ next' = [next EXCEPT ![s] = @ + 1]
    /\ phase' = [phase EXCEPT ![s] =
                     IF next[s] = Len(prompt[s]) THEN "stored" ELSE "storing"]
    /\ UNCHANGED <<pool, prompt, held>>

\* insert, after its first loop (which also stops when every block is
\* pinned): the block takes a freed slot or a new one and its trie node, on
\* a path that is built as needed, points at it from now on.
Insert(s, tensors) ==
    /\ StoresNext(s)
    /\ Full => Evictable = {}
    /\ LET b == IF pool # <<>> THEN Last(pool) ELSE Len(tokens) + 1
           arena == Indices \cup {b}
           path == Path(prompt[s], next[s])
       IN  /\ pool' = IF pool # <<>> THEN Front(pool) ELSE pool
           /\ tokens' = [i \in arena |-> IF i = b THEN prompt[s][next[s]] ELSE tokens[i]]
           /\ blockKv' = [i \in arena |-> IF i = b THEN tensors ELSE blockKv[i]]
           /\ refs' = [i \in arena |-> IF i = b THEN 0 ELSE refs[i]]
           /\ trie' = [q \in DOMAIN trie \cup {path} |->
                          IF q = path THEN b ELSE trie[q]]
           /\ occupied' = occupied \cup {b}
           /\ recency' = recency \cup (occupied \X {b})
    /\ next' = [next EXCEPT ![s] = @ + 1]
    /\ phase' = [phase EXCEPT ![s] =
                     IF next[s] = Len(prompt[s]) THEN "stored" ELSE "storing"]
    /\ UNCHANGED <<prompt, held>>

\* release_session, after the blocks were stored, or without storing any
\* (everything was cached, the prefill failed, or it ran on the GPU).
\* release ignores an index outside the arena and a count that is zero.
ReleaseSession(s) ==
    /\ NobodyStoring
    /\ phase[s] \in {"open", "stored"}
    /\ refs' = [b \in Indices |->
                   IF b \in Range(held[s]) /\ refs[b] > 0 THEN refs[b] - 1
                                                          ELSE refs[b]]
    /\ phase' = [phase EXCEPT ![s] = "closed"]
    /\ held' = [held EXCEPT ![s] = <<>>]
    /\ prompt' = [prompt EXCEPT ![s] = <<>>]
    /\ next' = [next EXCEPT ![s] = 1]
    /\ UNCHANGED <<trie, tokens, blockKv, occupied, pool, recency>>

\* clear: an empty root and an empty arena.  An open session would keep its
\* indices; clear_cache, the only caller, runs between requests.
Clear ==
    /\ \A s \in Sessions : phase[s] = "closed"
    /\ trie' = [path \in {} |-> 0]
    /\ tokens' = <<>>
    /\ blockKv' = <<>>
    /\ refs' = <<>>
    /\ occupied' = {}
    /\ pool' = <<>>
    /\ recency' = {}
    /\ UNCHANGED sessionVars

PrefixNext ==
    \/ \E s \in Sessions :
          \/ \E p \in SessionPrompts : Prepare(s, p)
          \/ Evict(s)
          \/ Insert(s, Computed(s))
          \/ ReleaseSession(s)
    \/ Clear

PrefixSpec == PrefixInit /\ [][PrefixNext]_prefixVars
-----------------------------------------------------------------------------
Open == {s \in Sessions : phase[s] # "closed"}

\* What a session was given stays what it is until the session is released
\* (CacheSession, lines 432-435), and it is the KV state of exactly the
\* session's own prompt up to that block: it is safe to inject.
HeldBlocksStay ==
    \A s \in Open : \A i \in DOMAIN held[s] :
        /\ held[s][i] \in occupied
        /\ blockKv[held[s][i]] = SubSeq(prompt[s], 1, i)

\* ref_count is the number of open sessions that hold the block: it neither
\* leaks, which would pin the block for ever, nor falls short.
Holders(b) == {s \in Open : b \in Range(held[s])}
RefsCountSessions == \A b \in Indices : refs[b] = Cardinality(Holders(b))

\* The stamps order the occupied blocks, so that there is a coldest one.
RecencyOrders ==
    /\ recency \subseteq occupied \X occupied
    /\ \A a, b \in occupied : a # b <=> <<a, b>> \in recency \/ <<b, a>> \in recency
    /\ \A a, b, c \in occupied :
          <<a, b>> \in recency /\ <<b, c>> \in recency => <<a, c>> \in recency

\* The arena, the counts in it, the trie, the occupied list and the free pool
\* agree: the counts are those of the sessions, a slot is occupied or free,
\* a trie node never points at a freed slot, no two nodes share a block
\* (evict_lru clears only the first, lines 411-418), and a node carries the
\* block of the prefix it stands for.
ArenaConsistent ==
    /\ RefsCountSessions
    /\ occupied = Indices \ Range(pool)
    /\ \A i, j \in DOMAIN pool : pool[i] = pool[j] => i = j
    /\ RecencyOrders
    /\ \A q \in DOMAIN trie : trie[q] \in occupied
    /\ \A q, r \in DOMAIN trie : trie[q] = trie[r] => q = r
    /\ \A q \in DOMAIN trie : Path(blockKv[trie[q]], Len(blockKv[trie[q]])) = q

\* The arena is never longer than max_blocks, or than what the sessions may pin
\* at once where that is more: evicted slots are taken again, and max_blocks is
\* exceeded by no more than the requests under way account for, however long the
\* cache is used ("Maximum number of simultaneously live blocks", line 100, against
\* the loop of lines 229-234 that gives up).
LongestPrompt == CHOOSE p \in SessionPrompts : \A q \in SessionPrompts : Len(q) <= Len(p)
ArenaIsBounded ==
    \/ Len(tokens) <= MaxBlocks
    \/ Len(tokens) <= Cardinality(Sessions) * Len(LongestPrompt)
-----------------------------------------------------------------------------
\* Who has what: only an open session holds blocks, and those it stores come
\* after those it was given.
SessionsInOrder ==
    \A s \in Sessions :
        /\ phase[s] = "closed" => held[s] = <<>>
        /\ phase[s] # "closed" => /\ Len(held[s]) <= Len(prompt[s])
                                  /\ next[s] \in Len(held[s]) + 1 .. Len(prompt[s]) + 1

\* The inductive invariant behind the theorems on PrefixCache of KvCacheProofs.
PrefixInv == TypeOK /\ SessionsInOrder /\ HeldBlocksStay /\ ArenaConsistent

\* With it, the one behind the bound on the arena.
ArenaInv ==
    /\ PrefixInv
    /\ \A s \in Open : prompt[s] \in SessionPrompts
    /\ ArenaIsBounded
=============================================================================
