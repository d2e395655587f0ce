---------------------------- MODULE KvCacheProofs ----------------------------
(***************************************************************************)
(* Theorems about the KV caches.  The paged cache: pages are not shared    *)
(* and not lost, and it implements the private memory per sequence of      *)
(* KvStore.  The prefix cache: what a session was given stays and is       *)
(* right, counts, trie and free slots agree.  The engine on top of it:     *)
(* nothing wrong gets into the trie, and cached requests are answered like *)
(* any other.                                                              *)
(***************************************************************************)
EXTENDS PagedKv, PrefixCachedEngine, FiniteSetTheorems, SequenceTheorems,
        WellFoundedInduction, TLAPS

\* A non-empty set of numbers has a least element.
LEMMA LeastElement ==
    ASSUME NEW S \in SUBSET Nat, S # {}
    PROVE  \E m \in S : \A n \in S : m <= n
  <1> DEFINE R == OpToRel(<, Nat)
  <1>1. IsWellFoundedOn(R, Nat)
    BY NatLessThanWellFounded
  <1>2. \A m, n \in Nat : n < m => <<n, m>> \in R
    BY DEF OpToRel
  <1> HIDE DEF R
  <1>3. PICK m \in S : \A n \in S : ~ (<<n, m>> \in R)
    BY <1>1, WFMin
  <1>4. ASSUME NEW n \in S PROVE m <= n
    <2>1. ~ (n < m)
      BY <1>2, <1>3
    <2> QED  BY <2>1
  <1> QED  BY <1>4

\* block_edge_key: as no two blocks have the same key, a path tells the prefix.
LEMMA PathTellsPrefix ==
    ASSUME NEW p \in Seq(Content), NEW n \in 0 .. Len(p),
           NEW q \in Seq(Content), NEW m \in 0 .. Len(q), Path(p, n) = Path(q, m)
    PROVE  n = m /\ \A i \in 1 .. n : p[i] = q[i]
  <1>1. n \in Nat /\ m \in Nat /\ DOMAIN Path(p, n) = 1 .. n /\ DOMAIN Path(q, m) = 1 .. m
    BY DEF Path
  <1>2. n = m
    BY <1>1
  <1>3. ASSUME NEW i \in 1 .. n PROVE p[i] = q[i]
    <2>1. p[i] \in Content /\ q[i] \in Content
      BY <1>2
    <2>2. Path(p, n)[i] = KeyOf[p[i]] /\ Path(q, m)[i] = KeyOf[q[i]]
      BY <1>2 DEF Path
    <2> QED  BY <2>1, <2>2, KeyAssumption
  <1> QED  BY <1>2, <1>3

\* The first blocks of a prompt.
LEMMA PrefixFacts ==
    ASSUME NEW p \in Seq(Content), NEW n \in 0 .. Len(p)
    PROVE  /\ SubSeq(p, 1, n) \in Seq(Content) /\ Len(SubSeq(p, 1, n)) = n
           /\ \A i \in 1 .. n : SubSeq(p, 1, n)[i] = p[i]
           /\ Path(SubSeq(p, 1, n), n) = Path(p, n)
  <1>1. n \in Nat /\ Len(p) \in Nat /\ \A i \in 1 .. n : p[i] \in Content
    OBVIOUS
  <1>2. /\ SubSeq(p, 1, n) \in Seq(Content) /\ Len(SubSeq(p, 1, n)) = IF 1 <= n THEN n - 1 + 1 ELSE 0
        /\ \A i \in 1 .. n - 1 + 1 : SubSeq(p, 1, n)[i] = p[1 + i - 1]
    BY <1>1, SubSeqProperties
  <1>3. Len(SubSeq(p, 1, n)) = n /\ \A i \in 1 .. n : SubSeq(p, 1, n)[i] = p[i]
    BY <1>1, <1>2
  <1> QED  BY <1>2, <1>3 DEF Path

\* A block sequence whose path is that of a prefix of the prompt is this prefix.
LEMMA SamePathSamePrefix ==
    ASSUME NEW kv \in Seq(Content), NEW p \in Seq(Content), NEW n \in 0 .. Len(p),
           Path(kv, Len(kv)) = Path(p, n)
    PROVE  kv = SubSeq(p, 1, n)
  <1>1. Len(kv) \in 0 .. Len(kv) /\ Len(kv) = n /\ \A i \in 1 .. Len(kv) : kv[i] = p[i]
    BY PathTellsPrefix
  <1> QED  BY <1>1, PrefixFacts, SeqEqual

\* lookup stops somewhere, and everything before that is a hit.
LEMMA MatchedFacts ==
    ASSUME NEW p \in Seq(Content)
    PROVE  Matched(p) \in 0 .. Len(p) /\ \A i \in 1 .. Matched(p) : Hit(p, i)
  <1> DEFINE Stops == {n \in 0 .. Len(p) : n < Len(p) => ~ Hit(p, n + 1)}
  <1>1. Len(p) \in Nat /\ Len(p) \in Stops /\ Stops \in SUBSET Nat
    OBVIOUS
  <1>2. PICK n \in Stops : \A k \in Stops : n <= k
    BY <1>1, LeastElement
  <1>3. ASSUME NEW i \in 1 .. n PROVE Hit(p, i)
    <2>1. PICK k \in 0 .. Len(p) : k + 1 = i /\ k \notin Stops
      BY <1>1, <1>2
    <2>2. Hit(p, k + 1)
      BY <2>1
    <2> QED  BY <2>1, <2>2
  <1>4. \E k \in 0 .. Len(p) : /\ \A i \in 1 .. k : Hit(p, i)
                               /\ k < Len(p) => ~ Hit(p, k + 1)
    BY <1>2, <1>3
  <1> QED  BY <1>4 DEF Matched

\* prepare: the blocks that lookup finds for a prompt are occupied, all
\* different, and were computed under the prompt's own prefixes.
LEMMA FoundFacts ==
    ASSUME PrefixInv, NEW p \in Seq(Content), NEW i \in 1 .. Matched(p)
    PROVE  /\ i \in 1 .. Len(p)
           /\ trie[Path(p, i)] \in occupied
           /\ blockKv[trie[Path(p, i)]] = SubSeq(p, 1, i)
           /\ \A j \in 1 .. Matched(p) : trie[Path(p, i)] = trie[Path(p, j)] => i = j
  <1>1. Matched(p) \in 0 .. Len(p) /\ \A j \in 1 .. Matched(p) : Path(p, j) \in DOMAIN trie
    BY MatchedFacts DEF Hit
  <1>2. i \in 1 .. Len(p) /\ i \in 0 .. Len(p) /\ \A j \in 1 .. Matched(p) : j \in 0 .. Len(p)
    BY <1>1
  <1>3. trie[Path(p, i)] \in occupied /\ occupied \subseteq Indices
    BY <1>1 DEF PrefixInv, ArenaConsistent, TypeOK
  <1>4. blockKv[trie[Path(p, i)]] \in Seq(Content)
    BY <1>3 DEF PrefixInv, TypeOK
  <1>5. blockKv[trie[Path(p, i)]] = SubSeq(p, 1, i)
    BY <1>1, <1>2, <1>4, SamePathSamePrefix DEF PrefixInv, ArenaConsistent
  <1>6. ASSUME NEW j \in 1 .. Matched(p), trie[Path(p, i)] = trie[Path(p, j)] PROVE i = j
    <2>1. Path(p, i) = Path(p, j)
      BY <1>1, <1>6 DEF PrefixInv, ArenaConsistent
    <2> QED  BY <2>1, <1>2, PathTellsPrefix
  <1> QED  BY <1>2, <1>3, <1>5, <1>6

\* Only finitely many sessions hold a block.
LEMMA HoldersFinite == \A b : IsFiniteSet(Holders(b)) /\ Holders(b) \subseteq Sessions
  BY SessionsAssumption, FS_Subset DEF Holders, Open

\* An empty arena and closed sessions.
LEMMA PrefixInitially == PrefixInit => PrefixInv
  <1> SUFFICES ASSUME PrefixInit PROVE PrefixInv
    OBVIOUS
  <1>1. Indices = {} /\ tokens \in Seq(Content) /\ pool \in Seq(Indices)
    BY DEF PrefixInit, CacheInit, Indices
  <1>2. DOMAIN blockKv = {} /\ DOMAIN refs = {} /\ DOMAIN pool = {} /\ DOMAIN trie = {}
    BY DEF PrefixInit, CacheInit
  <1>3. TypeOK
    <2>1. blockKv \in [Indices -> Seq(Content)] /\ refs \in [Indices -> Nat]
      BY <1>1, <1>2 DEF PrefixInit, CacheInit
    <2> QED  BY <1>1, <2>1 DEF PrefixInit, CacheInit, TypeOK, Phases
  <1>4. SessionsInOrder /\ HeldBlocksStay
    BY DEF PrefixInit, SessionsInOrder, HeldBlocksStay, Open
  <1>5. ArenaConsistent
    BY <1>1, <1>2 DEF PrefixInit, CacheInit, ArenaConsistent, RefsCountSessions, RecencyOrders, Range
  <1> QED  BY <1>3, <1>4, <1>5 DEF PrefixInv

\* lookup stamps what it finds after everything else, in the prompt's order.
LEMMA TouchedOrders ==
    ASSUME RecencyOrders, NEW n \in Nat, NEW found,
           DOMAIN found = 1 .. n, \A i \in 1 .. n : found[i] \in occupied,
           \A i, j \in 1 .. n : found[i] = found[j] => i = j,
           recency' = Touched(found), UNCHANGED occupied
    PROVE  RecencyOrders'
  <1> DEFINE last == Range(found)
             Stamped(u) == \E i, j \in 1 .. n : i < j /\ u = <<found[i], found[j]>>
  <1>1. last \subseteq occupied /\ \A x \in last : \E i \in 1 .. n : found[i] = x
    BY DEF Range
  <1>2. \A a, b \in occupied :
           <<a, b>> \in recency' <=>
              \/ a \notin last /\ b \notin last /\ <<a, b>> \in recency
              \/ a \notin last /\ b \in last
              \/ a \in last /\ b \in last /\ Stamped(<<a, b>>)
    BY DEF Touched, WithoutUses
  <1>3. recency' \subseteq occupied \X occupied
    BY <1>1 DEF Touched, WithoutUses, RecencyOrders
  <1> HIDE DEF last, Stamped
  <1>4. ASSUME NEW a \in last, NEW b \in last PROVE a # b <=> Stamped(<<a, b>>) \/ Stamped(<<b, a>>)
    <2>1. PICK i \in 1 .. n, j \in 1 .. n : found[i] = a /\ found[j] = b
      BY <1>1
    <2>2. \A k, m \in 1 .. n : (found[k] = a => k = i) /\ (found[m] = b => m = j)
      BY <2>1
    <2>3. Stamped(<<a, b>>) <=> i < j
      BY <2>1, <2>2 DEF Stamped
    <2>4. Stamped(<<b, a>>) <=> j < i
      BY <2>1, <2>2 DEF Stamped
    <2> QED  BY <2>1, <2>2, <2>3, <2>4
  <1>5. ASSUME NEW a \in last, NEW b \in last, NEW c \in last, Stamped(<<a, b>>), Stamped(<<b, c>>)
        PROVE  Stamped(<<a, c>>)
    <2>1. PICK i \in 1 .. n, j \in 1 .. n : i < j /\ found[i] = a /\ found[j] = b
      BY <1>5 DEF Stamped
    <2>2. PICK k \in 1 .. n, m \in 1 .. n : k < m /\ found[k] = b /\ found[m] = c
      BY <1>5 DEF Stamped
    <2>3. j = k /\ i < m
      BY <2>1, <2>2
    <2> QED  BY <2>1, <2>2, <2>3 DEF Stamped
  <1>6. \A a, b \in occupied : a # b <=> <<a, b>> \in recency' \/ <<b, a>> \in recency'
    BY <1>2, <1>4 DEF RecencyOrders
  <1>7. \A a, b, c \in occupied : <<a, b>> \in recency' /\ <<b, c>> \in recency' => <<a, c>> \in recency'
    BY <1>2, <1>5 DEF RecencyOrders
  <1> QED  BY <1>3, <1>6, <1>7 DEF RecencyOrders

\* prepare: the session pins what it is given, which is right for its prompt.
LEMMA PrepareKeeps ==
    ASSUME PrefixInv, NEW s \in Sessions, NEW p \in SessionPrompts, Prepare(s, p)
    PROVE  PrefixInv'
  <1> DEFINE n == Matched(p)
             found == [i \in 1 .. n |-> trie[Path(p, i)]]
  <1>1. /\ p \in Seq(Content) /\ Len(p) \in Nat /\ n \in 0 .. Len(p) /\ n \in Nat
    BY SessionPromptsAssumption, MatchedFacts
  <1>2. /\ DOMAIN found = 1 .. n
        /\ \A i \in 1 .. n : found[i] \in occupied /\ blockKv[found[i]] = SubSeq(p, 1, i)
        /\ \A i, j \in 1 .. n : found[i] = found[j] => i = j
    BY <1>1, FoundFacts
  <1>3. /\ phase[s] = "closed"
        /\ refs' = [b \in Indices |-> IF b \in Range(found) THEN refs[b] + 1 ELSE refs[b]]
        /\ recency' = Touched(found)
        /\ held' = [held EXCEPT ![s] = found]
        /\ next' = [next EXCEPT ![s] = Len(found) + 1]
        /\ phase' = [phase EXCEPT ![s] = "open"]
        /\ prompt' = [prompt EXCEPT ![s] = p]
        /\ UNCHANGED <<trie, tokens, blockKv, occupied, pool>>
    BY DEF Prepare
  <1>4. TypeOK /\ SessionsInOrder /\ HeldBlocksStay /\ ArenaConsistent /\ Indices' = Indices
        /\ occupied \subseteq Indices /\ Indices \subseteq Nat
    BY <1>3 DEF PrefixInv, TypeOK, Indices
  <1> HIDE DEF n, found
  <1>5. found \in Seq(Nat) /\ Len(found) = n /\ Range(found) \subseteq occupied
    <2>1. found \in [1 .. n -> Nat]
      <3>1. found = [i \in 1 .. n |-> found[i]]
        BY DEF found
      <3> QED  BY <1>2, <1>4, <3>1
    <2> QED  BY <2>1, <1>1, <1>2, SeqDef DEF Range
  <1>6. /\ held'[s] = found /\ next'[s] = n + 1 /\ phase'[s] = "open" /\ prompt'[s] = p
        /\ \A t \in Sessions \ {s} : /\ held'[t] = held[t] /\ next'[t] = next[t]
                                     /\ phase'[t] = phase[t] /\ prompt'[t] = prompt[t]
    BY <1>3, <1>4, <1>5 DEF TypeOK
  <1>7. RecencyOrders' /\ recency' \subseteq Indices \X Indices
    <2>1. RecencyOrders'
      BY <1>1, <1>2, <1>3, <1>4, TouchedOrders DEF ArenaConsistent
    <2> QED  BY <2>1, <1>3, <1>4 DEF RecencyOrders
  <1>8. TypeOK'
    <2>1. refs' \in [Indices -> Nat]
      BY <1>3, <1>4 DEF TypeOK
    <2>2. held' \in [Sessions -> Seq(Nat)] /\ next' \in [Sessions -> Nat]
      BY <1>1, <1>3, <1>4, <1>5 DEF TypeOK
    <2>3. phase' \in [Sessions -> Phases] /\ prompt' \in [Sessions -> Seq(Content)]
      BY <1>1, <1>3, <1>4 DEF TypeOK, Phases
    <2> QED  BY <2>1, <2>2, <2>3, <1>3, <1>4, <1>7 DEF TypeOK
  <1>9. SessionsInOrder'
    <2> SUFFICES ASSUME NEW t \in Sessions
                 PROVE /\ phase'[t] = "closed" => held'[t] = <<>>
                       /\ phase'[t] # "closed" => /\ Len(held'[t]) <= Len(prompt'[t])
                                                  /\ next'[t] \in Len(held'[t]) + 1 .. Len(prompt'[t]) + 1
      BY DEF SessionsInOrder
    <2>1. CASE t = s
      BY <2>1, <1>1, <1>5, <1>6
    <2>2. CASE t # s
      BY <2>2, <1>4, <1>6 DEF SessionsInOrder
    <2> QED  BY <2>1, <2>2
  <1>10. Open' = Open \cup {s} /\ s \notin Open
    BY <1>3, <1>6 DEF Open
  <1>11. HeldBlocksStay'
    <2> SUFFICES ASSUME NEW t \in Open', NEW i \in DOMAIN held'[t]
                 PROVE  held'[t][i] \in occupied /\ blockKv[held'[t][i]] = SubSeq(prompt'[t], 1, i)
      BY <1>3 DEF HeldBlocksStay
    <2>1. CASE t = s
      BY <2>1, <1>2, <1>6
    <2>2. CASE t # s
      BY <2>2, <1>4, <1>6, <1>10 DEF HeldBlocksStay, Open
    <2> QED  BY <2>1, <2>2
  <1>12. RefsCountSessions'
    <2> SUFFICES ASSUME NEW b \in Indices PROVE refs'[b] = Cardinality(Holders(b)')
      BY <1>4 DEF RefsCountSessions
    <2>1. refs[b] = Cardinality(Holders(b)) /\ IsFiniteSet(Holders(b)) /\ s \notin Holders(b)
      BY <1>4, <1>10, HoldersFinite DEF ArenaConsistent, RefsCountSessions, Holders
    <2>2. CASE b \in Range(found)
      <3>1. Holders(b)' = Holders(b) \cup {s}
        BY <2>2, <1>6, <1>10 DEF Holders, Open
      <3> QED  BY <3>1, <2>1, <2>2, <1>3, FS_AddElement
    <2>3. CASE b \notin Range(found)
      <3>1. Holders(b)' = Holders(b)
        BY <2>3, <1>6, <1>10 DEF Holders, Open
      <3> QED  BY <3>1, <2>1, <2>3, <1>3
    <2> QED  BY <2>2, <2>3
  <1>13. ArenaConsistent'
    BY <1>3, <1>4, <1>7, <1>12 DEF ArenaConsistent, Path
  <1> QED  BY <1>8, <1>9, <1>11, <1>13 DEF PrefixInv

\* release_session: the counts fall with the session that held the blocks.
LEMMA ReleaseKeeps ==
    ASSUME PrefixInv, NEW s \in Sessions, ReleaseSession(s)
    PROVE  PrefixInv'
  <1>1. /\ phase[s] \in {"open", "stored"}
        /\ refs' = [b \in Indices |-> IF b \in Range(held[s]) /\ refs[b] > 0 THEN refs[b] - 1 ELSE refs[b]]
        /\ phase' = [phase EXCEPT ![s] = "closed"]
        /\ held' = [held EXCEPT ![s] = <<>>]
        /\ prompt' = [prompt EXCEPT ![s] = <<>>]
        /\ next' = [next EXCEPT ![s] = 1]
        /\ UNCHANGED <<trie, tokens, blockKv, occupied, pool, recency>>
    BY DEF ReleaseSession
  <1>2. TypeOK /\ SessionsInOrder /\ HeldBlocksStay /\ ArenaConsistent /\ Indices' = Indices
    BY <1>1 DEF PrefixInv, Indices
  <1>3. /\ held'[s] = <<>> /\ phase'[s] = "closed"
        /\ \A t \in Sessions \ {s} : /\ held'[t] = held[t] /\ next'[t] = next[t]
                                     /\ phase'[t] = phase[t] /\ prompt'[t] = prompt[t]
    BY <1>1, <1>2 DEF TypeOK
  <1>4. s \in Open /\ Open' = Open \ {s}
    BY <1>1, <1>3 DEF Open
  <1>5. TypeOK'
    <2>1. refs' \in [Indices -> Nat]
      BY <1>1, <1>2 DEF TypeOK
    <2>2. <<>> \in Seq(Nat) /\ <<>> \in Seq(Content)
      OBVIOUS
    <2>3. held' \in [Sessions -> Seq(Nat)] /\ next' \in [Sessions -> Nat]
      BY <2>2, <1>1, <1>2 DEF TypeOK
    <2>4. phase' \in [Sessions -> Phases] /\ prompt' \in [Sessions -> Seq(Content)]
      BY <2>2, <1>1, <1>2 DEF TypeOK, Phases
    <2> QED  BY <2>1, <2>3, <2>4, <1>1, <1>2 DEF TypeOK
  <1>6. SessionsInOrder'
    BY <1>2, <1>3 DEF SessionsInOrder
  <1>7. HeldBlocksStay'
    BY <1>1, <1>2, <1>3, <1>4 DEF HeldBlocksStay, Open
  <1>8. RefsCountSessions'
    <2> SUFFICES ASSUME NEW b \in Indices PROVE refs'[b] = Cardinality(Holders(b)')
      BY <1>2 DEF RefsCountSessions
    <2>1. refs[b] = Cardinality(Holders(b)) /\ refs[b] \in Nat /\ IsFiniteSet(Holders(b))
      BY <1>2, HoldersFinite DEF ArenaConsistent, RefsCountSessions, TypeOK
    <2>2. Holders(b)' = Holders(b) \ {s}
      BY <1>3, <1>4 DEF Holders, Open
    <2>3. CASE b \in Range(held[s])
      <3>1. s \in Holders(b)
        BY <2>3, <1>4 DEF Holders
      <3>2. Cardinality(Holders(b)) # 0
        BY <3>1, <2>1, FS_EmptySet
      <3>3. Cardinality(Holders(b) \ {s}) = Cardinality(Holders(b)) - 1
        BY <3>1, <2>1, FS_RemoveElement
      <3>4. refs[b] > 0 /\ refs'[b] = refs[b] - 1
        BY <3>2, <2>1, <2>3, <1>1
      <3> QED  BY <3>3, <3>4, <2>1, <2>2
    <2>4. CASE b \notin Range(held[s])
      <3>1. s \notin Holders(b)
        BY <2>4 DEF Holders
      <3>2. Holders(b)' = Holders(b) /\ refs'[b] = refs[b]
        BY <3>1, <2>2, <2>4, <1>1
      <3> QED  BY <3>2, <2>1
    <2> QED  BY <2>3, <2>4
  <1>9. ArenaConsistent'
    <2>1. RecencyOrders'
      BY <1>1, <1>2 DEF ArenaConsistent, RecencyOrders
    <2> QED  BY <2>1, <1>1, <1>2, <1>8 DEF ArenaConsistent, Path
  <1> QED  BY <1>5, <1>6, <1>7, <1>9 DEF PrefixInv

\* A block that no session counts is held by none.
LEMMA UncountedIsFree ==
    ASSUME PrefixInv, NEW b \in Indices, refs[b] = 0
    PROVE  \A s \in Open : \A i \in DOMAIN held[s] : held[s][i] # b
  <1>1. Holders(b) = {}
    BY HoldersFinite, FS_EmptySet DEF PrefixInv, ArenaConsistent, RefsCountSessions
  <1> QED  BY <1>1 DEF Holders, Range

\* evict_lru: the block goes with its node, and nobody holds it.
LEMMA EvictKeeps ==
    ASSUME PrefixInv, NEW s \in Sessions, Evict(s)
    PROVE  PrefixInv'
  <1>1. PICK b \in occupied :
           /\ refs[b] = 0
           /\ occupied' = occupied \ {b}
           /\ recency' = WithoutUses({b})
           /\ pool' = Append(pool, b)
           /\ trie' = [path \in {q \in DOMAIN trie : trie[q] # b} |-> trie[path]]
    BY DEF Evict, IsColdest, Evictable
  <1>2. /\ phase[s] \in {"open", "storing"} /\ phase' = [phase EXCEPT ![s] = "storing"]
        /\ UNCHANGED <<tokens, blockKv, refs, prompt, held, next>>
    BY DEF Evict, StoresNext
  <1>3. TypeOK /\ SessionsInOrder /\ HeldBlocksStay /\ ArenaConsistent /\ Indices' = Indices /\ b \in Indices
    BY <1>1, <1>2 DEF PrefixInv, TypeOK, Indices
  <1>4. Open' = Open /\ \A t \in Sessions : phase'[t] = "closed" <=> phase[t] = "closed"
    BY <1>2, <1>3 DEF TypeOK, Open
  <1>5. /\ pool' \in Seq(Indices) /\ Len(pool) \in Nat
        /\ DOMAIN pool = 1 .. Len(pool) /\ DOMAIN pool' = 1 .. Len(pool) + 1
        /\ pool'[Len(pool) + 1] = b /\ \A i \in 1 .. Len(pool) : pool'[i] = pool[i]
    BY <1>1, <1>3 DEF TypeOK
  <1>6. b \notin Range(pool) /\ Range(pool') = Range(pool) \cup {b}
    <2>1. b \notin Range(pool)
      BY <1>1, <1>3 DEF ArenaConsistent
    <2>2. \A x : x \in Range(pool') => x \in Range(pool) \cup {b}
      BY <1>5 DEF Range
    <2>3. \A x : x \in Range(pool) \cup {b} => x \in Range(pool')
      BY <1>5 DEF Range
    <2> QED  BY <2>1, <2>2, <2>3
  <1>7. TypeOK'
    <2>1. recency' \subseteq Indices \X Indices
      BY <1>1, <1>3 DEF WithoutUses, TypeOK
    <2> QED  BY <2>1, <1>1, <1>2, <1>3, <1>5 DEF TypeOK, Phases
  <1>8. SessionsInOrder'
    BY <1>2, <1>3, <1>4 DEF SessionsInOrder
  <1>9. HeldBlocksStay'
    BY <1>1, <1>2, <1>3, <1>4, UncountedIsFree DEF HeldBlocksStay
  <1>10. ArenaConsistent'
    <2>1. RefsCountSessions'
      BY <1>2, <1>3, <1>4 DEF ArenaConsistent, RefsCountSessions, Holders
    <2>2. occupied' = Indices \ Range(pool')
      BY <1>1, <1>3, <1>6 DEF ArenaConsistent
    <2>3. \A i, j \in DOMAIN pool' : pool'[i] = pool'[j] => i = j
      <3>1. \A i \in 1 .. Len(pool) : pool[i] # b
        BY <1>5, <1>6 DEF Range
      <3> QED  BY <3>1, <1>3, <1>5 DEF ArenaConsistent
    <2>4. RecencyOrders'
      BY <1>1, <1>3 DEF ArenaConsistent, RecencyOrders, WithoutUses
    <2>5. /\ \A q \in DOMAIN trie' : q \in DOMAIN trie /\ trie'[q] = trie[q] /\ trie[q] # b
      BY <1>1
    <2> QED  BY <2>1, <2>2, <2>3, <2>4, <2>5, <1>1, <1>2, <1>3 DEF ArenaConsistent, Path
  <1> QED  BY <1>7, <1>8, <1>9, <1>10 DEF PrefixInv

\* clear: an empty arena, which no open session holds blocks of.
LEMMA ClearKeeps ==
    ASSUME PrefixInv, Clear
    PROVE  PrefixInv'
  <1>1. Indices' = {} /\ tokens' \in Seq(Content) /\ pool' \in Seq(Indices')
    BY DEF Clear, Indices
  <1>2. DOMAIN blockKv' = {} /\ DOMAIN refs' = {} /\ DOMAIN pool' = {} /\ DOMAIN trie' = {}
    BY DEF Clear
  <1>3. Open' = {} /\ UNCHANGED sessionVars /\ occupied' = {} /\ recency' = {}
    BY DEF Clear, Open, sessionVars
  <1>4. TypeOK'
    <2>1. blockKv' \in [Indices' -> Seq(Content)] /\ refs' \in [Indices' -> Nat]
      BY <1>1 DEF Clear
    <2> QED  BY <1>1, <1>3, <2>1 DEF PrefixInv, TypeOK, sessionVars
  <1>5. SessionsInOrder' /\ HeldBlocksStay'
    BY <1>3 DEF PrefixInv, SessionsInOrder, HeldBlocksStay, sessionVars
  <1>6. ArenaConsistent'
    BY <1>1, <1>2, <1>3 DEF ArenaConsistent, RefsCountSessions, RecencyOrders, Range
  <1> QED  BY <1>4, <1>5, <1>6 DEF PrefixInv

\* The freed slot an insertion takes is not in the pool any more.
LEMMA FrontOfPool ==
    ASSUME pool \in Seq(Indices), pool # <<>>, \A i, j \in DOMAIN pool : pool[i] = pool[j] => i = j
    PROVE  /\ Last(pool) \in Range(pool) /\ Front(pool) \in Seq(Indices)
           /\ Range(Front(pool)) = Range(pool) \ {Last(pool)}
           /\ \A i, j \in DOMAIN Front(pool) : Front(pool)[i] = Front(pool)[j] => i = j
  <1>1. /\ Len(pool) \in Nat /\ Len(pool) > 0 /\ DOMAIN pool = 1 .. Len(pool)
        /\ Last(pool) = pool[Len(pool)] /\ Front(pool) \in Seq(Indices)
        /\ DOMAIN Front(pool) = 1 .. Len(pool) - 1
        /\ \A i \in 1 .. Len(pool) - 1 : Front(pool)[i] = pool[i]
    BY DEF Front, Last
  <1>2. Last(pool) \in Range(pool)
    BY <1>1 DEF Range
  <1>3. \A x : x \in Range(Front(pool)) => x \in Range(pool) /\ x # Last(pool)
    BY <1>1 DEF Range
  <1>4. \A x : x \in Range(pool) /\ x # Last(pool) => x \in Range(Front(pool))
    BY <1>1 DEF Range
  <1> QED  BY <1>1, <1>2, <1>3, <1>4

\* insert: the slot it takes was nobody's, and the node on the prompt's path
\* points at it; `tensors` is the state of the prompt up to there.
LEMMA InsertKeeps ==
    ASSUME PrefixInv, NEW s \in Sessions, NEW tensors,
           tensors = SubSeq(prompt[s], 1, next[s]), Insert(s, tensors)
    PROVE  PrefixInv'
  <1> DEFINE b == IF pool # <<>> THEN Last(pool) ELSE Len(tokens) + 1
             arena == Indices \cup {b}
             path == Path(prompt[s], next[s])
  <1>1. /\ pool' = IF pool # <<>> THEN Front(pool) ELSE pool
        /\ tokens' = [i \in arena |-> IF i = b THEN prompt[s][next[s]] ELSE tokens[i]]
        /\ blockKv' = [i \in arena |-> IF i = b THEN tensors ELSE blockKv[i]]
        /\ refs' = [i \in arena |-> IF i = b THEN 0 ELSE refs[i]]
        /\ trie' = [q \in DOMAIN trie \cup {path} |-> IF q = path THEN b ELSE trie[q]]
        /\ occupied' = occupied \cup {b}
        /\ recency' = recency \cup (occupied \X {b})
    BY DEF Insert
  <1>2. /\ next' = [next EXCEPT ![s] = @ + 1]
        /\ phase' = [phase EXCEPT ![s] = IF next[s] = Len(prompt[s]) THEN "stored" ELSE "storing"]
        /\ UNCHANGED <<prompt, held>>
        /\ phase[s] \in {"open", "storing"} /\ next[s] <= Len(prompt[s])
    BY DEF Insert, StoresNext
  <1>3. TypeOK /\ SessionsInOrder /\ HeldBlocksStay /\ ArenaConsistent
    BY DEF PrefixInv
  <1>4. /\ prompt[s] \in Seq(Content) /\ Len(prompt[s]) \in Nat /\ held[s] \in Seq(Nat)
        /\ Len(held[s]) \in Nat /\ Len(held[s]) <= Len(prompt[s])
        /\ next[s] \in Len(held[s]) + 1 .. Len(prompt[s]) /\ next[s] \in 0 .. Len(prompt[s])
    BY <1>2, <1>3 DEF TypeOK, SessionsInOrder
  <1>5. /\ prompt[s][next[s]] \in Content /\ tensors \in Seq(Content)
        /\ Len(tensors) = next[s] /\ Path(tensors, Len(tensors)) = path
    BY <1>4, PrefixFacts
  <1>6. /\ b \notin occupied /\ b \in arena /\ occupied \subseteq Indices
        /\ arena \in {Indices, Indices \cup {Len(tokens) + 1}}
        /\ pool' \in Seq(arena) /\ occupied \cup {b} = arena \ Range(pool')
        /\ \A i, j \in DOMAIN pool' : pool'[i] = pool'[j] => i = j
    <2>1. pool \in Seq(Indices) /\ occupied = Indices \ Range(pool) /\ Len(tokens) \in Nat
      BY <1>3 DEF TypeOK, ArenaConsistent
    <2>2. CASE pool = <<>>
      <3>1. b = Len(tokens) + 1 /\ b \notin Indices /\ Range(pool) = {} /\ pool' = pool /\ DOMAIN pool = {}
        BY <2>1, <2>2, <1>1 DEF Indices, Range
      <3>2. pool' \in Seq(arena)
        BY <3>1, <2>2
      <3> QED  BY <3>1, <3>2, <2>1
    <2>3. CASE pool # <<>>
      <3>1. b = Last(pool) /\ pool' = Front(pool)
        BY <2>3, <1>1
      <3>2. /\ b \in Range(pool) /\ pool' \in Seq(Indices) /\ Range(pool') = Range(pool) \ {b}
            /\ \A i, j \in DOMAIN pool' : pool'[i] = pool'[j] => i = j
        BY <2>1, <2>3, <3>1, <1>3, FrontOfPool DEF ArenaConsistent
      <3>3. Range(pool) \subseteq Indices
        BY <2>1 DEF Range
      <3> QED  BY <2>1, <3>2, <3>3
    <2> QED  BY <2>2, <2>3
  <1> HIDE DEF b
  <1>7. tokens' \in Seq(Content) /\ Indices' = arena
    <2>1. Len(tokens) \in Nat /\ DOMAIN tokens = Indices /\ \A i \in Indices : tokens[i] \in Content
      BY <1>3 DEF TypeOK, Indices
    <2>2. PICK n \in Nat : arena = 1 .. n
      <3>1. Len(tokens) + 1 \in Nat /\ Indices \cup {Len(tokens) + 1} = 1 .. Len(tokens) + 1
        BY <2>1 DEF Indices
      <3> QED  BY <3>1, <2>1, <1>6 DEF Indices
    <2>3. tokens' \in [1 .. n -> Content]
      BY <2>1, <2>2, <1>1, <1>5
    <2>4. tokens' \in Seq(Content) /\ Len(tokens') = n
      BY <2>3, SeqDef
    <2> QED  BY <2>2, <2>4 DEF Indices
  <1>8. /\ \A i \in Indices : i # b => blockKv'[i] = blockKv[i] /\ refs'[i] = refs[i]
        /\ blockKv'[b] = tensors /\ refs'[b] = 0
        /\ blockKv' \in [arena -> Seq(Content)] /\ refs' \in [arena -> Nat]
    BY <1>1, <1>3, <1>5, <1>6 DEF TypeOK
  <1> HIDE DEF arena
  <1>9. TypeOK'
    <2>1. occupied' \subseteq arena /\ recency' \subseteq arena \X arena
      BY <1>1, <1>3, <1>6 DEF TypeOK, arena
    <2>2. phase' \in [Sessions -> Phases] /\ next' \in [Sessions -> Nat]
      BY <1>2, <1>3 DEF TypeOK, Phases
    <2> QED  BY <2>1, <2>2, <1>2, <1>3, <1>6, <1>7, <1>8 DEF TypeOK
  <1>10. Open' = Open /\ s \in Open /\ \A t \in Sessions : phase'[t] = "closed" <=> phase[t] = "closed"
    BY <1>2, <1>3 DEF TypeOK, Open
  <1>11. SessionsInOrder'
    <2> SUFFICES ASSUME NEW t \in Sessions, phase[t] # "closed"
                 PROVE  next'[t] \in Len(held[t]) + 1 .. Len(prompt[t]) + 1
      BY <1>2, <1>3, <1>10 DEF SessionsInOrder
    <2>1. CASE t = s
      BY <2>1, <1>2, <1>3, <1>4 DEF TypeOK
    <2>2. CASE t # s
      BY <2>2, <1>2, <1>3 DEF TypeOK, SessionsInOrder
    <2> QED  BY <2>1, <2>2
  <1>12. HeldBlocksStay'
    <2> SUFFICES ASSUME NEW t \in Open, NEW i \in DOMAIN held[t]
                 PROVE  held[t][i] \in occupied' /\ blockKv'[held[t][i]] = SubSeq(prompt[t], 1, i)
      BY <1>2, <1>10 DEF HeldBlocksStay
    <2>1. held[t][i] \in occupied /\ blockKv[held[t][i]] = SubSeq(prompt[t], 1, i)
      BY <1>3 DEF HeldBlocksStay
    <2> QED  BY <2>1, <1>1, <1>6, <1>8
  <1>13. RefsCountSessions'
    <2> SUFFICES ASSUME NEW i \in arena PROVE refs'[i] = Cardinality(Holders(i)')
      BY <1>7 DEF RefsCountSessions
    <2>1. Holders(i)' = Holders(i)
      BY <1>2, <1>10 DEF Holders
    <2>2. CASE i = b
      <3>1. Holders(i) = {}
        BY <2>2, <1>3, <1>6 DEF HeldBlocksStay, Holders, Range
      <3> QED  BY <3>1, <2>1, <2>2, <1>8, FS_EmptySet
    <2>3. CASE i # b
      <3>1. i \in Indices
        BY <2>3 DEF arena
      <3> QED  BY <3>1, <2>1, <2>3, <1>3, <1>8 DEF ArenaConsistent, RefsCountSessions
    <2> QED  BY <2>2, <2>3
  <1>14. RecencyOrders'
    <2>1. /\ \A x \in occupied : x # b /\ <<x, b>> \in recency' /\ <<b, x>> \notin recency'
          /\ \A x, y \in occupied : <<x, y>> \in recency' <=> <<x, y>> \in recency
          /\ <<b, b>> \notin recency' /\ recency' \subseteq occupied' \X occupied'
      BY <1>1, <1>3, <1>6 DEF ArenaConsistent, RecencyOrders
    <2> QED  BY <2>1, <1>1, <1>3 DEF ArenaConsistent, RecencyOrders
  <1>15. ASSUME NEW q \in DOMAIN trie'
         PROVE  /\ trie'[q] \in occupied'
                /\ Path(blockKv'[trie'[q]], Len(blockKv'[trie'[q]])) = q
                /\ \A r \in DOMAIN trie' : trie'[q] = trie'[r] => q = r
    <2> HIDE DEF path
    <2>1. \A r \in DOMAIN trie' : \/ r = path /\ trie'[r] = b
                                  \/ r # path /\ r \in DOMAIN trie /\ trie'[r] = trie[r] /\ trie[r] \in occupied
      BY <1>1, <1>3 DEF ArenaConsistent
    <2>2. CASE q = path
      <3>1. trie'[q] = b /\ b \in occupied'
        BY <2>1, <2>2, <1>1
      <3>2. Path(blockKv'[b], Len(blockKv'[b])) = q
        BY <2>2, <1>5, <1>8
      <3>3. \A r \in DOMAIN trie' : trie'[r] = b => r = q
        BY <2>1, <2>2, <1>6
      <3> QED  BY <3>1, <3>2, <3>3
    <2>3. CASE q # path
      <3>1. q \in DOMAIN trie /\ trie'[q] = trie[q] /\ trie[q] \in occupied /\ trie[q] \in occupied'
        BY <2>1, <2>3, <1>1
      <3>2. blockKv'[trie[q]] = blockKv[trie[q]]
        BY <3>1, <1>6, <1>8
      <3>3. Path(blockKv[trie[q]], Len(blockKv[trie[q]])) = q
        BY <3>1, <1>3 DEF ArenaConsistent
      <3>4. \A r \in DOMAIN trie' : trie'[r] = trie[q] => r = q
        BY <2>1, <3>1, <1>3, <1>6 DEF ArenaConsistent
      <3> QED  BY <3>1, <3>2, <3>3, <3>4
    <2> QED  BY <2>2, <2>3
  <1>16. ArenaConsistent'
    <2>1. \A q \in DOMAIN trie' : Path(blockKv[trie[q]], Len(blockKv[trie[q]]))' = q
      BY <1>15 DEF Path
    <2> QED  BY <2>1, <1>1, <1>6, <1>7, <1>13, <1>14, <1>15 DEF ArenaConsistent
  <1> QED  BY <1>9, <1>11, <1>12, <1>16 DEF PrefixInv

\* store_blocks computes on from the last block it was given: as that is right,
\* so is the state of every block it stores.
LEMMA ComputedFromHeld ==
    ASSUME PrefixInv, NEW s \in Sessions, StoresNext(s)
    PROVE  Computed(s) = SubSeq(prompt[s], 1, next[s])
  <1> DEFINE m == Len(held[s])
             given == IF m = 0 THEN <<>> ELSE blockKv[held[s][m]]
             rest == SubSeq(prompt[s], m + 1, next[s])
             all == SubSeq(prompt[s], 1, next[s])
  <1>1. /\ prompt[s] \in Seq(Content) /\ Len(prompt[s]) \in Nat /\ held[s] \in Seq(Nat)
        /\ m \in Nat /\ next[s] \in m + 1 .. Len(prompt[s]) /\ s \in Open
    BY DEF PrefixInv, TypeOK, SessionsInOrder, StoresNext, Open
  <1>2. given \in Seq(Content) /\ Len(given) = m /\ \A i \in 1 .. m : given[i] = prompt[s][i]
    <2>1. CASE m = 0
      BY <2>1
    <2>2. CASE m # 0
      <3>1. m \in DOMAIN held[s] /\ m \in 0 .. Len(prompt[s])
        BY <2>2, <1>1
      <3>2. given = SubSeq(prompt[s], 1, m)
        BY <2>2, <3>1, <1>1 DEF PrefixInv, HeldBlocksStay
      <3>3. /\ SubSeq(prompt[s], 1, m) \in Seq(Content) /\ Len(SubSeq(prompt[s], 1, m)) = m
            /\ \A i \in 1 .. m : SubSeq(prompt[s], 1, m)[i] = prompt[s][i]
        BY <3>1, <1>1, PrefixFacts
      <3> HIDE DEF m, given
      <3> QED  BY <3>2, <3>3
    <2> QED  BY <2>1, <2>2
  <1>3. /\ rest \in Seq(Content) /\ Len(rest) = next[s] - m
        /\ \A i \in 1 .. next[s] - m : rest[i] = prompt[s][m + i]
    <2>1. m + 1 \in Int /\ next[s] \in Int /\ \A i \in m + 1 .. next[s] : prompt[s][i] \in Content
      BY <1>1
    <2>2. /\ rest \in Seq(Content)
          /\ Len(rest) = IF m + 1 <= next[s] THEN next[s] - (m + 1) + 1 ELSE 0
          /\ \A i \in 1 .. next[s] - (m + 1) + 1 : rest[i] = prompt[s][(m + 1) + i - 1]
      BY <2>1, SubSeqProperties
    <2> HIDE DEF rest
    <2>3. next[s] - (m + 1) + 1 = next[s] - m /\ m + 1 <= next[s]
      BY <1>1
    <2>4. ASSUME NEW i \in 1 .. next[s] - m PROVE rest[i] = prompt[s][m + i]
      <3>1. (m + 1) + i - 1 = m + i
        BY <1>1
      <3> QED  BY <2>2, <2>3, <3>1
    <2> QED  BY <2>2, <2>3, <2>4
  <1>4. all \in Seq(Content) /\ Len(all) = next[s] /\ \A i \in 1 .. next[s] : all[i] = prompt[s][i]
    <2>1. next[s] \in 0 .. Len(prompt[s])
      BY <1>1
    <2> QED  BY <2>1, <1>1, PrefixFacts
  <1>5. Computed(s) = given \o rest
    BY DEF Computed
  <1> HIDE DEF given, rest, all, m
  <1>6. /\ given \o rest \in Seq(Content) /\ Len(given \o rest) = next[s]
        /\ \A i \in 1 .. next[s] : (given \o rest)[i] = IF i <= m THEN given[i] ELSE rest[i - m]
    <2>1. /\ given \o rest \in Seq(Content) /\ Len(given \o rest) = Len(given) + Len(rest)
          /\ \A i \in 1 .. Len(given) + Len(rest) :
                (given \o rest)[i] = IF i <= Len(given) THEN given[i] ELSE rest[i - Len(given)]
      BY <1>2, <1>3, ConcatProperties
    <2>2. Len(given) + Len(rest) = next[s]
      BY <1>1, <1>2, <1>3
    <2> QED  BY <2>1, <2>2, <1>2
  <1>7. ASSUME NEW i \in 1 .. next[s] PROVE (given \o rest)[i] = all[i]
    <2>1. CASE i <= m
      <3>1. i \in 1 .. m
        BY <2>1, <1>1
      <3> QED  BY <2>1, <3>1, <1>2, <1>4, <1>6
    <2>2. CASE ~ (i <= m)
      <3>1. i - m \in 1 .. next[s] - m /\ m + (i - m) = i
        BY <2>2, <1>1
      <3> QED  BY <2>2, <3>1, <1>3, <1>4, <1>6
    <2> QED  BY <2>1, <2>2
  <1>8. given \o rest = all
    BY <1>4, <1>6, <1>7, SeqEqual
  <1> QED  BY <1>5, <1>8 DEF all

\* Every step of the cache and its sessions keeps the invariant.
LEMMA PrefixInductive == PrefixInv /\ [PrefixNext]_prefixVars => PrefixInv'
  <1> SUFFICES ASSUME PrefixInv, [PrefixNext]_prefixVars PROVE PrefixInv'
    OBVIOUS
  <1>1. CASE UNCHANGED prefixVars
    <2> USE <1>1 DEF prefixVars
    <2>1. TypeOK' /\ SessionsInOrder' /\ HeldBlocksStay'
      BY DEF PrefixInv, TypeOK, Indices, SessionsInOrder, HeldBlocksStay, Open
    <2>2. RefsCountSessions' /\ RecencyOrders'
      BY DEF PrefixInv, ArenaConsistent, RefsCountSessions, Indices, Holders, Open, RecencyOrders
    <2> QED  BY <2>1, <2>2 DEF PrefixInv, ArenaConsistent, Indices, Path
  <1>2. ASSUME NEW s \in Sessions, Insert(s, Computed(s)) PROVE PrefixInv'
    <2>1. StoresNext(s)
      BY <1>2 DEF Insert
    <2> QED  BY <2>1, <1>2, ComputedFromHeld, InsertKeeps
  <1> QED  BY <1>1, <1>2, PrepareKeeps, EvictKeeps, ReleaseKeeps, ClearKeeps DEF PrefixNext

\* What a session was given stays in the arena until it is released and is the
\* state of its own prompt: for all sessions, prompts and capacities (lookup,
\* insert, evict_lru, release).
THEOREM PrefixesStayRight == PrefixSpec => []HeldBlocksStay
  <1>1. PrefixInv => HeldBlocksStay
    BY DEF PrefixInv
  <1> QED  BY <1>1, PrefixInitially, PrefixInductive, PTL DEF PrefixSpec

\* The counts, the trie, the free slots and the stamps agree after every turn
\* of every method, for all sessions, prompts and capacities.
THEOREM ArenaStaysConsistent == PrefixSpec => []ArenaConsistent
  <1>1. PrefixInv => ArenaConsistent
    BY DEF PrefixInv
  <1> QED  BY <1>1, PrefixInitially, PrefixInductive, PTL DEF PrefixSpec

\* While every slot of the arena is pinned and a session still has a block to
\* store, the places of the open prompts are not used up: each slot is some
\* session's block at some place of its prompt, and the block to be stored has a
\* place that no slot has.
LEMMA PinnedFitsPrompts ==
    ASSUME ArenaInv, NEW s \in Sessions, StoresNext(s), pool = <<>>,
           \A b \in occupied : refs[b] # 0
    PROVE  Len(tokens) + 1 <= Cardinality(Sessions) * Len(LongestPrompt)
  <1> DEFINE L == Len(LongestPrompt)
             EveryPlace == Sessions \X (1 .. L)
             OtherPlaces == EveryPlace \ {<<s, L>>}
             placed == [b \in Indices |-> CHOOSE x \in OtherPlaces : held[x[1]][x[2]] = b]
  <1>1. L \in Nat /\ \A p \in SessionPrompts : Len(p) \in Nat /\ Len(p) <= L
    <2>1. LongestPrompt \in SessionPrompts /\ \A p \in SessionPrompts : Len(p) <= Len(LongestPrompt)
      BY LongestPromptAssumption DEF LongestPrompt
    <2> QED  BY <2>1, SessionPromptsAssumption
  <1>2. \A t \in Open : /\ t \in Sessions /\ Len(held[t]) \in Nat
                        /\ DOMAIN held[t] = 1 .. Len(held[t]) /\ Len(held[t]) <= L
    BY <1>1 DEF ArenaInv, PrefixInv, TypeOK, SessionsInOrder, Open
  <1>3. s \in Open /\ Len(held[s]) < L
    <2>1. s \in Open /\ next[s] <= Len(prompt[s])
      BY DEF StoresNext, Open
    <2>2. Len(held[s]) < next[s] /\ next[s] \in Int /\ Len(prompt[s]) \in Nat /\ Len(prompt[s]) <= L
      BY <1>1, <1>2, <2>1 DEF ArenaInv, PrefixInv, TypeOK, SessionsInOrder, Open
    <2> QED  BY <1>1, <1>2, <2>1, <2>2
  <1>4. ASSUME NEW b \in Indices PROVE \E x \in OtherPlaces : held[x[1]][x[2]] = b
    <2>1. b \in occupied /\ refs[b] = Cardinality(Holders(b))
      BY DEF ArenaInv, PrefixInv, ArenaConsistent, RefsCountSessions, Range
    <2>2. Holders(b) # {}
      BY <2>1, FS_EmptySet
    <2>3. PICK t \in Open : b \in Range(held[t])
      BY <2>2 DEF Holders
    <2>4. PICK i \in 1 .. Len(held[t]) : held[t][i] = b
      BY <2>3, <1>2 DEF Range
    <2>5. i \in 1 .. L /\ <<t, i>> # <<s, L>>
      BY <1>1, <1>2, <1>3
    <2>6. <<t, i>> \in OtherPlaces
      BY <1>2, <2>5
    <2> QED  BY <2>4, <2>6
  <1>5. placed \in Injection(Indices, OtherPlaces)
    <2>1. \A b \in Indices : placed[b] \in OtherPlaces /\ held[placed[b][1]][placed[b][2]] = b
      BY <1>4
    <2>2. placed \in [Indices -> OtherPlaces]
      BY <2>1
    <2>3. \A b, c \in Indices : placed[b] = placed[c] => b = c
      BY <2>1
    <2> HIDE DEF placed
    <2> QED  BY <2>2, <2>3 DEF Injection, IsInjective
  <1>6. /\ IsFiniteSet(1 .. L) /\ Cardinality(1 .. L) = L
        /\ Cardinality(Sessions) \in Nat
    <2>1. IsFiniteSet(1 .. L) /\ Cardinality(1 .. L) = IF 1 > L THEN 0 ELSE L - 1 + 1
      BY <1>1, FS_Interval
    <2>2. Cardinality(1 .. L) = L
      <3> HIDE DEF L
      <3> QED  BY <1>1, <2>1
    <2> QED  BY <2>1, <2>2, FS_CardinalityType, SessionsAssumption
  <1>7. IsFiniteSet(EveryPlace) /\ Cardinality(EveryPlace) = Cardinality(Sessions) * L
    BY <1>6, FS_Product, SessionsAssumption
  <1>8. IsFiniteSet(OtherPlaces) /\ Cardinality(OtherPlaces) = Cardinality(EveryPlace) - 1
    <2>1. <<s, L>> \in EveryPlace
      BY <1>1, <1>2, <1>3
    <2> HIDE DEF EveryPlace
    <2> QED  BY <1>7, <2>1, FS_RemoveElement
  <1>9. Len(tokens) \in Nat /\ Cardinality(Indices) = Len(tokens)
    <2>1. Len(tokens) \in Nat
      BY DEF ArenaInv, PrefixInv, TypeOK
    <2>2. 1 \in Int /\ Len(tokens) \in Int
      BY <2>1
    <2>3. Cardinality(1 .. Len(tokens)) =
             IF 1 > Len(tokens) THEN 0 ELSE Len(tokens) - 1 + 1
      BY ONLY <2>2, FS_Interval
    <2>4. IF 1 > Len(tokens) THEN Len(tokens) = 0 ELSE Len(tokens) - 1 + 1 = Len(tokens)
      BY <2>1
    <2> QED  BY <2>1, <2>3, <2>4 DEF Indices
  <1>10. Cardinality(Indices) <= Cardinality(OtherPlaces)
    <2> HIDE DEF placed, OtherPlaces
    <2> QED  BY <1>5, <1>8, FS_Injection
  <1>11. Cardinality(EveryPlace) \in Nat
    BY <1>7, FS_CardinalityType
  <1> HIDE DEF L, EveryPlace, OtherPlaces
  <1>12. Len(tokens) + 1 <= Cardinality(EveryPlace)
    BY <1>8, <1>9, <1>10, <1>11
  <1> QED  BY <1>7, <1>12 DEF L

\* A new slot is taken only below the capacity, or by a block whose place in its
\* prompt is not among the pinned ones.
LEMMA InsertKeepsBound ==
    ASSUME ArenaInv, NEW s \in Sessions, NEW tensors, Insert(s, tensors)
    PROVE  ArenaIsBounded'
  <1>1. /\ pool \in Seq(Indices) /\ Len(tokens) \in Nat /\ refs \in [Indices -> Nat]
        /\ occupied \subseteq Indices
    BY DEF ArenaInv, PrefixInv, TypeOK
  <1>2. CASE pool # <<>>
    <2>1. Last(pool) \in Indices
      BY <1>1, <1>2 DEF Last
    <2>2. tokens' = [i \in Indices |-> IF i = Last(pool) THEN prompt[s][next[s]] ELSE tokens[i]]
      <3>1. Indices \cup {Last(pool)} = Indices
        BY <2>1
      <3> QED  BY <1>2, <3>1 DEF Insert
    <2>3. Len(tokens') = Len(tokens)
      BY <1>1, <2>2 DEF Indices
    <2> QED  BY <2>3 DEF ArenaInv, ArenaIsBounded, LongestPrompt
  <1>3. CASE pool = <<>>
    <2>1. Indices \cup {Len(tokens) + 1} = 1 .. Len(tokens) + 1
      BY <1>1 DEF Indices
    <2>2. \E g : tokens' = [i \in 1 .. Len(tokens) + 1 |-> g[i]]
      <3>1. tokens' = [i \in Indices \cup {Len(tokens) + 1} |->
                          IF i = Len(tokens) + 1 THEN prompt[s][next[s]] ELSE tokens[i]]
        BY <1>3 DEF Insert
      <3>2. tokens' = [i \in 1 .. Len(tokens) + 1 |-> tokens'[i]]
        BY <2>1, <3>1
      <3> QED  BY <3>2
    <2>3. Len(tokens') = Len(tokens) + 1
      BY <1>1, <2>2
    <2>4. occupied = Indices
      <3>1. occupied = Indices \ Range(pool) /\ Range(pool) = {}
        BY <1>3 DEF ArenaInv, PrefixInv, ArenaConsistent, Range
      <3> QED  BY <3>1
    <2>5. CASE Full
      <3>1. \A b \in occupied : refs[b] # 0
        BY <2>5 DEF Insert, Evictable
      <3>2. Len(tokens) + 1 <= Cardinality(Sessions) * Len(LongestPrompt)
        BY <1>3, <3>1, PinnedFitsPrompts DEF Insert
      <3> QED  BY <2>3, <3>2 DEF ArenaIsBounded, LongestPrompt
    <2>6. CASE ~ Full
      <3>1. Cardinality(occupied) = Len(tokens)
        <4>0. 1 \in Int /\ Len(tokens) \in Int
          BY <1>1
        <4>1. Cardinality(1 .. Len(tokens)) =
                 IF 1 > Len(tokens) THEN 0 ELSE Len(tokens) - 1 + 1
          BY ONLY <4>0, FS_Interval
        <4>2. IF 1 > Len(tokens) THEN Len(tokens) = 0 ELSE Len(tokens) - 1 + 1 = Len(tokens)
          BY <1>1
        <4> QED  BY <2>4, <4>1, <4>2 DEF Indices
      <3> QED  BY <1>1, <2>3, <2>6, <3>1, MaxBlocksAssumption DEF Full, ArenaIsBounded
    <2> QED  BY <2>5, <2>6
  <1> QED  BY <1>2, <1>3

\* Every step keeps the arena within its bound.
LEMMA ArenaInductive == ArenaInv /\ [PrefixNext]_prefixVars => ArenaInv'
  <1> SUFFICES ASSUME ArenaInv, [PrefixNext]_prefixVars PROVE ArenaInv'
    OBVIOUS
  <1>1. PrefixInv'
    BY PrefixInductive DEF ArenaInv
  <1> DEFINE Asked == \A s \in Open : prompt[s] \in SessionPrompts
  <1>2. phase \in [Sessions -> Phases] /\ prompt \in [Sessions -> Seq(Content)] /\ Asked
    BY DEF ArenaInv, PrefixInv, TypeOK
  <1>3. ASSUME Len(tokens') = Len(tokens) PROVE ArenaIsBounded'
    BY <1>3 DEF ArenaInv, ArenaIsBounded, LongestPrompt
  <1>4. ASSUME NEW s \in Sessions, NEW p \in SessionPrompts, Prepare(s, p)
        PROVE  Asked' /\ ArenaIsBounded'
    BY <1>2, <1>3, <1>4 DEF Prepare, Open
  <1>5. ASSUME NEW s \in Sessions, Evict(s) PROVE Asked' /\ ArenaIsBounded'
    BY <1>2, <1>3, <1>5 DEF Evict, StoresNext, Open
  <1>6. ASSUME NEW s \in Sessions, Insert(s, Computed(s)) PROVE Asked' /\ ArenaIsBounded'
    <2>1. Asked'
      BY <1>2, <1>6 DEF Insert, StoresNext, Open
    <2> QED  BY <2>1, <1>6, InsertKeepsBound
  <1>7. ASSUME NEW s \in Sessions, ReleaseSession(s) PROVE Asked' /\ ArenaIsBounded'
    BY <1>2, <1>3, <1>7 DEF ReleaseSession, Open
  <1>8. CASE Clear
    <2>1. Asked'
      BY <1>2, <1>8 DEF Clear, sessionVars, Open
    <2>2. Len(tokens') = 0
      BY <1>8 DEF Clear
    <2> QED  BY <1>1, <2>1, <2>2, MaxBlocksAssumption DEF ArenaInv, ArenaIsBounded
  <1>9. CASE UNCHANGED prefixVars
    <2>1. Asked' /\ Len(tokens') = Len(tokens)
      BY <1>2, <1>9 DEF prefixVars, Open
    <2> QED  BY <1>1, <1>3, <2>1 DEF ArenaInv
  <1> QED  BY <1>1, <1>4, <1>5, <1>6, <1>7, <1>8, <1>9 DEF ArenaInv, PrefixNext

\* For every capacity, every set of sessions and every set of prompts with a
\* longest one: the arena does not grow beyond max_blocks, or beyond what the
\* sessions under way can pin (insert and evict_lru, with the pins of prepare and
\* the unpinning of release_session).
THEOREM ArenaStaysBounded == PrefixSpec => []ArenaIsBounded
  <1>1. PrefixInit => ArenaInv
    <2> SUFFICES ASSUME PrefixInit PROVE ArenaInv
      OBVIOUS
    <2>1. Open = {} /\ Len(tokens) = 0
      BY DEF PrefixInit, CacheInit, Open
    <2> QED  BY <2>1, PrefixInitially, MaxBlocksAssumption DEF ArenaInv, ArenaIsBounded
  <1>2. ArenaInv => ArenaIsBounded
    BY DEF ArenaInv
  <1> QED  BY <1>1, <1>2, ArenaInductive, PTL DEF PrefixSpec
-----------------------------------------------------------------------------
\* The KV slots reach one position beyond every prompt.
LEMMA SlotsCover ==
    ASSUME NEW p \in SessionPrompts, NEW i \in 1 .. Len(p) + 1
    PROVE  i \in KvSlots
  BY DEF KvSlots

\* A machine that always computes on the same device computes on its own.
LEMMA OneDevice ==
    ASSUME tier \in {"cpu", "gpu"}
    PROVE  Devices = {tier}
  BY DEF Devices

\* prepare, as the engine sees it.
LEMMA PrepareGives ==
    ASSUME PrefixInv, NEW s \in Sessions, NEW p \in SessionPrompts, Prepare(s, p)
    PROVE  /\ Matched(p) \in 0 .. Len(p) /\ Len(p) \in Nat
           /\ DOMAIN held'[s] = 1 .. Matched(p) /\ Len(held'[s]) = Matched(p)
           /\ prompt'[s] = p /\ phase'[s] = "open" /\ next'[s] = Matched(p) + 1
           /\ UNCHANGED <<trie, blockKv>>
           /\ \A i \in 1 .. Matched(p) : blockKv[trie[Path(p, i)]] = SubSeq(p, 1, i)
  <1> DEFINE n == Matched(p)
             found == [i \in 1 .. n |-> trie[Path(p, i)]]
  <1>1. p \in Seq(Content) /\ Len(p) \in Nat /\ n \in 0 .. Len(p) /\ n \in Nat
    BY SessionPromptsAssumption, MatchedFacts
  <1>2. \A i \in 1 .. n : blockKv[trie[Path(p, i)]] = SubSeq(p, 1, i)
    BY <1>1, FoundFacts
  <1>3. /\ held' = [held EXCEPT ![s] = found] /\ next' = [next EXCEPT ![s] = Len(found) + 1]
        /\ phase' = [phase EXCEPT ![s] = "open"] /\ prompt' = [prompt EXCEPT ![s] = p]
        /\ UNCHANGED <<trie, blockKv>>
    BY DEF Prepare
  <1>4. Len(found) = n /\ DOMAIN found = 1 .. n
    BY <1>1
  <1>5. DOMAIN held = Sessions /\ DOMAIN next = Sessions /\ DOMAIN phase = Sessions /\ DOMAIN prompt = Sessions
    BY DEF PrefixInv, TypeOK
  <1> QED  BY <1>1, <1>2, <1>3, <1>4, <1>5

\* A device that computes the rest of a prompt on top of a right prefix gets
\* every block of it right.
LEMMA FilledIsRight ==
    ASSUME PrefixInv, prompt[gen] \in SessionPrompts, NEW cache, NEW d, NEW where \in [Fresh -> {d}],
           \A i \in 1 .. Len(held[gen]) : RightAt(cache, i)
    PROVE  AllRight(Filled(cache, d, where, Len(prompt[gen])))
  <1> DEFINE n == Len(prompt[gen])
             after == Filled(cache, d, where, n)
  <1>1. /\ prompt[gen] \in Seq(Content) /\ n \in Nat /\ DOMAIN prompt[gen] = 1 .. n
        /\ held[gen] \in Seq(Nat) /\ Len(held[gen]) \in Nat
    BY GenAssumption DEF PrefixInv, TypeOK
  <1> SUFFICES ASSUME NEW i \in 1 .. n PROVE after[i] = SubSeq(prompt[gen], 1, i)
    BY <1>1 DEF AllRight, RightAt
  <1>2. i \in KvSlots
    BY <1>1, SlotsCover
  <1>3. CASE i \in Fresh
    <2>1. \A j \in 1 .. i - 1 : RightAt(cache, j) \/ (j \in Fresh /\ where[j] = d)
      BY <1>1, <1>3 DEF Fresh
    <2> QED  BY <2>1, <1>1, <1>2, <1>3 DEF Filled
  <1>4. CASE i \notin Fresh
    <2>1. i \in 1 .. Len(held[gen])
      BY <1>1, <1>4 DEF Fresh
    <2> QED  BY <2>1, <1>2, <1>4 DEF Filled, RightAt
  <1> QED  BY <1>3, <1>4

\* After a step that leaves only nodes on paths of prompts, the trie is not
\* poisoned, as every block is the state of the path to its node.
LEMMA NodesOfPrompts ==
    ASSUME PrefixInv', \A q \in DOMAIN trie' : \E p \in SessionPrompts : \E n \in DOMAIN p : q = Path(p, n)
    PROVE  TrieNotPoisoned'
  <1> SUFFICES ASSUME NEW q \in DOMAIN trie'
               PROVE  \E p \in SessionPrompts : \E n \in DOMAIN p :
                         blockKv'[trie'[q]] = SubSeq(p, 1, n) /\ q = Path(p, n)
    BY DEF TrieNotPoisoned, Path
  <1>0. PICK p \in SessionPrompts : \E n \in DOMAIN p : q = Path(p, n)
    OBVIOUS
  <1>1. PICK n \in DOMAIN p : q = Path(p, n)
    BY <1>0
  <1>2. p \in Seq(Content) /\ n \in 0 .. Len(p)
    BY SessionPromptsAssumption
  <1>3. blockKv'[trie'[q]] \in Seq(Content) /\ Path(blockKv'[trie'[q]], Len(blockKv'[trie'[q]])) = q
    BY DEF PrefixInv, ArenaConsistent, TypeOK, Path
  <1>4. blockKv'[trie'[q]] = SubSeq(p, 1, n)
    BY <1>1, <1>2, <1>3, SamePathSamePrefix
  <1> QED  BY <1>1, <1>4

\* An idle engine over an empty cache, on a device that does not change.
LEMMA EngineInitially ==
    ASSUME "fallback" \notin Tiers, EngineInit
    PROVE  EngineInv
  <1>1. PrefixInv
    BY PrefixInitially DEF EngineInit
  <1>2. tier \in {"cpu", "gpu"}
    BY TiersAssumption DEF EngineInit
  <1>3. DOMAIN trie = {} /\ phase[gen] = "closed" /\ held[gen] = <<>>
    BY GenAssumption DEF EngineInit, PrefixInit, CacheInit
  <1>4. EngineTypes /\ SessionFollowsStage /\ TrieNotPoisoned
    BY <1>2, <1>3 DEF EngineInit, EngineTypes, SessionFollowsStage, TrieNotPoisoned
  <1>5. ComputesRight
    BY <1>3 DEF EngineInit, ComputesRight
  <1> QED  BY <1>1, <1>4, <1>5 DEF EngineInv

\* Lookup copies state that is right for the prompt, as long as it goes.
LEMMA BeginKeeps ==
    ASSUME EngineInv, NEW p \in SessionPrompts, Begin(p)
    PROVE  EngineInv'
  <1> DEFINE n == Matched(p)
  <1>1. PrefixInv /\ EngineTypes /\ ComputesRight /\ TrieNotPoisoned /\ gen \in Sessions /\ Prepare(gen, p)
    BY GenAssumption DEF EngineInv, Begin
  <1>2. /\ n \in 0 .. Len(p) /\ Len(p) \in Nat
        /\ DOMAIN held'[gen] = 1 .. n /\ Len(held'[gen]) = n
        /\ prompt'[gen] = p /\ phase'[gen] = "open" /\ next'[gen] = n + 1
        /\ UNCHANGED <<trie, blockKv>>
        /\ \A i \in 1 .. n : blockKv[trie[Path(p, i)]] = SubSeq(p, 1, i)
    BY <1>1, PrepareGives
  <1>3. /\ genStage' = "prepared" /\ rightLogits' = TRUE /\ UNCHANGED <<tier, gpuKv>>
        /\ cpuKv' = [i \in KvSlots |-> IF i <= n THEN blockKv[trie[Path(p, i)]] ELSE cpuKv[i]]
    BY DEF Begin
  <1>4. PrefixInv'
    BY <1>1, PrepareKeeps
  <1>5. EngineTypes' /\ SessionFollowsStage'
    <2>1. cpuKv' = [i \in KvSlots |-> cpuKv'[i]]
      BY <1>3
    <2> QED  BY <2>1, <1>1, <1>2, <1>3 DEF EngineTypes, SessionFollowsStage
  <1>6. TrieNotPoisoned'
    BY <1>1, <1>2 DEF TrieNotPoisoned, Path
  <1>7. ASSUME NEW i \in 1 .. n PROVE RightAt(cpuKv, i)'
    <2>1. i \in KvSlots /\ i <= n
      BY <1>2, SlotsCover
    <2> QED  BY <2>1, <1>2, <1>3 DEF RightAt
  <1>8. CASE tier = "gpu"
    <2>1. n = 0
      <3>1. DOMAIN trie = {} /\ p \in Seq(Content)
        BY <1>1, <1>8, SessionPromptsAssumption DEF ComputesRight
      <3>2. \A i \in 1 .. n : Hit(p, i)
        BY <3>1, MatchedFacts
      <3> QED  BY <3>1, <3>2, <1>2 DEF Hit
    <2>2. \A i \in KvSlots : cpuKv'[i] = ZeroKv
      <3>1. \A i \in KvSlots : i \in Nat /\ i > 0
        BY SessionPromptsAssumption DEF KvSlots
      <3> QED  BY <3>1, <2>1, <1>1, <1>3, <1>8 DEF ComputesRight
    <2> QED  BY <2>1, <2>2, <1>1, <1>2, <1>3, <1>4, <1>5, <1>6, <1>7, <1>8 DEF EngineInv, ComputesRight
  <1>9. CASE tier # "gpu"
    BY <1>2, <1>3, <1>4, <1>5, <1>6, <1>7, <1>9 DEF EngineInv, ComputesRight
  <1> QED  BY <1>8, <1>9

\* A step that leaves the cache and its sessions alone.
LEMMA CacheUntouched ==
    ASSUME EngineInv, UNCHANGED <<cacheVars, sessionVars>>
    PROVE  PrefixInv' /\ TrieNotPoisoned' /\ Fresh' = Fresh
  <1>1. UNCHANGED prefixVars
    BY DEF cacheVars, sessionVars, prefixVars
  <1>2. PrefixInv'
    BY <1>1, PrefixInductive DEF EngineInv
  <1>3. TrieNotPoisoned' /\ Fresh' = Fresh
    BY DEF EngineInv, TrieNotPoisoned, Path, Fresh, cacheVars, sessionVars
  <1> QED  BY <1>2, <1>3

\* Where the state before the suffix is right on the device that computes.
LEMMA PrefixIsRight ==
    ASSUME EngineInv, genStage = "prepared"
    PROVE  /\ prompt[gen] \in SessionPrompts
           /\ \A i \in 1 .. Len(held[gen]) : RightAt(CacheOf(tier), i)
           /\ Len(prompt[gen]) \in Nat /\ DOMAIN prompt[gen] = 1 .. Len(prompt[gen])
           /\ Len(held[gen]) \in Nat /\ DOMAIN held[gen] = 1 .. Len(held[gen])
  <1>1. held[gen] \in Seq(Nat) /\ prompt[gen] \in Seq(Content)
    BY GenAssumption DEF EngineInv, PrefixInv, TypeOK
  <1>2. prompt[gen] \in SessionPrompts
    BY DEF EngineInv, SessionFollowsStage
  <1>3. CASE tier = "cpu"
    BY <1>1, <1>2, <1>3 DEF EngineInv, ComputesRight, CacheOf
  <1>4. CASE tier = "gpu"
    BY <1>1, <1>2, <1>4 DEF EngineInv, ComputesRight
  <1> QED  BY <1>3, <1>4 DEF EngineInv, EngineTypes

\* The forward passes over the suffix compute the whole prompt right.
LEMMA PrefillKeeps ==
    ASSUME EngineInv, Prefill
    PROVE  EngineInv'
  <1>1. EngineTypes /\ SessionFollowsStage /\ ComputesRight /\ PrefixInv /\ Devices = {tier}
        /\ genStage = "prepared" /\ Fresh # {}
    BY OneDevice DEF EngineInv, EngineTypes, Prefill
  <1>2. PICK where \in [Fresh -> {tier}] :
           /\ cpuKv' = Filled(cpuKv, "cpu", where, Len(prompt[gen]))
           /\ gpuKv' = Filled(gpuKv, "gpu", where, Len(prompt[gen]))
           /\ rightLogits' = AllRight(IF where[Len(prompt[gen])] = "cpu" THEN cpuKv' ELSE gpuKv')
    BY <1>1 DEF Prefill
  <1>3. genStage' = "prefilled" /\ UNCHANGED <<tier, cacheVars, sessionVars>>
    BY DEF Prefill
  <1>4. PrefixInv' /\ TrieNotPoisoned'
    BY <1>3, CacheUntouched
  <1>5. EngineTypes' /\ SessionFollowsStage'
    <2>1. cpuKv' = [i \in KvSlots |-> cpuKv'[i]] /\ gpuKv' = [i \in KvSlots |-> gpuKv'[i]]
      BY <1>2 DEF Filled
    <2> QED  BY <2>1, <1>1, <1>3 DEF EngineTypes, SessionFollowsStage, sessionVars
  <1>6. where[Len(prompt[gen])] = tier
    <2>1. Len(prompt[gen]) \in Fresh
      BY <1>1, PrefixIsRight DEF Fresh
    <2> QED  BY <2>1
  <1>7. AllRight(CacheOf(tier)') /\ rightLogits' = TRUE
    <2>1. AllRight(Filled(CacheOf(tier), tier, where, Len(prompt[gen])))
      BY <1>1, PrefixIsRight, FilledIsRight
    <2>2. CacheOf(tier)' = Filled(CacheOf(tier), tier, where, Len(prompt[gen]))
      BY <1>1, <1>2, <1>3 DEF CacheOf, EngineTypes
    <2>3. CacheOf(tier)' = IF where[Len(prompt[gen])] = "cpu" THEN cpuKv' ELSE gpuKv'
      BY <1>3, <1>6 DEF CacheOf
    <2> QED  BY <2>1, <2>2, <2>3, <1>2 DEF AllRight
  <1>8. AllRight(CacheOf(tier))'
    BY <1>3, <1>7 DEF AllRight, RightAt, sessionVars
  <1>9. CASE tier = "gpu"
    <2>1. cpuKv' = [i \in KvSlots |-> cpuKv[i]]
      <3>1. where \in [Fresh -> {"gpu"}]
        BY <1>9
      <3> QED  BY <3>1, <1>2 DEF Filled
    <2> QED
      BY <2>1, <1>1, <1>3, <1>4, <1>5, <1>7, <1>8, <1>9 DEF EngineInv, ComputesRight, cacheVars, sessionVars
  <1>10. CASE tier # "gpu"
    BY <1>3, <1>4, <1>5, <1>7, <1>8, <1>10 DEF EngineInv, ComputesRight
  <1> QED  BY <1>9, <1>10

\* A prompt found as a whole: its last token is computed again, over right state.
LEMMA RerunLastKeeps ==
    ASSUME EngineInv, RerunLast
    PROVE  EngineInv'
  <1>1. EngineTypes /\ SessionFollowsStage /\ ComputesRight /\ Devices = {tier}
        /\ genStage = "prepared" /\ Fresh = {}
    BY OneDevice DEF EngineInv, EngineTypes, RerunLast
  <1>2. genStage' = "prefilled" /\ UNCHANGED <<tier, cpuKv, gpuKv, cacheVars, sessionVars>>
        /\ rightLogits' = AllRight(CacheOf(tier))
    BY <1>1 DEF RerunLast
  <1>3. PrefixInv' /\ TrieNotPoisoned'
    BY <1>2, CacheUntouched
  <1>4. AllRight(CacheOf(tier))
    <2>1. /\ \A i \in 1 .. Len(held[gen]) : RightAt(CacheOf(tier), i)
          /\ Len(prompt[gen]) \in Nat /\ DOMAIN prompt[gen] = 1 .. Len(prompt[gen])
          /\ Len(held[gen]) \in Nat
      BY <1>1, PrefixIsRight
    <2>2. \A i \in DOMAIN prompt[gen] : i \in 1 .. Len(held[gen])
      BY <2>1, <1>1 DEF Fresh
    <2> QED  BY <2>1, <2>2 DEF AllRight
  <1>5. AllRight(CacheOf(tier))'
    BY <1>2, <1>4 DEF AllRight, CacheOf, RightAt, sessionVars
  <1> QED
    BY <1>1, <1>2, <1>3, <1>4, <1>5
    DEF EngineInv, EngineTypes, SessionFollowsStage, ComputesRight, cacheVars, sessionVars

\* Releasing the session changes counts, not blocks.
LEMMA ReleaseGives ==
    ASSUME EngineInv, ReleaseSession(gen)
    PROVE  /\ PrefixInv' /\ TrieNotPoisoned'
           /\ phase'[gen] = "closed" /\ Len(held'[gen]) = 0 /\ DOMAIN trie' = DOMAIN trie
  <1>1. PrefixInv'
    BY GenAssumption, ReleaseKeeps DEF EngineInv
  <1>2. UNCHANGED <<trie, blockKv>>
    BY DEF ReleaseSession
  <1>3. TrieNotPoisoned'
    BY <1>2 DEF EngineInv, TrieNotPoisoned, Path
  <1>4. phase' = [phase EXCEPT ![gen] = "closed"] /\ held' = [held EXCEPT ![gen] = <<>>]
    BY DEF ReleaseSession
  <1>5. phase'[gen] = "closed" /\ held'[gen] = <<>>
    BY <1>4, GenAssumption DEF EngineInv, PrefixInv, TypeOK
  <1> QED  BY <1>1, <1>2, <1>3, <1>5

\* A forward pass that fails part way: the session is released, nothing stored.
LEMMA PrefillFailsKeeps ==
    ASSUME EngineInv, PrefillFails
    PROVE  EngineInv'
  <1>1. /\ EngineTypes /\ ComputesRight /\ Devices = {tier} /\ ReleaseSession(gen)
        /\ genStage' = "idle" /\ UNCHANGED <<tier, rightLogits>>
    BY OneDevice DEF EngineInv, EngineTypes, PrefillFails
  <1>2. PICK where \in [Fresh -> {tier}] :
           \E upto \in {Len(held[gen])} \cup Fresh :
              /\ cpuKv' = Filled(cpuKv, "cpu", where, upto - 1)
              /\ gpuKv' = Filled(gpuKv, "gpu", where, upto - 1)
    BY <1>1 DEF PrefillFails
  <1>3. cpuKv' = [i \in KvSlots |-> cpuKv'[i]] /\ gpuKv' = [i \in KvSlots |-> gpuKv'[i]]
    BY <1>2 DEF Filled
  <1>4. EngineTypes' /\ SessionFollowsStage'
    BY <1>1, <1>3, ReleaseGives DEF EngineTypes, SessionFollowsStage
  <1>5. tier = "gpu" => \A i \in KvSlots : cpuKv'[i] = ZeroKv
    <2> SUFFICES ASSUME tier = "gpu" PROVE \A i \in KvSlots : cpuKv'[i] = ZeroKv
      OBVIOUS
    <2>1. where \in [Fresh -> {"gpu"}]
      OBVIOUS
    <2>2. cpuKv' = [i \in KvSlots |-> cpuKv[i]]
      BY <2>1, <1>2 DEF Filled
    <2> QED  BY <2>2, <1>1 DEF ComputesRight
  <1>6. ComputesRight'
    BY <1>1, <1>5, ReleaseGives DEF ComputesRight
  <1> QED  BY <1>1, <1>4, <1>6, ReleaseGives DEF EngineInv

\* Decoding reads right state and writes after the prompt.
LEMMA DecodeKeeps ==
    ASSUME EngineInv, DecodeAndRelease
    PROVE  EngineInv'
  <1>1. /\ EngineTypes /\ ComputesRight /\ Devices = {tier} /\ ReleaseSession(gen)
        /\ genStage = "prefilled" /\ genStage' = "answered" /\ tier' = tier
    BY OneDevice DEF EngineInv, EngineTypes, DecodeAndRelease
  <1>2. PICK used \in SUBSET {tier} :
           /\ cpuKv' = IF "cpu" \in used THEN [cpuKv EXCEPT ![Len(prompt[gen]) + 1] = Garbage] ELSE cpuKv
           /\ gpuKv' = IF "gpu" \in used THEN [gpuKv EXCEPT ![Len(prompt[gen]) + 1] = Garbage] ELSE gpuKv
           /\ rightLogits' = (rightLogits /\ \A d \in used : AllRight(CacheOf(d)))
    BY <1>1 DEF DecodeAndRelease
  <1>3. rightLogits'
    BY <1>1, <1>2 DEF ComputesRight
  <1>4. DOMAIN cpuKv = KvSlots /\ DOMAIN gpuKv = KvSlots
    BY <1>1 DEF EngineTypes
  <1>5. cpuKv' = [i \in KvSlots |-> cpuKv'[i]] /\ gpuKv' = [i \in KvSlots |-> gpuKv'[i]]
    BY <1>1, <1>2, <1>4 DEF EngineTypes
  <1>6. tier = "gpu" => cpuKv' = cpuKv
    BY <1>2
  <1>7. ComputesRight'
    BY <1>1, <1>3, <1>6, ReleaseGives DEF ComputesRight
  <1>8. EngineTypes' /\ SessionFollowsStage'
    BY <1>1, <1>5, ReleaseGives DEF EngineTypes, SessionFollowsStage
  <1> QED  BY <1>1, <1>7, <1>8, ReleaseGives DEF EngineInv

\* The probe: where the CPU cache is not computed with it is zero, and nothing
\* is stored; otherwise what is stored is the state of the prompt.
LEMMA ProbeIsRight ==
    ASSUME EngineInv, MustStore
    PROVE  /\ tier = "cpu" /\ prompt[gen] \in SessionPrompts
           /\ \A i \in DOMAIN prompt[gen] : cpuKv[i] = SubSeq(prompt[gen], 1, i)
  <1>1. EngineTypes /\ ComputesRight /\ SessionFollowsStage /\ RealCpuKv /\ genStage = "prefilled"
    BY DEF EngineInv, MustStore
  <1>2. prompt[gen] \in SessionPrompts
    BY <1>1 DEF SessionFollowsStage
  <1>3. \A i \in DOMAIN prompt[gen] : i \in KvSlots
    <2>1. prompt[gen] \in Seq(Content) /\ Len(prompt[gen]) \in Nat
      BY <1>2, SessionPromptsAssumption
    <2> QED  BY <2>1, <1>2, SlotsCover
  <1>4. tier = "cpu"
    BY <1>1, <1>3 DEF RealCpuKv, ComputesRight, EngineTypes
  <1> QED  BY <1>1, <1>2, <1>4 DEF ComputesRight, AllRight, RightAt, CacheOf

\* What insert is handed after the probe is the state of the prompt.
LEMMA StoreKeeps ==
    ASSUME EngineInv, Store
    PROVE  EngineInv'
  <1>1. /\ PrefixInv /\ EngineTypes /\ SessionFollowsStage /\ ComputesRight /\ TrieNotPoisoned
        /\ MustStore /\ Insert(gen, cpuKv[next[gen]]) /\ UNCHANGED engineVars
        /\ genStage = "prefilled" /\ gen \in Sessions
    BY GenAssumption DEF EngineInv, Store, MustStore
  <1>2. tier = "cpu" /\ prompt[gen] \in SessionPrompts
    BY <1>1, ProbeIsRight
  <1>3. next[gen] \in DOMAIN prompt[gen] /\ cpuKv[next[gen]] = SubSeq(prompt[gen], 1, next[gen])
    <2>1. next[gen] <= Len(prompt[gen]) /\ phase[gen] # "closed"
      BY <1>1 DEF Insert, StoresNext
    <2>2. /\ prompt[gen] \in Seq(Content) /\ Len(prompt[gen]) \in Nat
          /\ held[gen] \in Seq(Nat) /\ Len(held[gen]) \in Nat
          /\ next[gen] \in Len(held[gen]) + 1 .. Len(prompt[gen]) + 1
      BY <2>1, <1>1 DEF PrefixInv, TypeOK, SessionsInOrder
    <2>3. next[gen] \in DOMAIN prompt[gen]
      BY <2>1, <2>2
    <2> QED  BY <2>3, <1>1, ProbeIsRight
  <1>4. PrefixInv'
    BY <1>1, <1>3, InsertKeeps
  <1>5. /\ DOMAIN trie' = DOMAIN trie \cup {Path(prompt[gen], next[gen])} /\ UNCHANGED <<prompt, held>>
        /\ phase' = [phase EXCEPT ![gen] = IF next[gen] = Len(prompt[gen]) THEN "stored" ELSE "storing"]
    BY <1>1 DEF Insert
  <1>6. TrieNotPoisoned'
    <2>1. \A q \in DOMAIN trie' : \E p \in SessionPrompts : \E n \in DOMAIN p : q = Path(p, n)
      BY <1>1, <1>2, <1>3, <1>5 DEF TrieNotPoisoned
    <2> QED  BY <2>1, <1>4, NodesOfPrompts
  <1>7. phase'[gen] # "closed"
    BY <1>1, <1>5 DEF PrefixInv, TypeOK
  <1>8. EngineTypes' /\ SessionFollowsStage'
    BY <1>1, <1>2, <1>5, <1>7 DEF EngineTypes, SessionFollowsStage, engineVars
  <1>9. ComputesRight'
    BY <1>1, <1>2, <1>5 DEF ComputesRight, engineVars, AllRight, RightAt, CacheOf
  <1> QED  BY <1>4, <1>6, <1>8, <1>9 DEF EngineInv

\* Evicting before an insertion takes nodes away.
LEMMA MakeRoomKeeps ==
    ASSUME EngineInv, MakeRoom
    PROVE  EngineInv'
  <1>1. /\ PrefixInv /\ EngineTypes /\ SessionFollowsStage /\ ComputesRight /\ TrieNotPoisoned
        /\ MustStore /\ Evict(gen) /\ UNCHANGED engineVars /\ genStage = "prefilled" /\ gen \in Sessions
    BY GenAssumption DEF EngineInv, MakeRoom, MustStore
  <1>2. tier = "cpu" /\ prompt[gen] \in SessionPrompts
    BY <1>1, ProbeIsRight
  <1>3. PrefixInv'
    BY <1>1, EvictKeeps
  <1>4. /\ \A q \in DOMAIN trie' : q \in DOMAIN trie /\ trie'[q] = trie[q]
        /\ UNCHANGED <<blockKv, prompt, held>> /\ phase' = [phase EXCEPT ![gen] = "storing"]
    BY <1>1 DEF Evict
  <1>5. TrieNotPoisoned'
    BY <1>1, <1>4 DEF TrieNotPoisoned, Path
  <1>6. phase'[gen] # "closed"
    BY <1>1, <1>4 DEF PrefixInv, TypeOK
  <1>7. EngineTypes' /\ SessionFollowsStage'
    BY <1>1, <1>2, <1>4, <1>6 DEF EngineTypes, SessionFollowsStage, engineVars
  <1>8. ComputesRight'
    BY <1>1, <1>2, <1>4 DEF ComputesRight, engineVars, AllRight, RightAt, CacheOf
  <1> QED  BY <1>3, <1>5, <1>7, <1>8 DEF EngineInv

\* Every step of the engine keeps the invariant.
LEMMA EngineInductive == EngineInv /\ [EngineNext]_allVars => EngineInv'
  <1> SUFFICES ASSUME EngineInv, [EngineNext]_allVars PROVE EngineInv'
    OBVIOUS
  <1>1. CASE UNCHANGED allVars \/ Answer
    <2>1. /\ UNCHANGED <<cacheVars, sessionVars, tier, cpuKv, gpuKv, rightLogits>>
          /\ genStage' = genStage \/ (genStage = "answered" /\ genStage' = "idle")
      BY <1>1 DEF Answer, allVars, cacheVars, sessionVars
    <2>2. PrefixInv' /\ TrieNotPoisoned'
      BY <2>1, CacheUntouched
    <2>3. EngineTypes' /\ SessionFollowsStage'
      BY <2>1 DEF EngineInv, EngineTypes, SessionFollowsStage, sessionVars
    <2>4. ComputesRight'
      BY <2>1 DEF EngineInv, ComputesRight, AllRight, RightAt, CacheOf, cacheVars, sessionVars
    <2> QED  BY <2>2, <2>3, <2>4 DEF EngineInv
  <1>2. CASE ClearCache
    <2>1. PrefixInv' /\ DOMAIN trie' = {} /\ UNCHANGED sessionVars /\ UNCHANGED engineVars /\ genStage = "idle"
      BY <1>2, ClearKeeps DEF EngineInv, ClearCache, Clear
    <2>2. TrieNotPoisoned'
      BY <2>1 DEF TrieNotPoisoned
    <2>3. EngineTypes' /\ SessionFollowsStage'
      BY <2>1 DEF EngineInv, EngineTypes, SessionFollowsStage, sessionVars, engineVars
    <2>4. ComputesRight'
      BY <2>1 DEF EngineInv, ComputesRight, sessionVars, engineVars
    <2> QED  BY <2>1, <2>2, <2>3, <2>4 DEF EngineInv
  <1> QED
    BY <1>1, <1>2, BeginKeeps, PrefillKeeps, RerunLastKeeps, PrefillFailsKeeps, StoreKeeps, MakeRoomKeeps,
       DecodeKeeps
    DEF EngineNext

\* For all prompts and capacities, on machines whose calls always compute on
\* the same device: no block is kept under a prefix it was not computed under
\* (generate, its probe).  With calls that fall back it is not so.
THEOREM TrieStaysClean ==
    ASSUME "fallback" \notin Tiers
    PROVE  EngineSpec => []TrieNotPoisoned
  <1>1. EngineInit => EngineInv
    BY EngineInitially
  <1>2. EngineInv => TrieNotPoisoned
    BY DEF EngineInv
  <1> QED  BY <1>1, <1>2, EngineInductive, PTL DEF EngineSpec

\* On the same machines every request is answered from exactly the state its
\* whole prompt would have produced, whatever was cached before (generate).
THEOREM CachedAnswersAreRight ==
    ASSUME "fallback" \notin Tiers
    PROVE  EngineSpec => []AnswersLikePlainEngine
  <1>1. EngineInit => EngineInv
    BY EngineInitially
  <1>2. EngineInv => AnswersLikePlainEngine
    BY DEF EngineInv, ComputesRight, AnswersLikePlainEngine
  <1> QED  BY <1>1, <1>2, EngineInductive, PTL DEF EngineSpec
-----------------------------------------------------------------------------
(* The paged cache.                                                        *)

USE BlockSizeAssumption, BoundsAssumption, CapacityAssumption, ValuesAssumption

\* A position is determined by its page number and its slot.
LEMMA SlotUnique ==
    ASSUME NEW m \in Nat, NEW n \in Nat,
           m \div BlockSize = n \div BlockSize, m % BlockSize = n % BlockSize
    PROVE  m = n
  BY Z3

\* The pages write_kv asks for are enough for the position it writes.
LEMMA EnoughForPosition ==
    ASSUME NEW n \in Nat
    PROVE  BlocksNeeded(n + 1) = n \div BlockSize + 1
  BY Z3 DEF BlocksNeeded

LEMMA SlotType ==
    ASSUME NEW n \in Nat
    PROVE  n \div BlockSize \in Nat /\ n % BlockSize \in PagedSlots
  BY Z3 DEF PagedSlots

\* The kinds of calls keep their fields apart.
LEMMA OpKinds ==
    ASSUME PagedTypeOK
    PROVE  /\ op.kind \in {"idle", "ensure", "write", "drop"}
           /\ op.kind = "idle" <=> op = Idle
           /\ op.kind = "ensure" => op.seq \in Seqs /\ op.need \in 0 .. MaxPos
           /\ op.kind = "write" => /\ op.seq \in Seqs /\ op.need \in 1 .. MaxPos
                                   /\ op.layer \in PagedLayers /\ op.value \in Values
           /\ op.kind = "drop" => op.seq \in Seqs
  BY DEF PagedTypeOK, Idle, Ensures, Writes, Drops

\* An empty cache whose pages are all free.
LEMMA PagedInitially == PagedInit => PagedInv
  <1> SUFFICES ASSUME PagedInit PROVE PagedInv
    OBVIOUS
  <1>1. PagedTypeOK
    BY DEF PagedInit, PagedTypeOK, Pages, PagedSlots, Seqs, PagedLayers, Idle
  <1>2. PagesDisjoint
    BY DEF PagedInit, PagesDisjoint, Pages
  <1>3. WrittenMapped /\ OwnersKnown
    BY DEF PagedInit, WrittenMapped, OwnersKnown, Idle
  <1> QED
    BY <1>1, <1>2, <1>3 DEF PagedInv

\* A page moves from the top of the free list to the end of one layer.
LEMMA AllocateInv ==
    ASSUME PagedInv, NEW l \in PagedLayers, AllocatePage(l)
    PROVE  PagedInv'
  <1> DEFINE s == op.seq
             p == Last(free)
  <1>1. s \in Seqs /\ op.kind # "drop" /\ op # Idle
    BY OpKinds DEF PagedInv, AllocatePage, Growing, Idle
  <1>2. /\ free \in Seq(Pages) /\ free # <<>>
        /\ Len(free) \in Nat /\ Len(free) > 0
        /\ DOMAIN free = 1 .. Len(free)
    BY DEF PagedInv, PagedTypeOK, AllocatePage
  <1>2a. /\ p = free[Len(free)] /\ p \in Pages
         /\ free' \in Seq(Pages)
         /\ Len(free') = Len(free) - 1
         /\ DOMAIN free' = 1 .. Len(free) - 1
         /\ \A i \in DOMAIN free' : i \in DOMAIN free /\ i # Len(free) /\ free'[i] = free[i]
    BY <1>2 DEF AllocatePage, Front, Last
  <1>3. /\ tables \in [Seqs -> [PagedLayers -> Seq(Pages)]]
        /\ tables[s] \in [PagedLayers -> Seq(Pages)]
        /\ tables[s][l] \in Seq(Pages)
        /\ Len(tables[s][l]) \in Nat
    BY <1>1 DEF PagedInv, PagedTypeOK
  <1>3a. tables' = [tables EXCEPT ![s][l] = Append(tables[s][l], p)]
    BY DEF AllocatePage
  <1>3b. /\ tables' \in [Seqs -> [PagedLayers -> Seq(Pages)]]
         /\ tables'[s][l] = Append(tables[s][l], p)
         /\ \A t \in Seqs, m \in PagedLayers : (t # s \/ m # l) => tables'[t][m] = tables[t][m]
    BY <1>1, <1>2a, <1>3, <1>3a
  <1>4. /\ DOMAIN tables'[s][l] = 1 .. Len(tables[s][l]) + 1
        /\ DOMAIN tables[s][l] = 1 .. Len(tables[s][l])
        /\ Len(tables'[s][l]) = Len(tables[s][l]) + 1
        /\ tables'[s][l][Len(tables[s][l]) + 1] = p
        /\ \A i \in DOMAIN tables[s][l] : tables'[s][l][i] = tables[s][l][i]
        /\ \A t \in Seqs, m \in PagedLayers : (t # s \/ m # l) => tables'[t][m] = tables[t][m]
    BY <1>2a, <1>3, <1>3b
  <1>5. \A t \in Seqs, m \in PagedLayers :
           \A i \in DOMAIN tables'[t][m] :
              \/ i \in DOMAIN tables[t][m] /\ tables'[t][m][i] = tables[t][m][i]
              \/ t = s /\ m = l /\ i = Len(tables[s][l]) + 1 /\ tables'[t][m][i] = p
    <2> HIDE DEF s, p
    <2> TAKE t \in Seqs, m \in PagedLayers
    <2>1. CASE t = s /\ m = l
      BY <2>1, <1>3, <1>4
    <2>2. CASE t # s \/ m # l
      BY <2>2, <1>4
    <2> QED
      BY <2>1, <2>2
  <1>6. PagedTypeOK'
    BY <1>2a, <1>3b DEF PagedInv, PagedTypeOK, AllocatePage
  <1>7. PagesDisjoint'
    <2>1. \A i, j \in DOMAIN free' : free'[i] = free'[j] => i = j
      BY <1>2, <1>2a DEF PagedInv, PagesDisjoint
    <2>2. ASSUME NEW t \in Seqs, NEW m \in PagedLayers, NEW i \in DOMAIN tables'[t][m],
                 NEW j \in DOMAIN free'
          PROVE  free'[j] # tables'[t][m][i]
      BY <1>2, <1>2a, <1>5 DEF PagedInv, PagesDisjoint
    <2>3. ASSUME NEW t \in Seqs, NEW u \in Seqs, NEW m \in PagedLayers, NEW n \in PagedLayers,
                 NEW i \in DOMAIN tables'[t][m], NEW j \in DOMAIN tables'[u][n],
                 tables'[t][m][i] = tables'[u][n][j]
          PROVE  t = u /\ m = n /\ i = j
      BY <2>3, <1>2, <1>2a, <1>5 DEF PagedInv, PagesDisjoint
    <2> QED
      BY <2>1, <2>2, <2>3 DEF PagesDisjoint
  <1>8. WrittenMapped'
    <2> SUFFICES ASSUME NEW w \in written'
                 PROVE  /\ w[1] \in live'
                        /\ w[2][2] \div BlockSize + 1 <= Len(tables'[w[1]][w[2][1]])
      BY DEF WrittenMapped, Mapped
    <2>1. w \in written /\ live' = live /\ w[1] \in Seqs /\ w[2][1] \in PagedLayers /\ w[2][2] \in Nat
      BY DEF PagedInv, PagedTypeOK, AllocatePage, Places, PagedPositions
    <2>2. /\ tables'[w[1]][w[2][1]] \in Seq(Pages)
          /\ Len(tables'[w[1]][w[2][1]]) >= Len(tables[w[1]][w[2][1]])
          /\ Len(tables[w[1]][w[2][1]]) \in Nat /\ Len(tables'[w[1]][w[2][1]]) \in Nat
      <3> HIDE DEF s, p
      <3>1. CASE w[1] = s /\ w[2][1] = l
        BY <3>1, <1>3, <1>3b, <1>4, <2>1
      <3>2. CASE w[1] # s \/ w[2][1] # l
        BY <3>2, <1>3, <1>3b, <2>1
      <3> QED
        BY <3>1, <3>2
    <2>3. w[1] \in live /\ w[2][2] \div BlockSize + 1 <= Len(tables[w[1]][w[2][1]])
      BY <2>1 DEF PagedInv, WrittenMapped, Mapped
    <2>4. w[2][2] \div BlockSize + 1 \in Nat
      BY <2>1, SlotType
    <2> DEFINE i == w[2][2] \div BlockSize + 1
               before == Len(tables[w[1]][w[2][1]])
               after == Len(tables'[w[1]][w[2][1]])
    <2>5. i \in Nat /\ before \in Nat /\ after \in Nat /\ i <= before /\ before <= after
      BY <2>2, <2>3, <2>4
    <2> HIDE DEF s, p, i, before, after
    <2>6. i <= after
      BY <2>5
    <2> QED
      BY <2>1, <2>3, <2>6 DEF i, after
  <1>9. OwnersKnown'
    BY <1>1, <1>4 DEF PagedInv, OwnersKnown, AllocatePage, Growing
  <1> QED
    BY <1>6, <1>7, <1>8, <1>9 DEF PagedInv

\* A page moves from the head of a layer of the dropped sequence to the free
\* list; the sequence is not live any more.
LEMMA FreePageInv ==
    ASSUME PagedInv, NEW l \in PagedLayers, FreePage(l)
    PROVE  PagedInv'
  <1> DEFINE s == op.seq
             p == Head(tables[s][l])
  <1>1. s \in Seqs /\ op.kind = "drop" /\ s \notin live
    BY OpKinds DEF PagedInv, FreePage, OwnersKnown
  <1>2a. /\ tables \in [Seqs -> [PagedLayers -> Seq(Pages)]]
         /\ tables[s] \in [PagedLayers -> Seq(Pages)]
         /\ tables[s][l] \in Seq(Pages)
         /\ tables[s][l] # <<>>
         /\ Len(tables[s][l]) \in Nat
    BY <1>1 DEF PagedInv, PagedTypeOK, FreePage
  <1>2. /\ Len(tables[s][l]) > 0
        /\ DOMAIN tables[s][l] = 1 .. Len(tables[s][l])
        /\ p = tables[s][l][1] /\ p \in Pages
        /\ Tail(tables[s][l]) \in Seq(Pages)
        /\ DOMAIN Tail(tables[s][l]) = 1 .. Len(tables[s][l]) - 1
        /\ \A i \in 1 .. Len(tables[s][l]) - 1 : Tail(tables[s][l])[i] = tables[s][l][i + 1]
    BY <1>2a
  <1>2b. tables' = [tables EXCEPT ![s][l] = Tail(tables[s][l])]
    BY DEF FreePage
  <1>2c. /\ tables' \in [Seqs -> [PagedLayers -> Seq(Pages)]]
         /\ tables'[s][l] = Tail(tables[s][l])
         /\ \A t \in Seqs, m \in PagedLayers : (t # s \/ m # l) => tables'[t][m] = tables[t][m]
    BY <1>1, <1>2a, <1>2, <1>2b
  <1>3. /\ free \in Seq(Pages) /\ free' = Append(free, p) /\ free' \in Seq(Pages)
        /\ Len(free) \in Nat
        /\ DOMAIN free = 1 .. Len(free) /\ DOMAIN free' = 1 .. Len(free) + 1
        /\ free'[Len(free) + 1] = p
        /\ \A i \in DOMAIN free : free'[i] = free[i]
    BY <1>2 DEF PagedInv, PagedTypeOK, FreePage
  <1>4. \A i \in DOMAIN free' :
           \/ i \in DOMAIN free /\ free'[i] = free[i]
           \/ i = Len(free) + 1 /\ free'[i] = p
    BY <1>3
  <1>5. /\ DOMAIN tables'[s][l] = 1 .. Len(tables[s][l]) - 1
        /\ DOMAIN tables[s][l] = 1 .. Len(tables[s][l])
        /\ \A i \in 1 .. Len(tables[s][l]) - 1 : tables'[s][l][i] = tables[s][l][i + 1]
        /\ \A t \in Seqs, m \in PagedLayers : (t # s \/ m # l) => tables'[t][m] = tables[t][m]
    BY <1>2, <1>2c
  <1>6. \A t \in Seqs, m \in PagedLayers : \A i \in DOMAIN tables'[t][m] :
           \/ /\ t = s /\ m = l /\ i + 1 \in DOMAIN tables[s][l] /\ i + 1 > 1
              /\ i \in Nat /\ tables'[t][m][i] = tables[s][l][i + 1]
           \/ /\ t # s \/ m # l
              /\ i \in DOMAIN tables[t][m] /\ tables'[t][m][i] = tables[t][m][i]
    <2> HIDE DEF s, p
    <2> TAKE t \in Seqs, m \in PagedLayers
    <2>1. CASE t = s /\ m = l
      BY <2>1, <1>2a, <1>2, <1>5
    <2>2. CASE t # s \/ m # l
      BY <2>2, <1>5
    <2> QED
      BY <2>1, <2>2
  <1>7. 1 \in DOMAIN tables[s][l]
    BY <1>2, <1>5
  <1>8. PagedTypeOK'
    BY <1>2c, <1>3 DEF PagedInv, PagedTypeOK, FreePage
  <1>9. PagesDisjoint'
    <2>1. ASSUME NEW i \in DOMAIN free', NEW j \in DOMAIN free', free'[i] = free'[j]
          PROVE  i = j
      BY <2>1, <1>1, <1>2, <1>3, <1>4, <1>7 DEF PagedInv, PagesDisjoint
    <2>2. ASSUME NEW t \in Seqs, NEW m \in PagedLayers, NEW i \in DOMAIN tables'[t][m],
                 NEW j \in DOMAIN free'
          PROVE  free'[j] # tables'[t][m][i]
      <3>1. CASE j \in DOMAIN free /\ free'[j] = free[j]
        BY <3>1, <1>1, <1>6 DEF PagedInv, PagesDisjoint
      <3>2. CASE free'[j] = p
        BY <3>2, <1>1, <1>2, <1>6, <1>7 DEF PagedInv, PagesDisjoint
      <3> QED
        BY <3>1, <3>2, <1>4
    <2>3. ASSUME NEW t \in Seqs, NEW u \in Seqs, NEW m \in PagedLayers, NEW n \in PagedLayers,
                 NEW i \in DOMAIN tables'[t][m], NEW j \in DOMAIN tables'[u][n],
                 tables'[t][m][i] = tables'[u][n][j]
          PROVE  t = u /\ m = n /\ i = j
      <3>1. PICK i0 \in DOMAIN tables[t][m], j0 \in DOMAIN tables[u][n] :
               /\ tables[t][m][i0] = tables[u][n][j0]
               /\ i0 = IF t = s /\ m = l THEN i + 1 ELSE i
               /\ j0 = IF u = s /\ n = l THEN j + 1 ELSE j
        BY <2>3, <1>6
      <3>2. t = u /\ m = n /\ i0 = j0
        BY <3>1, <1>1 DEF PagedInv, PagesDisjoint
      <3> QED
        BY <3>1, <3>2, <1>6
    <2> QED
      BY <2>1, <2>2, <2>3 DEF PagesDisjoint
  <1>10. WrittenMapped'
    <2> SUFFICES ASSUME NEW w \in written'
                 PROVE  /\ w[1] \in live'
                        /\ w[2][2] \div BlockSize + 1 <= Len(tables'[w[1]][w[2][1]])
      BY DEF WrittenMapped, Mapped
    <2>1. w \in written /\ live' = live /\ w[1] \in Seqs /\ w[2][1] \in PagedLayers
      BY DEF PagedInv, PagedTypeOK, FreePage, Places, PagedPositions
    <2>2. w[1] \in live /\ Mapped(w[1], w[2][1], w[2][2])
      BY <2>1 DEF PagedInv, WrittenMapped
    <2>3. tables'[w[1]][w[2][1]] = tables[w[1]][w[2][1]]
      BY <2>1, <2>2, <1>1, <1>5
    <2> QED
      BY <2>1, <2>2, <2>3 DEF Mapped
  <1>11. OwnersKnown'
    BY <1>1, <1>5 DEF PagedInv, OwnersKnown, FreePage
  <1> QED
    BY <1>8, <1>9, <1>10, <1>11 DEF PagedInv

\* The position a write is about to fill is mapped to one of its own pages.
LEMMA WriteTarget ==
    ASSUME PagedInv, op.kind = "write", Enough
    PROVE  /\ op.seq \in live /\ op.seq \in Seqs /\ op.layer \in PagedLayers
           /\ op.value \in Values
           /\ op.need - 1 \in PagedPositions
           /\ Mapped(op.seq, op.layer, op.need - 1)
           /\ PageOf(op.seq, op.layer, op.need - 1) \in Pages
           /\ (op.need - 1) % BlockSize \in PagedSlots
  <1> DEFINE pos == op.need - 1
  <1>1. op.seq \in live /\ op.seq \in Seqs /\ op.layer \in PagedLayers /\ op.value \in Values
        /\ op.need \in 1 .. MaxPos
    BY OpKinds DEF PagedInv, OwnersKnown
  <1>2. pos \in Nat /\ pos \in PagedPositions /\ pos + 1 = op.need
    BY <1>1 DEF PagedPositions
  <1>3. pos \div BlockSize \in Nat /\ pos % BlockSize \in PagedSlots
    BY <1>2, SlotType
  <1>4. BlocksNeeded(op.need) = pos \div BlockSize + 1
    BY <1>2, EnoughForPosition
  <1>5. tables[op.seq][op.layer] \in Seq(Pages) /\ Len(tables[op.seq][op.layer]) \in Nat
    BY <1>1 DEF PagedInv, PagedTypeOK
  <1>6. pos \div BlockSize + 1 <= Len(tables[op.seq][op.layer])
    BY <1>1, <1>3, <1>4, <1>5 DEF Enough, Short
  <1>7. pos \div BlockSize + 1 \in DOMAIN tables[op.seq][op.layer]
    BY <1>3, <1>5, <1>6
  <1> QED
    BY <1>1, <1>2, <1>3, <1>5, <1>6, <1>7 DEF Mapped, PageOf

LEMMA EndWriteInv ==
    ASSUME PagedInv, EndWrite
    PROVE  PagedInv'
  <1> DEFINE pos == op.need - 1
             pg == PageOf(op.seq, op.layer, pos)
             slot == pos % BlockSize
             w0 == <<op.seq, <<op.layer, pos>>>>
  <1>1. op.kind = "write" /\ Enough
    BY DEF EndWrite
  <1>2. content' = [content EXCEPT ![pg][slot] = op.value]
        /\ written' = written \cup {w0}
        /\ op' = Idle /\ UNCHANGED <<free, live, tables, nextSeq>>
    BY DEF EndWrite
  <1>3. pg \in Pages /\ slot \in PagedSlots /\ op.value \in Values /\ w0 \in Seqs \X Places
    BY <1>1, WriteTarget DEF Places
  <1>4. PagedTypeOK'
    <2>1. content' \in [Pages -> [PagedSlots -> Values \cup {Zeros}]]
      <3> HIDE DEF pg, slot
      <3> QED BY <1>2, <1>3 DEF PagedInv, PagedTypeOK
    <2> QED
      BY <1>2, <1>3, <2>1 DEF PagedInv, PagedTypeOK
  <1>5. PagesDisjoint'
    BY <1>2 DEF PagedInv, PagesDisjoint
  <1>6. WrittenMapped'
    BY <1>1, <1>2, WriteTarget DEF PagedInv, WrittenMapped, Mapped
  <1>7. OwnersKnown'
    BY <1>1, <1>2 DEF PagedInv, OwnersKnown, Idle
  <1> QED
    BY <1>4, <1>5, <1>6, <1>7 DEF PagedInv

\* The other steps move no page.
LEMMA OtherInv ==
    ASSUME PagedInv,
           \/ CreateSequence
           \/ \E s \in Seqs : \E n \in 0 .. MaxPos : StartEnsure(s, n)
           \/ \E s \in Seqs : \E l \in PagedLayers, pos \in PagedPositions, v \in Values :
                 StartWrite(s, l, pos, v)
           \/ \E s \in Seqs : StartDrop(s)
           \/ OutOfMemory
           \/ EndEnsure
           \/ EndDrop
    PROVE  PagedInv'
  <1>1. ASSUME CreateSequence PROVE PagedInv'
    <2>1. PagedTypeOK'
      BY <1>1 DEF PagedInv, PagedTypeOK, CreateSequence, Seqs
    <2>2. OwnersKnown'
      BY <1>1 DEF PagedInv, PagedTypeOK, OwnersKnown, CreateSequence, Idle, Seqs
    <2> QED
      BY <1>1, <2>1, <2>2
      DEF PagedInv, PagesDisjoint, WrittenMapped, Mapped, CreateSequence
  <1>2. ASSUME NEW s \in Seqs, NEW n \in 0 .. MaxPos, StartEnsure(s, n) PROVE PagedInv'
    <2>1. op' \in Ensures /\ op'.kind = "ensure" /\ op'.seq = s
      BY <1>2 DEF StartEnsure, Ensures
    <2> QED
      BY <1>2, <2>1
      DEF PagedInv, PagedTypeOK, OwnersKnown, PagesDisjoint, WrittenMapped, Mapped, StartEnsure, Idle
  <1>3. ASSUME NEW s \in Seqs, NEW l \in PagedLayers, NEW pos \in PagedPositions, NEW v \in Values,
               StartWrite(s, l, pos, v)
        PROVE PagedInv'
    <2>1. op' \in Writes /\ op'.kind = "write" /\ op'.seq = s
      BY <1>3 DEF StartWrite, Writes, PagedPositions
    <2> QED
      BY <1>3, <2>1
      DEF PagedInv, PagedTypeOK, OwnersKnown, PagesDisjoint, WrittenMapped, Mapped, StartWrite, Idle
  <1>4. ASSUME NEW s \in Seqs, StartDrop(s) PROVE PagedInv'
    <2>1. op' \in Drops /\ op'.kind = "drop" /\ op'.seq = s /\ op = Idle
      BY <1>4 DEF StartDrop, Drops
    <2>2. PagedTypeOK'
      BY <1>4, <2>1 DEF PagedInv, PagedTypeOK, StartDrop
    <2>3. OwnersKnown'
      BY <1>4, <2>1 DEF PagedInv, OwnersKnown, StartDrop, Idle
    <2>4. WrittenMapped'
      BY <1>4 DEF PagedInv, WrittenMapped, Mapped, StartDrop
    <2> QED
      BY <1>4, <2>2, <2>3, <2>4 DEF PagedInv, PagesDisjoint, StartDrop
  <1>5. ASSUME OutOfMemory \/ EndEnsure \/ EndDrop PROVE PagedInv'
    <2>1. /\ op' = Idle /\ op'.kind = "idle"
          /\ UNCHANGED <<free, content, live, tables, nextSeq, written>>
      BY <1>5 DEF OutOfMemory, EndEnsure, EndDrop, Idle
    <2>2. OwnersKnown'
      BY <1>5, <2>1
      DEF PagedInv, PagedTypeOK, OwnersKnown, OutOfMemory, EndEnsure, EndDrop, Growing
    <2> QED
      BY <2>1, <2>2 DEF PagedInv, PagedTypeOK, PagesDisjoint, WrittenMapped, Mapped
  <1> QED
    BY <1>1, <1>2, <1>3, <1>4, <1>5

\* Every step of the paged cache keeps the invariant.
LEMMA PagedInductive == PagedInv /\ [PagedNext]_pagedVars => PagedInv'
  <1> SUFFICES ASSUME PagedInv, [PagedNext]_pagedVars PROVE PagedInv'
    OBVIOUS
  <1>1. CASE UNCHANGED pagedVars \/ \E s \in Seqs : NotFound(s)
    BY <1>1 DEF pagedVars, NotFound, PagedInv, PagedTypeOK, PagesDisjoint, WrittenMapped, Mapped, OwnersKnown
  <1>2. ASSUME NEW l \in PagedLayers, AllocatePage(l) PROVE PagedInv'
    BY <1>2, AllocateInv
  <1>3. ASSUME NEW l \in PagedLayers, FreePage(l) PROVE PagedInv'
    BY <1>3, FreePageInv
  <1>4. CASE EndWrite
    BY <1>4, EndWriteInv
  <1> QED
    BY <1>1, <1>2, <1>3, <1>4, OtherInv DEF PagedNext

\* Type correctness, disjoint pages, and tables that cover what was written.
THEOREM PagedInvariant == PagedSpec => []PagedInv
  BY PagedInitially, PagedInductive, PTL DEF PagedSpec

\* No page has two owners, for every pool, page size and number of layers.
THEOREM DisjointPages == PagedSpec => []PagesDisjoint
  <1>1. PagedInv => PagesDisjoint
    BY DEF PagedInv
  <1> QED
    BY <1>1, PagedInvariant, PTL

\* A step that moves neither the slots nor the pages of what was written, and
\* writes nothing, leaves the memory as it is.
LEMMA SameMemory ==
    ASSUME UNCHANGED written,
           \A w \in written :
              content'[tables'[w[1]][w[2][1]][(w[2][2] \div BlockSize) + 1]][w[2][2] % BlockSize]
            = content[tables[w[1]][w[2][1]][(w[2][2] \div BlockSize) + 1]][w[2][2] % BlockSize]
    PROVE  UNCHANGED Stored
  BY DEF Stored, Read, PageOf

LEMMA AllocateKeepsMemory ==
    ASSUME PagedInv, NEW l \in PagedLayers, AllocatePage(l)
    PROVE  UNCHANGED Stored
  <1> DEFINE s == op.seq
  <1>1. s \in Seqs
    BY OpKinds DEF PagedInv, AllocatePage, Growing
  <1>2. /\ tables \in [Seqs -> [PagedLayers -> Seq(Pages)]]
        /\ free \in Seq(Pages) /\ free # <<>> /\ Last(free) \in Pages
        /\ tables' = [tables EXCEPT ![s][l] = Append(tables[s][l], Last(free))]
        /\ UNCHANGED <<content, written>>
    BY DEF PagedInv, PagedTypeOK, AllocatePage, Last
  <1>3. ASSUME NEW t \in Seqs, NEW m \in PagedLayers, NEW i \in 1 .. Len(tables[t][m])
        PROVE  tables'[t][m][i] = tables[t][m][i]
    <2> HIDE DEF s
    <2>1. CASE t = s /\ m = l
      BY <2>1, <1>1, <1>2
    <2>2. CASE t # s \/ m # l
      BY <2>2, <1>1, <1>2
    <2> QED
      BY <2>1, <2>2
  <1>4. ASSUME NEW w \in written
        PROVE  /\ w[1] \in Seqs /\ w[2][1] \in PagedLayers
               /\ (w[2][2] \div BlockSize) + 1 \in 1 .. Len(tables[w[1]][w[2][1]])
    <2>1. w[1] \in Seqs /\ w[2][1] \in PagedLayers /\ w[2][2] \in Nat
      BY DEF PagedInv, PagedTypeOK, Places, PagedPositions
    <2>2. w[2][2] \div BlockSize + 1 <= Len(tables[w[1]][w[2][1]])
      BY DEF PagedInv, WrittenMapped, Mapped
    <2>3. Len(tables[w[1]][w[2][1]]) \in Nat
      BY <1>2, <2>1
    <2>4. w[2][2] \div BlockSize \in Nat
      BY <2>1, SlotType
    <2> QED
      BY <2>1, <2>2, <2>3, <2>4
  <1>5. ASSUME NEW w \in written
        PROVE  content'[tables'[w[1]][w[2][1]][(w[2][2] \div BlockSize) + 1]][w[2][2] % BlockSize]
             = content[tables[w[1]][w[2][1]][(w[2][2] \div BlockSize) + 1]][w[2][2] % BlockSize]
    <2> DEFINE i == (w[2][2] \div BlockSize) + 1
    <2>1. tables'[w[1]][w[2][1]][i] = tables[w[1]][w[2][1]][i]
      BY <1>3, <1>4
    <2> QED
      BY <1>2, <2>1
  <1> QED
    BY <1>2, <1>5, SameMemory

LEMMA FreePageKeepsMemory ==
    ASSUME PagedInv, NEW l \in PagedLayers, FreePage(l)
    PROVE  UNCHANGED Stored
  <1>1. op.seq \in Seqs /\ op.seq \notin live
    BY OpKinds DEF PagedInv, FreePage, OwnersKnown
  <1>2. \A w \in written : w[1] # op.seq /\ w[1] \in Seqs
    BY <1>1 DEF PagedInv, PagedTypeOK, WrittenMapped
  <1>3. \A t \in Seqs : t # op.seq => tables'[t] = tables[t]
    BY DEF PagedInv, PagedTypeOK, FreePage
  <1>4. UNCHANGED <<content, written>>
    BY DEF FreePage
  <1>5. ASSUME NEW w \in written
        PROVE  content'[tables'[w[1]][w[2][1]][(w[2][2] \div BlockSize) + 1]][w[2][2] % BlockSize]
             = content[tables[w[1]][w[2][1]][(w[2][2] \div BlockSize) + 1]][w[2][2] % BlockSize]
    <2>1. tables'[w[1]] = tables[w[1]]
      BY <1>2, <1>3
    <2> QED
      BY <1>4, <2>1
  <1> QED
    BY <1>4, <1>5, SameMemory

\* A write changes its own entry: every other one is in another page, or in
\* another slot of the same page.
LEMMA EndWritePuts ==
    ASSUME PagedInv, EndWrite
    PROVE  Memory!Put(op.seq, <<op.layer, op.need - 1>>, op.value)
  <1> DEFINE pos == op.need - 1
             idx == (pos \div BlockSize) + 1
             pg == PageOf(op.seq, op.layer, pos)
             slot == pos % BlockSize
             w0 == <<op.seq, <<op.layer, pos>>>>
  <1>1. op.kind = "write" /\ Enough
    BY DEF EndWrite
  <1>2. content' = [content EXCEPT ![pg][slot] = op.value]
        /\ written' = written \cup {w0} /\ tables' = tables
    BY DEF EndWrite
  <1>3. /\ op.seq \in Seqs /\ op.layer \in PagedLayers /\ pos \in Nat
        /\ pg \in Pages /\ slot \in PagedSlots
        /\ idx \in DOMAIN tables[op.seq][op.layer]
        /\ pg = tables[op.seq][op.layer][idx]
    <2>1. /\ op.seq \in Seqs /\ op.layer \in PagedLayers /\ pos \in PagedPositions
          /\ pg \in Pages /\ slot \in PagedSlots /\ Mapped(op.seq, op.layer, pos)
      BY <1>1, WriteTarget
    <2>2. pos \in Nat /\ pos \div BlockSize \in Nat
      BY <2>1, SlotType DEF PagedPositions
    <2>3. tables[op.seq][op.layer] \in Seq(Pages)
      BY <2>1 DEF PagedInv, PagedTypeOK
    <2>4. idx \in DOMAIN tables[op.seq][op.layer]
      BY <2>1, <2>2, <2>3 DEF Mapped
    <2> QED
      BY <2>1, <2>2, <2>4 DEF PageOf
  <1>4. content \in [Pages -> [PagedSlots -> Values \cup {Zeros}]]
    BY DEF PagedInv, PagedTypeOK
  <1>5. content'[pg][slot] = op.value
    <2> HIDE DEF pg, slot
    <2>1. content'[pg] = [content[pg] EXCEPT ![slot] = op.value]
      BY <1>2, <1>3, <1>4
    <2>2. slot \in DOMAIN content[pg]
      BY <1>3, <1>4
    <2> QED
      BY <2>1, <2>2
  <1>6. ASSUME NEW w \in written, w # w0
        PROVE  content'[PageOf(w[1], w[2][1], w[2][2])][w[2][2] % BlockSize]
             = content[PageOf(w[1], w[2][1], w[2][2])][w[2][2] % BlockSize]
    <2> DEFINE n == w[2][2]
               i == (n \div BlockSize) + 1
               q == PageOf(w[1], w[2][1], n)
    <2>1. /\ w[1] \in Seqs /\ w[2][1] \in PagedLayers /\ n \in Nat
          /\ w = <<w[1], <<w[2][1], n>>>>
      BY DEF PagedInv, PagedTypeOK, Places, PagedPositions
    <2>2. n \div BlockSize \in Nat /\ n % BlockSize \in PagedSlots
      BY <2>1, SlotType
    <2>3. /\ tables[w[1]][w[2][1]] \in Seq(Pages)
          /\ i <= Len(tables[w[1]][w[2][1]])
      BY <2>1 DEF PagedInv, PagedTypeOK, WrittenMapped, Mapped
    <2>4. /\ i \in DOMAIN tables[w[1]][w[2][1]]
          /\ q = tables[w[1]][w[2][1]][i]
          /\ q \in Pages
      BY <2>2, <2>3 DEF PageOf
    <2>5. q # pg \/ n % BlockSize # slot
      <3>1. SUFFICES ASSUME q = pg, n % BlockSize = slot PROVE FALSE
        OBVIOUS
      <3>2. w[1] = op.seq /\ w[2][1] = op.layer /\ i = idx
        BY <3>1, <1>3, <2>1, <2>4 DEF PagedInv, PagesDisjoint
      <3>3. n \div BlockSize = pos \div BlockSize
        BY <3>2, <2>2, <1>3, SlotType
      <3>4. n = pos
        BY <3>1, <3>3, <2>1, <1>3, SlotUnique
      <3> QED
        BY <3>2, <3>4, <2>1, <1>6
    <2> HIDE DEF pg, slot, q
    <2>6. content'[q][n % BlockSize] = content[q][n % BlockSize]
      <3>1. CASE q # pg
        BY <1>2, <1>4, <2>4, <3>1
      <3>2. CASE q = pg /\ n % BlockSize # slot
        <4>1. content'[pg] = [content[pg] EXCEPT ![slot] = op.value]
          BY <1>2, <1>3, <1>4
        <4>2. n % BlockSize \in DOMAIN content[pg]
          BY <1>3, <1>4, <2>2
        <4> QED
          BY <3>2, <4>1, <4>2
      <3> QED
        BY <2>5, <3>1, <3>2
    <2> QED
      BY <2>6 DEF q
  <1>7. DOMAIN Stored = written
    BY DEF Stored
  <1>8. Stored' = [w \in written' |->
                     content'[PageOf(w[1], w[2][1], w[2][2])][w[2][2] % BlockSize]]
    <2> HIDE DEF pg, slot, w0
    <2>1. \A w : Read(w[1], w[2][1], w[2][2])'
               = content'[PageOf(w[1], w[2][1], w[2][2])][w[2][2] % BlockSize]
      BY <1>2 DEF Read, PageOf
    <2> QED
      BY <2>1 DEF Stored
  <1>9. Stored' = [k \in written \cup {w0} |-> IF k = w0 THEN op.value ELSE Stored[k]]
    <2>1. \A w \in written : w # w0 =>
             Stored[w] = content[PageOf(w[1], w[2][1], w[2][2])][w[2][2] % BlockSize]
      BY DEF Stored, Read
    <2>2. content'[PageOf(w0[1], w0[2][1], w0[2][2])][w0[2][2] % BlockSize] = op.value
      BY <1>5
    <2> HIDE DEF w0
    <2> QED
      BY <1>2, <1>6, <1>8, <2>1, <2>2
  <1> QED
    BY <1>7, <1>9 DEF Memory!Put

LEMMA MemoryStep == PagedInv /\ [PagedNext]_pagedVars => [Memory!StoreNext]_Stored
  <1> SUFFICES ASSUME PagedInv, [PagedNext]_pagedVars PROVE [Memory!StoreNext]_Stored
    OBVIOUS
  <1>1. ASSUME UNCHANGED <<content, tables, written>> PROVE UNCHANGED Stored
    BY <1>1 DEF Stored, Read, PageOf
  <1>2. CASE UNCHANGED pagedVars \/ CreateSequence \/ OutOfMemory \/ EndEnsure \/ EndDrop
             \/ \E s \in Seqs : NotFound(s)
    BY <1>1, <1>2 DEF pagedVars, CreateSequence, OutOfMemory, EndEnsure, EndDrop, NotFound
  <1>3. CASE \E s \in Seqs :
               \/ \E n \in 0 .. MaxPos : StartEnsure(s, n)
               \/ \E l \in PagedLayers, pos \in PagedPositions, v \in Values : StartWrite(s, l, pos, v)
    BY <1>1, <1>3 DEF StartEnsure, StartWrite
  <1>4. ASSUME NEW s \in Seqs, StartDrop(s) PROVE Memory!DropOwner(s)
    BY <1>4 DEF StartDrop, Stored, Read, PageOf, Memory!DropOwner
  <1>5. CASE EndWrite
    <2>1. op.seq \in Seqs /\ <<op.layer, op.need - 1>> \in Places /\ op.value \in Values
      BY <1>5, WriteTarget DEF EndWrite, Places
    <2> QED
      BY <1>5, <2>1, EndWritePuts DEF Memory!StoreNext
  <1>6. ASSUME NEW l \in PagedLayers, AllocatePage(l) \/ FreePage(l) PROVE UNCHANGED Stored
    BY <1>6, AllocateKeepsMemory, FreePageKeepsMemory
  <1>7. (\E s \in Seqs : Memory!DropOwner(s)) => Memory!StoreNext
    BY DEF Memory!StoreNext
  <1> QED
    BY <1>2, <1>3, <1>4, <1>5, <1>6, <1>7 DEF PagedNext

\* The paged cache implements a private memory per sequence.
THEOREM PagedIsPrivateMemory == PagedSpec => IsPrivateMemory
  <1>1. PagedInit => Memory!StoreInit
    BY DEF PagedInit, Stored, Memory!StoreInit
  <1> QED
    BY <1>1, MemoryStep, PagedInvariant, PTL DEF PagedSpec, IsPrivateMemory, Memory!Spec

\* Where a page is: on the free list, or in the table of a sequence.
Accounted(p) ==
    \/ \E i \in DOMAIN free : free[i] = p
    \/ \E s \in Seqs : \E l \in PagedLayers : \E i \in DOMAIN tables[s][l] : tables[s][l][i] = p

\* ensure_capacity: the page that leaves the free list is in a table.
LEMMA AllocateAccounts ==
    ASSUME PagedInv, NEW l \in PagedLayers, AllocatePage(l), NEW q \in Pages, Accounted(q)
    PROVE  Accounted(q)'
  <1> DEFINE s == op.seq
             p == Last(free)
             n == Len(tables[s][l])
  <1>1. s \in Seqs
    BY OpKinds DEF PagedInv, AllocatePage, Growing
  <1>2. free \in Seq(Pages) /\ free # <<>>
    BY DEF PagedInv, PagedTypeOK, AllocatePage
  <1>3. /\ Len(free) \in Nat /\ DOMAIN free = 1 .. Len(free) /\ p = free[Len(free)] /\ p \in Pages
        /\ DOMAIN free' = 1 .. Len(free) - 1
        /\ \A i \in 1 .. Len(free) - 1 : free'[i] = free[i]
    BY <1>2 DEF AllocatePage, Front, Last
  <1>4. tables \in [Seqs -> [PagedLayers -> Seq(Pages)]]
    BY DEF PagedInv, PagedTypeOK
  <1>5. tables' = [tables EXCEPT ![s][l] = Append(tables[s][l], p)]
    BY DEF AllocatePage
  <1>6. tables[s][l] \in Seq(Pages) /\ n \in Nat /\ tables'[s][l] = Append(tables[s][l], p)
    BY <1>1, <1>4, <1>5
  <1>7. \A t \in Seqs, m \in PagedLayers : (t # s \/ m # l) => tables'[t][m] = tables[t][m]
    BY <1>1, <1>4, <1>5
  <1>8. /\ n + 1 \in DOMAIN tables'[s][l] /\ tables'[s][l][n + 1] = p
        /\ \A i \in DOMAIN tables[s][l] : i \in DOMAIN tables'[s][l] /\ tables'[s][l][i] = tables[s][l][i]
    BY <1>3, <1>6
  <1> HIDE DEF s, p, n
  <1>9. CASE \E i \in DOMAIN free : free[i] = q
    <2>1. PICK i \in DOMAIN free : free[i] = q
      BY <1>9
    <2>2. CASE i = Len(free)
      BY <2>1, <2>2, <1>1, <1>3, <1>8 DEF Accounted
    <2>3. CASE i # Len(free)
      <3>1. i \in DOMAIN free' /\ free'[i] = q
        BY <2>1, <2>3, <1>3
      <3> QED  BY <3>1 DEF Accounted
    <2> QED  BY <2>2, <2>3
  <1>10. CASE \E t \in Seqs : \E m \in PagedLayers : \E i \in DOMAIN tables[t][m] : tables[t][m][i] = q
    <2>1. PICK t \in Seqs, m \in PagedLayers : \E i \in DOMAIN tables[t][m] : tables[t][m][i] = q
      BY <1>10
    <2>2. \E i \in DOMAIN tables'[t][m] : tables'[t][m][i] = q
      BY <2>1, <1>7, <1>8
    <2> QED  BY <2>2 DEF Accounted
  <1> QED  BY <1>9, <1>10 DEF Accounted

\* drop_sequence: the page that leaves the table is on the free list.
LEMMA FreeAccounts ==
    ASSUME PagedInv, NEW l \in PagedLayers, FreePage(l), NEW q \in Pages, Accounted(q)
    PROVE  Accounted(q)'
  <1> DEFINE s == op.seq
             p == Head(tables[s][l])
             n == Len(tables[s][l])
  <1>1. s \in Seqs
    BY OpKinds DEF PagedInv, FreePage
  <1>2. tables \in [Seqs -> [PagedLayers -> Seq(Pages)]] /\ free \in Seq(Pages)
    BY DEF PagedInv, PagedTypeOK
  <1>3. tables[s][l] \in Seq(Pages) /\ tables[s][l] # <<>>
    BY <1>1, <1>2 DEF FreePage
  <1>4. /\ n \in Nat /\ n > 0 /\ DOMAIN tables[s][l] = 1 .. n
        /\ p = tables[s][l][1] /\ p \in Pages
        /\ DOMAIN Tail(tables[s][l]) = 1 .. n - 1
        /\ \A i \in 1 .. n - 1 : Tail(tables[s][l])[i] = tables[s][l][i + 1]
    BY <1>3
  <1>5. tables' = [tables EXCEPT ![s][l] = Tail(tables[s][l])] /\ free' = Append(free, p)
    BY DEF FreePage
  <1>6. /\ tables'[s][l] = Tail(tables[s][l])
        /\ \A t \in Seqs, m \in PagedLayers : (t # s \/ m # l) => tables'[t][m] = tables[t][m]
    BY <1>1, <1>2, <1>5
  <1>7. /\ Len(free) + 1 \in DOMAIN free' /\ free'[Len(free) + 1] = p
        /\ \A i \in DOMAIN free : i \in DOMAIN free' /\ free'[i] = free[i]
    BY <1>2, <1>4, <1>5
  <1> HIDE DEF s, p, n
  <1>8. CASE \E i \in DOMAIN free : free[i] = q
    BY <1>7, <1>8 DEF Accounted
  <1>9. CASE \E t \in Seqs : \E m \in PagedLayers : \E i \in DOMAIN tables[t][m] : tables[t][m][i] = q
    <2>1. PICK t \in Seqs, m \in PagedLayers : \E i \in DOMAIN tables[t][m] : tables[t][m][i] = q
      BY <1>9
    <2>2. PICK i \in DOMAIN tables[t][m] : tables[t][m][i] = q
      BY <2>1
    <2>3. CASE t = s /\ m = l /\ i = 1
      <3>1. q = p
        BY <2>2, <2>3, <1>4
      <3> QED  BY <3>1, <1>7 DEF Accounted
    <2>4. CASE t = s /\ m = l /\ i # 1
      <3>1. i - 1 \in 1 .. n - 1 /\ (i - 1) + 1 = i
        BY <2>2, <2>4, <1>4
      <3>2. i - 1 \in DOMAIN tables'[s][l] /\ tables'[s][l][i - 1] = q
        BY <3>1, <2>2, <2>4, <1>4, <1>6
      <3> QED  BY <3>2, <1>1 DEF Accounted
    <2>5. CASE t # s \/ m # l
      <3>1. \E j \in DOMAIN tables'[t][m] : tables'[t][m][j] = q
        BY <2>2, <2>5, <1>6
      <3> QED  BY <3>1 DEF Accounted
    <2> QED  BY <2>3, <2>4, <2>5
  <1> QED  BY <1>8, <1>9 DEF Accounted

\* No page is lost, also by calls that run out of memory on the way: for every
\* pool, each page is free or owned, and dropped sequences own nothing.
THEOREM NoPageIsLost == PagedSpec => []PagesConserved
  <1> DEFINE AllAccounted == \A p \in Pages : Accounted(p)
  <1>1. PagedInit => AllAccounted
    BY DEF PagedInit, Accounted, Pages
  <1>2. PagedInv /\ AllAccounted /\ [PagedNext]_pagedVars => AllAccounted'
    <2> SUFFICES ASSUME PagedInv, AllAccounted, [PagedNext]_pagedVars, NEW q \in Pages
                 PROVE  Accounted(q)'
      BY DEF Pages
    <2>1. Accounted(q)
      OBVIOUS
    <2>2. ASSUME UNCHANGED <<free, tables>> PROVE Accounted(q)'
      BY <2>1, <2>2 DEF Accounted
    <2>3. ASSUME NEW l \in PagedLayers, AllocatePage(l) PROVE Accounted(q)'
      BY <2>1, <2>3, AllocateAccounts
    <2>4. ASSUME NEW l \in PagedLayers, FreePage(l) PROVE Accounted(q)'
      BY <2>1, <2>4, FreeAccounts
    <2>5. CASE UNCHANGED pagedVars \/ CreateSequence \/ OutOfMemory \/ EndEnsure \/ EndWrite \/ EndDrop
      BY <2>2, <2>5 DEF pagedVars, CreateSequence, OutOfMemory, EndEnsure, EndWrite, EndDrop
    <2>6. CASE \E s \in Seqs :
                 \/ NotFound(s)
                 \/ \E n \in 0 .. MaxPos : StartEnsure(s, n)
                 \/ \E l \in PagedLayers, pos \in PagedPositions, v \in Values : StartWrite(s, l, pos, v)
                 \/ StartDrop(s)
      BY <2>2, <2>6 DEF pagedVars, NotFound, StartEnsure, StartWrite, StartDrop
    <2> QED  BY <2>3, <2>4, <2>5, <2>6 DEF PagedNext
  <1>3. PagedInv /\ AllAccounted => PagesConserved
    BY DEF PagedInv, OwnersKnown, PagesConserved, Accounted, Idle
  <1> HIDE DEF AllAccounted
  <1> QED
    BY <1>1, <1>2, <1>3, PagedInvariant, PTL DEF PagedSpec
=============================================================================
