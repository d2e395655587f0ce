---------------------------- MODULE GpuLayerProofs ----------------------------
(***************************************************************************)
(* Theorems about the kernel sequences of GpuLayer, for every number of    *)
(* layers, KV slots, batch columns and calls and for all token sequences:  *)
(* what the launches of a forward call compute is what the CPU's blocks    *)
(* compute over the whole prefix.                                          *)
(*                                                                         *)
(* From the small to the large: what one launch sets (Sets, StoreIs), what *)
(* attention and a block of one token leave (AttentionRuns, LayerOfToken), *)
(* the same launch for every column (ColsRun), a layer of a batch          *)
(* (BatchStep), all layers (LayersRun), a call (CallRight), the process.   *)
(***************************************************************************)
EXTENDS GpuLayer, SequenceTheorems, WellFoundedInduction, TLAPS

\* A non-empty set of numbers has a least element.
LEMMA LeastElement ==
    ASSUME NEW S \in SUBSET Nat, S # {}
    PROVE  \E m \in S : \A n \in S : m <= n
  <1> DEFINE R == OpToRel(<, Nat)
  <1>1. IsWellFoundedOn(R, Nat)
    BY NatLessThanWellFounded
  <1>2. \A m, n \in Nat : n < m => <<n, m>> \in R
    BY DEF OpToRel
  <1> HIDE DEF R
  <1>3. PICK m \in S : \A n \in S : ~ (<<n, m>> \in R)
    BY <1>1, WFMin
  <1>4. ASSUME NEW n \in S PROVE m <= n
    <2>1. ~ (n < m)
      BY <1>2, <1>3
    <2> QED  BY <2>1
  <1> QED  BY <1>4

-----------------------------------------------------------------------------
(* The launches of the language model's layers.                              *)

\* Launches one after the other, and the device before and after each.
Prog(s) == \E S : s \in Seq(S)
Chain(d, s, n, st) == st = [i \in 0 .. n |-> IF i = 0 THEN d ELSE Apply(s[i], st[i - 1])]
RunOn(d, s) == (CHOOSE st : Chain(d, s, Len(s), st))[Len(s)]

\* Run of the model is RunOn of the device as it is.
LEMMA RunIsRunOn ==
  ASSUME NEW s
  PROVE  Run(s) = RunOn([mem |-> mem, cache |-> cache], s)
BY DEF Run, RunOn, Chain

\* There is such a chain for any number of launches, and only one.
LEMMA ChainExists ==
  ASSUME NEW d, NEW s, NEW n \in Nat
  PROVE  \E st : Chain(d, s, n, st)
<1> DEFINE Undefined == {m \in Nat : ~ \E st : Chain(d, s, m, st)}
<1>1. SUFFICES ASSUME Undefined # {} PROVE FALSE
  OBVIOUS
<1>2. PICK m \in Undefined : \A k \in Undefined : m <= k
  <2>1. Undefined \in SUBSET Nat
    OBVIOUS
  <2> QED  BY <1>1, <2>1, LeastElement
<1>3. CASE m = 0
  <2>1. PICK st : st = [i \in 0 .. 0 |-> d]
    OBVIOUS
  <2>2. Chain(d, s, 0, st)
    BY <2>1 DEF Chain
  <2> QED  BY <1>3, <2>2
<1>4. CASE m # 0
  <2>0. m \in Nat /\ m - 1 \in Nat /\ ~ (m <= m - 1)
    BY <1>4
  <2>1. m - 1 \notin Undefined
    BY <1>2, <2>0
  <2>2. PICK st : Chain(d, s, m - 1, st)
    BY <2>0, <2>1
  <2>3. PICK new : new = [i \in 0 .. m |-> IF i = m THEN Apply(s[m], st[m - 1]) ELSE st[i]]
    OBVIOUS
  <2>4. ASSUME NEW i \in 0 .. m PROVE new[i] = IF i = 0 THEN d ELSE Apply(s[i], new[i - 1])
    <3>1. CASE i = m
      <4>1. new[m - 1] = st[m - 1] /\ new[i] = Apply(s[m], st[m - 1])
        BY <2>0, <2>3, <3>1
      <4> QED  BY <1>4, <3>1, <4>1
    <3>2. CASE i # m
      <4>1. i \in 0 .. m - 1 /\ new[i] = st[i]
        BY <2>0, <2>3, <3>2
      <4>2. st[i] = IF i = 0 THEN d ELSE Apply(s[i], st[i - 1])
        BY <2>2, <4>1 DEF Chain
      <4>3. i # 0 => new[i - 1] = st[i - 1]
        BY <2>0, <2>3, <4>1
      <4> QED  BY <4>1, <4>2, <4>3
    <3> QED  BY <3>1, <3>2
  <2>5. Chain(d, s, m, new)
    BY <2>3, <2>4 DEF Chain
  <2> QED  BY <2>0, <2>5
<1> QED  BY <1>3, <1>4

\* And it is the only one.
LEMMA ChainIsOne ==
  ASSUME NEW d, NEW s, NEW n \in Nat, NEW st, NEW tt, Chain(d, s, n, st), Chain(d, s, n, tt)
  PROVE  st = tt
<1> DEFINE Apart == {i \in 0 .. n : st[i] # tt[i]}
<1>1. Apart = {}
  <2> SUFFICES ASSUME Apart # {} PROVE FALSE
    OBVIOUS
  <2>1. PICK m \in Apart : \A k \in Apart : m <= k
    <3>1. Apart \in SUBSET Nat
      OBVIOUS
    <3> QED  BY <3>1, LeastElement
  <2>2. st[m] = (IF m = 0 THEN d ELSE Apply(s[m], st[m - 1]))
        /\ tt[m] = (IF m = 0 THEN d ELSE Apply(s[m], tt[m - 1]))
    BY DEF Chain
  <2>3. m # 0 /\ m - 1 \in 0 .. n /\ ~ (m <= m - 1)
    BY <2>2
  <2>4. st[m - 1] = tt[m - 1]
    BY <2>1, <2>3
  <2> QED  BY <2>2, <2>4
<1>2. /\ st = [i \in 0 .. n |-> st[i]]
      /\ tt = [i \in 0 .. n |-> tt[i]]
  BY DEF Chain
<1> QED  BY <1>1, <1>2

\* The device after the launches is the last of the chain.
Between(d, s, n, st) ==
    st[0] = d /\ RunOn(d, s) = st[n] /\ \A i \in 1 .. n : st[i] = Apply(s[i], st[i - 1])

\* What a program leaves is reached launch by launch.
LEMMA RunIs ==
  ASSUME NEW d, NEW s, Prog(s)
  PROVE  \E st : Between(d, s, Len(s), st)
<1>1. Len(s) \in Nat
  BY DEF Prog
<1>2. PICK st : st = CHOOSE x : Chain(d, s, Len(s), x)
  OBVIOUS
<1>3. Chain(d, s, Len(s), st)
  BY <1>1, <1>2, ChainExists
<1>4. st[0] = d /\ \A i \in 1 .. Len(s) : st[i] = Apply(s[i], st[i - 1])
  BY <1>1, <1>3 DEF Chain
<1> QED  BY <1>2, <1>4 DEF RunOn, Between

\* And any that is one.
LEMMA RunIsLast ==
  ASSUME NEW d, NEW s, NEW n \in Nat, Len(s) = n, NEW st, Chain(d, s, n, st)
  PROVE  RunOn(d, s) = st[n]
<1>1. PICK tt : tt = CHOOSE x : Chain(d, s, Len(s), x)
  OBVIOUS
<1>2. Chain(d, s, n, tt)
  BY <1>1, ChainExists
<1> QED  BY <1>1, <1>2, ChainIsOne DEF RunOn

\* Two programs make one.
LEMMA ProgConcat ==
  ASSUME NEW s, NEW t, Prog(s), Prog(t)
  PROVE  /\ Prog(s \o t) /\ Len(s) \in Nat /\ Len(t) \in Nat /\ Len(s \o t) = Len(s) + Len(t)
         /\ \A i \in 1 .. Len(s) + Len(t) : (s \o t)[i] = IF i <= Len(s) THEN s[i] ELSE t[i - Len(s)]
<1>1. PICK S, T : s \in Seq(S) /\ t \in Seq(T)
  BY DEF Prog
<1>2. PICK U : U = S \cup T
  OBVIOUS
<1>3. s \in Seq(U) /\ t \in Seq(U)
  BY <1>1, <1>2, SeqMonotonic
<1> QED  BY <1>3, ConcatProperties DEF Prog

\* What comes after runs on what came before has left.
LEMMA RunConcat ==
  ASSUME NEW d, NEW s, NEW t, Prog(s), Prog(t)
  PROVE  RunOn(d, s \o t) = RunOn(RunOn(d, s), t)
<1>1. PICK m \in Nat, n \in Nat : m = Len(s) /\ n = Len(t) /\ Len(s \o t) = m + n
  BY ProgConcat
<1>2. PICK a : /\ a[0] = d /\ RunOn(d, s) = a[m]
               /\ \A i \in 1 .. m : a[i] = Apply(s[i], a[i - 1])
  BY <1>1, RunIs DEF Between
<1>3. PICK b : /\ b[0] = a[m] /\ RunOn(a[m], t) = b[n]
               /\ \A i \in 1 .. n : b[i] = Apply(t[i], b[i - 1])
  BY <1>1, RunIs DEF Between
<1>4. PICK st : st = [i \in 0 .. m + n |-> IF i <= m THEN a[i] ELSE b[i - m]]
  OBVIOUS
<1>5. ASSUME NEW i \in 0 .. m + n PROVE st[i] = IF i = 0 THEN d ELSE Apply((s \o t)[i], st[i - 1])
  <2>1. CASE i = 0
    BY <1>2, <1>4, <2>1
  <2>2. CASE i # 0 /\ i <= m
    <3>1. i \in 1 .. m /\ st[i] = a[i] /\ st[i - 1] = a[i - 1]
      BY <1>4, <2>2
    <3>2. (s \o t)[i] = s[i]
      BY <1>1, <2>2, ProgConcat
    <3> QED  BY <1>2, <2>2, <3>1, <3>2
  <2>3. CASE ~ (i <= m)
    <3>1. i - m \in 1 .. n /\ st[i] = b[i - m] /\ i # 0
      BY <1>4, <2>3
    <3>2. (s \o t)[i] = t[i - m]
      BY <1>1, <2>3, ProgConcat
    <3>3. st[i - 1] = b[(i - m) - 1]
      <4>1. CASE i - 1 <= m
        <5>1. i - 1 = m /\ (i - m) - 1 = 0
          BY <2>3, <4>1
        <5> QED  BY <1>3, <1>4, <5>1
      <4>2. CASE ~ (i - 1 <= m)
        <5>1. i - 1 \in 0 .. m + n /\ (i - 1) - m = (i - m) - 1
          BY <4>2
        <5> QED  BY <1>4, <4>2, <5>1
      <4> QED  BY <4>1, <4>2
    <3> QED  BY <1>3, <3>1, <3>2, <3>3
  <2> QED  BY <2>1, <2>2, <2>3
<1>6. Chain(d, s \o t, m + n, st)
  BY <1>4, <1>5 DEF Chain
<1>7. RunOn(d, s \o t) = st[m + n]
  <2>0. PICK u : u = s \o t
    OBVIOUS
  <2>1. PICK k \in Nat : u = s \o t /\ k = m + n
    BY <2>0
  <2>2. Len(u) = k /\ Chain(d, u, k, st)
    BY <1>1, <1>6, <2>1
  <2>3. RunOn(d, u) = st[k]
    BY <2>2, RunIsLast
  <2> QED  BY <2>1, <2>3
<1>8. st[m + n] = b[n]
  <2>1. CASE n = 0
    BY <1>3, <1>4, <2>1
  <2>2. CASE n # 0
    <3>1. ~ (m + n <= m) /\ m + n \in 0 .. m + n /\ (m + n) - m = n
      BY <2>2
    <3> QED  BY <1>4, <3>1
  <2> QED  BY <2>1, <2>2
<1> QED  BY <1>2, <1>3, <1>7, <1>8

\* FlattenSeq of programs, and the devices between them.
FlatRuns(d, seqs, n) ==
    /\ Prog(FlattenSeq(seqs))
    /\ \E st : /\ st[0] = d /\ RunOn(d, FlattenSeq(seqs)) = st[n]
               /\ \A i \in 1 .. n : st[i] = RunOn(st[i - 1], seqs[i])

\* Any number of programs, one after the other.
LEMMA RunFlat ==
  ASSUME NEW d, NEW n \in Nat \ {0}, NEW seqs, seqs = [i \in 1 .. n |-> seqs[i]],
         \A i \in 1 .. n : Prog(seqs[i])
  PROVE  FlatRuns(d, seqs, n)
<1> DEFINE Flat(f, k) == f = [i \in 1 .. k |-> IF i = 1 THEN seqs[i] ELSE f[i - 1] \o seqs[i]]
           States(st, k) == st = [i \in 0 .. k |-> IF i = 0 THEN d ELSE RunOn(st[i - 1], seqs[i])]
           Good(f, st, k) == /\ Flat(f, k) /\ States(st, k)
                             /\ \A i \in 1 .. k : Prog(f[i]) /\ RunOn(d, f[i]) = st[i]
           Undefined == {k \in Nat : k # 0 /\ k <= n /\ ~ \E f, st : Good(f, st, k)}
<1>1. Undefined = {}
  <2> SUFFICES ASSUME Undefined # {} PROVE FALSE
    OBVIOUS
  <2>1. PICK m \in Undefined : \A k \in Undefined : m <= k
    <3>1. Undefined \in SUBSET Nat
      OBVIOUS
    <3> HIDE DEF Undefined
    <3> QED  BY <3>1, LeastElement
  <2>2. CASE m = 1
    <3>1. PICK f : f = [i \in 1 .. 1 |-> seqs[i]]
      OBVIOUS
    <3>2. PICK st : st = [i \in 0 .. 1 |-> IF i = 0 THEN d ELSE RunOn(d, seqs[1])]
      OBVIOUS
    <3>3. Flat(f, 1)
      <4>1. \A i \in 1 .. 1 : i = 1
        OBVIOUS
      <4> QED  BY <3>1, <4>1
    <3>4. ASSUME NEW i \in 0 .. 1 PROVE st[i] = IF i = 0 THEN d ELSE RunOn(st[i - 1], seqs[i])
      <4>1. CASE i = 0
        BY <3>2, <4>1
      <4>2. CASE i = 1
        <5>1. st[i - 1] = d /\ st[i] = RunOn(d, seqs[1])
          BY <3>2, <4>2
        <5> QED  BY <4>2, <5>1
      <4> QED  BY <4>1, <4>2
    <3>5. States(st, 1)
      BY <3>2, <3>4
    <3>6. \A i \in 1 .. 1 : Prog(f[i]) /\ RunOn(d, f[i]) = st[i]
      <4>1. \A i \in 1 .. 1 : i = 1
        OBVIOUS
      <4>2. f[1] = seqs[1] /\ st[1] = RunOn(d, seqs[1]) /\ Prog(seqs[1])
        BY <3>1, <3>2
      <4> QED  BY <4>1, <4>2
    <3> QED  BY <2>2, <3>3, <3>5, <3>6, SMTT(30)
  <2>3. CASE m # 1
    <3>0. m \in 1 .. n /\ m - 1 \in Nat /\ m - 1 # 0 /\ m - 1 <= n /\ ~ (m <= m - 1)
      BY <2>3
    <3>1. PICK f, st : Good(f, st, m - 1)
      <4>1. m - 1 \notin Undefined
        BY <2>1, <3>0
      <4> QED  BY <3>0, <4>1
    <3>2. PICK g : g = [i \in 1 .. m |-> IF i = m THEN f[m - 1] \o seqs[m] ELSE f[i]]
      OBVIOUS
    <3>3. PICK tt : tt = [i \in 0 .. m |-> IF i = m THEN RunOn(st[m - 1], seqs[m]) ELSE st[i]]
      OBVIOUS
    <3>4. ASSUME NEW i \in 1 .. m PROVE g[i] = IF i = 1 THEN seqs[i] ELSE g[i - 1] \o seqs[i]
      <4>1. CASE i = m
        <5>1. g[m - 1] = f[m - 1] /\ g[m] = f[m - 1] \o seqs[m]
          BY <3>0, <3>2
        <5> QED  BY <2>3, <4>1, <5>1
      <4>2. CASE i # m
        <5>1. i \in 1 .. m - 1 /\ g[i] = f[i]
          BY <3>0, <3>2, <4>2
        <5>2. f[i] = IF i = 1 THEN seqs[i] ELSE f[i - 1] \o seqs[i]
          BY <3>1, <5>1
        <5>3. i # 1 => g[i - 1] = f[i - 1]
          BY <3>0, <3>2, <5>1
        <5> QED  BY <5>1, <5>2, <5>3
      <4> QED  BY <4>1, <4>2
    <3>5. ASSUME NEW i \in 0 .. m PROVE tt[i] = IF i = 0 THEN d ELSE RunOn(tt[i - 1], seqs[i])
      <4>1. CASE i = m
        <5>1. tt[m - 1] = st[m - 1] /\ tt[m] = RunOn(st[m - 1], seqs[m])
          BY <3>0, <3>3
        <5> QED  BY <3>0, <4>1, <5>1
      <4>2. CASE i # m
        <5>1. i \in 0 .. m - 1 /\ tt[i] = st[i]
          BY <3>0, <3>3, <4>2
        <5>2. st[i] = IF i = 0 THEN d ELSE RunOn(st[i - 1], seqs[i])
          BY <3>1, <5>1
        <5>3. i # 0 => tt[i - 1] = st[i - 1]
          BY <3>0, <3>3, <5>1
        <5> QED  BY <5>1, <5>2, <5>3
      <4> QED  BY <4>1, <4>2
    <3>6. ASSUME NEW i \in 1 .. m PROVE Prog(g[i]) /\ RunOn(d, g[i]) = tt[i]
      <4>1. CASE i = m
        <5>1. Prog(f[m - 1]) /\ RunOn(d, f[m - 1]) = st[m - 1] /\ Prog(seqs[m])
          <6>1. m - 1 \in 1 .. m - 1
            BY <3>0
          <6>2. Prog(f[m - 1]) /\ RunOn(d, f[m - 1]) = st[m - 1]
            BY <3>1, <6>1
          <6> QED  BY <3>0, <6>2
        <5>2. g[m] = f[m - 1] \o seqs[m] /\ tt[m] = RunOn(st[m - 1], seqs[m])
          BY <3>0, <3>2, <3>3
        <5>3. Prog(f[m - 1] \o seqs[m]) /\ RunOn(d, f[m - 1] \o seqs[m]) = RunOn(st[m - 1], seqs[m])
          BY <5>1, ProgConcat, RunConcat
        <5> QED  BY <4>1, <5>2, <5>3
      <4>2. CASE i # m
        <5>1. i \in 1 .. m - 1 /\ g[i] = f[i] /\ tt[i] = st[i]
          BY <3>0, <3>2, <3>3, <4>2
        <5> QED  BY <3>1, <5>1
      <4> QED  BY <4>1, <4>2
    <3>7. Flat(g, m) /\ States(tt, m)
      BY <3>2, <3>3, <3>4, <3>5
    <3>8. Good(g, tt, m)
      BY <3>6, <3>7
    <3> QED  BY <3>8
  <2> QED  BY <2>2, <2>3
<1>2. PICK f, st : Good(f, st, n)
  <2>1. n \notin Undefined
    BY <1>1
  <2> HIDE DEF Good
  <2> QED  BY <2>1
<1>3. Len(seqs) = n
  <2>1. PICK S : S = {seqs[i] : i \in 1 .. n}
    OBVIOUS
  <2> QED  OBVIOUS
<1>4. \A g : Flat(g, n) => g = f
  <2> SUFFICES ASSUME NEW g, Flat(g, n), g # f PROVE FALSE
    OBVIOUS
  <2> DEFINE Apart == {i \in 1 .. n : g[i] # f[i]}
  <2>1. Apart # {}
    <3>1. /\ g = [i \in 1 .. n |-> g[i]]
          /\ f = [i \in 1 .. n |-> f[i]]
      BY <1>2
    <3>2. CASE Apart = {}
      <4>1. \A i \in 1 .. n : g[i] = f[i]
        BY <3>2
      <4>2. [i \in 1 .. n |-> g[i]] = [i \in 1 .. n |-> f[i]]
        BY <4>1
      <4> HIDE DEF Good, Flat, States
      <4> QED  BY <3>1, <4>2, Zenon
    <3> QED  BY <3>2
  <2>2. PICK m \in Apart : \A k \in Apart : m <= k
    <3>1. Apart \in SUBSET Nat
      OBVIOUS
    <3> HIDE DEF Apart
    <3> QED  BY <2>1, <3>1, LeastElement
  <2>3. /\ g[m] = IF m = 1 THEN seqs[m] ELSE g[m - 1] \o seqs[m]
        /\ f[m] = IF m = 1 THEN seqs[m] ELSE f[m - 1] \o seqs[m]
    BY <1>2
  <2>4. m # 1 /\ m - 1 \in 1 .. n /\ ~ (m <= m - 1)
    BY <2>3
  <2>5. g[m - 1] = f[m - 1]
    BY <2>2, <2>4
  <2> QED  BY <2>3, <2>5
<1>5. FlattenSeq(seqs) = f[n]
  <2>1. PICK F : F = CHOOSE g : Flat(g, n)
    OBVIOUS
  <2>2. F = f
    <3>1. Flat(f, n)
      BY <1>2
    <3> HIDE DEF Flat
    <3> QED  BY <2>1, <1>4, <3>1
  <2>3. FlattenSeq(seqs) = (CHOOSE g : Flat(g, n))[n]
    BY <1>3 DEF FlattenSeq
  <2> QED  BY <2>1, <2>2, <2>3
<1>6. /\ Prog(f[n]) /\ RunOn(d, f[n]) = st[n] /\ st[0] = d
      /\ \A i \in 1 .. n : st[i] = RunOn(st[i - 1], seqs[i])
  <2>1. n \in 1 .. n /\ 0 \in 0 .. n
    OBVIOUS
  <2>2. Prog(f[n]) /\ RunOn(d, f[n]) = st[n]
    BY <1>2, <2>1
  <2>3. \A i \in 0 .. n : st[i] = IF i = 0 THEN d ELSE RunOn(st[i - 1], seqs[i])
    BY <1>2
  <2>4. st[0] = d
    BY <2>1, <2>3
  <2>5. ASSUME NEW i \in 1 .. n PROVE st[i] = RunOn(st[i - 1], seqs[i])
    <3>1. i \in 0 .. n /\ i # 0
      OBVIOUS
    <3> QED  BY <2>3, <3>1
  <2> QED  BY <2>2, <2>4, <2>5
<1> QED  BY <1>5, <1>6 DEF FlatRuns

-----------------------------------------------------------------------------
\* A device has all its cells, and a row for each layer and position.
Device(d) ==
    /\ d = [mem |-> d.mem, cache |-> d.cache]
    /\ d.mem = [c \in Cells |-> d.mem[c]]
    /\ d.cache = [l \in 1 .. Depth |-> [p \in 0 .. Slots - 1 |-> d.cache[l][p]]]

IsPut(d, e, y, v) ==
    /\ Device(e) /\ e.cache = d.cache /\ e.mem[y] = v
    /\ \A z \in Cells : z # y => e.mem[z] = d.mem[z]

\* Put sets one cell of a device and nothing else.
LEMMA PutIs ==
  ASSUME NEW d, Device(d), NEW y \in Cells, NEW v
  PROVE  IsPut(d, Put(d, y, v), y, v)
<1>1. PICK m, k : m = d.mem /\ k = d.cache /\ d = [mem |-> m, cache |-> k]
  BY DEF Device
<1>2. PICK n : n = [m EXCEPT ![y] = v]
  OBVIOUS
<1>3. Put(d, y, v) = [mem |-> n, cache |-> k]
  BY <1>1, <1>2 DEF Put
<1>4. m = [c \in Cells |-> m[c]]
  BY <1>1 DEF Device
<1>5. n = [c \in Cells |-> n[c]] /\ n[y] = v /\ \A z \in Cells : z # y => n[z] = m[z]
  BY <1>2, <1>4
<1>6. PICK e : e = Put(d, y, v)
  OBVIOUS
<1>7. e.mem = n /\ e.cache = k /\ e = [mem |-> e.mem, cache |-> e.cache]
  BY <1>3, <1>6
<1>8. k = [l \in 1 .. Depth |-> [p \in 0 .. Slots - 1 |-> k[l][p]]]
  BY <1>1 DEF Device
<1>9. Device(e)
  BY <1>5, <1>7, <1>8 DEF Device
<1> QED  BY <1>1, <1>5, <1>6, <1>7, <1>9 DEF IsPut

OneNames == {"hidden", "normed", "qkv", "q_rope", "k_rope", "scores", "attn_out",
             "gate_up", "swiglu", "rope", "pos", "logits"}
ColNames == {"hidden", "normed", "qkv", "q_norm", "k_norm", "q_rope", "k_rope",
             "scores", "attn_out", "gate_up", "swiglu", "rope", "logits"}

\* Which cells there are; those of different names or columns differ.
LEMMA CellNames ==
  /\ \A b \in OneNames : One(b) \in Cells
  /\ \A b \in ColNames, c \in 0 .. MaxBatch - 1 : Col(b, c) \in Cells
  /\ Host("hidden") \in Cells
  /\ \A a, b : One(a) = One(b) => a = b
  /\ \A a, b, c : One(a) # Col(b, c)
  /\ \A a, b, c, e : Col(a, c) = Col(b, e) => a = b /\ c = e
  /\ \A a, b, c : Host(a) # One(b) /\ Host(a) # Col(b, c)
<1>1. /\ \A b \in OneNames : One(b) \in Cells
      /\ \A b \in ColNames, c \in 0 .. MaxBatch - 1 : Col(b, c) \in Cells
      /\ Host("hidden") \in Cells
  BY DEF Cells, OneNames, ColNames
<1>2. \A a, b : One(a) = One(b) => a = b
  BY DEF One
<1>3. \A a, b, c : One(a) # Col(b, c)
  BY DEF One, Col
<1>4. \A a, b, c, e : Col(a, c) = Col(b, e) => a = b /\ c = e
  BY DEF Col
<1>5. \A a, b, c : Host(a) # One(b) /\ Host(a) # Col(b, c)
  BY DEF Host, One, Col
<1> QED  BY <1>1, <1>2, <1>3, <1>4, <1>5

\* One launch sets a row or a cell.
LEMMA ApplyIs ==
  ASSUME NEW d, NEW x
  PROVE  Apply(x, d) = IF x.op = "kv_store"
                       THEN StoreRow(d, x.w[2], Pos(x, d),
                                  [k |-> d.mem[x.src[1]], v |-> <<"v", x.w, d.mem[x.src[2]]>>])
                       ELSE Put(d, x.dst, Value(x, d))
BY DEF Apply

\* A launch with its position and length as arguments.
Fields(x, op, w, src, dst, at) ==
    x.op = op /\ x.w = w /\ x.src = src /\ x.dst = dst /\ x.at = at

\* The fields of a launch with its position.
LEMMA AtIs ==
  ASSUME NEW op, NEW w, NEW src, NEW dst, NEW at
  PROVE  Fields(At(Launch(op, w, src, dst), at), op, w, src, dst, at)
<1>0. PICK x : x = At(Launch(op, w, src, dst), at)
  OBVIOUS
<1>1. PICK r : r = Launch(op, w, src, dst)
  OBVIOUS
<1>2. r = [op |-> op, w |-> w, src |-> src, dst |-> dst, at |-> <<>>]
  BY <1>1 DEF Launch
<1>3. x = [r EXCEPT !.at = at]
  BY <1>0, <1>1 DEF At
<1>4. x = [op |-> op, w |-> w, src |-> src, dst |-> dst, at |-> at]
  BY <1>2, <1>3
<1> QED  BY <1>0, <1>4 DEF Fields

\* What each kind of launch makes of its sources.
LEMMA ValueIs ==
  ASSUME NEW x, NEW d
  PROVE  /\ x.op = "rmsnorm" => Value(x, d) = <<"rmsnorm", x.w, d.mem[x.src[1]]>>
         /\ x.op = "mul" => Value(x, d) = <<"mul", x.w, d.mem[x.src[1]]>>
         /\ x.op = "muladd" => Value(x, d) = Plus(d.mem[x.dst], <<"mul", x.w, d.mem[x.src[1]]>>)
         /\ x.op = "mulswiglu" => Value(x, d) = <<"swiglu", NoWeight, <<"mul", x.w, d.mem[x.src[1]]>>>>
         /\ x.op = "swiglu" => Value(x, d) = <<"swiglu", x.w, d.mem[x.src[1]]>>
         /\ x.op = "add" => Value(x, d) = Plus(d.mem[x.dst], d.mem[x.src[1]])
         /\ x.op = "copy" => Value(x, d) = d.mem[x.src[1]]
         /\ x.op = "fill" => Value(x, d) = x.w
         /\ x.op = "normrope" => Value(x, d) = <<"qk_rope", x.w, <<"qk_norm", x.w, d.mem[x.src[1]]>>,
               d.mem[x.src[2]]>>
         /\ x.op = "qk_norm" => Value(x, d) = <<"qk_norm", x.w, d.mem[x.src[1]]>>
         /\ x.op = "qk_rope" => Value(x, d) = <<"qk_rope", x.w, d.mem[x.src[1]], d.mem[x.src[2]]>>
<1>1. x.op = "rmsnorm" => Value(x, d) = <<"rmsnorm", x.w, d.mem[x.src[1]]>>
  BY DEF Value
<1>2. x.op = "mul" => Value(x, d) = <<"mul", x.w, d.mem[x.src[1]]>>
  BY DEF Value
<1>3. x.op = "muladd" => Value(x, d) = Plus(d.mem[x.dst], <<"mul", x.w, d.mem[x.src[1]]>>)
  BY DEF Value
<1>4. x.op = "mulswiglu" => Value(x, d) = <<"swiglu", NoWeight, <<"mul", x.w, d.mem[x.src[1]]>>>>
  BY DEF Value
<1>5. x.op = "swiglu" => Value(x, d) = <<"swiglu", x.w, d.mem[x.src[1]]>>
  BY DEF Value
<1>6. x.op = "add" => Value(x, d) = Plus(d.mem[x.dst], d.mem[x.src[1]])
  BY DEF Value
<1>7. x.op = "copy" => Value(x, d) = d.mem[x.src[1]]
  BY DEF Value
<1>8. x.op = "fill" => Value(x, d) = x.w
  BY DEF Value
<1>9. x.op = "normrope" => Value(x, d) = <<"qk_rope", x.w, <<"qk_norm", x.w, d.mem[x.src[1]]>>,
            d.mem[x.src[2]]>>
  BY DEF Value
<1>10. x.op = "qk_norm" => Value(x, d) = <<"qk_norm", x.w, d.mem[x.src[1]]>>
  BY DEF Value
<1>11. x.op = "qk_rope" => Value(x, d) = <<"qk_rope", x.w, d.mem[x.src[1]], d.mem[x.src[2]]>>
  BY DEF Value
<1> QED  BY <1>1, <1>2, <1>3, <1>4, <1>5, <1>6, <1>7, <1>8, <1>9, <1>10, <1>11

\* The fields of a launch without.
LEMMA LaunchFields ==
  ASSUME NEW op, NEW w, NEW src, NEW dst
  PROVE  Fields(Launch(op, w, src, dst), op, w, src, dst, <<>>)
<1>1. PICK x : x = Launch(op, w, src, dst)
  OBVIOUS
<1>2. x = [op |-> op, w |-> w, src |-> src, dst |-> dst, at |-> <<>>]
  BY <1>1 DEF Launch
<1> QED  BY <1>1, <1>2 DEF Fields

\* Launches with no source, with one, and with two.
Sets0(x, d, op, w, y) == x.op = op /\ x.w = w /\ x.dst = y /\ Apply(x, d) = Put(d, y, Value(x, d))
Sets1(x, d, op, w, a, y) == Sets0(x, d, op, w, y) /\ x.src[1] = a
Sets2(x, d, op, w, a, b, y) == Sets1(x, d, op, w, a, y) /\ x.src[2] = b

\* No source: a fill or an upload.
LEMMA LaunchOfNone ==
  ASSUME NEW d, NEW op, op # "kv_store", NEW w, NEW y
  PROVE  Sets0(Launch(op, w, <<>>, y), d, op, w, y)
<1>1. PICK x : x = Launch(op, w, <<>>, y)
  OBVIOUS
<1>2. x.op = op /\ x.w = w /\ x.dst = y
  BY <1>1, LaunchFields DEF Fields
<1> QED  BY <1>1, <1>2, ApplyIs DEF Sets0

\* One source.
LEMMA LaunchOfOne ==
  ASSUME NEW d, NEW op, op # "kv_store", NEW w, NEW a, NEW y
  PROVE  Sets1(Launch(op, w, <<a>>, y), d, op, w, a, y)
<1>1. PICK x : x = Launch(op, w, <<a>>, y)
  OBVIOUS
<1>2. x.op = op /\ x.w = w /\ x.dst = y /\ x.src = <<a>>
  BY <1>1, LaunchFields DEF Fields
<1>3. <<a>>[1] = a
  OBVIOUS
<1>4. x.src[1] = <<a>>[1]
  BY <1>2, Zenon
<1> QED  BY <1>1, <1>2, <1>3, <1>4, ApplyIs DEF Sets0, Sets1

\* Two sources.
LEMMA LaunchOfTwo ==
  ASSUME NEW d, NEW op, op # "kv_store", NEW w, NEW a, NEW b, NEW y
  PROVE  Sets2(Launch(op, w, <<a, b>>, y), d, op, w, a, b, y)
<1>1. PICK x : x = Launch(op, w, <<a, b>>, y)
  OBVIOUS
<1>2. x.op = op /\ x.w = w /\ x.dst = y /\ x.src = <<a, b>>
  BY <1>1, LaunchFields DEF Fields
<1>3. <<a, b>>[1] = a /\ <<a, b>>[2] = b
  OBVIOUS
<1>4. x.src[1] = <<a, b>>[1] /\ x.src[2] = <<a, b>>[2]
  BY <1>2, Zenon
<1> QED  BY <1>1, <1>2, <1>3, <1>4, ApplyIs DEF Sets0, Sets1, Sets2

\* Programs of a few launches.
LEMMA RunOne ==
  ASSUME NEW d, NEW a
  PROVE  Prog(<<a>>) /\ RunOn(d, <<a>>) = Apply(a, d)
<1>0. PICK S : S = {a}
  OBVIOUS
<1>1. PICK s : s = <<a>>
  OBVIOUS
<1>2. Prog(s) /\ Len(s) = 1
  <2>1. <<a>> \in Seq(S) /\ Len(<<a>>) = 1
    BY <1>0
  <2> QED  BY <1>1, <2>1, Zenon DEF Prog
<1>3. PICK st : Between(d, s, 1, st)
  BY <1>2, RunIs
<1>4. st[1] = Apply(s[1], st[0])
  BY <1>3 DEF Between
<1> QED  BY <1>1, <1>2, <1>3, <1>4 DEF Between

\* Two launches.
LEMMA RunTwo ==
  ASSUME NEW d, NEW a, NEW b
  PROVE  Prog(<<a, b>>) /\ RunOn(d, <<a, b>>) = Apply(b, Apply(a, d))
<1>0. PICK S : S = {a, b}
  OBVIOUS
<1>1. PICK s : s = <<a, b>>
  OBVIOUS
<1>2. Prog(s) /\ Len(s) = 2
  <2>1. <<a, b>> \in Seq(S) /\ Len(<<a, b>>) = 2
    BY <1>0
  <2> QED  BY <1>1, <2>1, Zenon DEF Prog
<1>3. PICK st : Between(d, s, 2, st)
  BY <1>2, RunIs
<1>4. st[1] = Apply(s[1], st[0]) /\ st[2] = Apply(s[2], st[1])
  BY <1>3 DEF Between
<1> QED  BY <1>1, <1>2, <1>3, <1>4 DEF Between

\* Three.
LEMMA RunThree ==
  ASSUME NEW d, NEW a, NEW b, NEW c
  PROVE  Prog(<<a, b, c>>) /\ RunOn(d, <<a, b, c>>) = Apply(c, Apply(b, Apply(a, d)))
<1>0. PICK S : S = {a, b, c}
  OBVIOUS
<1>1. PICK s : s = <<a, b, c>>
  OBVIOUS
<1>2. Prog(s) /\ Len(s) = 3
  <2>1. <<a, b, c>> \in Seq(S) /\ Len(<<a, b, c>>) = 3
    BY <1>0
  <2> QED  BY <1>1, <2>1, Zenon DEF Prog
<1>3. PICK st : Between(d, s, 3, st)
  BY <1>2, RunIs
<1>4. st[1] = Apply(s[1], st[0]) /\ st[2] = Apply(s[2], st[1]) /\ st[3] = Apply(s[3], st[2])
  BY <1>3 DEF Between
<1> QED  BY <1>1, <1>2, <1>3, <1>4 DEF Between

\* Four.
LEMMA RunFour ==
  ASSUME NEW d, NEW a, NEW b, NEW c, NEW e
  PROVE  Prog(<<a, b, c, e>>) /\ RunOn(d, <<a, b, c, e>>) = Apply(e, Apply(c, Apply(b, Apply(a, d))))
<1>0. PICK S : S = {a, b, c, e}
  OBVIOUS
<1>1. PICK s : s = <<a, b, c, e>>
  OBVIOUS
<1>2. Prog(s) /\ Len(s) = 4
  <2>1. <<a, b, c, e>> \in Seq(S) /\ Len(<<a, b, c, e>>) = 4
    BY <1>0
  <2> QED  BY <1>1, <2>1, Zenon DEF Prog
<1>3. PICK st : Between(d, s, 4, st)
  BY <1>2, RunIs
<1>4. st[1] = Apply(s[1], st[0]) /\ st[2] = Apply(s[2], st[1]) /\ st[3] = Apply(s[3], st[2])
      /\ st[4] = Apply(s[4], st[3])
  BY <1>3 DEF Between
<1> QED  BY <1>1, <1>2, <1>3, <1>4 DEF Between

\* Seven.
LEMMA RunSeven ==
  ASSUME NEW d, NEW a, NEW b, NEW c, NEW e, NEW f, NEW g, NEW h
  PROVE  Prog(<<a, b, c, e, f, g, h>>) /\ RunOn(d, <<a, b, c, e, f, g, h>>)
        = Apply(h, Apply(g, Apply(f, Apply(e, Apply(c, Apply(b, Apply(a, d)))))))
<1>0. PICK S : S = {a, b, c, e, f, g, h}
  OBVIOUS
<1>1. PICK s : s = <<a, b, c, e, f, g, h>>
  OBVIOUS
<1>2. Prog(s) /\ Len(s) = 7
  <2>1. <<a, b, c, e, f, g, h>> \in Seq(S) /\ Len(<<a, b, c, e, f, g, h>>) = 7
    BY <1>0
  <2> QED  BY <1>1, <2>1, Zenon DEF Prog
<1>3. PICK st : Between(d, s, 7, st)
  BY <1>2, RunIs
<1>4. st[1] = Apply(s[1], st[0]) /\ st[2] = Apply(s[2], st[1]) /\ st[3] = Apply(s[3], st[2])
      /\ st[4] = Apply(s[4], st[3]) /\ st[5] = Apply(s[5], st[4]) /\ st[6] = Apply(s[6], st[5])
            /\ st[7] = Apply(s[7], st[6])
  BY <1>3 DEF Between
<1> QED  BY <1>1, <1>2, <1>3, <1>4 DEF Between

-----------------------------------------------------------------------------
\* Between two devices: cells that stay, and rows but one.
Kept(d, e, touched) == \A z \in Cells \ touched : e.mem[z] = d.mem[z]
OtherRows(d, e, l, p) ==
    \A j \in 1 .. Depth, i \in 0 .. Slots - 1 : j # l \/ i # p => e.cache[j][i] = d.cache[j][i]
\* Layer l has the rows of the first n positions.
RowsRight(d, l, hs, n) == \A i \in 1 .. n : d.cache[l][i - 1] = RefRow(l, hs, i)
\* The kernels of attention know that it is position p.
Placed(d, at, p) == at = <<p, p + 1>> \/ (at = <<>> /\ d.mem[One("pos")] = PosSeqlen(p))

Stored(d, e, l, p, row) ==
    Device(e) /\ e.mem = d.mem /\ OtherRows(d, e, l, p) /\ e.cache[l][p] = row

\* kv_store writes one row of its layer.
LEMMA StoreIs ==
  ASSUME NEW d, Device(d), NEW l \in 1 .. Depth, NEW p \in 0 .. Slots - 1, NEW k \in Cells, NEW qkv \in Cells,
         NEW at, Placed(d, at, p),
         NEW e, e = Apply(At(Launch("kv_store", <<"kv", l>>, <<k, qkv>>, k), at), d)
  PROVE  Stored(d, e, l, p, [k |-> d.mem[k], v |-> <<"v", <<"kv", l>>, d.mem[qkv]>>])
<1>1. PICK row : row = [k |-> d.mem[k], v |-> <<"v", <<"kv", l>>, d.mem[qkv]>>]
  OBVIOUS
<1>2. PICK x : x = At(Launch("kv_store", <<"kv", l>>, <<k, qkv>>, k), at)
  OBVIOUS
<1>3. x.op = "kv_store" /\ x.w = <<"kv", l>> /\ x.src = <<k, qkv>> /\ x.at = at
  BY <1>2, AtIs DEF Fields
<1>4. Pos(x, d) = p
  BY <1>3 DEF Pos, Placed, PosSeqlen
<1>5. e = StoreRow(d, l, p, row)
  <2>1. e = Apply(x, d) /\ x.w[2] = l /\ x.src[1] = k /\ x.src[2] = qkv
    BY <1>2, <1>3
  <2> QED  BY <1>1, <1>3, <1>4, <2>1, ApplyIs
<1>6. PICK m, c : m = d.mem /\ c = d.cache /\ d = [mem |-> m, cache |-> c]
  BY DEF Device
<1>7. PICK n : n = [c EXCEPT ![l] = [c[l] EXCEPT ![p] = row]]
  OBVIOUS
<1>8. e = [mem |-> m, cache |-> n]
  BY <1>5, <1>6, <1>7 DEF StoreRow
<1>9. c = [j \in 1 .. Depth |-> [i \in 0 .. Slots - 1 |-> c[j][i]]]
  BY <1>6 DEF Device
<1>10. n[l] = [c[l] EXCEPT ![p] = row] /\ \A j \in 1 .. Depth : j # l => n[j] = c[j]
  BY <1>7, <1>9
<1>11. n[l][p] = row /\ \A i \in 0 .. Slots - 1 : i # p => n[l][i] = c[l][i]
  BY <1>9, <1>10
<1>12. n = [j \in 1 .. Depth |-> [i \in 0 .. Slots - 1 |-> n[j][i]]]
  <2>1. n = [j \in 1 .. Depth |-> n[j]]
    BY <1>7, <1>9
  <2>2. ASSUME NEW j \in 1 .. Depth PROVE n[j] = [i \in 0 .. Slots - 1 |-> n[j][i]]
    <3>1. c[j] = [i \in 0 .. Slots - 1 |-> c[j][i]]
      BY <1>9
    <3>2. CASE j = l
      BY <1>10, <3>1, <3>2
    <3>3. CASE j # l
      BY <1>10, <3>1, <3>3
    <3> QED  BY <3>2, <3>3
  <2> QED  BY <2>1, <2>2
<1>13. e.mem = m /\ e.cache = n /\ e = [mem |-> e.mem, cache |-> e.cache]
  BY <1>8
<1>14. Device(e)
  BY <1>6, <1>12, <1>13 DEF Device
<1>15. OtherRows(d, e, l, p)
  BY <1>6, <1>10, <1>11, <1>13 DEF OtherRows
<1> QED  BY <1>1, <1>6, <1>11, <1>13, <1>14, <1>15 DEF Stored

\* The four kernels of attention: the row of the token, and its sum over the rows.
Attended(d, e, l, hs, p, out, touched) ==
    /\ Device(e) /\ Kept(d, e, touched) /\ OtherRows(d, e, l, p)
    /\ RowsRight(e, l, hs, p + 1) /\ e.mem[out] = RefAttention(l, hs, p + 1)

\* The four launches of attention: the row is stored, and the attention is over all rows up to it.
LEMMA AttentionRuns ==
  ASSUME NEW d, Device(d), NEW l \in 1 .. Depth, NEW p \in 0 .. Slots - 1, NEW hs,
         NEW q \in Cells, NEW k \in Cells, NEW qkv \in Cells, NEW scores \in Cells, NEW out \in Cells,
         One("pos") # scores, NEW at, Placed(d, at, p), RowsRight(d, l, hs, p),
         d.mem[q] = RefRope(l, "q", hs, p + 1), d.mem[k] = RefRope(l, "k", hs, p + 1),
         d.mem[qkv] = RefQkv(l, hs, p + 1),
         NEW e, e = RunOn(d, Attention(l, q, k, qkv, scores, out, at))
  PROVE  Attended(d, e, l, hs, p, out, {scores, out})
<1>1. PICK x1, x2, x3, x4 :
         /\ x1 = At(Launch("kv_store", <<"kv", l>>, <<k, qkv>>, k), at)
         /\ x2 = At(Launch("scores", <<"kv", l>>, <<q>>, scores), at)
         /\ x3 = At(Launch("softmax", NoWeight, <<scores>>, scores), at)
         /\ x4 = At(Launch("wsum", <<"kv", l>>, <<scores>>, out), at)
  OBVIOUS
<1>2. PICK d1, d2, d3 : d1 = Apply(x1, d) /\ d2 = Apply(x2, d1) /\ d3 = Apply(x3, d2)
  OBVIOUS
<1>3. e = Apply(x4, d3)
  <2>1. e = RunOn(d, <<x1, x2, x3, x4>>)
    BY <1>1 DEF Attention
  <2> QED  BY <1>2, <2>1, RunFour
<1> USE SizeAssumption
<1>31. /\ Fields(x2, "scores", <<"kv", l>>, <<q>>, scores, at)
       /\ Fields(x3, "softmax", NoWeight, <<scores>>, scores, at)
       /\ Fields(x4, "wsum", <<"kv", l>>, <<scores>>, out, at)
  BY <1>1, AtIs
<1>4. /\ Device(d1) /\ d1.mem = d.mem /\ OtherRows(d, d1, l, p)
      /\ d1.cache[l][p] = [k |-> d.mem[k], v |-> <<"v", <<"kv", l>>, d.mem[qkv]>>]
  <2>1. Stored(d, d1, l, p, [k |-> d.mem[k], v |-> <<"v", <<"kv", l>>, d.mem[qkv]>>])
    BY <1>1, <1>2, StoreIs
  <2> QED  BY <2>1 DEF Stored
<1>5. d1.cache[l][p] = RefRow(l, hs, p + 1)
  BY <1>4 DEF RefRow
<1>6. ASSUME NEW i \in 1 .. p + 1 PROVE d1.cache[l][i - 1] = RefRow(l, hs, i)
  <2>1. CASE i = p + 1
    BY <1>5, <2>1
  <2>2. CASE i # p + 1
    <3>1. i \in 1 .. p /\ i - 1 \in 0 .. Slots - 1 /\ i - 1 # p
      BY <2>2
    <3>2. d1.cache[l][i - 1] = d.cache[l][i - 1]
      BY <1>4, <3>1 DEF OtherRows
    <3> QED  BY <3>1, <3>2 DEF RowsRight
  <2> QED  BY <2>1, <2>2
<1>7. PICK ks, vs : /\ ks = [i \in 1 .. p + 1 |-> RefRow(l, hs, i).k]
                    /\ vs = [i \in 1 .. p + 1 |-> RefRow(l, hs, i).v]
  OBVIOUS
<1>8. ASSUME NEW x \in {x2, x4}, NEW dd, dd.cache = d1.cache, Placed(dd, at, p)
      PROVE  Rows(x, dd, "k") = ks /\ Rows(x, dd, "v") = vs
  <2>1. x.w[2] = l /\ x.at = at
    <3>1. x2.w = <<"kv", l>> /\ x2.at = at /\ x4.w = <<"kv", l>> /\ x4.at = at
      BY <1>31 DEF Fields
    <3>2. <<"kv", l>>[2] = l
      OBVIOUS
    <3>3. x2.w[2] = <<"kv", l>>[2] /\ x4.w[2] = <<"kv", l>>[2]
      BY <3>1, Zenon
    <3> QED  BY <1>8, <3>1, <3>2, <3>3
  <2>2. SeqLen(x, dd) = p + 1
    <3>1. CASE at = <<p, p + 1>>
      <4>1. at # <<>> /\ at[2] = p + 1
        BY <3>1
      <4> QED  BY <2>1, <4>1 DEF SeqLen
    <3>2. CASE at = <<>> /\ dd.mem[One("pos")] = PosSeqlen(p)
      BY <2>1, <3>2 DEF SeqLen, PosSeqlen
    <3> QED  BY <3>1, <3>2, <1>8 DEF Placed
  <2>3. /\ Rows(x, dd, "k") = [i \in 1 .. p + 1 |-> d1.cache[l][i - 1].k]
        /\ Rows(x, dd, "v") = [i \in 1 .. p + 1 |-> d1.cache[l][i - 1].v]
    BY <2>1, <2>2, <1>8 DEF Rows
  <2> QED  BY <1>6, <1>7, <2>3
<1>9. d2 = Put(d1, scores, <<"scores", <<"kv", l>>, d.mem[q], ks>>)
  <2>1. Placed(d1, at, p)
    BY <1>4 DEF Placed
  <2>2. Rows(x2, d1, "k") = ks
    BY <1>8, <2>1
  <2>3. x2.op = "scores" /\ x2.w = <<"kv", l>> /\ x2.src = <<q>> /\ x2.dst = scores
    BY <1>31 DEF Fields
  <2>4. Value(x2, d1) = <<"scores", <<"kv", l>>, d.mem[q], ks>>
    BY <1>4, <2>2, <2>3 DEF Value
  <2> QED  BY <1>2, <2>3, <2>4, ApplyIs
<1>10. /\ Device(d2) /\ d2.cache = d1.cache /\ d2.mem[scores] = <<"scores", <<"kv", l>>, d.mem[q], ks>>
       /\ \A z \in Cells : z # scores => d2.mem[z] = d1.mem[z]
  BY <1>4, <1>9, PutIs DEF IsPut
<1>11. d3 = Put(d2, scores, <<"softmax", NoWeight, d2.mem[scores]>>)
  <2>1. x3.op = "softmax" /\ x3.w = NoWeight /\ x3.src = <<scores>> /\ x3.dst = scores
    BY <1>31 DEF Fields
  <2>2. Value(x3, d2) = <<"softmax", NoWeight, d2.mem[scores]>>
    <3>1. <<scores>>[1] = scores
      OBVIOUS
    <3>2. x3.src[1] = <<scores>>[1]
      BY <2>1, Zenon
    <3> QED  BY <2>1, <3>1, <3>2 DEF Value
  <2> QED  BY <1>2, <2>1, <2>2, ApplyIs, ZenonT(30)
<1>12. /\ Device(d3) /\ d3.cache = d1.cache /\ d3.mem[scores] = <<"softmax", NoWeight, d2.mem[scores]>>
       /\ \A z \in Cells : z # scores => d3.mem[z] = d1.mem[z]
  <2>1. IsPut(d2, d3, scores, <<"softmax", NoWeight, d2.mem[scores]>>)
    BY <1>10, <1>11, PutIs
  <2> QED  BY <1>10, <2>1 DEF IsPut
<1>13. e = Put(d3, out, <<"wsum", <<"kv", l>>, d3.mem[scores], vs>>)
  <2>0. One("pos") \in Cells
    BY CellNames DEF OneNames
  <2>1. Placed(d3, at, p)
    BY <1>4, <1>12, <2>0 DEF Placed
  <2>2. Rows(x4, d3, "v") = vs
    BY <1>8, <1>12, <2>1
  <2>3. x4.op = "wsum" /\ x4.w = <<"kv", l>> /\ x4.src = <<scores>> /\ x4.dst = out
    BY <1>31 DEF Fields
  <2>4. Value(x4, d3) = <<"wsum", <<"kv", l>>, d3.mem[scores], vs>>
    BY <2>2, <2>3 DEF Value
  <2> QED  BY <1>3, <2>3, <2>4, ApplyIs
<1>14. /\ Device(e) /\ e.cache = d1.cache /\ e.mem[out] = <<"wsum", <<"kv", l>>, d3.mem[scores], vs>>
       /\ \A z \in Cells : z # out => e.mem[z] = d3.mem[z]
  <2>1. IsPut(d3, e, out, <<"wsum", <<"kv", l>>, d3.mem[scores], vs>>)
    BY <1>12, <1>13, PutIs
  <2> QED  BY <1>12, <2>1 DEF IsPut
<1>15. RefAttention(l, hs, p + 1)
       = <<"wsum", <<"kv", l>>, <<"softmax", NoWeight, <<"scores", <<"kv", l>>, RefRope(l, "q", hs, p + 1),
             ks>>>>, vs>>
  <2>1. PICK rows : rows = [i \in 1 .. p + 1 |-> RefRow(l, hs, i)]
    OBVIOUS
  <2>2. ks = [i \in 1 .. p + 1 |-> rows[i].k] /\ vs = [i \in 1 .. p + 1 |-> rows[i].v]
    BY <1>7, <2>1
  <2> QED  BY <2>1, <2>2 DEF RefAttention
<1>16. e.mem[out] = RefAttention(l, hs, p + 1)
  BY <1>10, <1>12, <1>14, <1>15
<1>17. Kept(d, e, {scores, out})
  BY <1>4, <1>12, <1>14 DEF Kept
<1>18. OtherRows(d, e, l, p)
  BY <1>4, <1>14 DEF OtherRows
<1>19. RowsRight(e, l, hs, p + 1)
  BY <1>6, <1>14 DEF RowsRight
<1> QED  BY <1>14, <1>16, <1>17, <1>18, <1>19 DEF Attended

\* The launches that set one cell.
LEMMA Sets ==
  ASSUME NEW d, Device(d), NEW w, NEW x, NEW y \in Cells
  PROVE  /\ IsPut(d, Apply(RmsNorm(w, x, y), d), y, <<"rmsnorm", w, d.mem[x]>>)
         /\ IsPut(d, Apply(Mul(w, x, y), d), y, <<"mul", w, d.mem[x]>>)
         /\ IsPut(d, Apply(MulAdd(w, x, y), d), y, Plus(d.mem[y], <<"mul", w, d.mem[x]>>))
         /\ IsPut(d, Apply(GateUpSwiglu(w, x, y), d), y,
                  <<"swiglu", NoWeight, <<"mul", <<"gate_up", w>>, d.mem[x]>>>>)
         /\ IsPut(d, Apply(Swiglu(x, y), d), y, <<"swiglu", NoWeight, d.mem[x]>>)
         /\ IsPut(d, Apply(ResidualAdd(y, x), d), y, Plus(d.mem[y], d.mem[x]))
         /\ IsPut(d, Apply(Copy(x, y), d), y, d.mem[x])
         /\ IsPut(d, Apply(Fill(y), d), y, Zero)
         /\ IsPut(d, Apply(Upload(w, y), d), y, w)
<1>1. \A v : IsPut(d, Put(d, y, v), y, v)
  BY PutIs
<1>2. IsPut(d, Apply(RmsNorm(w, x, y), d), y, <<"rmsnorm", w, d.mem[x]>>)
  <2>0. PICK z : z = RmsNorm(w, x, y)
    OBVIOUS
  <2>2. z = Launch("rmsnorm", w, <<x>>, y)
    BY <2>0 DEF RmsNorm
  <2>4. Sets1(z, d, "rmsnorm", w, x, y)
    BY <2>2, LaunchOfOne
  <2>1. Apply(RmsNorm(w, x, y), d) = Put(d, y, <<"rmsnorm", w, d.mem[x]>>)
    BY <2>0, <2>2, <2>4, ValueIs DEF Sets0, Sets1
  <2> QED  BY <1>1, <2>1
<1>3. IsPut(d, Apply(Mul(w, x, y), d), y, <<"mul", w, d.mem[x]>>)
  <2>0. PICK z : z = Mul(w, x, y)
    OBVIOUS
  <2>2. z = Launch("mul", w, <<x>>, y)
    BY <2>0 DEF Mul
  <2>4. Sets1(z, d, "mul", w, x, y)
    BY <2>2, LaunchOfOne
  <2>1. Apply(Mul(w, x, y), d) = Put(d, y, <<"mul", w, d.mem[x]>>)
    BY <2>0, <2>2, <2>4, ValueIs DEF Sets0, Sets1
  <2> QED  BY <1>1, <2>1
<1>4. IsPut(d, Apply(MulAdd(w, x, y), d), y, Plus(d.mem[y], <<"mul", w, d.mem[x]>>))
  <2>0. PICK z : z = MulAdd(w, x, y)
    OBVIOUS
  <2>2. z = Launch("muladd", w, <<x>>, y)
    BY <2>0 DEF MulAdd
  <2>4. Sets1(z, d, "muladd", w, x, y)
    BY <2>2, LaunchOfOne
  <2>1. Apply(MulAdd(w, x, y), d) = Put(d, y, Plus(d.mem[y], <<"mul", w, d.mem[x]>>))
    BY <2>0, <2>2, <2>4, ValueIs DEF Sets0, Sets1
  <2> QED  BY <1>1, <2>1
<1>5. IsPut(d, Apply(GateUpSwiglu(w, x, y), d), y, <<"swiglu", NoWeight, <<"mul", <<"gate_up", w>>,
            d.mem[x]>>>>)
  <2>0. PICK z : z = GateUpSwiglu(w, x, y)
    OBVIOUS
  <2>2. z = Launch("mulswiglu", <<"gate_up", w>>, <<x>>, y)
    BY <2>0 DEF GateUpSwiglu
  <2>4. Sets1(z, d, "mulswiglu", <<"gate_up", w>>, x, y)
    BY <2>2, LaunchOfOne
  <2>1. Apply(GateUpSwiglu(w, x, y), d) = Put(d, y, <<"swiglu", NoWeight, <<"mul", <<"gate_up", w>>,
              d.mem[x]>>>>)
    BY <2>0, <2>2, <2>4, ValueIs DEF Sets0, Sets1
  <2> QED  BY <1>1, <2>1
<1>6. IsPut(d, Apply(Swiglu(x, y), d), y, <<"swiglu", NoWeight, d.mem[x]>>)
  <2>0. PICK z : z = Swiglu(x, y)
    OBVIOUS
  <2>2. z = Launch("swiglu", NoWeight, <<x>>, y)
    BY <2>0 DEF Swiglu
  <2>4. Sets1(z, d, "swiglu", NoWeight, x, y)
    BY <2>2, LaunchOfOne
  <2>1. Apply(Swiglu(x, y), d) = Put(d, y, <<"swiglu", NoWeight, d.mem[x]>>)
    BY <2>0, <2>2, <2>4, ValueIs DEF Sets0, Sets1
  <2> QED  BY <1>1, <2>1
<1>7. IsPut(d, Apply(ResidualAdd(y, x), d), y, Plus(d.mem[y], d.mem[x]))
  <2>0. PICK z : z = ResidualAdd(y, x)
    OBVIOUS
  <2>2. z = Launch("add", NoWeight, <<x>>, y)
    BY <2>0 DEF ResidualAdd
  <2>4. Sets1(z, d, "add", NoWeight, x, y)
    BY <2>2, LaunchOfOne
  <2>1. Apply(ResidualAdd(y, x), d) = Put(d, y, Plus(d.mem[y], d.mem[x]))
    BY <2>0, <2>2, <2>4, ValueIs DEF Sets0, Sets1
  <2> QED  BY <1>1, <2>1
<1>8. IsPut(d, Apply(Copy(x, y), d), y, d.mem[x])
  <2>0. PICK z : z = Copy(x, y)
    OBVIOUS
  <2>2. z = Launch("copy", NoWeight, <<x>>, y)
    BY <2>0 DEF Copy
  <2>4. Sets1(z, d, "copy", NoWeight, x, y)
    BY <2>2, LaunchOfOne
  <2>1. Apply(Copy(x, y), d) = Put(d, y, d.mem[x])
    BY <2>0, <2>2, <2>4, ValueIs DEF Sets0, Sets1
  <2> QED  BY <1>1, <2>1
<1>9. IsPut(d, Apply(Fill(y), d), y, Zero)
  <2>0. PICK z : z = Fill(y)
    OBVIOUS
  <2>2. z = Launch("fill", Zero, <<>>, y)
    BY <2>0 DEF Fill
  <2>4. Sets0(z, d, "fill", Zero, y)
    BY <2>2, LaunchOfNone
  <2>1. Apply(Fill(y), d) = Put(d, y, Zero)
    BY <2>0, <2>2, <2>4, ValueIs DEF Sets0, Sets1
  <2> QED  BY <1>1, <2>1
<1>10. IsPut(d, Apply(Upload(w, y), d), y, w)
  <2>0. PICK z : z = Upload(w, y)
    OBVIOUS
  <2>2. z = Launch("fill", w, <<>>, y)
    BY <2>0 DEF Upload
  <2>4. Sets0(z, d, "fill", w, y)
    BY <2>2, LaunchOfNone
  <2>1. Apply(Upload(w, y), d) = Put(d, y, w)
    BY <2>0, <2>2, <2>4, ValueIs DEF Sets0, Sets1
  <2> QED  BY <1>1, <2>1
<1> QED  BY <1>2, <1>3, <1>4, <1>5, <1>6, <1>7, <1>8, <1>9, <1>10

\* The launches on the heads, with a norm's weights and a rotation.
LEMMA HeadSets ==
  ASSUME NEW d, Device(d), NEW w, NEW x, NEW r, NEW y \in Cells
  PROVE  /\ IsPut(d, Apply(Launch("normrope", w, <<x, r>>, y), d), y,
                  <<"qk_rope", w, <<"qk_norm", w, d.mem[x]>>, d.mem[r]>>)
         /\ IsPut(d, Apply(Launch("qk_norm", w, <<x>>, y), d), y, <<"qk_norm", w, d.mem[x]>>)
         /\ IsPut(d, Apply(Launch("qk_rope", w, <<x, r>>, y), d), y, <<"qk_rope", w, d.mem[x], d.mem[r]>>)
<1>1. \A v : IsPut(d, Put(d, y, v), y, v)
  BY PutIs
<1>2. /\ Apply(Launch("normrope", w, <<x, r>>, y), d)
         = Put(d, y, <<"qk_rope", w, <<"qk_norm", w, d.mem[x]>>, d.mem[r]>>)
      /\ Apply(Launch("qk_norm", w, <<x>>, y), d) = Put(d, y, <<"qk_norm", w, d.mem[x]>>)
      /\ Apply(Launch("qk_rope", w, <<x, r>>, y), d) = Put(d, y, <<"qk_rope", w, d.mem[x], d.mem[r]>>)
  <2>1. PICK x1, x2, x3 : /\ x1 = Launch("normrope", w, <<x, r>>, y) /\ x2 = Launch("qk_norm", w, <<x>>, y)
                          /\ x3 = Launch("qk_rope", w, <<x, r>>, y)
    OBVIOUS
  <2>5. /\ Sets2(x1, d, "normrope", w, x, r, y) /\ Sets1(x2, d, "qk_norm", w, x, y)
        /\ Sets2(x3, d, "qk_rope", w, x, r, y)
    BY <2>1, LaunchOfOne, LaunchOfTwo
  <2>2. Apply(x1, d) = Put(d, y, <<"qk_rope", w, <<"qk_norm", w, d.mem[x]>>, d.mem[r]>>)
    BY <2>5, ValueIs DEF Sets0, Sets1, Sets2
  <2>3. Apply(x2, d) = Put(d, y, <<"qk_norm", w, d.mem[x]>>)
    BY <2>5, ValueIs, ZenonT(30) DEF Sets0, Sets1, Sets2
  <2>4. Apply(x3, d) = Put(d, y, <<"qk_rope", w, d.mem[x], d.mem[r]>>)
    BY <2>5, ValueIs, ZenonT(30) DEF Sets0, Sets1, Sets2
  <2> QED  BY <2>1, <2>2, <2>3, <2>4
<1> QED  BY <1>1, <1>2

-----------------------------------------------------------------------------
\* One token, from its QKV: heads, then attention.
HeadScratch == {One("q_rope"), One("k_rope"), One("scores"), One("attn_out")}
HeadsAt(l, at) ==
    QkNormRope(l, One("qkv"), One("rope"), One("q_rope"), One("k_rope"))
    \o Attention(l, One("q_rope"), One("k_rope"), One("qkv"), One("scores"), One("attn_out"), at)

\* Attention is a program.
LEMMA AttentionProg ==
  ASSUME NEW l, NEW q, NEW k, NEW qkv, NEW scores, NEW out, NEW at
  PROVE  Prog(Attention(l, q, k, qkv, scores, out, at))
BY RunFour DEF Attention

\* fused_qk_norm_rope and attention of one token.
LEMMA HeadsRun ==
  ASSUME NEW d, Device(d), NEW l \in 1 .. Depth, NEW p \in 0 .. Slots - 1, NEW hs,
         NEW at, Placed(d, at, p), RowsRight(d, l, hs, p),
         d.mem[One("qkv")] = RefQkv(l, hs, p + 1), d.mem[One("rope")] = Rope(p),
         NEW e, e = RunOn(d, HeadsAt(l, at))
  PROVE  Attended(d, e, l, hs, p, One("attn_out"), HeadScratch)
<1> USE SizeAssumption
<1>1. PICK x1, x2 : /\ x1 = Launch("normrope", <<"q", l>>, <<One("qkv"), One("rope")>>, One("q_rope"))
                    /\ x2 = Launch("normrope", <<"k", l>>, <<One("qkv"), One("rope")>>, One("k_rope"))
  OBVIOUS
<1>2. PICK d1, d2 : d1 = Apply(x1, d) /\ d2 = Apply(x2, d1)
  OBVIOUS
<1>3. RunOn(d, <<x1, x2>>) = d2 /\ Prog(<<x1, x2>>)
  BY <1>2, RunTwo
<1>4. PICK t : t = Attention(l, One("q_rope"), One("k_rope"), One("qkv"), One("scores"), One("attn_out"), at)
  OBVIOUS
<1>5. e = RunOn(d2, t)
  <2>1. HeadsAt(l, at) = <<x1, x2>> \o t
    BY <1>1, <1>4 DEF HeadsAt, QkNormRope
  <2>2. Prog(t)
    BY <1>4, AttentionProg
  <2> QED  BY <1>3, <2>1, <2>2, RunConcat
<1>6. IsPut(d, d1, One("q_rope"), <<"qk_rope", <<"q", l>>, <<"qk_norm", <<"q", l>>, d.mem[One("qkv")]>>,
            d.mem[One("rope")]>>)
  <2>1. One("q_rope") \in Cells
    BY CellNames DEF OneNames
  <2> QED  BY <1>1, <1>2, <2>1, HeadSets
<1>7. IsPut(d1, d2, One("k_rope"), <<"qk_rope", <<"k", l>>, <<"qk_norm", <<"k", l>>, d1.mem[One("qkv")]>>,
            d1.mem[One("rope")]>>)
  <2>1. One("k_rope") \in Cells /\ Device(d1)
    BY <1>6, CellNames DEF OneNames, IsPut
  <2> QED  BY <1>1, <1>2, <2>1, HeadSets
<1>8. /\ {One("q_rope"), One("k_rope"), One("qkv"), One("rope"), One("pos"), One("scores"),
            One("attn_out")} \subseteq Cells
      /\ One("q_rope") # One("k_rope") /\ One("pos") # One("scores")
      /\ One("qkv") \notin {One("q_rope"), One("k_rope")} /\ One("rope") \notin {One("q_rope"), One("k_rope")}
      /\ One("pos") \notin {One("q_rope"), One("k_rope")}
  BY CellNames DEF OneNames
<1>9. /\ Device(d2) /\ d2.cache = d.cache /\ Kept(d, d2, {One("q_rope"), One("k_rope")})
      /\ d2.mem[One("q_rope")] = RefRope(l, "q", hs, p + 1)
            /\ d2.mem[One("k_rope")] = RefRope(l, "k", hs, p + 1)
      /\ d2.mem[One("qkv")] = RefQkv(l, hs, p + 1)
  <2>1. (p + 1) - 1 = p
    OBVIOUS
  <2>2. \A what : RefRope(l, what, hs, p + 1)
           = <<"qk_rope", <<what, l>>, <<"qk_norm", <<what, l>>, RefQkv(l, hs, p + 1)>>, Rope(p)>>
    BY <2>1 DEF RefRope
  <2>3. Device(d2) /\ d2.cache = d.cache /\ Kept(d, d2, {One("q_rope"), One("k_rope")})
    BY <1>6, <1>7 DEF IsPut, Kept
  <2>4. d1.mem[One("qkv")] = d.mem[One("qkv")] /\ d1.mem[One("rope")] = d.mem[One("rope")]
    BY <1>6, <1>8 DEF IsPut
  <2>5. /\ d2.mem[One("q_rope")] = d1.mem[One("q_rope")] /\ d2.mem[One("qkv")] = d1.mem[One("qkv")]
    BY <1>7, <1>8 DEF IsPut
  <2>6. d2.mem[One("q_rope")] = RefRope(l, "q", hs, p + 1)
    BY <1>6, <2>2, <2>5 DEF IsPut
  <2>7. d2.mem[One("k_rope")] = RefRope(l, "k", hs, p + 1)
    BY <1>7, <2>2, <2>4 DEF IsPut
  <2> QED  BY <2>3, <2>4, <2>5, <2>6, <2>7
<1>10. Placed(d2, at, p) /\ RowsRight(d2, l, hs, p)
  BY <1>8, <1>9 DEF Placed, RowsRight, Kept
<1>11. Attended(d2, e, l, hs, p, One("attn_out"), {One("scores"), One("attn_out")})
  <2>1. PICK q \in Cells, k \in Cells, qkv \in Cells, scores \in Cells, out \in Cells :
           q = One("q_rope") /\ k = One("k_rope") /\ qkv = One("qkv") /\ scores = One("scores")
                 /\ out = One("attn_out")
    BY <1>8
  <2>2. e = RunOn(d2, Attention(l, q, k, qkv, scores, out, at))
    BY <1>4, <1>5, <2>1
  <2>3. Attended(d2, e, l, hs, p, out, {scores, out})
    BY <1>8, <1>9, <1>10, <2>1, <2>2, AttentionRuns
  <2> QED  BY <2>1, <2>3
<1>12. Kept(d, e, HeadScratch)
  BY <1>9, <1>11 DEF Attended, Kept, HeadScratch
<1>13. OtherRows(d, e, l, p)
  BY <1>9, <1>11 DEF Attended, OtherRows
<1> QED  BY <1>11, <1>12, <1>13 DEF Attended

\* They are a program.
LEMMA HeadsProg ==
  ASSUME NEW l, NEW at
  PROVE  Prog(HeadsAt(l, at))
<1>1. Prog(QkNormRope(l, One("qkv"), One("rope"), One("q_rope"), One("k_rope")))
  BY RunTwo DEF QkNormRope
<1>2. Prog(Attention(l, One("q_rope"), One("k_rope"), One("qkv"), One("scores"), One("attn_out"), at))
  BY AttentionProg
<1> QED  BY <1>1, <1>2, ProgConcat DEF HeadsAt

\* One token, from its hidden state.
TokenScratch == HeadScratch \cup {One("normed"), One("qkv")}
TokenAttention(l, at) ==
    << RmsNorm(<<"attn_norm", l>>, One("hidden"), One("normed")),
       Mul(<<"qkv", l>>, One("normed"), One("qkv")) >> \o HeadsAt(l, at)

\* Norm, QKV, heads and attention of one token.
LEMMA AttentionOfToken ==
  ASSUME NEW d, Device(d), NEW l \in 1 .. Depth, NEW p \in 0 .. Slots - 1, NEW hs,
         NEW at, Placed(d, at, p), RowsRight(d, l, hs, p),
         d.mem[One("hidden")] = hs[p + 1], d.mem[One("rope")] = Rope(p),
         NEW e, e = RunOn(d, TokenAttention(l, at))
  PROVE  Attended(d, e, l, hs, p, One("attn_out"), TokenScratch)
<1>1. PICK x1, x2 : /\ x1 = RmsNorm(<<"attn_norm", l>>, One("hidden"), One("normed"))
                    /\ x2 = Mul(<<"qkv", l>>, One("normed"), One("qkv"))
  OBVIOUS
<1>2. PICK d1, d2 : d1 = Apply(x1, d) /\ d2 = Apply(x2, d1)
  OBVIOUS
<1>3. RunOn(d, <<x1, x2>>) = d2 /\ Prog(<<x1, x2>>)
  BY <1>2, RunTwo
<1>5. e = RunOn(d2, HeadsAt(l, at))
  <2>1. TokenAttention(l, at) = <<x1, x2>> \o HeadsAt(l, at)
    BY <1>1 DEF TokenAttention
  <2> QED  BY <1>3, <2>1, HeadsProg, RunConcat
<1>6. /\ {One("normed"), One("hidden"), One("qkv"), One("rope"), One("pos")} \subseteq Cells
      /\ One("rope") \notin {One("normed"), One("qkv")} /\ One("pos") \notin {One("normed"), One("qkv")}
      /\ One("normed") # One("qkv")
  BY CellNames DEF OneNames
<1>7. IsPut(d, d1, One("normed"), <<"rmsnorm", <<"attn_norm", l>>, d.mem[One("hidden")]>>)
  BY <1>1, <1>2, <1>6, Sets
<1>8. IsPut(d1, d2, One("qkv"), <<"mul", <<"qkv", l>>, d1.mem[One("normed")]>>)
  <2>1. Device(d1)
    BY <1>7 DEF IsPut
  <2> QED  BY <1>1, <1>2, <1>6, <2>1, Sets
<1>9. /\ Device(d2) /\ d2.cache = d.cache /\ Kept(d, d2, {One("normed"), One("qkv")})
      /\ d2.mem[One("qkv")] = RefQkv(l, hs, p + 1)
  <2>1. Device(d2) /\ d2.cache = d.cache /\ Kept(d, d2, {One("normed"), One("qkv")})
    BY <1>7, <1>8 DEF IsPut, Kept
  <2>2. d2.mem[One("qkv")] = RefQkv(l, hs, p + 1)
    BY <1>7, <1>8 DEF IsPut, RefQkv
  <2> QED  BY <2>1, <2>2
<1>10. Placed(d2, at, p) /\ RowsRight(d2, l, hs, p) /\ d2.mem[One("rope")] = Rope(p)
  BY <1>6, <1>9 DEF Placed, RowsRight, Kept
<1>11. Attended(d2, e, l, hs, p, One("attn_out"), HeadScratch)
  BY <1>5, <1>9, <1>10, HeadsRun
<1>12. Kept(d, e, TokenScratch)
  BY <1>9, <1>11 DEF Attended, Kept, TokenScratch
<1>13. OtherRows(d, e, l, p)
  BY <1>9, <1>11 DEF Attended, OtherRows
<1> QED  BY <1>11, <1>12, <1>13 DEF Attended

\* The phases of both back ends are this one.
LEMMA AttentionPhases ==
  ASSUME NEW l, NEW p
  PROVE  /\ Prog(TokenAttention(l, <<>>)) /\ CudaAttnPhase(l) = TokenAttention(l, <<>>)
         /\ CudaAttnPhaseFromQkv(l) = HeadsAt(l, <<>>)
         /\ Prog(MetalAttention(l, p))
         /\ \A d : RunOn(d, MetalAttention(l, p)) = RunOn(d, TokenAttention(l, <<p, p + 1>>))
<1>1. PICK s, q, t : /\ s = << RmsNorm(<<"attn_norm", l>>, One("hidden"), One("normed")),
                              Mul(<<"qkv", l>>, One("normed"), One("qkv")) >>
                     /\ q = QkNormRope(l, One("qkv"), One("rope"), One("q_rope"), One("k_rope"))
                     /\ t = Attention(l, One("q_rope"), One("k_rope"), One("qkv"), One("scores"),
                                      One("attn_out"), <<p, p + 1>>)
  OBVIOUS
<1>2. Prog(s) /\ Prog(q) /\ Prog(t)
  <2>1. Prog(s)
    BY <1>1, RunTwo
  <2>2. Prog(q)
    BY <1>1, RunTwo DEF QkNormRope
  <2>3. Prog(t)
    BY <1>1, AttentionProg
  <2> QED  BY <2>1, <2>2, <2>3
<1>3. Prog(s \o q) /\ Prog(q \o t) /\ Prog((s \o q) \o t)
  <2>1. Prog(s \o q) /\ Prog(q \o t)
    BY <1>2, ProgConcat
  <2> QED  BY <1>2, <2>1, ProgConcat
<1>4. ASSUME NEW d PROVE RunOn(d, (s \o q) \o t) = RunOn(d, s \o (q \o t))
  <2>1. RunOn(d, (s \o q) \o t) = RunOn(RunOn(d, s \o q), t)
    BY <1>2, <1>3, RunConcat
  <2>2. RunOn(d, s \o q) = RunOn(RunOn(d, s), q)
    BY <1>2, RunConcat
  <2>3. RunOn(d, s \o (q \o t)) = RunOn(RunOn(d, s), q \o t)
    BY <1>2, <1>3, RunConcat
  <2>4. RunOn(RunOn(d, s), q \o t) = RunOn(RunOn(RunOn(d, s), q), t)
    BY <1>2, RunConcat
  <2> QED  BY <2>1, <2>2, <2>3, <2>4
<1>5. MetalAttention(l, p) = (s \o q) \o t /\ TokenAttention(l, <<p, p + 1>>) = s \o (q \o t)
  BY <1>1 DEF MetalAttention, TokenAttention, HeadsAt
<1>6. CudaAttnPhaseFromQkv(l) = HeadsAt(l, <<>>)
  BY DEF CudaAttnPhaseFromQkv, HeadsAt
<1>7. CudaAttnPhase(l) = TokenAttention(l, <<>>)
  BY <1>6 DEF CudaAttnPhase, TokenAttention
<1>8. Prog(TokenAttention(l, <<>>))
  BY <1>1, <1>2, HeadsProg, ProgConcat DEF TokenAttention
<1> QED  BY <1>3, <1>4, <1>5, <1>6, <1>7, <1>8

-----------------------------------------------------------------------------
\* One token, from attention to the end of the block.
RestScratch == {One("hidden"), One("normed"), One("gate_up"), One("swiglu")}
Blocked(d, e, l, hs, p) ==
    /\ Device(e) /\ e.cache = d.cache /\ Kept(d, e, RestScratch)
    /\ e.mem[One("hidden")] = RefBlock(l, hs, p + 1)

\* The cells of the feed-forward part.
LEMMA RestCells ==
  /\ {One("hidden"), One("normed"), One("gate_up"), One("swiglu"), One("attn_out")} \subseteq Cells
  /\ One("hidden") # One("normed") /\ One("hidden") # One("gate_up") /\ One("hidden") # One("swiglu")
  /\ One("normed") # One("gate_up") /\ One("normed") # One("swiglu") /\ One("gate_up") # One("swiglu")
  /\ One("attn_out") \notin {One("hidden"), One("normed"), One("gate_up"), One("swiglu")}
BY CellNames DEF OneNames

\* 1-bit: the projections add to the residual.
LEMMA FusedRestRuns ==
  ASSUME NEW d, Device(d), NEW l, NEW hs, NEW p,
         d.mem[One("hidden")] = hs[p + 1], d.mem[One("attn_out")] = RefAttention(l, hs, p + 1)
  PROVE  Prog(FusedRest(l)) /\ Blocked(d, RunOn(d, FusedRest(l)), l, hs, p)
<1>1. PICK x1, x2, x3, x4 :
         /\ x1 = MulAdd(<<"o", l>>, One("attn_out"), One("hidden"))
         /\ x2 = RmsNorm(<<"ffn_norm", l>>, One("hidden"), One("normed"))
         /\ x3 = GateUpSwiglu(l, One("normed"), One("swiglu"))
         /\ x4 = MulAdd(<<"down", l>>, One("swiglu"), One("hidden"))
  OBVIOUS
<1>2. PICK d1, d2, d3, e :
         d1 = Apply(x1, d) /\ d2 = Apply(x2, d1) /\ d3 = Apply(x3, d2) /\ e = Apply(x4, d3)
  OBVIOUS
<1>3. Prog(FusedRest(l)) /\ RunOn(d, FusedRest(l)) = e
  <2>1. FusedRest(l) = <<x1, x2, x3, x4>>
    BY <1>1 DEF FusedRest
  <2> QED  BY <1>2, <2>1, RunFour
<1> USE RestCells
<1>4. PICK x : x = Plus(hs[p + 1], <<"mul", <<"o", l>>, RefAttention(l, hs, p + 1)>>)
  OBVIOUS
<1>5. IsPut(d, d1, One("hidden"), x)
  BY <1>1, <1>2, <1>4, Sets
<1>6. IsPut(d1, d2, One("normed"), <<"rmsnorm", <<"ffn_norm", l>>, x>>)
  <2>1. Device(d1) /\ d1.mem[One("hidden")] = x
    BY <1>5 DEF IsPut
  <2> QED  BY <1>1, <1>2, <2>1, Sets
<1>7. PICK gate : gate = <<"mul", <<"gate_up", l>>, <<"rmsnorm", <<"ffn_norm", l>>, x>>>>
  OBVIOUS
<1>8. IsPut(d2, d3, One("swiglu"), <<"swiglu", NoWeight, gate>>)
  <2>1. Device(d2) /\ d2.mem[One("normed")] = <<"rmsnorm", <<"ffn_norm", l>>, x>>
    BY <1>6 DEF IsPut
  <2> QED  BY <1>1, <1>2, <1>7, <2>1, Sets
<1>9. IsPut(d3, e, One("hidden"), Plus(x, <<"mul", <<"down", l>>, <<"swiglu", NoWeight, gate>>>>))
  <2>1. Device(d3) /\ d3.mem[One("swiglu")] = <<"swiglu", NoWeight, gate>>
    BY <1>8 DEF IsPut
  <2>2. d3.mem[One("hidden")] = x
    BY <1>5, <1>6, <1>8 DEF IsPut
  <2>3. IsPut(d3, e, One("hidden"), Plus(d3.mem[One("hidden")], <<"mul", <<"down", l>>,
              d3.mem[One("swiglu")]>>))
    BY <1>1, <1>2, <2>1, Sets
  <2> QED  BY <2>1, <2>2, <2>3
<1>10. RefBlock(l, hs, p + 1) = Plus(x, <<"mul", <<"down", l>>, <<"swiglu", NoWeight, gate>>>>)
  BY <1>4, <1>7 DEF RefBlock
<1>11. Device(e) /\ e.cache = d.cache /\ Kept(d, e, RestScratch)
  BY <1>5, <1>6, <1>8, <1>9 DEF IsPut, Kept, RestScratch
<1>12. e.mem[One("hidden")] = RefBlock(l, hs, p + 1)
  BY <1>9, <1>10 DEF IsPut
<1> QED  BY <1>3, <1>11, <1>12 DEF Blocked

\* Ternary: through d_normed and residual_add.
LEMMA SteppedRestRuns ==
  ASSUME NEW d, Device(d), NEW l, NEW hs, NEW p,
         d.mem[One("hidden")] = hs[p + 1], d.mem[One("attn_out")] = RefAttention(l, hs, p + 1)
  PROVE  Prog(SteppedRest(l)) /\ Blocked(d, RunOn(d, SteppedRest(l)), l, hs, p)
<1>1. PICK x1, x2, x3, x4, x5, x6, x7 :
         /\ x1 = Mul(<<"o", l>>, One("attn_out"), One("normed"))
         /\ x2 = ResidualAdd(One("hidden"), One("normed"))
         /\ x3 = RmsNorm(<<"ffn_norm", l>>, One("hidden"), One("normed"))
         /\ x4 = Mul(<<"gate_up", l>>, One("normed"), One("gate_up"))
         /\ x5 = Swiglu(One("gate_up"), One("swiglu"))
         /\ x6 = Mul(<<"down", l>>, One("swiglu"), One("normed"))
         /\ x7 = ResidualAdd(One("hidden"), One("normed"))
  OBVIOUS
<1>2. PICK d1, d2, d3, d4, d5, d6, e :
         /\ d1 = Apply(x1, d) /\ d2 = Apply(x2, d1) /\ d3 = Apply(x3, d2) /\ d4 = Apply(x4, d3)
         /\ d5 = Apply(x5, d4) /\ d6 = Apply(x6, d5) /\ e = Apply(x7, d6)
  OBVIOUS
<1>3. Prog(SteppedRest(l)) /\ RunOn(d, SteppedRest(l)) = e
  <2>1. SteppedRest(l) = <<x1, x2, x3, x4, x5, x6, x7>>
    BY <1>1 DEF SteppedRest
  <2> QED  BY <1>2, <2>1, RunSeven
<1> USE RestCells
<1>4. PICK o, x : o = <<"mul", <<"o", l>>, RefAttention(l, hs, p + 1)>> /\ x = Plus(hs[p + 1], o)
  OBVIOUS
<1>5. IsPut(d, d1, One("normed"), o)
  BY <1>1, <1>2, <1>4, Sets
<1>6. IsPut(d1, d2, One("hidden"), x)
  <2>1. Device(d1) /\ d1.mem[One("normed")] = o /\ d1.mem[One("hidden")] = hs[p + 1]
    BY <1>5 DEF IsPut
  <2>2. IsPut(d1, d2, One("hidden"), Plus(d1.mem[One("hidden")], d1.mem[One("normed")]))
    BY <1>1, <1>2, <2>1, Sets
  <2> QED  BY <1>4, <2>1, <2>2
<1>7. IsPut(d2, d3, One("normed"), <<"rmsnorm", <<"ffn_norm", l>>, x>>)
  <2>1. Device(d2) /\ d2.mem[One("hidden")] = x
    BY <1>6 DEF IsPut
  <2> QED  BY <1>1, <1>2, <2>1, Sets
<1>8. PICK gate, down : /\ gate = <<"mul", <<"gate_up", l>>, <<"rmsnorm", <<"ffn_norm", l>>, x>>>>
                        /\ down = <<"mul", <<"down", l>>, <<"swiglu", NoWeight, gate>>>>
  OBVIOUS
<1>9. IsPut(d3, d4, One("gate_up"), gate)
  <2>1. Device(d3) /\ d3.mem[One("normed")] = <<"rmsnorm", <<"ffn_norm", l>>, x>>
    BY <1>7 DEF IsPut
  <2> QED  BY <1>1, <1>2, <1>8, <2>1, Sets
<1>10. IsPut(d4, d5, One("swiglu"), <<"swiglu", NoWeight, gate>>)
  <2>1. Device(d4) /\ d4.mem[One("gate_up")] = gate
    BY <1>9 DEF IsPut
  <2> QED  BY <1>1, <1>2, <2>1, Sets
<1>11. IsPut(d5, d6, One("normed"), down)
  <2>1. Device(d5) /\ d5.mem[One("swiglu")] = <<"swiglu", NoWeight, gate>>
    BY <1>10 DEF IsPut
  <2>2. IsPut(d5, d6, One("normed"), <<"mul", <<"down", l>>, d5.mem[One("swiglu")]>>)
    BY <1>1, <1>2, <2>1, Sets, ZenonT(30)
  <2> QED  BY <1>8, <2>1, <2>2
<1>12. IsPut(d6, e, One("hidden"), Plus(x, down))
  <2>1. Device(d6) /\ d6.mem[One("normed")] = down
    BY <1>11 DEF IsPut
  <2>2. d6.mem[One("hidden")] = x
    BY <1>6, <1>7, <1>9, <1>10, <1>11 DEF IsPut
  <2>3. IsPut(d6, e, One("hidden"), Plus(d6.mem[One("hidden")], d6.mem[One("normed")]))
    BY <1>1, <1>2, <2>1, Sets, ZenonT(30)
  <2> QED  BY <2>1, <2>2, <2>3
<1>13. RefBlock(l, hs, p + 1) = Plus(x, down)
  BY <1>4, <1>8 DEF RefBlock
<1>14. Device(e) /\ e.cache = d.cache
  BY <1>5, <1>6, <1>7, <1>9, <1>10, <1>11, <1>12 DEF IsPut
<1>15. Kept(d, e, RestScratch)
  <2> SUFFICES ASSUME NEW z \in Cells \ RestScratch PROVE e.mem[z] = d.mem[z]
    BY DEF Kept
  <2>1. z \notin {One("hidden"), One("normed"), One("gate_up"), One("swiglu")}
    BY DEF RestScratch
  <2>2. d1.mem[z] = d.mem[z] /\ d2.mem[z] = d1.mem[z] /\ d3.mem[z] = d2.mem[z]
    BY <1>5, <1>6, <1>7, <2>1 DEF IsPut
  <2>3. d4.mem[z] = d3.mem[z] /\ d5.mem[z] = d4.mem[z] /\ d6.mem[z] = d5.mem[z] /\ e.mem[z] = d6.mem[z]
    BY <1>9, <1>10, <1>11, <1>12, <2>1 DEF IsPut
  <2> QED  BY <2>2, <2>3
<1>16. e.mem[One("hidden")] = RefBlock(l, hs, p + 1)
  BY <1>12, <1>13 DEF IsPut
<1> QED  BY <1>3, <1>14, <1>15, <1>16 DEF Blocked

-----------------------------------------------------------------------------
\* A program that takes layer l of the token at position p from a hidden state
\* in one cell to the next, and its position and its rotation stay.
LayerStep(s, l, p, at, hid) ==
    /\ Prog(s)
    /\ \A d, hs :
          /\ Device(d) /\ Placed(d, at, p) /\ RowsRight(d, l, hs, p) /\ d.mem[hid] = hs[p + 1]
          /\ hid = One("hidden") => d.mem[One("rope")] = Rope(p)
          => /\ Device(RunOn(d, s)) /\ Placed(RunOn(d, s), at, p)
             /\ OtherRows(d, RunOn(d, s), l, p) /\ RowsRight(RunOn(d, s), l, hs, p + 1)
             /\ RunOn(d, s).mem[hid] = RefBlock(l, hs, p + 1)
             /\ hid = One("hidden") => RunOn(d, s).mem[One("rope")] = Rope(p)

\* Either way it is the rest of the block.
LEMMA RestRuns ==
  ASSUME NEW l, NEW t \in {FusedRest(l), SteppedRest(l)}
  PROVE  /\ Prog(t)
         /\ \A d, hs, p : /\ Device(d) /\ d.mem[One("hidden")] = hs[p + 1]
                          /\ d.mem[One("attn_out")] = RefAttention(l, hs, p + 1)
                          => Blocked(d, RunOn(d, t), l, hs, p)
<1>1. Prog(FusedRest(l)) /\ Prog(SteppedRest(l))
  BY RunFour, RunSeven DEF FusedRest, SteppedRest
<1> QED  BY <1>1, FusedRestRuns, SteppedRestRuns

\* Attention and one of the two rests are such a step.
LEMMA LayerOfToken ==
  ASSUME NEW l \in 1 .. Depth, NEW p \in 0 .. Slots - 1, NEW at, NEW a, Prog(a),
         \A d : RunOn(d, a) = RunOn(d, TokenAttention(l, at)),
         NEW t \in {FusedRest(l), SteppedRest(l)}
  PROVE  LayerStep(a \o t, l, p, at, One("hidden"))
<1>1. Prog(t) /\ Prog(a \o t)
  BY RestRuns, ProgConcat
<1>2. ASSUME NEW d, NEW hs, Device(d), Placed(d, at, p), RowsRight(d, l, hs, p),
             d.mem[One("hidden")] = hs[p + 1], d.mem[One("rope")] = Rope(p),
             NEW e, e = RunOn(d, a \o t)
      PROVE  /\ Device(e) /\ Placed(e, at, p) /\ OtherRows(d, e, l, p) /\ RowsRight(e, l, hs, p + 1)
             /\ e.mem[One("hidden")] = RefBlock(l, hs, p + 1) /\ e.mem[One("rope")] = Rope(p)
  <2>1. PICK c : c = RunOn(d, TokenAttention(l, at))
    OBVIOUS
  <2>2. e = RunOn(c, t)
    BY <1>1, <1>2, <2>1, RunConcat
  <2>3. Attended(d, c, l, hs, p, One("attn_out"), TokenScratch)
    BY <1>2, <2>1, AttentionOfToken
  <2>4. /\ {One("rope"), One("pos"), One("hidden")} \subseteq Cells
        /\ \A z \in {One("rope"), One("pos")} : z \notin TokenScratch /\ z \notin RestScratch
        /\ One("hidden") \notin TokenScratch
    BY CellNames DEF OneNames, TokenScratch, HeadScratch, RestScratch
  <2>5. Device(c) /\ c.mem[One("hidden")] = hs[p + 1] /\ c.mem[One("attn_out")] = RefAttention(l, hs, p + 1)
    BY <1>2, <2>3, <2>4 DEF Attended, Kept
  <2>6. Blocked(c, e, l, hs, p)
    BY <2>2, <2>5, RestRuns
  <2>7. e.mem[One("rope")] = d.mem[One("rope")] /\ e.mem[One("pos")] = d.mem[One("pos")]
    BY <2>3, <2>4, <2>6 DEF Attended, Blocked, Kept
  <2>8. Placed(e, at, p)
    BY <1>2, <2>7 DEF Placed
  <2>9. OtherRows(d, e, l, p) /\ RowsRight(e, l, hs, p + 1)
    BY <2>3, <2>6 DEF Attended, Blocked, OtherRows, RowsRight
  <2> QED  BY <1>2, <2>6, <2>7, <2>8, <2>9 DEF Blocked
<1> QED  BY <1>1, <1>2 DEF LayerStep

-----------------------------------------------------------------------------
\* Running one program, then another.
Then(d, s, e) == Prog(s) /\ e = RunOn(d, s)

\* They make one program.
LEMMA ThenConcat ==
  ASSUME NEW d, NEW s, NEW e, NEW t, NEW f, Then(d, s, e), Then(e, t, f)
  PROVE  Then(d, s \o t, f)
BY RunConcat, ProgConcat DEF Then

\* Cells with the values they keep through the layers: the position of a token
\* and its rotation, where the host uploads them once.
Holds(d, env) == \A c, v : <<c, v>> \in env => d.mem[c] = v
OtherLayers(d, e, l) ==
    \A j \in 1 .. Depth, i \in 0 .. Slots - 1 : j # l => e.cache[j][i] = d.cache[j][i]

\* A program that takes n tokens behind position p through layer l; hid is where
\* the hidden state of each is.
LayerDone(d, e, l, hs, p, n, hid, env) ==
    /\ Device(e) /\ Holds(e, env) /\ OtherLayers(d, e, l) /\ RowsRight(e, l, hs, p + n)
    /\ \A c \in 0 .. n - 1 : e.mem[hid[c]] = RefBlock(l, hs, p + c + 1)
BatchStep(s, l, p, n, hid, env) ==
    /\ Prog(s)
    /\ \A d, hs :
          /\ Device(d) /\ Holds(d, env) /\ RowsRight(d, l, hs, p)
          /\ \A c \in 0 .. n - 1 : d.mem[hid[c]] = hs[p + c + 1]
          => LayerDone(d, RunOn(d, s), l, hs, p, n, hid, env)

\* The reference: h[l][i] is the hidden state of token i after layer l.
Grows(h, n) == \A l \in 1 .. Depth, i \in 1 .. n : h[l][i] = RefBlock(l, h[l - 1], i)

\* Behind the first m layers.
Behind(d, m, h, p, n, hid, env) ==
    /\ Device(d) /\ Holds(d, env)
    /\ \A c \in 0 .. n - 1 : d.mem[hid[c]] = h[m][p + c + 1]
    /\ \A j \in 1 .. m : RowsRight(d, j, h[j - 1], p + n)
    /\ \A j \in m + 1 .. Depth : RowsRight(d, j, h[j - 1], p)

\* One layer takes the tokens from behind m layers to behind m + 1.
LEMMA LayerRuns ==
  ASSUME NEW m \in 0 .. Depth - 1, NEW h, NEW p \in Nat, NEW n \in Nat \ {0}, p + n <= Slots,
         Grows(h, p + n), NEW hid, NEW env, NEW d, Behind(d, m, h, p, n, hid, env),
         NEW s, BatchStep(s, m + 1, p, n, hid, env), NEW e, e = RunOn(d, s)
  PROVE  Behind(e, m + 1, h, p, n, hid, env)
<1> USE SizeAssumption
<1>1. m + 1 \in 1 .. Depth /\ (m + 1) - 1 = m
  OBVIOUS
<1>2. LayerDone(d, e, m + 1, h[m], p, n, hid, env)
  <2>1. RowsRight(d, m + 1, h[m], p)
    BY <1>1, SMTT(30) DEF Behind
  <2> QED  BY <2>1 DEF Behind, BatchStep
<1>3. ASSUME NEW c \in 0 .. n - 1 PROVE e.mem[hid[c]] = h[m + 1][p + c + 1]
  <2>1. p + c + 1 \in 1 .. p + n
    OBVIOUS
  <2>2. h[m + 1][p + c + 1] = RefBlock(m + 1, h[m], p + c + 1)
    BY <1>1, <2>1 DEF Grows
  <2> QED  BY <1>2, <2>2 DEF LayerDone
<1>4. ASSUME NEW j \in 1 .. Depth, j # m + 1, NEW k \in 0 .. Slots, RowsRight(d, j, h[j - 1], k)
      PROVE  RowsRight(e, j, h[j - 1], k)
  <2>1. \A i \in 1 .. k : i - 1 \in 0 .. Slots - 1
    OBVIOUS
  <2> QED  BY <1>2, <1>4, <2>1 DEF LayerDone, OtherLayers, RowsRight
<1>5. ASSUME NEW j \in 1 .. m + 1 PROVE RowsRight(e, j, h[j - 1], p + n)
  <2>1. CASE j = m + 1
    BY <1>1, <1>2, <2>1 DEF LayerDone
  <2>2. CASE j # m + 1
    <3>1. j \in 1 .. m /\ j \in 1 .. Depth /\ p + n \in 0 .. Slots
      BY <2>2
    <3> QED  BY <1>4, <2>2, <3>1 DEF Behind
  <2> QED  BY <2>1, <2>2
<1>6. ASSUME NEW j \in (m + 1) + 1 .. Depth PROVE RowsRight(e, j, h[j - 1], p)
  <2>1. j \in m + 1 .. Depth /\ j \in 1 .. Depth /\ j # m + 1 /\ p \in 0 .. Slots
    OBVIOUS
  <2> QED  BY <1>4, <2>1 DEF Behind
<1>7. Device(e) /\ Holds(e, env)
  BY <1>2 DEF LayerDone
<1> QED  BY <1>3, <1>5, <1>6, <1>7 DEF Behind

\* One such program after the other.
LEMMA LayersRun ==
  ASSUME NEW h, NEW p \in Nat, NEW n \in Nat \ {0}, p + n <= Slots, Grows(h, p + n),
         NEW hid, NEW env, NEW d, Behind(d, 0, h, p, n, hid, env),
         NEW seqs, seqs = [l \in 1 .. Depth |-> seqs[l]],
         \A l \in 1 .. Depth : BatchStep(seqs[l], l, p, n, hid, env)
  PROVE  /\ Prog(FlattenSeq(seqs))
         /\ Behind(RunOn(d, FlattenSeq(seqs)), Depth, h, p, n, hid, env)
<1> USE SizeAssumption
<1>1. \A l \in 1 .. Depth : Prog(seqs[l])
  BY DEF BatchStep
<1>2. PICK st : /\ st[0] = d /\ RunOn(d, FlattenSeq(seqs)) = st[Depth]
                /\ \A i \in 1 .. Depth : st[i] = RunOn(st[i - 1], seqs[i])
  <2>1. PICK k \in Nat \ {0} : k = Depth
    OBVIOUS
  <2>2. seqs = [i \in 1 .. k |-> seqs[i]] /\ \A i \in 1 .. k : Prog(seqs[i])
    BY <1>1, <2>1
  <2>3. FlatRuns(d, seqs, k)
    BY <2>2, RunFlat
  <2> QED  BY <2>1, <2>3 DEF FlatRuns
<1> DEFINE Wrong == {m \in 0 .. Depth : ~ Behind(st[m], m, h, p, n, hid, env)}
<1>3. Wrong = {}
  <2> SUFFICES ASSUME Wrong # {} PROVE FALSE
    OBVIOUS
  <2>1. PICK m \in Wrong : \A k \in Wrong : m <= k
    <3>1. Wrong \in SUBSET Nat
      OBVIOUS
    <3> HIDE DEF Wrong
    <3> QED  BY <3>1, LeastElement
  <2>2. m # 0
    BY <1>2
  <2>3. m - 1 \in 0 .. Depth - 1 /\ m - 1 \in 0 .. Depth /\ (m - 1) + 1 = m /\ ~ (m <= m - 1)
              /\ m \in 1 .. Depth
    BY <2>2
  <2>4. Behind(st[m - 1], m - 1, h, p, n, hid, env)
    BY <2>1, <2>3
  <2>5. BatchStep(seqs[(m - 1) + 1], (m - 1) + 1, p, n, hid, env) /\ st[m] = RunOn(st[m - 1], seqs[(m - 1) + 1])
    BY <1>2, <2>3
  <2>6. PICK k \in 0 .. Depth - 1 : k = m - 1
    BY <2>3
  <2>7. Behind(st[m], k + 1, h, p, n, hid, env)
    <3>1. PICK s : s = seqs[k + 1]
      OBVIOUS
    <3>2. Behind(st[k], k, h, p, n, hid, env) /\ BatchStep(s, k + 1, p, n, hid, env) /\ st[m] = RunOn(st[k], s)
      BY <2>4, <2>5, <2>6, <3>1
    <3> HIDE DEF Wrong
    <3> QED  BY <3>2, LayerRuns
  <2> QED  BY <2>3, <2>6, <2>7
<1>4. Prog(FlattenSeq(seqs))
  <2>1. PICK k \in Nat \ {0} : k = Depth
    OBVIOUS
  <2>2. seqs = [i \in 1 .. k |-> seqs[i]] /\ \A i \in 1 .. k : Prog(seqs[i])
    BY <1>1, <2>1
  <2>3. FlatRuns(d, seqs, k)
    BY <2>2, RunFlat
  <2> QED  BY <2>3 DEF FlatRuns
<1> QED  BY <1>2, <1>3, <1>4

-----------------------------------------------------------------------------
\* The layers of one token, for each back end.
Alone(cell) == [c \in 0 .. 0 |-> cell]
OnDevice(p) == {<<One("pos"), PosSeqlen(p)>>, <<One("rope"), Rope(p)>>}
AsArguments(p) == {<<One("rope"), Rope(p)>>}

\* Who leaves all rows but one leaves the other layers.
LEMMA OtherRowsOfLayer ==
  ASSUME NEW d, NEW e, NEW l, NEW p, OtherRows(d, e, l, p)
  PROVE  OtherLayers(d, e, l)
BY DEF OtherRows, OtherLayers

\* What a step of one token leaves, as that of a batch of one.
LEMMA AloneDone ==
  ASSUME NEW d, NEW e, NEW l, NEW p \in Nat, NEW hs, NEW cell, NEW env,
         Device(e), Holds(e, env), OtherRows(d, e, l, p), RowsRight(e, l, hs, p + 1),
         e.mem[cell] = RefBlock(l, hs, p + 1)
  PROVE  LayerDone(d, e, l, hs, p, 1, Alone(cell), env)
<1>1. ASSUME NEW c \in 0 .. 1 - 1 PROVE e.mem[Alone(cell)[c]] = RefBlock(l, hs, p + c + 1)
  <2>1. c = 0 /\ c \in 0 .. 0 /\ p + c + 1 = p + 1
    OBVIOUS
  <2>2. Alone(cell)[c] = cell
    BY <2>1 DEF Alone
  <2> QED  BY <2>1, <2>2
<1>2. OtherLayers(d, e, l)
  BY OtherRowsOfLayer
<1> QED  BY <1>1, <1>2 DEF LayerDone

\* Where the one token of a call is.
LEMMA AloneStarts ==
  ASSUME NEW d, NEW p \in Nat, NEW hs, NEW cell,
         \A c \in 0 .. 1 - 1 : d.mem[Alone(cell)[c]] = hs[p + c + 1]
  PROVE  d.mem[cell] = hs[p + 1]
<1>1. 0 \in 0 .. 1 - 1 /\ 0 \in 0 .. 0 /\ p + 0 + 1 = p + 1
  OBVIOUS
<1>2. Alone(cell)[0] = cell
  BY <1>1 DEF Alone
<1>3. d.mem[Alone(cell)[0]] = hs[p + 0 + 1]
  BY <1>1
<1> QED  BY <1>1, <1>2, <1>3

\* Position read from the device.
LEMMA DeviceStep ==
  ASSUME NEW l \in 1 .. Depth, NEW p \in 0 .. Slots - 1, NEW s, LayerStep(s, l, p, <<>>, One("hidden"))
  PROVE  BatchStep(s, l, p, 1, Alone(One("hidden")), OnDevice(p))
<1> USE SizeAssumption
<1>1. ASSUME NEW d, NEW hs, Device(d), Holds(d, OnDevice(p)), RowsRight(d, l, hs, p),
             \A c \in 0 .. 1 - 1 : d.mem[Alone(One("hidden"))[c]] = hs[p + c + 1],
             NEW e, e = RunOn(d, s)
      PROVE  LayerDone(d, e, l, hs, p, 1, Alone(One("hidden")), OnDevice(p))
  <2>1. d.mem[One("hidden")] = hs[p + 1]
    BY <1>1, AloneStarts
  <2>2. d.mem[One("pos")] = PosSeqlen(p) /\ d.mem[One("rope")] = Rope(p)
    <3>1. <<One("pos"), PosSeqlen(p)>> \in OnDevice(p) /\ <<One("rope"), Rope(p)>> \in OnDevice(p)
      BY DEF OnDevice
    <3> QED  BY <1>1, <3>1 DEF Holds
  <2>3. Placed(d, <<>>, p)
    BY <2>2 DEF Placed
  <2>4. /\ Device(e) /\ Placed(e, <<>>, p) /\ OtherRows(d, e, l, p) /\ RowsRight(e, l, hs, p + 1)
        /\ e.mem[One("hidden")] = RefBlock(l, hs, p + 1) /\ e.mem[One("rope")] = Rope(p)
    BY <1>1, <2>1, <2>2, <2>3 DEF LayerStep
  <2>5. e.mem[One("pos")] = PosSeqlen(p)
    <3>1. <<>> # <<p, p + 1>>
      OBVIOUS
    <3> QED  BY <2>4, <3>1 DEF Placed
  <2>6. Holds(e, OnDevice(p))
    BY <2>4, <2>5 DEF Holds, OnDevice
  <2> QED  BY <2>4, <2>6, AloneDone
<1>2. Prog(s)
  BY DEF LayerStep
<1> QED  BY <1>1, <1>2 DEF BatchStep

\* Position as an argument.
LEMMA ArgumentStep ==
  ASSUME NEW l \in 1 .. Depth, NEW p \in 0 .. Slots - 1, NEW s,
         LayerStep(s, l, p, <<p, p + 1>>, One("hidden"))
  PROVE  BatchStep(s, l, p, 1, Alone(One("hidden")), AsArguments(p))
<1> USE SizeAssumption
<1>1. ASSUME NEW d, NEW hs, Device(d), Holds(d, AsArguments(p)), RowsRight(d, l, hs, p),
             \A c \in 0 .. 1 - 1 : d.mem[Alone(One("hidden"))[c]] = hs[p + c + 1],
             NEW e, e = RunOn(d, s)
      PROVE  LayerDone(d, e, l, hs, p, 1, Alone(One("hidden")), AsArguments(p))
  <2>1. d.mem[One("hidden")] = hs[p + 1]
    BY <1>1, AloneStarts
  <2>2. d.mem[One("rope")] = Rope(p)
    BY <1>1 DEF Holds, AsArguments
  <2>3. Placed(d, <<p, p + 1>>, p)
    BY DEF Placed
  <2>4. /\ Device(e) /\ OtherRows(d, e, l, p) /\ RowsRight(e, l, hs, p + 1)
        /\ e.mem[One("hidden")] = RefBlock(l, hs, p + 1) /\ e.mem[One("rope")] = Rope(p)
    BY <1>1, <2>1, <2>2, <2>3 DEF LayerStep
  <2>6. Holds(e, AsArguments(p))
    BY <2>4 DEF Holds, AsArguments
  <2> QED  BY <2>4, <2>6, AloneDone
<1>2. Prog(s)
  BY DEF LayerStep
<1> QED  BY <1>1, <1>2 DEF BatchStep

\* Everything from the host.
LEMMA HostStep ==
  ASSUME NEW l \in 1 .. Depth, NEW p \in 0 .. Slots - 1, NEW s,
         LayerStep(s, l, p, <<p, p + 1>>, Host("hidden"))
  PROVE  BatchStep(s, l, p, 1, Alone(Host("hidden")), {})
<1> USE SizeAssumption
<1>1. ASSUME NEW d, NEW hs, Device(d), Holds(d, {}), RowsRight(d, l, hs, p),
             \A c \in 0 .. 1 - 1 : d.mem[Alone(Host("hidden"))[c]] = hs[p + c + 1],
             NEW e, e = RunOn(d, s)
      PROVE  LayerDone(d, e, l, hs, p, 1, Alone(Host("hidden")), {})
  <2>1. d.mem[Host("hidden")] = hs[p + 1]
    BY <1>1, AloneStarts
  <2>2. Host("hidden") # One("hidden")
    BY CellNames
  <2>3. Placed(d, <<p, p + 1>>, p)
    BY DEF Placed
  <2>4. /\ Device(e) /\ OtherRows(d, e, l, p) /\ RowsRight(e, l, hs, p + 1)
        /\ e.mem[Host("hidden")] = RefBlock(l, hs, p + 1)
    BY <1>1, <2>1, <2>2, <2>3 DEF LayerStep
  <2>6. Holds(e, {})
    BY DEF Holds
  <2> QED  BY <2>4, <2>6, AloneDone
<1>2. Prog(s)
  BY DEF LayerStep
<1> QED  BY <1>1, <1>2 DEF BatchStep

\* encode_full_layer: up, the layer, down again.
LEMMA FullLayer ==
  ASSUME NEW l \in 1 .. Depth, NEW p \in 0 .. Slots - 1, NEW s,
         LayerStep(s, l, p, <<p, p + 1>>, One("hidden"))
  PROVE  LayerStep(<< Copy(Host("hidden"), One("hidden")), Upload(Rope(p), One("rope")) >>
                   \o s \o << Copy(One("hidden"), Host("hidden")) >>, l, p, <<p, p + 1>>, Host("hidden"))
<1>1. PICK x1, x2, x3 : /\ x1 = Copy(Host("hidden"), One("hidden")) /\ x2 = Upload(Rope(p), One("rope"))
                        /\ x3 = Copy(One("hidden"), Host("hidden"))
  OBVIOUS
<1>2. PICK t : t = <<x1, x2>> \o s \o <<x3>>
  OBVIOUS
<1>3. /\ {Host("hidden"), One("hidden"), One("rope")} \subseteq Cells
      /\ Host("hidden") # One("hidden") /\ One("hidden") # One("rope")
  BY CellNames DEF OneNames
<1>4. Prog(s)
  BY DEF LayerStep
<1>5. Prog(t) /\ \A d : RunOn(d, t) = Apply(x3, RunOn(Apply(x2, Apply(x1, d)), s))
  <2> SUFFICES ASSUME NEW d PROVE Prog(t) /\ RunOn(d, t) = Apply(x3, RunOn(Apply(x2, Apply(x1, d)), s))
    OBVIOUS
  <2>0. PICK a, b : a = Apply(x2, Apply(x1, d)) /\ b = RunOn(a, s)
    OBVIOUS
  <2>1. Then(d, <<x1, x2>>, a)
    BY <2>0, RunTwo DEF Then
  <2>2. Then(a, s, b)
    BY <1>4, <2>0 DEF Then
  <2>3. Then(d, <<x1, x2>> \o s, b)
    BY <2>1, <2>2, ThenConcat
  <2>4. Then(b, <<x3>>, Apply(x3, b))
    BY RunOne DEF Then
  <2>5. Then(d, t, Apply(x3, b))
    BY <1>2, <2>3, <2>4, ThenConcat
  <2> QED  BY <2>0, <2>5 DEF Then
<1>6. ASSUME NEW d, NEW hs, Device(d), RowsRight(d, l, hs, p), d.mem[Host("hidden")] = hs[p + 1],
             NEW e, e = RunOn(d, t)
      PROVE  /\ Device(e) /\ OtherRows(d, e, l, p) /\ RowsRight(e, l, hs, p + 1)
             /\ e.mem[Host("hidden")] = RefBlock(l, hs, p + 1)
  <2>1. PICK d1, d2, d3 : d1 = Apply(x1, d) /\ d2 = Apply(x2, d1) /\ d3 = RunOn(d2, s)
    OBVIOUS
  <2>2. e = Apply(x3, d3)
    BY <1>5, <1>6, <2>1
  <2>3. IsPut(d, d1, One("hidden"), hs[p + 1])
    BY <1>1, <1>3, <1>6, <2>1, Sets
  <2>4. IsPut(d1, d2, One("rope"), Rope(p))
    <3>1. Device(d1)
      BY <2>3 DEF IsPut
    <3> QED  BY <1>1, <1>3, <2>1, <3>1, Sets
  <2>5. /\ Device(d2) /\ d2.cache = d.cache /\ d2.mem[One("hidden")] = hs[p + 1]
        /\ d2.mem[One("rope")] = Rope(p) /\ RowsRight(d2, l, hs, p) /\ Placed(d2, <<p, p + 1>>, p)
    BY <1>3, <1>6, <2>3, <2>4 DEF IsPut, RowsRight, Placed
  <2>6. /\ Device(d3) /\ OtherRows(d2, d3, l, p) /\ RowsRight(d3, l, hs, p + 1)
        /\ d3.mem[One("hidden")] = RefBlock(l, hs, p + 1)
    BY <2>1, <2>5 DEF LayerStep
  <2>7. IsPut(d3, e, Host("hidden"), RefBlock(l, hs, p + 1))
    BY <1>1, <1>3, <2>2, <2>6, Sets
  <2>8. OtherRows(d, e, l, p) /\ RowsRight(e, l, hs, p + 1)
    BY <2>5, <2>6, <2>7 DEF IsPut, OtherRows, RowsRight
  <2> QED  BY <2>7, <2>8 DEF IsPut
<1>7. \A d : Placed(d, <<p, p + 1>>, p)
  BY DEF Placed
<1>8. LayerStep(t, l, p, <<p, p + 1>>, Host("hidden"))
  BY <1>3, <1>5, <1>6, <1>7 DEF LayerStep
<1> QED  BY <1>1, <1>2, <1>8

\* The six layers of one token.
LEMMA TokenLayers ==
  ASSUME NEW l \in 1 .. Depth, NEW p \in 0 .. Slots - 1
  PROVE  /\ BatchStep(CudaLayerDevice(l), l, p, 1, Alone(One("hidden")), OnDevice(p))
         /\ BatchStep(CudaLayerTernary(l), l, p, 1, Alone(One("hidden")), OnDevice(p))
         /\ BatchStep(MetalLayer(l, p), l, p, 1, Alone(One("hidden")), AsArguments(p))
         /\ BatchStep(MetalLayerTernary(l, p), l, p, 1, Alone(One("hidden")), AsArguments(p))
         /\ BatchStep(MetalFullLayer(l, p), l, p, 1, Alone(Host("hidden")), {})
         /\ BatchStep(MetalFullLayerTernary(l, p), l, p, 1, Alone(Host("hidden")), {})
<1>1. PICK f, s, a, m : f = FusedRest(l) /\ s = SteppedRest(l) /\ a = TokenAttention(l, <<>>)
                        /\ m = MetalAttention(l, p)
  OBVIOUS
<1>2. /\ CudaLayerDevice(l) = a \o f /\ CudaLayerTernary(l) = a \o s
      /\ MetalLayer(l, p) = m \o f /\ MetalLayerTernary(l, p) = m \o s
  BY <1>1, AttentionPhases DEF CudaLayerDevice, CudaLayerTernary, CudaAttnPhaseTq2, MetalLayer,
     MetalLayerTernary
<1>3. LayerStep(a \o f, l, p, <<>>, One("hidden")) /\ LayerStep(a \o s, l, p, <<>>, One("hidden"))
  <2>1. Prog(a) /\ \A d : RunOn(d, a) = RunOn(d, TokenAttention(l, <<>>))
    BY <1>1, AttentionPhases
  <2>2. f \in {FusedRest(l), SteppedRest(l)} /\ s \in {FusedRest(l), SteppedRest(l)}
    BY <1>1
  <2> QED  BY <2>1, <2>2, LayerOfToken
<1>4. LayerStep(m \o f, l, p, <<p, p + 1>>, One("hidden"))
            /\ LayerStep(m \o s, l, p, <<p, p + 1>>, One("hidden"))
  <2>1. Prog(m) /\ \A d : RunOn(d, m) = RunOn(d, TokenAttention(l, <<p, p + 1>>))
    BY <1>1, AttentionPhases
  <2>2. f \in {FusedRest(l), SteppedRest(l)} /\ s \in {FusedRest(l), SteppedRest(l)}
    BY <1>1
  <2> QED  BY <2>1, <2>2, LayerOfToken
<1>5. /\ LayerStep(MetalFullLayer(l, p), l, p, <<p, p + 1>>, Host("hidden"))
      /\ LayerStep(MetalFullLayerTernary(l, p), l, p, <<p, p + 1>>, Host("hidden"))
  <2>1. PICK x, y : x = m \o f /\ y = m \o s
    OBVIOUS
  <2>2. LayerStep(x, l, p, <<p, p + 1>>, One("hidden")) /\ LayerStep(y, l, p, <<p, p + 1>>, One("hidden"))
    BY <1>4, <2>1
  <2>3. /\ MetalFullLayer(l, p) = << Copy(Host("hidden"), One("hidden")), Upload(Rope(p), One("rope")) >>
                                  \o x \o << Copy(One("hidden"), Host("hidden")) >>
        /\ MetalFullLayerTernary(l, p) = << Copy(Host("hidden"), One("hidden")), Upload(Rope(p), One("rope")) >>
                                         \o y \o << Copy(One("hidden"), Host("hidden")) >>
    BY <1>2, <2>1 DEF MetalFullLayer, MetalFullLayerTernary
  <2> QED  BY <2>2, <2>3, FullLayer
<1>6. BatchStep(CudaLayerDevice(l), l, p, 1, Alone(One("hidden")), OnDevice(p))
  BY <1>2, <1>3, DeviceStep
<1>7. BatchStep(CudaLayerTernary(l), l, p, 1, Alone(One("hidden")), OnDevice(p))
  BY <1>2, <1>3, DeviceStep
<1>8. BatchStep(MetalLayer(l, p), l, p, 1, Alone(One("hidden")), AsArguments(p))
  BY <1>2, <1>4, ArgumentStep
<1>9. BatchStep(MetalLayerTernary(l, p), l, p, 1, Alone(One("hidden")), AsArguments(p))
  BY <1>2, <1>4, ArgumentStep
<1>10. /\ BatchStep(MetalFullLayer(l, p), l, p, 1, Alone(Host("hidden")), {})
       /\ BatchStep(MetalFullLayerTernary(l, p), l, p, 1, Alone(Host("hidden")), {})
  BY <1>5, HostStep
<1> QED  BY <1>6, <1>7, <1>8, <1>9, <1>10

-----------------------------------------------------------------------------
\* The same launch for every column.
ColsPut(d, e, n, y, v) ==
    /\ Device(e) /\ e.cache = d.cache
    /\ \A c \in 0 .. n - 1 : e.mem[Col(y, c)] = v[c]
    /\ \A z \in Cells : (\A c \in 0 .. n - 1 : z # Col(y, c)) => e.mem[z] = d.mem[z]
ColsSet(d, s, n, y, v) == Prog(s) /\ ColsPut(d, RunOn(d, s), n, y, v)

\* One more column.
LEMMA ColsStep ==
  ASSUME NEW d, NEW e, NEW f, NEW c \in 0 .. MaxBatch - 1, NEW y \in ColNames, NEW v,
         ColsPut(d, e, c, y, v), IsPut(e, f, Col(y, c), v[c])
  PROVE  ColsPut(d, f, c + 1, y, v)
<1> USE SizeAssumption
<1>1. ASSUME NEW k \in 0 .. (c + 1) - 1 PROVE f.mem[Col(y, k)] = v[k]
  <2>1. CASE k = c
    BY <2>1 DEF IsPut
  <2>2. CASE k # c
    <3>1. k \in 0 .. c - 1 /\ Col(y, k) # Col(y, c) /\ Col(y, k) \in Cells
      BY <2>2, CellNames
    <3> QED  BY <3>1 DEF IsPut, ColsPut
  <2> QED  BY <2>1, <2>2
<1>2. ASSUME NEW z \in Cells, \A k \in 0 .. (c + 1) - 1 : z # Col(y, k) PROVE f.mem[z] = d.mem[z]
  <2>1. c \in 0 .. (c + 1) - 1 /\ \A k \in 0 .. c - 1 : k \in 0 .. (c + 1) - 1
    OBVIOUS
  <2>2. z # Col(y, c) /\ \A k \in 0 .. c - 1 : z # Col(y, k)
    BY <1>2, <2>1
  <2> QED  BY <2>2 DEF IsPut, ColsPut
<1> QED  BY <1>1, <1>2 DEF IsPut, ColsPut

\* When each launch sets its column from what other buffers hold, and from what the
\* column held before.
LEMMA ColsRun ==
  ASSUME NEW d, Device(d), NEW n \in 1 .. MaxBatch, NEW y \in ColNames, NEW v,
         NEW s, s = [i \in 1 .. n |-> s[i]],
         \A c \in 0 .. n - 1 : \A e :
             /\ Device(e) /\ \A x \in ColNames \ {y}, k \in 0 .. n - 1 : e.mem[Col(x, k)] = d.mem[Col(x, k)]
             /\ e.mem[Col(y, c)] = d.mem[Col(y, c)]
             => IsPut(e, Apply(s[c + 1], e), Col(y, c), v[c])
  PROVE  ColsSet(d, s, n, y, v)
<1> USE SizeAssumption
<1>1. Prog(s) /\ Len(s) = n
  <2>1. PICK S : S = {s[i] : i \in 1 .. n}
    OBVIOUS
  <2>2. s \in Seq(S) /\ Len(s) = n
    BY <2>1
  <2> QED  BY <2>2 DEF Prog
<1>2. PICK st : Between(d, s, n, st)
  BY <1>1, RunIs
<1>3. st[0] = d /\ RunOn(d, s) = st[n] /\ \A i \in 1 .. n : st[i] = Apply(s[i], st[i - 1])
  BY <1>2 DEF Between
<1> DEFINE Wrong == {m \in 0 .. n : ~ ColsPut(d, st[m], m, y, v)}
<1>4. Wrong = {}
  <2> SUFFICES ASSUME Wrong # {} PROVE FALSE
    OBVIOUS
  <2>1. PICK m \in Wrong : \A k \in Wrong : m <= k
    <3>1. Wrong \in SUBSET Nat
      OBVIOUS
    <3> HIDE DEF Wrong
    <3> QED  BY <3>1, LeastElement
  <2>2. m # 0
    BY <1>3 DEF ColsPut
  <2>3. PICK c \in 0 .. n - 1 : c = m - 1 /\ m = c + 1 /\ c \in 0 .. MaxBatch - 1 /\ c \in 0 .. n /\ ~ (m <= c)
    BY <2>2
  <2>4. ColsPut(d, st[c], c, y, v)
    BY <2>1, <2>3
  <2>5. PICK e : e = st[c]
    OBVIOUS
  <2>6. ASSUME NEW x \in ColNames, NEW k \in 0 .. n - 1, x # y \/ k = c
        PROVE  e.mem[Col(x, k)] = d.mem[Col(x, k)]
    <3>1. Col(x, k) \in Cells /\ \A i \in 0 .. c - 1 : Col(x, k) # Col(y, i)
      <4>1. k \in 0 .. MaxBatch - 1
        BY <2>3
      <4> QED  BY <2>6, <4>1, CellNames
    <3> QED  BY <2>4, <2>5, <3>1 DEF ColsPut
  <2>7. Device(e)
    BY <2>4, <2>5 DEF ColsPut
  <2>8. IsPut(e, Apply(s[c + 1], e), Col(y, c), v[c])
    BY <2>3, <2>6, <2>7
  <2>9. st[c + 1] = Apply(s[c + 1], e)
    <3>1. c + 1 \in 1 .. n /\ (c + 1) - 1 = c
      BY <2>3
    <3>2. st[c + 1] = Apply(s[c + 1], st[(c + 1) - 1])
      BY <1>3, <3>1
    <3> QED  BY <2>5, <3>1, <3>2
  <2>10. ColsPut(d, st[c + 1], c + 1, y, v)
    <3> HIDE DEF Wrong
    <3> QED  BY <2>3, <2>4, <2>5, <2>8, <2>9, ColsStep
  <2> QED  BY <2>3, <2>10
<1>5. ColsPut(d, st[n], n, y, v)
  BY <1>4
<1> QED  BY <1>1, <1>3, <1>5 DEF ColsSet

\* Columns 0 to n - 1 of buffer y hold the values of v.
Yields(d, n, y, v) == \A c \in 0 .. n - 1 : d.mem[Col(y, c)] = v[c]
ColumnsOf(names) == {Col(b, c) : b \in names, c \in 0 .. MaxBatch - 1}
\* The program s takes d to e and writes nothing but columns of y.
Outcome(d, s, e, y) ==
    Then(d, s, e) /\ Device(e) /\ e.cache = d.cache /\ Kept(d, e, ColumnsOf({y}))

\* Such a program touches one buffer only.
LEMMA ColsOutcome ==
  ASSUME NEW d, NEW n \in 1 .. MaxBatch, NEW y \in ColNames, NEW v, NEW s, ColsSet(d, s, n, y, v),
         NEW e, e = RunOn(d, s)
  PROVE  Outcome(d, s, e, y) /\ Yields(e, n, y, v)
<1>1. Prog(s) /\ ColsPut(d, e, n, y, v)
  BY DEF ColsSet
<1>2. ASSUME NEW z \in Cells \ ColumnsOf({y}) PROVE e.mem[z] = d.mem[z]
  <2>1. \A c \in 0 .. n - 1 : Col(y, c) \in ColumnsOf({y})
    BY SizeAssumption DEF ColumnsOf
  <2> QED  BY <1>1, <2>1 DEF ColsPut
<1> QED  BY <1>1, <1>2 DEF Outcome, Then, Kept, ColsPut, Yields

\* The launches that a batch makes for every column.
NormCols(n, w, x, y) == [i \in 1 .. n |-> RmsNorm(w, Col(x, i - 1), Col(y, i - 1))]
MulCols(n, w, x, y) == [i \in 1 .. n |-> Mul(w, Col(x, i - 1), Col(y, i - 1))]
SumCols(n, w, x, y) == [i \in 1 .. n |-> MulAdd(w, Col(x, i - 1), Col(y, i - 1))]
GateCols(n, w, x, y) == [i \in 1 .. n |-> GateUpSwiglu(w, Col(x, i - 1), Col(y, i - 1))]
SwigluCols(n, x, y) == [i \in 1 .. n |-> Swiglu(Col(x, i - 1), Col(y, i - 1))]
ResidualCols(n, x, y) == [i \in 1 .. n |-> ResidualAdd(Col(y, i - 1), Col(x, i - 1))]
FillCols(n, y) == [i \in 1 .. n |-> Fill(Col(y, i - 1))]

\* RMS norm of every column.
LEMMA NormColsRun ==
  ASSUME NEW d, Device(d), NEW n \in 1 .. MaxBatch, NEW x \in ColNames, NEW y \in ColNames, x # y,
         NEW w, NEW u, Yields(d, n, x, u), NEW v, \A c \in 0 .. n - 1 : v[c] = <<"rmsnorm", w, u[c]>>,
         NEW e, e = RunOn(d, NormCols(n, w, x, y))
  PROVE  Outcome(d, NormCols(n, w, x, y), e, y) /\ Yields(e, n, y, v)
<1>1. PICK s : s = NormCols(n, w, x, y)
  OBVIOUS
<1>2. s = [i \in 1 .. n |-> s[i]] /\ \A c \in 0 .. n - 1 : s[c + 1] = RmsNorm(w, Col(x, c), Col(y, c))
  <2>1. s = [i \in 1 .. n |-> RmsNorm(w, Col(x, i - 1), Col(y, i - 1))]
    BY <1>1 DEF NormCols
  <2>2. \A c \in 0 .. n - 1 : c + 1 \in 1 .. n /\ (c + 1) - 1 = c
    BY SizeAssumption
  <2> QED  BY <2>1, <2>2
<1>3. ASSUME NEW c \in 0 .. n - 1, NEW f, Device(f), f.mem[Col(x, c)] = d.mem[Col(x, c)],
             f.mem[Col(y, c)] = d.mem[Col(y, c)]
      PROVE  IsPut(f, Apply(s[c + 1], f), Col(y, c), v[c])
  <2>1. Col(y, c) \in Cells
    <3>1. c \in 0 .. MaxBatch - 1
      BY SizeAssumption
    <3> QED  BY <3>1, CellNames
  <2>2. d.mem[Col(x, c)] = u[c]
    BY DEF Yields
  <2>3. s[c + 1] = RmsNorm(w, Col(x, c), Col(y, c))
    BY <1>2
  <2> QED  BY <1>3, <2>1, <2>2, <2>3, Sets
<1>4. ColsSet(d, s, n, y, v)
  BY <1>2, <1>3, ColsRun
<1> QED  BY <1>1, <1>4, ColsOutcome

\* A product that assigns.
LEMMA MulColsRun ==
  ASSUME NEW d, Device(d), NEW n \in 1 .. MaxBatch, NEW x \in ColNames, NEW y \in ColNames, x # y,
         NEW w, NEW u, Yields(d, n, x, u), NEW v, \A c \in 0 .. n - 1 : v[c] = <<"mul", w, u[c]>>,
         NEW e, e = RunOn(d, MulCols(n, w, x, y))
  PROVE  Outcome(d, MulCols(n, w, x, y), e, y) /\ Yields(e, n, y, v)
<1>1. PICK s : s = MulCols(n, w, x, y)
  OBVIOUS
<1>2. s = [i \in 1 .. n |-> s[i]] /\ \A c \in 0 .. n - 1 : s[c + 1] = Mul(w, Col(x, c), Col(y, c))
  <2>1. s = [i \in 1 .. n |-> Mul(w, Col(x, i - 1), Col(y, i - 1))]
    BY <1>1 DEF MulCols
  <2>2. \A c \in 0 .. n - 1 : c + 1 \in 1 .. n /\ (c + 1) - 1 = c
    BY SizeAssumption
  <2> QED  BY <2>1, <2>2
<1>3. ASSUME NEW c \in 0 .. n - 1, NEW f, Device(f), f.mem[Col(x, c)] = d.mem[Col(x, c)],
             f.mem[Col(y, c)] = d.mem[Col(y, c)]
      PROVE  IsPut(f, Apply(s[c + 1], f), Col(y, c), v[c])
  <2>1. Col(y, c) \in Cells
    <3>1. c \in 0 .. MaxBatch - 1
      BY SizeAssumption
    <3> QED  BY <3>1, CellNames
  <2>2. d.mem[Col(x, c)] = u[c]
    BY DEF Yields
  <2>3. s[c + 1] = Mul(w, Col(x, c), Col(y, c))
    BY <1>2
  <2> QED  BY <1>3, <2>1, <2>2, <2>3, Sets
<1>4. ColsSet(d, s, n, y, v)
  BY <1>2, <1>3, ColsRun
<1> QED  BY <1>1, <1>4, ColsOutcome

\* A product that adds.
LEMMA SumColsRun ==
  ASSUME NEW d, Device(d), NEW n \in 1 .. MaxBatch, NEW x \in ColNames, NEW y \in ColNames, x # y,
         NEW w, NEW u, Yields(d, n, x, u), NEW o, Yields(d, n, y, o),
         NEW v, \A c \in 0 .. n - 1 : v[c] = Plus(o[c], <<"mul", w, u[c]>>),
         NEW e, e = RunOn(d, SumCols(n, w, x, y))
  PROVE  Outcome(d, SumCols(n, w, x, y), e, y) /\ Yields(e, n, y, v)
<1>1. PICK s : s = SumCols(n, w, x, y)
  OBVIOUS
<1>2. s = [i \in 1 .. n |-> s[i]] /\ \A c \in 0 .. n - 1 : s[c + 1] = MulAdd(w, Col(x, c), Col(y, c))
  <2>1. s = [i \in 1 .. n |-> MulAdd(w, Col(x, i - 1), Col(y, i - 1))]
    BY <1>1 DEF SumCols
  <2>2. \A c \in 0 .. n - 1 : c + 1 \in 1 .. n /\ (c + 1) - 1 = c
    BY SizeAssumption
  <2> QED  BY <2>1, <2>2
<1>3. ASSUME NEW c \in 0 .. n - 1, NEW f, Device(f), f.mem[Col(x, c)] = d.mem[Col(x, c)],
             f.mem[Col(y, c)] = d.mem[Col(y, c)]
      PROVE  IsPut(f, Apply(s[c + 1], f), Col(y, c), v[c])
  <2>1. Col(y, c) \in Cells
    <3>1. c \in 0 .. MaxBatch - 1
      BY SizeAssumption
    <3> QED  BY <3>1, CellNames
  <2>2. d.mem[Col(x, c)] = u[c] /\ d.mem[Col(y, c)] = o[c]
    BY DEF Yields
  <2>3. s[c + 1] = MulAdd(w, Col(x, c), Col(y, c))
    BY <1>2
  <2> QED  BY <1>3, <2>1, <2>2, <2>3, Sets
<1>4. ColsSet(d, s, n, y, v)
  BY <1>2, <1>3, ColsRun
<1> QED  BY <1>1, <1>4, ColsOutcome

\* Gate, up and SwiGLU in one.
LEMMA GateColsRun ==
  ASSUME NEW d, Device(d), NEW n \in 1 .. MaxBatch, NEW x \in ColNames, NEW y \in ColNames, x # y,
         NEW w, NEW u, Yields(d, n, x, u), NEW v, \A c \in 0 .. n - 1 : v[c]
               = <<"swiglu", NoWeight, <<"mul", <<"gate_up", w>>, u[c]>>>>,
         NEW e, e = RunOn(d, GateCols(n, w, x, y))
  PROVE  Outcome(d, GateCols(n, w, x, y), e, y) /\ Yields(e, n, y, v)
<1>1. PICK s : s = GateCols(n, w, x, y)
  OBVIOUS
<1>2. s = [i \in 1 .. n |-> s[i]] /\ \A c \in 0 .. n - 1 : s[c + 1] = GateUpSwiglu(w, Col(x, c), Col(y, c))
  <2>1. s = [i \in 1 .. n |-> GateUpSwiglu(w, Col(x, i - 1), Col(y, i - 1))]
    BY <1>1 DEF GateCols
  <2>2. \A c \in 0 .. n - 1 : c + 1 \in 1 .. n /\ (c + 1) - 1 = c
    BY SizeAssumption
  <2> QED  BY <2>1, <2>2
<1>3. ASSUME NEW c \in 0 .. n - 1, NEW f, Device(f), f.mem[Col(x, c)] = d.mem[Col(x, c)],
             f.mem[Col(y, c)] = d.mem[Col(y, c)]
      PROVE  IsPut(f, Apply(s[c + 1], f), Col(y, c), v[c])
  <2>1. Col(y, c) \in Cells
    <3>1. c \in 0 .. MaxBatch - 1
      BY SizeAssumption
    <3> QED  BY <3>1, CellNames
  <2>2. d.mem[Col(x, c)] = u[c]
    BY DEF Yields
  <2>3. s[c + 1] = GateUpSwiglu(w, Col(x, c), Col(y, c))
    BY <1>2
  <2> QED  BY <1>3, <2>1, <2>2, <2>3, Sets
<1>4. ColsSet(d, s, n, y, v)
  BY <1>2, <1>3, ColsRun
<1> QED  BY <1>1, <1>4, ColsOutcome

\* SwiGLU.
LEMMA SwigluColsRun ==
  ASSUME NEW d, Device(d), NEW n \in 1 .. MaxBatch, NEW x \in ColNames, NEW y \in ColNames, x # y,
         NEW u, Yields(d, n, x, u), NEW v, \A c \in 0 .. n - 1 : v[c] = <<"swiglu", NoWeight, u[c]>>,
         NEW e, e = RunOn(d, SwigluCols(n, x, y))
  PROVE  Outcome(d, SwigluCols(n, x, y), e, y) /\ Yields(e, n, y, v)
<1>1. PICK s : s = SwigluCols(n, x, y)
  OBVIOUS
<1>2. s = [i \in 1 .. n |-> s[i]] /\ \A c \in 0 .. n - 1 : s[c + 1] = Swiglu(Col(x, c), Col(y, c))
  <2>1. s = [i \in 1 .. n |-> Swiglu(Col(x, i - 1), Col(y, i - 1))]
    BY <1>1 DEF SwigluCols
  <2>2. \A c \in 0 .. n - 1 : c + 1 \in 1 .. n /\ (c + 1) - 1 = c
    BY SizeAssumption
  <2> QED  BY <2>1, <2>2
<1>3. ASSUME NEW c \in 0 .. n - 1, NEW f, Device(f), f.mem[Col(x, c)] = d.mem[Col(x, c)],
             f.mem[Col(y, c)] = d.mem[Col(y, c)]
      PROVE  IsPut(f, Apply(s[c + 1], f), Col(y, c), v[c])
  <2>1. Col(y, c) \in Cells
    <3>1. c \in 0 .. MaxBatch - 1
      BY SizeAssumption
    <3> QED  BY <3>1, CellNames
  <2>2. d.mem[Col(x, c)] = u[c]
    BY DEF Yields
  <2>3. s[c + 1] = Swiglu(Col(x, c), Col(y, c))
    BY <1>2
  <2> QED  BY <1>3, <2>1, <2>2, <2>3, Sets
<1>4. ColsSet(d, s, n, y, v)
  BY <1>2, <1>3, ColsRun
<1> QED  BY <1>1, <1>4, ColsOutcome

\* residual_add.
LEMMA ResidualColsRun ==
  ASSUME NEW d, Device(d), NEW n \in 1 .. MaxBatch, NEW x \in ColNames, NEW y \in ColNames, x # y,
         NEW u, Yields(d, n, x, u), NEW o, Yields(d, n, y, o),
         NEW v, \A c \in 0 .. n - 1 : v[c] = Plus(o[c], u[c]),
         NEW e, e = RunOn(d, ResidualCols(n, x, y))
  PROVE  Outcome(d, ResidualCols(n, x, y), e, y) /\ Yields(e, n, y, v)
<1>1. PICK s : s = ResidualCols(n, x, y)
  OBVIOUS
<1>2. s = [i \in 1 .. n |-> s[i]] /\ \A c \in 0 .. n - 1 : s[c + 1] = ResidualAdd(Col(y, c), Col(x, c))
  <2>1. s = [i \in 1 .. n |-> ResidualAdd(Col(y, i - 1), Col(x, i - 1))]
    BY <1>1 DEF ResidualCols
  <2>2. \A c \in 0 .. n - 1 : c + 1 \in 1 .. n /\ (c + 1) - 1 = c
    BY SizeAssumption
  <2> QED  BY <2>1, <2>2
<1>3. ASSUME NEW c \in 0 .. n - 1, NEW f, Device(f), f.mem[Col(x, c)] = d.mem[Col(x, c)],
             f.mem[Col(y, c)] = d.mem[Col(y, c)]
      PROVE  IsPut(f, Apply(s[c + 1], f), Col(y, c), v[c])
  <2>1. Col(y, c) \in Cells
    <3>1. c \in 0 .. MaxBatch - 1
      BY SizeAssumption
    <3> QED  BY <3>1, CellNames
  <2>2. d.mem[Col(x, c)] = u[c] /\ d.mem[Col(y, c)] = o[c]
    BY DEF Yields
  <2>3. s[c + 1] = ResidualAdd(Col(y, c), Col(x, c))
    BY <1>2
  <2> QED  BY <1>3, <2>1, <2>2, <2>3, Sets
<1>4. ColsSet(d, s, n, y, v)
  BY <1>2, <1>3, ColsRun
<1> QED  BY <1>1, <1>4, ColsOutcome

\* Uploads.
LEMMA UploadsRun ==
  ASSUME NEW d, Device(d), NEW n \in 1 .. MaxBatch, NEW y \in ColNames, NEW v, NEW s,
         s = [i \in 1 .. n |-> s[i]], \A c \in 0 .. n - 1 : s[c + 1] = Upload(v[c], Col(y, c)),
         NEW e, e = RunOn(d, s)
  PROVE  Outcome(d, s, e, y) /\ Yields(e, n, y, v)
<1>1. ASSUME NEW c \in 0 .. n - 1, NEW f, Device(f)
      PROVE  IsPut(f, Apply(s[c + 1], f), Col(y, c), v[c])
  <2>1. c \in 0 .. MaxBatch - 1
    BY SizeAssumption
  <2>2. Col(y, c) \in Cells
    BY <2>1, CellNames
  <2> QED  BY <1>1, <2>2, Sets
<1>2. ColsSet(d, s, n, y, v)
  BY <1>1, ColsRun
<1> QED  BY <1>2, ColsOutcome

\* A memset.
LEMMA FillColsRun ==
  ASSUME NEW d, Device(d), NEW n \in 1 .. MaxBatch, NEW y \in ColNames,
         NEW e, e = RunOn(d, FillCols(n, y))
  PROVE  Outcome(d, FillCols(n, y), e, y) /\ \A c \in 0 .. n - 1 : e.mem[Col(y, c)] = Zero
<1>1. PICK s, v : s = FillCols(n, y) /\ v = [c \in 0 .. n - 1 |-> Zero]
  OBVIOUS
<1>2. s = [i \in 1 .. n |-> Fill(Col(y, i - 1))]
  BY <1>1 DEF FillCols
<1>3. ASSUME NEW c \in 0 .. n - 1 PROVE s[c + 1] = Upload(v[c], Col(y, c))
  <2>1. c + 1 \in 1 .. n /\ (c + 1) - 1 = c
    BY SizeAssumption
  <2>2. s[c + 1] = Fill(Col(y, c))
    BY <1>2, <2>1
  <2>3. v[c] = Zero
    BY <1>1
  <2> QED  BY <2>2, <2>3 DEF Fill, Upload
<1>4. s = [i \in 1 .. n |-> s[i]]
  BY <1>2
<1>5. Outcome(d, s, e, y) /\ Yields(e, n, y, v)
  <2>1. e = RunOn(d, s)
    BY <1>1
  <2> QED  BY <1>3, <1>4, <2>1, UploadsRun
<1> QED  BY <1>1, <1>5 DEF Yields

\* What is kept twice, and which columns are.
LEMMA KeptTwice ==
  ASSUME NEW d, NEW e, NEW f, NEW A, NEW B, Kept(d, e, A), Kept(e, f, B)
  PROVE  Kept(d, f, A \cup B)
BY DEF Kept

\* What is left of the cells of other buffers.
LEMMA KeptCells ==
  ASSUME NEW d, NEW e, NEW names, Kept(d, e, ColumnsOf(names))
  PROVE  /\ \A b \in ColNames \ names, c \in 0 .. MaxBatch - 1 : e.mem[Col(b, c)] = d.mem[Col(b, c)]
         /\ \A b \in OneNames : e.mem[One(b)] = d.mem[One(b)]
<1>1. ASSUME NEW b \in ColNames \ names, NEW c \in 0 .. MaxBatch - 1 PROVE Col(b,
            c) \in Cells \ ColumnsOf(names)
  BY CellNames DEF ColumnsOf
<1>2. ASSUME NEW b \in OneNames PROVE One(b) \in Cells \ ColumnsOf(names)
  BY CellNames DEF ColumnsOf
<1> QED  BY <1>1, <1>2 DEF Kept

\* And of their columns.
LEMMA YieldsKept ==
  ASSUME NEW d, NEW e, NEW names, Kept(d, e, ColumnsOf(names)), NEW n \in 1 .. MaxBatch,
         NEW b \in ColNames \ names, NEW v, Yields(d, n, b, v)
  PROVE  Yields(e, n, b, v)
<1>1. ASSUME NEW c \in 0 .. n - 1 PROVE e.mem[Col(b, c)] = v[c]
  <2>1. c \in 0 .. MaxBatch - 1
    BY SizeAssumption
  <2> QED  BY <2>1, KeptCells DEF Yields
<1> QED  BY <1>1 DEF Yields

\* A GEMM that adds, on a buffer cleared before, assigns.
LEMMA ZeroedRun ==
  ASSUME NEW d, Device(d), NEW n \in 1 .. MaxBatch, NEW x \in ColNames, NEW y \in ColNames, x # y,
         NEW w, NEW u, Yields(d, n, x, u), NEW v, \A c \in 0 .. n - 1 : v[c] = <<"mul", w, u[c]>>,
         NEW e, e = RunOn(d, ZeroedMulAdd(w, x, y, n))
  PROVE  Outcome(d, ZeroedMulAdd(w, x, y, n), e, y) /\ Yields(e, n, y, v)
<1>1. PICK s, t : s = FillCols(n, y) /\ t = SumCols(n, w, x, y)
  OBVIOUS
<1>2. ZeroedMulAdd(w, x, y, n) = s \o t
  BY <1>1 DEF ZeroedMulAdd, Cols, FillCols, SumCols
<1>3. PICK a, b : a = RunOn(d, s) /\ b = RunOn(a, t)
  OBVIOUS
<1>4. Outcome(d, s, a, y) /\ \A c \in 0 .. n - 1 : a.mem[Col(y, c)] = Zero
  BY <1>1, <1>3, FillColsRun
<1>5. Device(a) /\ Kept(d, a, ColumnsOf({y}))
  BY <1>4 DEF Outcome
<1>6. Yields(a, n, x, u)
  BY <1>5, YieldsKept
<1>7. PICK o : o = [c \in 0 .. n - 1 |-> Zero]
  OBVIOUS
<1>8. Yields(a, n, y, o)
  BY <1>4, <1>7 DEF Yields
<1>9. \A c \in 0 .. n - 1 : v[c] = Plus(o[c], <<"mul", w, u[c]>>)
  BY <1>7 DEF Plus
<1>10. Outcome(a, t, b, y) /\ Yields(b, n, y, v)
  BY <1>1, <1>3, <1>5, <1>6, <1>8, <1>9, SumColsRun
<1>11. Then(d, s \o t, b)
  BY <1>4, <1>10, ThenConcat DEF Outcome
<1>12. e = b
  BY <1>2, <1>11 DEF Then
<1>13. Kept(d, b, ColumnsOf({y}))
  BY <1>4, <1>10 DEF Outcome, Kept
<1> QED  BY <1>2, <1>4, <1>10, <1>11, <1>12, <1>13 DEF Outcome

-----------------------------------------------------------------------------
\* The feed-forward part of a batch, of the columns x.
RestColumns == ColumnsOf({"hidden", "normed", "gate_up", "swiglu"})
FfnOf(l, x) ==
    Plus(x, <<"mul", <<"down", l>>,
              <<"swiglu", NoWeight, <<"mul", <<"gate_up", l>>, <<"rmsnorm", <<"ffn_norm", l>>, x>>>>>>>>)
FfnDone(d, e, l, n, x) ==
    /\ Device(e) /\ e.cache = d.cache /\ Kept(d, e, RestColumns)
    /\ \A c \in 0 .. n - 1 : e.mem[Col("hidden", c)] = FfnOf(l, x[c])

\* Metal, 1-bit: fused, the last product adds to the residual.
LEMMA FusedFfn ==
  ASSUME NEW d, Device(d), NEW n \in 1 .. MaxBatch, NEW l, NEW x,
         Yields(d, n, "hidden", x),
         NEW e1, e1 = RunOn(d, NormCols(n, <<"ffn_norm", l>>, "hidden", "normed")),
         NEW e2, e2 = RunOn(e1, GateCols(n, l, "normed", "swiglu")),
         NEW e3, e3 = RunOn(e2, SumCols(n, <<"down", l>>, "swiglu", "hidden"))
  PROVE  /\ Then(d, NormCols(n, <<"ffn_norm", l>>, "hidden", "normed"), e1)
         /\ Then(e1, GateCols(n, l, "normed", "swiglu"), e2)
         /\ Then(e2, SumCols(n, <<"down", l>>, "swiglu", "hidden"), e3)
         /\ FfnDone(d, e3, l, n, x)
<1>1. PICK a, b, y :
         /\ a = [c \in 0 .. n - 1 |-> <<"rmsnorm", <<"ffn_norm", l>>, x[c]>>]
         /\ b = [c \in 0 .. n - 1 |-> <<"swiglu", NoWeight, <<"mul", <<"gate_up", l>>, a[c]>>>>]
         /\ y = [c \in 0 .. n - 1 |-> Plus(x[c], <<"mul", <<"down", l>>, b[c]>>)]
  OBVIOUS
<1>2. {"hidden", "normed", "attn_out", "gate_up", "swiglu", "qkv"} \subseteq ColNames
  BY DEF ColNames
<1>3. \A c \in 0 .. n - 1 : a[c] = <<"rmsnorm", <<"ffn_norm", l>>, x[c]>>
  BY <1>1
<1>4. \A c \in 0 .. n - 1 : b[c] = <<"swiglu", NoWeight, <<"mul", <<"gate_up", l>>, a[c]>>>>
  BY <1>1
<1>5. \A c \in 0 .. n - 1 : y[c] = Plus(x[c], <<"mul", <<"down", l>>, b[c]>>)
  BY <1>1
<1>6. Outcome(d, NormCols(n, <<"ffn_norm", l>>, "hidden", "normed"), e1, "normed") /\ Yields(e1, n, "normed", a)
  BY <1>3, <1>2, NormColsRun
<1>7. /\ Device(e1) /\ Kept(d, e1, ColumnsOf({"normed"})) /\ e1.cache = d.cache
      /\ Yields(e1, n, "normed", a)
  BY <1>6 DEF Outcome
<1>8. Device(e1) /\ Yields(e1, n, "normed", a) /\ Yields(e1, n, "hidden", x)
  BY <1>2, <1>7, YieldsKept
<1>9. Outcome(e1, GateCols(n, l, "normed", "swiglu"), e2, "swiglu") /\ Yields(e2, n, "swiglu", b)
  BY <1>4, <1>2, <1>8, GateColsRun
<1>10. /\ Device(e2) /\ Kept(e1, e2, ColumnsOf({"swiglu"})) /\ e2.cache = e1.cache
      /\ Yields(e2, n, "swiglu", b)
  BY <1>9 DEF Outcome
<1>11. Device(e2) /\ Yields(e2, n, "swiglu", b) /\ Yields(e2, n, "hidden", x)
  BY <1>2, <1>10, <1>8, YieldsKept
<1>12. Outcome(e2, SumCols(n, <<"down", l>>, "swiglu", "hidden"), e3, "hidden") /\ Yields(e3, n, "hidden", y)
  BY <1>5, <1>2, <1>11, SumColsRun
<1>13. /\ Device(e3) /\ Kept(e2, e3, ColumnsOf({"hidden"})) /\ e3.cache = e2.cache
      /\ Yields(e3, n, "hidden", y)
  BY <1>12 DEF Outcome
<1>14. /\ Then(d, NormCols(n, <<"ffn_norm", l>>, "hidden", "normed"), e1)
      /\ Then(e1, GateCols(n, l, "normed", "swiglu"), e2)
      /\ Then(e2, SumCols(n, <<"down", l>>, "swiglu", "hidden"), e3)
  BY <1>6, <1>9, <1>12 DEF Outcome
<1>15. e3.cache = d.cache
  BY <1>7, <1>10, <1>13
<1>16. Kept(d, e3, RestColumns)
  <2> SUFFICES ASSUME NEW z \in Cells \ RestColumns PROVE e3.mem[z] = d.mem[z]
    BY DEF Kept
  <2>1. z \notin ColumnsOf({"hidden"}) /\ z \notin ColumnsOf({"normed"}) /\ z \notin ColumnsOf({"swiglu"})
    BY DEF RestColumns, ColumnsOf
  <2>2. e1.mem[z] = d.mem[z]
    BY <1>7, <2>1 DEF Kept
  <2>3. e2.mem[z] = e1.mem[z]
    BY <1>10, <2>1 DEF Kept
  <2>4. e3.mem[z] = e2.mem[z]
    BY <1>13, <2>1 DEF Kept
  <2> QED  BY <2>2, <2>3, <2>4
<1>17. ASSUME NEW c \in 0 .. n - 1 PROVE e3.mem[Col("hidden", c)] = FfnOf(l, x[c])
  <2>1. e3.mem[Col("hidden", c)] = y[c]
    BY <1>13 DEF Yields
  <2> QED  BY <1>3, <1>4, <1>5, <2>1 DEF FfnOf
<1> QED  BY <1>14, <1>15, <1>16, <1>13, <1>17 DEF FfnDone

\* Metal, ternary: one kernel after the other.
LEMMA SteppedFfn ==
  ASSUME NEW d, Device(d), NEW n \in 1 .. MaxBatch, NEW l, NEW x,
         Yields(d, n, "hidden", x),
         NEW e1, e1 = RunOn(d, NormCols(n, <<"ffn_norm", l>>, "hidden", "normed")),
         NEW e2, e2 = RunOn(e1, MulCols(n, <<"gate_up", l>>, "normed", "gate_up")),
         NEW e3, e3 = RunOn(e2, SwigluCols(n, "gate_up", "swiglu")),
         NEW e4, e4 = RunOn(e3, MulCols(n, <<"down", l>>, "swiglu", "normed")),
         NEW e5, e5 = RunOn(e4, ResidualCols(n, "normed", "hidden"))
  PROVE  /\ Then(d, NormCols(n, <<"ffn_norm", l>>, "hidden", "normed"), e1)
         /\ Then(e1, MulCols(n, <<"gate_up", l>>, "normed", "gate_up"), e2)
         /\ Then(e2, SwigluCols(n, "gate_up", "swiglu"), e3)
         /\ Then(e3, MulCols(n, <<"down", l>>, "swiglu", "normed"), e4)
         /\ Then(e4, ResidualCols(n, "normed", "hidden"), e5)
         /\ FfnDone(d, e5, l, n, x)
<1>1. PICK a, g, b, f, y :
         /\ a = [c \in 0 .. n - 1 |-> <<"rmsnorm", <<"ffn_norm", l>>, x[c]>>]
         /\ g = [c \in 0 .. n - 1 |-> <<"mul", <<"gate_up", l>>, a[c]>>]
         /\ b = [c \in 0 .. n - 1 |-> <<"swiglu", NoWeight, g[c]>>]
         /\ f = [c \in 0 .. n - 1 |-> <<"mul", <<"down", l>>, b[c]>>]
         /\ y = [c \in 0 .. n - 1 |-> Plus(x[c], f[c])]
  OBVIOUS
<1>2. {"hidden", "normed", "attn_out", "gate_up", "swiglu", "qkv"} \subseteq ColNames
  BY DEF ColNames
<1>3. \A c \in 0 .. n - 1 : a[c] = <<"rmsnorm", <<"ffn_norm", l>>, x[c]>>
  BY <1>1
<1>4. \A c \in 0 .. n - 1 : g[c] = <<"mul", <<"gate_up", l>>, a[c]>>
  BY <1>1
<1>5. \A c \in 0 .. n - 1 : b[c] = <<"swiglu", NoWeight, g[c]>>
  BY <1>1
<1>6. \A c \in 0 .. n - 1 : f[c] = <<"mul", <<"down", l>>, b[c]>>
  BY <1>1
<1>7. \A c \in 0 .. n - 1 : y[c] = Plus(x[c], f[c])
  BY <1>1
<1>8. Outcome(d, NormCols(n, <<"ffn_norm", l>>, "hidden", "normed"), e1, "normed") /\ Yields(e1, n, "normed", a)
  BY <1>3, <1>2, NormColsRun
<1>9. /\ Device(e1) /\ Kept(d, e1, ColumnsOf({"normed"})) /\ e1.cache = d.cache
      /\ Yields(e1, n, "normed", a)
  BY <1>8 DEF Outcome
<1>10. Device(e1) /\ Yields(e1, n, "normed", a) /\ Yields(e1, n, "hidden", x)
  BY <1>2, <1>9, YieldsKept
<1>11. Outcome(e1, MulCols(n, <<"gate_up", l>>, "normed", "gate_up"), e2, "gate_up")
             /\ Yields(e2, n, "gate_up", g)
  BY <1>4, <1>2, <1>10, MulColsRun
<1>12. /\ Device(e2) /\ Kept(e1, e2, ColumnsOf({"gate_up"})) /\ e2.cache = e1.cache
      /\ Yields(e2, n, "gate_up", g)
  BY <1>11 DEF Outcome
<1>13. Device(e2) /\ Yields(e2, n, "gate_up", g) /\ Yields(e2, n, "hidden", x)
  BY <1>2, <1>12, <1>10, YieldsKept
<1>14. Outcome(e2, SwigluCols(n, "gate_up", "swiglu"), e3, "swiglu") /\ Yields(e3, n, "swiglu", b)
  BY <1>5, <1>2, <1>13, SwigluColsRun
<1>15. /\ Device(e3) /\ Kept(e2, e3, ColumnsOf({"swiglu"})) /\ e3.cache = e2.cache
      /\ Yields(e3, n, "swiglu", b)
  BY <1>14 DEF Outcome
<1>16. Device(e3) /\ Yields(e3, n, "swiglu", b) /\ Yields(e3, n, "hidden", x)
  BY <1>2, <1>15, <1>13, YieldsKept
<1>17. Outcome(e3, MulCols(n, <<"down", l>>, "swiglu", "normed"), e4, "normed") /\ Yields(e4, n, "normed", f)
  BY <1>6, <1>2, <1>16, MulColsRun
<1>18. /\ Device(e4) /\ Kept(e3, e4, ColumnsOf({"normed"})) /\ e4.cache = e3.cache
      /\ Yields(e4, n, "normed", f)
  BY <1>17 DEF Outcome
<1>19. Device(e4) /\ Yields(e4, n, "normed", f) /\ Yields(e4, n, "hidden", x)
  BY <1>2, <1>18, <1>16, YieldsKept
<1>20. Outcome(e4, ResidualCols(n, "normed", "hidden"), e5, "hidden") /\ Yields(e5, n, "hidden", y)
  BY <1>7, <1>2, <1>19, ResidualColsRun
<1>21. /\ Device(e5) /\ Kept(e4, e5, ColumnsOf({"hidden"})) /\ e5.cache = e4.cache
      /\ Yields(e5, n, "hidden", y)
  BY <1>20 DEF Outcome
<1>22. /\ Then(d, NormCols(n, <<"ffn_norm", l>>, "hidden", "normed"), e1)
      /\ Then(e1, MulCols(n, <<"gate_up", l>>, "normed", "gate_up"), e2)
      /\ Then(e2, SwigluCols(n, "gate_up", "swiglu"), e3)
      /\ Then(e3, MulCols(n, <<"down", l>>, "swiglu", "normed"), e4)
      /\ Then(e4, ResidualCols(n, "normed", "hidden"), e5)
  BY <1>8, <1>11, <1>14, <1>17, <1>20 DEF Outcome
<1>23. e5.cache = d.cache
  BY <1>9, <1>12, <1>15, <1>18, <1>21
<1>24. Kept(d, e5, RestColumns)
  <2> SUFFICES ASSUME NEW z \in Cells \ RestColumns PROVE e5.mem[z] = d.mem[z]
    BY DEF Kept
  <2>1. z \notin ColumnsOf({"gate_up"}) /\ z \notin ColumnsOf({"hidden"})
              /\ z \notin ColumnsOf({"normed"}) /\ z \notin ColumnsOf({"swiglu"})
    BY DEF RestColumns, ColumnsOf
  <2>2. e1.mem[z] = d.mem[z]
    BY <1>9, <2>1 DEF Kept
  <2>3. e2.mem[z] = e1.mem[z]
    BY <1>12, <2>1 DEF Kept
  <2>4. e3.mem[z] = e2.mem[z]
    BY <1>15, <2>1 DEF Kept
  <2>5. e4.mem[z] = e3.mem[z]
    BY <1>18, <2>1 DEF Kept
  <2>6. e5.mem[z] = e4.mem[z]
    BY <1>21, <2>1 DEF Kept
  <2> QED  BY <2>2, <2>3, <2>4, <2>5, <2>6
<1>25. ASSUME NEW c \in 0 .. n - 1 PROVE e5.mem[Col("hidden", c)] = FfnOf(l, x[c])
  <2>1. e5.mem[Col("hidden", c)] = y[c]
    BY <1>21 DEF Yields
  <2> QED  BY <1>3, <1>4, <1>5, <1>6, <1>7, <2>1 DEF FfnOf
<1> QED  BY <1>22, <1>23, <1>24, <1>21, <1>25 DEF FfnDone

\* CUDA: the product is cleared before.
LEMMA CudaFfnRun ==
  ASSUME NEW d, Device(d), NEW n \in 1 .. MaxBatch, NEW l, NEW x,
         Yields(d, n, "hidden", x),
         NEW e1, e1 = RunOn(d, NormCols(n, <<"ffn_norm", l>>, "hidden", "normed")),
         NEW e2, e2 = RunOn(e1, GateCols(n, l, "normed", "swiglu")),
         NEW e3, e3 = RunOn(e2, ZeroedMulAdd(<<"down", l>>, "swiglu", "normed", n)),
         NEW e4, e4 = RunOn(e3, ResidualCols(n, "normed", "hidden"))
  PROVE  /\ Then(d, NormCols(n, <<"ffn_norm", l>>, "hidden", "normed"), e1)
         /\ Then(e1, GateCols(n, l, "normed", "swiglu"), e2)
         /\ Then(e2, ZeroedMulAdd(<<"down", l>>, "swiglu", "normed", n), e3)
         /\ Then(e3, ResidualCols(n, "normed", "hidden"), e4)
         /\ FfnDone(d, e4, l, n, x)
<1>1. PICK a, b, f, y :
         /\ a = [c \in 0 .. n - 1 |-> <<"rmsnorm", <<"ffn_norm", l>>, x[c]>>]
         /\ b = [c \in 0 .. n - 1 |-> <<"swiglu", NoWeight, <<"mul", <<"gate_up", l>>, a[c]>>>>]
         /\ f = [c \in 0 .. n - 1 |-> <<"mul", <<"down", l>>, b[c]>>]
         /\ y = [c \in 0 .. n - 1 |-> Plus(x[c], f[c])]
  OBVIOUS
<1>2. {"hidden", "normed", "attn_out", "gate_up", "swiglu", "qkv"} \subseteq ColNames
  BY DEF ColNames
<1>3. \A c \in 0 .. n - 1 : a[c] = <<"rmsnorm", <<"ffn_norm", l>>, x[c]>>
  BY <1>1
<1>4. \A c \in 0 .. n - 1 : b[c] = <<"swiglu", NoWeight, <<"mul", <<"gate_up", l>>, a[c]>>>>
  BY <1>1
<1>5. \A c \in 0 .. n - 1 : f[c] = <<"mul", <<"down", l>>, b[c]>>
  BY <1>1
<1>6. \A c \in 0 .. n - 1 : y[c] = Plus(x[c], f[c])
  BY <1>1
<1>7. Outcome(d, NormCols(n, <<"ffn_norm", l>>, "hidden", "normed"), e1, "normed") /\ Yields(e1, n, "normed", a)
  BY <1>3, <1>2, NormColsRun
<1>8. /\ Device(e1) /\ Kept(d, e1, ColumnsOf({"normed"})) /\ e1.cache = d.cache
      /\ Yields(e1, n, "normed", a)
  BY <1>7 DEF Outcome
<1>9. Device(e1) /\ Yields(e1, n, "normed", a) /\ Yields(e1, n, "hidden", x)
  BY <1>2, <1>8, YieldsKept
<1>10. Outcome(e1, GateCols(n, l, "normed", "swiglu"), e2, "swiglu") /\ Yields(e2, n, "swiglu", b)
  BY <1>4, <1>2, <1>9, GateColsRun
<1>11. /\ Device(e2) /\ Kept(e1, e2, ColumnsOf({"swiglu"})) /\ e2.cache = e1.cache
      /\ Yields(e2, n, "swiglu", b)
  BY <1>10 DEF Outcome
<1>12. Device(e2) /\ Yields(e2, n, "swiglu", b) /\ Yields(e2, n, "hidden", x)
  BY <1>2, <1>11, <1>9, YieldsKept
<1>13. Outcome(e2, ZeroedMulAdd(<<"down", l>>, "swiglu", "normed", n), e3, "normed")
             /\ Yields(e3, n, "normed", f)
  BY <1>5, <1>2, <1>12, ZeroedRun
<1>14. /\ Device(e3) /\ Kept(e2, e3, ColumnsOf({"normed"})) /\ e3.cache = e2.cache
      /\ Yields(e3, n, "normed", f)
  BY <1>13 DEF Outcome
<1>15. Device(e3) /\ Yields(e3, n, "normed", f) /\ Yields(e3, n, "hidden", x)
  BY <1>2, <1>14, <1>12, YieldsKept
<1>16. Outcome(e3, ResidualCols(n, "normed", "hidden"), e4, "hidden") /\ Yields(e4, n, "hidden", y)
  BY <1>6, <1>2, <1>15, ResidualColsRun
<1>17. /\ Device(e4) /\ Kept(e3, e4, ColumnsOf({"hidden"})) /\ e4.cache = e3.cache
      /\ Yields(e4, n, "hidden", y)
  BY <1>16 DEF Outcome
<1>18. /\ Then(d, NormCols(n, <<"ffn_norm", l>>, "hidden", "normed"), e1)
      /\ Then(e1, GateCols(n, l, "normed", "swiglu"), e2)
      /\ Then(e2, ZeroedMulAdd(<<"down", l>>, "swiglu", "normed", n), e3)
      /\ Then(e3, ResidualCols(n, "normed", "hidden"), e4)
  BY <1>7, <1>10, <1>13, <1>16 DEF Outcome
<1>19. e4.cache = d.cache
  BY <1>8, <1>11, <1>14, <1>17
<1>20. Kept(d, e4, RestColumns)
  <2> SUFFICES ASSUME NEW z \in Cells \ RestColumns PROVE e4.mem[z] = d.mem[z]
    BY DEF Kept
  <2>1. z \notin ColumnsOf({"hidden"}) /\ z \notin ColumnsOf({"normed"}) /\ z \notin ColumnsOf({"swiglu"})
    BY DEF RestColumns, ColumnsOf
  <2>2. e1.mem[z] = d.mem[z]
    BY <1>8, <2>1 DEF Kept
  <2>3. e2.mem[z] = e1.mem[z]
    BY <1>11, <2>1 DEF Kept
  <2>4. e3.mem[z] = e2.mem[z]
    BY <1>14, <2>1 DEF Kept
  <2>5. e4.mem[z] = e3.mem[z]
    BY <1>17, <2>1 DEF Kept
  <2> QED  BY <2>2, <2>3, <2>4, <2>5
<1>21. ASSUME NEW c \in 0 .. n - 1 PROVE e4.mem[Col("hidden", c)] = FfnOf(l, x[c])
  <2>1. e4.mem[Col("hidden", c)] = y[c]
    BY <1>17 DEF Yields
  <2> QED  BY <1>3, <1>4, <1>5, <1>6, <2>1 DEF FfnOf
<1> QED  BY <1>18, <1>19, <1>20, <1>17, <1>21 DEF FfnDone

\* CUDA, K-quant: so are the activations.
LEMMA CudaFfnKQuantRun ==
  ASSUME NEW d, Device(d), NEW n \in 1 .. MaxBatch, NEW l, NEW x,
         Yields(d, n, "hidden", x),
         NEW e1, e1 = RunOn(d, NormCols(n, <<"ffn_norm", l>>, "hidden", "normed")),
         NEW e2, e2 = RunOn(e1, FillCols(n, "swiglu")),
         NEW e3, e3 = RunOn(e2, GateCols(n, l, "normed", "swiglu")),
         NEW e4, e4 = RunOn(e3, ZeroedMulAdd(<<"down", l>>, "swiglu", "normed", n)),
         NEW e5, e5 = RunOn(e4, ResidualCols(n, "normed", "hidden"))
  PROVE  /\ Then(d, NormCols(n, <<"ffn_norm", l>>, "hidden", "normed"), e1)
         /\ Then(e1, FillCols(n, "swiglu"), e2)
         /\ Then(e2, GateCols(n, l, "normed", "swiglu"), e3)
         /\ Then(e3, ZeroedMulAdd(<<"down", l>>, "swiglu", "normed", n), e4)
         /\ Then(e4, ResidualCols(n, "normed", "hidden"), e5)
         /\ FfnDone(d, e5, l, n, x)
<1>1. PICK a, b, f, y :
         /\ a = [c \in 0 .. n - 1 |-> <<"rmsnorm", <<"ffn_norm", l>>, x[c]>>]
         /\ b = [c \in 0 .. n - 1 |-> <<"swiglu", NoWeight, <<"mul", <<"gate_up", l>>, a[c]>>>>]
         /\ f = [c \in 0 .. n - 1 |-> <<"mul", <<"down", l>>, b[c]>>]
         /\ y = [c \in 0 .. n - 1 |-> Plus(x[c], f[c])]
  OBVIOUS
<1>2. {"hidden", "normed", "attn_out", "gate_up", "swiglu", "qkv"} \subseteq ColNames
  BY DEF ColNames
<1>3. \A c \in 0 .. n - 1 : a[c] = <<"rmsnorm", <<"ffn_norm", l>>, x[c]>>
  BY <1>1
<1>4. \A c \in 0 .. n - 1 : b[c] = <<"swiglu", NoWeight, <<"mul", <<"gate_up", l>>, a[c]>>>>
  BY <1>1
<1>5. \A c \in 0 .. n - 1 : f[c] = <<"mul", <<"down", l>>, b[c]>>
  BY <1>1
<1>6. \A c \in 0 .. n - 1 : y[c] = Plus(x[c], f[c])
  BY <1>1
<1>7. Outcome(d, NormCols(n, <<"ffn_norm", l>>, "hidden", "normed"), e1, "normed") /\ Yields(e1, n, "normed", a)
  BY <1>3, <1>2, NormColsRun
<1>8. /\ Device(e1) /\ Kept(d, e1, ColumnsOf({"normed"})) /\ e1.cache = d.cache
      /\ Yields(e1, n, "normed", a)
  BY <1>7 DEF Outcome
<1>9. Device(e1) /\ Yields(e1, n, "normed", a) /\ Yields(e1, n, "hidden", x)
  BY <1>2, <1>8, YieldsKept
<1>10. Outcome(e1, FillCols(n, "swiglu"), e2, "swiglu")
  BY <1>2, <1>9, FillColsRun
<1>11. /\ Device(e2) /\ Kept(e1, e2, ColumnsOf({"swiglu"})) /\ e2.cache = e1.cache
  BY <1>10 DEF Outcome
<1>12. Device(e2) /\ Yields(e2, n, "hidden", x) /\ Yields(e2, n, "normed", a)
  BY <1>2, <1>11, <1>9, YieldsKept
<1>13. Outcome(e2, GateCols(n, l, "normed", "swiglu"), e3, "swiglu") /\ Yields(e3, n, "swiglu", b)
  BY <1>4, <1>2, <1>12, GateColsRun
<1>14. /\ Device(e3) /\ Kept(e2, e3, ColumnsOf({"swiglu"})) /\ e3.cache = e2.cache
      /\ Yields(e3, n, "swiglu", b)
  BY <1>13 DEF Outcome
<1>15. Device(e3) /\ Yields(e3, n, "swiglu", b) /\ Yields(e3, n, "hidden", x)
  BY <1>2, <1>14, <1>12, YieldsKept
<1>16. Outcome(e3, ZeroedMulAdd(<<"down", l>>, "swiglu", "normed", n), e4, "normed")
             /\ Yields(e4, n, "normed", f)
  BY <1>5, <1>2, <1>15, ZeroedRun
<1>17. /\ Device(e4) /\ Kept(e3, e4, ColumnsOf({"normed"})) /\ e4.cache = e3.cache
      /\ Yields(e4, n, "normed", f)
  BY <1>16 DEF Outcome
<1>18. Device(e4) /\ Yields(e4, n, "normed", f) /\ Yields(e4, n, "hidden", x)
  BY <1>2, <1>17, <1>15, YieldsKept
<1>19. Outcome(e4, ResidualCols(n, "normed", "hidden"), e5, "hidden") /\ Yields(e5, n, "hidden", y)
  BY <1>6, <1>2, <1>18, ResidualColsRun
<1>20. /\ Device(e5) /\ Kept(e4, e5, ColumnsOf({"hidden"})) /\ e5.cache = e4.cache
      /\ Yields(e5, n, "hidden", y)
  BY <1>19 DEF Outcome
<1>21. /\ Then(d, NormCols(n, <<"ffn_norm", l>>, "hidden", "normed"), e1)
      /\ Then(e1, FillCols(n, "swiglu"), e2)
      /\ Then(e2, GateCols(n, l, "normed", "swiglu"), e3)
      /\ Then(e3, ZeroedMulAdd(<<"down", l>>, "swiglu", "normed", n), e4)
      /\ Then(e4, ResidualCols(n, "normed", "hidden"), e5)
  BY <1>7, <1>10, <1>13, <1>16, <1>19 DEF Outcome
<1>22. e5.cache = d.cache
  BY <1>8, <1>11, <1>14, <1>17, <1>20
<1>23. Kept(d, e5, RestColumns)
  <2> SUFFICES ASSUME NEW z \in Cells \ RestColumns PROVE e5.mem[z] = d.mem[z]
    BY DEF Kept
  <2>1. z \notin ColumnsOf({"hidden"}) /\ z \notin ColumnsOf({"normed"}) /\ z \notin ColumnsOf({"swiglu"})
    BY DEF RestColumns, ColumnsOf
  <2>2. e1.mem[z] = d.mem[z]
    BY <1>8, <2>1 DEF Kept
  <2>3. e2.mem[z] = e1.mem[z]
    BY <1>11, <2>1 DEF Kept
  <2>4. e3.mem[z] = e2.mem[z]
    BY <1>14, <2>1 DEF Kept
  <2>5. e4.mem[z] = e3.mem[z]
    BY <1>17, <2>1 DEF Kept
  <2>6. e5.mem[z] = e4.mem[z]
    BY <1>20, <2>1 DEF Kept
  <2> QED  BY <2>2, <2>3, <2>4, <2>5, <2>6
<1>24. ASSUME NEW c \in 0 .. n - 1 PROVE e5.mem[Col("hidden", c)] = FfnOf(l, x[c])
  <2>1. e5.mem[Col("hidden", c)] = y[c]
    BY <1>20 DEF Yields
  <2> QED  BY <1>3, <1>4, <1>5, <1>6, <2>1 DEF FfnOf
<1> QED  BY <1>21, <1>22, <1>23, <1>20, <1>24 DEF FfnDone

-----------------------------------------------------------------------------
\* What comes before the attention of a batch, of the columns x, and after it.
QkvDone(d, e, l, n, x) ==
    /\ Device(e) /\ e.cache = d.cache /\ Kept(d, e, ColumnsOf({"normed", "qkv", "attn_out"}))
    /\ \A c \in 0 .. n - 1 :
           e.mem[Col("qkv", c)] = <<"mul", <<"qkv", l>>, <<"rmsnorm", <<"attn_norm", l>>, x[c]>>>>
ProjDone(d, e, l, n, x, u) ==
    /\ Device(e) /\ e.cache = d.cache /\ Kept(d, e, ColumnsOf({"hidden", "normed"}))
    /\ \A c \in 0 .. n - 1 : e.mem[Col("hidden", c)] = Plus(x[c], <<"mul", <<"o", l>>, u[c]>>)

\* Metal.
LEMMA MetalQkv ==
  ASSUME NEW d, Device(d), NEW n \in 1 .. MaxBatch, NEW l, NEW x,
         Yields(d, n, "hidden", x),
         NEW e1, e1 = RunOn(d, NormCols(n, <<"attn_norm", l>>, "hidden", "normed")),
         NEW e2, e2 = RunOn(e1, MulCols(n, <<"qkv", l>>, "normed", "qkv"))
  PROVE  /\ Then(d, NormCols(n, <<"attn_norm", l>>, "hidden", "normed"), e1)
         /\ Then(e1, MulCols(n, <<"qkv", l>>, "normed", "qkv"), e2)
         /\ QkvDone(d, e2, l, n, x)
<1>1. PICK a, q :
         /\ a = [c \in 0 .. n - 1 |-> <<"rmsnorm", <<"attn_norm", l>>, x[c]>>]
         /\ q = [c \in 0 .. n - 1 |-> <<"mul", <<"qkv", l>>, a[c]>>]
  OBVIOUS
<1>2. {"hidden", "normed", "attn_out", "gate_up", "swiglu", "qkv"} \subseteq ColNames
  BY DEF ColNames
<1>3. \A c \in 0 .. n - 1 : a[c] = <<"rmsnorm", <<"attn_norm", l>>, x[c]>>
  BY <1>1
<1>4. \A c \in 0 .. n - 1 : q[c] = <<"mul", <<"qkv", l>>, a[c]>>
  BY <1>1
<1>5. Outcome(d, NormCols(n, <<"attn_norm", l>>, "hidden", "normed"), e1, "normed")
            /\ Yields(e1, n, "normed", a)
  BY <1>3, <1>2, NormColsRun
<1>6. /\ Device(e1) /\ Kept(d, e1, ColumnsOf({"normed"})) /\ e1.cache = d.cache
      /\ Yields(e1, n, "normed", a)
  BY <1>5 DEF Outcome
<1>7. Outcome(e1, MulCols(n, <<"qkv", l>>, "normed", "qkv"), e2, "qkv") /\ Yields(e2, n, "qkv", q)
  BY <1>4, <1>2, <1>6, MulColsRun
<1>8. /\ Device(e2) /\ Kept(e1, e2, ColumnsOf({"qkv"})) /\ e2.cache = e1.cache
      /\ Yields(e2, n, "qkv", q)
  BY <1>7 DEF Outcome
<1>9. /\ Then(d, NormCols(n, <<"attn_norm", l>>, "hidden", "normed"), e1)
      /\ Then(e1, MulCols(n, <<"qkv", l>>, "normed", "qkv"), e2)
  BY <1>5, <1>7 DEF Outcome
<1>10. e2.cache = d.cache
  BY <1>6, <1>8
<1>11. Kept(d, e2, ColumnsOf({"normed", "qkv", "attn_out"}))
  <2> SUFFICES ASSUME NEW z \in Cells \ ColumnsOf({"normed", "qkv", "attn_out"}) PROVE e2.mem[z] = d.mem[z]
    BY DEF Kept
  <2>1. z \notin ColumnsOf({"normed"}) /\ z \notin ColumnsOf({"qkv"})
    BY DEF ColumnsOf
  <2>2. e1.mem[z] = d.mem[z]
    BY <1>6, <2>1 DEF Kept
  <2>3. e2.mem[z] = e1.mem[z]
    BY <1>8, <2>1 DEF Kept
  <2> QED  BY <2>2, <2>3
<1>12. ASSUME NEW c \in 0 .. n - 1
      PROVE  e2.mem[Col("qkv", c)] = <<"mul", <<"qkv", l>>, <<"rmsnorm", <<"attn_norm", l>>, x[c]>>>>
  <2>1. Yields(e2, n, "qkv", q)
    BY <1>8
  <2> QED  BY <1>3, <1>4, <2>1 DEF Yields
<1> QED  BY <1>9, <1>10, <1>11, <1>8, <1>12 DEF QkvDone

\* CUDA.
LEMMA CudaQkv ==
  ASSUME NEW d, Device(d), NEW n \in 1 .. MaxBatch, NEW l, NEW x,
         Yields(d, n, "hidden", x),
         NEW e1, e1 = RunOn(d, NormCols(n, <<"attn_norm", l>>, "hidden", "normed")),
         NEW e2, e2 = RunOn(e1, ZeroedMulAdd(<<"qkv", l>>, "normed", "qkv", n)),
         NEW e3, e3 = RunOn(e2, FillCols(n, "attn_out"))
  PROVE  /\ Then(d, NormCols(n, <<"attn_norm", l>>, "hidden", "normed"), e1)
         /\ Then(e1, ZeroedMulAdd(<<"qkv", l>>, "normed", "qkv", n), e2)
         /\ Then(e2, FillCols(n, "attn_out"), e3)
         /\ QkvDone(d, e3, l, n, x)
<1>1. PICK a, q :
         /\ a = [c \in 0 .. n - 1 |-> <<"rmsnorm", <<"attn_norm", l>>, x[c]>>]
         /\ q = [c \in 0 .. n - 1 |-> <<"mul", <<"qkv", l>>, a[c]>>]
  OBVIOUS
<1>2. {"hidden", "normed", "attn_out", "gate_up", "swiglu", "qkv"} \subseteq ColNames
  BY DEF ColNames
<1>3. \A c \in 0 .. n - 1 : a[c] = <<"rmsnorm", <<"attn_norm", l>>, x[c]>>
  BY <1>1
<1>4. \A c \in 0 .. n - 1 : q[c] = <<"mul", <<"qkv", l>>, a[c]>>
  BY <1>1
<1>5. Outcome(d, NormCols(n, <<"attn_norm", l>>, "hidden", "normed"), e1, "normed")
            /\ Yields(e1, n, "normed", a)
  BY <1>3, <1>2, NormColsRun
<1>6. /\ Device(e1) /\ Kept(d, e1, ColumnsOf({"normed"})) /\ e1.cache = d.cache
      /\ Yields(e1, n, "normed", a)
  BY <1>5 DEF Outcome
<1>7. Outcome(e1, ZeroedMulAdd(<<"qkv", l>>, "normed", "qkv", n), e2, "qkv") /\ Yields(e2, n, "qkv", q)
  BY <1>4, <1>2, <1>6, ZeroedRun
<1>8. /\ Device(e2) /\ Kept(e1, e2, ColumnsOf({"qkv"})) /\ e2.cache = e1.cache
      /\ Yields(e2, n, "qkv", q)
  BY <1>7 DEF Outcome
<1>9. Outcome(e2, FillCols(n, "attn_out"), e3, "attn_out")
  BY <1>2, <1>8, FillColsRun
<1>10. /\ Device(e3) /\ Kept(e2, e3, ColumnsOf({"attn_out"})) /\ e3.cache = e2.cache
  BY <1>9 DEF Outcome
<1>11. Device(e3) /\ Yields(e3, n, "qkv", q)
  BY <1>2, <1>10, <1>8, YieldsKept
<1>12. /\ Then(d, NormCols(n, <<"attn_norm", l>>, "hidden", "normed"), e1)
      /\ Then(e1, ZeroedMulAdd(<<"qkv", l>>, "normed", "qkv", n), e2)
      /\ Then(e2, FillCols(n, "attn_out"), e3)
  BY <1>5, <1>7, <1>9 DEF Outcome
<1>13. e3.cache = d.cache
  BY <1>6, <1>8, <1>10
<1>14. Kept(d, e3, ColumnsOf({"normed", "qkv", "attn_out"}))
  <2> SUFFICES ASSUME NEW z \in Cells \ ColumnsOf({"normed", "qkv", "attn_out"}) PROVE e3.mem[z] = d.mem[z]
    BY DEF Kept
  <2>1. z \notin ColumnsOf({"attn_out"}) /\ z \notin ColumnsOf({"normed"}) /\ z \notin ColumnsOf({"qkv"})
    BY DEF ColumnsOf
  <2>2. e1.mem[z] = d.mem[z]
    BY <1>6, <2>1 DEF Kept
  <2>3. e2.mem[z] = e1.mem[z]
    BY <1>8, <2>1 DEF Kept
  <2>4. e3.mem[z] = e2.mem[z]
    BY <1>10, <2>1 DEF Kept
  <2> QED  BY <2>2, <2>3, <2>4
<1>15. ASSUME NEW c \in 0 .. n - 1
      PROVE  e3.mem[Col("qkv", c)] = <<"mul", <<"qkv", l>>, <<"rmsnorm", <<"attn_norm", l>>, x[c]>>>>
  <2>1. Yields(e3, n, "qkv", q)
    BY <1>11
  <2> QED  BY <1>3, <1>4, <2>1 DEF Yields
<1> QED  BY <1>12, <1>13, <1>14, <1>10, <1>15 DEF QkvDone

\* Metal, 1-bit.
LEMMA FusedProj ==
  ASSUME NEW d, Device(d), NEW n \in 1 .. MaxBatch, NEW l, NEW x, NEW u,
         Yields(d, n, "hidden", x),
         Yields(d, n, "attn_out", u),
         NEW e1, e1 = RunOn(d, SumCols(n, <<"o", l>>, "attn_out", "hidden"))
  PROVE  /\ Then(d, SumCols(n, <<"o", l>>, "attn_out", "hidden"), e1)
         /\ ProjDone(d, e1, l, n, x, u)
<1>1. PICK y :
         /\ y = [c \in 0 .. n - 1 |-> Plus(x[c], <<"mul", <<"o", l>>, u[c]>>)]
  OBVIOUS
<1>2. {"hidden", "normed", "attn_out", "gate_up", "swiglu", "qkv"} \subseteq ColNames
  BY DEF ColNames
<1>3. \A c \in 0 .. n - 1 : y[c] = Plus(x[c], <<"mul", <<"o", l>>, u[c]>>)
  BY <1>1
<1>4. Outcome(d, SumCols(n, <<"o", l>>, "attn_out", "hidden"), e1, "hidden") /\ Yields(e1, n, "hidden", y)
  BY <1>3, <1>2, SumColsRun
<1>5. /\ Device(e1) /\ Kept(d, e1, ColumnsOf({"hidden"})) /\ e1.cache = d.cache
      /\ Yields(e1, n, "hidden", y)
  BY <1>4 DEF Outcome
<1>6. /\ Then(d, SumCols(n, <<"o", l>>, "attn_out", "hidden"), e1)
  BY <1>4 DEF Outcome
<1>7. e1.cache = d.cache
  BY <1>5
<1>8. Kept(d, e1, ColumnsOf({"hidden", "normed"}))
  <2> SUFFICES ASSUME NEW z \in Cells \ ColumnsOf({"hidden", "normed"}) PROVE e1.mem[z] = d.mem[z]
    BY DEF Kept
  <2>1. z \notin ColumnsOf({"hidden"})
    BY DEF ColumnsOf
  <2>2. e1.mem[z] = d.mem[z]
    BY <1>5, <2>1 DEF Kept
  <2> QED  BY <2>2
<1>9. ASSUME NEW c \in 0 .. n - 1
      PROVE  e1.mem[Col("hidden", c)] = Plus(x[c], <<"mul", <<"o", l>>, u[c]>>)
  <2>1. e1.mem[Col("hidden", c)] = y[c]
    BY <1>5 DEF Yields
  <2> QED  BY <1>3, <2>1
<1> QED  BY <1>6, <1>7, <1>8, <1>5, <1>9 DEF ProjDone

\* Metal, ternary.
LEMMA SteppedProj ==
  ASSUME NEW d, Device(d), NEW n \in 1 .. MaxBatch, NEW l, NEW x, NEW u,
         Yields(d, n, "hidden", x),
         Yields(d, n, "attn_out", u),
         NEW e1, e1 = RunOn(d, MulCols(n, <<"o", l>>, "attn_out", "normed")),
         NEW e2, e2 = RunOn(e1, ResidualCols(n, "normed", "hidden"))
  PROVE  /\ Then(d, MulCols(n, <<"o", l>>, "attn_out", "normed"), e1)
         /\ Then(e1, ResidualCols(n, "normed", "hidden"), e2)
         /\ ProjDone(d, e2, l, n, x, u)
<1>1. PICK f, y :
         /\ f = [c \in 0 .. n - 1 |-> <<"mul", <<"o", l>>, u[c]>>]
         /\ y = [c \in 0 .. n - 1 |-> Plus(x[c], f[c])]
  OBVIOUS
<1>2. {"hidden", "normed", "attn_out", "gate_up", "swiglu", "qkv"} \subseteq ColNames
  BY DEF ColNames
<1>3. \A c \in 0 .. n - 1 : f[c] = <<"mul", <<"o", l>>, u[c]>>
  BY <1>1
<1>4. \A c \in 0 .. n - 1 : y[c] = Plus(x[c], f[c])
  BY <1>1
<1>5. Outcome(d, MulCols(n, <<"o", l>>, "attn_out", "normed"), e1, "normed") /\ Yields(e1, n, "normed", f)
  BY <1>3, <1>2, MulColsRun
<1>6. /\ Device(e1) /\ Kept(d, e1, ColumnsOf({"normed"})) /\ e1.cache = d.cache
      /\ Yields(e1, n, "normed", f)
  BY <1>5 DEF Outcome
<1>7. Device(e1) /\ Yields(e1, n, "normed", f) /\ Yields(e1, n, "hidden", x)
  BY <1>2, <1>6, YieldsKept
<1>8. Outcome(e1, ResidualCols(n, "normed", "hidden"), e2, "hidden") /\ Yields(e2, n, "hidden", y)
  BY <1>4, <1>2, <1>7, ResidualColsRun
<1>9. /\ Device(e2) /\ Kept(e1, e2, ColumnsOf({"hidden"})) /\ e2.cache = e1.cache
      /\ Yields(e2, n, "hidden", y)
  BY <1>8 DEF Outcome
<1>10. /\ Then(d, MulCols(n, <<"o", l>>, "attn_out", "normed"), e1)
      /\ Then(e1, ResidualCols(n, "normed", "hidden"), e2)
  BY <1>5, <1>8 DEF Outcome
<1>11. e2.cache = d.cache
  BY <1>6, <1>9
<1>12. Kept(d, e2, ColumnsOf({"hidden", "normed"}))
  <2> SUFFICES ASSUME NEW z \in Cells \ ColumnsOf({"hidden", "normed"}) PROVE e2.mem[z] = d.mem[z]
    BY DEF Kept
  <2>1. z \notin ColumnsOf({"hidden"}) /\ z \notin ColumnsOf({"normed"})
    BY DEF ColumnsOf
  <2>2. e1.mem[z] = d.mem[z]
    BY <1>6, <2>1 DEF Kept
  <2>3. e2.mem[z] = e1.mem[z]
    BY <1>9, <2>1 DEF Kept
  <2> QED  BY <2>2, <2>3
<1>13. ASSUME NEW c \in 0 .. n - 1
      PROVE  e2.mem[Col("hidden", c)] = Plus(x[c], <<"mul", <<"o", l>>, u[c]>>)
  <2>1. e2.mem[Col("hidden", c)] = y[c]
    BY <1>9 DEF Yields
  <2> QED  BY <1>3, <1>4, <2>1
<1> QED  BY <1>10, <1>11, <1>12, <1>9, <1>13 DEF ProjDone

\* CUDA.
LEMMA CudaProj ==
  ASSUME NEW d, Device(d), NEW n \in 1 .. MaxBatch, NEW l, NEW x, NEW u,
         Yields(d, n, "hidden", x),
         Yields(d, n, "attn_out", u),
         NEW e1, e1 = RunOn(d, ZeroedMulAdd(<<"o", l>>, "attn_out", "normed", n)),
         NEW e2, e2 = RunOn(e1, ResidualCols(n, "normed", "hidden"))
  PROVE  /\ Then(d, ZeroedMulAdd(<<"o", l>>, "attn_out", "normed", n), e1)
         /\ Then(e1, ResidualCols(n, "normed", "hidden"), e2)
         /\ ProjDone(d, e2, l, n, x, u)
<1>1. PICK f, y :
         /\ f = [c \in 0 .. n - 1 |-> <<"mul", <<"o", l>>, u[c]>>]
         /\ y = [c \in 0 .. n - 1 |-> Plus(x[c], f[c])]
  OBVIOUS
<1>2. {"hidden", "normed", "attn_out", "gate_up", "swiglu", "qkv"} \subseteq ColNames
  BY DEF ColNames
<1>3. \A c \in 0 .. n - 1 : f[c] = <<"mul", <<"o", l>>, u[c]>>
  BY <1>1
<1>4. \A c \in 0 .. n - 1 : y[c] = Plus(x[c], f[c])
  BY <1>1
<1>5. Outcome(d, ZeroedMulAdd(<<"o", l>>, "attn_out", "normed", n), e1, "normed") /\ Yields(e1, n, "normed", f)
  BY <1>3, <1>2, ZeroedRun
<1>6. /\ Device(e1) /\ Kept(d, e1, ColumnsOf({"normed"})) /\ e1.cache = d.cache
      /\ Yields(e1, n, "normed", f)
  BY <1>5 DEF Outcome
<1>7. Device(e1) /\ Yields(e1, n, "normed", f) /\ Yields(e1, n, "hidden", x)
  BY <1>2, <1>6, YieldsKept
<1>8. Outcome(e1, ResidualCols(n, "normed", "hidden"), e2, "hidden") /\ Yields(e2, n, "hidden", y)
  BY <1>4, <1>2, <1>7, ResidualColsRun
<1>9. /\ Device(e2) /\ Kept(e1, e2, ColumnsOf({"hidden"})) /\ e2.cache = e1.cache
      /\ Yields(e2, n, "hidden", y)
  BY <1>8 DEF Outcome
<1>10. /\ Then(d, ZeroedMulAdd(<<"o", l>>, "attn_out", "normed", n), e1)
      /\ Then(e1, ResidualCols(n, "normed", "hidden"), e2)
  BY <1>5, <1>8 DEF Outcome
<1>11. e2.cache = d.cache
  BY <1>6, <1>9
<1>12. Kept(d, e2, ColumnsOf({"hidden", "normed"}))
  <2> SUFFICES ASSUME NEW z \in Cells \ ColumnsOf({"hidden", "normed"}) PROVE e2.mem[z] = d.mem[z]
    BY DEF Kept
  <2>1. z \notin ColumnsOf({"hidden"}) /\ z \notin ColumnsOf({"normed"})
    BY DEF ColumnsOf
  <2>2. e1.mem[z] = d.mem[z]
    BY <1>6, <2>1 DEF Kept
  <2>3. e2.mem[z] = e1.mem[z]
    BY <1>9, <2>1 DEF Kept
  <2> QED  BY <2>2, <2>3
<1>13. ASSUME NEW c \in 0 .. n - 1
      PROVE  e2.mem[Col("hidden", c)] = Plus(x[c], <<"mul", <<"o", l>>, u[c]>>)
  <2>1. e2.mem[Col("hidden", c)] = y[c]
    BY <1>9 DEF Yields
  <2> QED  BY <1>3, <1>4, <2>1
<1> QED  BY <1>10, <1>11, <1>12, <1>9, <1>13 DEF ProjDone

-----------------------------------------------------------------------------
\* Attention of a batch, token by token.  What a column may write besides its own output:
ColumnScratch ==
    {One(b) : b \in OneNames} \cup ColumnsOf({"q_norm", "k_norm", "q_rope", "k_rope", "scores", "attn_out"})
ColumnDone(d, e, l, hs, p, c) ==
    /\ Device(e) /\ OtherLayers(d, e, l) /\ RowsRight(e, l, hs, p + c + 1)
    /\ Kept(d, e, ColumnScratch)
    /\ e.mem[Col("attn_out", c)] = RefAttention(l, hs, p + c + 1)
    /\ \A k \in 0 .. MaxBatch - 1 : k # c => e.mem[Col("attn_out", k)] = d.mem[Col("attn_out", k)]
\* What it reads: its QKV column or its hidden state, and, where the ropes of a
\* batch are uploaded before, its rope.
ColumnReady(d, l, hs, p, c, ropes) ==
    /\ d.mem[Col("hidden", c)] = hs[p + c + 1] /\ d.mem[Col("qkv", c)] = RefQkv(l, hs, p + c + 1)
    /\ ropes => d.mem[Col("rope", c)] = Rope(p + c)
ColumnStep(s, l, p, c, ropes) ==
    /\ Prog(s)
    /\ \A d, hs : Device(d) /\ RowsRight(d, l, hs, p + c) /\ ColumnReady(d, l, hs, p, c, ropes)
                  => ColumnDone(d, RunOn(d, s), l, hs, p, c)

\* A column that is ready stays so while others are worked on.
LEMMA ReadyKept ==
  ASSUME NEW d, NEW e, Kept(d, e, ColumnScratch), NEW l, NEW hs, NEW p, NEW c \in 0 .. MaxBatch - 1,
         NEW ropes, ColumnReady(d, l, hs, p, c, ropes)
  PROVE  ColumnReady(e, l, hs, p, c, ropes)
<1>1. \A b \in {"hidden", "qkv", "rope"} : Col(b, c) \in Cells /\ Col(b, c) \notin ColumnScratch
  BY CellNames DEF ColumnScratch, ColumnsOf, ColNames
<1>2. \A b \in {"hidden", "qkv", "rope"} : e.mem[Col(b, c)] = d.mem[Col(b, c)]
  BY <1>1 DEF Kept
<1> QED  BY <1>2 DEF ColumnReady

ColumnsDone(d, e, l, hs, p, n) ==
    /\ Device(e) /\ OtherLayers(d, e, l) /\ RowsRight(e, l, hs, p + n)
    /\ Kept(d, e, ColumnScratch)
    /\ \A c \in 0 .. n - 1 : e.mem[Col("attn_out", c)] = RefAttention(l, hs, p + c + 1)

\* What one column's attention leaves of the others.
LEMMA ColumnAfter ==
  ASSUME NEW d, NEW e, NEW f, NEW l, NEW hs, NEW p \in Nat, NEW n \in 0 .. MaxBatch - 1,
         ColumnsDone(d, e, l, hs, p, n), ColumnDone(e, f, l, hs, p, n)
  PROVE  ColumnsDone(d, f, l, hs, p, n + 1)
<1> USE SizeAssumption
<1>1. p + (n + 1) = p + n + 1
  OBVIOUS
<1>2. RowsRight(f, l, hs, p + (n + 1))
  BY <1>1 DEF ColumnDone
<1>3. ASSUME NEW c \in 0 .. (n + 1) - 1 PROVE f.mem[Col("attn_out", c)] = RefAttention(l, hs, p + c + 1)
  <2>1. CASE c = n
    BY <2>1 DEF ColumnDone
  <2>2. CASE c # n
    <3>1. c \in 0 .. n - 1 /\ c \in 0 .. MaxBatch - 1
      BY <2>2
    <3> QED  BY <2>2, <3>1 DEF ColumnDone, ColumnsDone
  <2> QED  BY <2>1, <2>2
<1>4. Kept(d, f, ColumnScratch)
  BY DEF ColumnDone, ColumnsDone, Kept
<1>5. OtherLayers(d, f, l)
  BY DEF ColumnDone, ColumnsDone, OtherLayers
<1> QED  BY <1>2, <1>3, <1>4, <1>5 DEF ColumnDone, ColumnsDone

\* The loop over the columns of a batch.
LEMMA ColumnsLoop ==
  ASSUME NEW d, Device(d), NEW l, NEW hs, NEW p \in Nat, NEW n \in 1 .. MaxBatch, NEW ropes,
         RowsRight(d, l, hs, p), \A c \in 0 .. n - 1 : ColumnReady(d, l, hs, p, c, ropes),
         NEW seqs, seqs = [i \in 1 .. n |-> seqs[i]],
         \A c \in 0 .. n - 1 : ColumnStep(seqs[c + 1], l, p, c, ropes),
         NEW e, e = RunOn(d, FlattenSeq(seqs))
  PROVE  Then(d, FlattenSeq(seqs), e) /\ ColumnsDone(d, e, l, hs, p, n)
<1> USE SizeAssumption
<1>1. ASSUME NEW i \in 1 .. n PROVE Prog(seqs[i])
  <2>1. i - 1 \in 0 .. n - 1 /\ (i - 1) + 1 = i
    OBVIOUS
  <2>2. ColumnStep(seqs[(i - 1) + 1], l, p, i - 1, ropes)
    BY <2>1
  <2> QED  BY <2>1, <2>2 DEF ColumnStep
<1>2. FlatRuns(d, seqs, n)
  <2>1. n \in Nat \ {0}
    OBVIOUS
  <2> QED  BY <1>1, <2>1, RunFlat
<1>3. PICK st : /\ st[0] = d /\ e = st[n]
                /\ \A i \in 1 .. n : st[i] = RunOn(st[i - 1], seqs[i])
  BY <1>2 DEF FlatRuns
<1> DEFINE Wrong == {m \in 0 .. n : ~ ColumnsDone(d, st[m], l, hs, p, m)}
<1>4. Wrong = {}
  <2> SUFFICES ASSUME Wrong # {} PROVE FALSE
    OBVIOUS
  <2>1. PICK m \in Wrong : \A k \in Wrong : m <= k
    <3>1. Wrong \in SUBSET Nat
      OBVIOUS
    <3> HIDE DEF Wrong
    <3> QED  BY <3>1, LeastElement
  <2>2. m # 0
    <3>1. p + 0 = p
      OBVIOUS
    <3>2. ColumnsDone(d, d, l, hs, p, 0)
      BY <3>1 DEF ColumnsDone, Kept, OtherLayers
    <3> QED  BY <1>3, <2>1, <3>2
  <2>3. PICK c \in 0 .. n - 1 : c = m - 1 /\ m = c + 1 /\ c \in 0 .. MaxBatch - 1 /\ c \in 0 .. n /\ ~ (m <= c)
    BY <2>2
  <2>4. ColumnsDone(d, st[c], l, hs, p, c)
    BY <2>1, <2>3
  <2>5. PICK f, g : f = st[c] /\ g = RunOn(f, seqs[c + 1])
    OBVIOUS
  <2>6. st[c + 1] = g
    <3>1. c + 1 \in 1 .. n /\ (c + 1) - 1 = c
      BY <2>3
    <3>2. st[c + 1] = RunOn(st[(c + 1) - 1], seqs[c + 1])
      BY <1>3, <3>1
    <3> QED  BY <2>5, <3>1, <3>2
  <2>7. Device(f) /\ Kept(d, f, ColumnScratch) /\ RowsRight(f, l, hs, p + c)
    BY <2>4, <2>5 DEF ColumnsDone
  <2>8. ColumnReady(f, l, hs, p, c, ropes)
    BY <2>3, <2>7, ReadyKept
  <2>9. ColumnDone(f, g, l, hs, p, c)
    BY <2>5, <2>7, <2>8 DEF ColumnStep
  <2>10. ColumnsDone(d, g, l, hs, p, c + 1)
    <3> HIDE DEF Wrong
    <3> QED  BY <2>3, <2>4, <2>5, <2>9, ColumnAfter
  <2> QED  BY <2>3, <2>6, <2>10
<1>5. ColumnsDone(d, e, l, hs, p, n)
  BY <1>3, <1>4
<1>6. Then(d, FlattenSeq(seqs), e)
  BY <1>2 DEF FlatRuns, Then
<1> QED  BY <1>5, <1>6

\* Metal: the heads of a column pass through column 0 of their buffers.
LEMMA MetalColumn ==
  ASSUME NEW l \in 1 .. Depth, NEW p \in Nat, NEW c \in 0 .. MaxBatch - 1, p + c < Slots
  PROVE  ColumnStep(MetalColumnAttention(l, p, c), l, p, c, TRUE)
<1> USE SizeAssumption
<1>1. PICK x1, x2, x3, x4, s, t :
         /\ x1 = Launch("qk_norm", <<"q", l>>, <<Col("qkv", c)>>, Col("q_norm", 0))
         /\ x2 = Launch("qk_norm", <<"k", l>>, <<Col("qkv", c)>>, Col("k_norm", 0))
         /\ x3 = Launch("qk_rope", <<"q", l>>, <<Col("q_norm", 0), Col("rope", c)>>, Col("q_rope", 0))
         /\ x4 = Launch("qk_rope", <<"k", l>>, <<Col("k_norm", 0), Col("rope", c)>>, Col("k_rope", 0))
         /\ s = <<x1, x2, x3, x4>>
         /\ t = Attention(l, Col("q_rope", 0), Col("k_rope", 0), Col("qkv", c), Col("scores", 0),
                          Col("attn_out", c), <<p + c, p + c + 1>>)
  OBVIOUS
<1>2. MetalColumnAttention(l, p, c) = s \o t
  BY <1>1 DEF MetalColumnAttention
<1>3. Prog(s) /\ Prog(t)
  BY <1>1, RunFour, AttentionProg
<1>4. PICK qkv, rope, qn, kn, q, k, sc, out :
         /\ qkv = Col("qkv", c) /\ rope = Col("rope", c) /\ qn = Col("q_norm", 0) /\ kn = Col("k_norm", 0)
         /\ q = Col("q_rope", 0) /\ k = Col("k_rope", 0) /\ sc = Col("scores", 0) /\ out = Col("attn_out", c)
  OBVIOUS
<1>5. /\ qkv \in Cells /\ rope \in Cells /\ qn \in Cells /\ kn \in Cells /\ q \in Cells /\ k \in Cells
      /\ sc \in Cells /\ out \in Cells
  <2>1. 0 \in 0 .. MaxBatch - 1
    OBVIOUS
  <2> QED  BY <1>4, <2>1, CellNames DEF ColNames
<1>6. /\ qkv \notin {qn, kn, q, k} /\ rope \notin {qn, kn, q, k} /\ qn \notin {kn, q, k} /\ kn \notin {q, k}
      /\ q # k /\ One("pos") # sc
  BY <1>4, CellNames
<1>7. {qn, kn, q, k, sc, out} \subseteq ColumnScratch
      /\ \A i \in 0 .. MaxBatch - 1 : i # c => Col("attn_out", i) \in Cells
            /\ Col("attn_out", i) \notin {qn, kn, q, k, sc, out}
  <2>1. 0 \in 0 .. MaxBatch - 1
    OBVIOUS
  <2>2. {qn, kn, q, k, sc, out} \subseteq ColumnScratch
    BY <1>4, <2>1 DEF ColumnScratch, ColumnsOf
  <2>3. \A i \in 0 .. MaxBatch - 1 : i # c => Col("attn_out", i) \in Cells
              /\ Col("attn_out", i) \notin {qn, kn, q, k, sc, out}
    BY <1>4, CellNames DEF ColNames
  <2> QED  BY <2>2, <2>3
<1>8. ASSUME NEW d, NEW hs, Device(d), RowsRight(d, l, hs, p + c), ColumnReady(d, l, hs, p, c, TRUE),
             NEW e, e = RunOn(d, s \o t)
      PROVE  ColumnDone(d, e, l, hs, p, c)
  <2>1. PICK d1, d2, d3, d4 : d1 = Apply(x1, d) /\ d2 = Apply(x2, d1) /\ d3 = Apply(x3, d2)
              /\ d4 = Apply(x4, d3)
    OBVIOUS
  <2>2. e = RunOn(d4, t)
    <3>1. RunOn(d, s) = d4
      BY <1>1, <2>1, RunFour
    <3> QED  BY <1>3, <1>8, <3>1, RunConcat
  <2>3. d.mem[qkv] = RefQkv(l, hs, p + c + 1) /\ d.mem[rope] = Rope(p + c)
    BY <1>4, <1>8 DEF ColumnReady
  <2>4. PICK u : u = RefQkv(l, hs, p + c + 1)
    OBVIOUS
  <2>5. IsPut(d, d1, qn, <<"qk_norm", <<"q", l>>, u>>)
    <3>1. x1 = Launch("qk_norm", <<"q", l>>, <<qkv>>, qn)
      BY <1>1, <1>4
    <3> QED  BY <1>5, <1>8, <2>1, <2>3, <2>4, <3>1, HeadSets
  <2>6. IsPut(d1, d2, kn, <<"qk_norm", <<"k", l>>, u>>)
    <3>1. x2 = Launch("qk_norm", <<"k", l>>, <<qkv>>, kn)
      BY <1>1, <1>4
    <3>2. Device(d1) /\ d1.mem[qkv] = u
      BY <1>5, <1>6, <2>3, <2>4, <2>5 DEF IsPut
    <3> QED  BY <1>5, <2>1, <3>1, <3>2, HeadSets
  <2>7. IsPut(d2, d3, q, <<"qk_rope", <<"q", l>>, <<"qk_norm", <<"q", l>>, u>>, Rope(p + c)>>)
    <3>1. x3 = Launch("qk_rope", <<"q", l>>, <<qn, rope>>, q)
      BY <1>1, <1>4
    <3>2. Device(d2) /\ d2.mem[qn] = <<"qk_norm", <<"q", l>>, u>> /\ d2.mem[rope] = Rope(p + c)
      BY <1>5, <1>6, <2>3, <2>5, <2>6 DEF IsPut
    <3> QED  BY <1>5, <2>1, <3>1, <3>2, HeadSets
  <2>8. IsPut(d3, d4, k, <<"qk_rope", <<"k", l>>, <<"qk_norm", <<"k", l>>, u>>, Rope(p + c)>>)
    <3>1. x4 = Launch("qk_rope", <<"k", l>>, <<kn, rope>>, k)
      BY <1>1, <1>4
    <3>2. Device(d3) /\ d3.mem[kn] = <<"qk_norm", <<"k", l>>, u>> /\ d3.mem[rope] = Rope(p + c)
      BY <1>5, <1>6, <2>3, <2>5, <2>6, <2>7 DEF IsPut
    <3> QED  BY <1>5, <2>1, <3>1, <3>2, HeadSets
  <2>9. \A what : RefRope(l, what, hs, p + c + 1)
              = <<"qk_rope", <<what, l>>, <<"qk_norm", <<what, l>>, u>>, Rope(p + c)>>
    <3>1. (p + c + 1) - 1 = p + c
      OBVIOUS
    <3> QED  BY <2>4, <3>1 DEF RefRope
  <2>10. /\ Device(d4) /\ d4.cache = d.cache /\ Kept(d, d4, {qn, kn, q, k})
         /\ d4.mem[q] = RefRope(l, "q", hs, p + c + 1) /\ d4.mem[k] = RefRope(l, "k", hs, p + c + 1)
         /\ d4.mem[qkv] = u
    <3>1. Device(d4) /\ d4.cache = d.cache /\ d4.mem[k] = RefRope(l, "k", hs, p + c + 1)
      BY <2>5, <2>6, <2>7, <2>8, <2>9 DEF IsPut
    <3>2. Kept(d, d4, {qn, kn, q, k})
      BY <2>5, <2>6, <2>7, <2>8 DEF IsPut, Kept
    <3>3. d4.mem[q] = RefRope(l, "q", hs, p + c + 1)
      BY <1>5, <1>6, <2>7, <2>8, <2>9 DEF IsPut
    <3>4. d4.mem[qkv] = u
      BY <1>5, <1>6, <2>3, <2>4, <3>2 DEF Kept
    <3> QED  BY <3>1, <3>2, <3>3, <3>4
  <2>11. PICK i \in 0 .. Slots - 1 : i = p + c
    OBVIOUS
  <2>12. Attended(d4, e, l, hs, i, out, {sc, out})
    <3>1. t = Attention(l, q, k, qkv, sc, out, <<i, i + 1>>)
      BY <1>1, <1>4, <2>11
    <3>2. Placed(d4, <<i, i + 1>>, i) /\ RowsRight(d4, l, hs, i)
      BY <1>8, <2>10, <2>11 DEF Placed, RowsRight
    <3>3. /\ d4.mem[q] = RefRope(l, "q", hs, i + 1) /\ d4.mem[k] = RefRope(l, "k", hs, i + 1)
          /\ d4.mem[qkv] = RefQkv(l, hs, i + 1)
      BY <2>4, <2>10, <2>11
    <3> QED  BY <1>5, <1>6, <2>2, <2>10, <3>1, <3>2, <3>3, AttentionRuns
  <2>13. Kept(d, e, {qn, kn, q, k, sc, out})
    BY <2>10, <2>12 DEF Attended, Kept
  <2>14. Kept(d, e, ColumnScratch)
    BY <1>7, <2>13 DEF Kept
  <2>15. \A j \in 0 .. MaxBatch - 1 : j # c => e.mem[Col("attn_out", j)] = d.mem[Col("attn_out", j)]
    BY <1>7, <2>13 DEF Kept
  <2>16. OtherLayers(d, e, l) /\ RowsRight(e, l, hs, p + c + 1)
    BY <2>10, <2>11, <2>12 DEF Attended, OtherRows, OtherLayers, RowsRight
  <2>17. e.mem[Col("attn_out", c)] = RefAttention(l, hs, p + c + 1)
    BY <1>4, <2>11, <2>12 DEF Attended
  <2> QED  BY <2>12, <2>14, <2>15, <2>16, <2>17 DEF Attended, ColumnDone
<1>9. Prog(s \o t)
  BY <1>3, ProgConcat
<1> QED  BY <1>2, <1>8, <1>9 DEF ColumnStep

\* CUDA: attention of the token in column c, in the buffers of one token.
OneCells == {One(b) : b \in OneNames}
TokenPart(t, l, p, c) ==
    /\ Prog(t)
    /\ \A d, hs : /\ Device(d) /\ RowsRight(d, l, hs, p + c) /\ d.mem[One("hidden")] = hs[p + c + 1]
                  /\ d.mem[Col("qkv", c)] = RefQkv(l, hs, p + c + 1)
                  => Attended(d, RunOn(d, t), l, hs, p + c, One("attn_out"), OneCells)

\* CUDA: hidden state in, one token's launches, attention out.
LEMMA CudaColumn ==
  ASSUME NEW l, NEW p \in Nat, NEW c \in 0 .. MaxBatch - 1, NEW t, TokenPart(t, l, p, c)
  PROVE  ColumnStep(<< Copy(Col("hidden", c), One("hidden")) >> \o t
                    \o << Copy(One("attn_out"), Col("attn_out", c)) >>, l, p, c, FALSE)
<1> USE SizeAssumption
<1>1. PICK x, y, s : /\ x = Copy(Col("hidden", c), One("hidden"))
                          /\ y = Copy(One("attn_out"), Col("attn_out", c))
                     /\ s = <<x>> \o t \o <<y>>
  OBVIOUS
<1>2. /\ {One("hidden"), One("attn_out"), Col("hidden", c), Col("attn_out", c), Col("qkv", c)} \subseteq Cells
      /\ OneCells \subseteq ColumnScratch /\ OneCells \subseteq Cells /\ Col("attn_out", c) \in ColumnScratch
      /\ One("hidden") \in OneCells
      /\ \A b \in ColNames, k \in 0 .. MaxBatch - 1 : Col(b, k) \in Cells /\ Col(b, k) \notin OneCells
      /\ \A k \in 0 .. MaxBatch - 1 : k # c => Col("attn_out", k) # Col("attn_out", c)
  <2>1. {One("hidden"), One("attn_out"), Col("hidden", c), Col("attn_out", c), Col("qkv", c)} \subseteq Cells
    BY CellNames DEF OneNames, ColNames
  <2>2. OneCells \subseteq ColumnScratch /\ OneCells \subseteq Cells /\ Col("attn_out", c) \in ColumnScratch
    BY CellNames DEF OneCells, ColumnScratch, ColumnsOf
  <2>3. One("hidden") \in OneCells
    BY DEF OneCells, OneNames
  <2>4. \A b \in ColNames, k \in 0 .. MaxBatch - 1 : Col(b, k) \in Cells /\ Col(b, k) \notin OneCells
    BY CellNames DEF OneCells
  <2>5. \A k \in 0 .. MaxBatch - 1 : k # c => Col("attn_out", k) # Col("attn_out", c)
    BY CellNames
  <2> QED  BY <2>1, <2>2, <2>3, <2>4, <2>5
<1>3. Prog(t)
  BY DEF TokenPart
<1>4. ASSUME NEW d PROVE Then(d, s, Apply(y, RunOn(Apply(x, d), t)))
  <2>1. PICK a, b : a = Apply(x, d) /\ b = RunOn(a, t)
    OBVIOUS
  <2>2. Then(d, <<x>>, a) /\ Then(a, t, b) /\ Then(b, <<y>>, Apply(y, b))
    BY <1>3, <2>1, RunOne DEF Then
  <2>3. Then(d, <<x>> \o t, b)
    BY <2>2, ThenConcat
  <2> QED  BY <1>1, <2>1, <2>2, <2>3, ThenConcat
<1>5. ASSUME NEW d, NEW hs, Device(d), RowsRight(d, l, hs, p + c), ColumnReady(d, l, hs, p, c, FALSE),
             NEW e, e = RunOn(d, s)
      PROVE  ColumnDone(d, e, l, hs, p, c)
  <2>1. PICK a, b : a = Apply(x, d) /\ b = RunOn(a, t)
    OBVIOUS
  <2>2. e = Apply(y, b)
    BY <1>4, <1>5, <2>1 DEF Then
  <2>3. IsPut(d, a, One("hidden"), hs[p + c + 1])
    BY <1>1, <1>2, <1>5, <2>1, Sets DEF ColumnReady
  <2>4. a.mem[Col("qkv", c)] = RefQkv(l, hs, p + c + 1)
    <3>1. One("hidden") # Col("qkv", c)
      BY CellNames
    <3> QED  BY <1>2, <1>5, <2>3, <3>1 DEF IsPut, ColumnReady
  <2>5. Attended(a, b, l, hs, p + c, One("attn_out"), OneCells)
    <3>1. Device(a) /\ RowsRight(a, l, hs, p + c) /\ a.mem[One("hidden")] = hs[p + c + 1]
      BY <1>5, <2>3 DEF IsPut, RowsRight
    <3> QED  BY <2>1, <2>4, <3>1 DEF TokenPart
  <2>6. IsPut(b, e, Col("attn_out", c), RefAttention(l, hs, p + c + 1))
    BY <1>1, <1>2, <2>2, <2>5, Sets DEF Attended
  <2>7. ASSUME NEW z \in Cells \ OneCells, z # Col("attn_out", c) PROVE e.mem[z] = d.mem[z]
    BY <1>2, <2>3, <2>5, <2>6, <2>7 DEF IsPut, Attended, Kept
  <2>8. Kept(d, e, ColumnScratch)
    BY <1>2, <2>7 DEF Kept
  <2>9. \A k \in 0 .. MaxBatch - 1 : k # c => e.mem[Col("attn_out", k)] = d.mem[Col("attn_out", k)]
    BY <1>2, <2>7 DEF ColNames
  <2>10. OtherLayers(d, e, l) /\ RowsRight(e, l, hs, p + c + 1)
    BY <2>3, <2>5, <2>6 DEF IsPut, Attended, OtherRows, OtherLayers, RowsRight
  <2> QED  BY <2>6, <2>8, <2>9, <2>10 DEF IsPut, ColumnDone
<1>6. Prog(s)
  BY <1>4 DEF Then
<1> QED  BY <1>1, <1>5, <1>6 DEF ColumnStep

\* From the QKV column of the GEMM.
LEMMA FromColumnPart ==
  ASSUME NEW l \in 1 .. Depth, NEW p \in Nat, NEW c \in 0 .. MaxBatch - 1, p + c < Slots
  PROVE  TokenPart(FromColumn(l, p, c), l, p, c)
<1> USE SizeAssumption
<1>1. PICK x1, x2, x3, t :
         /\ x1 = Copy(Col("qkv", c), One("qkv")) /\ x2 = Upload(Rope(p + c), One("rope"))
         /\ x3 = Upload(PosSeqlen(p + c), One("pos")) /\ t = HeadsAt(l, <<>>)
  OBVIOUS
<1>2. FromColumn(l, p, c) = <<x1, x2, x3>> \o t
  BY <1>1, AttentionPhases DEF FromColumn
<1>3. Prog(<<x1, x2, x3>>) /\ Prog(t) /\ Prog(<<x1, x2, x3>> \o t)
  <2>1. Prog(<<x1, x2, x3>>) /\ Prog(t)
    BY <1>1, RunThree, HeadsProg
  <2> QED  BY <2>1, ProgConcat
<1>4. /\ {One("qkv"), One("rope"), One("pos")} \subseteq Cells
      /\ One("qkv") # One("rope") /\ One("qkv") # One("pos") /\ One("rope") # One("pos")
      /\ {One("qkv"), One("rope"), One("pos")} \subseteq OneCells /\ HeadScratch \subseteq OneCells
  <2>1. /\ {One("qkv"), One("rope"), One("pos")} \subseteq Cells
        /\ One("qkv") # One("rope") /\ One("qkv") # One("pos") /\ One("rope") # One("pos")
    BY CellNames DEF OneNames
  <2>2. {One("qkv"), One("rope"), One("pos")} \subseteq OneCells /\ HeadScratch \subseteq OneCells
    BY DEF OneCells, OneNames, HeadScratch
  <2> QED  BY <2>1, <2>2
<1>5. ASSUME NEW d, NEW hs, Device(d), RowsRight(d, l, hs, p + c), d.mem[Col("qkv", c)]
            = RefQkv(l, hs, p + c + 1),
             NEW e, e = RunOn(d, <<x1, x2, x3>> \o t)
      PROVE  Attended(d, e, l, hs, p + c, One("attn_out"), OneCells)
  <2>1. PICK d1, d2, d3 : d1 = Apply(x1, d) /\ d2 = Apply(x2, d1) /\ d3 = Apply(x3, d2)
    OBVIOUS
  <2>2. e = RunOn(d3, t)
    <3>1. RunOn(d, <<x1, x2, x3>>) = d3
      BY <2>1, RunThree
    <3> QED  BY <1>3, <1>5, <3>1, RunConcat
  <2>3. IsPut(d, d1, One("qkv"), RefQkv(l, hs, p + c + 1))
    BY <1>1, <1>4, <1>5, <2>1, Sets
  <2>4. IsPut(d1, d2, One("rope"), Rope(p + c))
    <3>1. Device(d1)
      BY <2>3 DEF IsPut
    <3> QED  BY <1>1, <1>4, <2>1, <3>1, Sets
  <2>5. IsPut(d2, d3, One("pos"), PosSeqlen(p + c))
    <3>1. Device(d2)
      BY <2>4 DEF IsPut
    <3> QED  BY <1>1, <1>4, <2>1, <3>1, Sets
  <2>6. PICK i \in 0 .. Slots - 1 : i = p + c
    OBVIOUS
  <2>7. /\ Device(d3) /\ d3.cache = d.cache /\ Kept(d, d3, OneCells)
        /\ d3.mem[One("qkv")] = RefQkv(l, hs, i + 1) /\ d3.mem[One("rope")] = Rope(i)
        /\ d3.mem[One("pos")] = PosSeqlen(i)
    <3>1. Kept(d, d3, OneCells)
      BY <1>4, <2>3, <2>4, <2>5 DEF IsPut, Kept
    <3>2. /\ Device(d3) /\ d3.cache = d.cache
          /\ d3.mem[One("qkv")] = RefQkv(l, hs, i + 1) /\ d3.mem[One("rope")] = Rope(i)
          /\ d3.mem[One("pos")] = PosSeqlen(i)
      BY <1>4, <2>3, <2>4, <2>5, <2>6 DEF IsPut
    <3> QED  BY <3>1, <3>2
  <2>8. Attended(d3, e, l, hs, i, One("attn_out"), HeadScratch)
    <3>1. Placed(d3, <<>>, i) /\ RowsRight(d3, l, hs, i)
      BY <1>5, <2>6, <2>7 DEF Placed, RowsRight
    <3> QED  BY <1>1, <2>2, <2>7, <3>1, HeadsRun
  <2>9. Kept(d, e, OneCells)
    BY <1>4, <2>7, <2>8 DEF Attended, Kept
  <2>10. OtherRows(d, e, l, p + c)
    BY <2>6, <2>7, <2>8 DEF Attended, OtherRows
  <2> QED  BY <2>6, <2>8, <2>9, <2>10 DEF Attended
<1> QED  BY <1>2, <1>3, <1>5 DEF TokenPart

\* From the hidden state, as CudaPrefillTernary does.
LEMMA FromHiddenPart ==
  ASSUME NEW l \in 1 .. Depth, NEW p \in Nat, NEW c \in 0 .. MaxBatch - 1, p + c < Slots
  PROVE  TokenPart(<< Upload(PosSeqlen(p + c), One("pos")), Upload(Rope(p + c), One("rope")) >>
                   \o CudaAttnPhaseTq2(l), l, p, c)
<1> USE SizeAssumption
<1>1. PICK x1, x2, t : /\ x1 = Upload(PosSeqlen(p + c), One("pos")) /\ x2 = Upload(Rope(p + c), One("rope"))
                       /\ t = TokenAttention(l, <<>>)
  OBVIOUS
<1>2. CudaAttnPhaseTq2(l) = t
  BY <1>1, AttentionPhases DEF CudaAttnPhaseTq2
<1>3. Prog(<<x1, x2>>) /\ Prog(t) /\ Prog(<<x1, x2>> \o t)
  <2>1. Prog(<<x1, x2>>) /\ Prog(t)
    BY <1>1, RunTwo, AttentionPhases
  <2> QED  BY <2>1, ProgConcat
<1>4. /\ {One("rope"), One("pos"), One("hidden")} \subseteq Cells /\ One("rope") # One("pos")
      /\ One("hidden") # One("rope") /\ One("hidden") # One("pos")
      /\ {One("rope"), One("pos")} \subseteq OneCells /\ TokenScratch \subseteq OneCells
  <2>1. /\ {One("rope"), One("pos"), One("hidden")} \subseteq Cells /\ One("rope") # One("pos")
        /\ One("hidden") # One("rope") /\ One("hidden") # One("pos")
    BY CellNames DEF OneNames
  <2>2. {One("rope"), One("pos")} \subseteq OneCells /\ TokenScratch \subseteq OneCells
    BY DEF OneCells, OneNames, TokenScratch, HeadScratch
  <2> QED  BY <2>1, <2>2
<1>5. ASSUME NEW d, NEW hs, Device(d), RowsRight(d, l, hs, p + c), d.mem[One("hidden")] = hs[p + c + 1],
             NEW e, e = RunOn(d, <<x1, x2>> \o t)
      PROVE  Attended(d, e, l, hs, p + c, One("attn_out"), OneCells)
  <2>1. PICK d1, d2 : d1 = Apply(x1, d) /\ d2 = Apply(x2, d1)
    OBVIOUS
  <2>2. e = RunOn(d2, t)
    <3>1. RunOn(d, <<x1, x2>>) = d2
      BY <2>1, RunTwo
    <3> QED  BY <1>3, <1>5, <3>1, RunConcat
  <2>3. IsPut(d, d1, One("pos"), PosSeqlen(p + c))
    BY <1>1, <1>4, <1>5, <2>1, Sets
  <2>4. IsPut(d1, d2, One("rope"), Rope(p + c))
    <3>1. Device(d1)
      BY <2>3 DEF IsPut
    <3> QED  BY <1>1, <1>4, <2>1, <3>1, Sets
  <2>6. PICK i \in 0 .. Slots - 1 : i = p + c
    OBVIOUS
  <2>7. /\ Device(d2) /\ d2.cache = d.cache /\ Kept(d, d2, OneCells)
        /\ d2.mem[One("hidden")] = hs[i + 1] /\ d2.mem[One("rope")] = Rope(i)
        /\ d2.mem[One("pos")] = PosSeqlen(i)
    <3>1. Kept(d, d2, OneCells)
      BY <1>4, <2>3, <2>4 DEF IsPut, Kept
    <3>2. /\ Device(d2) /\ d2.cache = d.cache
          /\ d2.mem[One("hidden")] = hs[i + 1] /\ d2.mem[One("rope")] = Rope(i)
          /\ d2.mem[One("pos")] = PosSeqlen(i)
      BY <1>4, <1>5, <2>3, <2>4, <2>6 DEF IsPut
    <3> QED  BY <3>1, <3>2
  <2>8. Attended(d2, e, l, hs, i, One("attn_out"), TokenScratch)
    <3>1. Placed(d2, <<>>, i) /\ RowsRight(d2, l, hs, i)
      BY <1>5, <2>6, <2>7 DEF Placed, RowsRight
    <3> QED  BY <1>1, <2>2, <2>7, <3>1, AttentionOfToken
  <2>9. Kept(d, e, OneCells)
    BY <1>4, <2>7, <2>8 DEF Attended, Kept
  <2>10. OtherRows(d, e, l, p + c)
    BY <2>6, <2>7, <2>8 DEF Attended, OtherRows
  <2> QED  BY <2>6, <2>8, <2>9, <2>10 DEF Attended
<1>6. TokenPart(<<x1, x2>> \o t, l, p, c)
  BY <1>3, <1>5 DEF TokenPart
<1> QED  BY <1>1, <1>2, <1>6

-----------------------------------------------------------------------------
\* The layers of a batch.
Columns(n) == [c \in 0 .. n - 1 |-> Col("hidden", c)]
\* The ropes of the first m columns.
RopesOf(p, m) == {<<Col("rope", c), Rope(p + c)>> : c \in 0 .. m - 1}

\* What it is to hold them.
LEMMA RopesHold ==
  ASSUME NEW d, NEW p, NEW m
  PROVE  Holds(d, RopesOf(p, m)) <=> \A c \in 0 .. m - 1 : d.mem[Col("rope", c)] = Rope(p + c)
<1>1. ASSUME Holds(d, RopesOf(p, m)), NEW c \in 0 .. m - 1 PROVE d.mem[Col("rope", c)] = Rope(p + c)
  <2>1. <<Col("rope", c), Rope(p + c)>> \in RopesOf(p, m)
    BY DEF RopesOf
  <2> QED  BY <1>1, <2>1 DEF Holds
<1>2. ASSUME \A c \in 0 .. m - 1 : d.mem[Col("rope", c)] = Rope(p + c) PROVE Holds(d, RopesOf(p, m))
  <2> SUFFICES ASSUME NEW z, NEW v, <<z, v>> \in RopesOf(p, m) PROVE d.mem[z] = v
    BY DEF Holds
  <2>1. PICK c \in 0 .. m - 1 : <<z, v>> = <<Col("rope", c), Rope(p + c)>>
    BY DEF RopesOf
  <2>2. z = Col("rope", c) /\ v = Rope(p + c)
    BY <2>1
  <2> QED  BY <1>2, <2>2
<1> QED  BY <1>1, <1>2

\* Behind norm and QKV every column is ready for attention.
LEMMA AfterQkv ==
  ASSUME NEW d, Device(d), NEW l, NEW hs, NEW p \in Nat, NEW n \in 1 .. MaxBatch, NEW ropes,
         RowsRight(d, l, hs, p), ropes => \A c \in 0 .. n - 1 : d.mem[Col("rope", c)] = Rope(p + c),
         NEW x, x = [c \in 0 .. n - 1 |-> hs[p + c + 1]], Yields(d, n, "hidden", x),
               NEW e, QkvDone(d, e, l, n, x)
  PROVE  /\ Device(e) /\ RowsRight(e, l, hs, p) /\ Yields(e, n, "hidden", x)
         /\ \A c \in 0 .. n - 1 : ColumnReady(e, l, hs, p, c, ropes)
<1> USE SizeAssumption
<1>1. Yields(e, n, "hidden", x)
  <2>1. "hidden" \in ColNames \ {"normed", "qkv", "attn_out"}
    BY DEF ColNames
  <2> QED  BY <2>1, YieldsKept DEF QkvDone
<1>2. ASSUME NEW c \in 0 .. n - 1 PROVE ColumnReady(e, l, hs, p, c, ropes)
  <2>1. e.mem[Col("hidden", c)] = hs[p + c + 1]
    BY <1>1 DEF Yields
  <2>2. e.mem[Col("qkv", c)] = RefQkv(l, hs, p + c + 1)
    <3>1. x[c] = hs[p + c + 1]
      OBVIOUS
    <3> QED  BY <3>1 DEF QkvDone, RefQkv
  <2>3. e.mem[Col("rope", c)] = d.mem[Col("rope", c)]
    <3>1. "rope" \in ColNames \ {"normed", "qkv", "attn_out"} /\ c \in 0 .. MaxBatch - 1
      BY DEF ColNames
    <3>2. Kept(d, e, ColumnsOf({"normed", "qkv", "attn_out"}))
      BY DEF QkvDone
    <3> QED  BY <3>1, <3>2, KeptCells
  <2> QED  BY <2>1, <2>2, <2>3 DEF ColumnReady
<1> QED  BY <1>1, <1>2 DEF QkvDone, RowsRight

\* Behind the loop, hidden states and attention of all columns.
LEMMA AfterColumns ==
  ASSUME NEW d, NEW e, NEW l, NEW hs, NEW p \in Nat, NEW n \in 1 .. MaxBatch, ColumnsDone(d, e, l, hs, p, n),
         NEW x, Yields(d, n, "hidden", x), NEW u, u = [c \in 0 .. n - 1 |-> RefAttention(l, hs, p + c + 1)]
  PROVE  Device(e) /\ Yields(e, n, "hidden", x) /\ Yields(e, n, "attn_out", u)
<1> USE SizeAssumption
<1>1. ASSUME NEW c \in 0 .. n - 1 PROVE e.mem[Col("hidden", c)] = x[c]
  <2>1. Col("hidden", c) \in Cells /\ Col("hidden", c) \notin ColumnScratch
    <3>1. c \in 0 .. MaxBatch - 1
      OBVIOUS
    <3> QED  BY <3>1, CellNames DEF ColumnScratch, ColumnsOf, ColNames
  <2> QED  BY <2>1 DEF ColumnsDone, Kept, Yields
<1>2. Yields(e, n, "attn_out", u)
  BY DEF ColumnsDone, Yields
<1> QED  BY <1>1, <1>2 DEF ColumnsDone, Yields

\* The rotations uploaded once outlast a layer.
LEMMA RopesStay ==
  ASSUME NEW d, NEW a, NEW b, NEW f, NEW e, NEW l, NEW hs, NEW p, NEW n \in 1 .. MaxBatch, NEW x, NEW u, NEW y,
         QkvDone(d, a, l, n, x), ColumnsDone(a, b, l, hs, p, n), ProjDone(b, f, l, n, x, u), FfnDone(f, e,
               l, n, y),
         NEW c \in 0 .. n - 1
  PROVE  e.mem[Col("rope", c)] = d.mem[Col("rope", c)]
<1>1. c \in 0 .. MaxBatch - 1
  BY SizeAssumption
<1>2. /\ "rope" \in ColNames \ {"normed", "qkv", "attn_out"} /\ "rope" \in ColNames \ {"hidden", "normed"}
      /\ "rope" \in ColNames \ {"hidden", "normed", "gate_up", "swiglu"}
  BY DEF ColNames
<1>3. a.mem[Col("rope", c)] = d.mem[Col("rope", c)]
  BY <1>1, <1>2, KeptCells DEF QkvDone
<1>4. b.mem[Col("rope", c)] = a.mem[Col("rope", c)]
  <2>1. Col("rope", c) \in Cells /\ Col("rope", c) \notin ColumnScratch
    BY <1>1, CellNames DEF ColumnScratch, ColumnsOf, ColNames
  <2> QED  BY <2>1 DEF ColumnsDone, Kept
<1>5. f.mem[Col("rope", c)] = b.mem[Col("rope", c)]
  BY <1>1, <1>2, KeptCells DEF ProjDone
<1>6. e.mem[Col("rope", c)] = f.mem[Col("rope", c)]
  BY <1>1, <1>2, KeptCells DEF FfnDone, RestColumns
<1> QED  BY <1>3, <1>4, <1>5, <1>6

\* The four parts are a layer of the reference.
LEMMA BatchLayerDone ==
  ASSUME NEW d, Device(d), NEW l, NEW hs, NEW p \in Nat, NEW n \in 1 .. MaxBatch, NEW m \in 0 .. n,
         Holds(d, RopesOf(p, m)), NEW x, x = [c \in 0 .. n - 1 |-> hs[p + c + 1]],
         NEW a, QkvDone(d, a, l, n, x), NEW b, ColumnsDone(a, b, l, hs, p, n),
         NEW u, u = [c \in 0 .. n - 1 |-> RefAttention(l, hs, p + c + 1)],
         NEW f, ProjDone(b, f, l, n, x, u),
         NEW y, y = [c \in 0 .. n - 1 |-> Plus(x[c], <<"mul", <<"o", l>>, u[c]>>)],
         NEW e, FfnDone(f, e, l, n, y)
  PROVE  LayerDone(d, e, l, hs, p, n, Columns(n), RopesOf(p, m))
<1>1. ASSUME NEW c \in 0 .. n - 1 PROVE e.mem[Columns(n)[c]] = RefBlock(l, hs, p + c + 1)
  <2>1. e.mem[Col("hidden", c)] = FfnOf(l, y[c])
    BY DEF FfnDone
  <2>2. y[c] = Plus(hs[p + c + 1], <<"mul", <<"o", l>>, RefAttention(l, hs, p + c + 1)>>)
    OBVIOUS
  <2>3. FfnOf(l, y[c]) = RefBlock(l, hs, p + c + 1)
    BY <2>2 DEF FfnOf, RefBlock
  <2> QED  BY <2>1, <2>3 DEF Columns
<1>2. Holds(e, RopesOf(p, m))
  <2>1. \A c \in 0 .. n - 1 : e.mem[Col("rope", c)] = d.mem[Col("rope", c)]
    BY RopesStay
  <2>2. \A c \in 0 .. m - 1 : c \in 0 .. n - 1
    OBVIOUS
  <2>3. \A c \in 0 .. m - 1 : d.mem[Col("rope", c)] = Rope(p + c)
    BY RopesHold
  <2>4. \A c \in 0 .. m - 1 : e.mem[Col("rope", c)] = Rope(p + c)
    BY <2>1, <2>2, <2>3
  <2> QED  BY <2>4, RopesHold
<1>3. OtherLayers(d, e, l) /\ RowsRight(e, l, hs, p + n)
  BY DEF QkvDone, ColumnsDone, ProjDone, FfnDone, OtherLayers, RowsRight
<1> QED  BY <1>1, <1>2, <1>3 DEF FfnDone, LayerDone

\* The projection as columns.
LEMMA ProjYields ==
  ASSUME NEW d, NEW e, NEW l, NEW n, NEW x, NEW u, ProjDone(d, e, l, n, x, u),
         NEW y, y = [c \in 0 .. n - 1 |-> Plus(x[c], <<"mul", <<"o", l>>, u[c]>>)]
  PROVE  Device(e) /\ Yields(e, n, "hidden", y)
BY DEF ProjDone, Yields

\* All of these are programs.
LEMMA ColsProgs ==
  /\ \A n \in Nat : \A w, x, y : Prog(NormCols(n, w, x, y)) /\ Prog(MulCols(n, w, x, y))
        /\ Prog(SumCols(n, w, x, y))
  /\ \A n \in Nat : \A w, x, y : Prog(GateCols(n, w, x, y)) /\ Prog(ZeroedMulAdd(w, x, y, n))
  /\ \A n \in Nat : \A x, y : Prog(SwigluCols(n, x, y)) /\ Prog(ResidualCols(n, x, y))
  /\ \A n \in Nat : \A y : Prog(FillCols(n, y))
<1>1. ASSUME NEW n \in Nat, NEW s, s = [i \in 1 .. n |-> s[i]] PROVE Prog(s)
  <2>1. PICK S : S = {s[i] : i \in 1 .. n}
    OBVIOUS
  <2>2. s \in Seq(S)
    BY <1>1, <2>1
  <2> QED  BY <2>2 DEF Prog
<1>2. ASSUME NEW n \in Nat, NEW w, NEW x, NEW y
      PROVE  Prog(NormCols(n, w, x, y)) /\ Prog(MulCols(n, w, x, y)) /\ Prog(SumCols(n, w, x, y))
  BY <1>1 DEF NormCols, MulCols, SumCols
<1>3. ASSUME NEW n \in Nat, NEW w, NEW x, NEW y PROVE Prog(GateCols(n, w, x, y))
  BY <1>1 DEF GateCols
<1>4. ASSUME NEW n \in Nat, NEW x, NEW y PROVE Prog(SwigluCols(n, x, y)) /\ Prog(ResidualCols(n, x, y))
  BY <1>1 DEF SwigluCols, ResidualCols
<1>5. ASSUME NEW n \in Nat, NEW y PROVE Prog(FillCols(n, y))
  BY <1>1 DEF FillCols
<1>6. ASSUME NEW n \in Nat, NEW w, NEW x, NEW y PROVE Prog(ZeroedMulAdd(w, x, y, n))
  <2>1. ZeroedMulAdd(w, x, y, n) = FillCols(n, y) \o SumCols(n, w, x, y)
    BY DEF ZeroedMulAdd, Cols, FillCols, SumCols
  <2> QED  BY <1>2, <1>5, <2>1, ProgConcat
<1> QED  BY <1>2, <1>3, <1>4, <1>5, <1>6

\* Metal, 1-bit.
LEMMA MetalPrefillLayer ==
  ASSUME NEW l \in 1 .. Depth, NEW p \in Nat, NEW n \in 1 .. MaxBatch, p + n <= Slots
  PROVE  BatchStep(MetalLayerPrefill(l, n, p), l, p, n, Columns(n), RopesOf(p, n))
<1> USE SizeAssumption
<1>1. PICK seqs : seqs = [i \in 1 .. n |-> MetalColumnAttention(l, p, i - 1)]
  OBVIOUS
<1>2. PICK s1, s2, s3, s4, s5, s6, s7 :
         /\ s1 = NormCols(n, <<"attn_norm", l>>, "hidden", "normed")
         /\ s2 = MulCols(n, <<"qkv", l>>, "normed", "qkv")
         /\ s3 = FlattenSeq(seqs)
         /\ s4 = SumCols(n, <<"o", l>>, "attn_out", "hidden")
         /\ s5 = NormCols(n, <<"ffn_norm", l>>, "hidden", "normed")
         /\ s6 = GateCols(n, l, "normed", "swiglu")
         /\ s7 = SumCols(n, <<"down", l>>, "swiglu", "hidden")
  OBVIOUS
<1>3. MetalLayerPrefill(l, n, p) = (((((s1 \o s2) \o s3) \o s4) \o s5) \o s6) \o s7
  BY <1>1, <1>2 DEF MetalLayerPrefill, BatchedRmsNorm, Cols, EachCol, NormCols, MulCols, SumCols, GateCols
<1>4. seqs = [i \in 1 .. n |-> seqs[i]] /\ \A c \in 0 .. n - 1 : ColumnStep(seqs[c + 1], l, p, c, TRUE)
  <2>1. ASSUME NEW c \in 0 .. n - 1 PROVE ColumnStep(seqs[c + 1], l, p, c, TRUE)
    <3>1. c + 1 \in 1 .. n /\ (c + 1) - 1 = c /\ c \in 0 .. MaxBatch - 1 /\ p + c < Slots
      OBVIOUS
    <3>2. seqs[c + 1] = MetalColumnAttention(l, p, c)
      BY <1>1, <3>1
    <3> QED  BY <3>1, <3>2, MetalColumn
  <2> QED  BY <1>1, <2>1
<1>5. ASSUME NEW d, NEW hs, Device(d), Holds(d, RopesOf(p, n)), RowsRight(d, l, hs, p),
             \A c \in 0 .. n - 1 : d.mem[Columns(n)[c]] = hs[p + c + 1]
      PROVE  \E e : Then(d, (((((s1 \o s2) \o s3) \o s4) \o s5) \o s6) \o s7, e)
            /\ LayerDone(d, e, l, hs, p, n, Columns(n), RopesOf(p, n))
  <2>1. PICK e1, e2, e3, e4, e5, e6, e7 :
           /\ e1 = RunOn(d, s1)
           /\ e2 = RunOn(e1, s2)
           /\ e3 = RunOn(e2, s3)
           /\ e4 = RunOn(e3, s4)
           /\ e5 = RunOn(e4, s5)
           /\ e6 = RunOn(e5, s6)
           /\ e7 = RunOn(e6, s7)
    OBVIOUS
  <2>2. PICK x, u, y : /\ x = [c \in 0 .. n - 1 |-> hs[p + c + 1]]
                       /\ u = [c \in 0 .. n - 1 |-> RefAttention(l, hs, p + c + 1)]
                       /\ y = [c \in 0 .. n - 1 |-> Plus(x[c], <<"mul", <<"o", l>>, u[c]>>)]
    OBVIOUS
  <2>3. Yields(d, n, "hidden", x)
    BY <1>5, <2>2 DEF Yields, Columns
  <2>4. Then(d, s1, e1) /\ Then(e1, s2, e2) /\ QkvDone(d, e2, l, n, x)
    BY <1>2, <1>5, <2>1, <2>3, MetalQkv
  <2>5. /\ Device(e2) /\ RowsRight(e2, l, hs, p) /\ Yields(e2, n, "hidden", x)
        /\ \A c \in 0 .. n - 1 : ColumnReady(e2, l, hs, p, c, TRUE)
    <3>1. TRUE => \A c \in 0 .. n - 1 : d.mem[Col("rope", c)] = Rope(p + c)
      BY <1>5, RopesHold
    <3> QED  BY <1>5, <2>2, <2>3, <2>4, <3>1, AfterQkv, ZenonT(30)
  <2>6. Then(e2, s3, e3) /\ ColumnsDone(e2, e3, l, hs, p, n)
    BY <1>2, <1>4, <2>1, <2>5, ColumnsLoop
  <2>7. Device(e3) /\ Yields(e3, n, "hidden", x) /\ Yields(e3, n, "attn_out", u)
    BY <2>2, <2>5, <2>6, AfterColumns
  <2>8. Then(e3, s4, e4) /\ ProjDone(e3, e4, l, n, x, u)
    BY <1>2, <2>1, <2>7, FusedProj
  <2>9. Device(e4) /\ Yields(e4, n, "hidden", y)
    <3>1. ProjDone(e3, e4, l, n, x, u)
      BY <2>8
    <3>2. y = [c \in 0 .. n - 1 |-> Plus(x[c], <<"mul", <<"o", l>>, u[c]>>)]
      BY <2>2
    <3> QED  BY <3>1, <3>2, ProjYields
  <2>10. Then(e4, s5, e5) /\ Then(e5, s6, e6) /\ Then(e6, s7, e7) /\ FfnDone(e4, e7, l, n, y)
    <3>1. e5 = RunOn(e4, NormCols(n, <<"ffn_norm", l>>, "hidden", "normed"))
                /\ e6 = RunOn(e5, GateCols(n, l, "normed", "swiglu"))
                /\ e7 = RunOn(e6, SumCols(n, <<"down", l>>, "swiglu", "hidden"))
      BY <1>2, <2>1
    <3>2. Then(e4, NormCols(n, <<"ffn_norm", l>>, "hidden", "normed"), e5)
                /\ Then(e5, GateCols(n, l, "normed", "swiglu"), e6)
                /\ Then(e6, SumCols(n, <<"down", l>>, "swiglu", "hidden"), e7) /\ FfnDone(e4, e7, l, n, y)
      BY <2>9, <3>1, FusedFfn
    <3> QED  BY <1>2, <3>2
  <2>11. LayerDone(d, e7, l, hs, p, n, Columns(n), RopesOf(p, n))
    <3>1. Device(d) /\ Holds(d, RopesOf(p, n)) /\ n \in 0 .. n
      BY <1>5
    <3>2. QkvDone(d, e2, l, n, x) /\ ColumnsDone(e2, e3, l, hs, p, n)
      BY <2>4, <2>6
    <3>3. ProjDone(e3, e4, l, n, x, u) /\ FfnDone(e4, e7, l, n, y)
      BY <2>8, <2>10
    <3> QED  BY <2>2, <3>1, <3>2, <3>3, BatchLayerDone
  <2>12. Then(d, s1 \o s2, e2)
    BY <2>4, ThenConcat
  <2>13. Then(d, (s1 \o s2) \o s3, e3)
    BY <2>12, <2>6, ThenConcat
  <2>14. Then(d, ((s1 \o s2) \o s3) \o s4, e4)
    BY <2>13, <2>8, ThenConcat
  <2>15. Then(d, (((s1 \o s2) \o s3) \o s4) \o s5, e5)
    BY <2>14, <2>10, ThenConcat
  <2>16. Then(d, ((((s1 \o s2) \o s3) \o s4) \o s5) \o s6, e6)
    BY <2>15, <2>10, ThenConcat
  <2>17. Then(d, (((((s1 \o s2) \o s3) \o s4) \o s5) \o s6) \o s7, e7)
    BY <2>16, <2>10, ThenConcat
  <2> QED  BY <2>11, <2>17
<1>6. ASSUME NEW d, NEW hs, Device(d), Holds(d, RopesOf(p, n)), RowsRight(d, l, hs, p),
             \A c \in 0 .. n - 1 : d.mem[Columns(n)[c]] = hs[p + c + 1]
      PROVE  LayerDone(d, RunOn(d, MetalLayerPrefill(l, n, p)), l, hs, p, n, Columns(n), RopesOf(p, n))
  <2>1. PICK e : Then(d, MetalLayerPrefill(l, n, p), e)
              /\ LayerDone(d, e, l, hs, p, n, Columns(n), RopesOf(p, n))
    BY <1>3, <1>5, <1>6
  <2> QED  BY <2>1 DEF Then
<1>7. Prog(MetalLayerPrefill(l, n, p))
  <2>1. Prog(s1) /\ Prog(s2) /\ Prog(s4) /\ Prog(s5) /\ Prog(s6) /\ Prog(s7)
    <3>1. Prog(s1)
      BY <1>2, ColsProgs
    <3>2. Prog(s2)
      BY <1>2, ColsProgs
    <3>3. Prog(s4)
      BY <1>2, ColsProgs
    <3>4. Prog(s5)
      BY <1>2, ColsProgs
    <3>5. Prog(s6)
      BY <1>2, ColsProgs
    <3>6. Prog(s7)
      BY <1>2, ColsProgs
    <3> QED  BY <3>1, <3>2, <3>3, <3>4, <3>5, <3>6
  <2>2. Prog(s3)
    <3>1. ASSUME NEW i \in 1 .. n PROVE Prog(seqs[i])
      <4>1. i - 1 \in 0 .. n - 1 /\ (i - 1) + 1 = i
        OBVIOUS
      <4>2. ColumnStep(seqs[(i - 1) + 1], l, p, i - 1, TRUE)
        BY <1>4, <4>1
      <4> QED  BY <4>1, <4>2 DEF ColumnStep
    <3>2. PICK d : d = [mem |-> mem, cache |-> cache]
      OBVIOUS
    <3>3. n \in Nat \ {0}
      OBVIOUS
    <3>4. FlatRuns(d, seqs, n)
      BY <1>4, <3>1, <3>3, RunFlat
    <3> QED  BY <1>2, <3>4 DEF FlatRuns
  <2>3. Prog(s1 \o s2)
    BY <2>1, ProgConcat
  <2>4. Prog((s1 \o s2) \o s3)
    BY <2>3, <2>2, ProgConcat
  <2>5. Prog(((s1 \o s2) \o s3) \o s4)
    BY <2>4, <2>1, ProgConcat
  <2>6. Prog((((s1 \o s2) \o s3) \o s4) \o s5)
    BY <2>5, <2>1, ProgConcat
  <2>7. Prog(((((s1 \o s2) \o s3) \o s4) \o s5) \o s6)
    BY <2>6, <2>1, ProgConcat
  <2>8. Prog((((((s1 \o s2) \o s3) \o s4) \o s5) \o s6) \o s7)
    BY <2>7, <2>1, ProgConcat
  <2> QED  BY <1>3, <2>8
<1> QED  BY <1>6, <1>7 DEF BatchStep

\* Metal, ternary.
LEMMA MetalPrefillTernaryLayer ==
  ASSUME NEW l \in 1 .. Depth, NEW p \in Nat, NEW n \in 1 .. MaxBatch, p + n <= Slots
  PROVE  BatchStep(MetalLayerPrefillTernary(l, n, p), l, p, n, Columns(n), RopesOf(p, n))
<1> USE SizeAssumption
<1>1. PICK seqs : seqs = [i \in 1 .. n |-> MetalColumnAttention(l, p, i - 1)]
  OBVIOUS
<1>2. PICK s1, s2, s3, s4, s5, s6, s7, s8, s9, s10 :
         /\ s1 = NormCols(n, <<"attn_norm", l>>, "hidden", "normed")
         /\ s2 = MulCols(n, <<"qkv", l>>, "normed", "qkv")
         /\ s3 = FlattenSeq(seqs)
         /\ s4 = MulCols(n, <<"o", l>>, "attn_out", "normed")
         /\ s5 = ResidualCols(n, "normed", "hidden")
         /\ s6 = NormCols(n, <<"ffn_norm", l>>, "hidden", "normed")
         /\ s7 = MulCols(n, <<"gate_up", l>>, "normed", "gate_up")
         /\ s8 = SwigluCols(n, "gate_up", "swiglu")
         /\ s9 = MulCols(n, <<"down", l>>, "swiglu", "normed")
         /\ s10 = ResidualCols(n, "normed", "hidden")
  OBVIOUS
<1>3. MetalLayerPrefillTernary(l, n, p) = ((((((((s1 \o s2) \o s3) \o s4) \o s5) \o s6) \o s7) \o s8)
            \o s9) \o s10
  BY <1>1, <1>2 DEF MetalLayerPrefillTernary, BatchedRmsNorm, Cols, EachCol, NormCols, MulCols, SwigluCols,
     ResidualCols
<1>4. seqs = [i \in 1 .. n |-> seqs[i]] /\ \A c \in 0 .. n - 1 : ColumnStep(seqs[c + 1], l, p, c, TRUE)
  <2>1. ASSUME NEW c \in 0 .. n - 1 PROVE ColumnStep(seqs[c + 1], l, p, c, TRUE)
    <3>1. c + 1 \in 1 .. n /\ (c + 1) - 1 = c /\ c \in 0 .. MaxBatch - 1 /\ p + c < Slots
      OBVIOUS
    <3>2. seqs[c + 1] = MetalColumnAttention(l, p, c)
      BY <1>1, <3>1
    <3> QED  BY <3>1, <3>2, MetalColumn
  <2> QED  BY <1>1, <2>1
<1>5. ASSUME NEW d, NEW hs, Device(d), Holds(d, RopesOf(p, n)), RowsRight(d, l, hs, p),
             \A c \in 0 .. n - 1 : d.mem[Columns(n)[c]] = hs[p + c + 1]
      PROVE  \E e : Then(d, ((((((((s1 \o s2) \o s3) \o s4) \o s5) \o s6) \o s7) \o s8) \o s9)
            \o s10, e) /\ LayerDone(d, e, l, hs, p, n, Columns(n), RopesOf(p, n))
  <2>1. PICK e1, e2, e3, e4, e5, e6, e7, e8, e9, e10 :
           /\ e1 = RunOn(d, s1)
           /\ e2 = RunOn(e1, s2)
           /\ e3 = RunOn(e2, s3)
           /\ e4 = RunOn(e3, s4)
           /\ e5 = RunOn(e4, s5)
           /\ e6 = RunOn(e5, s6)
           /\ e7 = RunOn(e6, s7)
           /\ e8 = RunOn(e7, s8)
           /\ e9 = RunOn(e8, s9)
           /\ e10 = RunOn(e9, s10)
    OBVIOUS
  <2>2. PICK x, u, y : /\ x = [c \in 0 .. n - 1 |-> hs[p + c + 1]]
                       /\ u = [c \in 0 .. n - 1 |-> RefAttention(l, hs, p + c + 1)]
                       /\ y = [c \in 0 .. n - 1 |-> Plus(x[c], <<"mul", <<"o", l>>, u[c]>>)]
    OBVIOUS
  <2>3. Yields(d, n, "hidden", x)
    BY <1>5, <2>2 DEF Yields, Columns
  <2>4. Then(d, s1, e1) /\ Then(e1, s2, e2) /\ QkvDone(d, e2, l, n, x)
    BY <1>2, <1>5, <2>1, <2>3, MetalQkv
  <2>5. /\ Device(e2) /\ RowsRight(e2, l, hs, p) /\ Yields(e2, n, "hidden", x)
        /\ \A c \in 0 .. n - 1 : ColumnReady(e2, l, hs, p, c, TRUE)
    <3>1. TRUE => \A c \in 0 .. n - 1 : d.mem[Col("rope", c)] = Rope(p + c)
      BY <1>5, RopesHold
    <3> QED  BY <1>5, <2>2, <2>3, <2>4, <3>1, AfterQkv, ZenonT(30)
  <2>6. Then(e2, s3, e3) /\ ColumnsDone(e2, e3, l, hs, p, n)
    BY <1>2, <1>4, <2>1, <2>5, ColumnsLoop
  <2>7. Device(e3) /\ Yields(e3, n, "hidden", x) /\ Yields(e3, n, "attn_out", u)
    BY <2>2, <2>5, <2>6, AfterColumns
  <2>8. Then(e3, s4, e4) /\ Then(e4, s5, e5) /\ ProjDone(e3, e5, l, n, x, u)
    BY <1>2, <2>1, <2>7, SteppedProj
  <2>9. Device(e5) /\ Yields(e5, n, "hidden", y)
    <3>1. ProjDone(e3, e5, l, n, x, u)
      BY <2>8
    <3>2. y = [c \in 0 .. n - 1 |-> Plus(x[c], <<"mul", <<"o", l>>, u[c]>>)]
      BY <2>2
    <3> QED  BY <3>1, <3>2, ProjYields
  <2>10. Then(e5, s6, e6) /\ Then(e6, s7, e7) /\ Then(e7, s8, e8) /\ Then(e8, s9, e9)
               /\ Then(e9, s10, e10) /\ FfnDone(e5, e10, l, n, y)
    <3>1. e6 = RunOn(e5, NormCols(n, <<"ffn_norm", l>>, "hidden", "normed"))
                /\ e7 = RunOn(e6, MulCols(n, <<"gate_up", l>>, "normed", "gate_up"))
                /\ e8 = RunOn(e7, SwigluCols(n, "gate_up", "swiglu"))
                /\ e9 = RunOn(e8, MulCols(n, <<"down", l>>, "swiglu", "normed"))
                /\ e10 = RunOn(e9, ResidualCols(n, "normed", "hidden"))
      BY <1>2, <2>1
    <3>2. Then(e5, NormCols(n, <<"ffn_norm", l>>, "hidden", "normed"), e6)
                /\ Then(e6, MulCols(n, <<"gate_up", l>>, "normed", "gate_up"), e7)
                /\ Then(e7, SwigluCols(n, "gate_up", "swiglu"), e8)
                /\ Then(e8, MulCols(n, <<"down", l>>, "swiglu", "normed"), e9)
                /\ Then(e9, ResidualCols(n, "normed", "hidden"), e10) /\ FfnDone(e5, e10, l, n, y)
      BY <2>9, <3>1, SteppedFfn
    <3> QED  BY <1>2, <3>2
  <2>11. LayerDone(d, e10, l, hs, p, n, Columns(n), RopesOf(p, n))
    <3>1. Device(d) /\ Holds(d, RopesOf(p, n)) /\ n \in 0 .. n
      BY <1>5
    <3>2. QkvDone(d, e2, l, n, x) /\ ColumnsDone(e2, e3, l, hs, p, n)
      BY <2>4, <2>6
    <3>3. ProjDone(e3, e5, l, n, x, u) /\ FfnDone(e5, e10, l, n, y)
      BY <2>8, <2>10
    <3> QED  BY <2>2, <3>1, <3>2, <3>3, BatchLayerDone
  <2>12. Then(d, s1 \o s2, e2)
    BY <2>4, ThenConcat
  <2>13. Then(d, (s1 \o s2) \o s3, e3)
    BY <2>12, <2>6, ThenConcat
  <2>14. Then(d, ((s1 \o s2) \o s3) \o s4, e4)
    BY <2>13, <2>8, ThenConcat
  <2>15. Then(d, (((s1 \o s2) \o s3) \o s4) \o s5, e5)
    BY <2>14, <2>8, ThenConcat
  <2>16. Then(d, ((((s1 \o s2) \o s3) \o s4) \o s5) \o s6, e6)
    BY <2>15, <2>10, ThenConcat
  <2>17. Then(d, (((((s1 \o s2) \o s3) \o s4) \o s5) \o s6) \o s7, e7)
    BY <2>16, <2>10, ThenConcat
  <2>18. Then(d, ((((((s1 \o s2) \o s3) \o s4) \o s5) \o s6) \o s7) \o s8, e8)
    BY <2>17, <2>10, ThenConcat
  <2>19. Then(d, (((((((s1 \o s2) \o s3) \o s4) \o s5) \o s6) \o s7) \o s8) \o s9, e9)
    BY <2>18, <2>10, ThenConcat
  <2>20. Then(d, ((((((((s1 \o s2) \o s3) \o s4) \o s5) \o s6) \o s7) \o s8) \o s9) \o s10, e10)
    BY <2>19, <2>10, ThenConcat
  <2> QED  BY <2>11, <2>20
<1>6. ASSUME NEW d, NEW hs, Device(d), Holds(d, RopesOf(p, n)), RowsRight(d, l, hs, p),
             \A c \in 0 .. n - 1 : d.mem[Columns(n)[c]] = hs[p + c + 1]
      PROVE  LayerDone(d, RunOn(d, MetalLayerPrefillTernary(l, n, p)), l, hs, p, n, Columns(n), RopesOf(p, n))
  <2>1. PICK e : Then(d, MetalLayerPrefillTernary(l, n, p), e)
              /\ LayerDone(d, e, l, hs, p, n, Columns(n), RopesOf(p, n))
    BY <1>3, <1>5, <1>6
  <2> QED  BY <2>1 DEF Then
<1>7. Prog(MetalLayerPrefillTernary(l, n, p))
  <2>1. Prog(s1) /\ Prog(s2) /\ Prog(s4) /\ Prog(s5) /\ Prog(s6) /\ Prog(s7) /\ Prog(s8) /\ Prog(s9)
              /\ Prog(s10)
    <3>1. Prog(s1)
      BY <1>2, ColsProgs
    <3>2. Prog(s2)
      BY <1>2, ColsProgs
    <3>3. Prog(s4)
      BY <1>2, ColsProgs
    <3>4. Prog(s5)
      BY <1>2, ColsProgs
    <3>5. Prog(s6)
      BY <1>2, ColsProgs
    <3>6. Prog(s7)
      BY <1>2, ColsProgs
    <3>7. Prog(s8)
      BY <1>2, ColsProgs
    <3>8. Prog(s9)
      BY <1>2, ColsProgs
    <3>9. Prog(s10)
      BY <1>2, ColsProgs
    <3> QED  BY <3>1, <3>2, <3>3, <3>4, <3>5, <3>6, <3>7, <3>8, <3>9
  <2>2. Prog(s3)
    <3>1. ASSUME NEW i \in 1 .. n PROVE Prog(seqs[i])
      <4>1. i - 1 \in 0 .. n - 1 /\ (i - 1) + 1 = i
        OBVIOUS
      <4>2. ColumnStep(seqs[(i - 1) + 1], l, p, i - 1, TRUE)
        BY <1>4, <4>1
      <4> QED  BY <4>1, <4>2 DEF ColumnStep
    <3>2. PICK d : d = [mem |-> mem, cache |-> cache]
      OBVIOUS
    <3>3. n \in Nat \ {0}
      OBVIOUS
    <3>4. FlatRuns(d, seqs, n)
      BY <1>4, <3>1, <3>3, RunFlat
    <3> QED  BY <1>2, <3>4 DEF FlatRuns
  <2>3. Prog(s1 \o s2)
    BY <2>1, ProgConcat
  <2>4. Prog((s1 \o s2) \o s3)
    BY <2>3, <2>2, ProgConcat
  <2>5. Prog(((s1 \o s2) \o s3) \o s4)
    BY <2>4, <2>1, ProgConcat
  <2>6. Prog((((s1 \o s2) \o s3) \o s4) \o s5)
    BY <2>5, <2>1, ProgConcat
  <2>7. Prog(((((s1 \o s2) \o s3) \o s4) \o s5) \o s6)
    BY <2>6, <2>1, ProgConcat
  <2>8. Prog((((((s1 \o s2) \o s3) \o s4) \o s5) \o s6) \o s7)
    BY <2>7, <2>1, ProgConcat
  <2>9. Prog(((((((s1 \o s2) \o s3) \o s4) \o s5) \o s6) \o s7) \o s8)
    BY <2>8, <2>1, ProgConcat
  <2>10. Prog((((((((s1 \o s2) \o s3) \o s4) \o s5) \o s6) \o s7) \o s8) \o s9)
    BY <2>9, <2>1, ProgConcat
  <2>11. Prog(((((((((s1 \o s2) \o s3) \o s4) \o s5) \o s6) \o s7) \o s8) \o s9) \o s10)
    BY <2>10, <2>1, ProgConcat
  <2> QED  BY <1>3, <2>11
<1> QED  BY <1>6, <1>7 DEF BatchStep

\* CUDA, ternary: from the hidden state of each token.
LEMMA CudaPrefillTernaryLayer ==
  ASSUME NEW l \in 1 .. Depth, NEW p \in Nat, NEW n \in 1 .. MaxBatch, p + n <= Slots
  PROVE  BatchStep(CudaPrefillTernary(l, n, p), l, p, n, Columns(n), RopesOf(p, 0))
<1> USE SizeAssumption
<1>1. PICK seqs : seqs = [i \in 1 .. n |-> (<< Copy(Col("hidden", i - 1), One("hidden")) >>
            \o (<< Upload(PosSeqlen(p + (i - 1)), One("pos")), Upload(Rope(p + (i - 1)), One("rope")) >>
            \o CudaAttnPhaseTq2(l)) \o << Copy(One("attn_out"), Col("attn_out", i - 1)) >>)]
  OBVIOUS
<1>2. PICK s1, s2, s3, s4, s5, s6, s7, s8, s9, s10 :
         /\ s1 = NormCols(n, <<"attn_norm", l>>, "hidden", "normed")
         /\ s2 = ZeroedMulAdd(<<"qkv", l>>, "normed", "qkv", n)
         /\ s3 = FillCols(n, "attn_out")
         /\ s4 = FlattenSeq(seqs)
         /\ s5 = ZeroedMulAdd(<<"o", l>>, "attn_out", "normed", n)
         /\ s6 = ResidualCols(n, "normed", "hidden")
         /\ s7 = NormCols(n, <<"ffn_norm", l>>, "hidden", "normed")
         /\ s8 = GateCols(n, l, "normed", "swiglu")
         /\ s9 = ZeroedMulAdd(<<"down", l>>, "swiglu", "normed", n)
         /\ s10 = ResidualCols(n, "normed", "hidden")
  OBVIOUS
<1>3. CudaPrefillTernary(l, n, p) = (((((s1 \o s2) \o s3) \o s4) \o s5) \o s6) \o (((s7 \o s8) \o s9) \o s10)
  BY <1>1, <1>2 DEF CudaPrefillTernary, CudaFfnTernary, CudaBatchLayer, CudaFfn, BatchedRmsNorm, Cols,
     EachCol, NormCols, FillCols, GateCols, ResidualCols
<1>4. seqs = [i \in 1 .. n |-> seqs[i]] /\ \A c \in 0 .. n - 1 : ColumnStep(seqs[c + 1], l, p, c, FALSE)
  <2>1. ASSUME NEW c \in 0 .. n - 1 PROVE ColumnStep(seqs[c + 1], l, p, c, FALSE)
    <3>1. c + 1 \in 1 .. n /\ (c + 1) - 1 = c /\ c \in 0 .. MaxBatch - 1 /\ p + c < Slots
      OBVIOUS
    <3>2. seqs[c + 1] = (<< Copy(Col("hidden", c), One("hidden")) >>
                \o (<< Upload(PosSeqlen(p + c), One("pos")), Upload(Rope(p + c), One("rope")) >>
                \o CudaAttnPhaseTq2(l)) \o << Copy(One("attn_out"), Col("attn_out", c)) >>)
      BY <1>1, <3>1
    <3> QED  BY <3>1, <3>2, CudaColumn, FromHiddenPart
  <2> QED  BY <1>1, <2>1
<1>5. ASSUME NEW d, NEW hs, Device(d), Holds(d, RopesOf(p, 0)), RowsRight(d, l, hs, p),
             \A c \in 0 .. n - 1 : d.mem[Columns(n)[c]] = hs[p + c + 1]
      PROVE  \E e : Then(d, (((((s1 \o s2) \o s3) \o s4) \o s5) \o s6) \o (((s7 \o s8) \o s9)
            \o s10), e) /\ LayerDone(d, e, l, hs, p, n, Columns(n), RopesOf(p, 0))
  <2>1. PICK e1, e2, e3, e4, e5, e6, e7, e8, e9, e10 :
           /\ e1 = RunOn(d, s1)
           /\ e2 = RunOn(e1, s2)
           /\ e3 = RunOn(e2, s3)
           /\ e4 = RunOn(e3, s4)
           /\ e5 = RunOn(e4, s5)
           /\ e6 = RunOn(e5, s6)
           /\ e7 = RunOn(e6, s7)
           /\ e8 = RunOn(e7, s8)
           /\ e9 = RunOn(e8, s9)
           /\ e10 = RunOn(e9, s10)
    OBVIOUS
  <2>2. PICK x, u, y : /\ x = [c \in 0 .. n - 1 |-> hs[p + c + 1]]
                       /\ u = [c \in 0 .. n - 1 |-> RefAttention(l, hs, p + c + 1)]
                       /\ y = [c \in 0 .. n - 1 |-> Plus(x[c], <<"mul", <<"o", l>>, u[c]>>)]
    OBVIOUS
  <2>3. Yields(d, n, "hidden", x)
    BY <1>5, <2>2 DEF Yields, Columns
  <2>4. Then(d, s1, e1) /\ Then(e1, s2, e2) /\ Then(e2, s3, e3) /\ QkvDone(d, e3, l, n, x)
    BY <1>2, <1>5, <2>1, <2>3, CudaQkv
  <2>5. /\ Device(e3) /\ RowsRight(e3, l, hs, p) /\ Yields(e3, n, "hidden", x)
        /\ \A c \in 0 .. n - 1 : ColumnReady(e3, l, hs, p, c, FALSE)
    <3>1. FALSE => \A c \in 0 .. n - 1 : d.mem[Col("rope", c)] = Rope(p + c)
      BY <1>5, RopesHold
    <3> QED  BY <1>5, <2>2, <2>3, <2>4, <3>1, AfterQkv
  <2>6. Then(e3, s4, e4) /\ ColumnsDone(e3, e4, l, hs, p, n)
    BY <1>2, <1>4, <2>1, <2>5, ColumnsLoop
  <2>7. Device(e4) /\ Yields(e4, n, "hidden", x) /\ Yields(e4, n, "attn_out", u)
    BY <2>2, <2>5, <2>6, AfterColumns
  <2>8. Then(e4, s5, e5) /\ Then(e5, s6, e6) /\ ProjDone(e4, e6, l, n, x, u)
    BY <1>2, <2>1, <2>7, CudaProj
  <2>9. Device(e6) /\ Yields(e6, n, "hidden", y)
    <3>1. ProjDone(e4, e6, l, n, x, u)
      BY <2>8
    <3>2. y = [c \in 0 .. n - 1 |-> Plus(x[c], <<"mul", <<"o", l>>, u[c]>>)]
      BY <2>2
    <3> QED  BY <3>1, <3>2, ProjYields
  <2>10. Then(e6, s7, e7) /\ Then(e7, s8, e8) /\ Then(e8, s9, e9) /\ Then(e9, s10, e10)
               /\ FfnDone(e6, e10, l, n, y)
    <3>1. e7 = RunOn(e6, NormCols(n, <<"ffn_norm", l>>, "hidden", "normed"))
                /\ e8 = RunOn(e7, GateCols(n, l, "normed", "swiglu"))
                /\ e9 = RunOn(e8, ZeroedMulAdd(<<"down", l>>, "swiglu", "normed", n))
                /\ e10 = RunOn(e9, ResidualCols(n, "normed", "hidden"))
      BY <1>2, <2>1
    <3>2. Then(e6, NormCols(n, <<"ffn_norm", l>>, "hidden", "normed"), e7)
                /\ Then(e7, GateCols(n, l, "normed", "swiglu"), e8)
                /\ Then(e8, ZeroedMulAdd(<<"down", l>>, "swiglu", "normed", n), e9)
                /\ Then(e9, ResidualCols(n, "normed", "hidden"), e10) /\ FfnDone(e6, e10, l, n, y)
      BY <2>9, <3>1, CudaFfnRun
    <3> QED  BY <1>2, <3>2
  <2>11. LayerDone(d, e10, l, hs, p, n, Columns(n), RopesOf(p, 0))
    <3>1. Device(d) /\ Holds(d, RopesOf(p, 0)) /\ 0 \in 0 .. n
      BY <1>5
    <3>2. QkvDone(d, e3, l, n, x) /\ ColumnsDone(e3, e4, l, hs, p, n)
      BY <2>4, <2>6
    <3>3. ProjDone(e4, e6, l, n, x, u) /\ FfnDone(e6, e10, l, n, y)
      BY <2>8, <2>10
    <3> QED  BY <2>2, <3>1, <3>2, <3>3, BatchLayerDone
  <2>12. Then(d, s1 \o s2, e2)
    BY <2>4, ThenConcat
  <2>13. Then(d, (s1 \o s2) \o s3, e3)
    BY <2>12, <2>4, ThenConcat
  <2>14. Then(d, ((s1 \o s2) \o s3) \o s4, e4)
    BY <2>13, <2>6, ThenConcat
  <2>15. Then(d, (((s1 \o s2) \o s3) \o s4) \o s5, e5)
    BY <2>14, <2>8, ThenConcat
  <2>16. Then(d, ((((s1 \o s2) \o s3) \o s4) \o s5) \o s6, e6)
    BY <2>15, <2>8, ThenConcat
  <2>17. Then(e6, s7 \o s8, e8)
    BY <2>10, ThenConcat
  <2>18. Then(e6, (s7 \o s8) \o s9, e9)
    BY <2>17, <2>10, ThenConcat
  <2>19. Then(e6, ((s7 \o s8) \o s9) \o s10, e10)
    BY <2>18, <2>10, ThenConcat
  <2>20. Then(d, (((((s1 \o s2) \o s3) \o s4) \o s5) \o s6) \o (((s7 \o s8) \o s9) \o s10), e10)
    BY <2>16, <2>19, ThenConcat
  <2> QED  BY <2>11, <2>20
<1>6. ASSUME NEW d, NEW hs, Device(d), Holds(d, RopesOf(p, 0)), RowsRight(d, l, hs, p),
             \A c \in 0 .. n - 1 : d.mem[Columns(n)[c]] = hs[p + c + 1]
      PROVE  LayerDone(d, RunOn(d, CudaPrefillTernary(l, n, p)), l, hs, p, n, Columns(n), RopesOf(p, 0))
  <2>1. PICK e : Then(d, CudaPrefillTernary(l, n, p), e)
              /\ LayerDone(d, e, l, hs, p, n, Columns(n), RopesOf(p, 0))
    BY <1>3, <1>5, <1>6
  <2> QED  BY <2>1 DEF Then
<1>7. Prog(CudaPrefillTernary(l, n, p))
  <2>1. Prog(s1) /\ Prog(s2) /\ Prog(s3) /\ Prog(s5) /\ Prog(s6) /\ Prog(s7) /\ Prog(s8) /\ Prog(s9)
              /\ Prog(s10)
    <3>1. Prog(s1)
      BY <1>2, ColsProgs
    <3>2. Prog(s2)
      BY <1>2, ColsProgs
    <3>3. Prog(s3)
      BY <1>2, ColsProgs
    <3>4. Prog(s5)
      BY <1>2, ColsProgs
    <3>5. Prog(s6)
      BY <1>2, ColsProgs
    <3>6. Prog(s7)
      BY <1>2, ColsProgs
    <3>7. Prog(s8)
      BY <1>2, ColsProgs
    <3>8. Prog(s9)
      BY <1>2, ColsProgs
    <3>9. Prog(s10)
      BY <1>2, ColsProgs
    <3> QED  BY <3>1, <3>2, <3>3, <3>4, <3>5, <3>6, <3>7, <3>8, <3>9
  <2>2. Prog(s4)
    <3>1. ASSUME NEW i \in 1 .. n PROVE Prog(seqs[i])
      <4>1. i - 1 \in 0 .. n - 1 /\ (i - 1) + 1 = i
        OBVIOUS
      <4>2. ColumnStep(seqs[(i - 1) + 1], l, p, i - 1, FALSE)
        BY <1>4, <4>1
      <4> QED  BY <4>1, <4>2 DEF ColumnStep
    <3>2. PICK d : d = [mem |-> mem, cache |-> cache]
      OBVIOUS
    <3>3. n \in Nat \ {0}
      OBVIOUS
    <3>4. FlatRuns(d, seqs, n)
      BY <1>4, <3>1, <3>3, RunFlat
    <3> QED  BY <1>2, <3>4 DEF FlatRuns
  <2>3. Prog(s1 \o s2)
    BY <2>1, ProgConcat
  <2>4. Prog((s1 \o s2) \o s3)
    BY <2>3, <2>1, ProgConcat
  <2>5. Prog(((s1 \o s2) \o s3) \o s4)
    BY <2>4, <2>2, ProgConcat
  <2>6. Prog((((s1 \o s2) \o s3) \o s4) \o s5)
    BY <2>5, <2>1, ProgConcat
  <2>7. Prog(((((s1 \o s2) \o s3) \o s4) \o s5) \o s6)
    BY <2>6, <2>1, ProgConcat
  <2>8. Prog(s7 \o s8)
    BY <2>1, ProgConcat
  <2>9. Prog((s7 \o s8) \o s9)
    BY <2>8, <2>1, ProgConcat
  <2>10. Prog(((s7 \o s8) \o s9) \o s10)
    BY <2>9, <2>1, ProgConcat
  <2>11. Prog((((((s1 \o s2) \o s3) \o s4) \o s5) \o s6) \o (((s7 \o s8) \o s9) \o s10))
    BY <2>7, <2>10, ProgConcat
  <2> QED  BY <1>3, <2>11
<1> QED  BY <1>6, <1>7 DEF BatchStep

\* CUDA, the standard quantisations.
LEMMA CudaPrefillQStdLayer ==
  ASSUME NEW l \in 1 .. Depth, NEW p \in Nat, NEW n \in 1 .. MaxBatch, p + n <= Slots
  PROVE  BatchStep(CudaPrefillQStd(l, n, p), l, p, n, Columns(n), RopesOf(p, 0))
<1> USE SizeAssumption
<1>1. PICK seqs : seqs = [i \in 1 .. n |-> (<< Copy(Col("hidden", i - 1), One("hidden")) >>
            \o FromColumn(l, p, i - 1) \o << Copy(One("attn_out"), Col("attn_out", i - 1)) >>)]
  OBVIOUS
<1>2. PICK s1, s2, s3, s4, s5, s6, s7, s8, s9, s10 :
         /\ s1 = NormCols(n, <<"attn_norm", l>>, "hidden", "normed")
         /\ s2 = ZeroedMulAdd(<<"qkv", l>>, "normed", "qkv", n)
         /\ s3 = FillCols(n, "attn_out")
         /\ s4 = FlattenSeq(seqs)
         /\ s5 = ZeroedMulAdd(<<"o", l>>, "attn_out", "normed", n)
         /\ s6 = ResidualCols(n, "normed", "hidden")
         /\ s7 = NormCols(n, <<"ffn_norm", l>>, "hidden", "normed")
         /\ s8 = GateCols(n, l, "normed", "swiglu")
         /\ s9 = ZeroedMulAdd(<<"down", l>>, "swiglu", "normed", n)
         /\ s10 = ResidualCols(n, "normed", "hidden")
  OBVIOUS
<1>3. CudaPrefillQStd(l, n, p) = (((((s1 \o s2) \o s3) \o s4) \o s5) \o s6) \o (((s7 \o s8) \o s9) \o s10)
  BY <1>1, <1>2 DEF CudaPrefillQStd, CudaFfnQStd, CudaBatchLayer, CudaFfn, BatchedRmsNorm, Cols, EachCol,
     NormCols, FillCols, GateCols, ResidualCols
<1>4. seqs = [i \in 1 .. n |-> seqs[i]] /\ \A c \in 0 .. n - 1 : ColumnStep(seqs[c + 1], l, p, c, FALSE)
  <2>1. ASSUME NEW c \in 0 .. n - 1 PROVE ColumnStep(seqs[c + 1], l, p, c, FALSE)
    <3>1. c + 1 \in 1 .. n /\ (c + 1) - 1 = c /\ c \in 0 .. MaxBatch - 1 /\ p + c < Slots
      OBVIOUS
    <3>2. seqs[c + 1] = (<< Copy(Col("hidden", c), One("hidden")) >> \o FromColumn(l, p, c)
                \o << Copy(One("attn_out"), Col("attn_out", c)) >>)
      BY <1>1, <3>1
    <3> QED  BY <3>1, <3>2, CudaColumn, FromColumnPart
  <2> QED  BY <1>1, <2>1
<1>5. ASSUME NEW d, NEW hs, Device(d), Holds(d, RopesOf(p, 0)), RowsRight(d, l, hs, p),
             \A c \in 0 .. n - 1 : d.mem[Columns(n)[c]] = hs[p + c + 1]
      PROVE  \E e : Then(d, (((((s1 \o s2) \o s3) \o s4) \o s5) \o s6) \o (((s7 \o s8) \o s9)
            \o s10), e) /\ LayerDone(d, e, l, hs, p, n, Columns(n), RopesOf(p, 0))
  <2>1. PICK e1, e2, e3, e4, e5, e6, e7, e8, e9, e10 :
           /\ e1 = RunOn(d, s1)
           /\ e2 = RunOn(e1, s2)
           /\ e3 = RunOn(e2, s3)
           /\ e4 = RunOn(e3, s4)
           /\ e5 = RunOn(e4, s5)
           /\ e6 = RunOn(e5, s6)
           /\ e7 = RunOn(e6, s7)
           /\ e8 = RunOn(e7, s8)
           /\ e9 = RunOn(e8, s9)
           /\ e10 = RunOn(e9, s10)
    OBVIOUS
  <2>2. PICK x, u, y : /\ x = [c \in 0 .. n - 1 |-> hs[p + c + 1]]
                       /\ u = [c \in 0 .. n - 1 |-> RefAttention(l, hs, p + c + 1)]
                       /\ y = [c \in 0 .. n - 1 |-> Plus(x[c], <<"mul", <<"o", l>>, u[c]>>)]
    OBVIOUS
  <2>3. Yields(d, n, "hidden", x)
    BY <1>5, <2>2 DEF Yields, Columns
  <2>4. Then(d, s1, e1) /\ Then(e1, s2, e2) /\ Then(e2, s3, e3) /\ QkvDone(d, e3, l, n, x)
    BY <1>2, <1>5, <2>1, <2>3, CudaQkv
  <2>5. /\ Device(e3) /\ RowsRight(e3, l, hs, p) /\ Yields(e3, n, "hidden", x)
        /\ \A c \in 0 .. n - 1 : ColumnReady(e3, l, hs, p, c, FALSE)
    <3>1. FALSE => \A c \in 0 .. n - 1 : d.mem[Col("rope", c)] = Rope(p + c)
      BY <1>5, RopesHold
    <3> QED  BY <1>5, <2>2, <2>3, <2>4, <3>1, AfterQkv
  <2>6. Then(e3, s4, e4) /\ ColumnsDone(e3, e4, l, hs, p, n)
    BY <1>2, <1>4, <2>1, <2>5, ColumnsLoop
  <2>7. Device(e4) /\ Yields(e4, n, "hidden", x) /\ Yields(e4, n, "attn_out", u)
    BY <2>2, <2>5, <2>6, AfterColumns
  <2>8. Then(e4, s5, e5) /\ Then(e5, s6, e6) /\ ProjDone(e4, e6, l, n, x, u)
    BY <1>2, <2>1, <2>7, CudaProj
  <2>9. Device(e6) /\ Yields(e6, n, "hidden", y)
    <3>1. ProjDone(e4, e6, l, n, x, u)
      BY <2>8
    <3>2. y = [c \in 0 .. n - 1 |-> Plus(x[c], <<"mul", <<"o", l>>, u[c]>>)]
      BY <2>2
    <3> QED  BY <3>1, <3>2, ProjYields
  <2>10. Then(e6, s7, e7) /\ Then(e7, s8, e8) /\ Then(e8, s9, e9) /\ Then(e9, s10, e10)
               /\ FfnDone(e6, e10, l, n, y)
    <3>1. e7 = RunOn(e6, NormCols(n, <<"ffn_norm", l>>, "hidden", "normed"))
                /\ e8 = RunOn(e7, GateCols(n, l, "normed", "swiglu"))
                /\ e9 = RunOn(e8, ZeroedMulAdd(<<"down", l>>, "swiglu", "normed", n))
                /\ e10 = RunOn(e9, ResidualCols(n, "normed", "hidden"))
      BY <1>2, <2>1
    <3>2. Then(e6, NormCols(n, <<"ffn_norm", l>>, "hidden", "normed"), e7)
                /\ Then(e7, GateCols(n, l, "normed", "swiglu"), e8)
                /\ Then(e8, ZeroedMulAdd(<<"down", l>>, "swiglu", "normed", n), e9)
                /\ Then(e9, ResidualCols(n, "normed", "hidden"), e10) /\ FfnDone(e6, e10, l, n, y)
      BY <2>9, <3>1, CudaFfnRun
    <3> QED  BY <1>2, <3>2
  <2>11. LayerDone(d, e10, l, hs, p, n, Columns(n), RopesOf(p, 0))
    <3>1. Device(d) /\ Holds(d, RopesOf(p, 0)) /\ 0 \in 0 .. n
      BY <1>5
    <3>2. QkvDone(d, e3, l, n, x) /\ ColumnsDone(e3, e4, l, hs, p, n)
      BY <2>4, <2>6
    <3>3. ProjDone(e4, e6, l, n, x, u) /\ FfnDone(e6, e10, l, n, y)
      BY <2>8, <2>10
    <3> QED  BY <2>2, <3>1, <3>2, <3>3, BatchLayerDone
  <2>12. Then(d, s1 \o s2, e2)
    BY <2>4, ThenConcat
  <2>13. Then(d, (s1 \o s2) \o s3, e3)
    BY <2>12, <2>4, ThenConcat
  <2>14. Then(d, ((s1 \o s2) \o s3) \o s4, e4)
    BY <2>13, <2>6, ThenConcat
  <2>15. Then(d, (((s1 \o s2) \o s3) \o s4) \o s5, e5)
    BY <2>14, <2>8, ThenConcat
  <2>16. Then(d, ((((s1 \o s2) \o s3) \o s4) \o s5) \o s6, e6)
    BY <2>15, <2>8, ThenConcat
  <2>17. Then(e6, s7 \o s8, e8)
    BY <2>10, ThenConcat
  <2>18. Then(e6, (s7 \o s8) \o s9, e9)
    BY <2>17, <2>10, ThenConcat
  <2>19. Then(e6, ((s7 \o s8) \o s9) \o s10, e10)
    BY <2>18, <2>10, ThenConcat
  <2>20. Then(d, (((((s1 \o s2) \o s3) \o s4) \o s5) \o s6) \o (((s7 \o s8) \o s9) \o s10), e10)
    BY <2>16, <2>19, ThenConcat
  <2> QED  BY <2>11, <2>20
<1>6. ASSUME NEW d, NEW hs, Device(d), Holds(d, RopesOf(p, 0)), RowsRight(d, l, hs, p),
             \A c \in 0 .. n - 1 : d.mem[Columns(n)[c]] = hs[p + c + 1]
      PROVE  LayerDone(d, RunOn(d, CudaPrefillQStd(l, n, p)), l, hs, p, n, Columns(n), RopesOf(p, 0))
  <2>1. PICK e : Then(d, CudaPrefillQStd(l, n, p), e) /\ LayerDone(d, e, l, hs, p, n, Columns(n), RopesOf(p, 0))
    BY <1>3, <1>5, <1>6
  <2> QED  BY <2>1 DEF Then
<1>7. Prog(CudaPrefillQStd(l, n, p))
  <2>1. Prog(s1) /\ Prog(s2) /\ Prog(s3) /\ Prog(s5) /\ Prog(s6) /\ Prog(s7) /\ Prog(s8) /\ Prog(s9)
              /\ Prog(s10)
    <3>1. Prog(s1)
      BY <1>2, ColsProgs
    <3>2. Prog(s2)
      BY <1>2, ColsProgs
    <3>3. Prog(s3)
      BY <1>2, ColsProgs
    <3>4. Prog(s5)
      BY <1>2, ColsProgs
    <3>5. Prog(s6)
      BY <1>2, ColsProgs
    <3>6. Prog(s7)
      BY <1>2, ColsProgs
    <3>7. Prog(s8)
      BY <1>2, ColsProgs
    <3>8. Prog(s9)
      BY <1>2, ColsProgs
    <3>9. Prog(s10)
      BY <1>2, ColsProgs
    <3> QED  BY <3>1, <3>2, <3>3, <3>4, <3>5, <3>6, <3>7, <3>8, <3>9
  <2>2. Prog(s4)
    <3>1. ASSUME NEW i \in 1 .. n PROVE Prog(seqs[i])
      <4>1. i - 1 \in 0 .. n - 1 /\ (i - 1) + 1 = i
        OBVIOUS
      <4>2. ColumnStep(seqs[(i - 1) + 1], l, p, i - 1, FALSE)
        BY <1>4, <4>1
      <4> QED  BY <4>1, <4>2 DEF ColumnStep
    <3>2. PICK d : d = [mem |-> mem, cache |-> cache]
      OBVIOUS
    <3>3. n \in Nat \ {0}
      OBVIOUS
    <3>4. FlatRuns(d, seqs, n)
      BY <1>4, <3>1, <3>3, RunFlat
    <3> QED  BY <1>2, <3>4 DEF FlatRuns
  <2>3. Prog(s1 \o s2)
    BY <2>1, ProgConcat
  <2>4. Prog((s1 \o s2) \o s3)
    BY <2>3, <2>1, ProgConcat
  <2>5. Prog(((s1 \o s2) \o s3) \o s4)
    BY <2>4, <2>2, ProgConcat
  <2>6. Prog((((s1 \o s2) \o s3) \o s4) \o s5)
    BY <2>5, <2>1, ProgConcat
  <2>7. Prog(((((s1 \o s2) \o s3) \o s4) \o s5) \o s6)
    BY <2>6, <2>1, ProgConcat
  <2>8. Prog(s7 \o s8)
    BY <2>1, ProgConcat
  <2>9. Prog((s7 \o s8) \o s9)
    BY <2>8, <2>1, ProgConcat
  <2>10. Prog(((s7 \o s8) \o s9) \o s10)
    BY <2>9, <2>1, ProgConcat
  <2>11. Prog((((((s1 \o s2) \o s3) \o s4) \o s5) \o s6) \o (((s7 \o s8) \o s9) \o s10))
    BY <2>7, <2>10, ProgConcat
  <2> QED  BY <1>3, <2>11
<1> QED  BY <1>6, <1>7 DEF BatchStep

\* CUDA, K-quant.
LEMMA CudaPrefillKQuantLayer ==
  ASSUME NEW l \in 1 .. Depth, NEW p \in Nat, NEW n \in 1 .. MaxBatch, p + n <= Slots
  PROVE  BatchStep(CudaPrefillKQuant(l, n, p), l, p, n, Columns(n), RopesOf(p, 0))
<1> USE SizeAssumption
<1>1. PICK seqs : seqs = [i \in 1 .. n |-> (<< Copy(Col("hidden", i - 1), One("hidden")) >>
            \o FromColumn(l, p, i - 1) \o << Copy(One("attn_out"), Col("attn_out", i - 1)) >>)]
  OBVIOUS
<1>2. PICK s1, s2, s3, s4, s5, s6, s7, s8, s9, s10, s11 :
         /\ s1 = NormCols(n, <<"attn_norm", l>>, "hidden", "normed")
         /\ s2 = ZeroedMulAdd(<<"qkv", l>>, "normed", "qkv", n)
         /\ s3 = FillCols(n, "attn_out")
         /\ s4 = FlattenSeq(seqs)
         /\ s5 = ZeroedMulAdd(<<"o", l>>, "attn_out", "normed", n)
         /\ s6 = ResidualCols(n, "normed", "hidden")
         /\ s7 = NormCols(n, <<"ffn_norm", l>>, "hidden", "normed")
         /\ s8 = FillCols(n, "swiglu")
         /\ s9 = GateCols(n, l, "normed", "swiglu")
         /\ s10 = ZeroedMulAdd(<<"down", l>>, "swiglu", "normed", n)
         /\ s11 = ResidualCols(n, "normed", "hidden")
  OBVIOUS
<1>3. CudaPrefillKQuant(l, n, p) = (((((s1 \o s2) \o s3) \o s4) \o s5) \o s6) \o ((((s7 \o s8) \o s9)
            \o s10) \o s11)
  BY <1>1, <1>2 DEF CudaPrefillKQuant, CudaFfnKQuant, CudaBatchLayer, CudaFfn, BatchedRmsNorm, Cols,
     EachCol, NormCols, FillCols, GateCols, ResidualCols
<1>4. seqs = [i \in 1 .. n |-> seqs[i]] /\ \A c \in 0 .. n - 1 : ColumnStep(seqs[c + 1], l, p, c, FALSE)
  <2>1. ASSUME NEW c \in 0 .. n - 1 PROVE ColumnStep(seqs[c + 1], l, p, c, FALSE)
    <3>1. c + 1 \in 1 .. n /\ (c + 1) - 1 = c /\ c \in 0 .. MaxBatch - 1 /\ p + c < Slots
      OBVIOUS
    <3>2. seqs[c + 1] = (<< Copy(Col("hidden", c), One("hidden")) >> \o FromColumn(l, p, c)
                \o << Copy(One("attn_out"), Col("attn_out", c)) >>)
      BY <1>1, <3>1
    <3> QED  BY <3>1, <3>2, CudaColumn, FromColumnPart
  <2> QED  BY <1>1, <2>1
<1>5. ASSUME NEW d, NEW hs, Device(d), Holds(d, RopesOf(p, 0)), RowsRight(d, l, hs, p),
             \A c \in 0 .. n - 1 : d.mem[Columns(n)[c]] = hs[p + c + 1]
      PROVE  \E e : Then(d, (((((s1 \o s2) \o s3) \o s4) \o s5) \o s6) \o ((((s7 \o s8) \o s9) \o s10)
            \o s11), e) /\ LayerDone(d, e, l, hs, p, n, Columns(n), RopesOf(p, 0))
  <2>1. PICK e1, e2, e3, e4, e5, e6, e7, e8, e9, e10, e11 :
           /\ e1 = RunOn(d, s1)
           /\ e2 = RunOn(e1, s2)
           /\ e3 = RunOn(e2, s3)
           /\ e4 = RunOn(e3, s4)
           /\ e5 = RunOn(e4, s5)
           /\ e6 = RunOn(e5, s6)
           /\ e7 = RunOn(e6, s7)
           /\ e8 = RunOn(e7, s8)
           /\ e9 = RunOn(e8, s9)
           /\ e10 = RunOn(e9, s10)
           /\ e11 = RunOn(e10, s11)
    OBVIOUS
  <2>2. PICK x, u, y : /\ x = [c \in 0 .. n - 1 |-> hs[p + c + 1]]
                       /\ u = [c \in 0 .. n - 1 |-> RefAttention(l, hs, p + c + 1)]
                       /\ y = [c \in 0 .. n - 1 |-> Plus(x[c], <<"mul", <<"o", l>>, u[c]>>)]
    OBVIOUS
  <2>3. Yields(d, n, "hidden", x)
    BY <1>5, <2>2 DEF Yields, Columns
  <2>4. Then(d, s1, e1) /\ Then(e1, s2, e2) /\ Then(e2, s3, e3) /\ QkvDone(d, e3, l, n, x)
    BY <1>2, <1>5, <2>1, <2>3, CudaQkv
  <2>5. /\ Device(e3) /\ RowsRight(e3, l, hs, p) /\ Yields(e3, n, "hidden", x)
        /\ \A c \in 0 .. n - 1 : ColumnReady(e3, l, hs, p, c, FALSE)
    <3>1. FALSE => \A c \in 0 .. n - 1 : d.mem[Col("rope", c)] = Rope(p + c)
      BY <1>5, RopesHold
    <3> QED  BY <1>5, <2>2, <2>3, <2>4, <3>1, AfterQkv
  <2>6. Then(e3, s4, e4) /\ ColumnsDone(e3, e4, l, hs, p, n)
    BY <1>2, <1>4, <2>1, <2>5, ColumnsLoop
  <2>7. Device(e4) /\ Yields(e4, n, "hidden", x) /\ Yields(e4, n, "attn_out", u)
    BY <2>2, <2>5, <2>6, AfterColumns
  <2>8. Then(e4, s5, e5) /\ Then(e5, s6, e6) /\ ProjDone(e4, e6, l, n, x, u)
    BY <1>2, <2>1, <2>7, CudaProj
  <2>9. Device(e6) /\ Yields(e6, n, "hidden", y)
    <3>1. ProjDone(e4, e6, l, n, x, u)
      BY <2>8
    <3>2. y = [c \in 0 .. n - 1 |-> Plus(x[c], <<"mul", <<"o", l>>, u[c]>>)]
      BY <2>2
    <3> QED  BY <3>1, <3>2, ProjYields
  <2>10. Then(e6, s7, e7) /\ Then(e7, s8, e8) /\ Then(e8, s9, e9) /\ Then(e9, s10, e10)
               /\ Then(e10, s11, e11) /\ FfnDone(e6, e11, l, n, y)
    <3>1. e7 = RunOn(e6, NormCols(n, <<"ffn_norm", l>>, "hidden", "normed"))
                /\ e8 = RunOn(e7, FillCols(n, "swiglu"))
                /\ e9 = RunOn(e8, GateCols(n, l, "normed", "swiglu"))
                /\ e10 = RunOn(e9, ZeroedMulAdd(<<"down", l>>, "swiglu", "normed", n))
                /\ e11 = RunOn(e10, ResidualCols(n, "normed", "hidden"))
      BY <1>2, <2>1
    <3>2. Then(e6, NormCols(n, <<"ffn_norm", l>>, "hidden", "normed"), e7)
                /\ Then(e7, FillCols(n, "swiglu"), e8)
                /\ Then(e8, GateCols(n, l, "normed", "swiglu"), e9)
                /\ Then(e9, ZeroedMulAdd(<<"down", l>>, "swiglu", "normed", n), e10)
                /\ Then(e10, ResidualCols(n, "normed", "hidden"), e11) /\ FfnDone(e6, e11, l, n, y)
      BY <2>9, <3>1, CudaFfnKQuantRun
    <3> QED  BY <1>2, <3>2
  <2>11. LayerDone(d, e11, l, hs, p, n, Columns(n), RopesOf(p, 0))
    <3>1. Device(d) /\ Holds(d, RopesOf(p, 0)) /\ 0 \in 0 .. n
      BY <1>5
    <3>2. QkvDone(d, e3, l, n, x) /\ ColumnsDone(e3, e4, l, hs, p, n)
      BY <2>4, <2>6
    <3>3. ProjDone(e4, e6, l, n, x, u) /\ FfnDone(e6, e11, l, n, y)
      BY <2>8, <2>10
    <3> QED  BY <2>2, <3>1, <3>2, <3>3, BatchLayerDone
  <2>12. Then(d, s1 \o s2, e2)
    BY <2>4, ThenConcat
  <2>13. Then(d, (s1 \o s2) \o s3, e3)
    BY <2>12, <2>4, ThenConcat
  <2>14. Then(d, ((s1 \o s2) \o s3) \o s4, e4)
    BY <2>13, <2>6, ThenConcat
  <2>15. Then(d, (((s1 \o s2) \o s3) \o s4) \o s5, e5)
    BY <2>14, <2>8, ThenConcat
  <2>16. Then(d, ((((s1 \o s2) \o s3) \o s4) \o s5) \o s6, e6)
    BY <2>15, <2>8, ThenConcat
  <2>17. Then(e6, s7 \o s8, e8)
    BY <2>10, ThenConcat
  <2>18. Then(e6, (s7 \o s8) \o s9, e9)
    BY <2>17, <2>10, ThenConcat
  <2>19. Then(e6, ((s7 \o s8) \o s9) \o s10, e10)
    BY <2>18, <2>10, ThenConcat
  <2>20. Then(e6, (((s7 \o s8) \o s9) \o s10) \o s11, e11)
    BY <2>19, <2>10, ThenConcat
  <2>21. Then(d, (((((s1 \o s2) \o s3) \o s4) \o s5) \o s6) \o ((((s7 \o s8) \o s9) \o s10) \o s11), e11)
    BY <2>16, <2>20, ThenConcat
  <2> QED  BY <2>11, <2>21
<1>6. ASSUME NEW d, NEW hs, Device(d), Holds(d, RopesOf(p, 0)), RowsRight(d, l, hs, p),
             \A c \in 0 .. n - 1 : d.mem[Columns(n)[c]] = hs[p + c + 1]
      PROVE  LayerDone(d, RunOn(d, CudaPrefillKQuant(l, n, p)), l, hs, p, n, Columns(n), RopesOf(p, 0))
  <2>1. PICK e : Then(d, CudaPrefillKQuant(l, n, p), e)
              /\ LayerDone(d, e, l, hs, p, n, Columns(n), RopesOf(p, 0))
    BY <1>3, <1>5, <1>6
  <2> QED  BY <2>1 DEF Then
<1>7. Prog(CudaPrefillKQuant(l, n, p))
  <2>1. Prog(s1) /\ Prog(s2) /\ Prog(s3) /\ Prog(s5) /\ Prog(s6) /\ Prog(s7) /\ Prog(s8) /\ Prog(s9)
              /\ Prog(s10) /\ Prog(s11)
    <3>1. Prog(s1)
      BY <1>2, ColsProgs
    <3>2. Prog(s2)
      BY <1>2, ColsProgs
    <3>3. Prog(s3)
      BY <1>2, ColsProgs
    <3>4. Prog(s5)
      BY <1>2, ColsProgs
    <3>5. Prog(s6)
      BY <1>2, ColsProgs
    <3>6. Prog(s7)
      BY <1>2, ColsProgs
    <3>7. Prog(s8)
      BY <1>2, ColsProgs
    <3>8. Prog(s9)
      BY <1>2, ColsProgs
    <3>9. Prog(s10)
      BY <1>2, ColsProgs
    <3>10. Prog(s11)
      BY <1>2, ColsProgs
    <3> QED  BY <3>1, <3>2, <3>3, <3>4, <3>5, <3>6, <3>7, <3>8, <3>9, <3>10
  <2>2. Prog(s4)
    <3>1. ASSUME NEW i \in 1 .. n PROVE Prog(seqs[i])
      <4>1. i - 1 \in 0 .. n - 1 /\ (i - 1) + 1 = i
        OBVIOUS
      <4>2. ColumnStep(seqs[(i - 1) + 1], l, p, i - 1, FALSE)
        BY <1>4, <4>1
      <4> QED  BY <4>1, <4>2 DEF ColumnStep
    <3>2. PICK d : d = [mem |-> mem, cache |-> cache]
      OBVIOUS
    <3>3. n \in Nat \ {0}
      OBVIOUS
    <3>4. FlatRuns(d, seqs, n)
      BY <1>4, <3>1, <3>3, RunFlat
    <3> QED  BY <1>2, <3>4 DEF FlatRuns
  <2>3. Prog(s1 \o s2)
    BY <2>1, ProgConcat
  <2>4. Prog((s1 \o s2) \o s3)
    BY <2>3, <2>1, ProgConcat
  <2>5. Prog(((s1 \o s2) \o s3) \o s4)
    BY <2>4, <2>2, ProgConcat
  <2>6. Prog((((s1 \o s2) \o s3) \o s4) \o s5)
    BY <2>5, <2>1, ProgConcat
  <2>7. Prog(((((s1 \o s2) \o s3) \o s4) \o s5) \o s6)
    BY <2>6, <2>1, ProgConcat
  <2>8. Prog(s7 \o s8)
    BY <2>1, ProgConcat
  <2>9. Prog((s7 \o s8) \o s9)
    BY <2>8, <2>1, ProgConcat
  <2>10. Prog(((s7 \o s8) \o s9) \o s10)
    BY <2>9, <2>1, ProgConcat
  <2>11. Prog((((s7 \o s8) \o s9) \o s10) \o s11)
    BY <2>10, <2>1, ProgConcat
  <2>12. Prog((((((s1 \o s2) \o s3) \o s4) \o s5) \o s6) \o ((((s7 \o s8) \o s9) \o s10) \o s11))
    BY <2>7, <2>11, ProgConcat
  <2> QED  BY <1>3, <2>12
<1> QED  BY <1>6, <1>7 DEF BatchStep

\* CUDA, FP8: the same launches.
LEMMA CudaPrefillFp8Layer ==
  ASSUME NEW l \in 1 .. Depth, NEW p \in Nat, NEW n \in 1 .. MaxBatch, p + n <= Slots
  PROVE  BatchStep(CudaPrefillFp8(l, n, p), l, p, n, Columns(n), RopesOf(p, 0))
<1>1. CudaPrefillFp8(l, n, p) = CudaPrefillQStd(l, n, p)
  BY DEF CudaPrefillFp8, CudaPrefillQStd, CudaFfnFp8, CudaFfnQStd
<1> QED  BY <1>1, CudaPrefillQStdLayer

-----------------------------------------------------------------------------
\* The reference over a sequence: its recursion has a solution, and a token
\* sees the tokens before it only.
Hid(h, toks, k) ==
    h = [l \in 0 .. k |-> IF l = 0 THEN [p \in DOMAIN toks |-> Emb(toks[p])]
                          ELSE [p \in DOMAIN toks |-> RefBlock(l, h[l - 1], p)]]

\* The recursion has a solution for any number of layers.
LEMMA HidExists ==
  ASSUME NEW toks, NEW n \in Nat
  PROVE  \E h : Hid(h, toks, n)
<1> DEFINE Undefined == {m \in Nat : ~ \E h : Hid(h, toks, m)}
<1>1. SUFFICES ASSUME Undefined # {} PROVE FALSE
  OBVIOUS
<1>2. PICK m \in Undefined : \A k \in Undefined : m <= k
  <2>1. Undefined \in SUBSET Nat
    OBVIOUS
  <2> HIDE DEF Undefined
  <2> QED  BY <1>1, <2>1, LeastElement
<1>3. CASE m = 0
  <2>1. PICK h : h = [l \in 0 .. 0 |-> [p \in DOMAIN toks |-> Emb(toks[p])]]
    OBVIOUS
  <2>2. Hid(h, toks, 0)
    BY <2>1 DEF Hid
  <2> QED  BY <1>3, <2>2
<1>4. CASE m # 0
  <2>0. m \in Nat /\ m - 1 \in Nat /\ ~ (m <= m - 1)
    BY <1>4
  <2>1. m - 1 \notin Undefined
    BY <1>2, <2>0
  <2>2. PICK h : Hid(h, toks, m - 1)
    BY <2>0, <2>1
  <2>3. PICK new : new = [l \in 0 .. m |-> IF l = m THEN [p \in DOMAIN toks |-> RefBlock(m, h[m - 1],
              p)] ELSE h[l]]
    OBVIOUS
  <2>4. ASSUME NEW l \in 0 .. m
        PROVE  new[l] = IF l = 0 THEN [p \in DOMAIN toks |-> Emb(toks[p])]
                        ELSE [p \in DOMAIN toks |-> RefBlock(l, new[l - 1], p)]
    <3>1. CASE l = m
      <4>1. new[m - 1] = h[m - 1]
        BY <2>0, <2>3
      <4>2. new[l] = [p \in DOMAIN toks |-> RefBlock(m, h[m - 1], p)]
        BY <2>3, <3>1
      <4> QED  BY <1>4, <3>1, <4>1, <4>2
    <3>2. CASE l # m
      <4>1. l \in 0 .. m - 1 /\ new[l] = h[l]
        BY <2>0, <2>3, <3>2
      <4>2. h[l] = IF l = 0 THEN [p \in DOMAIN toks |-> Emb(toks[p])]
                   ELSE [p \in DOMAIN toks |-> RefBlock(l, h[l - 1], p)]
        BY <2>2, <4>1 DEF Hid
      <4>3. l # 0 => new[l - 1] = h[l - 1]
        BY <2>0, <2>3, <4>1
      <4> QED  BY <4>1, <4>2, <4>3
    <3> QED  BY <3>1, <3>2
  <2>5. Hid(new, toks, m)
    BY <2>3, <2>4 DEF Hid
  <2> QED  BY <2>0, <2>5
<1> QED  BY <1>3, <1>4

\* h is the reference of n tokens.
Reference(h, toks, n) == Grows(h, n) /\ \A i \in 1 .. n : h[0][i] = Emb(toks[i])

\* RefHidden is the reference.
LEMMA RefHiddenIs ==
  ASSUME NEW toks, NEW n \in Nat, DOMAIN toks = 1 .. n
  PROVE  Reference(RefHidden(toks), toks, n)
<1> USE SizeAssumption
<1>1. PICK h : h = RefHidden(toks)
  OBVIOUS
<1>2. h = CHOOSE x : x = [l \in 0 .. Depth |-> IF l = 0 THEN [p \in DOMAIN toks |-> Emb(toks[p])]
                                              ELSE [p \in DOMAIN toks |-> RefBlock(l, x[l - 1], p)]]
  BY <1>1 DEF RefHidden
<1>3. h = CHOOSE x : Hid(x, toks, Depth)
  BY <1>2 DEF Hid
<1>4. Hid(h, toks, Depth)
  <2>1. Depth \in Nat
    OBVIOUS
  <2> QED  BY <1>3, <2>1, HidExists
<1>5. h[0] = [p \in 1 .. n |-> Emb(toks[p])]
  <2>1. 0 \in 0 .. Depth
    OBVIOUS
  <2> QED  BY <1>4, <2>1 DEF Hid
<1>6. ASSUME NEW l \in 1 .. Depth, NEW i \in 1 .. n PROVE h[l][i] = RefBlock(l, h[l - 1], i)
  <2>1. l \in 0 .. Depth /\ l # 0
    OBVIOUS
  <2>2. h[l] = [p \in 1 .. n |-> RefBlock(l, h[l - 1], p)]
    BY <1>4, <2>1 DEF Hid
  <2> QED  BY <2>2
<1> QED  BY <1>1, <1>5, <1>6 DEF Reference, Grows

\* A row depends on its own token's hidden state.
LEMMA RowOfPrefix ==
  ASSUME NEW l, NEW hs, NEW gs, NEW i, hs[i] = gs[i]
  PROVE  /\ RefRow(l, hs, i) = RefRow(l, gs, i)
         /\ RefRope(l, "q", hs, i) = RefRope(l, "q", gs, i)
<1>1. RefQkv(l, hs, i) = RefQkv(l, gs, i)
  BY DEF RefQkv
<1>2. \A what : RefRope(l, what, hs, i) = RefRope(l, what, gs, i)
  BY <1>1 DEF RefRope
<1> QED  BY <1>1, <1>2 DEF RefRow

\* A block on the hidden states up to its token.
LEMMA BlockOfPrefix ==
  ASSUME NEW l, NEW hs, NEW gs, NEW p \in Nat \ {0}, \A i \in 1 .. p : hs[i] = gs[i]
  PROVE  RefBlock(l, hs, p) = RefBlock(l, gs, p)
<1>1. PICK rows, qows : /\ rows = [i \in 1 .. p |-> RefRow(l, hs, i)]
                        /\ qows = [i \in 1 .. p |-> RefRow(l, gs, i)]
  OBVIOUS
<1>2. rows = qows
  <2>1. \A i \in 1 .. p : RefRow(l, hs, i) = RefRow(l, gs, i)
    BY RowOfPrefix
  <2> QED  BY <1>1, <2>1
<1>3. hs[p] = gs[p]
  OBVIOUS
<1>4. RefRope(l, "q", hs, p) = RefRope(l, "q", gs, p)
  BY <1>3, RowOfPrefix
<1>5. PICK ks, vs : ks = [i \in 1 .. p |-> rows[i].k] /\ vs = [i \in 1 .. p |-> rows[i].v]
  OBVIOUS
<1>6. /\ RefAttention(l, hs, p)
         = <<"wsum", <<"kv", l>>, <<"softmax", NoWeight, <<"scores", <<"kv", l>>, RefRope(l, "q", hs, p),
               ks>>>>, vs>>
      /\ RefAttention(l, gs, p)
         = <<"wsum", <<"kv", l>>, <<"softmax", NoWeight, <<"scores", <<"kv", l>>, RefRope(l, "q", gs, p),
               ks>>>>, vs>>
  BY <1>1, <1>2, <1>5 DEF RefAttention
<1>7. RefAttention(l, hs, p) = RefAttention(l, gs, p)
  BY <1>4, <1>6
<1> QED  BY <1>3, <1>7 DEF RefBlock

\* Two sequences, and two references, alike in the first m tokens.
SameTokens(a, b, m) == \A i \in 1 .. m : a[i] = b[i]
SameHidden(h, g, m) == \A l \in 0 .. Depth, i \in 1 .. m : h[l][i] = g[l][i]

\* So the reference of a prefix is a prefix.
LEMMA PrefixOfReference ==
  ASSUME NEW m \in Nat, NEW n \in Nat, m <= n, NEW a, NEW b, SameTokens(a, b, m),
         NEW h, Reference(h, a, m), NEW g, Reference(g, b, n)
  PROVE  SameHidden(h, g, m)
<1> USE SizeAssumption
<1> DEFINE Apart == {l \in 0 .. Depth : \E i \in 1 .. m : h[l][i] # g[l][i]}
<1>1. Apart = {}
  <2> SUFFICES ASSUME Apart # {} PROVE FALSE
    OBVIOUS
  <2>1. PICK l \in Apart : \A k \in Apart : l <= k
    <3>1. Apart \in SUBSET Nat
      OBVIOUS
    <3> HIDE DEF Apart
    <3> QED  BY <3>1, LeastElement
  <2>2. PICK i \in 1 .. m : h[l][i] # g[l][i]
    BY <2>1
  <2>3. \A j \in 1 .. m : j \in 1 .. n
    OBVIOUS
  <2>4. l # 0
    <3>1. h[0][i] = Emb(a[i]) /\ g[0][i] = Emb(b[i]) /\ a[i] = b[i]
      BY <2>3 DEF Reference, SameTokens
    <3> QED  BY <2>2, <3>1
  <2>5. l \in 1 .. Depth /\ l - 1 \in 0 .. Depth /\ ~ (l <= l - 1)
    BY <2>1, <2>4
  <2>6. \A j \in 1 .. m : h[l - 1][j] = g[l - 1][j]
    BY <2>1, <2>5
  <2>7. h[l][i] = RefBlock(l, h[l - 1], i) /\ g[l][i] = RefBlock(l, g[l - 1], i)
    BY <2>3, <2>5 DEF Reference, Grows
  <2>8. RefBlock(l, h[l - 1], i) = RefBlock(l, g[l - 1], i)
    <3>1. i \in Nat \ {0} /\ \A j \in 1 .. i : j \in 1 .. m
      OBVIOUS
    <3>2. \A j \in 1 .. i : h[l - 1][j] = g[l - 1][j]
      BY <2>6, <3>1
    <3>3. PICK hs, gs : hs = h[l - 1] /\ gs = g[l - 1]
      OBVIOUS
    <3>4. RefBlock(l, hs, i) = RefBlock(l, gs, i)
      BY <3>1, <3>2, <3>3, BlockOfPrefix
    <3> QED  BY <3>3, <3>4
  <2> QED  BY <2>2, <2>7, <2>8
<1> QED  BY <1>1 DEF SameHidden

-----------------------------------------------------------------------------
\* Whole calls: what goes up, the layers, and what is computed from them.
RowsUpTo(d, h, n) == \A j \in 1 .. Depth : RowsRight(d, j, h[j - 1], n)
Embedded(h, b, p, n) == \A c \in 0 .. n - 1 : h[0][p + c + 1] = Emb(b[c + 1])

\* s puts n tokens b behind position p where the layers expect them.
Starts(s, b, p, n, hid, env) ==
    /\ Prog(s)
    /\ \A d, h : Device(d) /\ RowsUpTo(d, h, p) /\ Embedded(h, b, p, n)
                 => Behind(RunOn(d, s), 0, h, p, n, hid, env)

\* The rows of the whole prefix, and logits: <<c, z>> in outs says that those
\* of token c of the call are in cell z.
Answered(e, h, p, n, outs) ==
    /\ Device(e) /\ RowsUpTo(e, h, p + n)
    /\ \A c, z : <<c, z>> \in outs => e.mem[z] = RefLogits(h[Depth], p + c + 1)
Ends(s, t, p, n, hid, env, outs) ==
    /\ Prog(s) /\ Prog(t)
    /\ \A d, h : Behind(d, Depth, h, p, n, hid, env)
                 => Answered(RunOn(RunOn(d, s), t), h, p, n, outs)

\* A program that is a call of n tokens b behind position p.
CallRight(s, b, p, n, outs) ==
    /\ Prog(s)
    /\ \A d, h : Device(d) /\ RowsUpTo(d, h, p) /\ Embedded(h, b, p, n) /\ Grows(h, p + n)
                 => Answered(RunOn(d, s), h, p, n, outs)

\* Four programs one after the other, however they are put together.
FourRuns(s, a, b, c, e) ==
    Prog(s) /\ \A d : RunOn(d, s) = RunOn(RunOn(RunOn(RunOn(d, a), b), c), e)

\* Any of three ways to put them together.
LEMMA Together ==
  ASSUME NEW a, NEW b, NEW c, NEW e, Prog(a), Prog(b), Prog(c), Prog(e)
  PROVE  /\ FourRuns(((a \o b) \o c) \o e, a, b, c, e)
         /\ FourRuns((a \o (b \o c)) \o e, a, b, c, e)
         /\ FourRuns((a \o b) \o (c \o e), a, b, c, e)
<1>1. PICK ab, bc, ce : ab = a \o b /\ bc = b \o c /\ ce = c \o e
  OBVIOUS
<1>2. Prog(ab) /\ Prog(bc) /\ Prog(ce)
  BY <1>1, ProgConcat
<1>3. /\ \A d : RunOn(d, ab) = RunOn(RunOn(d, a), b)
      /\ \A d : RunOn(d, bc) = RunOn(RunOn(d, b), c)
      /\ \A d : RunOn(d, ce) = RunOn(RunOn(d, c), e)
  BY <1>1, RunConcat
<1>4. PICK x, y : x = ab \o c /\ y = a \o bc
  OBVIOUS
<1>5. Prog(x) /\ Prog(y)
  BY <1>2, <1>4, ProgConcat
<1>6. /\ \A d : RunOn(d, x) = RunOn(RunOn(d, ab), c)
      /\ \A d : RunOn(d, y) = RunOn(RunOn(d, a), bc)
  BY <1>2, <1>4, RunConcat
<1>7. FourRuns(x \o e, a, b, c, e)
  <2>1. Prog(x \o e) /\ \A d : RunOn(d, x \o e) = RunOn(RunOn(d, x), e)
    BY <1>5, ProgConcat, RunConcat
  <2> QED  BY <1>3, <1>6, <2>1 DEF FourRuns
<1>8. FourRuns(y \o e, a, b, c, e)
  <2>1. Prog(y \o e) /\ \A d : RunOn(d, y \o e) = RunOn(RunOn(d, y), e)
    BY <1>5, ProgConcat, RunConcat
  <2> QED  BY <1>3, <1>6, <2>1 DEF FourRuns
<1>9. FourRuns(ab \o ce, a, b, c, e)
  <2>1. Prog(ab \o ce) /\ \A d : RunOn(d, ab \o ce) = RunOn(RunOn(d, ab), ce)
    BY <1>2, ProgConcat, RunConcat
  <2> QED  BY <1>3, <2>1 DEF FourRuns
<1> QED  BY <1>1, <1>4, <1>7, <1>8, <1>9

\* Start, layers and end make a call.
LEMMA CallOf ==
  ASSUME NEW b, NEW p \in Nat, NEW n \in Nat \ {0}, p + n <= Slots, NEW hid, NEW env, NEW outs,
         NEW start, Starts(start, b, p, n, hid, env),
         NEW seqs, seqs = [l \in 1 .. Depth |-> seqs[l]],
         \A l \in 1 .. Depth : BatchStep(seqs[l], l, p, n, hid, env),
         NEW s, NEW t, Ends(s, t, p, n, hid, env, outs),
         NEW whole, FourRuns(whole, start, FlattenSeq(seqs), s, t)
  PROVE  CallRight(whole, b, p, n, outs)
<1>1. PICK layers : layers = FlattenSeq(seqs)
  OBVIOUS
<1>2. ASSUME NEW d, NEW h, Device(d), RowsUpTo(d, h, p), Embedded(h, b, p, n), Grows(h, p + n)
      PROVE  Answered(RunOn(d, whole), h, p, n, outs)
  <2>1. PICK d1 : d1 = RunOn(d, start)
    OBVIOUS
  <2>2. Behind(d1, 0, h, p, n, hid, env)
    BY <1>2, <2>1 DEF Starts
  <2>3. Behind(RunOn(d1, layers), Depth, h, p, n, hid, env)
    BY <1>1, <1>2, <2>2, LayersRun
  <2>4. Answered(RunOn(RunOn(RunOn(d1, layers), s), t), h, p, n, outs)
    BY <2>3 DEF Ends
  <2>5. RunOn(d, whole) = RunOn(RunOn(RunOn(d1, layers), s), t)
    BY <1>1, <2>1 DEF FourRuns
  <2> QED  BY <2>4, <2>5
<1>3. Prog(whole)
  BY DEF FourRuns
<1> QED  BY <1>2, <1>3 DEF CallRight

\* The layers are programs.
LEMMA LayersProg ==
  ASSUME NEW seqs, seqs = [l \in 1 .. Depth |-> seqs[l]], NEW p, NEW n, NEW hid, NEW env,
         \A l \in 1 .. Depth : BatchStep(seqs[l], l, p, n, hid, env)
  PROVE  Prog(FlattenSeq(seqs))
<1> USE SizeAssumption
<1>1. PICK k \in Nat \ {0} : k = Depth
  OBVIOUS
<1>2. seqs = [i \in 1 .. k |-> seqs[i]] /\ \A i \in 1 .. k : Prog(seqs[i])
  BY <1>1 DEF BatchStep
<1>3. \A d : FlatRuns(d, seqs, k)
  BY <1>2, RunFlat
<1> QED  BY <1>3 DEF FlatRuns

\* Whoever only reads the rows leaves them.
LEMMA AnsweredOf ==
  ASSUME NEW d, NEW e, NEW h, NEW p \in Nat, NEW n \in Nat, NEW hid, NEW env,
         Behind(d, Depth, h, p, n, hid, env), Device(e), e.cache = d.cache, NEW outs,
         \A c, z : <<c, z>> \in outs => e.mem[z] = RefLogits(h[Depth], p + c + 1)
  PROVE  Answered(e, h, p, n, outs)
<1>1. RowsUpTo(e, h, p + n)
  BY DEF Behind, RowsUpTo, RowsRight
<1> QED  BY <1>1 DEF Answered

\* And whoever has written none has those there were.
LEMMA BehindStart ==
  ASSUME NEW d, NEW e, NEW h, NEW p \in Nat, NEW n \in Nat, NEW hid, NEW env,
         RowsUpTo(d, h, p), Device(e), e.cache = d.cache, Holds(e, env),
         \A c \in 0 .. n - 1 : e.mem[hid[c]] = h[0][p + c + 1]
  PROVE  Behind(e, 0, h, p, n, hid, env)
<1> USE SizeAssumption
<1>1. \A j \in 0 + 1 .. Depth : RowsRight(e, j, h[j - 1], p)
  BY DEF RowsUpTo, RowsRight
<1> QED  BY <1>1 DEF Behind

-----------------------------------------------------------------------------
\* What goes up before the layers.
LEMMA CudaStart ==
  ASSUME NEW b, NEW p \in Nat
  PROVE  Starts(CudaUploads(b[1], p), b, p, 1, Alone(One("hidden")), OnDevice(p))
<1>1. PICK x1, x2, x3 : /\ x1 = Upload(PosSeqlen(p), One("pos")) /\ x2 = Upload(Emb(b[1]), One("hidden"))
                        /\ x3 = Upload(Rope(p), One("rope"))
  OBVIOUS
<1>2. CudaUploads(b[1], p) = <<x1, x2, x3>>
  BY <1>1 DEF CudaUploads
<1>3. /\ {One("hidden"), One("rope"), One("pos")} \subseteq Cells
      /\ One("hidden") # One("rope") /\ One("hidden") # One("pos") /\ One("pos") # One("rope")
  BY CellNames DEF OneNames
<1>4. ASSUME NEW d, NEW h, Device(d), RowsUpTo(d, h, p), Embedded(h, b, p, 1),
            NEW e, e = RunOn(d, <<x1, x2, x3>>)
      PROVE  Behind(e, 0, h, p, 1, Alone(One("hidden")), OnDevice(p))
  <2>1. PICK d1, d2 : d1 = Apply(x1, d) /\ d2 = Apply(x2, d1)
    OBVIOUS
  <2>2. e = Apply(x3, d2)
    BY <1>4, <2>1, RunThree
  <2>3. IsPut(d, d1, One("pos"), PosSeqlen(p))
    BY <1>1, <1>3, <1>4, <2>1, Sets
  <2>4. IsPut(d1, d2, One("hidden"), Emb(b[1]))
    <3>1. Device(d1)
      BY <2>3 DEF IsPut
    <3> QED  BY <1>1, <1>3, <2>1, <3>1, Sets
  <2>5. IsPut(d2, e, One("rope"), Rope(p))
    <3>1. Device(d2)
      BY <2>4 DEF IsPut
    <3> QED  BY <1>1, <1>3, <2>2, <3>1, Sets
  <2>6. /\ Device(e) /\ e.cache = d.cache /\ e.mem[One("pos")] = PosSeqlen(p)
        /\ e.mem[One("hidden")] = Emb(b[1]) /\ e.mem[One("rope")] = Rope(p)
    BY <1>3, <2>3, <2>4, <2>5 DEF IsPut
  <2>7. Holds(e, OnDevice(p))
    BY <2>6 DEF Holds, OnDevice
  <2>8. ASSUME NEW c \in 0 .. 1 - 1 PROVE e.mem[Alone(One("hidden"))[c]] = h[0][p + c + 1]
    <3>1. c = 0 /\ c \in 0 .. 0 /\ c + 1 = 1
      OBVIOUS
    <3>2. h[0][p + c + 1] = Emb(b[c + 1])
      BY <1>4 DEF Embedded
    <3>3. Alone(One("hidden"))[c] = One("hidden")
      BY <3>1 DEF Alone
    <3> QED  BY <2>6, <3>1, <3>2, <3>3
  <2> QED  BY <1>4, <2>6, <2>7, <2>8, BehindStart
<1>5. Prog(<<x1, x2, x3>>)
  BY RunThree
<1> QED  BY <1>2, <1>4, <1>5 DEF Starts

\* Metal, one token: hidden state and rotation.
LEMMA MetalStart ==
  ASSUME NEW b, NEW p \in Nat
  PROVE  Starts(MetalUploads(b[1], p), b, p, 1, Alone(One("hidden")), AsArguments(p))
<1>1. PICK x1, x2 : x1 = Upload(Emb(b[1]), One("hidden")) /\ x2 = Upload(Rope(p), One("rope"))
  OBVIOUS
<1>2. MetalUploads(b[1], p) = <<x1, x2>>
  BY <1>1 DEF MetalUploads
<1>3. {One("hidden"), One("rope")} \subseteq Cells /\ One("hidden") # One("rope")
  BY CellNames DEF OneNames
<1>4. ASSUME NEW d, NEW h, Device(d), RowsUpTo(d, h, p), Embedded(h, b, p, 1), NEW e, e = RunOn(d, <<x1, x2>>)
      PROVE  Behind(e, 0, h, p, 1, Alone(One("hidden")), AsArguments(p))
  <2>1. PICK d1 : d1 = Apply(x1, d)
    OBVIOUS
  <2>2. e = Apply(x2, d1)
    BY <1>4, <2>1, RunTwo
  <2>3. IsPut(d, d1, One("hidden"), Emb(b[1]))
    BY <1>1, <1>3, <1>4, <2>1, Sets
  <2>4. IsPut(d1, e, One("rope"), Rope(p))
    <3>1. Device(d1)
      BY <2>3 DEF IsPut
    <3> QED  BY <1>1, <1>3, <2>2, <3>1, Sets
  <2>5. /\ Device(e) /\ e.cache = d.cache
        /\ e.mem[One("hidden")] = Emb(b[1]) /\ e.mem[One("rope")] = Rope(p)
    BY <1>3, <2>3, <2>4 DEF IsPut
  <2>6. Holds(e, AsArguments(p))
    BY <2>5 DEF Holds, AsArguments
  <2>7. ASSUME NEW c \in 0 .. 1 - 1 PROVE e.mem[Alone(One("hidden"))[c]] = h[0][p + c + 1]
    <3>1. c = 0 /\ c \in 0 .. 0 /\ c + 1 = 1
      OBVIOUS
    <3>2. h[0][p + c + 1] = Emb(b[c + 1])
      BY <1>4 DEF Embedded
    <3>3. Alone(One("hidden"))[c] = One("hidden")
      BY <3>1 DEF Alone
    <3> QED  BY <2>5, <3>1, <3>2, <3>3
  <2> QED  BY <1>4, <2>5, <2>6, <2>7, BehindStart
<1>5. Prog(<<x1, x2>>)
  BY RunTwo
<1> QED  BY <1>2, <1>4, <1>5 DEF Starts

\* By layer: to the host.
LEMMA HostStart ==
  ASSUME NEW b, NEW p \in Nat
  PROVE  Starts(<< Upload(Emb(b[1]), Host("hidden")) >>, b, p, 1, Alone(Host("hidden")), {})
<1>1. PICK x1 : x1 = Upload(Emb(b[1]), Host("hidden"))
  OBVIOUS
<1>3. Host("hidden") \in Cells
  BY CellNames
<1>4. ASSUME NEW d, NEW h, Device(d), RowsUpTo(d, h, p), Embedded(h, b, p, 1), NEW e, e = RunOn(d, <<x1>>)
      PROVE  Behind(e, 0, h, p, 1, Alone(Host("hidden")), {})
  <2>1. e = Apply(x1, d)
    BY <1>4, RunOne
  <2>2. IsPut(d, e, Host("hidden"), Emb(b[1]))
    BY <1>1, <1>3, <1>4, <2>1, Sets
  <2>3. Device(e) /\ e.cache = d.cache /\ e.mem[Host("hidden")] = Emb(b[1])
    BY <2>2 DEF IsPut
  <2>4. Holds(e, {})
    BY DEF Holds
  <2>5. ASSUME NEW c \in 0 .. 1 - 1 PROVE e.mem[Alone(Host("hidden"))[c]] = h[0][p + c + 1]
    <3>1. c = 0 /\ c \in 0 .. 0 /\ c + 1 = 1
      OBVIOUS
    <3>2. h[0][p + c + 1] = Emb(b[c + 1])
      BY <1>4 DEF Embedded
    <3>3. Alone(Host("hidden"))[c] = Host("hidden")
      BY <3>1 DEF Alone
    <3> QED  BY <2>3, <3>1, <3>2, <3>3
  <2> QED  BY <1>4, <2>3, <2>4, <2>5, BehindStart
<1>5. Prog(<<x1>>)
  BY RunOne
<1> QED  BY <1>1, <1>4, <1>5 DEF Starts

\* CUDA, a batch: hidden states.
LEMMA CudaBatchStart ==
  ASSUME NEW b, NEW p \in Nat, NEW n \in 1 .. MaxBatch, Len(b) = n
  PROVE  Starts(CudaBatchUpload(b), b, p, n, Columns(n), RopesOf(p, 0))
<1> USE SizeAssumption
<1>1. PICK s, v : s = CudaBatchUpload(b) /\ v = [c \in 0 .. n - 1 |-> Emb(b[c + 1])]
  OBVIOUS
<1>2. s = [i \in 1 .. n |-> s[i]] /\ \A c \in 0 .. n - 1 : s[c + 1] = Upload(v[c], Col("hidden", c))
  <2>1. s = [i \in 1 .. n |-> Upload(Emb(b[(i - 1) + 1]), Col("hidden", i - 1))]
    BY <1>1 DEF CudaBatchUpload, Cols
  <2>2. \A c \in 0 .. n - 1 : c + 1 \in 1 .. n /\ (c + 1) - 1 = c
    OBVIOUS
  <2> QED  BY <1>1, <2>1, <2>2
<1>3. "hidden" \in ColNames
  BY DEF ColNames
<1>4. ASSUME NEW d, NEW h, Device(d), RowsUpTo(d, h, p), Embedded(h, b, p, n), NEW e, e = RunOn(d, s)
      PROVE  Behind(e, 0, h, p, n, Columns(n), RopesOf(p, 0))
  <2>1. Outcome(d, s, e, "hidden") /\ Yields(e, n, "hidden", v)
    BY <1>2, <1>3, <1>4, UploadsRun
  <2>2. Device(e) /\ e.cache = d.cache
    BY <2>1 DEF Outcome
  <2>3. Holds(e, RopesOf(p, 0))
    BY RopesHold
  <2>4. ASSUME NEW c \in 0 .. n - 1 PROVE e.mem[Columns(n)[c]] = h[0][p + c + 1]
    <3>1. e.mem[Col("hidden", c)] = Emb(b[c + 1])
      BY <1>1, <2>1 DEF Yields
    <3>2. h[0][p + c + 1] = Emb(b[c + 1])
      BY <1>4 DEF Embedded
    <3> QED  BY <3>1, <3>2 DEF Columns
  <2> QED  BY <1>4, <2>2, <2>3, <2>4, BehindStart
<1>5. Prog(s)
  <2>1. PICK S : S = {s[i] : i \in 1 .. n}
    OBVIOUS
  <2>2. s \in Seq(S)
    BY <1>2, <2>1
  <2> QED  BY <2>2 DEF Prog
<1> QED  BY <1>1, <1>4, <1>5 DEF Starts

\* Metal, a batch: hidden states and rotations.
LEMMA MetalBatchStart ==
  ASSUME NEW b, NEW p \in Nat, NEW n \in 1 .. MaxBatch, Len(b) = n
  PROVE  Starts(MetalBatchUpload(b, p), b, p, n, Columns(n), RopesOf(p, n))
<1> USE SizeAssumption
<1>1. PICK s, t, v, u : /\ s = Cols(Len(b), LAMBDA c : Upload(Emb(b[c + 1]), Col("hidden", c)))
                        /\ t = Cols(Len(b), LAMBDA c : Upload(Rope(p + c), Col("rope", c)))
                        /\ v = [c \in 0 .. n - 1 |-> Emb(b[c + 1])] /\ u = [c \in 0 .. n - 1 |-> Rope(p + c)]
  OBVIOUS
<1>2. MetalBatchUpload(b, p) = s \o t
  BY <1>1 DEF MetalBatchUpload
<1>3. \A c \in 0 .. n - 1 : c + 1 \in 1 .. n /\ (c + 1) - 1 = c
  OBVIOUS
<1>4. s = [i \in 1 .. n |-> s[i]] /\ \A c \in 0 .. n - 1 : s[c + 1] = Upload(v[c], Col("hidden", c))
  <2>1. s = [i \in 1 .. n |-> Upload(Emb(b[(i - 1) + 1]), Col("hidden", i - 1))]
    BY <1>1 DEF Cols
  <2> QED  BY <1>1, <1>3, <2>1
<1>5. t = [i \in 1 .. n |-> t[i]] /\ \A c \in 0 .. n - 1 : t[c + 1] = Upload(u[c], Col("rope", c))
  <2>1. t = [i \in 1 .. n |-> Upload(Rope(p + (i - 1)), Col("rope", i - 1))]
    BY <1>1 DEF Cols
  <2> QED  BY <1>1, <1>3, <2>1
<1>6. "hidden" \in ColNames \ {"rope"} /\ "hidden" \in ColNames /\ "rope" \in ColNames
  BY DEF ColNames
<1>7. Prog(s) /\ Prog(t)
  <2>1. PICK S : S = {s[i] : i \in 1 .. n} \cup {t[i] : i \in 1 .. n}
    OBVIOUS
  <2>2. s \in Seq(S)
    BY <1>4, <2>1
  <2>3. t \in Seq(S)
    BY <1>5, <2>1
  <2> QED  BY <2>2, <2>3 DEF Prog
<1>8. ASSUME NEW d, NEW h, Device(d), RowsUpTo(d, h, p), Embedded(h, b, p, n), NEW e, e = RunOn(d, s \o t)
      PROVE  Behind(e, 0, h, p, n, Columns(n), RopesOf(p, n))
  <2>1. PICK a : a = RunOn(d, s)
    OBVIOUS
  <2>2. e = RunOn(a, t)
    BY <1>7, <1>8, <2>1, RunConcat
  <2>3. Outcome(d, s, a, "hidden") /\ Yields(a, n, "hidden", v)
    BY <1>4, <1>6, <1>8, <2>1, UploadsRun
  <2>4. Device(a) /\ a.cache = d.cache
    BY <2>3 DEF Outcome
  <2>5. Outcome(a, t, e, "rope") /\ Yields(e, n, "rope", u)
    BY <1>5, <1>6, <2>2, <2>4, UploadsRun
  <2>6. Device(e) /\ e.cache = d.cache /\ Kept(a, e, ColumnsOf({"rope"}))
    BY <2>4, <2>5 DEF Outcome
  <2>7. Yields(e, n, "hidden", v)
    BY <1>6, <2>3, <2>6, YieldsKept
  <2>8. Holds(e, RopesOf(p, n))
    <3>1. \A c \in 0 .. n - 1 : e.mem[Col("rope", c)] = Rope(p + c)
      BY <1>1, <2>5 DEF Yields
    <3> QED  BY <3>1, RopesHold
  <2>9. ASSUME NEW c \in 0 .. n - 1 PROVE e.mem[Columns(n)[c]] = h[0][p + c + 1]
    <3>1. e.mem[Col("hidden", c)] = Emb(b[c + 1])
      BY <1>1, <2>7 DEF Yields
    <3>2. h[0][p + c + 1] = Emb(b[c + 1])
      BY <1>8 DEF Embedded
    <3> QED  BY <3>1, <3>2 DEF Columns
  <2> QED  BY <1>8, <2>6, <2>8, <2>9, BehindStart
<1>9. Prog(s \o t)
  BY <1>7, ProgConcat
<1> QED  BY <1>2, <1>8, <1>9 DEF Starts

-----------------------------------------------------------------------------
\* What is computed behind the layers: logits of the last token of a call, or of each.
OneAnswer(n, cell) == {<<n - 1, cell>>}
EachAnswer(n) == {<<c, Col("logits", c)>> : c \in 0 .. n - 1}

\* The captured norm, then the LM head from the host.
LEMMA CudaEnd ==
  ASSUME NEW p \in Nat, NEW env
  PROVE  Ends(<< RmsNorm(<<"norm", 0>>, One("hidden"), One("normed")), Copy(One("normed"), One("hidden")) >>,
              << Copy(One("hidden"), Host("hidden")), Mul(<<"lm_head", 0>>, Host("hidden"), One("logits")) >>,
              p, 1, Alone(One("hidden")), env, OneAnswer(1, One("logits")))
<1> USE SizeAssumption
<1>1. PICK x1, x2, x3, x4 : /\ x1 = RmsNorm(<<"norm", 0>>, One("hidden"), One("normed"))
            /\ x2 = Copy(One("normed"), One("hidden"))
            /\ x3 = Copy(One("hidden"), Host("hidden"))
            /\ x4 = Mul(<<"lm_head", 0>>, Host("hidden"), One("logits"))
  OBVIOUS
<1>2. /\ {One("normed"), One("hidden"), Host("hidden"), One("logits")} \subseteq Cells
      /\ One("normed") # One("hidden")
      /\ One("normed") # Host("hidden")
      /\ One("hidden") # Host("hidden")
      /\ One("normed") # One("logits")
      /\ One("hidden") # One("logits")
      /\ Host("hidden") # One("logits")
  BY CellNames DEF OneNames
<1>3. 0 \in 0 .. 1 - 1 /\ 0 \in 0 .. 0 /\ 1 - 1 = 0 /\ p + 0 + 1 = p + 1
  OBVIOUS
<1>4. ASSUME NEW d, NEW h, Behind(d, Depth, h, p, 1, Alone(One("hidden")), env),
            NEW e, e = RunOn(RunOn(d, <<x1, x2>>), <<x3, x4>>)
      PROVE  Answered(e, h, p, 1, OneAnswer(1, One("logits")))
  <2>1. PICK d1, d2, d3 : d1 = Apply(x1, d) /\ d2 = Apply(x2, d1) /\ d3 = Apply(x3, d2)
    OBVIOUS
  <2>2. e = Apply(x4, d3)
    BY <1>4, <2>1, RunTwo
  <2>3. PICK x : x = h[Depth][p + 1]
    OBVIOUS
  <2>4. Device(d) /\ d.mem[One("hidden")] = x
    <3>1. d.mem[Alone(One("hidden"))[0]] = h[Depth][p + 0 + 1]
      BY <1>3, <1>4 DEF Behind
    <3>2. Alone(One("hidden"))[0] = One("hidden")
      BY <1>3 DEF Alone
    <3> QED  BY <1>3, <1>4, <2>3, <3>1, <3>2 DEF Behind
  <2>5. IsPut(d, d1, One("normed"), <<"rmsnorm", <<"norm", 0>>, x>>)
    <3>1. Device(d) /\ d.mem[One("hidden")] = x
      BY <1>2, <2>4 DEF IsPut
    <3>2. IsPut(d, d1, One("normed"), <<"rmsnorm", <<"norm", 0>>, d.mem[One("hidden")]>>)
      BY <1>1, <1>2, <2>1, <3>1, Sets
    <3> QED  BY <3>1, <3>2
  <2>6. IsPut(d1, d2, One("hidden"), <<"rmsnorm", <<"norm", 0>>, x>>)
    <3>1. Device(d1) /\ d1.mem[One("normed")] = <<"rmsnorm", <<"norm", 0>>, x>>
      BY <1>2, <2>4, <2>5 DEF IsPut
    <3>2. IsPut(d1, d2, One("hidden"), d1.mem[One("normed")])
      BY <1>1, <1>2, <2>1, <3>1, Sets
    <3> QED  BY <3>1, <3>2
  <2>7. IsPut(d2, d3, Host("hidden"), <<"rmsnorm", <<"norm", 0>>, x>>)
    <3>1. Device(d2) /\ d2.mem[One("hidden")] = <<"rmsnorm", <<"norm", 0>>, x>>
      BY <1>2, <2>4, <2>5, <2>6 DEF IsPut
    <3>2. IsPut(d2, d3, Host("hidden"), d2.mem[One("hidden")])
      BY <1>1, <1>2, <2>1, <3>1, Sets
    <3> QED  BY <3>1, <3>2
  <2>8. IsPut(d3, e, One("logits"), <<"mul", <<"lm_head", 0>>, <<"rmsnorm", <<"norm", 0>>, x>>>>)
    <3>1. Device(d3) /\ d3.mem[Host("hidden")] = <<"rmsnorm", <<"norm", 0>>, x>>
      BY <1>2, <2>4, <2>5, <2>6, <2>7 DEF IsPut
    <3>2. IsPut(d3, e, One("logits"), <<"mul", <<"lm_head", 0>>, d3.mem[Host("hidden")]>>)
      BY <1>1, <1>2, <2>1, <2>2, <3>1, Sets
    <3> QED  BY <3>1, <3>2
  <2>9. Device(e) /\ e.cache = d.cache
    BY <2>5, <2>6, <2>7, <2>8 DEF IsPut
  <2>10. e.mem[One("logits")] = RefLogits(h[Depth], p + 1)
    BY <2>3, <2>8 DEF IsPut, RefLogits
  <2>11. ASSUME NEW c, NEW z, <<c, z>> \in OneAnswer(1, One("logits")) PROVE e.mem[z]
               = RefLogits(h[Depth], p + c + 1)
    <3>1. c = 1 - 1 /\ z = One("logits")
      BY <2>11 DEF OneAnswer
    <3> QED  BY <1>3, <2>10, <3>1
  <2> QED  BY <1>3, <1>4, <2>9, <2>11, AnsweredOf
<1>5. Prog(<<x1, x2>>) /\ Prog(<<x3, x4>>)
  BY RunTwo
<1> QED  BY <1>1, <1>4, <1>5 DEF Ends

\* Metal: norm and LM head on the device.
LEMMA MetalEnd ==
  ASSUME NEW p \in Nat, NEW env
  PROVE  Ends(<< RmsNorm(<<"norm", 0>>, One("hidden"), One("normed")) >>,
              << Mul(<<"lm_head", 0>>, One("normed"), One("logits")) >>,
              p, 1, Alone(One("hidden")), env, OneAnswer(1, One("logits")))
<1> USE SizeAssumption
<1>1. PICK x1, x2 : /\ x1 = RmsNorm(<<"norm", 0>>, One("hidden"), One("normed"))
            /\ x2 = Mul(<<"lm_head", 0>>, One("normed"), One("logits"))
  OBVIOUS
<1>2. /\ {One("normed"), One("logits")} \subseteq Cells
      /\ One("normed") # One("logits")
  BY CellNames DEF OneNames
<1>3. 0 \in 0 .. 1 - 1 /\ 0 \in 0 .. 0 /\ 1 - 1 = 0 /\ p + 0 + 1 = p + 1
  OBVIOUS
<1>4. ASSUME NEW d, NEW h, Behind(d, Depth, h, p, 1, Alone(One("hidden")), env),
            NEW e, e = RunOn(RunOn(d, <<x1>>), <<x2>>)
      PROVE  Answered(e, h, p, 1, OneAnswer(1, One("logits")))
  <2>1. PICK d1 : d1 = Apply(x1, d)
    OBVIOUS
  <2>2. e = Apply(x2, d1)
    BY <1>4, <2>1, RunOne
  <2>3. PICK x : x = h[Depth][p + 1]
    OBVIOUS
  <2>4. Device(d) /\ d.mem[One("hidden")] = x
    <3>1. d.mem[Alone(One("hidden"))[0]] = h[Depth][p + 0 + 1]
      BY <1>3, <1>4 DEF Behind
    <3>2. Alone(One("hidden"))[0] = One("hidden")
      BY <1>3 DEF Alone
    <3> QED  BY <1>3, <1>4, <2>3, <3>1, <3>2 DEF Behind
  <2>5. IsPut(d, d1, One("normed"), <<"rmsnorm", <<"norm", 0>>, x>>)
    <3>1. Device(d) /\ d.mem[One("hidden")] = x
      BY <1>2, <2>4 DEF IsPut
    <3>2. IsPut(d, d1, One("normed"), <<"rmsnorm", <<"norm", 0>>, d.mem[One("hidden")]>>)
      BY <1>1, <1>2, <2>1, <3>1, Sets
    <3> QED  BY <3>1, <3>2
  <2>6. IsPut(d1, e, One("logits"), <<"mul", <<"lm_head", 0>>, <<"rmsnorm", <<"norm", 0>>, x>>>>)
    <3>1. Device(d1) /\ d1.mem[One("normed")] = <<"rmsnorm", <<"norm", 0>>, x>>
      BY <1>2, <2>4, <2>5 DEF IsPut
    <3>2. IsPut(d1, e, One("logits"), <<"mul", <<"lm_head", 0>>, d1.mem[One("normed")]>>)
      BY <1>1, <1>2, <2>1, <2>2, <3>1, Sets
    <3> QED  BY <3>1, <3>2
  <2>7. Device(e) /\ e.cache = d.cache
    BY <2>5, <2>6 DEF IsPut
  <2>8. e.mem[One("logits")] = RefLogits(h[Depth], p + 1)
    BY <2>3, <2>6 DEF IsPut, RefLogits
  <2>9. ASSUME NEW c, NEW z, <<c, z>> \in OneAnswer(1, One("logits")) PROVE e.mem[z]
              = RefLogits(h[Depth], p + c + 1)
    <3>1. c = 1 - 1 /\ z = One("logits")
      BY <2>9 DEF OneAnswer
    <3> QED  BY <1>3, <2>8, <3>1
  <2> QED  BY <1>3, <1>4, <2>7, <2>9, AnsweredOf
<1>5. Prog(<<x1>>) /\ Prog(<<x2>>)
  BY RunOne
<1> QED  BY <1>1, <1>4, <1>5 DEF Ends

\* By layer: on the host.
LEMMA HostEnd ==
  ASSUME NEW p \in Nat, NEW env
  PROVE  Ends(<< RmsNorm(<<"norm", 0>>, Host("hidden"), Host("hidden")) >>,
              << Mul(<<"lm_head", 0>>, Host("hidden"), One("logits")) >>,
              p, 1, Alone(Host("hidden")), env, OneAnswer(1, One("logits")))
<1> USE SizeAssumption
<1>1. PICK x1, x2 : /\ x1 = RmsNorm(<<"norm", 0>>, Host("hidden"), Host("hidden"))
            /\ x2 = Mul(<<"lm_head", 0>>, Host("hidden"), One("logits"))
  OBVIOUS
<1>2. /\ {Host("hidden"), One("logits")} \subseteq Cells
      /\ Host("hidden") # One("logits")
  BY CellNames DEF OneNames
<1>3. 0 \in 0 .. 1 - 1 /\ 0 \in 0 .. 0 /\ 1 - 1 = 0 /\ p + 0 + 1 = p + 1
  OBVIOUS
<1>4. ASSUME NEW d, NEW h, Behind(d, Depth, h, p, 1, Alone(Host("hidden")), env),
            NEW e, e = RunOn(RunOn(d, <<x1>>), <<x2>>)
      PROVE  Answered(e, h, p, 1, OneAnswer(1, One("logits")))
  <2>1. PICK d1 : d1 = Apply(x1, d)
    OBVIOUS
  <2>2. e = Apply(x2, d1)
    BY <1>4, <2>1, RunOne
  <2>3. PICK x : x = h[Depth][p + 1]
    OBVIOUS
  <2>4. Device(d) /\ d.mem[Host("hidden")] = x
    <3>1. d.mem[Alone(Host("hidden"))[0]] = h[Depth][p + 0 + 1]
      BY <1>3, <1>4 DEF Behind
    <3>2. Alone(Host("hidden"))[0] = Host("hidden")
      BY <1>3 DEF Alone
    <3> QED  BY <1>3, <1>4, <2>3, <3>1, <3>2 DEF Behind
  <2>5. IsPut(d, d1, Host("hidden"), <<"rmsnorm", <<"norm", 0>>, x>>)
    <3>1. Device(d) /\ d.mem[Host("hidden")] = x
      BY <1>2, <2>4 DEF IsPut
    <3>2. IsPut(d, d1, Host("hidden"), <<"rmsnorm", <<"norm", 0>>, d.mem[Host("hidden")]>>)
      BY <1>1, <1>2, <2>1, <3>1, Sets
    <3> QED  BY <3>1, <3>2
  <2>6. IsPut(d1, e, One("logits"), <<"mul", <<"lm_head", 0>>, <<"rmsnorm", <<"norm", 0>>, x>>>>)
    <3>1. Device(d1) /\ d1.mem[Host("hidden")] = <<"rmsnorm", <<"norm", 0>>, x>>
      BY <1>2, <2>4, <2>5 DEF IsPut
    <3>2. IsPut(d1, e, One("logits"), <<"mul", <<"lm_head", 0>>, d1.mem[Host("hidden")]>>)
      BY <1>1, <1>2, <2>1, <2>2, <3>1, Sets
    <3> QED  BY <3>1, <3>2
  <2>7. Device(e) /\ e.cache = d.cache
    BY <2>5, <2>6 DEF IsPut
  <2>8. e.mem[One("logits")] = RefLogits(h[Depth], p + 1)
    BY <2>3, <2>6 DEF IsPut, RefLogits
  <2>9. ASSUME NEW c, NEW z, <<c, z>> \in OneAnswer(1, One("logits")) PROVE e.mem[z]
              = RefLogits(h[Depth], p + c + 1)
    <3>1. c = 1 - 1 /\ z = One("logits")
      BY <2>9 DEF OneAnswer
    <3> QED  BY <1>3, <2>8, <3>1
  <2> QED  BY <1>3, <1>4, <2>7, <2>9, AnsweredOf
<1>5. Prog(<<x1>>) /\ Prog(<<x2>>)
  BY RunOne
<1> QED  BY <1>1, <1>4, <1>5 DEF Ends

\* CUDA, a batch: the last column.
LEMMA CudaBatchEnd ==
  ASSUME NEW p \in Nat, NEW n \in 1 .. MaxBatch, NEW env
  PROVE  Ends(<< Copy(Col("hidden", n - 1), One("hidden")), RmsNorm(<<"norm", 0>>, One("hidden"),
        One("normed")) >>,
              << Mul(<<"lm_head", 0>>, One("normed"), One("logits")) >>,
              p, n, Columns(n), env, OneAnswer(n, One("logits")))
<1> USE SizeAssumption
<1>1. PICK x1, x2, x3 : /\ x1 = Copy(Col("hidden", n - 1), One("hidden"))
            /\ x2 = RmsNorm(<<"norm", 0>>, One("hidden"), One("normed"))
            /\ x3 = Mul(<<"lm_head", 0>>, One("normed"), One("logits"))
  OBVIOUS
<1>2. /\ {One("hidden"), One("normed"), One("logits")} \subseteq Cells
      /\ One("hidden") # One("normed")
      /\ One("hidden") # One("logits")
      /\ One("normed") # One("logits")
  BY CellNames DEF OneNames
<1>3. n - 1 \in 0 .. n - 1 /\ (n - 1) + 1 = n /\ n \in Nat
  OBVIOUS
<1>4. ASSUME NEW d, NEW h, Behind(d, Depth, h, p, n, Columns(n), env),
            NEW e, e = RunOn(RunOn(d, <<x1, x2>>), <<x3>>)
      PROVE  Answered(e, h, p, n, OneAnswer(n, One("logits")))
  <2>1. PICK d1, d2 : d1 = Apply(x1, d) /\ d2 = Apply(x2, d1)
    OBVIOUS
  <2>2. e = Apply(x3, d2)
    BY <1>4, <2>1, RunOne, RunTwo
  <2>3. PICK x : x = h[Depth][p + (n - 1) + 1]
    OBVIOUS
  <2>4. Device(d) /\ d.mem[Col("hidden", n - 1)] = x
    <3>1. d.mem[Columns(n)[n - 1]] = h[Depth][p + (n - 1) + 1]
      BY <1>3, <1>4 DEF Behind
    <3>2. Columns(n)[n - 1] = Col("hidden", n - 1)
      BY <1>3 DEF Columns
    <3> QED  BY <1>3, <1>4, <2>3, <3>1, <3>2 DEF Behind
  <2>5. IsPut(d, d1, One("hidden"), x)
    <3>1. Device(d) /\ d.mem[Col("hidden", n - 1)] = x
      BY <1>2, <2>4 DEF IsPut
    <3>2. IsPut(d, d1, One("hidden"), d.mem[Col("hidden", n - 1)])
      BY <1>1, <1>2, <2>1, <3>1, Sets
    <3> QED  BY <3>1, <3>2
  <2>6. IsPut(d1, d2, One("normed"), <<"rmsnorm", <<"norm", 0>>, x>>)
    <3>1. Device(d1) /\ d1.mem[One("hidden")] = x
      BY <1>2, <2>4, <2>5 DEF IsPut
    <3>2. IsPut(d1, d2, One("normed"), <<"rmsnorm", <<"norm", 0>>, d1.mem[One("hidden")]>>)
      BY <1>1, <1>2, <2>1, <3>1, Sets
    <3> QED  BY <3>1, <3>2
  <2>7. IsPut(d2, e, One("logits"), <<"mul", <<"lm_head", 0>>, <<"rmsnorm", <<"norm", 0>>, x>>>>)
    <3>1. Device(d2) /\ d2.mem[One("normed")] = <<"rmsnorm", <<"norm", 0>>, x>>
      BY <1>2, <2>4, <2>5, <2>6 DEF IsPut
    <3>2. IsPut(d2, e, One("logits"), <<"mul", <<"lm_head", 0>>, d2.mem[One("normed")]>>)
      BY <1>1, <1>2, <2>1, <2>2, <3>1, Sets
    <3> QED  BY <3>1, <3>2
  <2>8. Device(e) /\ e.cache = d.cache
    BY <2>5, <2>6, <2>7 DEF IsPut
  <2>9. e.mem[One("logits")] = RefLogits(h[Depth], p + (n - 1) + 1)
    BY <2>3, <2>7 DEF IsPut, RefLogits
  <2>10. ASSUME NEW c, NEW z, <<c, z>> \in OneAnswer(n, One("logits")) PROVE e.mem[z]
               = RefLogits(h[Depth], p + c + 1)
    <3>1. c = n - 1 /\ z = One("logits")
      BY <2>10 DEF OneAnswer
    <3> QED  BY <1>3, <2>9, <3>1
  <2> QED  BY <1>3, <1>4, <2>8, <2>10, AnsweredOf
<1>5. Prog(<<x1, x2>>) /\ Prog(<<x3>>)
  BY RunOne, RunTwo
<1> QED  BY <1>1, <1>4, <1>5 DEF Ends

\* K-quants: the product adds to logits cleared before.
LEMMA KQuantEnd ==
  ASSUME NEW p \in Nat, NEW n \in 1 .. MaxBatch, NEW env
  PROVE  Ends(<< Copy(Col("hidden", n - 1), One("hidden")), RmsNorm(<<"norm", 0>>, One("hidden"),
        One("normed")) >>,
              << Fill(One("logits")), MulAdd(<<"lm_head", 0>>, One("normed"), One("logits")) >>,
              p, n, Columns(n), env, OneAnswer(n, One("logits")))
<1> USE SizeAssumption
<1>1. PICK x1, x2, x3, x4 : /\ x1 = Copy(Col("hidden", n - 1), One("hidden"))
            /\ x2 = RmsNorm(<<"norm", 0>>, One("hidden"), One("normed"))
            /\ x3 = Fill(One("logits"))
            /\ x4 = MulAdd(<<"lm_head", 0>>, One("normed"), One("logits"))
  OBVIOUS
<1>2. /\ {One("hidden"), One("normed"), One("logits")} \subseteq Cells
      /\ One("hidden") # One("normed")
      /\ One("hidden") # One("logits")
      /\ One("normed") # One("logits")
  BY CellNames DEF OneNames
<1>3. n - 1 \in 0 .. n - 1 /\ (n - 1) + 1 = n /\ n \in Nat
  OBVIOUS
<1>4. ASSUME NEW d, NEW h, Behind(d, Depth, h, p, n, Columns(n), env),
            NEW e, e = RunOn(RunOn(d, <<x1, x2>>), <<x3, x4>>)
      PROVE  Answered(e, h, p, n, OneAnswer(n, One("logits")))
  <2>1. PICK d1, d2, d3 : d1 = Apply(x1, d) /\ d2 = Apply(x2, d1) /\ d3 = Apply(x3, d2)
    OBVIOUS
  <2>2. e = Apply(x4, d3)
    BY <1>4, <2>1, RunTwo
  <2>3. PICK x : x = h[Depth][p + (n - 1) + 1]
    OBVIOUS
  <2>4. Device(d) /\ d.mem[Col("hidden", n - 1)] = x
    <3>1. d.mem[Columns(n)[n - 1]] = h[Depth][p + (n - 1) + 1]
      BY <1>3, <1>4 DEF Behind
    <3>2. Columns(n)[n - 1] = Col("hidden", n - 1)
      BY <1>3 DEF Columns
    <3> QED  BY <1>3, <1>4, <2>3, <3>1, <3>2 DEF Behind
  <2>5. IsPut(d, d1, One("hidden"), x)
    <3>1. Device(d) /\ d.mem[Col("hidden", n - 1)] = x
      BY <1>2, <2>4 DEF IsPut
    <3>2. IsPut(d, d1, One("hidden"), d.mem[Col("hidden", n - 1)])
      BY <1>1, <1>2, <2>1, <3>1, Sets
    <3> QED  BY <3>1, <3>2
  <2>6. IsPut(d1, d2, One("normed"), <<"rmsnorm", <<"norm", 0>>, x>>)
    <3>1. Device(d1) /\ d1.mem[One("hidden")] = x
      BY <1>2, <2>4, <2>5 DEF IsPut
    <3>2. IsPut(d1, d2, One("normed"), <<"rmsnorm", <<"norm", 0>>, d1.mem[One("hidden")]>>)
      BY <1>1, <1>2, <2>1, <3>1, Sets
    <3> QED  BY <3>1, <3>2
  <2>7. IsPut(d2, d3, One("logits"), Zero)
    <3>1. Device(d2)
      BY <1>2, <2>4, <2>5, <2>6 DEF IsPut
    <3>2. IsPut(d2, d3, One("logits"), Zero)
      BY <1>1, <1>2, <2>1, <3>1, Sets
    <3> QED  BY <3>1, <3>2
  <2>8. IsPut(d3, e, One("logits"), <<"mul", <<"lm_head", 0>>, <<"rmsnorm", <<"norm", 0>>, x>>>>)
    <3>1. Device(d3) /\ d3.mem[One("normed")] = <<"rmsnorm", <<"norm", 0>>, x>> /\ d3.mem[One("logits")] = Zero
      BY <1>2, <2>4, <2>5, <2>6, <2>7 DEF IsPut
    <3>2. IsPut(d3, e, One("logits"), Plus(d3.mem[One("logits")], <<"mul", <<"lm_head", 0>>,
                d3.mem[One("normed")]>>))
      BY <1>1, <1>2, <2>1, <2>2, <3>1, Sets
    <3> QED  BY <3>1, <3>2 DEF Plus
  <2>9. Device(e) /\ e.cache = d.cache
    BY <2>5, <2>6, <2>7, <2>8 DEF IsPut
  <2>10. e.mem[One("logits")] = RefLogits(h[Depth], p + (n - 1) + 1)
    BY <2>3, <2>8 DEF IsPut, RefLogits
  <2>11. ASSUME NEW c, NEW z, <<c, z>> \in OneAnswer(n, One("logits")) PROVE e.mem[z]
               = RefLogits(h[Depth], p + c + 1)
    <3>1. c = n - 1 /\ z = One("logits")
      BY <2>11 DEF OneAnswer
    <3> QED  BY <1>3, <2>10, <3>1
  <2> QED  BY <1>3, <1>4, <2>9, <2>11, AnsweredOf
<1>5. Prog(<<x1, x2>>) /\ Prog(<<x3, x4>>)
  BY RunTwo
<1> QED  BY <1>1, <1>4, <1>5 DEF Ends

\* Metal, a prompt: the last column.
LEMMA PromptEnd ==
  ASSUME NEW p \in Nat, NEW n \in 1 .. MaxBatch, NEW env
  PROVE  Ends(<< RmsNorm(<<"norm", 0>>, Col("hidden", n - 1), Col("normed", 0)) >>,
              << Mul(<<"lm_head", 0>>, Col("normed", 0), Col("logits", 0)) >>,
              p, n, Columns(n), env, OneAnswer(n, Col("logits", 0)))
<1> USE SizeAssumption
<1>1. PICK x1, x2 : /\ x1 = RmsNorm(<<"norm", 0>>, Col("hidden", n - 1), Col("normed", 0))
            /\ x2 = Mul(<<"lm_head", 0>>, Col("normed", 0), Col("logits", 0))
  OBVIOUS
<1>2. /\ {Col("normed", 0), Col("logits", 0)} \subseteq Cells
      /\ Col("normed", 0) # Col("logits", 0)
  <2>1. 0 \in 0 .. MaxBatch - 1
    OBVIOUS
  <2> QED  BY <2>1, CellNames DEF OneNames, ColNames
<1>3. n - 1 \in 0 .. n - 1 /\ (n - 1) + 1 = n /\ n \in Nat
  OBVIOUS
<1>4. ASSUME NEW d, NEW h, Behind(d, Depth, h, p, n, Columns(n), env),
            NEW e, e = RunOn(RunOn(d, <<x1>>), <<x2>>)
      PROVE  Answered(e, h, p, n, OneAnswer(n, Col("logits", 0)))
  <2>1. PICK d1 : d1 = Apply(x1, d)
    OBVIOUS
  <2>2. e = Apply(x2, d1)
    BY <1>4, <2>1, RunOne
  <2>3. PICK x : x = h[Depth][p + (n - 1) + 1]
    OBVIOUS
  <2>4. Device(d) /\ d.mem[Col("hidden", n - 1)] = x
    <3>1. d.mem[Columns(n)[n - 1]] = h[Depth][p + (n - 1) + 1]
      BY <1>3, <1>4 DEF Behind
    <3>2. Columns(n)[n - 1] = Col("hidden", n - 1)
      BY <1>3 DEF Columns
    <3> QED  BY <1>3, <1>4, <2>3, <3>1, <3>2 DEF Behind
  <2>5. IsPut(d, d1, Col("normed", 0), <<"rmsnorm", <<"norm", 0>>, x>>)
    <3>1. Device(d) /\ d.mem[Col("hidden", n - 1)] = x
      BY <1>2, <2>4 DEF IsPut
    <3>2. IsPut(d, d1, Col("normed", 0), <<"rmsnorm", <<"norm", 0>>, d.mem[Col("hidden", n - 1)]>>)
      BY <1>1, <1>2, <2>1, <3>1, Sets
    <3> QED  BY <3>1, <3>2
  <2>6. IsPut(d1, e, Col("logits", 0), <<"mul", <<"lm_head", 0>>, <<"rmsnorm", <<"norm", 0>>, x>>>>)
    <3>1. Device(d1) /\ d1.mem[Col("normed", 0)] = <<"rmsnorm", <<"norm", 0>>, x>>
      BY <1>2, <2>4, <2>5 DEF IsPut
    <3>2. IsPut(d1, e, Col("logits", 0), <<"mul", <<"lm_head", 0>>, d1.mem[Col("normed", 0)]>>)
      BY <1>1, <1>2, <2>1, <2>2, <3>1, Sets
    <3> QED  BY <3>1, <3>2
  <2>7. Device(e) /\ e.cache = d.cache
    BY <2>5, <2>6 DEF IsPut
  <2>8. e.mem[Col("logits", 0)] = RefLogits(h[Depth], p + (n - 1) + 1)
    BY <2>3, <2>6 DEF IsPut, RefLogits
  <2>9. ASSUME NEW c, NEW z, <<c, z>> \in OneAnswer(n, Col("logits", 0)) PROVE e.mem[z]
              = RefLogits(h[Depth], p + c + 1)
    <3>1. c = n - 1 /\ z = Col("logits", 0)
      BY <2>9 DEF OneAnswer
    <3> QED  BY <1>3, <2>8, <3>1
  <2> QED  BY <1>3, <1>4, <2>7, <2>9, AnsweredOf
<1>5. Prog(<<x1>>) /\ Prog(<<x2>>)
  BY RunOne
<1> QED  BY <1>1, <1>4, <1>5 DEF Ends

\* Metal, a draft: every column.
LEMMA VerifyEnd ==
  ASSUME NEW p \in Nat, NEW n \in 1 .. MaxBatch, NEW env
  PROVE  Ends(NormCols(n, <<"norm", 0>>, "hidden", "normed"), MulCols(n, <<"lm_head", 0>>, "normed", "logits"),
              p, n, Columns(n), env, EachAnswer(n))
<1> USE SizeAssumption
<1>1. PICK s, t : /\ s = NormCols(n, <<"norm", 0>>, "hidden", "normed")
                  /\ t = MulCols(n, <<"lm_head", 0>>, "normed", "logits")
  OBVIOUS
<1>2. {"hidden", "normed", "logits"} \subseteq ColNames
  BY DEF ColNames
<1>3. ASSUME NEW d, NEW h, Behind(d, Depth, h, p, n, Columns(n), env), NEW e, e = RunOn(RunOn(d, s), t)
      PROVE  Answered(e, h, p, n, EachAnswer(n))
  <2>1. PICK a : a = RunOn(d, s)
    OBVIOUS
  <2>2. PICK x, u, v : /\ x = [c \in 0 .. n - 1 |-> h[Depth][p + c + 1]]
                       /\ u = [c \in 0 .. n - 1 |-> <<"rmsnorm", <<"norm", 0>>, x[c]>>]
                       /\ v = [c \in 0 .. n - 1 |-> <<"mul", <<"lm_head", 0>>, u[c]>>]
    OBVIOUS
  <2>3. Device(d) /\ Yields(d, n, "hidden", x)
    BY <1>3, <2>2 DEF Behind, Yields, Columns
  <2>4. \A c \in 0 .. n - 1 : u[c] = <<"rmsnorm", <<"norm", 0>>, x[c]>>
    BY <2>2
  <2>5. \A c \in 0 .. n - 1 : v[c] = <<"mul", <<"lm_head", 0>>, u[c]>>
    BY <2>2
  <2>6. Outcome(d, s, a, "normed") /\ Yields(a, n, "normed", u)
    BY <1>1, <1>2, <2>1, <2>3, <2>4, NormColsRun
  <2>7. Device(a) /\ a.cache = d.cache
    BY <2>6 DEF Outcome
  <2>8. e = RunOn(a, t)
    BY <1>3, <2>1
  <2>9. Outcome(a, t, e, "logits") /\ Yields(e, n, "logits", v)
    BY <1>1, <1>2, <2>5, <2>6, <2>7, <2>8, MulColsRun
  <2>10. Device(e) /\ e.cache = d.cache
    BY <2>7, <2>9 DEF Outcome
  <2>11. ASSUME NEW c, NEW z, <<c, z>> \in EachAnswer(n) PROVE e.mem[z] = RefLogits(h[Depth], p + c + 1)
    <3>1. PICK i \in 0 .. n - 1 : <<c, z>> = <<i, Col("logits", i)>>
      BY <2>11 DEF EachAnswer
    <3>2. c = i /\ z = Col("logits", i)
      BY <3>1
    <3>3. e.mem[Col("logits", i)] = v[i]
      BY <2>9 DEF Yields
    <3>4. v[i] = <<"mul", <<"lm_head", 0>>, <<"rmsnorm", <<"norm", 0>>, h[Depth][p + i + 1]>>>>
      BY <2>2
    <3> QED  BY <3>2, <3>3, <3>4 DEF RefLogits
  <2> QED  BY <1>3, <2>10, <2>11, AnsweredOf
<1>4. Prog(s) /\ Prog(t)
  BY <1>1, ColsProgs
<1> QED  BY <1>1, <1>3, <1>4 DEF Ends

-----------------------------------------------------------------------------
\* The calls of every back end that knows its position.
LEMMA WholeCall ==
  ASSUME NEW b, NEW p \in Nat, NEW n \in Nat \ {0}, p + n <= Slots, NEW hid, NEW env, NEW outs,
         NEW start, Starts(start, b, p, n, hid, env),
         NEW seqs, seqs = [l \in 1 .. Depth |-> seqs[l]],
         \A l \in 1 .. Depth : BatchStep(seqs[l], l, p, n, hid, env),
         NEW s, NEW t, Ends(s, t, p, n, hid, env, outs)
  PROVE  /\ CallRight(((start \o FlattenSeq(seqs)) \o s) \o t, b, p, n, outs)
         /\ CallRight((start \o (FlattenSeq(seqs) \o s)) \o t, b, p, n, outs)
         /\ CallRight((start \o FlattenSeq(seqs)) \o (s \o t), b, p, n, outs)
<1>1. PICK f : f = FlattenSeq(seqs)
  OBVIOUS
<1>2. Prog(start) /\ Prog(s) /\ Prog(t)
  BY DEF Starts, Ends
<1>3. Prog(f)
  BY <1>1, LayersProg
<1>4. /\ FourRuns(((start \o f) \o s) \o t, start, f, s, t)
      /\ FourRuns((start \o (f \o s)) \o t, start, f, s, t)
      /\ FourRuns((start \o f) \o (s \o t), start, f, s, t)
  BY <1>2, <1>3, Together
<1>5. ASSUME NEW whole, FourRuns(whole, start, f, s, t) PROVE CallRight(whole, b, p, n, outs)
  BY <1>1, <1>5, CallOf
<1> QED  BY <1>1, <1>4, <1>5

\* cuda_q1, one token.
LEMMA CudaQ1Call ==
  ASSUME NEW b, NEW p \in Nat, p + 1 <= Slots
  PROVE  CallRight(CudaUploads(b[1], p) \o (CudaLayersDevice \o FinalNorm)
        \o CudaLmHead, b, p, 1, OneAnswer(1, One("logits")))
<1> USE SizeAssumption
<1>1. PICK start, seqs, s, t : /\ start = CudaUploads(b[1], p)
                                    /\ seqs = [l \in 1 .. Depth |-> CudaLayerDevice(l)]
                               /\ s = FinalNorm
                               /\ t = CudaLmHead
  OBVIOUS
<1>2. p \in 0 .. Slots - 1 /\ 1 \in Nat \ {0}
  OBVIOUS
<1>3. Starts(start, b, p, 1, Alone(One("hidden")), OnDevice(p))
  BY <1>1, CudaStart
<1>4. seqs = [l \in 1 .. Depth |-> seqs[l]] /\ \A l \in 1 .. Depth : BatchStep(seqs[l], l, p, 1,
            Alone(One("hidden")), OnDevice(p))
  <2>1. ASSUME NEW l \in 1 .. Depth PROVE BatchStep(CudaLayerDevice(l), l, p, 1, Alone(One("hidden")),
              OnDevice(p))
    BY <1>2, TokenLayers
  <2> QED  BY <1>1, <2>1
<1>5. Ends(s, t, p, 1, Alone(One("hidden")), OnDevice(p), OneAnswer(1, One("logits")))
  BY <1>1, CudaEnd DEF FinalNorm, CudaLmHead
<1>6. CudaUploads(b[1], p) \o (CudaLayersDevice \o FinalNorm) \o CudaLmHead
            = (start \o (FlattenSeq(seqs) \o s)) \o t
  BY <1>1 DEF CudaLayersDevice, EachLayer
<1>7. CallRight((start \o (FlattenSeq(seqs) \o s)) \o t, b, p, 1, OneAnswer(1, One("logits")))
  BY <1>2, <1>3, <1>4, <1>5, WholeCall
<1> QED  BY <1>6, <1>7

\* cuda_ternary, one token.
LEMMA CudaTernaryCall ==
  ASSUME NEW b, NEW p \in Nat, p + 1 <= Slots
  PROVE  CallRight(CudaUploads(b[1], p) \o (CudaLayersTernary \o FinalNorm)
        \o CudaLmHead, b, p, 1, OneAnswer(1, One("logits")))
<1> USE SizeAssumption
<1>1. PICK start, seqs, s, t : /\ start = CudaUploads(b[1], p)
                                    /\ seqs = [l \in 1 .. Depth |-> CudaLayerTernary(l)]
                               /\ s = FinalNorm
                               /\ t = CudaLmHead
  OBVIOUS
<1>2. p \in 0 .. Slots - 1 /\ 1 \in Nat \ {0}
  OBVIOUS
<1>3. Starts(start, b, p, 1, Alone(One("hidden")), OnDevice(p))
  BY <1>1, CudaStart
<1>4. seqs = [l \in 1 .. Depth |-> seqs[l]] /\ \A l \in 1 .. Depth : BatchStep(seqs[l], l, p, 1,
            Alone(One("hidden")), OnDevice(p))
  <2>1. ASSUME NEW l \in 1 .. Depth PROVE BatchStep(CudaLayerTernary(l), l, p, 1, Alone(One("hidden")),
              OnDevice(p))
    BY <1>2, TokenLayers
  <2> QED  BY <1>1, <2>1
<1>5. Ends(s, t, p, 1, Alone(One("hidden")), OnDevice(p), OneAnswer(1, One("logits")))
  BY <1>1, CudaEnd DEF FinalNorm, CudaLmHead
<1>6. CudaUploads(b[1], p) \o (CudaLayersTernary \o FinalNorm) \o CudaLmHead
            = (start \o (FlattenSeq(seqs) \o s)) \o t
  BY <1>1 DEF CudaLayersTernary, EachLayer
<1>7. CallRight((start \o (FlattenSeq(seqs) \o s)) \o t, b, p, 1, OneAnswer(1, One("logits")))
  BY <1>2, <1>3, <1>4, <1>5, WholeCall
<1> QED  BY <1>6, <1>7

\* metal_q1, one token.
LEMMA MetalQ1Call ==
  ASSUME NEW b, NEW p \in Nat, p + 1 <= Slots
  PROVE  CallRight(MetalForward(b[1], p), b, p, 1, OneAnswer(1, One("logits")))
<1> USE SizeAssumption
<1>1. PICK start, seqs, s, t : /\ start = MetalUploads(b[1], p)
                                    /\ seqs = [l \in 1 .. Depth |-> MetalLayer(l, p)]
                               /\ s = << RmsNorm(<<"norm", 0>>, One("hidden"), One("normed")) >>
                               /\ t = << Mul(<<"lm_head", 0>>, One("normed"), One("logits")) >>
  OBVIOUS
<1>2. p \in 0 .. Slots - 1 /\ 1 \in Nat \ {0}
  OBVIOUS
<1>3. Starts(start, b, p, 1, Alone(One("hidden")), AsArguments(p))
  BY <1>1, MetalStart
<1>4. seqs = [l \in 1 .. Depth |-> seqs[l]] /\ \A l \in 1 .. Depth : BatchStep(seqs[l], l, p, 1,
            Alone(One("hidden")), AsArguments(p))
  <2>1. ASSUME NEW l \in 1 .. Depth PROVE BatchStep(MetalLayer(l, p), l, p, 1, Alone(One("hidden")),
              AsArguments(p))
    BY <1>2, TokenLayers
  <2> QED  BY <1>1, <2>1
<1>5. Ends(s, t, p, 1, Alone(One("hidden")), AsArguments(p), OneAnswer(1, One("logits")))
  BY <1>1, MetalEnd
<1>6. MetalForward(b[1], p) = (start \o FlattenSeq(seqs)) \o (s \o t)
  <2>1. MetalTail = s \o t
    BY <1>1 DEF MetalTail
  <2> QED  BY <1>1, <2>1 DEF MetalForward, EachLayer
<1>7. CallRight((start \o FlattenSeq(seqs)) \o (s \o t), b, p, 1, OneAnswer(1, One("logits")))
  BY <1>2, <1>3, <1>4, <1>5, WholeCall
<1> QED  BY <1>6, <1>7

\* metal_ternary, one token.
LEMMA MetalTernaryCall ==
  ASSUME NEW b, NEW p \in Nat, p + 1 <= Slots
  PROVE  CallRight(MetalForwardTernary(b[1], p), b, p, 1, OneAnswer(1, One("logits")))
<1> USE SizeAssumption
<1>1. PICK start, seqs, s, t : /\ start = MetalUploads(b[1], p)
                                    /\ seqs = [l \in 1 .. Depth |-> MetalLayerTernary(l, p)]
                               /\ s = << RmsNorm(<<"norm", 0>>, One("hidden"), One("normed")) >>
                               /\ t = << Mul(<<"lm_head", 0>>, One("normed"), One("logits")) >>
  OBVIOUS
<1>2. p \in 0 .. Slots - 1 /\ 1 \in Nat \ {0}
  OBVIOUS
<1>3. Starts(start, b, p, 1, Alone(One("hidden")), AsArguments(p))
  BY <1>1, MetalStart
<1>4. seqs = [l \in 1 .. Depth |-> seqs[l]] /\ \A l \in 1 .. Depth : BatchStep(seqs[l], l, p, 1,
            Alone(One("hidden")), AsArguments(p))
  <2>1. ASSUME NEW l \in 1 .. Depth PROVE BatchStep(MetalLayerTernary(l, p), l, p, 1, Alone(One("hidden")),
              AsArguments(p))
    BY <1>2, TokenLayers
  <2> QED  BY <1>1, <2>1
<1>5. Ends(s, t, p, 1, Alone(One("hidden")), AsArguments(p), OneAnswer(1, One("logits")))
  BY <1>1, MetalEnd
<1>6. MetalForwardTernary(b[1], p) = (start \o FlattenSeq(seqs)) \o (s \o t)
  <2>1. MetalTail = s \o t
    BY <1>1 DEF MetalTail
  <2> QED  BY <1>1, <2>1 DEF MetalForwardTernary, EachLayer, MetalTailTernary
<1>7. CallRight((start \o FlattenSeq(seqs)) \o (s \o t), b, p, 1, OneAnswer(1, One("logits")))
  BY <1>2, <1>3, <1>4, <1>5, WholeCall
<1> QED  BY <1>6, <1>7

\* metal_block, one token.
LEMMA BlockCall ==
  ASSUME NEW b, NEW p \in Nat, p + 1 <= Slots
  PROVE  CallRight(ByLayer(b[1], LAMBDA l : MetalFullLayer(l, p)), b, p, 1, OneAnswer(1, One("logits")))
<1> USE SizeAssumption
<1>1. PICK start, seqs, s, t : /\ start = << Upload(Emb(b[1]), Host("hidden")) >>
                                    /\ seqs = [l \in 1 .. Depth |-> MetalFullLayer(l, p)]
                               /\ s = << RmsNorm(<<"norm", 0>>, Host("hidden"), Host("hidden")) >>
                               /\ t = << Mul(<<"lm_head", 0>>, Host("hidden"), One("logits")) >>
  OBVIOUS
<1>2. p \in 0 .. Slots - 1 /\ 1 \in Nat \ {0}
  OBVIOUS
<1>3. Starts(start, b, p, 1, Alone(Host("hidden")), {})
  BY <1>1, HostStart
<1>4. seqs = [l \in 1 .. Depth |-> seqs[l]] /\ \A l \in 1 .. Depth : BatchStep(seqs[l], l, p, 1,
            Alone(Host("hidden")), {})
  <2>1. ASSUME NEW l \in 1 .. Depth PROVE BatchStep(MetalFullLayer(l, p), l, p, 1, Alone(Host("hidden")), {})
    BY <1>2, TokenLayers
  <2> QED  BY <1>1, <2>1
<1>5. Ends(s, t, p, 1, Alone(Host("hidden")), {}, OneAnswer(1, One("logits")))
  BY <1>1, HostEnd
<1>6. ByLayer(b[1], LAMBDA l : MetalFullLayer(l, p)) = (start \o FlattenSeq(seqs)) \o (s \o t)
  <2>1. << RmsNorm(<<"norm", 0>>, Host("hidden"), Host("hidden")), Mul(<<"lm_head", 0>>, Host("hidden"),
              One("logits")) >> = s \o t
    BY <1>1
  <2> QED  BY <1>1, <2>1 DEF ByLayer, EachLayer
<1>7. CallRight((start \o FlattenSeq(seqs)) \o (s \o t), b, p, 1, OneAnswer(1, One("logits")))
  BY <1>2, <1>3, <1>4, <1>5, WholeCall
<1> QED  BY <1>6, <1>7

\* metal_block_ternary, one token.
LEMMA BlockTernaryCall ==
  ASSUME NEW b, NEW p \in Nat, p + 1 <= Slots
  PROVE  CallRight(ByLayer(b[1], LAMBDA l : MetalFullLayerTernary(l, p)), b, p, 1, OneAnswer(1, One("logits")))
<1> USE SizeAssumption
<1>1. PICK start, seqs, s, t : /\ start = << Upload(Emb(b[1]), Host("hidden")) >>
                                    /\ seqs = [l \in 1 .. Depth |-> MetalFullLayerTernary(l, p)]
                               /\ s = << RmsNorm(<<"norm", 0>>, Host("hidden"), Host("hidden")) >>
                               /\ t = << Mul(<<"lm_head", 0>>, Host("hidden"), One("logits")) >>
  OBVIOUS
<1>2. p \in 0 .. Slots - 1 /\ 1 \in Nat \ {0}
  OBVIOUS
<1>3. Starts(start, b, p, 1, Alone(Host("hidden")), {})
  BY <1>1, HostStart
<1>4. seqs = [l \in 1 .. Depth |-> seqs[l]] /\ \A l \in 1 .. Depth : BatchStep(seqs[l], l, p, 1,
            Alone(Host("hidden")), {})
  <2>1. ASSUME NEW l \in 1 .. Depth PROVE BatchStep(MetalFullLayerTernary(l, p), l, p, 1,
              Alone(Host("hidden")), {})
    BY <1>2, TokenLayers
  <2> QED  BY <1>1, <2>1
<1>5. Ends(s, t, p, 1, Alone(Host("hidden")), {}, OneAnswer(1, One("logits")))
  BY <1>1, HostEnd
<1>6. ByLayer(b[1], LAMBDA l : MetalFullLayerTernary(l, p)) = (start \o FlattenSeq(seqs)) \o (s \o t)
  <2>1. << RmsNorm(<<"norm", 0>>, Host("hidden"), Host("hidden")), Mul(<<"lm_head", 0>>, Host("hidden"),
              One("logits")) >> = s \o t
    BY <1>1
  <2> QED  BY <1>1, <2>1 DEF ByLayer, EachLayer
<1>7. CallRight((start \o FlattenSeq(seqs)) \o (s \o t), b, p, 1, OneAnswer(1, One("logits")))
  BY <1>2, <1>3, <1>4, <1>5, WholeCall
<1> QED  BY <1>6, <1>7

\* CUDA ternary prefill.
LEMMA PrefillTernaryCall ==
  ASSUME NEW b, NEW p \in Nat, NEW n \in 1 .. MaxBatch, Len(b) = n, p + n <= Slots
  PROVE  CallRight(TryCudaPrefillTernary(b, p), b, p, n, OneAnswer(n, One("logits")))
<1> USE SizeAssumption
<1>1. PICK start, seqs, s, t : /\ start = CudaBatchUpload(b)
                                    /\ seqs = [l \in 1 .. Depth |-> CudaPrefillTernary(l, n, p)]
                               /\ s = << Copy(Col("hidden", n - 1), One("hidden")), RmsNorm(<<"norm", 0>>,
                                     One("hidden"), One("normed")) >>
                               /\ t = << Mul(<<"lm_head", 0>>, One("normed"), One("logits")) >>
  OBVIOUS
<1>2. p \in 0 .. Slots - 1 /\ n \in Nat \ {0}
  OBVIOUS
<1>3. Starts(start, b, p, n, Columns(n), RopesOf(p, 0))
  BY <1>1, CudaBatchStart
<1>4. seqs = [l \in 1 .. Depth |-> seqs[l]] /\ \A l \in 1 .. Depth : BatchStep(seqs[l], l, p, n,
            Columns(n), RopesOf(p, 0))
  <2>1. ASSUME NEW l \in 1 .. Depth PROVE BatchStep(CudaPrefillTernary(l, n, p), l, p, n, Columns(n),
              RopesOf(p, 0))
    BY <1>2, CudaPrefillTernaryLayer
  <2> QED  BY <1>1, <2>1
<1>5. Ends(s, t, p, n, Columns(n), RopesOf(p, 0), OneAnswer(n, One("logits")))
  BY <1>1, CudaBatchEnd
<1>6. TryCudaPrefillTernary(b, p) = ((start \o FlattenSeq(seqs)) \o s) \o t
  BY <1>1 DEF TryCudaPrefillTernary, LastColumn, EachLayer
<1>7. CallRight(((start \o FlattenSeq(seqs)) \o s) \o t, b, p, n, OneAnswer(n, One("logits")))
  BY <1>2, <1>3, <1>4, <1>5, WholeCall
<1> QED  BY <1>6, <1>7

\* CUDA prefill of standard quants.
LEMMA PrefillQStdCall ==
  ASSUME NEW b, NEW p \in Nat, NEW n \in 1 .. MaxBatch, Len(b) = n, p + n <= Slots
  PROVE  CallRight(TryCudaPrefillQStd(b, p), b, p, n, OneAnswer(n, One("logits")))
<1> USE SizeAssumption
<1>1. PICK start, seqs, s, t : /\ start = CudaBatchUpload(b)
                                    /\ seqs = [l \in 1 .. Depth |-> CudaPrefillQStd(l, n, p)]
                               /\ s = << Copy(Col("hidden", n - 1), One("hidden")), RmsNorm(<<"norm", 0>>,
                                     One("hidden"), One("normed")) >>
                               /\ t = << Mul(<<"lm_head", 0>>, One("normed"), One("logits")) >>
  OBVIOUS
<1>2. p \in 0 .. Slots - 1 /\ n \in Nat \ {0}
  OBVIOUS
<1>3. Starts(start, b, p, n, Columns(n), RopesOf(p, 0))
  BY <1>1, CudaBatchStart
<1>4. seqs = [l \in 1 .. Depth |-> seqs[l]] /\ \A l \in 1 .. Depth : BatchStep(seqs[l], l, p, n,
            Columns(n), RopesOf(p, 0))
  <2>1. ASSUME NEW l \in 1 .. Depth PROVE BatchStep(CudaPrefillQStd(l, n, p), l, p, n, Columns(n),
              RopesOf(p, 0))
    BY <1>2, CudaPrefillQStdLayer
  <2> QED  BY <1>1, <2>1
<1>5. Ends(s, t, p, n, Columns(n), RopesOf(p, 0), OneAnswer(n, One("logits")))
  BY <1>1, CudaBatchEnd
<1>6. TryCudaPrefillQStd(b, p) = ((start \o FlattenSeq(seqs)) \o s) \o t
  BY <1>1 DEF TryCudaPrefillQStd, LastColumn, EachLayer
<1>7. CallRight(((start \o FlattenSeq(seqs)) \o s) \o t, b, p, n, OneAnswer(n, One("logits")))
  BY <1>2, <1>3, <1>4, <1>5, WholeCall
<1> QED  BY <1>6, <1>7

\* CUDA FP8 prefill.
LEMMA PrefillFp8Call ==
  ASSUME NEW b, NEW p \in Nat, NEW n \in 1 .. MaxBatch, Len(b) = n, p + n <= Slots
  PROVE  CallRight(TryCudaPrefillFp8(b, p), b, p, n, OneAnswer(n, One("logits")))
<1> USE SizeAssumption
<1>1. PICK start, seqs, s, t : /\ start = CudaBatchUpload(b)
                                    /\ seqs = [l \in 1 .. Depth |-> CudaPrefillFp8(l, n, p)]
                               /\ s = << Copy(Col("hidden", n - 1), One("hidden")), RmsNorm(<<"norm", 0>>,
                                     One("hidden"), One("normed")) >>
                               /\ t = << Mul(<<"lm_head", 0>>, One("normed"), One("logits")) >>
  OBVIOUS
<1>2. p \in 0 .. Slots - 1 /\ n \in Nat \ {0}
  OBVIOUS
<1>3. Starts(start, b, p, n, Columns(n), RopesOf(p, 0))
  BY <1>1, CudaBatchStart
<1>4. seqs = [l \in 1 .. Depth |-> seqs[l]] /\ \A l \in 1 .. Depth : BatchStep(seqs[l], l, p, n,
            Columns(n), RopesOf(p, 0))
  <2>1. ASSUME NEW l \in 1 .. Depth PROVE BatchStep(CudaPrefillFp8(l, n, p), l, p, n, Columns(n), RopesOf(p, 0))
    BY <1>2, CudaPrefillFp8Layer
  <2> QED  BY <1>1, <2>1
<1>5. Ends(s, t, p, n, Columns(n), RopesOf(p, 0), OneAnswer(n, One("logits")))
  BY <1>1, CudaBatchEnd
<1>6. TryCudaPrefillFp8(b, p) = ((start \o FlattenSeq(seqs)) \o s) \o t
  BY <1>1 DEF TryCudaPrefillFp8, LastColumn, EachLayer
<1>7. CallRight(((start \o FlattenSeq(seqs)) \o s) \o t, b, p, n, OneAnswer(n, One("logits")))
  BY <1>2, <1>3, <1>4, <1>5, WholeCall
<1> QED  BY <1>6, <1>7

\* CUDA K-quant prefill.
LEMMA PrefillKQuantCall ==
  ASSUME NEW b, NEW p \in Nat, NEW n \in 1 .. MaxBatch, Len(b) = n, p + n <= Slots
  PROVE  CallRight(TryCudaPrefillKQuant(b, p), b, p, n, OneAnswer(n, One("logits")))
<1> USE SizeAssumption
<1>1. PICK start, seqs, s, t : /\ start = CudaBatchUpload(b)
                                    /\ seqs = [l \in 1 .. Depth |-> CudaPrefillKQuant(l, n, p)]
                               /\ s = << Copy(Col("hidden", n - 1), One("hidden")), RmsNorm(<<"norm", 0>>,
                                     One("hidden"), One("normed")) >>
                               /\ t = << Fill(One("logits")), MulAdd(<<"lm_head", 0>>, One("normed"),
                                     One("logits")) >>
  OBVIOUS
<1>2. p \in 0 .. Slots - 1 /\ n \in Nat \ {0}
  OBVIOUS
<1>3. Starts(start, b, p, n, Columns(n), RopesOf(p, 0))
  BY <1>1, CudaBatchStart
<1>4. seqs = [l \in 1 .. Depth |-> seqs[l]] /\ \A l \in 1 .. Depth : BatchStep(seqs[l], l, p, n,
            Columns(n), RopesOf(p, 0))
  <2>1. ASSUME NEW l \in 1 .. Depth PROVE BatchStep(CudaPrefillKQuant(l, n, p), l, p, n, Columns(n),
              RopesOf(p, 0))
    BY <1>2, CudaPrefillKQuantLayer
  <2> QED  BY <1>1, <2>1
<1>5. Ends(s, t, p, n, Columns(n), RopesOf(p, 0), OneAnswer(n, One("logits")))
  BY <1>1, KQuantEnd
<1>6. TryCudaPrefillKQuant(b, p) = ((start \o FlattenSeq(seqs)) \o s) \o t
  BY <1>1 DEF TryCudaPrefillKQuant, LastColumn, EachLayer
<1>7. CallRight(((start \o FlattenSeq(seqs)) \o s) \o t, b, p, n, OneAnswer(n, One("logits")))
  BY <1>2, <1>3, <1>4, <1>5, WholeCall
<1> QED  BY <1>6, <1>7

\* Metal prefill, 1-bit.
LEMMA PromptCall ==
  ASSUME NEW b, NEW p \in Nat, NEW n \in 1 .. MaxBatch, Len(b) = n, p + n <= Slots
  PROVE  CallRight(MetalPrefill(b, p), b, p, n, OneAnswer(n, Col("logits", 0)))
<1> USE SizeAssumption
<1>1. PICK start, seqs, s, t : /\ start = MetalBatchUpload(b, p)
                                    /\ seqs = [l \in 1 .. Depth |-> MetalLayerPrefill(l, n, p)]
                               /\ s = << RmsNorm(<<"norm", 0>>, Col("hidden", n - 1), Col("normed", 0)) >>
                               /\ t = << Mul(<<"lm_head", 0>>, Col("normed", 0), Col("logits", 0)) >>
  OBVIOUS
<1>2. p \in 0 .. Slots - 1 /\ n \in Nat \ {0}
  OBVIOUS
<1>3. Starts(start, b, p, n, Columns(n), RopesOf(p, n))
  BY <1>1, MetalBatchStart
<1>4. seqs = [l \in 1 .. Depth |-> seqs[l]] /\ \A l \in 1 .. Depth : BatchStep(seqs[l], l, p, n,
            Columns(n), RopesOf(p, n))
  <2>1. ASSUME NEW l \in 1 .. Depth PROVE BatchStep(MetalLayerPrefill(l, n, p), l, p, n, Columns(n),
              RopesOf(p, n))
    BY <1>2, MetalPrefillLayer
  <2> QED  BY <1>1, <2>1
<1>5. Ends(s, t, p, n, Columns(n), RopesOf(p, n), OneAnswer(n, Col("logits", 0)))
  BY <1>1, PromptEnd
<1>6. MetalPrefill(b, p) = (start \o FlattenSeq(seqs)) \o (s \o t)
  <2>1. PromptTail(n) = s \o t
    BY <1>1 DEF PromptTail
  <2> QED  BY <1>1, <2>1 DEF MetalPrefill, EachLayer
<1>7. CallRight((start \o FlattenSeq(seqs)) \o (s \o t), b, p, n, OneAnswer(n, Col("logits", 0)))
  BY <1>2, <1>3, <1>4, <1>5, WholeCall
<1> QED  BY <1>6, <1>7

\* Metal prefill, ternary.
LEMMA PromptTernaryCall ==
  ASSUME NEW b, NEW p \in Nat, NEW n \in 1 .. MaxBatch, Len(b) = n, p + n <= Slots
  PROVE  CallRight(MetalPrefillTernary(b, p), b, p, n, OneAnswer(n, Col("logits", 0)))
<1> USE SizeAssumption
<1>1. PICK start, seqs, s, t : /\ start = MetalBatchUpload(b, p)
                                    /\ seqs = [l \in 1 .. Depth |-> MetalLayerPrefillTernary(l, n, p)]
                               /\ s = << RmsNorm(<<"norm", 0>>, Col("hidden", n - 1), Col("normed", 0)) >>
                               /\ t = << Mul(<<"lm_head", 0>>, Col("normed", 0), Col("logits", 0)) >>
  OBVIOUS
<1>2. p \in 0 .. Slots - 1 /\ n \in Nat \ {0}
  OBVIOUS
<1>3. Starts(start, b, p, n, Columns(n), RopesOf(p, n))
  BY <1>1, MetalBatchStart
<1>4. seqs = [l \in 1 .. Depth |-> seqs[l]] /\ \A l \in 1 .. Depth : BatchStep(seqs[l], l, p, n,
            Columns(n), RopesOf(p, n))
  <2>1. ASSUME NEW l \in 1 .. Depth PROVE BatchStep(MetalLayerPrefillTernary(l, n, p), l, p, n, Columns(n),
              RopesOf(p, n))
    BY <1>2, MetalPrefillTernaryLayer
  <2> QED  BY <1>1, <2>1
<1>5. Ends(s, t, p, n, Columns(n), RopesOf(p, n), OneAnswer(n, Col("logits", 0)))
  BY <1>1, PromptEnd
<1>6. MetalPrefillTernary(b, p) = (start \o FlattenSeq(seqs)) \o (s \o t)
  <2>1. PromptTail(n) = s \o t
    BY <1>1 DEF PromptTail
  <2> QED  BY <1>1, <2>1 DEF MetalPrefillTernary, EachLayer
<1>7. CallRight((start \o FlattenSeq(seqs)) \o (s \o t), b, p, n, OneAnswer(n, Col("logits", 0)))
  BY <1>2, <1>3, <1>4, <1>5, WholeCall
<1> QED  BY <1>6, <1>7

\* Metal verification of a draft, 1-bit.
LEMMA VerifyCall ==
  ASSUME NEW b, NEW p \in Nat, NEW n \in 1 .. MaxBatch, Len(b) = n, p + n <= Slots
  PROVE  CallRight(MetalPrefillVerify(b, p), b, p, n, EachAnswer(n))
<1> USE SizeAssumption
<1>1. PICK start, seqs, s, t : /\ start = MetalBatchUpload(b, p)
                                    /\ seqs = [l \in 1 .. Depth |-> MetalLayerPrefill(l, n, p)]
                               /\ s = NormCols(n, <<"norm", 0>>, "hidden", "normed")
                               /\ t = MulCols(n, <<"lm_head", 0>>, "normed", "logits")
  OBVIOUS
<1>2. p \in 0 .. Slots - 1 /\ n \in Nat \ {0}
  OBVIOUS
<1>3. Starts(start, b, p, n, Columns(n), RopesOf(p, n))
  BY <1>1, MetalBatchStart
<1>4. seqs = [l \in 1 .. Depth |-> seqs[l]] /\ \A l \in 1 .. Depth : BatchStep(seqs[l], l, p, n,
            Columns(n), RopesOf(p, n))
  <2>1. ASSUME NEW l \in 1 .. Depth PROVE BatchStep(MetalLayerPrefill(l, n, p), l, p, n, Columns(n),
              RopesOf(p, n))
    BY <1>2, MetalPrefillLayer
  <2> QED  BY <1>1, <2>1
<1>5. Ends(s, t, p, n, Columns(n), RopesOf(p, n), EachAnswer(n))
  BY <1>1, VerifyEnd
<1>6. MetalPrefillVerify(b, p) = (start \o FlattenSeq(seqs)) \o (s \o t)
  <2>1. VerifyTail(n) = s \o t
    BY <1>1 DEF VerifyTail, BatchedRmsNorm, Cols, NormCols, MulCols
  <2> QED  BY <1>1, <2>1 DEF MetalPrefillVerify, EachLayer
<1>7. CallRight((start \o FlattenSeq(seqs)) \o (s \o t), b, p, n, EachAnswer(n))
  BY <1>2, <1>3, <1>4, <1>5, WholeCall
<1> QED  BY <1>6, <1>7

\* Metal verification of a draft, ternary.
LEMMA VerifyTernaryCall ==
  ASSUME NEW b, NEW p \in Nat, NEW n \in 1 .. MaxBatch, Len(b) = n, p + n <= Slots
  PROVE  CallRight(MetalPrefillVerifyTernary(b, p), b, p, n, EachAnswer(n))
<1> USE SizeAssumption
<1>1. PICK start, seqs, s, t : /\ start = MetalBatchUpload(b, p)
                                    /\ seqs = [l \in 1 .. Depth |-> MetalLayerPrefillTernary(l, n, p)]
                               /\ s = NormCols(n, <<"norm", 0>>, "hidden", "normed")
                               /\ t = MulCols(n, <<"lm_head", 0>>, "normed", "logits")
  OBVIOUS
<1>2. p \in 0 .. Slots - 1 /\ n \in Nat \ {0}
  OBVIOUS
<1>3. Starts(start, b, p, n, Columns(n), RopesOf(p, n))
  BY <1>1, MetalBatchStart
<1>4. seqs = [l \in 1 .. Depth |-> seqs[l]] /\ \A l \in 1 .. Depth : BatchStep(seqs[l], l, p, n,
            Columns(n), RopesOf(p, n))
  <2>1. ASSUME NEW l \in 1 .. Depth PROVE BatchStep(MetalLayerPrefillTernary(l, n, p), l, p, n, Columns(n),
              RopesOf(p, n))
    BY <1>2, MetalPrefillTernaryLayer
  <2> QED  BY <1>1, <2>1
<1>5. Ends(s, t, p, n, Columns(n), RopesOf(p, n), EachAnswer(n))
  BY <1>1, VerifyEnd
<1>6. MetalPrefillVerifyTernary(b, p) = (start \o FlattenSeq(seqs)) \o (s \o t)
  <2>1. VerifyTail(n) = s \o t
    BY <1>1 DEF VerifyTail, BatchedRmsNorm, Cols, NormCols, MulCols
  <2> QED  BY <1>1, <2>1 DEF MetalPrefillVerifyTernary, EachLayer
<1>7. CallRight((start \o FlattenSeq(seqs)) \o (s \o t), b, p, n, EachAnswer(n))
  BY <1>2, <1>3, <1>4, <1>5, WholeCall
<1> QED  BY <1>6, <1>7

-----------------------------------------------------------------------------
\* Where the logits of a call are.
CallOuts(kind, n) ==
    IF kind = "verify" THEN EachAnswer(n)
    ELSE OneAnswer(n, IF kind = "prompt" /\ path \in {"metal_q1", "metal_ternary"}
                      THEN Col("logits", 0) ELSE One("logits"))

\* Every program that Program can name is a call.
LEMMA ProgramRight ==
  ASSUME KnowsItsPosition, recorded \in {<<>>, CudaSequence}, NEW kind, NEW batch, NEW p \in Nat,
         NEW n \in 1 .. MaxBatch, Len(batch) = n, p + n <= Slots, kind = "token" => n = 1,
         Program(kind, batch, p) # <<>>
  PROVE  /\ CallRight(Program(kind, batch, p), batch, p, n, CallOuts(kind, n))
         /\ kind = "verify" => path \in {"metal_q1", "metal_ternary"}
<1> USE SizeAssumption

<1>1. CASE kind = "token" /\ path = "cuda_q1"
  <2>1. Program(kind, batch, p) = CudaTokenForward(batch[1], p)
    BY <1>1 DEF Program
  <2>2. CudaSequence = CudaLayersDevice \o FinalNorm
    BY <1>1 DEF CudaSequence
  <2>3. (IF recorded = <<>> THEN CudaSequence ELSE recorded) = CudaSequence
    OBVIOUS
  <2>4. Program(kind, batch, p) = CudaUploads(batch[1], p) \o (CudaLayersDevice \o FinalNorm) \o CudaLmHead
    BY <2>1, <2>2, <2>3 DEF CudaTokenForward
  <2>5. CallRight(CudaUploads(batch[1], p) \o (CudaLayersDevice \o FinalNorm)
              \o CudaLmHead, batch, p, 1, OneAnswer(1, One("logits")))
    <3>1. p + 1 <= Slots
      BY <1>1
    <3> QED  BY <3>1, CudaQ1Call
  <2>6. CallOuts(kind, n) = OneAnswer(1, One("logits")) /\ n = 1
    BY <1>1 DEF CallOuts
  <2> QED  BY <1>1, <2>4, <2>5, <2>6
<1>2. CASE kind = "token" /\ path = "cuda_ternary"
  <2>1. Program(kind, batch, p) = CudaTokenForward(batch[1], p)
    BY <1>2 DEF Program
  <2>2. CudaSequence = CudaLayersTernary \o FinalNorm
    BY <1>2 DEF CudaSequence
  <2>3. (IF recorded = <<>> THEN CudaSequence ELSE recorded) = CudaSequence
    OBVIOUS
  <2>4. Program(kind, batch, p) = CudaUploads(batch[1], p) \o (CudaLayersTernary \o FinalNorm) \o CudaLmHead
    BY <2>1, <2>2, <2>3 DEF CudaTokenForward
  <2>5. CallRight(CudaUploads(batch[1], p) \o (CudaLayersTernary \o FinalNorm)
              \o CudaLmHead, batch, p, 1, OneAnswer(1, One("logits")))
    <3>1. p + 1 <= Slots
      BY <1>2
    <3> QED  BY <3>1, CudaTernaryCall
  <2>6. CallOuts(kind, n) = OneAnswer(1, One("logits")) /\ n = 1
    BY <1>2 DEF CallOuts
  <2> QED  BY <1>2, <2>4, <2>5, <2>6
<1>3. CASE kind = "token" /\ path = "metal_q1"
  <2>4. Program(kind, batch, p) = MetalForward(batch[1], p)
    BY <1>3 DEF Program
  <2>5. CallRight(MetalForward(batch[1], p), batch, p, 1, OneAnswer(1, One("logits")))
    <3>1. p + 1 <= Slots
      BY <1>3
    <3> QED  BY <3>1, MetalQ1Call
  <2>6. CallOuts(kind, n) = OneAnswer(1, One("logits")) /\ n = 1
    BY <1>3 DEF CallOuts
  <2> QED  BY <1>3, <2>4, <2>5, <2>6
<1>4. CASE kind = "token" /\ path = "metal_ternary"
  <2>4. Program(kind, batch, p) = MetalForwardTernary(batch[1], p)
    BY <1>4 DEF Program
  <2>5. CallRight(MetalForwardTernary(batch[1], p), batch, p, 1, OneAnswer(1, One("logits")))
    <3>1. p + 1 <= Slots
      BY <1>4
    <3> QED  BY <3>1, MetalTernaryCall
  <2>6. CallOuts(kind, n) = OneAnswer(1, One("logits")) /\ n = 1
    BY <1>4 DEF CallOuts
  <2> QED  BY <1>4, <2>4, <2>5, <2>6
<1>5. CASE kind = "token" /\ path = "metal_block"
  <2>4. Program(kind, batch, p) = ByLayer(batch[1], LAMBDA l : MetalFullLayer(l, p))
    BY <1>5 DEF Program
  <2>5. CallRight(ByLayer(batch[1], LAMBDA l : MetalFullLayer(l, p)), batch, p, 1, OneAnswer(1, One("logits")))
    <3>1. p + 1 <= Slots
      BY <1>5
    <3> QED  BY <3>1, BlockCall
  <2>6. CallOuts(kind, n) = OneAnswer(1, One("logits")) /\ n = 1
    BY <1>5 DEF CallOuts
  <2> QED  BY <1>5, <2>4, <2>5, <2>6
<1>6. CASE kind = "token" /\ path = "metal_block_ternary"
  <2>4. Program(kind, batch, p) = ByLayer(batch[1], LAMBDA l : MetalFullLayerTernary(l, p))
    BY <1>6 DEF Program
  <2>5. CallRight(ByLayer(batch[1], LAMBDA l : MetalFullLayerTernary(l, p)), batch, p, 1, OneAnswer(1,
              One("logits")))
    <3>1. p + 1 <= Slots
      BY <1>6
    <3> QED  BY <3>1, BlockTernaryCall
  <2>6. CallOuts(kind, n) = OneAnswer(1, One("logits")) /\ n = 1
    BY <1>6 DEF CallOuts
  <2> QED  BY <1>6, <2>4, <2>5, <2>6
<1>7. CASE kind = "prompt" /\ path = "metal_q1"
  <2>4. Program(kind, batch, p) = MetalPrefill(batch, p)
    BY <1>7 DEF Program
  <2>5. CallRight(MetalPrefill(batch, p), batch, p, n, OneAnswer(n, Col("logits", 0)))
    BY PromptCall
  <2>6. CallOuts(kind, n) = OneAnswer(n, Col("logits", 0))
    BY <1>7 DEF CallOuts
  <2> QED  BY <1>7, <2>4, <2>5, <2>6
<1>8. CASE kind = "verify" /\ path = "metal_q1"
  <2>4. Program(kind, batch, p) = MetalPrefillVerify(batch, p)
    BY <1>8 DEF Program
  <2>5. CallRight(MetalPrefillVerify(batch, p), batch, p, n, EachAnswer(n))
    BY VerifyCall
  <2>6. CallOuts(kind, n) = EachAnswer(n)
    BY <1>8 DEF CallOuts
  <2> QED  BY <1>8, <2>4, <2>5, <2>6
<1>9. CASE kind = "prompt" /\ path = "metal_ternary"
  <2>4. Program(kind, batch, p) = MetalPrefillTernary(batch, p)
    BY <1>9 DEF Program
  <2>5. CallRight(MetalPrefillTernary(batch, p), batch, p, n, OneAnswer(n, Col("logits", 0)))
    BY PromptTernaryCall
  <2>6. CallOuts(kind, n) = OneAnswer(n, Col("logits", 0))
    BY <1>9 DEF CallOuts
  <2> QED  BY <1>9, <2>4, <2>5, <2>6
<1>10. CASE kind = "verify" /\ path = "metal_ternary"
  <2>4. Program(kind, batch, p) = MetalPrefillVerifyTernary(batch, p)
    BY <1>10 DEF Program
  <2>5. CallRight(MetalPrefillVerifyTernary(batch, p), batch, p, n, EachAnswer(n))
    BY VerifyTernaryCall
  <2>6. CallOuts(kind, n) = EachAnswer(n)
    BY <1>10 DEF CallOuts
  <2> QED  BY <1>10, <2>4, <2>5, <2>6
<1>11. CASE kind = "prompt" /\ path = "cuda_prefill_ternary"
  <2>4. Program(kind, batch, p) = TryCudaPrefillTernary(batch, p)
    BY <1>11 DEF Program
  <2>5. CallRight(TryCudaPrefillTernary(batch, p), batch, p, n, OneAnswer(n, One("logits")))
    BY PrefillTernaryCall
  <2>6. CallOuts(kind, n) = OneAnswer(n, One("logits"))
    BY <1>11 DEF CallOuts
  <2> QED  BY <1>11, <2>4, <2>5, <2>6
<1>12. CASE kind = "prompt" /\ path = "cuda_prefill_q_std"
  <2>4. Program(kind, batch, p) = TryCudaPrefillQStd(batch, p)
    BY <1>12 DEF Program
  <2>5. CallRight(TryCudaPrefillQStd(batch, p), batch, p, n, OneAnswer(n, One("logits")))
    BY PrefillQStdCall
  <2>6. CallOuts(kind, n) = OneAnswer(n, One("logits"))
    BY <1>12 DEF CallOuts
  <2> QED  BY <1>12, <2>4, <2>5, <2>6
<1>13. CASE kind = "prompt" /\ path = "cuda_prefill_fp8"
  <2>4. Program(kind, batch, p) = TryCudaPrefillFp8(batch, p)
    BY <1>13 DEF Program
  <2>5. CallRight(TryCudaPrefillFp8(batch, p), batch, p, n, OneAnswer(n, One("logits")))
    BY PrefillFp8Call
  <2>6. CallOuts(kind, n) = OneAnswer(n, One("logits"))
    BY <1>13 DEF CallOuts
  <2> QED  BY <1>13, <2>4, <2>5, <2>6
<1>14. CASE kind = "prompt" /\ path = "cuda_prefill_k_quant"
  <2>4. Program(kind, batch, p) = TryCudaPrefillKQuant(batch, p)
    BY <1>14 DEF Program
  <2>5. CallRight(TryCudaPrefillKQuant(batch, p), batch, p, n, OneAnswer(n, One("logits")))
    BY PrefillKQuantCall
  <2>6. CallOuts(kind, n) = OneAnswer(n, One("logits"))
    BY <1>14 DEF CallOuts
  <2> QED  BY <1>14, <2>4, <2>5, <2>6
<1>15. CASE ~ \/ kind = "token" /\ path \in {"cuda_q1", "cuda_ternary", "metal_q1", "metal_ternary",
                   "metal_block", "metal_block_ternary"}
              \/ kind \in {"prompt", "verify"} /\ path \in {"metal_q1", "metal_ternary"}
              \/ kind = "prompt" /\ path \in {"cuda_prefill_ternary", "cuda_prefill_q_std",
                    "cuda_prefill_fp8", "cuda_prefill_k_quant"}
  <2>1. path # "cuda_prefill_q1"
    BY DEF KnowsItsPosition
  <2>2. /\ ~ (kind = "token" /\ path \in {"cuda_q1", "cuda_ternary"})
        /\ ~ (kind = "token" /\ path = "metal_q1") /\ ~ (kind = "token" /\ path = "metal_ternary")
        /\ ~ (kind = "token" /\ path = "metal_block") /\ ~ (kind = "token" /\ path = "metal_block_ternary")
        /\ ~ (kind = "prompt" /\ path = "metal_q1") /\ ~ (kind = "verify" /\ path = "metal_q1")
        /\ ~ (kind = "prompt" /\ path = "metal_ternary") /\ ~ (kind = "verify" /\ path = "metal_ternary")
        /\ ~ (kind = "prompt" /\ path = "cuda_prefill_q1")
        /\ ~ (kind = "prompt" /\ path = "cuda_prefill_ternary")
        /\ ~ (kind = "prompt" /\ path = "cuda_prefill_q_std")
        /\ ~ (kind = "prompt" /\ path = "cuda_prefill_fp8")
        /\ ~ (kind = "prompt" /\ path = "cuda_prefill_k_quant")
    BY <1>15, <2>1
  <2>3. Program(kind, batch, p) = <<>>
    BY <2>2 DEF Program
  <2> QED  BY <2>3
<1> QED  BY <1>1, <1>2, <1>3, <1>4, <1>5, <1>6, <1>7, <1>8, <1>9, <1>10, <1>11, <1>12, <1>13, <1>14, <1>15

\* The reference of a longer sequence is that of the shorter one, and more.
LEMMA MoreTokens ==
  ASSUME NEW a, NEW b, Prog(a), Prog(b), NEW d,
         RowsUpTo(d, RefHidden(a), Len(a)), NEW h, h = RefHidden(a \o b)
  PROVE  /\ RowsUpTo(d, h, Len(a)) /\ Embedded(h, b, Len(a), Len(b)) /\ Grows(h, Len(a) + Len(b))
         /\ Prog(a \o b) /\ Len(a \o b) = Len(a) + Len(b)
<1> USE SizeAssumption
<1>0. PICK c, g : c = a \o b /\ g = RefHidden(a)
  OBVIOUS
<1>1. PICK m \in Nat, n \in Nat : m = Len(a) /\ n = Len(b) /\ c = a \o b /\ g = RefHidden(a)
  BY <1>0, ProgConcat
<1>2. /\ Prog(c) /\ Len(c) = m + n /\ DOMAIN c = 1 .. m + n /\ DOMAIN a = 1 .. m
      /\ \A i \in 1 .. m + n : c[i] = IF i <= m THEN a[i] ELSE b[i - m]
  <2>1. Prog(c) /\ Len(c) = m + n /\ \A i \in 1 .. m + n : c[i] = IF i <= m THEN a[i] ELSE b[i - m]
    BY <1>1, ProgConcat
  <2>2. \A s : Prog(s) => DOMAIN s = 1 .. Len(s)
    BY DEF Prog
  <2> QED  BY <1>1, <2>1, <2>2
<1>3. PICK k \in Nat : k = m + n /\ Reference(h, c, k) /\ Reference(g, a, m)
  <2>1. PICK k \in Nat : k = m + n
    OBVIOUS
  <2>2. DOMAIN c = 1 .. k
    BY <1>2, <2>1
  <2>3. Reference(RefHidden(c), c, k)
    BY <2>2, RefHiddenIs
  <2>4. Reference(RefHidden(a), a, m)
    BY <1>2, RefHiddenIs
  <2> QED  BY <1>1, <2>1, <2>3, <2>4
<1>4. ASSUME NEW j \in 1 .. Depth PROVE RowsRight(d, j, h[j - 1], m)
  <2>1. \A l \in 0 .. Depth, i \in 1 .. m : g[l][i] = h[l][i]
    <3>1. m <= k
      BY <1>3
    <3>2. SameTokens(a, c, m)
      BY <1>2 DEF SameTokens
    <3>3. Reference(h, c, k) /\ Reference(g, a, m)
      BY <1>3
    <3>4. SameHidden(g, h, m)
      BY <3>1, <3>2, <3>3, PrefixOfReference
    <3> QED  BY <3>4 DEF SameHidden
  <2>2. j - 1 \in 0 .. Depth
    OBVIOUS
  <2>3. ASSUME NEW i \in 1 .. m PROVE d.cache[j][i - 1] = RefRow(j, h[j - 1], i)
    <3>1. d.cache[j][i - 1] = RefRow(j, g[j - 1], i)
      BY <1>1 DEF RowsUpTo, RowsRight
    <3>2. g[j - 1][i] = h[j - 1][i]
      BY <2>1, <2>2
    <3>3. PICK hs, gs : hs = h[j - 1] /\ gs = g[j - 1]
      OBVIOUS
    <3>4. RefRow(j, gs, i) = RefRow(j, hs, i)
      BY <3>2, <3>3, RowOfPrefix
    <3> QED  BY <3>1, <3>3, <3>4
  <2> QED  BY <2>3 DEF RowsRight
<1>5. ASSUME NEW i \in 0 .. n - 1 PROVE h[0][m + i + 1] = Emb(b[i + 1])
  <2>1. m + i + 1 \in 1 .. m + n /\ ~ (m + i + 1 <= m) /\ (m + i + 1) - m = i + 1
    OBVIOUS
  <2>2. c[m + i + 1] = b[i + 1]
    BY <1>2, <2>1
  <2>3. h[0][m + i + 1] = Emb(c[m + i + 1])
    BY <1>3, <2>1 DEF Reference
  <2> QED  BY <2>2, <2>3
<1>6. Grows(h, m + n)
  BY <1>3 DEF Reference
<1> QED  BY <1>1, <1>2, <1>4, <1>5, <1>6 DEF RowsUpTo, Embedded

\* And that of a prefix is a prefix.
LEMMA FewerTokens ==
  ASSUME NEW a, Prog(a), NEW n \in 0 .. Len(a), NEW d, RowsUpTo(d, RefHidden(a), Len(a)),
         NEW b, b = SubSeq(a, 1, n)
  PROVE  Prog(b) /\ Len(b) = n /\ RowsUpTo(d, RefHidden(b), Len(b))
<1> USE SizeAssumption
<1>1. PICK S : a \in Seq(S)
  BY DEF Prog
<1>2. PICK m \in Nat : m = Len(a) /\ DOMAIN a = 1 .. m /\ n \in Nat /\ n <= m
  BY <1>1
<1>3. b \in Seq(S) /\ Len(b) = n /\ DOMAIN b = 1 .. n /\ \A i \in 1 .. n : b[i] = a[i]
  BY <1>1, <1>2
<1>4. PICK g, h : g = RefHidden(a) /\ h = RefHidden(b)
  OBVIOUS
<1>5. Reference(g, a, m) /\ Reference(h, b, n)
  BY <1>2, <1>3, <1>4, RefHiddenIs
<1>6. ASSUME NEW j \in 1 .. Depth, NEW i \in 1 .. n PROVE d.cache[j][i - 1] = RefRow(j, h[j - 1], i)
  <2>1. i \in 1 .. m /\ j - 1 \in 0 .. Depth
    BY <1>2
  <2>2. d.cache[j][i - 1] = RefRow(j, g[j - 1], i)
    BY <1>2, <1>4, <2>1 DEF RowsUpTo, RowsRight
  <2>3. h[j - 1][i] = g[j - 1][i]
    <3>1. n \in Nat /\ n <= m
      BY <1>2
    <3>2. SameTokens(b, a, n)
      BY <1>3 DEF SameTokens
    <3>3. Reference(h, b, n) /\ Reference(g, a, m)
      BY <1>5
    <3>4. SameHidden(h, g, n)
      BY <3>1, <3>2, <3>3, PrefixOfReference
    <3> QED  BY <2>1, <3>4 DEF SameHidden
  <2>4. PICK hs, gs : hs = h[j - 1] /\ gs = g[j - 1]
    OBVIOUS
  <2>5. RefRow(j, gs, i) = RefRow(j, hs, i)
    BY <2>3, <2>4, RowOfPrefix
  <2> QED  BY <2>2, <2>4, <2>5
<1>7. Prog(b)
  BY <1>3 DEF Prog
<1> QED  BY <1>3, <1>4, <1>6, <1>7 DEF RowsUpTo, RowsRight

-----------------------------------------------------------------------------
\* On a back end that knows its position, the device has its buffers and
\* caches, and the rows in it are those of the tokens seen; what was captured is
\* what would be launched.
DeviceNow == [mem |-> mem, cache |-> cache]
LayerInv ==
    KnowsItsPosition =>
        /\ Device(DeviceNow)
        /\ recorded \in {<<>>, CudaSequence}
        /\ Prog(seen) /\ Len(seen) <= Slots
        /\ RowsUpTo(DeviceNow, RefHidden(seen), Len(seen))
        /\ LogitsLikeReference

\* It holds of a fresh process.
LEMMA LayerInitInv == LayerInit => LayerInv
<1> SUFFICES ASSUME LayerInit PROVE LayerInv
  OBVIOUS
<1> USE SizeAssumption
<1>1. PICK d : d = DeviceNow
  OBVIOUS
<1>2. d.mem = mem /\ d.cache = cache /\ d = [mem |-> d.mem, cache |-> d.cache]
  BY <1>1 DEF DeviceNow
<1>3. mem = [c \in Cells |-> mem[c]]
  BY DEF LayerInit
<1>4. cache = [l \in 1 .. Depth |-> [p \in 0 .. Slots - 1 |-> cache[l][p]]]
  BY DEF LayerInit
<1>5. Device(d)
  BY <1>2, <1>3, <1>4 DEF Device
<1>6. seen = <<>> /\ recorded = <<>> /\ last = NoCall
  BY DEF LayerInit
<1>7. Prog(seen) /\ Len(seen) = 0
  <2>1. <<>> \in Seq({}) /\ Len(<<>>) = 0
    OBVIOUS
  <2> QED  BY <1>6, <2>1 DEF Prog
<1>8. RowsUpTo(d, RefHidden(seen), Len(seen))
  BY <1>7 DEF RowsUpTo, RowsRight
<1>9. LogitsLikeReference
  BY <1>6 DEF LogitsLikeReference
<1> QED  BY <1>1, <1>5, <1>6, <1>7, <1>8, <1>9 DEF LayerInv

\* What the logits of a call are, once it is down.
LogitsDown(e, h, p, n, kind) ==
    /\ kind = "verify" => \A c \in 0 .. n - 1 : e.mem[Col("logits", c)] = RefLogits(h[Depth], p + c + 1)
    /\ kind # "verify" =>
         e.mem[IF kind = "prompt" /\ path \in {"metal_q1", "metal_ternary"}
               THEN Col("logits", 0) ELSE One("logits")] = RefLogits(h[Depth], p + n)

\* They are in the cells that Logits reads.
LEMMA LogitsOfCall ==
  ASSUME NEW e, NEW h, NEW p \in Nat, NEW n \in Nat \ {0}, NEW kind, Answered(e, h, p, n, CallOuts(kind, n))
  PROVE  LogitsDown(e, h, p, n, kind)
<1>1. ASSUME kind = "verify", NEW c \in 0 .. n - 1 PROVE e.mem[Col("logits", c)]
            = RefLogits(h[Depth], p + c + 1)
  <2>1. <<c, Col("logits", c)>> \in CallOuts(kind, n)
    BY <1>1 DEF CallOuts, EachAnswer
  <2> QED  BY <2>1 DEF Answered
<1>2. ASSUME kind # "verify"
      PROVE  e.mem[IF kind = "prompt" /\ path \in {"metal_q1", "metal_ternary"}
                   THEN Col("logits", 0) ELSE One("logits")] = RefLogits(h[Depth], p + n)
  <2>1. PICK z : z = IF kind = "prompt" /\ path \in {"metal_q1", "metal_ternary"} THEN Col("logits",
              0) ELSE One("logits")
    OBVIOUS
  <2>2. <<n - 1, z>> \in CallOuts(kind, n)
    BY <1>2, <2>1 DEF CallOuts, OneAnswer
  <2>3. p + (n - 1) + 1 = p + n
    OBVIOUS
  <2>4. e.mem[z] = RefLogits(h[Depth], p + (n - 1) + 1)
    BY <2>2 DEF Answered
  <2> QED  BY <2>1, <2>3, <2>4
<1> QED  BY <1>1, <1>2 DEF LogitsDown

\* A call keeps it: the tokens before it have the same rows in the longer prefix.
LEMMA CallKeepsRows ==
  ASSUME LayerInv, KnowsItsPosition, NEW kind \in {"token", "prompt", "verify"}, NEW batch \in TokenBatches,
         Call(kind, batch)
  PROVE  LayerInv'
<1> USE SizeAssumption
<1>1. PICK p \in Nat, n \in 1 .. MaxBatch : p = Len(seen) /\ n = Len(batch) /\ p + n <= Slots
  <2>1. Len(seen) \in Nat
    BY DEF LayerInv, Prog
  <2>2. Len(batch) \in 1 .. MaxBatch
    OBVIOUS
  <2>3. Len(seen) + Len(batch) <= Slots
    BY DEF Call
  <2> QED  BY <2>1, <2>2, <2>3
<1>2. PICK s : s = Program(kind, batch, p)
  OBVIOUS
<1>3. PICK d, e : d = DeviceNow /\ e = RunOn(d, s)
  OBVIOUS
<1>4. s # <<>> /\ mem' = e.mem /\ cache' = e.cache
  <2>1. /\ Program(kind, batch, Len(seen)) # <<>>
        /\ mem' = Run(Program(kind, batch, Len(seen))).mem
        /\ cache' = Run(Program(kind, batch, Len(seen))).cache
    BY DEF Call
  <2>2. Run(s) = e
    BY <1>3, RunIsRunOn DEF DeviceNow
  <2> QED  BY <1>1, <1>2, <2>1, <2>2
<1>5. kind = "token" => n = 1
  BY <1>1 DEF Call
<1>6. CallRight(s, batch, p, n, CallOuts(kind, n))
            /\ (kind = "verify" => path \in {"metal_q1", "metal_ternary"})
  <2>1. recorded \in {<<>>, CudaSequence}
    BY DEF LayerInv
  <2>2. Len(batch) = n /\ p + n <= Slots /\ Program(kind, batch, p) # <<>>
    BY <1>1, <1>2, <1>4
  <2> QED  BY <1>2, <1>5, <2>1, <2>2, ProgramRight
<1>7. PICK h : h = RefHidden(seen \o batch)
  OBVIOUS
<1>8. /\ RowsUpTo(d, h, p) /\ Embedded(h, batch, p, n) /\ Grows(h, p + n)
      /\ Prog(seen \o batch) /\ Len(seen \o batch) = p + n
  <2>1. Prog(seen) /\ RowsUpTo(d, RefHidden(seen), Len(seen))
    BY <1>3 DEF LayerInv
  <2>2. Prog(batch)
    BY DEF Prog
  <2> QED  BY <1>1, <1>7, <2>1, <2>2, MoreTokens
<1>9. Device(d)
  BY <1>3 DEF LayerInv
<1>10. Answered(e, h, p, n, CallOuts(kind, n))
  BY <1>3, <1>6, <1>8, <1>9 DEF CallRight
<1>11. Device(e) /\ RowsUpTo(e, h, p + n)
  BY <1>10 DEF Answered
<1>12. DeviceNow' = e
  <2>1. e = [mem |-> e.mem, cache |-> e.cache]
    BY <1>11 DEF Device
  <2> QED  BY <1>4, <2>1 DEF DeviceNow
<1>13. /\ seen' = seen \o batch /\ last' = [kind |-> kind, size |-> n] /\ path' = path
       /\ recorded' \in {recorded, CudaSequence}
  BY <1>1 DEF Call
<1>14. CudaSequence' = CudaSequence /\ KnowsItsPosition'
  BY <1>13 DEF CudaSequence, KnowsItsPosition
<1>15. recorded' \in {<<>>, CudaSequence}
  BY <1>13 DEF LayerInv
<1>16. RefHidden(seen') = h /\ Len(seen') = p + n /\ Prog(seen')
  BY <1>7, <1>8, <1>13
<1>17. LogitsLikeReference'
  <2>0. LogitsDown(e, h, p, n, kind)
    <3>1. n \in Nat \ {0}
      OBVIOUS
    <3> QED  BY <1>10, <3>1, LogitsOfCall
  <2>1. last'.kind = kind /\ last'.size = n
    BY <1>13
  <2>2. (Len(seen') - last'.size) + 1 = p + 1
    BY <1>16, <2>1
  <2>3. ASSUME kind = "verify", NEW c \in 0 .. n - 1
        PROVE  mem'[IF path' \in {"metal_q1", "metal_ternary"} /\ last'.kind # "token"
                    THEN Col("logits", c) ELSE One("logits")] = RefLogits(h[Depth], (p + 1) + c)
    <3>1. p + c + 1 = (p + 1) + c
      OBVIOUS
    <3>2. e.mem[Col("logits", c)] = RefLogits(h[Depth], p + c + 1)
      BY <2>0, <2>3 DEF LogitsDown
    <3> QED  BY <1>4, <1>6, <1>13, <2>1, <2>3, <3>1, <3>2
  <2>4. ASSUME kind # "verify"
        PROVE  mem'[IF path' \in {"metal_q1", "metal_ternary"} /\ last'.kind # "token"
                    THEN Col("logits", 0) ELSE One("logits")] = RefLogits(h[Depth], p + n)
    <3>1. e.mem[IF kind = "prompt" /\ path \in {"metal_q1", "metal_ternary"}
                THEN Col("logits", 0) ELSE One("logits")] = RefLogits(h[Depth], p + n)
      BY <2>0, <2>4 DEF LogitsDown
    <3> QED  BY <1>4, <1>13, <2>1, <2>4, <3>1
  <2> QED  BY <1>16, <2>1, <2>2, <2>3, <2>4 DEF LogitsLikeReference, Logits
<1>18. Device(DeviceNow') /\ RowsUpTo(DeviceNow', RefHidden(seen'), Len(seen')) /\ Len(seen') <= Slots
  BY <1>1, <1>11, <1>12, <1>16
<1>19. recorded' \in {<<>>, CudaSequence'}
  BY <1>14, <1>15
<1> QED  BY <1>16, <1>17, <1>18, <1>19 DEF LayerInv

\* So does a rewind: a prefix has the rows of the whole.
LEMMA RewindKeepsRows ==
  ASSUME LayerInv, KnowsItsPosition, NEW n \in 0 .. Slots, Rewind(n)
  PROVE  LayerInv'
<1>1. /\ n < Len(seen) /\ seen' = SubSeq(seen, 1, n) /\ last' = NoCall /\ path' = path
      /\ mem' = mem /\ cache' = cache /\ recorded' = recorded
  BY DEF Rewind
<1>2. /\ Device(DeviceNow) /\ recorded \in {<<>>, CudaSequence} /\ Prog(seen) /\ Len(seen) <= Slots
      /\ RowsUpTo(DeviceNow, RefHidden(seen), Len(seen))
  BY DEF LayerInv
<1>3. n \in 0 .. Len(seen) /\ n <= Slots
  BY <1>1, <1>2, SizeAssumption DEF Prog
<1>4. Prog(seen') /\ Len(seen') = n /\ RowsUpTo(DeviceNow, RefHidden(seen'), Len(seen'))
  BY <1>1, <1>2, <1>3, FewerTokens
<1>5. DeviceNow' = DeviceNow /\ CudaSequence' = CudaSequence /\ LogitsLikeReference'
  BY <1>1 DEF DeviceNow, CudaSequence, LogitsLikeReference
<1>6. Len(seen') <= Slots
  BY <1>3, <1>4
<1> QED  BY <1>1, <1>2, <1>4, <1>5, <1>6 DEF LayerInv

\* Every step keeps it.
LEMMA LayerStepInv == LayerInv /\ [LayerNext]_layerVars => LayerInv'
<1> SUFFICES ASSUME LayerInv, [LayerNext]_layerVars PROVE LayerInv'
  OBVIOUS
<1>1. path' = path
  BY DEF LayerNext, Call, Rewind, layerVars
<1>2. CASE ~ KnowsItsPosition
  BY <1>1, <1>2 DEF LayerInv, KnowsItsPosition
<1>3. CASE KnowsItsPosition
  <2>1. ASSUME NEW kind \in {"token", "prompt", "verify"}, NEW batch \in TokenBatches, Call(kind, batch)
        PROVE  LayerInv'
    BY <1>3, <2>1, CallKeepsRows
  <2>2. ASSUME NEW n \in 0 .. Slots, Rewind(n) PROVE LayerInv'
    BY <1>3, <2>2, RewindKeepsRows
  <2>3. CASE UNCHANGED layerVars
    <3>1. DeviceNow' = DeviceNow /\ CudaSequence' = CudaSequence /\ seen' = seen /\ recorded' = recorded
      BY <2>3 DEF layerVars, DeviceNow, CudaSequence
    <3>2. LogitsLikeReference' = LogitsLikeReference /\ KnowsItsPosition' = KnowsItsPosition
      BY <2>3 DEF layerVars, LogitsLikeReference, Logits, KnowsItsPosition
    <3>3. RefHidden(seen') = RefHidden(seen)
      BY <3>1
    <3> QED  BY <1>3, <3>1, <3>2, <3>3 DEF LayerInv
  <2> QED  BY <2>1, <2>2, <2>3 DEF LayerNext
<1> QED  BY <1>2, <1>3

\* And it says what is to be shown.
LEMMA LayerInvIsIt == LayerInv => LayersLikeReference
<1> SUFFICES ASSUME LayerInv, KnowsItsPosition PROVE LayersLikeReference
  BY DEF LayersLikeReference, LogitsLikeReference, RowsLikeReference
<1>1. DeviceNow.cache = cache
  BY DEF DeviceNow
<1>2. DOMAIN seen = 1 .. Len(seen)
  BY DEF LayerInv, Prog
<1>3. RowsLikeReference
  <2>1. PICK h : h = RefHidden(seen)
    OBVIOUS
  <2>2. ASSUME NEW l \in 1 .. Depth, NEW p \in DOMAIN seen PROVE cache[l][p - 1] = RefRow(l, h[l - 1], p)
    BY <1>1, <1>2, <2>1 DEF LayerInv, RowsUpTo, RowsRight
  <2> QED  BY <2>1, <2>2 DEF RowsLikeReference
<1>4. LogitsLikeReference
  BY DEF LayerInv
<1> QED  BY <1>3, <1>4 DEF LayersLikeReference

\* On every back end that uploads its position, whatever the calls, prompts, drafts
\* and rewinds before, the launches of a forward call leave the KV rows and the logits
\* that TransformerBlock::forward computes over the whole prefix, layer by layer: no
\* buffer kept from an earlier call, layer or token, no captured position and no rejected
\* token's row gets into them (pictor-kernels/src/gpu_backend).
THEOREM LaunchesComputeTheBlocks == LayerSpec => []LayersLikeReference
<1>1. LayerInit => LayerInv
  BY LayerInitInv
<1>2. LayerInv /\ [LayerNext]_layerVars => LayerInv'
  BY LayerStepInv
<1>3. LayerInv => LayersLikeReference
  BY LayerInvIsIt
<1> QED  BY <1>1, <1>2, <1>3, PTL DEF LayerSpec
=============================================================================
