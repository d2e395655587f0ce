---------------------------- MODULE ElementKernels ----------------------------
(* The kernels of the GPU back ends around the matrix products: norms,        *)
(* rotary embeddings, activations, softmax, attention over the cache, and the *)
(* glue of the image models.  A launch is a grid of thread groups that run in *)
(* any order; the threads of a group run from one barrier to the next in any  *)
(* order, and share a memory.  A value is the term that made it: what was     *)
(* read where, and for a sum the collection of what was added.                *)
EXTENDS Integers, Sequences, FiniteSets, Bags, SequencesExt, TLC

CONSTANTS Works,                 \* the launches: a kernel and its arguments
          GROUP, WARP,           \* threads of a group, 256, and of a warp, 32
          DIT_GLUE_MAX_GRID,     \* groups a launch of the glue has at most
          IM2COL_TILE_CAP_BYTES  \* of patches at a time

ASSUME GroupsAssumption == {GROUP, WARP, DIT_GLUE_MAX_GRID} \subseteq Nat \ {0}

VARIABLES work,                  \* the launches under way
          at, ran,               \* which of them, and its groups that have run
          memory, touched,
          raced, strayed         \* a race; a cell outside of its buffer
elementVars == <<work, at, ran, memory, touched, raced, strayed>>

-----------------------------------------------------------------------------
(* The machine.  A phase is a step of the threads of a group: for each the    *)
(* cells it sets, from values of before the phase.  Only a barrier keeps the  *)
(* phases of different threads apart.                                        *)
Barrier == [t \in {-1} |-> {}]
SharedAt(name, i) == <<"shared", i, name>>     \* of the group
Shared(i) == SharedAt("sum", i)
OwnAt(t, name, i) == <<"own", t, name, i>>     \* a register: exchanged in lock step only
Own(t, name) == OwnAt(t, name, 0)
ZeroRead == <<"zero", 0>>

Set(to, by, terms) == [to |-> to, by |-> by, terms |-> terms]
Put(to, op, from) == Set(to, "put", <<<<op, from>>>>)
Load(to, from) == Put(to, "same", <<from>>)
Add(to, terms) == Set(to, "+", terms)
Greatest(to, terms) == Set(to, "max", terms)
Same(c) == <<"same", <<c>>>>

CellIn(m, c) == IF c \in DOMAIN m THEN m[c] ELSE c
TermIn(m, term) ==
    IF term[1] = "same" THEN CellIn(m, term[2][1])
    ELSE <<term[1], [k \in DOMAIN term[2] |-> CellIn(m, term[2][k])]>>

\* A sum of sums is a sum, a maximum of maxima a maximum.
BagOf(seq) ==
    IF Cardinality(Range(seq)) = Len(seq) THEN SetToBag(Range(seq))
    ELSE [v \in Range(seq) |-> Cardinality({k \in DOMAIN seq : seq[k] = v})]
Gathered(m, by, terms) ==
    LET values == [k \in DOMAIN terms |-> TermIn(m, terms[k])]
        leaves == SelectSeq(values, LAMBDA v : v[1] # by)
        partial == SelectSeq(values, LAMBDA v : v[1] = by)
    IN <<by, FoldLeft(LAMBDA bag, v : bag (+) v[2], BagOf(leaves), partial)>>
Over(by, values) == <<by, SetToBag(values)>>

\* A reduction that has seen all it should goes by its name from there on.
Standing(v) == IF v[1] = "data" THEN v[3] ELSE -1
FirstBest(values) ==
    FoldLeft(LAMBDA best, v : IF Standing(v) > Standing(best) THEN v ELSE best, <<"data", 0, -1>>, values)
ValueIn(m, i) ==
    CASE i.by = "put" -> TermIn(m, i.terms[1])
      [] i.by \in {"+", "max"} -> Gathered(m, i.by, i.terms)
      [] i.by = "best" -> FirstBest([k \in DOMAIN i.terms |-> TermIn(m, i.terms[k])])
      [] i.by = "index of" -> <<"index of", Standing(TermIn(m, i.terms[1]))>>
      [] i.by = "settled" ->
            IF TermIn(m, i.terms[1]) = i.whole THEN <<i.name>> ELSE TermIn(m, i.terms[1])
Settle(to, from, name, whole) == [name |-> name, whole |-> whole] @@ Set(to, "settled", <<Same(from)>>)

ReadBy(i) == UNION {Range(i.terms[k][2]) : k \in DOMAIN i.terms}
IsOwn(c) == c[1] = "own"
IsGlobal(c) == c[1] \notin {"own", "shared", "zero"}

WrittenIn(p) == UNION {{<<i.to, t>> : i \in p[t]} : t \in DOMAIN p}
ReadIn(p) == UNION {UNION {{<<c, t>> : c \in ReadBy(i)} : i \in p[t]} : t \in DOMAIN p}

\* Two threads at one cell between two barriers, and one of them sets it.
RaceIn(written, read) ==
    LET cells == {w[1] : w \in written}
    IN \/ Cardinality(cells) # Cardinality(written)
       \/ \E r \in read : ~IsOwn(r[1]) /\ r[1] \in cells /\ r \notin written
Raced(phases) ==
    LET barriers(k) == Cardinality({j \in 1 .. k - 1 : -1 \in DOMAIN phases[j]})
        between(b) == {k \in DOMAIN phases : barriers(k) = b}
    IN \E b \in 0 .. barriers(Len(phases)) :
          RaceIn(UNION {WrittenIn(phases[k]) : k \in between(b)}, UNION {ReadIn(phases[k]) : k \in between(b)})

After(m, p) ==
    LET all == UNION {p[t] : t \in DOMAIN p}
        new == [c \in {i.to : i \in all} |-> ValueIn(m, CHOOSE i \in all : i.to = c)]
    IN [c \in DOMAIN m \cup DOMAIN new |-> IF c \in DOMAIN new THEN new[c] ELSE m[c]]

\* What a group leaves behind: global cells, those it touched, and whether two
\* of its threads raced.
GroupRun(phases, m) ==
    LET after == FoldLeft(After, m, phases)
        global(cells) == {c \in cells : IsGlobal(c)}
    IN [memory |-> [c \in global(DOMAIN after) |-> after[c]],
        reads |-> global(UNION {{r[1] : r \in ReadIn(phases[k])} : k \in DOMAIN phases}),
        writes |-> global(UNION {{w[1] : w \in WrittenIn(phases[k])} : k \in DOMAIN phases}),
        raced |-> Raced(phases)]

-----------------------------------------------------------------------------
(* Idioms of the kernels.                                                    *)
ThreadsOf(n) == 0 .. n - 1
Groups(gx, gy) == (0 .. gx - 1) \X (0 .. gy - 1)
div_ceil(a, b) == (a + b - 1) \div b

\* A launch: its groups, and what each does.  A program: one launch after the
\* other, and what memory should be in the end.
Grid(groups, Body(_)) == [g \in groups |-> Body(g)]
Program(steps, expected) == [steps |-> steps, expected |-> expected, refused |-> FALSE]
Launched(groups, Body(_), expected) == Program(<<Grid(groups, Body)>>, expected)
\* The host looks at the lengths first, and launches nothing on nothing.
Refusal == [steps |-> <<>>, expected |-> <<>>, refused |-> TRUE]
Nothing == Program(<<>>, <<>>)
Encoded(fit, empty, program) ==
    CASE ~fit -> Refusal
      [] fit /\ empty -> Nothing
      [] OTHER -> program

\* for (i = first; i < n; i += step)
Strided(first, n, step) == [k \in 1 .. (n - first + step - 1) \div step |-> first + (k - 1) * step]
EachOf(seq, Instr(_)) == UNION {Instr(seq[k]) : k \in DOMAIN seq}

\* A thread for an element.
EachElement(threads, g, n, Instr(_)) ==
    <<[t \in ThreadsOf(threads) |->
        LET gid == g[1] * threads + t IN IF gid < n THEN Instr(gid) ELSE {}]>>

\* Every thread gathers every threads-th term into its cell of the shared memory.
Partials(threads, n, by, Term(_)) ==
    [t \in ThreadsOf(threads) |->
        {Set(Shared(t), by, LET s == Strided(t, n, threads) IN [k \in DOMAIN s |-> Term(s[k])])}]

Log2(n) == CHOOSE l \in 0 .. 10 : 2 ^ l = n
\* (mutant) The last levels, within a warp, without a barrier.
TreeOfWarps(threads, by) ==
    LET level(stride) ==
            [t \in ThreadsOf(stride) |->
                {Set(Shared(t), by, <<Same(Shared(t)), Same(Shared(t + stride))>>)}]
        wait(stride) == IF stride > WARP \div 2 THEN <<Barrier>> ELSE <<>>
    IN FlattenSeq([l \in 1 .. Log2(threads) |->
                      <<level(threads \div 2 ^ l)>> \o wait(threads \div 2 ^ l)]) \o <<Barrier>>
\* for (stride = threads / 2; stride > 0; stride >>= 1), a barrier after each.
Tree(threads, by) ==
    LET steps == Log2(threads)
        level(stride) ==
            [t \in ThreadsOf(stride) |->
                {Set(Shared(t), by, <<Same(Shared(t)), Same(Shared(t + stride))>>)}]
    IN FlattenSeq([l \in 1 .. steps |-> <<level(threads \div 2 ^ l), Barrier>>])
Reduce(threads, n, by, Term(_)) == <<Partials(threads, n, by, Term), Barrier>> \o Tree(threads, by)

\* __shfl_down_sync within warps of WARP; warp_ss has the sum of each warp.
Shuffles(threads, name) ==
    [k \in 1 .. Log2(WARP) |->
        LET off == WARP \div 2 ^ k IN
        [t \in ThreadsOf(threads) |->
            LET from == IF (t % WARP) + off < WARP THEN t + off ELSE t IN
            {Add(Own(t, name), <<Same(Own(t, name)), Same(Own(from, name))>>)}]]
FirstLanes(threads, name) ==
    [t \in {l \in ThreadsOf(threads) : l % WARP = 0} |-> {Load(Shared(t \div WARP), Own(t, name))}]
WarpSums(threads, n, Term(_)) ==
    LET own == [t \in ThreadsOf(threads) |->
                   {Add(Own(t, "pss"), LET s == Strided(t, n, threads) IN [k \in DOMAIN s |-> Term(s[k])])}]
        total == [t \in {0} |-> {Add(Shared(0), [w \in 1 .. threads \div WARP |-> Same(Shared(w - 1))])}]
    IN <<own>> \o Shuffles(threads, "pss") \o <<FirstLanes(threads, "pss"), Barrier, total>>

-----------------------------------------------------------------------------
(* What the kernels are to compute, as the processor does.                   *)
\* x[i] / sqrt(mean of squares + eps) * weight[i]
Squares(x, n) == Over("+", {<<"*", <<x[i], x[i]>>>> : i \in 0 .. n - 1})
rms_norm(x, w, n) == [i \in 0 .. n - 1 |-> <<"norm", <<x[i], <<"rms">>, w[i]>>>>]
\* The two halves of a head are rotated against each other.
rope(x, cos, sin, half) ==
    [i \in 0 .. 2 * half - 1 |->
        IF i < half THEN <<"xc-ys", <<x[i], x[i + half], cos[i], sin[i]>>>>
        ELSE <<"xs+yc", <<x[i - half], x[i], cos[i - half], sin[i - half]>>>>]
Row(name, base, n) == [i \in 0 .. n - 1 |-> <<name, base + i>>]
Exps(x, n) == Over("+", {<<"exp-", <<x[i], <<"max">>>>>> : i \in 0 .. n - 1})
softmax_of(x, n) == [i \in 0 .. n - 1 |-> <<"/", <<<<"exp-", <<x[i], <<"max">>>>>>, <<"sum">>>>>>]
At(name, row) == [c \in {<<name, i>> : i \in DOMAIN row} |-> row[c[2]]]
Outs(name, n, Value(_)) == At(name, [i \in 0 .. n - 1 |-> Value(i)])

-----------------------------------------------------------------------------
(* One thread for an element.                                                *)
relu(d, g) == EachElement(GROUP, g, d.n, LAMBDA i : {Put(<<"out", i>>, "relu", <<<<"x", i>>>>)})
dispatch_relu(d) ==
    Launched(Groups(div_ceil(d.n, GROUP), 1), LAMBDA g : relu(d, g),
             Outs("out", d.n, LAMBDA i : <<"relu", <<<<"x", i>>>>>>))

silu(d, g) == EachElement(GROUP, g, d.n, LAMBDA i : {Put(<<"out", i>>, "silu", <<<<"x", i>>>>)})
dispatch_silu(d) ==
    Launched(Groups(div_ceil(d.n, GROUP), 1), LAMBDA g : silu(d, g),
             Outs("out", d.n, LAMBDA i : <<"silu", <<<<"x", i>>>>>>))

swiglu(d, g) ==
    EachElement(GROUP, g, d.n, LAMBDA i : {Put(<<"out", i>>, "silu*", <<<<"gate", i>>, <<"up", i>>>>)})
dispatch_swiglu(d) ==
    Launched(Groups(div_ceil(d.n, GROUP), 1), LAMBDA g : swiglu(d, g),
             Outs("out", d.n, LAMBDA i : <<"silu*", <<<<"gate", i>>, <<"up", i>>>>>>))

residual_add(d, g) ==
    EachElement(GROUP, g, d.n, LAMBDA i : {Put(<<"a", i>>, "a+b", <<<<"a", i>>, <<"b", i>>>>)})
dispatch_residual_add(d) ==
    Launched(Groups(div_ceil(d.n, GROUP), 1), LAMBDA g : residual_add(d, g),
             Outs("a", d.n, LAMBDA i : <<"a+b", <<<<"a", i>>, <<"b", i>>>>>>))

\* Gate and up are the halves of one buffer.
swiglu_fused(d, g) ==
    EachElement(GROUP, g, d.n,
             LAMBDA i : {Put(<<"out", i>>, "silu*", <<<<"gate_up", i>>, <<"gate_up", d.n + i>>>>)})
dispatch_swiglu_fused(d) ==
    Launched(Groups(div_ceil(d.n, GROUP), 1), LAMBDA g : swiglu_fused(d, g),
             Outs("out", d.n, LAMBDA i : <<"silu*", <<<<"gate_up", i>>, <<"gate_up", d.n + i>>>>>>))

\* Metal: the gate and the up of a column after each other.
batched_swiglu(d, g) ==
    <<[t \in ThreadsOf(GROUP) |->
        LET elem == g[1] * GROUP + t
            offset == g[2] * d.n * 2
        IN IF elem >= d.n \/ g[2] >= d.batch THEN {}
           ELSE {Put(<<"out", g[2] * d.n + elem>>, "silu*",
                     <<<<"gate_up", offset + elem>>, <<"gate_up", offset + d.n + elem>>>>)}]>>
dispatch_batched_swiglu(d) ==
    Launched(Groups(div_ceil(d.n, GROUP), d.batch), LAMBDA g : batched_swiglu(d, g),
             Outs("out", d.batch * d.n, LAMBDA i :
                 LET b == i \div d.n  e == i % d.n IN
                 <<"silu*", <<<<"gate_up", 2 * b * d.n + e>>, <<"gate_up", (2 * b + 1) * d.n + e>>>>>>))
\* CUDA: the gates of all columns, then the ups.
cuda_batched_swiglu(d, g) ==
    EachElement(GROUP, g, d.n * d.batch, LAMBDA i :
        {Put(<<"out", i>>, "silu*", <<<<"gate_up", i>>, <<"gate_up", i + d.n * d.batch>>>>)})
launch_batched_swiglu(d) ==
    Launched(Groups(div_ceil(d.n * d.batch, GROUP), 1), LAMBDA g : cuda_batched_swiglu(d, g),
             Outs("out", d.batch * d.n, LAMBDA i :
                 <<"silu*", <<<<"gate_up", i>>, <<"gate_up", d.batch * d.n + i>>>>>>))

matvec_f32(d, g) ==
    EachElement(GROUP, g, d.rows, LAMBDA i :
        {Add(<<"out", i>>, [j \in 1 .. d.n |-> <<"*", <<<<"a", i * d.n + j - 1>>, <<"x", j - 1>>>>>>])})
dispatch_matvec(d) ==
    Launched(Groups(div_ceil(d.rows, GROUP), 1), LAMBDA g : matvec_f32(d, g),
             Outs("out", d.rows, LAMBDA i :
                 Over("+", {<<"*", <<<<"a", i * d.n + j>>, <<"x", j>>>>>> : j \in 0 .. d.n - 1})))

\* Every thread looks at all elements by itself.
softmax(d, g) ==
    LET mine(t) == g[1] * GROUP + t
        active == {t \in ThreadsOf(GROUP) : mine(t) < d.n}
        all == [i \in 1 .. d.n |-> <<"x", i - 1>>]
    IN <<[t \in active |-> {Greatest(Own(t, "max_val"), [i \in DOMAIN all |-> Same(all[i])])}],
         [t \in active |-> {Settle(Own(t, "max_val"), Own(t, "max_val"), "max", Over("max", Range(all)))}],
         [t \in active |->
            {Put(Own(t, "my_exp"), "exp-", <<<<"x", mine(t)>>, Own(t, "max_val")>>),
             Add(Own(t, "sum_exp"), [i \in DOMAIN all |-> <<"exp-", <<all[i], Own(t, "max_val")>>>>])}],
         [t \in active |-> {Settle(Own(t, "sum_exp"), Own(t, "sum_exp"), "sum", Exps(Row("x", 0, d.n), d.n))}],
         [t \in active |-> {Put(<<"out", mine(t)>>, "/", <<Own(t, "my_exp"), Own(t, "sum_exp")>>)}]>>
dispatch_softmax(d) ==
    Launched(Groups(div_ceil(d.n, GROUP), 1), LAMBDA g : softmax(d, g),
             At("out", softmax_of(Row("x", 0, d.n), d.n)))

rmsnorm(d, g) ==
    LET squares == [i \in 1 .. d.n |-> <<"*", <<<<"x", i - 1>>, <<"x", i - 1>>>>>>]
        mine(t) == g[1] * GROUP + t
        active == {t \in ThreadsOf(GROUP) : mine(t) < d.n}
    IN <<[t \in active |-> {Add(Own(t, "sum_sq"), squares)}],
         [t \in active |-> {Settle(Own(t, "rms"), Own(t, "sum_sq"), "rms", Squares(Row("x", 0, d.n), d.n))}],
         [t \in active |->
            {Put(<<"out", mine(t)>>, "norm", <<<<"x", mine(t)>>, Own(t, "rms"), <<"w", mine(t)>>>>)}]>>
dispatch_rmsnorm_scalar(d) ==
    Launched(Groups(div_ceil(d.n, GROUP), 1), LAMBDA g : rmsnorm(d, g),
             At("out", rms_norm(Row("x", 0, d.n), Row("w", 0, d.n), d.n)))

-----------------------------------------------------------------------------
(* Norms.  A row to a group, its threads together.                           *)
RootOf(threads, from, x, n) ==
    <<[t \in ThreadsOf(threads) |-> {Settle(Own(t, "rms"), from, "rms", Squares(x, n))}]>>
ScaledRow(threads, n, x, w, out) ==
    <<[t \in ThreadsOf(threads) |->
        EachOf(Strided(t, n, threads),
               LAMBDA i : {Put(out[i], "norm", <<x[i], Own(t, "rms"), w[i]>>)})]>>
TreeNorm(threads, n, x, w, out) ==
    Reduce(threads, n, "+", LAMBDA i : <<"*", <<x[i], x[i]>>>>)
    \o RootOf(threads, Shared(0), x, n) \o ScaledRow(threads, n, x, w, out)
\* Thread 0 puts the root where all read it.
WarpNorm(n, x, w, out) ==
    WarpSums(GROUP, n, LAMBDA i : <<"*", <<x[i], x[i]>>>>)
    \o <<[t \in {0} |-> {Settle(Shared(0), Shared(0), "rms", Squares(x, n))}], Barrier,
          [t \in ThreadsOf(GROUP) |-> {Load(Own(t, "rms"), Shared(0))}]>>
    \o ScaledRow(GROUP, n, x, w, out)
RowsLike(name, rows, n, Value(_)) ==
    UNION {{<<<<name, r * n + i>>, Value(r)[i]>> : i \in 0 .. n - 1} : r \in 0 .. rows - 1}
AsMemory(pairs) == [c \in {p[1] : p \in pairs} |-> (CHOOSE p \in pairs : p[1] = c)[2]]
NormedRows(name, from, weight, rows, n) ==
    AsMemory(RowsLike(name, rows, n, LAMBDA r : rms_norm(Row(from, r * n, n), Row(weight, 0, n), n)))

rmsnorm_weighted_v2(d, g) ==
    TreeNorm(GROUP, d.n, Row("x", 0, d.n), Row("w", 0, d.n), Row("out", 0, d.n))
dispatch_rmsnorm(d) ==
    Launched(Groups(1, 1), LAMBDA g : rmsnorm_weighted_v2(d, g), NormedRows("out", "x", "w", 1, d.n))
cuda_rmsnorm_weighted_v2(d, g) ==
    WarpNorm(d.n, Row("x", 0, d.n), Row("w", 0, d.n), Row("out", 0, d.n))
launch_rmsnorm(d) ==
    Launched(Groups(1, 1), LAMBDA g : cuda_rmsnorm_weighted_v2(d, g), NormedRows("out", "x", "w", 1, d.n))

batched_rmsnorm_v2(d, g) ==
    LET base == g[1] * d.n IN
    TreeNorm(GROUP, d.n, Row("x", base, d.n), Row("w", 0, d.n), Row("out", base, d.n))
dispatch_batched_rmsnorm(d) ==
    Launched(Groups(d.batch, 1), LAMBDA g : batched_rmsnorm_v2(d, g),
             NormedRows("out", "x", "w", d.batch, d.n))
cuda_batched_rmsnorm_v2(d, g) ==
    LET base == g[1] * d.n IN
    IF g[1] >= d.batch THEN <<>>
    ELSE WarpNorm(d.n, Row("x", base, d.n), Row("w", 0, d.n), Row("out", base, d.n))
launch_batched_rmsnorm(d) ==
    Launched(Groups(d.batch, 1), LAMBDA g : cuda_batched_rmsnorm_v2(d, g),
             NormedRows("out", "x", "w", d.batch, d.n))

\* The greatest and where it is: a later one only when it is greater.
ArgmaxOver(threads, data) ==
    LET n == Len(data)
        cell(i) == Same(<<"data", i, data[i + 1]>>)
        result == [t \in {0} |-> {Set(<<"result", 0>>, "index of", <<Same(Shared(0))>>)}]
    IN Reduce(threads, n, "best", cell) \o <<result>>
Greatest_of(data) == [c \in {<<"result", 0>>} |-> <<"index of", CHOOSE v \in Range(data) : \A u \in Range(data) : v >= u>>]
argmax(d, g) == ArgmaxOver((4 * GROUP), d.data)
dispatch_argmax(d) == Launched(Groups(1, 1), LAMBDA g : argmax(d, g), Greatest_of(d.data))
argmax_f32(d, g) == ArgmaxOver(GROUP, d.data)
launch_argmax(d) == Launched(Groups(1, 1), LAMBDA g : argmax_f32(d, g), Greatest_of(d.data))

-----------------------------------------------------------------------------
(* Attention over the cache: heads of queries first, then those of keys.     *)
HeadOf(d, h, queries, keys) ==
    IF h < d.nq THEN Row(queries, h * d.head_dim, d.head_dim)
    ELSE Row(keys, (h - d.nq) * d.head_dim, d.head_dim)
HeadIn(d, h) == HeadOf(d, h, "q", "k")
HeadOut(d, h) == HeadOf(d, h, "q_out", "k_out")
HeadWeight(d, h) == Row(IF h < d.nq THEN "q_weight" ELSE "k_weight", 0, d.head_dim)
EachHead(d, Value(_)) ==
    AsMemory(UNION {{<<HeadOut(d, h)[i], Value(h)[i]>> : i \in 0 .. d.head_dim - 1}
                    : h \in 0 .. d.nq + d.nkv - 1})
normed_head(d, h) == rms_norm(HeadIn(d, h), HeadWeight(d, h), d.head_dim)
roped(d, row) == rope(row, Row("cos", 0, d.head_dim \div 2), Row("sin", 0, d.head_dim \div 2), d.head_dim \div 2)

fused_qk_norm(d, g) ==
    TreeNorm(GROUP, d.head_dim, HeadIn(d, g[1]), HeadWeight(d, g[1]), HeadOut(d, g[1]))
cuda_fused_qk_norm(d, g) == fused_qk_norm(d, g)
dispatch_fused_qk_norm(d) ==
    Launched(Groups(d.nq + d.nkv, 1), LAMBDA g : fused_qk_norm(d, g), EachHead(d, LAMBDA h : normed_head(d, h)))
launch_fused_qk_norm(d) ==
    Launched(Groups(d.nq + d.nkv, 1), LAMBDA g : cuda_fused_qk_norm(d, g), EachHead(d, LAMBDA h : normed_head(d, h)))

RotatedPair(x0, x1, c, s, lo, hi) ==
    {Put(lo, "xc-ys", <<x0, x1, c, s>>), Put(hi, "xs+yc", <<x0, x1, c, s>>)}
fused_qk_rope(d, g) ==
    LET half == d.head_dim \div 2
        in == HeadIn(d, g[2])
        out == HeadOut(d, g[2])
    IN <<[t \in ThreadsOf((GROUP \div 4)) |->
            LET i == g[1] * (GROUP \div 4) + t IN
            IF i >= half THEN {}
            ELSE RotatedPair(in[i], in[i + half], <<"cos", i>>, <<"sin", i>>, out[i], out[i + half])]>>
cuda_fused_qk_rope(d, g) == fused_qk_rope(d, g)
launch_fused_qk_rope(d) ==
    Launched(Groups(div_ceil(d.head_dim \div 2, (GROUP \div 4)), d.nq + d.nkv), LAMBDA g : cuda_fused_qk_rope(d, g),
             EachHead(d, LAMBDA h : roped(d, HeadIn(d, h))))

\* The norm goes through registers into the rotation.
fused_qk_norm_rope(d, g) ==
    LET half == d.head_dim \div 2
        in == HeadIn(d, g[1])
        w == HeadWeight(d, g[1])
        out == HeadOut(d, g[1])
        normed(t, i) == Put(OwnAt(t, "normed", i), "norm", <<in[i], Own(t, "rms"), w[i]>>)
        own(Instr(_, _)) ==
            [t \in ThreadsOf(GROUP) |-> EachOf(Strided(t, half, GROUP), LAMBDA i : Instr(t, i))]
    IN Reduce(GROUP, d.head_dim, "+", LAMBDA i : <<"*", <<in[i], in[i]>>>>)
       \o RootOf(GROUP, Shared(0), in, d.head_dim)
       \o <<own(LAMBDA t, i : {normed(t, i), normed(t, i + half)}),
             own(LAMBDA t, i : RotatedPair(OwnAt(t, "normed", i), OwnAt(t, "normed", i + half), <<"cos", i>>, <<"sin", i>>,
                                           out[i], out[i + half]))>>
cuda_fused_qk_norm_rope(d, g) == fused_qk_norm_rope(d, g)
dispatch_fused_qk_norm_rope(d) ==
    Launched(Groups(d.nq + d.nkv, 1), LAMBDA g : fused_qk_norm_rope(d, g),
             EachHead(d, LAMBDA h : roped(d, normed_head(d, h))))
launch_fused_qk_norm_rope(d) ==
    Launched(Groups(d.nq + d.nkv, 1), LAMBDA g : cuda_fused_qk_norm_rope(d, g),
             EachHead(d, LAMBDA h : roped(d, normed_head(d, h))))

\* The position of a layer, a head and a token in the cache.
CacheCell(d, name, head, pos, i) ==
    <<name, d.layer_offset + (head * d.max_seq + pos) * d.head_dim + i>>
fused_kv_store(d, g) ==
    <<[t \in ThreadsOf((GROUP \div 4)) |->
        LET i == g[1] * (GROUP \div 4) + t
            head == g[2]
        IN IF i >= d.head_dim \/ head >= d.nkv THEN {}
           ELSE {Put(CacheCell(d, "k_cache", head, d.pos, i), "half", <<<<"k", head * d.head_dim + i>>>>),
                 Put(CacheCell(d, "v_cache", head, d.pos, i), "half", <<<<"v", head * d.head_dim + i>>>>)}]>>
cuda_fused_kv_store(d, g) == fused_kv_store(d, g)
StoredHeads(d) ==
    AsMemory(UNION {UNION {{<<CacheCell(d, "k_cache", h, d.pos, i), <<"half", <<<<"k", h * d.head_dim + i>>>>>>>>,
                            <<CacheCell(d, "v_cache", h, d.pos, i), <<"half", <<<<"v", h * d.head_dim + i>>>>>>>>}
                           : i \in 0 .. d.head_dim - 1} : h \in 0 .. d.nkv - 1})
dispatch_fused_kv_store(d) ==
    Launched(Groups(div_ceil(d.head_dim, (GROUP \div 4)), d.nkv), LAMBDA g : fused_kv_store(d, g), StoredHeads(d))
launch_fused_kv_store(d) ==
    Launched(Groups(div_ceil(d.head_dim, (GROUP \div 4)), d.nkv), LAMBDA g : cuda_fused_kv_store(d, g), StoredHeads(d))

\* The products of one query with the keys of the tokens, a group to a token
\* or to a run of tokens.
ScoreCell(d, q_head, pos) == <<"scores", q_head * d.max_seq + pos>>
KeyOf(d, q_head, pos, i) == CacheCell(d, "k_cache", q_head \div d.heads_per_group, pos, i)
QueryTimesKey(d, q_head, pos, i) == <<"*", <<<<"q", q_head * d.head_dim + i>>, KeyOf(d, q_head, pos, i)>>>>
ScoreOf(d, q_head, pos) ==
    <<"scaled", <<Over("+", {QueryTimesKey(d, q_head, pos, i) : i \in 0 .. d.head_dim - 1})>>>>
Scores(d) ==
    AsMemory({<<ScoreCell(d, h, pos), ScoreOf(d, h, pos)>> : h \in 0 .. d.nq - 1, pos \in 0 .. d.seq_len - 1})

batched_attention_scores(d, g) ==
    IF g[1] >= d.nq \/ g[2] >= d.seq_len THEN <<>>
    ELSE Reduce((GROUP \div 2), d.head_dim, "+", LAMBDA i : QueryTimesKey(d, g[1], g[2], i))
         \o <<[t \in {0} |-> {Load(Own(0, "sum"), Shared(0))}],
               [t \in {0} |-> {Put(ScoreCell(d, g[1], g[2]), "scaled", <<Own(0, "sum")>>)}]>>
dispatch_attention_scores(d) ==
    Launched(Groups(d.nq, d.seq_len), LAMBDA g : batched_attention_scores(d, g), Scores(d))

\* simd_sum: every lane of a warp of WARP has the sum.
SimdSum(threads, name, to) ==
    <<[t \in ThreadsOf(threads) |->
        {Add(Own(t, to), [l \in 1 .. WARP |-> Same(Own((t \div WARP) * WARP + l - 1, name))])}]>>
SharedQuery(i) == SharedAt("q", i)
QueryShared(d, q_head) ==
    <<[t \in ThreadsOf((GROUP \div 2)) |-> IF t < d.head_dim THEN {Load(SharedQuery(t), <<"q", q_head * d.head_dim + t>>)} ELSE {}],
      Barrier>>
\* Four warps; a thread beyond the head has nothing to add.
ScoreOfToken(d, q_head, pos, Summed(_), sum) ==
    <<[t \in ThreadsOf((GROUP \div 2)) |->
        {Add(Own(t, "my_prod"),
             IF t < d.head_dim THEN <<<<"*", <<SharedQuery(t), KeyOf(d, q_head, pos, t)>>>>>> ELSE <<>>)}]>>
    \o Summed("my_prod") \o <<FirstLanes((GROUP \div 2), sum), Barrier>>
    \o <<[t \in {0} |-> {Add(Own(0, "total"), [w \in 1 .. 4 |-> Same(Shared(w - 1))])}],
          [t \in {0} |-> {Put(ScoreCell(d, q_head, pos), "scaled", <<Own(0, "total")>>)}], Barrier>>
TokensOf(d, batch_id, stride) ==
    SetToSortSeq({pos \in batch_id * stride .. batch_id * stride + stride - 1 : pos < d.seq_len},
                 LAMBDA a, b : a < b)
batched_attention_scores_v2(d, g, stride) ==
    LET tokens == TokensOf(d, g[2], stride) IN
    IF g[1] >= d.nq THEN <<>>
    ELSE QueryShared(d, g[1])
         \o FlattenSeq([k \in DOMAIN tokens |->
                ScoreOfToken(d, g[1], tokens[k], LAMBDA name : SimdSum((GROUP \div 2), name, "sg_sum"), "sg_sum")])
dispatch_attention_scores_v2(d) ==
    LET batch_stride == 16 IN
    Launched(Groups(d.nq, div_ceil(d.seq_len, batch_stride)),
             LAMBDA g : batched_attention_scores_v2(d, g, batch_stride), Scores(d))
batched_attn_scores_v2(d, g, stride) ==
    LET tokens == TokensOf(d, g[2], stride) IN
    IF g[1] >= d.nq THEN <<>>
    ELSE QueryShared(d, g[1])
         \o FlattenSeq([k \in DOMAIN tokens |->
                ScoreOfToken(d, g[1], tokens[k], LAMBDA name : Shuffles((GROUP \div 2), name), "my_prod")])
\* The grid is that of a full cache: it is recorded once, for every length.
launch_batched_attn_scores_v2(d) ==
    LET BATCH_STRIDE == 4 IN
    Launched(Groups(d.nq, div_ceil(d.max_seq, BATCH_STRIDE)),
             LAMBDA g : batched_attn_scores_v2(d, g, BATCH_STRIDE), Scores(d))

\* In place: the greatest, then the exponentials and their sum, then the
\* quotients.  The shared cells are used again after a barrier.
batched_softmax(d, g) ==
    LET scores == Row("scores", g[1] * d.max_seq, d.seq_len)
        each(Instr(_, _)) ==
            [t \in ThreadsOf(GROUP) |-> EachOf(Strided(t, d.seq_len, GROUP), LAMBDA i : Instr(t, i))]
        every(Instr(_)) == [t \in ThreadsOf(GROUP) |-> {Instr(t)}]
        terms(i) == <<"exp-", <<scores[i], <<"max">>>>>>
    IN IF g[1] >= d.nq THEN <<>>
       ELSE Reduce(GROUP, d.seq_len, "max", LAMBDA i : Same(scores[i]))
            \o <<every(LAMBDA t : Settle(Own(t, "gmax"), Shared(0), "max", Over("max", Range(scores)))), Barrier,
                  each(LAMBDA t, i : {Put(OwnAt(t, "e", i), "exp-", <<scores[i], Own(t, "gmax")>>)}),
                  each(LAMBDA t, i : {Load(scores[i], OwnAt(t, "e", i))}),
                  [t \in ThreadsOf(GROUP) |->
                      {Add(Shared(t), LET s == Strided(t, d.seq_len, GROUP) IN
                                      [k \in DOMAIN s |-> Same(OwnAt(t, "e", s[k]))])}], Barrier>>
            \o Tree(GROUP, "+")
            \o <<every(LAMBDA t : Settle(Own(t, "gsum"), Shared(0), "sum", Exps(scores, d.seq_len))), Barrier,
                  each(LAMBDA t, i : {Put(scores[i], "/", <<scores[i], Own(t, "gsum")>>)})>>
cuda_batched_softmax(d, g) == batched_softmax(d, g)
SoftmaxRows(d) ==
    AsMemory(UNION {{<<ScoreCell(d, h, i), softmax_of(Row("scores", h * d.max_seq, d.seq_len), d.seq_len)[i]>>
                     : i \in 0 .. d.seq_len - 1} : h \in 0 .. d.nq - 1})
dispatch_batched_softmax(d) ==
    Launched(Groups(d.nq, 1), LAMBDA g : batched_softmax(d, g), SoftmaxRows(d))
launch_batched_softmax(d) ==
    Launched(Groups(d.nq, 1), LAMBDA g : cuda_batched_softmax(d, g), SoftmaxRows(d))

WeightTimesValue(d, q_head, pos, i) ==
    <<"*", <<ScoreCell(d, q_head, pos), CacheCell(d, "v_cache", q_head \div d.heads_per_group, pos, i)>>>>
batched_attention_weighted_sum(d, g) ==
    <<[t \in ThreadsOf((GROUP \div 4)) |->
        LET i == g[1] * (GROUP \div 4) + t
            q_head == g[2]
        IN IF i >= d.head_dim \/ q_head >= d.nq THEN {}
           ELSE {Add(<<"attn_out", q_head * d.head_dim + i>>,
                     [pos \in 1 .. d.seq_len |-> WeightTimesValue(d, q_head, pos - 1, i)])}]>>
batched_attn_weighted_sum(d, g) == batched_attention_weighted_sum(d, g)
AttentionOut(d) ==
    AsMemory({<<<<"attn_out", h * d.head_dim + i>>,
                Over("+", {WeightTimesValue(d, h, pos, i) : pos \in 0 .. d.seq_len - 1})>>
              : h \in 0 .. d.nq - 1, i \in 0 .. d.head_dim - 1})
dispatch_attention_weighted_sum(d) ==
    Launched(Groups(div_ceil(d.head_dim, (GROUP \div 4)), d.nq), LAMBDA g : batched_attention_weighted_sum(d, g),
             AttentionOut(d))
launch_batched_attn_weighted_sum(d) ==
    Launched(Groups(div_ceil(d.head_dim, (GROUP \div 4)), d.nq), LAMBDA g : batched_attn_weighted_sum(d, g),
             AttentionOut(d))

-----------------------------------------------------------------------------
(* The decoder of images.                                                    *)
\* (mutant) A row of padding too few.
TapBelow(d, out_idx, j) ==
    LET kc == d.k * d.c_in
        ih_p == out_idx \div d.w_out + j \div kc
        iw_p == (out_idx % d.w_out) + (j % kc) \div d.c_in
        ci == (j % kc) % d.c_in
    IN IF ih_p >= d.pad /\ ih_p <= d.h + d.pad /\ iw_p >= d.pad /\ iw_p < d.w + d.pad
       THEN <<"input", ci * d.h * d.w + (ih_p - d.pad) * d.w + iw_p - d.pad>>
       ELSE ZeroRead
\* A row of patches for a place of the output, from tile to tile: taps in the
\* order rows, columns, channels; what lies in the padding is zero.
Tap(d, out_idx, j) ==
    LET kc == d.k * d.c_in
        ih_p == out_idx \div d.w_out + j \div kc
        iw_p == (out_idx % d.w_out) + (j % kc) \div d.c_in
        ci == (j % kc) % d.c_in
    IN IF ih_p >= d.pad /\ ih_p < d.h + d.pad /\ iw_p >= d.pad /\ iw_p < d.w + d.pad
       THEN <<"input", ci * d.h * d.w + (ih_p - d.pad) * d.w + iw_p - d.pad>>
       ELSE ZeroRead
im2col_f32(d, g, row_start, n_elems) ==
    LET patch_dim == d.k * d.k * d.c_in IN
    EachElement(GROUP, g, n_elems, LAMBDA i :
        {Load(<<"patches", i>>, Tap(d, row_start + i \div patch_dim, i % patch_dim))})
cuda_im2col_f32(d, g, row_start, n_elems) == im2col_f32(d, g, row_start, n_elems)

\* The sum over the taps, written with places of input and weight as they are.
Pixel(d, ci, ih, iw) ==
    IF ih \in 0 .. d.h - 1 /\ iw \in 0 .. d.w - 1 THEN <<"input", (ci * d.h + ih) * d.w + iw>>
    ELSE ZeroRead
WeightOf(d, oc, kh, kw, ci) == <<"weight", ((oc * d.k + kh) * d.k + kw) * d.c_in + ci>>
ConvolvedAt(d, oc, oh, ow) ==
    LET term(kh, kw, ci) ==
            <<"*", <<WeightOf(d, oc, kh, kw, ci), Pixel(d, ci, oh + kh - d.pad, ow + kw - d.pad)>>>>
    IN <<"+bias", <<Over("+", {term(kh, kw, ci) : kh \in 0 .. d.k - 1, kw \in 0 .. d.k - 1, ci \in 0 .. d.c_in - 1}),
                    <<"bias", oc>>>>>>
Convolved(d) ==
    AsMemory({<<<<"output", (oc * d.h_out + oh) * d.w_out + ow>>, ConvolvedAt(d, oc, oh, ow)>>
              : oc \in 0 .. d.c_out - 1, oh \in 0 .. d.h_out - 1, ow \in 0 .. d.w_out - 1})

\* The product of the patches and the weights (see GpuKernels), and the host,
\* which takes a tile of it to its channels.
ProductOf(name, rows, c_out, k, from) ==
    Grid(Groups(1, 1), LAMBDA g :
        <<[t \in ThreadsOf(rows * c_out) |->
            {Add(<<name, t>>, [j \in 1 .. k |->
                <<"*", <<<<"weight", (t % c_out) * k + j - 1>>, <<from, (t \div c_out) * k + j - 1>>>>>>])}]>>)
HostGathers(name, rows, c_out, spatial, row_start) ==
    Grid(Groups(1, 1), LAMBDA g :
        <<[t \in {0} |->
            {Put(<<"output", oc * spatial + row_start + r>>, "+bias", <<<<name, r * c_out + oc>>, <<"bias", oc>>>>)
             : r \in 0 .. rows - 1, oc \in 0 .. c_out - 1}]>>)
\* (mutant) The last tile as full as the others.
TilesFull(spatial, tile_rows) ==
    [k \in 1 .. div_ceil(spatial, tile_rows) |-> [start |-> (k - 1) * tile_rows, rows |-> tile_rows]]
Tiles(spatial, tile_rows) ==
    [k \in 1 .. div_ceil(spatial, tile_rows) |->
        [start |-> (k - 1) * tile_rows, rows |-> LET left == spatial - (k - 1) * tile_rows IN
                                                 IF left < tile_rows THEN left ELSE tile_rows]]
Im2colSteps(d, Kernel(_, _, _, _)) ==
    LET spatial == d.h_out * d.w_out
        patch_dim == d.k * d.k * d.c_in
        fits == IM2COL_TILE_CAP_BYTES \div (4 * patch_dim)
        atLeastOne == IF fits < 1 THEN 1 ELSE fits
        tile_rows == IF atLeastOne < spatial THEN atLeastOne ELSE spatial
        tiles == Tiles(spatial, tile_rows)
        tile(t) ==
            <<Grid(Groups(div_ceil(t.rows * patch_dim, GROUP), 1),
                   LAMBDA g : Kernel(d, g, t.start, t.rows * patch_dim)),
              ProductOf("out_tile", t.rows, d.c_out, patch_dim, "patches"),
              HostGathers("out_tile", t.rows, d.c_out, spatial, t.start)>>
    IN FlattenSeq([k \in DOMAIN tiles |-> tile(tiles[k])])
encode_conv2d_f32_im2col(d) == Program(Im2colSteps(d, im2col_f32), Convolved(d))
cuda_encode_conv2d_f32_im2col(d) == Program(Im2colSteps(d, cuda_im2col_f32), Convolved(d))
\* A kernel of one tap needs no patches: the host turns the channels.
PointwiseSteps(d) ==
    LET hw == d.h * d.w IN
    <<Grid(Groups(1, 1), LAMBDA g :
           <<[t \in {0} |-> {Load(<<"reshaped", p * d.c_in + ci>>, <<"input", ci * hw + p>>)
                              : p \in 0 .. hw - 1, ci \in 0 .. d.c_in - 1}]>>),
      ProductOf("out_spatial", hw, d.c_out, d.c_in, "reshaped"),
      HostGathers("out_spatial", hw, d.c_out, hw, 0)>>
ConvolutionFits(d, lens) ==
    /\ d.k # 0
    /\ lens.input = d.c_in * d.h * d.w /\ lens.bias = d.c_out
    /\ d.h + 2 * d.pad + 1 >= d.k /\ d.w + 2 * d.pad + 1 >= d.k
    /\ lens.output = d.c_out * (d.h + 2 * d.pad + 1 - d.k) * (d.w + 2 * d.pad + 1 - d.k)
WithOutput(d) == [h_out |-> d.h + 2 * d.pad + 1 - d.k, w_out |-> d.w + 2 * d.pad + 1 - d.k] @@ d
\* On CUDA nobody looks at the length of a one-tap weight.
cuda_encode_conv2d_f32(d) ==
    Encoded(ConvolutionFits(d, d.lens), d.lens.input = 0 \/ d.lens.output = 0,
            IF d.k = 1 /\ d.pad = 0 THEN Program(PointwiseSteps(d), Convolved(WithOutput(d)))
            ELSE IF d.lens.weight < d.c_out * d.k * d.k * d.c_in THEN Refusal
            ELSE cuda_encode_conv2d_f32_im2col(WithOutput(d)))
\* Metal has a kernel that forms the patches as it goes; where that fails, or is
\* off, the patches are made.
encode_conv2d_f32(d) ==
    Encoded(ConvolutionFits(d, d.lens), d.lens.input = 0 \/ d.lens.output = 0,
            IF d.lens.weight < d.c_out * d.k * d.k * d.c_in THEN Refusal
            ELSE IF d.k = 1 /\ d.pad = 0 THEN Program(PointwiseSteps(d), Convolved(WithOutput(d)))
            ELSE encode_conv2d_f32_im2col(WithOutput(d)))

\* Mean, deviations and quotients of a group of cells, in place.
Mean(x, n) == Over("+", {x[i] : i \in 0 .. n - 1})
Deviations(x, n) == Over("+", {<<"(x-m)2", <<x[i], <<"mean">>>>>> : i \in 0 .. n - 1})
\* What the tree leaves in cell 0 is taken by every thread, or by thread 0 which
\* leaves it in a cell of its own for the others.
MeanThenDeviations(threads, x, n, Taken(_, _, _)) ==
    Reduce(threads, n, "+", LAMBDA i : Same(x[i]))
    \o Taken("mean", "mean", Mean(x, n))
    \o <<[t \in ThreadsOf(threads) |->
            {Add(Own(t, "v"), LET s == Strided(t, n, threads) IN
                              [k \in DOMAIN s |-> <<"(x-m)2", <<x[s[k]], Own(t, "mean")>>>>])}],
          [t \in ThreadsOf(threads) |-> {Load(Shared(t), Own(t, "v"))}], Barrier>>
    \o Tree(threads, "+")
    \o Taken("inv_std", "deviation", Deviations(x, n))
TakenByAll(threads, register, name, whole) ==
    <<[t \in ThreadsOf(threads) |-> {Settle(Own(t, register), Shared(0), name, whole)}]>>
    \o (IF register = "mean" THEN <<Barrier>> ELSE <<>>)
TakenByFirst(threads, register, name, whole) ==
    <<[t \in {0} |-> {Settle(SharedAt(register, 0), Shared(0), name, whole)}], Barrier,
      [t \in ThreadsOf(threads) |-> {Load(Own(t, register), SharedAt(register, 0))}]>>
Normalised(threads, x, n, Weights(_)) ==
    <<[t \in ThreadsOf(threads) |->
        EachOf(Strided(t, n, threads), LAMBDA i :
            {Put(x[i], "(x-m)/s", <<x[i], Own(t, "mean"), Own(t, "inv_std")>> \o Weights(i))})]>>

groupnorm_f32(d, g) ==
    LET gs == d.channels \div d.num_groups
        n == gs * d.hw
        x == Row("x", g[1] * gs * d.hw, n)
    IN IF g[1] >= d.num_groups THEN <<>>
       ELSE MeanThenDeviations(GROUP, x, n, LAMBDA r, name, whole : TakenByFirst(GROUP, r, name, whole))
            \o Normalised(GROUP, x, n, LAMBDA i : <<<<"weight", g[1] * gs + i \div d.hw>>, <<"bias", g[1] * gs + i \div d.hw>>>>)
cuda_groupnorm_f32(d, g) == groupnorm_f32(d, g)
group_norm(d) ==
    [c \in {<<"x", i>> : i \in 0 .. d.channels * d.hw - 1} |->
        <<"(x-m)/s", <<c, <<"mean">>, <<"deviation">>, <<"weight", c[2] \div d.hw>>, <<"bias", c[2] \div d.hw>>>>>>]
GroupnormFits(d) ==
    /\ d.num_groups # 0 /\ d.channels % d.num_groups = 0
    /\ d.lens.x = d.channels * d.hw
    /\ d.lens.weight = d.channels /\ d.lens.bias = d.channels
encode_groupnorm_f32(d) ==
    Encoded(GroupnormFits(d), d.lens.x = 0,
            Launched(Groups(d.num_groups, 1), LAMBDA g : groupnorm_f32(d, g), group_norm(d)))
cuda_encode_groupnorm_f32(d) ==
    Encoded(GroupnormFits(d), d.lens.x = 0,
            Launched(Groups(d.num_groups, 1), LAMBDA g : cuda_groupnorm_f32(d, g), group_norm(d)))

silu_f32(d, g) == EachElement(GROUP, g, d.n, LAMBDA i : {Put(<<"x", i>>, "silu", <<<<"x", i>>>>)})
cuda_silu_f32(d, g) == silu_f32(d, g)
encode_silu_f32(d) ==
    Encoded(TRUE, d.n = 0, Launched(Groups(div_ceil(d.n, GROUP), 1), LAMBDA g : silu_f32(d, g),
                                    Outs("x", d.n, LAMBDA i : <<"silu", <<<<"x", i>>>>>>)))
cuda_encode_silu_f32(d) ==
    Encoded(TRUE, d.n = 0, Launched(Groups(div_ceil(d.n, GROUP), 1), LAMBDA g : cuda_silu_f32(d, g),
                                    Outs("x", d.n, LAMBDA i : <<"silu", <<<<"x", i>>>>>>)))

upsample_nearest_f32(d, g) ==
    LET w_out == 2 * d.w
        hw_out == 2 * d.h * w_out
    IN EachElement(GROUP, g, d.c * hw_out, LAMBDA i :
           {Load(<<"output", i>>, <<"input", (i \div hw_out) * d.h * d.w + (((i % hw_out) \div w_out) \div 2) * d.w
                                            + (((i % hw_out) % w_out) \div 2)>>)})
cuda_upsample_nearest_f32(d, g) == upsample_nearest_f32(d, g)
\* Each pixel to four.
upsample_nearest2x(d) ==
    AsMemory({<<<<"output", (ch * 2 * d.h + y) * 2 * d.w + x>>, <<"input", (ch * d.h + y \div 2) * d.w + x \div 2>>>>
              : ch \in 0 .. d.c - 1, y \in 0 .. 2 * d.h - 1, x \in 0 .. 2 * d.w - 1})
UpsampleFits(d) == d.lens.input = d.c * d.h * d.w /\ d.lens.output = 4 * d.lens.input
encode_upsample_nearest_f32(d) ==
    Encoded(UpsampleFits(d), d.lens.input = 0,
            Launched(Groups(div_ceil(d.lens.output, GROUP), 1), LAMBDA g : upsample_nearest_f32(d, g), upsample_nearest2x(d)))
cuda_encode_upsample_nearest_f32(d) ==
    Encoded(UpsampleFits(d), d.lens.input = 0,
            Launched(Groups(div_ceil(d.lens.output, GROUP), 1), LAMBDA g : cuda_upsample_nearest_f32(d, g), upsample_nearest2x(d)))

-----------------------------------------------------------------------------
(* The glue of the image transformer: so many groups at most, which go over  *)
(* the elements with the stride of the grid.                                 *)
elementwise_grid(n) ==
    LET blocks == div_ceil(n, GROUP) IN
    IF blocks < 1 THEN 1 ELSE IF blocks > DIT_GLUE_MAX_GRID THEN DIT_GLUE_MAX_GRID ELSE blocks
GridStride(g, total, Instr(_)) ==
    <<[t \in ThreadsOf(GROUP) |-> EachOf(Strided(g[1] * GROUP + t, total, elementwise_grid(total) * GROUP), Instr)]>>
OverAll(total, Kernel(_), expected) == Launched(Groups(elementwise_grid(total), 1), Kernel, expected)

modulate_f32(d, g) ==
    GridStride(g, d.rows * d.dim, LAMBDA i :
        {Put(<<"x", i>>, "(1+s)x+t", <<<<"scale", i % d.dim>>, <<"x", i>>, <<"shift", i % d.dim>>>>)})
encode_dit_modulate(d) ==
    Encoded(d.lens.x = d.rows * d.dim /\ d.lens.shift = d.dim /\ d.lens.scale = d.dim, d.rows * d.dim = 0,
            OverAll(d.rows * d.dim, LAMBDA g : modulate_f32(d, g),
                    AsMemory({<<<<"x", r * d.dim + i>>,
                                <<"(1+s)x+t", <<<<"scale", i>>, <<"x", r * d.dim + i>>, <<"shift", i>>>>>>>>
                              : r \in 0 .. d.rows - 1, i \in 0 .. d.dim - 1})))

gated_residual_add_f32(d, g) ==
    GridStride(g, d.rows * d.dim, LAMBDA i :
        {Put(<<"h", i>>, "h+gd", <<<<"h", i>>, <<"gate", i % d.dim>>, <<"delta", i>>>>)})
encode_dit_gated_residual_add(d) ==
    Encoded(d.lens.h = d.rows * d.dim /\ d.lens.delta = d.rows * d.dim /\ d.lens.gate = d.dim, d.rows * d.dim = 0,
            OverAll(d.rows * d.dim, LAMBDA g : gated_residual_add_f32(d, g),
                    AsMemory({<<<<"h", r * d.dim + i>>,
                                <<"h+gd", <<<<"h", r * d.dim + i>>, <<"gate", i>>, <<"delta", r * d.dim + i>>>>>>>>
                              : r \in 0 .. d.rows - 1, i \in 0 .. d.dim - 1})))

AtLeastOne(n) == IF n < 1 THEN 1 ELSE n
layer_norm_f32(d, g) ==
    LET x == Row("x", g[1] * d.dim, d.dim) IN
    IF g[1] >= d.rows THEN <<>>
    ELSE MeanThenDeviations(GROUP, x, d.dim, LAMBDA r, name, whole : TakenByAll(GROUP, r, name, whole))
         \o Normalised(GROUP, x, d.dim, LAMBDA i : <<>>)
encode_dit_layer_norm(d) ==
    Encoded(d.lens.x = d.rows * d.dim, d.rows * d.dim = 0,
            Launched(Groups(AtLeastOne(d.rows), 1), LAMBDA g : layer_norm_f32(d, g),
                     [c \in {<<"x", i>> : i \in 0 .. d.rows * d.dim - 1} |->
                         <<"(x-m)/s", <<c, <<"mean">>, <<"deviation">>>>>>]))

rms_norm_heads_f32(d, g) ==
    LET x == Row("x", g[1] * d.dim, d.dim) IN
    IF g[1] >= d.rows THEN <<>> ELSE TreeNorm((GROUP \div 2), d.dim, x, Row("weight", 0, d.dim), x)
encode_dit_rms_norm_heads(d) ==
    Encoded(d.lens.x = d.rows * d.dim /\ d.lens.weight = d.dim, d.rows * d.dim = 0,
            Launched(Groups(AtLeastOne(d.rows), 1), LAMBDA g : rms_norm_heads_f32(d, g),
                     NormedRows("x", "x", "weight", d.rows, d.dim)))

\* The gate and the up of a row beside each other.
swiglu_f32(d, g) ==
    GridStride(g, d.rows * d.half, LAMBDA i :
        LET base == (i \div d.half) * 2 * d.half + (i % d.half) IN
        {Put(<<"out", i>>, "silu*", <<<<"x", base>>, <<"x", base + d.half>>>>)})
encode_dit_swiglu(d) ==
    Encoded(d.lens.x = 2 * d.rows * d.half /\ d.lens.out = d.rows * d.half, d.rows * d.half = 0,
            OverAll(d.rows * d.half, LAMBDA g : swiglu_f32(d, g),
                    AsMemory({<<<<"out", r * d.half + i>>,
                                <<"silu*", <<<<"x", 2 * r * d.half + i>>, <<"x", (2 * r + 1) * d.half + i>>>>>>>>
                              : r \in 0 .. d.rows - 1, i \in 0 .. d.half - 1})))

\* Neighbours are rotated against each other, by the angle of their token.
rope_interleaved_f32(d, g) ==
    LET half == d.head_dim \div 2 IN
    GridStride(g, d.num_heads * d.seq * half, LAMBDA n :
        LET i == n % half
            t == (n \div half) % d.seq
            h == (n \div half) \div d.seq
            base == (h * d.seq + t) * d.head_dim
        IN RotatedPair(<<"x", base + 2 * i>>, <<"x", base + 2 * i + 1>>, <<"cos", t * half + i>>,
                       <<"sin", t * half + i>>, <<"x", base + 2 * i>>, <<"x", base + 2 * i + 1>>))
apply_rope(d) ==
    LET half == d.head_dim \div 2
        angle(name, row, i) == <<name, (row % d.seq) * half + i>>
        pair(row, i) ==
            LET re == <<"x", row * d.head_dim + 2 * i>>
                im == <<"x", row * d.head_dim + 2 * i + 1>>
                terms == <<re, im, angle("cos", row, i), angle("sin", row, i)>>
            IN {<<re, <<"xc-ys", terms>>>>, <<im, <<"xs+yc", terms>>>>}
    IN AsMemory(UNION {pair(row, i) : row \in 0 .. d.num_heads * d.seq - 1, i \in 0 .. half - 1})
encode_dit_rope(d) ==
    LET half == d.head_dim \div 2
        pairs == d.num_heads * d.seq * half
    IN Encoded(/\ d.head_dim % 2 = 0
               /\ d.lens.x = d.num_heads * d.seq * d.head_dim
               /\ d.lens.cos = d.seq * half /\ d.lens.sin = d.seq * half,
               d.lens.x = 0,
               OverAll(pairs, LAMBDA g : rope_interleaved_f32(d, g), apply_rope(d)))

tokens_to_heads_f32(d, g) ==
    GridStride(g, d.num_heads * d.seq * d.head_dim, LAMBDA n :
        LET i == n % d.head_dim
            t == (n \div d.head_dim) % d.seq
            h == (n \div d.head_dim) \div d.seq
        IN {Load(<<"dst", n>>, <<"src", t * d.src_stride + d.src_off + h * d.head_dim + i>>)})
encode_dit_tokens_to_heads(d) ==
    LET total == d.num_heads * d.seq * d.head_dim
        need == IF d.seq = 0 THEN 0 ELSE (d.seq - 1) * d.src_stride + d.src_off + d.num_heads * d.head_dim
    IN Encoded(d.lens.dst = total /\ d.lens.src >= need, total = 0,
               OverAll(total, LAMBDA g : tokens_to_heads_f32(d, g),
                       AsMemory({<<<<"dst", (h * d.seq + t) * d.head_dim + i>>,
                                   <<"src", t * d.src_stride + d.src_off + h * d.head_dim + i>>>>
                                 : h \in 0 .. d.num_heads - 1, t \in 0 .. d.seq - 1, i \in 0 .. d.head_dim - 1})))

strided_row_copy_f32(d, g) ==
    GridStride(g, d.rows * d.cols, LAMBDA n :
        {Load(<<"dst", (n \div d.cols) * d.dst_stride + d.dst_off + (n % d.cols)>>,
              <<"src", (n \div d.cols) * d.src_stride + d.src_off + (n % d.cols)>>)})
encode_dit_strided_row_copy(d) ==
    IF d.rows = 0 \/ d.cols = 0 THEN Nothing
    ELSE Encoded(/\ d.lens.dst >= (d.rows - 1) * d.dst_stride + d.dst_off + d.cols
                 /\ d.lens.src >= (d.rows - 1) * d.src_stride + d.src_off + d.cols,
                 FALSE,
                 OverAll(d.rows * d.cols, LAMBDA g : strided_row_copy_f32(d, g),
                         AsMemory({<<<<"dst", r * d.dst_stride + d.dst_off + j>>,
                                     <<"src", r * d.src_stride + d.src_off + j>>>>
                                   : r \in 0 .. d.rows - 1, j \in 0 .. d.cols - 1})))

-----------------------------------------------------------------------------
(* A launch runs its groups in any order; the next one follows when all have *)
(* run.                                                                      *)
Steps(w) ==
    CASE w.kernel = "relu" -> dispatch_relu(w)
      [] w.kernel = "silu" -> dispatch_silu(w)
      [] w.kernel = "swiglu" -> dispatch_swiglu(w)
      [] w.kernel = "residual_add" -> dispatch_residual_add(w)
      [] w.kernel = "swiglu_fused" -> dispatch_swiglu_fused(w)
      [] w.kernel = "batched_swiglu" -> dispatch_batched_swiglu(w)
      [] w.kernel = "cuda_batched_swiglu" -> launch_batched_swiglu(w)
      [] w.kernel = "matvec_f32" -> dispatch_matvec(w)
      [] w.kernel = "softmax" -> dispatch_softmax(w)
      [] w.kernel = "rmsnorm" -> dispatch_rmsnorm_scalar(w)
      [] w.kernel = "rmsnorm_weighted_v2" -> dispatch_rmsnorm(w)
      [] w.kernel = "cuda_rmsnorm_weighted_v2" -> launch_rmsnorm(w)
      [] w.kernel = "batched_rmsnorm_v2" -> dispatch_batched_rmsnorm(w)
      [] w.kernel = "cuda_batched_rmsnorm_v2" -> launch_batched_rmsnorm(w)
      [] w.kernel = "argmax" -> dispatch_argmax(w)
      [] w.kernel = "argmax_f32" -> launch_argmax(w)
      [] w.kernel = "fused_qk_norm" -> dispatch_fused_qk_norm(w)
      [] w.kernel = "cuda_fused_qk_norm" -> launch_fused_qk_norm(w)
      [] w.kernel = "cuda_fused_qk_rope" -> launch_fused_qk_rope(w)
      [] w.kernel = "fused_qk_norm_rope" -> dispatch_fused_qk_norm_rope(w)
      [] w.kernel = "cuda_fused_qk_norm_rope" -> launch_fused_qk_norm_rope(w)
      [] w.kernel = "fused_kv_store" -> dispatch_fused_kv_store(w)
      [] w.kernel = "cuda_fused_kv_store" -> launch_fused_kv_store(w)
      [] w.kernel = "batched_attention_scores" -> dispatch_attention_scores(w)
      [] w.kernel = "batched_attention_scores_v2" -> dispatch_attention_scores_v2(w)
      [] w.kernel = "batched_attn_scores_v2" -> launch_batched_attn_scores_v2(w)
      [] w.kernel = "batched_softmax" -> dispatch_batched_softmax(w)
      [] w.kernel = "cuda_batched_softmax" -> launch_batched_softmax(w)
      [] w.kernel = "batched_attention_weighted_sum" -> dispatch_attention_weighted_sum(w)
      [] w.kernel = "batched_attn_weighted_sum" -> launch_batched_attn_weighted_sum(w)
      [] w.kernel = "conv2d" -> encode_conv2d_f32(w)
      [] w.kernel = "cuda_conv2d" -> cuda_encode_conv2d_f32(w)
      [] w.kernel = "groupnorm" -> encode_groupnorm_f32(w)
      [] w.kernel = "cuda_groupnorm" -> cuda_encode_groupnorm_f32(w)
      [] w.kernel = "silu_f32" -> encode_silu_f32(w)
      [] w.kernel = "cuda_silu_f32" -> cuda_encode_silu_f32(w)
      [] w.kernel = "upsample" -> encode_upsample_nearest_f32(w)
      [] w.kernel = "cuda_upsample" -> cuda_encode_upsample_nearest_f32(w)
      [] w.kernel = "modulate" -> encode_dit_modulate(w)
      [] w.kernel = "gated_residual_add" -> encode_dit_gated_residual_add(w)
      [] w.kernel = "layer_norm" -> encode_dit_layer_norm(w)
      [] w.kernel = "rms_norm_heads" -> encode_dit_rms_norm_heads(w)
      [] w.kernel = "dit_swiglu" -> encode_dit_swiglu(w)
      [] w.kernel = "rope_interleaved" -> encode_dit_rope(w)
      [] w.kernel = "tokens_to_heads" -> encode_dit_tokens_to_heads(w)
      [] w.kernel = "strided_row_copy" -> encode_dit_strided_row_copy(w)

NotTouched == [reads |-> {}, writes |-> {}]
ElementInit ==
    /\ work \in Works
    /\ at = 1 /\ ran = {} /\ memory = <<>> /\ touched = NotTouched
    /\ raced = FALSE /\ strayed = FALSE

Outside(c) == "lens" \in DOMAIN work /\ c[1] \in DOMAIN work.lens /\ c[2] >= work.lens[c[1]]
Finished(program) == at > Len(program.steps)
RunGroup(step, g) ==
    LET run == GroupRun(step[g], memory)
    IN /\ g \notin ran
       /\ memory' = run.memory
       /\ raced' = (raced \/ run.raced
                      \/ run.writes \cap (touched.reads \cup touched.writes) # {}
                      \/ run.reads \cap touched.writes # {})
       /\ strayed' = (strayed \/ \E c \in run.reads \cup run.writes : Outside(c))
       /\ IF ran \cup {g} = DOMAIN step
          THEN at' = at + 1 /\ ran' = {} /\ touched' = NotTouched
          ELSE /\ ran' = ran \cup {g} /\ UNCHANGED at
               /\ touched' = [reads |-> touched.reads \cup run.reads, writes |-> touched.writes \cup run.writes]
       /\ UNCHANGED work

ElementNext ==
    LET program == Steps(work) IN
    ~Finished(program) /\ \E g \in DOMAIN program.steps[at] : RunGroup(program.steps[at], g)

\* Buffers the host only passes through.
Scratch == {"patches", "out_tile", "reshaped", "out_spatial"}

\* A launch computes what the processor does, in whatever order its groups and
\* threads run: no two threads touch a cell without a barrier between them and
\* one of them setting it, nothing outside of its buffers is read or set, and
\* what stays in memory is the reference's.  Only calls whose buffers do not
\* fit are refused.
ElementsLikeReference ==
    LET program == Steps(work)
        kept == [c \in {m \in DOMAIN memory : m[1] \notin Scratch} |-> memory[c]]
    IN /\ ~raced /\ ~strayed
       /\ program.refused => ~work.fits
       /\ Finished(program) => kept = program.expected
=============================================================================
