------------------------------ MODULE CpuKernels ------------------------------
(* The matrix kernels of the processor: the loops of the four tiers over the *)
(* lanes of their registers, the dispatcher that picks the tier's kernel,    *)
(* and the tilings that cut a product into slices, those of one task one     *)
(* after the other and the tasks on the threads of rayon in any order.       *)
(* Without threads (wasm32) a product is the one task of the small ones.     *)
EXTENDS GpuKernels

CONSTANTS
    PAR_GEMV_MIN_ROWS, PAR_GEMM_MIN_BATCH, PAR_DEQUANT_MIN_BLOCKS, DEQUANT_CHUNK,
    L1_TILE_ROWS, L2_TILE_ROWS, GEMM_BATCH_TILE, MIN_TILE_ROWS, L1_BYTES,
    PAR_TILED_GEMV_MIN_ROWS, PAR_TILED_GEMM_MIN_BATCH,
    PAR_TILED_MIN_ROWS, PAR_TILED_MIN_BATCH,
    DIRECT_DISPATCH_MAX_ROWS, MEDIUM_PARALLEL_MAX_ROWS,
    CpuShapes,      \* [rows, width, batch] of products by one kernel
    TiledShapes     \* of those cut into slices

\* No tile is empty; the lengths and limits are of type usize.
ASSUME TilesAssumption ==
    /\ {DEQUANT_CHUNK, L1_TILE_ROWS, L2_TILE_ROWS, GEMM_BATCH_TILE, MIN_TILE_ROWS} \subseteq Nat \ {0}
    /\ {PAR_GEMV_MIN_ROWS, PAR_GEMM_MIN_BATCH, PAR_DEQUANT_MIN_BLOCKS, L1_BYTES,
        PAR_TILED_GEMV_MIN_ROWS, PAR_TILED_GEMM_MIN_BATCH, PAR_TILED_MIN_ROWS, PAR_TILED_MIN_BATCH,
        DIRECT_DISPATCH_MAX_ROWS, MEDIUM_PARALLEL_MAX_ROWS} \subseteq Nat

ASSUME CpuShapesAssumption == CpuShapes \subseteq AllShapes /\ TiledShapes \subseteq AllShapes

VARIABLES product, tasks, result
cpuVars == <<product, tasks, result>>

-----------------------------------------------------------------------------
(* The inner loops: in a round a lane (the last number) multiplies a weight  *)
(* of the block with the element of the input at the place it has loaded.    *)
SignAt(at, byte, bit) == <<at, Plain(0, <<Field(2 + byte, bit, 1)>>, 0)>>
LoopSigns == [j \in 0 .. 127 |-> SignAt(j, j \div 8, j % 8)]
LoopSignsAvx2 == [chunk \in 0 .. 15, l \in 0 .. 7 |-> SignAt(chunk * 8 + l, chunk, l)]
LoopSignsAvx512 == [chunk \in 0 .. 7, l \in 0 .. 15 |->
    SignAt(chunk * 16 + l, chunk * 2 + l \div 8, l % 8)]
LoopSignsNeon == [byte \in 0 .. 15, half \in {0, 4}, l \in 0 .. 3 |->
    SignAt(byte * 8 + half + l, byte, half + l)]

\* The code for lane l of the bytes packed from byte on: shifted down by 2l.
CodeAt(at, byte, l) == <<at, Plain(32, <<Field(byte + l \div 4, 2 * (l % 4), 2)>>, 0)>>
LoopTernary == [byte \in 0 .. 31, l \in 0 .. 3 |-> CodeAt(byte * 4 + l, byte, l)]
LoopTernaryAvx2 == [chunk \in 0 .. 15, l \in 0 .. 7 |-> CodeAt(chunk * 8 + l, chunk * 2, l)]
LoopTernaryAvx2Pairs == [pair \in 0 .. 7, half \in 0 .. 1, l \in 0 .. 7 |->
    CodeAt(pair * 16 + half * 8 + l, pair * 4 + half * 2, l)]
LoopTernaryAvx512 == [chunk \in 0 .. 7, l \in 0 .. 15 |-> CodeAt(chunk * 16 + l, chunk * 4, l)]
LoopTernaryAvx512Groups == [group \in 0 .. 3, half \in 0 .. 1, l \in 0 .. 15 |->
    CodeAt(group * 32 + half * 16 + l, group * 8 + half * 4, l)]
LoopTernaryNeonPairs == [pair \in 0 .. 15, half \in 0 .. 1, l \in 0 .. 3 |->
    CodeAt(pair * 8 + half * 4 + l, pair * 2 + half, l)]

\* Eight-bit floats: a register of table entries at a time.
LoopTable(lanes) == [chunk \in 0 .. 32 \div lanes - 1, l \in 0 .. lanes - 1 |->
    <<chunk * lanes + l, Plain(32, <<Field(chunk * lanes + l, 0, 8)>>, 0)>>]

\* What a ternary code is worth.  Without branches, 3 would be +1; the kernels
\* that do not want that mask it out.
ternary_arithmetic == [idx \in 0 .. 3 |-> (idx \div 2) - (1 - (IF idx < 1 THEN idx ELSE 1))]
ternary_masked == [ternary_arithmetic EXCEPT ![3] = 0]
decode_weight_f32 == [code \in 0 .. 3 |->
    CASE code = 0 -> -1 [] code = 1 -> 0 [] code = 2 -> 1 [] OTHER -> 0]

-----------------------------------------------------------------------------
(* The sum over the lanes of a register, as the bag of the lanes in it.      *)
Singletons(lanes) == [l \in 0 .. lanes - 1 |-> SetToBag({l})]
hsum_avx2 ==
    LET v == Singletons(8)
        sum128 == [l \in 0 .. 3 |-> v[l] (+) v[l + 4]]
        movehdup == [l \in 0 .. 3 |-> sum128[IF l % 2 = 0 THEN l + 1 ELSE l]]
        sums == [l \in 0 .. 3 |-> sum128[l] (+) movehdup[l]]
    IN sums[0] (+) sums[2]
hsum_avx512 == SetToBag(0 .. 15)                                \* _mm512_reduce_add_ps
vpaddq(v) == [l \in 0 .. 3 |-> v[(2 * l) % 4] (+) v[((2 * l) % 4) + 1]]
hsum_neon == vpaddq(vpaddq(Singletons(4)))[0]
NoLanes == SetToBag({0})

\* (mutant) The odd block forgotten.
PairsOnly(width) ==
    SetToBag({2 * p : p \in 0 .. width \div 2 - 1}) (+) SetToBag({2 * p + 1 : p \in 0 .. width \div 2 - 1})

\* The blocks of a row: one after the other, or in pairs into two accumulators
\* with the odd one at the end.
EachBlock(width) == SetToBag(0 .. width - 1)
PairsOfBlocks(width) ==
    LET pairs == width \div 2
    IN SetToBag({2 * p : p \in 0 .. pairs - 1}) (+) SetToBag({2 * p + 1 : p \in 0 .. pairs - 1})
       (+) SetToBag(pairs * 2 .. width - 1)

\* The rows of a product: one after the other, or by sixteen that go out in one
\* store, and the rest.
StreamedRows(n) ==
    {16 * group + l : group \in 0 .. n \div 16 - 1, l \in 0 .. 15} \cup (n \div 16) * 16 .. n - 1

-----------------------------------------------------------------------------
(* The kernels of the processor.                                             *)
CpuKernel(op, format, loop, lanes, sum) ==
    [op |-> op, format |-> format, loop |-> loop, lanes |-> lanes, sum |-> sum,
     pairs |-> FALSE, streamed |-> FALSE, value |-> ternary_decode]
Scalar(op, format, loop) == CpuKernel(op, format, loop, 1, NoLanes)
Avx2(op, format, loop) == CpuKernel(op, format, loop, 8, hsum_avx2)
Avx512(op, format, loop) == CpuKernel(op, format, loop, 16, hsum_avx512)
Neon(op, format, loop) == CpuKernel(op, format, loop, 4, hsum_neon)
Ternary(k, value) == [k EXCEPT !.value = value]

\* These decode the row with the decoder of the format, then multiply.
AsDecoded(format) == [i \in DOMAIN Formats[format].reference |-> <<i, Formats[format].reference[i]>>]

dequant_1bit_g128 == Scalar("dequant", "q1", LoopSigns)
gemv_1bit_g128 == Scalar("gemv", "q1", LoopSigns)
gemm_1bit_g128 == Scalar("gemm", "q1", LoopSigns)
dequant_1bit_g128_avx2 == Avx2("dequant", "q1", LoopSignsAvx2)
gemv_1bit_g128_avx2 == Avx2("gemv", "q1", LoopSignsAvx2)
gemm_1bit_g128_avx2 == Avx2("gemm", "q1", LoopSignsAvx2)
gemv_1bit_g128_avx2_prefetch == [gemv_1bit_g128_avx2 EXCEPT !.pairs = TRUE]
gemm_1bit_g128_avx2_prefetch == [gemm_1bit_g128_avx2 EXCEPT !.pairs = TRUE]
dequant_1bit_g128_avx512 == Avx512("dequant", "q1", LoopSignsAvx512)
gemv_1bit_g128_avx512 == Avx512("gemv", "q1", LoopSignsAvx512)
gemm_1bit_g128_avx512 == Avx512("gemm", "q1", LoopSignsAvx512)
gemv_1bit_g128_avx512_streaming == [gemv_1bit_g128_avx512 EXCEPT !.streamed = TRUE]
gemv_1bit_g128_avx512_prefetch == gemv_1bit_g128_avx512
dequant_1bit_g128_neon == Neon("dequant", "q1", LoopSignsNeon)
gemv_1bit_g128_neon == Neon("gemv", "q1", LoopSignsNeon)
gemm_1bit_g128_neon == Neon("gemm", "q1", LoopSignsNeon)
gemv_1bit_g128_neon_prefetch == gemv_1bit_g128_neon
gemm_1bit_g128_neon_prefetch == gemm_1bit_g128_neon
dequant_tq2_0_g128 == Ternary(Scalar("dequant", "tq2", LoopTernary), decode_weight_f32)
gemv_tq2_0_g128 == Ternary(Scalar("gemv", "tq2", LoopTernary), decode_weight_f32)
gemm_tq2_0_g128 == Ternary(Scalar("gemm", "tq2", LoopTernary), decode_weight_f32)
dequant_tq2_0_g128_avx2 == Ternary(Avx2("dequant", "tq2", LoopTernaryAvx2), ternary_arithmetic)
gemv_tq2_0_g128_avx2 == Ternary(Avx2("gemv", "tq2", LoopTernaryAvx2), ternary_arithmetic)
gemm_tq2_0_g128_avx2 == Ternary(Avx2("gemm", "tq2", LoopTernaryAvx2), ternary_arithmetic)
gemv_tq2_0_g128_avx2_prefetch ==
    Ternary(Avx2("gemv", "tq2", LoopTernaryAvx2Pairs), ternary_masked)
dequant_tq2_0_g128_avx512 ==
    Ternary(Avx512("dequant", "tq2", LoopTernaryAvx512), ternary_arithmetic)
gemv_tq2_0_g128_avx512 == Ternary(Avx512("gemv", "tq2", LoopTernaryAvx512), ternary_arithmetic)
gemm_tq2_0_g128_avx512 == Ternary(Avx512("gemm", "tq2", LoopTernaryAvx512), ternary_arithmetic)
gemv_tq2_0_g128_avx512_prefetch ==
    Ternary(Avx512("gemv", "tq2", LoopTernaryAvx512Groups), ternary_masked)
dequant_tq2_0_g128_neon == Ternary(Neon("dequant", "tq2", LoopTernary), ternary_masked)
gemv_tq2_0_g128_neon == Ternary(Neon("gemv", "tq2", LoopTernary), ternary_masked)
gemv_tq2_0_g128_neon_prefetch ==
    Ternary(Neon("gemv", "tq2", LoopTernaryNeonPairs), ternary_masked)
gemm_tq2_0_g128_neon == Ternary(Neon("gemm", "tq2", LoopTernary), ternary_arithmetic)
cpu_dequant_fp8_e4m3 == Scalar("dequant", "fp8_e4m3", LoopTable(1))
dequant_fp8_e4m3_avx2 == Avx2("dequant", "fp8_e4m3", LoopTable(8))
dequant_fp8_e4m3_avx512 == Avx512("dequant", "fp8_e4m3", LoopTable(16))
dequant_fp8_e4m3_neon == Neon("dequant", "fp8_e4m3", LoopTable(4))
cpu_gemv_fp8_e4m3 == Scalar("gemv", "fp8_e4m3", LoopTable(1))
gemv_fp8_e4m3_avx2 == Avx2("gemv", "fp8_e4m3", LoopTable(8))
gemv_fp8_e4m3_avx512 == Avx512("gemv", "fp8_e4m3", LoopTable(16))
gemv_fp8_e4m3_neon == Neon("gemv", "fp8_e4m3", LoopTable(4))
cpu_gemm_fp8_e4m3 == Scalar("gemm", "fp8_e4m3", LoopTable(1))
gemm_fp8_e4m3_avx2 == Avx2("gemm", "fp8_e4m3", LoopTable(8))
gemm_fp8_e4m3_avx512 == Avx512("gemm", "fp8_e4m3", LoopTable(16))
gemm_fp8_e4m3_neon == Neon("gemm", "fp8_e4m3", LoopTable(4))
cpu_dequant_fp8_e5m2 == Scalar("dequant", "fp8_e5m2", LoopTable(1))
dequant_fp8_e5m2_avx2 == Avx2("dequant", "fp8_e5m2", LoopTable(8))
dequant_fp8_e5m2_avx512 == Avx512("dequant", "fp8_e5m2", LoopTable(16))
dequant_fp8_e5m2_neon == Neon("dequant", "fp8_e5m2", LoopTable(4))
cpu_gemv_fp8_e5m2 == Scalar("gemv", "fp8_e5m2", LoopTable(1))
gemv_fp8_e5m2_avx2 == Avx2("gemv", "fp8_e5m2", LoopTable(8))
gemv_fp8_e5m2_avx512 == Avx512("gemv", "fp8_e5m2", LoopTable(16))
gemv_fp8_e5m2_neon == Neon("gemv", "fp8_e5m2", LoopTable(4))
cpu_gemm_fp8_e5m2 == Scalar("gemm", "fp8_e5m2", LoopTable(1))
gemm_fp8_e5m2_avx2 == Avx2("gemm", "fp8_e5m2", LoopTable(8))
gemm_fp8_e5m2_avx512 == Avx512("gemm", "fp8_e5m2", LoopTable(16))
gemm_fp8_e5m2_neon == Neon("gemm", "fp8_e5m2", LoopTable(4))
cpu_gemv_q2k == Scalar("gemv", "q2k", AsDecoded("q2k"))
cpu_gemv_q3k == Scalar("gemv", "q3k", AsDecoded("q3k"))
cpu_gemv_q4k == Scalar("gemv", "q4k", AsDecoded("q4k"))
cpu_gemv_q5k == Scalar("gemv", "q5k", AsDecoded("q5k"))
cpu_gemv_q6k == Scalar("gemv", "q6k", AsDecoded("q6k"))
cpu_gemv_q8k == Scalar("gemv", "q8k", AsDecoded("q8k"))
cpu_gemv_q4_0 == Scalar("gemv", "q4_0", AsDecoded("q4_0"))
cpu_gemv_q8_0 == Scalar("gemv", "q8_0", AsDecoded("q8_0"))

CpuKernelNamed ==
    [dequant_1bit_g128 |-> dequant_1bit_g128, gemv_1bit_g128 |-> gemv_1bit_g128,
     gemm_1bit_g128 |-> gemm_1bit_g128, dequant_1bit_g128_avx2 |-> dequant_1bit_g128_avx2,
     gemv_1bit_g128_avx2 |-> gemv_1bit_g128_avx2,
     gemm_1bit_g128_avx2 |-> gemm_1bit_g128_avx2,
     gemv_1bit_g128_avx2_prefetch |-> gemv_1bit_g128_avx2_prefetch,
     gemm_1bit_g128_avx2_prefetch |-> gemm_1bit_g128_avx2_prefetch,
     dequant_1bit_g128_avx512 |-> dequant_1bit_g128_avx512,
     gemv_1bit_g128_avx512 |-> gemv_1bit_g128_avx512,
     gemm_1bit_g128_avx512 |-> gemm_1bit_g128_avx512,
     gemv_1bit_g128_avx512_streaming |-> gemv_1bit_g128_avx512_streaming,
     gemv_1bit_g128_avx512_prefetch |-> gemv_1bit_g128_avx512_prefetch,
     dequant_1bit_g128_neon |-> dequant_1bit_g128_neon,
     gemv_1bit_g128_neon |-> gemv_1bit_g128_neon,
     gemm_1bit_g128_neon |-> gemm_1bit_g128_neon,
     gemv_1bit_g128_neon_prefetch |-> gemv_1bit_g128_neon_prefetch,
     gemm_1bit_g128_neon_prefetch |-> gemm_1bit_g128_neon_prefetch,
     dequant_tq2_0_g128 |-> dequant_tq2_0_g128, gemv_tq2_0_g128 |-> gemv_tq2_0_g128,
     gemm_tq2_0_g128 |-> gemm_tq2_0_g128,
     dequant_tq2_0_g128_avx2 |-> dequant_tq2_0_g128_avx2,
     gemv_tq2_0_g128_avx2 |-> gemv_tq2_0_g128_avx2,
     gemm_tq2_0_g128_avx2 |-> gemm_tq2_0_g128_avx2,
     gemv_tq2_0_g128_avx2_prefetch |-> gemv_tq2_0_g128_avx2_prefetch,
     dequant_tq2_0_g128_avx512 |-> dequant_tq2_0_g128_avx512,
     gemv_tq2_0_g128_avx512 |-> gemv_tq2_0_g128_avx512,
     gemm_tq2_0_g128_avx512 |-> gemm_tq2_0_g128_avx512,
     gemv_tq2_0_g128_avx512_prefetch |-> gemv_tq2_0_g128_avx512_prefetch,
     dequant_tq2_0_g128_neon |-> dequant_tq2_0_g128_neon,
     gemv_tq2_0_g128_neon |-> gemv_tq2_0_g128_neon,
     gemv_tq2_0_g128_neon_prefetch |-> gemv_tq2_0_g128_neon_prefetch,
     gemm_tq2_0_g128_neon |-> gemm_tq2_0_g128_neon,
     cpu_dequant_fp8_e4m3 |-> cpu_dequant_fp8_e4m3,
     dequant_fp8_e4m3_avx2 |-> dequant_fp8_e4m3_avx2,
     dequant_fp8_e4m3_avx512 |-> dequant_fp8_e4m3_avx512,
     dequant_fp8_e4m3_neon |-> dequant_fp8_e4m3_neon,
     cpu_gemv_fp8_e4m3 |-> cpu_gemv_fp8_e4m3, gemv_fp8_e4m3_avx2 |-> gemv_fp8_e4m3_avx2,
     gemv_fp8_e4m3_avx512 |-> gemv_fp8_e4m3_avx512,
     gemv_fp8_e4m3_neon |-> gemv_fp8_e4m3_neon, cpu_gemm_fp8_e4m3 |-> cpu_gemm_fp8_e4m3,
     gemm_fp8_e4m3_avx2 |-> gemm_fp8_e4m3_avx2,
     gemm_fp8_e4m3_avx512 |-> gemm_fp8_e4m3_avx512,
     gemm_fp8_e4m3_neon |-> gemm_fp8_e4m3_neon,
     cpu_dequant_fp8_e5m2 |-> cpu_dequant_fp8_e5m2,
     dequant_fp8_e5m2_avx2 |-> dequant_fp8_e5m2_avx2,
     dequant_fp8_e5m2_avx512 |-> dequant_fp8_e5m2_avx512,
     dequant_fp8_e5m2_neon |-> dequant_fp8_e5m2_neon,
     cpu_gemv_fp8_e5m2 |-> cpu_gemv_fp8_e5m2, gemv_fp8_e5m2_avx2 |-> gemv_fp8_e5m2_avx2,
     gemv_fp8_e5m2_avx512 |-> gemv_fp8_e5m2_avx512,
     gemv_fp8_e5m2_neon |-> gemv_fp8_e5m2_neon, cpu_gemm_fp8_e5m2 |-> cpu_gemm_fp8_e5m2,
     gemm_fp8_e5m2_avx2 |-> gemm_fp8_e5m2_avx2,
     gemm_fp8_e5m2_avx512 |-> gemm_fp8_e5m2_avx512,
     gemm_fp8_e5m2_neon |-> gemm_fp8_e5m2_neon, cpu_gemv_q2k |-> cpu_gemv_q2k,
     cpu_gemv_q3k |-> cpu_gemv_q3k, cpu_gemv_q4k |-> cpu_gemv_q4k,
     cpu_gemv_q5k |-> cpu_gemv_q5k, cpu_gemv_q6k |-> cpu_gemv_q6k,
     cpu_gemv_q8k |-> cpu_gemv_q8k, cpu_gemv_q4_0 |-> cpu_gemv_q4_0,
     cpu_gemv_q8_0 |-> cpu_gemv_q8_0]

-----------------------------------------------------------------------------
(* The dispatcher: the kernel of an operation for a tier.                    *)
Tiers == {"reference", "avx2", "avx512", "neon"}
Dispatch(reference, avx2, avx512, neon) ==
    [reference |-> reference, avx2 |-> avx2, avx512 |-> avx512, neon |-> neon]
dispatcher_dequant == Dispatch("dequant_1bit_g128", "dequant_1bit_g128_avx2",
                               "dequant_1bit_g128_avx512", "dequant_1bit_g128_neon")
dispatcher_gemv == Dispatch("gemv_1bit_g128", "gemv_1bit_g128_avx2_prefetch",
                            "gemv_1bit_g128_avx512_prefetch", "gemv_1bit_g128_neon_prefetch")
dispatcher_gemm == Dispatch("gemm_1bit_g128", "gemm_1bit_g128_avx2_prefetch",
                            "gemm_1bit_g128_avx512", "gemm_1bit_g128_neon_prefetch")
dispatcher_gemv_ternary == Dispatch("gemv_tq2_0_g128", "gemv_tq2_0_g128_avx2_prefetch",
                                    "gemv_tq2_0_g128_avx512_prefetch", "gemv_tq2_0_g128_neon_prefetch")
dispatcher_gemm_ternary == Dispatch("gemm_tq2_0_g128", "gemm_tq2_0_g128_avx2",
                                    "gemm_tq2_0_g128_avx512", "gemm_tq2_0_g128_neon")
dispatcher_gemv_fp8_e4m3 == Dispatch("cpu_gemv_fp8_e4m3", "gemv_fp8_e4m3_avx2",
                                     "gemv_fp8_e4m3_avx512", "gemv_fp8_e4m3_neon")
dispatcher_gemm_fp8_e4m3 == Dispatch("cpu_gemm_fp8_e4m3", "gemm_fp8_e4m3_avx2",
                                     "gemm_fp8_e4m3_avx512", "gemm_fp8_e4m3_neon")
dispatcher_gemv_fp8_e5m2 == Dispatch("cpu_gemv_fp8_e5m2", "gemv_fp8_e5m2_avx2",
                                     "gemv_fp8_e5m2_avx512", "gemv_fp8_e5m2_neon")
dispatcher_gemm_fp8_e5m2 == Dispatch("cpu_gemm_fp8_e5m2", "gemm_fp8_e5m2_avx2",
                                     "gemm_fp8_e5m2_avx512", "gemm_fp8_e5m2_neon")

-----------------------------------------------------------------------------
(* Tasks: sequences of calls of the dispatcher, each on a slice: the blocks  *)
(* from a row on, the input from a column on, the output from a cell on.     *)
Slice(row, col, at, rows, cols) == [row |-> row, col |-> col, at |-> at, rows |-> rows, cols |-> cols]
Whole(rows, cols) == {<<Slice(0, 0, 0, rows, cols)>>}

\* while start < n { min(n - start, size); ... }
TilesOf(n, size) ==
    [i \in 1 .. (n + size - 1) \div size |->
        [start |-> (i - 1) * size, rows |-> Min({n - (i - 1) * size, size})]]

RowTasks(s) ==
    IF s.rows < PAR_GEMV_MIN_ROWS THEN Whole(s.rows, 1)
    ELSE {<<Slice(row, 0, row, 1, 1)>> : row \in 0 .. s.rows - 1}
BatchTasks(s) ==
    IF s.batch < PAR_GEMM_MIN_BATCH THEN Whole(s.rows, s.batch)
    ELSE {<<Slice(0, mi, mi * s.rows, s.rows, 1)>> : mi \in 0 .. s.batch - 1}

\* The rows from start on, a tile after the other, for column mi.
TiledRows(s, start, rows, size, mi) ==
    LET tiles == TilesOf(rows, size)
    IN [i \in DOMAIN tiles |->
           Slice(start + tiles[i].start, mi, mi * s.rows + start + tiles[i].start, tiles[i].rows, 1)]

gemv_tiled(s) == {TiledRows(s, 0, s.rows, L1_TILE_ROWS, 0)}
\* The loops over the tiles of columns, the tiles of rows and the columns in one
\* tile: what the three are at in round p.
gemm_tiled(s) ==
    LET batches == TilesOf(s.batch, GEMM_BATCH_TILE)
        tiles == TilesOf(s.rows, L1_TILE_ROWS)
        Round(p) ==
            LET inOne == GEMM_BATCH_TILE * Len(tiles)       \* rounds for a tile of columns
                batch == batches[(p \div inOne) + 1]
                tile == tiles[((p % inOne) \div batch.rows) + 1]
                mi == batch.start + ((p % inOne) % batch.rows)
            IN Slice(tile.start, mi, mi * s.rows + tile.start, tile.rows, 1)
    IN {[p \in 1 .. s.batch * Len(tiles) |-> Round(p - 1)]}

\* One task for each tile of the second level, one for each column.
L2Tasks(s, size) ==
    LET tiles == TilesOf(s.rows, L2_TILE_ROWS)
    IN {TiledRows(s, tiles[i].start, tiles[i].rows, size, 0) : i \in DOMAIN tiles}
ColumnTasks(s, size) == {TiledRows(s, 0, s.rows, size, mi) : mi \in 0 .. s.batch - 1}

gemv_tiled_par(s) ==
    IF s.rows < PAR_TILED_GEMV_MIN_ROWS THEN gemv_tiled(s) ELSE L2Tasks(s, L1_TILE_ROWS)
gemm_tiled_par(s) ==
    IF s.batch < PAR_TILED_GEMM_MIN_BATCH THEN gemm_tiled(s) ELSE ColumnTasks(s, L1_TILE_ROWS)

\* The rows of 18 bytes a block that fit beside an input of 4 bytes an element.
optimal_tile_rows(width) ==
    LET fit == Max({0, L1_BYTES - width * 128 * 4}) \div (width * 18)
    IN Max({MIN_TILE_ROWS, Min({fit, L2_TILE_ROWS})})
gemv_parallel_tiled(s) ==
    IF s.rows < PAR_TILED_MIN_ROWS THEN gemv_tiled(s) ELSE L2Tasks(s, optimal_tile_rows(s.width))
gemm_parallel_tiled(s) ==
    IF s.batch < PAR_TILED_MIN_BATCH THEN gemm_tiled(s) ELSE ColumnTasks(s, optimal_tile_rows(s.width))

select_gemv_strategy(rows) ==
    CASE rows <= DIRECT_DISPATCH_MAX_ROWS -> "Direct"
      [] rows > DIRECT_DISPATCH_MAX_ROWS /\ rows <= MEDIUM_PARALLEL_MAX_ROWS -> "ParallelRow"
      [] OTHER -> "ParallelTiled"
gemv_adaptive(s) ==
    CASE select_gemv_strategy(s.rows) = "Direct" -> Whole(s.rows, 1)
      [] select_gemv_strategy(s.rows) = "ParallelRow" -> RowTasks(s)
      [] OTHER -> gemv_parallel_tiled(s)
gemv_adaptive_ternary(s) ==
    IF select_gemv_strategy(s.rows) = "Direct" THEN Whole(s.rows, 1) ELSE RowTasks(s)
gemm_adaptive_ternary(s) ==
    IF s.batch < PAR_TILED_MIN_BATCH THEN Whole(s.rows, s.batch) ELSE BatchTasks(s)

\* De-quantisation: a row is a block, its cell the numbers in it.
dequant_1bit_g128_par(s) ==
    IF s.rows < PAR_DEQUANT_MIN_BLOCKS THEN Whole(s.rows, 1)
    ELSE LET chunks == TilesOf(s.rows, DEQUANT_CHUNK)
         IN {<<Slice(chunks[i].start, 0, chunks[i].start, chunks[i].rows, 1)>> : i \in DOMAIN chunks}

\* What callers enter by: the tasks for a shape, and the dispatcher's kernels.
Entry(tasksOf, kernels) == [tasks |-> tasksOf, kernels |-> kernels]
Entries ==
    [gemv_1bit_g128_par |-> Entry([s \in TiledShapes |-> RowTasks(s)], dispatcher_gemv),
     gemm_1bit_g128_par |-> Entry([s \in TiledShapes |-> BatchTasks(s)], dispatcher_gemm),
     gemv_ternary_g128_par |-> Entry([s \in TiledShapes |-> RowTasks(s)], dispatcher_gemv_ternary),
     gemm_ternary_g128_par |-> Entry([s \in TiledShapes |-> BatchTasks(s)], dispatcher_gemm_ternary),
     gemv_fp8_e4m3_par |-> Entry([s \in TiledShapes |-> RowTasks(s)], dispatcher_gemv_fp8_e4m3),
     gemm_fp8_e4m3_par |-> Entry([s \in TiledShapes |-> BatchTasks(s)], dispatcher_gemm_fp8_e4m3),
     gemv_fp8_e5m2_par |-> Entry([s \in TiledShapes |-> RowTasks(s)], dispatcher_gemv_fp8_e5m2),
     gemm_fp8_e5m2_par |-> Entry([s \in TiledShapes |-> BatchTasks(s)], dispatcher_gemm_fp8_e5m2),
     gemv_tiled |-> Entry([s \in TiledShapes |-> gemv_tiled(s)], dispatcher_gemv),
     gemm_tiled |-> Entry([s \in TiledShapes |-> gemm_tiled(s)], dispatcher_gemm),
     gemv_tiled_par |-> Entry([s \in TiledShapes |-> gemv_tiled_par(s)], dispatcher_gemv),
     gemm_tiled_par |-> Entry([s \in TiledShapes |-> gemm_tiled_par(s)], dispatcher_gemm),
     gemv_parallel_tiled |-> Entry([s \in TiledShapes |-> gemv_parallel_tiled(s)], dispatcher_gemv),
     gemm_parallel_tiled |-> Entry([s \in TiledShapes |-> gemm_parallel_tiled(s)], dispatcher_gemm),
     gemv_adaptive |-> Entry([s \in TiledShapes |-> gemv_adaptive(s)], dispatcher_gemv),
     gemv_adaptive_ternary |->
         Entry([s \in TiledShapes |-> gemv_adaptive_ternary(s)], dispatcher_gemv_ternary),
     gemm_adaptive_ternary |->
         Entry([s \in TiledShapes |-> gemm_adaptive_ternary(s)], dispatcher_gemm_ternary),
     dequant_1bit_g128_par |-> Entry([s \in TiledShapes |-> dequant_1bit_g128_par(s)], dispatcher_dequant)]

-----------------------------------------------------------------------------
(* A call of a kernel as it is, or of an entry.                              *)
CpuCalls ==
    [entry : {"kernel"}, kernel : DOMAIN CpuKernelNamed, shape : CpuShapes]
    \cup UNION {[entry : {e}, kernel : {Entries[e].kernels[t] : t \in Tiers}, shape : TiledShapes] :
                e \in DOMAIN Entries}

CK == CpuKernelNamed[product.kernel]
Cols == IF CK.op = "gemm" THEN product.shape.batch ELSE 1
RowWidth == IF CK.op = "dequant" THEN 1 ELSE product.shape.width
TasksOf == IF product.entry = "kernel" THEN Whole(product.shape.rows, Cols)
           ELSE Entries[product.entry].tasks[product.shape]

Untouched == SetToBag({<<-1, -1>>})     \* what was there before
\* Row by column: the products of the blocks with the parts of the column.
RowSum(row, col, blocks) ==
    [p \in {<<row * RowWidth + b, col * RowWidth + b>> : b \in DOMAIN blocks} |->
        blocks[p[1] - row * RowWidth]]

\* A kernel on a slice, whose first row and column are its own row and column 0.
RunSlice(cells, t) ==
    LET blocks == IF CK.pairs THEN PairsOfBlocks(RowWidth) ELSE EachBlock(RowWidth)
        rows == IF CK.streamed THEN StreamedRows(t.rows) ELSE 0 .. t.rows - 1
        written == rows \X (0 .. t.cols - 1)
    IN [at \in DOMAIN cells |->
           IF \E w \in written : at = t.at + w[2] * t.rows + w[1]
           THEN LET w == CHOOSE w \in written : at = t.at + w[2] * t.rows + w[1]
                IN RowSum(t.row + w[1], t.col + w[2], blocks)
           ELSE cells[at]]

CpuInit ==
    /\ product \in CpuCalls
    /\ tasks = TasksOf
    /\ result = [at \in 0 .. product.shape.rows * Cols - 1 |-> Untouched]

\* A thread runs the next slice of a task, the others go on meanwhile.
RunTask(t) ==
    /\ t \in tasks
    /\ tasks' = (tasks \ {t}) \cup (IF Len(t) = 1 THEN {} ELSE {Tail(t)})
    /\ result' = RunSlice(result, t[1])
    /\ UNCHANGED product

CpuNext == \E t \in tasks : RunTask(t)
CpuSpec == CpuInit /\ [][CpuNext]_cpuVars

-----------------------------------------------------------------------------
\* When a call has come to its end, each cell of the output is the whole
\* product of its row and its column and of nothing else, on every tier, by any
\* tiling and whatever the order of the threads.
CpuOutputLikeReference ==
    tasks = {} =>
        \A r \in 0 .. product.shape.rows - 1, c \in 0 .. Cols - 1 :
            result[c * product.shape.rows + r] =
                SetToBag({<<r * RowWidth + b, c * RowWidth + b>> : b \in 0 .. RowWidth - 1})

\* The kernel that was picked adds up every lane once, and takes every weight
\* once and from the bits its format says.
CpuBitsLikeReference ==
    tasks = {} => /\ CK.sum = SetToBag(0 .. CK.lanes - 1)
                  /\ Decodes(CK.loop, Formats[CK.format].reference)

\* A kernel takes every ternary code the blocks hold for what traits.rs:147
\* says: 00 for -1, 10 for +1, 01 and 11 for 0.
TernaryCodesAsDocumented ==
    tasks = {} /\ CK.format = "tq2" => \A c \in TernaryCodes : CK.value[c] = ternary_decode[c]

\* The products of both kinds of processor are those of the reference.
ProductsLikeReference == GpuOutputLikeReference /\ CpuOutputLikeReference

\* And so is what their kernels take the bits of a weight for.
BitsLikeReference == GpuBitsLikeReference /\ CpuBitsLikeReference /\ TernaryCodesAsDocumented
=============================================================================
