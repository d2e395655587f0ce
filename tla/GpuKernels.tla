------------------------------ MODULE GpuKernels ------------------------------
(* The matrix kernels of the GPU back ends, thread by thread: a launch is a  *)
(* grid of thread blocks that run in any order, each of eight warps, a warp  *)
(* for a row; the 32 lanes of a warp share the blocks of the row and add     *)
(* their sums up.  A value is the collection of what was multiplied and      *)
(* added into it, so that one weight too few, too many, or read elsewhere    *)
(* than where the host has put it makes another value.                       *)
EXTENDS BlockFormats, FiniteSets, Bags, SequencesExt

CONSTANT Shapes      \* [rows, width, batch]: rows of width blocks, columns

\* Loads of 16 bytes fault elsewhere, and the data of the layouts that put the
\* scales first start two bytes for each block into the buffer.
ASSUME DataAligned == \A s \in Shapes : (2 * s.rows * s.width) % 16 = 0

\* A matrix has a row and a block, an input a column.
AllShapes == [rows : Nat \ {0}, width : Nat \ {0}, batch : Nat \ {0}]
ASSUME ShapesAssumption == Shapes \subseteq AllShapes

VARIABLES launch, pending, out
kernelVars == <<launch, pending, out>>

-----------------------------------------------------------------------------
(* The inner loops: which bits of a block a kernel multiplies with which     *)
(* element of the input, for each round of the loops.  The kernels of a      *)
(* format repeat one text.                                                   *)
LoopQ2K == [sub \in 0 .. 15, qb \in 0 .. 3, bit \in 0 .. 3 |->
    <<sub * 16 + qb * 4 + bit,
      WithMin(80, <<Field(sub, 0, 4)>>, 82, <<Field(sub, 4, 4)>>,
              <<Field(16 + sub * 4 + qb, bit * 2, 2)>>)>>]

\* (mutant) The scale in the other half of the byte.
LoopQ3KOtherScale == [sub \in 0 .. 15, j \in 0 .. 15 |->
    LET wi == sub * 16 + j IN
    <<wi, Scaled(108, <<Field(96 + sub \div 2, IF sub % 2 = 0 THEN 4 ELSE 0, 4)>>, 8,
                 <<Field(32 + wi \div 4, (wi % 4) * 2, 2), Field(wi \div 8, wi % 8, 1)>>, 4)>>]

LoopQ3K == [sub \in 0 .. 15, j \in 0 .. 15 |->
    LET wi == sub * 16 + j IN
    <<wi, Scaled(108, <<Field(96 + sub \div 2, IF sub % 2 = 0 THEN 0 ELSE 4, 4)>>, 8,
                 <<Field(32 + wi \div 4, (wi % 4) * 2, 2), Field(wi \div 8, wi % 8, 1)>>, 4)>>]

\* The table of the kernels: byte and shift of every low and high part.
kq_decode_6bit_scales(s) ==
    LET low == <<0, 0, 1, 1, 2, 2, 3, 3>>   lowShift == <<0, 4, 0, 4, 0, 4, 0, 4>>
        high == <<8, 8, 8, 8, 9, 9, 9, 9>>  highShift == <<0, 2, 4, 6, 0, 2, 4, 6>>
    IN [sc |-> [i \in 1 .. 8 |-> <<Field(s + low[i], lowShift[i], 4),
                                   Field(s + high[i], highShift[i], 2)>>],
        mn |-> [i \in 1 .. 8 |-> <<Field(s + low[i] + 4, lowShift[i], 4),
                                   Field(s + high[i] + 2, highShift[i], 2)>>]]

LoopQ4K == [sub \in 0 .. 7, nb \in 0 .. 15, h \in 0 .. 1 |->
    LET s == kq_decode_6bit_scales(4) IN
    <<sub * 32 + nb * 2 + h,
      WithMin(0, s.sc[sub + 1], 2, s.mn[sub + 1], <<Field(16 + sub * 16 + nb, 4 * h, 4)>>)>>]

LoopQ5K == [sub \in 0 .. 7, nb \in 0 .. 15, h \in 0 .. 1 |->
    LET s == kq_decode_6bit_scales(4)
        wi == sub * 32 + nb * 2 + h
    IN <<wi, WithMin(0, s.sc[sub + 1], 2, s.mn[sub + 1],
                     <<Field(48 + sub * 16 + nb, 4 * h, 4), Field(16 + wi \div 8, wi % 8, 1)>>)>>]

LoopQ6K == [sub \in 0 .. 15, j \in 0 .. 15 |->
    LET wi == sub * 16 + j IN
    <<wi, Scaled(208, <<SignedByte(192 + sub)>>, 0,
                 <<Field(wi \div 2, (wi % 2) * 4, 4), Field(128 + wi \div 4, (wi % 4) * 2, 2)>>, 32)>>]

LoopQ8K == [j \in 0 .. 255 |-> <<j, Plain(0, <<SignedByte(4 + j)>>, 0)>>]

LoopQ4_0 == [nb \in 0 .. 15, h \in 0 .. 1 |->
    <<nb * 2 + h, Plain(0, <<Field(2 + nb, 4 * h, 4)>>, 8)>>]

LoopQ8_0 == [j \in 0 .. 31 |-> <<j, Plain(0, <<SignedByte(2 + j)>>, 0)>>]

LoopFP8 == [w \in 0 .. 31 |-> <<w, Plain(32, <<Field(w, 0, 8)>>, 0)>>]

\* One bit of each of four words in a round; bit p of word w is of byte 4w + p/8.
LoopQ1 == [bit \in 0 .. 31, w \in 0 .. 3 |->
    <<32 * w + bit, Plain(0, <<Field(2 + 4 * w + bit \div 8, bit % 8, 1)>>, 0)>>]

\* Metal: a word is shifted down by four bits for each vector of four inputs.
LoopQ1Metal == [w \in 0 .. 3, v \in 0 .. 7, t \in 0 .. 3 |->
    LET p == 4 * v + t IN
    <<4 * (8 * w + v) + t, Plain(0, <<Field(2 + 4 * w + p \div 8, p % 8, 1)>>, 0)>>]

\* Byte y of word w, four codes in each.
LoopTQ2 == [w \in 0 .. 7, y \in 0 .. 3, c \in 0 .. 3 |->
    <<16 * w + 4 * y + c, Plain(32, <<Field(4 * w + y, 2 * c, 2)>>, 0)>>]

decode_tq2 == [code \in 0 .. 3 |-> IF code = 0 THEN -1 ELSE IF code = 2 THEN 1 ELSE 0]

\* The kernels' own decoding of the eight-bit floats: no number decodes to 0.
AsFloat(s, exponent, fraction) == Dyadic(s, 2 ^ 23 + fraction, exponent - 127 - 23)
Zero == Dyadic(0, 0, 0)

fp8_e4m3_to_float(b) ==
    LET s == Bits(b, 7, 1)  exp == Bits(b, 3, 4)  mant == Bits(b, 0, 3)
    IN CASE b \in {127, 255} -> Zero
         [] exp = 0 -> Dyadic(s, mant, -3 - 6)
         [] OTHER -> AsFloat(s, exp - 7 + 127, mant * 2 ^ 20)

fp8_e5m2_to_float(b) ==
    LET s == Bits(b, 7, 1)  exp == Bits(b, 2, 5)  mant == Bits(b, 0, 2)
    IN CASE exp = 31 -> Zero
         [] exp = 0 -> Dyadic(s, mant, -2 - 14)
         [] OTHER -> AsFloat(s, exp - 15 + 127, mant * 2 ^ 21)

-----------------------------------------------------------------------------
(* The formats: the block, how the processor decodes it, how kernels do.     *)
Format(block, reference, loop) == [block |-> block, reference |-> reference, loop |-> loop]
Formats ==
    [q2k |-> Format(BlockQ2K, Q2K_dequant, LoopQ2K),
     q3k |-> Format(BlockQ3K, Q3K_dequant, LoopQ3K),
     q4k |-> Format(BlockQ4K, Q4K_dequant, LoopQ4K),
     q5k |-> Format(BlockQ5K, Q5K_dequant, LoopQ5K),
     q6k |-> Format(BlockQ6K, Q6K_dequant, LoopQ6K),
     q8k |-> Format(BlockQ8K, Q8K_dequant, LoopQ8K),
     q4_0 |-> Format(BlockQ4_0, Q4_0_dequant, LoopQ4_0),
     q8_0 |-> Format(BlockQ8_0, Q8_0_dequant, LoopQ8_0),
     fp8_e4m3 |-> Format(BlockFP8, FP8_dequant, LoopFP8),
     fp8_e5m2 |-> Format(BlockFP8, FP8_dequant, LoopFP8),
     q1 |-> Format(BlockQ1_0G128, sign_bit, LoopQ1),
     q1_metal |-> Format(BlockQ1_0G128, sign_bit, LoopQ1Metal),
     tq2 |-> Format(BlockTQ2_0_g128, TQ2_dequant, LoopTQ2)]

\* Every weight of a block once, in the right round, from the right bits.
Decodes(loop, reference) ==
    LET rounds == {loop[r] : r \in DOMAIN loop}
    IN /\ rounds = {<<i, reference[i]>> : i \in DOMAIN reference}
       /\ Cardinality(rounds) = Cardinality(DOMAIN loop)
DecodesFp8 ==
    \A b \in 0 .. 255 :
        /\ fp8_e4m3_decode(b) # NotFinite => fp8_e4m3_to_float(b) = fp8_e4m3_decode(b)
        /\ fp8_e5m2_decode(b) # NotFinite => fp8_e5m2_to_float(b) = fp8_e5m2_decode(b)

-----------------------------------------------------------------------------
(* Where a weight is: the host uploads the blocks of a tensor as they are,   *)
(* or with all scales first; these give the byte of the tensor that has been *)
(* put at an address of a tensor of n blocks.                                *)
Uploaded(n, a) == a
reformat_q1_aos_to_soa(n, a) ==
    IF a < 2 * n THEN (a \div 2) * 18 + (a % 2)
                 ELSE LET t == a - 2 * n IN (t \div 16) * 18 + 2 + (t % 16)
reformat_tq2_aos_to_soa(n, a) ==
    IF a < 2 * n THEN (a \div 2) * 34 + 32 + (a % 2)
                 ELSE LET t == a - 2 * n IN (t \div 32) * 34 + (t % 32)

\* What a kernel reads of block g of n: scale, first and last byte of the rest.
BlockAt(layout, stride, d, n, g) ==
    CASE layout = "aos" ->
           <<Uploaded(n, g * stride + d), Uploaded(n, g * stride), Uploaded(n, g * stride + stride - 1)>>
      [] layout = "q1" ->
           <<reformat_q1_aos_to_soa(n, 2 * g), reformat_q1_aos_to_soa(n, n * 2 + g * 16),
             reformat_q1_aos_to_soa(n, n * 2 + g * 16 + 15)>>
      [] layout = "tq2" ->
           <<reformat_tq2_aos_to_soa(n, 2 * g), reformat_tq2_aos_to_soa(n, n * 2 + g * 32),
             reformat_tq2_aos_to_soa(n, n * 2 + g * 32 + 31)>>

-----------------------------------------------------------------------------
(* A warp.                                                                   *)
Lanes == 0 .. 31
Widths == {s.width : s \in Shapes}

\* for (b = lane; b < width; b += 32): each lane's sum over its blocks.
LaneSums(width) == [l \in Lanes |-> SetToBag({b \in 0 .. width - 1 : b % 32 = l})]

\* __shfl_down_sync: every lane adds the sum of the lane that far above it; one
\* that has none above gets its own.
ShuffleDown(sums, off) ==
    [l \in Lanes |-> sums[l] (+) sums[IF l + off \in Lanes THEN l + off ELSE l]]
warp_shuffle == [w \in Widths |->
    LET by16 == ShuffleDown(LaneSums(w), 16)
        by8 == ShuffleDown(by16, 8)
        by4 == ShuffleDown(by8, 4)
        by2 == ShuffleDown(by4, 2)
    IN ShuffleDown(by2, 1)[0]]

\* simd_sum of Metal adds the sums of all lanes: here the upper half of them to
\* the lower half until one is left.
Halved(sums, half) == [l \in 0 .. half - 1 |-> sums[l] (+) sums[l + half]]
simd_sum == [w \in Widths |->
    LET of16 == Halved(LaneSums(w), 16)
        of8 == Halved(of16, 8)
        of4 == Halved(of8, 4)
        of2 == Halved(of4, 2)
    IN Halved(of2, 1)[0]]

\* (mutant) As many columns as a warp has registers for.
ColumnsCapped(batch) == 0 .. (IF batch < 8 THEN batch ELSE 8) - 1

\* The eight columns at a time that a warp has registers for.
ColumnChunks(batch) == {base \in 0 .. batch - 1 : base % 8 = 0}
Columns(batch) ==
    UNION {{base + c : c \in 0 .. (IF batch - base < 8 THEN batch - base ELSE 8) - 1} :
           base \in ColumnChunks(batch)}

-----------------------------------------------------------------------------
(* The kernels.  A vector kernel has one column; "add" adds to the output,   *)
(* which the host has zeroed, "store" replaces it.                           *)
Kernel(format, layout, stride, columns, write, sum) ==
    [format |-> format, layout |-> layout, stride |-> stride, columns |-> columns,
     write |-> write, sum |-> sum, input |-> "global"]
Gemv(f, layout, stride) == Kernel(f, layout, stride, "one", "store", "shuffle")
Gemm(f, layout, stride) == Kernel(f, layout, stride, "batch", "add", "shuffle")
GemmResidual(f, layout, stride) == Kernel(f, layout, stride, "batch", "residual", "shuffle")
GemmSwiGLU(f, layout, stride) == Kernel(f, layout, stride, "batch", "swiglu", "shuffle")
OnMetal(k) == [k EXCEPT !.sum = "simd"]

gemv_q2k == Gemv("q2k", "aos", 84)
gemv_q3k == Gemv("q3k", "aos", 110)
gemv_q4k == Gemv("q4k", "aos", 144)
gemv_q5k == Gemv("q5k", "aos", 176)
gemv_q6k == Gemv("q6k", "aos", 210)
gemv_q8k == Gemv("q8k", "aos", 292)
gemm_q2k == Gemm("q2k", "aos", 84)
gemm_q3k == Gemm("q3k", "aos", 110)
gemm_q4k == Gemm("q4k", "aos", 144)
gemm_q5k == Gemm("q5k", "aos", 176)
gemm_q6k == Gemm("q6k", "aos", 210)
gemm_q8k == Gemm("q8k", "aos", 292)
gemm_q2k_residual == GemmResidual("q2k", "aos", 84)
gemm_q3k_residual == GemmResidual("q3k", "aos", 110)
gemm_q4k_residual == GemmResidual("q4k", "aos", 144)
gemm_q5k_residual == GemmResidual("q5k", "aos", 176)
gemm_q6k_residual == GemmResidual("q6k", "aos", 210)
gemm_q8k_residual == GemmResidual("q8k", "aos", 292)
fused_gate_up_swiglu_gemm_q2k == GemmSwiGLU("q2k", "aos", 84)
fused_gate_up_swiglu_gemm_q3k == GemmSwiGLU("q3k", "aos", 110)
fused_gate_up_swiglu_gemm_q4k == GemmSwiGLU("q4k", "aos", 144)
fused_gate_up_swiglu_gemm_q5k == GemmSwiGLU("q5k", "aos", 176)
fused_gate_up_swiglu_gemm_q6k == GemmSwiGLU("q6k", "aos", 210)
fused_gate_up_swiglu_gemm_q8k == GemmSwiGLU("q8k", "aos", 292)

gemv_q4_0 == Gemv("q4_0", "aos", 18)
gemv_q4_0_pf == Gemv("q4_0", "aos", 18)
gemm_q4_0 == Gemm("q4_0", "aos", 18)
gemm_q4_0_residual == GemmResidual("q4_0", "aos", 18)
fused_gate_up_swiglu_gemm_q4_0 == GemmSwiGLU("q4_0", "aos", 18)
gemv_q8_0 == Gemv("q8_0", "aos", 34)
gemv_q8_0_pf == Gemv("q8_0", "aos", 34)
gemm_q8_0 == Gemm("q8_0", "aos", 34)
gemm_q8_0_residual == GemmResidual("q8_0", "aos", 34)
fused_gate_up_swiglu_gemm_q8_0 == GemmSwiGLU("q8_0", "aos", 34)

gemv_fp8_e4m3 == Gemv("fp8_e4m3", "aos", 34)
gemv_fp8_e4m3_pf == Gemv("fp8_e4m3", "aos", 34)
gemm_fp8_e4m3 == Gemm("fp8_e4m3", "aos", 34)
gemm_fp8_e4m3_residual == GemmResidual("fp8_e4m3", "aos", 34)
fused_gate_up_swiglu_gemm_fp8_e4m3 == GemmSwiGLU("fp8_e4m3", "aos", 34)
gemv_fp8_e5m2 == Gemv("fp8_e5m2", "aos", 34)
gemv_fp8_e5m2_pf == Gemv("fp8_e5m2", "aos", 34)
gemm_fp8_e5m2 == Gemm("fp8_e5m2", "aos", 34)
gemm_fp8_e5m2_residual == GemmResidual("fp8_e5m2", "aos", 34)
fused_gate_up_swiglu_gemm_fp8_e5m2 == GemmSwiGLU("fp8_e5m2", "aos", 34)

\* One bit a weight, and ternary: the host has put the scales first.
gemv_q1_g128_v7 == Gemv("q1", "q1", 18)
gemv_q1_g128_v7_residual == [gemv_q1_g128_v7 EXCEPT !.write = "residual"]
gemv_q1_g128_v8 == [gemv_q1_g128_v7 EXCEPT !.input = "shared"]
gemv_q1_g128_v8_residual == [gemv_q1_g128_v7_residual EXCEPT !.input = "shared"]
gemv_q1_g128_v9 == Gemv("q1", "q1", 18)
gemv_q1_g128_v9_residual == [gemv_q1_g128_v9 EXCEPT !.write = "residual"]
fused_gate_up_swiglu_q1 == [gemv_q1_g128_v7 EXCEPT !.write = "swiglu"]
gemm_q1_g128_v7 == Gemm("q1", "q1", 18)
gemm_q1_g128_v7_residual == GemmResidual("q1", "q1", 18)
fused_gate_up_swiglu_gemm_q1 == GemmSwiGLU("q1", "q1", 18)
gemv_tq2_g128_v1 == Gemv("tq2", "tq2", 34)
gemm_tq2_g128_v7 == Gemm("tq2", "tq2", 34)
gemm_tq2_g128_v7_residual == GemmResidual("tq2", "tq2", 34)
fused_gate_up_swiglu_gemm_tq2 == GemmSwiGLU("tq2", "tq2", 34)

\* Metal.  Its batched products of the two formats replace what they find.
metal_gemv_q1_g128_v7 == OnMetal(Gemv("q1_metal", "q1", 18))
metal_gemv_q1_g128_v7_residual == [metal_gemv_q1_g128_v7 EXCEPT !.write = "residual"]
metal_fused_gate_up_swiglu_q1 == [metal_gemv_q1_g128_v7 EXCEPT !.write = "swiglu"]
metal_gemm_q1_g128_v7 == OnMetal(Kernel("q1_metal", "q1", 18, "batch", "store", "simd"))
metal_gemm_q1_g128_v7_residual == OnMetal(GemmResidual("q1_metal", "q1", 18))
metal_fused_gate_up_swiglu_gemm_q1 == OnMetal(GemmSwiGLU("q1_metal", "q1", 18))
metal_gemv_tq2_g128_v1 == OnMetal(Gemv("tq2", "tq2", 34))
metal_gemm_tq2_g128_v7 == OnMetal(Kernel("tq2", "tq2", 34, "batch", "store", "simd"))
metal_gemv_fp8_e4m3 == OnMetal(Gemv("fp8_e4m3", "aos", 34))
metal_gemv_fp8_e4m3_pf == OnMetal(Gemv("fp8_e4m3", "aos", 34))
metal_gemm_fp8_e4m3 == OnMetal(Gemm("fp8_e4m3", "aos", 34))
metal_gemm_fp8_e4m3_residual == OnMetal(GemmResidual("fp8_e4m3", "aos", 34))
metal_fused_gate_up_swiglu_gemm_fp8_e4m3 == OnMetal(GemmSwiGLU("fp8_e4m3", "aos", 34))
metal_gemv_fp8_e5m2 == OnMetal(Gemv("fp8_e5m2", "aos", 34))
metal_gemv_fp8_e5m2_pf == OnMetal(Gemv("fp8_e5m2", "aos", 34))
metal_gemm_fp8_e5m2 == OnMetal(Gemm("fp8_e5m2", "aos", 34))
metal_gemm_fp8_e5m2_residual == OnMetal(GemmResidual("fp8_e5m2", "aos", 34))
metal_fused_gate_up_swiglu_gemm_fp8_e5m2 == OnMetal(GemmSwiGLU("fp8_e5m2", "aos", 34))

Kernels ==
    [gemv_q2k |-> gemv_q2k, gemv_q3k |-> gemv_q3k, gemv_q4k |-> gemv_q4k,
     gemv_q5k |-> gemv_q5k, gemv_q6k |-> gemv_q6k, gemv_q8k |-> gemv_q8k,
     gemm_q2k |-> gemm_q2k, gemm_q3k |-> gemm_q3k, gemm_q4k |-> gemm_q4k,
     gemm_q5k |-> gemm_q5k, gemm_q6k |-> gemm_q6k, gemm_q8k |-> gemm_q8k,
     gemm_q2k_residual |-> gemm_q2k_residual, gemm_q3k_residual |-> gemm_q3k_residual,
     gemm_q4k_residual |-> gemm_q4k_residual, gemm_q5k_residual |-> gemm_q5k_residual,
     gemm_q6k_residual |-> gemm_q6k_residual, gemm_q8k_residual |-> gemm_q8k_residual,
     fused_gate_up_swiglu_gemm_q2k |-> fused_gate_up_swiglu_gemm_q2k,
     fused_gate_up_swiglu_gemm_q3k |-> fused_gate_up_swiglu_gemm_q3k,
     fused_gate_up_swiglu_gemm_q4k |-> fused_gate_up_swiglu_gemm_q4k,
     fused_gate_up_swiglu_gemm_q5k |-> fused_gate_up_swiglu_gemm_q5k,
     fused_gate_up_swiglu_gemm_q6k |-> fused_gate_up_swiglu_gemm_q6k,
     fused_gate_up_swiglu_gemm_q8k |-> fused_gate_up_swiglu_gemm_q8k,
     gemv_q4_0 |-> gemv_q4_0, gemv_q4_0_pf |-> gemv_q4_0_pf, gemm_q4_0 |-> gemm_q4_0,
     gemm_q4_0_residual |-> gemm_q4_0_residual,
     fused_gate_up_swiglu_gemm_q4_0 |-> fused_gate_up_swiglu_gemm_q4_0,
     gemv_q8_0 |-> gemv_q8_0, gemv_q8_0_pf |-> gemv_q8_0_pf, gemm_q8_0 |-> gemm_q8_0,
     gemm_q8_0_residual |-> gemm_q8_0_residual,
     fused_gate_up_swiglu_gemm_q8_0 |-> fused_gate_up_swiglu_gemm_q8_0,
     gemv_fp8_e4m3 |-> gemv_fp8_e4m3, gemv_fp8_e4m3_pf |-> gemv_fp8_e4m3_pf,
     gemm_fp8_e4m3 |-> gemm_fp8_e4m3, gemm_fp8_e4m3_residual |-> gemm_fp8_e4m3_residual,
     fused_gate_up_swiglu_gemm_fp8_e4m3 |-> fused_gate_up_swiglu_gemm_fp8_e4m3,
     gemv_fp8_e5m2 |-> gemv_fp8_e5m2, gemv_fp8_e5m2_pf |-> gemv_fp8_e5m2_pf,
     gemm_fp8_e5m2 |-> gemm_fp8_e5m2, gemm_fp8_e5m2_residual |-> gemm_fp8_e5m2_residual,
     fused_gate_up_swiglu_gemm_fp8_e5m2 |-> fused_gate_up_swiglu_gemm_fp8_e5m2,
     gemv_q1_g128_v7 |-> gemv_q1_g128_v7,
     gemv_q1_g128_v7_residual |-> gemv_q1_g128_v7_residual,
     gemv_q1_g128_v8 |-> gemv_q1_g128_v8,
     gemv_q1_g128_v8_residual |-> gemv_q1_g128_v8_residual,
     gemv_q1_g128_v9 |-> gemv_q1_g128_v9,
     gemv_q1_g128_v9_residual |-> gemv_q1_g128_v9_residual,
     fused_gate_up_swiglu_q1 |-> fused_gate_up_swiglu_q1,
     gemm_q1_g128_v7 |-> gemm_q1_g128_v7,
     gemm_q1_g128_v7_residual |-> gemm_q1_g128_v7_residual,
     fused_gate_up_swiglu_gemm_q1 |-> fused_gate_up_swiglu_gemm_q1,
     gemv_tq2_g128_v1 |-> gemv_tq2_g128_v1, gemm_tq2_g128_v7 |-> gemm_tq2_g128_v7,
     gemm_tq2_g128_v7_residual |-> gemm_tq2_g128_v7_residual,
     fused_gate_up_swiglu_gemm_tq2 |-> fused_gate_up_swiglu_gemm_tq2,
     metal_gemv_q1_g128_v7 |-> metal_gemv_q1_g128_v7,
     metal_gemv_q1_g128_v7_residual |-> metal_gemv_q1_g128_v7_residual,
     metal_fused_gate_up_swiglu_q1 |-> metal_fused_gate_up_swiglu_q1,
     metal_gemm_q1_g128_v7 |-> metal_gemm_q1_g128_v7,
     metal_gemm_q1_g128_v7_residual |-> metal_gemm_q1_g128_v7_residual,
     metal_fused_gate_up_swiglu_gemm_q1 |-> metal_fused_gate_up_swiglu_gemm_q1,
     metal_gemv_tq2_g128_v1 |-> metal_gemv_tq2_g128_v1,
     metal_gemm_tq2_g128_v7 |-> metal_gemm_tq2_g128_v7,
     metal_gemv_fp8_e4m3 |-> metal_gemv_fp8_e4m3,
     metal_gemv_fp8_e4m3_pf |-> metal_gemv_fp8_e4m3_pf,
     metal_gemm_fp8_e4m3 |-> metal_gemm_fp8_e4m3,
     metal_gemm_fp8_e4m3_residual |-> metal_gemm_fp8_e4m3_residual,
     metal_fused_gate_up_swiglu_gemm_fp8_e4m3 |-> metal_fused_gate_up_swiglu_gemm_fp8_e4m3,
     metal_gemv_fp8_e5m2 |-> metal_gemv_fp8_e5m2,
     metal_gemv_fp8_e5m2_pf |-> metal_gemv_fp8_e5m2_pf,
     metal_gemm_fp8_e5m2 |-> metal_gemm_fp8_e5m2,
     metal_gemm_fp8_e5m2_residual |-> metal_gemm_fp8_e5m2_residual,
     metal_fused_gate_up_swiglu_gemm_fp8_e5m2 |-> metal_fused_gate_up_swiglu_gemm_fp8_e5m2]

-----------------------------------------------------------------------------
(* A launch: a kernel on matrices of some shape, by thread blocks.           *)
K == Kernels[launch.kernel]
F == Formats[K.format]
Rows == launch.shape.rows
Width == launch.shape.width
Batch == IF K.columns = "one" THEN 1 ELSE launch.shape.batch
Blocks == Rows * Width * (IF K.write = "swiglu" THEN 2 ELSE 1)   \* gate over up

\* Where a column's elements for block b are read: first and last of them.  V8
\* copies the column into shared memory, 129 places for each 128 elements.
LoadedAt(a) == (a \div 129) * 128 + (a % 129)
Elements(col, b) ==
    LET n == F.block.weights  at == col * (Width * n) + b * n IN
    IF K.input = "shared" THEN <<LoadedAt(b * 129), LoadedAt(b * 129 + 96 + 31)>>
                          ELSE <<at, at + n - 1>>

\* The warp's sum for a row of blocks from block index first on.
WarpSum(first, col) ==
    LET lane0 == IF K.sum = "shuffle" THEN warp_shuffle[Width] ELSE simd_sum[Width] IN
    [b \in DOMAIN lane0 |->
        <<lane0[b], BlockAt(K.layout, K.stride, F.block.d, Blocks, first + b), Elements(col, b)>>]

NoCell == [old |-> TRUE, residual |-> {}, sums |-> <<>>]     \* what was there before
ZeroCell == [NoCell EXCEPT !.old = FALSE]
Sums(row, col) ==
    IF K.write = "swiglu" THEN <<WarpSum(row * Width, col), WarpSum((Rows + row) * Width, col)>>
                          ELSE <<WarpSum(row * Width, col)>>
Written(row, col) ==
    LET at == col * Rows + row IN
    CASE K.write = "add" -> [out[at] EXCEPT !.sums = @ \o Sums(row, col)]
      [] K.write = "residual" -> [ZeroCell EXCEPT !.residual = {at}, !.sums = Sums(row, col)]
      [] OTHER -> [ZeroCell EXCEPT !.sums = Sums(row, col)]

KernelInit ==
    /\ launch \in [kernel : DOMAIN Kernels, shape : Shapes]
    /\ pending = 0 .. ((Rows + 7) \div 8) - 1
    /\ out = [at \in 0 .. Rows * Batch - 1 |-> IF K.write = "add" THEN ZeroCell ELSE NoCell]

\* One thread block: the rows of its eight warps that exist, in every column.
ThreadBlock(cta) ==
    /\ cta \in pending
    /\ pending' = pending \ {cta}
    /\ LET rows == {r \in {cta * 8 + warp : warp \in 0 .. 7} : r < Rows}
       IN out' = [at \in DOMAIN out |->
                    IF at % Rows \in rows /\ at \div Rows \in Columns(Batch)
                    THEN Written(at % Rows, at \div Rows) ELSE out[at]]
    /\ UNCHANGED launch

KernelNext == \E cta \in pending : ThreadBlock(cta)
KernelSpec == KernelInit /\ [][KernelNext]_kernelVars

-----------------------------------------------------------------------------
\* Row r of matrix m times column c, as the processor has them: the bytes of
\* the blocks in the order of the tensor.
Product(m, r, c) ==
    LET block == F.block
        i(b) == (m * Rows + r) * Width + b
        whole == K.layout = "aos"
        from == IF whole THEN 0 ELSE block.qs
        size == IF whole THEN block.bytes ELSE block.bytes - 2
        n == block.weights
    IN [b \in 0 .. Width - 1 |->
           <<1, <<i(b) * block.bytes + block.d, i(b) * block.bytes + from,
                  i(b) * block.bytes + from + size - 1>>,
             <<(c * Width + b) * n, (c * Width + b) * n + n - 1>>>>]

\* What a launch leaves in a cell.
Result(r, c) ==
    [old |-> FALSE,
     residual |-> IF K.write = "residual" THEN {c * Rows + r} ELSE {},
     sums |-> IF K.write = "swiglu" THEN <<Product(0, r, c), Product(1, r, c)>>
                                    ELSE <<Product(0, r, c)>>]

\* When a launch has ended its output is, in every row and column, the product
\* of the row with the column, nothing left out, doubled or read from the place
\* of another, whatever the order of the thread blocks and however the host has
\* laid the blocks out; the residual of the same place is added where the kernel
\* adds one, and gate and up are of the same row where it joins them.
GpuOutputLikeReference ==
    pending = {} => \A r \in 0 .. Rows - 1, c \in 0 .. Batch - 1 : out[c * Rows + r] = Result(r, c)

\* The bits a kernel takes for a weight are those the processor takes.
GpuBitsLikeReference ==
    pending = {} =>
        /\ Decodes(F.loop, F.reference)
        /\ K.format = "tq2" => \A c \in TernaryCodes : decode_tq2[c] = ternary_decode[c]
        /\ K.format \in {"fp8_e4m3", "fp8_e5m2"} => DecodesFp8
=============================================================================
