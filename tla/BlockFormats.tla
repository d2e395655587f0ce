----------------------------- MODULE BlockFormats -----------------------------
(* The quantised block formats of pictor-core as the processor decodes them: *)
(* which bits of a block make up the code, the scale and the minimum of each *)
(* of its weights.  A weight stands for                                      *)
(*     d * (scale - bias) * (code - zero) - dmin * min                       *)
(* where an absent scale is 1 and an absent minimum 0.  The reference the    *)
(* kernels of GpuKernels are held to.                                        *)
EXTENDS Integers, Sequences

CONSTANT TernaryCodes       \* the codes that occur in the blocks of the files

\* Bits shift .. shift + width - 1 of a byte of the block; a signed byte.
Field(byte, shift, width) == <<byte, shift, width, 0>>
SignedByte(byte) == <<byte, 0, 8, 1>>

\* A weight from its fields, low bits first; d and dmin are byte offsets.
Plain(d, code, zero) ==
    [d |-> d, code |-> code, zero |-> zero, scale |-> <<>>, bias |-> 0, min |-> <<>>]
Scaled(d, scale, bias, code, zero) ==
    [Plain(d, code, zero) EXCEPT !.scale = scale, !.bias = bias]
WithMin(d, scale, dmin, min, code) ==
    [Scaled(d, scale, 0, code, 0) EXCEPT !.min = <<dmin>> \o min]

-----------------------------------------------------------------------------
(* The structures, in the order of their fields (repr(C)).                   *)
BlockQ2K == [bytes |-> 84, weights |-> 256, scales |-> 0, qs |-> 16, d |-> 80, dmin |-> 82]
BlockQ3K == [bytes |-> 110, weights |-> 256, hmask |-> 0, qs |-> 32, scales |-> 96, d |-> 108]
BlockQ4K == [bytes |-> 144, weights |-> 256, d |-> 0, dmin |-> 2, scales |-> 4, qs |-> 16]
BlockQ5K == [bytes |-> 176, weights |-> 256, d |-> 0, dmin |-> 2, scales |-> 4, qh |-> 16, qs |-> 48]
BlockQ6K == [bytes |-> 210, weights |-> 256, ql |-> 0, qh |-> 128, scales |-> 192, d |-> 208]
BlockQ8K == [bytes |-> 292, weights |-> 256, d |-> 0, qs |-> 4]
BlockQ4_0 == [bytes |-> 18, weights |-> 32, d |-> 0, qs |-> 2]
BlockQ8_0 == [bytes |-> 34, weights |-> 32, d |-> 0, qs |-> 2]
BlockFP8 == [bytes |-> 34, weights |-> 32, qs |-> 0, d |-> 32]
BlockQ1_0G128 == [bytes |-> 18, weights |-> 128, d |-> 0, qs |-> 2]
BlockTQ2_0_g128 == [bytes |-> 34, weights |-> 128, qs |-> 0, d |-> 32]
BlockTQ2_0 == [bytes |-> 66, weights |-> 256, qs |-> 0, d |-> 64]

-----------------------------------------------------------------------------
(* The decoders: weight i of a block.                                        *)
Q2K_dequant == [i \in 0 .. 255 |->
    WithMin(BlockQ2K.d, <<Field(BlockQ2K.scales + i \div 16, 0, 4)>>,
            BlockQ2K.dmin, <<Field(BlockQ2K.scales + i \div 16, 4, 4)>>,
            <<Field(BlockQ2K.qs + i \div 4, 2 * (i % 4), 2)>>)]

Q3K_dequant == [i \in 0 .. 255 |->
    LET sub == i \div 16 IN
    Scaled(BlockQ3K.d, <<Field(BlockQ3K.scales + sub \div 2, 4 * (sub % 2), 4)>>, 8,
           <<Field(BlockQ3K.qs + i \div 4, 2 * (i % 4), 2),
             Field(BlockQ3K.hmask + i \div 8, i % 8, 1)>>, 4)]

\* The six bits of scale and of minimum j: four, and two of another byte.
decode_q4k_scales(at) ==
    [sc |-> [j \in 0 .. 7 |-> <<Field(at + j \div 2, 4 * (j % 2), 4),
                                Field(at + 8 + j \div 4, 2 * (j % 4), 2)>>],
     mn |-> [j \in 0 .. 7 |-> <<Field(at + 4 + j \div 2, 4 * (j % 2), 4),
                                Field(at + 10 + j \div 4, 2 * (j % 4), 2)>>]]

Q4K_dequant == [i \in 0 .. 255 |->
    LET s == decode_q4k_scales(BlockQ4K.scales) IN
    WithMin(BlockQ4K.d, s.sc[i \div 32], BlockQ4K.dmin, s.mn[i \div 32],
            <<Field(BlockQ4K.qs + i \div 2, 4 * (i % 2), 4)>>)]

Q5K_dequant == [i \in 0 .. 255 |->
    LET s == decode_q4k_scales(BlockQ5K.scales) IN
    WithMin(BlockQ5K.d, s.sc[i \div 32], BlockQ5K.dmin, s.mn[i \div 32],
            <<Field(BlockQ5K.qs + i \div 2, 4 * (i % 2), 4),
              Field(BlockQ5K.qh + i \div 8, i % 8, 1)>>)]

Q6K_dequant == [i \in 0 .. 255 |->
    Scaled(BlockQ6K.d, <<SignedByte(BlockQ6K.scales + i \div 16)>>, 0,
           <<Field(BlockQ6K.ql + i \div 2, 4 * (i % 2), 4),
             Field(BlockQ6K.qh + i \div 4, 2 * (i % 4), 2)>>, 32)]

Q8K_dequant == [i \in 0 .. 255 |-> Plain(BlockQ8K.d, <<SignedByte(BlockQ8K.qs + i)>>, 0)]

Q4_0_dequant == [i \in 0 .. 31 |->
    Plain(BlockQ4_0.d, <<Field(BlockQ4_0.qs + i \div 2, 4 * (i % 2), 4)>>, 8)]

Q8_0_dequant == [i \in 0 .. 31 |-> Plain(BlockQ8_0.d, <<SignedByte(BlockQ8_0.qs + i)>>, 0)]

FP8_dequant == [i \in 0 .. 31 |-> Plain(BlockFP8.d, <<Field(BlockFP8.qs + i, 0, 8)>>, 0)]

\* A set bit is +d and a clear one -d.
sign_bit == [i \in 0 .. 127 |->
    Plain(BlockQ1_0G128.d, <<Field(BlockQ1_0G128.qs + i \div 8, i % 8, 1)>>, 0)]

\* What a ternary code stands for; 3 is reserved, the quantisers never write it.
ternary_decode == [code \in 0 .. 3 |->
    CASE code = 0 -> -1 [] code = 1 -> 0 [] code = 2 -> 1 [] OTHER -> 0]
TQ2_dequant == [i \in 0 .. 127 |->
    Plain(BlockTQ2_0_g128.d, <<Field(BlockTQ2_0_g128.qs + i \div 4, 2 * (i % 4), 2)>>, 0)]
TQ2_0_dequant == [i \in 0 .. 255 |->
    Plain(BlockTQ2_0.d, <<Field(BlockTQ2_0.qs + i \div 4, 2 * (i % 4), 2)>>, 0)]

-----------------------------------------------------------------------------
(* The eight-bit floats: a finite code is (-1)^s * m * 2^e.                  *)
Bits(byte, shift, width) == (byte \div 2 ^ shift) % 2 ^ width
\* The same number with an odd m, so that equal values are equal records.
Dyadic(s, m, e) ==
    IF m = 0 THEN [s |-> s, m |-> 0, e |-> 0]
    ELSE LET t == CHOOSE j \in 0 .. 24 : m % 2 ^ j = 0 /\ m % 2 ^ (j + 1) # 0
         IN [s |-> s, m |-> m \div 2 ^ t, e |-> e + t]
NotFinite == [s |-> 0, m |-> -1, e |-> 0]

fp8_e4m3_decode(byte) ==
    LET s == Bits(byte, 7, 1)  exp == Bits(byte, 3, 4)  man == Bits(byte, 0, 3)
    IN CASE exp = 15 /\ man = 7 -> NotFinite
         [] exp = 0 -> Dyadic(s, man, -3 - 6)
         [] OTHER -> Dyadic(s, 8 + man, -3 + exp - 7)

fp8_e5m2_decode(byte) ==
    LET s == Bits(byte, 7, 1)  exp == Bits(byte, 2, 5)  man == Bits(byte, 0, 2)
    IN CASE exp = 31 -> NotFinite
         [] exp = 0 -> Dyadic(s, man, -2 - 14)
         [] OTHER -> Dyadic(s, 4 + man, -2 + exp - 15)
=============================================================================
