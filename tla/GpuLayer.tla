------------------------------- MODULE GpuLayer -------------------------------
(***************************************************************************)
(* The kernel sequences that the CUDA and Metal back ends launch for one   *)
(* forward call: which buffer each kernel reads, which one it writes or    *)
(* adds to, in which order, for one token or for a batch                   *)
(* (pictor-kernels/src/gpu_backend: cuda_full_layer, cuda_prefill,         *)
(* cuda_q_std_prefill, cuda_fp8_prefill, cuda_k_quant_prefill,             *)
(* metal_full_layer, metal_prefill).                                       *)
(*                                                                         *)
(* A value is the term of its computation: <<"mul", <<"qkv", 1>>, x>> is   *)
(* the product of layer 1's QKV weights with x.  Buffers are cells, one    *)
(* for each column, and keep what the last call left in them.  GpuForward  *)
(* says which store a call works on; this module says that what a call     *)
(* computes there is what the CPU's block computes.                        *)
(***************************************************************************)
EXTENDS Integers, Sequences, SequencesExt

CONSTANTS
    Paths,         \* back ends, see Program
    TokenBatches,  \* token sequences a call may be given
    Depth,         \* number of layers
    Slots,         \* positions of the KV cache
    MaxBatch,      \* columns of the batch buffers
    MaxCalls       \* calls of a process

ASSUME SizeAssumption ==
    Depth \in Nat \ {0} /\ Slots \in Nat /\ MaxCalls \in Nat
    /\ MaxBatch \in Nat \ {0}
    /\ \A b \in TokenBatches : b \in Seq(Range(b)) /\ Len(b) \in 1 .. MaxBatch

VARIABLES
    path,      \* the back end of this process
    mem,       \* device buffers, and host buffers that values pass through
    cache,     \* layer -> position -> row
    recorded,  \* CUDA decoding: the captured launches
    seen,      \* tokens of the generation so far
    last,      \* the call that just returned: its kind, and how many tokens
    calls      \* how many there were

layerVars == <<path, mem, cache, recorded, seen, last, calls>>

Zero == <<"zero">>
NoWeight == <<"none", 0>>
Origin == <<"pos", 0, 0>>
NoCall == [kind |-> "none", size |-> 0]

\* Buffers of one token, of a batch, and of the host.
One(b) == <<"one", b, 0>>
Col(b, c) == <<"batch", b, c>>
Host(b) == <<"host", b, 0>>
Cells == {One(b) : b \in {"hidden", "normed", "qkv", "q_rope", "k_rope", "scores", "attn_out",
                          "gate_up", "swiglu", "rope", "pos", "logits"}}
    \cup {Host("hidden")}
    \cup {Col(b, c) : b \in {"hidden", "normed", "qkv", "q_norm", "k_norm", "q_rope", "k_rope",
                             "scores", "attn_out", "gate_up", "swiglu", "rope", "logits"},
                      c \in 0 .. MaxBatch - 1}
-----------------------------------------------------------------------------
(* Launches.  `at` is <<position, sequence length>> where the launch passes  *)
(* them as arguments, and <<>> where the kernel reads them from the device.  *)

Launch(op, w, src, dst) == [op |-> op, w |-> w, src |-> src, dst |-> dst, at |-> <<>>]
At(launch, at) == [launch EXCEPT !.at = at]

RmsNorm(w, x, y) == Launch("rmsnorm", w, <<x>>, y)
Mul(w, x, y) == Launch("mul", w, <<x>>, y)              \* GEMV, or a GEMM that assigns
MulAdd(w, x, y) == Launch("muladd", w, <<x>>, y)        \* a GEMM that accumulates, or adds the residual
GateUpSwiglu(l, x, y) == Launch("mulswiglu", <<"gate_up", l>>, <<x>>, y)
Swiglu(x, y) == Launch("swiglu", NoWeight, <<x>>, y)
ResidualAdd(y, x) == Launch("add", NoWeight, <<x>>, y)
Copy(x, y) == Launch("copy", NoWeight, <<x>>, y)
Fill(y) == Launch("fill", Zero, <<>>, y)
Upload(value, y) == Launch("fill", value, <<>>, y)

\* f(0), ..., f(n - 1), one after the other.
Cols(n, f(_)) == [i \in 1 .. n |-> f(i - 1)]
EachCol(n, f(_)) == FlattenSeq(Cols(n, f))
EachLayer(f(_)) == FlattenSeq([l \in 1 .. Depth |-> f(l)])

Emb(t) == <<"emb", <<t, 0>>>>
Rope(p) == <<"rope", <<"table", p>>>>
PosSeqlen(p) == <<"pos", p, p + 1>>

\* fused_qk_norm_rope to weighted_sum: the same five kernels everywhere.
Attention(l, q, k, qkv, scores, out, at) ==
    << At(Launch("kv_store", <<"kv", l>>, <<k, qkv>>, k), at),
       At(Launch("scores", <<"kv", l>>, <<q>>, scores), at),
       At(Launch("softmax", NoWeight, <<scores>>, scores), at),
       At(Launch("wsum", <<"kv", l>>, <<scores>>, out), at) >>

QkNormRope(l, qkv, rope, q, k) ==
    << Launch("normrope", <<"q", l>>, <<qkv, rope>>, q),
       Launch("normrope", <<"k", l>>, <<qkv, rope>>, k) >>
-----------------------------------------------------------------------------
(* CUDA, one token.                                                          *)

CudaAttnPhaseFromQkv(l) ==
    QkNormRope(l, One("qkv"), One("rope"), One("q_rope"), One("k_rope"))
    \o Attention(l, One("q_rope"), One("k_rope"), One("qkv"), One("scores"), One("attn_out"), <<>>)

CudaAttnPhase(l) ==
    << RmsNorm(<<"attn_norm", l>>, One("hidden"), One("normed")),
       Mul(<<"qkv", l>>, One("normed"), One("qkv")) >>
    \o CudaAttnPhaseFromQkv(l)

CudaAttnPhaseTq2(l) == CudaAttnPhase(l)

\* 1-bit: the projections add to the residual, gate, up and SwiGLU are fused.
FusedRest(l) ==
    << MulAdd(<<"o", l>>, One("attn_out"), One("hidden")),
       RmsNorm(<<"ffn_norm", l>>, One("hidden"), One("normed")),
       GateUpSwiglu(l, One("normed"), One("swiglu")),
       MulAdd(<<"down", l>>, One("swiglu"), One("hidden")) >>

\* Ternary, and the single-layer call: through d_normed, then residual_add.
SteppedRest(l) ==
    << Mul(<<"o", l>>, One("attn_out"), One("normed")),
       ResidualAdd(One("hidden"), One("normed")),
       RmsNorm(<<"ffn_norm", l>>, One("hidden"), One("normed")),
       Mul(<<"gate_up", l>>, One("normed"), One("gate_up")),
       Swiglu(One("gate_up"), One("swiglu")),
       Mul(<<"down", l>>, One("swiglu"), One("normed")),
       ResidualAdd(One("hidden"), One("normed")) >>

CudaLayerDevice(l) == CudaAttnPhase(l) \o FusedRest(l)
CudaLayerTernary(l) == CudaAttnPhaseTq2(l) \o SteppedRest(l)

\* What capture records: all layers, the final norm, back to d_hidden.
CudaLayersDevice == EachLayer(CudaLayerDevice)
CudaLayersTernary == EachLayer(CudaLayerTernary)
FinalNorm == << RmsNorm(<<"norm", 0>>, One("hidden"), One("normed")),
                Copy(One("normed"), One("hidden")) >>

\* (mutant) The position is an argument of the launches and not read from the device.
BakedSequence ==
    LET body == (IF path = "cuda_q1" THEN CudaLayersDevice ELSE CudaLayersTernary) \o FinalNorm
    IN  [i \in DOMAIN body |->
            IF body[i].op \in {"kv_store", "scores", "softmax", "wsum"}
            THEN At(body[i], <<Len(seen), Len(seen) + 1>>) ELSE body[i]]

CudaSequence == (IF path = "cuda_q1" THEN CudaLayersDevice ELSE CudaLayersTernary) \o FinalNorm

\* Position, hidden state and RoPE rows go up before the layers run, the
\* normed state comes down, and the LM head is a call of its own.
CudaUploads(t, p) ==
    << Upload(PosSeqlen(p), One("pos")),
       Upload(Emb(t), One("hidden")),
       Upload(Rope(p), One("rope")) >>
CudaLmHead == << Copy(One("hidden"), Host("hidden")),
                 Mul(<<"lm_head", 0>>, Host("hidden"), One("logits")) >>

CudaTokenForward(t, p) ==
    CudaUploads(t, p) \o (IF recorded = <<>> THEN CudaSequence ELSE recorded) \o CudaLmHead
-----------------------------------------------------------------------------
(* CUDA, a batch: GEMMs that add to their output, and attention token by     *)
(* token in the buffers of one token.                                        *)

\* (mutant) No memset before a GEMM.
UnzeroedMulAdd(w, x, y, n) == Cols(n, LAMBDA c : MulAdd(w, Col(x, c), Col(y, c)))

ZeroedMulAdd(w, x, y, n) ==
    Cols(n, LAMBDA c : Fill(Col(y, c)))
    \o Cols(n, LAMBDA c : MulAdd(w, Col(x, c), Col(y, c)))

BatchedRmsNorm(w, x, y, n) == Cols(n, LAMBDA c : RmsNorm(w, Col(x, c), Col(y, c)))

CudaFfn(l, n) ==
    BatchedRmsNorm(<<"ffn_norm", l>>, "hidden", "normed", n)
    \o Cols(n, LAMBDA c : GateUpSwiglu(l, Col("normed", c), Col("swiglu", c)))
    \o ZeroedMulAdd(<<"down", l>>, "swiglu", "normed", n)
    \o Cols(n, LAMBDA c : ResidualAdd(Col("hidden", c), Col("normed", c)))

CudaFfnQ1(l, n) == CudaFfn(l, n)
CudaFfnTernary(l, n) == CudaFfn(l, n)
CudaFfnQStd(l, n) == CudaFfn(l, n)
CudaFfnFp8(l, n) == CudaFfn(l, n)
\* The K-quant one also clears its activations.
CudaFfnKQuant(l, n) ==
    BatchedRmsNorm(<<"ffn_norm", l>>, "hidden", "normed", n)
    \o Cols(n, LAMBDA c : Fill(Col("swiglu", c)))
    \o Cols(n, LAMBDA c : GateUpSwiglu(l, Col("normed", c), Col("swiglu", c)))
    \o ZeroedMulAdd(<<"down", l>>, "swiglu", "normed", n)
    \o Cols(n, LAMBDA c : ResidualAdd(Col("hidden", c), Col("normed", c)))

\* Norm and QKV of all columns, then perToken for each, then the projection.
CudaBatchLayer(l, n, perToken(_)) ==
    BatchedRmsNorm(<<"attn_norm", l>>, "hidden", "normed", n)
    \o ZeroedMulAdd(<<"qkv", l>>, "normed", "qkv", n)
    \o Cols(n, LAMBDA c : Fill(Col("attn_out", c)))
    \o EachCol(n, LAMBDA c : << Copy(Col("hidden", c), One("hidden")) >> \o perToken(c)
                             \o << Copy(One("attn_out"), Col("attn_out", c)) >>)
    \o ZeroedMulAdd(<<"o", l>>, "attn_out", "normed", n)
    \o Cols(n, LAMBDA c : ResidualAdd(Col("hidden", c), Col("normed", c)))

\* Ternary: the attention phase computes norm and QKV of the token again.
CudaPrefillTernary(l, n, p) ==
    CudaBatchLayer(l, n, LAMBDA c :
        << Upload(PosSeqlen(p + c), One("pos")), Upload(Rope(p + c), One("rope")) >>
        \o CudaAttnPhaseTq2(l))
    \o CudaFfnTernary(l, n)

\* 1-bit: so does this one, and nothing uploads the position.
CudaPrefillQ1(l, n, p) ==
    CudaBatchLayer(l, n, LAMBDA c :
        << Copy(Col("qkv", c), One("qkv")), Upload(Rope(p + c), One("rope")) >>
        \o CudaAttnPhase(l))
    \o CudaFfnQ1(l, n)

\* The others take the columns of the GEMM.
FromColumn(l, p, c) ==
    << Copy(Col("qkv", c), One("qkv")), Upload(Rope(p + c), One("rope")),
       Upload(PosSeqlen(p + c), One("pos")) >>
    \o CudaAttnPhaseFromQkv(l)

CudaPrefillQStd(l, n, p) ==
    CudaBatchLayer(l, n, LAMBDA c : FromColumn(l, p, c)) \o CudaFfnQStd(l, n)
CudaPrefillFp8(l, n, p) ==
    CudaBatchLayer(l, n, LAMBDA c : FromColumn(l, p, c)) \o CudaFfnFp8(l, n)
CudaPrefillKQuant(l, n, p) ==
    CudaBatchLayer(l, n, LAMBDA c : FromColumn(l, p, c)) \o CudaFfnKQuant(l, n)

CudaBatchUpload(batch) == Cols(Len(batch), LAMBDA c : Upload(Emb(batch[c + 1]), Col("hidden", c)))

\* The last column goes through final norm and LM head.
LastColumn(n) ==
    << Copy(Col("hidden", n - 1), One("hidden")),
       RmsNorm(<<"norm", 0>>, One("hidden"), One("normed")) >>

TryCudaPrefill(batch, p) ==
    CudaBatchUpload(batch) \o EachLayer(LAMBDA l : CudaPrefillQ1(l, Len(batch), p))
    \o LastColumn(Len(batch)) \o << Mul(<<"lm_head", 0>>, One("normed"), One("logits")) >>
TryCudaPrefillTernary(batch, p) ==
    CudaBatchUpload(batch) \o EachLayer(LAMBDA l : CudaPrefillTernary(l, Len(batch), p))
    \o LastColumn(Len(batch)) \o << Mul(<<"lm_head", 0>>, One("normed"), One("logits")) >>
TryCudaPrefillQStd(batch, p) ==
    CudaBatchUpload(batch) \o EachLayer(LAMBDA l : CudaPrefillQStd(l, Len(batch), p))
    \o LastColumn(Len(batch)) \o << Mul(<<"lm_head", 0>>, One("normed"), One("logits")) >>
TryCudaPrefillFp8(batch, p) ==
    CudaBatchUpload(batch) \o EachLayer(LAMBDA l : CudaPrefillFp8(l, Len(batch), p))
    \o LastColumn(Len(batch)) \o << Mul(<<"lm_head", 0>>, One("normed"), One("logits")) >>
\* Its LM head is the GEMM that adds, on a logits buffer cleared before.
TryCudaPrefillKQuant(batch, p) ==
    CudaBatchUpload(batch) \o EachLayer(LAMBDA l : CudaPrefillKQuant(l, Len(batch), p))
    \o LastColumn(Len(batch))
    \o << Fill(One("logits")), MulAdd(<<"lm_head", 0>>, One("normed"), One("logits")) >>
-----------------------------------------------------------------------------
(* Metal: positions are arguments, GEMMs assign or add the residual.         *)

MetalAttention(l, p) ==
    << RmsNorm(<<"attn_norm", l>>, One("hidden"), One("normed")),
       Mul(<<"qkv", l>>, One("normed"), One("qkv")) >>
    \o QkNormRope(l, One("qkv"), One("rope"), One("q_rope"), One("k_rope"))
    \o Attention(l, One("q_rope"), One("k_rope"), One("qkv"), One("scores"), One("attn_out"),
                 <<p, p + 1>>)

MetalLayer(l, p) == MetalAttention(l, p) \o FusedRest(l)
MetalLayerTernary(l, p) == MetalAttention(l, p) \o SteppedRest(l)

MetalUploads(t, p) == << Upload(Emb(t), One("hidden")), Upload(Rope(p), One("rope")) >>
MetalTail == << RmsNorm(<<"norm", 0>>, One("hidden"), One("normed")),
                Mul(<<"lm_head", 0>>, One("normed"), One("logits")) >>
MetalTailTernary == MetalTail

MetalForward(t, p) ==
    MetalUploads(t, p) \o EachLayer(LAMBDA l : MetalLayer(l, p)) \o MetalTail
MetalForwardTernary(t, p) ==
    MetalUploads(t, p) \o EachLayer(LAMBDA l : MetalLayerTernary(l, p)) \o MetalTailTernary

\* encode_full_layer(_ternary): one layer, up and down again for each; norm and LM head
\* on the CPU.
MetalFullLayer(l, p) ==
    << Copy(Host("hidden"), One("hidden")), Upload(Rope(p), One("rope")) >>
    \o MetalLayer(l, p) \o << Copy(One("hidden"), Host("hidden")) >>
MetalFullLayerTernary(l, p) ==
    << Copy(Host("hidden"), One("hidden")), Upload(Rope(p), One("rope")) >>
    \o MetalLayerTernary(l, p) \o << Copy(One("hidden"), Host("hidden")) >>
ByLayer(t, f(_)) ==
    << Upload(Emb(t), Host("hidden")) >> \o EachLayer(f)
    \o << RmsNorm(<<"norm", 0>>, Host("hidden"), Host("hidden")),
          Mul(<<"lm_head", 0>>, Host("hidden"), One("logits")) >>

\* One token of a batch; only q and k pass through buffers shared by all.
MetalColumnAttention(l, p, c) ==
    << Launch("qk_norm", <<"q", l>>, <<Col("qkv", c)>>, Col("q_norm", 0)),
       Launch("qk_norm", <<"k", l>>, <<Col("qkv", c)>>, Col("k_norm", 0)),
       Launch("qk_rope", <<"q", l>>, <<Col("q_norm", 0), Col("rope", c)>>, Col("q_rope", 0)),
       Launch("qk_rope", <<"k", l>>, <<Col("k_norm", 0), Col("rope", c)>>, Col("k_rope", 0)) >>
    \o Attention(l, Col("q_rope", 0), Col("k_rope", 0), Col("qkv", c), Col("scores", 0),
                 Col("attn_out", c), <<p + c, p + c + 1>>)

MetalLayerPrefill(l, n, p) ==
    BatchedRmsNorm(<<"attn_norm", l>>, "hidden", "normed", n)
    \o Cols(n, LAMBDA c : Mul(<<"qkv", l>>, Col("normed", c), Col("qkv", c)))
    \o EachCol(n, LAMBDA c : MetalColumnAttention(l, p, c))
    \o Cols(n, LAMBDA c : MulAdd(<<"o", l>>, Col("attn_out", c), Col("hidden", c)))
    \o BatchedRmsNorm(<<"ffn_norm", l>>, "hidden", "normed", n)
    \o Cols(n, LAMBDA c : GateUpSwiglu(l, Col("normed", c), Col("swiglu", c)))
    \o Cols(n, LAMBDA c : MulAdd(<<"down", l>>, Col("swiglu", c), Col("hidden", c)))

MetalLayerPrefillTernary(l, n, p) ==
    BatchedRmsNorm(<<"attn_norm", l>>, "hidden", "normed", n)
    \o Cols(n, LAMBDA c : Mul(<<"qkv", l>>, Col("normed", c), Col("qkv", c)))
    \o EachCol(n, LAMBDA c : MetalColumnAttention(l, p, c))
    \o Cols(n, LAMBDA c : Mul(<<"o", l>>, Col("attn_out", c), Col("normed", c)))
    \o Cols(n, LAMBDA c : ResidualAdd(Col("hidden", c), Col("normed", c)))
    \o BatchedRmsNorm(<<"ffn_norm", l>>, "hidden", "normed", n)
    \o Cols(n, LAMBDA c : Mul(<<"gate_up", l>>, Col("normed", c), Col("gate_up", c)))
    \o Cols(n, LAMBDA c : Swiglu(Col("gate_up", c), Col("swiglu", c)))
    \o Cols(n, LAMBDA c : Mul(<<"down", l>>, Col("swiglu", c), Col("normed", c)))
    \o Cols(n, LAMBDA c : ResidualAdd(Col("hidden", c), Col("normed", c)))

MetalBatchUpload(batch, p) ==
    Cols(Len(batch), LAMBDA c : Upload(Emb(batch[c + 1]), Col("hidden", c)))
    \o Cols(Len(batch), LAMBDA c : Upload(Rope(p + c), Col("rope", c)))

\* A prompt is asked for its last column, a draft for every one of them.
PromptTail(n) == << RmsNorm(<<"norm", 0>>, Col("hidden", n - 1), Col("normed", 0)),
                    Mul(<<"lm_head", 0>>, Col("normed", 0), Col("logits", 0)) >>
VerifyTail(n) == BatchedRmsNorm(<<"norm", 0>>, "hidden", "normed", n)
              \o Cols(n, LAMBDA c : Mul(<<"lm_head", 0>>, Col("normed", c), Col("logits", c)))

MetalPrefill(batch, p) ==
    MetalBatchUpload(batch, p) \o EachLayer(LAMBDA l : MetalLayerPrefill(l, Len(batch), p))
    \o PromptTail(Len(batch))
MetalPrefillVerify(batch, p) ==
    MetalBatchUpload(batch, p) \o EachLayer(LAMBDA l : MetalLayerPrefill(l, Len(batch), p))
    \o VerifyTail(Len(batch))
MetalPrefillTernary(batch, p) ==
    MetalBatchUpload(batch, p) \o EachLayer(LAMBDA l : MetalLayerPrefillTernary(l, Len(batch), p))
    \o PromptTail(Len(batch))
MetalPrefillVerifyTernary(batch, p) ==
    MetalBatchUpload(batch, p) \o EachLayer(LAMBDA l : MetalLayerPrefillTernary(l, Len(batch), p))
    \o VerifyTail(Len(batch))
-----------------------------------------------------------------------------
\* Which calls a back end knows ("token": one token; "prompt", "verify": a
\* batch), and the launches of each, behind p tokens.
Program(kind, batch, p) ==
    CASE kind = "token" /\ path \in {"cuda_q1", "cuda_ternary"} -> CudaTokenForward(batch[1], p)
      [] kind = "token" /\ path = "metal_q1" -> MetalForward(batch[1], p)
      [] kind = "token" /\ path = "metal_ternary" -> MetalForwardTernary(batch[1], p)
      [] kind = "token" /\ path = "metal_block" ->
             ByLayer(batch[1], LAMBDA l : MetalFullLayer(l, p))
      [] kind = "token" /\ path = "metal_block_ternary" ->
             ByLayer(batch[1], LAMBDA l : MetalFullLayerTernary(l, p))
      [] kind = "prompt" /\ path = "metal_q1" -> MetalPrefill(batch, p)
      [] kind = "verify" /\ path = "metal_q1" -> MetalPrefillVerify(batch, p)
      [] kind = "prompt" /\ path = "metal_ternary" -> MetalPrefillTernary(batch, p)
      [] kind = "verify" /\ path = "metal_ternary" -> MetalPrefillVerifyTernary(batch, p)
      [] kind = "prompt" /\ path = "cuda_prefill_q1" -> TryCudaPrefill(batch, p)
      [] kind = "prompt" /\ path = "cuda_prefill_ternary" -> TryCudaPrefillTernary(batch, p)
      [] kind = "prompt" /\ path = "cuda_prefill_q_std" -> TryCudaPrefillQStd(batch, p)
      [] kind = "prompt" /\ path = "cuda_prefill_fp8" -> TryCudaPrefillFp8(batch, p)
      [] kind = "prompt" /\ path = "cuda_prefill_k_quant" -> TryCudaPrefillKQuant(batch, p)
      [] OTHER -> <<>>

\* Addition to a cleared buffer assigns.
Plus(x, y) == IF x = Zero THEN y ELSE <<"add", NoWeight, x, y>>

\* What one launch makes of the device d = [mem, cache].
Pos(launch, d) == IF launch.at = <<>> THEN d.mem[One("pos")][2] ELSE launch.at[1]
SeqLen(launch, d) == IF launch.at = <<>> THEN d.mem[One("pos")][3] ELSE launch.at[2]
Rows(launch, d, what) == [p \in 1 .. SeqLen(launch, d) |-> d.cache[launch.w[2]][p - 1][what]]

Value(launch, d) ==
    LET in(i) == d.mem[launch.src[i]]
        old == d.mem[launch.dst]
        w == launch.w
    IN  CASE launch.op = "fill" -> w
          [] launch.op = "copy" -> in(1)
          [] launch.op = "add" -> Plus(old, in(1))
          [] launch.op = "muladd" -> Plus(old, <<"mul", w, in(1)>>)
          [] launch.op = "mulswiglu" -> <<"swiglu", NoWeight, <<"mul", w, in(1)>>>>
          [] launch.op = "normrope" -> <<"qk_rope", w, <<"qk_norm", w, in(1)>>, in(2)>>
          [] launch.op = "qk_rope" -> <<"qk_rope", w, in(1), in(2)>>
          [] launch.op = "scores" -> <<"scores", w, in(1), Rows(launch, d, "k")>>
          [] launch.op = "wsum" -> <<"wsum", w, in(1), Rows(launch, d, "v")>>
          [] OTHER -> <<launch.op, w, in(1)>>

Put(d, cell, v) == [d EXCEPT !.mem[cell] = v]
StoreRow(d, l, p, row) == [d EXCEPT !.cache[l][p] = row]

Apply(launch, d) ==
    IF launch.op = "kv_store"
    THEN StoreRow(d, launch.w[2], Pos(launch, d),
               [k |-> d.mem[launch.src[1]], v |-> <<"v", launch.w, d.mem[launch.src[2]]>>])
    ELSE Put(d, launch.dst, Value(launch, d))

\* One stream: the launches take effect in their order.
Run(launches) ==
    LET d[i \in 0 .. Len(launches)] ==
            IF i = 0 THEN [mem |-> mem, cache |-> cache] ELSE Apply(launches[i], d[i - 1])
    IN  d[Len(launches)]

NoRow == [k |-> Zero, v |-> Zero]

LayerInit ==
    /\ path \in Paths
    /\ mem = [c \in Cells |-> IF c = One("pos") THEN Origin ELSE Zero]
    /\ cache = [l \in 1 .. Depth |-> [p \in 0 .. Slots - 1 |-> NoRow]]
    /\ recorded = <<>>
    /\ seen = <<>>
    /\ last = NoCall
    /\ calls = 0

\* A call behind the tokens seen so far.  The first CUDA decode call records
\* its launches once its own result is down.
Call(kind, batch) ==
    /\ calls < MaxCalls
    /\ calls' = calls + 1
    /\ Len(seen) + Len(batch) <= Slots
    /\ kind = "token" => Len(batch) = 1
    /\ LET launches == Program(kind, batch, Len(seen))
           device == Run(launches)
       IN  /\ launches # <<>>
           /\ mem' = device.mem
           /\ cache' = device.cache
    /\ seen' = seen \o batch
    /\ last' = [kind |-> kind, size |-> Len(batch)]
    /\ recorded' = IF path \in {"cuda_q1", "cuda_ternary"} /\ recorded = <<>>
                   THEN CudaSequence ELSE recorded
    /\ UNCHANGED path

\* A new generation, or rejected tokens of a draft: rows stay behind.
Rewind(n) ==
    /\ n < Len(seen)
    /\ n = 0 \/ path \in {"metal_q1", "metal_ternary"}
    /\ seen' = SubSeq(seen, 1, n)
    /\ last' = NoCall
    /\ UNCHANGED <<path, mem, cache, recorded, calls>>

LayerNext ==
    \/ \E kind \in {"token", "prompt", "verify"}, batch \in TokenBatches : Call(kind, batch)
    \/ \E n \in 0 .. Slots : Rewind(n)

LayerSpec == LayerInit /\ [][LayerNext]_layerVars
-----------------------------------------------------------------------------
(* The reference: TransformerBlock::forward on the CPU for every position.   *)

RefQkv(l, hs, p) == <<"mul", <<"qkv", l>>, <<"rmsnorm", <<"attn_norm", l>>, hs[p]>>>>
RefRope(l, what, hs, p) ==
    <<"qk_rope", <<what, l>>, <<"qk_norm", <<what, l>>, RefQkv(l, hs, p)>>, Rope(p - 1)>>
RefRow(l, hs, p) == [k |-> RefRope(l, "k", hs, p), v |-> <<"v", <<"kv", l>>, RefQkv(l, hs, p)>>]

RefAttention(l, hs, p) ==
    LET rows == [i \in 1 .. p |-> RefRow(l, hs, i)]
        scores == <<"scores", <<"kv", l>>, RefRope(l, "q", hs, p), [i \in 1 .. p |-> rows[i].k]>>
    IN  <<"wsum", <<"kv", l>>, <<"softmax", NoWeight, scores>>, [i \in 1 .. p |-> rows[i].v]>>

RefBlock(l, hs, p) ==
    LET x == Plus(hs[p], <<"mul", <<"o", l>>, RefAttention(l, hs, p)>>)
        gate == <<"mul", <<"gate_up", l>>, <<"rmsnorm", <<"ffn_norm", l>>, x>>>>
    IN  Plus(x, <<"mul", <<"down", l>>, <<"swiglu", NoWeight, gate>>>>)

\* Hidden states of a token sequence after each layer.
RefHidden(toks) ==
    LET h[l \in 0 .. Depth] ==
            IF l = 0 THEN [p \in DOMAIN toks |-> Emb(toks[p])]
            ELSE LET hs == h[l - 1] IN [p \in DOMAIN toks |-> RefBlock(l, hs, p)]
    IN  h

RefLogits(hs, p) == <<"mul", <<"lm_head", 0>>, <<"rmsnorm", <<"norm", 0>>, hs[p]>>>>
-----------------------------------------------------------------------------
\* The 1-bit batch prefill of CUDA never says where its tokens are.
KnowsItsPosition == path # "cuda_prefill_q1"

Logits(c) == mem[IF path \in {"metal_q1", "metal_ternary"} /\ last.kind # "token"
                 THEN Col("logits", c) ELSE One("logits")]

\* The logits that a call hands back are those of the CPU, block by block
\* over the whole prefix, whatever the buffers held before.
LogitsLikeReference ==
    last # NoCall /\ KnowsItsPosition =>
        LET hs == RefHidden(seen)[Depth]
            first == Len(seen) - last.size + 1
        IN  IF last.kind = "verify"
            THEN \A c \in 0 .. last.size - 1 : Logits(c) = RefLogits(hs, first + c)
            ELSE Logits(0) = RefLogits(hs, Len(seen))

\* So are the KV rows, in every layer and for every token of the generation.
RowsLikeReference ==
    KnowsItsPosition =>
        LET h == RefHidden(seen)
        IN  \A l \in 1 .. Depth, p \in DOMAIN seen :
                cache[l][p - 1] = RefRow(l, h[l - 1], p)

\* What a forward call of the GPU computes and leaves behind is what the CPU
\* does over the whole prefix, whatever path the call takes.
LayersLikeReference == LogitsLikeReference /\ RowsLikeReference
=============================================================================
