----------------------------- MODULE ImageForward -----------------------------
(***************************************************************************)
(* The diffusion transformer of pictor-image and its two ways to run       *)
(* (src/crates/pictor-image/src/forward.rs, blocks.rs, math.rs,            *)
(* cuda_gpu.rs; pictor-kernels/src/gpu_backend/cuda_graph:                 *)
(* cudagraph_dit_block_group, cudagraph_dit_double_block_group,            *)
(* cudagraph_imagen_dit_glue_group).  A block runs fused on the GPU, over  *)
(* buffers that stay there, or, when that is off or fails, operation by    *)
(* operation on the host's streams; all single blocks together are tried   *)
(* first.                                                                  *)
(*                                                                         *)
(* Tensors are flat, as in the code: functions on 0 .. n - 1.  An element  *)
(* is the fingerprint of the term that computes it, so the elements of two *)
(* computations agree when these are the same operations on the same       *)
(* operands.  Offsets, strides and what lands where are the code's own.    *)
(***************************************************************************)
EXTENDS Integers, Sequences, SequencesExt, TLC

CONSTANTS
    Heads, HeadDim, FfnInner,   \* the model's sizes
    InChannels, JointDim,
    SeqTxt, SeqImg,             \* tokens of the prompt, patches of the image
    NumDoubleLayers,            \* double blocks
    NumSingleLayers,            \* single blocks
    Steps,                      \* denoising steps
    Faults                      \* when a fused call may fail: "encode", "download"

ASSUME ImageAssumption ==
    /\ {Heads, FfnInner, InChannels, JointDim, SeqTxt, SeqImg, Steps} \subseteq Nat \ {0}
    /\ HeadDim \in Nat \ {0} /\ HeadDim % 2 = 0
    /\ NumDoubleLayers \in Nat /\ NumSingleLayers \in Nat
    /\ Faults \subseteq {"encode", "download"}

VARIABLES
    ditAt,      \* what comes next: <<kind of step, its number>>
    denoised,   \* denoising steps done
    latents,
    stage0,     \* what run_stage0 made of them
    hidden,     \* image stream
    enc,        \* text stream
    joint,      \* both, text first
    fused,      \* the GPU is there, and PICTOR_DIT_FUSED is not 0
    taps,       \* the caller wants to see every single block
    perOp       \* what latents, hidden, enc and joint are without the fused calls

imageVars == <<ditAt, denoised, latents, stage0, hidden, enc, joint, fused, taps, perOp>>

HiddenSize == Heads * HeadDim
Half == HeadDim \div 2
SeqJoint == SeqTxt + SeqImg
QkvWidth == 3 * HiddenSize
MlpWidth == 2 * FfnInner
ProjOut == QkvWidth + MlpWidth
CatWidth == HiddenSize + FfnInner
-----------------------------------------------------------------------------
(* Elements and tensors.                                                     *)

Names == <<"noise", "cond", "angle", "norm", "modulate", "mul", "rms", "rope", "attn", "swiglu",
           "gated", "silu", "sinus", "ada", "step", "x_embedder", "context_embedder",
           "linear_1", "linear_2", "mod_img", "mod_txt", "mod_single", "norm_out", "proj_out",
           "to_q", "to_k", "to_v", "add_q_proj", "add_k_proj", "add_v_proj", "to_out.0",
           "to_add_out", "ff.linear_in", "ff.linear_out", "ff_context.linear_in",
           "ff_context.linear_out", "norm_q", "norm_k", "norm_added_q", "norm_added_k",
           "to_qkv_mlp_proj", "to_out", "single_norm_q", "single_norm_k">>
Number == [n \in {Names[i] : i \in DOMAIN Names} |-> CHOOSE i \in DOMAIN Names : Names[i] = n] @@ <<>>

Fingerprint(op, args) ==
    FoldLeft(LAMBDA h, a : (h * 1009 + a + 1) % 32749, Number[op], args)

\* The tensor f(0), ..., f(n - 1); the comparison has TLC compute it once.
Tensor(n, f(_)) == CHOOSE x \in {[i \in 0 .. n - 1 |-> f(i)]} : x = x
Size(x) == IF DOMAIN x = {} THEN 0 ELSE 1 + CHOOSE i \in DOMAIN x : \A j \in DOMAIN x : j <= i
RowOf(x, r, width) == [c \in 1 .. width |-> x[r * width + c - 1]]
Slice(x, from, to) == Tensor(to - from, LAMBDA i : x[from + i])
Appended(x, nx, y, ny) == Tensor(nx + ny, LAMBDA i : IF i < nx THEN x[i] ELSE y[i - nx])
\* A weight: its name, and the block it is of.
Weight(name, block) == <<Number[name], block>>
-----------------------------------------------------------------------------
(* math.rs, and the kernels of the same names.                               *)

\* dense_matmul, ternary_matmul, gemm_tq2: rows of x times the n rows of w.
Matmul(w, x, m, n, k) ==
    Tensor(m * n, LAMBDA i : Fingerprint("mul", w \o <<i % n>> \o RowOf(x, i \div n, k)))

LayerNorm(x, rows, dim) ==
    Tensor(rows * dim, LAMBDA i : Fingerprint("norm", <<i % dim>> \o RowOf(x, i \div dim, dim)))

Modulate(x, rows, dim, m) ==
    Tensor(rows * dim,
           LAMBDA i : Fingerprint("modulate", <<x[i], m.shift[i % dim], m.scale[i % dim]>>))

RmsNormHeads(x, rows, w) ==
    Tensor(rows * HeadDim,
           LAMBDA i : Fingerprint("rms", w \o <<i % HeadDim>> \o RowOf(x, i \div HeadDim, HeadDim)))

\* Adjacent pairs turn by the angle of their token.
ApplyRope(x, seq, rope) ==
    Tensor(Heads * seq * HeadDim, LAMBDA i :
        LET t == (i \div HeadDim) % seq
            d == i % HeadDim
            even == i - (d % 2)
        IN  Fingerprint("rope", <<d % 2, rope[t * Half + d \div 2], x[even], x[even + 1]>>))

\* Head-major in, token-major out; every token attends to all of them.
JointAttention(q, k, v, seq) ==
    Tensor(seq * HiddenSize, LAMBDA i :
        LET qi == i \div HiddenSize
            h == (i % HiddenSize) \div HeadDim
            d == i % HeadDim
            HeadKeys == FlattenSeq([ki \in 1 .. seq |-> RowOf(k, h * seq + ki - 1, HeadDim)])
            HeadValues == [ki \in 1 .. seq |-> v[(h * seq + ki - 1) * HeadDim + d]]
        IN  Fingerprint("attn", RowOf(q, h * seq + qi, HeadDim) \o HeadKeys \o HeadValues))

DitSwiglu(x, rows, half) ==
    Tensor(rows * half, LAMBDA i :
        LET at == (i \div half) * 2 * half + (i % half)
        IN  Fingerprint("swiglu", <<x[at], x[at + half]>>))

GatedResidualAdd(h, delta, gate, rows, dim) ==
    Tensor(rows * dim, LAMBDA i : Fingerprint("gated", <<h[i], gate[i % dim], delta[i]>>))

ToHeads(x, seq) ==
    Tensor(seq * HiddenSize, LAMBDA i :
        LET h == i \div (seq * HeadDim)
            t == (i \div HeadDim) % seq
        IN  x[t * HiddenSize + h * HeadDim + (i % HeadDim)])

\* The two reshaping kernels.
TokensToHeads(src, seq, stride, off) ==
    Tensor(Heads * seq * HeadDim, LAMBDA i :
        LET t == (i \div HeadDim) % seq
            h == (i \div HeadDim) \div seq
        IN  src[t * stride + off + h * HeadDim + (i % HeadDim)])

StridedRowCopy(dst, src, rows, cols, dstStride, dstOff, srcStride, srcOff) ==
    Tensor(Size(dst), LAMBDA i :
        LET Hits == {p \in (0 .. rows - 1) \X (0 .. cols - 1) : p[1] * dstStride + dstOff + p[2] = i}
        IN  IF Hits = {} THEN dst[i]
            ELSE LET hit == CHOOSE p \in Hits : TRUE
                 IN  src[hit[1] * srcStride + srcOff + hit[2]])

ZeroTensor(n) == Tensor(n, LAMBDA i : 0)
-----------------------------------------------------------------------------
(* forward.rs: what all blocks share.                                        *)

Silu(x) == Tensor(Size(x), LAMBDA i : Fingerprint("silu", <<x[i]>>))

TimeEmbedding(t) ==
    LET sinus == Tensor(2, LAMBDA i : Fingerprint("sinus", <<i, t>>))
        h == Matmul(Weight("linear_1", 0), sinus, 1, HiddenSize, 2)
    IN  Matmul(Weight("linear_2", 0), Silu(h), 1, HiddenSize, HiddenSize)

\* sets times (shift, scale, gate), one after the other in a row.
Modulation(name, temb, sets) ==
    LET proj == Matmul(Weight(name, 0), Silu(temb), 1, sets * 3 * HiddenSize, HiddenSize)
        Part(base) == Slice(proj, base, base + HiddenSize)
    IN  [s \in 1 .. sets |->
            LET base == (s - 1) * 3 * HiddenSize
            IN  [shift |-> Part(base), scale |-> Part(base + HiddenSize),
                 gate |-> Part(base + 2 * HiddenSize)]]

\* A pair's angle comes from the ids of its token; text tokens come first.
RopeTables(ids, seq) ==
    Tensor(seq * Half, LAMBDA i : Fingerprint("angle", <<i % Half, ids[i \div Half]>>))
TxtIds == [t \in 0 .. SeqTxt - 1 |-> t]
ImgIds == [t \in 0 .. SeqImg - 1 |-> 100 + t]

Conditioning == Tensor(SeqTxt * JointDim, LAMBDA i : Fingerprint("cond", <<i>>))

RunStage0(x, t) ==
    LET temb == TimeEmbedding(t)
        mi == Modulation("mod_img", temb, 2)
        mt == Modulation("mod_txt", temb, 2)
    IN  [x_emb |-> Matmul(Weight("x_embedder", 0), x, SeqImg, HiddenSize, InChannels),
         ctx_emb |-> Matmul(Weight("context_embedder", 0), Conditioning, SeqTxt, HiddenSize, JointDim),
         rope |-> Appended(RopeTables(TxtIds, SeqTxt), SeqTxt * Half,
                           RopeTables(ImgIds, SeqImg), SeqImg * Half),
         mod_img |-> [msa |-> mi[1], mlp |-> mi[2]],
         mod_txt |-> [msa |-> mt[1], mlp |-> mt[2]],
         mod_single |-> Modulation("mod_single", temb, 1)[1],
         temb |-> temb]

AdaLayerNormContinuous(x, temb) ==
    LET te == Matmul(Weight("norm_out", 0), Silu(temb), 1, 2 * HiddenSize, HiddenSize)
        y == LayerNorm(x, SeqImg, HiddenSize)
    IN  Tensor(SeqImg * HiddenSize, LAMBDA i :
            Fingerprint("ada", <<y[i], te[i % HiddenSize], te[HiddenSize + (i % HiddenSize)]>>))

\* The image's part of the joint stream, to the predicted noise.
Noise(j, s) ==
    LET part == Slice(j, SeqTxt * HiddenSize, SeqJoint * HiddenSize)
    IN  Matmul(Weight("proj_out", 0), AdaLayerNormContinuous(part, s.temb), SeqImg, InChannels, HiddenSize)

Denoise(x, step, noise) == Tensor(Size(x), LAMBDA i : Fingerprint("step", <<step, x[i], noise[i]>>))
InitLatents == Tensor(SeqImg * InChannels, LAMBDA i : Fingerprint("noise", <<i>>))
-----------------------------------------------------------------------------
(* blocks.rs: operation by operation.                                        *)

FeedForward(in, out, block, x, seq) ==
    LET proj == Matmul(Weight(in, block), x, seq, MlpWidth, HiddenSize)
    IN  Matmul(Weight(out, block), DitSwiglu(proj, seq, FfnInner), seq, HiddenSize, FfnInner)

NormModulate(x, seq, m) == Modulate(LayerNorm(x, seq, HiddenSize), seq, HiddenSize, m)

\* The images' weights and norms, then the texts'.
ImgAttn == [q |-> "to_q", k |-> "to_k", v |-> "to_v", norm_q |-> "norm_q", norm_k |-> "norm_k"]
TxtAttn == [q |-> "add_q_proj", k |-> "add_k_proj", v |-> "add_v_proj",
            norm_q |-> "norm_added_q", norm_k |-> "norm_added_k"]

ProjectQkv(x, w, block, seq) ==
    LET Heading(name) == ToHeads(Matmul(Weight(name, block), x, seq, HiddenSize, HiddenSize), seq)
    IN  [q |-> RmsNormHeads(Heading(w.q), Heads * seq, Weight(w.norm_q, block)),
         k |-> RmsNormHeads(Heading(w.k), Heads * seq, Weight(w.norm_k, block)),
         v |-> Heading(w.v)]

\* [H, sa, d] and [H, sb, d] to [H, sa + sb, d].
ConcatHeads(a, b, sa, sb) ==
    Tensor(Heads * (sa + sb) * HeadDim, LAMBDA i :
        LET h == i \div ((sa + sb) * HeadDim)
            at == i % ((sa + sb) * HeadDim)
        IN  IF at < sa * HeadDim THEN a[h * sa * HeadDim + at]
            ELSE b[h * sb * HeadDim + at - sa * HeadDim])

AttendJointly(txt, img, s) ==
    LET Both(x, y) == ConcatHeads(x, y, SeqTxt, SeqImg)
    IN  JointAttention(ApplyRope(Both(txt.q, img.q), SeqJoint, s.rope),
                       ApplyRope(Both(txt.k, img.k), SeqJoint, s.rope),
                       Both(txt.v, img.v), SeqJoint)

AttnToOut(i, attn) ==
    [img |-> Matmul(Weight("to_out.0", i), Slice(attn, SeqTxt * HiddenSize, SeqJoint * HiddenSize),
                    SeqImg, HiddenSize, HiddenSize),
     txt |-> Matmul(Weight("to_add_out", i), Slice(attn, 0, SeqTxt * HiddenSize),
                    SeqTxt, HiddenSize, HiddenSize)]

AddAttention(h, e, out, s) ==
    [hidden |-> GatedResidualAdd(h, out.img, s.mod_img.msa.gate, SeqImg, HiddenSize),
     enc |-> GatedResidualAdd(e, out.txt, s.mod_txt.msa.gate, SeqTxt, HiddenSize)]

AddFeedForward(i, at, s) ==
    LET ffImg == FeedForward("ff.linear_in", "ff.linear_out", i,
                             NormModulate(at.hidden, SeqImg, s.mod_img.mlp), SeqImg)
        ffTxt == FeedForward("ff_context.linear_in", "ff_context.linear_out", i,
                             NormModulate(at.enc, SeqTxt, s.mod_txt.mlp), SeqTxt)
    IN  [hidden |-> GatedResidualAdd(at.hidden, ffImg, s.mod_img.mlp.gate, SeqImg, HiddenSize),
         enc |-> GatedResidualAdd(at.enc, ffTxt, s.mod_txt.mlp.gate, SeqTxt, HiddenSize)]

DoubleBlock(i, h, e, s) ==
    LET attn == AttendJointly(
                    ProjectQkv(NormModulate(e, SeqTxt, s.mod_txt.msa), TxtAttn, i, SeqTxt),
                    ProjectQkv(NormModulate(h, SeqImg, s.mod_img.msa), ImgAttn, i, SeqImg), s)
    IN  AddFeedForward(i, AddAttention(h, e, AttnToOut(i, attn), s), s)

\* Of every row of the fused projection a part, and two parts to a row.
Columns(proj, from, width) ==
    Tensor(SeqJoint * width, LAMBDA i : proj[(i \div width) * ProjOut + from + (i % width)])
ConcatRows(attn, gated) ==
    Tensor(SeqJoint * CatWidth, LAMBDA i :
        LET t == i \div CatWidth
            c == i % CatWidth
        IN  IF c < HiddenSize THEN attn[t * HiddenSize + c]
            ELSE gated[t * FfnInner + c - HiddenSize])

SingleBlock(j, h, s) ==
    LET n == NormModulate(h, SeqJoint, s.mod_single)
        proj == Matmul(Weight("to_qkv_mlp_proj", j), n, SeqJoint, ProjOut, HiddenSize)
        q == RmsNormHeads(ToHeads(Columns(proj, 0, HiddenSize), SeqJoint), Heads * SeqJoint,
                          Weight("single_norm_q", j))
        k == RmsNormHeads(ToHeads(Columns(proj, HiddenSize, HiddenSize), SeqJoint), Heads * SeqJoint,
                          Weight("single_norm_k", j))
        v == ToHeads(Columns(proj, 2 * HiddenSize, HiddenSize), SeqJoint)
        attn == JointAttention(ApplyRope(q, SeqJoint, s.rope), ApplyRope(k, SeqJoint, s.rope), v, SeqJoint)
        gated == DitSwiglu(Columns(proj, QkvWidth, MlpWidth), SeqJoint, FfnInner)
        cat == ConcatRows(attn, gated)
        out == Matmul(Weight("to_out", j), cat, SeqJoint, HiddenSize, CatWidth)
    IN  GatedResidualAdd(h, out, s.mod_single.gate, SeqJoint, HiddenSize)
-----------------------------------------------------------------------------
(* The fused encoders: device buffers, one kernel after the other.  The      *)
(* buffers of the single blocks are those of the block before.               *)

SingleBuffers == [h |-> ZeroTensor(SeqJoint * HiddenSize), n |-> ZeroTensor(SeqJoint * HiddenSize),
                  proj |-> ZeroTensor(SeqJoint * ProjOut),
                  mlp |-> ZeroTensor(SeqJoint * MlpWidth), cat |-> ZeroTensor(SeqJoint * CatWidth)]

\* From n, the copy of h, to the new h; dev keeps what the kernels wrote.
EncodeSingle(j, dev, s) ==
    LET n == NormModulate(dev.n, SeqJoint, s.mod_single)
        proj == Matmul(Weight("to_qkv_mlp_proj", j), n, SeqJoint, ProjOut, HiddenSize)
        q == RmsNormHeads(TokensToHeads(proj, SeqJoint, ProjOut, 0), Heads * SeqJoint,
                          Weight("single_norm_q", j))
        k == RmsNormHeads(TokensToHeads(proj, SeqJoint, ProjOut, HiddenSize), Heads * SeqJoint,
                          Weight("single_norm_k", j))
        v == TokensToHeads(proj, SeqJoint, ProjOut, 2 * HiddenSize)
        attn == JointAttention(ApplyRope(q, SeqJoint, s.rope), ApplyRope(k, SeqJoint, s.rope), v, SeqJoint)
        mlp == StridedRowCopy(dev.mlp, proj, SeqJoint, MlpWidth, MlpWidth, 0, ProjOut, QkvWidth)
        gated == DitSwiglu(mlp, SeqJoint, FfnInner)
        cat == StridedRowCopy(
                   StridedRowCopy(dev.cat, attn, SeqJoint, HiddenSize, CatWidth, 0, HiddenSize, 0),
                   gated, SeqJoint, FfnInner, CatWidth, HiddenSize, FfnInner, 0)
        out == Matmul(Weight("to_out", j), cat, SeqJoint, HiddenSize, CatWidth)
    IN  [h |-> GatedResidualAdd(dev.h, out, s.mod_single.gate, SeqJoint, HiddenSize),
         n |-> n, proj |-> proj, mlp |-> mlp, cat |-> cat]

EncodeDitSingleBlock(j, h, s) ==
    EncodeSingle(j, [SingleBuffers EXCEPT !.h = h, !.n = h], s).h

\* (mutant) n stays what the block before made of it.
NotCopiedSingleBlocks(h, s) ==
    LET dev[j \in 0 .. NumSingleLayers] ==
            IF j = 0 THEN [SingleBuffers EXCEPT !.h = h, !.n = h]
            ELSE EncodeSingle(j - 1, dev[j - 1], s)
    IN  dev[NumSingleLayers].h

\* n is copied from h before every block, on the device.
EncodeDitSingleBlocks(h, s) ==
    LET dev[j \in 0 .. NumSingleLayers] ==
            IF j = 0 THEN [SingleBuffers EXCEPT !.h = h]
            ELSE EncodeSingle(j - 1, [dev[j - 1] EXCEPT !.n = dev[j - 1].h], s)
    IN  dev[NumSingleLayers].h

DitProjectToHeads(name, block, n, seq) ==
    TokensToHeads(Matmul(Weight(name, block), n, seq, HiddenSize, HiddenSize), seq, HiddenSize, 0)

\* Per head, the text's columns and then the image's.
DitConcatHeadsInto(txt, img) ==
    StridedRowCopy(
        StridedRowCopy(ZeroTensor(Heads * SeqJoint * HeadDim), txt, Heads, SeqTxt * HeadDim,
                       SeqJoint * HeadDim, 0, SeqTxt * HeadDim, 0),
        img, Heads, SeqImg * HeadDim, SeqJoint * HeadDim, SeqTxt * HeadDim, SeqImg * HeadDim, 0)

DitNormModulateClone(src, seq, m) ==
    NormModulate(StridedRowCopy(ZeroTensor(seq * HiddenSize), src, seq, HiddenSize, HiddenSize, 0, HiddenSize, 0),
                 seq, m)

DitProjectQkv(i, n, seq, w) ==
    LET Heading(name) == DitProjectToHeads(name, i, n, seq)
    IN  [q |-> RmsNormHeads(Heading(w.q), Heads * seq, Weight(w.norm_q, i)),
         k |-> RmsNormHeads(Heading(w.k), Heads * seq, Weight(w.norm_k, i)),
         v |-> Heading(w.v)]

DitAttendJointly(txt, img, s) ==
    JointAttention(ApplyRope(DitConcatHeadsInto(txt.q, img.q), SeqJoint, s.rope),
                   ApplyRope(DitConcatHeadsInto(txt.k, img.k), SeqJoint, s.rope),
                   DitConcatHeadsInto(txt.v, img.v), SeqJoint)

DitAddAttention(i, h, e, attn, s) ==
    LET Rows(seq, from) == StridedRowCopy(ZeroTensor(seq * HiddenSize), attn, seq, HiddenSize,
                                          HiddenSize, 0, HiddenSize, from)
        Out(name, rows, seq) == Matmul(Weight(name, i), rows, seq, HiddenSize, HiddenSize)
    IN  AddAttention(h, e, [img |-> Out("to_out.0", Rows(SeqImg, SeqTxt * HiddenSize), SeqImg),
                            txt |-> Out("to_add_out", Rows(SeqTxt, 0), SeqTxt)], s)

DitAddFeedForward(i, at, s) ==
    LET ffImg == FeedForward("ff.linear_in", "ff.linear_out", i,
                             DitNormModulateClone(at.hidden, SeqImg, s.mod_img.mlp), SeqImg)
        ffTxt == FeedForward("ff_context.linear_in", "ff_context.linear_out", i,
                             DitNormModulateClone(at.enc, SeqTxt, s.mod_txt.mlp), SeqTxt)
    IN  [hidden |-> GatedResidualAdd(at.hidden, ffImg, s.mod_img.mlp.gate, SeqImg, HiddenSize),
         enc |-> GatedResidualAdd(at.enc, ffTxt, s.mod_txt.mlp.gate, SeqTxt, HiddenSize)]

EncodeDitDoubleBlock(i, h, e, s) ==
    LET attn == DitAttendJointly(
                    DitProjectQkv(i, NormModulate(e, SeqTxt, s.mod_txt.msa), SeqTxt, TxtAttn),
                    DitProjectQkv(i, NormModulate(h, SeqImg, s.mod_img.msa), SeqImg, ImgAttn), s)
    IN  DitAddFeedForward(i, DitAddAttention(i, h, e, attn, s), s)
-----------------------------------------------------------------------------
(* DitForward::sample and forward.                                           *)

NoTensor == <<>>
NoStage0 == [rope |-> <<>>]

ImageInit ==
    /\ ditAt = <<"stage0", 0>> /\ denoised = 0 /\ latents = InitLatents
    /\ stage0 = NoStage0 /\ hidden = NoTensor /\ enc = NoTensor /\ joint = NoTensor
    /\ fused \in BOOLEAN /\ taps \in BOOLEAN
    /\ perOp = [latents |-> InitLatents, hidden |-> NoTensor, enc |-> NoTensor, joint |-> NoTensor,
                stage0 |-> NoStage0]

FirstBlock == IF NumDoubleLayers > 0 THEN <<"double", 0>> ELSE <<"join", 0>>

Stage0 ==
    /\ ditAt[1] = "stage0"
    /\ stage0' = RunStage0(latents, denoised)
    /\ hidden' = stage0'.x_emb /\ enc' = stage0'.ctx_emb
    /\ perOp' = LET s == RunStage0(perOp.latents, denoised)
                IN  [perOp EXCEPT !.stage0 = s, !.hidden = s.x_emb, !.enc = s.ctx_emb]
    /\ ditAt' = FirstBlock
    /\ UNCHANGED <<denoised, latents, joint, fused, taps>>

\* Which streams a failing fused call has written when it returns its error:
\* the streams come down one after the other, each followed by a synchronize.
Written(streams) ==
    (IF "encode" \in Faults THEN {{}} ELSE {})
    \cup (IF "download" \in Faults
          THEN {{streams[i] : i \in 1 .. n} : n \in 1 .. Len(streams)} ELSE {})

\* What the host has after the block: fused, or per operation on what is there.
AfterDouble(i) ==
    LET gpu == EncodeDitDoubleBlock(i, hidden, enc, stage0)
        OnHost(w) == DoubleBlock(i, IF "hidden" \in w THEN gpu.hidden ELSE hidden,
                                    IF "enc" \in w THEN gpu.enc ELSE enc, stage0)
    IN  IF fused THEN {gpu} \cup {OnHost(w) : w \in Written(<<"hidden", "enc">>)}
        ELSE {OnHost({})}

Double ==
    /\ ditAt[1] = "double"
    /\ LET i == ditAt[2] IN
       /\ \E after \in AfterDouble(i) : hidden' = after.hidden /\ enc' = after.enc
       /\ perOp' = LET after == DoubleBlock(i, perOp.hidden, perOp.enc, perOp.stage0)
                   IN  [perOp EXCEPT !.hidden = after.hidden, !.enc = after.enc]
       /\ ditAt' = IF i + 1 < NumDoubleLayers THEN <<"double", i + 1>> ELSE <<"join", 0>>
    /\ UNCHANGED <<denoised, latents, stage0, joint, fused, taps>>

Joined(h, e) == Appended(e, SeqTxt * HiddenSize, h, SeqImg * HiddenSize)

Join ==
    /\ ditAt[1] = "join"
    /\ joint' = Joined(hidden, enc)
    /\ perOp' = [perOp EXCEPT !.joint = Joined(perOp.hidden, perOp.enc)]
    /\ ditAt' = <<"singles", 0>>
    /\ UNCHANGED <<denoised, latents, stage0, hidden, enc, fused, taps>>

FirstSingle == IF NumSingleLayers > 0 THEN <<"single", 0>> ELSE <<"noise", 0>>

PerOpSingles(h, s) ==
    LET x[j \in 0 .. NumSingleLayers] == IF j = 0 THEN h ELSE SingleBlock(j - 1, x[j - 1], s)
    IN  x[NumSingleLayers]

\* All single blocks in one call, unless somebody watches.
FusedSingles ==
    /\ ditAt[1] = "singles" /\ fused /\ ~taps
    /\ joint' = EncodeDitSingleBlocks(joint, stage0)
    /\ perOp' = [perOp EXCEPT !.joint = PerOpSingles(@, perOp.stage0)]
    /\ ditAt' = <<"noise", 0>>
    /\ UNCHANGED <<denoised, latents, stage0, hidden, enc, fused, taps>>

NoFusedSingles ==
    /\ ditAt[1] = "singles"
    /\ IF fused /\ ~taps
       THEN \E w \in Written(<<"joint">>) :
                joint' = IF w = {} THEN joint ELSE EncodeDitSingleBlocks(joint, stage0)
       ELSE joint' = joint
    /\ ditAt' = FirstSingle
    /\ UNCHANGED <<denoised, latents, stage0, hidden, enc, fused, taps, perOp>>

AfterSingle(j) ==
    LET gpu == EncodeDitSingleBlock(j, joint, stage0)
        OnHost(w) == SingleBlock(j, IF w = {} THEN joint ELSE gpu, stage0)
    IN  IF fused THEN {gpu} \cup {OnHost(w) : w \in Written(<<"joint">>)} ELSE {OnHost({})}

Single ==
    /\ ditAt[1] = "single"
    /\ LET j == ditAt[2] IN
       /\ joint' \in AfterSingle(j)
       /\ perOp' = [perOp EXCEPT !.joint = SingleBlock(j, @, perOp.stage0)]
       /\ ditAt' = IF j + 1 < NumSingleLayers THEN <<"single", j + 1>> ELSE <<"noise", 0>>
    /\ UNCHANGED <<denoised, latents, stage0, hidden, enc, fused, taps>>

Denoised ==
    /\ ditAt[1] = "noise"
    /\ latents' = Denoise(latents, denoised, Noise(joint, stage0))
    /\ perOp' = [perOp EXCEPT !.latents = Denoise(@, denoised, Noise(perOp.joint, perOp.stage0))]
    /\ denoised' = denoised + 1
    /\ ditAt' = IF denoised' < Steps THEN <<"stage0", 0>> ELSE <<"done", 0>>
    /\ UNCHANGED <<stage0, hidden, enc, joint, fused, taps>>

ImageNext == Stage0 \/ Double \/ Join \/ FusedSingles \/ NoFusedSingles \/ Single \/ Denoised

ImageSpec == ImageInit /\ [][ImageNext]_imageVars
-----------------------------------------------------------------------------
(* Whatever ran fused, failed and ran again, the streams are those of the    *)
(* blocks run operation by operation: after every block, and for every step  *)
(* the next one starts from (blocks.rs: on any error of the fused call the   *)
(* per-op path runs "with both streams left untouched").                     *)
ImageLikePerOp ==
    /\ latents = perOp.latents
    /\ hidden = perOp.hidden /\ enc = perOp.enc /\ joint = perOp.joint
=============================================================================
