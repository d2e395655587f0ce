--------------------------- MODULE GpuForwardProofs ---------------------------
(***************************************************************************)
(* What the language model's forward pass and the image model's products   *)
(* read on the GPU.                                                        *)
(*                                                                         *)
(* A replayed driver graph never points at memory that was given back, for *)
(* every set of models that differ in size, every context length and every *)
(* machine.  acquire_kv_cache does not drop the graph; what saves it is    *)
(* that buffers and KV store are always those of one model and context, so *)
(* that the KV store is only replaced together with the buffers, and that  *)
(* with equal buffers the layers kept alive are still those recorded.      *)
(*                                                                         *)
(* On that rests that every answer comes from the rows of its own prefix:  *)
(* the store the next token reads holds the whole context.                 *)
(*                                                                         *)
(* The weights of a product are its own because every buffer has one owner *)
(* and every copy is of what its address holds.                            *)
(*                                                                         *)
(* The image transformer computes the same fused and operation by          *)
(* operation: where the fused kernels put every element is where the       *)
(* operations do, the buffers they share do not carry anything from one    *)
(* block to the next, and the loop on the device follows that of the host. *)
(***************************************************************************)
EXTENDS GpuForward, ImageWeights, ImageForward, SequenceTheorems, WellFoundedInduction, TLAPS

RowValues == Seq(Models \cup Tokens \cup {"bad"})
Graphs == [state : {"none", "failed", "captured"}, weights : Models \cup {"none"},
           norm : BOOLEAN, live : BOOLEAN]

\* The model in use is one of the process's, and one that exists.
LEMMA LoadedModel ==
  ASSUME GpuTypeOK
  PROVE  /\ M \in machine.serves /\ M \in Models /\ loaded.cap \in Contexts
         /\ Dims[M] = Dims[loaded.model] /\ M # "none"
<1>1. machine.serves \in SUBSET Models
  BY MachinesAssumption DEF GpuTypeOK
<1>2. loaded.model \in machine.serves /\ loaded.cap \in Contexts
  BY DEF GpuTypeOK
<1> QED  BY <1>1, <1>2, NoModelAssumption DEF M

\* Two models of one process with equal dimensions or equal depth are one.
LEMMA SizesTellModels ==
  ASSUME GpuTypeOK, NEW m \in machine.serves, NEW n \in machine.serves,
         Dims[m] = Dims[n] \/ Layers[m] = Layers[n]
  PROVE  m = n
  BY SizesAssumption DEF GpuTypeOK

\* The rows after a run are rows.
LEMMA RanRows ==
  ASSUME GpuTypeOK, NEW rows \in [Positions -> RowValues],
         NEW batch \in Seq(Tokens), NEW own
  PROVE  Ran(rows, batch, own) \in [Positions -> RowValues]
<1>1. ctx \in Seq(Tokens) /\ M \in Models
  BY LoadedModel DEF GpuTypeOK
<1>2. Len(ctx) \in Nat /\ Len(batch) \in Nat
  BY <1>1
<1>3. Bad \in RowValues
  BY DEF Bad, RowValues
<1>4. ASSUME NEW i \in Len(ctx) .. Len(ctx) + Len(batch) - 1
      PROVE  Row(ctx \o SubSeq(batch, 1, i + 1 - Len(ctx))) \in RowValues
  <2>1. SubSeq(batch, 1, i + 1 - Len(ctx)) \in Seq(Tokens)
    BY <1>2
  <2>2. ctx \o SubSeq(batch, 1, i + 1 - Len(ctx)) \in Seq(Tokens)
    BY <1>1, <2>1
  <2>3. ctx \o SubSeq(batch, 1, i + 1 - Len(ctx)) \in RowValues
    BY <2>2 DEF RowValues
  <2>4. <<M>> \in RowValues
    BY <1>1 DEF RowValues
  <2> QED  BY <2>3, <2>4 DEF Row, RowValues
<1> QED  BY <1>3, <1>4 DEF Ran

\* A store that fits the loaded model, and stays of its shape with other rows.
LEMMA AcquiredStore ==
  ASSUME GpuTypeOK, NEW store \in Stores, NEW batch \in Seq(Tokens), NEW own
  PROVE  /\ Acquired(store) \in Stores /\ Acquired(store).shape = KvShape
         /\ [Acquired(store) EXCEPT !.rows = Ran(@, batch, own)] \in Stores
         /\ [Acquired(store) EXCEPT !.rows = Ran(@, batch, own)].shape = KvShape
         /\ [Acquired(store) EXCEPT !.rows[0] = Bad] \in Stores
<1>1. KvShape \in {<<>>} \cup {<<Layers[m], Dims[m], n>> : m \in Models, n \in Contexts}
  BY LoadedModel DEF KvShape
<1>2. EmptyRows \in [Positions -> RowValues]
  BY DEF EmptyRows, Empty, RowValues
<1>3. Stores = [shape : {<<>>} \cup {<<Layers[m], Dims[m], n>> : m \in Models, n \in Contexts},
                rows : [Positions -> RowValues]]
  BY DEF Stores, RowValues
<1>4. Acquired(store) \in Stores /\ Acquired(store).shape = KvShape
  BY <1>1, <1>2, <1>3 DEF Acquired
<1> DEFINE S == Acquired(store)
<1>5. S \in Stores /\ S.shape = KvShape /\ S.rows \in [Positions -> RowValues]
  BY <1>3, <1>4
<1>6. ASSUME NEW r \in [Positions -> RowValues]
      PROVE  [S EXCEPT !.rows = r] \in Stores /\ [S EXCEPT !.rows = r].shape = KvShape
  <2> HIDE DEF S
  <2> QED  BY <1>3, <1>5
<1>7. Ran(S.rows, batch, own) \in [Positions -> RowValues]
  <2> HIDE DEF S
  <2> QED  BY <1>5, RanRows
<1>8. [S.rows EXCEPT ![0] = Bad] \in [Positions -> RowValues]
  <2>1. Bad \in RowValues
    BY DEF Bad, RowValues
  <2> HIDE DEF S
  <2> QED  BY <1>5, <2>1
<1>9. [S EXCEPT !.rows[0] = Bad] \in Stores
  <2> HIDE DEF S
  <2>1. [S EXCEPT !.rows[0] = Bad] = [S EXCEPT !.rows = [S.rows EXCEPT ![0] = Bad]]
    BY <1>3, <1>5
  <2> QED  BY <1>6, <1>8, <2>1
<1> QED  BY <1>5, <1>6, <1>7, <1>9
-----------------------------------------------------------------------------
(* The part of the state that a recorded graph depends on.                  *)
GraphPart ==
    /\ machine.device # "cuda" => driver = NoGraph
    /\ weights \in machine.serves \cup {"none"}
    /\ \/ bufs = <<>> /\ kv.shape = <<>>
       \/ \E m \in machine.serves, n \in Contexts :
              bufs = <<Dims[m], n>> /\ kv.shape = <<Layers[m], Dims[m], n>>
    /\ driver.state # "captured" => driver.live
    /\ driver.state = "captured" =>
          /\ ReplayIsCurrent
          /\ weights # "none"
          /\ \E n \in Contexts : bufs = <<Dims[weights], n>>

GraphVars == <<machine, weights, bufs, kv, driver>>

LEMMA PartsOfGraphInv ==
    GraphInv <=> GpuTypeOK /\ (stage = "sequential" => todo # <<>>) /\ GraphPart
  BY DEF GraphInv, GraphPart

\* A call that touches neither buffers, decode store, layers nor graph.
LEMMA GraphPartStays ==
  ASSUME GraphPart, UNCHANGED GraphVars
  PROVE  GraphPart'
  BY DEF GraphPart, GraphVars, ReplayIsCurrent

\* With equal buffers the KV store fits too: the acquired graph lives on.
LEMMA AcquiredGraphLives ==
  ASSUME GpuTypeOK, GraphPart
  PROVE  /\ AcquiredGraph.live
         /\ AcquiredGraph.state # "none" => AcquiredGraph = driver /\ bufs = BufShape
         /\ AcquiredGraph \in Graphs
<1>1. driver \in Graphs
  BY DEF GpuTypeOK, Graphs
<1>2. driver.live
  BY DEF GraphPart, ReplayIsCurrent
<1>3. CASE bufs # BufShape
  <2>1. NoGraph \in Graphs /\ NoGraph.live /\ NoGraph.state = "none"
    BY DEF NoGraph, Graphs
  <2>2. AcquiredGraph = NoGraph
    BY <1>3 DEF AcquiredGraph
  <2> QED  BY <2>1, <2>2
<1>4. CASE bufs = BufShape
  <2>1. PICK m \in machine.serves, n \in Contexts :
            bufs = <<Dims[m], n>> /\ kv.shape = <<Layers[m], Dims[m], n>>
    BY <1>4 DEF GraphPart, BufShape
  <2>2. Dims[m] = Dims[M] /\ n = loaded.cap
    BY <1>4, <2>1 DEF BufShape
  <2>3. m = M
    BY <2>2, LoadedModel, SizesTellModels
  <2>4. kv.shape = KvShape
    BY <2>1, <2>2, <2>3 DEF KvShape
  <2>5. AcquiredGraph = [driver EXCEPT !.live = @ /\ kv.shape = KvShape]
    BY <1>4 DEF AcquiredGraph
  <2>6. AcquiredGraph = driver
    BY <1>1, <1>2, <2>4, <2>5 DEF Graphs
  <2> QED  BY <1>1, <1>2, <1>4, <2>6
<1> QED  BY <1>3, <1>4

\* Whose norms a family's keys hold stays a model.
LEMMA UploadedNorms ==
  ASSUME GpuTypeOK, UploadNorms
  PROVE  norms' \in [Families -> Models \cup {"none"}]
<1>1. norms \in [Families -> Models \cup {"none"}] /\ M \in Models
  BY LoadedModel DEF GpuTypeOK
<1> QED  BY <1>1 DEF UploadNorms

\* The layers kept alive are the process's, and those of the loaded model if
\* there were none with its depth.
LEMMA BuiltWeights ==
  ASSUME GpuTypeOK, GraphPart, BuildWeights
  PROVE  weights' = M
<1>1. CASE weights # "none" /\ Layers[weights] = Layers[M]
  <2>1. weights \in machine.serves
    BY <1>1 DEF GraphPart
  <2>2. weights = M
    BY <1>1, <2>1, LoadedModel, SizesTellModels
  <2> QED  BY <1>1, <2>2 DEF BuildWeights
<1>2. CASE ~ (weights # "none" /\ Layers[weights] = Layers[M])
  BY <1>2 DEF BuildWeights
<1> QED  BY <1>1, <1>2

\* encode_full_forward keeps what a recorded graph depends on.
LEMMA CudaLayersKeepGraph ==
  ASSUME GpuTypeOK, GraphPart, machine.device = "cuda", UNCHANGED machine,
         NEW t \in Tokens, NEW ok, CudaLayers(t, ok)
  PROVE  /\ GraphPart'
         /\ norms' \in [Families -> Models \cup {"none"}]
         /\ weights' \in Models \cup {"none"}
         /\ bufs' = BufShape
         /\ kv' \in Stores
         /\ driver' \in Graphs
<1>1. weights' = M
  BY BuiltWeights DEF CudaLayers
<1>2. M \in machine.serves /\ M \in Models /\ loaded.cap \in Contexts /\ M # "none"
  BY LoadedModel
<1>3. bufs' = <<Dims[M], loaded.cap>> /\ bufs' = BufShape
  BY DEF CudaLayers, BufShape
<1>4. kv' \in Stores /\ kv'.shape = <<Layers[M], Dims[M], loaded.cap>>
  <2>1. kv \in Stores /\ <<t>> \in Seq(Tokens)
    BY DEF GpuTypeOK
  <2> DEFINE own == OwnNorms /\ (IF AcquiredGraph.state = "captured"
                                 THEN AcquiredGraph.weights ELSE weights') = M
             AfterRun == [Acquired(kv) EXCEPT !.rows = Ran(@, <<t>>, own)]
  <2>2. kv' = Acquired(kv) \/ kv' = AfterRun
    BY DEF CudaLayers
  <2>3. /\ Acquired(kv) \in Stores /\ Acquired(kv).shape = KvShape
        /\ AfterRun \in Stores /\ AfterRun.shape = KvShape
    <3> HIDE DEF own
    <3> QED  BY <2>1, AcquiredStore
  <2> HIDE DEF AfterRun
  <2>4. kv' \in Stores /\ kv'.shape = KvShape
    BY <2>2, <2>3
  <2> QED  BY <2>4 DEF KvShape
<1>5. norms' \in [Families -> Models \cup {"none"}]
  BY UploadedNorms DEF CudaLayers
<1>6. /\ driver' \in Graphs
      /\ driver'.live
      /\ driver'.state = "captured" => driver'.weights = M
  <2>1. CASE AcquiredGraph.state # "none"
    <3>1. driver' = driver /\ bufs = BufShape /\ AcquiredGraph = driver
      BY <2>1, AcquiredGraphLives DEF CudaLayers
    <3>2. driver.state = "captured" => weights \in machine.serves /\ driver.weights = weights
                                       /\ Dims[weights] = Dims[M]
      BY <3>1 DEF GraphPart, ReplayIsCurrent, BufShape
    <3>3. driver.state = "captured" => driver.weights = M
      BY <3>2, <1>2, SizesTellModels
    <3>4. driver.live
      BY <3>1, AcquiredGraphLives
    <3>5. driver \in Graphs
      BY AcquiredGraphLives, <3>1
    <3> QED  BY <3>1, <3>3, <3>4, <3>5
  <2>2. CASE AcquiredGraph.state = "none" /\ machine.captures
    <3>1. driver' = [state |-> "captured", weights |-> weights', norm |-> NormOnGpu, live |-> TRUE]
      BY <2>2 DEF CudaLayers
    <3>2. NormOnGpu \in BOOLEAN
      BY DEF NormOnGpu
    <3> QED  BY <1>1, <1>2, <3>1, <3>2 DEF Graphs
  <2>3. CASE AcquiredGraph.state = "none" /\ ~ machine.captures
    <3>1. driver' = [AcquiredGraph EXCEPT !.state = "failed"]
      BY <2>3 DEF CudaLayers
    <3>2. AcquiredGraph \in Graphs /\ AcquiredGraph.live
      BY AcquiredGraphLives
    <3> QED  BY <3>1, <3>2 DEF Graphs
  <2> QED  BY <2>1, <2>2, <2>3
<1>7. GraphPart'
  BY <1>1, <1>2, <1>3, <1>4, <1>6 DEF GraphPart, ReplayIsCurrent
<1> QED  BY <1>1, <1>2, <1>3, <1>4, <1>5, <1>6, <1>7
-----------------------------------------------------------------------------
\* The variables a forward call may write are well-typed after it.
CallType ==
    /\ norms \in [Families -> Models \cup {"none"}]
    /\ weights \in Models \cup {"none"}
    /\ bufs \in {<<>>} \cup {<<Dims[m], n>> : m \in Models, n \in Contexts}
    /\ kv \in Stores
    /\ pre \in [Families -> Stores]
    /\ cpu \in [Positions -> RowValues]
    /\ driver \in Graphs
    /\ right \in BOOLEAN

LEMMA TypeParts ==
    GpuTypeOK <=> /\ CallType
                  /\ machine \in Machines
                  /\ loaded \in [model : machine.serves, cap : Contexts]
                  /\ stage \in {"idle", "sequential", "batch", "decode", "answered"}
                  /\ todo \in Seq(Tokens)
                  /\ ctx \in Seq(Tokens)
  BY DEF GpuTypeOK, CallType, Graphs, RowValues

\* The buffers are of the loaded model's size.
LEMMA BufShapeType ==
  ASSUME GpuTypeOK
  PROVE  BufShape \in {<<>>} \cup {<<Dims[m], n>> : m \in Models, n \in Contexts}
  BY LoadedModel DEF BufShape

\* block.forward on the CPU.
LEMMA CpuRunKeeps ==
  ASSUME GpuTypeOK, GraphPart, UNCHANGED machine,
         NEW batch \in Seq(Tokens), CpuRun(batch)
  PROVE  CallType' /\ GraphPart'
<1>1. GraphPart'
  BY GraphPartStays DEF CpuRun, GraphVars
<1>2. CallType /\ cpu \in [Positions -> RowValues]
  BY TypeParts DEF CallType
<1>3. cpu' = Ran(cpu, batch, TRUE)
  BY DEF CpuRun
<1>4. cpu' \in [Positions -> RowValues]
  BY <1>2, <1>3, RanRows
<1>5. right' \in BOOLEAN /\ UNCHANGED <<norms, weights, bufs, kv, pre, driver>>
  BY DEF CpuRun
<1> QED  BY <1>1, <1>2, <1>4, <1>5 DEF CallType

\* A batch or a token on Metal, where nothing is recorded.
LEMMA MetalRunKeeps ==
  ASSUME GpuTypeOK, GraphPart, UNCHANGED machine, machine.device = "metal",
         NEW batch \in Seq(Tokens), MetalRun(batch)
  PROVE  CallType' /\ GraphPart'
<1>1. kv' \in Stores /\ kv'.shape = KvShape
  <2>1. kv \in Stores
    BY DEF GpuTypeOK
  <2>2. kv' = [Acquired(kv) EXCEPT !.rows = Ran(@, batch, OwnNorms)]
    BY DEF MetalRun
  <2> QED  BY <2>1, <2>2, AcquiredStore
<1>2. bufs' = BufShape /\ UNCHANGED <<weights, driver, cpu, pre>>
  BY DEF MetalRun
<1>3. norms' \in [Families -> Models \cup {"none"}]
  BY UploadedNorms DEF MetalRun
<1>4. right' \in BOOLEAN
  BY DEF MetalRun
<1>5. CallType'
  BY <1>1, <1>2, <1>3, <1>4, BufShapeType, TypeParts DEF CallType
<1>6. driver = NoGraph /\ NoGraph.state = "none" /\ NoGraph.live
  BY DEF GraphPart, NoGraph
<1>7. GraphPart'
  <2>1. /\ bufs' = <<Dims[M], loaded.cap>> /\ kv'.shape = <<Layers[M], Dims[M], loaded.cap>>
        /\ M \in machine.serves /\ loaded.cap \in Contexts
    BY <1>1, <1>2, LoadedModel DEF BufShape, KvShape
  <2> QED  BY <1>2, <1>6, <2>1 DEF GraphPart
<1> QED  BY <1>5, <1>7

\* One token on CUDA, with or without an LM head that fits.
LEMMA CudaForwardKeeps ==
  ASSUME GpuTypeOK, GraphPart, UNCHANGED machine, machine.device = "cuda",
         NEW t \in Tokens, CudaForward(t)
  PROVE  CallType' /\ GraphPart'
<1>1. PICK ok \in BOOLEAN :
        /\ CudaLayers(t, ok)
        /\ IF NormOnGpu /\ ~ machine.lmFits
           THEN LmHeadFallback(t, ok)
           ELSE UNCHANGED cpu /\ right' = (right /\ ok)
        /\ UNCHANGED pre
  BY DEF CudaForward
<1>2. /\ GraphPart'
      /\ norms' \in [Families -> Models \cup {"none"}]
      /\ weights' \in Models \cup {"none"}
      /\ bufs' = BufShape
      /\ kv' \in Stores
      /\ driver' \in Graphs
  BY <1>1, CudaLayersKeepGraph
<1>3. <<t>> \in Seq(Tokens) /\ cpu \in [Positions -> RowValues]
  BY TypeParts DEF CallType
<1>4. cpu' \in [Positions -> RowValues]
  BY <1>1, <1>3, RanRows DEF LmHeadFallback
<1>5. right' \in BOOLEAN
  BY <1>1 DEF LmHeadFallback
<1> QED  BY <1>1, <1>2, <1>4, <1>5, BufShapeType, TypeParts DEF CallType

LEMMA ForwardKeeps ==
  ASSUME GpuTypeOK, GraphPart, UNCHANGED machine, NEW t \in Tokens, Forward(t)
  PROVE  CallType' /\ GraphPart'
<1>1. <<t>> \in Seq(Tokens)
  OBVIOUS
<1> QED  BY <1>1, CpuRunKeeps, MetalRunKeeps, CudaForwardKeeps DEF Forward, MetalToken

\* The batch prefills of CUDA have stores of their own.
LEMMA CudaBatchKeeps ==
  ASSUME GpuTypeOK, GraphPart, UNCHANGED machine,
         NEW batch \in Seq(Tokens), CudaBatch(batch)
  PROVE  CallType' /\ GraphPart'
<1>1. GraphPart'
  BY GraphPartStays DEF CudaBatch, GraphVars
<1>2. norms' \in [Families -> Models \cup {"none"}]
  BY UploadedNorms DEF CudaBatch
<1>3. right' \in BOOLEAN
  BY DEF CudaBatch
<1>4. pre \in [Families -> Stores] /\ FamilyOf(M) \in Families
  BY TypeParts DEF CallType, FamilyOf, Families
<1>5. pre[FamilyOf(M)] \in Stores
  BY <1>4
<1> DEFINE S == Acquired(pre[FamilyOf(M)])
<1>6. /\ [S EXCEPT !.rows[0] = Bad] \in Stores
      /\ [S EXCEPT !.rows = Ran(@, batch, OwnNorms)] \in Stores
  BY <1>5, AcquiredStore
<1>7. \/ pre' = [pre EXCEPT ![FamilyOf(M)] = [S EXCEPT !.rows[0] = Bad]]
      \/ pre' = [pre EXCEPT ![FamilyOf(M)] = [S EXCEPT !.rows = Ran(@, batch, OwnNorms)]]
  BY DEF CudaBatch
<1>8. pre' \in [Families -> Stores]
  <2>1. ASSUME NEW s \in Stores PROVE [pre EXCEPT ![FamilyOf(M)] = s] \in [Families -> Stores]
    BY <1>4
  <2> QED  BY <1>6, <1>7, <2>1
<1> QED  BY <1>1, <1>2, <1>3, <1>8, TypeParts DEF CallType, CudaBatch
-----------------------------------------------------------------------------
LEMMA GraphInitially == Init => GraphInv
<1> SUFFICES ASSUME Init PROVE GraphInv
  OBVIOUS
<1>1. machine \in Machines /\ loaded \in [model : machine.serves, cap : Contexts]
  BY DEF Init
<1>2. EmptyRows \in [Positions -> RowValues]
  BY DEF EmptyRows, Empty, RowValues
<1>3. NoStore \in Stores /\ NoStore.shape = <<>>
  BY <1>2 DEF NoStore, Stores, RowValues
<1>4. NoGraph \in Graphs /\ NoGraph.state = "none" /\ NoGraph.live
  BY DEF NoGraph, Graphs
<1>5. CallType
  BY <1>2, <1>3, <1>4 DEF Init, CallType
<1>6. <<>> \in Seq(Tokens)
  OBVIOUS
<1>7. GpuTypeOK
  BY <1>1, <1>5, <1>6, TypeParts DEF Init
<1>8. GraphPart
  BY <1>3, <1>4 DEF Init, GraphPart
<1> QED  BY <1>7, <1>8, PartsOfGraphInv DEF Init

\* Loading a model writes no GPU state: nothing that was recorded moves.
LEMMA GraphInductive == GraphInv /\ [Next]_vars => GraphInv'
<1> SUFFICES ASSUME GraphInv, [Next]_vars PROVE GraphInv'
  OBVIOUS
<1>i. GpuTypeOK /\ GraphPart /\ CallType /\ (stage = "sequential" => todo # <<>>)
  BY PartsOfGraphInv, TypeParts
<1>t. /\ machine \in Machines /\ loaded \in [model : machine.serves, cap : Contexts]
      /\ todo \in Seq(Tokens) /\ ctx \in Seq(Tokens)
      /\ stage \in {"idle", "sequential", "batch", "decode", "answered"}
  BY <1>i, TypeParts
<1>e. <<>> \in Seq(Tokens)
  OBVIOUS
\* What is left to show of a step.
<1>s. ASSUME CallType', GraphPart', UNCHANGED machine,
             loaded' \in [model : machine.serves, cap : Contexts],
             todo' \in Seq(Tokens), ctx' \in Seq(Tokens),
             stage' \in {"idle", "sequential", "batch", "decode", "answered"},
             stage' = "sequential" => todo' # <<>>
      PROVE  GraphInv'
  <2>1. GpuTypeOK'
    BY <1>t, <1>s DEF GpuTypeOK, CallType, Graphs, RowValues
  <2> QED  BY <1>s, <2>1 DEF GraphInv, GraphPart
<1>1. ASSUME NEW m \in Models, NEW n \in Contexts, Load(m, n) PROVE GraphInv'
  <2>1. GraphPart'
    BY <1>i, <1>1, GraphPartStays DEF Load, GraphVars
  <2>2. EmptyRows \in [Positions -> RowValues]
    BY DEF EmptyRows, Empty, RowValues
  <2>3. CallType'
    BY <1>i, <1>1, <2>2 DEF Load, CallType
  <2> QED  BY <1>i, <1>t, <1>e, <1>s, <1>1, <2>1, <2>3 DEF Load
<1>2. ASSUME NEW p \in Prompts, Start(p) PROVE GraphInv'
  <2>1. GraphPart'
    BY <1>i, <1>2, GraphPartStays DEF Start, GraphVars
  <2>2. CallType'
    BY <1>i, <1>2 DEF Start, CallType
  <2>3. p \in Seq(Tokens) /\ p # <<>>
    BY PromptsAssumption
  <2> QED  BY <1>t, <1>e, <1>s, <1>2, <2>1, <2>2, <2>3 DEF Start
<1>3. CASE PrefillToken
  <2>1. todo # <<>> /\ UNCHANGED <<machine, loaded>> /\ Forward(Head(todo))
    BY <1>i, <1>3 DEF PrefillToken
  <2>2. Head(todo) \in Tokens /\ Tail(todo) \in Seq(Tokens) /\ Len(todo) \in Nat
    BY <1>t, <2>1
  <2>3. CallType' /\ GraphPart'
    BY <1>i, <2>1, <2>2, ForwardKeeps
  <2>4. Append(ctx, Head(todo)) \in Seq(Tokens)
    BY <1>t, <2>2
  <2>5. Len(todo) # 1 => Tail(todo) # <<>>
    <3>1. Len(Tail(todo)) = Len(todo) - 1 /\ Len(todo) \in Nat
      BY <1>t, <2>1
    <3>2. Len(<<>>) = 0
      OBVIOUS
    <3>3. Tail(todo) = <<>> => Len(Tail(todo)) = Len(<<>>)
      BY Zenon
    <3>4. Tail(todo) = <<>> => Len(todo) - 1 = 0
      BY <3>1, <3>2, <3>3
    <3>5. Len(todo) - 1 = 0 => Len(todo) = 1
      BY <3>1
    <3> QED  BY <3>4, <3>5, Zenon
  <2> QED  BY <1>t, <1>s, <1>3, <2>1, <2>2, <2>3, <2>4, <2>5 DEF PrefillToken
<1>4. CASE PrefillBatch
  <2>1. CallType' /\ GraphPart'
    BY <1>i, <1>t, <1>4, CudaBatchKeeps, MetalRunKeeps DEF PrefillBatch, MetalPrompt
  <2> QED  BY <1>t, <1>e, <1>s, <1>4, <2>1 DEF PrefillBatch
<1>5. ASSUME NEW t \in Tokens, Decode(t) PROVE GraphInv'
  <2>1. CallType' /\ GraphPart'
    BY <1>i, <1>5, ForwardKeeps DEF Decode
  <2>2. Append(ctx, t) \in Seq(Tokens)
    BY <1>t
  <2> QED  BY <1>i, <1>t, <1>s, <1>5, <2>1, <2>2 DEF Decode
<1>6. ASSUME NEW batch \in Drafts, NEW accepted \in 0 .. Len(batch) - 1,
             Speculate(batch, accepted)
      PROVE  GraphInv'
  <2>1. batch \in Seq(Tokens)
    BY ShapesAssumption DEF Drafts
  <2>2. CallType' /\ GraphPart'
    BY <1>i, <1>6, <2>1, CpuRunKeeps, MetalRunKeeps DEF Speculate, MetalDraft
  <2>3. SubSeq(batch, 1, accepted + 1) \in Seq(Tokens)
    BY <2>1
  <2>4. ctx \o SubSeq(batch, 1, accepted + 1) \in Seq(Tokens)
    BY <1>t, <2>3
  <2> QED  BY <1>i, <1>t, <1>s, <1>6, <2>2, <2>4 DEF Speculate
<1>7. CASE Finish
  <2>1. GraphPart'
    BY <1>i, <1>7, GraphPartStays DEF Finish, GraphVars
  <2>2. CallType'
    BY <1>i, <1>7 DEF Finish, CallType
  <2> QED  BY <1>t, <1>s, <1>7, <2>1, <2>2 DEF Finish
<1>8. CASE UNCHANGED vars
  <2>1. GraphPart'
    BY <1>i, <1>8, GraphPartStays DEF vars, GraphVars
  <2>2. CallType'
    BY <1>i, <1>8 DEF vars, CallType
  <2> QED  BY <1>i, <1>t, <1>s, <1>8, <2>1, <2>2 DEF vars
<1> QED  BY <1>1, <1>2, <1>3, <1>4, <1>5, <1>6, <1>7, <1>8 DEF Next

\* For every set of models, contexts and machines: the types, and what a
\* recorded graph depends on (acquire_full_layer_buffers, acquire_kv_cache,
\* get_or_build_model_weights).
THEOREM RecordedGraphIsKept == Spec => []GraphInv
<1> QED  BY GraphInitially, GraphInductive, PTL DEF Spec

\* "the pointers always remain valid during replay" (encode_q1.rs:486-489), of
\* processes whose models differ in dimensions and depth.
THEOREM ReplayedPointersAreValid == Spec => []ReplayIsCurrent
<1>1. GraphInv => ReplayIsCurrent
  BY DEF GraphInv, ReplayIsCurrent
<1> QED  BY <1>1, RecordedGraphIsKept, PTL
-----------------------------------------------------------------------------
(* The answers of a generation.                                             *)

\* What the theorem is about: processes whose models have keys of their own,
\* no 1-bit prompt in one batch on CUDA, no decoding after a prompt whose
\* batch wrote another store, and no recorded final norm beside an LM head
\* that is left to the CPU.
SeparateKeys == \A p \in Machines : \A m, n \in p.serves : m # n => FamilyOf(m) # FamilyOf(n)
OwnStores == <<"cuda", "onebit">> \in LongExcluded /\ <<"cuda", "std">> \in PromptOnly
NormOnce == \A p \in Machines :
    p.device = "cuda" /\ p.captures /\ ~p.lmFits => \A m \in p.serves : Format[m] # "onebit"

NormsAreOwn ==
    \A f \in Families : norms[f] # "none" => norms[f] \in machine.serves /\ FamilyOf(norms[f]) = f
GraphHasItsNorm ==
    driver.state = "captured" => machine.captures /\ driver.norm = (Format[weights] # "fp32head")
Excluded(p) == Len(p) > BatchMax /\ <<machine.device, Format[M]>> \in LongExcluded
RoomIsLeft ==
    /\ stage \in {"sequential", "batch"} => Len(ctx) + Len(todo) <= loaded.cap
    /\ stage = "decode" => Len(ctx) <= loaded.cap
    /\ stage = "batch" => ctx = <<>> /\ Batches(todo) /\ ~Excluded(todo)

\* The rows of the context are in every store the next token may read.
NeedsCpu == ~OnGpu \/ (machine.device = "cuda" /\ Format[M] = "ternary" /\ ~machine.lmFits)
PrefixIsStored ==
    /\ OnGpu => (ctx # <<>> => kv.shape = KvShape /\ Sound(kv.rows))
    /\ NeedsCpu => Sound(cpu)

CallInv == NormsAreOwn /\ GraphHasItsNorm /\ right
AnswerInv == /\ GraphInv /\ CallInv /\ RoomIsLeft
             /\ stage \in {"sequential", "decode"} => PrefixIsStored

\* Rows of a prefix, said without the state.
Holds(rows, prefix, m) == \A i \in 0 .. Len(prefix) - 1 : rows[i] = <<m>> \o SubSeq(prefix, 1, i + 1)

LEMMA SoundIsHolds == \A rows : Sound(rows) = Holds(rows, ctx, M)
  BY DEF Sound, Holds, Row

\* Every context fits the stores.
LEMMA MaxContextIsMax ==
  /\ MaxContext \in Nat \ {0} /\ \A n \in Contexts : n \in Nat /\ n <= MaxContext
<1>1. \E n \in Contexts : \A k \in Contexts : k <= n
  BY ShapesAssumption
<1>2. MaxContext \in Contexts /\ \A k \in Contexts : k <= MaxContext
  BY <1>1 DEF MaxContext
<1> QED  BY <1>2, ShapesAssumption

\* Prefixes of a context that grows by the first tokens of a batch.
LEMMA GrownPrefix ==
  ASSUME NEW S, NEW c \in Seq(S), NEW b \in Seq(S), NEW n \in 1 .. Len(b),
         NEW i \in 0 .. Len(c) + n - 1
  PROVE  /\ c \o SubSeq(b, 1, n) \in Seq(S) /\ Len(c \o SubSeq(b, 1, n)) = Len(c) + n
         /\ i < Len(c) => SubSeq(c \o SubSeq(b, 1, n), 1, i + 1) = SubSeq(c, 1, i + 1)
         /\ i >= Len(c) => SubSeq(c \o SubSeq(b, 1, n), 1, i + 1)
                              = c \o SubSeq(b, 1, i + 1 - Len(c))
<1>1. /\ Len(c) \in Nat /\ Len(b) \in Nat /\ n \in Nat
      /\ SubSeq(b, 1, n) \in Seq(S) /\ Len(SubSeq(b, 1, n)) = n
  OBVIOUS
<1> DEFINE g == c \o SubSeq(b, 1, n)
<1>2. g \in Seq(S) /\ Len(g) = Len(c) + n
  BY <1>1
<1>3. \A k \in 1 .. Len(c) : g[k] = c[k]
  BY <1>1
<1>4. \A k \in 1 .. n : g[Len(c) + k] = b[k]
  BY <1>1
<1> HIDE DEF g
<1>5. SubSeq(g, 1, i + 1) \in Seq(S) /\ Len(SubSeq(g, 1, i + 1)) = i + 1
      /\ \A k \in 1 .. i + 1 : SubSeq(g, 1, i + 1)[k] = g[k]
  BY <1>1, <1>2
<1>6. CASE i < Len(c)
  <2>1. SubSeq(c, 1, i + 1) \in Seq(S) /\ Len(SubSeq(c, 1, i + 1)) = i + 1
        /\ \A k \in 1 .. i + 1 : SubSeq(c, 1, i + 1)[k] = c[k]
    BY <1>1, <1>6
  <2>2. \A k \in 1 .. i + 1 : SubSeq(g, 1, i + 1)[k] = SubSeq(c, 1, i + 1)[k]
    BY <1>1, <1>3, <1>5, <1>6, <2>1
  <2>3. SubSeq(g, 1, i + 1) = SubSeq(c, 1, i + 1)
    BY <1>5, <2>1, <2>2, SeqEqual
  <2> QED  BY <1>1, <1>2, <1>6, <2>3 DEF g
<1>7. CASE i >= Len(c)
  <2> DEFINE j == i + 1 - Len(c)
             h == c \o SubSeq(b, 1, j)
  <2>1. j \in 1 .. n /\ SubSeq(b, 1, j) \in Seq(S) /\ Len(SubSeq(b, 1, j)) = j
    BY <1>1, <1>7
  <2>2. h \in Seq(S) /\ Len(h) = i + 1
    BY <1>1, <2>1
  <2>3. \A k \in 1 .. Len(c) : h[k] = c[k]
    BY <1>1, <2>1
  <2>4. \A k \in 1 .. j : h[Len(c) + k] = b[k]
    BY <1>1, <2>1
  <2>5. ASSUME NEW k \in 1 .. i + 1 PROVE h[k] = g[k]
    <3>1. CASE k <= Len(c)
      BY <1>1, <3>1, <1>3, <2>3
    <3>2. CASE k > Len(c)
      <4>1. k - Len(c) \in 1 .. j /\ k - Len(c) \in 1 .. n /\ k = Len(c) + (k - Len(c))
        BY <1>1, <2>1, <3>2
      <4> HIDE DEF h, j
      <4> QED  BY <4>1, <1>4, <2>4
    <3> QED  BY <1>1, <3>1, <3>2
  <2>6. SubSeq(g, 1, i + 1) = h
    <3> HIDE DEF h
    <3> QED  BY <1>5, <2>2, <2>5, SeqEqual
  <2> QED  BY <1>1, <1>2, <1>7, <2>6 DEF g
<1> QED  BY <1>1, <1>6, <1>7

\* A run behind a stored prefix stores the longer one.
LEMMA RunExtendsPrefix ==
  ASSUME GpuTypeOK, NEW rows \in [Positions -> RowValues], Sound(rows),
         NEW batch \in Seq(Tokens), NEW n \in 1 .. Len(batch),
         Len(ctx) + n <= loaded.cap
  PROVE  Holds(Ran(rows, batch, TRUE), ctx \o SubSeq(batch, 1, n), M)
<1> DEFINE grown == ctx \o SubSeq(batch, 1, n)
<1>1. ctx \in Seq(Tokens) /\ Len(ctx) \in Nat /\ Len(batch) \in Nat /\ n \in Nat
  BY DEF GpuTypeOK
<1>2. Len(grown) = Len(ctx) + n
  BY <1>1
<1>3. Len(ctx) + n <= MaxContext /\ MaxContext \in Nat
  BY <1>1, MaxContextIsMax DEF GpuTypeOK
<1> SUFFICES ASSUME NEW i \in 0 .. Len(grown) - 1
             PROVE  Ran(rows, batch, TRUE)[i] = Row(SubSeq(grown, 1, i + 1))
  BY DEF Holds, Row
<1>4. i \in 0 .. Len(ctx) + n - 1 /\ i \in Positions /\ i \in Nat
  BY <1>1, <1>2, <1>3 DEF Positions
<1>5. /\ i < Len(ctx) => SubSeq(grown, 1, i + 1) = SubSeq(ctx, 1, i + 1)
      /\ i >= Len(ctx) => SubSeq(grown, 1, i + 1) = ctx \o SubSeq(batch, 1, i + 1 - Len(ctx))
  BY <1>1, <1>4, GrownPrefix
<1> HIDE DEF grown
<1>6. CASE i < Len(ctx)
  <2>1. rows[i] = Row(SubSeq(ctx, 1, i + 1))
    BY <1>1, <1>4, <1>6 DEF Sound
  <2>2. Ran(rows, batch, TRUE)[i] = rows[i]
    BY <1>1, <1>4, <1>6 DEF Ran
  <2> QED  BY <1>5, <1>6, <2>1, <2>2
<1>7. CASE i >= Len(ctx)
  <2>1. Ran(rows, batch, TRUE)[i] = Row(ctx \o SubSeq(batch, 1, i + 1 - Len(ctx)))
    BY <1>1, <1>4, <1>7 DEF Ran
  <2> QED  BY <1>5, <1>7, <2>1
<1>8. i < Len(ctx) \/ i >= Len(ctx)
  BY <1>1, <1>4
<1> QED  BY <1>6, <1>7, <1>8

\* The keys of a family hold the loaded model's norms.
LEMMA NormsOfTheModel ==
  ASSUME GpuTypeOK, NormsAreOwn, SeparateKeys, UploadNorms, UNCHANGED machine
  PROVE  OwnNorms /\ NormsAreOwn'
<1>1. M \in machine.serves /\ M \in Models /\ machine \in Machines /\ FamilyOf(M) \in Families
  BY LoadedModel DEF GpuTypeOK, FamilyOf, Families
<1>2. norms \in [Families -> Models \cup {"none"}]
  BY DEF GpuTypeOK
<1>3. norms'[FamilyOf(M)] = M
  <2>1. CASE norms[FamilyOf(M)] = "none"
    BY <1>1, <1>2, <2>1 DEF UploadNorms
  <2>2. CASE norms[FamilyOf(M)] # "none"
    <3>1. norms[FamilyOf(M)] \in machine.serves /\ FamilyOf(norms[FamilyOf(M)]) = FamilyOf(M)
      BY <1>1, <2>2 DEF NormsAreOwn
    <3>2. norms[FamilyOf(M)] = M
      BY <1>1, <3>1 DEF SeparateKeys
    <3> QED  BY <1>1, <1>2, <2>2, <3>2 DEF UploadNorms
  <2> QED  BY <2>1, <2>2
<1>4. \A f \in Families : f # FamilyOf(M) => norms'[f] = norms[f]
  BY <1>2 DEF UploadNorms
<1>5. NormsAreOwn'
  <2>1. \A f \in Families : norms'[f] # "none"
            => norms'[f] \in machine.serves /\ FamilyOf(norms'[f]) = f
    BY <1>1, <1>3, <1>4 DEF NormsAreOwn
  <2> QED  BY <2>1 DEF NormsAreOwn, FamilyOf
<1> QED  BY <1>3, <1>5 DEF OwnNorms

\* The decode store, acquired, holds the context.
LEMMA AcquiredIsSound ==
  ASSUME GpuTypeOK, ctx # <<>> => kv.shape = KvShape /\ Sound(kv.rows)
  PROVE  /\ Acquired(kv) \in Stores /\ Acquired(kv).shape = KvShape
         /\ Acquired(kv).rows \in [Positions -> RowValues] /\ Sound(Acquired(kv).rows)
<1>1. kv \in Stores /\ <<>> \in Seq(Tokens) /\ ctx \in Seq(Tokens)
  BY DEF GpuTypeOK
<1>2. Acquired(kv) \in Stores /\ Acquired(kv).shape = KvShape
  BY <1>1, AcquiredStore
<1>3. Acquired(kv).rows \in [Positions -> RowValues]
  BY <1>2 DEF Stores, RowValues
<1>4. Sound(Acquired(kv).rows)
  <2>1. CASE ctx = <<>>
    BY <2>1 DEF Sound
  <2>2. CASE ctx # <<>>
    BY <2>2 DEF Acquired
  <2> QED  BY <2>1, <2>2
<1> QED  BY <1>2, <1>3, <1>4

\* A store whose rows a right run has extended.
LEMMA ExtendedStore ==
  ASSUME GpuTypeOK, NEW store \in Stores, store.shape = KvShape,
         store.rows \in [Positions -> RowValues], Sound(store.rows),
         NEW batch \in Seq(Tokens), NEW n \in 1 .. Len(batch), Len(ctx) + n <= loaded.cap,
         kv' = [store EXCEPT !.rows = Ran(@, batch, TRUE)],
         UNCHANGED <<machine, loaded>>, ctx' = ctx \o SubSeq(batch, 1, n)
  PROVE  (kv.shape = KvShape /\ Sound(kv.rows))'
<1>1. kv' = [store EXCEPT !.rows = Ran(store.rows, batch, TRUE)]
  OBVIOUS
<1>2. kv'.shape = KvShape /\ kv'.rows = Ran(store.rows, batch, TRUE)
  BY <1>1 DEF Stores
<1>3. Holds(Ran(store.rows, batch, TRUE), ctx \o SubSeq(batch, 1, n), M)
  BY RunExtendsPrefix
<1>4. Holds(kv'.rows, ctx', M)
  BY <1>2, <1>3
<1>5. Sound(kv.rows)'
  BY <1>4 DEF Sound, Holds, Row, M
<1>6. KvShape' = KvShape
  BY DEF KvShape, M
<1> QED  BY <1>2, <1>5, <1>6

LEMMA ExtendedCpu ==
  ASSUME GpuTypeOK, Sound(cpu),
         NEW batch \in Seq(Tokens), NEW n \in 1 .. Len(batch), Len(ctx) + n <= loaded.cap,
         cpu' = Ran(cpu, batch, TRUE),
         UNCHANGED <<machine, loaded>>, ctx' = ctx \o SubSeq(batch, 1, n)
  PROVE  Sound(cpu)'
<1>1. cpu \in [Positions -> RowValues]
  BY DEF GpuTypeOK, RowValues
<1>2. Holds(cpu', ctx', M)
  BY <1>1, RunExtendsPrefix
<1> QED  BY <1>2 DEF Sound, Holds, Row, M

\* Where the model runs does not change during a generation.
LEMMA SamePlace ==
  ASSUME UNCHANGED <<machine, loaded>>
  PROVE  OnGpu' = OnGpu /\ NeedsCpu' = NeedsCpu /\ M' = M
  BY DEF OnGpu, NeedsCpu, M

\* A run on Metal.
LEMMA MetalRunIsRight ==
  ASSUME GpuTypeOK, CallInv, PrefixIsStored, SeparateKeys, OnGpu, machine.device = "metal",
         NEW batch \in Seq(Tokens), NEW n \in 1 .. Len(batch), Len(ctx) + n <= loaded.cap,
         MetalRun(batch), UNCHANGED <<machine, loaded>>, ctx' = ctx \o SubSeq(batch, 1, n)
  PROVE  CallInv' /\ PrefixIsStored'
<1>1. OwnNorms /\ NormsAreOwn'
  BY NormsOfTheModel DEF CallInv, MetalRun
<1>2. /\ Acquired(kv) \in Stores /\ Acquired(kv).shape = KvShape
      /\ Acquired(kv).rows \in [Positions -> RowValues] /\ Sound(Acquired(kv).rows)
  BY AcquiredIsSound DEF PrefixIsStored
<1>3. OwnNorms = TRUE
  BY <1>1 DEF OwnNorms
<1>4. kv' = [Acquired(kv) EXCEPT !.rows = Ran(@, batch, TRUE)]
  BY <1>3 DEF MetalRun
<1>5. (kv.shape = KvShape /\ Sound(kv.rows))'
  BY <1>2, <1>4, ExtendedStore
<1>6. right'
  BY <1>1, <1>2 DEF MetalRun, CallInv
<1>7. GraphHasItsNorm'
  BY DEF MetalRun, CallInv, GraphHasItsNorm
<1>8. ~NeedsCpu
  BY DEF NeedsCpu
<1> QED  BY <1>1, <1>5, <1>6, <1>7, <1>8, SamePlace DEF CallInv, PrefixIsStored

\* A run on the CPU.
LEMMA CpuRunIsRight ==
  ASSUME GpuTypeOK, CallInv, PrefixIsStored, ~OnGpu,
         NEW batch \in Seq(Tokens), NEW n \in 1 .. Len(batch), Len(ctx) + n <= loaded.cap,
         CpuRun(batch), UNCHANGED <<machine, loaded>>, ctx' = ctx \o SubSeq(batch, 1, n)
  PROVE  CallInv' /\ PrefixIsStored'
<1>1. NeedsCpu /\ Sound(cpu)
  BY DEF NeedsCpu, PrefixIsStored
<1>2. Sound(cpu)'
  BY <1>1, ExtendedCpu DEF CpuRun
<1>3. right' /\ NormsAreOwn' /\ GraphHasItsNorm'
  BY <1>1 DEF CpuRun, CallInv, NormsAreOwn, GraphHasItsNorm, FamilyOf
<1> QED  BY <1>2, <1>3, SamePlace DEF CallInv, PrefixIsStored

\* The layers on CUDA, launched or replayed: the recorded layers are the
\* model's own, and the recorded sequence ends as this model's does.
LEMMA CudaLayersAreRight ==
  ASSUME GpuTypeOK, GraphPart, CallInv, PrefixIsStored, SeparateKeys, OnGpu,
         machine.device = "cuda", NEW t \in Tokens, Len(ctx) + 1 <= loaded.cap,
         NEW ok \in BOOLEAN, CudaLayers(t, ok),
         UNCHANGED <<machine, loaded>>, ctx' = ctx \o SubSeq(<<t>>, 1, 1)
  PROVE  /\ ok /\ NormsAreOwn' /\ GraphHasItsNorm' /\ (kv.shape = KvShape /\ Sound(kv.rows))'
         /\ driver'.state = "captured" => machine.captures
<1> DEFINE store == Acquired(kv)
           graph == AcquiredGraph
           replay == graph.state = "captured"
           own == OwnNorms /\ (IF replay THEN graph.weights ELSE weights') = M
<1>1. OwnNorms /\ NormsAreOwn'
  BY NormsOfTheModel DEF CallInv, CudaLayers
<1>2. weights' = M /\ M \in machine.serves /\ M # "none"
  BY BuiltWeights, LoadedModel DEF CudaLayers
<1>3. graph.state # "none" => graph = driver /\ bufs = BufShape
  BY AcquiredGraphLives
<1>4. graph.live /\ graph \in Graphs
  BY AcquiredGraphLives
<1>5. replay => /\ graph = driver /\ driver.weights = M /\ weights = M /\ machine.captures
                /\ graph.norm = NormOnGpu
  <2> SUFFICES ASSUME replay
               PROVE  /\ graph = driver /\ driver.weights = M /\ weights = M /\ machine.captures
                      /\ graph.norm = NormOnGpu
    OBVIOUS
  <2>1. graph = driver /\ bufs = BufShape /\ driver.state = "captured"
    BY <1>3
  <2>2. /\ weights \in machine.serves /\ driver.weights = weights
        /\ \E n \in Contexts : bufs = <<Dims[weights], n>>
    BY <2>1 DEF GraphPart, ReplayIsCurrent
  <2>3. Dims[weights] = Dims[M]
    BY <2>1, <2>2 DEF BufShape
  <2>4. weights = M
    BY <1>2, <2>2, <2>3, SizesTellModels
  <2>5. machine.captures /\ driver.norm = (Format[weights] # "fp32head")
    BY <2>1 DEF CallInv, GraphHasItsNorm
  <2> QED  BY <2>1, <2>2, <2>4, <2>5 DEF NormOnGpu
<1>6. own
  BY <1>1, <1>2, <1>5
<1>7. own = TRUE
  BY <1>6 DEF OwnNorms
<1>8. /\ store \in Stores /\ store.shape = KvShape
      /\ store.rows \in [Positions -> RowValues] /\ Sound(store.rows)
  BY AcquiredIsSound DEF PrefixIsStored
<1>9. ok = (own /\ Sound(store.rows) /\ (replay => graph.live /\ graph.norm = NormOnGpu))
  BY DEF CudaLayers
<1>10. ok
  BY <1>4, <1>5, <1>6, <1>8, <1>9
<1>11. kv' = [store EXCEPT !.rows = Ran(@, <<t>>, own)]
  BY <1>4 DEF CudaLayers
<1>12. kv' = [store EXCEPT !.rows = Ran(@, <<t>>, TRUE)]
  <2> HIDE DEF own
  <2> QED  BY <1>7, <1>11
<1>13. <<t>> \in Seq(Tokens) /\ 1 \in 1 .. Len(<<t>>)
  OBVIOUS
<1>14. (kv.shape = KvShape /\ Sound(kv.rows))'
  <2> HIDE DEF store
  <2> QED  BY <1>8, <1>12, <1>13, ExtendedStore
<1>15. /\ driver'.state = "captured" =>
              machine.captures /\ driver'.norm = (Format[weights'] # "fp32head")
  <2>1. CASE graph.state # "none"
    <3>1. driver' = driver /\ graph = driver
      BY <2>1, <1>3 DEF CudaLayers
    <3> QED  BY <3>1, <1>2, <1>5 DEF NormOnGpu
  <2>2. CASE graph.state = "none" /\ machine.captures
    <3>1. driver' = [state |-> "captured", weights |-> weights', norm |-> NormOnGpu, live |-> TRUE]
      BY <2>2 DEF CudaLayers
    <3> QED  BY <3>1, <2>2, <1>2 DEF NormOnGpu
  <2>3. CASE graph.state = "none" /\ ~ machine.captures
    <3>1. driver' = [graph EXCEPT !.state = "failed"]
      BY <2>3 DEF CudaLayers
    <3>2. driver'.state = "failed"
      BY <3>1, <1>4 DEF Graphs
    <3> QED  BY <3>2
  <2> QED  BY <2>1, <2>2, <2>3
<1>16. GraphHasItsNorm'
  BY <1>15 DEF GraphHasItsNorm
<1> QED  BY <1>1, <1>10, <1>14, <1>15, <1>16

\* One token on CUDA, with or without an LM head that fits.
LEMMA CudaForwardIsRight ==
  ASSUME GpuTypeOK, GraphPart, CallInv, PrefixIsStored, SeparateKeys, NormOnce, OnGpu,
         machine.device = "cuda", NEW t \in Tokens, Len(ctx) + 1 <= loaded.cap,
         CudaForward(t), UNCHANGED <<machine, loaded>>, ctx' = ctx \o SubSeq(<<t>>, 1, 1)
  PROVE  CallInv' /\ PrefixIsStored'
<1>1. PICK ok \in BOOLEAN :
        /\ CudaLayers(t, ok)
        /\ IF NormOnGpu /\ ~ machine.lmFits
           THEN LmHeadFallback(t, ok)
           ELSE UNCHANGED cpu /\ right' = (right /\ ok)
  BY DEF CudaForward
<1>2. /\ ok /\ NormsAreOwn' /\ GraphHasItsNorm' /\ (kv.shape = KvShape /\ Sound(kv.rows))'
      /\ driver'.state = "captured" => machine.captures
  BY <1>1, CudaLayersAreRight
<1>3. NeedsCpu <=> Format[M] = "ternary" /\ ~machine.lmFits
  BY DEF NeedsCpu
<1>4. Format[M] \in {"onebit", "fp32head", "ternary"} /\ M \in machine.serves /\ machine \in Machines
  BY LoadedModel, ShapesAssumption DEF OnGpu, GpuTypeOK
<1>5. CASE ~(NormOnGpu /\ ~ machine.lmFits)
  <2>1. right' /\ UNCHANGED cpu
    BY <1>1, <1>2, <1>5 DEF CallInv
  <2>2. ~NeedsCpu
    BY <1>3, <1>5 DEF NormOnGpu
  <2> QED  BY <1>2, <2>1, <2>2, SamePlace DEF CallInv, PrefixIsStored
<1>6. CASE NormOnGpu /\ ~ machine.lmFits /\ Format[M] = "ternary"
  <2>1. cpu' = Ran(cpu, <<t>>, TRUE) /\ right' = (right /\ Sound(cpu))
    BY <1>1, <1>6 DEF LmHeadFallback
  <2>2. Sound(cpu)
    BY <1>3, <1>6 DEF PrefixIsStored
  <2>3. <<t>> \in Seq(Tokens) /\ 1 \in 1 .. Len(<<t>>)
    OBVIOUS
  <2>4. Sound(cpu)'
    BY <2>1, <2>2, <2>3, ExtendedCpu
  <2> QED  BY <1>2, <2>1, <2>2, <2>4 DEF CallInv, PrefixIsStored
<1>7. CASE NormOnGpu /\ ~ machine.lmFits /\ Format[M] # "ternary"
  <2>1. Format[M] = "onebit"
    BY <1>4, <1>7 DEF NormOnGpu
  <2>2. ~machine.captures
    BY <1>4, <1>7, <2>1 DEF NormOnce
  <2>3. right'
    BY <1>1, <1>2, <1>7, <2>2 DEF LmHeadFallback, CallInv
  <2>4. ~NeedsCpu
    BY <1>3, <1>7
  <2> QED  BY <1>2, <2>3, <2>4, SamePlace DEF CallInv, PrefixIsStored
<1> QED  BY <1>5, <1>6, <1>7

LEMMA ForwardIsRight ==
  ASSUME GpuTypeOK, GraphPart, CallInv, PrefixIsStored, SeparateKeys, NormOnce,
         NEW t \in Tokens, Len(ctx) + 1 <= loaded.cap,
         Forward(t), UNCHANGED <<machine, loaded>>, ctx' = Append(ctx, t)
  PROVE  CallInv' /\ PrefixIsStored'
<1>1. <<t>> \in Seq(Tokens) /\ 1 \in 1 .. Len(<<t>>)
  OBVIOUS
<1>2. ctx \in Seq(Tokens)
  BY DEF GpuTypeOK
<1>3. ctx' = ctx \o SubSeq(<<t>>, 1, 1)
  <2>1. SubSeq(<<t>>, 1, 1) = <<t>>
    <3> DEFINE s == SubSeq(<<t>>, 1, 1)
    <3>1. s \in Seq(Tokens) /\ Len(s) = 1 /\ s[1] = t
      BY <1>1
    <3>2. <<t>> \in Seq(Tokens) /\ Len(<<t>>) = 1 /\ <<t>>[1] = t
      OBVIOUS
    <3> HIDE DEF s
    <3>3. \A i \in 1 .. Len(s) : s[i] = <<t>>[i]
      BY <3>1, <3>2
    <3>4. s = <<t>>
      BY <3>1, <3>2, <3>3, SeqEqual
    <3> QED  BY <3>4 DEF s
  <2>2. Append(ctx, t) = ctx \o <<t>>
    BY <1>2
  <2> QED  BY <2>1, <2>2
<1> QED  BY <1>1, <1>3, CudaForwardIsRight, MetalRunIsRight, CpuRunIsRight DEF Forward, MetalToken

\* A prompt in one batch: on Metal through the decode store, on CUDA through
\* one of its own, which is asked for this answer only.
LEMMA BatchIsRight ==
  ASSUME GpuTypeOK, CallInv, SeparateKeys, OwnStores, stage = "batch", RoomIsLeft, PrefillBatch
  PROVE  CallInv' /\ (stage' \in {"sequential", "decode"} => PrefixIsStored')
<1>1. /\ ctx = <<>> /\ Batches(todo) /\ ~Excluded(todo) /\ Len(ctx) + Len(todo) <= loaded.cap
      /\ UNCHANGED <<machine, loaded>> /\ ctx' = todo /\ todo \in Seq(Tokens)
  BY DEF RoomIsLeft, PrefillBatch, GpuTypeOK
<1>2. CASE machine.device = "metal" /\ MetalPrompt(todo)
  <2>1. OnGpu /\ ~NeedsCpu /\ Len(todo) > 1
    BY <1>1, <1>2 DEF Batches, OnGpu, NeedsCpu
  <2>2. PrefixIsStored
    BY <1>1, <2>1 DEF PrefixIsStored
  <2>3. Len(todo) \in 1 .. Len(todo) /\ Len(ctx) + Len(todo) <= loaded.cap
    BY <1>1, <2>1
  <2>4. ctx' = ctx \o SubSeq(todo, 1, Len(todo))
    <3>1. SubSeq(todo, 1, Len(todo)) = todo
      BY <1>1
    <3>2. <<>> \o todo = todo
      BY <1>1
    <3> QED  BY <1>1, <3>1, <3>2
  <2> QED  BY <1>1, <1>2, <2>1, <2>2, <2>3, <2>4, MetalRunIsRight DEF MetalPrompt
<1>3. CASE machine.device = "cuda" /\ CudaBatch(todo)
  <2>1. Len(todo) > BatchMax /\ Format[M] \in {"onebit", "std"}
    BY <1>1, <1>3 DEF Batches
  <2>2. Format[M] = "std"
    BY <1>1, <1>3, <2>1 DEF Excluded, OwnStores
  <2>3. stage' = "answered"
    BY <1>3, <2>2 DEF PrefillBatch, OwnStores
  <2>4. FamilyOf(M) = "std"
    BY <2>2 DEF FamilyOf
  <2>5. OwnNorms /\ NormsAreOwn'
    BY <1>1, <1>3, NormsOfTheModel DEF CallInv, CudaBatch
  <2>6. right' = (right /\ OwnNorms /\ Sound(Acquired(pre["std"]).rows))
    BY <1>3, <2>4 DEF CudaBatch
  <2>7. Sound(Acquired(pre["std"]).rows)
    BY <1>1 DEF Sound
  <2>8. right'
    BY <2>5, <2>6, <2>7 DEF CallInv
  <2>9. GraphHasItsNorm'
    BY <1>1, <1>3 DEF CudaBatch, CallInv, GraphHasItsNorm
  <2> QED  BY <2>3, <2>5, <2>8, <2>9 DEF CallInv
<1> QED  BY <1>2, <1>3 DEF PrefillBatch

\* Whatever path a token takes, its logits come from the loaded model and from
\* the rows of its own prefix: for any models of separate keys and sizes, any
\* prompts, contexts and machines, through reloads, replays, failed captures,
\* drafts and an LM head on the CPU.  Prompts whose batch writes a store that
\* decoding does not read (gpu_prompt and section 5 of the README) are asked
\* for as in the runs.
THEOREM AnswersAreOwn ==
  ASSUME SeparateKeys, OwnStores, NormOnce
  PROVE  Spec => []AnswersFromOwnPrefix
<1>1. Init => AnswerInv
  <2> SUFFICES ASSUME Init PROVE AnswerInv
    OBVIOUS
  <2>1. GraphInv
    BY GraphInitially
  <2>2. NormsAreOwn /\ right /\ stage = "idle"
    BY DEF Init, NormsAreOwn
  <2>3. GraphHasItsNorm
    BY DEF Init, GraphHasItsNorm, NoGraph
  <2> QED  BY <2>1, <2>2, <2>3 DEF AnswerInv, CallInv, RoomIsLeft
<1>2. AnswerInv /\ [Next]_vars => AnswerInv'
  <2> SUFFICES ASSUME AnswerInv, [Next]_vars PROVE AnswerInv'
    OBVIOUS
  <2>i. /\ GraphInv' /\ GpuTypeOK /\ GraphPart /\ CallInv /\ RoomIsLeft
        /\ stage = "sequential" => todo # <<>>
        /\ stage \in {"sequential", "decode"} => PrefixIsStored
    BY GraphInductive, PartsOfGraphInv DEF AnswerInv
  <2>t. /\ ctx \in Seq(Tokens) /\ todo \in Seq(Tokens) /\ loaded.cap \in Nat
        /\ Len(ctx) \in Nat /\ Len(todo) \in Nat
    BY <2>i, MaxContextIsMax DEF GpuTypeOK
  \* Steps that call nothing.
  <2>c. ASSUME UNCHANGED <<machine, norms, weights, driver>>, right'
        PROVE  CallInv'
    BY <2>i, <2>c DEF CallInv, NormsAreOwn, GraphHasItsNorm, FamilyOf
  <2>1. ASSUME NEW m \in Models, NEW n \in Contexts, Load(m, n) PROVE AnswerInv'
    BY <2>i, <2>c, <2>1 DEF Load, AnswerInv, RoomIsLeft, CallInv
  <2>2. ASSUME NEW p \in Prompts, Start(p) PROVE AnswerInv'
    <3>1. p \in Seq(Tokens) /\ Len(p) \in Nat
      BY PromptsAssumption
    <3>2. CallInv'
      BY <2>2, <2>c DEF Start
    <3>3. RoomIsLeft'
      <4>1. ctx' = <<>> /\ todo' = p /\ Len(p) <= loaded.cap /\ UNCHANGED <<machine, loaded>>
        BY <2>2 DEF Start
      <4>2. Len(ctx') = 0
        BY <4>1
      <4>3. stage' = "batch" => Batches(p)
        BY <2>2 DEF Start
      <4>4. stage' # "decode"
        BY <2>2 DEF Start
      <4>5. Batches(p) => Batches(todo)'
        BY <4>1 DEF Batches, M
      <4>6. ~Excluded(todo)'
        BY <2>2, <4>1 DEF Start, Excluded, M
      <4> QED  BY <3>1, <4>1, <4>2, <4>3, <4>4, <4>5, <4>6 DEF RoomIsLeft
    <3>4. PrefixIsStored'
      <4>1. ctx' = <<>>
        BY <2>2 DEF Start
      <4> QED  BY <4>1 DEF PrefixIsStored, Sound
    <3> QED  BY <2>i, <3>2, <3>3, <3>4 DEF AnswerInv
  <2>3. CASE PrefillToken
    <3>1. /\ Head(todo) \in Tokens /\ todo # <<>> /\ Len(todo) >= 1 /\ PrefixIsStored
          /\ Len(Tail(todo)) = Len(todo) - 1
      BY <2>i, <2>t, <2>3 DEF PrefillToken
    <3>2. Len(ctx) + 1 <= loaded.cap
      BY <2>i, <2>t, <2>3, <3>1 DEF PrefillToken, RoomIsLeft
    <3>3. CallInv' /\ PrefixIsStored'
      BY <2>i, <2>3, <3>1, <3>2, ForwardIsRight DEF PrefillToken
    <3>4. RoomIsLeft'
      <4>1. Len(ctx') = Len(ctx) + 1 /\ Len(todo') = Len(todo) - 1 /\ loaded' = loaded
        BY <2>t, <2>3, <3>1 DEF PrefillToken
      <4>2. stage' # "batch" /\ Len(ctx) + Len(todo) <= loaded.cap
        BY <2>i, <2>3 DEF PrefillToken, RoomIsLeft
      <4> QED  BY <2>t, <3>2, <4>1, <4>2 DEF RoomIsLeft
    <3> QED  BY <2>i, <3>3, <3>4 DEF AnswerInv
  <2>4. CASE PrefillBatch
    <3>1. stage = "batch" /\ Len(todo) <= loaded.cap
      BY <2>i, <2>t, <2>4 DEF PrefillBatch, RoomIsLeft
    <3>2. CallInv' /\ (stage' \in {"sequential", "decode"} => PrefixIsStored')
      BY <2>i, <2>4, <3>1, BatchIsRight
    <3>3. RoomIsLeft'
      BY <2>4, <3>1 DEF PrefillBatch, RoomIsLeft
    <3> QED  BY <2>i, <3>2, <3>3 DEF AnswerInv
  <2>5. ASSUME NEW t \in Tokens, Decode(t) PROVE AnswerInv'
    <3>1. Len(ctx) + 1 <= loaded.cap /\ PrefixIsStored
      BY <2>i, <2>t, <2>5 DEF Decode
    <3>2. CallInv' /\ PrefixIsStored'
      BY <2>i, <2>5, <3>1, ForwardIsRight DEF Decode
    <3>3. Len(ctx') = Len(ctx) + 1 /\ loaded' = loaded /\ stage' = "decode"
      BY <2>t, <2>5 DEF Decode
    <3> QED  BY <2>i, <2>t, <3>1, <3>2, <3>3 DEF AnswerInv, RoomIsLeft
  <2>6. ASSUME NEW batch \in Drafts, NEW accepted \in 0 .. Len(batch) - 1,
               Speculate(batch, accepted)
        PROVE  AnswerInv'
    <3>1. batch \in Seq(Tokens) /\ Len(batch) \in Nat
      BY ShapesAssumption DEF Drafts
    <3>2. accepted + 1 \in 1 .. Len(batch)
      BY <3>1
    <3>3. /\ machine.device = "metal" /\ PrefixIsStored /\ Len(ctx) + (accepted + 1) <= loaded.cap
          /\ UNCHANGED <<machine, loaded>> /\ stage' = "decode"
          /\ ctx' = ctx \o SubSeq(batch, 1, accepted + 1)
      BY <2>i, <2>t, <2>6, <3>1, <3>2 DEF Speculate
    <3>4. CallInv' /\ PrefixIsStored'
      BY <2>i, <2>6, <3>1, <3>2, <3>3, MetalRunIsRight, CpuRunIsRight DEF Speculate, MetalDraft
    <3>5. Len(ctx') = Len(ctx) + (accepted + 1)
      BY <2>t, <3>1, <3>2, <3>3
    <3> QED  BY <2>i, <3>3, <3>4, <3>5 DEF AnswerInv, RoomIsLeft
  <2>7. CASE Finish
    BY <2>i, <2>c, <2>7 DEF Finish, AnswerInv, RoomIsLeft, CallInv
  <2>8. CASE UNCHANGED vars
    BY <2>i, <2>8 DEF vars, AnswerInv, RoomIsLeft, CallInv, NormsAreOwn, GraphHasItsNorm, FamilyOf,
                      PrefixIsStored, NeedsCpu, OnGpu, Sound, Row, KvShape, M, Batches, Excluded
  <2> QED  BY <2>1, <2>2, <2>3, <2>4, <2>5, <2>6, <2>7, <2>8 DEF Next
<1>3. AnswerInv => AnswersFromOwnPrefix
  BY DEF AnswerInv, CallInv, AnswersFromOwnPrefix
<1> QED  BY <1>1, <1>2, <1>3, PTL DEF Spec
-----------------------------------------------------------------------------
(* The weights of the image model's products (ImageWeights).                 *)

\* Hosts whose copies cannot go stale: they take each one out after its
\* product, or never free a buffer that has one.
EvictsOrKeeps(m) == \/ m.device = "cuda"
                    \/ m.device = "metal" /\ m.sessions = 1 /\ (m.source = "npy" \/ m.resident)

Contents == Linears \cup {Free}
Tasks == [at : {"idle"}]
    \cup [at : {"decoded", "computed"}, linear : Linears, address : Addresses]
    \cup [at : {"uploaded", "computed", "evict"}, linear : Linears, address : Addresses,
          handle : Contents]

Registered(r) == {registry[r][l] : l \in DOMAIN registry[r]}

WeightTypes ==
    /\ host \in Hosts
    /\ heap \in [Addresses -> Contents]
    /\ DOMAIN registry = Renderers
    /\ \A r \in Renderers : DOMAIN registry[r] \subseteq TeLinears /\ Registered(r) \subseteq Addresses
    /\ DOMAIN gpuCopy \subseteq Addresses
    /\ scope \in [Renderers -> SUBSET Addresses]
    /\ task \in [Renderers -> Tasks]
    /\ sessions \in [Renderers -> Nat \ {0}]
    /\ DOMAIN product = Renderers

Busy(r) == task[r].at # "idle"

\* The buffers a renderer holds, and what is in them.
Mine(r) == scope[r] \cup Registered(r) \cup (IF Busy(r) THEN {task[r].address} ELSE {})
BuffersHaveOneOwner == \A r, s \in Renderers : r # s => Mine(r) \cap Mine(s) = {}
RegistryHolds(r) == \A l \in DOMAIN registry[r] : Kept(l) /\ heap[registry[r][l]] = l
ScopeHolds(r) == \A a \in scope[r] : heap[a] \in TeLinears /\ ~Kept(heap[a])
TaskHolds(r) == Busy(r) => /\ heap[task[r].address] = task[r].linear
                           /\ task[r].at = "uploaded" => task[r].handle = task[r].linear
BuffersHold == \A r \in Renderers : RegistryHolds(r) /\ ScopeHolds(r) /\ TaskHolds(r)

\* On CUDA a copy is there for the product under way, on Metal for a buffer
\* that stays.
CopiesAreCurrent ==
    \A a \in DOMAIN gpuCopy :
        /\ gpuCopy[a] = heap[a]
        /\ IF host.device = "cuda"
           THEN \E r \in Renderers : task[r].at \in {"uploaded", "evict"} /\ task[r].address = a
           ELSE heap[a] \in TeLinears

WeightsInv == /\ WeightTypes /\ BuffersHaveOneOwner /\ BuffersHold /\ CopiesAreCurrent
              /\ ProductsUseTheirWeights

\* A buffer that somebody holds is not free.
LEMMA HeldIsNotFree ==
  ASSUME WeightsInv, NEW r \in Renderers, NEW a \in Mine(r)
  PROVE  a \in Addresses /\ heap[a] \in Linears /\ heap[a] # Free
<1>1. CASE a \in scope[r]
  BY <1>1, WeightsAssumption DEF WeightsInv, WeightTypes, BuffersHold, ScopeHolds, Linears
<1>2. CASE a \in Registered(r)
  <2>1. PICK l \in DOMAIN registry[r] : a = registry[r][l]
    BY <1>2 DEF Registered
  <2>2. heap[a] = l /\ l \in TeLinears /\ a \in Addresses
    BY <2>1, <1>2 DEF WeightsInv, WeightTypes, BuffersHold, RegistryHolds
  <2> QED  BY <2>2, WeightsAssumption DEF Linears
<1>3. CASE Busy(r) /\ a = task[r].address
  <2>1. task[r] \in Tasks /\ task[r].at # "idle"
    BY <1>3 DEF WeightsInv, WeightTypes, Busy
  <2>2. task[r].linear \in Linears /\ task[r].address \in Addresses
    BY <2>1 DEF Tasks
  <2>3. heap[a] = task[r].linear
    BY <1>3 DEF WeightsInv, BuffersHold, TaskHolds
  <2> QED  BY <1>3, <2>2, <2>3, WeightsAssumption DEF Linears
<1> QED  BY <1>1, <1>2, <1>3 DEF Mine

\* A product that goes on with the same buffer.
LEMMA ProductGoesOn ==
  ASSUME WeightsInv, NEW r \in Renderers, Busy(r), Busy(r)',
         UNCHANGED <<host, heap, registry, scope, sessions>>,
         task' \in [Renderers -> Tasks],
         task'[r].linear = task[r].linear, task'[r].address = task[r].address,
         task'[r].at = "uploaded" => task'[r].handle = task[r].linear,
         \A s \in Renderers \ {r} : task'[s] = task[s]
  PROVE  BuffersHaveOneOwner' /\ BuffersHold'
<1>1. \A s \in Renderers : Mine(s)' = Mine(s)
  BY DEF Mine, Registered, Busy
<1>2. BuffersHaveOneOwner'
  BY <1>1 DEF WeightsInv, BuffersHaveOneOwner
<1>3. \A s \in Renderers : RegistryHolds(s)' /\ ScopeHolds(s)'
  BY DEF WeightsInv, BuffersHold, RegistryHolds, ScopeHolds, Kept
<1>4. \A s \in Renderers \ {r} : TaskHolds(s)'
  BY DEF WeightsInv, BuffersHold, TaskHolds, Busy
<1>5. TaskHolds(r)'
  BY DEF WeightsInv, BuffersHold, TaskHolds, Busy
<1> QED  BY <1>2, <1>3, <1>4, <1>5 DEF BuffersHold

\* A product moves on to another stage with all it had.
LEMMA NextStage ==
  ASSUME WeightsInv, NEW r \in Renderers, Busy(r), NEW point \in {"computed", "evict"},
         point = "evict" => task[r].at = "uploaded",
         task' = [task EXCEPT ![r].at = point],
         UNCHANGED <<host, heap, registry, scope, sessions>>
  PROVE  /\ task' \in [Renderers -> Tasks] /\ task'[r].at = point
         /\ task'[r].address = task[r].address
         /\ \A s \in Renderers \ {r} : task'[s] = task[s]
         /\ BuffersHaveOneOwner' /\ BuffersHold'
<1>1. task \in [Renderers -> Tasks] /\ task[r] \in Tasks /\ task[r].at # "idle"
  BY DEF WeightsInv, WeightTypes, Busy
<1>2. /\ [task[r] EXCEPT !.at = point] \in Tasks
      /\ [task[r] EXCEPT !.at = point].at = point
      /\ [task[r] EXCEPT !.at = point].linear = task[r].linear
      /\ [task[r] EXCEPT !.at = point].address = task[r].address
  BY <1>1 DEF Tasks
<1>3. task'[r] = [task[r] EXCEPT !.at = point]
  BY <1>1
<1>4. task' \in [Renderers -> Tasks]
  BY <1>1, <1>2, <1>3
<1>5. \A s \in Renderers \ {r} : task'[s] = task[s]
  BY <1>1
<1>6. BuffersHaveOneOwner' /\ BuffersHold'
  BY <1>2, <1>3, <1>4, <1>5, ProductGoesOn DEF Busy
<1> QED  BY <1>2, <1>3, <1>4, <1>5, <1>6

\* The product of the buffer's content is what was asked for.
LEMMA RightProduct ==
  ASSUME WeightsInv, NEW r \in Renderers, Busy(r), ComputedWith(r, task[r].linear)
  PROVE  ProductsUseTheirWeights' /\ DOMAIN product' = Renderers
  BY DEF WeightsInv, WeightTypes, ComputedWith, ProductsUseTheirWeights

\* Where the product runs on the host, nothing else changes.
LEMMA ComputedOnCpu ==
  ASSUME WeightsInv, NEW r \in Renderers, task[r].at = "decoded", OnCpu(r),
         UNCHANGED <<host, heap, registry, scope, gpuCopy, sessions>>
  PROVE  WeightsInv'
<1>1. Busy(r) /\ heap[task[r].address] = task[r].linear
  BY DEF Busy, WeightsInv, BuffersHold, TaskHolds
<1>2. /\ task' \in [Renderers -> Tasks] /\ \A s \in Renderers \ {r} : task'[s] = task[s]
      /\ BuffersHaveOneOwner' /\ BuffersHold'
  BY <1>1, NextStage DEF OnCpu
<1>3. ProductsUseTheirWeights' /\ DOMAIN product' = Renderers
  BY <1>1, RightProduct DEF OnCpu
<1>4. WeightTypes'
  BY <1>2, <1>3 DEF WeightsInv, WeightTypes, Registered
<1>5. CopiesAreCurrent'
  <2>1. \A s \in Renderers : task[s].at \in {"uploaded", "evict"} => s \in Renderers \ {r}
    OBVIOUS
  <2>2. \A s \in Renderers : task[s].at \in {"uploaded", "evict"} => task'[s] = task[s]
    BY <2>1, <1>2
  <2> QED  BY <2>2 DEF WeightsInv, CopiesAreCurrent
<1> QED  BY <1>2, <1>3, <1>4, <1>5 DEF WeightsInv

\* A weight that is decoded already.
LEMMA RegisteredWeight ==
  ASSUME WeightsInv, NEW r \in Renderers, NEW l \in DOMAIN registry[r], task[r].at = "idle",
         task' = [task EXCEPT ![r] = [at |-> "decoded", linear |-> l, address |-> registry[r][l]]],
         UNCHANGED <<host, heap, registry, scope, gpuCopy, sessions, product>>
  PROVE  WeightsInv'
<1> DEFINE new == [at |-> "decoded", linear |-> l, address |-> registry[r][l]]
<1>1. /\ l \in Linears /\ registry[r][l] \in Registered(r) /\ registry[r][l] \in Addresses
      /\ heap[registry[r][l]] = l
  BY DEF WeightsInv, WeightTypes, BuffersHold, RegistryHolds, Registered, Linears
<1>2. new \in Tasks /\ new.at = "decoded" /\ new.linear = l /\ new.address = registry[r][l]
  BY <1>1 DEF Tasks
<1>3. /\ task' \in [Renderers -> Tasks] /\ task'[r] = new
      /\ \A s \in Renderers \ {r} : task'[s] = task[s]
  BY <1>2 DEF WeightsInv, WeightTypes
<1> HIDE DEF new
<1>4. \A s \in Renderers : Mine(s)' \subseteq Mine(s)
  <2>1. \A s \in Renderers \ {r} : Mine(s)' = Mine(s)
    BY <1>3 DEF Mine, Registered, Busy
  <2>2. Mine(r)' \subseteq Mine(r)
    BY <1>1, <1>2, <1>3 DEF Mine, Registered, Busy
  <2> QED  BY <2>1, <2>2
<1>5. BuffersHaveOneOwner'
  BY <1>4 DEF WeightsInv, BuffersHaveOneOwner
<1>6. BuffersHold'
  <2>1. \A s \in Renderers : RegistryHolds(s)' /\ ScopeHolds(s)'
    BY DEF WeightsInv, BuffersHold, RegistryHolds, ScopeHolds, Kept
  <2>2. \A s \in Renderers \ {r} : TaskHolds(s)'
    BY <1>3 DEF WeightsInv, BuffersHold, TaskHolds, Busy
  <2>3. TaskHolds(r)'
    BY <1>1, <1>2, <1>3 DEF TaskHolds, Busy
  <2> QED  BY <2>1, <2>2, <2>3 DEF BuffersHold
<1>7. CopiesAreCurrent'
  <2>1. \A s \in Renderers : task[s].at \in {"uploaded", "evict"} => s \in Renderers \ {r}
    OBVIOUS
  <2> QED  BY <2>1, <1>3 DEF WeightsInv, CopiesAreCurrent
<1>8. WeightTypes' /\ ProductsUseTheirWeights'
  BY <1>3 DEF WeightsInv, WeightTypes, Registered, ProductsUseTheirWeights
<1> QED  BY <1>5, <1>6, <1>7, <1>8 DEF WeightsInv

\* A weight that is decoded into a buffer of its own, which nobody held.
LEMMA FreshWeight ==
  ASSUME WeightsInv, NEW r \in Renderers, NEW l \in Linears, NEW a \in Addresses,
         task[r].at = "idle", l \notin DOMAIN registry[r], heap[a] = Free,
         heap' = [heap EXCEPT ![a] = l],
         registry' = IF Kept(l) THEN [registry EXCEPT ![r] = With(@, l, a)] ELSE registry,
         scope' = IF l \in TeLinears /\ ~Kept(l) THEN [scope EXCEPT ![r] = @ \cup {a}] ELSE scope,
         task' = [task EXCEPT ![r] = [at |-> "decoded", linear |-> l, address |-> a]],
         UNCHANGED <<host, gpuCopy, sessions, product>>
  PROVE  WeightsInv'
<1> DEFINE new == [at |-> "decoded", linear |-> l, address |-> a]
<1>1. new \in Tasks /\ new.at = "decoded" /\ new.linear = l /\ new.address = a
  BY DEF Tasks
<1>2. /\ task' \in [Renderers -> Tasks] /\ task'[r] = new
      /\ \A s \in Renderers \ {r} : task'[s] = task[s]
  BY <1>1 DEF WeightsInv, WeightTypes
<1> HIDE DEF new
<1>3. \A s \in Renderers : a \notin Mine(s)
  BY HeldIsNotFree
<1>4. /\ heap' \in [Addresses -> Contents] /\ heap'[a] = l
      /\ \A b \in Addresses \ {a} : heap'[b] = heap[b]
  BY DEF WeightsInv, WeightTypes, Contents
<1>5. \A s \in Renderers \ {r} : registry'[s] = registry[s] /\ scope'[s] = scope[s]
  BY DEF WeightsInv, WeightTypes
<1>6. /\ DOMAIN registry' = Renderers /\ scope' \in [Renderers -> SUBSET Addresses]
      /\ scope'[r] \subseteq scope[r] \cup {a}
  BY DEF WeightsInv, WeightTypes
<1>7. a \in scope'[r] => l \in TeLinears /\ ~Kept(l)
  BY <1>3 DEF WeightsInv, WeightTypes, Mine
<1>8. \A k \in DOMAIN registry'[r] :
          \/ k = l /\ l \in TeLinears /\ Kept(l) /\ registry'[r][k] = a
          \/ k \in DOMAIN registry[r] /\ registry'[r][k] = registry[r][k]
  <2>1. CASE Kept(l)
    <3>1. registry'[r] = With(registry[r], l, a)
      BY <2>1 DEF WeightsInv, WeightTypes
    <3>2. l \in TeLinears
      BY <2>1 DEF Kept
    <3> QED  BY <2>1, <3>1, <3>2 DEF With
  <2>2. CASE ~Kept(l)
    BY <2>2
  <2> QED  BY <2>1, <2>2
<1>9. Registered(r)' \subseteq Registered(r) \cup {a}
  BY <1>8 DEF Registered
<1>10. \A s \in Renderers : s # r => Mine(s)' = Mine(s)
  BY <1>2, <1>5 DEF Mine, Registered, Busy
<1>11. Mine(r)' \subseteq Mine(r) \cup {a}
  BY <1>1, <1>2, <1>6, <1>9 DEF Mine, Busy
<1>12. BuffersHaveOneOwner'
  <2> SUFFICES ASSUME NEW s \in Renderers, NEW t \in Renderers, s # t
               PROVE  Mine(s)' \cap Mine(t)' = {}
    BY DEF BuffersHaveOneOwner
  <2>1. Mine(s) \cap Mine(t) = {} /\ a \notin Mine(s) /\ a \notin Mine(t)
    BY <1>3 DEF WeightsInv, BuffersHaveOneOwner
  <2>2. CASE s = r
    BY <2>1, <2>2, <1>10, <1>11
  <2>3. CASE t = r
    BY <2>1, <2>3, <1>10, <1>11
  <2>4. CASE s # r /\ t # r
    BY <2>1, <2>4, <1>10
  <2> QED  BY <2>2, <2>3, <2>4
<1>13. \A s \in Renderers : \A b \in Mine(s) : heap'[b] = heap[b]
  BY <1>3, <1>4, HeldIsNotFree
<1>14. Kept(l)' = Kept(l) /\ \A k : Kept(k)' = Kept(k)
  BY DEF Kept
<1>15. ASSUME NEW s \in Renderers PROVE RegistryHolds(s)'
  <2>1. \A k \in DOMAIN registry[s] : /\ Kept(k) /\ heap[registry[s][k]] = k
                                      /\ heap'[registry[s][k]] = k
    <3> SUFFICES ASSUME NEW k \in DOMAIN registry[s]
                 PROVE  /\ Kept(k) /\ heap[registry[s][k]] = k
                        /\ heap'[registry[s][k]] = k
      OBVIOUS
    <3>1. Kept(k) /\ heap[registry[s][k]] = k
      BY DEF WeightsInv, BuffersHold, RegistryHolds
    <3>2. registry[s][k] \in Mine(s)
      BY DEF Mine, Registered
    <3> QED  BY <3>1, <3>2, <1>13
  <2>2. CASE s # r
    BY <2>1, <2>2, <1>5, <1>14 DEF RegistryHolds
  <2>3. CASE s = r
    BY <2>1, <2>3, <1>4, <1>8, <1>14 DEF RegistryHolds
  <2> QED  BY <2>2, <2>3
<1>16. ASSUME NEW s \in Renderers PROVE ScopeHolds(s)'
  <2>1. \A b \in scope[s] : heap'[b] \in TeLinears /\ ~Kept(heap'[b])
    BY <1>13 DEF WeightsInv, BuffersHold, ScopeHolds, Mine
  <2>2. CASE s # r
    BY <2>1, <2>2, <1>5, <1>14 DEF ScopeHolds
  <2>3. CASE s = r
    BY <2>1, <2>3, <1>4, <1>6, <1>7, <1>14 DEF ScopeHolds
  <2> QED  BY <2>2, <2>3
<1>17. ASSUME NEW s \in Renderers PROVE TaskHolds(s)'
  <2>1. CASE s # r
    <3>1. Busy(s) => task[s].address \in Mine(s)
      BY DEF Mine
    <3> QED  BY <3>1, <2>1, <1>2, <1>13 DEF WeightsInv, BuffersHold, TaskHolds, Busy
  <2>2. CASE s = r
    BY <2>2, <1>1, <1>2, <1>4 DEF TaskHolds
  <2> QED  BY <2>1, <2>2
<1>18. CopiesAreCurrent'
  <2> SUFFICES ASSUME NEW b \in DOMAIN gpuCopy
               PROVE  /\ gpuCopy[b] = heap'[b]
                      /\ IF host.device = "cuda"
                         THEN \E s \in Renderers : /\ task'[s].at \in {"uploaded", "evict"}
                                                   /\ task'[s].address = b
                         ELSE heap'[b] \in TeLinears
    BY DEF CopiesAreCurrent
  <2>1. /\ gpuCopy[b] = heap[b] /\ b \in Addresses
        /\ IF host.device = "cuda"
           THEN \E s \in Renderers : task[s].at \in {"uploaded", "evict"} /\ task[s].address = b
           ELSE heap[b] \in TeLinears
    BY DEF WeightsInv, WeightTypes, CopiesAreCurrent
  <2>2. b # a
    <3>1. CASE host.device = "cuda"
      BY <2>1, <3>1, <1>3 DEF Mine, Busy
    <3>2. CASE host.device # "cuda"
      BY <2>1, <3>2, WeightsAssumption
    <3> QED  BY <3>1, <3>2
  <2>3. \A s \in Renderers : task[s].at \in {"uploaded", "evict"} => task'[s] = task[s]
    BY <1>2
  <2> QED  BY <2>1, <2>2, <2>3, <1>4
<1>19. WeightTypes'
  <2>1. \A s \in Renderers : /\ (DOMAIN registry[s])' \subseteq TeLinears
                             /\ Registered(s)' \subseteq Addresses
    <3>1. \A s \in Renderers : /\ DOMAIN registry[s] \subseteq TeLinears
                               /\ Registered(s) \subseteq Addresses
      BY DEF WeightsInv, WeightTypes
    <3>2. \A s \in Renderers : s # r => Registered(s)' = Registered(s)
      BY <1>5 DEF Registered
    <3> QED  BY <3>1, <3>2, <1>5, <1>8, <1>9
  <2> QED  BY <2>1, <1>2, <1>4, <1>6 DEF WeightsInv, WeightTypes
<1>20. ProductsUseTheirWeights'
  BY DEF WeightsInv, ProductsUseTheirWeights
<1> QED  BY <1>12, <1>15, <1>16, <1>17, <1>18, <1>19, <1>20 DEF WeightsInv, BuffersHold

LEMMA Decoding ==
  ASSUME WeightsInv, NEW r \in Renderers, NEW l \in Linears, DecodeWeight(r, l)
  PROVE  WeightsInv'
<1>1. CASE l \in DOMAIN registry[r]
  BY <1>1, RegisteredWeight DEF DecodeWeight
<1>2. CASE l \notin DOMAIN registry[r]
  BY <1>2, FreshWeight DEF DecodeWeight
<1> QED  BY <1>1, <1>2

\* The GPU's copy is made, or found.
LEMMA Uploading ==
  ASSUME WeightsInv, NEW r \in Renderers, GetOrUpload(r)
  PROVE  WeightsInv'
<1> DEFINE a == task[r].address
           content == IF a \in DOMAIN gpuCopy THEN gpuCopy[a] ELSE heap[a]
           new == [at |-> "uploaded", linear |-> task[r].linear, address |-> a, handle |-> content]
<1>1. /\ Busy(r) /\ task[r].at = "decoded" /\ task[r] \in Tasks
      /\ UNCHANGED <<host, heap, registry, scope, sessions>>
  BY DEF GetOrUpload, Busy, WeightsInv, WeightTypes
<1>2. /\ a \in Addresses /\ task[r].linear \in Linears /\ heap[a] = task[r].linear
      /\ heap[a] \in Contents
  BY <1>1 DEF Tasks, WeightsInv, BuffersHold, TaskHolds, Contents
<1>3. content = task[r].linear
  BY <1>2 DEF WeightsInv, CopiesAreCurrent
<1>4. new \in Tasks /\ new.at = "uploaded" /\ new.linear = task[r].linear /\ new.address = a
      /\ new.handle = task[r].linear
  BY <1>2, <1>3 DEF Tasks
<1>5. CASE /\ gpuCopy' = With(gpuCopy, a, content) /\ task' = [task EXCEPT ![r] = new]
           /\ UNCHANGED product
  <2>1. /\ task' \in [Renderers -> Tasks] /\ task'[r] = new
        /\ \A s \in Renderers \ {r} : task'[s] = task[s]
    BY <1>4, <1>5 DEF WeightsInv, WeightTypes
  <2> HIDE DEF new
  <2>2. BuffersHaveOneOwner' /\ BuffersHold'
    BY <1>1, <1>4, <2>1, ProductGoesOn DEF Busy
  <2>3. /\ DOMAIN gpuCopy' = DOMAIN gpuCopy \cup {a} /\ gpuCopy'[a] = content
        /\ \A b \in DOMAIN gpuCopy \ {a} : gpuCopy'[b] = gpuCopy[b]
    BY <1>5 DEF With
  <2>4. WeightTypes'
    BY <1>1, <1>2, <1>5, <2>1, <2>3 DEF WeightsInv, WeightTypes, Registered
  <2>5. CopiesAreCurrent'
    <3>1. host.device # "cuda" => task[r].linear \in TeLinears
      BY DEF GetOrUpload, GoesToGpu
    <3>2. gpuCopy'[a] = heap[a] /\ (host.device = "cuda" \/ heap[a] \in TeLinears)
      BY <1>2, <1>3, <2>3, <3>1
    <3>3. task'[r].at \in {"uploaded", "evict"} /\ task'[r].address = a
      BY <1>4, <2>1
    <3>4. \A s \in Renderers : task[s].at \in {"uploaded", "evict"} => task'[s] = task[s]
      BY <1>1, <2>1
    <3> HIDE DEF a, content
    <3> QED  BY <1>1, <2>3, <3>2, <3>3, <3>4 DEF WeightsInv, CopiesAreCurrent
  <2>6. ProductsUseTheirWeights'
    BY <1>5 DEF WeightsInv, ProductsUseTheirWeights
  <2> QED  BY <2>2, <2>4, <2>5, <2>6 DEF WeightsInv
<1>6. CASE OnCpu(r) /\ UNCHANGED gpuCopy
  BY <1>1, <1>6, ComputedOnCpu
<1> QED  BY <1>5, <1>6 DEF GetOrUpload

\* The product on the GPU.
LEMMA Multiplying ==
  ASSUME WeightsInv, NEW r \in Renderers, EncodeGemm(r), "gemm" \notin GpuFaults
  PROVE  WeightsInv'
<1> DEFINE point == IF host.device = "cuda" THEN "evict" ELSE "computed"
<1>1. /\ Busy(r) /\ task[r].at = "uploaded" /\ task[r].handle = task[r].linear
      /\ UNCHANGED <<host, heap, registry, scope, gpuCopy, sessions>>
      /\ ComputedWith(r, task[r].handle) /\ task' = [task EXCEPT ![r].at = point]
  BY DEF EncodeGemm, Busy, WeightsInv, BuffersHold, TaskHolds
<1>2. /\ task' \in [Renderers -> Tasks] /\ task'[r].at = point
      /\ task'[r].address = task[r].address
      /\ \A s \in Renderers \ {r} : task'[s] = task[s]
      /\ BuffersHaveOneOwner' /\ BuffersHold'
  BY <1>1, NextStage
<1>3. ProductsUseTheirWeights' /\ DOMAIN product' = Renderers
  BY <1>1, RightProduct
<1>4. WeightTypes'
  BY <1>1, <1>2, <1>3 DEF WeightsInv, WeightTypes, Registered
<1>5. CopiesAreCurrent'
  BY <1>1, <1>2 DEF WeightsInv, CopiesAreCurrent
<1> QED  BY <1>2, <1>3, <1>4, <1>5 DEF WeightsInv

\* The copy goes, and with it the reason to have one.
LEMMA Evicting ==
  ASSUME WeightsInv, NEW r \in Renderers, EvictF32Weight(r)
  PROVE  WeightsInv'
<1> DEFINE a == task[r].address
<1>1. /\ Busy(r) /\ task[r].at = "evict" /\ task' = [task EXCEPT ![r].at = "computed"]
      /\ UNCHANGED <<host, heap, registry, scope, sessions, product>>
  BY DEF EvictF32Weight, Busy
<1>2. /\ task' \in [Renderers -> Tasks] /\ \A s \in Renderers \ {r} : task'[s] = task[s]
      /\ BuffersHaveOneOwner' /\ BuffersHold'
  BY <1>1, NextStage
<1>3. /\ DOMAIN gpuCopy' = DOMAIN gpuCopy \ {a}
      /\ \A b \in DOMAIN gpuCopy \ {a} : gpuCopy'[b] = gpuCopy[b]
  BY DEF EvictF32Weight, Without
<1>4. WeightTypes'
  BY <1>1, <1>2, <1>3 DEF WeightsInv, WeightTypes, Registered
<1>5. CopiesAreCurrent'
  <2>1. \A b \in DOMAIN gpuCopy' : \A s \in Renderers : task[s].address = b => s \in Renderers \ {r}
    BY <1>3
  <2> HIDE DEF a
  <2> QED  BY <1>1, <1>2, <1>3, <2>1 DEF WeightsInv, CopiesAreCurrent
<1>6. ProductsUseTheirWeights'
  BY <1>1 DEF WeightsInv, ProductsUseTheirWeights
<1> QED  BY <1>2, <1>4, <1>5, <1>6 DEF WeightsInv

\* A buffer without a copy may be given back by its owner.
LEMMA NoCopyLeft ==
  ASSUME WeightsInv, NEW r \in Renderers, task[r].at \in {"idle", "computed"},
         NEW a \in Mine(r), host.device = "cuda"
  PROVE  a \notin DOMAIN gpuCopy
<1> SUFFICES ASSUME a \in DOMAIN gpuCopy PROVE FALSE
  OBVIOUS
<1>1. PICK s \in Renderers : task[s].at \in {"uploaded", "evict"} /\ task[s].address = a
  BY DEF WeightsInv, CopiesAreCurrent
<1>2. s # r /\ a \in Mine(s)
  BY <1>1 DEF Mine, Busy
<1> QED  BY <1>2 DEF WeightsInv, BuffersHaveOneOwner

\* Buffers of one renderer are freed, none of which it goes on to use, and
\* no other renderer notices.
LEMMA Freeing ==
  ASSUME WeightsInv, NEW r \in Renderers, NEW freed \in SUBSET Mine(r),
         task[r].at \in {"idle", "computed"},
         \A a \in freed : host.device = "cuda" \/ heap[a] \notin TeLinears,
         heap' = [a \in Addresses |-> IF a \in freed THEN Free ELSE heap[a]],
         task'[r].at = "idle", task' \in [Renderers -> Tasks],
         DOMAIN registry' = Renderers, scope' \in [Renderers -> SUBSET Addresses],
         \A s \in Renderers \ {r} : /\ task'[s] = task[s] /\ registry'[s] = registry[s]
                                    /\ scope'[s] = scope[s],
         scope'[r] \subseteq scope[r] \ freed,
         DOMAIN registry'[r] \subseteq DOMAIN registry[r],
         \A l \in DOMAIN registry'[r] : registry'[r][l] = registry[r][l] /\ registry[r][l] \notin freed,
         sessions' \in [Renderers -> Nat \ {0}],
         UNCHANGED <<host, gpuCopy, product>>
  PROVE  WeightsInv'
<1>1. \A k : Kept(k)' = Kept(k)
  BY DEF Kept
<1>2. heap' \in [Addresses -> Contents] /\ \A a \in Addresses \ freed : heap'[a] = heap[a]
  BY DEF WeightsInv, WeightTypes, Contents
<1>3. \A s \in Renderers \ {r} : Mine(s)' = Mine(s)
  BY DEF Mine, Registered, Busy
<1>4. Registered(r)' \subseteq Registered(r)
  BY DEF Registered
<1>5. Mine(r)' \subseteq Mine(r)
  BY <1>4 DEF Mine, Busy
<1>6. BuffersHaveOneOwner'
  <2>1. \A s \in Renderers : Mine(s)' \subseteq Mine(s)
    BY <1>3, <1>5
  <2> QED  BY <2>1 DEF WeightsInv, BuffersHaveOneOwner
<1>7. \A s \in Renderers \ {r} : \A a \in Mine(s) : heap'[a] = heap[a]
  <2> SUFFICES ASSUME NEW s \in Renderers \ {r}, NEW a \in Mine(s) PROVE heap'[a] = heap[a]
    OBVIOUS
  <2>1. a \notin freed
    BY DEF WeightsInv, BuffersHaveOneOwner
  <2>2. a \in Addresses
    BY HeldIsNotFree
  <2> QED  BY <2>1, <2>2, <1>2
<1>8. ASSUME NEW s \in Renderers \ {r} PROVE RegistryHolds(s)' /\ ScopeHolds(s)' /\ TaskHolds(s)'
  <2>1. \A k \in DOMAIN registry[s] : heap'[registry[s][k]] = heap[registry[s][k]]
    BY <1>7 DEF Mine, Registered
  <2>2. \A a \in scope[s] : heap'[a] = heap[a]
    BY <1>7 DEF Mine
  <2>3. Busy(s) => heap'[task[s].address] = heap[task[s].address]
    BY <1>7 DEF Mine
  <2>4. RegistryHolds(s)'
    <3>1. \A k \in DOMAIN registry[s] : Kept(k) /\ heap[registry[s][k]] = k
      BY DEF WeightsInv, BuffersHold, RegistryHolds
    <3>2. registry'[s] = registry[s]
      OBVIOUS
    <3> QED  BY <1>1, <2>1, <3>1, <3>2 DEF RegistryHolds
  <2>5. ScopeHolds(s)'
    BY <1>1, <2>2 DEF WeightsInv, BuffersHold, ScopeHolds
  <2>6. TaskHolds(s)'
    BY <2>3 DEF WeightsInv, BuffersHold, TaskHolds, Busy
  <2> QED  BY <2>4, <2>5, <2>6
<1>9. RegistryHolds(r)'
  <2>1. \A k \in DOMAIN registry[r] : /\ registry[r][k] \in Addresses
                                      /\ Kept(k) /\ heap[registry[r][k]] = k
    BY DEF WeightsInv, WeightTypes, BuffersHold, RegistryHolds, Registered
  <2> QED  BY <1>1, <1>2, <2>1 DEF RegistryHolds
<1>10. ScopeHolds(r)'
  <2>1. \A a \in scope[r] : a \in Addresses /\ heap[a] \in TeLinears /\ ~Kept(heap[a])
    BY DEF WeightsInv, WeightTypes, BuffersHold, ScopeHolds
  <2> QED  BY <1>1, <1>2, <2>1 DEF ScopeHolds
<1>11. TaskHolds(r)'
  BY DEF TaskHolds, Busy
<1>12. BuffersHold'
  BY <1>8, <1>9, <1>10, <1>11 DEF BuffersHold
<1>13. CopiesAreCurrent'
  <2>1. \A a \in DOMAIN gpuCopy : a \notin freed
    <3>1. \A a \in DOMAIN gpuCopy : host.device = "cuda" \/ heap[a] \in TeLinears
      BY DEF WeightsInv, CopiesAreCurrent
    <3> QED  BY <3>1, NoCopyLeft
  <2>2. \A a \in DOMAIN gpuCopy : heap'[a] = heap[a]
    BY <1>2, <2>1 DEF WeightsInv, WeightTypes
  <2>3. \A s \in Renderers : task[s].at \in {"uploaded", "evict"} => task'[s] = task[s]
    OBVIOUS
  <2> QED  BY <2>2, <2>3 DEF WeightsInv, CopiesAreCurrent
<1>14. WeightTypes'
  <2>1. \A s \in Renderers : /\ (DOMAIN registry[s])' \subseteq TeLinears
                             /\ Registered(s)' \subseteq Addresses
    <3>1. \A s \in Renderers : /\ DOMAIN registry[s] \subseteq TeLinears
                               /\ Registered(s) \subseteq Addresses
      BY DEF WeightsInv, WeightTypes
    <3>2. \A s \in Renderers \ {r} : Registered(s)' = Registered(s)
      BY DEF Registered
    <3> QED  BY <3>1, <3>2, <1>4
  <2> QED  BY <2>1, <1>2 DEF WeightsInv, WeightTypes
<1>15. ProductsUseTheirWeights'
  BY DEF WeightsInv, ProductsUseTheirWeights
<1> QED  BY <1>6, <1>12, <1>13, <1>14, <1>15 DEF WeightsInv

LEMMA Dropping ==
  ASSUME WeightsInv, NEW r \in Renderers, DropBuffer(r)
  PROVE  WeightsInv'
<1> DEFINE freed == IF task[r].linear \in DitLinears THEN {task[r].address} ELSE {}
<1>1. /\ task[r].at = "computed" /\ task' = [task EXCEPT ![r] = NoTask]
      /\ UNCHANGED <<host, registry, scope, gpuCopy, sessions, product>>
      /\ heap[task[r].address] = task[r].linear /\ Busy(r)
  BY DEF DropBuffer, WeightsInv, BuffersHold, TaskHolds, Busy
<1>2. freed \in SUBSET Mine(r)
  BY <1>1 DEF Mine
<1>3. \A a \in freed : heap[a] \in DitLinears /\ heap[a] \notin TeLinears
  BY <1>1, WeightsAssumption
<1>4. heap' = [a \in Addresses |-> IF a \in freed THEN Free ELSE heap[a]]
  BY DEF DropBuffer, WeightsInv, WeightTypes
<1>5. /\ task'[r].at = "idle" /\ task' \in [Renderers -> Tasks]
      /\ \A s \in Renderers \ {r} : task'[s] = task[s]
  BY <1>1 DEF WeightsInv, WeightTypes, Tasks, NoTask
<1>6. \A l \in DOMAIN registry[r] : registry[r][l] \notin freed
  BY <1>3 DEF WeightsInv, WeightTypes, BuffersHold, RegistryHolds
<1>7. \A a \in scope[r] : a \notin freed
  BY <1>3 DEF WeightsInv, BuffersHold, ScopeHolds
<1> HIDE DEF freed
<1>8. /\ DOMAIN registry' = Renderers /\ scope' \in [Renderers -> SUBSET Addresses]
      /\ sessions' \in [Renderers -> Nat \ {0}]
  BY <1>1 DEF WeightsInv, WeightTypes
<1> QED  BY <1>1, <1>2, <1>3, <1>4, <1>5, <1>6, <1>7, <1>8, Freeing

LEMMA LayerEnds ==
  ASSUME WeightsInv, NEW r \in Renderers, EndLayer(r), EvictsOrKeeps(host)
  PROVE  WeightsInv'
<1>1. /\ task[r].at = "idle" /\ scope[r] # {} /\ scope' = [scope EXCEPT ![r] = {}]
      /\ heap' = [a \in Addresses |-> IF a \in scope[r] THEN Free ELSE heap[a]]
      /\ UNCHANGED <<host, registry, gpuCopy, task, sessions, product>>
  BY DEF EndLayer
<1>2. scope[r] \in SUBSET Mine(r)
  BY DEF Mine
<1>3. \A a \in scope[r] : heap[a] \in TeLinears /\ ~Kept(heap[a])
  BY DEF WeightsInv, BuffersHold, ScopeHolds
<1>4. host.device = "cuda"
  <2>1. PICK a \in scope[r] : TRUE
    BY <1>1
  <2>2. ~(host.source = "npy" \/ host.resident)
    BY <1>3, <2>1 DEF Kept
  <2> QED  BY <2>2 DEF EvictsOrKeeps
<1>5. \A l \in DOMAIN registry[r] : registry[r][l] \notin scope[r]
  BY <1>3 DEF WeightsInv, BuffersHold, RegistryHolds
<1>6. /\ scope' \in [Renderers -> SUBSET Addresses] /\ scope'[r] = {}
      /\ \A s \in Renderers \ {r} : scope'[s] = scope[s]
      /\ DOMAIN registry' = Renderers /\ task' \in [Renderers -> Tasks]
      /\ sessions' \in [Renderers -> Nat \ {0}]
  BY <1>1 DEF WeightsInv, WeightTypes
<1> QED  BY <1>1, <1>2, <1>4, <1>5, <1>6, Freeing

LEMMA SessionEnds ==
  ASSUME WeightsInv, NEW r \in Renderers, NextSession(r), EvictsOrKeeps(host)
  PROVE  WeightsInv'
<1>1. /\ task[r].at = "idle" /\ scope[r] = {} /\ sessions[r] < host.sessions
      /\ registry' = [registry EXCEPT ![r] = <<>>] /\ sessions' = [sessions EXCEPT ![r] = @ + 1]
      /\ UNCHANGED <<host, gpuCopy, scope, task, product>>
  BY DEF NextSession
<1>2. sessions \in [Renderers -> Nat \ {0}]
  BY DEF WeightsInv, WeightTypes
<1>3. host.device = "cuda"
  BY <1>1, <1>2 DEF EvictsOrKeeps
<1>4. heap' = [a \in Addresses |-> IF a \in Registered(r) THEN Free ELSE heap[a]]
  BY DEF NextSession, Registered
<1>5. Registered(r) \in SUBSET Mine(r)
  BY DEF Mine
<1>6. /\ DOMAIN registry' = Renderers /\ DOMAIN registry'[r] = {}
      /\ \A s \in Renderers \ {r} : registry'[s] = registry[s]
      /\ scope' \in [Renderers -> SUBSET Addresses] /\ scope'[r] = {}
      /\ \A s \in Renderers \ {r} : scope'[s] = scope[s] /\ task'[s] = task[s]
  BY <1>1 DEF WeightsInv, WeightTypes
<1>7. sessions' \in [Renderers -> Nat \ {0}]
  BY <1>1, <1>2
<1>8. task' \in [Renderers -> Tasks] /\ task'[r].at = "idle"
  BY <1>1 DEF WeightsInv, WeightTypes
<1> DEFINE freed == Registered(r)
<1>9. /\ freed \in SUBSET Mine(r) /\ scope'[r] \subseteq scope[r] \ freed
      /\ heap' = [a \in Addresses |-> IF a \in freed THEN Free ELSE heap[a]]
      /\ DOMAIN registry'[r] \subseteq DOMAIN registry[r]
      /\ \A l \in DOMAIN registry'[r] :
             registry'[r][l] = registry[r][l] /\ registry[r][l] \notin freed
      /\ \A s \in Renderers \ {r} : /\ task'[s] = task[s] /\ registry'[s] = registry[s]
                                     /\ scope'[s] = scope[s]
  BY <1>1, <1>4, <1>5, <1>6
<1>10. task[r].at = "idle" /\ UNCHANGED <<host, gpuCopy, product>>
  BY <1>1
<1>11. scope' \in [Renderers -> SUBSET Addresses] /\ DOMAIN registry' = Renderers
  BY <1>6
<1> HIDE DEF freed
<1> QED  BY <1>3, <1>7, <1>8, <1>9, <1>10, <1>11, Freeing

\* Every product is computed with the weights it asked for, by any number of
\* threads over any number of addresses, linears and sessions, where a failing
\* product does not leave its copy behind and each host either evicts (CUDA,
\* te/cuda_gpu.rs) or keeps the buffers it uploaded (Metal, one session of a
\* resident text encoder).  The other hosts are those of stale_weights.
THEOREM WeightsAreNeverStale ==
  ASSUME "gemm" \notin GpuFaults, \A m \in Hosts : EvictsOrKeeps(m)
  PROVE  WeightsSpec => []ProductsUseTheirWeights
<1>1. WeightsInit => WeightsInv
  <2> SUFFICES ASSUME WeightsInit PROVE WeightsInv
    OBVIOUS
  <2>1. \A r \in Renderers : DOMAIN registry[r] = {} /\ Registered(r) = {} /\ product[r] = <<>>
    BY DEF WeightsInit, Registered
  <2>2. \A r \in Renderers : ~Busy(r) /\ task[r] \in Tasks
    BY DEF WeightsInit, Busy, NoTask, Tasks
  <2>3. \A r \in Renderers : Mine(r) = {}
    BY <2>1, <2>2 DEF Mine, WeightsInit
  <2>4. WeightTypes
    BY <2>1, <2>2 DEF WeightsInit, WeightTypes, Contents
  <2>5. BuffersHaveOneOwner
    BY <2>3 DEF BuffersHaveOneOwner
  <2>6. BuffersHold
    BY <2>1, <2>2 DEF BuffersHold, RegistryHolds, ScopeHolds, TaskHolds, WeightsInit
  <2>7. CopiesAreCurrent
    BY DEF CopiesAreCurrent, WeightsInit
  <2>8. ProductsUseTheirWeights
    BY <2>1 DEF ProductsUseTheirWeights
  <2> QED  BY <2>4, <2>5, <2>6, <2>7, <2>8 DEF WeightsInv
<1>2. WeightsInv /\ [WeightsNext]_weightVars => WeightsInv'
  <2> SUFFICES ASSUME WeightsInv, [WeightsNext]_weightVars PROVE WeightsInv'
    OBVIOUS
  <2>1. EvictsOrKeeps(host)
    BY DEF WeightsInv, WeightTypes
  <2>2. ASSUME NEW r \in Renderers, NotOnGpu(r) PROVE WeightsInv'
    BY <2>2, ComputedOnCpu DEF NotOnGpu
  <2>3. CASE UNCHANGED weightVars
    BY <2>3 DEF weightVars, WeightsInv, WeightTypes, BuffersHaveOneOwner, Mine, Busy, Registered,
                BuffersHold, RegistryHolds, ScopeHolds, TaskHolds, Kept, CopiesAreCurrent,
                ProductsUseTheirWeights
  <2> QED  BY <2>1, <2>2, <2>3, Decoding, Uploading, Multiplying, Evicting, Dropping, LayerEnds,
              SessionEnds DEF WeightsNext
<1>3. WeightsInv => ProductsUseTheirWeights
  BY DEF WeightsInv
<1> QED  BY <1>1, <1>2, <1>3, PTL DEF WeightsSpec

-----------------------------------------------------------------------------
(* The image transformer, fused and operation by operation: whole numbers     *)
(* first, then what the copies and the reshaping kernels leave, the blocks,   *)
(* and the transformer.                                                       *)
\* A quotient and what is left of it.
LEMMA Division ==
  ASSUME NEW n \in Nat, NEW d \in Nat \ {0}
  PROVE  \E q \in Nat : \E x \in 0 .. d - 1 : q = n \div d /\ n = q * d + x
<1>1. n \div d \in Nat /\ n % d \in 0 .. d - 1
  BY Z3
<1>2. n = (n \div d) * d + (n % d)
  BY Z3
<1> QED  BY <1>1, <1>2

\* The next multiple is no further than any later one.
LEMMA NextMultiple ==
  ASSUME NEW d \in Nat \ {0}, NEW m \in Nat, NEW n \in Nat, m < n
  PROVE  m * d + d <= n * d
<1>1. m + 1 <= n /\ (m + 1) * d = m * d + d
  OBVIOUS
<1>2. (n - (m + 1)) * d >= 0
  BY <1>1
<1>3. (n - (m + 1)) * d = n * d - (m + 1) * d
  OBVIOUS
<1> QED  BY <1>1, <1>2, <1>3

\* A number is in one row of d, at one place.
LEMMA QuotientIsOwn ==
  ASSUME NEW d \in Nat \ {0}, NEW p \in Nat, NEW q \in Nat, NEW x \in 0 .. d - 1, NEW y \in 0 .. d - 1,
         p * d + x = q * d + y
  PROVE  p = q /\ x = y
<1>1. p * d \in Nat /\ q * d \in Nat
  OBVIOUS
<1>2. ~ (p < q)
  BY <1>1, NextMultiple
<1>3. ~ (q < p)
  BY <1>1, NextMultiple
<1> QED  BY <1>1, <1>2, <1>3

\* The row and the column of a cell, and the cell of a row and a column.
LEMMA CellOfRowAndColumn ==
  ASSUME NEW n \in Nat \ {0}, NEW m \in Nat \ {0}
  PROVE  /\ \A cell \in 0 .. n * m - 1 : /\ cell % n \in 0 .. n - 1 /\ cell \div n \in 0 .. m - 1
                                        /\ cell = (cell \div n) * n + (cell % n)
         /\ \A r \in 0 .. n - 1, c \in 0 .. m - 1 :
               /\ c * n + r \in 0 .. n * m - 1
               /\ (c * n + r) % n = r /\ (c * n + r) \div n = c
<1>1. ASSUME NEW cell \in 0 .. n * m - 1
      PROVE  /\ cell % n \in 0 .. n - 1 /\ cell \div n \in 0 .. m - 1
             /\ cell = (cell \div n) * n + (cell % n)
  <2>1. n * m \in Nat /\ cell \in Nat /\ cell < n * m
    OBVIOUS
  <2>2. cell % n \in 0 .. n - 1 /\ cell \div n \in Nat /\ cell = (cell \div n) * n + (cell % n)
    BY <2>1, Z3
  <2>3. PICK q \in Nat : q = cell \div n
    BY <2>2
  <2>4. q * n <= cell /\ q * n \in Nat
    BY <2>1, <2>2, <2>3
  <2>5. ~ (m <= q)
    <3> SUFFICES ASSUME m <= q PROVE FALSE
      OBVIOUS
    <3>1. (q - m) * n >= 0 /\ (q - m) * n = q * n - m * n /\ m * n = n * m
      OBVIOUS
    <3> QED  BY <2>1, <2>4, <3>1
  <2> QED  BY <2>2, <2>3, <2>5
<1>2. ASSUME NEW r \in 0 .. n - 1, NEW c \in 0 .. m - 1
      PROVE  /\ c * n + r \in 0 .. n * m - 1
             /\ (c * n + r) % n = r /\ (c * n + r) \div n = c
  <2>1. c * n + n <= m * n
    BY NextMultiple
  <2>2. c * n \in Nat /\ m * n = n * m /\ n * m \in Nat
    OBVIOUS
  <2>3. PICK cell \in 0 .. n * m - 1 : cell = c * n + r
    BY <2>1, <2>2
  <2>4. (cell \div n) \in Nat /\ cell % n \in 0 .. n - 1 /\ cell = (cell \div n) * n + (cell % n)
    BY <1>1
  <2>5. cell \div n = c /\ cell % n = r
    BY <2>3, <2>4, QuotientIsOwn
  <2> QED  BY <2>3, <2>5
<1> QED  BY <1>1, <1>2

\* Division and remainder of a number given by its row and its place.
LEMMA QuotientAndRemainder ==
  ASSUME NEW d \in Nat \ {0}, NEW q \in Nat, NEW x \in 0 .. d - 1, NEW n, n = q * d + x
  PROVE  n \div d = q /\ n % d = x /\ n \in Nat
<1>1. n \in Nat
  OBVIOUS
<1>2. n \div d \in Nat /\ n % d \in 0 .. d - 1 /\ n = (n \div d) * d + (n % d)
  BY <1>1, Z3
<1> QED  BY <1>1, <1>2, QuotientIsOwn

\* Flat tensors of n elements.
IsTensor(x, n) == x = [i \in 0 .. n - 1 |-> x[i]]

\* Size finds the length of a tensor, of an empty one too.
LEMMA SizeOfTensor ==
  ASSUME NEW n \in Nat, NEW x, DOMAIN x = 0 .. n - 1
  PROVE  Size(x) = n
<1>1. CASE n = 0
  <2>1. DOMAIN x = {}
    BY <1>1
  <2> QED  BY <1>1, <2>1 DEF Size
<1>2. CASE n # 0
  <2>1. DOMAIN x # {} /\ n - 1 \in DOMAIN x
    BY <1>2
  <2>2. \A i \in DOMAIN x : (\A j \in DOMAIN x : j <= i) <=> i = n - 1
    BY <2>1
  <2>3. (CHOOSE i \in DOMAIN x : \A j \in DOMAIN x : j <= i) = n - 1
    BY <2>1, <2>2
  <2> QED  BY <2>1, <2>3 DEF Size
<1> QED  BY <1>1, <1>2

\* The only element of a set.
LEMMA OnlyOne ==
  ASSUME NEW x
  PROVE  (CHOOSE y \in {x} : y = y) = x
  OBVIOUS

\* What a copy of rows leaves of N elements.
HoldsRows(R, N, dst, src, rows, cols, dstStride, dstOff, srcStride, srcOff) ==
    /\ IsTensor(R, N)
    /\ \A r \in 0 .. rows - 1, c \in 0 .. cols - 1, i \in 0 .. N - 1 :
          i = r * dstStride + dstOff + c => R[i] = src[r * srcStride + srcOff + c]
    /\ \A i \in 0 .. N - 1 :
          (\A r \in 0 .. rows - 1, c \in 0 .. cols - 1 : i # r * dstStride + dstOff + c) => R[i] = dst[i]

\* strided_row_copy_f32: what a row and a column of the source go to, and what stays.
LEMMA RowsCopied ==
  ASSUME NEW N \in Nat, NEW dst, DOMAIN dst = 0 .. N - 1, NEW src, NEW rows \in Nat, NEW cols \in Nat,
         NEW dstStride \in Nat \ {0}, cols <= dstStride, NEW dstOff \in Nat, NEW srcStride \in Nat,
         NEW srcOff \in Nat,
         NEW R, R = StridedRowCopy(dst, src, rows, cols, dstStride, dstOff, srcStride, srcOff)
  PROVE  HoldsRows(R, N, dst, src, rows, cols, dstStride, dstOff, srcStride, srcOff)
<1> DEFINE Hits(i) == {p \in (0 .. rows - 1) \X (0 .. cols - 1) : p[1] * dstStride + dstOff + p[2] = i}
<1> DEFINE Elem(i) == IF Hits(i) = {} THEN dst[i]
                      ELSE LET hit == CHOOSE p \in Hits(i) : TRUE IN src[hit[1] * srcStride + srcOff + hit[2]]
<1>1. PICK T : T = [i \in 0 .. N - 1 |-> Elem(i)]
  OBVIOUS
<1>2. R = T
  <2>1. Size(dst) = N
    BY SizeOfTensor
  <2>2. R = CHOOSE x \in {T} : x = x
    BY <1>1, <2>1 DEF StridedRowCopy, Tensor
  <2> QED  BY <2>2, OnlyOne
<1>3. ASSUME NEW r \in 0 .. rows - 1, NEW c \in 0 .. cols - 1, NEW i \in 0 .. N - 1,
             i = r * dstStride + dstOff + c
      PROVE  R[i] = src[r * srcStride + srcOff + c]
  <2>1. PICK p : p = <<r, c>>
    OBVIOUS
  <2>2. p \in Hits(i)
    BY <1>3, <2>1
  <2>3. ASSUME NEW q \in Hits(i) PROVE q = p
    <3>1. q[1] \in 0 .. rows - 1 /\ q[2] \in 0 .. cols - 1 /\ q = <<q[1], q[2]>>
          /\ q[1] * dstStride + dstOff + q[2] = i
      OBVIOUS
    <3>2. PICK u \in Nat, v \in 0 .. dstStride - 1 : u = q[1] /\ v = q[2]
      BY <3>1
    <3>3. PICK a \in Nat, b \in Nat : a = u * dstStride /\ b = r * dstStride
      OBVIOUS
    <3>4. a + dstOff + v = i /\ b + dstOff + c = i
      BY <1>3, <3>1, <3>2, <3>3
    <3>5. u * dstStride + v = r * dstStride + c
      BY <3>3, <3>4
    <3>6. r \in Nat /\ c \in 0 .. dstStride - 1
      OBVIOUS
    <3>7. u = r /\ v = c
      <4> HIDE DEF Hits, Elem
      <4> QED  BY <3>5, <3>6, QuotientIsOwn
    <3> QED  BY <2>1, <3>1, <3>2, <3>7
  <2> HIDE DEF Hits
  <2>4. (CHOOSE q \in Hits(i) : TRUE) = p
    BY <2>2, <2>3
  <2>5. Elem(i) = src[p[1] * srcStride + srcOff + p[2]]
    BY <2>2, <2>4
  <2> QED  BY <1>1, <1>2, <2>1, <2>5
<1>4. ASSUME NEW i \in 0 .. N - 1,
             \A r \in 0 .. rows - 1, c \in 0 .. cols - 1 : i # r * dstStride + dstOff + c
      PROVE  R[i] = dst[i]
  <2>1. Hits(i) = {}
    BY <1>4
  <2> QED  BY <1>1, <1>2, <2>1
<1>5. IsTensor(R, N)
  BY <1>1, <1>2 DEF IsTensor
<1> QED  BY <1>3, <1>4, <1>5 DEF HoldsRows

\* Columns of a tensor: rows of w, out of rows of another width.
ColumnsOf(src, rows, w, stride, off) ==
    [i \in 0 .. rows * w - 1 |-> src[(i \div w) * stride + off + (i % w)]]

\* A copy that fills its destination, row by row.
LEMMA WholeRowsCopied ==
  ASSUME NEW rows \in Nat \ {0}, NEW w \in Nat \ {0}, NEW dst, DOMAIN dst = 0 .. rows * w - 1, NEW src,
         NEW stride \in Nat, NEW off \in Nat,
         NEW R, R = StridedRowCopy(dst, src, rows, w, w, 0, stride, off)
  PROVE  R = ColumnsOf(src, rows, w, stride, off)
<1>1. PICK N \in Nat : N = rows * w /\ N = w * rows
  OBVIOUS
<1>2. /\ IsTensor(R, N)
      /\ \A r \in 0 .. rows - 1, c \in 0 .. w - 1, i \in 0 .. N - 1 :
            i = r * w + 0 + c => R[i] = src[r * stride + off + c]
  <2>1. PICK z \in Nat : z = 0
    OBVIOUS
  <2>2. DOMAIN dst = 0 .. N - 1 /\ rows \in Nat /\ w \in Nat /\ w <= w
        /\ R = StridedRowCopy(dst, src, rows, w, w, z, stride, off)
    BY <1>1, <2>1
  <2>3. HoldsRows(R, N, dst, src, rows, w, w, z, stride, off)
    BY <2>2, RowsCopied
  <2> QED  BY <2>1, <2>3 DEF HoldsRows
<1>3. ASSUME NEW i \in 0 .. N - 1 PROVE R[i] = src[(i \div w) * stride + off + (i % w)]
  <2>1. i % w \in 0 .. w - 1 /\ i \div w \in 0 .. rows - 1 /\ i = (i \div w) * w + (i % w)
    BY <1>1, CellOfRowAndColumn
  <2>2. PICK r \in 0 .. rows - 1, c \in 0 .. w - 1 : r = i \div w /\ c = i % w
    BY <2>1
  <2>3. i = r * w + 0 + c
    <3>1. r * w \in Nat
      OBVIOUS
    <3> QED  BY <2>1, <2>2, <3>1
  <2> QED  BY <1>2, <2>2, <2>3
<1> QED  BY <1>1, <1>2, <1>3 DEF IsTensor, ColumnsOf

\* Two copies that fill their destination side by side.
Beside(a, b, rows, wa, wb, w) ==
    [i \in 0 .. rows * w - 1 |->
        IF i % w < wa THEN a[(i \div w) * wa + (i % w)] ELSE b[(i \div w) * wb + ((i % w) - wa)]]
LEMMA SideBySide ==
  ASSUME NEW rows \in Nat \ {0}, NEW wa \in Nat \ {0}, NEW wb \in Nat \ {0},
         NEW w \in Nat, w <= wa + wb, wa + wb <= w,
         NEW dst, DOMAIN dst = 0 .. rows * w - 1, NEW a, NEW b,
         NEW A, A = StridedRowCopy(dst, a, rows, wa, w, 0, wa, 0),
         NEW B, B = StridedRowCopy(A, b, rows, wb, w, wa, wb, 0)
  PROVE  B = Beside(a, b, rows, wa, wb, w)
<1>0. w \in Nat \ {0} /\ wa <= w /\ wb <= w
  OBVIOUS
<1>1. PICK N \in Nat : N = rows * w /\ N = w * rows
  BY <1>0
<1>2. PICK z \in Nat : z = 0
  OBVIOUS
<1>3. HoldsRows(A, N, dst, a, rows, wa, w, z, wa, z)
  <2>1. A = StridedRowCopy(dst, a, rows, wa, w, z, wa, z) /\ DOMAIN dst = 0 .. N - 1 /\ rows \in Nat
        /\ wa \in Nat
    BY <1>1, <1>2
  <2> QED  BY <1>0, <2>1, RowsCopied
<1>4. HoldsRows(B, N, A, b, rows, wb, w, wa, wb, z)
  <2>1. B = StridedRowCopy(A, b, rows, wb, w, wa, wb, z) /\ rows \in Nat /\ wb \in Nat /\ wa \in Nat
    BY <1>2
  <2>2. DOMAIN A = 0 .. N - 1
    BY <1>3 DEF HoldsRows, IsTensor
  <2> QED  BY <1>0, <2>1, <2>2, RowsCopied
<1>5. ASSUME NEW i \in 0 .. N - 1
      PROVE  B[i] = IF i % w < wa THEN a[(i \div w) * wa + (i % w)]
                    ELSE b[(i \div w) * wb + ((i % w) - wa)]
  <2>1. i % w \in 0 .. w - 1 /\ i \div w \in 0 .. rows - 1 /\ i = (i \div w) * w + (i % w)
    BY <1>0, <1>1, CellOfRowAndColumn
  <2>2. PICK r \in 0 .. rows - 1, c \in 0 .. w - 1 : r = i \div w /\ c = i % w /\ i = r * w + c
    BY <2>1
  <2>3. PICK p \in Nat, q \in Nat, o \in Nat : p = r * w /\ q = r * wa /\ o = r * wb
    BY <1>0
  <2>4. CASE c < wa
    <3>0. z = 0 /\ i = p + c
      BY <1>2, <2>2, <2>3
    <3>1. c \in 0 .. wa - 1 /\ i = p + z + c /\ q + z + c = q + c
      BY <2>4, <3>0
    <3>2. A[i] = a[q + z + c]
      BY <1>3, <2>3, <3>1 DEF HoldsRows
    <3>3. ASSUME NEW y \in 0 .. rows - 1, NEW x \in 0 .. wb - 1 PROVE i # y * w + wa + x
      <4> SUFFICES ASSUME i = y * w + wa + x PROVE FALSE
        OBVIOUS
      <4>1. PICK u \in Nat, v \in 0 .. w - 1 : u = y * w /\ v = wa + x
        BY <1>0
      <4>2. r * w + c = y * w + v
        BY <2>2, <4>1
      <4>3. r \in Nat /\ y \in Nat
        OBVIOUS
      <4>4. c = v
        BY <1>0, <4>2, <4>3, QuotientIsOwn
      <4> QED  BY <2>4, <4>1, <4>4
    <3>4. B[i] = A[i]
      BY <1>4, <3>3 DEF HoldsRows
    <3> QED  BY <2>2, <2>3, <2>4, <3>1, <3>2, <3>4
  <2>5. CASE ~ (c < wa)
    <3>1. PICK x \in 0 .. wb - 1 : x = c - wa
      BY <2>5
    <3>2. i = p + wa + x /\ o + z + x = o + x
      BY <1>2, <2>2, <2>3, <3>1
    <3>3. B[i] = b[o + z + x]
      BY <1>4, <2>3, <3>2 DEF HoldsRows
    <3> QED  BY <2>2, <2>3, <2>5, <3>1, <3>2, <3>3
  <2> QED  BY <2>4, <2>5
<1>6. B = [i \in 0 .. N - 1 |-> B[i]]
  BY <1>4 DEF HoldsRows, IsTensor
<1> QED  BY <1>1, <1>5, <1>6 DEF Beside

\* The head, the token and the place in the head of an element.
LEMMA HeadIndex ==
  ASSUME NEW seq \in Nat \ {0}, NEW heads \in Nat \ {0}, NEW dim \in Nat \ {0},
         NEW i \in 0 .. heads * seq * dim - 1
  PROVE  /\ i % dim \in 0 .. dim - 1 /\ (i \div dim) % seq \in 0 .. seq - 1
         /\ (i \div dim) \div seq \in 0 .. heads - 1 /\ i \div (seq * dim) = (i \div dim) \div seq
<1>1. PICK n \in Nat \ {0} : n = seq * heads /\ n = heads * seq
  OBVIOUS
<1>2. i \in 0 .. dim * n - 1
  BY <1>1
<1>3. PICK r \in 0 .. dim - 1, q \in 0 .. n - 1 : r = i % dim /\ q = i \div dim /\ i = q * dim + r
  <2>1. i % dim \in 0 .. dim - 1 /\ i \div dim \in 0 .. n - 1 /\ i = (i \div dim) * dim + (i % dim)
    BY <1>2, CellOfRowAndColumn
  <2> QED  BY <2>1
<1>4. PICK t \in 0 .. seq - 1, h \in 0 .. heads - 1 : t = q % seq /\ h = q \div seq /\ q = h * seq + t
  <2>1. q \in 0 .. seq * heads - 1
    BY <1>1
  <2>2. q % seq \in 0 .. seq - 1 /\ q \div seq \in 0 .. heads - 1 /\ q = (q \div seq) * seq + (q % seq)
    BY <2>1, CellOfRowAndColumn
  <2> QED  BY <2>2
<1>5. i = h * (seq * dim) + (t * dim + r)
  <2>1. q * dim = (h * seq) * dim + t * dim
    BY <1>4
  <2>2. (h * seq) * dim = h * (seq * dim)
    OBVIOUS
  <2>3. PICK a \in Nat, b \in Nat : a = h * (seq * dim) /\ b = t * dim
    OBVIOUS
  <2> QED  BY <1>3, <2>1, <2>2, <2>3
<1>6. i \div (seq * dim) = h
  <2>1. PICK m \in Nat \ {0} : m = seq * dim /\ m = dim * seq
    OBVIOUS
  <2>2. t * dim + r \in 0 .. dim * seq - 1
    BY CellOfRowAndColumn
  <2>3. PICK x \in 0 .. m - 1 : x = t * dim + r
    BY <2>1, <2>2
  <2>4. i = h * m + x /\ h \in Nat
    BY <1>5, <2>1, <2>3
  <2> QED  BY <2>1, <2>4, QuotientAndRemainder
<1> QED  BY <1>3, <1>4, <1>6

\* Where it is in rows of w, one for each token, and what columns take there.
InRows(i, seq, dim, w) == ((i \div dim) % seq) * w + (i \div (seq * dim)) * dim + (i % dim)
ComesFrom(i, k, seq, dim, w, stride, off) ==
    /\ k \in 0 .. seq * w - 1
    /\ (k \div w) * stride + off + (k % w)
       = ((i \div dim) % seq) * stride + off + ((i \div dim) \div seq) * dim + (i % dim)
LEMMA ElementOfHead ==
  ASSUME NEW seq \in Nat \ {0}, NEW heads \in Nat \ {0}, NEW dim \in Nat \ {0}, NEW w, w = heads * dim,
         NEW stride \in Nat, NEW off \in Nat, NEW i \in 0 .. heads * seq * dim - 1,
         NEW k, k = InRows(i, seq, dim, w)
  PROVE  ComesFrom(i, k, seq, dim, w, stride, off)
<1>1. /\ i % dim \in 0 .. dim - 1 /\ (i \div dim) % seq \in 0 .. seq - 1
      /\ (i \div dim) \div seq \in 0 .. heads - 1 /\ i \div (seq * dim) = (i \div dim) \div seq
  BY HeadIndex
<1>2. PICK r \in 0 .. dim - 1, t \in 0 .. seq - 1, h \in 0 .. heads - 1 :
         r = i % dim /\ t = (i \div dim) % seq /\ h = (i \div dim) \div seq /\ h = i \div (seq * dim)
  BY <1>1
<1>3. w \in Nat \ {0} /\ w = dim * heads
  OBVIOUS
<1>4. PICK c \in 0 .. w - 1 : c = h * dim + r
  <2>1. h * dim + r \in 0 .. dim * heads - 1
    BY CellOfRowAndColumn
  <2> QED  BY <1>3, <2>1
<1>5. t * w + c \in 0 .. w * seq - 1 /\ (t * w + c) % w = c /\ (t * w + c) \div w = t
  BY <1>3, CellOfRowAndColumn
<1>6. PICK a \in Nat, b \in Nat, m \in Nat : a = t * w /\ b = h * dim /\ m = t * stride
  BY <1>3
<1>7. k = t * w + c
  BY <1>2, <1>4, <1>6 DEF InRows
<1>8. w * seq = seq * w
  BY <1>3
<1>9. (k \div w) * stride + off + (k % w) = t * stride + off + c
  BY <1>5, <1>7
<1>10. t * stride + off + c = t * stride + off + h * dim + r
  BY <1>4, <1>6
<1> QED  BY <1>2, <1>5, <1>7, <1>8, <1>9, <1>10 DEF ComesFrom

\* The widths and the lengths of the streams.
LEMMA Widths ==
  /\ Heads \in Nat \ {0} /\ HeadDim \in Nat \ {0} /\ FfnInner \in Nat \ {0}
  /\ SeqTxt \in Nat \ {0} /\ SeqImg \in Nat \ {0} /\ SeqJoint \in Nat \ {0}
  /\ HiddenSize \in Nat \ {0} /\ MlpWidth \in Nat \ {0} /\ QkvWidth \in Nat /\ ProjOut \in Nat
  /\ CatWidth \in Nat \ {0} /\ NumSingleLayers \in Nat
<1>1. /\ Heads \in Nat \ {0} /\ HeadDim \in Nat \ {0} /\ FfnInner \in Nat \ {0}
      /\ SeqTxt \in Nat \ {0} /\ SeqImg \in Nat \ {0} /\ NumSingleLayers \in Nat
  BY ImageAssumption
<1>2. HiddenSize \in Nat \ {0}
  <2>1. PICK a \in Nat \ {0}, b \in Nat \ {0} : a = Heads /\ b = HeadDim
    BY <1>1
  <2>2. a * b \in Nat \ {0}
    OBVIOUS
  <2> QED  BY <2>1, <2>2 DEF HiddenSize
<1> QED  BY <1>1, <1>2 DEF SeqJoint, MlpWidth, QkvWidth, ProjOut, CatWidth

\* tokens_to_heads_f32 does what columns and to_heads do after each other.
LEMMA HeadsOfColumns ==
  ASSUME NEW seq \in Nat \ {0}, NEW src, NEW stride \in Nat, NEW off \in Nat, NEW cols,
         cols = ColumnsOf(src, seq, HiddenSize, stride, off)
  PROVE  TokensToHeads(src, seq, stride, off) = ToHeads(cols, seq)
<1> DEFINE FromTokens(i) ==
             LET t == (i \div HeadDim) % seq
                 h == (i \div HeadDim) \div seq
             IN  src[t * stride + off + h * HeadDim + (i % HeadDim)]
<1> DEFINE FromColumns(i) ==
             LET h == i \div (seq * HeadDim)
                 t == (i \div HeadDim) % seq
             IN  cols[t * HiddenSize + h * HeadDim + (i % HeadDim)]
<1>1. PICK X, Y : /\ X = [i \in 0 .. Heads * seq * HeadDim - 1 |-> FromTokens(i)]
                  /\ Y = [i \in 0 .. seq * HiddenSize - 1 |-> FromColumns(i)]
  OBVIOUS
<1>2. TokensToHeads(src, seq, stride, off) = X
  <2>1. TokensToHeads(src, seq, stride, off) = CHOOSE x \in {X} : x = x
    BY <1>1 DEF TokensToHeads, Tensor
  <2> HIDE DEF FromTokens, FromColumns
  <2> QED  BY <2>1, OnlyOne
<1>3. ToHeads(cols, seq) = Y
  <2>1. ToHeads(cols, seq) = CHOOSE x \in {Y} : x = x
    BY <1>1 DEF ToHeads, Tensor
  <2> HIDE DEF FromTokens, FromColumns
  <2> QED  BY <2>1, OnlyOne
<1>4. Heads * seq * HeadDim = seq * HiddenSize
  <2>1. PICK a \in Nat, b \in Nat : a = Heads /\ b = HeadDim /\ HiddenSize = a * b
    BY Widths DEF HiddenSize
  <2>2. a * seq * b = seq * (a * b)
    OBVIOUS
  <2> QED  BY <2>1, <2>2
<1>5. ASSUME NEW i \in 0 .. Heads * seq * HeadDim - 1 PROVE FromTokens(i) = FromColumns(i)
  <2>1. PICK k : k = InRows(i, seq, HeadDim, HiddenSize)
    OBVIOUS
  <2>2. ComesFrom(i, k, seq, HeadDim, HiddenSize, stride, off)
    <3> HIDE DEF FromTokens, FromColumns
    <3>1. Heads \in Nat \ {0} /\ HeadDim \in Nat \ {0} /\ HiddenSize = Heads * HeadDim
      BY Widths DEF HiddenSize
    <3> QED  BY <2>1, <3>1, ElementOfHead
  <2>3. FromColumns(i) = cols[k]
    BY <2>1 DEF InRows
  <2> QED  BY <2>2, <2>3 DEF ComesFrom, ColumnsOf
<1> QED  BY <1>1, <1>2, <1>3, <1>4, <1>5

\* What the operations leave are tensors, and of which length.
LEMMA ZeroTensorIs ==
  ASSUME NEW n
  PROVE  DOMAIN ZeroTensor(n) = 0 .. n - 1
<1>1. PICK X : X = [i \in 0 .. n - 1 |-> 0]
  OBVIOUS
<1>2. ZeroTensor(n) = CHOOSE x \in {X} : x = x
  BY <1>1 DEF ZeroTensor, Tensor
<1> QED  BY <1>1, <1>2, OnlyOne

LEMMA MatmulIs ==
  ASSUME NEW w, NEW x, NEW m, NEW n, NEW k
  PROVE  IsTensor(Matmul(w, x, m, n, k), m * n)
<1>1. PICK X : X = [i \in 0 .. m * n - 1 |-> Fingerprint("mul", w \o <<i % n>> \o RowOf(x, i \div n, k))]
  OBVIOUS
<1>2. Matmul(w, x, m, n, k) = CHOOSE y \in {X} : y = y
  BY <1>1 DEF Matmul, Tensor
<1>3. Matmul(w, x, m, n, k) = X
  BY <1>2, OnlyOne
<1> QED  BY <1>1, <1>3 DEF IsTensor

LEMMA GatedResidualAddIs ==
  ASSUME NEW h, NEW delta, NEW gate, NEW rows, NEW dim
  PROVE  IsTensor(GatedResidualAdd(h, delta, gate, rows, dim), rows * dim)
<1>1. PICK X : X = [i \in 0 .. rows * dim - 1 |-> Fingerprint("gated", <<h[i], gate[i % dim], delta[i]>>)]
  OBVIOUS
<1>2. GatedResidualAdd(h, delta, gate, rows, dim) = CHOOSE y \in {X} : y = y
  BY <1>1 DEF GatedResidualAdd, Tensor
<1>3. GatedResidualAdd(h, delta, gate, rows, dim) = X
  BY <1>2, OnlyOne
<1> QED  BY <1>1, <1>3 DEF IsTensor

\* dit_project_to_heads: with the rows as wide as the stream, the kernel is to_heads.
LEMMA HeadsOfTokens ==
  ASSUME NEW seq \in Nat \ {0}, NEW x, IsTensor(x, seq * HiddenSize)
  PROVE  TokensToHeads(x, seq, HiddenSize, 0) = ToHeads(x, seq)
<1>1. PICK w \in Nat \ {0} : w = HiddenSize
  BY Widths
<1>2. ASSUME NEW i \in 0 .. seq * w - 1 PROVE (i \div w) * w + 0 + (i % w) = i
  <2>1. i \in 0 .. w * seq - 1
    OBVIOUS
  <2>2. i = (i \div w) * w + (i % w) /\ i \div w \in 0 .. seq - 1 /\ i % w \in 0 .. w - 1
    BY <2>1, CellOfRowAndColumn
  <2>3. PICK a \in Nat, b \in Nat : a = (i \div w) * w /\ b = i % w
    BY <2>2
  <2> QED  BY <2>2, <2>3
<1>3. x = [i \in 0 .. seq * w - 1 |-> x[(i \div w) * w + 0 + (i % w)]]
  BY <1>1, <1>2 DEF IsTensor
<1>4. PICK z \in Nat : z = 0
  OBVIOUS
<1>5. x = ColumnsOf(x, seq, w, w, z)
  BY <1>3, <1>4 DEF ColumnsOf
<1>6. TokensToHeads(x, seq, w, z) = ToHeads(x, seq)
  BY <1>1, <1>5, HeadsOfColumns
<1> QED  BY <1>1, <1>4, <1>6

\* The rows of one stream, out of both: what slicing takes.
LEMMA RowsAreSlice ==
  ASSUME NEW seq \in Nat \ {0}, NEW src, NEW from \in Nat, NEW to, to = from + seq * HiddenSize
  PROVE  StridedRowCopy(ZeroTensor(seq * HiddenSize), src, seq, HiddenSize, HiddenSize, 0, HiddenSize, from)
         = Slice(src, from, to)
<1>1. PICK w \in Nat \ {0} : w = HiddenSize
  BY Widths
<1>2. PICK R, zero : /\ zero = ZeroTensor(seq * w)
                     /\ R = StridedRowCopy(zero, src, seq, w, w, 0, w, from)
  OBVIOUS
<1>3. R = ColumnsOf(src, seq, w, w, from)
  <2>1. DOMAIN zero = 0 .. seq * w - 1
    BY <1>2, ZeroTensorIs
  <2> QED  BY <1>2, <2>1, WholeRowsCopied
<1>4. PICK X : X = [i \in 0 .. (to - from) - 1 |-> src[from + i]]
  OBVIOUS
<1>5. Slice(src, from, to) = X
  <2>1. Slice(src, from, to) = CHOOSE y \in {X} : y = y
    BY <1>4 DEF Slice, Tensor
  <2> QED  BY <2>1, OnlyOne
<1>6. to - from = seq * w
  <2>1. PICK n \in Nat : n = seq * w
    OBVIOUS
  <2> QED  BY <1>1, <2>1
<1>7. ASSUME NEW i \in 0 .. seq * w - 1 PROVE (i \div w) * w + from + (i % w) = from + i
  <2>1. i \in 0 .. w * seq - 1
    OBVIOUS
  <2>2. i = (i \div w) * w + (i % w) /\ i \div w \in 0 .. seq - 1 /\ i % w \in 0 .. w - 1
    BY <2>1, CellOfRowAndColumn
  <2>3. PICK a \in Nat, b \in Nat : a = (i \div w) * w /\ b = i % w
    BY <2>2
  <2> QED  BY <2>2, <2>3
<1>8. R = X
  BY <1>3, <1>4, <1>6, <1>7 DEF ColumnsOf
<1> QED  BY <1>1, <1>2, <1>5, <1>8

\* dit_norm_modulate_clone: the norm is of the stream.
LEMMA CloneIsCopy ==
  ASSUME NEW seq \in Nat \ {0}, NEW src, IsTensor(src, seq * HiddenSize), NEW m
  PROVE  DitNormModulateClone(src, seq, m) = NormModulate(src, seq, m)
<1>1. PICK z \in Nat : z = 0
  OBVIOUS
<1>2. PICK n \in Nat : n = seq * HiddenSize
  BY Widths
<1>3. StridedRowCopy(ZeroTensor(seq * HiddenSize), src, seq, HiddenSize, HiddenSize, 0, HiddenSize, z)
      = Slice(src, z, n)
  <2>1. n = z + seq * HiddenSize
    BY <1>1, <1>2
  <2> QED  BY <2>1, RowsAreSlice
<1>4. Slice(src, z, n) = src
  <2>1. PICK X : X = [i \in 0 .. (n - z) - 1 |-> src[z + i]]
    OBVIOUS
  <2>2. Slice(src, z, n) = CHOOSE y \in {X} : y = y
    BY <2>1 DEF Slice, Tensor
  <2>3. X = [i \in 0 .. n - 1 |-> src[i]]
    <3>1. n - z = n /\ \A i \in 0 .. n - 1 : z + i = i
      BY <1>1
    <3> QED  BY <2>1, <3>1
  <2>4. X = src
    BY <1>2, <2>3 DEF IsTensor
  <2> QED  BY <2>2, <2>4, OnlyOne
<1> QED  BY <1>1, <1>3, <1>4 DEF DitNormModulateClone

\* dit_concat_heads_into: per head the text's rows and then the image's.
LEMMA HeadsSideBySide ==
  ASSUME NEW txt, NEW img
  PROVE  DitConcatHeadsInto(txt, img) = ConcatHeads(txt, img, SeqTxt, SeqImg)
<1>1. PICK heads \in Nat \ {0}, d \in Nat \ {0}, st \in Nat \ {0}, si \in Nat \ {0} :
         heads = Heads /\ d = HeadDim /\ st = SeqTxt /\ si = SeqImg
  BY Widths
<1>2. PICK wa \in Nat \ {0}, wb \in Nat \ {0}, w \in Nat \ {0} :
         wa = st * d /\ wb = si * d /\ w = wa + wb /\ w = (st + si) * d
  <2>1. st * d \in Nat \ {0} /\ si * d \in Nat \ {0} /\ (st + si) * d = st * d + si * d
    OBVIOUS
  <2> QED  BY <2>1
<1>3. PICK zero, A, B :
         /\ zero = ZeroTensor(heads * w)
         /\ A = StridedRowCopy(zero, txt, heads, wa, w, 0, wa, 0)
         /\ B = StridedRowCopy(A, img, heads, wb, w, wa, wb, 0)
  OBVIOUS
<1>4. heads * (st + si) * d = heads * w
  BY <1>2
<1>5. DitConcatHeadsInto(txt, img) = B
  BY <1>1, <1>2, <1>3, <1>4 DEF DitConcatHeadsInto, SeqJoint
<1>6. B = Beside(txt, img, heads, wa, wb, w)
  <2>1. DOMAIN zero = 0 .. heads * w - 1
    BY <1>3, ZeroTensorIs
  <2>2. w \in Nat /\ w <= wa + wb /\ wa + wb <= w
    BY <1>2
  <2> QED  BY <1>3, <2>1, <2>2, SideBySide
<1> DEFINE Elem(i) ==
             LET h == i \div ((SeqTxt + SeqImg) * HeadDim)
                 at == i % ((SeqTxt + SeqImg) * HeadDim)
             IN  IF at < SeqTxt * HeadDim THEN txt[h * SeqTxt * HeadDim + at]
                 ELSE img[h * SeqImg * HeadDim + at - SeqTxt * HeadDim]
<1>7. PICK X : X = [i \in 0 .. Heads * (SeqTxt + SeqImg) * HeadDim - 1 |-> Elem(i)]
  OBVIOUS
<1>8. ConcatHeads(txt, img, SeqTxt, SeqImg) = X
  <2>1. ConcatHeads(txt, img, SeqTxt, SeqImg) = CHOOSE y \in {X} : y = y
    BY <1>7 DEF ConcatHeads, Tensor
  <2> HIDE DEF Elem
  <2> QED  BY <2>1, OnlyOne
<1>9. ASSUME NEW i \in 0 .. heads * w - 1
      PROVE  Elem(i) = IF i % w < wa THEN txt[(i \div w) * wa + (i % w)]
                       ELSE img[(i \div w) * wb + ((i % w) - wa)]
  <2>1. i % w \in 0 .. w - 1 /\ i \div w \in 0 .. heads - 1
    <3>1. i \in 0 .. w * heads - 1
      BY <1>2
    <3> QED  BY <1>2, <3>1, CellOfRowAndColumn
  <2>2. PICK h \in 0 .. heads - 1, c \in 0 .. w - 1 : h = i \div w /\ c = i % w
    BY <2>1
  <2>3. h * st * d = h * wa /\ h * si * d = h * wb
    BY <1>2
  <2>4. Elem(i) = IF c < wa THEN txt[h * st * d + c] ELSE img[h * si * d + c - wa]
    BY <1>1, <1>2, <2>2
  <2>5. h * wb + c - wa = h * wb + (c - wa)
    BY <1>2
  <2> QED  BY <2>2, <2>3, <2>4, <2>5
<1>10. B = X
  <2>1. Heads * (SeqTxt + SeqImg) * HeadDim = heads * w
    BY <1>1, <1>4
  <2> HIDE DEF Elem
  <2> QED  BY <1>6, <1>7, <1>9, <2>1 DEF Beside
<1> QED  BY <1>5, <1>8, <1>10

\* dit_project_qkv: the heads are those of the projections operation by operation.
LEMMA SameProjections ==
  ASSUME NEW i, NEW n, NEW seq \in Nat \ {0}, NEW w
  PROVE  DitProjectQkv(i, n, seq, w) = ProjectQkv(n, w, i, seq)
<1>1. ASSUME NEW name
      PROVE  DitProjectToHeads(name, i, n, seq)
             = ToHeads(Matmul(Weight(name, i), n, seq, HiddenSize, HiddenSize), seq)
  <2>1. PICK x : x = Matmul(Weight(name, i), n, seq, HiddenSize, HiddenSize)
    OBVIOUS
  <2>2. IsTensor(x, seq * HiddenSize)
    BY <2>1, MatmulIs
  <2>3. TokensToHeads(x, seq, HiddenSize, 0) = ToHeads(x, seq)
    BY <2>2, HeadsOfTokens
  <2> QED  BY <2>1, <2>3 DEF DitProjectToHeads
<1> QED  BY <1>1 DEF DitProjectQkv, ProjectQkv

\* cudagraph_dit_double_block: what its kernels leave is what the double block of
\* blocks.rs returns.
LEMMA SameDoubleBlock ==
  ASSUME NEW i, NEW h, NEW e, NEW s
  PROVE  /\ EncodeDitDoubleBlock(i, h, e, s) = DoubleBlock(i, h, e, s)
         /\ IsTensor(DoubleBlock(i, h, e, s).hidden, SeqImg * HiddenSize)
         /\ IsTensor(DoubleBlock(i, h, e, s).enc, SeqTxt * HiddenSize)
<1> DEFINE txt == ProjectQkv(NormModulate(e, SeqTxt, s.mod_txt.msa), TxtAttn, i, SeqTxt)
           img == ProjectQkv(NormModulate(h, SeqImg, s.mod_img.msa), ImgAttn, i, SeqImg)
           attn == AttendJointly(txt, img, s)
           with == AddAttention(h, e, AttnToOut(i, attn), s)
<1>1. /\ txt = DitProjectQkv(i, NormModulate(e, SeqTxt, s.mod_txt.msa), SeqTxt, TxtAttn)
      /\ img = DitProjectQkv(i, NormModulate(h, SeqImg, s.mod_img.msa), SeqImg, ImgAttn)
  BY Widths, SameProjections
<1>2. \A t, m : DitAttendJointly(t, m, s) = AttendJointly(t, m, s)
  BY HeadsSideBySide DEF DitAttendJointly, AttendJointly
<1>3. \A a : DitAddAttention(i, h, e, a, s) = AddAttention(h, e, AttnToOut(i, a), s)
  <2> SUFFICES ASSUME NEW a PROVE DitAddAttention(i, h, e, a, s) = AddAttention(h, e, AttnToOut(i, a), s)
    OBVIOUS
  <2>1. PICK st \in Nat, si \in Nat, sj \in Nat, z \in Nat :
           /\ st = SeqTxt * HiddenSize /\ si = SeqImg * HiddenSize /\ sj = SeqJoint * HiddenSize
           /\ z = 0 /\ sj = st + si /\ st = z + st
    <3>1. PICK x \in Nat, y \in Nat, w \in Nat : x = SeqTxt /\ y = SeqImg /\ w = HiddenSize
      BY Widths
    <3>2. x * w \in Nat /\ y * w \in Nat /\ (x + y) * w \in Nat /\ (x + y) * w = x * w + y * w
      OBVIOUS
    <3> QED  BY <3>1, <3>2 DEF SeqJoint
  <2>2. StridedRowCopy(ZeroTensor(SeqImg * HiddenSize), a, SeqImg, HiddenSize, HiddenSize, 0, HiddenSize, st)
        = Slice(a, st, sj)
    BY <2>1, Widths, RowsAreSlice
  <2>3. StridedRowCopy(ZeroTensor(SeqTxt * HiddenSize), a, SeqTxt, HiddenSize, HiddenSize, 0, HiddenSize, z)
        = Slice(a, z, st)
    BY <2>1, Widths, RowsAreSlice
  <2> QED  BY <2>1, <2>2, <2>3 DEF DitAddAttention, AttnToOut
<1>4. /\ IsTensor(with.hidden, SeqImg * HiddenSize)
      /\ IsTensor(with.enc, SeqTxt * HiddenSize)
  BY GatedResidualAddIs DEF AddAttention
<1>5. ASSUME NEW at, IsTensor(at.hidden, SeqImg * HiddenSize), IsTensor(at.enc, SeqTxt * HiddenSize)
      PROVE  DitAddFeedForward(i, at, s) = AddFeedForward(i, at, s)
  <2>1. DitNormModulateClone(at.hidden, SeqImg, s.mod_img.mlp) = NormModulate(at.hidden, SeqImg, s.mod_img.mlp)
    BY <1>5, Widths, CloneIsCopy
  <2>2. DitNormModulateClone(at.enc, SeqTxt, s.mod_txt.mlp) = NormModulate(at.enc, SeqTxt, s.mod_txt.mlp)
    BY <1>5, Widths, CloneIsCopy
  <2> QED  BY <2>1, <2>2 DEF DitAddFeedForward, AddFeedForward
<1>6. DoubleBlock(i, h, e, s) = AddFeedForward(i, with, s)
  BY DEF DoubleBlock
<1>7. EncodeDitDoubleBlock(i, h, e, s) = DitAddFeedForward(i, with, s)
  <2>1. EncodeDitDoubleBlock(i, h, e, s)
        = DitAddFeedForward(i, DitAddAttention(i, h, e, DitAttendJointly(txt, img, s), s), s)
    BY <1>1 DEF EncodeDitDoubleBlock
  <2> QED  BY <1>2, <1>3, <2>1
<1>8. ASSUME NEW at
      PROVE  /\ IsTensor(AddFeedForward(i, at, s).hidden, SeqImg * HiddenSize)
             /\ IsTensor(AddFeedForward(i, at, s).enc, SeqTxt * HiddenSize)
  BY GatedResidualAddIs DEF AddFeedForward
<1> HIDE DEF with
<1> QED  BY <1>4, <1>5, <1>6, <1>7, <1>8

\* The columns and the joined rows of blocks.rs are those the copies take.
LEMMA ColumnsIs ==
  ASSUME NEW proj, NEW from, NEW width
  PROVE  Columns(proj, from, width) = ColumnsOf(proj, SeqJoint, width, ProjOut, from)
<1>1. PICK X : X = [i \in 0 .. SeqJoint * width - 1 |-> proj[(i \div width) * ProjOut + from + (i % width)]]
  OBVIOUS
<1>2. Columns(proj, from, width) = CHOOSE y \in {X} : y = y
  BY <1>1 DEF Columns, Tensor
<1>3. X = ColumnsOf(proj, SeqJoint, width, ProjOut, from)
  BY <1>1 DEF ColumnsOf
<1> QED  BY <1>2, <1>3, OnlyOne

LEMMA ConcatRowsIs ==
  ASSUME NEW attn, NEW gated
  PROVE  ConcatRows(attn, gated) = Beside(attn, gated, SeqJoint, HiddenSize, FfnInner, CatWidth)
<1> DEFINE Elem(i) ==
             LET t == i \div CatWidth
                 c == i % CatWidth
             IN  IF c < HiddenSize THEN attn[t * HiddenSize + c] ELSE gated[t * FfnInner + c - HiddenSize]
<1>1. PICK X : X = [i \in 0 .. SeqJoint * CatWidth - 1 |-> Elem(i)]
  OBVIOUS
<1>2. ConcatRows(attn, gated) = X
  <2>1. ConcatRows(attn, gated) = CHOOSE y \in {X} : y = y
    BY <1>1 DEF ConcatRows, Tensor
  <2> HIDE DEF Elem
  <2> QED  BY <2>1, OnlyOne
<1>3. PICK seq \in Nat \ {0}, a \in Nat \ {0}, b \in Nat \ {0}, w \in Nat \ {0} :
         seq = SeqJoint /\ a = HiddenSize /\ b = FfnInner /\ w = CatWidth
  BY Widths
<1>4. ASSUME NEW i \in 0 .. seq * w - 1
      PROVE  Elem(i) = IF i % w < a THEN attn[(i \div w) * a + (i % w)] ELSE gated[(i \div w) * b + ((i % w) - a)]
  <2>1. i % w \in 0 .. w - 1 /\ i \div w \in 0 .. seq - 1
    <3>1. i \in 0 .. w * seq - 1
      OBVIOUS
    <3> QED  BY <3>1, CellOfRowAndColumn
  <2>2. PICK t \in Nat, c \in Nat, m \in Nat : t = i \div w /\ c = i % w /\ m = t * b
    BY <2>1
  <2>3. m + c - a = m + (c - a)
    OBVIOUS
  <2> QED  BY <1>3, <2>2, <2>3
<1>5. X = Beside(attn, gated, SeqJoint, HiddenSize, FfnInner, CatWidth)
  <2> HIDE DEF Elem
  <2> QED  BY <1>1, <1>3, <1>4 DEF Beside
<1> QED  BY <1>2, <1>5

\* cudagraph_dit_block: what the kernels leave is the block's, whatever the block before
\* left in the buffers.
Allocated(dev) ==
    /\ DOMAIN dev.mlp = 0 .. SeqJoint * MlpWidth - 1
    /\ DOMAIN dev.cat = 0 .. SeqJoint * CatWidth - 1

LEMMA SameSingleBlock ==
  ASSUME NEW j, NEW dev, NEW s, dev.n = dev.h, Allocated(dev)
  PROVE  /\ EncodeSingle(j, dev, s).h = SingleBlock(j, dev.h, s)
         /\ Allocated(EncodeSingle(j, dev, s))
<1>1. PICK z \in Nat, one \in Nat, two \in Nat : z = 0 /\ one = HiddenSize /\ two = 2 * HiddenSize
  BY Widths
<1>2. ASSUME NEW proj, NEW off \in Nat
      PROVE  TokensToHeads(proj, SeqJoint, ProjOut, off) = ToHeads(Columns(proj, off, HiddenSize), SeqJoint)
  BY Widths, ColumnsIs, HeadsOfColumns
<1>3. ASSUME NEW proj
      PROVE  /\ StridedRowCopy(dev.mlp, proj, SeqJoint, MlpWidth, MlpWidth, 0, ProjOut, QkvWidth)
                = Columns(proj, QkvWidth, MlpWidth)
             /\ DOMAIN Columns(proj, QkvWidth, MlpWidth) = 0 .. SeqJoint * MlpWidth - 1
  <2>1. PICK R, dst : dst = dev.mlp
                      /\ R = StridedRowCopy(dst, proj, SeqJoint, MlpWidth, MlpWidth, 0, ProjOut, QkvWidth)
    OBVIOUS
  <2>2. DOMAIN dst = 0 .. SeqJoint * MlpWidth - 1
    BY <2>1 DEF Allocated
  <2>3. R = ColumnsOf(proj, SeqJoint, MlpWidth, ProjOut, QkvWidth)
    BY <2>1, <2>2, Widths, WholeRowsCopied
  <2>4. DOMAIN ColumnsOf(proj, SeqJoint, MlpWidth, ProjOut, QkvWidth) = 0 .. SeqJoint * MlpWidth - 1
    BY DEF ColumnsOf
  <2> QED  BY <2>1, <2>3, <2>4, ColumnsIs
<1>4. ASSUME NEW attn, NEW gated
      PROVE  /\ StridedRowCopy(
                    StridedRowCopy(dev.cat, attn, SeqJoint, HiddenSize, CatWidth, 0, HiddenSize, 0),
                    gated, SeqJoint, FfnInner, CatWidth, HiddenSize, FfnInner, 0) = ConcatRows(attn, gated)
             /\ DOMAIN ConcatRows(attn, gated) = 0 .. SeqJoint * CatWidth - 1
  <2>1. PICK dst, A, B :
           /\ dst = dev.cat
           /\ A = StridedRowCopy(dst, attn, SeqJoint, HiddenSize, CatWidth, 0, HiddenSize, 0)
           /\ B = StridedRowCopy(A, gated, SeqJoint, FfnInner, CatWidth, HiddenSize, FfnInner, 0)
    OBVIOUS
  <2>2. DOMAIN dst = 0 .. SeqJoint * CatWidth - 1
    BY <2>1 DEF Allocated
  <2>3. CatWidth <= HiddenSize + FfnInner /\ HiddenSize + FfnInner <= CatWidth
    BY Widths DEF CatWidth
  <2>4. B = Beside(attn, gated, SeqJoint, HiddenSize, FfnInner, CatWidth)
    BY <2>1, <2>2, <2>3, Widths, SideBySide
  <2>5. DOMAIN Beside(attn, gated, SeqJoint, HiddenSize, FfnInner, CatWidth) = 0 .. SeqJoint * CatWidth - 1
    BY DEF Beside
  <2> QED  BY <2>1, <2>4, <2>5, ConcatRowsIs
<1>5. /\ EncodeSingle(j, dev, s).h = SingleBlock(j, dev.h, s)
      /\ Allocated(EncodeSingle(j, dev, s))
  <2> DEFINE proj == Matmul(Weight("to_qkv_mlp_proj", j), NormModulate(dev.h, SeqJoint, s.mod_single),
                            SeqJoint, ProjOut, HiddenSize)
  <2>1. /\ TokensToHeads(proj, SeqJoint, ProjOut, 0) = ToHeads(Columns(proj, 0, HiddenSize), SeqJoint)
        /\ TokensToHeads(proj, SeqJoint, ProjOut, HiddenSize)
           = ToHeads(Columns(proj, HiddenSize, HiddenSize), SeqJoint)
        /\ TokensToHeads(proj, SeqJoint, ProjOut, 2 * HiddenSize)
           = ToHeads(Columns(proj, 2 * HiddenSize, HiddenSize), SeqJoint)
    BY <1>1, <1>2
  <2> QED  BY <1>3, <1>4, <2>1 DEF EncodeSingle, SingleBlock, Allocated
<1> QED  BY <1>5

\* A non-empty set of numbers has a least element.
LEMMA LeastElement ==
    ASSUME NEW S \in SUBSET Nat, S # {}
    PROVE  \E m \in S : \A n \in S : m <= n
  <1> DEFINE R == OpToRel(<, Nat)
  <1>1. IsWellFoundedOn(R, Nat)
    BY NatLessThanWellFounded
  <1>2. \A m, n \in Nat : n < m => <<n, m>> \in R
    BY DEF OpToRel
  <1> HIDE DEF R
  <1>3. PICK m \in S : \A n \in S : ~ (<<n, m>> \in R)
    BY <1>1, WFMin
  <1>4. ASSUME NEW n \in S PROVE m <= n
    <2>1. ~ (n < m)
      BY <1>2, <1>3
    <2> QED  BY <2>1
  <1> QED  BY <1>4

\* The fused loop over the single blocks, and the loop over them operation by operation.
DeviceStep(h, s, d, j) ==
    IF j = 0 THEN [SingleBuffers EXCEPT !.h = h]
    ELSE EncodeSingle(j - 1, [d[j - 1] EXCEPT !.n = d[j - 1].h], s)
StreamStep(h, s, x, j) == IF j = 0 THEN h ELSE SingleBlock(j - 1, x[j - 1], s)
DeviceLoop(h, s, n, d) == d = [j \in 0 .. n |-> DeviceStep(h, s, d, j)]
StreamLoop(h, s, n, x) == x = [j \in 0 .. n |-> StreamStep(h, s, x, j)]

\* Both are defined for any number of blocks: else for a least number they were not.
LEMMA LoopsAreDefined ==
  ASSUME NEW h, NEW s, NEW n \in Nat
  PROVE  (\E d : DeviceLoop(h, s, n, d)) /\ (\E x : StreamLoop(h, s, n, x))
<1> DEFINE Undefined == {m \in Nat : ~ ((\E d : DeviceLoop(h, s, m, d)) /\ (\E x : StreamLoop(h, s, m, x)))}
<1>1. SUFFICES ASSUME Undefined # {} PROVE FALSE
  OBVIOUS
<1>2. PICK m \in Undefined : \A k \in Undefined : m <= k
  <2>1. Undefined \in SUBSET Nat
    OBVIOUS
  <2> QED  BY <1>1, <2>1, LeastElement
<1>3. CASE m = 0
  <2>1. PICK d : d = [j \in 0 .. 0 |-> [SingleBuffers EXCEPT !.h = h]]
    OBVIOUS
  <2>2. PICK x : x = [j \in 0 .. 0 |-> h]
    OBVIOUS
  <2>3. DeviceLoop(h, s, 0, d)
    BY <2>1 DEF DeviceLoop, DeviceStep
  <2>4. StreamLoop(h, s, 0, x)
    BY <2>2 DEF StreamLoop, StreamStep
  <2> QED  BY <1>3, <2>3, <2>4
<1>4. CASE m # 0
  <2>0. m \in Nat /\ m - 1 \in Nat /\ ~ (m <= m - 1)
    BY <1>4
  <2>1. m - 1 \notin Undefined
    BY <1>2, <2>0
  <2>2. PICK d, x : DeviceLoop(h, s, m - 1, d) /\ StreamLoop(h, s, m - 1, x)
    BY <2>0, <2>1
  <2>3. PICK e : e = [j \in 0 .. m |-> IF j = m THEN DeviceStep(h, s, d, m) ELSE d[j]]
    OBVIOUS
  <2>4. PICK y : y = [j \in 0 .. m |-> IF j = m THEN StreamStep(h, s, x, m) ELSE x[j]]
    OBVIOUS
  <2>5. ASSUME NEW j \in 0 .. m PROVE e[j] = DeviceStep(h, s, e, j)
    <3>1. j = 0 \/ (j - 1 \in 0 .. m /\ j - 1 # m)
      BY <2>0
    <3>2. DeviceStep(h, s, e, j) = DeviceStep(h, s, d, j)
      BY <2>3, <3>1 DEF DeviceStep
    <3>3. j # m => j \in 0 .. m - 1
      BY <2>0
    <3>4. j # m => d[j] = DeviceStep(h, s, d, j)
      BY <2>2, <3>3 DEF DeviceLoop
    <3> QED  BY <2>3, <3>2, <3>4
  <2>6. ASSUME NEW j \in 0 .. m PROVE y[j] = StreamStep(h, s, y, j)
    <3>1. j = 0 \/ (j - 1 \in 0 .. m /\ j - 1 # m)
      BY <2>0
    <3>2. StreamStep(h, s, y, j) = StreamStep(h, s, x, j)
      BY <2>4, <3>1 DEF StreamStep
    <3>3. j # m => j \in 0 .. m - 1
      BY <2>0
    <3>4. j # m => x[j] = StreamStep(h, s, x, j)
      BY <2>2, <3>3 DEF StreamLoop
    <3> QED  BY <2>4, <3>2, <3>4
  <2>7. DeviceLoop(h, s, m, e) /\ StreamLoop(h, s, m, y)
    BY <2>3, <2>4, <2>5, <2>6 DEF DeviceLoop, StreamLoop
  <2> QED  BY <2>0, <2>7
<1> QED  BY <1>3, <1>4

\* After every block the stream on the device is the stream.
Buffers(dev) ==
    /\ dev = [h |-> dev.h, n |-> dev.n, proj |-> dev.proj, mlp |-> dev.mlp, cat |-> dev.cat]
    /\ Allocated(dev)

LEMMA DeviceFollows ==
  ASSUME NEW h, NEW s, NEW n \in Nat, NEW d, NEW x, DeviceLoop(h, s, n, d), StreamLoop(h, s, n, x)
  PROVE  \A j \in 0 .. n : Buffers(d[j]) /\ d[j].h = x[j]
<1> DEFINE Apart == {j \in 0 .. n : ~ (Buffers(d[j]) /\ d[j].h = x[j])}
<1>1. SUFFICES ASSUME Apart # {} PROVE FALSE
  OBVIOUS
<1>2. PICK m \in Apart : \A k \in Apart : m <= k
  <2>1. Apart \in SUBSET Nat
    OBVIOUS
  <2> QED  BY <1>1, <2>1, LeastElement
<1>3. d[m] = DeviceStep(h, s, d, m) /\ x[m] = StreamStep(h, s, x, m)
  BY <1>2 DEF DeviceLoop, StreamLoop
<1>4. CASE m = 0
  <2>1. d[m] = [SingleBuffers EXCEPT !.h = h] /\ x[m] = h
    BY <1>3, <1>4 DEF DeviceStep, StreamStep
  <2>2. Allocated(d[m])
    BY <2>1, ZeroTensorIs DEF SingleBuffers, Allocated
  <2>3. Buffers(d[m]) /\ d[m].h = x[m]
    BY <2>1, <2>2 DEF SingleBuffers, Buffers
  <2> QED  BY <2>3
<1>5. CASE m # 0
  <2>0. m - 1 \in 0 .. n /\ ~ (m <= m - 1)
    BY <1>5
  <2>1. Buffers(d[m - 1]) /\ d[m - 1].h = x[m - 1]
    BY <1>2, <2>0
  <2>2. PICK dev : dev = [d[m - 1] EXCEPT !.n = d[m - 1].h]
    OBVIOUS
  <2>3. dev.n = dev.h /\ dev.h = x[m - 1] /\ Allocated(dev)
    BY <2>1, <2>2 DEF Buffers, Allocated
  <2>4. d[m] = EncodeSingle(m - 1, dev, s) /\ x[m] = SingleBlock(m - 1, x[m - 1], s)
    BY <1>3, <1>5, <2>2 DEF DeviceStep, StreamStep
  <2>5. d[m].h = x[m] /\ Allocated(d[m])
    BY <2>3, <2>4, SameSingleBlock
  <2>6. Buffers(d[m])
    BY <2>4, <2>5 DEF EncodeSingle, Buffers
  <2> QED  BY <2>5, <2>6
<1> QED  BY <1>4, <1>5

\* cudagraph_dit_blocks: all single blocks in one call do what they do one by one.
LEMMA SameSingleBlocks ==
  ASSUME NEW h, NEW s
  PROVE  EncodeDitSingleBlocks(h, s) = PerOpSingles(h, s)
<1> DEFINE D == CHOOSE d : DeviceLoop(h, s, NumSingleLayers, d)
           X == CHOOSE x : StreamLoop(h, s, NumSingleLayers, x)
<1>1. EncodeDitSingleBlocks(h, s) = D[NumSingleLayers].h
  BY DEF EncodeDitSingleBlocks, DeviceLoop, DeviceStep
<1>2. PerOpSingles(h, s) = X[NumSingleLayers]
  BY DEF PerOpSingles, StreamLoop, StreamStep
<1>3. NumSingleLayers \in Nat /\ NumSingleLayers \in 0 .. NumSingleLayers
  BY Widths
<1>4. DeviceLoop(h, s, NumSingleLayers, D) /\ StreamLoop(h, s, NumSingleLayers, X)
  <2>1. (\E d : DeviceLoop(h, s, NumSingleLayers, d)) /\ (\E x : StreamLoop(h, s, NumSingleLayers, x))
    BY <1>3, LoopsAreDefined
  <2> QED  BY <2>1
<1> HIDE DEF D, X
<1> QED  BY <1>1, <1>2, <1>3, <1>4, DeviceFollows

-----------------------------------------------------------------------------
\* A fused call that only fails before the streams come down has written nothing.
LEMMA NothingWritten ==
  ASSUME "download" \notin Faults, NEW streams, NEW w \in Written(streams)
  PROVE  w = {}
BY DEF Written

\* The inductive invariant: the state without the fused calls is the state.  That
\* stage0 is the same is what ImageLikePerOp leaves out.
ImageInv ==
    /\ ImageLikePerOp
    /\ perOp = [latents |-> latents, hidden |-> hidden, enc |-> enc, joint |-> joint, stage0 |-> stage0]

\* One block in one call, from buffers that have just been allocated.
LEMMA FusedSingleBlock ==
  ASSUME NEW j, NEW h, NEW s
  PROVE  EncodeDitSingleBlock(j, h, s) = SingleBlock(j, h, s)
<1>1. PICK dev : dev = [SingleBuffers EXCEPT !.h = h, !.n = h]
  OBVIOUS
<1>2. dev.n = dev.h /\ dev.h = h /\ dev.mlp = SingleBuffers.mlp /\ dev.cat = SingleBuffers.cat
  BY <1>1 DEF SingleBuffers
<1>3. Allocated(dev)
  BY <1>2, ZeroTensorIs DEF SingleBuffers, Allocated
<1>4. EncodeSingle(j, dev, s).h = SingleBlock(j, dev.h, s)
  BY <1>2, <1>3, SameSingleBlock
<1> QED  BY <1>1, <1>2, <1>4 DEF EncodeDitSingleBlock

\* The image a prompt gets is the same with the fused calls and without, after
\* every block and every step, whichever calls ran fused, were switched off, or
\* failed before their streams came down (blocks.rs and forward.rs; the fused calls
\* of cudagraph_dit_block_group and cudagraph_dit_double_block_group): for any
\* sizes of the model, lengths of the streams, numbers of blocks and of steps.
THEOREM FusedImageIsPerOp ==
  ASSUME "download" \notin Faults
  PROVE  ImageSpec => []ImageLikePerOp
<1>1. ImageInit => ImageInv
  BY DEF ImageInit, ImageInv, ImageLikePerOp
<1>2. ImageInv /\ [ImageNext]_imageVars => ImageInv'
  <2> SUFFICES ASSUME ImageInv, [ImageNext]_imageVars PROVE ImageInv'
    OBVIOUS
  <2>0. perOp = [latents |-> latents, hidden |-> hidden, enc |-> enc, joint |-> joint, stage0 |-> stage0]
    BY DEF ImageInv
  <2> SUFFICES perOp' = [latents |-> latents', hidden |-> hidden', enc |-> enc', joint |-> joint',
                         stage0 |-> stage0']
    BY DEF ImageInv, ImageLikePerOp
  <2>1. CASE Stage0
    <3>1. PICK s : s = RunStage0(latents, denoised)
      OBVIOUS
    <3>2. /\ stage0' = s /\ hidden' = s.x_emb /\ enc' = s.ctx_emb /\ latents' = latents /\ joint' = joint
          /\ perOp' = [perOp EXCEPT !.stage0 = s, !.hidden = s.x_emb, !.enc = s.ctx_emb]
      BY <2>0, <2>1, <3>1 DEF Stage0
    <3> QED  BY <2>0, <3>2
  <2>2. CASE Double
    <3>1. PICK after \in AfterDouble(ditAt[2]) : hidden' = after.hidden /\ enc' = after.enc
      BY <2>2 DEF Double
    <3>2. PICK b : b = DoubleBlock(ditAt[2], hidden, enc, stage0)
      OBVIOUS
    <3>3. EncodeDitDoubleBlock(ditAt[2], hidden, enc, stage0) = b
      BY <3>2, SameDoubleBlock
    <3>4. after = b
      <4>1. CASE fused /\ after = b
        BY <4>1
      <4>2. CASE ~ (fused /\ after = b)
        <5>1. PICK w : w = {}
                       /\ after = DoubleBlock(ditAt[2],
                                      IF "hidden" \in w
                                      THEN EncodeDitDoubleBlock(ditAt[2], hidden, enc, stage0).hidden ELSE hidden,
                                      IF "enc" \in w
                                      THEN EncodeDitDoubleBlock(ditAt[2], hidden, enc, stage0).enc ELSE enc,
                                      stage0)
          BY <3>1, <3>3, <4>2, NothingWritten DEF AfterDouble
        <5> QED  BY <3>2, <5>1
      <4> QED  BY <4>1, <4>2
    <3>5. /\ perOp' = [perOp EXCEPT !.hidden = b.hidden, !.enc = b.enc]
          /\ latents' = latents /\ stage0' = stage0 /\ joint' = joint
      BY <2>0, <2>2, <3>2 DEF Double
    <3> QED  BY <2>0, <3>1, <3>4, <3>5
  <2>3. CASE Join
    BY <2>0, <2>3 DEF Join
  <2>4. CASE FusedSingles
    <3>1. joint' = PerOpSingles(joint, stage0)
      BY <2>4, SameSingleBlocks DEF FusedSingles
    <3>2. /\ perOp' = [perOp EXCEPT !.joint = PerOpSingles(joint, stage0)]
          /\ latents' = latents /\ stage0' = stage0 /\ hidden' = hidden /\ enc' = enc
      BY <2>0, <2>4 DEF FusedSingles
    <3> QED  BY <2>0, <3>1, <3>2
  <2>5. CASE NoFusedSingles
    <3>1. joint' = joint
      BY <2>5, NothingWritten DEF NoFusedSingles
    <3> QED  BY <2>0, <2>5, <3>1 DEF NoFusedSingles
  <2>6. CASE Single
    <3>1. PICK b : b = SingleBlock(ditAt[2], joint, stage0)
      OBVIOUS
    <3>2. EncodeDitSingleBlock(ditAt[2], joint, stage0) = b
      BY <3>1, FusedSingleBlock
    <3>3. joint' = b
      <4>1. joint' \in AfterSingle(ditAt[2])
        BY <2>6 DEF Single
      <4> QED  BY <3>1, <3>2, <4>1, NothingWritten DEF AfterSingle
    <3>4. /\ perOp' = [perOp EXCEPT !.joint = b]
          /\ latents' = latents /\ stage0' = stage0 /\ hidden' = hidden /\ enc' = enc
      BY <2>0, <2>6, <3>1 DEF Single
    <3> QED  BY <2>0, <3>3, <3>4
  <2>7. CASE Denoised
    <3>1. /\ perOp' = [perOp EXCEPT !.latents = Denoise(latents, denoised, Noise(joint, stage0))]
          /\ latents' = Denoise(latents, denoised, Noise(joint, stage0))
          /\ stage0' = stage0 /\ hidden' = hidden /\ enc' = enc /\ joint' = joint
      BY <2>0, <2>7 DEF Denoised
    <3> QED  BY <2>0, <3>1
  <2>8. CASE UNCHANGED imageVars
    BY <2>0, <2>8 DEF imageVars
  <2> QED  BY <2>1, <2>2, <2>3, <2>4, <2>5, <2>6, <2>7, <2>8 DEF ImageNext
<1>3. ImageInv => ImageLikePerOp
  BY DEF ImageInv
<1> QED  BY <1>1, <1>2, <1>3, PTL DEF ImageSpec
=============================================================================
