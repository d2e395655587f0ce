----------------------------- MODULE MCInference ------------------------------
(* The runs of what a model is computed with: the caches of keys and values,  *)
(* the forward passes of the GPU (MCGpuForward), the diffusion transformer    *)
(* and the weights the image pipeline's products find.  A behaviour is of     *)
(* one area, the others stand still.                                          *)
EXTENDS PrefixCachedEngine, PagedKv, MCGpuForward, ImageForward, MCImageWeights
CONSTANTS s1, s2
VARIABLES area, part

(* The caches, a part of them per behaviour: prompts that share, extend and   *)
(* skip prefixes in two sessions at a time, and under an engine that always   *)
(* computes on the same device; sequences of two layers over a pool of pages  *)
(* too small for all of them.                                                 *)
MCSessions == {s1, s2}
MCContent == {"a", "b"}
MCKey == [c \in MCContent |-> c]
MCSessionPrompts == {<<"a", "b">>, <<"a", "b", "a">>, <<"b">>}

CachesInit ==
    /\ part \in {"prefix", "engine", "paged"} /\ EngineInit /\ PagedInit
    /\ part # "engine" => tier = "cpu"     \* not used
CachesNext ==
    \/ part = "prefix" /\ PrefixNext /\ UNCHANGED <<part, engineVars, pagedVars>>
    \/ part = "engine" /\ EngineNext /\ UNCHANGED <<part, pagedVars>>
    \/ part = "paged" /\ PagedNext /\ UNCHANGED <<part, allVars>>
CachesSpec == CachesInit /\ [][CachesNext]_<<part, allVars, pagedVars>>

-----------------------------------------------------------------------------

ImageUnused ==
    /\ ditAt = <<"done", 0>> /\ denoised = 0 /\ fused = FALSE /\ taps = FALSE
    /\ latents = <<>> /\ stage0 = <<>> /\ hidden = <<>> /\ enc = <<>> /\ joint = <<>>
    /\ perOp = [latents |-> <<>>, hidden |-> <<>>, enc |-> <<>>, joint |-> <<>>]

InferenceInit ==
    /\ area \in {"caches", "forward", "image", "weights"}
    /\ CachesInit /\ (area # "caches" => part = "prefix")
    /\ IF area = "forward" THEN MCInit ELSE ForwardUnused
    /\ IF area = "image" THEN ImageInit ELSE ImageUnused
    /\ WeightsInit /\ (area # "weights" => host = CHOOSE h \in Hosts : TRUE)

inferenceVars == <<area, part, allVars, pagedVars, view, vars, layerVars, imageVars, weightVars>>

InferenceNext ==
    \/ /\ area = "caches" /\ CachesNext
       /\ UNCHANGED <<area, view, vars, layerVars, imageVars, weightVars>>
    \/ /\ area = "forward" /\ MCNext
       /\ UNCHANGED <<area, part, allVars, pagedVars, imageVars, weightVars>>
    \/ /\ area = "image" /\ ImageNext
       /\ UNCHANGED <<area, part, allVars, pagedVars, view, vars, layerVars, weightVars>>
    \/ /\ area = "weights" /\ WeightsNext
       /\ UNCHANGED <<area, part, allVars, pagedVars, view, vars, layerVars, imageVars>>
    \/ area = "image" /\ ditAt[1] = "done" /\ UNCHANGED inferenceVars    \* the last step is over

InferenceSpec == InferenceInit /\ [][InferenceNext]_inferenceVars
=============================================================================
