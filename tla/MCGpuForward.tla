----------------------------- MODULE MCGpuForward -----------------------------
(* Instances for TLC of the two views of a forward pass, GpuForward and      *)
(* GpuLayer: processes that load a ternary model and one other, of another   *)
(* size, in turn, and, for each back end, the launches of two layers, so     *)
(* that a layer finds the buffers as the one before it left them.  A         *)
(* behaviour is of one view; the variables of the other stand still.         *)
EXTENDS GpuForward, GpuLayer
VARIABLE view

MCModels == {"q", "h", "s", "t"}
MCFormat == [q |-> "onebit", h |-> "fp32head", s |-> "std", t |-> "ternary"]
MCLayers == [q |-> 1, h |-> 1, s |-> 1, t |-> 2]
MCDims == [q |-> "small", h |-> "small", s |-> "small", t |-> "large"]
MCPrompts == {<<"b">>, <<"a", "b", "a">>}
Machine(d, c, f, m) == [device |-> d, captures |-> c, lmFits |-> f, serves |-> {m, "t"}]
MCMachines == {Machine("cuda", TRUE, TRUE, m) : m \in {"q", "h", "s"}}
         \cup {Machine("cuda", FALSE, f, "q") : f \in BOOLEAN}
         \cup {Machine("metal", TRUE, TRUE, m) : m \in {"q", "h", "s"}}
         \cup {Machine("none", TRUE, TRUE, "q")}
MCCuda == {Machine("cuda", TRUE, TRUE, "q")}
\* Divergences of their own: the first is shown by a run of its own.
Q1Prompts == {<<"cuda", "onebit">>}
StdPrompts == {<<"cuda", "std">>}

MCPaths == {"cuda_q1", "cuda_ternary", "metal_q1", "metal_ternary", "metal_block",
            "metal_block_ternary", "cuda_prefill_q1", "cuda_prefill_ternary",
            "cuda_prefill_q_std", "cuda_prefill_fp8", "cuda_prefill_k_quant"}
MCBatches == {<<"a">>, <<"b">>, <<"a", "b">>, <<"b", "a">>}

Unused == CHOOSE m \in Machines : TRUE

StoresUnused ==
    /\ Init /\ machine = Unused
    /\ loaded = CHOOSE l \in [model : Unused.serves, cap : Contexts] : TRUE
LaunchesUnused ==
    /\ path = "none" /\ mem = <<>> /\ cache = <<>> /\ recorded = <<>> /\ seen = <<>>
    /\ last = NoCall /\ calls = 0
\* Where another part of the system is checked.
ForwardUnused == view = "none" /\ StoresUnused /\ LaunchesUnused

MCInit ==
    \/ view = "stores" /\ Init /\ LaunchesUnused
    \/ view = "launches" /\ LayerInit /\ StoresUnused

MCNext ==
    \/ view = "stores" /\ Next /\ UNCHANGED <<view, layerVars>>
    \/ view = "launches" /\ LayerNext /\ UNCHANGED <<view, vars>>
    \/ view = "launches" /\ calls = MaxCalls /\ UNCHANGED <<view, vars, layerVars>>  \* the bound

MCSpec == MCInit /\ [][MCNext]_<<view, vars, layerVars>>
=============================================================================
