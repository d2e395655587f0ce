SPECIFICATION MCSpec
CONSTANTS
    Models <- MCModels
    Format <- MCFormat
    Layers <- MCLayers
    Dims <- MCDims
    Contexts = {2, 4}
    Machines <- MCCuda
    Tokens = {"a", "b"}
    Prompts <- MCPrompts
    BatchMax = 1
    MaxDraft = 2
    LongExcluded = {}
    PromptOnly <- StdPrompts
    Paths = {"cuda_prefill_q1"}
    TokenBatches <- MCBatches
    Depth = 2
    Slots = 3
    MaxBatch = 2
    MaxCalls = 1
INVARIANTS
    Q1BatchIsFine
