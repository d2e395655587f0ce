SPECIFICATION InferenceSpec
CONSTANTS
    s1 = s1
    s2 = s2
    Sessions <- MCSessions
    Content <- MCContent
    KeyOf <- MCKey
    SessionPrompts <- MCSessionPrompts
    MaxBlocks = 2
    gen = s1
    Tiers = {"cpu", "gpu"}
    Capacity = 3
    BlockSize = 2
    NumLayers = 2
    MaxSeqs = 2
    MaxPos = 3
    Values = {"v", "w"}
    Models <- MCModels
    Format <- MCFormat
    Layers <- MCLayers
    Dims <- MCDims
    Contexts = {2, 4}
    Machines <- MCMachines
    Tokens = {"a", "b"}
    Prompts <- MCPrompts
    BatchMax = 1
    MaxDraft = 2
    LongExcluded <- Q1Prompts
    PromptOnly <- StdPrompts
    Paths <- MCPaths
    TokenBatches <- MCBatches
    Depth = 2
    Slots = 3
    MaxBatch = 2
    MaxCalls = 3
    Heads = 2
    HeadDim = 4
    FfnInner = 3
    InChannels = 2
    JointDim = 2
    SeqTxt = 2
    SeqImg = 3
    NumDoubleLayers = 2
    NumSingleLayers = 2
    Steps = 2
    Faults = {"encode"}
    TeLinears = {"q", "k"}
    DitLinears = {"x_embedder"}
    Addresses = {1, 2, 3}
    ra = ra
    rb = rb
    Renderers <- MCRenderers
    Hosts <- MCHosts
    GpuFaults = {"upload"}
    Free = Free
INVARIANTS
    HeldBlocksStay
    ArenaConsistent
    ArenaIsBounded
    TrieNotPoisoned
    AnswersLikePlainEngine
    PagesDisjoint
    PagesConserved
    AnswersFromOwnPrefix
    GraphInv
    LayersLikeReference
    ImageLikePerOp
    ProductsUseTheirWeights
PROPERTIES
    IsPrivateMemory
