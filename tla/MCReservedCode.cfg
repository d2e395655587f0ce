SPECIFICATION ThreadsSpec
CONSTANTS
    Shapes <- MCShapes
    TernaryCodes = {0, 1, 2, 3}
    PAR_GEMV_MIN_ROWS = 4
    PAR_GEMM_MIN_BATCH = 2
    PAR_DEQUANT_MIN_BLOCKS = 4
    DEQUANT_CHUNK = 2
    L1_TILE_ROWS = 2
    L2_TILE_ROWS = 4
    GEMM_BATCH_TILE = 2
    MIN_TILE_ROWS = 1
    L1_BYTES = 1096
    PAR_TILED_GEMV_MIN_ROWS = 4
    PAR_TILED_GEMM_MIN_BATCH = 2
    PAR_TILED_MIN_ROWS = 5
    PAR_TILED_MIN_BATCH = 2
    DIRECT_DISPATCH_MAX_ROWS = 2
    MEDIUM_PARALLEL_MAX_ROWS = 6
    CpuShapes <- MCCpuShapes
    TiledShapes <- MCTiledShapes
    Works <- MCFewWorks
    GROUP = 32
    WARP = 4
    DIT_GLUE_MAX_GRID = 2
    IM2COL_TILE_CAP_BYTES = 370
    Threads = {b1, b2, b3}
    FailureThreshold = 2
    SuccessThreshold = 2
    HalfOpenMax = 1
INVARIANTS
    TernaryCodesAsDocumented
