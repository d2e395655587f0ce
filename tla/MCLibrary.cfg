SPECIFICATION LibrarySpec
CONSTANTS
    ClientIds = {x, y}
    Callers = {c1, c2}
    Burst = 2
    Rps = 1
    GlobalRps = 1
    MaxClients = 1
    Ttl = 2
    Horizon = 2
    NoId = none
    Acquirers = {t1, t2, t3, t4}
    MaxDepth = 2
    MaxConcurrent = 3
    MaxQueue = 2
    Priorities = {0, 1}
    Budgets = {2}
    MaxRequests = 4
    Calls = {a1, a2, a3}
    MaxInFlight = 2
    ModelKeys = {k1, k2, k3}
    Sizes = {1, 2, 4}
    MaxModels = 2
    ModelTtl = 2
    Budget = 3
    IdleHorizon = 3
    Grammars <- MCGrammars
    Vocabulary <- MCVocabulary
    MaskCapacity = 2
    MaxBytes = 4
    MaxWord = 11
    Patterns <- MCPatterns
    RuleBooks <- MCRuleBooks
    Schemas <- MCSchemas
    Digits = {"0"}
    StringBytes = {"a"}
    MaxText = 7
    Origins <- MCOrigins
    ChunkSizes = {1, 50}
    Corpora <- MCCorpora
    RoundTrips <- MCRoundTrips
    StreamedBy <- MCStreamedBy
    UnigramTexts <- MCUnigramTexts
    WordPieceTexts <- MCWordPieceTexts
    MaxIds = 4
INVARIANTS
    DepthCountsHolders
    NoOvertaking
    WorkIsAdmitted
    ModelsFit
    TextLikeReference
    ModelFilesLikeReference
PROPERTIES
    LimiterImplementsBuckets
    EveryRequestFinishes
    EveryCallAnswered
