SPECIFICATION FairServerSpec
CONSTANTS
    r1 = r1
    r2 = r2
    r3 = r3
    Clients <- MCClients
    Mixes <- MCMixes
    NumEngines = 1
    Permits = 1
    MaxTokens = 1
    MaxChoices = 2
    EngineMetrics = TRUE
INVARIANTS
    ParamsStayWithTheirRequest
    AnsweredMeansReturned
    GaugeCoversHandlers
    HangUpCostsOnePass
PROPERTIES
    EveryRequestEnds
CHECK_DEADLOCK FALSE
