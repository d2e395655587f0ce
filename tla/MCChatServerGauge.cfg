SPECIFICATION ServerSpec
CONSTANTS
    r1 = r1
    r2 = r2
    r3 = r3
    Clients <- MCClients
    Mixes <- MCPlainMix
    NumEngines = 1
    Permits = 1
    MaxTokens = 1
    MaxChoices = 2
    EngineMetrics = TRUE
INVARIANT GaugeZeroWhenQuiet
CHECK_DEADLOCK FALSE
