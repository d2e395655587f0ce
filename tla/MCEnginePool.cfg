SPECIFICATION MCSpec
CONSTANTS
    c1 = c1
    c2 = c2
    c3 = c3
    c4 = c4
    p1 = p1
    p2 = p2
    p3 = p3
    Clients <- MCClients
    NumEngines = 2
    Permits = 2
    Producers <- MCProducers
    Consumers <- MCConsumers
    Capacity = 2
    MaxItems = 5
INVARIANTS
    EachEngineInOnePlace
    GrantedFindsEngine
    SemInv
    BoundedFifo
    NoLostWakeup
PROPERTIES
    LeasesAreExclusive
    EveryPoolAnswers
    EveryItemServed
