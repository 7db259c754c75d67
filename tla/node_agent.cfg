CONSTANTS
    a = a
    b = b
    c = c
    main = main
    udp443 = udp443
    Unit = {a, b}
    Endpoint = {main, udp443}
    Route <- TwoEndpoints
    MaxEntries = 2
    PerCycle = 1
    LedgerRows = 4
    BatchAge = 1
    LedgerAge = 1
    StateAge = 0
    ClockSkew = 0
    MaxBatch = 3
    MaxEpoch = 2
    MaxNow = 0
    MaxSequence = 0
    FaultMixes <- AgentFaults
SPECIFICATION FairSpec
INVARIANTS NothingLost
PROPERTIES ImplementsTrafficLedger SampledIsSettled
CHECK_DEADLOCK FALSE
