CONSTANTS
    a = a
    b = b
    c = c
    main = main
    udp443 = udp443
    Unit = {a, b}
    Endpoint = {main}
    Route <- OneEndpoint
    MaxEntries = 3
    PerCycle = 2
    LedgerRows = 2
    BatchAge = 1
    LedgerAge = 1
    StateAge = 0
    ClockSkew = 0
    MaxBatch = 3
    MaxEpoch = 1
    MaxNow = 2
    MaxSequence = 2
    FaultMixes <- PanelFaults
SPECIFICATION Spec
SYMMETRY Alike
INVARIANTS TypeOK ExactlyOnce CompleteUsageCoversTraffic
PROPERTIES SnapshotsNeverRegress
CHECK_DEADLOCK FALSE
