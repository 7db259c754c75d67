CONSTANTS
    a = a
    b = b
    r = r
    s = s
    main = main
    udp443 = udp443
    Unit = {a, b}
    DomainRecord = {r, s}
    Endpoint = {main, udp443}
    Route <- TwoEndpoints
    Boundary = 1
    MaxNow = 1
    MaxBatch = 6
    EventMixes <- Mixes
SPECIFICATION FairSpec
INVARIANT TypeOK
PROPERTIES ImplementsTrafficLedger DomainBatchesCountedOnce ChargedToItsPeriod SampledIsSettled
CHECK_DEADLOCK FALSE
