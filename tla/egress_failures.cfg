CONSTANTS
    Secondary = TRUE
    MaxSwitches = 3
    FaultMixes <- Failures
SPECIFICATION FairSpec
INVARIANTS TypeOK ShownPolicyIsInForce SwitchLosesNoTraffic NoRecordMeansConsistent
PROPERTIES ServersStartOnWholeFiles ServicesReturn
CHECK_DEADLOCK FALSE
