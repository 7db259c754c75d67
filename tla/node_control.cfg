CONSTANTS
    l1 = l1
    l2 = l2
    Login = {l1, l2}
    MaxCommands = 5
    EventMixes <- Mixes
SPECIFICATION FairSpec
INVARIANTS TypeOK RevokedSessionsEnd LifecycleMatchesNode
PROPERTIES StopLosesNoTraffic IdleStopDisconnectsNobody CommandsEnd
CHECK_DEADLOCK FALSE
