CONSTANTS
    n1 = n1
    n2 = n2
    l1 = l1
    l2 = l2
    l3 = l3
    Node <- OneNode
    LoginId <- ThreeLogins
    Panel = panel
    Premium = FALSE
    Freshness = 2
    LocalLease = 2
    CacheAge = 1
    Window = 0
    LocalWindow = 1
    Gap = 9
    Outage = 2
    Straddle = FALSE
    DeviceLimit = 2
    MaxSends = 3
    MaxRestarts = 1
    MaxTime = 3
SPECIFICATION Spec
SYMMETRY Alike
INVARIANT EveryDeviceIsLeasedOrCounted
PROPERTY AdmissionWithinLimit
CHECK_DEADLOCK FALSE
