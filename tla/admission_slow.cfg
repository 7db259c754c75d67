CONSTANTS
    n1 = n1
    n2 = n2
    l1 = l1
    l2 = l2
    l3 = l3
    Node <- TwoNodes
    LoginId <- TwoLogins
    Panel = panel
    Premium = TRUE
    Freshness = 3
    LocalLease = 1
    CacheAge = 1
    Window = 1
    LocalWindow = 0
    Gap = 2
    Outage = 1
    Straddle = FALSE
    DeviceLimit = 1
    MaxSends = 2
    MaxRestarts = 0
    MaxTime = 5
SPECIFICATION Spec
SYMMETRY Alike
INVARIANT TypeOK
PROPERTY AdmissionWithinLimit
CHECK_DEADLOCK FALSE
