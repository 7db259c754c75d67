CONSTANTS
    MaxUploads = 2
    MaxEdits = 2
    FaultMixes <- Mixes
SPECIFICATION FairSpec
INVARIANTS TypeOK ServicesRunOnOneIdentity MixtureIsRecorded
PROPERTIES ServedDataNeverGoesBack RestoreEndsClean ServicesReturn
CHECK_DEADLOCK FALSE
