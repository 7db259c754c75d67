CONSTANTS
    MaxUploads = 1
    MaxEdits = 1
    FaultMixes <- Unstopped
SPECIFICATION FairSpec
PROPERTIES ServicesReturn
CHECK_DEADLOCK FALSE
