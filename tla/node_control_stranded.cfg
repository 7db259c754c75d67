CONSTANTS
    l1 = l1
    l2 = l2
    Login = {l1}
    MaxCommands = 1
    EventMixes <- Stranding
SPECIFICATION FairSpec
PROPERTIES StopConverges
CHECK_DEADLOCK FALSE
