SPECIFICATION FairSpec
CONSTANTS
    Envs <- HeldAtExit
    Requests = {"pause", "shutdown"}
    MaxReq = 3
PROPERTY ShutdownEndsJVM
CHECK_DEADLOCK FALSE
