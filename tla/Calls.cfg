SPECIFICATION FairSpec
CONSTANTS
    Clients = {x, y}
    Stuck = y
    None = None
    MaxShort = 3
    InitialNodes = 1
    MaxNodes = 3
    MaxBody = 11
    Envs <- SomeEnvs
INVARIANT BuffersFit
INVARIANT CutOffIsRefused
INVARIANT NodesAreKept
PROPERTY IsRemoteCall
PROPERTY CallsReturn
CHECK_DEADLOCK FALSE
