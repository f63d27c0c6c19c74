SPECIFICATION FairSpec
CONSTANTS
    Clients = {x, y}
    MaxCalls = 2
    Fds = {1, 2}
    Envs <- SomeEnvs
INVARIANT PatientIsServed
INVARIANT RefsMatch
PROPERTY ClosedIsFreed
PROPERTY CallsEnd
CHECK_DEADLOCK FALSE
