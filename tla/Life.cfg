SPECIFICATION FairSpec
CONSTANTS
    Envs <- AllEnvs
    Requests = {"status", "pause", "resume", "shutdown"}
    MaxReq = 3
INVARIANT ExitHeld
PROPERTY HeldIsFinal
INVARIANT FreedOnlyWhenUnused
PROPERTY ShutdownCompletes
CHECK_DEADLOCK FALSE
