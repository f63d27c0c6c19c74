SPECIFICATION FairSpec

CONSTANTS
    Classes = {"A", "B"}
    Loaders = {"l1", "l2"}
    Methods = {m}
    Lines = {n}
    MaxId = 2
    Slots = {0, 1}
    SharedLines = FALSE
    Faults = FALSE
    NoEntry = NoEntry
    NoLoader = NoLoader
    Versions <- TwoOfB
    Content <- FullContent

CHECK_DEADLOCK FALSE

INVARIANT NoOrphanProbes
INVARIANT AppliedIsRunning
PROPERTY FailsOnlyWhenEarly
PROPERTY DeferredHandled
