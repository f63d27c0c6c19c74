SPECIFICATION Spec

CONSTANTS
    Classes = {"A", "B"}
    Loaders = {"l1", "l2"}
    Methods = {m}
    Lines = {n}
    MaxId = 2
    Slots = {0, 1}
    SharedLines = FALSE
    Faults = TRUE
    NoEntry = NoEntry
    NoLoader = NoLoader
    Versions <- TwoOfB
    Content <- OldAndNew

CHECK_DEADLOCK FALSE

INVARIANT QueueMatchesMaster
INVARIANT DeferredIffUnknown
INVARIANT SlotsMatchMaster
INVARIANT ListsMatchMaster
PROPERTY LivesAsTold
