SPECIFICATION Spec

CONSTANTS
    Classes = {"A", "B"}
    Loaders = {"l1"}
    Methods = {m}
    Lines = {n}
    MaxId = 2
    Slots = {0, 1}
    SharedLines = FALSE
    Faults = FALSE
    NoEntry = NoEntry
    NoLoader = NoLoader
    Versions <- AllVersions
    Content <- NoLineInB

CHECK_DEADLOCK FALSE

INVARIANT NoOrphanProbes
