SPECIFICATION Spec
CONSTANTS
    Threads = {t1, t2}
    MaxId = 2
    LineIds = {2}
    MaxSlots = 1
    MaxDepth = 2
    MaxCalls = 2
    MaxTick = 3
    Ring = 2
    Quiet = TRUE
    NoSnapshot = NoSnapshot
SYMMETRY Symmetric
INVARIANT TimeIsIncluded
INVARIANT SnapshotsAreCumulative
INVARIANT HistoryHasNoGaps
INVARIANT DepthIsReentry
INVARIANT CountsOwnCalls
CHECK_DEADLOCK FALSE
