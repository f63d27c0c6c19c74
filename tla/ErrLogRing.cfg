SPECIFICATION LogSpec

CONSTANTS
    LogCap = 3
    Msgs = {a, b, c}
    NoMsg = NoMsg

PROPERTY KeepsMostRecent
