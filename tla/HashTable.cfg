SPECIFICATION Spec
CONSTANTS
    Keys = {"a", "b", "c", "d"}
    Vals = {1, 2}
    None = None
    Hash <- Clustered
    Cap = 4
    Num = 7
    Den = 8
    MaxCap = 8
INVARIANT TableIsSound
PROPERTY IsDictionary
