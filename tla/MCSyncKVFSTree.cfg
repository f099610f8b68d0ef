SPECIFICATION Spec
CONSTANTS
    k0 = k0
    k1 = k1
    k2 = k2
    k3 = k3
    k4 = k4
    k5 = k5
    k6 = k6
    k7 = k7
    k8 = k8
    k9 = k9
    Ids <- MCIds
    Root = k0
    NoEntry = NoEntry
    Names = {na, nb}
    NoName = NoName
    Bytes <- MCBytes
    Uids = {0, 1}
    MaxDepth = 2
    MaxNodes = 3
    MaxLen = 1
    Contents <- OneByte
    Modes <- TwoModes
    Users <- TwoUsers
    WriteFlags = {"a", "w"}
    WriteToDirs = FALSE
    randomUUID <- FirstUnused
SYMMETRY Interchange
PROPERTIES
    FailureIsClean
    TreeSpec
