SPECIFICATION HSpec
CONSTANTS
    k0 = k0
    k1 = k1
    k2 = k2
    k3 = k3
    k4 = k4
    k5 = k5
    Ids <- MCIds
    Root = k0
    NoEntry = NoEntry
    na = na
    nb = nb
    Names <- MCNames
    NoName = NoName
    Bytes <- MCBytes
    Uids = {0}
    MaxDepth = 1
    MaxNodes = 3
    MaxLen = 1
    Contents <- MCContents
    Modes <- Mode644
    Users <- RootUser
    WriteFlags = {"a", "r", "rs+"}
    WriteToDirs = FALSE
    randomUUID <- FirstUnused
    FirstFd = 100
    MaxFd = 101
    MaxPos = 1
VIEW MCView
SYMMETRY Interchange
INVARIANTS
    HandlesTypeOK
    GraphSound
    SizesExact
PROPERTIES
    NamesSurvive
    SavedWhenClean
