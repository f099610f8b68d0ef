SPECIFICATION Spec
CONSTANTS
    k0 = k0
    k1 = k1
    k2 = k2
    k3 = k3
    k4 = k4
    k5 = k5
    k6 = k6
    k7 = k7
    Ids <- MCIds
    Root = k0
    NoEntry = NoEntry
    nd = nd
    ne = ne
    nf = nf
    Names <- MCNames
    FileNames <- MCFileNames
    NoName = NoName
    Bytes = {0}
    Uids = {0}
    UsedPaths <- MCPaths
    MaxNodes = 3
    MaxLen = 1
    MaxQueue = 2
    CacheSize = 2
    WriteFlags = {"a", "w"}
    Modes <- Mode644
    Users <- RootUser
    randomUUID <- FirstUnused
VIEW MCView
INVARIANTS
    AsyncTypeOK
    GraphSound
    CacheCoherent
PROPERTIES
    CloseStores
    TreeSteps
