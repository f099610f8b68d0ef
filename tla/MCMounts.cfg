SPECIFICATION Spec
CONSTANTS
    Names <- MCNames
    MaxDepth = 2
    Bytes = {"0", "x", "{", "}"}
    Volumes = {"main", "side"}
    DefaultRoot = "main"
    Adapters = {"folder"}
    Wrapped <- MCWrapped
    Folder <- MCFolder
    MountCalls <- MCMountCalls
    Mappings <- MCMappings
    Unavailable = {"lost"}
    Inputs <- MCInputs
    AsyncInputs <- MCAsyncInputs
    SyncRenames <- MCSyncRenames
    Renames <- MCRenames
    Data <- MCData
    MaxLen = 2
    MaxNodes = 4
VIEW MCView
INVARIANTS
    MountsTypeOK
PROPERTIES
    ActsInPlace
    ListsWhatIsThere
    ErrorsNamePath
