SPECIFICATION Spec
CONSTANTS
    na = na
    nb = nb
    TreePaths <- MCPaths
    Bytes <- MCBytes
    Contents <- MCContents
    MaxLen = 1
    Readables <- MCReadables
    WriteFlags = {"w", "wx"}
    AppendFlags = {"a", "ax"}
    RenameDirs = FALSE
INVARIANTS
    TypeOK
    ListsWhatExists
    RenameMoves
PROPERTIES
    TreeSteps
    FailureIsClean
