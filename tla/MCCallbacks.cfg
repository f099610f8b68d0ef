SPECIFICATION FairSpec
CONSTANTS
    Calls = {c1, c2}
    FirstFd = 100
    MaxFiles = 2
    MaxVer = 2
    MaxSize = 1
    MaxSyncs = 2
INVARIANTS
    CallbacksTypeOK
    FilesReachable
    WritesKept
PROPERTY
    CallsAnswered
