SPECIFICATION FairSpec
CONSTANTS
    Paths = {pa, pb, pc}
    Readable = {pa, pb}
INVARIANTS
    OneWriter
    SettledIsPersistent
    GoneStaysGone
PROPERTY
    UpdateEnds
