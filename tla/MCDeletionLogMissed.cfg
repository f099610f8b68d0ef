SPECIFICATION Spec
CONSTANTS
    Paths = {pa, pb, pc}
    Readable = {pa, pb}
INVARIANT
    PersistedWhenDone
