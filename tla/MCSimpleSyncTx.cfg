CONSTANTS
    Keys = {k1, k2, k3}
    Vals = {v1, v2}
    Absent = Absent
    Unstashed = Unstashed
SPECIFICATION Spec
INVARIANTS TypeOK StashExact
PROPERTY AtomicSpec
