\* A call that locks a free path is never resumed: everybody may be stuck.
CHECK_DEADLOCK FALSE
SPECIFICATION FairSpec
CONSTANTS
    Calls = {c1, c2, c3, t1}
    Triers = {t1}
    Paths = {x1, x2}
    Free = Free
PROPERTY
    NoStarvation
