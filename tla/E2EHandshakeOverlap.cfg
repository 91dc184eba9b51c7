\* Two activities of an end overlap, in calls and out of them, stale writes
\* included.  The ends may come to rest.
CONSTANTS
    Party = {a, b}
    Slot = {s1, s2}
    InCalls = TRUE
    MaxKeys = 2
    MaxTime = 3
    None = None
SPECIFICATION Spec
SYMMETRY Symmetry
VIEW AllButUpset
CHECK_DEADLOCK FALSE
INVARIANT
    ConfirmedIsHeld
PROPERTY
    AgreesOnKeys
