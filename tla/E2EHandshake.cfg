\* Three key pairs, one activity of an end at a time, no calls; states after a
\* stale write have no successors.  The ends may come to rest.
CONSTANTS
    Party = {a, b}
    Slot = {s1}
    InCalls = FALSE
    MaxKeys = 3
    MaxTime = 4
    None = None
INIT Init
NEXT Next
SYMMETRY Symmetry
CONSTRAINT NotStale
CHECK_DEADLOCK FALSE
INVARIANTS
    Agreement
    KeysKept
