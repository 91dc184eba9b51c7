\* Two contacts asked for one at a time, the contents of one; two batches at
\* once, two versions.
CONSTANTS
    Contact = {x, y}
    Followed = {x}
    Sender = {s1, s2}
    ChunkSize = 1
    MaxVersion = 2
INIT Init
NEXT Next
SYMMETRY Symmetry
CONSTRAINT Bounded
INVARIANTS
    AskedOnce
    PendingIsServed
    NewestKept
