\* Two commands at once over messages of two days, in chunks of two; states in
\* which a day is excepted have no successors.
CONSTANTS
    Message = {1, 2, 3, 11}
    DayOf <- TwoDays
    Limit = 2
    MaxIndex = 1
    Thread = {t1, t2}
    Amount = 2
    MaxWrites = 2
    None = None
INIT Init
NEXT Next
SYMMETRY Symmetry
CONSTRAINT Calm
INVARIANTS
    StoreKept
    LoadsNewest
    ChunkFits
