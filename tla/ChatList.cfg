\* Three messages in pages of two, one of which may be edited and deleted.
\* The chat may come to rest with everything loaded.
CONSTANTS
    MaxMessages = 3
    Changing = {1}
    MaxEdits = 2
    MaxQueue = 2
    Batch = 2
    None = None
INIT MCInit
NEXT ListNext
CHECK_DEADLOCK FALSE
CONSTRAINT Bounded
INVARIANTS
    ListComplete
    ShownIsCurrent
