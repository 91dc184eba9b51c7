\* Two files and two threads that save each of them twice, with failing writes,
\* cleared files and restarts; without symmetry, for the liveness property.
SPECIFICATION FairSpec
CONSTANTS
    Path = {p1, p2}
    Caller = {c1, c2}
    MaxSaves = 2
    IOFaults = TRUE
INVARIANTS
    OneFlushTask
    NoStrandedSave
    ReaderSeesNewest
    QuietMeansDurable
PROPERTIES
    ImplementsWriteBehind
    EverySaveSettles
