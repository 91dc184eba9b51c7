\* Two accounts, two commands, and two updates.
CONSTANTS
    Account = {a1, a2}
    Kind = {"meta", "settings", "index", "chat", "storage"}
    Thread = {t1, t2}
    Limit = 2
    MaxUpdates = 2
    None = None
INIT DataInit
NEXT DataNext
SYMMETRY Symmetry
CONSTRAINT Regular
INVARIANTS
    UpdatesKept
    CopyFits
    ShownIsOpen
