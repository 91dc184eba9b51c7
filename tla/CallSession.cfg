\* Two sessions, two operations that overlap, two incoming calls.
CONSTANTS
    Session = {1, 2}
    Flow = {f1, f2}
    Call = {c1, c2}
    Role = {"originator", "joiner"}
    None = None
INIT Init
NEXT Next
SYMMETRY Symmetry
CONSTRAINT JoinsAlone
INVARIANTS
    DestroyedIsOff
    OthersAreOver
    ShownWhileLive
    NoGhostScreen
    EndingEnds
