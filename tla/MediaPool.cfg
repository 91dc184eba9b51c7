\* Two addresses, one of a safe avatar, two canvases, two loadings.
CONSTANTS
    Key = {k1, k2}
    Avatar = {k1}
    Canvas = {c1, c2}
    Entry = {e1, e2}
    Source = {s1, s2}
    None = None
INIT Init
NEXT Next
SYMMETRY Symmetry
INVARIANTS
    HeldIsPooled
    NoStrayPlayer
    ShowsOwn
    VisiblePlays
