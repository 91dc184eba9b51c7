\* Three moves of the user, such as a login, a logout and a switch of accounts
\* before the logout is over; the calls are those of sync and logout only.
\* The session can hang for good (README, "What the models found").
SPECIFICATION Spec
CONSTANTS
    Caller = {}
    Alike = {}
    Sub = {s1}
    MaxFaults = 1
    MaxMoves = 3
CHECK_DEADLOCK FALSE
INVARIANTS
    NoStrandedWaiter
    NoPhantom
    SyncedIsReal
PROPERTY
    LoopKeepsOn
