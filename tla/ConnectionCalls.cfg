\* One caller, two faults and one move of the user, under fairness.
\* The session can hang for good (README, "What the models found").
SPECIFICATION FairSpec
CONSTANTS
    Caller = {c1}
    Alike = {}
    Sub = {s1}
    MaxFaults = 2
    MaxMoves = 1
CHECK_DEADLOCK FALSE
INVARIANT
    RetryBudget
PROPERTIES
    CallsReturn
    LoopConnects
