CONSTANTS
    Tokens = {t1}
    Users = {u1, u2}
    NoUser = NoUser
    MaxEvents = 3
    MaxRuns = 2
    MaxFaults = 2
    MaxCrashes = 1
    MaxRest = 1
SPECIFICATION Spec
SYMMETRY Symmetry
INVARIANTS
    TypeOK
    ActiveIsSubscribed
    LastEventWins
CHECK_DEADLOCK FALSE
