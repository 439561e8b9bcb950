CONSTANTS
    j1 = j1
    j2 = j2
    j3 = j3
    j4 = j4
    k1 = k1
    t1 = t1
    Jobs = {j1, j2, j3, j4}
    Consumed = {j1}
    Keys = {k1}
    NoKey = NoKey
    KeyOf <- EventKey
    SkipDedup = {j3}
    SkipRate = {j2, j3, j4}
    Tokens = {t1}
    Given <- EventGiven
    MaxRuns = 2
    MaxFaults = 1
    MaxExpiries = 1
    MaxReceipts = 1
SPECIFICATION Spec
INVARIANTS
    TypeOK
    MarkedWasDelivered
    PushBudget
PROPERTIES
    DeliveredNotOverwritten
CHECK_DEADLOCK FALSE
