CONSTANTS
    Sends = {s1, s2}
    Pods = {p1, p2}
    Modulus = 2
    Queries = {today}
    Dated = {today}
    MaxRuns = 2
    MaxSeconds = 1
    MaxFaults = 1
    MaxCrashes = 1
    MaxReads = 1
SPECIFICATION Spec
SYMMETRY Symmetry
INVARIANTS
    TypeOK
    NoTransactionLost
    SubmitBudget
    RepeatsOnlyAfterModulus
    DatedCacheFresh
PROPERTIES
    DeliveredStays
CHECK_DEADLOCK FALSE
