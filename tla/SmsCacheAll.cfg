CONSTANTS
    Sends = {s1, s2}
    Pods = {p1}
    Modulus = 5
    Queries = {today, all}
    Dated = {today}
    MaxRuns = 1
    MaxSeconds = 0
    MaxFaults = 0
    MaxCrashes = 0
    MaxReads = 3
SPECIFICATION Spec
INVARIANTS
    CacheFresh
CHECK_DEADLOCK FALSE
