CONSTANTS
    Msgs = {m1}
    Replicas = {r1}
    Peers = {mobile}
    Self = noti
    Trusted = {mobile}
    Unparsable = {}
    MaxRetries = 3
    Prefetch = 10
    MaxDrops = 0
    MaxCrashes = 0
    MaxExpiries = 0
SPECIFICATION Spec
INVARIANTS
    FullRetryBudget
CHECK_DEADLOCK FALSE
