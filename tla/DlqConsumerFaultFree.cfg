CONSTANTS
    Msgs = {m1, m2, m3}
    Replicas = {r1, r2}
    Peers = {mobile, stranger}
    Self = noti
    Trusted = {mobile, noti}
    Unparsable = {m3}
    MaxRetries = 2
    Prefetch = 1
    MaxDrops = 0
    MaxCrashes = 0
    MaxExpiries = 1
SPECIFICATION Spec
SYMMETRY ReplicaSymmetry
INVARIANTS
    TypeOK
    OnePlaceWithoutFault
    FullRetryBudget
CHECK_DEADLOCK FALSE
