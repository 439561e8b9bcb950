CONSTANTS
    Msgs = {m1}
    Replicas = {r1, r2}
    Peers = {mobile}
    Self = noti
    Trusted = {mobile, noti}
    Unparsable = {}
    MaxRetries = 1
    Prefetch = 1
    MaxDrops = 1
    MaxCrashes = 1
    MaxExpiries = 1
SPECIFICATION FairSpec
INVARIANTS
    DeliveriesAttended
PROPERTIES
    ImplementsDelivery
    EventuallySettled
CHECK_DEADLOCK FALSE
