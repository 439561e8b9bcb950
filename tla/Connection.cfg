CONSTANTS
    Calls = {k1, k2}
    Queues = {ocpp, noti}
    Plain = {ocpp}
    MaxLinks = 4
    MaxLosses = 1
    MaxRefusals = 1
SPECIFICATION FairSpec
INVARIANTS
    TypeOK
    NeverStuck
    OneLink
    StaysDown
PROPERTIES
    EventuallyServing
CHECK_DEADLOCK FALSE
