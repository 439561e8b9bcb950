CONSTANTS
    ocpp = ocpp
    mobile = mobile
    noti = noti
    o1 = o1
    m1 = m1
    n1 = n1
    t1 = t1
    Tokens = {t1}
    Services = {ocpp, mobile, noti}
    Pods = {o1, m1, n1}
    ServiceOf <- PodService
    KeyOf <- ServiceKey
    Deployments <- Environments
    Checks <- Fanout
    Second = 2
    TokenTtl = 2
    BlacklistTtl = 7
    Skew = 1
    Lag = 1
    MaxTime = 7
    MaxDeaths = 1
SPECIFICATION Spec
INVARIANTS
    TypeOK
    AcceptedOnce
    RefusalJustified
CHECK_DEADLOCK FALSE
