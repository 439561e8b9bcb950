CONSTANTS
    far = far
    near = near
    Reminders = {far, near}
    Others = {push}
    NotifyAt <- Due
    MaxRetries = 1
    RetryDelay <- Delays
    Prefetch = 2
    TokenTtl = 3
    MaxSleep = 3
    Threshold = 1
    Slack = 1
    MaxTime = 6
    MaxFaults = 2
    MaxConns = 1
SPECIFICATION Spec
INVARIANTS
    TypeOK
    SentOnceWhenDue
    NothingLost
    OnTime
CHECK_DEADLOCK FALSE
