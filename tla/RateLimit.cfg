CONSTANTS
    soc_80 = soc_80
    promo = promo
    Requests = {1, 2, 3, 4}
    Types = {soc_80, promo}
    Global = global
    TypeOf <- MCTypeOf
    Max <- MCMax
    Window <- MCWindow
    Lag = 1
    MaxTime = 5
SPECIFICATION LimiterSpec
INVARIANTS
    LimiterTypeOK
    WindowBound
    RefusalJustified
CHECK_DEADLOCK FALSE
