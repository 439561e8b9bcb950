CONSTANTS
    Times = {33, 35}
    Minutes = {0, 5}
    HourTicks = 2
    DayTicks = 48
    Offset = 14
    Ids = {e1, e2}
    MaxDeliveries = 2
    MaxOutages = 1
    MaxAffected = 2
    MaxFaults = 1
    MaxExpiries = 1
SPECIFICATION Spec
SYMMETRY Symmetry
INVARIANTS
    TypeOK
    CountedOnce
    CountedWithoutFault
    HoursAddUp
    AverageWithinRounding
    RowsComplete
CHECK_DEADLOCK FALSE
