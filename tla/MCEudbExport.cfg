SPECIFICATION Spec
CONSTANTS
    m1 = m1
    m2 = m2
    NoMeter = NoMeter
    Idle = Idle
    Decided = Decided
    Meters = {m1, m2}
    MaxPresses = 1
    MaxDay = 1
    MaxStamp = 1
    MaxFaults = 1
SYMMETRY MeterSymmetry
INVARIANTS
    RepeatsExplained
    BooksAgree
    SuccessCovers
    OneScheduledADay
    DayServed
CHECK_DEADLOCK FALSE
