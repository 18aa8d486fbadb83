SPECIFICATION Spec
CONSTANTS
    s1 = s1
    s2 = s2
    w1 = w1
    j1 = j1
    j2 = j2
    j3 = j3
    NoSerial = NoSerial
    NoConn = NoConn
    MaxConns = 3
    Callers = {w1}
    Serials = {s1, s2}
    Window = 2
    MaxPerSerial = 1
    Jobs = {j1}
    SerialOf <- ReadingSerialOf
    KindOf <- ReadingKindOf
INVARIANTS
    SoleUser
    WithinLimits
    NoneForgotten
PROPERTIES
    LeaseSpec
CHECK_DEADLOCK FALSE
