SPECIFICATION FairSpec
CONSTANTS
    s1 = s1
    s2 = s2
    w1 = w1
    j1 = j1
    j2 = j2
    j3 = j3
    NoSerial = NoSerial
    NoConn = NoConn
    MaxConns = 2
    Callers = {w1}
    Serials = {s1}
    Window = 2
    MaxPerSerial = 1
    Jobs = {j1, j2, j3}
    SerialOf <- RelaySerialOf
    KindOf <- RelayKindOf
PROPERTIES
    ThreadsEnd
CHECK_DEADLOCK FALSE
