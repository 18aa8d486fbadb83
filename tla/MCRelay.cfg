SPECIFICATION BatchSpec
CONSTANTS
    a1 = a1
    a2 = a2
    a3 = a3
    b1 = b1
    b2 = b2
    b3 = b3
    r1 = r1
    m1 = m1
    m2 = m2
    m3 = m3
    q1 = q1
    q2 = q2
    k1 = k1
    w1 = w1
    w2 = w2
    h1 = h1
    c1 = c1
    c2 = c2
    NoRun = NoRun
    NoVerdict = NoVerdict
    Expirer = Expirer
    NoRequest = NoRequest
    NoChore = NoChore
    NoJob = NoJob
    Runs = {}
    StaleAfter = 300
    MaxReadings = 1
    Jobs = {a1, r1}
    Meters = {m1}
    CallHome = {m1}
    Unregistered = {}
    Workers = {}
    Handlers = {h1}
    Calls = {c1}
    Requests = {q1}
    ClaimMax = 2
    MaxFaults = 0
    TypeOf <- RelayTypeOf
    RunOf <- RelayRunOf
    MeterOf <- RelayMeterOf
    RequestOf <- RelayRequestOf
    KeyOf <- RelayKeyOf
INVARIANTS
    DoneWasObeyed
PROPERTIES
    ObeysInOrder
CHECK_DEADLOCK FALSE
