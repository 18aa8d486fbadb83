SPECIFICATION Spec
CONSTANTS
    j1 = j1
    j2 = j2
    j3 = j3
    r1 = r1
    m1 = m1
    m2 = m2
    w1 = w1
    w2 = w2
    h1 = h1
    c1 = c1
    c2 = c2
    NoRun = NoRun
    NoVerdict = NoVerdict
    Expirer = Expirer
    Jobs = {j1, j2}
    Runs = {r1}
    Meters = {m1, m2}
    CallHome = {m1}
    Workers = {w1, w2}
    Handlers = {h1}
    Calls = {c1}
    ClaimMax = 1
    StaleAfter = 300
    MaxFaults = 0
    MaxReadings = 2
    TypeOf <- MCTypeOf
    RunOf <- MCRunOf
    MeterOf <- MCMeterOf
SYMMETRY WorkerSymmetry
INVARIANTS
    WorkerExclusion
    NoLostFinalisation
    VerdictBacked
    DoubleReadingOnlyAfterRequeue
CHECK_DEADLOCK FALSE
