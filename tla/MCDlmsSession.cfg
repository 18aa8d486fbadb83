SPECIFICATION FairSpec
CONSTANTS
    r1 = r1
    r2 = r2
    d1 = d1
    Operations = {"registers", "profile", "command"}
    Obis = {r1, r2, d1}
    Registers = {r1, r2}
    Numeric = {r1, r2}
    Items <- Mixed
    Table <- ThreeRows
    Layouts <- ThreeBlocks
    InRange = {1, 3}
    MaxSnrm = 3
    MaxAarq = 3
    MaxSkipped = 3
    MaxCalls = 2
    Modulus = 4
    LastInvoke = 3
INVARIANTS
    FalseOnlyAfterSecondAare
    NumberingInSync
    RowsInOrder
    RefusalOvercome
    CommandTruth
PROPERTIES
    SessionEnds
CHECK_DEADLOCK FALSE
