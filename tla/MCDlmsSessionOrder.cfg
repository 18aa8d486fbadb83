SPECIFICATION Spec
CONSTANTS
    r1 = r1
    r2 = r2
    d1 = d1
    Operations = {"registers"}
    Obis = {r1, r2}
    Registers = {r1, r2}
    Numeric = {r1, r2}
    Items <- TwoRegisters
    Table <- ThreeRows
    Layouts <- ThreeBlocks
    InRange = {}
    MaxSnrm = 1
    MaxAarq = 3
    MaxSkipped = 20
    MaxCalls = 1
    Modulus = 8
    LastInvoke = 14
INVARIANTS
    OwnNumbers
CHECK_DEADLOCK FALSE
