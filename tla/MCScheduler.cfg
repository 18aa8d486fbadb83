SPECIFICATION FairSpec
CONSTANTS
    daily = daily
    second = second
    m1 = m1
    obis1 = obis1
    NoSchedule = NoSchedule
    Meters = {m1}
    Schedules = {daily, second}
    AllActiveMeters = {second}
    SkipIfReadToday = {daily, second}
    SlotsPerDay = 2
    MaxSlot = 2
    MaxExtras = 1
    JobTypesAtStart <- MCJobTypes
    ByHand <- MCByHand
    ObisOf <- MCObisOf
    Fires <- MCFires
    Group <- MCGroup
INVARIANTS
    NoPileUp
    OnceADay
PROPERTIES
    NobodyWithheld
    KnownForGood
    DueIsTriggered
CHECK_DEADLOCK FALSE
