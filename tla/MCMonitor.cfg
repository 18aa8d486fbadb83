SPECIFICATION FairMonitorSpec
CONSTANTS
    g1 = g1  g2 = g2  s1 = s1  s2 = s2  p1 = p1  p2 = p2  p3 = p3  c1 = c1  c2 = c2  r1 = r1
    Gateways = {g1, g2}
    Serials = {s1, s2}
    Ports = {p1, p2, p3}
    Schedules = {c1, c2, r1}
    Boot <- MCBoot
    Dials <- MCDials
    TypeOf <- MCTypeOf
    AllActive = {c2}
    Origins <- MCOrigins
    MaxId = 6
    OfflineTimeout = 2
    SlotsPerDay = 4
    MaxNotices = 4
    NoGateway = NoGateway
    NoSchedule = NoSchedule
    NoPorts = NoPorts
    NoMeter = NoMeter
INVARIANTS
    NobodyOverlooked
    OneNoticePerOutage
PROPERTIES
    OnlyPeopleTakeOut
    Registered
    PortsCatchUp
    OutageTold
    Delivered
CHECK_DEADLOCK FALSE
