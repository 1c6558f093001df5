SPECIFICATION MCSpec
CONSTANTS
    Scv = {s1, s2, s3}
    Start = {e1, e2}
    MaxScouts = 3
    QueueLow = 2
    OrderAfter = 1
    MaxBorn = 2
    Place = {p0, p1}
    First = p0
    LoopsPerSecond = 2
    MaxLoop = 5
    MaxSightings = 2
    Bay = {bay1, bay2}
    Armory = {a1, a2}
    Base = {b1, b2}
    FirstBase = b1
    FirstCap <- MCCaps
    IntMax = 4
    MaxStructures = 2
    MaxRefund = 4
INVARIANTS
    ScoutTypeOK ScoutsReplaced FirstFindsTask
    SightingTypeOK SightingsInTime
    UpgradeTypeOK ArmoryStillAsked
    DefenceTypeOK IndexInMemory CountsWithinCaps TwoTurrets
PROPERTIES
    StaleByLossOnly ProductionEnds TurretsComing
CHECK_DEADLOCK FALSE
