SPECIFICATION SightingSpec
CONSTANTS
    Place = {p0, p1}
    First = p0
    LoopsPerSecond = 2
    MaxLoop = 3
    MaxSightings = 2
INVARIANTS NearestRecorded
CHECK_DEADLOCK FALSE
