SPECIFICATION Spec
CONSTANTS
    Task <- DrainTasks
    DepotTask <- DrainDepots
    Unit = {s1, s2}
    TypeOf <- DrainTypeOf
    StartUnits = {s1, s2}
    UnitType <- MCUnitType
    Addon = {}
    Cost <- MCCost
    Target = {"x"}
    Unfinished = {}
    Observation <- DrainObservation
    UIntMod = 65536
    s1 = s1
    s2 = s2
    s3 = s3
    b1 = b1
    AnyScv = AnyScv
    NoScv = NoScv
    MaxOrders = 1
PROPERTIES KeptUntilAffordable
