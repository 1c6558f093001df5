SPECIFICATION Spec
CONSTANTS
    Task <- RoutingTasks
    DepotTask = {}
    Unit = {s1, s2, s3, b1}
    TypeOf <- RoutingTypeOf
    StartUnits = {s1}
    UnitType <- RoutingUnitType
    Addon = {"BARRACKS"}
    Cost <- MCCost
    Target = {}
    Unfinished = {}
    Observation <- RoutingObservation
    UIntMod = 65536
    s1 = s1
    s2 = s2
    s3 = s3
    b1 = b1
    AnyScv = AnyScv
    NoScv = NoScv
    MaxOrders = 2
SYMMETRY RoutingSymmetry
INVARIANTS EntriesInProduction
