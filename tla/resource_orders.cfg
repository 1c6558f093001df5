SPECIFICATION MCSpec
CONSTANTS
    Task <- BothTasks
    DepotTask <- DrainDepots
    Unit = {s1, s2, s3, b1}
    TypeOf <- RoutingTypeOf
    StartUnits = {s1}
    UnitType <- OrderedType
    Addon = {"BARRACKS"}
    Cost <- MCCost
    Target = {}
    Unfinished = {}
    Observation <- BothObservations
    UIntMod = 65536
    s1 = s1
    s2 = s2
    s3 = s3
    b1 = b1
    AnyScv = AnyScv
    NoScv = NoScv
    MaxOrders = 2
INVARIANTS NoOrphan OneOwner
PROPERTIES KeepsBook StaleEntries StepEnds DepotServed
