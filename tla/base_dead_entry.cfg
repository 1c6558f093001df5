SPECIFICATION Spec
CONSTANTS
    Center = {c1, c2, c3}
    NoUnit = NoUnit
    Second = 0
    Third = 1
    MaxRequests = 1
    MaxScvs = 1
    MaxDrift = 1
SYMMETRY CenterSymmetry
INVARIANTS DeadForgotten
