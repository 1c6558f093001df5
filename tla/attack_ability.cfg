SPECIFICATION Spec
CONSTANTS
    Ground = {g1, g2}
    Air = {a1}
    Support = {s1}
    Starts = 1
    MaxPlaces = 2
    MaxMinutes = 1
    MaxCopies = 1
INVARIANTS ArmyAttacks
