SPECIFICATION UpgradeSpec
CONSTANTS
    Bay = {bay}
    Armory = {armory}
INVARIANTS BayStillAsked
