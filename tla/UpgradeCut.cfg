SPECIFICATION Spec
CONSTANTS
    MaxGen = 2
    Link = {1, 2}
INVARIANTS
    UpgradeCutsNothing
CHECK_DEADLOCK FALSE
