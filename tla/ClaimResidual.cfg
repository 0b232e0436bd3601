CONSTANTS
    None = None
    Second = 3
    ScoreParts = 100
    MaxRows = 2
    MaxParts = 1
    Inputs <- MCInputs
    RoundedUp <- MCRoundedUp
SPECIFICATION Spec
CHECK_DEADLOCK FALSE
INVARIANTS
    ResidualIsTheCeiling
