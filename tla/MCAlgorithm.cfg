CONSTANTS
    None = None
    Second = 3
    ScoreParts = 100
    MaxRows = 2
    MaxParts = 3
    Inputs <- MCInputs
    RoundedUp <- MCRoundedUp
SPECIFICATION Spec
CHECK_DEADLOCK FALSE
INVARIANTS
    SnapshotIgnoresRowOrder
    OneContributionPerKey
    EffectiveTakesPart
    ScoreIsProbability
    LessProtectionIsNoBetter
    PathsAreTheGraphs
