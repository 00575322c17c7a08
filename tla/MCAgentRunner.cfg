SPECIFICATION FairSpec
CONSTANTS
    MaxSteps = 3
    MaxWall = 2
    MaxTokens = 3
    MaxPatchBytes = 2
    MaxConsecutiveInvalid = 2
    PolicyTimeout = 1
    StepTokens <- MCStepTokens
    DiffSizes <- MCDiffSizes
    ClockBound = 3
INVARIANTS
    TypeOK
    ReportIsHonest
    NoCallTooMany
PROPERTIES
    NothingAfterReason
    RunEnds
