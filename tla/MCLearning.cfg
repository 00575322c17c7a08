SPECIFICATION LearningSpec
CONSTANTS
    Scale = 2
    GroupSize = 2
    CostFractions <- MCCostFractions
    ConfigChoices <- MCConfigChoices
    MaxBytes = 32
    Overhead = 1
    IssueFloor = 8
    MessageFloor = 4
    MaxSteps = 4
    SystemSize = 14
    ParserErrorSize = 2
    IssueSizes = {4, 30}
    ReplySizes = {1, 12}
    ObservationSizes = {1, 6, 40}
    MaxLength = 60
    Rollouts = {r1, r2, r3}
    Kinds <- MCKinds
    Versions = {1}
    SameStem = TRUE
    MaxPreparations = 2
    MaxLaunches = 2
    Tasks = {1, 2, 3}
    Lineages = {"a", "b"}
    LineageOf <- MCLineageOf
    Methods = {"base", "rl", "sft"}
    Baseline = "base"
    Candidate = "rl"
    RecordFiles <- MCRecordFiles
    Resamples = 3
    Alpha = 25
    RatioScale = 12
    Writers = {w1, w2}
    Payloads = {p1, p2}
    Ids = {i1}
    Nothing = Nothing
    Partial = Partial
SYMMETRY Alike
INVARIANTS
    TypesOK
    ScoresAreRight
    ConversationIsKept
    TrainingRecordsAreTrue
    ReportsAgree
PROPERTY
    KeepsContract
CHECK_DEADLOCK FALSE
