SPECIFICATION Spec
CONSTANTS
    TaskCount = 2
    GroupSize = 2
    Launches = {first, second}
    Overlapping = FALSE
SYMMETRY Symmetry
INVARIANTS
    TypeOK
    TrainingBatchIsSound
    CompletedRunIsTrue
    DirectoryIsOneRuns
PROPERTY
    KeepsContract
