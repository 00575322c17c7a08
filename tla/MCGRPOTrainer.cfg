SPECIFICATION Spec
CONSTANTS
    Groups = {g1, g2, g3}
    TraceCount = 2
    Epochs = 2
    AccumulationSteps = 2
SYMMETRY Symmetry
INVARIANTS
    TypeOK
    LearningIsSound
    CompletedRunIsComplete
    UpdatesAreTold
