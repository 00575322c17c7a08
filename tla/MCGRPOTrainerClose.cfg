SPECIFICATION Spec
CONSTANTS
    Groups = {g1, g2}
    TraceCount = 1
    Epochs = 1
    AccumulationSteps = 2
INVARIANT CompletedRunLearned
