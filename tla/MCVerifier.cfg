SPECIFICATION Spec
CONSTANTS
    SuiteNames <- MCSuiteNames
    HiddenTests = TRUE
INVARIANTS
    TypeOK
    SuitesAreApart
    AnswerIsTrue
PROPERTY
    KeepsContract
