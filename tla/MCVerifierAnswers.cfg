SPECIFICATION Spec
CONSTANTS
    SuiteNames <- MCSuiteNames
    HiddenTests = TRUE
INVARIANT VerifyAnswers
