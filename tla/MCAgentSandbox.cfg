SPECIFICATION FairSpec
CONSTANTS
    Second = 2
    DefaultLimit = 2
    SuiteLimit = 1
    Budgets = {0, 3}
    UploadBound = 1
    StreamBound = 4
    Files = {"kept", "new", "ignored"}
    Base = {"kept"}
    Ignored = {"ignored"}
    NotUtf8 = {"kept"}
    OutputLimit = 1
    PatchLimits = {1, 2}
INVARIANTS
    TypeOK
    OverrunIsBounded
    ExportIsClean
PROPERTIES
    PatchReportIsTrue
    CallsReturn
