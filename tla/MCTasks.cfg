SPECIFICATION TasksSpec
CONSTANTS
    PatchPaths <- MCPatchPaths
    Unsafe <- MCUnsafe
    AllowedPaths <- MCAllowedPaths
    Forbidden <- MCForbidden
    Bodies <- MCBodies
    TaskCount = 2
    Paths <- MCPaths
    Base <- MCBase
    Ignored <- MCIgnored
    Hidden <- MCHidden
    Allowed <- MCAllowed
    Mutants <- MCMutants
    t1 = t1
    t2 = t2
    Tests = {t1, t2}
    Repetitions = 3
    Behaviours <- MCBehaviours
    ProblemChoices <- MCProblems
    Tasks = {1, 2, 3}
    Splits = {"train", "test"}
    Histories <- MCHistories
    Contents = {"sound", "better", "bad"}
    SoundContents = {"sound", "better"}
    Writers = {w1, w2}
    Nobody = Nobody
    N = 4
SYMMETRY Alike
INVARIANTS
    TypesOK
    PatchesAreJudgedRightly
    PreparationIsSound
    AdmissionIsSound
    DatasetIsTrusted
    PublicationIsWhole
PROPERTY
    KeepsContract
CHECK_DEADLOCK FALSE
