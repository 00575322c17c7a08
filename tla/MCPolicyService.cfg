SPECIFICATION Spec
CONSTANTS
    Clients = {c1, c2}
    c1 = c1
    c2 = c2
    Identities = {"base", "tuned"}
    Expected = {"tuned"}
    Configured = 2
    TaskTime = 3
    MaxCalls = 1
    MaxRollouts = 2
    MaxRestarts = 1
SYMMETRY MCSymmetry
INVARIANTS
    TypeOK
    StepsAreFaithful
