SPECIFICATION FairClients
CONSTANTS
    Clients = {1, 2}
    Identities = {"tuned"}
    Expected = {"tuned"}
    Configured = 1
    TaskTime = 1
    MaxCalls = 1
    MaxRollouts = 2
    MaxRestarts = 1
PROPERTIES
    CallsEnd
    RequestsAreServed
