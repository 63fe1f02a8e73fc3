SPECIFICATION Spec
CONSTANTS
    Clients = {phone}
    BleClients = {phone}
    QueueSize = 1
    MaxCalls = 3
    MaxLinks = 3
    Faults = {"overlap"}
INVARIANTS
    AnswerMatches
CHECK_DEADLOCK FALSE
