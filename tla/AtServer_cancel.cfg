SPECIFICATION Spec
CONSTANTS
    Clients = {phone}
    BleClients = {phone}
    QueueSize = 1
    MaxCalls = 3
    MaxLinks = 3
    Faults = {"cancel"}
INVARIANTS
    AnswerMatches
CHECK_DEADLOCK FALSE
