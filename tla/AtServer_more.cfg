SPECIFICATION Spec
CONSTANTS
    Clients = {phone, tablet, laptop}
    BleClients = {phone, tablet}
    QueueSize = 1
    MaxCalls = 3
    MaxLinks = 3
    Faults = {"lose"}
INVARIANTS
    TypeOK
CHECK_DEADLOCK FALSE
