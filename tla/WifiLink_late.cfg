SPECIFICATION WifiFairSpec
CONSTANTS
    Stations = {a, b}
    Retries = 1
    QueueSize = 2
    MaxEvents = 2
    WifiFaults = {"mute", "late"}
INVARIANTS
    OffIsOff
