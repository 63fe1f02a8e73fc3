SPECIFICATION WifiFairSpec
CONSTANTS
    Stations = {a}
    Retries = 1
    QueueSize = 2
    MaxEvents = 2
    WifiFaults = {"netif", "driver", "request", "reject", "mute", "ifdown", "socket"}
INVARIANTS
    OneServer
    OffIsOff
PROPERTIES
    TimerSparesStation
    UnusedApGoesOff
