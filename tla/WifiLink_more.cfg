SPECIFICATION WifiFairSpec
CONSTANTS
    Stations = {a, b}
    Retries = 1
    QueueSize = 2
    MaxEvents = 2
    WifiFaults = {"netif", "driver", "request", "reject", "mute", "ifdown", "socket"}
INVARIANTS
    WifiTypeOK
    OneServer
    OffIsOff
PROPERTIES
    TimerSparesStation
    UnusedApGoesOff
