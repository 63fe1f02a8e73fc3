SPECIFICATION FairSpec
CONSTANTS
    at = at
    button = button
    Main = Main
    Worker = Worker
    NoClient = NoClient
    NoSid = NoSid
    Sids = {s1, s2}
    Clients = {at, button}
    AtServers = {at}
    ClientEvents <- DeviceEvents
    AsyncEvents = {"START", "STOP", "MARK", "STATUS_SHOW"}
    Faults = {"card", "create", "close", "usb"}
    QueueSize = 2
INVARIANTS
    WaiterHasItem
    StateAgreesWithAudio
    NoStaleSignal
    SessionsClosed
PROPERTIES
    ImplementsService
    StartTakesEffect
