SPECIFICATION FairSpec
CONSTANTS
    at = at
    button = button
    Main = Main
    Worker = Worker
    NoClient = NoClient
    NoSid = NoSid
    Sids = {s1}
    Clients = {at}
    AtServers = {at}
    ClientEvents <- AtEvents
    AsyncEvents = {"STOP"}
    Faults = {"card", "mic", "write", "dmic", "resume", "slowStop", "wifi", "pmic", "reboot"}
    QueueSize = 1
INVARIANTS
    ResourcesBalanced
PROPERTIES
    SyncPostsAnswered
    StopReturns
