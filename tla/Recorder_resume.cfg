SPECIFICATION FairSpec
CONSTANTS
    at = at
    button = button
    Main = Main
    Worker = Worker
    NoClient = NoClient
    NoSid = NoSid
    Sids = {s1, s2}
    Clients = {at, button}
    AtServers = {at}
    ClientEvents <- DeviceEvents
    AsyncEvents = {}
    Faults = {}
    QueueSize = 2
PROPERTIES
    ResumeTakesEffect
