SPECIFICATION FairSpec
CONSTANTS
    NFiles = 2
    MaxErrors = 1
    MissingLimit = 2
    BoostFloor <- MCBoostFloor
    Faults = {"card", "stat", "rereadOld", "gap", "empty"}
INVARIANTS
    OneHolder
    OnlyClosedFilesSent
    SyncedDelivered
PROPERTIES
    CompletedMeansDelivered
    TransferAnnounced
