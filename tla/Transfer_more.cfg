SPECIFICATION Spec
CONSTANTS
    NFiles = 3
    MaxErrors = 1
    MissingLimit = 3
    BoostFloor <- MCBoostFloor
    Faults = {"card", "rereadOld", "gap", "empty"}
INVARIANTS
    TypeOK
    BoostGivenBack
    DoneOnce
    OneHolder
    OnlyClosedFilesSent
    SyncedDelivered
PROPERTIES
    CompletedMeansDelivered
