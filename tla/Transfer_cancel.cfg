SPECIFICATION FairSpec
CONSTANTS
    NFiles = 2
    MaxErrors = 1
    MissingLimit = 3
    BoostFloor <- MCBoostFloor
    Faults = {}
PROPERTIES
    CancelEnds
