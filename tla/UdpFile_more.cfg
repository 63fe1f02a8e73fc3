SPECIFICATION FairSpec
CONSTANTS
    NFiles = 2
    NFrames = 3
    SeqModulo = 2
    MaxRetries = 1
    FileEndRetries = 2
    Faults <- FaultNames
INVARIANTS
    TypeOK
