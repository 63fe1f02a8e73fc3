SPECIFICATION Spec
CONSTANTS
    NFiles = 1
    NFrames = 1
    SeqModulo = 4
    MaxRetries = 1
    FileEndRetries = 2
    Faults = {"ackLoss"}
INVARIANT AckLossRecovered
