SPECIFICATION FairSpec
CONSTANTS
    LongTicks = 2
    MaxTicks = 4
    DoubleTicks = 1
    QueueSize = 2
    EdgeBound = 2
INVARIANTS
    ScreenEndsWithPress
PROPERTIES
    StoppingPressDoesNotStart
