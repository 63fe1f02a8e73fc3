\* Every client of the card, with every failure.
SPECIFICATION FairSpec
CONSTANTS
    Faults = {"card", "usbd", "mkfs"}
    RailBound = 2
INVARIANTS
    RailBalanced
    NotWedged
PROPERTIES
    CardKept
