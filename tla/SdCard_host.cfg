\* AT+LIST while the host has the card.
SPECIFICATION Spec
CONSTANTS
    Faults = {}
    RailBound = 3
INVARIANT
    HostAlone
