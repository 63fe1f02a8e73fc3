SPECIFICATION FairSpec
CONSTANTS
    Peers = {a, b}
    None = None
    Faults = {"smp", "pool"}
INVARIANTS
    SecureLinkKept
    NewOwnerNewPassword
PROPERTIES
    UnsecuredLinkEnds
    AdvertisesAgain
