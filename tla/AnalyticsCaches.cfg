SPECIFICATION FairSpec
CONSTANTS
    MaxOpen = 2
    Clients = {r1}
    MaxVersion = 1
    MaxOutages = 1
INVARIANTS
    NoLeak
    NoGridlock
PROPERTY
    EveryRequestEnds
