SPECIFICATION FairSpec
CONSTANTS
    Checks = {c1, c2}
    MaxVersion = 2
    MaxTroubles = 2
PROPERTIES
    TotalsGoForward
    BadgeRecovers
