SPECIFICATION Spec
CONSTANTS
    IntLimit = 16
    MaxLimit = 2
    DefaultUsers = 2
    DefaultSearch = 1
    Ids = {1, 2, 3}
    MaxRank = 2
    MaxWrites = 2
    OrderIds = {1, 2}
    TransactionIds = {1, 2}
    ActivityIds = {1, 2}
    MaxAmount = 2
    MaxTime = 2
INVARIANTS
    WalkServesAll
    NewUsersHideNobody
    TotalFitsPage
    ListingHasAllRows
    WindowsAreLegal
    ProfilesAddUp
    LookupsAgree
CHECK_DEADLOCK FALSE
