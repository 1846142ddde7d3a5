SPECIFICATION Spec
CONSTANTS
    Ids = {1, 2, 3}
    Names = {ann, bob}
    Emails <- MCEmails
    lower <- MClower
    Phones = {p, q}
    IPs = {i1, i2, i3}
    None = None
    exactPairsCacheSize = 3
    MaxPairs = 3
    DefaultPairs = 2
    ipGroupsCacheSize = 2
    MaxGroups = 3
    DefaultGroups = 1
    UserLimit = 3
    NotYet = NotYet
    MaxContacts = 6
    MaxSeen = 8
    MaxWrites = 1
SYMMETRY Symmetry
INVARIANTS
    TypeOK
    PairsFindClusters
    PairsAreReal
    AnswersAgree
    PairsCountDuplicates
    TwoCutsAreOne
CHECK_DEADLOCK FALSE
