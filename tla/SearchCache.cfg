SPECIFICATION FairSpec
CONSTANTS
    Workers = {w1, w2}
    Pieces <- MCPieces
    ParsedID <- MCParsedID
    NoID = "none"
    Requests <- SomeRequests
    TTL = 1
    StmtTimeout = 1
    MaxTime = 3
    Nothing = Nothing
INVARIANTS
    TypeOK
    OwnAnswer
    BoundedStaleness
PROPERTIES
    OnlyOwnFailure
    KeepsPromise
    EveryRequestAnswered
