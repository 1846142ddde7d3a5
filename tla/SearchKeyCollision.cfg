SPECIFICATION Spec
CONSTANTS
    Workers = {w1, w2}
    Pieces <- MCPieces
    ParsedID <- MCParsedID
    NoID = "none"
    Requests <- BarRequests
    TTL = 2
    StmtTimeout = 1
    MaxTime = 4
    Nothing = Nothing
INVARIANT
    OwnAnswer
