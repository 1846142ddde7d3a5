SPECIFICATION Spec
CONSTANTS
    Queries = {q1, id1}
    IDQueries = {id1}
    UserIDs = {u1}
    Blank = Blank
    PageSize = 2
    MaxTotal = 3
    MaxCalls = 2
INVARIANTS
    TypeOK
    LoadingEnds
    PagerFitsOffset
    PatientUserSeesPage
    PatientUserSeesOneAnswer
