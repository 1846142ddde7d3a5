SPECIFICATION Spec
CONSTANTS
    Contacts = {phone}
    Phones = {phone}
    MaxRows = 3
    Examples = 2
INVARIANTS
    TypeOK
    EstimatesAddUp
    ScoreInRange
    ExactWithoutMissing
    DatesCountOnce
    ExamplesFitIssues
