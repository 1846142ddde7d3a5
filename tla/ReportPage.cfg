SPECIFICATION Spec
CONSTANTS
    MaxVersion = 2
    MaxRefreshes = 2
    MaxReports = 2
INVARIANTS
    NumbersAreCurrent
    ExamplesAreLater
PROPERTY
    PatientReportsGoForward
