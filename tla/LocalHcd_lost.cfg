SPECIFICATION Spec
CONSTANTS
    h1 = h1
    PortCount = 1
    Handles = {h1}
    MaxSubmit = 1
    UrbInputs <- UrbsLost
    Reports <- ReportsEnable
    MaxReports = 1
    Cells = {1, 2, 3, 4}
    NoMem = FALSE
    UserCancels = FALSE
INVARIANTS
    NothingLeaks
