SPECIFICATION Spec
CONSTANTS
    h1 = h1
    PortCount = 1
    Handles = {h1}
    MaxSubmit = 1
    UrbInputs <- UrbsOut
    Reports <- ReportsEnable
    MaxReports = 1
    Cells = {1, 2, 3, 4}
    NoMem = TRUE
    UserCancels = FALSE
INVARIANTS
    DataFetched
