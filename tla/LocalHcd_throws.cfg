SPECIFICATION Spec
CONSTANTS
    h1 = h1
    PortCount = 1
    Handles = {h1}
    MaxSubmit = 1
    UrbInputs <- UrbsNoMem
    Reports <- ReportsEnable
    MaxReports = 1
    Cells = {1, 2, 3, 4, 5}
    NoMem = TRUE
    UserCancels = FALSE
INVARIANTS
    NothingThrown
