SPECIFICATION ScheduledSpec
CONSTANTS
    h1 = h1
    PortCount = 1
    Handles = {h1}
    MaxSubmit = 2
    UrbInputs <- UrbsNoMem
    Reports <- ReportsEdges
    MaxReports = 2
    Cells = {1, 2, 3, 4}
    NoMem = TRUE
    UserCancels = TRUE
INVARIANTS
    Ownership
    Accounted
    TriggersChain
PROPERTIES
    ShutdownEnds
