SPECIFICATION ScheduledSpec
CONSTANTS
    h1 = h1
    h2 = h2
    PortCount = 1
    Handles = {h1, h2}
    MaxSubmit = 1
    UrbInputs <- UrbsAll
    Reports <- ReportsEnable
    MaxReports = 1
    Cells = {1, 2, 3, 4, 5, 6, 7}
    NoMem = FALSE
    UserCancels = FALSE
INVARIANTS
    Ownership
    NoLeak
    GivebackOnce
    Accounted
    InProgressOutstanding
    DataFetched
PROPERTIES
    ImplementsLifecycle
    CancelReachesUser
    UrbCompletes
