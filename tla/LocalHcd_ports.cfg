SPECIFICATION Spec
CONSTANTS
    h1 = h1
    h2 = h2
    PortCount = 2
    Handles = {h1, h2}
    MaxSubmit = 1
    UrbInputs <- UrbsAddress
    Reports <- ReportsPorts
    MaxReports = 2
    Cells = {1, 2, 3, 4, 5, 6, 7, 8}
    NoMem = FALSE
    UserCancels = FALSE
INVARIANTS
    TypeOK
    TriggersChain
    RoutedInOrder
SYMMETRY HandleSymmetry
