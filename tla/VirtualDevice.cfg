SPECIFICATION Spec
CONSTANTS
    Urbs <- UrbsControl
    MaxCommands = 4
    MaxOthers = 1
    OtherRequests <- Others
INVARIANTS
    TypeOK
    AddressAgreed
    RefusedOnlyIfHasty
PROPERTIES
    PortAnswered
    UrbAnswered
