SPECIFICATION Spec
CONSTANTS
    Urbs <- UrbsControl
    MaxCommands = 8
INVARIANTS
    TypeOK
    AddressAgreed
    RefusedOnlyIfHasty
PROPERTIES
    PortAnswered
    UrbAnswered
