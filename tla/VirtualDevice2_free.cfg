SPECIFICATION Spec
CONSTANTS
    Urbs <- UrbsData
    MaxCommands = 3
INVARIANTS
    BuffersLive
