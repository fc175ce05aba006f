SPECIFICATION Spec
CONSTANTS
    MaxPackets = 2
    MaxLength = 1
    Values <- AllValues
INVARIANTS
    TypeOK
    IsoAnswer
    FailureKept
    IsoOnly
    ReadsBack
