SPECIFICATION Spec
CONSTANTS
    w1 = w1
    w2 = w2
    Works = {w1, w2}
    Blocks = {1, 2, 3, 4, 5, 6, 7}
    Data = {"a", "b"}
INVARIANTS
    TypeOK
    UndefinedOnlyIfBroken
    ValuesKept
    LeaksOnlyBuffers
SYMMETRY WorkSymmetry
