SPECIFICATION Spec
CONSTANTS
    Miners = {m1}
    NoMiner = NoMiner
    MaxTemplate = 2
INVARIANTS
    CheckedAsHashed
SYMMETRY Symmetry
CHECK_DEADLOCK FALSE
