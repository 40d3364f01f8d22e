SPECIFICATION Spec
CONSTANTS
    Miners = {m1, m2}
    NoMiner = NoMiner
    MaxTemplate = 2
INVARIANTS
    TypeOK
    JobOfOneTemplate
    NoOlderCoinbase
    
SYMMETRY Symmetry
CHECK_DEADLOCK FALSE
