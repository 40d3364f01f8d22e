SPECIFICATION Spec
CONSTANTS
    Sockets = {s1}
    Names = {n1}
    NoName = NoName
    Nonces = {x1}
    Submissions = {h1}
    TxSets = {t1, t2}
    MaxJob = 2
    Window = 1
INVARIANTS
    BlockOfOneTemplate
SYMMETRY Symmetry
CHECK_DEADLOCK FALSE
