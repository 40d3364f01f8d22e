SPECIFICATION Spec
CONSTANTS
    Sockets = {s1, s2}
    Names = {n1, n2}
    NoName = NoName
    Nonces = {x1}
    Submissions = {h1, h2}
    TxSets = {t1}
    MaxJob = 2
    Window = 1
INVARIANTS
    TypeOK
    
    PPLNSWindow
    BlocksAreReal
    
SYMMETRY Symmetry
CHECK_DEADLOCK FALSE
