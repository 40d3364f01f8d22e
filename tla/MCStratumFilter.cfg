SPECIFICATION Spec
CONSTANTS
    Sockets = {s1}
    Names = {n1}
    NoName = NoName
    Nonces = {x1}
    Submissions = {h1, h2, h3}
    TxSets = {t1}
    MaxJob = 2
    Window = 1
INVARIANTS
    FilterPerTemplate
SYMMETRY Symmetry
CHECK_DEADLOCK FALSE
