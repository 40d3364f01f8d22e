SPECIFICATION Spec
CONSTANTS
    a1 = a1
    a2 = a2
    Runs = {r1, r2}
    NoRun = NoRun
    Miners = {a1, a2}
    Domain = Domain
    FeeWallet = FeeWallet
    Windows <- MCWindows
    Income = 50
    MaxBlocks = 3
    MinBalance = 49
    Reserve = 1
    TxFee = 1
    FeePercent = 10
    MinPayout = 5
INVARIANTS
    TypeOK
    
    RecordNamesTx
    Affordable
    OwnRecord
SYMMETRY Symmetry
CHECK_DEADLOCK FALSE
