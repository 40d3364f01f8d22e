SPECIFICATION Spec
CONSTANTS
    w1 = w1
    w2 = w2
    Runs = {r1, r2}
    Wallets = {w1, w2, w3}
    NoWallet = NoWallet
    Payouts <- MCPayouts
    SoloReward = 2
    Threshold = 2
    Cap = 2
    MaxSolo = 1
    InitialFaucet = 3
INVARIANTS
    TypeOK
    MarkedIsSent
    Eligible
    
    BonusesLimited
SYMMETRY Symmetry
CHECK_DEADLOCK FALSE
