SPECIFICATION Services
CONSTANTS
    Calls = {c1, c2}
    maxRetries = 3
    Domains = {d1}
    Targets = {x1, x2}
    Lookups = {l1, l2}
    Unresolved = Unresolved
    Never = Never
    KeptFor = 3
    Patience = 2
    MaxTime = 4
    StartDiff = 16
    MinDiff = 8
    MaxDiff = 40
    Expected = 6
    Period = 3
    Cap = 12
    Requested = {4, 30}
    Powers = {4, 60}
    Intervals = {1, 2}
    Low = 0
    High = 32767
    MaxTx = 40
    Base = 4
    Width = 6
    PastBlocks = 3
    Spacing = 4
    Emergency = 6
    MaxPeriods = 3
    powLimit = 50
    Word = 2048
    Radix = 2
    MaxExponent = 4
    Shift <- Shifts
    Twice <- Doublings
    Gaps <- GapSet
    Reward = 20
    Premine = 7
    Interval = 3
    Shifted <- Halvings
    MAX_MONEY = 127
    MaxBlocks = 195
INVARIANTS
    ServicesTypeOK
    ToldTruth
    OverrideHolds
    HeightAccepted
    BlockReadsBack
    BlockAsNode
    WaitingHelps
    SupplyCapped
PROPERTIES
    CallEnds
    NeverStale
    Settles
CHECK_DEADLOCK FALSE
