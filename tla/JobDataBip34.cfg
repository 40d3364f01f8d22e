SPECIFICATION JobSpec
CONSTANTS
    Low = 32700
    High = 32800
    MaxTx = 40
    Base = 4
    Width = 6
INVARIANTS
    HeightAccepted
CHECK_DEADLOCK FALSE
