SPECIFICATION Spec
CONSTANTS
    Requests = {r1, r2}
    IPs = {i1, i2}
    Addrs = {a1, a2}
    TTL = 3650
    Reward = 1
    Funds = 2
    MaxHits = 5
    MaxDay = 1
INVARIANTS
    OneClaimPerPeriod
SYMMETRY Symmetry
CHECK_DEADLOCK FALSE
