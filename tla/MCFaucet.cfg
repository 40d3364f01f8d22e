SPECIFICATION FairSpec
CONSTANTS
    Requests = {r1, r2}
    IPs = {i1, i2}
    Addrs = {a1, a2}
    TTL = 1
    Reward = 1
    Funds = 2
    MaxHits = 1
    MaxDay = 3
INVARIANTS
    TypeOK
    PaidIsRecorded
    NoRepeatClaim

    
CHECK_DEADLOCK FALSE
