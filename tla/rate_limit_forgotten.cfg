SPECIFICATION LimiterSpec
CONSTANTS
    Store = {global}
    Caller = {k1}
    Request = {r1, r2}
    Cost = 2
    Burst = 1
    TTL = 0
    Stall = 0
    Second = 2
    MaxTime = 4
    NoBucket = NoBucket
    None = None
INVARIANT ForgettingIsFree
