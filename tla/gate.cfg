SPECIFICATION Spec
CONSTANTS
    Store = {"global", "auth"}
    Caller = {k1}
    r1 = r1
    r2 = r2
    r3 = r3
    Request = {r1, r2, r3}
    Cost = 3
    Burst = 1
    TTL = 1
    Stall = 1
    Second = 2
    MaxTime = 4
    Unset = Unset
    Malformed = Malformed
    NaN = NaN
    Environment <- Environments
    Values <- AllValues
    Routes <- AllRoutes
    Origin = {"app", "other"}
    NoOrigin = NoOrigin
    NotLoaded = NotLoaded
    NoBucket = NoBucket
    None = None
INVARIANTS TypeOK NeverOverAdmits RefusalJustified ComeBackLater ThirdStartSucceeds NoCredentialsForAnyone TokensPayForHandlers SeededAccess
SYMMETRY Symmetry
