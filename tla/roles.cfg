SPECIFICATION HSpec
CONSTANTS
    Role = {r1}
    SuperAdmin = {}
    Slug = {a, b, x}
    Catalogue = {a, b}
    InitialGrants <- SeedOne
    Call = {c1, c2}
    Login = {s1}
    Faults = {"write_fails", "ack_lost", "crash"}
    MaxBoots = 2
    None = None
INVARIANTS TypeOK VersionsDistinct ReplacementStands RegistryFollowsTable AnsweredChangeGoverns AcceptedTokensAreCurrent
PROPERTIES StaleStaysStale CommittedChangeTakesEffect
