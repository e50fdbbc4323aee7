SPECIFICATION Spec
CONSTANTS
    Role = {r1}
    SuperAdmin = {}
    Slug = {a}
    Catalogue = {a}
    InitialGrants <- SeedEverything
    Call = {c1}
    Login = {}
    Faults = {"crash"}
    MaxBoots = 2
    None = None
SYMMETRY Symmetric
INVARIANT RevocationsSurvive
