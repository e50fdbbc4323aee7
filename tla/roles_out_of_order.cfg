SPECIFICATION Spec
CONSTANTS
    Role = {r1}
    SuperAdmin = {}
    Slug = {a, b}
    Catalogue = {a, b}
    InitialGrants <- SeedNothing
    Call = {c1, c2}
    Login = {s1}
    Faults = {}
    MaxBoots = 1
    None = None
SYMMETRY Symmetric
INVARIANT OldVersionsRefused
