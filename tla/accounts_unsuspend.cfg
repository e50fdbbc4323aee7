SPECIFICATION Spec
CONSTANTS
    User = {u1}
    Name = {n1}
    Password = {p1}
    Link = {l1}
    Job = {j1, j2}
    Kinds = {"VerifyEmail", "UpdateStatus"}
    Faults = {}
    MaxBoots = 1
    None = None
SYMMETRY Symmetric
INVARIANT SuspensionSticks
