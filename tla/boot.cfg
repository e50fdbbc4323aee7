SPECIFICATION Spec
CONSTANTS
    Process = {p1, p2}
    Release <- Releases
    Versions <- AllVersions
    Password = {a, b}
    AdminEnv = {Partial, Invalid, a}
    Request = {r1}
    MaxFaults = 1
    None = None
    Partial = Partial
    Invalid = Invalid
INVARIANTS TypeOK RecordsAreTrue ServesWhatItStarted ChosenPasswordStands PoolOutlivesRequests
PROPERTIES MigrationsInOrder ReachesService
