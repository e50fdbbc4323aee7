SPECIFICATION HSpec
CONSTANTS
    User = {u1}
    Name = {n1}
    Password = {p1}
    Link = {l1, l2}
    Job = {j1, j2}
    Kinds = {"Register", "Login", "VerifyEmail", "RequestPasswordReset", "ResetPassword", "ChangePassword", "UpdateProfile", "UpdateStatus"}
    Faults = {"write_fails", "ack_lost", "crash"}
    MaxBoots = 2
    None = None
INVARIANTS TypeOK LinkRedeemedOnce RedeemedAsMinted AcknowledgedSuspensionHolds
INVARIANTS RegistryAgreesWithRows EarlierResetLinksDie
PROPERTIES LinksAreSingleUse OnlyLostUpdatesHarm WrittenSuspensionTakesEffect
