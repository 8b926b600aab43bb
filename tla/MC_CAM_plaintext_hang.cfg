CONSTANTS
    k1 = k1  k2 = k2  r1 = r1  r2 = r2
    NoKey = NoKey
    Keys <- MCKeys
    Requesters <- MCRequesters
    UseEncryption = FALSE
    HasExtensionAuthorizer = TRUE
    MountAsync = FALSE
    UnmountMayFail = FALSE
    SecretsOpenMayFail = TRUE
    MetaOpenMayFail = FALSE
    MaxRequests = 2
    MaxPendingQueries = 1
SPECIFICATION Spec
PROPERTY EveryRequestAnswered
