CONSTANTS
    k1 = k1  k2 = k2  r1 = r1  r2 = r2
    NoKey = NoKey
    Keys <- MCKeys
    Requesters <- MCRequesters
    UseEncryption = TRUE
    HasExtensionAuthorizer = FALSE
    MountAsync = FALSE
    UnmountMayFail = FALSE
    SecretsOpenMayFail = FALSE
    MetaOpenMayFail = FALSE
    MaxRequests = 2
    MaxPendingQueries = 1
SPECIFICATION Spec
INVARIANT NoNullDereference
