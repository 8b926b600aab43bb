\* Encrypted storage, mount completing inside the call, unmount never
\* failing, secrets DB open possibly failing.
CONSTANTS
    k1 = k1  k2 = k2  r1 = r1  r2 = r2
    NoKey = NoKey
    Keys <- MCKeys
    Requesters <- MCRequesters
    UseEncryption = TRUE
    HasExtensionAuthorizer = FALSE
    MountAsync = FALSE
    UnmountMayFail = FALSE
    SecretsOpenMayFail = TRUE
    MetaOpenMayFail = TRUE
    MaxRequests = 2
    MaxPendingQueries = 1
SPECIFICATION Spec
INVARIANT TypeOK
INVARIANT NoSecretsWithoutAuthorizedKey
INVARIANT AtMostOneReplyPerRequest
PROPERTY EveryRequestAnswered
PROPERTY SecureStorageRefinement
