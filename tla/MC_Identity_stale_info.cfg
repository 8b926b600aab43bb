CONSTANTS
    s1 = s1
    s2 = s2
    Empty = Empty
    Secrets <- MCSecrets
    DbMayFail = TRUE
    EncryptorMayFail = TRUE
    CallsWhileUiPending = TRUE
    MaxCalls = 3
    MaxConfirm = 1
SPECIFICATION Spec
INVARIANT VerifyVerdictMatchesRow
