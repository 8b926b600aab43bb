CONSTANTS
    MaxRequests = 3
    LateUiAnswers = TRUE
SPECIFICATION Spec
INVARIANT ResultFromOwnRequest
CHECK_DEADLOCK FALSE
