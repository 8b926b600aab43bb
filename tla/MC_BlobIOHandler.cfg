CONSTANTS
    PageSize = 2
    MaxBlob = 4
SPECIFICATION Spec
PROPERTY ReceivedBlobDelivered
CHECK_DEADLOCK FALSE
