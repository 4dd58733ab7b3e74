SPECIFICATION Spec
CONSTANTS
    KeyList <- MCKeyList
    Messages <- MCMessages
    MaxRequests = 2
    MaxBits = 32
    Utf8 <- MCUtf8
    Signature <- MCSignature
    Numbers <- MCNumbers
INVARIANTS TypeOK InStep Understood ClosesForCause
CHECK_DEADLOCK FALSE
