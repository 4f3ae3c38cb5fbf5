SPECIFICATION Spec
CONSTANTS
    Queue <- KeysQueue
    HeldQueue <- KeysHeldQueue
    Kind <- KeysKind
    Signed <- KeysSigned
    Verdict <- KeysVerdict
    TrustOnFirstUse = TRUE
    MaxGroup = 1
    MaxConnections = 3
    MaxKeys = 3
    MaxFaults = 3
INVARIANTS ActiveIsHeld
PROPERTIES PinAdvances
CHECK_DEADLOCK FALSE
