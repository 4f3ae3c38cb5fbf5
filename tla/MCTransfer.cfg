SPECIFICATION FairSpec
CONSTANTS
    Queue <- MCQueue
    HeldQueue <- MCHeldQueue
    Kind <- MCKind
    Signed <- MCSigned
    Verdict <- MCVerdict
    TrustOnFirstUse = TRUE
    MaxGroup = 2
    MaxConnections = 3
    MaxKeys = 2
    MaxFaults = 1
INVARIANTS ActiveIsHeld
PROPERTIES ImplementsHandover PinAdvances ExchangeEnds
CHECK_DEADLOCK FALSE
