SPECIFICATION Spec
CONSTANTS
    a = a
    b = b
    Scanners = {a, b}
    Letters <- MCLetters
    MaxNumber = 4
    MaxPosted = 1
    MaxFiles = 5
    MaxDepth = 3
    Regimes <- MCStolen
    KillSent = FALSE
    Features = {}
    Present = {}
    Style = "Flags"
    Offset = 0
    MaxFaults = 0
INVARIANTS NothingLost
