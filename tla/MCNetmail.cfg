SPECIFICATION FairSpec
CONSTANTS
    a = a
    b = b
    Scanners = {a, b}
    Letters <- MCLetters
    MaxNumber = 4
    MaxPosted = 2
    MaxFiles = 5
    MaxDepth = 3
    Regimes <- MCRegimes
    KillSent = FALSE
    Features = {}
    Present = {}
    Style = "Flags"
    Offset = 0
    MaxFaults = 1
INVARIANTS NothingLost SubmittedOnce
PROPERTIES EveryMessageSettles
