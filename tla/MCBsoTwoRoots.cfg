SPECIFICATION Spec
CONSTANTS
    a = a
    b = b
    Scanners = {a, b}
    Roots <- MCTwoRoots
    Flavours <- MCFlavours
    Mail <- MCMail
    Garbled = {"cut"}
    Regimes <- MCBothRoots
    Tics = {"tic"}
    IncludeHold = FALSE
    HasDomain = TRUE
    Features = {}
    Present = {"zip", "tic", "arc"}
    Style = "Flags"
    Offset = 0
INVARIANTS NothingLost
