SPECIFICATION FairSpec
CONSTANTS
    a = a
    b = b
    Scanners = {a, b}
    Roots <- MCRoots
    Flavours <- MCFlavours
    Mail <- MCMail
    Garbled = {"cut"}
    Regimes <- MCOneFault
    Tics = {"tic"}
    IncludeHold = FALSE
    HasDomain = TRUE
    Features = {}
    Present = {"zip", "tic", "arc"}
    Style = "Flags"
    Offset = 0
PROPERTIES PacketRetires
