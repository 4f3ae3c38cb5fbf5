SPECIFICATION FairSpec
CONSTANTS
    hub = hub
    node = node
    Hops = {hub, node}
    N = 2
    Start <- Staggered
    Duration <- BriefAndLong
    RepeatAfter <- EveryOther
    Offset <- Zone
    Day = 3
    IdleTick = 3
    ActiveTick = 1
    Copies = {1, 2}
    Collected = {2}
    HopOf <- ToBoth
    Selected <- Each
    Polls <- PollHub
    PeerTimes = {6}
    MaxGroup = 1
    MaxTime = 7
INVARIANTS
    KeepsTheBeat
    SlotIsTruthful
    NoOversleep
PROPERTIES
    DueIsActivated
