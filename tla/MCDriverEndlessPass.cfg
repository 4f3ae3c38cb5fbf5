SPECIFICATION FairSpec
CONSTANTS
    hub = hub
    node = node
    Hops = {hub, node}
    N = 2
    Start <- At0
    Duration <- Brief
    RepeatAfter <- Every2
    Offset <- Utc
    Day = 3
    IdleTick = 3
    ActiveTick = 1
    Copies = {1}
    Collected = {}
    HopOf <- ToHub
    Selected <- FirstSelects
    Polls <- PollHub
    PeerTimes = {}
    MaxGroup = 1
    MaxTime = 5
PROPERTIES
    PassEnds
