SPECIFICATION FairSpec
CONSTANTS
    Protocols = {p1, p2}
    Senders = {"n5", "dht", "stranger"}
    Plugin <- MCPlugin
    MaxValues = 2
    Traffic <- MCTraffic
    MaxFrames = 3
    MaxMissed = 1
    Blocks = Blocks
INVARIANTS TypeOK PopNeverEmpty UnknownKeptForEver KnownInOrder
PROPERTIES ImplementsFeed
CHECK_DEADLOCK FALSE
