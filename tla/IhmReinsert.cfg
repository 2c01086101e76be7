SPECIFICATION Spec
CONSTANTS
    Protocols = {p1, p2}
    Senders = {"n5", "dht", "stranger"}
    Plugin <- MCPlugin
    MaxValues = 2
    Traffic <- MCTraffic
    MaxFrames = 3
    MaxMissed = 1
    Blocks = Blocks
INVARIANT RefusedIsReinserted
CHECK_DEADLOCK FALSE
