SPECIFICATION MCSpec
CONSTANTS
    Packets <- MCPackets
    Commands <- MCCommands
    MaxFrames = 3
    MaxCommands = 1
    Garbage = {0, 255}
INVARIANTS
    TypeOK
    Delivered
PROPERTIES
    EveryFrameNotified
CHECK_DEADLOCK FALSE
