SPECIFICATION FSpec
CONSTANTS
    CountMod = 65536
    MaxSize = 31
    Frames <- Some
    Troubled <- Acks
    SlipGap = 16
    Pause = 4
    MaxFrames = 2
    MaxTrouble = 1
INVARIANTS Bounded MessageEnds Delivered
CHECK_DEADLOCK FALSE
