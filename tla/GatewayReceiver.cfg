SPECIFICATION FSpec
CONSTANTS
    CountMod = 256
    MaxSize = 30
    Frames <- Large
    Troubled <- None
    SlipGap = 16
    Pause = 4
    MaxFrames = 1
    MaxTrouble = 0
INVARIANTS Delivered
CHECK_DEADLOCK FALSE
