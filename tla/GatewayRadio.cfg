SPECIFICATION FairSpec
CONSTANTS
    Commands = {c1, c2}
    Nothing = Nothing
    Parts = 2
    MaxIn = 3
INVARIANTS TypeOK TakenInOrder Readable WholeOnAir CommandCostsOneFrame
PROPERTIES EveryFrameHandled EveryCommandAired
CHECK_DEADLOCK FALSE
