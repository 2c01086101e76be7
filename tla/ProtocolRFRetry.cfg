SPECIFICATION Spec
CONSTANTS
    Commands = {c1, c2}
    theNode = theNode
    Nodes <- MCNodes
    NodeOf <- MCNodeOf
    RfTypes = {"ETAT"}
    MaxUp = 0
    Nobody = Nobody
INVARIANT ThreeTimesAtMost
CHECK_DEADLOCK FALSE
