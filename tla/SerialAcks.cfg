SPECIFICATION FairMCSpec
CONSTANTS
    Commands = {c1}
    theNode = theNode
    Nodes <- MCNodes
    NodeOf <- MCNodeOf
    RfTypes = {"ETAT"}
    MaxUp = 1
    MaxLine = 2
    MaxEvents = 3
PROPERTIES AckComes
CHECK_DEADLOCK FALSE
