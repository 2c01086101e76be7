SPECIFICATION FairMCSpec
CONSTANTS
    Commands = {c1}
    theNode = theNode
    Nodes <- MCNodes
    NodeOf <- MCNodeOf
    RfTypes = {"ETAT", "ACK"}
    MaxUp = 1
    MaxLine = 2
    MaxEvents = 3
PROPERTIES EntryLeavesList
CHECK_DEADLOCK FALSE
