SPECIFICATION MCSpec
CONSTANTS
    Commands = {c1, c2}
    theNode = theNode
    Nodes <- MCNodes
    NodeOf <- MCNodeOf
    RfTypes = {"ETAT", "ETAT_ACK", "ACK"}
    MaxUp = 2
    MaxLine = 2
    MaxEvents = 3
INVARIANTS TypeOK AiredWasBuilt DownDelivered UpDelivered
PROPERTIES ErasedWasAired
CHECK_DEADLOCK FALSE
