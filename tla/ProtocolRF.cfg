SPECIFICATION MCSpec
CONSTANTS
    Commands = {c1, c2}
    theNode = theNode
    Nodes <- MCNodes
    NodeOf <- MCNodeOf
    RfTypes = {"ETAT", "ETAT_ACK", "ACK"}
    MaxUp = 2
    Nobody = Nobody
INVARIANTS TypeOK AirExclusive TrafficBounded
PROPERTIES RetriesEnd SendReturns
CHECK_DEADLOCK FALSE
