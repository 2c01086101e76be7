------------------------- MODULE MCIhmCommunication --------------------------
(* The instance TLC checks: one protocol that is subscribed late, a node of *)
(* each kind and three frames.                                              *)
EXTENDS IhmCommunication

MCPlugin == [s \in Senders |-> CASE s = "n5" -> "Node0_5"
                                 [] s = "dht" -> "NodeDhtXX"
                                 [] OTHER -> "none"]

\* A frame of every kind: no value, one, two, a value of an unknown type, the
\* fixed structure of the dht node, and a node the configuration does not name.
From(s, n, ok) == [sender |-> s, values |-> n, decodable |-> ok]
MCTraffic == {From("n5", 0, TRUE), From("n5", 1, TRUE), From("n5", 2, TRUE),
              From("n5", 2, FALSE), From("dht", 2, TRUE), From("stranger", 1, TRUE)}
=============================================================================
