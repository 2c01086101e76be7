---------------------------- MODULE MCProtocolRF -----------------------------
(* The instances TLC checks: every command for one node.                    *)
EXTENDS ProtocolRF

CONSTANT theNode

MCNodes == {theNode}
MCNodeOf == [c \in Commands |-> theNode]

\* The traffic: two commands, or one and a frame that asks for an acknowledgement.
\* Only the environment's steps, SendMsg and Hear, are bounded by it.
Traffic ==
    hist.acked > 0 \/ pc["listen"] = "ack" => Cardinality(hist.called) <= 1

MCSpec == Init /\ [][Next /\ Traffic']_vars /\ Fairness
=============================================================================
