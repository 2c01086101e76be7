---------------------------- MODULE MCSerialLink -----------------------------
(* The instances TLC checks: every command for one node.                    *)
EXTENDS SerialLink

CONSTANTS theNode,
    MaxEvents        \* bound: commands, node frames and misread messages, together

VARIABLE misread     \* messages read as what they are not

MCNodes == {theNode}
MCNodeOf == [c \in Commands |-> theNode]

MCNext ==
    /\ Next
    /\ misread' = misread + IF Misread THEN 1 ELSE 0
    /\ Cardinality(hist'.called) + gHist'.taken + misread' <= MaxEvents

\* For safety: once a frame asks for an RF acknowledgement, there are that frame, one
\* command or one misread message, and one message in flight each way.  The clock does
\* not wrap, which could only keep the master from sending again.
Traffic ==
    /\ gHist.asked =>
        /\ gHist.taken = 1 /\ Cardinality(hist.called) + misread <= 1
        /\ Len(toGateway) <= 1 /\ Len(toMaster) <= 1
    /\ ~nearWrap

MCInit == Init /\ misread = 0

MCSpec == MCInit /\ [][MCNext /\ Traffic']_<<vars, misread>>

FairMCSpec == MCInit /\ [][MCNext]_<<vars, misread>> /\ Fairness
=============================================================================
