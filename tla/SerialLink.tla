----------------------------- MODULE SerialLink ------------------------------
(***************************************************************************)
(* The serial link: the master's SerialRF, the gateway's RS232 and the     *)
(* line between them.                                                      *)
(***************************************************************************)
EXTENDS SerialRF

VARIABLES out, gSomething, gWait, gHist

ForNode(d, node) == IsCmd(d) /\ NodeOf[d[1]] = node

G == INSTANCE SerialGateway

gatewayVars == <<out, gSomething, gWait, gHist>>

vars == <<lineVars, masterVars, gatewayVars>>

Init == LineInit /\ MasterInit /\ G!GatewayInit

Master == MasterNext /\ UNCHANGED gatewayVars
Gateway == G!GatewayNext /\ UNCHANGED masterVars

Next == Master \/ Gateway

Spec == Init /\ [][Next]_vars

-----------------------------------------------------------------------------
(* Properties.                                                             *)

Frames == (Half \cup {NoFrame}) \X (Half \cup {NoFrame})

\* The types.  An entry of the list is of a command, of an RF ACK, or of a mixture of
\* the two, and never of the buffer as it is when nothing was copied to it.
TypeOK ==
    /\ pc["web"] \in {"idle", "copy", "write", "data", "flag", "askType", "addNew"}
    /\ pc["loop"] \in {"read", "build", "buildHead", "write", "data", "flag",
                       "something", "sendHeader", "sendData", "checkAck"}
    /\ sendFrame \in Frames
    /\ slot \in [header : Frames, data : Frames, full : BOOLEAN]
    /\ waitAck \in BOOLEAN /\ nearWrap \in BOOLEAN
    /\ listMsg \in Seq([frame : Half \X Half, sent : BOOLEAN, count : Nat])
    /\ dataIn \in UpFrame \cup {NoFrame}
    /\ Len(toGateway) <= MaxLine /\ Len(toMaster) <= MaxLine
    /\ gWait \in BOOLEAN /\ gSomething \in BOOLEAN
    /\ out \in UpFrame \cup {NoFrame}
    /\ gHist.aired \subseteq Frames

\* The acknowledgement of the serial line names no message, and the CRC does not
\* cover the byte that makes a message one.  It is right all the same when nothing of
\* an earlier exchange was on the line and what ended the wait was written for a
\* frame: once the master stops waiting, the data it wrote last is on the air.
DownDelivered ==
    (~waitAck /\ ~hist.overlap /\ ~hist.mistaken /\ hist.last # Unset)
        => hist.last \in gHist.aired

\* And once the gateway stops waiting, the master has read the frame.
UpDelivered ==
    (~gWait /\ ~gHist.overlap /\ ~gHist.mistaken /\ gHist.last # NoFrame)
        => gHist.last.n \in hist.read

\* No interleaving of the two threads, and no overwriting of the buffers while
\* they are sent, puts on the air what mSendFrame never was.
AiredWasBuilt == gHist.aired \subseteq hist.built

\* A frame of a node takes an entry off the list of pending commands only when a
\* command for that node was put on the air, also when it is managed a second time
\* for a message that has no data.  (CheckACK may take others off, once they were
\* sent again.)
ErasedWasAired ==
    [][\A k \in DOMAIN listMsg :
         pc["loop"] = "read" /\ listMsg[k] \notin Range(listMsg')
             => \E d \in gHist.aired : ForNode(d, Receptor(listMsg[k].frame[1]))]_vars

\* A step that writes a message to a line that is not full.
Writes(line) == Len(line') > Len(line)

\* The next message on the line is an acknowledgement.
AckNext(line) == line # <<>> /\ Head(line).type = "ACK_OK"

\* A step that reads a message as what it is not, as its type byte was altered.
Misread ==
    \/ /\ ReadAckNok \/ (ReadAckOk /\ ~AckNext(toMaster)) \/ ReadMessage(Empty)
       /\ UNCHANGED gatewayVars
    \/ /\ G!LoopAckNok \/ (G!LoopAckOk /\ ~AckNext(toGateway)) \/ G!LoopMessage(Empty)
       /\ UNCHANGED masterVars

\* Every thread goes on; a message that is sent again and again is heard in the
\* end, as is the answer to it; a timeout that the clock can show is seen in the end.
\* The line does not alter types for ever.
Fairness ==
    /\ WF_vars(Master /\ MasterLoop)
    /\ WF_vars(Master /\ (CopyData \/ AskType \/ AddNew \/ WriteMsg("web")))
    /\ WF_vars(Master /\ WriteMsg("loop"))
    /\ WF_vars(Gateway)
    /\ SF_vars(Master /\ ReadAckOk /\ AckNext(toMaster))
    /\ SF_vars(Master /\ toMaster # <<>> /\ ReadMessage(Head(toMaster)) /\ Writes(toGateway))
    /\ SF_vars(Master /\ Resend)
    /\ SF_vars(Master /\ SendData /\ Writes(toGateway))
    /\ SF_vars(Gateway /\ G!LoopAckOk /\ AckNext(toGateway))
    /\ SF_vars(Gateway /\ toGateway # <<>> /\ G!LoopMessage(Head(toGateway)) /\ Writes(toMaster))
    /\ SF_vars(Gateway /\ G!LoopNothing /\ Writes(toMaster))
    /\ <>[][~Misread]_vars

FairSpec == Spec /\ Fairness

\* Neither end waits for ever for the acknowledgement of a message it can send, whose
\* CRC is that of its data, unless the master's timeout cannot elapse.
AckComes ==
    /\ []<>(~waitAck \/ slot.header # slot.data \/ slot.header = Unset \/ nearWrap)
    /\ []<>(~gWait \/ out = NoFrame)

\* The comments over and in CheckACK: a command that is not acknowledged is sent
\* again, and removed after more than two retries.
EntryLeavesList == \A c \in Commands :
    (\E k \in DOMAIN listMsg : listMsg[k].frame[1] = c)
        ~> ~(\E k \in DOMAIN listMsg : listMsg[k].frame[1] = c)
=============================================================================
