---------------------------- MODULE SerialGateway ----------------------------
(***************************************************************************)
(* The Arduino's end of the serial link: RS232 of                          *)
(* plugins/serial-rf/YdleSerial/serial.cpp and the sketch's loop, which    *)
(* offers a frame the radio received to SendBuf, then calls Manager.  The  *)
(* Arduino has one thread, so each action is one pass of loop.             *)
(***************************************************************************)
EXTENDS SerialLine

CONSTANTS
    Nodes,           \* node addresses
    MaxUp,           \* bound: frames nodes send
    RfTypes,         \* types of a frame nodes send
    ForNode(_, _)    \* whether a frame the master sent is a command for the node

VARIABLES
    out,             \* mHeaderOut and mTabOut
    gSomething,      \* mSomething2Send
    gWait,           \* mWaitAck
    gHist            \* history: taken from the radio, aired, and, as the master's,
                     \* last, overlap and mistaken

GatewayInit ==
    /\ out = NoFrame /\ gSomething = FALSE /\ gWait = FALSE
    /\ gHist = [taken |-> 0, asked |-> FALSE, aired |-> {}, last |-> NoFrame,
                 overlap |-> FALSE, mistaken |-> FALSE]

\* What receive may return, NoFrame for nothing.  SendBuf refuses it while an
\* acknowledgement is pending, and CancelLastReceive puts it back.  A node
\* acknowledges what it was sent.
Received ==
    {NoFrame} \cup
    IF gWait \/ gHist.taken = MaxUp THEN {}
    ELSE {f \in [n : {gHist.taken + 1}, type : RfTypes, node : Nodes] :
            f.type = "ACK" => \E d \in gHist.aired : ForNode(d, f.node)}

\* SendBuf: it does not ask whether the buffer still holds a frame to send.
Buffered(f) == IF f = NoFrame THEN out ELSE f
Pending(f) == gSomething \/ f # NoFrame

\* The history after a pass that took f and called SendBufAgain, or not.
Recorded(f, again) ==
    [gHist EXCEPT
        !.taken = IF f = NoFrame THEN @ ELSE f.n,
        !.asked = @ \/ f.type = "ETAT_ACK",
        !.last = IF again THEN Buffered(f) ELSE @,
        !.overlap = IF again THEN InFlight(toMaster, toGateway') ELSE @,
        !.mistaken = ~again /\ @]

\* SendBufAgain: the header and the buffer, whichever frame they are of; a header
\* that SendBuf never filled begins no message.
WrittenAgain(line, f) ==
    IF Buffered(f) = NoFrame THEN line ELSE Written(line, Normal(Buffered(f), Buffered(f)))

SendBufAgain(f) ==
    /\ toMaster' = WrittenAgain(toMaster, f)
    /\ gWait' = TRUE

\* The rest of Manager, once Read has been looked at: what SendBuf left is sent; or
\* it has waited more than MAX_WAIT_ACK; or there is nothing to do.  mistake: the
\* wait was just ended by what does not acknowledge a frame.
Rest(f, waiting, mistake) ==
    /\ out' = Buffered(f)
    /\ gSomething' = FALSE
    /\ \/ /\ Pending(f) \/ waiting
          /\ SendBufAgain(f)
          /\ gHist' = Recorded(f, TRUE)
       \/ /\ ~Pending(f)
          /\ gWait' = waiting
          /\ gHist' = [Recorded(f, FALSE) EXCEPT !.mistaken = @ \/ mistake]
          /\ UNCHANGED toMaster

-----------------------------------------------------------------------------

\* Read has no complete valid message.
LoopNothing == \E f \in Received :
    /\ IF toGateway = <<>>
         THEN UNCHANGED toGateway
         ELSE Nothing \in Heard(Head(toGateway)) /\ toGateway' = Tail(toGateway)
    /\ Rest(f, gWait, FALSE)

LoopAckOk == \E f \in Received :
    /\ toGateway # <<>> /\ Ack \in Heard(Head(toGateway))
    /\ toGateway' = Tail(toGateway)
    /\ Rest(f, FALSE, gWait /\ ~Genuine(Head(toGateway)))

\* Sent again, once more if SendBuf left something.
LoopAckNok == \E f \in Received :
    /\ toGateway # <<>> /\ Nok \in Heard(Head(toGateway))
    /\ toGateway' = Tail(toGateway)
    /\ out' = Buffered(f)
    /\ gSomething' = FALSE
    /\ LET once == WrittenAgain(toMaster, f)
       IN toMaster' = IF Pending(f) THEN WrittenAgain(once, f) ELSE once
    /\ gWait' = TRUE
    /\ gHist' = [Recorded(f, TRUE) EXCEPT !.overlap = @ \/ Pending(f)]

\* Mutant of LoopMessage: not put on the air when the radio received something.
LoopMessageBusy(m) == \E f \in Received :
    /\ toGateway # <<>> /\ m \in Heard(Head(toGateway)) /\ m.type = "NORMAL"
    /\ toGateway' = Tail(toGateway)
    /\ toMaster' = Written(toMaster, Acknowledge(m # Empty))
    /\ out' = Buffered(f)
    /\ gSomething' = Pending(f)
    /\ gHist' = [Recorded(f, FALSE) EXCEPT
                   !.aired = @ \cup IF m = Empty \/ f # NoFrame THEN {} ELSE {m.data}]
    /\ UNCHANGED gWait

\* A message: acknowledged, put on the air if it has the size of a frame, and Manager
\* is left at once.
LoopMessage(m) == \E f \in Received :
    /\ toGateway # <<>> /\ m \in Heard(Head(toGateway)) /\ m.type = "NORMAL"
    /\ toGateway' = Tail(toGateway)
    /\ toMaster' = Written(toMaster, Acknowledge(m # Empty))
    /\ out' = Buffered(f)
    /\ gSomething' = Pending(f)
    /\ gHist' = [Recorded(f, FALSE) EXCEPT
                   !.aired = @ \cup IF m = Empty THEN {} ELSE {m.data}]
    /\ UNCHANGED gWait

GatewayNext ==
    \/ LoopNothing \/ LoopAckOk \/ LoopAckNok
    \/ toGateway # <<>> /\ \E m \in Heard(Head(toGateway)) : LoopMessage(m)
=============================================================================
