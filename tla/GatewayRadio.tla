---------------------------- MODULE GatewayRadio -----------------------------
(***************************************************************************)
(* The radio of the Arduino gateway (plugins/serial-rf/YdleSerial/         *)
(* ydle.cpp): the timer's interrupt handler, which receives and transmits, *)
(* against the sketch's loop, which takes received frames to the serial    *)
(* line (receive, SendBuf, CancelLastReceive) and commands to the air      *)
(* (Manager, send).  The handler runs between any two steps of loop; loop  *)
(* never runs inside the handler.                                          *)
(*                                                                         *)
(* Received frames are numbered as they are completed.  A slot of the ring *)
(* is named by the number of its frame, and what is copied half before and *)
(* half after the handler replaced it is told by a CRC that does not fit.  *)
(***************************************************************************)
EXTENDS Integers, FiniteSets, Sequences, SequencesExt

CONSTANTS
    Commands,        \* frames the master sends
    Parts,           \* the parts frameToSend is transmitted in
    MaxIn,           \* bound: frames received
    Nothing          \* no command, and what memset leaves in frameToSend

ASSUME PartsAssumption == Parts \in Nat \ {0}
ASSUME MaxInAssumption == MaxIn \in Nat
ASSUME NothingAssumption == Nothing \notin Commands

YDLE_MAX_FRAME == 2

VARIABLES
    ring,            \* g_frameBuffer
    gCptFrameIn,     \* frames put there
    bad,             \* those whose CRC does not fit
    rxActive,        \* rx_active
    rxCut,           \* part of the message was not sampled
    mReadFrame,      \* frames taken from the ring
    pc,              \* where loop is
    seen,            \* what receive found in the slot when it began
    out,             \* RS232's mHeaderOut and mTabOut
    something,       \* mSomething2Send
    waitAck,         \* mWaitAck
    sending,         \* the command send was called with
    frameToSend,     \* frameToSend
    txIndex,         \* tx_index
    transmissionOn,  \* transmission_on
    hist             \* history: taken (frames SendBuf accepted), sent (those written to
                     \* the line), overrun, aired (parts of this transmission), overlap,
                     \* given (commands send was called with)

received == <<ring, gCptFrameIn, bad, rxActive, rxCut>>
serial == <<out, something, waitAck>>
transmitter == <<frameToSend, txIndex, transmissionOn>>
vars == <<received, mReadFrame, pc, seen, serial, sending, transmitter, hist>>

Slots == 0..(YDLE_MAX_FRAME - 1)

Init ==
    /\ ring = [s \in Slots |-> 0] /\ gCptFrameIn = 0 /\ bad = {}
    /\ rxActive = FALSE /\ rxCut = FALSE
    /\ mReadFrame = 0 /\ pc = "receive" /\ seen = 0
    /\ out = [crc |-> 0, data |-> 0] /\ something = FALSE /\ waitAck = FALSE
    /\ sending = Nothing
    /\ frameToSend = [p \in 1..Parts |-> Nothing] /\ txIndex = 1
    /\ transmissionOn = FALSE
    /\ hist = [taken |-> <<>>, sent |-> {}, overrun |-> FALSE, aired |-> <<>>,
               overlap |-> FALSE, given |-> {}]

-----------------------------------------------------------------------------
(* timerInterrupt                                                          *)

\* The frames loop has done with: not the one it is reading.
Reading == pc \in {"crc", "sendBuf", "copy"}
Handled == IF Reading THEN mReadFrame - 1 ELSE mReadFrame

\* pll finds a start byte, or what looks like one.
Start ==
    /\ ~transmissionOn /\ ~rxActive
    /\ rxActive' = TRUE /\ rxCut' = FALSE
    /\ UNCHANGED <<ring, gCptFrameIn, bad, mReadFrame, pc, seen, serial, sending,
                   transmitter, hist>>

\* The length check fails.
Abandon ==
    /\ ~transmissionOn /\ rxActive
    /\ rxActive' = FALSE
    /\ UNCHANGED <<ring, gCptFrameIn, bad, rxCut, mReadFrame, pc, seen, serial, sending,
                   transmitter, hist>>

\* Mutant of Complete: as if there were one slot.
CompleteInOne ==
    /\ ~transmissionOn /\ rxActive /\ gCptFrameIn < MaxIn
    /\ rxActive' = FALSE
    /\ ring' = [ring EXCEPT ![0] = gCptFrameIn + 1]
    /\ gCptFrameIn' = gCptFrameIn + 1
    /\ \E noise \in BOOLEAN :
         bad' = IF rxCut \/ noise THEN bad \cup {gCptFrameIn + 1} ELSE bad
    /\ hist' = [hist EXCEPT !.overrun = @ \/ gCptFrameIn - Handled >= YDLE_MAX_FRAME]
    /\ UNCHANGED <<rxCut, mReadFrame, pc, seen, serial, sending, transmitter>>

\* A message is complete.  Its CRC fits if all of it was sampled, and well.
Complete ==
    /\ ~transmissionOn /\ rxActive /\ gCptFrameIn < MaxIn
    /\ rxActive' = FALSE
    /\ ring' = [ring EXCEPT ![gCptFrameIn % YDLE_MAX_FRAME] = gCptFrameIn + 1]
    /\ gCptFrameIn' = gCptFrameIn + 1
    /\ \E noise \in BOOLEAN :
         bad' = IF rxCut \/ noise THEN bad \cup {gCptFrameIn + 1} ELSE bad
    /\ hist' = [hist EXCEPT !.overrun = @ \/ gCptFrameIn - Handled >= YDLE_MAX_FRAME]
    /\ UNCHANGED <<rxCut, mReadFrame, pc, seen, serial, sending, transmitter>>

Part == IF txIndex \in DOMAIN frameToSend THEN frameToSend[txIndex] ELSE Nothing

\* Mutant of Transmit: it ends one part early.
TransmitShort ==
    /\ transmissionOn
    /\ hist' = [hist EXCEPT !.aired = Append(@, Part)]
    /\ txIndex' = txIndex + 1
    /\ transmissionOn' = (txIndex + 1 < Parts)
    /\ UNCHANGED <<received, mReadFrame, pc, seen, serial, sending, frameToSend>>

\* The next part of frameToSend; nothing is sampled meanwhile.
Transmit ==
    /\ transmissionOn
    /\ hist' = [hist EXCEPT !.aired = Append(@, Part)]
    /\ txIndex' = txIndex + 1
    /\ transmissionOn' = (txIndex + 1 <= Parts)
    /\ UNCHANGED <<received, mReadFrame, pc, seen, serial, sending, frameToSend>>

TimerInterrupt == Start \/ Abandon \/ Complete \/ Transmit

-----------------------------------------------------------------------------
(* loop: receive                                                           *)

Slot == (mReadFrame - 1) % YDLE_MAX_FRAME

ReceiveNone ==
    /\ pc = "receive" /\ mReadFrame >= gCptFrameIn
    /\ pc' = "manager"
    /\ UNCHANGED <<received, mReadFrame, seen, serial, sending, transmitter, hist>>

\* The slot is taken, and its CRC is begun.
Receive ==
    /\ pc = "receive" /\ mReadFrame < gCptFrameIn
    /\ mReadFrame' = mReadFrame + 1
    /\ seen' = ring[mReadFrame % YDLE_MAX_FRAME]
    /\ pc' = "crc"
    /\ UNCHANGED <<received, serial, sending, transmitter, hist>>

\* A frame whose CRC does not fit, or that was replaced meanwhile, is dropped.
CheckCrc ==
    /\ pc = "crc"
    /\ pc' = IF ring[Slot] # seen \/ seen \in bad THEN "manager" ELSE "sendBuf"
    /\ UNCHANGED <<received, mReadFrame, seen, serial, sending, transmitter, hist>>

\* Mutant of Refused: the frame is not put back.
RefusedForGood ==
    /\ pc = "sendBuf" /\ waitAck
    /\ pc' = "manager"
    /\ UNCHANGED <<received, mReadFrame, seen, serial, sending, transmitter, hist>>

\* SendBuf fails, and CancelLastReceive.
Refused ==
    /\ pc = "sendBuf" /\ waitAck
    /\ mReadFrame' = IF mReadFrame > 0 THEN mReadFrame - 1 ELSE mReadFrame
    /\ pc' = "manager"
    /\ UNCHANGED <<received, seen, serial, sending, transmitter, hist>>

\* SendBuf: the CRC of the message first,
SendBufHeader ==
    /\ pc = "sendBuf" /\ ~waitAck
    /\ out' = [out EXCEPT !.crc = ring[Slot]]
    /\ pc' = "copy"
    /\ UNCHANGED <<received, mReadFrame, seen, something, waitAck, sending, transmitter,
                   hist>>

\* then its copy.
SendBufCopy ==
    /\ pc = "copy"
    /\ out' = [out EXCEPT !.data = ring[Slot]]
    /\ something' = TRUE
    /\ hist' = [hist EXCEPT !.taken = Append(@, ring[Slot])]
    /\ pc' = "manager"
    /\ UNCHANGED <<received, mReadFrame, seen, waitAck, sending, transmitter>>

-----------------------------------------------------------------------------
(* loop: Manager and send                                                  *)

\* Mutant of Manager: the acknowledgement does not end the wait.
ManagerHolds ==
    /\ pc = "manager"
    /\ waitAck' = (something \/ waitAck)
    /\ something' = FALSE
    /\ hist' = [hist EXCEPT !.sent = @ \cup IF something THEN {out.data} ELSE {}]
    /\ pc' = "receive"
    /\ UNCHANGED <<received, mReadFrame, seen, out, sending, transmitter>>

\* Mutant of Manager: it is left after any message, not only a command.
ManagerReturns ==
    /\ pc = "manager"
    /\ \E acked \in BOOLEAN :
         /\ acked => waitAck /\ out.crc = out.data
         /\ waitAck' = (waitAck /\ ~acked)
    /\ pc' = "receive"
    /\ UNCHANGED <<received, mReadFrame, seen, out, something, sending, transmitter, hist>>

\* No message from the master, or its acknowledgement, which is of a message it could
\* read.  What SendBuf left is sent.
Manager ==
    /\ pc = "manager"
    /\ \E acked \in BOOLEAN :
         /\ acked => waitAck /\ out.crc = out.data
         /\ waitAck' = (something \/ (waitAck /\ ~acked))
    /\ something' = FALSE
    /\ hist' = [hist EXCEPT !.sent = @ \cup IF something THEN {out.data} ELSE {}]
    /\ pc' = "receive"
    /\ UNCHANGED <<received, mReadFrame, seen, out, sending, transmitter>>

\* A command from the master, acknowledged already; Manager is left at once, with what
\* SendBuf left unsent.
Command(c) ==
    /\ pc = "manager" /\ c \notin hist.given
    /\ sending' = c
    /\ hist' = [hist EXCEPT !.given = @ \cup {c}]
    /\ pc' = "send"
    /\ UNCHANGED <<received, mReadFrame, seen, serial, transmitter>>

\* Mutant of Fill: a command is dropped while the last one is transmitted.
FillUnlessBusy ==
    /\ pc = "send" /\ ~rxActive
    /\ frameToSend' = IF transmissionOn THEN frameToSend ELSE [p \in 1..Parts |-> sending]
    /\ sending' = IF transmissionOn THEN Nothing ELSE sending
    /\ pc' = IF transmissionOn THEN "receive" ELSE "start"
    /\ UNCHANGED <<received, mReadFrame, seen, serial, txIndex, transmissionOn, hist>>

\* Once no message is being received, frameToSend is filled: whether or not the last one
\* is still being transmitted.
Fill ==
    /\ pc = "send" /\ ~rxActive
    /\ frameToSend' = [p \in 1..Parts |-> sending]
    /\ hist' = [hist EXCEPT !.overlap = @ \/ transmissionOn]
    /\ pc' = "start"
    /\ UNCHANGED <<received, mReadFrame, seen, serial, sending, txIndex, transmissionOn>>

\* Mutant of TransmissionOn: tx_index is where the last transmission ended.
TransmissionGoesOn ==
    /\ pc = "start"
    /\ transmissionOn' = TRUE
    /\ rxCut' = (rxCut \/ rxActive)
    /\ hist' = [hist EXCEPT !.aired = <<>>]
    /\ sending' = Nothing
    /\ pc' = "receive"
    /\ UNCHANGED <<ring, gCptFrameIn, bad, rxActive, mReadFrame, seen, serial, frameToSend,
                   txIndex>>

\* tx_index = 0, transmission_on.  A message that has begun since is cut.
TransmissionOn ==
    /\ pc = "start"
    /\ txIndex' = 1 /\ transmissionOn' = TRUE
    /\ rxCut' = (rxCut \/ rxActive)
    /\ hist' = [hist EXCEPT !.aired = <<>>]
    /\ sending' = Nothing
    /\ pc' = "receive"
    /\ UNCHANGED <<ring, gCptFrameIn, bad, rxActive, mReadFrame, seen, serial, frameToSend>>

Loop ==
    \/ ReceiveNone \/ Receive \/ CheckCrc \/ Refused \/ SendBufHeader \/ SendBufCopy
    \/ Manager \/ (\E c \in Commands : Command(c)) \/ Fill \/ TransmissionOn

Next == TimerInterrupt \/ Loop

Spec == Init /\ [][Next]_vars

\* loop goes on; the timer ticks, and every tick of a message is one towards its end
\* (FrameReceiverProofs); send looks at rx_active between two messages at some time; the master
\* acknowledges a message it can read, sent again as it is.
Acknowledged == Manager /\ waitAck /\ ~waitAck'

Fairness ==
    /\ WF_vars(Loop)
    /\ WF_vars(Abandon \/ Complete)
    /\ WF_vars(Transmit)
    /\ SF_vars(Fill)
    /\ SF_vars(Acknowledged)

FairSpec == Spec /\ Fairness

-----------------------------------------------------------------------------
(* Properties.                                                             *)

Numbers == 0..MaxIn

TypeOK ==
    /\ ring \in [Slots -> Numbers] /\ gCptFrameIn \in Numbers
    /\ bad \subseteq Numbers \ {0}
    /\ rxActive \in BOOLEAN /\ rxCut \in BOOLEAN
    /\ mReadFrame \in Numbers /\ seen \in Numbers
    /\ pc \in {"receive", "crc", "sendBuf", "copy", "manager", "send", "start"}
    /\ out \in [crc : Numbers, data : Numbers]
    /\ something \in BOOLEAN /\ waitAck \in BOOLEAN
    /\ sending \in Commands \cup {Nothing}
    /\ frameToSend \in [1..Parts -> Commands \cup {Nothing}]
    /\ txIndex \in 1..(Parts + 1) /\ transmissionOn \in BOOLEAN

\* As long as loop is never more than the ring behind, the frames SendBuf accepts are
\* all those received with a good CRC, once each and in order: whatever is refused and
\* cancelled while more arrive.
TakenInOrder ==
    ~hist.overrun =>
        /\ Range(hist.taken) = (1..Handled) \ bad
        /\ \A i, j \in DOMAIN hist.taken : i < j => hist.taken[i] < hist.taken[j]

\* And the message that waits for an acknowledgement is one the master can read: the
\* handler did not replace its frame between the CRC and the copy.  Otherwise the
\* gateway would send it again for ever and take no more frames.
Readable ==
    (~hist.overrun /\ pc # "copy" /\ (something \/ waitAck)) => out.crc = out.data

\* A transmission that no other send disturbed is the whole of one command, although
\* it is prepared outside of the handler.
WholeOnAir ==
    (~transmissionOn /\ ~hist.overlap /\ hist.aired # <<>>)
        => \E c \in Commands : hist.aired = [p \in 1..Parts |-> c]

\* Every frame received is handled in the end, although it may be refused any number
\* of times.
EveryFrameHandled ==
    \A n \in 1..MaxIn : (gCptFrameIn >= n) ~> (Handled >= n \/ hist.overrun)

\* A command given to send is on the air in the end, unless the next one is prepared
\* over it.
EveryCommandAired ==
    \A c \in Commands : (sending = c) ~> (hist.overlap \/ c \in Range(hist.aired))

\* SendBuf does not look whether the frame before was sent, and Manager leaves it unsent
\* when a command comes: frames are lost that way, but no more than one for each command.
CommandCostsOneFrame ==
    LET kept == hist.sent \cup IF something THEN {out.data} ELSE {}
    IN  Cardinality(Range(hist.taken) \ kept) <= Cardinality(hist.given)
=============================================================================
