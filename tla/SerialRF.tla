------------------------------ MODULE SerialRF -------------------------------
(***************************************************************************)
(* The master's end of the serial link, plugins/serial-rf/serial-rf.cpp.   *)
(*                                                                         *)
(* Two threads share its members without a lock: the web server's thread   *)
(* calls SendMsg for a command, and Loop reads the line, acknowledges,     *)
(* notifies, and is the only one to write.  A step below ends where the    *)
(* other thread's writes to shared members can make a difference.          *)
(*                                                                         *)
(* A frame the master builds is a pair <<head, body>>: head stands for the *)
(* addresses and type, body for the data.  The copy of a command is named  *)
(* by the command, an RF ACK by the node frame it is built for; a pair     *)
(* whose halves differ is a mixture of two frames.                         *)
(***************************************************************************)
EXTENDS SerialLine, SequencesExt

CONSTANTS
    Commands,        \* the commands the web server may send
    NodeOf,          \* the node each command is for
    Nodes,           \* node addresses
    RfTypes,         \* types of the frames nodes send, as ManageNewMsg tells them
                     \* apart: "ETAT_ACK", "ACK", and "ETAT" for the others
    MaxUp            \* bound: frames nodes send

ASSUME NodeOfAssumption == NodeOf \in [Commands -> Nodes]
ASSUME RfTypesAssumption == RfTypes \subseteq {"ETAT", "ETAT_ACK", "ACK"}
ASSUME MaxUpAssumption == MaxUp \in Nat

UpFrame == [n : 1..MaxUp, type : RfTypes, node : Nodes]
Half == Commands \cup UpFrame
Unset == <<NoFrame, NoFrame>>      \* a buffer nothing was copied to yet

ASSUME CommandsAssumption == Commands \cap (UpFrame \cup {NoFrame}) = {}

Threads == {"web", "loop"}

VARIABLES
    pc,              \* where each thread is
    sendFrame,       \* mSendFrame
    slot,            \* mHeaderOut (the frame its CRC is of), mDataOut, mSomething2Send
    waitAck,         \* mWaitAck
    listMsg,         \* mListMsg
    cmd,             \* the web thread's argument
    dataIn,          \* the node frame in mDataIn
    nearWrap,        \* mTimeAck is so close below the wrap of the clock that no
                     \* time read later exceeds it by more than mTimeOutAck
    headerSent,      \* the header Send has written when the data is not yet
    hist             \* history, read by properties only:
                     \*   called:  commands SendMsg was called with
                     \*   built:   what mSendFrame was when a CRC was computed
                     \*   last:    the data written to the line last
                     \*   overlap: when it was written, something of an earlier
                     \*            exchange was still on the line
                     \*   read:    node frames read
                     \*   mistaken: since then, the wait was ended by what does not
                     \*            acknowledge a frame

masterVars == <<pc, sendFrame, slot, waitAck, listMsg, cmd, dataIn, nearWrap, headerSent, hist>>

MasterInit ==
    /\ pc = [t \in Threads |-> IF t = "web" THEN "idle" ELSE "read"]
    /\ sendFrame = Unset
    /\ slot = [header |-> Unset, data |-> Unset, full |-> FALSE]
    /\ waitAck = FALSE
    /\ listMsg = <<>>
    /\ cmd = NoFrame /\ dataIn = NoFrame /\ nearWrap = FALSE /\ headerSent = Unset
    /\ hist = [called |-> {}, built |-> {}, last |-> Unset,
               overlap |-> FALSE, read |-> {}, mistaken |-> FALSE]

Goto(t, l) == pc' = [pc EXCEPT ![t] = l]

IsCmd(f) == f[1] \in Commands

-----------------------------------------------------------------------------
(* SendMsg, in the web server's thread.                                    *)

SendMsg(c) ==
    /\ pc["web"] = "idle" /\ c \notin hist.called
    /\ cmd' = c
    /\ sendFrame' = <<c, sendFrame[2]>>
    /\ hist' = [hist EXCEPT !.called = @ \cup {c}]
    /\ Goto("web", "copy")
    /\ UNCHANGED <<slot, waitAck, listMsg, dataIn, nearWrap, headerSent, lineVars>>

\* The second half of the memcpy into mSendFrame.
CopyData ==
    /\ pc["web"] = "copy"
    /\ sendFrame' = <<sendFrame[1], cmd>>
    /\ cmd' = NoFrame
    /\ Goto("web", "write")
    /\ UNCHANGED <<slot, waitAck, listMsg, dataIn, nearWrap, headerSent, hist, lineVars>>

\* The type is read from mSendFrame again, after WriteMsg.
AskType ==
    /\ pc["web"] = "askType"
    /\ Goto("web", IF IsCmd(sendFrame) THEN "addNew" ELSE "idle")
    /\ UNCHANGED <<sendFrame, slot, waitAck, listMsg, cmd, dataIn, nearWrap, headerSent, hist, lineVars>>

\* And the frame is copied from it once more, which may be an RF ACK by then.
AddNew ==
    /\ pc["web"] = "addNew"
    /\ listMsg' = Append(listMsg, [frame |-> sendFrame, sent |-> FALSE, count |-> 0])
    /\ Goto("web", "idle")
    /\ UNCHANGED <<sendFrame, slot, waitAck, cmd, dataIn, nearWrap, headerSent, hist, lineVars>>

-----------------------------------------------------------------------------
(* WriteMsg, in either thread; the callers ignore what it returns.         *)

After(t) == IF t = "web" THEN "askType" ELSE "checkAck"

WriteRefused(t) ==
    /\ pc[t] = "write" /\ slot.full
    /\ Goto(t, After(t))
    /\ UNCHANGED <<sendFrame, slot, waitAck, listMsg, cmd, dataIn, nearWrap, headerSent, hist, lineVars>>

WriteHeader(t) ==
    /\ pc[t] = "write" /\ ~slot.full
    /\ slot' = [slot EXCEPT !.header = sendFrame]
    /\ hist' = [hist EXCEPT !.built = @ \cup {sendFrame}]
    /\ Goto(t, "data")
    /\ UNCHANGED <<sendFrame, waitAck, listMsg, cmd, dataIn, nearWrap, headerSent, lineVars>>

WriteData(t) ==
    /\ pc[t] = "data"
    /\ slot' = [slot EXCEPT !.data = sendFrame]
    /\ Goto(t, "flag")
    /\ UNCHANGED <<sendFrame, waitAck, listMsg, cmd, dataIn, nearWrap, headerSent, hist, lineVars>>

WriteFlag(t) ==
    /\ pc[t] = "flag"
    /\ slot' = [slot EXCEPT !.full = TRUE]
    /\ Goto(t, After(t))
    /\ UNCHANGED <<sendFrame, waitAck, listMsg, cmd, dataIn, nearWrap, headerSent, hist, lineVars>>

-----------------------------------------------------------------------------
(* Loop.                                                                   *)

\* ReadMsg finds no complete valid message.
ReadNothing ==
    /\ pc["loop"] = "read"
    /\ IF toMaster = <<>>
         THEN UNCHANGED toMaster
         ELSE Nothing \in Heard(Head(toMaster)) /\ toMaster' = Tail(toMaster)
    /\ Goto("loop", "something")
    /\ UNCHANGED <<sendFrame, slot, waitAck, listMsg, cmd, dataIn, nearWrap, headerSent, hist,
                   toGateway>>

\* What ReadMsg leaves in mDataIn.
DataRead == IF Head(toMaster).type = "NORMAL" THEN Head(toMaster).data ELSE dataIn

ReadAckOk ==
    /\ pc["loop"] = "read" /\ toMaster # <<>> /\ Ack \in Heard(Head(toMaster))
    /\ toMaster' = Tail(toMaster)
    /\ dataIn' = DataRead
    /\ waitAck' = FALSE
    /\ hist' = [hist EXCEPT !.mistaken = @ \/ (waitAck /\ ~Genuine(Head(toMaster)))]
    /\ Goto("loop", "checkAck")
    /\ UNCHANGED <<sendFrame, slot, listMsg, cmd, nearWrap, headerSent, toGateway>>

ReadAckNok ==
    /\ pc["loop"] = "read" /\ toMaster # <<>> /\ Nok \in Heard(Head(toMaster))
    /\ toMaster' = Tail(toMaster)
    /\ dataIn' = DataRead
    /\ Goto("loop", "sendHeader")
    /\ UNCHANGED <<sendFrame, slot, waitAck, listMsg, cmd, nearWrap, headerSent, hist, toGateway>>

\* The node an entry's frame is for: its receptor.
Receptor(head) == IF head \in Commands THEN NodeOf[head] ELSE head.node

\* CheckErase: the first entry for the node goes, whichever frame it is of.
Erased(list, node) == RemoveFirstMatch(list, LAMBDA m : Receptor(m.frame[1]) = node)

\* Mutants of ManageNewMsg: every frame of a node is taken for its acknowledgement;
\* what is not one is answered by an RF ACK.
ManageNewMsgAny(frame) ==
    /\ listMsg' = IF frame # NoFrame THEN Erased(listMsg, frame.node) ELSE listMsg
    /\ Goto("loop", IF frame.type = "ETAT_ACK" THEN "build" ELSE "checkAck")

ManageNewMsgElse(frame) ==
    /\ listMsg' = IF frame.type = "ACK" THEN Erased(listMsg, frame.node) ELSE listMsg
    /\ Goto("loop", IF frame.type # "ACK" THEN "build" ELSE "checkAck")

\* ManageNewMsg of the frame; an RF ACK is then built for one that asks for it.
ManageNewMsg(frame) ==
    /\ listMsg' = IF frame.type = "ACK" THEN Erased(listMsg, frame.node) ELSE listMsg
    /\ Goto("loop", IF frame.type = "ETAT_ACK" THEN "build" ELSE "checkAck")

\* Mutant of ReadMessage: the message is acknowledged, but not looked at while an
\* acknowledgement is waited for.
ReadMessageDeaf(m) ==
    /\ pc["loop"] = "read" /\ toMaster # <<>> /\ m \in Heard(Head(toMaster))
    /\ m.type = "NORMAL"
    /\ toMaster' = Tail(toMaster)
    /\ toGateway' = Written(toGateway, Acknowledge(m # Empty))
    /\ hist' = [hist EXCEPT !.read = @ \cup IF waitAck THEN {} ELSE {m.data.n}]
    /\ Goto("loop", "checkAck")
    /\ UNCHANGED <<sendFrame, slot, waitAck, listMsg, cmd, dataIn, nearWrap, headerSent>>

\* A message: SendAck at once, then ManageNewMsg of mDataIn, in which one without
\* data leaves the frame read before.
ReadMessage(m) ==
    /\ pc["loop"] = "read" /\ toMaster # <<>> /\ m \in Heard(Head(toMaster))
    /\ m.type = "NORMAL"
    /\ toMaster' = Tail(toMaster)
    /\ toGateway' = Written(toGateway, Acknowledge(m # Empty))
    /\ dataIn' = DataRead
    /\ hist' = [hist EXCEPT !.read = @ \cup IF m = Empty THEN {} ELSE {m.data.n}]
    /\ ManageNewMsg(DataRead)
    /\ UNCHANGED <<sendFrame, slot, waitAck, cmd, nearWrap, headerSent>>

\* DataToFrame fills mSendFrame with the RF ACK: the data, then the addresses.
BuildData ==
    /\ pc["loop"] = "build"
    /\ sendFrame' = <<sendFrame[1], dataIn>>
    /\ Goto("loop", "buildHead")
    /\ UNCHANGED <<slot, waitAck, listMsg, cmd, dataIn, nearWrap, headerSent, hist, lineVars>>

BuildHead ==
    /\ pc["loop"] = "buildHead"
    /\ sendFrame' = <<dataIn, sendFrame[2]>>
    /\ Goto("loop", "write")
    /\ UNCHANGED <<slot, waitAck, listMsg, cmd, dataIn, nearWrap, headerSent, hist, lineVars>>

\* The flag is lowered before the buffers it guards are written out.
TakeSlot ==
    /\ pc["loop"] = "something" /\ slot.full
    /\ slot' = [slot EXCEPT !.full = FALSE]
    /\ Goto("loop", "sendHeader")
    /\ UNCHANGED <<sendFrame, waitAck, listMsg, cmd, dataIn, nearWrap, headerSent, hist, lineVars>>

\* Mutant of Resend: the test of the flag is the wrong way round.
ResendIdle ==
    /\ pc["loop"] = "something" /\ ~slot.full /\ ~waitAck
    /\ Goto("loop", "sendHeader")
    /\ UNCHANGED <<sendFrame, slot, waitAck, listMsg, cmd, dataIn, nearWrap, headerSent, hist, lineVars>>

\* Nothing to send; the time exceeds mTimeAck by more than mTimeOutAck, or not.
\* (After TakeSlot's own Send it does not.)
Resend ==
    /\ pc["loop"] = "something" /\ ~slot.full /\ waitAck /\ ~nearWrap
    /\ Goto("loop", "sendHeader")
    /\ UNCHANGED <<sendFrame, slot, waitAck, listMsg, cmd, dataIn, nearWrap, headerSent, hist, lineVars>>

NothingToSend ==
    /\ pc["loop"] = "something" /\ ~slot.full
    /\ Goto("loop", "checkAck")
    /\ UNCHANGED <<sendFrame, slot, waitAck, listMsg, cmd, dataIn, nearWrap, headerSent, hist, lineVars>>

SendHeader ==
    /\ pc["loop"] = "sendHeader"
    /\ headerSent' = slot.header
    /\ Goto("loop", "sendData")
    /\ UNCHANGED <<sendFrame, slot, waitAck, listMsg, cmd, dataIn, nearWrap, hist, lineVars>>

\* A header that WriteMsg never filled begins no message.
Sent(header, data) ==
    IF header = Unset THEN toGateway ELSE Written(toGateway, Normal(header, data))

\* Mutant of SendData: the CRC is computed here, of what the buffer has become.
SendDataFreshCrc ==
    /\ pc["loop"] = "sendData"
    /\ toGateway' = Sent(slot.data, slot.data)
    /\ waitAck' = TRUE
    /\ nearWrap' \in BOOLEAN
    /\ hist' = [hist EXCEPT !.last = slot.data, !.overlap = InFlight(toGateway, toMaster),
                            !.mistaken = FALSE]
    /\ headerSent' = Unset
    /\ Goto("loop", "checkAck")
    /\ UNCHANGED <<sendFrame, slot, listMsg, cmd, dataIn, toMaster>>

\* The clock GetTimeMs reads is an int of microseconds, that wraps, in milliseconds.
SendData ==
    /\ pc["loop"] = "sendData"
    /\ toGateway' = Sent(headerSent, slot.data)
    /\ waitAck' = TRUE
    /\ nearWrap' \in BOOLEAN
    /\ hist' = [hist EXCEPT !.last = slot.data, !.overlap = InFlight(toGateway, toMaster),
                            !.mistaken = FALSE]
    /\ headerSent' = Unset
    /\ Goto("loop", "checkAck")
    /\ UNCHANGED <<sendFrame, slot, listMsg, cmd, dataIn, toMaster>>

\* Entries that were sent and waited TIMEOUT_ACK for are sent again, or given up
\* after two retries.  WriteMsg refuses all but the first.
CheckACK ==
    /\ pc["loop"] = "checkAck"
    /\ \E late \in SUBSET {k \in DOMAIN listMsg : listMsg[k].sent} :
         LET again == {k \in late : listMsg[k].count < 2}
             kept == SetToSortSeq(DOMAIN listMsg \ (late \ again), <)
             Again(f) == [header |-> f, data |-> f, full |-> TRUE]
         IN /\ listMsg' = IF late = {} THEN listMsg
                  ELSE [j \in DOMAIN kept |->
                          [listMsg[kept[j]] EXCEPT
                             !.count = @ + (IF kept[j] \in again THEN 1 ELSE 0)]]
            /\ slot' = IF again = {} \/ slot.full THEN slot
                       ELSE Again(listMsg[Min(again)].frame)
    /\ Goto("loop", "read")
    /\ UNCHANGED <<sendFrame, waitAck, cmd, dataIn, nearWrap, headerSent, hist, lineVars>>

MasterWeb ==
    \/ \E c \in Commands : SendMsg(c)
    \/ CopyData \/ AskType \/ AddNew

MasterLoop ==
    \/ ReadNothing \/ ReadAckOk \/ ReadAckNok
    \/ toMaster # <<>> /\ \E m \in Heard(Head(toMaster)) : ReadMessage(m)
    \/ BuildData \/ BuildHead
    \/ TakeSlot \/ Resend \/ NothingToSend \/ SendHeader \/ SendData \/ CheckACK

WriteMsg(t) == WriteRefused(t) \/ WriteHeader(t) \/ WriteData(t) \/ WriteFlag(t)

MasterNext == MasterWeb \/ MasterLoop \/ \E t \in Threads : WriteMsg(t)
=============================================================================
