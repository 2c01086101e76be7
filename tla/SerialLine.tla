----------------------------- MODULE SerialLine ------------------------------
(***************************************************************************)
(* The serial line between the master (plugins/serial-rf/serial-rf.cpp)    *)
(* and the Arduino gateway (plugins/serial-rf/YdleSerial/serial.cpp).      *)
(*                                                                         *)
(* Both ends speak messages of a four byte header and a Frame_t.  A        *)
(* message is NORMAL, with the CRC its sender computed and the data, or an *)
(* acknowledgement that says nothing about what it acknowledges.  Bytes    *)
(* can be lost or altered.  The CRC covers the data and not the header, so *)
(* that an altered type byte is not noticed as long as it is a type.       *)
(***************************************************************************)
EXTENDS Naturals, Sequences, FiniteSets

CONSTANT MaxLine     \* bound: messages in flight one way

ASSUME MaxLineAssumption == MaxLine \in Nat

VARIABLES
    toGateway,       \* what the master has written and the gateway not read
    toMaster         \* what the gateway has written and the master not read

lineVars == <<toGateway, toMaster>>

NoFrame == [n |-> 0, type |-> "none", node |-> 0]

\* What is written: a frame, or an acknowledgement.  genuine is history: it was
\* written for a frame that was read.
Normal(crc, data) == [type |-> "NORMAL", crc |-> crc, data |-> data]
Acknowledge(genuine) == [type |-> "ACK_OK", genuine |-> genuine]
Genuine(m) == m.type = "ACK_OK" /\ m.genuine

\* What is read: nothing valid, a frame, an acknowledgement, or, of the size and
\* CRC of an acknowledgement, a NORMAL message without data.
Nothing == [type |-> "none"]
Ack == [type |-> "ACK_OK"]
Nok == [type |-> "ACK_NOK"]
Empty == Normal(NoFrame, NoFrame)

\* What a reader can make of the next message on its line: nothing, when a byte was
\* lost or the start byte, the size, the CRC or the data are wrong; what it is; or,
\* its type altered, what has the same header otherwise.
Heard(m) ==
    {Nothing} \cup CASE m.type # "NORMAL" -> {Ack, Nok, Empty}
                     [] m.type = "NORMAL" /\ m.crc = m.data -> {m, Ack, Nok}
                     [] OTHER -> {}

\* Part of an exchange begun at the writer of line out is still on its way: a
\* message of its, or an acknowledgement coming back on line back.
InFlight(out, back) ==
    \/ \E n \in DOMAIN out : out[n].type = "NORMAL"
    \/ \E n \in DOMAIN back : back[n].type # "NORMAL"

\* Line after m is written to it.  A full line loses it: MaxLine bounds what is on
\* its way, and any message can be lost.
Written(line, m) == IF Len(line) < MaxLine THEN Append(line, m) ELSE line

LineInit == toGateway = <<>> /\ toMaster = <<>>
=============================================================================
