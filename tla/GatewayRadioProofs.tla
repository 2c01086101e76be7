-------------------------- MODULE GatewayRadioProofs --------------------------
(***************************************************************************)
(* Proofs about GatewayRadio, for any commands, any number of parts and    *)
(* any number of frames received.  The invariant has four parts: the       *)
(* types, how far loop is behind the ring and what it reads there, what is *)
(* on the air, and what commands cost.                                     *)
(***************************************************************************)
EXTENDS GatewayRadio, FiniteSetTheorems, SequenceTheorems, TLAPS

-----------------------------------------------------------------------------
(* The inductive invariant *)

Frames == Commands \cup {Nothing}

HistType ==
    [taken : Seq(Numbers), sent : SUBSET Numbers, overrun : BOOLEAN,
     aired : Seq(Frames), overlap : BOOLEAN, given : SUBSET Commands]

OutType == [crc : Numbers, data : Numbers]
RingType == [Slots -> Numbers]
FrameType == [1..Parts -> Frames]

TypeInv ==
    /\ ring \in RingType /\ gCptFrameIn \in Numbers
    /\ bad \subseteq Numbers \ {0}
    /\ rxActive \in BOOLEAN /\ rxCut \in BOOLEAN
    /\ mReadFrame \in Numbers /\ seen \in Numbers
    /\ pc \in {"receive", "crc", "sendBuf", "copy", "manager", "send", "start"}
    /\ out \in OutType
    /\ something \in BOOLEAN /\ waitAck \in BOOLEAN
    /\ sending \in Frames
    /\ frameToSend \in FrameType
    /\ txIndex \in 1..(Parts + 1) /\ transmissionOn \in BOOLEAN
    /\ hist \in HistType
    /\ transmissionOn => txIndex <= Parts
    /\ mReadFrame <= gCptFrameIn
    /\ Reading => mReadFrame >= 1
    /\ pc \in {"send", "start"} => sending \in Commands

\* The ring holds the last two frames, each in the slot of its number.
RingInv ==
    /\ gCptFrameIn >= 1 => ring[(gCptFrameIn - 1) % 2] = gCptFrameIn
    /\ gCptFrameIn >= 2 => ring[(gCptFrameIn - 2) % 2] = gCptFrameIn - 1
    /\ \A n \in bad : n <= gCptFrameIn

\* Where loop is with the frame it reads, when it is not more than the ring behind.
LoopInv ==
    /\ gCptFrameIn <= Handled + 2
    /\ Reading => seen = mReadFrame
    /\ pc \in {"sendBuf", "copy"} => mReadFrame \notin bad
    /\ pc = "copy" => out.crc = mReadFrame
    /\ pc # "copy" /\ (something \/ waitAck) => out.crc = out.data

ReadInv == RingInv /\ (~hist.overrun => LoopInv) /\ TakenInOrder

\* The first n parts of command c.
AiredOf(c, n) == [p \in 1..n |-> c]

AirInv ==
    /\ pc = "start" => frameToSend = AiredOf(sending, Parts)
    /\ ~hist.overlap =>
         /\ pc = "start" => ~transmissionOn
         /\ transmissionOn => \E c \in Commands :
              frameToSend = AiredOf(c, Parts) /\ hist.aired = AiredOf(c, txIndex - 1)
    /\ WholeOnAir

\* The frames SendBuf accepted that are neither on the line nor waiting for it.
Lost == Range(hist.taken) \ (hist.sent \cup IF something THEN {out.data} ELSE {})

\* A frame that waits while loop is elsewhere than in Manager has its command too.
Exposed == IF something /\ pc # "manager" THEN 1 ELSE 0

CostInv ==
    /\ IsFiniteSet(hist.given)
    /\ Cardinality(Lost) + Exposed <= Cardinality(hist.given)

IInv == TypeInv /\ ReadInv /\ AirInv /\ CostInv

-----------------------------------------------------------------------------
(* The types *)

LEMMA TypeFollows == TypeInv => TypeOK
  BY DEF TypeInv, TypeOK, OutType, RingType, FrameType, Frames

\* What each step makes of the records, field by field.
LEMMA HistFields ==
    ASSUME hist \in HistType
    PROVE  /\ hist.taken \in Seq(Numbers) /\ hist.sent \in SUBSET Numbers
           /\ hist.overrun \in BOOLEAN /\ hist.aired \in Seq(Frames)
           /\ hist.overlap \in BOOLEAN /\ hist.given \in SUBSET Commands
           /\ \A x \in BOOLEAN : [hist EXCEPT !.overrun = x] \in HistType
           /\ \A x \in Seq(Numbers) : [hist EXCEPT !.taken = x] \in HistType
           /\ \A x \in SUBSET Numbers : [hist EXCEPT !.sent = x] \in HistType
           /\ \A x \in Seq(Frames) : [hist EXCEPT !.aired = x] \in HistType
           /\ \A x \in BOOLEAN : [hist EXCEPT !.overlap = x] \in HistType
           /\ \A x \in SUBSET Commands : [hist EXCEPT !.given = x] \in HistType
  BY DEF HistType

LEMMA OutFields ==
    ASSUME out \in OutType
    PROVE  /\ out.crc \in Numbers /\ out.data \in Numbers
           /\ \A x \in Numbers : [out EXCEPT !.crc = x] \in OutType
           /\ \A x \in Numbers : [out EXCEPT !.data = x] \in OutType
  BY DEF OutType

LEMMA InitType == Init => TypeInv
<1> SUFFICES ASSUME Init PROVE TypeInv
  OBVIOUS
<1>1. hist \in HistType
  <2>1. <<>> \in Seq(Numbers) /\ <<>> \in Seq(Frames)
    OBVIOUS
  <2> QED BY <2>1 DEF Init, HistType
<1>2. 0 \in Numbers /\ 1 \in 1..(Parts + 1) /\ Nothing \in Frames
  BY PartsAssumption, MaxInAssumption DEF Numbers, Frames
<1>3. ring \in RingType /\ frameToSend \in FrameType /\ out \in OutType
  BY <1>2 DEF Init, RingType, FrameType, OutType
<1>4. mReadFrame <= gCptFrameIn /\ ~Reading /\ pc \notin {"send", "start"}
  BY DEF Init, Reading
<1> QED BY <1>1, <1>2, <1>3, <1>4 DEF Init, TypeInv

LEMMA PartType == ASSUME TypeInv PROVE Part \in Frames
  BY DEF TypeInv, FrameType, Part, Frames

LEMMA SlotType == ASSUME TypeInv PROVE ring[Slot] \in Numbers /\ Slot \in Slots
<1>1. mReadFrame - 1 \in Int
  BY MaxInAssumption DEF TypeInv, Numbers
<1>2. Slot \in Slots
  BY <1>1 DEF Slot, Slots, YDLE_MAX_FRAME
<1> QED BY <1>2 DEF TypeInv, RingType

\* The interrupt handler keeps the types.
LEMMA InterruptType == TypeInv /\ TimerInterrupt => TypeInv'
<1> SUFFICES ASSUME TypeInv, TimerInterrupt PROVE TypeInv'
  OBVIOUS
<1> USE DEF TypeInv, received, serial, transmitter
<1>1. CASE Start
  BY <1>1 DEF Start, Reading
<1>4. CASE Abandon
  BY <1>4 DEF Abandon, Reading
<1>2. CASE Complete
  <2>1. gCptFrameIn + 1 \in Numbers \ {0}
    BY <1>2, MaxInAssumption DEF Complete, Numbers
  <2>2. ring' \in RingType
    BY <1>2, <2>1 DEF Complete, RingType
  <2>3. hist' \in HistType
    <3>1. (hist.overrun \/ gCptFrameIn - Handled >= YDLE_MAX_FRAME) \in BOOLEAN
      OBVIOUS
    <3> QED BY <1>2, <3>1, HistFields DEF Complete
  <2>4. bad' \subseteq Numbers \ {0}
    BY <1>2, <2>1 DEF Complete
  <2>5. mReadFrame' <= gCptFrameIn'
    BY <1>2, MaxInAssumption DEF Complete, Numbers
  <2> QED BY <1>2, <2>1, <2>2, <2>3, <2>4, <2>5 DEF Complete, Reading
<1>3. CASE Transmit
  <2>1. hist' \in HistType
    <3>1. Append(hist.aired, Part) \in Seq(Frames)
      BY PartType, HistFields, AppendProperties
    <3> QED BY <1>3, <3>1, HistFields DEF Transmit
  <2>2. /\ txIndex' \in 1..(Parts + 1) /\ transmissionOn' \in BOOLEAN
        /\ transmissionOn' => txIndex' <= Parts
    <3>1. transmissionOn' = (txIndex + 1 <= Parts) /\ txIndex' = txIndex + 1
      BY <1>3 DEF Transmit
    <3>2. txIndex \in 1..Parts
      BY <1>3, PartsAssumption DEF Transmit
    <3>3. transmissionOn' \in BOOLEAN
      <4> HIDE DEF TypeInv
      <4> QED BY <3>1, <3>2, PartsAssumption
    <3>4. transmissionOn' => txIndex + 1 <= Parts
      BY <3>1, Zenon
    <3>5. txIndex + 1 \in 1..(Parts + 1)
      BY <3>2, PartsAssumption
    <3> QED BY <3>1, <3>3, <3>4, <3>5
  <2> QED BY <1>3, <2>1, <2>2 DEF Transmit, Reading
<1> QED BY <1>1, <1>2, <1>3, <1>4 DEF TimerInterrupt

\* loop keeps the types.
LEMMA LoopType == TypeInv /\ Loop => TypeInv'
<1> SUFFICES ASSUME TypeInv, Loop PROVE TypeInv'
  OBVIOUS
<1>0. ring[Slot] \in Numbers
  BY SlotType
<1> USE DEF TypeInv, Reading, received, serial, transmitter
<1>1. CASE ReceiveNone
  BY <1>1 DEF ReceiveNone
<1>2. CASE CheckCrc
  BY <1>2 DEF CheckCrc
<1>3. CASE Refused
  <2>1. mReadFrame' \in Numbers /\ mReadFrame' <= gCptFrameIn'
    BY <1>3, MaxInAssumption DEF Refused, Numbers
  <2> QED BY <1>3, <2>1 DEF Refused
<1>4. CASE Receive
  <2>1. mReadFrame % YDLE_MAX_FRAME \in Slots
    BY MaxInAssumption DEF Slots, YDLE_MAX_FRAME, Numbers
  <2>2. seen' \in Numbers
    BY <1>4, <2>1 DEF Receive, RingType
  <2>3. mReadFrame' \in Numbers /\ mReadFrame' <= gCptFrameIn' /\ mReadFrame' >= 1
    BY <1>4, MaxInAssumption DEF Receive, Numbers
  <2> QED BY <1>4, <2>2, <2>3 DEF Receive
<1>5. CASE SendBufHeader
  <2>1. out' \in OutType
    BY <1>0, <1>5, OutFields DEF SendBufHeader
  <2> QED BY <1>5, <2>1 DEF SendBufHeader
<1>6. CASE SendBufCopy
  <2>1. out' \in OutType
    BY <1>0, <1>6, OutFields DEF SendBufCopy
  <2>2. hist' \in HistType
    <3>1. Append(hist.taken, ring[Slot]) \in Seq(Numbers)
      BY <1>0, HistFields, AppendProperties
    <3> QED BY <1>6, <3>1, HistFields DEF SendBufCopy
  <2> QED BY <1>6, <2>1, <2>2 DEF SendBufCopy
<1>7. CASE Manager
  <2>1. hist' \in HistType
    <3>1. hist.sent \cup (IF something THEN {out.data} ELSE {}) \in SUBSET Numbers
      BY HistFields, OutFields
    <3> QED BY <1>7, <3>1, HistFields DEF Manager
  <2>2. waitAck' \in BOOLEAN
    BY <1>7 DEF Manager
  <2> QED BY <1>7, <2>1, <2>2 DEF Manager
<1>8. ASSUME NEW c \in Commands, Command(c) PROVE TypeInv'
  <2>1. hist' \in HistType
    <3>1. hist.given \cup {c} \in SUBSET Commands
      BY HistFields
    <3> QED BY <1>8, <3>1, HistFields DEF Command
  <2>2. sending' \in Commands /\ sending' \in Frames
    BY <1>8 DEF Command, Frames
  <2> QED BY <1>8, <2>1, <2>2 DEF Command
<1>9. CASE Fill
  <2>1. hist' \in HistType
    BY <1>9, HistFields DEF Fill
  <2>2. frameToSend' \in FrameType
    BY <1>9 DEF Fill, FrameType
  <2> QED BY <1>9, <2>1, <2>2 DEF Fill
<1>10. CASE TransmissionOn
  <2>1. hist' \in HistType
    <3>1. <<>> \in Seq(Frames)
      OBVIOUS
    <3> QED BY <1>10, <3>1, HistFields DEF TransmissionOn
  <2>2. 1 \in 1..(Parts + 1) /\ 1 <= Parts /\ Nothing \in Frames
    BY PartsAssumption DEF Frames
  <2> QED BY <1>10, <2>1, <2>2 DEF TransmissionOn
<1> QED
  BY <1>1, <1>2, <1>3, <1>4, <1>5, <1>6, <1>7, <1>8, <1>9, <1>10 DEF Loop

-----------------------------------------------------------------------------
(* What loop reads from the ring *)

\* As loop is not more than the ring behind, its slot holds the frame it has begun.
LEMMA SlotOfFrame ==
    ASSUME TypeInv, RingInv, Reading, gCptFrameIn <= mReadFrame + 1
    PROVE  ring[Slot] = mReadFrame
<1>1. mReadFrame \in Nat /\ gCptFrameIn \in Nat /\ 1 <= mReadFrame
      /\ mReadFrame <= gCptFrameIn
  BY MaxInAssumption DEF TypeInv, Numbers
<1>2. CASE mReadFrame = gCptFrameIn
  BY <1>1, <1>2 DEF RingInv, Slot, YDLE_MAX_FRAME
<1>3. CASE mReadFrame = gCptFrameIn - 1
  <2>1. mReadFrame - 1 = gCptFrameIn - 2 /\ gCptFrameIn >= 2
    BY <1>1, <1>3
  <2> QED BY <1>3, <2>1 DEF RingInv, Slot, YDLE_MAX_FRAME
<1> QED BY <1>1, <1>2, <1>3

LEMMA InitRead == Init => ReadInv
<1> SUFFICES ASSUME Init PROVE ReadInv
  OBVIOUS
<1>1. RingInv
  BY DEF Init, RingInv
<1>2. Handled = 0 /\ ~Reading /\ LoopInv
  BY DEF Init, LoopInv, Handled, Reading
<1>3. TakenInOrder
  <2>1. Range(hist.taken) = {} /\ DOMAIN hist.taken = {}
    BY DEF Init, Range
  <2>2. 1..0 = {}
    OBVIOUS
  <2> QED BY <1>2, <2>1, <2>2 DEF TakenInOrder
<1> QED BY <1>1, <1>2, <1>3 DEF ReadInv

\* A frame that is completed takes the slot of the last but one.
LEMMA CompleteRead == TypeInv /\ ReadInv /\ Complete => ReadInv'
<1> SUFFICES ASSUME TypeInv, ReadInv, Complete PROVE ReadInv'
  OBVIOUS
<1> DEFINE n == gCptFrameIn + 1
<1>1. gCptFrameIn \in Nat /\ mReadFrame \in Nat /\ n \in Nat \ {0}
  BY MaxInAssumption DEF TypeInv, Numbers
<1>2. gCptFrameIn' = n
  BY DEF Complete
<1>3. RingInv'
  <2>1. ring'[(n - 1) % 2] = n
    <3>1. (n - 1) % 2 \in Slots /\ n - 1 = gCptFrameIn
      BY <1>1 DEF Slots, YDLE_MAX_FRAME
    <3> QED BY <3>1 DEF Complete, TypeInv, RingType, YDLE_MAX_FRAME
  <2>2. ASSUME n >= 2 PROVE ring'[(n - 2) % 2] = n - 1
    <3>1. (gCptFrameIn - 1) % 2 # gCptFrameIn % 2 /\ gCptFrameIn >= 1
      BY <1>1, <2>2
    <3>2. ring'[(gCptFrameIn - 1) % 2] = ring[(gCptFrameIn - 1) % 2]
      <4>1. (gCptFrameIn - 1) % 2 \in Slots
        BY <1>1 DEF Slots, YDLE_MAX_FRAME
      <4> QED BY <3>1, <4>1 DEF Complete, TypeInv, RingType, YDLE_MAX_FRAME
    <3>3. ring[(gCptFrameIn - 1) % 2] = gCptFrameIn
      BY <3>1 DEF ReadInv, RingInv
    <3>4. n - 2 = gCptFrameIn - 1 /\ n - 1 = gCptFrameIn
      BY <1>1
    <3> QED BY <3>2, <3>3, <3>4
  <2>3. \A b \in bad' : b <= n
    <3>1. \A b \in bad : b <= gCptFrameIn /\ b \in Nat
      BY MaxInAssumption DEF ReadInv, RingInv, TypeInv, Numbers
    <3>2. bad' \subseteq bad \cup {n}
      BY DEF Complete
    <3> QED BY <1>1, <3>1, <3>2
  <2> HIDE DEF n
  <2> QED BY <1>2, <2>1, <2>2, <2>3 DEF RingInv
<1>4. /\ hist'.taken = hist.taken
      /\ ~hist'.overrun => ~hist.overrun /\ ~(gCptFrameIn - Handled >= 2)
  BY DEF Complete, TypeInv, HistType, YDLE_MAX_FRAME
<1>5. UNCHANGED <<mReadFrame, pc, seen, out, something, waitAck>>
      /\ Handled' = Handled /\ (Reading' <=> Reading)
  BY DEF Complete, serial, Handled, Reading
<1>6. Handled \in Int /\ Handled <= gCptFrameIn
      /\ (Reading => mReadFrame <= gCptFrameIn)
  BY <1>1 DEF Handled, TypeInv
<1>7. \A k \in 1..gCptFrameIn : k \in bad' <=> k \in bad
  BY <1>1 DEF Complete
<1>8. ASSUME ~hist'.overrun PROVE LoopInv' /\ TakenInOrder'
  <2>1. LoopInv /\ TakenInOrder /\ ~hist.overrun
    BY <1>4, <1>8 DEF ReadInv
  <2>2. n <= Handled + 2
    BY <1>1, <1>4, <1>6, <1>8
  <2>3. pc \in {"sendBuf", "copy"} => mReadFrame \notin bad'
    <3>1. pc \in {"sendBuf", "copy"} => mReadFrame \in 1..gCptFrameIn
      BY <1>1 DEF TypeInv, Reading
    <3> QED BY <1>7, <2>1, <3>1 DEF LoopInv
  <2>4. LoopInv'
    BY <1>2, <1>5, <2>1, <2>2, <2>3 DEF LoopInv
  <2>5. (1..Handled) \ bad' = (1..Handled) \ bad
    BY <1>1, <1>6, <1>7
  <2>6. TakenInOrder'
    BY <1>4, <1>5, <2>1, <2>5 DEF TakenInOrder
  <2> QED BY <2>4, <2>6
<1> QED BY <1>3, <1>8 DEF ReadInv, TakenInOrder

\* Steps that neither complete, take nor acknowledge a frame.
LEMMA AsideRead ==
    ASSUME TypeInv, ReadInv, UNCHANGED <<ring, gCptFrameIn, bad, mReadFrame, seen, serial>>,
           ~Reading, ~Reading', hist'.overrun = hist.overrun, hist'.taken = hist.taken
    PROVE  ReadInv'
<1>1. pc \notin {"crc", "sendBuf", "copy"} /\ pc' \notin {"crc", "sendBuf", "copy"}
  BY DEF Reading
<1>2. Handled' = Handled
  BY DEF Handled
<1> QED BY <1>1, <1>2 DEF ReadInv, RingInv, LoopInv, TakenInOrder, serial, Reading

LEMMA ReceiveRead == TypeInv /\ ReadInv /\ Receive => ReadInv'
<1> SUFFICES ASSUME TypeInv, ReadInv, Receive PROVE ReadInv'
  OBVIOUS
<1>1. gCptFrameIn \in Nat /\ mReadFrame \in Nat
  BY MaxInAssumption DEF TypeInv, Numbers
<1>2. UNCHANGED <<ring, gCptFrameIn, bad, out, something, waitAck, hist>>
  BY DEF Receive, received, serial
<1>3. /\ ~Reading /\ Handled = mReadFrame
      /\ Reading' /\ Handled' = mReadFrame /\ pc' = "crc" /\ pc = "receive"
  BY <1>1 DEF Receive, Reading, Handled
<1>4. ASSUME gCptFrameIn <= Handled + 2 PROVE seen' = mReadFrame'
  <2>1. CASE mReadFrame = gCptFrameIn - 1
    BY <1>1, <2>1 DEF Receive, ReadInv, RingInv, YDLE_MAX_FRAME
  <2>2. CASE mReadFrame = gCptFrameIn - 2
    BY <1>1, <2>2 DEF Receive, ReadInv, RingInv, YDLE_MAX_FRAME
  <2> QED BY <1>1, <1>3, <1>4, <2>1, <2>2 DEF Receive
<1>5. RingInv'
  BY <1>2 DEF ReadInv, RingInv
<1>6. ~hist.overrun => LoopInv'
  BY <1>2, <1>3, <1>4 DEF ReadInv, LoopInv
<1>7. TakenInOrder'
  BY <1>2, <1>3 DEF ReadInv, TakenInOrder
<1> QED BY <1>2, <1>5, <1>6, <1>7 DEF ReadInv

LEMMA CheckCrcRead == TypeInv /\ ReadInv /\ CheckCrc => ReadInv'
<1> SUFFICES ASSUME TypeInv, ReadInv, CheckCrc PROVE ReadInv'
  OBVIOUS
<1>1. gCptFrameIn \in Nat /\ mReadFrame \in Nat /\ Reading /\ 1 <= mReadFrame
  BY MaxInAssumption DEF TypeInv, Numbers, CheckCrc, Reading
<1>2. UNCHANGED <<ring, gCptFrameIn, bad, mReadFrame, seen, out, something, waitAck, hist>>
  BY DEF CheckCrc, received, serial
<1>3. RingInv'
  BY <1>2 DEF ReadInv, RingInv
<1>4. ASSUME ~hist.overrun PROVE LoopInv' /\ TakenInOrder'
  <2>1. LoopInv /\ TakenInOrder /\ Handled = mReadFrame - 1
    BY <1>1, <1>4 DEF ReadInv, Handled
  <2>2. ring[Slot] = mReadFrame /\ seen = mReadFrame
    BY <1>1, <2>1, SlotOfFrame DEF ReadInv, LoopInv
  <2>3. CASE mReadFrame \in bad
    <3>1. pc' = "manager" /\ ~Reading' /\ Handled' = mReadFrame
      BY <1>2, <2>2, <2>3 DEF CheckCrc, Reading, Handled
    <3>2. LoopInv'
      BY <1>1, <1>2, <2>1, <3>1 DEF LoopInv, CheckCrc
    <3>3. (1..mReadFrame) \ bad = (1..(mReadFrame - 1)) \ bad
      BY <1>1, <2>3
    <3> QED BY <1>2, <1>4, <2>1, <3>1, <3>2, <3>3 DEF TakenInOrder
  <2>4. CASE mReadFrame \notin bad
    <3>1. pc' = "sendBuf" /\ Reading' /\ Handled' = Handled
      BY <1>1, <1>2, <2>2, <2>4 DEF CheckCrc, Reading, Handled
    <3>2. LoopInv'
      BY <1>2, <2>1, <2>2, <2>4, <3>1 DEF LoopInv, CheckCrc
    <3> QED BY <1>2, <2>1, <3>1, <3>2 DEF TakenInOrder
  <2> QED BY <2>3, <2>4
<1> QED BY <1>2, <1>3, <1>4 DEF ReadInv, TakenInOrder

LEMMA RefusedRead == TypeInv /\ ReadInv /\ Refused => ReadInv'
<1> SUFFICES ASSUME TypeInv, ReadInv, Refused PROVE ReadInv'
  OBVIOUS
<1>1. gCptFrameIn \in Nat /\ mReadFrame \in Nat /\ Reading /\ 1 <= mReadFrame
  BY MaxInAssumption DEF TypeInv, Numbers, Refused, Reading
<1>2. UNCHANGED <<ring, gCptFrameIn, bad, seen, out, something, waitAck, hist>>
  BY DEF Refused, received, serial
<1>3. ~Reading' /\ pc' = "manager" /\ Handled' = Handled
  BY <1>1 DEF Refused, Reading, Handled
<1> QED BY <1>2, <1>3 DEF ReadInv, RingInv, LoopInv, TakenInOrder, Refused

LEMMA SendBufHeaderRead == TypeInv /\ ReadInv /\ SendBufHeader => ReadInv'
<1> SUFFICES ASSUME TypeInv, ReadInv, SendBufHeader PROVE ReadInv'
  OBVIOUS
<1>1. gCptFrameIn \in Nat /\ mReadFrame \in Nat /\ Reading /\ 1 <= mReadFrame
  BY MaxInAssumption DEF TypeInv, Numbers, SendBufHeader, Reading
<1>2. UNCHANGED <<ring, gCptFrameIn, bad, mReadFrame, seen, something, waitAck, hist>>
  BY DEF SendBufHeader, received
<1>3. Reading' /\ pc = "sendBuf" /\ pc' = "copy" /\ Handled' = Handled
      /\ Handled = mReadFrame - 1
  BY <1>1 DEF SendBufHeader, Reading, Handled
<1>4. ASSUME LoopInv PROVE LoopInv'
  <2>1. gCptFrameIn <= mReadFrame + 1
    BY <1>1, <1>3, <1>4 DEF LoopInv
  <2>2. ring[Slot] = mReadFrame
    BY <1>1, <2>1, SlotOfFrame DEF ReadInv
  <2>3. out'.crc = mReadFrame
    BY <2>2 DEF SendBufHeader, TypeInv, OutType
  <2> QED BY <1>1, <1>2, <1>3, <1>4, <2>3 DEF LoopInv
<1>5. RingInv'
  BY <1>2 DEF ReadInv, RingInv
<1>6. TakenInOrder'
  BY <1>2, <1>3 DEF ReadInv, TakenInOrder
<1> QED BY <1>2, <1>4, <1>5, <1>6 DEF ReadInv

\* The frame that is accepted is the next one with a good CRC, and the copy of it
\* that goes with its CRC.
LEMMA SendBufCopyRead == TypeInv /\ ReadInv /\ SendBufCopy => ReadInv'
<1> SUFFICES ASSUME TypeInv, ReadInv, SendBufCopy PROVE ReadInv'
  OBVIOUS
<1>1. gCptFrameIn \in Nat /\ mReadFrame \in Nat /\ Reading /\ 1 <= mReadFrame
  BY MaxInAssumption DEF TypeInv, Numbers, SendBufCopy, Reading
<1>2. UNCHANGED <<ring, gCptFrameIn, bad, mReadFrame, seen, waitAck>>
  BY DEF SendBufCopy, received
<1>3. ~Reading' /\ pc = "copy" /\ pc' = "manager" /\ Handled' = mReadFrame
      /\ Handled = mReadFrame - 1
  BY <1>1 DEF SendBufCopy, Reading, Handled
<1>4. hist'.overrun = hist.overrun /\ hist'.taken = Append(hist.taken, ring[Slot])
  BY DEF SendBufCopy, TypeInv, HistType
<1>5. ASSUME ~hist.overrun PROVE LoopInv' /\ TakenInOrder'
  <2>1. LoopInv /\ TakenInOrder
    BY <1>5 DEF ReadInv
  <2>2. ring[Slot] = mReadFrame
    BY <1>1, <1>3, <2>1, SlotOfFrame DEF ReadInv, LoopInv
  <2>3. out'.crc = mReadFrame /\ out'.data = mReadFrame
    BY <1>3, <2>1, <2>2 DEF LoopInv, SendBufCopy, TypeInv, OutType
  <2>4. LoopInv'
    BY <1>1, <1>2, <1>3, <2>1, <2>3 DEF LoopInv
  <2>5. hist.taken \in Seq(Numbers) /\ mReadFrame \in Numbers
    BY HistFields DEF TypeInv
  <2> DEFINE old == hist.taken  new == Append(old, mReadFrame)
  <2>6. /\ DOMAIN old = 1..Len(old) /\ Len(old) \in Nat
        /\ DOMAIN new = 1..(Len(old) + 1) /\ new[Len(old) + 1] = mReadFrame
        /\ \A i \in 1..Len(old) : new[i] = old[i]
    BY <2>5, AppendProperties
  <2>7. hist'.taken = new
    BY <1>4, <2>2
  <2>8. Range(old) = (1..(mReadFrame - 1)) \ bad
    BY <1>3, <1>5, <2>1 DEF TakenInOrder
  <2>9. \A i \in 1..Len(old) : old[i] \in 1..(mReadFrame - 1)
    BY <2>6, <2>8 DEF Range
  <2>10. \A i, j \in 1..Len(old) : i < j => old[i] < old[j]
    BY <1>5, <2>1, <2>6 DEF TakenInOrder
  <2> HIDE DEF new
  <2>11. \A i, j \in DOMAIN new : i < j => new[i] < new[j]
    BY <1>1, <2>6, <2>9, <2>10
  <2>12. Range(new) = Range(old) \cup {mReadFrame}
    <3>1. DOMAIN new = (DOMAIN old) \cup {Len(old) + 1}
      BY <2>6
    <3> QED BY <2>6, <3>1 DEF Range
  <2>13. (1..mReadFrame) \ bad = ((1..(mReadFrame - 1)) \ bad) \cup {mReadFrame}
    BY <1>1, <1>3, <2>1 DEF LoopInv
  <2>14. TakenInOrder'
    BY <1>2, <1>3, <2>7, <2>8, <2>11, <2>12, <2>13 DEF TakenInOrder
  <2> QED BY <2>4, <2>14
<1> QED BY <1>2, <1>4, <1>5 DEF ReadInv, RingInv, TakenInOrder

LEMMA ManagerRead == TypeInv /\ ReadInv /\ Manager => ReadInv'
<1> SUFFICES ASSUME TypeInv, ReadInv, Manager PROVE ReadInv'
  OBVIOUS
<1>1. UNCHANGED <<ring, gCptFrameIn, bad, mReadFrame, seen, out>>
  BY DEF Manager, received
<1>2. hist'.overrun = hist.overrun /\ hist'.taken = hist.taken
  BY DEF Manager, TypeInv, HistType
<1>3. pc = "manager" /\ pc' = "receive" /\ ~Reading /\ ~Reading' /\ Handled' = Handled
  BY DEF Manager, Reading, Handled
<1>4. (something' \/ waitAck') => (something \/ waitAck)
  BY DEF Manager
<1> QED BY <1>1, <1>2, <1>3, <1>4 DEF ReadInv, RingInv, LoopInv, TakenInOrder

LEMMA ReadStep == TypeInv /\ ReadInv /\ Next => ReadInv'
<1> SUFFICES ASSUME TypeInv, ReadInv, Next PROVE ReadInv'
  OBVIOUS
<1>1. CASE Start \/ Abandon \/ Transmit
  <2>1. UNCHANGED <<ring, gCptFrameIn, bad, mReadFrame, pc, seen, serial>>
    BY <1>1 DEF Start, Abandon, Transmit, received
  <2>2. hist'.overrun = hist.overrun /\ hist'.taken = hist.taken
    <3>1. CASE Start \/ Abandon
      BY <3>1 DEF Start, Abandon
    <3>2. CASE Transmit
      BY <3>2 DEF Transmit, TypeInv, HistType
    <3> QED BY <1>1, <3>1, <3>2
  <2> QED BY <2>1, <2>2
          DEF ReadInv, RingInv, LoopInv, TakenInOrder, Handled, Reading, serial
<1>2. CASE ReceiveNone
  <2>1. ~Reading /\ ~Reading' /\ UNCHANGED <<received, mReadFrame, seen, serial, hist>>
    BY <1>2 DEF ReceiveNone, Reading
  <2> QED BY <2>1, AsideRead DEF received
<1>3. CASE Fill \/ TransmissionOn
  <2>1. ~Reading /\ ~Reading'
    BY <1>3 DEF Fill, TransmissionOn, Reading
  <2>2. UNCHANGED <<ring, gCptFrameIn, bad, mReadFrame, seen, serial>>
    BY <1>3 DEF Fill, TransmissionOn, received
  <2>3. hist'.overrun = hist.overrun /\ hist'.taken = hist.taken
    BY <1>3 DEF Fill, TransmissionOn, TypeInv, HistType
  <2> QED BY <2>1, <2>2, <2>3, AsideRead
<1>4. ASSUME NEW c \in Commands, Command(c) PROVE ReadInv'
  <2>1. ~Reading /\ ~Reading' /\ UNCHANGED <<received, mReadFrame, seen, serial>>
    BY <1>4 DEF Command, Reading
  <2>2. hist'.overrun = hist.overrun /\ hist'.taken = hist.taken
    BY <1>4 DEF Command, TypeInv, HistType
  <2> QED BY <2>1, <2>2, AsideRead DEF received
<1> QED
  BY <1>1, <1>2, <1>3, <1>4, CompleteRead, ReceiveRead, CheckCrcRead, RefusedRead,
     SendBufHeaderRead, SendBufCopyRead, ManagerRead
     DEF Next, TimerInterrupt, Loop

-----------------------------------------------------------------------------
(* What is on the air *)

LEMMA InitAir == Init => AirInv
  BY DEF Init, AirInv, WholeOnAir

LEMMA TransmitAir == TypeInv /\ AirInv /\ Transmit => AirInv'
<1> SUFFICES ASSUME TypeInv, AirInv, Transmit PROVE AirInv'
  OBVIOUS
<1>1. Parts \in Nat \ {0} /\ txIndex \in 1..Parts
  BY PartsAssumption DEF TypeInv, Transmit
<1>2. UNCHANGED <<pc, sending, frameToSend>> /\ hist'.overlap = hist.overlap
      /\ hist'.aired = Append(hist.aired, Part)
  BY DEF Transmit, TypeInv, HistType
<1>3. ASSUME ~hist.overlap
      PROVE  \E c \in Commands : /\ frameToSend = AiredOf(c, Parts)
                                 /\ hist'.aired = AiredOf(c, txIndex)
  <2>1. PICK c \in Commands :
          frameToSend = AiredOf(c, Parts) /\ hist.aired = AiredOf(c, txIndex - 1)
    BY <1>3 DEF AirInv, Transmit
  <2>2. Part = c
    BY <1>1, <2>1 DEF Part, AiredOf
  <2>3. hist'.aired = Append(AiredOf(c, txIndex - 1), c)
    BY <1>2, <2>1, <2>2
  <2>4. Append(AiredOf(c, txIndex - 1), c) = AiredOf(c, txIndex)
    <3>1. AiredOf(c, txIndex - 1) \in Seq({c}) /\ Len(AiredOf(c, txIndex - 1)) = txIndex - 1
      BY <1>1 DEF AiredOf
    <3> QED BY <1>1, <3>1 DEF AiredOf
  <2> QED BY <2>1, <2>3, <2>4
<1>4. txIndex' = txIndex + 1 /\ (transmissionOn' <=> txIndex + 1 <= Parts)
  BY DEF Transmit
<1>5. ~hist.overlap => /\ pc = "start" => ~transmissionOn'
                       /\ transmissionOn' => \E c \in Commands :
                            /\ frameToSend = AiredOf(c, Parts)
                            /\ hist'.aired = AiredOf(c, txIndex' - 1)
  BY <1>1, <1>3, <1>4 DEF AirInv, Transmit
<1>6. ~hist.overlap /\ ~transmissionOn'
        => \E c \in Commands : hist'.aired = [p \in 1..Parts |-> c]
  <2>1. ~transmissionOn' => txIndex = Parts
    BY <1>1, <1>4
  <2> QED BY <1>3, <2>1 DEF AiredOf
<1> QED BY <1>2, <1>5, <1>6 DEF AirInv, WholeOnAir

\* frameToSend is filled with the command; the one on the air is overlapped.
LEMMA FillAir == TypeInv /\ AirInv /\ Fill => AirInv'
<1> SUFFICES ASSUME TypeInv, AirInv, Fill PROVE AirInv'
  OBVIOUS
<1>1. /\ hist'.overlap = (hist.overlap \/ transmissionOn) /\ hist'.aired = hist.aired
      /\ transmissionOn' = transmissionOn /\ sending' = sending
      /\ frameToSend' = AiredOf(sending, Parts)
  BY DEF Fill, TypeInv, HistType, AiredOf
<1>2. ~hist'.overlap => ~hist.overlap /\ ~transmissionOn
  BY <1>1
<1> QED BY <1>1, <1>2 DEF AirInv, WholeOnAir

LEMMA TransmissionOnAir == TypeInv /\ AirInv /\ TransmissionOn => AirInv'
<1> SUFFICES ASSUME TypeInv, AirInv, TransmissionOn PROVE AirInv'
  OBVIOUS
<1>1. /\ hist'.aired = <<>> /\ hist'.overlap = hist.overlap
      /\ transmissionOn' /\ txIndex' = 1 /\ frameToSend' = frameToSend
      /\ pc = "start" /\ pc' = "receive"
  BY DEF TransmissionOn, TypeInv, HistType
<1>2. sending \in Commands /\ frameToSend = AiredOf(sending, Parts)
  BY <1>1 DEF AirInv, TypeInv
<1>3. AiredOf(sending, txIndex' - 1) = <<>>
  BY <1>1 DEF AiredOf
<1> QED BY <1>1, <1>2, <1>3 DEF AirInv, WholeOnAir

LEMMA AirStep == TypeInv /\ AirInv /\ Next => AirInv'
<1> SUFFICES ASSUME TypeInv, AirInv, Next PROVE AirInv'
  OBVIOUS
<1>1. ASSUME UNCHANGED <<transmitter, sending>>, pc' # "start" \/ UNCHANGED pc,
             hist'.overlap = hist.overlap, hist'.aired = hist.aired
      PROVE  AirInv'
  BY <1>1 DEF AirInv, WholeOnAir, transmitter
<1>2. CASE Start \/ Abandon \/ ReceiveNone \/ Receive \/ CheckCrc \/ Refused
           \/ SendBufHeader
  <2>1. UNCHANGED <<transmitter, sending, hist>> /\ (pc' # "start" \/ UNCHANGED pc)
    BY <1>2 DEF Start, Abandon, ReceiveNone, Receive, CheckCrc, Refused, SendBufHeader
  <2> QED BY <1>1, <2>1
<1>3. CASE Complete \/ SendBufCopy \/ Manager
  <2>1. UNCHANGED <<transmitter, sending>> /\ (pc' # "start" \/ UNCHANGED pc)
    BY <1>3 DEF Complete, SendBufCopy, Manager
  <2>2. hist'.overlap = hist.overlap /\ hist'.aired = hist.aired
    <3>1. CASE Complete
      BY <3>1 DEF Complete, TypeInv, HistType
    <3>2. CASE SendBufCopy
      BY <3>2 DEF SendBufCopy, TypeInv, HistType
    <3>3. CASE Manager
      BY <3>3 DEF Manager, TypeInv, HistType
    <3> QED BY <1>3, <3>1, <3>2, <3>3
  <2> QED BY <1>1, <2>1, <2>2
<1>4. ASSUME NEW c \in Commands, Command(c) PROVE AirInv'
  <2>1. /\ UNCHANGED transmitter /\ pc' = "send"
        /\ hist'.overlap = hist.overlap /\ hist'.aired = hist.aired
    BY <1>4 DEF Command, TypeInv, HistType
  <2> QED BY <2>1 DEF AirInv, WholeOnAir, transmitter
<1> QED
  BY <1>2, <1>3, <1>4, TransmitAir, FillAir, TransmissionOnAir
     DEF Next, TimerInterrupt, Loop

-----------------------------------------------------------------------------
(* What commands cost *)

LEMMA InitCost == Init => CostInv
<1> SUFFICES ASSUME Init PROVE CostInv
  OBVIOUS
<1>1. Lost = {} /\ hist.given = {} /\ Exposed = 0
  BY DEF Init, Lost, Exposed, Range
<1> QED BY <1>1, FS_EmptySet DEF CostInv

LEMMA Finite == TypeInv => IsFiniteSet(Lost)
<1> SUFFICES ASSUME TypeInv PROVE IsFiniteSet(Lost)
  OBVIOUS
<1>1. Lost \in SUBSET Numbers
  BY HistFields DEF Lost, Range, TypeInv
<1>2. IsFiniteSet(Numbers)
  BY FS_Interval, MaxInAssumption DEF Numbers
<1> QED BY <1>1, <1>2, FS_Subset

\* Steps that only make fewer frames lost or exposed.
LEMMA FewerCost ==
    ASSUME TypeInv, CostInv, Lost' \in SUBSET Lost, Exposed' <= Exposed,
           Exposed' \in {0, 1}, hist'.given = hist.given
    PROVE  CostInv'
<1>1. IsFiniteSet(Lost') /\ Cardinality(Lost') <= Cardinality(Lost)
      /\ Cardinality(Lost') \in Nat /\ Cardinality(Lost) \in Nat
  BY Finite, FS_Subset, FS_CardinalityType
<1>2. Cardinality(hist.given) \in Nat /\ Exposed \in {0, 1}
  BY FS_CardinalityType DEF CostInv, Exposed
<1>3. Cardinality(Lost') + Exposed' <= Cardinality(hist'.given)
  BY <1>1, <1>2 DEF CostInv
<1> QED BY <1>3 DEF CostInv

\* The frame that waited is overwritten: its command has paid for it.
LEMMA SendBufCopyCost == TypeInv /\ CostInv /\ SendBufCopy => CostInv'
<1> SUFFICES ASSUME TypeInv, CostInv, SendBufCopy PROVE CostInv'
  OBVIOUS
<1>1. /\ hist'.taken = Append(hist.taken, ring[Slot]) /\ hist'.sent = hist.sent
      /\ hist'.given = hist.given /\ hist.taken \in Seq(Numbers)
  BY DEF SendBufCopy, TypeInv, HistType
<1>2. something' /\ out'.data = ring[Slot] /\ pc = "copy" /\ pc' = "manager"
  BY DEF SendBufCopy, TypeInv, OutType
<1>3. Range(hist'.taken) \subseteq Range(hist.taken) \cup {ring[Slot]}
  <2>1. ring[Slot] \in Numbers
    BY SlotType
  <2> QED BY <1>1, <2>1, AppendProperties DEF Range
<1>4. Exposed' = 0 /\ Exposed \in {0, 1} /\ Cardinality(hist.given) \in Nat
  BY <1>2, FS_CardinalityType DEF Exposed, CostInv
<1>5. Cardinality(Lost) \in Nat /\ IsFiniteSet(Lost)
  BY Finite, FS_CardinalityType
<1>6. CASE something
  <2>1. Lost' \in SUBSET (Lost \cup {out.data})
    BY <1>1, <1>2, <1>3 DEF Lost
  <2>2. IsFiniteSet(Lost \cup {out.data})
        /\ Cardinality(Lost \cup {out.data}) <= Cardinality(Lost) + 1
    BY <1>5, FS_AddElement
  <2>3. IsFiniteSet(Lost') /\ Cardinality(Lost') <= Cardinality(Lost \cup {out.data})
    BY <2>1, <2>2, FS_Subset
  <2>4. Cardinality(Lost') \in Nat /\ Cardinality(Lost \cup {out.data}) \in Nat
    BY <2>2, <2>3, FS_CardinalityType
  <2>5. Exposed = 1
    BY <1>2, <1>6 DEF Exposed
  <2>6. Cardinality(Lost') + Exposed' <= Cardinality(hist'.given)
    BY <1>1, <1>4, <1>5, <2>2, <2>3, <2>4, <2>5 DEF CostInv
  <2> QED BY <1>1, <2>6 DEF CostInv
<1>7. CASE ~something
  <2>1. Lost' \in SUBSET Lost
    BY <1>1, <1>2, <1>3, <1>7 DEF Lost
  <2> QED BY <1>1, <1>4, <2>1, FewerCost
<1> QED BY <1>6, <1>7

LEMMA CommandCost ==
    ASSUME NEW c \in Commands, TypeInv, CostInv, Command(c) PROVE CostInv'
<1>1. /\ hist'.taken = hist.taken /\ hist'.sent = hist.sent
      /\ hist'.given = hist.given \cup {c} /\ c \notin hist.given
  BY DEF Command, TypeInv, HistType
<1>2. Lost' = Lost
  BY <1>1 DEF Command, serial, Lost
<1>3. Exposed' \in {0, 1} /\ Exposed = 0
  BY DEF Exposed, Command
<1>4. IsFiniteSet(hist'.given) /\ Cardinality(hist'.given) = Cardinality(hist.given) + 1
  BY <1>1, FS_AddElement DEF CostInv
<1>5. Cardinality(Lost) \in Nat /\ Cardinality(hist.given) \in Nat
  BY Finite, FS_CardinalityType DEF CostInv
<1>6. Cardinality(Lost') + Exposed' <= Cardinality(hist'.given)
  BY <1>2, <1>3, <1>4, <1>5 DEF CostInv
<1> QED BY <1>4, <1>6 DEF CostInv

LEMMA CostStep == TypeInv /\ CostInv /\ Next => CostInv'
<1> SUFFICES ASSUME TypeInv, CostInv, Next PROVE CostInv'
  OBVIOUS
<1>1. ASSUME UNCHANGED something, out'.data = out.data,
             pc' = "manager" \/ (pc # "manager" /\ pc' # "manager"),
             hist'.taken = hist.taken, hist'.sent = hist.sent, hist'.given = hist.given
      PROVE  CostInv'
  <2>1. Lost' = Lost
    BY <1>1 DEF Lost
  <2>2. Exposed' <= Exposed /\ Exposed' \in {0, 1}
    BY <1>1 DEF Exposed
  <2> QED BY <1>1, <2>1, <2>2, FewerCost
<1>2. CASE Start \/ Abandon \/ Complete \/ Transmit
  <2>1. UNCHANGED <<something, out, pc>>
    BY <1>2 DEF Start, Abandon, Complete, Transmit, serial
  <2>2. hist'.taken = hist.taken /\ hist'.sent = hist.sent /\ hist'.given = hist.given
    <3>1. CASE Start \/ Abandon
      BY <3>1 DEF Start, Abandon
    <3>2. CASE Complete
      BY <3>2 DEF Complete, TypeInv, HistType
    <3>3. CASE Transmit
      BY <3>3 DEF Transmit, TypeInv, HistType
    <3> QED BY <1>2, <3>1, <3>2, <3>3
  <2>3. Lost' = Lost /\ Exposed' = Exposed /\ Exposed \in {0, 1}
    BY <2>1, <2>2 DEF Lost, Exposed
  <2> QED BY <2>2, <2>3, FewerCost
<1>3. CASE ReceiveNone \/ Receive \/ CheckCrc \/ Refused
  <2>1. UNCHANGED <<something, out, hist>> /\ pc # "manager"
        /\ (pc' = "manager" \/ pc' # "manager")
    BY <1>3 DEF ReceiveNone, Receive, CheckCrc, Refused, serial
  <2> QED BY <1>1, <2>1
<1>4. CASE SendBufHeader
  <2>1. UNCHANGED <<something, hist>> /\ pc # "manager" /\ pc' # "manager"
        /\ out'.data = out.data
    BY <1>4 DEF SendBufHeader, TypeInv, OutType
  <2> QED BY <1>1, <2>1
<1>5. CASE Manager
  <2>1. /\ hist'.taken = hist.taken /\ hist'.given = hist.given
        /\ hist'.sent = hist.sent \cup IF something THEN {out.data} ELSE {}
    BY <1>5 DEF Manager, TypeInv, HistType
  <2>2. ~something'
    BY <1>5 DEF Manager
  <2>3. Lost' = Lost /\ Exposed' = 0 /\ Exposed \in {0, 1}
    BY <2>1, <2>2 DEF Lost, Exposed
  <2> QED BY <2>1, <2>3, FewerCost
<1>6. CASE Fill \/ TransmissionOn
  <2>1. UNCHANGED <<something, out>> /\ pc # "manager" /\ pc' # "manager"
    BY <1>6 DEF Fill, TransmissionOn, serial
  <2>2. hist'.taken = hist.taken /\ hist'.sent = hist.sent /\ hist'.given = hist.given
    <3>1. CASE Fill
      BY <3>1 DEF Fill, TypeInv, HistType
    <3>2. CASE TransmissionOn
      BY <3>2 DEF TransmissionOn, TypeInv, HistType
    <3> QED BY <1>6, <3>1, <3>2
  <2> QED BY <1>1, <2>1, <2>2
<1> QED
  BY <1>2, <1>3, <1>4, <1>5, <1>6, SendBufCopyCost, CommandCost
     DEF Next, TimerInterrupt, Loop

-----------------------------------------------------------------------------
(* The theorems *)

LEMMA StutterInv == IInv /\ UNCHANGED vars => IInv'
<1> SUFFICES ASSUME IInv, UNCHANGED vars PROVE IInv'
  OBVIOUS
<1> USE DEF IInv, vars, received, serial, transmitter
<1>1. TypeInv'
  BY DEF TypeInv, Reading
<1>2. ReadInv'
  BY DEF ReadInv, RingInv, LoopInv, Handled, Reading, TakenInOrder
<1>3. AirInv'
  BY DEF AirInv, WholeOnAir
<1>4. CostInv'
  BY DEF CostInv, Lost, Exposed
<1> QED BY <1>1, <1>2, <1>3, <1>4

\* The parts keep one another.
LEMMA Inductive == Spec => []IInv
<1>1. Init => IInv
  BY InitType, InitRead, InitAir, InitCost DEF IInv
<1>2. IInv /\ [Next]_vars => IInv'
  BY StutterInv, InterruptType, LoopType, ReadStep, AirStep, CostStep DEF IInv, Next
<1> QED BY <1>1, <1>2, PTL DEF Spec

\* Type correctness of the gateway's radio.
THEOREM TypeCorrect == Spec => []TypeOK
<1>1. IInv => TypeOK
  BY TypeFollows DEF IInv
<1> QED BY <1>1, Inductive, PTL

\* SendBuf accepts every frame with a good CRC, once and in order, as long as loop is
\* not more than the ring behind.
THEOREM FramesTakenInOrder == Spec => []TakenInOrder
<1>1. IInv => TakenInOrder
  BY DEF IInv, ReadInv
<1> QED BY <1>1, Inductive, PTL

\* As long as that is so, what SendBuf leaves for the line is a message the master can
\* read.
THEOREM MessagesReadable == Spec => []Readable
<1>1. IInv => Readable
  BY DEF IInv, ReadInv, LoopInv, Readable
<1> QED BY <1>1, Inductive, PTL

\* A transmission no other send disturbed is the whole of one command.
THEOREM CommandsWholeOnAir == Spec => []WholeOnAir
<1>1. IInv => WholeOnAir
  BY DEF IInv, AirInv
<1> QED BY <1>1, Inductive, PTL

\* Each command makes the gateway lose at most one frame it had accepted.
THEOREM CommandsCostFrames == Spec => []CommandCostsOneFrame
<1>1. IInv => CommandCostsOneFrame
  <2> SUFFICES ASSUME IInv PROVE CommandCostsOneFrame
    OBVIOUS
  <2>1. Cardinality(Lost) \in Nat /\ Cardinality(hist.given) \in Nat /\ Exposed \in {0, 1}
    BY Finite, FS_CardinalityType DEF IInv, CostInv, Exposed
  <2>2. Cardinality(Lost) <= Cardinality(hist.given)
    BY <2>1 DEF IInv, CostInv
  <2> QED BY <2>2 DEF Lost, CommandCostsOneFrame
<1> QED BY <1>1, Inductive, PTL
=============================================================================
