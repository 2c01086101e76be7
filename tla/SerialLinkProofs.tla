--------------------------- MODULE SerialLinkProofs ---------------------------
(***************************************************************************)
(* Proofs about SerialLink, for any commands, nodes, frames and bounds:    *)
(* types, what can be put on the air, what the acknowledgements of the     *)
(* serial line are worth, and what takes a pending command off the list.   *)
(***************************************************************************)
EXTENDS SerialLink, SequenceTheorems, WellFoundedInduction, TLAPS

-----------------------------------------------------------------------------
(* Sequences: the lines and the list of pending commands *)

\* A nonempty set of natural numbers has a least element.
LEMMA Least ==
    ASSUME NEW I \in SUBSET Nat, I # {}
    PROVE  Min(I) \in I /\ \A i \in I : Min(I) <= i
<1> DEFINE less == OpToRel(<, Nat)
<1>1. \E x \in I : \A y \in I : <<y, x>> \notin less
  BY NatLessThanWellFounded, WFMin
<1>2. \A x, y \in Nat : <<y, x>> \in less <=> y < x
  BY DEF OpToRel
<1> HIDE DEF less
<1>3. PICK x \in I : \A y \in I : <<y, x>> \notin less
  BY <1>1
<1>4. \A y \in I : ~(y < x)
  BY <1>2, <1>3
<1>5. \A y \in I : x <= y
  BY <1>4
<1> QED BY <1>5 DEF Min

\* Removing the first match of a test keeps every entry that is not the first match,
\* and adds none.
LEMMA ErasedList ==
    ASSUME NEW S, NEW list \in Seq(S), NEW node
    PROVE  /\ Erased(list, node) \in Seq(S)
           /\ \A k \in DOMAIN list :
                list[k] \notin Range(Erased(list, node)) => Receptor(list[k].frame[1]) = node
<1> DEFINE Test(m) == Receptor(m.frame[1]) = node
           I == {i \in 1..Len(list) : Test(list[i])}
           k == Min(I)
           before == SubSeq(list, 1, k - 1)
           after == SubSeq(list, k + 1, Len(list))
<1>1. CASE I = {}
  <2>1. Erased(list, node) = list
    BY <1>1 DEF Erased, RemoveFirstMatch
  <2> QED BY <2>1 DEF Range
<1>2. CASE I # {}
  <2>1. k \in I
    <3>1. I \in SUBSET Nat
      OBVIOUS
    <3> HIDE DEF I
    <3> QED BY <1>2, <3>1, Least
  <2>2. Len(list) \in Nat /\ k \in 1..Len(list)
    BY <2>1
  <2>3. Erased(list, node) = before \o after
    BY <1>2 DEF Erased, RemoveFirstMatch, RemoveAt, SelectInSeq
  <2> HIDE DEF I, k
  <2>4. /\ before \in Seq(S) /\ Len(before) = k - 1
        /\ \A i \in 1..(k - 1) : before[i] = list[i]
    BY <2>2, SubSeqProperties
  <2>5. /\ after \in Seq(S) /\ Len(after) = Len(list) - k
        /\ \A i \in 1..(Len(list) - k) : after[i] = list[k + i]
    BY <2>2, SubSeqProperties
  <2> HIDE DEF before, after
  <2>6. /\ before \o after \in Seq(S)
        /\ Len(before \o after) = Len(list) - 1
        /\ \A i \in 1..(Len(list) - 1) :
             (before \o after)[i] = IF i <= k - 1 THEN before[i] ELSE after[i - (k - 1)]
    <3>1. Len(before) + Len(after) = Len(list) - 1
      BY <2>2, <2>4, <2>5
    <3> QED BY <2>4, <2>5, <3>1, ConcatProperties
  <2> DEFINE both == before \o after
  <2>8. /\ DOMAIN both = 1..(Len(list) - 1)
        /\ \A i \in 1..(Len(list) - 1) :
             both[i] = IF i <= k - 1 THEN before[i] ELSE after[i - (k - 1)]
    BY <2>2, <2>6
  <2> HIDE DEF both
  <2>7. ASSUME NEW j \in 1..Len(list), j # k
        PROVE  list[j] \in Range(both)
    <3>1. CASE j < k
      <4>1. j \in 1..(Len(list) - 1) /\ j <= k - 1 /\ j \in 1..(k - 1)
        BY <2>2, <3>1
      <4>2. both[j] = list[j]
        BY <2>4, <2>8, <4>1
      <4> QED BY <2>8, <4>1, <4>2 DEF Range
    <3>2. CASE j > k
      <4>1. both[j - 1] = list[j] /\ j - 1 \in 1..(Len(list) - 1)
        <5>1. j - 1 \in 1..(Len(list) - 1) /\ ~(j - 1 <= k - 1)
              /\ j - 1 - (k - 1) = j - k /\ j - k \in 1..(Len(list) - k) /\ k + (j - k) = j
          BY <2>2, <3>2
        <5> QED BY <2>5, <2>8, <5>1
      <4> QED BY <2>8, <4>1 DEF Range
    <3> QED BY <2>2, <2>7, <3>1, <3>2
  <2> QED BY <2>1, <2>3, <2>6, <2>7 DEF I, both
<1> QED BY <1>1, <1>2

LEMMA WrittenLine ==
    ASSUME NEW S, NEW line \in Seq(S), NEW m \in S
    PROVE  /\ Written(line, m) \in Seq(S)
           /\ Range(Written(line, m)) \subseteq Range(line) \cup {m}
           /\ Len(line) <= MaxLine => Len(Written(line, m)) <= MaxLine
<1>1. CASE Len(line) < MaxLine
  <2>1. Written(line, m) = Append(line, m)
    BY <1>1 DEF Written
  <2>2. /\ Append(line, m) \in Seq(S) /\ Len(Append(line, m)) = Len(line) + 1
        /\ \A i \in 1..Len(line) : Append(line, m)[i] = line[i]
        /\ Append(line, m)[Len(line) + 1] = m /\ Len(line) \in Nat
    BY AppendProperties
  <2>3. DOMAIN Append(line, m) = 1..(Len(line) + 1) /\ DOMAIN line = 1..Len(line)
    BY <2>2
  <2>4. Range(Append(line, m)) \subseteq Range(line) \cup {m}
    BY <2>2, <2>3 DEF Range
  <2> QED BY <1>1, <2>1, <2>2, <2>4, MaxLineAssumption
<1>2. CASE ~(Len(line) < MaxLine)
  BY <1>2 DEF Written
<1> QED BY <1>1, <1>2

LEMMA RestOfLine ==
    ASSUME NEW S, NEW line \in Seq(S), line # <<>>
    PROVE  /\ Tail(line) \in Seq(S) /\ Head(line) \in S
           /\ Range(Tail(line)) \subseteq Range(line) /\ Head(line) \in Range(line)
           /\ Len(line) <= MaxLine => Len(Tail(line)) <= MaxLine
<1>1. /\ Head(line) \in S /\ Tail(line) \in Seq(S) /\ Len(Tail(line)) = Len(line) - 1
      /\ \A i \in 1..Len(Tail(line)) : Tail(line)[i] = line[i + 1]
  BY HeadTailProperties
<1>2. Len(line) \in Nat \ {0} /\ DOMAIN line = 1..Len(line) /\ Head(line) = line[1]
  OBVIOUS
<1>3. \A i \in 1..(Len(line) - 1) : i + 1 \in 1..Len(line)
  BY <1>2
<1>4. DOMAIN Tail(line) = 1..(Len(line) - 1)
  BY <1>1
<1>5. Range(Tail(line)) \subseteq Range(line)
  BY <1>1, <1>2, <1>3, <1>4 DEF Range
<1>6. Head(line) \in Range(line)
  BY <1>2 DEF Range
<1> QED BY <1>1, <1>2, <1>5, <1>6, MaxLineAssumption

-----------------------------------------------------------------------------
(* The inductive invariant *)

MaybeHalf == Half \cup {NoFrame}
BuiltType == MaybeHalf \X MaybeHalf
UpNumbers == 1..MaxUp
SlotType == [header : BuiltType, data : BuiltType, full : BOOLEAN]
EntryType == [frame : Half \X Half, sent : {FALSE}, count : {0}]
HistType ==
    [called : SUBSET Commands, built : SUBSET BuiltType, last : BuiltType,
     overlap : BOOLEAN, read : SUBSET UpNumbers, mistaken : BOOLEAN]
GHistType ==
    [taken : 0..MaxUp, asked : BOOLEAN, aired : SUBSET BuiltType,
     last : UpFrame \cup {NoFrame}, overlap : BOOLEAN, mistaken : BOOLEAN]

WebPlaces == {"idle", "copy", "write", "data", "flag", "askType", "addNew"}
LoopPlaces ==
    {"read", "build", "buildHead", "write", "data", "flag", "something", "sendHeader",
     "sendData", "checkAck"}

Acknowledgements == {Acknowledge(TRUE), Acknowledge(FALSE)}
DownMessage == [type : {"NORMAL"}, crc : BuiltType, data : BuiltType] \cup Acknowledgements
UpMessage == [type : {"NORMAL"}, crc : UpFrame, data : UpFrame] \cup Acknowledgements

\* Once SendMsg has copied a command, mSendFrame is made of two frames, whoever
\* writes to it.
SendFrameInv ==
    /\ sendFrame \in BuiltType
    /\ pc["web"] # "idle" => sendFrame[1] \in Half
    /\ pc["web"] \notin {"idle", "copy"} => sendFrame[2] \in Half

MasterTypeInv ==
    /\ pc \in [Threads -> WebPlaces \cup LoopPlaces]
    /\ pc["web"] \in WebPlaces /\ pc["loop"] \in LoopPlaces
    /\ SendFrameInv
    /\ slot \in SlotType
    /\ waitAck \in BOOLEAN /\ nearWrap \in BOOLEAN
    /\ listMsg \in Seq(EntryType)
    /\ cmd \in Commands \cup {NoFrame} /\ (pc["web"] = "copy" => cmd \in Commands)
    /\ dataIn \in UpFrame \cup {NoFrame}
    /\ pc["loop"] \in {"build", "buildHead"} => dataIn \in UpFrame
    /\ headerSent \in BuiltType
    /\ hist \in HistType

GatewayTypeInv ==
    /\ out \in UpFrame \cup {NoFrame}
    /\ gSomething \in BOOLEAN /\ gWait \in BOOLEAN
    /\ gHist \in GHistType

LineTypeInv ==
    /\ toGateway \in Seq(DownMessage) /\ Len(toGateway) <= MaxLine
    /\ toMaster \in Seq(UpMessage) /\ Len(toMaster) <= MaxLine

TypeInv == MasterTypeInv /\ GatewayTypeInv /\ LineTypeInv

\* Every CRC is of what mSendFrame was when it was computed.
BuiltInv ==
    /\ slot.header \in hist.built \cup {Unset}
    /\ headerSent \in hist.built \cup {Unset}
    /\ \A m \in Range(toGateway) : m.type = "NORMAL" => m.crc \in hist.built
    /\ AiredWasBuilt

\* While no exchange has overlapped another, what the line holds is of the last one.
DownInv ==
    ~hist.overlap /\ hist.last # Unset =>
        /\ \A m \in Range(toGateway) : m.type = "NORMAL" => m.data = hist.last
        /\ (\E m \in Range(toMaster) : Genuine(m)) => hist.last \in gHist.aired
        /\ ~waitAck /\ ~hist.mistaken => hist.last \in gHist.aired

UpInv ==
    ~gHist.overlap /\ gHist.last # NoFrame =>
        /\ \A m \in Range(toMaster) : m.type = "NORMAL" => m.data = gHist.last
        /\ (\E m \in Range(toGateway) : Genuine(m)) => gHist.last.n \in hist.read
        /\ ~gWait /\ ~gHist.mistaken => gHist.last.n \in hist.read

\* A node acknowledges what it was sent.
Answered(f) == f.type = "ACK" => \E d \in gHist.aired : ForNode(d, f.node)

NodeAckInv ==
    /\ Answered(out) /\ Answered(dataIn)
    /\ \A m \in Range(toMaster) : m.type = "NORMAL" => Answered(m.data)

IInv == TypeInv /\ BuiltInv /\ DownInv /\ UpInv /\ NodeAckInv

-----------------------------------------------------------------------------
(* The types *)

LEMMA TypeFollows == TypeInv => TypeOK
<1> SUFFICES ASSUME TypeInv PROVE TypeOK
  OBVIOUS
<1>1. BuiltType = Frames
  BY DEF BuiltType, Frames, MaybeHalf
<1>2. listMsg \in Seq([frame : Half \X Half, sent : BOOLEAN, count : Nat])
  <2> DEFINE Wide == [frame : Half \X Half, sent : BOOLEAN, count : Nat]
  <2>1. ASSUME NEW e \in EntryType PROVE e \in Wide
    <3>1. PICK f \in Half \X Half : e = [frame |-> f, sent |-> FALSE, count |-> 0]
      <4>1. e = [frame |-> e.frame, sent |-> FALSE, count |-> 0]
            /\ e.frame \in Half \X Half
        BY DEF EntryType
      <4> QED BY <4>1
    <3> QED BY <3>1
  <2>2. listMsg \in Seq(EntryType)
    BY DEF TypeInv, MasterTypeInv
  <2> HIDE DEF Wide
  <2>3. EntryType \subseteq Wide
    BY <2>1
  <2>4. listMsg \in Seq(Wide)
    BY <2>2, <2>3, SeqMonotonic
  <2> QED BY <2>4 DEF Wide
<1>3. gHist.aired \subseteq Frames
  BY <1>1 DEF TypeInv, GatewayTypeInv, GHistType
<1> QED
  BY <1>1, <1>2, <1>3
     DEF TypeInv, MasterTypeInv, GatewayTypeInv, LineTypeInv, TypeOK, SlotType,
         WebPlaces, LoopPlaces, SendFrameInv

\* What each step makes of the records, field by field.
LEMMA HistFields ==
    ASSUME hist \in HistType
    PROVE  /\ hist.called \in SUBSET Commands /\ hist.built \in SUBSET BuiltType
           /\ hist.last \in BuiltType /\ hist.overlap \in BOOLEAN
           /\ hist.read \in SUBSET UpNumbers /\ hist.mistaken \in BOOLEAN
           /\ \A x \in SUBSET Commands : [hist EXCEPT !.called = x] \in HistType
           /\ \A x \in SUBSET BuiltType : [hist EXCEPT !.built = x] \in HistType
           /\ \A x \in SUBSET UpNumbers : [hist EXCEPT !.read = x] \in HistType
           /\ \A x \in BOOLEAN : [hist EXCEPT !.mistaken = x] \in HistType
           /\ \A x \in BuiltType, y \in BOOLEAN :
                [hist EXCEPT !.last = x, !.overlap = y, !.mistaken = FALSE] \in HistType
  BY DEF HistType

LEMMA SlotFields ==
    ASSUME slot \in SlotType
    PROVE  /\ slot.header \in BuiltType /\ slot.data \in BuiltType
           /\ \A x \in BuiltType : [slot EXCEPT !.header = x] \in SlotType
           /\ \A x \in BuiltType : [slot EXCEPT !.data = x] \in SlotType
           /\ \A x \in BOOLEAN : [slot EXCEPT !.full = x] \in SlotType
  BY DEF SlotType

LEMMA Went ==
    ASSUME NEW t \in Threads, NEW l, MasterTypeInv, Goto(t, l),
           l \in WebPlaces \cup LoopPlaces
    PROVE  /\ pc' \in [Threads -> WebPlaces \cup LoopPlaces]
           /\ pc'[t] = l /\ \A u \in Threads : u # t => pc'[u] = pc[u]
  BY DEF MasterTypeInv, Goto

LEMMA Places ==
    /\ "web" \in Threads /\ "loop" \in Threads /\ "web" # "loop"
    /\ \A t \in Threads : t = "web" \/ t = "loop"
  BY DEF Threads

LEMMA Halves ==
    /\ Commands \subseteq Half /\ UpFrame \subseteq Half
    /\ Half \subseteq MaybeHalf /\ NoFrame \in MaybeHalf
    /\ Unset \in BuiltType
    /\ \A a, b \in MaybeHalf :
         <<a, b>> \in BuiltType /\ <<a, b>>[1] = a /\ <<a, b>>[2] = b
    /\ \A f \in BuiltType : f[1] \in MaybeHalf /\ f[2] \in MaybeHalf /\ f = <<f[1], f[2]>>
  BY DEF MaybeHalf, Half, Unset, BuiltType

\* Frames nodes send have a number and are not NoFrame.
LEMMA UpFrames ==
    /\ NoFrame.type = "none" /\ NoFrame.n = 0
    /\ \A f \in UpFrame : f.n \in UpNumbers /\ f # NoFrame
<1>1. NoFrame.type = "none" /\ NoFrame.n = 0
  BY DEF NoFrame
<1>2. \A f \in UpFrame : f.n \in 1..MaxUp
  BY DEF UpFrame
<1>3. 0 \notin 1..MaxUp
  BY MaxUpAssumption
<1> QED BY <1>1, <1>2, <1>3 DEF UpNumbers

\* The messages of the two lines, by their types.
LEMMA Messages ==
    /\ \A c, d \in BuiltType : Normal(c, d) \in DownMessage
    /\ \A f \in UpFrame : Normal(f, f) \in UpMessage
    /\ \A c, d : Normal(c, d).type = "NORMAL" /\ Normal(c, d).crc = c /\ Normal(c, d).data = d
    /\ \A m : Genuine(m) => m.type # "NORMAL"
    /\ \A m \in DownMessage : m.type = "NORMAL" => m.crc \in BuiltType /\ m.data \in BuiltType
    /\ \A m \in UpMessage : m.type = "NORMAL" => m.crc \in UpFrame /\ m.data \in UpFrame
<1>2. \A m \in Acknowledgements : m.type = "ACK_OK"
  BY DEF Acknowledge, Acknowledgements
<1>3. \A c, d : Normal(c, d).type = "NORMAL" /\ Normal(c, d).crc = c /\ Normal(c, d).data = d
  BY DEF Normal
<1>4. \A c, d \in BuiltType : Normal(c, d) \in DownMessage
  BY DEF Normal, DownMessage
<1>5. \A f \in UpFrame : Normal(f, f) \in UpMessage
  BY DEF Normal, UpMessage
<1>6. \A m \in DownMessage : m.type = "NORMAL" => m.crc \in BuiltType /\ m.data \in BuiltType
  BY <1>2 DEF DownMessage
<1>7. \A m \in UpMessage : m.type = "NORMAL" => m.crc \in UpFrame /\ m.data \in UpFrame
  BY <1>2 DEF UpMessage
<1> QED BY <1>3, <1>4, <1>5, <1>6, <1>7 DEF Genuine

\* What is written back for a message that was read.
Answer(m) == Acknowledge(m # Empty)

LEMMA Answers ==
    ASSUME NEW m
    PROVE  /\ Answer(m) \in DownMessage /\ Answer(m) \in UpMessage
           /\ Answer(m).type # "NORMAL"
           /\ m = Empty => ~Genuine(Answer(m))
<1>1. CASE m = Empty
  <2>1. Answer(m) = [type |-> "ACK_OK", genuine |-> FALSE]
    BY <1>1 DEF Answer, Acknowledge
  <2>2. Acknowledge(FALSE) = [type |-> "ACK_OK", genuine |-> FALSE]
    BY DEF Acknowledge
  <2>3. Answer(m) \in Acknowledgements
    BY <2>1, <2>2 DEF Acknowledgements
  <2> QED BY <2>1, <2>3 DEF DownMessage, UpMessage, Genuine
<1>2. CASE m # Empty
  <2>1. Answer(m) = [type |-> "ACK_OK", genuine |-> TRUE]
    BY <1>2 DEF Answer, Acknowledge
  <2>2. Acknowledge(TRUE) = [type |-> "ACK_OK", genuine |-> TRUE]
    BY DEF Acknowledge
  <2>3. Answer(m) \in Acknowledgements
    BY <2>1, <2>2 DEF Acknowledgements
  <2> QED BY <1>2, <2>1, <2>3 DEF DownMessage, UpMessage
<1> QED BY <1>1, <1>2

\* A message heard as one with data is whole and what it is, or has no data.
LEMMA WhatIsHeard ==
    ASSUME NEW m, NEW x \in Heard(m), x.type = "NORMAL"
    PROVE  x = Empty \/ (x = m /\ m.type = "NORMAL" /\ m.crc = m.data)
<1>1. Ack.type = "ACK_OK" /\ Nok.type = "ACK_NOK" /\ Nothing.type = "none"
  BY DEF Ack, Nok, Nothing
<1>2. CASE m.type # "NORMAL"
  <2>1. Heard(m) = {Nothing} \cup {Ack, Nok, Empty}
    BY <1>2 DEF Heard
  <2> QED BY <1>1, <2>1
<1>3. CASE m.type = "NORMAL" /\ m.crc = m.data
  <2>1. Heard(m) = {Nothing} \cup {m, Ack, Nok}
    BY <1>3 DEF Heard
  <2> QED BY <1>1, <1>3, <2>1
<1>4. CASE m.type = "NORMAL" /\ m.crc # m.data
  <2>1. Heard(m) = {Nothing} \cup {}
    BY <1>4 DEF Heard
  <2> QED BY <1>1, <2>1
<1> QED BY <1>2, <1>3, <1>4

\* A reading of a message, by what the master and the gateway do with it.
LEMMA ReadingOf ==
    ASSUME NEW S, NEW line \in Seq(S), line # <<>>, NEW m \in Heard(Head(line)),
           m.type = "NORMAL", m # Empty
    PROVE  m = Head(line) /\ m \in Range(line) /\ m \in S /\ m.crc = m.data
  BY WhatIsHeard, RestOfLine

LEMMA InitType == Init => TypeInv
<1> SUFFICES ASSUME Init PROVE TypeInv
  OBVIOUS
<1> USE DEF Init
<1>1. hist \in HistType /\ slot \in SlotType
  BY Halves DEF MasterInit, HistType, SlotType
<1>2. listMsg \in Seq(EntryType) /\ toGateway \in Seq(DownMessage)
      /\ toMaster \in Seq(UpMessage)
  <2>1. <<>> \in Seq(EntryType) /\ <<>> \in Seq(DownMessage) /\ <<>> \in Seq(UpMessage)
    OBVIOUS
  <2> QED BY <2>1 DEF MasterInit, LineInit
<1>3. gHist \in GHistType /\ out = NoFrame
  <2>1. G!NoFrame = NoFrame
    BY DEF G!NoFrame, NoFrame
  <2> QED BY <2>1, MaxUpAssumption DEF G!GatewayInit, GHistType
<1>4. MasterTypeInv
  <2>1. /\ pc \in [Threads -> WebPlaces \cup LoopPlaces]
        /\ pc["web"] = "idle" /\ pc["loop"] = "read"
    BY DEF MasterInit, Threads, WebPlaces, LoopPlaces
  <2> QED BY <1>1, <1>2, <2>1, Halves
          DEF MasterInit, MasterTypeInv, WebPlaces, LoopPlaces, SendFrameInv
<1>5. GatewayTypeInv
  BY <1>3 DEF G!GatewayInit, GatewayTypeInv
<1>6. LineTypeInv
  <2>1. Len(toGateway) = 0 /\ Len(toMaster) = 0
    BY DEF LineInit
  <2> QED BY <1>2, <2>1, MaxLineAssumption DEF LineTypeInv
<1> QED BY <1>4, <1>5, <1>6 DEF TypeInv

\* The web thread keeps the types of the master.
LEMMA WebType == TypeInv /\ MasterWeb => MasterTypeInv' /\ UNCHANGED lineVars
<1> SUFFICES ASSUME TypeInv, MasterWeb PROVE MasterTypeInv' /\ UNCHANGED lineVars
  OBVIOUS
<1>0. MasterTypeInv /\ sendFrame \in BuiltType
  BY DEF TypeInv, MasterTypeInv, SendFrameInv
<1>1. ASSUME NEW c \in Commands, SendMsg(c) PROVE MasterTypeInv' /\ UNCHANGED lineVars
  <2>1. pc'["web"] = "copy" /\ pc'["loop"] = pc["loop"]
        /\ pc' \in [Threads -> WebPlaces \cup LoopPlaces]
    BY <1>0, <1>1, Went, Places DEF SendMsg, WebPlaces
  <2>2. sendFrame' \in BuiltType /\ sendFrame'[1] \in Half
    BY <1>0, <1>1, Halves DEF SendMsg
  <2>3. hist' \in HistType
    <3>1. hist.called \cup {c} \in SUBSET Commands
      BY <1>0, HistFields DEF MasterTypeInv
    <3> QED BY <1>0, <1>1, <3>1, HistFields DEF SendMsg, MasterTypeInv
  <2> QED BY <1>0, <1>1, <2>1, <2>2, <2>3 DEF SendMsg, MasterTypeInv, WebPlaces, SendFrameInv
<1>2. CASE CopyData
  <2>1. pc'["web"] = "write" /\ pc'["loop"] = pc["loop"] /\ pc["web"] = "copy"
        /\ pc' \in [Threads -> WebPlaces \cup LoopPlaces]
    BY <1>0, <1>2, Went, Places DEF CopyData, WebPlaces
  <2>2. sendFrame' \in BuiltType /\ sendFrame'[1] \in Half /\ sendFrame'[2] \in Half
    BY <1>0, <1>2, <2>1, Halves DEF CopyData, MasterTypeInv, SendFrameInv
  <2> QED BY <1>0, <1>2, <2>1, <2>2 DEF CopyData, MasterTypeInv, WebPlaces, SendFrameInv
<1>3. CASE AskType
  <2>1. \E l \in {"addNew", "idle"} : Goto("web", l)
    BY <1>3 DEF AskType
  <2>2. /\ pc'["web"] \in {"addNew", "idle"} /\ pc'["loop"] = pc["loop"]
        /\ pc' \in [Threads -> WebPlaces \cup LoopPlaces] /\ pc["web"] = "askType"
    BY <1>0, <1>3, <2>1, Went, Places DEF AskType, WebPlaces
  <2>3. UNCHANGED <<sendFrame, slot, waitAck, listMsg, cmd, dataIn, nearWrap, headerSent,
                    hist, lineVars>>
    BY <1>3 DEF AskType
  <2> QED BY <1>0, <2>2, <2>3 DEF MasterTypeInv, WebPlaces, SendFrameInv
<1>4. CASE AddNew
  <2>1. pc'["web"] = "idle" /\ pc'["loop"] = pc["loop"] /\ pc["web"] = "addNew"
        /\ pc' \in [Threads -> WebPlaces \cup LoopPlaces]
    BY <1>0, <1>4, Went, Places DEF AddNew, WebPlaces
  <2>2. listMsg' \in Seq(EntryType)
    <3>1. [frame |-> sendFrame, sent |-> FALSE, count |-> 0] \in EntryType
      <4>1. sendFrame \in Half \X Half
        BY <1>0, <2>1, Halves DEF MasterTypeInv, SendFrameInv
      <4> QED BY <4>1 DEF EntryType
    <3> QED BY <1>0, <1>4, <3>1, AppendProperties DEF AddNew, MasterTypeInv
  <2> QED BY <1>0, <1>4, <2>1, <2>2 DEF AddNew, MasterTypeInv, WebPlaces, SendFrameInv
<1> QED BY <1>1, <1>2, <1>3, <1>4 DEF MasterWeb

\* WriteMsg keeps them, in either thread.
LEMMA WriteType ==
    ASSUME NEW t \in Threads, TypeInv, WriteMsg(t)
    PROVE  MasterTypeInv' /\ UNCHANGED lineVars
<1>0. MasterTypeInv
  BY DEF TypeInv
<1> DEFINE l == pc'[t]
<1>1. /\ UNCHANGED <<sendFrame, waitAck, listMsg, cmd, dataIn, nearWrap, headerSent, lineVars>>
      /\ l \in {"data", "flag", After(t)} /\ Goto(t, l)
      /\ pc[t] \in {"write", "data", "flag"}
  <2>1. t \in DOMAIN pc
    BY <1>0 DEF MasterTypeInv
  <2> QED BY <2>1
          DEF WriteMsg, WriteRefused, WriteHeader, WriteData, WriteFlag, Goto
<1>2. /\ pc' \in [Threads -> WebPlaces \cup LoopPlaces]
      /\ pc'["web"] \in WebPlaces /\ pc'["loop"] \in LoopPlaces
      /\ pc'["web"] # "copy" \/ pc'["web"] = pc["web"]
      /\ pc'["loop"] \notin {"build", "buildHead"} \/ pc'["loop"] = pc["loop"]
  BY <1>0, <1>1, Went, Places DEF MasterTypeInv, After, WebPlaces, LoopPlaces
<1>5. /\ pc'["web"] # "idle" => pc["web"] # "idle"
      /\ pc'["web"] \notin {"idle", "copy"} => pc["web"] \notin {"idle", "copy"}
  BY <1>0, <1>1, Went, Places DEF MasterTypeInv, After, WebPlaces, LoopPlaces
<1>3. slot' \in SlotType
  BY <1>0, SlotFields
     DEF WriteMsg, WriteRefused, WriteHeader, WriteData, WriteFlag, MasterTypeInv, SendFrameInv
<1>4. hist' \in HistType
  <2>1. hist.built \cup {sendFrame} \in SUBSET BuiltType
    BY <1>0, HistFields DEF MasterTypeInv, SendFrameInv
  <2> QED BY <1>0, <2>1, HistFields
          DEF WriteMsg, WriteRefused, WriteHeader, WriteData, WriteFlag, MasterTypeInv
<1> QED BY <1>0, <1>1, <1>2, <1>3, <1>4, <1>5 DEF MasterTypeInv, SendFrameInv

\* The frame of which ManageNewMsg is called.
LEMMA FrameRead ==
    ASSUME TypeInv, toMaster # <<>>
    PROVE  /\ DataRead \in UpFrame \cup {NoFrame}
           /\ NodeAckInv => Answered(DataRead)
<1>1. Head(toMaster) \in UpMessage /\ Head(toMaster) \in Range(toMaster)
  BY RestOfLine DEF TypeInv, LineTypeInv
<1>2. dataIn \in UpFrame \cup {NoFrame}
  BY DEF TypeInv, MasterTypeInv
<1> QED BY <1>1, <1>2, Messages DEF DataRead, NodeAckInv

\* So does Loop.
LEMMA LoopType == TypeInv /\ MasterLoop => MasterTypeInv' /\ LineTypeInv'
<1> SUFFICES ASSUME TypeInv, MasterLoop PROVE MasterTypeInv' /\ LineTypeInv'
  OBVIOUS
<1>0. MasterTypeInv /\ LineTypeInv /\ sendFrame \in BuiltType
  BY DEF TypeInv, MasterTypeInv, SendFrameInv
<1>1. ASSUME NEW l \in LoopPlaces, Goto("loop", l)
      PROVE  /\ pc' \in [Threads -> WebPlaces \cup LoopPlaces]
             /\ pc'["loop"] = l /\ pc'["web"] = pc["web"]
             /\ UNCHANGED sendFrame => SendFrameInv'
  BY <1>0, <1>1, Went, Places DEF MasterTypeInv, SendFrameInv
<1>2. toMaster # <<>> => /\ Head(toMaster) \in UpMessage
                         /\ Tail(toMaster) \in Seq(UpMessage) /\ Len(Tail(toMaster)) <= MaxLine
  BY <1>0, RestOfLine DEF LineTypeInv
<1>3. CASE ReadNothing \/ ReadAckOk \/ ReadAckNok
  <2>1. \E l \in {"something", "checkAck", "sendHeader"} : Goto("loop", l) /\ l \in LoopPlaces
    BY <1>3 DEF ReadNothing, ReadAckOk, ReadAckNok, LoopPlaces
  <2>2. UNCHANGED <<sendFrame, slot, listMsg, cmd, nearWrap, headerSent, toGateway>>
        /\ waitAck' \in BOOLEAN
    BY <1>0, <1>3 DEF ReadNothing, ReadAckOk, ReadAckNok, MasterTypeInv
  <2>3. toMaster' = toMaster \/ (toMaster # <<>> /\ toMaster' = Tail(toMaster))
    BY <1>3 DEF ReadNothing, ReadAckOk, ReadAckNok
  <2>4. LineTypeInv'
    BY <1>0, <1>2, <2>2, <2>3 DEF LineTypeInv
  <2>5. dataIn' \in UpFrame \cup {NoFrame}
    BY <1>0, <1>3, FrameRead DEF ReadNothing, ReadAckOk, ReadAckNok, MasterTypeInv
  <2>6. hist' \in HistType
    <3>1. CASE ReadAckOk
      <4> DEFINE x == hist.mistaken \/ (waitAck /\ ~Genuine(Head(toMaster)))
      <4>1. hist' = [hist EXCEPT !.mistaken = x] /\ x \in BOOLEAN
        BY <3>1 DEF ReadAckOk
      <4> HIDE DEF x
      <4> QED BY <1>0, <4>1, HistFields DEF MasterTypeInv
    <3>2. CASE ReadNothing \/ ReadAckNok
      BY <1>0, <3>2 DEF ReadNothing, ReadAckNok, MasterTypeInv
    <3> QED BY <1>3, <3>1, <3>2
  <2>7. PICK l \in {"something", "checkAck", "sendHeader"} : Goto("loop", l) /\ l \in LoopPlaces
    BY <2>1
  <2>8. MasterTypeInv'
    BY <1>0, <1>1, <2>2, <2>5, <2>6, <2>7 DEF MasterTypeInv
  <2> QED BY <2>4, <2>8
<1>4. ASSUME NEW m \in Heard(Head(toMaster)), ReadMessage(m)
      PROVE  MasterTypeInv' /\ LineTypeInv'
  <2> DEFINE frame == DataRead
  <2>1. /\ toMaster # <<>> /\ m.type = "NORMAL"
        /\ toMaster' = Tail(toMaster) /\ toGateway' = Written(toGateway, Answer(m))
        /\ dataIn' = frame
        /\ hist' = [hist EXCEPT !.read = hist.read \cup IF m = Empty THEN {} ELSE {m.data.n}]
        /\ UNCHANGED <<sendFrame, slot, waitAck, cmd, nearWrap, headerSent>>
        /\ listMsg' = IF frame.type = "ACK" THEN Erased(listMsg, frame.node) ELSE listMsg
        /\ Goto("loop", IF frame.type = "ETAT_ACK" THEN "build" ELSE "checkAck")
    BY <1>4 DEF ReadMessage, ManageNewMsg, Answer
  <2>2. frame \in UpFrame \cup {NoFrame}
    BY <2>1, FrameRead
  <2> HIDE DEF frame
  <2>3. LineTypeInv'
    <3>1. Answer(m) \in DownMessage
      BY Answers
    <3>2. toGateway \in Seq(DownMessage) /\ Len(toGateway) <= MaxLine
      BY <1>0 DEF LineTypeInv
    <3>3. toGateway' \in Seq(DownMessage) /\ Len(toGateway') <= MaxLine
      BY <2>1, <3>1, <3>2, WrittenLine
    <3> QED BY <1>2, <2>1, <3>3 DEF LineTypeInv
  <2>4. hist' \in HistType
    <3>1. (IF m = Empty THEN {} ELSE {m.data.n}) \subseteq UpNumbers
      <4>1. CASE m # Empty
        <5>1. m = Head(toMaster)
          BY <2>1, <4>1, WhatIsHeard
        <5> QED BY <1>2, <2>1, <5>1, Messages, UpFrames
      <4> QED BY <4>1
    <3>2. hist.read \cup (IF m = Empty THEN {} ELSE {m.data.n}) \in SUBSET UpNumbers
      BY <1>0, <3>1, HistFields DEF MasterTypeInv
    <3> QED BY <1>0, <2>1, <3>2, HistFields DEF MasterTypeInv
  <2>5. listMsg' \in Seq(EntryType)
    BY <1>0, <2>1, ErasedList DEF MasterTypeInv
  <2>6. PICK l \in {"build", "checkAck"} :
          Goto("loop", l) /\ (l = "build" => frame.type = "ETAT_ACK") /\ l \in LoopPlaces
    BY <2>1 DEF LoopPlaces
  <2>7. l = "build" => frame \in UpFrame
    BY <2>2, <2>6, UpFrames
  <2>8. /\ pc' \in [Threads -> WebPlaces \cup LoopPlaces]
        /\ pc'["loop"] = l /\ pc'["web"] = pc["web"] /\ SendFrameInv'
    BY <1>1, <2>1, <2>6
  <2> QED BY <1>0, <2>1, <2>2, <2>3, <2>4, <2>5, <2>6, <2>7, <2>8 DEF MasterTypeInv
<1>5. CASE BuildData
  <2>1. Goto("loop", "buildHead") /\ "buildHead" \in LoopPlaces
    BY <1>5 DEF BuildData, LoopPlaces
  <2>2. sendFrame' \in BuiltType /\ sendFrame'[1] = sendFrame[1] /\ sendFrame'[2] \in Half
    BY <1>0, <1>5, Halves DEF BuildData, MasterTypeInv
  <2>3. SendFrameInv'
    BY <1>0, <1>1, <2>1, <2>2 DEF MasterTypeInv, SendFrameInv
  <2> QED BY <1>0, <1>1, <1>5, <2>1, <2>3 DEF BuildData, MasterTypeInv, LineTypeInv, lineVars
<1>6. CASE BuildHead
  <2>1. Goto("loop", "write") /\ "write" \in LoopPlaces
    BY <1>6 DEF BuildHead, LoopPlaces
  <2>2. sendFrame' \in BuiltType /\ sendFrame'[2] = sendFrame[2] /\ sendFrame'[1] \in Half
    BY <1>0, <1>6, Halves DEF BuildHead, MasterTypeInv
  <2>3. SendFrameInv'
    BY <1>0, <1>1, <2>1, <2>2 DEF MasterTypeInv, SendFrameInv
  <2> QED BY <1>0, <1>1, <1>6, <2>1, <2>3 DEF BuildHead, MasterTypeInv, LineTypeInv, lineVars
<1>7. CASE TakeSlot \/ Resend \/ NothingToSend \/ SendHeader
  <2>1. \E l \in {"sendHeader", "checkAck", "sendData"} : Goto("loop", l) /\ l \in LoopPlaces
    BY <1>7 DEF TakeSlot, Resend, NothingToSend, SendHeader, LoopPlaces
  <2>2. slot' \in SlotType /\ headerSent' \in BuiltType
    BY <1>0, <1>7, SlotFields
       DEF TakeSlot, Resend, NothingToSend, SendHeader, MasterTypeInv
  <2>3. UNCHANGED <<sendFrame, waitAck, listMsg, cmd, dataIn, nearWrap, hist, lineVars>>
    BY <1>7 DEF TakeSlot, Resend, NothingToSend, SendHeader
  <2> QED BY <1>0, <1>1, <2>1, <2>2, <2>3 DEF MasterTypeInv, LineTypeInv, lineVars
<1>8. CASE SendData
  <2>1. Goto("loop", "checkAck") /\ "checkAck" \in LoopPlaces
    BY <1>8 DEF SendData, LoopPlaces
  <2>2. hist' \in HistType
    <3>1. InFlight(toGateway, toMaster) \in BOOLEAN
      BY DEF InFlight
    <3> QED BY <1>0, <1>8, <3>1, HistFields, SlotFields DEF SendData, MasterTypeInv
  <2>3. Normal(headerSent, slot.data) \in DownMessage
    BY <1>0, SlotFields, Messages DEF MasterTypeInv
  <2>4. LineTypeInv'
    BY <1>0, <1>8, <2>3, WrittenLine DEF SendData, Sent, LineTypeInv
  <2> QED BY <1>0, <1>1, <1>8, <2>1, <2>2, <2>4, Halves DEF SendData, MasterTypeInv
<1>9. CASE CheckACK
  <2>1. Goto("loop", "read") /\ "read" \in LoopPlaces
    BY <1>9 DEF CheckACK, LoopPlaces
  <2>2. {k \in DOMAIN listMsg : listMsg[k].sent} = {}
    <3>1. \A k \in DOMAIN listMsg : listMsg[k] \in EntryType
      BY <1>0 DEF MasterTypeInv
    <3> QED BY <3>1 DEF EntryType
  <2>3. listMsg' = listMsg /\ slot' = slot
    BY <1>9, <2>2 DEF CheckACK
  <2>4. UNCHANGED <<sendFrame, waitAck, cmd, dataIn, nearWrap, headerSent, hist, lineVars>>
    BY <1>9 DEF CheckACK
  <2> QED BY <1>0, <1>1, <2>1, <2>3, <2>4 DEF MasterTypeInv, LineTypeInv, lineVars
<1> QED
  BY <1>3, <1>4, <1>5, <1>6, <1>7, <1>8, <1>9 DEF MasterLoop

LEMMA MasterType == TypeInv /\ Master => TypeInv'
<1> SUFFICES ASSUME TypeInv, Master PROVE TypeInv'
  OBVIOUS
<1>1. GatewayTypeInv'
  BY DEF Master, TypeInv, GatewayTypeInv, gatewayVars
<1>2. UNCHANGED lineVars => LineTypeInv'
  BY DEF TypeInv, LineTypeInv, lineVars
<1> QED BY <1>1, <1>2, WebType, WriteType, LoopType DEF Master, MasterNext, TypeInv

-----------------------------------------------------------------------------
(* A pass of the gateway's loop *)

\* The gateway's definitions of the line are the master's.
LEMMA SameLine ==
    /\ G!NoFrame = NoFrame /\ G!Ack = Ack /\ G!Nok = Nok /\ G!Nothing = Nothing
    /\ G!Empty = Empty
    /\ \A c, d : G!Normal(c, d) = Normal(c, d)
    /\ \A m : G!Heard(m) = Heard(m)
    /\ \A m : G!Genuine(m) <=> Genuine(m)
    /\ \A x : G!Acknowledge(x) = Acknowledge(x)
    /\ \A line, m : G!Written(line, m) = Written(line, m)
    /\ \A a, b : G!InFlight(a, b) <=> InFlight(a, b)
<1>1. G!NoFrame = NoFrame /\ G!Ack = Ack /\ G!Nok = Nok /\ G!Nothing = Nothing
  BY DEF G!NoFrame, NoFrame, G!Ack, Ack, G!Nok, Nok, G!Nothing, Nothing
<1>2. \A c, d : G!Normal(c, d) = Normal(c, d)
  BY DEF G!Normal, Normal
<1>3. G!Empty = Empty
  BY <1>1, <1>2 DEF G!Empty, Empty
<1>4. \A m : G!Heard(m) = Heard(m)
  BY <1>1, <1>3 DEF G!Heard, Heard
<1>5. /\ \A m : G!Genuine(m) <=> Genuine(m)
      /\ \A x : G!Acknowledge(x) = Acknowledge(x)
      /\ \A line, m : G!Written(line, m) = Written(line, m)
      /\ \A a, b : G!InFlight(a, b) <=> InFlight(a, b)
  BY DEF G!Genuine, Genuine, G!Acknowledge, Acknowledge, G!Written, Written,
         G!InFlight, InFlight
<1> QED BY <1>1, <1>2, <1>3, <1>4, <1>5

\* What the radio may have received, and what the buffer then holds.
LEMMA FrameOfPass ==
    ASSUME GatewayTypeInv, NEW f \in G!Received
    PROVE  /\ f # NoFrame => f \in UpFrame /\ f.n \in 0..MaxUp
           /\ G!Buffered(f) \in UpFrame \cup {NoFrame}
           /\ NodeAckInv => Answered(G!Buffered(f))
<1>1. CASE f = NoFrame
  BY <1>1, SameLine DEF G!Buffered, GatewayTypeInv, NodeAckInv
<1>2. CASE f # NoFrame
  <2>1. /\ f \in [n : {gHist.taken + 1}, type : RfTypes, node : Nodes] /\ gHist.taken # MaxUp
        /\ f.type = "ACK" => \E d \in gHist.aired : ForNode(d, f.node)
    BY <1>2, SameLine DEF G!Received
  <2>2. gHist.taken \in 0..MaxUp
    BY DEF GatewayTypeInv, GHistType
  <2>3. gHist.taken + 1 \in 1..MaxUp /\ gHist.taken + 1 \in 0..MaxUp
    BY <2>1, <2>2, MaxUpAssumption
  <2>4. f \in UpFrame /\ f.n \in 0..MaxUp
    BY <2>1, <2>3 DEF UpFrame
  <2> QED BY <1>2, <2>1, <2>4, SameLine DEF G!Buffered, Answered
<1> QED BY <1>1, <1>2

\* The history of a pass.
LEMMA HistOfPass ==
    ASSUME GatewayTypeInv, NEW f \in G!Received, NEW again \in BOOLEAN
    PROVE  LET h == G!Recorded(f, again)
           IN  /\ h \in GHistType
               /\ h.aired = gHist.aired
               /\ h.last = IF again THEN G!Buffered(f) ELSE gHist.last
               /\ h.overlap = IF again THEN InFlight(toMaster, toGateway') ELSE gHist.overlap
               /\ h.mistaken = (~again /\ gHist.mistaken)
               /\ \A x \in SUBSET BuiltType : [h EXCEPT !.aired = x] \in GHistType
               /\ \A x \in BOOLEAN : [h EXCEPT !.overlap = x] \in GHistType
               /\ \A x \in BOOLEAN : [h EXCEPT !.mistaken = x] \in GHistType
<1> DEFINE taken == IF f = NoFrame THEN gHist.taken ELSE f.n
           asked == gHist.asked \/ f.type = "ETAT_ACK"
           last == IF again THEN G!Buffered(f) ELSE gHist.last
           overlap == IF again THEN InFlight(toMaster, toGateway') ELSE gHist.overlap
           mistaken == ~again /\ gHist.mistaken
           h == [gHist EXCEPT !.taken = taken, !.asked = asked, !.last = last,
                              !.overlap = overlap, !.mistaken = mistaken]
<1>1. gHist \in GHistType
  BY DEF GatewayTypeInv
<1>2. G!Recorded(f, again) = h
  <2>1. G!InFlight(toMaster, toGateway') = InFlight(toMaster, toGateway')
    BY DEF G!InFlight, InFlight
  <2> QED BY <2>1, SameLine DEF G!Recorded
<1>3. taken \in 0..MaxUp
  BY <1>1, FrameOfPass DEF GHistType
<1>4. last \in UpFrame \cup {NoFrame}
  BY <1>1, FrameOfPass DEF GHistType
<1>5. asked \in BOOLEAN /\ overlap \in BOOLEAN /\ mistaken \in BOOLEAN
  <2>1. InFlight(toMaster, toGateway') \in BOOLEAN
    BY DEF InFlight
  <2> QED BY <1>1, <2>1 DEF GHistType
<1> HIDE DEF taken, asked, last, overlap, mistaken
<1>6. /\ h \in GHistType /\ h.aired = gHist.aired /\ h.last = last /\ h.overlap = overlap
      /\ h.mistaken = mistaken
  BY <1>1, <1>3, <1>4, <1>5 DEF GHistType
<1>7. /\ \A x \in SUBSET BuiltType : [h EXCEPT !.aired = x] \in GHistType
      /\ \A x \in BOOLEAN : [h EXCEPT !.overlap = x] \in GHistType
      /\ \A x \in BOOLEAN : [h EXCEPT !.mistaken = x] \in GHistType
  <2> HIDE DEF h
  <2> QED BY <1>6 DEF GHistType
<1> HIDE DEF h
<1> QED BY <1>2, <1>6, <1>7 DEF last, overlap, mistaken

\* The lines are still lines after the pass; what comes from the master is not more.
LinesOfPass ==
    /\ toGateway' \in Seq(DownMessage) /\ Len(toGateway') <= MaxLine
    /\ Range(toGateway') \subseteq Range(toGateway)
    /\ toMaster' \in Seq(UpMessage) /\ Len(toMaster') <= MaxLine

\* What a pass adds to the line by writing the buffer b to it.
AddsOnly(b) ==
    \A m \in Range(toMaster') : m \in Range(toMaster) \/ (b # NoFrame /\ m = Normal(b, b))

\* A pass that writes the buffer to the line.
PassSends(f) ==
    /\ gWait' /\ AddsOnly(G!Buffered(f))
    /\ gHist'.last = G!Buffered(f)
    /\ ~gHist'.overlap => ~InFlight(toMaster, toGateway')

\* A pass that writes nothing: if the wait ends with it, and not by mistake, there was
\* an acknowledgement of a frame.
PassWaits ==
    /\ UNCHANGED toMaster
    /\ gHist'.last = gHist.last /\ gHist'.overlap = gHist.overlap
    /\ ~gWait' /\ ~gHist'.mistaken =>
         (~gWait /\ ~gHist.mistaken) \/ \E m \in Range(toGateway) : Genuine(m)

QuietPass ==
    /\ LinesOfPass
    /\ gSomething' = FALSE /\ gWait' \in BOOLEAN
    /\ gHist' \in GHistType /\ gHist'.aired = gHist.aired
    /\ \E f \in G!Received : out' = G!Buffered(f) /\ (PassSends(f) \/ PassWaits)

\* What is read from the line, if anything.
LEMMA ReadOfPass ==
    ASSUME LineTypeInv, toGateway' = toGateway \/ (toGateway # <<>> /\ toGateway' = Tail(toGateway))
    PROVE  /\ toGateway' \in Seq(DownMessage) /\ Len(toGateway') <= MaxLine
           /\ Range(toGateway') \subseteq Range(toGateway)
  BY RestOfLine DEF LineTypeInv

\* Writing the buffer again to a line.
LEMMA BufferWritten ==
    ASSUME GatewayTypeInv, NEW f \in G!Received, NEW line \in Seq(UpMessage), Len(line) <= MaxLine
    PROVE  LET b == G!Buffered(f)
               now == G!WrittenAgain(line, f)
           IN  /\ now \in Seq(UpMessage) /\ Len(now) <= MaxLine
               /\ \A m \in Range(now) : m \in Range(line) \/ (b # NoFrame /\ m = Normal(b, b))
<1> DEFINE b == G!Buffered(f)
<1>1. b \in UpFrame \cup {NoFrame}
  BY FrameOfPass
<1>2. G!WrittenAgain(line, f) = IF b = NoFrame THEN line ELSE Written(line, Normal(b, b))
  BY SameLine DEF G!WrittenAgain
<1> HIDE DEF b
<1>3. CASE b = NoFrame
  BY <1>2, <1>3 DEF b
<1>4. CASE b # NoFrame
  <2>1. Normal(b, b) \in UpMessage
    BY <1>1, <1>4, Messages
  <2>2. /\ Written(line, Normal(b, b)) \in Seq(UpMessage)
        /\ Len(Written(line, Normal(b, b))) <= MaxLine
        /\ Range(Written(line, Normal(b, b))) \subseteq Range(line) \cup {Normal(b, b)}
    BY <2>1, WrittenLine
  <2> QED BY <1>2, <1>4, <2>2 DEF b
<1> QED BY <1>3, <1>4

\* What Rest leaves, when the wait is not ended or something was read that ends it.
LEMMA RestOfPass ==
    ASSUME TypeInv, NEW f \in G!Received, NEW waiting \in BOOLEAN, NEW mistake \in BOOLEAN,
           ~waiting /\ ~mistake => ~gWait \/ \E m \in Range(toGateway) : Genuine(m),
           toGateway' = toGateway \/ (toGateway # <<>> /\ toGateway' = Tail(toGateway)),
           G!Rest(f, waiting, mistake)
    PROVE  QuietPass
<1>1. GatewayTypeInv /\ LineTypeInv
  BY DEF TypeInv
<1>2. out' = G!Buffered(f) /\ gSomething' = FALSE
  BY DEF G!Rest
<1>3. CASE (G!Pending(f) \/ waiting) /\ G!SendBufAgain(f) /\ gHist' = G!Recorded(f, TRUE)
  <2>1. toMaster' = G!WrittenAgain(toMaster, f) /\ gWait' = TRUE
    BY <1>3 DEF G!SendBufAgain
  <2>2. toMaster' \in Seq(UpMessage) /\ Len(toMaster') <= MaxLine /\ AddsOnly(G!Buffered(f))
    BY <1>1, <2>1, BufferWritten DEF LineTypeInv, AddsOnly
  <2>3. /\ gHist' \in GHistType /\ gHist'.aired = gHist.aired
        /\ gHist'.last = G!Buffered(f)
        /\ gHist'.overlap = InFlight(toMaster, toGateway')
    BY <1>1, <1>3, HistOfPass
  <2> QED BY <1>1, <1>2, <2>1, <2>2, <2>3, ReadOfPass DEF QuietPass, LinesOfPass, PassSends
<1>4. CASE /\ ~G!Pending(f) /\ gWait' = waiting /\ UNCHANGED toMaster
           /\ gHist' = [G!Recorded(f, FALSE) EXCEPT !.mistaken = @ \/ mistake]
  <2> DEFINE h == G!Recorded(f, FALSE)
  <2>1. /\ h \in GHistType /\ h.aired = gHist.aired /\ h.last = gHist.last
        /\ h.overlap = gHist.overlap /\ h.mistaken = gHist.mistaken
        /\ \A x \in BOOLEAN : [h EXCEPT !.mistaken = x] \in GHistType
    <3>1. gHist.mistaken \in BOOLEAN
      BY <1>1 DEF GatewayTypeInv, GHistType
    <3> QED BY <1>1, <3>1, HistOfPass
  <2>2. gHist' = [h EXCEPT !.mistaken = h.mistaken \/ mistake]
    BY <1>4
  <2> HIDE DEF h
  <2>3. h.mistaken \/ mistake \in BOOLEAN
    BY <2>1 DEF GHistType
  <2>4. /\ gHist' \in GHistType /\ gHist'.aired = gHist.aired
        /\ gHist'.last = gHist.last /\ gHist'.overlap = gHist.overlap
        /\ gHist'.mistaken = (gHist.mistaken \/ mistake)
    BY <2>1, <2>2, <2>3 DEF GHistType
  <2>5. PassWaits
    BY <1>4, <2>4 DEF PassWaits
  <2>6. gWait' \in BOOLEAN
    BY <1>4
  <2> QED BY <1>1, <1>2, <1>4, <2>4, <2>5, <2>6, ReadOfPass
          DEF QuietPass, LinesOfPass, LineTypeInv
<1> QED BY <1>3, <1>4 DEF G!Rest

LEMMA NokOfPass == TypeInv /\ G!LoopAckNok => QuietPass
<1> SUFFICES ASSUME TypeInv, G!LoopAckNok PROVE QuietPass
  OBVIOUS
<1>1. GatewayTypeInv /\ LineTypeInv
  BY DEF TypeInv
<1>2. PICK f \in G!Received :
        /\ toGateway # <<>> /\ toGateway' = Tail(toGateway)
        /\ out' = G!Buffered(f) /\ gSomething' = FALSE /\ gWait' = TRUE
        /\ LET once == G!WrittenAgain(toMaster, f)
           IN  toMaster' = IF G!Pending(f) THEN G!WrittenAgain(once, f) ELSE once
        /\ gHist' = [G!Recorded(f, TRUE) EXCEPT !.overlap = @ \/ G!Pending(f)]
  BY DEF G!LoopAckNok
<1> DEFINE once == G!WrittenAgain(toMaster, f)
           b == G!Buffered(f)
<1>3. toMaster' = once \/ toMaster' = G!WrittenAgain(once, f)
  BY <1>2
<1>4. /\ once \in Seq(UpMessage) /\ Len(once) <= MaxLine
      /\ \A m \in Range(once) : m \in Range(toMaster) \/ (b # NoFrame /\ m = Normal(b, b))
  BY <1>1, BufferWritten DEF LineTypeInv
<1> HIDE DEF once
<1>5. /\ G!WrittenAgain(once, f) \in Seq(UpMessage) /\ Len(G!WrittenAgain(once, f)) <= MaxLine
      /\ \A m \in Range(G!WrittenAgain(once, f)) :
           m \in Range(once) \/ (b # NoFrame /\ m = Normal(b, b))
  BY <1>1, <1>4, BufferWritten
<1>6. /\ toMaster' \in Seq(UpMessage) /\ Len(toMaster') <= MaxLine /\ AddsOnly(b)
  BY <1>3, <1>4, <1>5 DEF AddsOnly
<1>7. /\ gHist' \in GHistType /\ gHist'.aired = gHist.aired
      /\ gHist'.last = b
      /\ gHist'.overlap = (InFlight(toMaster, toGateway') \/ G!Pending(f))
  <2> DEFINE h == G!Recorded(f, TRUE)
  <2>1. /\ h \in GHistType /\ h.aired = gHist.aired /\ h.last = b
        /\ h.overlap = InFlight(toMaster, toGateway')
        /\ \A x \in BOOLEAN : [h EXCEPT !.overlap = x] \in GHistType
    BY <1>1, HistOfPass
  <2>2. gHist' = [h EXCEPT !.overlap = h.overlap \/ G!Pending(f)]
    BY <1>2
  <2> HIDE DEF h, b
  <2>3. (h.overlap \/ G!Pending(f)) \in BOOLEAN
    OBVIOUS
  <2> QED BY <2>1, <2>2, <2>3 DEF GHistType
<1>8. PassSends(f)
  BY <1>2, <1>6, <1>7 DEF PassSends
<1> QED BY <1>1, <1>2, <1>6, <1>7, <1>8, ReadOfPass DEF QuietPass, LinesOfPass

LEMMA QuietPasses ==
    TypeInv /\ (G!LoopNothing \/ G!LoopAckOk \/ G!LoopAckNok) => QuietPass
<1> SUFFICES ASSUME TypeInv, G!LoopNothing \/ G!LoopAckOk \/ G!LoopAckNok
             PROVE  QuietPass
  OBVIOUS
<1>0. gWait \in BOOLEAN
  BY DEF TypeInv, GatewayTypeInv
<1>1. CASE G!LoopNothing
  <2>1. PICK f \in G!Received :
          /\ toGateway' = toGateway \/ (toGateway # <<>> /\ toGateway' = Tail(toGateway))
          /\ G!Rest(f, gWait, FALSE)
    BY <1>1 DEF G!LoopNothing
  <2> QED BY <1>0, <2>1, RestOfPass
<1>2. CASE G!LoopAckOk
  <2> DEFINE mistake == gWait /\ ~Genuine(Head(toGateway))
  <2>1. PICK f \in G!Received :
          /\ toGateway # <<>> /\ toGateway' = Tail(toGateway)
          /\ G!Rest(f, FALSE, gWait /\ ~G!Genuine(Head(toGateway)))
    BY <1>2 DEF G!LoopAckOk
  <2>2. (gWait /\ ~G!Genuine(Head(toGateway))) = mistake
    BY SameLine
  <2>3. Head(toGateway) \in Range(toGateway)
    BY <2>1, RestOfLine DEF TypeInv, LineTypeInv
  <2>4. mistake \in BOOLEAN /\ (~mistake => ~gWait \/ Genuine(Head(toGateway)))
    OBVIOUS
  <2>5. G!Rest(f, FALSE, mistake)
    BY <2>1, <2>2
  <2> HIDE DEF mistake
  <2> QED BY <2>1, <2>3, <2>4, <2>5, RestOfPass
<1> QED BY <1>1, <1>2, NokOfPass

\* A pass that reads a message: it is acknowledged and, if it has data, put on the air.
MessagePass(m) ==
    /\ m # Empty => m \in Range(toGateway) /\ m.type = "NORMAL" /\ m.crc = m.data
                    /\ m.data \in BuiltType
    /\ LinesOfPass
    /\ Range(toMaster') \subseteq Range(toMaster) \cup {Answer(m)}
    /\ gSomething' \in BOOLEAN /\ UNCHANGED gWait
    /\ gHist' \in GHistType
    /\ gHist'.aired = gHist.aired \cup (IF m = Empty THEN {} ELSE {m.data})
    /\ gHist'.last = gHist.last /\ gHist'.overlap = gHist.overlap
    /\ gHist'.mistaken = gHist.mistaken
    /\ \E f \in G!Received : out' = G!Buffered(f)

LEMMA MessagePasses ==
    ASSUME TypeInv, NEW m \in Heard(Head(toGateway)), G!LoopMessage(m)
    PROVE  MessagePass(m)
<1>1. GatewayTypeInv /\ LineTypeInv
  BY DEF TypeInv
<1> DEFINE more == IF m = Empty THEN {} ELSE {m.data}
<1>2. PICK f \in G!Received :
        /\ toGateway # <<>> /\ m.type = "NORMAL"
        /\ toGateway' = Tail(toGateway) /\ toMaster' = Written(toMaster, Answer(m))
        /\ out' = G!Buffered(f) /\ gSomething' = G!Pending(f)
        /\ gHist' = [G!Recorded(f, FALSE) EXCEPT !.aired = @ \cup more]
        /\ UNCHANGED gWait
  BY SameLine DEF G!LoopMessage, Answer
<1>3. m # Empty => m \in Range(toGateway) /\ m \in DownMessage /\ m.crc = m.data
                   /\ m.data \in BuiltType
  BY <1>1, <1>2, ReadingOf, Messages DEF LineTypeInv
<1>4. more \in SUBSET BuiltType
  BY <1>3
<1> HIDE DEF more
<1>6. Answer(m) \in UpMessage
  BY Answers
<1>7. /\ toMaster' \in Seq(UpMessage) /\ Len(toMaster') <= MaxLine
      /\ Range(toMaster') \subseteq Range(toMaster) \cup {Answer(m)}
  BY <1>1, <1>2, <1>6, WrittenLine DEF LineTypeInv
<1>8. /\ gHist' \in GHistType /\ gHist'.aired = gHist.aired \cup more
      /\ gHist'.last = gHist.last /\ gHist'.overlap = gHist.overlap
      /\ gHist'.mistaken = gHist.mistaken
  <2> DEFINE h == G!Recorded(f, FALSE)
  <2>1. /\ h \in GHistType /\ h.aired = gHist.aired /\ h.last = gHist.last
        /\ h.overlap = gHist.overlap /\ h.mistaken = gHist.mistaken
        /\ \A y \in SUBSET BuiltType : [h EXCEPT !.aired = y] \in GHistType
    <3>1. gHist.mistaken \in BOOLEAN
      BY <1>1 DEF GatewayTypeInv, GHistType
    <3> QED BY <1>1, <3>1, HistOfPass
  <2>2. gHist' = [h EXCEPT !.aired = h.aired \cup more]
    BY <1>2
  <2> HIDE DEF h
  <2>3. h.aired \cup more \in SUBSET BuiltType
    BY <1>4, <2>1 DEF GHistType
  <2> QED BY <2>1, <2>2, <2>3 DEF GHistType
<1>9. gSomething' \in BOOLEAN
  BY <1>1, <1>2 DEF GatewayTypeInv, G!Pending
<1> QED
  BY <1>1, <1>2, <1>3, <1>7, <1>8, <1>9, ReadOfPass DEF MessagePass, LinesOfPass, more

LEMMA GatewayPasses ==
    ASSUME TypeInv, Gateway
    PROVE  /\ QuietPass \/ \E m : MessagePass(m)
           /\ UNCHANGED masterVars
<1>1. ASSUME NEW m \in G!Heard(Head(toGateway)), G!LoopMessage(m) PROVE MessagePass(m)
  <2>1. m \in Heard(Head(toGateway))
    BY SameLine
  <2> QED BY <1>1, <2>1, MessagePasses
<1> QED BY <1>1, QuietPasses DEF Gateway, G!GatewayNext

LEMMA GatewayType == TypeInv /\ Gateway => TypeInv'
<1> SUFFICES ASSUME TypeInv, Gateway PROVE TypeInv'
  OBVIOUS
<1>1. MasterTypeInv'
  BY GatewayPasses DEF masterVars, TypeInv, MasterTypeInv, SendFrameInv
<1>2. LineTypeInv'
  BY GatewayPasses DEF QuietPass, MessagePass, LinesOfPass, LineTypeInv
<1>3. out' \in UpFrame \cup {NoFrame}
  BY GatewayPasses, FrameOfPass DEF QuietPass, MessagePass, TypeInv
<1>4. gSomething' \in BOOLEAN /\ gWait' \in BOOLEAN /\ gHist' \in GHistType
  BY GatewayPasses DEF QuietPass, MessagePass, TypeInv, GatewayTypeInv
<1> QED BY <1>1, <1>2, <1>3, <1>4 DEF TypeInv, GatewayTypeInv

-----------------------------------------------------------------------------
(* The steps of the master, by what they do to the lines *)

\* A step that neither acknowledges nor sends.
Still ==
    /\ UNCHANGED <<toGateway, waitAck>> /\ Range(toMaster') \subseteq Range(toMaster)
    /\ hist'.last = hist.last /\ hist'.overlap = hist.overlap /\ hist'.read = hist.read
    /\ hist'.mistaken = hist.mistaken /\ hist.built \subseteq hist'.built

LEMMA WebStill == TypeInv /\ MasterWeb => Still /\ UNCHANGED <<slot, headerSent, dataIn>>
<1> SUFFICES ASSUME TypeInv, MasterWeb PROVE Still /\ UNCHANGED <<slot, headerSent, dataIn>>
  OBVIOUS
<1>1. hist \in HistType
  BY DEF TypeInv, MasterTypeInv
<1>2. ASSUME NEW c \in Commands, SendMsg(c)
      PROVE Still /\ UNCHANGED <<slot, headerSent, dataIn>>
  BY <1>1, <1>2 DEF SendMsg, Still, HistType, lineVars
<1>3. CASE CopyData \/ AskType \/ AddNew
  BY <1>3 DEF CopyData, AskType, AddNew, Still, lineVars
<1> QED BY <1>2, <1>3 DEF MasterWeb

LEMMA WriteStill ==
    ASSUME NEW t \in Threads, TypeInv, WriteMsg(t)
    PROVE  /\ Still /\ UNCHANGED <<headerSent, dataIn>>
           /\ slot'.header = slot.header
              \/ (slot'.header = sendFrame /\ sendFrame \in hist'.built)
<1>1. hist \in HistType /\ slot \in SlotType
  BY DEF TypeInv, MasterTypeInv
<1>2. CASE WriteHeader(t)
  <2>1. hist' = [hist EXCEPT !.built = hist.built \cup {sendFrame}]
        /\ slot' = [slot EXCEPT !.header = sendFrame]
    BY <1>2 DEF WriteHeader
  <2> QED BY <1>1, <1>2, <2>1 DEF WriteHeader, Still, HistType, SlotType, lineVars
<1>3. CASE WriteRefused(t) \/ WriteData(t) \/ WriteFlag(t)
  BY <1>1, <1>3 DEF WriteRefused, WriteData, WriteFlag, Still, SlotType, lineVars
<1> QED BY <1>2, <1>3 DEF WriteMsg

\* A step that takes what it reads for an acknowledgement.
AckRead ==
    /\ UNCHANGED <<toGateway, slot, headerSent>> /\ Range(toMaster') \subseteq Range(toMaster)
    /\ waitAck' = FALSE
    /\ hist'.last = hist.last /\ hist'.overlap = hist.overlap /\ hist'.read = hist.read
    /\ hist'.built = hist.built
    /\ ~hist'.mistaken => /\ ~hist.mistaken
                          /\ waitAck => \E m \in Range(toMaster) : Genuine(m)

LEMMA AckOfLoop == TypeInv /\ ReadAckOk => AckRead
<1> SUFFICES ASSUME TypeInv, ReadAckOk PROVE AckRead
  OBVIOUS
<1>1. hist \in HistType /\ LineTypeInv
  BY DEF TypeInv, MasterTypeInv
<1> DEFINE x == hist.mistaken \/ (waitAck /\ ~Genuine(Head(toMaster)))
<1>2. /\ toMaster # <<>> /\ toMaster' = Tail(toMaster) /\ waitAck' = FALSE
      /\ hist' = [hist EXCEPT !.mistaken = x]
      /\ UNCHANGED <<slot, headerSent, toGateway>>
  BY DEF ReadAckOk
<1>3. Range(Tail(toMaster)) \subseteq Range(toMaster) /\ Head(toMaster) \in Range(toMaster)
  BY <1>1, <1>2, RestOfLine DEF LineTypeInv
<1>4. ~x => ~hist.mistaken /\ (waitAck => Genuine(Head(toMaster)))
  OBVIOUS
<1> HIDE DEF x
<1>5. /\ hist'.last = hist.last /\ hist'.overlap = hist.overlap /\ hist'.read = hist.read
      /\ hist'.built = hist.built /\ hist'.mistaken = x
  BY <1>1, <1>2 DEF HistType
<1> QED BY <1>2, <1>3, <1>4, <1>5 DEF AckRead

\* A step that reads the message m.
MessageRead(m) ==
    /\ m # Empty => /\ m \in Range(toMaster) /\ m.type = "NORMAL"
                    /\ hist'.read = hist.read \cup {m.data.n}
    /\ m = Empty => hist'.read = hist.read
    /\ Range(toMaster') \subseteq Range(toMaster)
    /\ Range(toGateway') \subseteq Range(toGateway) \cup {Answer(m)}
    /\ hist'.last = hist.last /\ hist'.overlap = hist.overlap
    /\ hist'.mistaken = hist.mistaken
    /\ hist'.built = hist.built /\ UNCHANGED <<slot, waitAck, headerSent>>

LEMMA MessageOfLoop ==
    ASSUME TypeInv, NEW m \in Heard(Head(toMaster)), ReadMessage(m)
    PROVE  MessageRead(m)
<1>1. LineTypeInv /\ hist \in HistType
  BY DEF TypeInv, MasterTypeInv
<1> DEFINE more == IF m = Empty THEN {} ELSE {m.data.n}
<1>2. /\ toMaster # <<>> /\ m.type = "NORMAL"
      /\ toMaster' = Tail(toMaster) /\ toGateway' = Written(toGateway, Answer(m))
      /\ hist' = [hist EXCEPT !.read = hist.read \cup more]
      /\ UNCHANGED <<slot, waitAck, headerSent>>
  BY DEF ReadMessage, Answer
<1>3. m # Empty => m \in Range(toMaster)
  BY <1>1, <1>2, ReadingOf DEF LineTypeInv
<1>4. Range(Tail(toMaster)) \subseteq Range(toMaster)
  BY <1>1, <1>2, RestOfLine DEF LineTypeInv
<1> HIDE DEF more
<1>6. Range(toGateway') \subseteq Range(toGateway) \cup {Answer(m)}
  <2>1. Answer(m) \in DownMessage
    BY Answers
  <2> QED BY <1>1, <1>2, <2>1, WrittenLine DEF LineTypeInv
<1>7. /\ hist'.read = hist.read \cup more /\ hist'.mistaken = hist.mistaken
      /\ hist'.last = hist.last /\ hist'.overlap = hist.overlap /\ hist'.built = hist.built
  BY <1>1, <1>2 DEF HistType
<1> QED BY <1>2, <1>3, <1>4, <1>6, <1>7 DEF MessageRead, more

\* A step that writes the buffers of the slot to the line.
DataSent ==
    /\ \A m \in Range(toGateway') :
         m \in Range(toGateway) \/ (headerSent # Unset /\ m = Normal(headerSent, slot.data))
    /\ UNCHANGED <<toMaster, slot>> /\ waitAck' = TRUE /\ headerSent' = Unset
    /\ hist'.last = slot.data /\ hist'.overlap = InFlight(toGateway, toMaster)
    /\ hist'.read = hist.read /\ hist'.built = hist.built

LEMMA DataOfLoop == TypeInv /\ SendData => DataSent
<1> SUFFICES ASSUME TypeInv, SendData PROVE DataSent
  OBVIOUS
<1>1. MasterTypeInv /\ LineTypeInv
  BY DEF TypeInv
<1>2. Normal(headerSent, slot.data) \in DownMessage
  BY <1>1, SlotFields, Messages DEF MasterTypeInv
<1>3. Range(Written(toGateway, Normal(headerSent, slot.data)))
        \subseteq Range(toGateway) \cup {Normal(headerSent, slot.data)}
  BY <1>1, <1>2, WrittenLine DEF LineTypeInv
<1>4. /\ hist'.last = slot.data /\ hist'.overlap = InFlight(toGateway, toMaster)
      /\ hist'.read = hist.read /\ hist'.built = hist.built
  <2>1. hist' = [hist EXCEPT !.last = slot.data, !.overlap = InFlight(toGateway, toMaster),
                             !.mistaken = FALSE]
    BY DEF SendData
  <2> QED BY <1>1, <2>1 DEF MasterTypeInv, HistType
<1>5. toGateway' = Sent(headerSent, slot.data)
      /\ UNCHANGED <<toMaster, slot>> /\ waitAck' = TRUE /\ headerSent' = Unset
  BY DEF SendData
<1> QED BY <1>3, <1>4, <1>5 DEF DataSent, Sent

\* The rest of Loop.
LEMMA LoopStill ==
    ASSUME TypeInv, MasterLoop
    PROVE  \/ ReadAckOk \/ SendData
           \/ \E m \in Heard(Head(toMaster)) : ReadMessage(m)
           \/ /\ Still /\ hist' = hist /\ slot'.header = slot.header
              /\ headerSent' \in {headerSent, slot.header}
<1>1. toMaster # <<>> => Range(Tail(toMaster)) \subseteq Range(toMaster)
  BY RestOfLine DEF TypeInv, LineTypeInv
<1>2. MasterTypeInv
  BY DEF TypeInv
<1>3. CASE ReadNothing \/ ReadAckNok
  BY <1>1, <1>3 DEF ReadNothing, ReadAckNok, Still
<1>4. CASE BuildData \/ BuildHead \/ Resend \/ NothingToSend \/ SendHeader
  BY <1>4 DEF BuildData, BuildHead, Resend, NothingToSend, SendHeader, Still, lineVars
<1>5. CASE TakeSlot
  BY <1>2, <1>5 DEF TakeSlot, Still, lineVars, MasterTypeInv, SlotType
<1>6. CASE CheckACK
  <2>1. \A k \in DOMAIN listMsg : listMsg[k] \in EntryType
    BY <1>2 DEF MasterTypeInv
  <2>2. {k \in DOMAIN listMsg : listMsg[k].sent} = {}
    BY <2>1 DEF EntryType
  <2>3. slot' = slot
    BY <1>6, <2>2 DEF CheckACK
  <2> QED BY <1>6, <2>3 DEF CheckACK, Still, lineVars
<1> QED BY <1>3, <1>4, <1>5, <1>6 DEF MasterLoop

LEMMA MasterKinds ==
    ASSUME TypeInv, Master
    PROVE  /\ Still \/ AckRead \/ DataSent \/ \E m : MessageRead(m)
           /\ UNCHANGED gatewayVars
  BY WebStill, WriteStill, LoopStill, AckOfLoop, DataOfLoop, MessageOfLoop
     DEF Master, MasterNext

-----------------------------------------------------------------------------
(* What can be put on the air *)

LEMMA MasterBuilt == TypeInv /\ BuiltInv /\ Master => BuiltInv'
<1> SUFFICES ASSUME TypeInv, BuiltInv, Master PROVE BuiltInv'
  OBVIOUS
<1>0. UNCHANGED gHist
  BY DEF Master, gatewayVars
<1>1. ASSUME Still, headerSent' \in {headerSent, slot.header},
             slot'.header = slot.header \/ slot'.header \in hist'.built
      PROVE  BuiltInv'
  BY <1>0, <1>1 DEF Still, BuiltInv, AiredWasBuilt
<1>2. CASE MasterWeb
  BY <1>1, <1>2, WebStill
<1>3. ASSUME NEW t \in Threads, WriteMsg(t) PROVE BuiltInv'
  BY <1>1, <1>3, WriteStill
<1>4. CASE MasterLoop
  <2>1. CASE ReadAckOk
    BY <1>0, <2>1, AckOfLoop DEF AckRead, BuiltInv, AiredWasBuilt
  <2>2. CASE SendData
    <3>1. DataSent
      BY <2>2, DataOfLoop
    <3>2. \A m \in Range(toGateway') : m.type = "NORMAL" => m.crc \in hist.built
      BY <3>1, Messages DEF DataSent, BuiltInv
    <3> QED BY <1>0, <3>1, <3>2 DEF DataSent, BuiltInv, AiredWasBuilt
  <2>3. ASSUME NEW m \in Heard(Head(toMaster)), ReadMessage(m) PROVE BuiltInv'
    <3>1. MessageRead(m)
      BY <2>3, MessageOfLoop
    <3>2. Answer(m).type # "NORMAL"
      BY Answers
    <3>3. \A n \in Range(toGateway') : n.type = "NORMAL" => n \in Range(toGateway)
      BY <3>1, <3>2 DEF MessageRead
    <3> QED BY <1>0, <3>1, <3>3 DEF MessageRead, BuiltInv, AiredWasBuilt
  <2> QED BY <1>1, <1>4, <2>1, <2>2, <2>3, LoopStill
<1> QED BY <1>2, <1>3, <1>4 DEF Master, MasterNext

LEMMA GatewayBuilt == TypeInv /\ BuiltInv /\ Gateway => BuiltInv'
<1> SUFFICES ASSUME TypeInv, BuiltInv, Gateway PROVE BuiltInv'
  OBVIOUS
<1>0. UNCHANGED <<slot, headerSent, hist>> /\ Range(toGateway') \subseteq Range(toGateway)
  BY GatewayPasses DEF masterVars, QuietPass, MessagePass, LinesOfPass
<1>1. CASE QuietPass
  BY <1>0, <1>1 DEF BuiltInv, AiredWasBuilt, QuietPass
<1>2. ASSUME NEW m, MessagePass(m) PROVE BuiltInv'
  BY <1>0, <1>2 DEF BuiltInv, AiredWasBuilt, MessagePass
<1> QED BY <1>1, <1>2, GatewayPasses

-----------------------------------------------------------------------------
(* What the acknowledgements of the line are worth *)

LEMMA NotInFlight ==
    ASSUME NEW S, NEW T, NEW a \in Seq(S), NEW b \in Seq(T), ~InFlight(a, b)
    PROVE  /\ \A m \in Range(a) : m.type # "NORMAL"
           /\ \A m \in Range(b) : ~Genuine(m)
<1>1. \A m \in Range(b) : m.type = "NORMAL"
  BY DEF InFlight, Range
<1>2. \A m \in Range(a) : m.type # "NORMAL"
  BY DEF InFlight, Range
<1> QED BY <1>1, <1>2, Messages

LEMMA MasterDown == TypeInv /\ DownInv /\ Master => DownInv'
<1> SUFFICES ASSUME TypeInv, DownInv, Master PROVE DownInv'
  OBVIOUS
<1>0. UNCHANGED gHist
  BY DEF Master, gatewayVars
<1>1. CASE Still
  BY <1>0, <1>1 DEF Still, DownInv
<1>2. CASE AckRead
  BY <1>0, <1>2 DEF AckRead, DownInv
<1>3. ASSUME NEW m, MessageRead(m) PROVE DownInv'
  <2>1. Answer(m).type # "NORMAL"
    BY Answers
  <2>2. \A n \in Range(toGateway') : n.type = "NORMAL" => n \in Range(toGateway)
    BY <1>3, <2>1 DEF MessageRead
  <2> QED BY <1>0, <1>3, <2>2 DEF MessageRead, DownInv
<1>4. CASE DataSent
  <2>1. ASSUME ~hist'.overlap
        PROVE  /\ \A m \in Range(toGateway') : m.type = "NORMAL" => m.data = slot.data
               /\ \A m \in Range(toMaster') : ~Genuine(m)
    <3>1. /\ \A m \in Range(toGateway) : m.type # "NORMAL"
          /\ \A m \in Range(toMaster) : ~Genuine(m)
      BY <1>4, <2>1, NotInFlight DEF DataSent, TypeInv, LineTypeInv
    <3> QED BY <1>4, <3>1, Messages DEF DataSent
  <2> QED BY <1>4, <2>1 DEF DataSent, DownInv
<1> QED BY <1>1, <1>2, <1>3, <1>4, MasterKinds

LEMMA GatewayDown == TypeInv /\ DownInv /\ Gateway => DownInv'
<1> SUFFICES ASSUME TypeInv, DownInv, Gateway PROVE DownInv'
  OBVIOUS
<1>0. UNCHANGED <<waitAck, hist>> /\ Range(toGateway') \subseteq Range(toGateway)
  BY GatewayPasses DEF masterVars, QuietPass, MessagePass, LinesOfPass
<1>1. CASE QuietPass
  <2>1. \A m \in Range(toMaster') : Genuine(m) => m \in Range(toMaster)
    BY <1>1, Messages DEF QuietPass, PassSends, PassWaits, AddsOnly
  <2> QED BY <1>0, <1>1, <2>1 DEF DownInv, QuietPass
<1>2. ASSUME NEW m, MessagePass(m) PROVE DownInv'
  <2>1. CASE m = Empty
    <3>1. ~Genuine(Answer(m))
      BY <2>1, Answers
    <3>2. \A n \in Range(toMaster') : Genuine(n) => n \in Range(toMaster)
      BY <1>2, <3>1 DEF MessagePass
    <3>3. gHist'.aired = gHist.aired
      BY <1>2, <2>1 DEF MessagePass
    <3> QED BY <1>0, <3>2, <3>3 DEF DownInv
  <2>2. CASE m # Empty
    <3>1. /\ m \in Range(toGateway) /\ m.type = "NORMAL"
          /\ gHist'.aired = gHist.aired \cup {m.data}
      BY <1>2, <2>2 DEF MessagePass
    <3>2. ~hist.overlap /\ hist.last # Unset => m.data = hist.last
      BY <3>1 DEF DownInv
    <3> QED BY <1>0, <3>1, <3>2 DEF DownInv
  <2> QED BY <2>1, <2>2
<1> QED BY <1>1, <1>2, GatewayPasses

LEMMA MasterUp == TypeInv /\ UpInv /\ Master => UpInv'
<1> SUFFICES ASSUME TypeInv, UpInv, Master PROVE UpInv'
  OBVIOUS
<1>0. UNCHANGED <<gWait, gHist>>
  BY DEF Master, gatewayVars
<1>1. CASE Still \/ AckRead
  <2>1. UNCHANGED toGateway /\ Range(toMaster') \subseteq Range(toMaster)
        /\ hist'.read = hist.read
    BY <1>1 DEF Still, AckRead
  <2> QED BY <1>0, <2>1 DEF UpInv
<1>2. CASE DataSent
  <2>1. \A m \in Range(toGateway') : Genuine(m) => m \in Range(toGateway)
    BY <1>2, Messages DEF DataSent
  <2> QED BY <1>0, <1>2, <2>1 DEF UpInv, DataSent
<1>3. ASSUME NEW m, MessageRead(m) PROVE UpInv'
  <2>1. CASE m = Empty
    <3>1. ~Genuine(Answer(m))
      BY <2>1, Answers
    <3>2. \A n \in Range(toGateway') : Genuine(n) => n \in Range(toGateway)
      BY <1>3, <3>1 DEF MessageRead
    <3> QED BY <1>0, <1>3, <2>1, <3>2 DEF UpInv, MessageRead
  <2>2. CASE m # Empty
    <3>1. /\ m \in Range(toMaster) /\ m.type = "NORMAL"
          /\ hist'.read = hist.read \cup {m.data.n}
          /\ Range(toMaster') \subseteq Range(toMaster)
      BY <1>3, <2>2 DEF MessageRead
    <3>2. ~gHist.overlap /\ gHist.last # NoFrame => m.data = gHist.last
      BY <3>1 DEF UpInv
    <3> QED BY <1>0, <3>1, <3>2 DEF UpInv
  <2> QED BY <2>1, <2>2
<1> QED BY <1>1, <1>2, <1>3, MasterKinds

LEMMA GatewayUp == TypeInv /\ UpInv /\ Gateway => UpInv'
<1> SUFFICES ASSUME TypeInv, UpInv, Gateway PROVE UpInv'
  OBVIOUS
<1>0. hist' = hist /\ Range(toGateway') \subseteq Range(toGateway)
  BY GatewayPasses DEF masterVars, QuietPass, MessagePass, LinesOfPass
<1>1. CASE QuietPass
  <2>1. PICK f \in G!Received : PassSends(f) \/ PassWaits
    BY <1>1 DEF QuietPass
  <2>2. CASE PassSends(f)
    <3>1. gWait' /\ gHist'.last = G!Buffered(f)
      BY <2>2 DEF PassSends
    <3>2. ASSUME ~gHist'.overlap
          PROVE  /\ \A m \in Range(toMaster') : m.type = "NORMAL" => m.data = gHist'.last
                 /\ \A m \in Range(toGateway') : ~Genuine(m)
      <4>1. toMaster \in Seq(UpMessage) /\ toGateway' \in Seq(DownMessage)
        BY <1>1 DEF QuietPass, LinesOfPass, TypeInv, LineTypeInv
      <4>2. /\ \A m \in Range(toMaster) : m.type # "NORMAL"
            /\ \A m \in Range(toGateway') : ~Genuine(m)
        BY <2>2, <3>2, <4>1, NotInFlight DEF PassSends
      <4> QED BY <2>2, <4>2, Messages DEF PassSends, AddsOnly
    <3> QED BY <3>1, <3>2 DEF UpInv
  <2>3. CASE PassWaits
    BY <1>0, <2>3 DEF UpInv, PassWaits
  <2> QED BY <2>1, <2>2, <2>3
<1>2. ASSUME NEW m, MessagePass(m) PROVE UpInv'
  <2>1. Answer(m).type # "NORMAL"
    BY Answers
  <2>2. \A n \in Range(toMaster') : n.type = "NORMAL" => n \in Range(toMaster)
    BY <1>2, <2>1 DEF MessagePass
  <2> QED BY <1>0, <1>2, <2>2 DEF UpInv, MessagePass
<1> QED BY <1>1, <1>2, GatewayPasses

-----------------------------------------------------------------------------
(* What a node's acknowledgement takes off the list *)

\* The frame in mDataIn stays, or is what was read from the line.
LEMMA DataInOf ==
    ASSUME TypeInv, NodeAckInv, Master
    PROVE  Answered(dataIn')
<1>1. Answered(dataIn)
  BY DEF NodeAckInv
<1>2. dataIn' = dataIn \/ (toMaster # <<>> /\ dataIn' = DataRead)
  BY WebStill, WriteStill
     DEF Master, MasterNext, MasterLoop, ReadNothing, ReadAckOk, ReadAckNok, ReadMessage,
         BuildData, BuildHead, TakeSlot, Resend, NothingToSend, SendHeader, SendData, CheckACK
<1> QED BY <1>1, <1>2, FrameRead

LEMMA NodeAckStep == TypeInv /\ NodeAckInv /\ (Master \/ Gateway) => NodeAckInv'
<1> SUFFICES ASSUME TypeInv, NodeAckInv, Master \/ Gateway PROVE NodeAckInv'
  OBVIOUS
<1>1. CASE Master
  <2>1. Range(toMaster') \subseteq Range(toMaster)
    BY <1>1, MasterKinds DEF Still, AckRead, MessageRead, DataSent
  <2>2. UNCHANGED <<out, gHist>>
    BY <1>1 DEF Master, gatewayVars
  <2>3. Answered(dataIn)'
    BY <1>1, <2>2, DataInOf DEF Answered
  <2> QED BY <2>1, <2>2, <2>3 DEF NodeAckInv, Answered
<1>2. CASE Gateway
  <2>1. gHist.aired \subseteq gHist'.aired /\ dataIn' = dataIn
    BY <1>2, GatewayPasses DEF QuietPass, MessagePass, masterVars
  <2>2. PICK f \in G!Received : /\ out' = G!Buffered(f)
                                /\ \A m \in Range(toMaster') : m.type = "NORMAL" =>
                                     m \in Range(toMaster) \/ m.data = G!Buffered(f)
    <3>1. CASE QuietPass
      <4>1. PICK f \in G!Received : out' = G!Buffered(f) /\ (PassSends(f) \/ PassWaits)
        BY <3>1 DEF QuietPass
      <4>2. \A m \in Range(toMaster') :
              m \in Range(toMaster) \/ m = Normal(G!Buffered(f), G!Buffered(f))
        BY <4>1 DEF PassSends, PassWaits, AddsOnly
      <4> QED BY <4>1, <4>2, Messages
    <3>2. ASSUME NEW n, MessagePass(n)
          PROVE  \E f \in G!Received : /\ out' = G!Buffered(f)
                                       /\ \A m \in Range(toMaster') : m.type = "NORMAL" =>
                                            m \in Range(toMaster) \/ m.data = G!Buffered(f)
      <4>1. Answer(n).type # "NORMAL"
        BY Answers
      <4> QED BY <3>2, <4>1 DEF MessagePass
    <3> QED BY <1>2, <3>1, <3>2, GatewayPasses
  <2>3. Answered(G!Buffered(f))
    BY FrameOfPass DEF TypeInv
  <2>4. Answered(out)'
    BY <2>1, <2>2, <2>3 DEF Answered
  <2>5. ASSUME NEW m \in Range(toMaster'), m.type = "NORMAL" PROVE Answered(m.data)'
    BY <2>1, <2>2, <2>3, <2>5 DEF NodeAckInv, Answered
  <2>6. Answered(dataIn)'
    BY <2>1 DEF NodeAckInv, Answered
  <2> QED BY <2>4, <2>5, <2>6 DEF NodeAckInv
<1> QED BY <1>1, <1>2

\* The condition of ErasedWasAired, for one step.
ErasedAired ==
    \A k \in DOMAIN listMsg :
        pc["loop"] = "read" /\ listMsg[k] \notin Range(listMsg')
            => \E d \in gHist.aired : ForNode(d, Receptor(listMsg[k].frame[1]))

LEMMA ErasedStep == IInv /\ Next => ErasedAired
<1> SUFFICES ASSUME IInv, Next PROVE ErasedAired
  OBVIOUS
<1>1. TypeInv /\ MasterTypeInv /\ listMsg \in Seq(EntryType)
  BY DEF IInv, TypeInv, MasterTypeInv
<1>2. CASE listMsg' = listMsg
  BY <1>2 DEF ErasedAired, Range
<1>3. CASE AddNew
  <2> DEFINE e == [frame |-> sendFrame, sent |-> FALSE, count |-> 0]
  <2>1. listMsg' = Append(listMsg, e) /\ pc["web"] = "addNew"
    BY <1>3 DEF AddNew
  <2>2. e \in EntryType
    <3>1. sendFrame \in Half \X Half
      BY <1>1, <2>1, Halves DEF MasterTypeInv, SendFrameInv
    <3> QED BY <3>1 DEF EntryType
  <2> HIDE DEF e
  <2>3. \A k \in 1..Len(listMsg) : listMsg'[k] = listMsg[k]
    BY <1>1, <2>1, <2>2, AppendProperties
  <2>4. DOMAIN listMsg = 1..Len(listMsg) /\ DOMAIN listMsg' = 1..(Len(listMsg) + 1)
        /\ Len(listMsg) \in Nat
    BY <1>1, <2>1, <2>2
  <2>5. \A k \in DOMAIN listMsg : listMsg[k] \in Range(listMsg')
    BY <2>3, <2>4 DEF Range
  <2> QED BY <2>5 DEF ErasedAired
<1>4. ASSUME NEW m \in Heard(Head(toMaster)), ReadMessage(m) PROVE ErasedAired
  <2> DEFINE frame == DataRead
  <2>1. /\ toMaster # <<>>
        /\ listMsg' = IF frame.type = "ACK" THEN Erased(listMsg, frame.node) ELSE listMsg
    BY <1>4 DEF ReadMessage, ManageNewMsg
  <2>2. Answered(frame)
    BY <1>1, <2>1, FrameRead DEF IInv
  <2> HIDE DEF frame
  <2>3. CASE frame.type = "ACK"
    <3>1. \A k \in DOMAIN listMsg :
            listMsg[k] \notin Range(listMsg') => Receptor(listMsg[k].frame[1]) = frame.node
      BY <1>1, <2>1, <2>3, ErasedList
    <3> QED BY <2>2, <2>3, <3>1 DEF ErasedAired, Answered
  <2> QED BY <1>2, <2>1, <2>3
<1>5. CASE CheckACK
  BY <1>5 DEF CheckACK, ErasedAired
<1>6. Gateway => listMsg' = listMsg
  BY DEF Gateway, masterVars
<1>7. ASSUME NEW t \in Threads, WriteMsg(t) PROVE listMsg' = listMsg
  BY <1>7 DEF WriteMsg, WriteRefused, WriteHeader, WriteData, WriteFlag
<1>8. MasterWeb => AddNew \/ listMsg' = listMsg
  BY DEF MasterWeb, SendMsg, CopyData, AskType
<1>9. MasterLoop => \/ \E m \in Heard(Head(toMaster)) : ReadMessage(m)
                    \/ CheckACK \/ listMsg' = listMsg
  BY DEF MasterLoop, ReadNothing, ReadAckOk, ReadAckNok, BuildData, BuildHead, TakeSlot,
         Resend, NothingToSend, SendHeader, SendData
<1> QED BY <1>2, <1>3, <1>4, <1>5, <1>6, <1>7, <1>8, <1>9 DEF Next, Master, MasterNext

-----------------------------------------------------------------------------
(* The theorems *)

LEMMA InitInv == Init => IInv
<1> SUFFICES ASSUME Init PROVE IInv
  OBVIOUS
<1>1. Range(toGateway) = {} /\ Range(toMaster) = {}
  BY DEF Init, LineInit, Range
<1>2. BuiltInv
  BY <1>1 DEF Init, MasterInit, G!GatewayInit, BuiltInv, AiredWasBuilt
<1>3. DownInv /\ UpInv
  BY SameLine DEF Init, MasterInit, G!GatewayInit, DownInv, UpInv
<1>4. NodeAckInv
  BY <1>1, SameLine, UpFrames DEF Init, MasterInit, G!GatewayInit, NodeAckInv, Answered
<1> QED BY <1>2, <1>3, <1>4, InitType DEF IInv

LEMMA StutterInv == IInv /\ UNCHANGED vars => IInv'
<1> SUFFICES ASSUME IInv, UNCHANGED vars PROVE IInv'
  OBVIOUS
<1> USE DEF IInv, vars, lineVars, masterVars, gatewayVars
<1>1. TypeInv'
  BY DEF TypeInv, MasterTypeInv, GatewayTypeInv, LineTypeInv, SendFrameInv
<1>2. BuiltInv'
  BY DEF BuiltInv, AiredWasBuilt
<1>3. DownInv' /\ UpInv'
  BY DEF DownInv, UpInv
<1>4. NodeAckInv'
  BY DEF NodeAckInv, Answered
<1> QED BY <1>1, <1>2, <1>3, <1>4

\* The parts keep one another.
LEMMA Inductive == Spec => []IInv
<1>1. IInv /\ Next => IInv'
  BY MasterType, GatewayType, MasterBuilt, GatewayBuilt, MasterDown, GatewayDown,
     MasterUp, GatewayUp, NodeAckStep DEF IInv, Next
<1>2. IInv /\ [Next]_vars => IInv'
  BY <1>1, StutterInv
<1> QED BY InitInv, <1>2, PTL DEF Spec

\* Type correctness of the serial link.
THEOREM TypeCorrect == Spec => []TypeOK
<1>1. IInv => TypeOK
  BY TypeFollows DEF IInv
<1> QED BY <1>1, Inductive, PTL

\* No interleaving of the two threads puts on the air what mSendFrame never was.
THEOREM AiredFramesBuilt == Spec => []AiredWasBuilt
<1>1. IInv => AiredWasBuilt
  BY DEF IInv, BuiltInv
<1> QED BY <1>1, Inductive, PTL

\* Once the master stops waiting, the data it wrote last is on the air, unless it was
\* written while part of an earlier exchange was on the line, or the wait was ended by
\* what was not written for a frame.
THEOREM DownIsDelivered == Spec => []DownDelivered
<1>1. IInv => DownDelivered
  BY DEF IInv, DownInv, DownDelivered
<1> QED BY <1>1, Inductive, PTL

\* And once the gateway stops waiting, the master has read its frame.
THEOREM UpIsDelivered == Spec => []UpDelivered
<1>1. IInv => UpDelivered
  BY SameLine DEF IInv, UpInv, UpDelivered
<1> QED BY <1>1, Inductive, PTL

\* A node's acknowledgement takes an entry off the list of pending commands only when
\* a command for its node was put on the air.
THEOREM ErasedCommandsAired == Spec => ErasedWasAired
<1>1. IInv /\ [Next]_vars => [ErasedAired]_vars
  BY ErasedStep
<1> QED BY <1>1, Inductive, PTL DEF Spec, ErasedWasAired, ErasedAired
=============================================================================
