----------------------- MODULE IhmCommunicationProofs ------------------------
(***************************************************************************)
(* Proofs about IhmCommunication for any protocols, nodes, configuration   *)
(* and number of frames.                                                   *)
(***************************************************************************)
EXTENDS IhmCommunication, SequenceTheorems, TLAPS

-----------------------------------------------------------------------------
(* The inductive invariant *)

\* What the thread knows at each point of ThreadAction: how much of the turn
\* is left in the list, and what putFrame has found out about the frame.
Progress ==
    /\ PopNeverEmpty
    /\ pc \in {"putFrame", "post", "reinsert"} =>
          /\ i < size
          /\ Len(ListCmd) + 1 >= size - i
          /\ frame \in Accepted
    /\ pc = "reinsert" => ~Known(frame)
    /\ pc = "post" => /\ Known(frame)
                      /\ GetData(frame) \in 1..MaxValues
                      /\ index < GetData(frame)

IInv == TypeOK /\ Progress /\ UnknownKeptForEver /\ KnownInOrder

ThreadPC == {"unborn", "size", "pop", "putFrame", "post", "reinsert", "pause"}

-----------------------------------------------------------------------------
(* Lemmas about the frames *)

\* GetData lists at most MaxValues values or never returns, and a node with no
\* plugin has no value and blocks nothing.
LEMMA GetDataOutcome ==
    ASSUME NEW f \in Accepted, accepted \in Seq(Frame)
    PROVE  /\ GetData(f) \in (0..MaxValues) \cup {Blocks}
           /\ PluginOf(f) = "none" => GetData(f) = 0
           /\ PluginOf(f) \in {"none", "Node0_5", "NodeDhtXX"}
<1>1. accepted[f] \in Frame
  BY ElementOfSeq, LenProperties DEF Accepted
<1>2. PluginOf(f) \in {"none", "Node0_5", "NodeDhtXX"}
  BY <1>1, PluginAssumption DEF Frame, PluginOf
<1>3. accepted[f].values \in 0..MaxValues
  BY <1>1 DEF Frame
<1> QED
  BY <1>2, <1>3, BoundsAssumption DEF GetData, DhtValues

\* A step that appends to accepted, or leaves it alone, changes nothing about
\* the frames already accepted.
LEMMA FramesStay ==
    ASSUME accepted \in Seq(Frame),
           \/ accepted' = accepted
           \/ \E f \in Frame : accepted' = Append(accepted, f)
    PROVE  /\ Accepted \subseteq Accepted'
           /\ \A f \in Accepted : /\ accepted'[f] = accepted[f]
                                  /\ PluginOf(f)' = PluginOf(f)
                                  /\ GetData(f)' = GetData(f)
                                  /\ Known(f)' = Known(f)
<1>1. /\ Accepted \subseteq Accepted'
      /\ \A f \in Accepted : accepted'[f] = accepted[f]
  BY AppendProperties, LenProperties DEF Accepted
<1> QED
  BY <1>1 DEF PluginOf, GetData, Known

-----------------------------------------------------------------------------
(* Type correctness *)

\* Nothing is accepted, waiting or posted at start-up, so every type holds.
LEMMA TypeInit == Init => TypeOK
  BY ProtocolsAssumption, BoundsAssumption DEF Init, TypeOK, Accepted, Posted


\* What an action that leaves accepted alone keeps of the type of the data.
LEMMA TypeOfRest ==
    ASSUME TypeOK, accepted' = accepted
    PROVE  Accepted' = Accepted
  BY DEF Accepted

\* No operation of the start-up, of a protocol's thread or of ThreadAction takes a
\* variable out of its type.
LEMMA TypeStep ==
    ASSUME TypeOK, Progress, Next
    PROVE  TypeOK'
<1> USE DEF TypeOK, threadVars
<1>1. CASE Subscribe
  BY <1>1 DEF Subscribe, Accepted, Posted
<1>2. CASE StartThread
  BY <1>2 DEF StartThread, Accepted, Posted
<1>3. CASE AddToListCmd
  <2>1. PICK f \in Frame : /\ accepted' = Append(accepted, f)
                           /\ ListCmd' = Append(ListCmd, Len(accepted) + 1)
    BY <1>3, TrafficAssumption DEF AddToListCmd
  <2>2. /\ accepted' \in Seq(Frame)
        /\ Len(accepted') = Len(accepted) + 1
    BY <2>1, AppendProperties
  <2>3. Accepted' = Accepted \cup {Len(accepted) + 1}
    BY <2>2, LenProperties DEF Accepted
  <2>4. ListCmd' \in Seq(Accepted')
    BY <2>1, <2>3, SeqMonotonic, AppendProperties
  <2>5. posted' \in Seq(Accepted' \X (1..MaxValues))
    BY <1>3, <2>3, SeqMonotonic, Accepted \X (1..MaxValues) \subseteq Accepted' \X (1..MaxValues)
    DEF AddToListCmd
  <2> QED
    BY <1>3, <2>2, <2>3, <2>4, <2>5 DEF AddToListCmd, Posted
<1>4. CASE NotifyNobody
  BY <1>4 DEF NotifyNobody, Accepted, Posted
<1>5. CASE ReadSize
  BY <1>5, LenProperties DEF ReadSize, Accepted, Posted
<1>6. CASE Pop
  <2>1. ListCmd # <<>> /\ i < size
    BY <1>6, EmptySeq DEF Pop, Progress, PopNeverEmpty
  <2>2. frame' \in Accepted /\ ListCmd' \in Seq(Accepted)
    BY <1>6, <2>1, HeadTailProperties DEF Pop
  <2> QED
    BY <1>6, <2>2 DEF Pop, Accepted, Posted
<1>7. CASE PutFrameUnknown
  BY <1>7 DEF PutFrameUnknown, Accepted, Posted
<1>8. CASE PutFrameDecode
  BY <1>8, BoundsAssumption DEF PutFrameDecode, NextFrame, Progress, Accepted, Posted
<1>9. CASE DoPost
  <2>1. /\ frame \in Accepted /\ index + 1 \in 1..MaxValues /\ i + 1 \in 0..size
    BY <1>9, BoundsAssumption DEF DoPost, Progress
  <2>2. <<frame, index + 1>> \in Accepted \X (1..MaxValues)
    BY <2>1
  <2>3. /\ posted' \in Seq(Accepted \X (1..MaxValues))
        /\ Posted' = Posted \cup {<<frame, index + 1>>}
    <3>1. posted' = Append(posted, <<frame, index + 1>>)
      BY <1>9 DEF DoPost
    <3> HIDE DEF TypeOK
    <3>2. posted \in Seq(Accepted \X (1..MaxValues))
      BY DEF TypeOK
    <3> QED
      BY <2>2, <3>1, <3>2, AppendProperties, LenProperties DEF Posted, Range
  <2>4. refused' \subseteq Posted'
    BY <1>9, <2>3 DEF DoPost
  <2> QED
    BY <1>9, <2>1, <2>3, <2>4 DEF DoPost, NextFrame, Accepted
<1>10. CASE Reinsert
  <2>1. frame \in Accepted /\ i + 1 \in 0..size
    BY <1>10 DEF Reinsert, Progress
  <2>2. ListCmd' \in Seq(Accepted)
    BY <1>10, <2>1, AppendProperties DEF Reinsert
  <2> QED
    BY <1>10, <2>1, <2>2 DEF Reinsert, NextFrame, Accepted, Posted
<1>11. CASE Pause
  BY <1>11 DEF Pause, Accepted, Posted
<1> QED
  BY <1>1, <1>2, <1>3, <1>4, <1>5, <1>6, <1>7, <1>8, <1>9, <1>10, <1>11 DEF Next, ThreadAction

-----------------------------------------------------------------------------
(* Progress through a turn of the loop *)

\* The thread is not in a turn at start-up.
LEMMA ProgressInit == Init => Progress
  BY DEF Init, Progress, PopNeverEmpty

\* Within a turn the list holds at least the frames the turn still has to pop:
\* AddToListCmd and the re-insertion only add, and each pop is counted by i.
LEMMA ProgressStep ==
    ASSUME TypeOK, Progress, Next
    PROVE  Progress'
<1>0. /\ ListCmd \in Seq(Accepted) /\ Len(ListCmd) \in Nat
      /\ size \in Nat /\ i \in 0..size /\ accepted \in Seq(Frame)
  BY LenProperties DEF TypeOK
<1> USE DEF threadVars
<1>1. CASE Subscribe \/ StartThread \/ NotifyNobody
  BY <1>1 DEF Subscribe, StartThread, NotifyNobody, Progress, PopNeverEmpty, Accepted,
              PluginOf, Known, GetData
<1>2. CASE AddToListCmd
  <2>1. PICK f \in Frame : /\ accepted' = Append(accepted, f)
                           /\ ListCmd' = Append(ListCmd, Len(accepted) + 1)
    BY <1>2, TrafficAssumption DEF AddToListCmd
  <2>2. Len(ListCmd') = Len(ListCmd) + 1
    BY <1>0, <2>1
  <2>3. /\ Accepted \subseteq Accepted'
        /\ frame \in Accepted => /\ GetData(frame)' = GetData(frame)
                                 /\ Known(frame)' = Known(frame)
    <3>1. frame' = frame
      BY <1>2 DEF AddToListCmd
    <3> QED
      BY <1>0, <2>1, <3>1, FramesStay DEF GetData, Known, PluginOf
  <2> QED
    BY <1>0, <1>2, <2>2, <2>3 DEF AddToListCmd, Progress, PopNeverEmpty
<1>3. CASE ReadSize
  BY <1>0, <1>3 DEF ReadSize, Progress, PopNeverEmpty
<1>4. CASE Pop
  <2>1. /\ ListCmd # <<>> /\ i < size /\ Len(ListCmd) >= size - i
    BY <1>4, <1>0, EmptySeq DEF Pop, Progress, PopNeverEmpty
  <2>2. frame' \in Accepted /\ Len(ListCmd') = Len(ListCmd) - 1
    BY <1>4, <1>0, <2>1, HeadTailProperties DEF Pop
  <2> QED
    BY <1>0, <1>4, <2>1, <2>2 DEF Pop, Progress, PopNeverEmpty, Accepted
<1>5. CASE PutFrameUnknown
  BY <1>5 DEF PutFrameUnknown, Progress, PopNeverEmpty, Accepted, Known, PluginOf
<1>6. CASE PutFrameDecode
  <2>1. GetData(frame) \in 0..MaxValues
    BY <1>0, <1>6, GetDataOutcome DEF PutFrameDecode, Progress
  <2> QED
    BY <1>0, <1>6, <2>1
    DEF PutFrameDecode, NextFrame, Progress, PopNeverEmpty, Accepted, Known, PluginOf, GetData
<1>7. CASE DoPost
  <2>1. index \in Nat
    BY DEF TypeOK
  <2>2. /\ GetData(frame)' = GetData(frame) /\ Known(frame)' = Known(frame)
        /\ Accepted' = Accepted
    BY <1>7 DEF DoPost, GetData, Known, PluginOf, Accepted
  <2>3. GetData(frame) \in Nat
    BY <1>7 DEF DoPost, Progress
  <2> QED
    BY <1>0, <1>7, <2>1, <2>2, <2>3 DEF DoPost, NextFrame, Progress, PopNeverEmpty
<1>8. CASE Reinsert
  <2>1. Len(ListCmd') = Len(ListCmd) + 1
    BY <1>0, <1>8 DEF Reinsert
  <2> QED
    BY <1>0, <1>8, <2>1 DEF Reinsert, NextFrame, Progress, PopNeverEmpty
<1>9. CASE Pause
  BY <1>9 DEF Pause, Progress, PopNeverEmpty
<1> QED
  BY <1>1, <1>2, <1>3, <1>4, <1>5, <1>6, <1>7, <1>8, <1>9 DEF Next, ThreadAction

-----------------------------------------------------------------------------
(* Where the frames are *)

\* Taking the first element: what is left is waiting without it.
LEMMA WaitingAfterPop ==
    ASSUME NEW S, NEW q \in Seq(S), q # <<>>, NEW t, t = Tail(q),
           \A m, n \in DOMAIN q : q[m] = q[n] => m = n
    PROVE  /\ Range(q) = Range(t) \cup {Head(q)}
           /\ Head(q) \notin Range(t)
           /\ \A m, n \in DOMAIN t : t[m] = t[n] => m = n
<1>1. /\ Len(q) \in Nat \ {0}
      /\ DOMAIN q = 1..Len(q)
  BY EmptySeq, LenProperties
<1>2. /\ t \in Seq(S) /\ Len(t) = Len(q) - 1
      /\ DOMAIN t = 1..(Len(q) - 1)
      /\ \A n \in DOMAIN t : t[n] = q[n + 1]
  BY HeadTailProperties, LenProperties
<1>3. Head(q) = q[1]
  OBVIOUS
<1>4. Range(q) \subseteq Range(t) \cup {Head(q)}
  <2> SUFFICES ASSUME NEW n \in DOMAIN q, n # 1
               PROVE  q[n] \in Range(t)
    BY <1>3 DEF Range
  <2>1. n - 1 \in DOMAIN t /\ t[n - 1] = q[n]
    BY <1>1, <1>2
  <2> QED
    BY <2>1 DEF Range
<1>5. /\ Range(t) \cup {Head(q)} \subseteq Range(q)
      /\ Head(q) \notin Range(t)
      /\ \A m, n \in DOMAIN t : t[m] = t[n] => m = n
  BY <1>1, <1>2, <1>3 DEF Range
<1> QED
  BY <1>4, <1>5

\* Adding at the end.
LEMMA WaitingAfterAppend ==
    ASSUME NEW S, NEW q \in Seq(S), NEW x \in S
    PROVE  /\ Range(Append(q, x)) = Range(q) \cup {x}
           /\ \A n \in DOMAIN Append(q, x) :
                 IF n \in DOMAIN q THEN Append(q, x)[n] = q[n]
                                  ELSE n = Len(q) + 1 /\ Append(q, x)[n] = x
           /\ DOMAIN Append(q, x) = 1..(Len(q) + 1) /\ DOMAIN q = 1..Len(q)
<1> DEFINE t == Append(q, x)
<1>1. /\ DOMAIN t = 1..(Len(q) + 1) /\ DOMAIN q = 1..Len(q) /\ Len(q) \in Nat
      /\ \A n \in 1..Len(q) : t[n] = q[n]
      /\ t[Len(q) + 1] = x
  BY AppendProperties, LenProperties
<1> HIDE DEF t
<1>2. Range(t) \subseteq Range(q) \cup {x}
  <2>1. \A n \in DOMAIN t : n \in DOMAIN q \/ n = Len(q) + 1
    BY <1>1
  <2> QED
    BY <1>1, <2>1 DEF Range
<1>3. Range(q) \cup {x} \subseteq Range(t)
  BY <1>1 DEF Range
<1>4. \A n \in DOMAIN t : IF n \in DOMAIN q THEN t[n] = q[n]
                                           ELSE n = Len(q) + 1 /\ t[n] = x
  BY <1>1
<1> QED
  BY <1>1, <1>2, <1>3, <1>4 DEF t

\* There is no frame to have a place at start-up.
LEMMA PlacesInit == Init => UnknownKeptForEver /\ KnownInOrder
  BY DEF Init, UnknownKeptForEver, KnownInOrder, Accepted, Waiting, InHand, Posted, Range

\* A step that leaves ListCmd, accepted and the frames posted alone, and takes
\* in hand only what was in hand, keeps every known frame in its place.
LEMMA PlacesStay ==
    ASSUME UnknownKeptForEver, KnownInOrder,
           ListCmd' = ListCmd, accepted' = accepted, posted' = posted,
           InHand' \subseteq InHand,
           \A f \in InHand \ InHand' : Known(f)
    PROVE  UnknownKeptForEver' /\ KnownInOrder'
  BY DEF UnknownKeptForEver, KnownInOrder, Waiting, Accepted, Known, PluginOf, Posted

\* Every operation leaves unknown frames in the list or in hand, and known frames
\* behind the posts already made.
LEMMA PlacesStep ==
    ASSUME TypeOK, Progress, UnknownKeptForEver, KnownInOrder, Next
    PROVE  UnknownKeptForEver' /\ KnownInOrder'
<1>0. /\ ListCmd \in Seq(Accepted) /\ accepted \in Seq(Frame)
      /\ Accepted = 1..Len(accepted) /\ Len(accepted) \in Nat
      /\ Waiting \subseteq Accepted
      /\ InHand \subseteq Accepted
      /\ \A x \in Posted : x[1] \in Accepted
  BY LenProperties DEF TypeOK, Accepted, Waiting, Progress, InHand, Posted, Range
<1> USE DEF threadVars
<1>1. CASE Subscribe \/ StartThread \/ NotifyNobody \/ ReadSize \/ PutFrameUnknown \/ Pause
  BY <1>1, PlacesStay
  DEF Subscribe, StartThread, NotifyNobody, ReadSize, PutFrameUnknown, Pause, InHand
<1>2. CASE AddToListCmd
  <2> DEFINE new == Len(accepted) + 1
  <2>1. PICK f \in Frame : /\ accepted' = Append(accepted, f)
                           /\ ListCmd' = Append(ListCmd, new)
    BY <1>2, TrafficAssumption DEF AddToListCmd
  <2>2. /\ Accepted' = Accepted \cup {new} /\ new \notin Accepted
        /\ \A g \in Accepted : Known(g)' = Known(g) /\ g < new
        /\ InHand' = InHand /\ Posted' = Posted
    <3>1. accepted' \in Seq(Frame) /\ Len(accepted') = new
      BY <1>0, <2>1, AppendProperties
    <3>2. Accepted' = 1..new
      BY <3>1, LenProperties DEF Accepted
    <3>3. InHand' = InHand /\ Posted' = Posted
      BY <1>2 DEF AddToListCmd, InHand, Posted
    <3>4. \A g \in Accepted : Known(g)' = Known(g)
      BY <1>0, <2>1, FramesStay
    <3> QED
      BY <1>0, <3>2, <3>3, <3>4
  <2>3. ListCmd \in Seq(Accepted \cup {new})
    BY <1>0, SeqMonotonic
  <2>4. /\ Waiting' = Waiting \cup {new}
        /\ \A n \in DOMAIN ListCmd' :
              IF n \in DOMAIN ListCmd THEN ListCmd'[n] = ListCmd[n]
                                      ELSE n = Len(ListCmd) + 1 /\ ListCmd'[n] = new
        /\ DOMAIN ListCmd' = 1..(Len(ListCmd) + 1)
        /\ DOMAIN ListCmd = 1..Len(ListCmd)
        /\ Len(ListCmd) \in Nat
    BY <2>1, <2>3, WaitingAfterAppend, LenProperties DEF Waiting
  <2>5. \A n \in DOMAIN ListCmd : ListCmd[n] \in Accepted
    BY <1>0, <2>4, ElementOfSeq
  <2> HIDE DEF new
  <2>6. UnknownKeptForEver'
    <3>1. \A m, n \in DOMAIN ListCmd' : ListCmd'[m] = ListCmd'[n] => m = n
      BY <2>2, <2>4, <2>5 DEF UnknownKeptForEver
    <3>2. InHand' \cap Waiting' = {}
      BY <1>0, <2>2, <2>4 DEF UnknownKeptForEver
    <3>3. \A g \in Accepted' : ~Known(g)' => g \in Waiting' \cup InHand'
      BY <2>2, <2>4 DEF UnknownKeptForEver
    <3> QED
      BY <3>1, <3>2, <3>3 DEF UnknownKeptForEver
  <2>7. KnownInOrder'
    <3>1. \A m, n \in DOMAIN ListCmd' :
             m < n /\ Known(ListCmd[m])' /\ Known(ListCmd[n])'
               => ListCmd'[m] < ListCmd'[n]
      <4> SUFFICES ASSUME NEW m \in DOMAIN ListCmd', NEW n \in DOMAIN ListCmd', m < n,
                          Known(ListCmd[m])', Known(ListCmd[n])'
                   PROVE  ListCmd'[m] < ListCmd'[n]
        OBVIOUS
      <4>1. m \in DOMAIN ListCmd
        BY <2>4
      <4>2. ListCmd'[m] = ListCmd[m] /\ ListCmd[m] \in Accepted
        BY <4>1, <2>4, <2>5
      <4>3. CASE n \in DOMAIN ListCmd
        <5>1. ListCmd'[n] = ListCmd[n] /\ ListCmd[n] \in Accepted
          BY <4>3, <2>4, <2>5
        <5>2. Known(ListCmd[m]) /\ Known(ListCmd[n])
          BY <4>2, <5>1, <2>2 DEF Known, PluginOf
        <5> QED
          BY <4>1, <4>2, <4>3, <5>1, <5>2 DEF KnownInOrder
      <4>4. CASE n \notin DOMAIN ListCmd
        BY <4>4, <4>2, <2>2, <2>4
      <4> QED
        BY <4>3, <4>4
    <3>2. \A f_1 \in InHand', g \in Waiting' : Known(f_1)' /\ Known(g)' => f_1 < g
      BY <1>0, <2>2, <2>4 DEF KnownInOrder
    <3>3. \A x \in Posted', g \in Waiting' : Known(g)' => x[1] < g
      BY <1>0, <2>2, <2>4 DEF KnownInOrder
    <3>4. \A x \in Posted', f_1 \in InHand' : Known(f_1)' => x[1] <= f_1
      BY <1>0, <2>2, <2>4 DEF KnownInOrder
    <3> QED
      BY <3>1, <3>2, <3>3, <3>4 DEF KnownInOrder
  <2> QED
    BY <2>6, <2>7
<1>3. CASE Pop
  <2>1. ListCmd # <<>>
    BY <1>3, EmptySeq DEF Pop, Progress, PopNeverEmpty, TypeOK
  <2>2. /\ Waiting = Waiting' \cup {frame'} /\ frame' \notin Waiting'
        /\ \A m, n \in DOMAIN ListCmd' : ListCmd'[m] = ListCmd'[n] => m = n
    <3>1. ListCmd' = Tail(ListCmd) /\ frame' = Head(ListCmd)
      BY <1>3 DEF Pop
    <3>2. \A m, n \in DOMAIN ListCmd : ListCmd[m] = ListCmd[n] => m = n
      BY DEF UnknownKeptForEver
    <3> QED
      BY <1>0, <2>1, <3>1, <3>2, WaitingAfterPop DEF Waiting
  <2>3. /\ InHand' = {frame'} /\ InHand = {} /\ Posted' = Posted
        /\ accepted' = accepted /\ Accepted' = Accepted
    BY <1>3 DEF Pop, InHand, Posted, Accepted
  <2>4. \A g \in Accepted : Known(g)' = Known(g)
    BY <1>3 DEF Pop, Known, PluginOf
  <2>5. UnknownKeptForEver'
    BY <2>2, <2>3, <2>4 DEF UnknownKeptForEver
  <2>6. /\ Len(ListCmd) \in Nat \ {0} /\ DOMAIN ListCmd = 1..Len(ListCmd)
        /\ DOMAIN ListCmd' = 1..(Len(ListCmd) - 1)
        /\ \A n \in DOMAIN ListCmd' : n + 1 \in DOMAIN ListCmd /\ ListCmd'[n] = ListCmd[n + 1]
        /\ frame' = ListCmd[1]
        /\ \A n \in DOMAIN ListCmd : ListCmd[n] \in Accepted
    <3>1. /\ ListCmd' \in Seq(Accepted) /\ Len(ListCmd') = Len(ListCmd) - 1
          /\ \A n \in 1..Len(ListCmd') : ListCmd'[n] = ListCmd[n + 1]
      BY <1>0, <1>3, <2>1, HeadTailProperties DEF Pop
    <3>2. frame' = ListCmd[1]
      BY <1>0, <1>3, <2>1 DEF Pop
    <3> QED
      BY <1>0, <2>1, <3>1, <3>2, LenProperties, EmptySeq, ElementOfSeq
  <2>7. KnownInOrder'
    <3>1. \A m, n \in DOMAIN ListCmd' :
             m < n /\ Known(ListCmd[m])' /\ Known(ListCmd[n])'
               => ListCmd'[m] < ListCmd'[n]
      BY <2>3, <2>6 DEF KnownInOrder, Known, PluginOf
    <3>2. \A g \in Waiting' : Known(frame)' /\ Known(g)' => frame' < g
      <4> SUFFICES ASSUME NEW n \in DOMAIN ListCmd', Known(frame)', Known(ListCmd[n])'
                   PROVE  frame' < ListCmd'[n]
        BY DEF Waiting, Range
      <4>1. 1 \in DOMAIN ListCmd /\ n + 1 \in DOMAIN ListCmd /\ 1 < n + 1
        BY <2>6
      <4>2. Known(ListCmd[1]) /\ Known(ListCmd[n + 1])
        BY <2>4, <2>6, <4>1 DEF Known, PluginOf
      <4> QED
        BY <2>6, <4>1, <4>2 DEF KnownInOrder
    <3>3. \A x \in Posted, g \in Waiting : Known(g)' => x[1] < g
      BY <1>0, <2>4 DEF KnownInOrder
    <3>4. \A x \in Posted : Known(frame)' => x[1] <= frame'
      BY <1>0, <2>2, <3>3
    <3> QED
      BY <2>2, <2>3, <3>1, <3>2, <3>3, <3>4 DEF KnownInOrder
  <2> QED
    BY <2>5, <2>7
<1>4. CASE PutFrameDecode
  <2>1. InHand = {frame} /\ Known(frame) /\ InHand' \subseteq {frame}
    BY <1>4 DEF PutFrameDecode, NextFrame, InHand, Known
  <2> QED
    BY <1>4, <2>1, PlacesStay DEF PutFrameDecode
<1>5. CASE DoPost
  <2>1. /\ InHand = {frame} /\ Known(frame) /\ InHand' \subseteq {frame}
        /\ ListCmd' = ListCmd /\ accepted' = accepted
    BY <1>5 DEF DoPost, NextFrame, InHand, Progress
  <2>2. Posted' = Posted \cup {<<frame, index + 1>>}
    <3>1. <<frame, index + 1>> \in Accepted \X (1..MaxValues)
      BY <1>5, BoundsAssumption DEF DoPost, Progress, TypeOK
    <3>2. posted \in Seq(Accepted \X (1..MaxValues))
      BY DEF TypeOK
    <3>3. posted' = Append(posted, <<frame, index + 1>>)
      BY <1>5 DEF DoPost
    <3> QED
      BY <3>1, <3>2, <3>3, WaitingAfterAppend DEF Posted
  <2>3. \A g \in Accepted : Known(g)' = Known(g)
    BY <2>1 DEF Known, PluginOf
  <2>4. Waiting' = Waiting /\ Accepted' = Accepted
    BY <2>1 DEF Waiting, Accepted
  <2>5. UnknownKeptForEver'
    BY <2>1, <2>3, <2>4 DEF UnknownKeptForEver
  <2>6. KnownInOrder'
    <3>1. \A m, n \in DOMAIN ListCmd :
             m < n /\ Known(ListCmd[m])' /\ Known(ListCmd[n])' => ListCmd[m] < ListCmd[n]
      BY <2>1 DEF KnownInOrder, Known, PluginOf
    <3>2. \A x \in Posted', g \in Waiting' : Known(g)' => x[1] < g
      BY <1>0, <2>1, <2>2, <2>3, <2>4 DEF KnownInOrder
    <3>3. \A x \in Posted', f \in InHand' : Known(f)' => x[1] <= f
      BY <1>0, <2>1, <2>2, <2>3 DEF KnownInOrder
    <3>4. \A f \in InHand', g \in Waiting' : Known(f)' /\ Known(g)' => f < g
      BY <1>0, <2>1, <2>3, <2>4 DEF KnownInOrder
    <3> QED
      BY <2>1, <3>1, <3>2, <3>3, <3>4 DEF KnownInOrder
  <2> QED
    BY <2>5, <2>6
<1>6. CASE Reinsert
  <2>1. /\ InHand = {frame} /\ ~Known(frame) /\ InHand' = {}
        /\ frame \in Accepted
        /\ accepted' = accepted /\ Posted' = Posted /\ Accepted' = Accepted
    BY <1>6 DEF Reinsert, NextFrame, InHand, Progress, Posted, Accepted
  <2>2. /\ Waiting' = Waiting \cup {frame}
        /\ \A n \in DOMAIN ListCmd' :
              IF n \in DOMAIN ListCmd THEN ListCmd'[n] = ListCmd[n]
                                      ELSE n = Len(ListCmd) + 1 /\ ListCmd'[n] = frame
        /\ DOMAIN ListCmd = 1..Len(ListCmd)
    <3>1. ListCmd' = Append(ListCmd, frame)
      BY <1>6 DEF Reinsert
    <3> QED
      BY <1>0, <2>1, <3>1, WaitingAfterAppend DEF Waiting
  <2>3. \A n \in DOMAIN ListCmd : ListCmd[n] \in Waiting
    BY DEF Waiting, Range
  <2>4. \A g \in Accepted : Known(g)' = Known(g)
    BY <2>1 DEF Known, PluginOf
  <2>5. UnknownKeptForEver'
    <3>1. \A m, n \in DOMAIN ListCmd' : ListCmd'[m] = ListCmd'[n] => m = n
      BY <2>1, <2>2, <2>3 DEF UnknownKeptForEver
    <3> QED
      BY <2>1, <2>2, <2>4, <3>1 DEF UnknownKeptForEver
  <2>6. KnownInOrder'
    <3>1. \A m, n \in DOMAIN ListCmd' :
             m < n /\ Known(ListCmd[m])' /\ Known(ListCmd[n])'
               => ListCmd'[m] < ListCmd'[n]
      BY <2>1, <2>2 DEF KnownInOrder, Known, PluginOf
    <3>2. \A x \in Posted, g \in Waiting' : Known(g)' => x[1] < g
      BY <1>0, <2>1, <2>2, <2>4 DEF KnownInOrder
    <3> QED
      BY <2>1, <3>1, <3>2 DEF KnownInOrder
  <2> QED
    BY <2>5, <2>6
<1> QED
  BY <1>1, <1>2, <1>3, <1>4, <1>5, <1>6 DEF Next, ThreadAction

-----------------------------------------------------------------------------
(* The theorems *)

\* The inductive invariant holds of every reachable state.
THEOREM InductiveInvariant == Spec => []IInv
<1>1. Init => IInv
  BY TypeInit, ProgressInit, PlacesInit DEF IInv
<1>2. IInv /\ [Next]_vars => IInv'
  <2> SUFFICES ASSUME IInv, [Next]_vars PROVE IInv'
    OBVIOUS
  <2>1. CASE Next
    BY <2>1, TypeStep, ProgressStep, PlacesStep DEF IInv
  <2>2. CASE UNCHANGED vars
    BY <2>2 DEF IInv, vars, TypeOK, Progress, PopNeverEmpty, UnknownKeptForEver, KnownInOrder,
                Accepted, Known, PluginOf, GetData, Waiting, InHand, Posted
  <2> QED
    BY <2>1, <2>2
<1> QED
  BY <1>1, <1>2, PTL DEF Spec

\* Every variable of the communication thread keeps its type.
THEOREM TypeCorrect == Spec => []TypeOK
  BY InductiveInvariant, PTL DEF IInv

\* front() and pop_front() are never called on an empty list, although the lock
\* is released between reading the size and each pop.
THEOREM NeverPopsEmpty == Spec => []PopNeverEmpty
<1>1. IInv => PopNeverEmpty
  BY DEF IInv, Progress
<1> QED
  BY <1>1, InductiveInvariant, PTL

\* A frame from a node nobody claims stays in the list for ever.
THEOREM UnknownFramesStay == Spec => []UnknownKeptForEver
  BY InductiveInvariant, PTL DEF IInv

\* Known frames are handled, and posted, in the order they arrived.
THEOREM KnownFramesInOrder == Spec => []KnownInOrder
  BY InductiveInvariant, PTL DEF IInv

-----------------------------------------------------------------------------
(* The thread implements the feed *)

\* How far the posts have come: a frame that has left the thread has had all
\* its values posted, the one in hand those before index, and a frame that
\* blocks the thread or has no plugin has none.
Frontier ==
    /\ \A a \in Accepted \ (Waiting \cup InHand) :
          /\ GetData(a) # Blocks
          /\ \A k \in 1..MaxValues : k <= GetData(a) => <<a, k>> \in Posted
    /\ \A x \in Posted : Known(x[1])
    /\ pc = "putFrame" => \A x \in Posted : x[1] # frame
    /\ pc = "post" => \A k \in 1..MaxValues : <<frame, k>> \in Posted <=> k <= index

\* Nothing was accepted and nothing posted at start-up.
LEMMA FrontierInit == Init => Frontier
  BY DEF Init, Frontier, Accepted, Posted, Range

\* The frontier between the frames posted whole and those still owed moves with
\* the frame in hand and the position in its data.
LEMMA FrontierStep ==
    ASSUME IInv, Frontier, Next
    PROVE  Frontier'
<1>0. /\ TypeOK /\ Progress /\ UnknownKeptForEver /\ KnownInOrder
      /\ ListCmd \in Seq(Accepted) /\ accepted \in Seq(Frame)
      /\ posted \in Seq(Accepted \X (1..MaxValues))
      /\ Posted \subseteq Accepted \X (1..MaxValues)
      /\ MaxValues \in Nat /\ index \in Nat
  BY LenProperties, BoundsAssumption DEF IInv, TypeOK, Posted, Range
<1> USE DEF threadVars
<1>1. CASE Subscribe \/ StartThread \/ NotifyNobody \/ ReadSize \/ PutFrameUnknown \/ Pause
  <2>1. /\ accepted' = accepted /\ ListCmd' = ListCmd /\ posted' = posted
        /\ frame' = frame /\ index' = index /\ InHand' = InHand
        /\ pc' = "putFrame" => pc = "putFrame"
        /\ pc' = "post" => pc = "post"
    BY <1>1 DEF Subscribe, StartThread, NotifyNobody, ReadSize, PutFrameUnknown, Pause, InHand
  <2> QED
    BY <2>1 DEF Frontier, Accepted, Waiting, Posted, Known, PluginOf, GetData
<1>2. CASE AddToListCmd
  <2> DEFINE new == Len(accepted) + 1
  <2>1. PICK f \in Frame : /\ accepted' = Append(accepted, f)
                           /\ ListCmd' = Append(ListCmd, new)
    BY <1>2, TrafficAssumption DEF AddToListCmd
  <2>2. Accepted' \subseteq Accepted \cup {new}
    BY <1>0, <2>1, AppendProperties, LenProperties DEF Accepted
  <2>3. ListCmd \in Seq(Accepted \cup {new})
    BY <1>0, SeqMonotonic
  <2>4. Waiting' = Waiting \cup {new}
    BY <2>1, <2>3, WaitingAfterAppend DEF Waiting
  <2>5. /\ InHand' = InHand /\ Posted' = Posted /\ pc' = pc
        /\ frame' = frame /\ index' = index
    BY <1>2 DEF AddToListCmd, InHand, Posted
  <2>6. \A a \in Accepted : GetData(a)' = GetData(a) /\ Known(a)' = Known(a)
    BY <1>0, <2>1, FramesStay
  <2> HIDE DEF new
  <2> QED
    BY <1>0, <2>2, <2>4, <2>5, <2>6 DEF Frontier
<1>3. CASE Pop
  <2>1. ListCmd # <<>>
    BY <1>0, <1>3, EmptySeq DEF Pop, Progress, PopNeverEmpty, TypeOK
  <2>2. /\ Waiting = Waiting' \cup {frame'}
        /\ frame' \in Waiting /\ InHand' = {frame'} /\ InHand = {} /\ pc' = "putFrame"
        /\ accepted' = accepted /\ posted' = posted
    <3>1. ListCmd' = Tail(ListCmd) /\ frame' = Head(ListCmd)
      BY <1>3 DEF Pop
    <3>2. \A m, n \in DOMAIN ListCmd : ListCmd[m] = ListCmd[n] => m = n
      BY <1>0 DEF UnknownKeptForEver
    <3>3. Waiting = Waiting' \cup {frame'}
      BY <1>0, <2>1, <3>1, <3>2, WaitingAfterPop DEF Waiting
    <3> QED
      BY <1>3, <3>3 DEF Pop, InHand
  <2>3. \A x \in Posted : x[1] # frame'
    BY <1>0, <2>2 DEF KnownInOrder, Frontier, TypeOK, Accepted
  <2>4. /\ Accepted' = Accepted /\ Posted' = Posted
        /\ \A a : GetData(a)' = GetData(a) /\ Known(a)' = Known(a)
    BY <2>2 DEF Accepted, Posted, GetData, Known, PluginOf
  <2> QED
    BY <2>2, <2>3, <2>4 DEF Frontier
<1>4. CASE PutFrameDecode
  <2>1. /\ accepted' = accepted /\ ListCmd' = ListCmd /\ posted' = posted
        /\ frame' = frame /\ index' = 0 /\ InHand = {frame}
        /\ frame \in Accepted /\ GetData(frame) # Blocks
        /\ \A x \in Posted : x[1] # frame
    BY <1>0, <1>4 DEF PutFrameDecode, InHand, Progress, Frontier
  <2>2. \/ /\ GetData(frame) = 0 /\ InHand' = {} /\ pc' \notin {"putFrame", "post"}
        \/ /\ InHand' = {frame} /\ pc' = "post"
    BY <1>4 DEF PutFrameDecode, NextFrame, InHand
  <2>3. /\ Accepted' = Accepted /\ Waiting' = Waiting /\ Posted' = Posted
        /\ \A a : GetData(a)' = GetData(a) /\ Known(a)' = Known(a)
    BY <2>1 DEF Accepted, Waiting, Posted, GetData, Known, PluginOf
  <2> QED
    BY <1>0, <2>1, <2>2, <2>3 DEF Frontier
<1>5. CASE DoPost
  <2> DEFINE x == <<frame, index + 1>>
  <2>1. /\ accepted' = accepted /\ ListCmd' = ListCmd /\ posted' = Append(posted, x)
        /\ frame' = frame /\ index' = index + 1 /\ InHand = {frame}
        /\ frame \in Accepted /\ Known(frame) /\ GetData(frame) \in 1..MaxValues
        /\ index < GetData(frame) /\ pc = "post"
    BY <1>0, <1>5 DEF DoPost, InHand, Progress
  <2>2. Posted' = Posted \cup {x}
    <3>1. x \in Accepted \X (1..MaxValues)
      BY <1>0, <2>1
    <3> HIDE DEF x
    <3> QED
      BY <1>0, <2>1, <3>1, WaitingAfterAppend DEF Posted
  <2>3. \/ /\ GetData(frame) = index + 1 /\ InHand' = {} /\ pc' \notin {"putFrame", "post"}
        \/ /\ InHand' = {frame} /\ pc' = "post"
    BY <1>5 DEF DoPost, NextFrame, InHand
  <2>4. /\ Accepted' = Accepted /\ Waiting' = Waiting
        /\ \A a : GetData(a)' = GetData(a) /\ Known(a)' = Known(a)
    BY <2>1 DEF Accepted, Waiting, GetData, Known, PluginOf
  <2>5. \A k \in 1..MaxValues : <<frame, k>> \in Posted' <=> k <= index + 1
    BY <1>0, <2>1, <2>2 DEF Frontier
  <2>6. \A a \in Accepted' \ (Waiting' \cup InHand') :
          /\ GetData(a) # Blocks
          /\ \A k \in 1..MaxValues : k <= GetData(a) => <<a, k>> \in Posted'
    <3> SUFFICES ASSUME NEW a \in Accepted \ (Waiting \cup InHand')
                 PROVE  /\ GetData(a) # Blocks
                        /\ \A k \in 1..MaxValues : k <= GetData(a) => <<a, k>> \in Posted'
      BY <2>4
    <3>1. CASE a = frame
      BY <2>1, <2>3, <2>5, <3>1, BlocksAssumption
    <3>2. CASE a # frame
      BY <2>1, <2>2, <3>2 DEF Frontier
    <3> QED
      BY <3>1, <3>2
  <2>7. \A y \in Posted' : Known(y[1])
    BY <2>1, <2>2 DEF Frontier
  <2>8. pc' = "putFrame" => \A y \in Posted' : y[1] # frame'
    BY <2>3
  <2>9. pc' = "post" => \A k \in 1..MaxValues : <<frame', k>> \in Posted' <=> k <= index'
    BY <2>1, <2>5
  <2> HIDE DEF x
  <2> QED
    BY <2>4, <2>6, <2>7, <2>8, <2>9 DEF Frontier
<1>6. CASE Reinsert
  <2>1. /\ accepted' = accepted /\ ListCmd' = Append(ListCmd, frame) /\ posted' = posted
        /\ InHand = {frame} /\ InHand' = {} /\ frame \in Accepted
        /\ pc' \notin {"putFrame", "post"}
    BY <1>0, <1>6 DEF Reinsert, NextFrame, InHand, Progress
  <2>2. Waiting' = Waiting \cup {frame}
    BY <1>0, <2>1, WaitingAfterAppend DEF Waiting
  <2> QED
    BY <2>1, <2>2 DEF Frontier, Accepted, Posted, Known, PluginOf, GetData
<1> QED
  BY <1>1, <1>2, <1>3, <1>4, <1>5, <1>6 DEF Next, ThreadAction

\* What the feed's definitions say once arrivals is read as GetData.
LEMMA FeedPending ==
    Feed!Pending = {x \in Accepted \X (1..MaxValues) :
                      /\ \A b \in 1..x[1] : [f \in Accepted |-> GetData(f)][b] # Blocks
                      /\ x[2] <= GetData(x[1])} \ Posted
  BY DEF Feed!Pending, Feed!Reachable, Feed!Posted, Feed!Range, Posted, Range

\* The thread starts where the feed starts.
LEMMA FeedInitial == Init => Feed!FeedInit
<1> SUFFICES ASSUME Init PROVE Feed!FeedInit
  OBVIOUS
<1>1. Accepted = {}
  BY DEF Init, Accepted
<1>2. [f \in Accepted |-> GetData(f)] = <<>>
  BY <1>1
<1> QED
  BY <1>2 DEF Init, Feed!FeedInit

\* Accepting a frame is an arrival; posting a value is the feed's Post, because
\* the frame in hand is the first known one that has not been posted whole.
LEMMA FeedStep ==
    ASSUME IInv, Frontier, [Next]_vars
    PROVE  [Feed!FeedNext]_(Feed!feedVars)
<1> DEFINE bar == [f \in Accepted |-> GetData(f)]
<1>0. /\ TypeOK /\ Progress /\ UnknownKeptForEver /\ KnownInOrder
      /\ accepted \in Seq(Frame) /\ Accepted = 1..Len(accepted) /\ Len(accepted) \in Nat
      /\ MaxValues \in Nat /\ index \in Nat
  BY LenProperties, BoundsAssumption DEF IInv, TypeOK, Accepted
<1>1. CASE accepted' = accepted /\ posted' = posted
  <2>1. bar' = bar
    BY <1>1 DEF Accepted, GetData, PluginOf
  <2> QED
    BY <1>1, <2>1 DEF Feed!feedVars
<1>2. CASE AddToListCmd
  <2>1. PICK f \in Frame : accepted' = Append(accepted, f)
    BY <1>2, TrafficAssumption DEF AddToListCmd
  <2> PICK new \in Nat : new = Len(accepted) + 1
    BY <1>0
  <2> DEFINE out == GetData(new)'
  <2>2. /\ accepted' \in Seq(Frame) /\ Len(accepted') = new
        /\ Accepted' = 1..new
    BY <1>0, <2>1, AppendProperties, LenProperties DEF Accepted
  <2>3. \A a \in Accepted : GetData(a)' = GetData(a)
    BY <1>0, <2>1, FramesStay
  <2>4. out \in Feed!Outcome
    <3>1. /\ accepted'[new] = f
      BY <1>0, <2>1, AppendProperties
    <3>2. Plugin[f.sender] \in {"none", "Node0_5", "NodeDhtXX"} /\ f.values \in 0..MaxValues
      BY PluginAssumption DEF Frame
    <3> QED
      BY <3>1, <3>2, BoundsAssumption DEF GetData, PluginOf, DhtValues, Feed!Outcome
  <2>5. bar' = [a \in 1..new |-> IF a = new THEN out ELSE bar[a]]
    <3>1. \A a \in Accepted' : GetData(a)' = IF a = new THEN out ELSE bar[a]
      BY <1>0, <2>2, <2>3
    <3>2. bar' = [a \in Accepted' |-> GetData(a)']
      OBVIOUS
    <3> HIDE DEF bar, out
    <3> QED
      BY <2>2, <3>1, <3>2
  <2>6. \A a \in Accepted : bar[a] \in Feed!Outcome
    BY <1>0, GetDataOutcome DEF Feed!Outcome
  <2>7. bar \in Seq(Feed!Outcome) /\ Len(bar) = Len(accepted)
    <3>1. bar \in [1..Len(accepted) -> Feed!Outcome]
      BY <1>0, <2>6
    <3> HIDE DEF bar
    <3> QED
      BY <1>0, <3>1
  <2>8. Append(bar, out) = [a \in 1..new |-> IF a = new THEN out ELSE bar[a]]
    <3> HIDE DEF bar, out
    <3> DEFINE long == Append(bar, out)
    <3>1. /\ long \in Seq(Feed!Outcome) /\ Len(long) = new
          /\ \A a \in 1..Len(bar) : long[a] = bar[a]
          /\ long[new] = out
      BY <2>4, <2>7, AppendProperties
    <3> HIDE DEF long
    <3>2. long \in [1..new -> Feed!Outcome]
      BY <3>1, LenProperties
    <3>3. \A a \in 1..new : long[a] = IF a = new THEN out ELSE bar[a]
      BY <1>0, <2>7, <3>1
    <3>4. long = [a \in 1..new |-> IF a = new THEN out ELSE bar[a]]
      BY <3>2, <3>3
    <3> QED
      BY <3>4 DEF long
  <2>9. posted' = posted
    BY <1>2 DEF AddToListCmd
  <2>10. bar' = Append(bar, out)
    BY <2>5, <2>8
  <2> QED
    BY <2>4, <2>9, <2>10 DEF Feed!FeedNext, Feed!Arrive
<1>3. CASE DoPost
  <2> DEFINE x == <<frame, index + 1>>
  <2>1. /\ accepted' = accepted /\ posted' = Append(posted, x)
        /\ InHand = {frame} /\ frame \in Accepted /\ Known(frame)
        /\ GetData(frame) \in 1..MaxValues /\ index < GetData(frame) /\ pc = "post"
    BY <1>0, <1>3 DEF DoPost, InHand, Progress
  <2>2. bar' = bar
    BY <2>1 DEF Accepted, GetData, PluginOf
  <2>3. \A b \in 1..frame : b \in Accepted /\ GetData(b) # Blocks
    <3> SUFFICES ASSUME NEW b \in 1..frame PROVE b \in Accepted /\ GetData(b) # Blocks
      OBVIOUS
    <3>1. b \in Accepted
      BY <1>0, <2>1
    <3>2. CASE b \in Waiting
      <4>1. ~Known(b)
        BY <1>0, <2>1, <3>2 DEF KnownInOrder
      <4>2. GetData(b) = 0
        BY <1>0, <3>1, <4>1, GetDataOutcome DEF Known
      <4> QED
        BY <3>1, <4>2, BlocksAssumption
    <3>3. CASE b = frame
      BY <2>1, <3>3, BlocksAssumption
    <3>4. CASE b \notin Waiting \cup InHand
      BY <3>1, <3>4 DEF Frontier
    <3> QED
      BY <2>1, <3>2, <3>3, <3>4
  <2>4. x \in Feed!Pending
    <3>1. x \notin Posted
      BY <1>0, <2>1 DEF Frontier
    <3>2. \A b \in 1..frame : bar[b] # Blocks
      BY <2>3
    <3>3. x \in Accepted \X (1..MaxValues) /\ x[1] = frame /\ x[2] <= GetData(x[1])
      BY <1>0, <2>1
    <3> QED
      BY <3>1, <3>2, <3>3, FeedPending
  <2>5. \A y \in Feed!Pending : y = x \/ Feed!Before(x, y)
    <3> SUFFICES ASSUME NEW y \in Feed!Pending PROVE y = x \/ Feed!Before(x, y)
      OBVIOUS
    <3>1. /\ y \in Accepted \X (1..MaxValues) /\ y \notin Posted
          /\ y[2] <= GetData(y[1])
          /\ y = <<y[1], y[2]>> /\ y[1] \in Accepted /\ y[2] \in 1..MaxValues
      BY FeedPending
    <3>2. y[1] \in Waiting \cup InHand
      BY <3>1 DEF Frontier
    <3>3. CASE y[1] \in Waiting
      <4>1. Known(y[1])
        BY <1>0, <3>1, GetDataOutcome DEF Known
      <4>2. frame < y[1]
        BY <1>0, <2>1, <3>3, <4>1 DEF KnownInOrder
      <4> QED
        BY <4>2 DEF Feed!Before
    <3>4. CASE y[1] = frame
      <4>1. y[2] > index
        BY <1>0, <2>1, <3>1, <3>4 DEF Frontier
      <4> QED
        BY <1>0, <3>1, <3>4, <4>1 DEF Feed!Before
    <3> QED
      BY <2>1, <3>2, <3>3, <3>4
  <2> HIDE DEF x
  <2>6. Feed!Post
    BY <2>1, <2>2, <2>4, <2>5 DEF Feed!Post
  <2> QED
    BY <2>6 DEF Feed!FeedNext
<1>4. CASE Subscribe \/ StartThread \/ NotifyNobody \/ ReadSize \/ Pop \/ PutFrameUnknown
              \/ PutFrameDecode \/ Reinsert \/ Pause \/ UNCHANGED vars
  BY <1>1, <1>4 DEF Subscribe, StartThread, NotifyNobody, ReadSize, Pop, PutFrameUnknown,
     PutFrameDecode, Reinsert, Pause, vars
<1> QED
  BY <1>2, <1>3, <1>4 DEF Next, ThreadAction

\* The safety part of ImplementsFeed: for any number of frames, what the thread
\* posts is what the feed posts.
THEOREM ImplementsFeedSafety == Spec => Feed!FeedSafety
<1>1. Init => Frontier
  BY FrontierInit
<1>2. IInv /\ Frontier /\ [Next]_vars => Frontier'
  <2>1. ASSUME IInv, Frontier, UNCHANGED vars PROVE Frontier'
    BY <2>1 DEF vars, Frontier, Accepted, Waiting, InHand, GetData, PluginOf, Known, Posted
  <2> QED
    BY <2>1, FrontierStep
<1>3. Spec => [](IInv /\ Frontier)
  BY <1>1, <1>2, InductiveInvariant, PTL DEF Spec
<1>4. IInv /\ Frontier /\ [Next]_vars => [Feed!FeedNext]_(Feed!feedVars)
  BY FeedStep
<1> QED
  BY <1>3, <1>4, FeedInitial, PTL DEF Spec, Feed!FeedSafety
=============================================================================
