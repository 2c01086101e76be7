------------------------- MODULE FrameReceiverProofs -------------------------
(***************************************************************************)
(* The receiver stays within its bounds and leaves every message, whatever *)
(* it samples, for the master's bit_count and limit and for the gateway's; *)
(* and it hands over what nodes send, however the clocks of the two drift. *)
(***************************************************************************)
EXTENDS FrameReceiver, TLAPS, NaturalsInduction, WellFoundedInduction, SequenceTheorems

\* Inside a message past its size, the size is within the limits, the message is not
\* over, and the first half bit of data has set length_ok.
Within(r) ==
    r.active /\ r.count >= 48 =>
      /\ r.size \in 1..MaxSize
      /\ r.count < 48 + 16 * r.size
      /\ r.count >= 49 => r.lengthOk

\* The inductive invariant.
Sound(r) ==
    /\ r \in Receiver
    /\ 11 * r.sum <= r.ramp
    /\ Within(r)

-----------------------------------------------------------------------------
(* The helpers.                                                            *)

\* bit_count after a half bit is one more than it was, or has wrapped.
LEMMA Wrapped ==
    ASSUME NEW c \in Counts
    PROVE  /\ (c + 1) % CountMod \in Counts
           /\ (c + 1) % CountMod = c + 1 \/ (c + 1) % CountMod = 0
  BY CountModAssumption DEF Counts

\* Shifting a bit into a byte leaves a byte.
LEMMA PushByte ==
    ASSUME NEW x \in Byte, NEW b \in Level
    PROVE  Push(x, b) \in Byte
  BY DEF Push, Byte, Level

\* A remainder is less than the modulus.
LEMMA Remainder ==
    ASSUME NEW y \in Nat, NEW m \in Nat, m > 0
    PROVE  y % m \in 0..(m - 1)
  OBVIOUS

\* Shifting a bit into rx_bits leaves sixteen bits.
LEMMA PushWord ==
    ASSUME NEW x \in Word, NEW b \in Level
    PROVE  (2 * x + b) % WordMod \in Word
<1>1. WordMod \in Nat /\ WordMod > 0
  BY DEF WordMod
<1>2. 2 * x + b \in Nat
  BY <1>1 DEF Word, Level
<1> QED
  BY <1>1, <1>2, Remainder DEF Word

\* m_data is nothing but bytes after initialisation and after memset.
LEMMA NoDataType == NoData \in Data
  BY DEF NoData, Data, Byte

\* Shifted changes none but the fields the message is read into, each within its type:
\* an m_data byte is written for a size the length check has let through only.
LEMMA ShiftedType ==
    ASSUME NEW r \in Receiver, NEW b \in Level,
           r.count >= 49 => r.size \in 1..31
    PROVE  LET s == Shifted(r, b) IN
           /\ s \in Receiver
           /\ s.active = r.active /\ s.count = r.count
           /\ s.sum = r.sum /\ s.ramp = r.ramp /\ s.last = r.last /\ s.bits = r.bits
           /\ r.count >= 48 => s.size = r.size
           /\ r.lengthOk => s.lengthOk
           /\ r.count = 49 => s.lengthOk
<1> DEFINE s == Shifted(r, b)
<1>0. r.count \in Nat /\ r.size \in Nat /\ b \in Nat
  BY CountModAssumption DEF Receiver, Counts, Level
<1>1. CASE r.count % 2 = 0
  BY <1>0, <1>1 DEF Shifted
<1>2. CASE r.count % 2 # 0 /\ r.count < 16
  <2>1. s = [r EXCEPT !.receptor = Push(r.receptor, b)]
    BY <1>2 DEF Shifted
  <2>2. Push(r.receptor, b) \in Byte
    BY PushByte DEF Receiver
  <2> QED
    BY <1>0, <1>2, <2>1, <2>2 DEF Receiver
<1>3. CASE r.count % 2 # 0 /\ ~(r.count < 16) /\ r.count < 32
  <2>1. s = [r EXCEPT !.sender = Push(r.sender, b)]
    BY <1>3 DEF Shifted
  <2>2. Push(r.sender, b) \in Byte
    BY PushByte DEF Receiver
  <2> QED
    BY <1>0, <1>3, <2>1, <2>2 DEF Receiver
<1>4. CASE r.count % 2 # 0 /\ ~(r.count < 32) /\ r.count < 38
  <2>1. s = [r EXCEPT !.type = Push(r.type, b)]
    BY <1>0, <1>4 DEF Shifted
  <2>2. Push(r.type, b) \in Byte
    BY PushByte DEF Receiver
  <2> QED
    BY <1>0, <1>4, <2>1, <2>2 DEF Receiver
<1>5. CASE r.count % 2 # 0 /\ ~(r.count < 38) /\ r.count < 48
  <2>1. s = [r EXCEPT !.size = 2 * r.size + b]
    BY <1>0, <1>5 DEF Shifted
  <2>2. 2 * r.size + b \in Nat
    BY <1>0
  <2> QED
    BY <1>0, <1>5, <2>1, <2>2 DEF Receiver
<1>6. CASE r.count % 2 # 0 /\ ~(r.count < 48) /\ r.count - 48 < 16 * r.size
  <2> DEFINE i == (r.count - 48) \div 16
  <2> DEFINE data == [r.data EXCEPT ![i] = Push(r.data[i], b)]
  <2>1. r.count >= 49 /\ i \in 0..30
    BY <1>0, <1>6
  <2>2. r.data \in Data
    BY DEF Receiver
  <2>3. Push(r.data[i], b) \in Byte
    BY <2>1, <2>2, PushByte DEF Data
  <2>4. data \in Data
    BY <2>2, <2>3 DEF Data
  <2>5. s = [r EXCEPT !.lengthOk = TRUE, !.data[i] = Push(r.data[i], b)]
    BY <1>0, <1>6 DEF Shifted, Receiver
  <2>6. s = [r EXCEPT !.lengthOk = TRUE, !.data = data]
    BY <2>5 DEF Receiver
  <2> HIDE DEF data
  <2> QED
    BY <2>1, <2>4, <2>6 DEF Receiver
<1>7. CASE r.count % 2 # 0 /\ ~(r.count < 48) /\ ~(r.count - 48 < 16 * r.size)
  <2>1. s = r
    BY <1>0, <1>7 DEF Shifted
  <2>2. r.count # 49
    BY <1>0, <1>7
  <2> QED
    BY <2>1, <2>2
<1> QED
  BY <1>0, <1>1, <1>2, <1>3, <1>4, <1>5, <1>6, <1>7

\* What is forgotten leaves a receiver outside of any message, its clock as it was.
LEMMA ForgottenType ==
    ASSUME NEW r \in Receiver
    PROVE  /\ Forgotten(r) \in Receiver
           /\ ~Forgotten(r).active
           /\ Forgotten(r).sum = r.sum /\ Forgotten(r).ramp = r.ramp
           /\ Forgotten(r).last = r.last /\ Forgotten(r).bits = r.bits
<1>1. 0 \in Byte
  BY DEF Byte
<1> QED
  BY <1>1, NoDataType DEF Forgotten, Receiver

\* So does a completed message; the frame that is handed over is one.
LEMMA CompletedType ==
    ASSUME NEW r \in Receiver, r.size \in 1..31
    PROVE  /\ Completed(r) \in Receiver
           /\ ~Completed(r).active
           /\ Completed(r).sum = r.sum /\ Completed(r).ramp = r.ramp
           /\ Completed(r).last = r.last /\ Completed(r).bits = r.bits
<1> DEFINE data == [i \in 1..(r.size - 1) |-> r.data[i - 1]]
<1> DEFINE frame == [receptor |-> r.receptor, sender |-> r.sender, type |-> r.type,
                     data |-> data]
<1> DEFINE done == r.data[r.size - 1] = ComputeCrc(frame)
<1>1. data \in Seq(Byte)
  <2>1. \A i \in 1..(r.size - 1) : r.data[i - 1] \in Byte
    BY DEF Receiver, Data
  <2>2. r.size - 1 \in Nat
    OBVIOUS
  <2> QED
    BY <2>1, <2>2
<1>2. frame \in Frame
  BY <1>1 DEF Frame, Receiver
<1>3. done \in BOOLEAN
  OBVIOUS
<1>4. Completed(r) = [Forgotten(r) EXCEPT !.frame = frame, !.done = done]
  BY DEF Completed
<1> HIDE DEF data, frame, done
<1> QED
  BY <1>2, <1>3, <1>4, ForgottenType DEF Receiver

-----------------------------------------------------------------------------
(* A half bit, a sample.                                                   *)

\* A half bit inside a message leaves it within its size, or ends it.
LEMMA CollectedSound ==
    ASSUME NEW q, Sound(q), q.active, NEW b \in Level
    PROVE  LET n == Collected(q, b) IN
           /\ Sound(n)
           /\ n.sum = q.sum /\ n.ramp = q.ramp /\ n.last = q.last /\ n.bits = q.bits
<1> DEFINE c == (q.count + 1) % CountMod
<1> DEFINE p == [q EXCEPT !.count = c]
<1> DEFINE r == Shifted(p, b)
<1>1. q \in Receiver /\ q.count \in Counts /\ q.size \in Nat /\ q.count \in Nat
  BY CountModAssumption DEF Sound, Receiver, Counts
<1>2. c \in Counts /\ (c = q.count + 1 \/ c = 0)
  BY <1>1, Wrapped
<1>3. /\ p \in Receiver /\ p.count = c /\ p.size = q.size /\ p.active
      /\ p.lengthOk = q.lengthOk /\ p.sum = q.sum /\ p.ramp = q.ramp
      /\ p.last = q.last /\ p.bits = q.bits
  BY <1>1, <1>2 DEF Receiver
<1> HIDE DEF p, c
<1>4. p.count >= 49 => p.size \in 1..31
  BY <1>1, <1>2, <1>3, MaxSizeAssumption DEF Sound, Within
<1>5. /\ r \in Receiver /\ r.active /\ r.count = c
      /\ r.sum = q.sum /\ r.ramp = q.ramp /\ r.last = q.last /\ r.bits = q.bits
      /\ p.lengthOk => r.lengthOk
      /\ c = 49 => r.lengthOk
  BY <1>3, <1>4, ShiftedType
<1>6. c >= 49 => r.lengthOk
  BY <1>1, <1>2, <1>3, <1>5 DEF Sound, Within
<1>7. r.size \in Nat /\ r.count \in Nat
  BY <1>2, <1>5, CountModAssumption DEF Receiver, Counts
<1>8. Collected(q, b) = IF BadSize(r) THEN [Forgotten(r) EXCEPT !.count = 0]
                        ELSE IF Whole(r) THEN Completed(r) ELSE r
  BY DEF Collected, p, c
<1> HIDE DEF r
<1>9. CASE BadSize(r)
  <2>1. 0 \in Counts
    BY CountModAssumption DEF Counts
  <2>2. Collected(q, b) = [Forgotten(r) EXCEPT !.count = 0]
    BY <1>8, <1>9
  <2>3. /\ Collected(q, b) \in Receiver /\ ~Collected(q, b).active
        /\ Collected(q, b).sum = q.sum /\ Collected(q, b).ramp = q.ramp
        /\ Collected(q, b).last = q.last /\ Collected(q, b).bits = q.bits
    BY <1>5, <2>1, <2>2, ForgottenType DEF Receiver
  <2> QED
    BY <2>3 DEF Sound, Within
<1>10. CASE ~BadSize(r) /\ Whole(r)
  <2>1. r.size \in 1..31
    BY <1>7, <1>10, MaxSizeAssumption DEF BadSize, Whole
  <2>2. Collected(q, b) = Completed(r)
    BY <1>8, <1>10
  <2>3. /\ Collected(q, b) \in Receiver /\ ~Collected(q, b).active
        /\ Collected(q, b).sum = q.sum /\ Collected(q, b).ramp = q.ramp
        /\ Collected(q, b).last = q.last /\ Collected(q, b).bits = q.bits
    BY <1>5, <2>1, <2>2, CompletedType
  <2> QED
    BY <2>3 DEF Sound, Within
<1>11. CASE ~BadSize(r) /\ ~Whole(r)
  <2>1. Collected(q, b) = r
    BY <1>8, <1>11
  <2>2. Within(r)
    BY <1>5, <1>6, <1>7, <1>11, MaxSizeAssumption DEF BadSize, Whole, Within
  <2> QED
    BY <1>5, <2>1, <2>2 DEF Sound
<1> QED
  BY <1>9, <1>10, <1>11

\* So does any half bit.
LEMMA HalfBitSound ==
    ASSUME NEW q, Sound(q), NEW b \in Level
    PROVE  LET n == HalfBit(q, b) IN
           /\ Sound(n)
           /\ n.sum = q.sum /\ n.ramp = q.ramp /\ n.last = q.last
           /\ n.bits = (2 * q.bits + b) % WordMod
<1> DEFINE w == (2 * q.bits + b) % WordMod
<1> DEFINE r == [q EXCEPT !.bits = w]
<1>1. q \in Receiver /\ q.bits \in Word
  BY DEF Sound, Receiver
<1>2. w \in Word
  BY <1>1, PushWord
<1> HIDE DEF w
<1>3. /\ r \in Receiver /\ r.sum = q.sum /\ r.ramp = q.ramp /\ r.active = q.active
      /\ r.last = q.last /\ r.bits = w
      /\ r.count = q.count /\ r.size = q.size /\ r.lengthOk = q.lengthOk
  BY <1>1, <1>2 DEF Receiver
<1>4. Sound(r)
  BY <1>3 DEF Sound, Within
<1>5. HalfBit(q, b) = IF r.active THEN Collected(r, b) ELSE Sought(r)
  BY DEF HalfBit, w
<1> HIDE DEF r
<1>6. CASE r.active
  BY <1>3, <1>4, <1>5, <1>6, CollectedSound DEF w
<1>7. CASE ~r.active /\ r.bits = StartPattern
  <2> DEFINE n == [r EXCEPT !.active = TRUE, !.count = 0, !.size = 0]
  <2>1. 0 \in Counts
    BY CountModAssumption DEF Counts
  <2>2. /\ n \in Receiver /\ n.count = 0 /\ n.sum = q.sum /\ n.ramp = q.ramp
        /\ n.last = q.last /\ n.bits = w
    BY <1>3, <2>1 DEF Receiver
  <2>3. HalfBit(q, b) = n
    BY <1>5, <1>7 DEF Sought
  <2> HIDE DEF n
  <2>4. Sound(n)
    BY <2>2 DEF Sound, Within
  <2> QED
    BY <2>2, <2>3, <2>4 DEF w
<1>8. CASE ~r.active /\ r.bits # StartPattern
  BY <1>3, <1>4, <1>5, <1>8 DEF Sought, w
<1> QED
  BY <1>6, <1>7, <1>8

\* So does a sample: the ramp gains at least 11 with each of those that are summed.
LEMMA SampledSound ==
    ASSUME NEW r, Sound(r), NEW s \in Level
    PROVE  Sound(Sampled(r, s))
<1> DEFINE a == Ramp(r, s)
<1> DEFINE m == r.sum + s
<1> DEFINE q == [r EXCEPT !.sum = @ + s, !.last = s, !.ramp = a]
<1> DEFINE b == IF q.sum >= 5 THEN 1 ELSE 0
<1>1. /\ r \in Receiver /\ r.ramp \in 0..159 /\ r.sum \in 0..14 /\ s \in 0..1
      /\ 11 * r.sum <= r.ramp
  BY DEF Sound, Receiver, Ramps, Sums, Level
<1>2. a \in r.ramp + 11 .. r.ramp + 29
  BY <1>1 DEF Ramp
<1> HIDE DEF a
<1>3. q = [r EXCEPT !.sum = m, !.last = s, !.ramp = a] /\ q.ramp = a
  BY <1>1 DEF Receiver
<1>4. CASE a < 160
  <2>1. a \in Ramps /\ m \in Sums /\ 11 * m <= a
    BY <1>1, <1>2, <1>4 DEF Ramps, Sums
  <2>2. Sampled(r, s) = q
    BY <1>3, <1>4 DEF Sampled, a
  <2> HIDE DEF m
  <2>3. /\ q \in Receiver /\ q.sum = m /\ q.ramp = a /\ q.active = r.active
        /\ q.count = r.count /\ q.size = r.size /\ q.lengthOk = r.lengthOk
    BY <1>1, <1>3, <2>1 DEF Receiver
  <2> HIDE DEF q
  <2> QED
    BY <2>1, <2>2, <2>3 DEF Sound, Within
<1>5. CASE ~(a < 160)
  <2> DEFINE d == a - 160
  <2> DEFINE p == [r EXCEPT !.sum = 0, !.last = s, !.ramp = d]
  <2>1. d \in Ramps /\ 0 \in Sums /\ d >= 0
    BY <1>1, <1>2, <1>5 DEF Ramps, Sums
  <2>2. [q EXCEPT !.ramp = @ - 160, !.sum = 0] = p
    BY <1>1, <1>3 DEF Receiver
  <2>3. Sampled(r, s) = HalfBit(p, b)
    BY <1>3, <1>5, <2>2 DEF Sampled, a
  <2> HIDE DEF d
  <2>4. /\ p \in Receiver /\ p.sum = 0 /\ p.ramp = d /\ p.active = r.active
        /\ p.count = r.count /\ p.size = r.size /\ p.lengthOk = r.lengthOk
    BY <1>1, <2>1 DEF Receiver
  <2> HIDE DEF p
  <2>5. Sound(p)
    BY <2>1, <2>4 DEF Sound, Within, Ramps
  <2>6. b \in Level
    BY DEF Level
  <2> HIDE DEF b
  <2> QED
    BY <2>3, <2>5, <2>6, HalfBitSound
<1> QED
  BY <1>4, <1>5

LessThan == {pair \in Nat \X Nat : pair[1] < pair[2]}

\* A set of numbers with 0 in it and the next of each of its members is Nat: of those
\* left out there would be a least one.
LEMMA SetInduction ==
    ASSUME NEW S, 0 \in S, \A n \in Nat : n \in S => n + 1 \in S
    PROVE  Nat \subseteq S
<1> DEFINE T == Nat \ S
<1> SUFFICES ASSUME T # {} PROVE FALSE
  OBVIOUS
<1>1. IsWellFoundedOn(LessThan, Nat)
  BY NatLessThanWellFounded DEF OpToRel, LessThan
<1>2. PICK m \in T : \A y \in T : ~(<<y, m>> \in LessThan)
  BY <1>1, WFMin
<1>3. m # 0 /\ m - 1 \in Nat /\ m - 1 < m
  OBVIOUS
<1>4. m - 1 \notin T
  BY <1>2, <1>3 DEF LessThan
<1> QED BY <1>3, <1>4

\* The receiver without its clock.
View(r) == [r EXCEPT !.ramp = 0, !.sum = 0, !.last = 0]

\* View changes the clock and nothing else.
LEMMA ViewType ==
    ASSUME NEW r \in Receiver
    PROVE  /\ View(r) \in Receiver
           /\ View(r).bits = r.bits /\ View(r).active = r.active /\ View(r).count = r.count
           /\ View(r).size = r.size /\ View(r).lengthOk = r.lengthOk
           /\ View(r).receptor = r.receptor /\ View(r).sender = r.sender
           /\ View(r).type = r.type /\ View(r).data = r.data
           /\ View(r).frame = r.frame /\ View(r).done = r.done
           /\ View(r).ramp = 0 /\ View(r).sum = 0 /\ View(r).last = 0
<1>1. 0 \in Ramps /\ 0 \in Sums /\ 0 \in Level
  BY DEF Ramps, Sums, Level
<1>2. View(r) \in Receiver
  BY <1>1 DEF View, Receiver
<1>3. View(r).bits = r.bits /\ View(r).active = r.active /\ View(r).count = r.count
      /\ View(r).size = r.size /\ View(r).lengthOk = r.lengthOk
  BY DEF View, Receiver
<1>4. View(r).receptor = r.receptor /\ View(r).sender = r.sender
      /\ View(r).type = r.type /\ View(r).data = r.data
      /\ View(r).frame = r.frame /\ View(r).done = r.done
  BY DEF View, Receiver
<1>5. View(r).ramp = 0 /\ View(r).sum = 0 /\ View(r).last = 0
  BY DEF View, Receiver
<1> QED
  BY <1>2, <1>3, <1>4, <1>5

\* No helper of HalfBit looks at the clock: it does the same to the rest with the clock
\* left out.
LEMMA ShiftedView ==
    ASSUME NEW r \in Receiver, NEW b \in Level
    PROVE  View(Shifted(r, b)) = Shifted(View(r), b)
<1> DEFINE e == View(r)
<1>0. r.count \in Nat /\ r.size \in Nat /\ b \in Nat
  BY CountModAssumption DEF Receiver, Counts, Level
<1>00. e \in Receiver /\ e.count = r.count /\ e.size = r.size /\ e.data = r.data
  BY ViewType
<1>1. CASE r.count % 2 = 0
  BY <1>0, <1>1 DEF Shifted, View, Receiver
<1>2. CASE r.count % 2 # 0 /\ r.count < 16
  BY <1>0, <1>2 DEF Shifted, View, Receiver
<1>3. CASE r.count % 2 # 0 /\ ~(r.count < 16) /\ r.count < 32
  BY <1>0, <1>3 DEF Shifted, View, Receiver
<1>4. CASE r.count % 2 # 0 /\ ~(r.count < 32) /\ r.count < 38
  BY <1>0, <1>4 DEF Shifted, View, Receiver
<1>5. CASE r.count % 2 # 0 /\ ~(r.count < 38) /\ r.count < 48
  <2>1. Shifted(r, b) = [r EXCEPT !.size = 2 * r.size + b]
    BY <1>0, <1>5 DEF Shifted
  <2>2. Shifted(e, b) = [e EXCEPT !.size = 2 * r.size + b]
    BY <1>0, <1>00, <1>5 DEF Shifted
  <2> DEFINE n == 2 * r.size + b
  <2> HIDE DEF n
  <2>3. View([r EXCEPT !.size = n]) = [View(r) EXCEPT !.size = n]
    BY DEF View, Receiver
  <2> QED
    BY <2>1, <2>2, <2>3 DEF n
<1>6. CASE r.count % 2 # 0 /\ ~(r.count < 48) /\ r.count - 48 < 16 * r.size
  <2> DEFINE d == [r.data EXCEPT ![(r.count - 48) \div 16] = Push(r.data[(r.count - 48) \div 16], b)]
  <2>1. Shifted(r, b) = [r EXCEPT !.lengthOk = TRUE, !.data[(r.count - 48) \div 16] = Push(@, b)]
    BY <1>0, <1>6 DEF Shifted
  <2>2. Shifted(e, b) = [e EXCEPT !.lengthOk = TRUE, !.data[(r.count - 48) \div 16] = Push(@, b)]
    BY <1>0, <1>00, <1>6 DEF Shifted
  <2> HIDE DEF e
  <2>3. Shifted(r, b) = [r EXCEPT !.lengthOk = TRUE, !.data = d]
    BY <2>1 DEF Receiver
  <2>4. Shifted(e, b) = [e EXCEPT !.lengthOk = TRUE, !.data = d]
    BY <2>2, <1>00 DEF Receiver
  <2> HIDE DEF d
  <2>5. View([r EXCEPT !.lengthOk = TRUE, !.data = d]) = [View(r) EXCEPT !.lengthOk = TRUE, !.data = d]
    BY DEF View, Receiver
  <2> QED
    BY <2>3, <2>4, <2>5 DEF e
<1>7. CASE r.count % 2 # 0 /\ ~(r.count < 48) /\ ~(r.count - 48 < 16 * r.size)
  <2>1. Shifted(r, b) = r
    BY <1>0, <1>7 DEF Shifted
  <2>2. Shifted(e, b) = e
    BY <1>0, <1>00, <1>7 DEF Shifted
  <2> QED
    BY <2>1, <2>2
<1> QED
  BY <1>0, <1>1, <1>2, <1>3, <1>4, <1>5, <1>6, <1>7

\* Leaving a message leaves the clock alone.
LEMMA ForgottenView ==
    ASSUME NEW r \in Receiver
    PROVE  View(Forgotten(r)) = Forgotten(View(r))
  BY DEF Forgotten, View, Receiver

\* Handing a frame over leaves the clock alone, and does not look at it.
LEMMA CompletedView ==
    ASSUME NEW r \in Receiver
    PROVE  View(Completed(r)) = Completed(View(r))
<1> DEFINE frame(e) == [receptor |-> e.receptor, sender |-> e.sender, type |-> e.type,
                  data |-> [i \in 1..(e.size - 1) |-> e.data[i - 1]]]
<1> DEFINE done(e) == e.data[e.size - 1] = ComputeCrc(frame(e))
<1>1. frame(View(r)) = frame(r) /\ done(View(r)) = done(r)
  BY ViewType
<1>2. Completed(r) = [Forgotten(r) EXCEPT !.frame = frame(r), !.done = done(r)]
  BY DEF Completed
<1>3. Completed(View(r)) = [Forgotten(View(r)) EXCEPT !.frame = frame(r), !.done = done(r)]
  BY <1>1 DEF Completed
<1> HIDE DEF frame, done
<1> QED
  BY <1>2, <1>3, ForgottenView DEF Forgotten, View, Receiver

\* The receiver without its clock keeps the invariant.
LEMMA ViewSound ==
    ASSUME NEW r, Sound(r)
    PROVE  Sound(View(r))
  BY ViewType DEF Sound, Within

\* A half bit leaves the clock alone, and does not look at it.
LEMMA CollectedView ==
    ASSUME NEW q, Sound(q), q.active, NEW b \in Level
    PROVE  View(Collected(q, b)) = Collected(View(q), b)
<1> DEFINE c == (q.count + 1) % CountMod
<1> DEFINE p == [q EXCEPT !.count = c]
<1> DEFINE r == Shifted(p, b)
<1>1. q \in Receiver /\ q.count \in Counts /\ q.size \in Nat /\ q.count \in Nat
  BY CountModAssumption DEF Sound, Receiver, Counts
<1>2. c \in Counts /\ (c = q.count + 1 \/ c = 0)
  BY <1>1, Wrapped
<1>3. View(q).count = q.count
  BY <1>1, ViewType
<1>4. Collected(q, b) = IF BadSize(r) THEN [Forgotten(r) EXCEPT !.count = 0]
                        ELSE IF Whole(r) THEN Completed(r) ELSE r
  BY DEF Collected
<1>5. /\ p \in Receiver /\ p.count = c /\ p.size = q.size
  BY <1>1, <1>2 DEF Receiver
<1>6. [View(q) EXCEPT !.count = c] = View(p)
  <2> HIDE DEF c
  <2> QED BY <1>1 DEF View, Receiver
<1>7. c >= 49 => p.size \in 1..31
  <2> HIDE DEF c
  <2> QED BY <1>1, <1>2, <1>5, MaxSizeAssumption DEF Sound, Within
<1> DEFINE v == Shifted(View(p), b)
<1>8. Collected(View(q), b) = IF BadSize(v) THEN [Forgotten(v) EXCEPT !.count = 0]
                              ELSE IF Whole(v) THEN Completed(v) ELSE v
  BY <1>3, <1>6 DEF Collected
<1>9. v = View(r)
  <2> HIDE DEF p, c
  <2> QED BY <1>5, ShiftedView
<1>10. r \in Receiver
  <2> HIDE DEF p, c
  <2> QED BY <1>5, <1>7, ShiftedType
<1> HIDE DEF r, v
<1>11. BadSize(v) <=> BadSize(r)
  BY <1>9, <1>10, ViewType DEF BadSize
<1>12. Whole(v) <=> Whole(r)
  BY <1>9, <1>10, ViewType DEF Whole
<1>13. Forgotten(v) = View(Forgotten(r)) /\ Completed(v) = View(Completed(r))
  BY <1>9, <1>10, ForgottenView, CompletedView
<1>14. View([Forgotten(r) EXCEPT !.count = 0]) = [View(Forgotten(r)) EXCEPT !.count = 0]
  BY <1>10, ForgottenType DEF View, Receiver
<1> QED
  BY <1>4, <1>8, <1>9, <1>11, <1>12, <1>13, <1>14

\* A half bit leaves the clock alone, inside a message and outside of one.
LEMMA HalfBitView ==
    ASSUME NEW q, Sound(q), NEW b \in Level
    PROVE  View(HalfBit(q, b)) = HalfBit(View(q), b)
<1> DEFINE w == (2 * q.bits + b) % WordMod
<1> DEFINE r == [q EXCEPT !.bits = w]
<1>1. q \in Receiver /\ q.bits \in Word
  BY DEF Sound, Receiver
<1>2. w \in Word
  BY <1>1, PushWord
<1>3. View(q).bits = q.bits
  BY <1>1, ViewType
<1>4. HalfBit(q, b) = IF r.active THEN Collected(r, b) ELSE Sought(r)
  BY DEF HalfBit
<1>5. [View(q) EXCEPT !.bits = w] = View(r)
  <2> HIDE DEF w
  <2> QED BY <1>1 DEF View, Receiver
<1>6. HalfBit(View(q), b) = IF View(r).active THEN Collected(View(r), b) ELSE Sought(View(r))
  BY <1>3, <1>5 DEF HalfBit
<1> HIDE DEF w
<1>7. /\ r \in Receiver /\ r.sum = q.sum /\ r.ramp = q.ramp /\ r.active = q.active
      /\ r.count = q.count /\ r.size = q.size /\ r.lengthOk = q.lengthOk
  BY <1>1, <1>2 DEF Receiver
<1>8. Sound(r)
  BY <1>7 DEF Sound, Within
<1> HIDE DEF r
<1>9. View(r).active = r.active /\ View(r).bits = r.bits
  BY <1>7, ViewType
<1>10. View(Sought(r)) = Sought(View(r))
  <2>1. View([r EXCEPT !.active = TRUE, !.count = 0, !.size = 0]) =
           [View(r) EXCEPT !.active = TRUE, !.count = 0, !.size = 0]
    BY <1>7 DEF View, Receiver
  <2> QED BY <2>1, <1>9 DEF Sought
<1> QED
  BY <1>4, <1>6, <1>8, <1>9, <1>10, CollectedView

\* A sample: the clock goes on, and at 160 a half bit is decided.
Decided(sum) == IF sum >= 5 THEN 1 ELSE 0

\* What one call of pll does to the clock and to the rest.
LEMMA OneSample ==
    ASSUME NEW r, Sound(r), NEW s \in Level
    PROVE  LET q == Sampled(r, s)
               a == Ramp(r, s)
           IN /\ q.last = s
              /\ a < 160 => /\ View(q) = View(r)
                            /\ q.ramp = a /\ q.sum = r.sum + s
              /\ a >= 160 => /\ View(q) = HalfBit(View(r), Decided(r.sum + s))
                             /\ q.ramp = a - 160 /\ q.sum = 0
<1> DEFINE a == Ramp(r, s)
<1> DEFINE m == r.sum + s
<1> DEFINE q == [r EXCEPT !.sum = @ + s, !.last = s, !.ramp = a]
<1>1. /\ r \in Receiver /\ r.ramp \in 0..159 /\ r.sum \in 0..14 /\ s \in 0..1
      /\ 11 * r.sum <= r.ramp
  BY DEF Sound, Receiver, Ramps, Sums, Level
<1>2. a \in r.ramp + 11 .. r.ramp + 29
  BY <1>1 DEF Ramp
<1> HIDE DEF a
<1>3. q = [r EXCEPT !.sum = m, !.last = s, !.ramp = a] /\ q.ramp = a /\ q.sum = m
  BY <1>1 DEF Receiver
<1>4. Sampled(r, s) = IF a < 160 THEN q
                      ELSE HalfBit([q EXCEPT !.ramp = @ - 160, !.sum = 0], Decided(m))
  BY <1>3 DEF Sampled, Decided, a
<1>5. ASSUME a < 160
      PROVE  /\ Sampled(r, s).last = s /\ View(Sampled(r, s)) = View(r)
             /\ Sampled(r, s).ramp = a /\ Sampled(r, s).sum = m
  <2>1. Sampled(r, s) = [r EXCEPT !.sum = m, !.last = s, !.ramp = a]
    BY <1>3, <1>4, <1>5
  <2> HIDE DEF m
  <2> QED BY <1>1, <2>1 DEF View, Receiver
<1>6. ASSUME a >= 160
      PROVE  /\ Sampled(r, s).last = s /\ View(Sampled(r, s)) = HalfBit(View(r), Decided(m))
             /\ Sampled(r, s).ramp = a - 160 /\ Sampled(r, s).sum = 0
  <2> DEFINE d == a - 160
  <2> DEFINE p == [r EXCEPT !.sum = 0, !.last = s, !.ramp = d]
  <2>1. d \in Ramps /\ 0 \in Sums /\ d >= 0
    BY <1>1, <1>2, <1>6 DEF Ramps, Sums
  <2>2. [q EXCEPT !.ramp = @ - 160, !.sum = 0] = p
    BY <1>1, <1>3 DEF Receiver
  <2>3. Sampled(r, s) = HalfBit(p, Decided(m))
    BY <1>2, <1>1, <1>4, <1>6, <2>2
  <2> HIDE DEF d
  <2>4. /\ p \in Receiver /\ p.sum = 0 /\ p.ramp = d /\ p.active = r.active
        /\ p.count = r.count /\ p.size = r.size /\ p.lengthOk = r.lengthOk
        /\ p.last = s
    BY <1>1, <2>1 DEF Receiver
  <2>5. View(p) = View(r)
    BY <1>1 DEF View, Receiver
  <2> HIDE DEF p
  <2>6. Sound(p)
    BY <2>1, <2>4 DEF Sound, Within, Ramps
  <2>7. Decided(m) \in Level
    BY DEF Level, Decided
  <2> HIDE DEF m
  <2> QED
    BY <2>3, <2>4, <2>5, <2>6, <2>7, HalfBitSound, HalfBitView DEF d
<1>7. Sampled(r, s).last = s
  BY <1>1, <1>2, <1>5, <1>6
<1> QED
  BY <1>1, <1>2, <1>5, <1>6, <1>7 DEF a

-----------------------------------------------------------------------------
(* Several samples of a level.                                             *)

\* run is the receiver after 0 to n samples of level s.
IsRun(run, r, s, n) ==
    run = [i \in 0..n |-> IF i = 0 THEN r ELSE Sampled(run[i - 1], s)]

Run(r, s, n) == CHOOSE run : IsRun(run, r, s, n)

\* After by its run.
LEMMA AfterRun ==
    ASSUME NEW r, NEW s, NEW n
    PROVE  After(r, s, n) = Run(r, s, n)[n]
  BY DEF After, Run, IsRun

\* Each number of samples has its run: a recursive function is defined.
LEMMA RunExists ==
    ASSUME NEW r, NEW s, NEW N \in Nat
    PROVE  \E run : IsRun(run, r, s, N)
<1> DEFINE S == {n \in Nat : \E run : IsRun(run, r, s, n)}
<1>1. 0 \in S
  <2>1. IsRun([i \in 0..0 |-> r], r, s, 0)
    BY DEF IsRun
  <2> QED BY <2>1
<1>2. ASSUME NEW n \in Nat, n \in S PROVE n + 1 \in S
  <2>1. PICK d : IsRun(d, r, s, n)
    BY <1>2
  <2> DEFINE e == [i \in 0..(n + 1) |-> IF i <= n THEN d[i] ELSE Sampled(d[n], s)]
  <2>2. ASSUME NEW i \in 0..(n + 1)
        PROVE  e[i] = IF i = 0 THEN r ELSE Sampled(e[i - 1], s)
    <3>1. CASE i <= n
      <4>1. d[i] = IF i = 0 THEN r ELSE Sampled(d[i - 1], s)
        BY <2>1, <3>1 DEF IsRun
      <4> QED BY <3>1, <4>1
    <3>2. CASE i = n + 1
      BY <3>2
    <3> QED BY <3>1, <3>2
  <2>3. IsRun(e, r, s, n + 1)
    BY <2>2 DEF IsRun
  <2> QED BY <2>3
<1>3. Nat \subseteq S
  <2> HIDE DEF S
  <2> QED BY <1>1, <1>2, SetInduction
<1> QED BY <1>3

\* A run begins with the receiver and goes on sample by sample.
LEMMA RunStep ==
    ASSUME NEW r, NEW s, NEW n \in Nat
    PROVE  /\ Run(r, s, n)[0] = r
           /\ \A i \in 1..n : Run(r, s, n)[i] = Sampled(Run(r, s, n)[i - 1], s)
<1>1. IsRun(Run(r, s, n), r, s, n)
  BY RunExists DEF Run
<1> QED BY <1>1 DEF IsRun

\* Two runs agree as far as both go.
LEMMA RunsAgree ==
    ASSUME NEW r, NEW s, NEW n \in Nat
    PROVE  Run(r, s, n + 1)[n] = Run(r, s, n)[n]
<1> DEFINE S == {i \in Nat : i <= n => Run(r, s, n + 1)[i] = Run(r, s, n)[i]}
<1>1. 0 \in S
  BY RunStep
<1>2. ASSUME NEW i \in Nat, i \in S PROVE i + 1 \in S
  BY <1>2, RunStep
<1>3. Nat \subseteq S
  <2> HIDE DEF S
  <2> QED BY <1>1, <1>2, SetInduction
<1> QED BY <1>3

\* After is what its samples do, one after the other.
LEMMA AfterStep ==
    ASSUME NEW r, NEW s, NEW n \in Nat
    PROVE  After(r, s, 0) = r /\ After(r, s, n + 1) = Sampled(After(r, s, n), s)
<1>1. After(r, s, 0) = r
  BY AfterRun, RunStep
<1>2. Run(r, s, n + 1)[n + 1] = Sampled(Run(r, s, n + 1)[n], s)
  BY RunStep
<1> QED BY <1>1, <1>2, AfterRun, RunsAgree

\* Any number of samples of a level keeps the invariant.
LEMMA AfterSound ==
    ASSUME NEW r, Sound(r), NEW s \in Level, NEW n \in Nat
    PROVE  Sound(After(r, s, n))
<1> DEFINE S == {i \in Nat : Sound(After(r, s, i))}
<1>1. 0 \in S
  BY AfterStep
<1>2. ASSUME NEW i \in Nat, i \in S PROVE i + 1 \in S
  BY <1>2, AfterStep, SampledSound
<1>3. Nat \subseteq S
  <2> HIDE DEF S
  <2> QED BY <1>1, <1>2, SetInduction
<1> QED BY <1>3

\* The receiver after n samples of level s, when the ramp has gone on to t in all and
\* the last samples, since in number, are of another half bit: at 160 a half bit is
\* decided, and at 320 another one, of level s.
AdvancedTo(q, r, s, n, t, since) ==
    /\ q.last = s
    /\ t < 160 => /\ View(q) = View(r) /\ q.ramp = t
                  /\ q.sum = r.sum + (IF s = 1 THEN n ELSE 0)
    /\ t >= 160 /\ t < 320 =>
          /\ View(q) = HalfBit(View(r), Decided(r.sum + (IF s = 1 THEN n - since ELSE 0)))
          /\ q.ramp = t - 160 /\ q.sum = IF s = 1 THEN since ELSE 0
    /\ t >= 320 =>
          /\ View(q) = HalfBit(HalfBit(View(r), Decided(r.sum + s)), s)
          /\ q.ramp = t - 320 /\ q.sum = IF t >= 340 THEN s ELSE 0

\* The same in terms of the first step of the ramp: 9 samples at the most.
Reached(first, n) == first + 20 * (n - 1)
Since(first, n) ==
    IF first >= 180 THEN n - 1 ELSE (Reached(first, n) - 160) \div 20

Advanced(q, r, s, n) ==
    AdvancedTo(q, r, s, n, Reached(Ramp(r, s), n), Since(Ramp(r, s), n))

\* Where the ramp is after a sample.
LEMMA RampIs ==
    ASSUME NEW r, Sound(r), NEW s \in Level
    PROVE  /\ Ramp(r, s) \in 11..188 /\ r.ramp \in 0..159 /\ r.sum \in 0..14 /\ r.last \in 0..1
           /\ s = r.last => Ramp(r, s) = r.ramp + 20
           /\ s # r.last /\ r.ramp < 80 => Ramp(r, s) = r.ramp + 11
           /\ s # r.last /\ r.ramp >= 80 => Ramp(r, s) = r.ramp + 29
<1>1. r.ramp \in 0..159 /\ r.sum \in 0..14 /\ r.last \in 0..1
  BY DEF Sound, Receiver, Ramps, Sums, Level
<1> QED BY <1>1 DEF Ramp

\* The first sample, with the transition if there is one.
LEMMA AdvancedFirst ==
    ASSUME NEW r, Sound(r), NEW s \in Level
    PROVE  Advanced(Sampled(r, s), r, s, 1)
<1> DEFINE q == Sampled(r, s)
<1> DEFINE a == Ramp(r, s)
<1>1. a \in 11..188 /\ r.sum \in 0..14 /\ s \in 0..1
  BY RampIs DEF Level
<1>2. /\ q.last = s
      /\ a < 160 => View(q) = View(r) /\ q.ramp = a /\ q.sum = r.sum + s
      /\ a >= 160 => /\ View(q) = HalfBit(View(r), Decided(r.sum + s))
                     /\ q.ramp = a - 160 /\ q.sum = 0
  BY OneSample
<1> HIDE DEF q
<1>3. Advanced(q, r, s, 1)
  <2>1. CASE s = 0
    BY <1>1, <1>2, <2>1 DEF Advanced, AdvancedTo, Reached, Since
  <2>2. CASE s = 1
    BY <1>1, <1>2, <2>2 DEF Advanced, AdvancedTo, Reached, Since
  <2> QED BY <1>1, <2>1, <2>2
<1> QED BY <1>3 DEF q

\* A sample more of the level.
LEMMA AdvancedNext ==
    ASSUME NEW r, Sound(r), NEW s \in Level, NEW n \in 1..8, NEW q, Sound(q),
           Advanced(q, r, s, n)
    PROVE  Advanced(Sampled(q, s), r, s, n + 1)
<1> DEFINE p == Sampled(q, s)
<1> DEFINE a == Ramp(r, s)
<1> DEFINE t == Reached(a, n)
<1> DEFINE since == Since(a, n)
<1>1. a \in 11..188 /\ r.sum \in 0..14 /\ s \in 0..1 /\ q.ramp \in 0..159 /\ q.sum \in 0..14
  BY RampIs DEF Level
<1>2. q.last = s
  BY DEF Advanced, AdvancedTo
<1>3. Ramp(q, s) = q.ramp + 20
  BY <1>2, RampIs
<1>4. /\ p.last = s
      /\ q.ramp < 140 => View(p) = View(q) /\ p.ramp = q.ramp + 20 /\ p.sum = q.sum + s
      /\ q.ramp >= 140 => /\ View(p) = HalfBit(View(q), Decided(q.sum + s))
                          /\ p.ramp = q.ramp - 140 /\ p.sum = 0
  <2>1. q.ramp < 140 => Ramp(q, s) < 160
    BY <1>1, <1>3
  <2>2. q.ramp >= 140 => Ramp(q, s) >= 160 /\ Ramp(q, s) - 160 = q.ramp - 140
    BY <1>1, <1>3
  <2> QED BY <1>3, <2>1, <2>2, OneSample
<1>5. t \in 11..328 /\ Reached(a, n + 1) = t + 20
  BY <1>1 DEF Reached
<1>6. since \in Int
  BY <1>1 DEF Since, Reached
<1>7. t >= 160 => Since(a, n + 1) = since + 1
  BY <1>1 DEF Since, Reached
<1>8. t < 160 /\ t + 20 >= 160 => Since(a, n + 1) = 0
  BY <1>1 DEF Since, Reached
<1>9. t >= 160 /\ t < 320 /\ t + 20 >= 320 => since = n - 1 /\ n >= 7
  BY <1>1 DEF Since, Reached
<1>10. t >= 320 => t < 340
  BY <1>1 DEF Reached
<1>11. AdvancedTo(q, r, s, n, t, since)
  BY DEF Advanced
<1> HIDE DEF p, t, since
<1> DEFINE z == Since(a, n + 1)
<1> HIDE DEF z
<1>12. AdvancedTo(p, r, s, n + 1, t + 20, z)
  <2>1. CASE t < 160
    <3>1. View(q) = View(r) /\ q.ramp = t /\ q.sum = r.sum + (IF s = 1 THEN n ELSE 0)
      BY <1>5, <2>1, <1>11 DEF AdvancedTo
    <3>2. CASE t + 20 < 160
      BY <1>1, <1>4, <1>5, <2>1, <3>1, <3>2 DEF AdvancedTo
    <3>3. CASE t + 20 >= 160
      <4>1. z = 0
        BY <1>8, <2>1, <3>3 DEF z
      <4>2. q.sum + s = r.sum + (IF s = 1 THEN (n + 1) - z ELSE 0)
        BY <1>1, <3>1, <4>1
      <4> QED
        BY <1>1, <1>4, <1>5, <2>1, <3>1, <3>3, <4>1, <4>2 DEF AdvancedTo
    <3> QED BY <1>5, <3>2, <3>3
  <2>2. CASE t >= 160 /\ t < 320
    <3>1. /\ View(q) = HalfBit(View(r), Decided(r.sum + (IF s = 1 THEN n - since ELSE 0)))
          /\ q.ramp = t - 160 /\ q.sum = IF s = 1 THEN since ELSE 0
      BY <1>5, <1>11, <2>2 DEF AdvancedTo
    <3>2. z = since + 1 /\ (n + 1) - z = n - since
      BY <1>6, <1>7, <2>2 DEF z
    <3>3. CASE t + 20 < 320
      BY <1>1, <1>4, <1>5, <1>6, <2>2, <3>1, <3>2, <3>3 DEF AdvancedTo
    <3>4. CASE t + 20 >= 320
      <4>1. since = n - 1 /\ n >= 7
        BY <1>9, <2>2, <3>4
      <4>2. r.sum + (IF s = 1 THEN n - since ELSE 0) = r.sum + s
        BY <1>1, <4>1
      <4>3. Decided(q.sum + s) = s
        BY <1>1, <3>1, <4>1 DEF Decided
      <4> QED
        BY <1>1, <1>4, <1>5, <2>2, <3>1, <3>4, <4>2, <4>3 DEF AdvancedTo
    <3> QED BY <1>5, <3>3, <3>4
  <2>3. CASE t >= 320
    <3>1. /\ View(q) = HalfBit(HalfBit(View(r), Decided(r.sum + s)), s)
          /\ q.ramp = t - 320 /\ q.sum = IF t >= 340 THEN s ELSE 0
      BY <1>5, <1>11, <2>3 DEF AdvancedTo
    <3> QED
      BY <1>1, <1>4, <1>5, <1>10, <2>3, <3>1 DEF AdvancedTo
  <2> QED BY <1>5, <2>1, <2>2, <2>3
<1> QED BY <1>5, <1>12 DEF Advanced, p, t, z

\* What up to nine samples of a level do.
LEMMA AfterAdvanced ==
    ASSUME NEW r, Sound(r), NEW s \in Level, NEW n \in 1..9
    PROVE  Advanced(After(r, s, n), r, s, n)
<1> DEFINE S == {i \in Nat : i + 1 <= 9 => Advanced(After(r, s, i + 1), r, s, i + 1)}
<1>1. 0 \in S
  <2>1. After(r, s, 0 + 1) = Sampled(r, s)
    BY AfterStep
  <2> QED BY <2>1, AdvancedFirst
<1>2. ASSUME NEW i \in Nat, i \in S PROVE i + 1 \in S
  <2> SUFFICES ASSUME i + 2 <= 9 PROVE Advanced(After(r, s, (i + 1) + 1), r, s, (i + 1) + 1)
    OBVIOUS
  <2>1. After(r, s, (i + 1) + 1) = Sampled(After(r, s, i + 1), s)
    BY AfterStep
  <2>2. i + 1 \in 1..8 /\ Advanced(After(r, s, i + 1), r, s, i + 1) /\ Sound(After(r, s, i + 1))
    BY <1>2, AfterSound
  <2>3. Advanced(Sampled(After(r, s, i + 1), s), r, s, (i + 1) + 1)
    BY <2>2, AdvancedNext
  <2> QED BY <2>1, <2>3
<1>3. Nat \subseteq S
  <2> HIDE DEF S
  <2> QED BY <1>1, <1>2, SetInduction
<1>4. n - 1 \in S
  BY <1>3
<1> QED BY <1>4

-----------------------------------------------------------------------------
(* Eight samples, or one short or long of them.                            *)

\* The receiver, when the half bit that is all but over has been decided.
Due(r) == IF r.ramp < 80 THEN View(r) ELSE HalfBit(View(r), Decided(r.sum))

\* What sample_sum is worth between two half bits of a transmission.
Clock(r) ==
    /\ r.ramp < 80 => r.sum = (IF r.last = 1 THEN r.ramp \div 20 ELSE 0)
    /\ r.ramp \in 80..99 => r.sum = 4 * r.last
    /\ r.ramp >= 100 => IF r.last = 1 THEN r.sum \in 5..9 ELSE r.sum \in 0..1

\* How far the ramp is from the ends of the transmitter's half bits.
Off(r) == IF r.ramp < 80 THEN r.ramp ELSE 159 - r.ramp

\* From r to q, a half bit s was received.
Heard(q, r, s) ==
    /\ Clock(q) /\ q.last = s
    /\ Due(q) = HalfBit(Due(r), s)
    /\ View(q) = Due(r) \/ View(q) = Due(q)

\* A half bit s may have been taken for nothing, for 0 or for two half bits.
Caught(q, r, s) ==
    /\ Clock(q) /\ q.last = s
    /\ \/ Due(q) = Due(r) /\ (s = 0 => Due(r) = HalfBit(View(r), 0))
       \/ Due(q) = HalfBit(Due(r), s)
       \/ Due(q) = HalfBit(Due(r), 0)
       \/ Due(q) = HalfBit(HalfBit(Due(r), s), 0)
    /\ View(q) = Due(r) \/ View(q) = HalfBit(Due(r), s) \/ View(q) = Due(q)

\* A level goes on while the ramp is in step.
LEMMA Hold ==
    ASSUME NEW r, Sound(r), Clock(r), NEW s \in Level, s = r.last, Off(r) <= 28,
           NEW q, Advanced(q, r, s, 8)
    PROVE  Heard(q, r, s) /\ Off(q) = Off(r)
<1> DEFINE p == r.ramp
<1>1. /\ Ramp(r, s) = p + 20 /\ p \in 0..159 /\ r.sum \in 0..14 /\ s \in 0..1
  BY RampIs DEF Level
<1>2. p <= 28 \/ p >= 131
  BY <1>1 DEF Off
<1> DEFINE since == IF p >= 160 THEN 7 ELSE p \div 20
<1>3. Reached(Ramp(r, s), 8) = p + 160 /\ Since(Ramp(r, s), 8) = since
  BY <1>1 DEF Reached, Since
<1>4. /\ q.last = s
      /\ View(q) = HalfBit(View(r), Decided(r.sum + (IF s = 1 THEN 8 - since ELSE 0)))
      /\ q.ramp = p /\ q.sum = IF s = 1 THEN since ELSE 0
  BY <1>1, <1>3 DEF Advanced, AdvancedTo
<1>5. Off(q) = Off(r)
  BY <1>4 DEF Off
<1>6. CASE p <= 28
  <2>1. Decided(r.sum + (IF s = 1 THEN 8 - since ELSE 0)) = s
    BY <1>1, <1>6 DEF Decided, Clock
  <2>2. Due(r) = View(r) /\ Due(q) = View(q)
    BY <1>1, <1>4, <1>6 DEF Due
  <2>3. Clock(q)
    BY <1>1, <1>4, <1>6 DEF Clock
  <2> QED BY <1>4, <1>5, <2>1, <2>2, <2>3 DEF Heard
<1>7. CASE p >= 131
  <2>1. Decided(r.sum + (IF s = 1 THEN 8 - since ELSE 0)) = Decided(r.sum)
    BY <1>1, <1>7 DEF Decided, Clock
  <2>2. Decided(q.sum) = s
    BY <1>1, <1>4, <1>7 DEF Decided
  <2>3. View(q) = Due(r) /\ Due(q) = HalfBit(View(q), s)
    BY <1>1, <1>4, <1>7, <2>1, <2>2 DEF Due
  <2>4. Clock(q)
    BY <1>1, <1>4, <1>7 DEF Clock
  <2> QED BY <1>4, <1>5, <2>3, <2>4 DEF Heard
<1> QED BY <1>2, <1>6, <1>7

\* A transition brings the ramp nearer.
LEMMA Turn ==
    ASSUME NEW r, Sound(r), Clock(r), NEW s \in Level, s # r.last,
           NEW q, Advanced(q, r, s, 8)
    PROVE  /\ Off(r) <= 28 => Heard(q, r, s)
           /\ Caught(q, r, s)
           /\ Off(q) <= 8 \/ Off(q) <= Off(r) - 9
<1> DEFINE p == r.ramp
<1>1. /\ p \in 0..159 /\ r.sum \in 0..14 /\ s \in 0..1 /\ r.last = 1 - s
      /\ p < 80 => Ramp(r, s) = p + 11
      /\ p >= 80 => Ramp(r, s) = p + 29
  BY RampIs DEF Level
<1> DEFINE t == IF p < 80 THEN p + 151 ELSE p + 169
<1> DEFINE since == IF p >= 151 THEN 7 ELSE (t - 160) \div 20
<1>3. Reached(Ramp(r, s), 8) = t /\ Since(Ramp(r, s), 8) = since
  BY <1>1 DEF Reached, Since
<1>4. AdvancedTo(q, r, s, 8, t, since)
  BY <1>3 DEF Advanced
<1>5. q.last = s
  BY <1>4 DEF AdvancedTo
<1>6. CASE p < 9
  <2>1. View(q) = View(r) /\ q.ramp = p + 151 /\ q.sum = r.sum + (IF s = 1 THEN 8 ELSE 0)
    BY <1>1, <1>4, <1>6 DEF AdvancedTo
  <2>2. r.sum = 0
    BY <1>1, <1>6 DEF Clock
  <2>3. Decided(q.sum) = s
    BY <1>1, <2>1, <2>2 DEF Decided
  <2>4. Due(r) = View(r) /\ Due(q) = HalfBit(Due(r), s)
    BY <1>1, <1>6, <2>1, <2>3 DEF Due
  <2>5. Clock(q)
    BY <1>1, <1>5, <1>6, <2>1, <2>2 DEF Clock
  <2>6. Off(q) <= 8
    BY <1>1, <1>6, <2>1 DEF Off
  <2> QED BY <1>5, <2>1, <2>4, <2>5, <2>6 DEF Heard, Caught
<1>7. CASE p >= 9 /\ p < 80
  <2>1. /\ View(q) = HalfBit(View(r), Decided(r.sum + (IF s = 1 THEN 8 - since ELSE 0)))
        /\ q.ramp = p - 9 /\ q.sum = IF s = 1 THEN since ELSE 0
    BY <1>1, <1>4, <1>7 DEF AdvancedTo
  <2>2. since = (p - 9) \div 20
    BY <1>1, <1>7
  <2>3. Decided(r.sum + (IF s = 1 THEN 8 - since ELSE 0)) = s
    BY <1>1, <1>7, <2>2 DEF Decided, Clock
  <2>4. Due(r) = View(r) /\ Due(q) = View(q)
    BY <1>1, <1>7, <2>1 DEF Due
  <2>5. Clock(q)
    BY <1>1, <1>5, <1>7, <2>1, <2>2 DEF Clock
  <2>6. Off(q) <= Off(r) - 9
    BY <1>1, <1>7, <2>1 DEF Off
  <2> QED BY <1>5, <2>1, <2>3, <2>4, <2>5, <2>6 DEF Heard, Caught
<1>8. CASE p >= 80 /\ p < 151
  <2>1. /\ View(q) = HalfBit(View(r), Decided(r.sum + (IF s = 1 THEN 8 - since ELSE 0)))
        /\ q.ramp = p + 9 /\ q.sum = IF s = 1 THEN since ELSE 0
    BY <1>1, <1>4, <1>8 DEF AdvancedTo
  <2>2. since = (p + 9) \div 20
    BY <1>1, <1>8
  <2>3. Decided(r.sum + (IF s = 1 THEN 8 - since ELSE 0)) = Decided(r.sum)
    BY <1>1, <1>8, <2>2 DEF Decided, Clock
  <2>4. View(q) = Due(r) /\ Due(q) = HalfBit(Due(r), Decided(q.sum))
    BY <1>1, <1>8, <2>1, <2>3 DEF Due
  <2>5. Decided(q.sum) = s \/ Decided(q.sum) = 0
    BY <1>1, <2>1 DEF Decided
  <2>6. Off(r) <= 28 => Decided(q.sum) = s
    BY <1>1, <1>8, <2>1, <2>2 DEF Off, Decided
  <2>7. Clock(q)
    BY <1>1, <1>5, <1>8, <2>1, <2>2 DEF Clock
  <2>8. Off(q) <= Off(r) - 9
    BY <1>1, <1>8, <2>1 DEF Off
  <2> QED BY <1>5, <2>4, <2>5, <2>6, <2>7, <2>8 DEF Heard, Caught
<1>9. CASE p >= 151
  <2>1. /\ View(q) = HalfBit(HalfBit(View(r), Decided(r.sum + s)), s)
        /\ q.ramp = p - 151 /\ q.sum = 0
    BY <1>1, <1>4, <1>9 DEF AdvancedTo
  <2>2. Decided(r.sum + s) = Decided(r.sum)
    BY <1>1, <1>9 DEF Decided, Clock
  <2>3. Due(q) = View(q) /\ View(q) = HalfBit(Due(r), s)
    BY <1>1, <1>9, <2>1, <2>2 DEF Due
  <2>4. Clock(q)
    BY <1>1, <1>5, <1>9, <2>1 DEF Clock
  <2>5. Off(q) <= 8
    BY <1>1, <1>9, <2>1 DEF Off
  <2> QED BY <1>5, <2>3, <2>4, <2>5 DEF Heard, Caught
<1> QED BY <1>1, <1>6, <1>7, <1>8, <1>9

\* A level that goes on for a sample less or more while the ramp is close.
LEMMA SlipHold ==
    ASSUME NEW r, Sound(r), Clock(r), NEW s \in Level, s = r.last, Off(r) <= 8,
           NEW n \in {7, 9}, NEW q, Advanced(q, r, s, n)
    PROVE  Heard(q, r, s) /\ Off(q) <= 28
<1> DEFINE p == r.ramp
<1>1. /\ Ramp(r, s) = p + 20 /\ p \in 0..159 /\ r.sum \in 0..14 /\ s \in 0..1
  BY RampIs DEF Level
<1>2. p <= 8 \/ p >= 151
  BY <1>1 DEF Off
<1>3. CASE n = 7
  <2>1. AdvancedTo(q, r, s, 7, p + 140, (p - 20) \div 20)
    BY <1>1, <1>3 DEF Advanced, Reached, Since
  <2>2. CASE p <= 8
    <3>1. q.last = s /\ View(q) = View(r) /\ q.ramp = p + 140 /\ q.sum = r.sum + (IF s = 1 THEN 7 ELSE 0)
      BY <1>1, <2>1, <2>2 DEF AdvancedTo
    <3>2. r.sum = 0
      BY <1>1, <2>2 DEF Clock
    <3>3. Decided(q.sum) = s
      BY <1>1, <3>1, <3>2 DEF Decided
    <3>4. Due(r) = View(r) /\ Due(q) = HalfBit(Due(r), s)
      BY <1>1, <2>2, <3>1, <3>3 DEF Due
    <3>5. Clock(q) /\ Off(q) <= 28
      BY <1>1, <2>2, <3>1, <3>2 DEF Clock, Off
    <3> QED BY <3>1, <3>4, <3>5 DEF Heard
  <2>3. CASE p >= 151
    <3>1. /\ q.last = s
          /\ View(q) = HalfBit(View(r), Decided(r.sum + (IF s = 1 THEN 1 ELSE 0)))
          /\ q.ramp = p - 20 /\ q.sum = IF s = 1 THEN 6 ELSE 0
      BY <1>1, <2>1, <2>3 DEF AdvancedTo
    <3>2. Decided(r.sum + (IF s = 1 THEN 1 ELSE 0)) = Decided(r.sum)
      BY <1>1, <2>3 DEF Decided, Clock
    <3>3. Decided(q.sum) = s
      BY <1>1, <3>1 DEF Decided
    <3>4. View(q) = Due(r) /\ Due(q) = HalfBit(Due(r), s)
      BY <1>1, <2>3, <3>1, <3>2, <3>3 DEF Due
    <3>5. Clock(q) /\ Off(q) <= 28
      BY <1>1, <2>3, <3>1 DEF Clock, Off
    <3> QED BY <3>1, <3>4, <3>5 DEF Heard
  <2> QED BY <1>2, <2>2, <2>3
<1>4. CASE n = 9
  <2>1. AdvancedTo(q, r, s, 9, p + 180, (p + 20) \div 20)
    BY <1>1, <1>4 DEF Advanced, Reached, Since
  <2>2. CASE p <= 8
    <3>1. /\ q.last = s
          /\ View(q) = HalfBit(View(r), Decided(r.sum + (IF s = 1 THEN 8 ELSE 0)))
          /\ q.ramp = p + 20 /\ q.sum = IF s = 1 THEN 1 ELSE 0
      BY <1>1, <2>1, <2>2 DEF AdvancedTo
    <3>2. Decided(r.sum + (IF s = 1 THEN 8 ELSE 0)) = s
      BY <1>1, <2>2 DEF Decided, Clock
    <3>3. Due(r) = View(r) /\ Due(q) = View(q)
      BY <1>1, <2>2, <3>1 DEF Due
    <3>4. Clock(q) /\ Off(q) <= 28
      BY <1>1, <2>2, <3>1 DEF Clock, Off
    <3> QED BY <3>1, <3>2, <3>3, <3>4 DEF Heard
  <2>3. CASE p >= 151
    <3>1. /\ q.last = s
          /\ View(q) = HalfBit(HalfBit(View(r), Decided(r.sum + s)), s)
          /\ q.ramp = p - 140 /\ q.sum = 0
      BY <1>1, <2>1, <2>3 DEF AdvancedTo
    <3>2. Decided(r.sum + s) = Decided(r.sum)
      BY <1>1, <2>3 DEF Decided, Clock
    <3>3. Due(q) = View(q) /\ View(q) = HalfBit(Due(r), s)
      BY <1>1, <2>3, <3>1, <3>2 DEF Due
    <3>4. Clock(q) /\ Off(q) <= 28
      BY <1>1, <2>3, <3>1 DEF Clock, Off
    <3> QED BY <3>1, <3>3, <3>4 DEF Heard
  <2> QED BY <1>2, <2>2, <2>3
<1> QED BY <1>3, <1>4

\* A transition after a half bit that was short or long.
LEMMA ShortTurn ==
    ASSUME NEW r, Sound(r), Clock(r), NEW s \in Level, s # r.last,
           NEW q, Advanced(q, r, s, 7)
    PROVE  Caught(q, r, s) /\ (Off(r) <= 8 => Heard(q, r, s) /\ Off(q) <= 28)
<1> DEFINE p == r.ramp
<1>1. /\ p \in 0..159 /\ r.sum \in 0..14 /\ s \in 0..1 /\ r.last = 1 - s
      /\ p < 80 => Ramp(r, s) = p + 11
      /\ p >= 80 => Ramp(r, s) = p + 29
  BY RampIs DEF Level
<1> DEFINE t == IF p < 80 THEN p + 131 ELSE p + 149
<1> DEFINE since == IF p >= 151 THEN 6 ELSE (t - 160) \div 20
<1>3. Reached(Ramp(r, s), 7) = t /\ Since(Ramp(r, s), 7) = since
  BY <1>1 DEF Reached, Since
<1>4. AdvancedTo(q, r, s, 7, t, since)
  BY <1>3 DEF Advanced
<1>5. q.last = s
  BY <1>4 DEF AdvancedTo
<1>6. CASE p < 29
  <2>1. View(q) = View(r) /\ q.ramp = p + 131 /\ q.sum = r.sum + (IF s = 1 THEN 7 ELSE 0)
    BY <1>1, <1>4, <1>6 DEF AdvancedTo
  <2>2. r.sum \in 0..1 /\ (s = 1 => r.sum = 0)
    BY <1>1, <1>6 DEF Clock
  <2>3. Decided(q.sum) = s
    BY <1>1, <2>1, <2>2 DEF Decided
  <2>4. Due(r) = View(r) /\ Due(q) = HalfBit(Due(r), s)
    BY <1>1, <1>6, <2>1, <2>3 DEF Due
  <2>5. Clock(q)
    BY <1>1, <1>5, <1>6, <2>1, <2>2 DEF Clock
  <2>6. Off(q) <= 28
    BY <1>1, <1>6, <2>1 DEF Off
  <2> QED BY <1>5, <2>1, <2>4, <2>5, <2>6 DEF Heard, Caught
<1>7. CASE p >= 29 /\ p < 80
  <2>1. /\ View(q) = HalfBit(View(r), Decided(r.sum + (IF s = 1 THEN 7 - since ELSE 0)))
        /\ q.ramp = p - 29 /\ q.sum = IF s = 1 THEN since ELSE 0
    BY <1>1, <1>4, <1>7 DEF AdvancedTo
  <2>2. since = (p - 29) \div 20
    BY <1>1, <1>7
  <2>3. Decided(r.sum + (IF s = 1 THEN 7 - since ELSE 0)) = s
    <3>1. since \in 0..2 /\ r.sum = (IF r.last = 1 THEN p \div 20 ELSE 0)
      BY <1>1, <1>7, <2>2 DEF Clock
    <3> HIDE DEF since
    <3> QED BY <1>1, <1>7, <3>1 DEF Decided
  <2>4. Due(r) = View(r) /\ Due(q) = View(q)
    BY <1>1, <1>7, <2>1 DEF Due
  <2>5. Clock(q)
    BY <1>1, <1>5, <1>7, <2>1, <2>2 DEF Clock
  <2>6. ~(Off(r) <= 8)
    BY <1>1, <1>7 DEF Off
  <2> QED BY <1>5, <2>1, <2>3, <2>4, <2>5, <2>6 DEF Heard, Caught
<1>8. CASE p >= 80
  <2>1. /\ View(q) = HalfBit(View(r), Decided(r.sum + (IF s = 1 THEN 7 - since ELSE 0)))
        /\ q.ramp = p - 11 /\ q.sum = IF s = 1 THEN since ELSE 0
    BY <1>1, <1>4, <1>8 DEF AdvancedTo
  <2>2. since \in 3..6 /\ (p < 151 => since = (p - 11) \div 20)
    BY <1>1, <1>8
  <2>3. Decided(r.sum + (IF s = 1 THEN 7 - since ELSE 0)) = Decided(r.sum)
    BY <1>1, <1>8, <2>2 DEF Decided, Clock
  <2>4. View(q) = Due(r)
    BY <1>1, <1>8, <2>1, <2>3 DEF Due
  <2>5. Clock(q)
    <3>1. CASE p >= 151
      BY <1>1, <1>5, <3>1, <2>1 DEF Clock
    <3>2. CASE p < 151
      <4>1. s = 0 => q.sum = 0
        BY <1>1, <2>1
      <4>2. s = 1 => q.sum = q.ramp \div 20
        BY <1>1, <2>1, <2>2, <3>2
      <4>3. q.ramp \in 69..139 /\ q.last = s
        BY <1>1, <1>5, <1>8, <2>1, <3>2
      <4> QED BY <1>1, <4>1, <4>2, <4>3 DEF Clock
    <3> QED BY <1>1, <3>1, <3>2
  <2>6. CASE p < 91
    <3>1. Due(q) = Due(r)
      BY <1>1, <2>1, <2>4, <2>6 DEF Due
    <3>2. s = 0 => Due(r) = HalfBit(View(r), 0)
      BY <1>1, <1>8, <2>6 DEF Due, Decided, Clock
    <3>3. ~(Off(r) <= 8)
      BY <1>1, <1>8, <2>6 DEF Off
    <3> QED BY <1>5, <2>4, <2>5, <3>1, <3>2, <3>3 DEF Caught
  <2>7. CASE p >= 91
    <3>1. Due(q) = HalfBit(Due(r), Decided(q.sum))
      BY <1>1, <2>1, <2>4, <2>7 DEF Due
    <3>2. Decided(q.sum) = s \/ Decided(q.sum) = 0
      BY <1>1, <2>1 DEF Decided
    <3>3. Off(r) <= 8 => Decided(q.sum) = s /\ Off(q) <= 28
      BY <1>1, <1>8, <2>1 DEF Off, Decided
    <3> QED BY <1>5, <2>4, <2>5, <3>1, <3>2, <3>3 DEF Heard, Caught
  <2> QED BY <1>1, <2>6, <2>7
<1> QED BY <1>1, <1>6, <1>7, <1>8

\* The same for nine samples.
LEMMA LongTurn ==
    ASSUME NEW r, Sound(r), Clock(r), NEW s \in Level, s # r.last,
           NEW q, Advanced(q, r, s, 9)
    PROVE  Caught(q, r, s) /\ (Off(r) <= 8 => Heard(q, r, s) /\ Off(q) <= 28)
<1> DEFINE p == r.ramp
<1>1. /\ p \in 0..159 /\ r.sum \in 0..14 /\ s \in 0..1 /\ r.last = 1 - s
      /\ p < 80 => Ramp(r, s) = p + 11
      /\ p >= 80 => Ramp(r, s) = p + 29
  BY RampIs DEF Level
<1> DEFINE t == IF p < 80 THEN p + 171 ELSE p + 189
<1> DEFINE since == IF p >= 151 THEN 8 ELSE (t - 160) \div 20
<1>3. Reached(Ramp(r, s), 9) = t /\ Since(Ramp(r, s), 9) = since
  BY <1>1 DEF Reached, Since
<1>4. AdvancedTo(q, r, s, 9, t, since)
  BY <1>3 DEF Advanced
<1>5. q.last = s
  BY <1>4 DEF AdvancedTo
<1>6. CASE p < 80
  <2>1. /\ View(q) = HalfBit(View(r), Decided(r.sum + (IF s = 1 THEN 9 - since ELSE 0)))
        /\ q.ramp = p + 11 /\ q.sum = IF s = 1 THEN since ELSE 0
    BY <1>1, <1>4, <1>6 DEF AdvancedTo
  <2>2. since = (p + 11) \div 20 /\ since \in 0..4
    BY <1>1, <1>6
  <2>3. Decided(r.sum + (IF s = 1 THEN 9 - since ELSE 0)) = s
    BY <1>1, <1>6, <2>2 DEF Decided, Clock
  <2>4. Due(r) = View(r) /\ View(q) = HalfBit(Due(r), s)
    BY <1>1, <1>6, <2>1, <2>3 DEF Due
  <2>5. Clock(q)
    <3>1. q.ramp \in 11..90 /\ (s = 1 => q.sum = q.ramp \div 20) /\ (s = 0 => q.sum = 0)
      BY <1>1, <1>6, <2>1, <2>2
    <3> QED BY <1>1, <1>5, <3>1 DEF Clock
  <2>6. Decided(q.sum) = 0
    BY <1>1, <2>1, <2>2 DEF Decided
  <2>7. Due(q) = HalfBit(Due(r), s) \/ Due(q) = HalfBit(HalfBit(Due(r), s), 0)
    BY <2>4, <2>6 DEF Due
  <2>8. Off(r) <= 8 => Due(q) = View(q) /\ Off(q) <= 28
    BY <1>1, <1>6, <2>1 DEF Due, Off
  <2> QED BY <1>5, <2>4, <2>5, <2>7, <2>8 DEF Heard, Caught
<1>7. CASE p >= 80 /\ p < 131
  <2>1. /\ View(q) = HalfBit(View(r), Decided(r.sum + (IF s = 1 THEN 9 - since ELSE 0)))
        /\ q.ramp = p + 29 /\ q.sum = IF s = 1 THEN since ELSE 0
    BY <1>1, <1>4, <1>7 DEF AdvancedTo
  <2>2. since = (p + 29) \div 20 /\ since \in 5..7
    BY <1>1, <1>7
  <2>3. Decided(r.sum + (IF s = 1 THEN 9 - since ELSE 0)) = Decided(r.sum)
    BY <1>1, <1>7, <2>2 DEF Decided, Clock
  <2>4. Decided(q.sum) = s
    BY <1>1, <2>1, <2>2 DEF Decided
  <2>5. View(q) = Due(r) /\ Due(q) = HalfBit(Due(r), s)
    BY <1>1, <1>7, <2>1, <2>3, <2>4 DEF Due
  <2>6. Clock(q)
    BY <1>1, <1>5, <1>7, <2>1, <2>2 DEF Clock
  <2>7. ~(Off(r) <= 8)
    BY <1>1, <1>7 DEF Off
  <2> QED BY <1>5, <2>5, <2>6, <2>7 DEF Caught
<1>8. CASE p >= 131
  <2>1. /\ View(q) = HalfBit(HalfBit(View(r), Decided(r.sum + s)), s)
        /\ q.ramp = p - 131 /\ q.sum = IF p >= 151 THEN s ELSE 0
    BY <1>1, <1>4, <1>8 DEF AdvancedTo
  <2>2. Decided(r.sum + s) = Decided(r.sum)
    BY <1>1, <1>8 DEF Decided, Clock
  <2>3. Due(q) = View(q) /\ View(q) = HalfBit(Due(r), s)
    BY <1>1, <1>8, <2>1, <2>2 DEF Due
  <2>4. Clock(q)
    BY <1>1, <1>5, <1>8, <2>1 DEF Clock
  <2>5. Off(q) <= 28
    BY <1>1, <1>8, <2>1 DEF Off
  <2> QED BY <1>5, <2>3, <2>4, <2>5 DEF Heard, Caught
<1> QED BY <1>1, <1>6, <1>7, <1>8

-----------------------------------------------------------------------------
(* What is on the air.                                                     *)

\* The powers of two a byte needs.
LEMMA TwoToIs ==
    /\ TwoTo(0) = 1 /\ TwoTo(1) = 2 /\ TwoTo(2) = 4 /\ TwoTo(3) = 8
    /\ TwoTo(4) = 16 /\ TwoTo(5) = 32 /\ TwoTo(6) = 64 /\ TwoTo(7) = 128
  BY DEF TwoTo

\* A binary digit is 0 or 1.
LEMMA BitLevel ==
    ASSUME NEW x \in Int, NEW i \in 0..7
    PROVE  Bit(x, i) \in Level
<1>1. TwoTo(i) \in Nat \ {0}
  BY TwoToIs
<1>2. x \div TwoTo(i) \in Int
  BY <1>1
<1> QED BY <1>2 DEF Bit, Level

\* An exclusive or of bytes is a byte.
LEMMA XorByte ==
    ASSUME NEW x \in Int, NEW y \in Int
    PROVE  Xor(x, y) \in Byte
<1> DEFINE d(i) == (Bit(x, i) + Bit(y, i)) % 2
<1>1. \A i \in 0..7 : d(i) \in 0..1
  BY BitLevel DEF Level
<1>2. Xor(x, y) = TwoTo(0) * d(0) + TwoTo(1) * d(1) + TwoTo(2) * d(2) + TwoTo(3) * d(3)
                  + TwoTo(4) * d(4) + TwoTo(5) * d(5) + TwoTo(6) * d(6) + TwoTo(7) * d(7)
  BY DEF Xor
<1> HIDE DEF d
<1>3. /\ d(0) \in 0..1 /\ d(1) \in 0..1 /\ d(2) \in 0..1 /\ d(3) \in 0..1
      /\ d(4) \in 0..1 /\ d(5) \in 0..1 /\ d(6) \in 0..1 /\ d(7) \in 0..1
  BY <1>1
<1>4. Xor(x, y) = 1 * d(0) + 2 * d(1) + 4 * d(2) + 8 * d(3)
                  + 16 * d(4) + 32 * d(5) + 64 * d(6) + 128 * d(7)
  BY <1>2, TwoToIs
<1> QED BY <1>3, <1>4 DEF Byte

\* The table holds bytes.
LEMMA CrcTableByte == ASSUME NEW x \in Byte PROVE CrcTable[x] \in Byte
<1>1. ASSUME NEW y \in Byte PROVE Doubled(y) \in Byte
  <2>1. CASE y < 128
    BY <2>1 DEF Byte, Doubled
  <2>2. CASE ~(y < 128)
    <3>1. (2 * y) % 256 \in Int /\ 7 \in Int
      BY DEF Byte
    <3> QED BY <2>2, <3>1, XorByte DEF Doubled
  <2> QED BY <2>1, <2>2
<1>2. CrcTable[x] = Doubled(Doubled(Doubled(Doubled(Doubled(Doubled(Doubled(Doubled(x))))))))
  BY DEF CrcTable
<1> QED BY <1>1, <1>2

\* A byte is a number.
LEMMA ByteNumber == ASSUME NEW x \in Byte PROVE x \in Int
  BY DEF Byte

\* crc holds the remainder of each number of the first bytes, up to n of them.
IsCrc(crc, bytes, n) ==
    crc = [i \in 0..n |-> IF i = 0 THEN 0 ELSE CrcTable[Xor(bytes[i], crc[i - 1])]]

CrcOf(bytes, n) == CHOOSE crc : IsCrc(crc, bytes, n)

\* Crc8 by its run.
LEMMA CrcRun == ASSUME NEW bytes PROVE Crc8(bytes) = Xor(CrcOf(bytes, Len(bytes))[Len(bytes)], 85)
  BY DEF Crc8, CrcOf, IsCrc

\* Each sequence of bytes has its run, of bytes.
LEMMA CrcExists ==
    ASSUME NEW bytes, NEW N \in Nat
    PROVE  \E crc : IsCrc(crc, bytes, N)
<1> DEFINE S == {n \in Nat : \E crc : IsCrc(crc, bytes, n)}
<1>1. 0 \in S
  <2>1. IsCrc([i \in 0..0 |-> 0], bytes, 0)
    BY DEF IsCrc
  <2> QED BY <2>1
<1>2. ASSUME NEW n \in Nat, n \in S PROVE n + 1 \in S
  <2>1. PICK d : IsCrc(d, bytes, n)
    BY <1>2
  <2> DEFINE e == [i \in 0..(n + 1) |-> IF i <= n THEN d[i] ELSE CrcTable[Xor(bytes[i], d[n])]]
  <2>2. ASSUME NEW i \in 0..(n + 1)
        PROVE  e[i] = IF i = 0 THEN 0 ELSE CrcTable[Xor(bytes[i], e[i - 1])]
    <3>1. CASE i <= n
      <4>1. d[i] = IF i = 0 THEN 0 ELSE CrcTable[Xor(bytes[i], d[i - 1])]
        BY <2>1, <3>1 DEF IsCrc
      <4> QED BY <3>1, <4>1
    <3>2. CASE i = n + 1
      BY <3>2
    <3> QED BY <3>1, <3>2
  <2>3. IsCrc(e, bytes, n + 1)
    BY <2>2 DEF IsCrc
  <2> QED BY <2>3
<1>3. Nat \subseteq S
  <2> HIDE DEF S
  <2> QED BY <1>1, <1>2, SetInduction
<1> QED BY <1>3

\* The CRC of bytes is a byte.
LEMMA Crc8Byte ==
    ASSUME NEW bytes \in Seq(Byte)
    PROVE  Crc8(bytes) \in Byte
<1> DEFINE n == Len(bytes)
<1> DEFINE crc == CrcOf(bytes, n)
<1>1. n \in Nat
  OBVIOUS
<1>2. IsCrc(crc, bytes, n)
  BY <1>1, CrcExists DEF CrcOf
<1> DEFINE S == {i \in Nat : i <= n => crc[i] \in Byte}
<1>3. 0 \in S
  <2>1. crc[0] = 0
    BY <1>1, <1>2 DEF IsCrc
  <2> QED BY <2>1 DEF Byte
<1>4. ASSUME NEW i \in Nat, i \in S PROVE i + 1 \in S
  <2> SUFFICES ASSUME i + 1 <= n PROVE crc[i + 1] \in Byte
    OBVIOUS
  <2>1. crc[i + 1] = CrcTable[Xor(bytes[i + 1], crc[i])]
    BY <1>1, <1>2 DEF IsCrc
  <2>2. bytes[i + 1] \in Byte /\ crc[i] \in Byte
    BY <1>1, <1>4
  <2> HIDE DEF crc
  <2>3. bytes[i + 1] \in Int /\ crc[i] \in Int
    BY <2>2, ByteNumber
  <2> QED BY <2>1, <2>3, XorByte, CrcTableByte
<1>5. Nat \subseteq S
  <2> HIDE DEF S
  <2> QED BY <1>3, <1>4, SetInduction
<1>6. crc[n] \in Byte
  BY <1>1, <1>5
<1>8. Crc8(bytes) = Xor(crc[n], 85)
  BY CrcRun
<1> HIDE DEF crc, n
<1>7. crc[n] \in Int /\ 85 \in Int
  BY <1>6, ByteNumber
<1> QED BY <1>7, <1>8, XorByte

\* The frames.
LEMMA FrameParts ==
    ASSUME NEW f \in Frames
    PROVE  /\ f.receptor \in Byte /\ f.sender \in Byte /\ f.type \in 0..7 /\ f.data \in Seq(Byte)
           /\ f = [receptor |-> f.receptor, sender |-> f.sender, type |-> f.type,
                   data |-> f.data]
           /\ Taille(f) \in 1..31 /\ Taille(f) <= MaxSize /\ Len(f.data) = Taille(f) - 1
           /\ f.type * 32 + Taille(f) \in Byte
<1>1. /\ f \in [receptor : Byte, sender : Byte, type : 0..7, data : Seq(Byte)]
      /\ Taille(f) <= MaxSize
  BY FramesAssumption
<1>2. /\ f.receptor \in Byte /\ f.sender \in Byte /\ f.type \in 0..7 /\ f.data \in Seq(Byte)
      /\ f = [receptor |-> f.receptor, sender |-> f.sender, type |-> f.type,
              data |-> f.data]
  BY <1>1
<1>3. Len(f.data) \in Nat
  BY <1>2
<1>4. Taille(f) = Len(f.data) + 1 /\ Taille(f) <= MaxSize
  BY <1>1 DEF Taille
<1> DEFINE n == Len(f.data)
<1> HIDE DEF n
<1>5. Taille(f) \in 1..31 /\ n = Taille(f) - 1
  <2>1. n \in Nat /\ Taille(f) = n + 1
    BY <1>3, <1>4 DEF n
  <2>2. \A a \in Nat : a + 1 <= MaxSize => a + 1 \in 1..31 /\ a = (a + 1) - 1
    BY MaxSizeAssumption
  <2> QED BY <1>4, <2>1, <2>2
<1>6. \A a \in 0..7, b \in 1..31 : a * 32 + b \in Byte
  BY DEF Byte
<1> QED BY <1>2, <1>4, <1>5, <1>6 DEF n

\* The CRC of a frame is a byte.
LEMMA CrcByte ==
    ASSUME NEW f \in Frames
    PROVE  ComputeCrc(f) \in Byte
<1> DEFINE head == <<f.sender, f.receptor, ((f.type * 32) % 256) + Taille(f)>>
<1>0. \A a \in 0..7, b \in 1..31 : ((a * 32) % 256) + b \in Byte
  BY DEF Byte
<1>1. ((f.type * 32) % 256) + Taille(f) \in Byte
  BY <1>0, FrameParts
<1>2. head \in Seq(Byte)
  BY <1>1, FrameParts
<1> HIDE DEF head
<1>3. head \o f.data \in Seq(Byte)
  BY <1>2, FrameParts
<1> QED BY <1>3, Crc8Byte DEF ComputeCrc, head

\* The bytes of the message, from 0: the address and size bytes, data and CRC.
Payload(f) == f.data \o <<ComputeCrc(f)>>
MessageByte(f, j) ==
    IF j = 0 THEN f.receptor
    ELSE IF j = 1 THEN f.sender
    ELSE IF j = 2 THEN f.type * 32 + Taille(f)
    ELSE Payload(f)[j - 2]

\* The data and the CRC are as many bytes as taille says.
LEMMA PayloadType ==
    ASSUME NEW f \in Frames
    PROVE  /\ Payload(f) \in Seq(Byte) /\ Len(Payload(f)) = Taille(f)
           /\ \A i \in 1..(Taille(f) - 1) : Payload(f)[i] = f.data[i]
           /\ Payload(f)[Taille(f)] = ComputeCrc(f)
<1> DEFINE c == <<ComputeCrc(f)>>
<1>1. c \in Seq(Byte) /\ Len(c) = 1 /\ c[1] = ComputeCrc(f)
  BY CrcByte
<1> HIDE DEF c
<1>2. f.data \in Seq(Byte) /\ Len(f.data) = Taille(f) - 1 /\ Taille(f) \in 1..31
  BY FrameParts
<1>3. /\ f.data \o c \in Seq(Byte) /\ Len(f.data \o c) = Len(f.data) + Len(c)
      /\ \A i \in 1..(Len(f.data) + Len(c)) :
            (f.data \o c)[i] = IF i <= Len(f.data) THEN f.data[i] ELSE c[i - Len(f.data)]
  BY <1>1, <1>2, ConcatProperties
<1> DEFINE T == Taille(f)
<1> DEFINE p == f.data \o c
<1>4. p = Payload(f)
  BY DEF Payload, c
<1> HIDE DEF T, p
<1>5. T \in 1..31 /\ Len(f.data) = T - 1
  BY <1>2 DEF T
<1>6. p \in Seq(Byte) /\ Len(p) = T
  BY <1>1, <1>3, <1>5 DEF p
<1>7. ASSUME NEW i \in 1..(T - 1) PROVE p[i] = f.data[i]
  BY <1>1, <1>3, <1>5 DEF p
<1>8. p[T] = ComputeCrc(f)
  BY <1>1, <1>3, <1>5 DEF p
<1> QED BY <1>4, <1>6, <1>7, <1>8 DEF T

\* The bytes of a message are bytes.
LEMMA MessageByteType ==
    ASSUME NEW f \in Frames, NEW j \in 0..(Taille(f) + 2)
    PROVE  MessageByte(f, j) \in Byte
<1>1. j > 2 => Payload(f)[j - 2] \in Byte
  BY PayloadType, FrameParts
<1> QED BY <1>1, FrameParts DEF MessageByte

\* The bits of a message, high bit first.
LEMMA FrameBitsIs ==
    ASSUME NEW f \in Frames
    PROVE  /\ FrameBits(f) \in Seq(Level) /\ Len(FrameBits(f)) = 24 + 8 * Taille(f)
           /\ \A n \in 1..(24 + 8 * Taille(f)) :
                FrameBits(f)[n] = Bit(MessageByte(f, (n - 1) \div 8), 7 - ((n - 1) % 8))
<1> DEFINE head == <<f.receptor, f.sender, f.type * 32 + Taille(f)>>
<1> DEFINE tail == <<ComputeCrc(f)>>
<1> DEFINE bytes == head \o f.data \o tail
<1> DEFINE T == Taille(f)
<1>0. T \in 1..31 /\ f.data \in Seq(Byte) /\ Len(f.data) = T - 1
  BY FrameParts
<1>1. head \in Seq(Byte) /\ Len(head) = 3
  BY FrameParts
<1>2. tail \in Seq(Byte) /\ Len(tail) = 1 /\ tail[1] = ComputeCrc(f)
  BY CrcByte
<1>3. head[1] = f.receptor /\ head[2] = f.sender /\ head[3] = f.type * 32 + T
  OBVIOUS
<1>4. FrameBits(f) = [n \in 1..(8 * Len(bytes)) |->
            Bit(bytes[((n - 1) \div 8) + 1], 7 - ((n - 1) % 8))]
  BY DEF FrameBits
<1> HIDE DEF head, tail, T
<1> DEFINE front == head \o f.data
<1>5. /\ front \in Seq(Byte) /\ Len(front) = T + 2
      /\ \A i \in 1..(T + 2) : front[i] = IF i <= 3 THEN head[i] ELSE f.data[i - 3]
  <2>1. /\ front \in Seq(Byte) /\ Len(front) = Len(head) + Len(f.data)
        /\ \A i \in 1..(Len(head) + Len(f.data)) :
              front[i] = IF i <= Len(head) THEN head[i] ELSE f.data[i - Len(head)]
    BY <1>0, <1>1, ConcatProperties
  <2> HIDE DEF front
  <2> QED BY <1>0, <1>1, <2>1
<1> HIDE DEF front
<1>6. /\ Len(bytes) = T + 3
      /\ \A i \in 1..(T + 3) : bytes[i] = IF i <= T + 2 THEN front[i] ELSE tail[i - (T + 2)]
  <2>1. /\ front \o tail \in Seq(Byte) /\ Len(front \o tail) = Len(front) + Len(tail)
        /\ \A i \in 1..(Len(front) + Len(tail)) :
              (front \o tail)[i] = IF i <= Len(front) THEN front[i] ELSE tail[i - Len(front)]
    BY <1>2, <1>5, ConcatProperties
  <2>2. bytes = front \o tail
    BY DEF front
  <2> HIDE DEF bytes
  <2> QED BY <1>0, <1>2, <1>5, <2>1, <2>2
<1> HIDE DEF bytes
<1>7. ASSUME NEW j \in 0..(T + 2) PROVE bytes[j + 1] = MessageByte(f, j)
  <2>1. CASE j <= 2
    <3>1. bytes[j + 1] = head[j + 1]
      BY <1>0, <1>5, <1>6, <2>1
    <3>2. j = 0 \/ j = 1 \/ j = 2
      BY <1>0, <2>1
    <3> QED BY <1>3, <3>1, <3>2 DEF MessageByte, T
  <2>2. CASE j > 2 /\ j < T + 2
    <3>1. bytes[j + 1] = f.data[j - 2]
      BY <1>0, <1>5, <1>6, <2>2
    <3>2. Payload(f)[j - 2] = f.data[j - 2]
      BY <1>0, <2>2, PayloadType DEF T
    <3> QED BY <3>1, <3>2, <2>2 DEF MessageByte
  <2>3. CASE j = T + 2
    <3>1. bytes[j + 1] = ComputeCrc(f)
      BY <1>0, <1>2, <1>6, <2>3
    <3>2. Payload(f)[j - 2] = ComputeCrc(f)
      BY <1>0, <2>3, PayloadType DEF T
    <3>3. j \notin {0, 1, 2}
      BY <1>0, <2>3
    <3> QED BY <3>1, <3>2, <3>3 DEF MessageByte
  <2> QED BY <1>0, <2>1, <2>2, <2>3
<1>8. ASSUME NEW n \in 1..(24 + 8 * T)
      PROVE  /\ FrameBits(f)[n] = Bit(MessageByte(f, (n - 1) \div 8), 7 - ((n - 1) % 8))
             /\ FrameBits(f)[n] \in Level
  <2>1. (n - 1) \div 8 \in 0..(T + 2) /\ 7 - ((n - 1) % 8) \in 0..7
    BY <1>0
  <2>2. n \in 1..(8 * Len(bytes))
    BY <1>0, <1>6
  <2>3. FrameBits(f)[n] = Bit(bytes[((n - 1) \div 8) + 1], 7 - ((n - 1) % 8))
    BY <1>4, <2>2
  <2>4. bytes[((n - 1) \div 8) + 1] = MessageByte(f, (n - 1) \div 8)
    BY <1>7, <2>1
  <2>5. MessageByte(f, (n - 1) \div 8) \in Byte
    BY <2>1, MessageByteType DEF T
  <2>6. MessageByte(f, (n - 1) \div 8) \in Int
    BY <2>5 DEF Byte
  <2> QED BY <2>1, <2>3, <2>4, <2>6, BitLevel
<1>9. 8 * Len(bytes) = 24 + 8 * T
  BY <1>0, <1>6
<1>10. FrameBits(f) \in Seq(Level) /\ Len(FrameBits(f)) = 24 + 8 * T
  <2>1. FrameBits(f) \in [1..(24 + 8 * T) -> Level]
    BY <1>4, <1>8, <1>9
  <2>2. 24 + 8 * T \in Nat
    BY <1>0
  <2> QED BY <2>1, <2>2
<1> QED BY <1>8, <1>10 DEF T

\* The AGC sequence.
LEMMA AgcIs ==
    /\ AgcBits \in Seq(Level) /\ Len(AgcBits) = 32
    /\ \A i \in 1..32 : AgcBits[i] = 1
  BY DEF AgcBits, Level

\* The start byte.
LEMMA StartIs ==
    /\ StartBits \in Seq(Level) /\ Len(StartBits) = 8
    /\ StartBits[1] = 0 /\ StartBits[2] = 1 /\ StartBits[3] = 0 /\ StartBits[4] = 0
    /\ StartBits[5] = 0 /\ StartBits[6] = 0 /\ StartBits[7] = 1 /\ StartBits[8] = 0
  BY DEF StartBits, Level

\* Two sequences of bits, one after the other.
LEMMA JoinedIs ==
    ASSUME NEW a \in Seq(Level), NEW b \in Seq(Level), NEW q \in Nat, Len(a) = 40, Len(b) = q
    PROVE  /\ a \o b \in Seq(Level)
           /\ Len(a \o b) = 40 + q
           /\ \A i \in 1..(40 + q) : (a \o b)[i] = IF i <= 40 THEN a[i] ELSE b[i - 40]
<1>1. /\ a \o b \in Seq(Level)
      /\ Len(a \o b) = Len(a) + Len(b)
      /\ \A i \in 1..(Len(a) + Len(b)) :
           (a \o b)[i] = IF i <= Len(a) THEN a[i] ELSE b[i - Len(a)]
  BY ConcatProperties
<1>2. Len(a \o b) = 40 + q
  BY <1>1
<1>3. ASSUME NEW i \in 1..(40 + q)
      PROVE  (a \o b)[i] = IF i <= 40 THEN a[i] ELSE b[i - 40]
  <2>1. i \in 1..(Len(a) + Len(b))
    OBVIOUS
  <2>2. (a \o b)[i] = IF i <= Len(a) THEN a[i] ELSE b[i - Len(a)]
    BY <1>1, <2>1
  <2> QED BY <2>2
<1> QED BY <1>1, <1>2, <1>3

\* The half bits of a frame: 64 of the AGC sequence, 16 of the start byte, 16 for each
\* byte of the message.
LEMMA HalfBitsIs ==
    ASSUME NEW f \in Frames, NEW h, h = HalfBits(f)
    PROVE  /\ Len(h) = 128 + 16 * Taille(f)
           /\ \A n \in 1..(128 + 16 * Taille(f)) : h[n] \in Level
           /\ \A n \in 1..(128 + 16 * Taille(f)) : n % 2 = 0 => h[n] = 1 - h[n - 1]
           /\ \A n \in 1..64 : h[n] = n % 2
           /\ h[65] = 0 /\ h[66] = 1 /\ h[67] = 1 /\ h[68] = 0
           /\ h[69] = 0 /\ h[70] = 1 /\ h[71] = 0 /\ h[72] = 1
           /\ h[73] = 0 /\ h[74] = 1 /\ h[75] = 0 /\ h[76] = 1
           /\ h[77] = 1 /\ h[78] = 0 /\ h[79] = 0 /\ h[80] = 1
           /\ \A n \in 81..(128 + 16 * Taille(f)) : n % 2 = 1 =>
                h[n] = Bit(MessageByte(f, (n - 81) \div 16), 7 - (((n - 81) \div 2) % 8))
<1> DEFINE T == Taille(f)
<1> DEFINE F == FrameBits(f)
<1> DEFINE lead == AgcBits \o StartBits
<1> DEFINE bits == AgcBits \o StartBits \o FrameBits(f)
<1>0. T \in 1..31
  BY FrameParts
<1> HIDE DEF T
<1>1. /\ lead \in Seq(Level) /\ Len(lead) = 40
      /\ \A i \in 1..40 : lead[i] = IF i <= 32 THEN 1 ELSE StartBits[i - 32]
  <2>1. /\ lead \in Seq(Level) /\ Len(lead) = Len(AgcBits) + Len(StartBits)
        /\ \A i \in 1..(Len(AgcBits) + Len(StartBits)) :
              lead[i] = IF i <= Len(AgcBits) THEN AgcBits[i] ELSE StartBits[i - Len(AgcBits)]
    BY AgcIs, StartIs, ConcatProperties
  <2> HIDE DEF lead
  <2> QED BY <2>1, AgcIs, StartIs
<1> HIDE DEF lead
<1>2. /\ F \in Seq(Level) /\ Len(F) = 24 + 8 * T
      /\ \A n \in 1..(24 + 8 * T) :
           F[n] = Bit(MessageByte(f, (n - 1) \div 8), 7 - ((n - 1) % 8))
  BY FrameBitsIs DEF T
<1> HIDE DEF F
<1>3. /\ bits \in Seq(Level) /\ Len(bits) = 64 + 8 * T
      /\ \A i \in 1..(64 + 8 * T) : bits[i] = IF i <= 40 THEN lead[i] ELSE F[i - 40]
  <2>1. bits = lead \o F
    BY DEF lead, F
  <2> HIDE DEF bits
  <2>2. lead \in Seq(Level) /\ F \in Seq(Level) /\ Len(lead) = 40 /\ Len(F) = 24 + 8 * T
    BY <1>1, <1>2
  <2> DEFINE L == 24 + 8 * T
  <2>3. L \in Nat /\ 40 + L = 64 + 8 * T
    BY <1>0
  <2>4. Len(F) = L
    BY <2>2
  <2> HIDE DEF L
  <2>5. /\ lead \o F \in Seq(Level)
        /\ Len(lead \o F) = 40 + L
        /\ \A i \in 1..(40 + L) : (lead \o F)[i] = IF i <= 40 THEN lead[i] ELSE F[i - 40]
    BY <2>2, <2>3, <2>4, JoinedIs
  <2>6. bits \in Seq(Level)
    BY <2>1, <2>5
  <2>7. Len(bits) = 64 + 8 * T
    BY <2>1, <2>3, <2>5
  <2>8. ASSUME NEW i \in 1..(64 + 8 * T)
        PROVE  bits[i] = IF i <= 40 THEN lead[i] ELSE F[i - 40]
    <3>1. i \in 1..(40 + L)
      BY <2>3
    <3> QED BY <2>1, <2>5, <3>1
  <2> QED BY <2>6, <2>7, <2>8
<1>4. h = [n \in 1..(2 * Len(bits)) |->
              IF n % 2 = 1 THEN bits[(n + 1) \div 2] ELSE 1 - bits[n \div 2]]
  BY DEF HalfBits
<1> HIDE DEF bits
<1>5. 2 * Len(bits) = 128 + 16 * T
  BY <1>0, <1>3
<1>6. ASSUME NEW n \in 1..(128 + 16 * T)
      PROVE  /\ h[n] = IF n % 2 = 1 THEN bits[(n + 1) \div 2] ELSE 1 - bits[n \div 2]
             /\ h[n] \in Level
  <2>1. h[n] = IF n % 2 = 1 THEN bits[(n + 1) \div 2] ELSE 1 - bits[n \div 2]
    BY <1>4, <1>5
  <2>2. \A i \in 1..(64 + 8 * T) : bits[i] \in Level
    BY <1>3
  <2>3. n % 2 = 1 => (n + 1) \div 2 \in 1..(64 + 8 * T)
    BY <1>0
  <2>4. n % 2 # 1 => n \div 2 \in 1..(64 + 8 * T)
    BY <1>0
  <2>5. \A b \in Level : 1 - b \in Level
    BY DEF Level
  <2> QED BY <2>1, <2>2, <2>3, <2>4, <2>5
<1>7. Len(h) = 128 + 16 * T
  <2>1. h \in [1..(128 + 16 * T) -> Level]
    BY <1>4, <1>5, <1>6
  <2>2. 128 + 16 * T \in Nat
    BY <1>0
  <2> QED BY <2>1, <2>2
<1>8. ASSUME NEW n \in 1..(128 + 16 * T), n % 2 = 0 PROVE h[n] = 1 - h[n - 1]
  <2>1. n - 1 \in 1..(128 + 16 * T) /\ (n - 1) % 2 = 1 /\ ((n - 1) + 1) \div 2 = n \div 2
    BY <1>0, <1>8
  <2>2. h[n - 1] = bits[n \div 2]
    BY <1>6, <2>1
  <2> QED BY <1>6, <1>8, <2>2
<1>9. ASSUME NEW n \in 1..64 PROVE h[n] = n % 2
  <2>1. ASSUME NEW i \in 1..32 PROVE bits[i] = 1
    <3>1. i \in 1..(64 + 8 * T) /\ i \in 1..40 /\ i <= 40 /\ i <= 32
      BY <1>0
    <3>2. bits[i] = lead[i]
      BY <1>3, <3>1
    <3>3. lead[i] = 1
      BY <1>1, <3>1
    <3> QED BY <3>2, <3>3
  <2>2. n \in 1..(128 + 16 * T)
    BY <1>0
  <2>3. CASE n % 2 = 1
    <3>1. (n + 1) \div 2 \in 1..32
      BY <2>3
    <3> QED BY <1>6, <2>1, <2>2, <2>3, <3>1
  <2>4. CASE n % 2 = 0
    <3>1. n \div 2 \in 1..32
      BY <2>4
    <3> QED BY <1>6, <2>1, <2>2, <2>4, <3>1
  <2> QED BY <2>3, <2>4
<1>10. ASSUME NEW i \in 33..40
       PROVE  h[2 * i - 1] = StartBits[i - 32] /\ h[2 * i] = 1 - StartBits[i - 32]
  <2>1. bits[i] = StartBits[i - 32]
    <3>1. i \in 1..(64 + 8 * T) /\ i \in 1..40 /\ i <= 40 /\ ~(i <= 32)
      BY <1>0
    <3> QED BY <1>1, <1>3, <3>1
  <2>2. /\ 2 * i - 1 \in 1..(128 + 16 * T) /\ (2 * i - 1) % 2 = 1 /\ ((2 * i - 1) + 1) \div 2 = i
        /\ 2 * i \in 1..(128 + 16 * T) /\ (2 * i) % 2 = 0 /\ (2 * i) \div 2 = i
    BY <1>0
  <2> QED BY <1>6, <2>1, <2>2
<1>11. /\ h[65] = StartBits[1] /\ h[66] = 1 - StartBits[1]
       /\ h[67] = StartBits[2] /\ h[68] = 1 - StartBits[2]
       /\ h[69] = StartBits[3] /\ h[70] = 1 - StartBits[3]
       /\ h[71] = StartBits[4] /\ h[72] = 1 - StartBits[4]
  <2>1. h[2 * 33 - 1] = StartBits[33 - 32] /\ h[2 * 33] = 1 - StartBits[33 - 32]
    BY <1>10
  <2>2. h[2 * 34 - 1] = StartBits[34 - 32] /\ h[2 * 34] = 1 - StartBits[34 - 32]
    BY <1>10
  <2>3. h[2 * 35 - 1] = StartBits[35 - 32] /\ h[2 * 35] = 1 - StartBits[35 - 32]
    BY <1>10
  <2>4. h[2 * 36 - 1] = StartBits[36 - 32] /\ h[2 * 36] = 1 - StartBits[36 - 32]
    BY <1>10
  <2> QED BY <2>1, <2>2, <2>3, <2>4
<1>12. /\ h[73] = StartBits[5] /\ h[74] = 1 - StartBits[5]
       /\ h[75] = StartBits[6] /\ h[76] = 1 - StartBits[6]
       /\ h[77] = StartBits[7] /\ h[78] = 1 - StartBits[7]
       /\ h[79] = StartBits[8] /\ h[80] = 1 - StartBits[8]
  <2>1. h[2 * 37 - 1] = StartBits[37 - 32] /\ h[2 * 37] = 1 - StartBits[37 - 32]
    BY <1>10
  <2>2. h[2 * 38 - 1] = StartBits[38 - 32] /\ h[2 * 38] = 1 - StartBits[38 - 32]
    BY <1>10
  <2>3. h[2 * 39 - 1] = StartBits[39 - 32] /\ h[2 * 39] = 1 - StartBits[39 - 32]
    BY <1>10
  <2>4. h[2 * 40 - 1] = StartBits[40 - 32] /\ h[2 * 40] = 1 - StartBits[40 - 32]
    BY <1>10
  <2> QED BY <2>1, <2>2, <2>3, <2>4
<1>13. ASSUME NEW n \in 81..(128 + 16 * T), n % 2 = 1
       PROVE  h[n] = Bit(MessageByte(f, (n - 81) \div 16), 7 - (((n - 81) \div 2) % 8))
  <2> DEFINE i == (n + 1) \div 2
  <2>1. /\ n \in 1..(128 + 16 * T) /\ i \in 41..(64 + 8 * T) /\ i \in 1..(64 + 8 * T)
        /\ i - 40 \in 1..(24 + 8 * T)
    BY <1>0, <1>13
  <2>2. ((i - 40) - 1) \div 8 = (n - 81) \div 16 /\ ((i - 40) - 1) % 8 = ((n - 81) \div 2) % 8
    BY <1>0, <1>13
  <2>3. h[n] = bits[i]
    BY <1>6, <1>13, <2>1
  <2> HIDE DEF i
  <2>4. bits[i] = F[i - 40]
    BY <1>3, <2>1
  <2>5. F[i - 40] = Bit(MessageByte(f, ((i - 40) - 1) \div 8), 7 - (((i - 40) - 1) % 8))
    BY <1>2, <2>1
  <2> QED BY <2>2, <2>3, <2>4, <2>5
<1>14. \A n \in 1..(128 + 16 * T) : h[n] \in Level
  BY <1>6
<1> QED BY <1>7, <1>8, <1>9, <1>11, <1>12, <1>13, <1>14, StartIs DEF T

\* The first k bits of byte v.
First(v, k) == IF k <= 0 THEN 0 ELSE IF k >= 8 THEN v ELSE v \div TwoTo(8 - k)

\* A bit more of a byte, shifted in at its low end.
LEMMA FirstNext ==
    ASSUME NEW v \in Byte, NEW k \in 0..7
    PROVE  First(v, k + 1) = Push(First(v, k), Bit(v, 7 - k))
<1>0. v \in 0..255
  BY DEF Byte
<1>1. k = 0 \/ k = 1 \/ k = 2 \/ k = 3 \/ k = 4 \/ k = 5 \/ k = 6 \/ k = 7
  OBVIOUS
<1>2. CASE k = 0
  BY <1>0, <1>2, TwoToIs DEF First, Push, Bit
<1>3. CASE k = 1
  BY <1>0, <1>3, TwoToIs DEF First, Push, Bit
<1>4. CASE k = 2
  BY <1>0, <1>4, TwoToIs DEF First, Push, Bit
<1>5. CASE k = 3
  BY <1>0, <1>5, TwoToIs DEF First, Push, Bit
<1>6. CASE k = 4
  BY <1>0, <1>6, TwoToIs DEF First, Push, Bit
<1>7. CASE k = 5
  BY <1>0, <1>7, TwoToIs DEF First, Push, Bit
<1>8. CASE k = 6
  BY <1>0, <1>8, TwoToIs DEF First, Push, Bit
<1>9. CASE k = 7
  <2>1. First(v, k + 1) = v /\ First(v, k) = v \div 2
    BY <1>0, <1>9, TwoToIs DEF First
  <2>2. Bit(v, 7 - k) = v % 2
    <3>1. Bit(v, 7 - k) = (v \div 1) % 2
      BY <1>9, TwoToIs DEF Bit
    <3> QED BY <1>0, <3>1
  <2>3. (2 * (v \div 2) + (v % 2)) % 256 = v
    <3>1. 2 * (v \div 2) + (v % 2) = v
      BY <1>0
    <3> QED BY <1>0, <3>1
  <2>4. Push(First(v, k), Bit(v, 7 - k)) = (2 * (v \div 2) + (v % 2)) % 256
    BY <2>1, <2>2 DEF Push
  <2> QED BY <2>1, <2>3, <2>4
<1> QED BY <1>1, <1>2, <1>3, <1>4, <1>5, <1>6, <1>7, <1>8, <1>9

-----------------------------------------------------------------------------
(* Half bits of a message.                                                 *)

\* Nothing is left of the message before.
Fresh(r) ==
    ~r.lengthOk /\ r.receptor = 0 /\ r.sender = 0 /\ r.type = 0 /\ r.data = NoData

\* The receiver has m half bits of f's message.
Collecting(e, f, m) ==
    LET k == (m + 1) \div 2
    IN /\ e.active /\ e.count = m /\ (e.lengthOk <=> m >= 49)
       /\ e.receptor = First(f.receptor, k)
       /\ e.sender = First(f.sender, k - 8)
       /\ e.type = First(f.type * 32 + Taille(f), IF k <= 19 THEN k - 16 ELSE 3)
       /\ e.size = First(Taille(f), k - 16)
       /\ e.data = [j \in 0..30 |->
                      IF j < Taille(f) THEN First(Payload(f)[j + 1], k - 24 - 8 * j) ELSE 0]

\* Before the first bit of a byte and after the last one.
LEMMA FirstEnds ==
    ASSUME NEW v, NEW k \in Int
    PROVE  (k <= 0 => First(v, k) = 0) /\ (k >= 8 => First(v, k) = v)
  BY DEF First

\* The size in the third byte.
LEMMA SizeBits ==
    ASSUME NEW t \in 0..7, NEW n \in 1..31
    PROVE  /\ First(n, 3) = 0 /\ First(n, 2) = 0 /\ First(n, 1) = 0
           /\ First(t * 32 + n, 3) = t
           /\ \A k \in 3..7 : First(n, k + 1) = 2 * First(n, k) + Bit(t * 32 + n, 7 - k)
<1>1. /\ First(n, 3) = 0 /\ First(n, 2) = 0 /\ First(n, 1) = 0
      /\ First(t * 32 + n, 3) = t
  BY TwoToIs DEF First
<1>2. ASSUME NEW k \in 3..7
      PROVE  First(n, k + 1) = 2 * First(n, k) + Bit(t * 32 + n, 7 - k)
  <2>1. CASE k = 3
    <3>1. First(n, k + 1) = n \div 16 /\ First(n, k) = n \div 32
      BY <2>1, TwoToIs DEF First
    <3>2. Bit(t * 32 + n, 7 - k) = ((t * 32 + n) \div 16) % 2
      BY <2>1, TwoToIs DEF Bit
    <3>3. (t * 32 + n) \div 16 = 2 * t + (n \div 16)
      OBVIOUS
    <3>4. (2 * t + (n \div 16)) % 2 = (n \div 16) % 2
      OBVIOUS
    <3>5. n \div 16 = 2 * (n \div 32) + ((n \div 16) % 2)
      OBVIOUS
    <3> QED BY <3>1, <3>2, <3>3, <3>4, <3>5
  <2>2. CASE k = 4
    <3>1. First(n, k + 1) = n \div 8 /\ First(n, k) = n \div 16
      BY <2>2, TwoToIs DEF First
    <3>2. Bit(t * 32 + n, 7 - k) = ((t * 32 + n) \div 8) % 2
      BY <2>2, TwoToIs DEF Bit
    <3>3. (t * 32 + n) \div 8 = 4 * t + (n \div 8)
      OBVIOUS
    <3>4. (4 * t + (n \div 8)) % 2 = (n \div 8) % 2
      OBVIOUS
    <3>5. n \div 8 = 2 * (n \div 16) + ((n \div 8) % 2)
      OBVIOUS
    <3> QED BY <3>1, <3>2, <3>3, <3>4, <3>5
  <2>3. CASE k = 5
    <3>1. First(n, k + 1) = n \div 4 /\ First(n, k) = n \div 8
      BY <2>3, TwoToIs DEF First
    <3>2. Bit(t * 32 + n, 7 - k) = ((t * 32 + n) \div 4) % 2
      BY <2>3, TwoToIs DEF Bit
    <3>3. (t * 32 + n) \div 4 = 8 * t + (n \div 4)
      OBVIOUS
    <3>4. (8 * t + (n \div 4)) % 2 = (n \div 4) % 2
      OBVIOUS
    <3>5. n \div 4 = 2 * (n \div 8) + ((n \div 4) % 2)
      OBVIOUS
    <3> QED BY <3>1, <3>2, <3>3, <3>4, <3>5
  <2>4. CASE k = 6
    <3>1. First(n, k + 1) = n \div 2 /\ First(n, k) = n \div 4
      BY <2>4, TwoToIs DEF First
    <3>2. Bit(t * 32 + n, 7 - k) = ((t * 32 + n) \div 2) % 2
      BY <2>4, TwoToIs DEF Bit
    <3>3. (t * 32 + n) \div 2 = 16 * t + (n \div 2)
      OBVIOUS
    <3>4. (16 * t + (n \div 2)) % 2 = (n \div 2) % 2
      OBVIOUS
    <3>5. n \div 2 = 2 * (n \div 4) + ((n \div 2) % 2)
      OBVIOUS
    <3> QED BY <3>1, <3>2, <3>3, <3>4, <3>5
  <2>5. CASE k = 7
    <3>1. First(n, k + 1) = n /\ First(n, k) = n \div 2
      BY <2>5, TwoToIs DEF First
    <3>2. Bit(t * 32 + n, 7 - k) = ((t * 32 + n) \div 1) % 2
      BY <2>5, TwoToIs DEF Bit
    <3>3. ((t * 32 + n) \div 1) % 2 = n % 2
      OBVIOUS
    <3>4. n = 2 * (n \div 2) + (n % 2)
      OBVIOUS
    <3> QED BY <3>1, <3>2, <3>3, <3>4
  <2> QED BY <2>1, <2>2, <2>3, <2>4, <2>5
<1> QED BY <1>1, <1>2

\* Half bit c of a message, when it is odd.
MessageBit(f, c) == Bit(MessageByte(f, (c - 1) \div 16), 7 - (((c - 1) \div 2) % 8))

\* The bit and the byte an odd half bit of a message is in.
LEMMA Position ==
    ASSUME NEW k \in Nat
    PROVE  LET c == 2 * k + 1 IN
           /\ (c + 1) \div 2 = k + 1 /\ (c - 1) \div 2 = k
           /\ (c - 1) \div 16 = k \div 8 /\ ((c - 1) \div 2) % 8 = k % 8
           /\ (c - 48) \div 16 = (k \div 8) - 3
           /\ k = 8 * (k \div 8) + (k % 8) /\ k % 8 \in 0..7 /\ k \div 8 \in Nat
<1>1. ASSUME NEW i \in Nat, NEW u \in 0..7, k = 8 * i + u
      PROVE  /\ k \div 8 = i /\ k % 8 = u
             /\ ((2 * k + 1) - 1) \div 16 = i /\ ((2 * k + 1) - 48) \div 16 = i - 3
  BY <1>1
<1>2. k = 8 * (k \div 8) + (k % 8) /\ k % 8 \in 0..7 /\ k \div 8 \in Nat
  OBVIOUS
<1>3. ((2 * k + 1) + 1) \div 2 = k + 1 /\ ((2 * k + 1) - 1) \div 2 = k
  OBVIOUS
<1> QED BY <1>1, <1>2, <1>3

\* p is e with the count at c, whatever its rx_bits.
Counted(p, e, c) ==
    /\ p.active = e.active /\ p.count = c /\ p.lengthOk = e.lengthOk
    /\ p.receptor = e.receptor /\ p.sender = e.sender /\ p.type = e.type
    /\ p.size = e.size /\ p.data = e.data /\ p.done = e.done

\* Shifted puts a half bit of f where it belongs.
LEMMA CollectingShifted ==
    ASSUME NEW f \in Frames, NEW e \in Receiver, NEW m \in 0..(46 + 16 * Taille(f)),
           Collecting(e, f, m), NEW p \in Receiver, Counted(p, e, m + 1), NEW b \in Level,
           (m + 1) % 2 = 1 => b = MessageBit(f, m + 1)
    PROVE  Collecting(Shifted(p, b), f, m + 1) /\ Shifted(p, b).done = e.done
<1> DEFINE T == Taille(f)
<1> DEFINE third == f.type * 32 + Taille(f)
<1> DEFINE c == m + 1
<1> DEFINE k == (m + 1) \div 2
<1> DEFINE r == Shifted(p, b)
<1> DEFINE upto(n) == IF n <= 19 THEN n - 16 ELSE 3
<1> DEFINE body(n) == [j \in 0..30 |->
                         IF j < Taille(f) THEN First(Payload(f)[j + 1], n - 24 - 8 * j) ELSE 0]
<1>0. /\ T \in 1..31 /\ f.receptor \in Byte /\ f.sender \in Byte /\ f.type \in 0..7
      /\ third \in Byte
  BY FrameParts
<1>1. /\ p.active = e.active /\ p.count = c /\ p.lengthOk = e.lengthOk
      /\ p.receptor = e.receptor /\ p.sender = e.sender /\ p.type = e.type
      /\ p.size = e.size /\ p.data = e.data /\ p.done = e.done
  BY DEF Counted
<1>2. /\ e.active /\ e.count = m /\ (e.lengthOk <=> m >= 49)
      /\ e.receptor = First(f.receptor, k) /\ e.sender = First(f.sender, k - 8)
      /\ e.type = First(third, upto(k))
      /\ e.size = First(T, k - 16)
      /\ e.data = body(k)
  BY DEF Collecting
<1>3. /\ c \in Nat /\ k \in Nat /\ m \in Nat /\ b \in Int
      /\ c >= 1 /\ c <= 47 + 16 * T
  <2>1. \A n \in 1..31 : \A i \in 0..(46 + 16 * n) :
            /\ i + 1 \in Nat /\ (i + 1) \div 2 \in Nat /\ i \in Nat
            /\ i + 1 >= 1 /\ i + 1 <= 47 + 16 * n
    OBVIOUS
  <2>2. m \in Nat /\ m + 1 \in Nat /\ (m + 1) \div 2 \in Nat /\ m + 1 >= 1 /\ m + 1 <= 47 + 16 * T
    BY <1>0, <2>1
  <2> QED BY <2>2 DEF Level
<1> DEFINE Reading(q, n) ==
      /\ q.active /\ q.count = c /\ (q.lengthOk <=> c >= 49)
      /\ q.receptor = First(f.receptor, n) /\ q.sender = First(f.sender, n - 8)
      /\ q.type = First(third, upto(n))
      /\ q.size = First(T, n - 16)
      /\ q.data = body(n)
<1>4. ASSUME NEW q, Reading(q, (c + 1) \div 2)
      PROVE  Collecting(q, f, c)
  BY <1>4 DEF Collecting
<1>5. ASSUME NEW n, NEW i \in Int, n <= 24, n \in Int
      PROVE  body(n) = NoData
  <2>1. \A j \in 0..30 : n - 24 - 8 * j <= 0 /\ n - 24 - 8 * j \in Int
    BY <1>5
  <2>2. \A j \in 0..30 : First(Payload(f)[j + 1], n - 24 - 8 * j) = 0
    BY <2>1, FirstEnds
  <2> QED BY <2>2 DEF NoData
<1>6. c % 2 = 1 => MessageBit(f, c) = b
  OBVIOUS
<1> HIDE DEF third, c, T
<1>7. c = m + 1
  BY DEF c
<1> USE DEF c
<1> SUFFICES Reading(r, (c + 1) \div 2) /\ r.done = e.done
  BY <1>4
<1> HIDE DEF c, k, body, upto
<1>8. k = c \div 2 /\ c % 2 \in 0..1
  BY <1>3, <1>7 DEF k
<1>15. ASSUME c % 2 = 1
       PROVE  /\ c = 2 * k + 1 /\ (c + 1) \div 2 = k + 1
              /\ (c - 1) \div 16 = k \div 8 /\ ((c - 1) \div 2) % 8 = k % 8
              /\ (c - 48) \div 16 = (k \div 8) - 3
              /\ k = 8 * (k \div 8) + (k % 8) /\ k % 8 \in 0..7 /\ k \div 8 \in Nat
  <2>1. c = 2 * k + 1
    BY <1>3, <1>8, <1>15
  <2> QED BY <1>3, <2>1, Position
<1>16. m >= 49 <=> (c >= 49 /\ c # 49)
  BY <1>3, <1>7
<1>9. CASE c % 2 = 0
  <2>1. r = p
    BY <1>1, <1>9 DEF Shifted
  <2>2. (c + 1) \div 2 = k /\ (m >= 49 <=> c >= 49)
    BY <1>3, <1>7, <1>8, <1>9
  <2> QED BY <1>1, <1>2, <2>1, <2>2
<1>10. CASE c % 2 = 1 /\ c < 16
  <2> DEFINE x == Push(e.receptor, b)
  <2>1. r = [p EXCEPT !.receptor = x]
    BY <1>1, <1>10 DEF Shifted
  <2>2. k \in 0..7 /\ (c + 1) \div 2 = k + 1 /\ (m >= 49 <=> c >= 49)
        /\ (c - 1) \div 16 = 0 /\ ((c - 1) \div 2) % 8 = k
    <3>1. k \in 0..7
      <4>1. c = 2 * k + 1
        BY <1>10, <1>15
      <4> QED BY <1>3, <1>10, <4>1
    <3>2. k \div 8 = 0 /\ k % 8 = k
      BY <3>1
    <3>3. m >= 49 <=> c >= 49
      BY <1>3, <1>10, <1>16
    <3>4. (c + 1) \div 2 = k + 1 /\ (c - 1) \div 16 = 0 /\ ((c - 1) \div 2) % 8 = k
      BY <1>10, <1>15, <3>2
    <3> QED BY <3>1, <3>3, <3>4
  <2>3. b = Bit(f.receptor, 7 - k)
    BY <1>6, <1>10, <2>2 DEF MessageBit, MessageByte
  <2>4. x = First(f.receptor, k + 1)
    BY <1>0, <1>2, <2>2, <2>3, FirstNext
  <2>5. /\ First(f.sender, (k + 1) - 8) = First(f.sender, k - 8)
        /\ First(third, upto(k + 1)) = First(third, upto(k))
        /\ First(T, (k + 1) - 16) = First(T, k - 16)
    BY <2>2, FirstEnds DEF upto
  <2>6. body(k + 1) = body(k)
    BY <1>5, <2>2
  <2> HIDE DEF x
  <2>12. /\ r.active = e.active /\ r.count = c /\ (r.lengthOk <=> e.lengthOk)
        /\ r.receptor = x /\ r.sender = e.sender /\ r.type = e.type /\ r.size = e.size /\ r.data = e.data
        /\ r.done = e.done
    BY <1>1, <2>1 DEF Receiver
  <2> QED BY <1>1, <1>2, <2>2, <2>4, <2>5, <2>6, <2>12
<1>11. CASE c % 2 = 1 /\ c >= 16 /\ c < 32
  <2> DEFINE x == Push(e.sender, b)
  <2>1. r = [p EXCEPT !.sender = x]
    BY <1>1, <1>3, <1>11 DEF Shifted
  <2>2. k \in 8..15 /\ k - 8 \in 0..7 /\ (c + 1) \div 2 = k + 1 /\ (m >= 49 <=> c >= 49)
        /\ (c - 1) \div 16 = 1 /\ ((c - 1) \div 2) % 8 = k - 8
    <3>1. k \in 8..15
      <4>1. c = 2 * k + 1
        BY <1>11, <1>15
      <4> QED BY <1>3, <1>11, <4>1
    <3>2. k \div 8 = 1 /\ k % 8 = k - 8
      BY <3>1
    <3>3. m >= 49 <=> c >= 49
      BY <1>3, <1>11, <1>16
    <3>4. (c + 1) \div 2 = k + 1 /\ (c - 1) \div 16 = 1 /\ ((c - 1) \div 2) % 8 = k - 8
      BY <1>11, <1>15, <3>2
    <3> QED BY <3>1, <3>3, <3>4
  <2>3. b = Bit(f.sender, 7 - (k - 8))
    BY <1>6, <1>11, <2>2 DEF MessageBit, MessageByte
  <2>4. x = First(f.sender, (k + 1) - 8)
    <3>1. (k - 8) + 1 = (k + 1) - 8
      BY <2>2
    <3>2. x = First(f.sender, (k - 8) + 1)
      BY <1>0, <1>2, <2>2, <2>3, FirstNext
    <3> QED BY <3>1, <3>2
  <2>5. /\ First(f.receptor, k + 1) = First(f.receptor, k)
        /\ First(third, upto(k + 1)) = First(third, upto(k))
        /\ First(T, (k + 1) - 16) = First(T, k - 16)
    BY <2>2, FirstEnds DEF upto
  <2>6. body(k + 1) = body(k)
    BY <1>5, <2>2
  <2> HIDE DEF x
  <2>12. /\ r.active = e.active /\ r.count = c /\ (r.lengthOk <=> e.lengthOk)
        /\ r.sender = x /\ r.receptor = e.receptor /\ r.type = e.type /\ r.size = e.size /\ r.data = e.data
        /\ r.done = e.done
    BY <1>1, <2>1 DEF Receiver
  <2> QED BY <1>1, <1>2, <2>2, <2>4, <2>5, <2>6, <2>12
<1>12. CASE c % 2 = 1 /\ c >= 32 /\ c < 38
  <2> DEFINE x == Push(e.type, b)
  <2>1. r = [p EXCEPT !.type = x]
    BY <1>1, <1>3, <1>12 DEF Shifted
  <2>2. k \in 16..18 /\ k - 16 \in 0..7 /\ (c + 1) \div 2 = k + 1 /\ (m >= 49 <=> c >= 49)
        /\ (c - 1) \div 16 = 2 /\ ((c - 1) \div 2) % 8 = k - 16
    <3>1. k \in 16..18
      <4>1. c = 2 * k + 1
        BY <1>12, <1>15
      <4> QED BY <1>3, <1>12, <4>1
    <3>2. k \div 8 = 2 /\ k % 8 = k - 16
      BY <3>1
    <3>3. m >= 49 <=> c >= 49
      BY <1>3, <1>12, <1>16
    <3>4. (c + 1) \div 2 = k + 1 /\ (c - 1) \div 16 = 2 /\ ((c - 1) \div 2) % 8 = k - 16
      BY <1>12, <1>15, <3>2
    <3> QED BY <3>1, <3>3, <3>4
  <2>3. b = Bit(third, 7 - (k - 16))
    BY <1>6, <1>12, <2>2 DEF MessageBit, MessageByte, third
  <2>4. x = First(third, upto(k + 1))
    <3>1. upto(k) = k - 16 /\ upto(k + 1) = (k - 16) + 1
      BY <2>2 DEF upto
    <3> QED BY <1>0, <1>2, <2>2, <2>3, <3>1, FirstNext
  <2>5. /\ First(f.receptor, k + 1) = First(f.receptor, k)
        /\ First(f.sender, (k + 1) - 8) = First(f.sender, k - 8)
    BY <2>2, FirstEnds
  <2>6. First(T, (k + 1) - 16) = 0 /\ First(T, k - 16) = 0
    <3>1. First(T, 1) = 0 /\ First(T, 2) = 0 /\ First(T, 3) = 0 /\ First(T, 0) = 0
      BY <1>0, SizeBits, FirstEnds
    <3>2. k = 16 \/ k = 17 \/ k = 18
      BY <2>2
    <3> QED BY <3>1, <3>2
  <2>7. body(k + 1) = body(k)
    BY <1>5, <2>2
  <2> HIDE DEF x
  <2>12. /\ r.active = e.active /\ r.count = c /\ (r.lengthOk <=> e.lengthOk)
        /\ r.type = x /\ r.receptor = e.receptor /\ r.sender = e.sender /\ r.size = e.size /\ r.data = e.data
        /\ r.done = e.done
    BY <1>1, <2>1 DEF Receiver
  <2> QED BY <1>1, <1>2, <2>2, <2>4, <2>5, <2>6, <2>7, <2>12
<1>13. CASE c % 2 = 1 /\ c >= 38 /\ c < 48
  <2> DEFINE x == 2 * e.size + b
  <2>1. r = [p EXCEPT !.size = x]
    BY <1>1, <1>3, <1>13 DEF Shifted
  <2>2. k \in 19..23 /\ k - 16 \in 3..7 /\ (c + 1) \div 2 = k + 1 /\ (m >= 49 <=> c >= 49)
        /\ (c - 1) \div 16 = 2 /\ ((c - 1) \div 2) % 8 = k - 16
    <3>1. k \in 19..23
      <4>1. c = 2 * k + 1
        BY <1>13, <1>15
      <4> QED BY <1>3, <1>13, <4>1
    <3>2. k \div 8 = 2 /\ k % 8 = k - 16
      BY <3>1
    <3>3. m >= 49 <=> c >= 49
      BY <1>3, <1>13, <1>16
    <3>4. (c + 1) \div 2 = k + 1 /\ (c - 1) \div 16 = 2 /\ ((c - 1) \div 2) % 8 = k - 16
      BY <1>13, <1>15, <3>2
    <3> QED BY <3>1, <3>3, <3>4
  <2>3. b = Bit(f.type * 32 + T, 7 - (k - 16))
    BY <1>6, <1>13, <2>2 DEF MessageBit, MessageByte, T
  <2>4. x = First(T, (k + 1) - 16)
    <3>1. (k - 16) + 1 = (k + 1) - 16
      BY <2>2
    <3>2. x = First(T, (k - 16) + 1)
      BY <1>0, <1>2, <2>2, <2>3, SizeBits
    <3> QED BY <3>1, <3>2
  <2>5. /\ First(f.receptor, k + 1) = First(f.receptor, k)
        /\ First(f.sender, (k + 1) - 8) = First(f.sender, k - 8)
    BY <2>2, FirstEnds
  <2>6. upto(k + 1) = upto(k)
    BY <2>2 DEF upto
  <2>7. body(k + 1) = body(k)
    BY <1>5, <2>2
  <2> HIDE DEF x
  <2>12. /\ r.active = e.active /\ r.count = c /\ (r.lengthOk <=> e.lengthOk)
        /\ r.size = x /\ r.receptor = e.receptor /\ r.sender = e.sender /\ r.type = e.type /\ r.data = e.data
        /\ r.done = e.done
    BY <1>1, <2>1 DEF Receiver
  <2> QED BY <1>1, <1>2, <2>2, <2>4, <2>5, <2>6, <2>7, <2>12
<1>14. CASE c % 2 = 1 /\ c >= 48
  <2> DEFINE i == (c - 48) \div 16
  <2> DEFINE d == [e.data EXCEPT ![i] = Push(e.data[i], b)]
  <2>2. /\ c >= 49 /\ k >= 24 /\ (c + 1) \div 2 = k + 1 /\ i \in 0..(T - 1) /\ i \in 0..30
        /\ k - 24 - 8 * i \in 0..7 /\ (k + 1) - 24 - 8 * i = (k - 24 - 8 * i) + 1
        /\ (c - 1) \div 16 = i + 3 /\ ((c - 1) \div 2) % 8 = k - 24 - 8 * i
        /\ c - 48 < 16 * T
    <3>1. c = 2 * k + 1 /\ (c + 1) \div 2 = k + 1
          /\ (c - 1) \div 16 = k \div 8 /\ ((c - 1) \div 2) % 8 = k % 8
          /\ i = (k \div 8) - 3
          /\ k = 8 * (k \div 8) + (k % 8) /\ k % 8 \in 0..7 /\ k \div 8 \in Nat
      BY <1>14, <1>15
    <3> DEFINE q == k \div 8
    <3> DEFINE u == k % 8
    <3>2. c = 2 * k + 1 /\ k = 8 * q + u /\ u \in 0..7 /\ q \in Nat /\ i = q - 3
          /\ T \in 1..31 /\ c >= 48 /\ c <= 47 + 16 * T /\ k \in Nat
      BY <1>0, <1>3, <1>14, <3>1
    <3> HIDE DEF q, u, i
    <3>3. c >= 49 /\ k >= 24 /\ q >= 3
      BY <3>2
    <3>4. 8 * q <= k /\ k <= 23 + 8 * T
      BY <3>2
    <3>5. i \in 0..(T - 1) /\ i \in 0..30 /\ q = i + 3
      BY <3>2, <3>3, <3>4
    <3>6. k - 24 - 8 * i = u /\ (k + 1) - 24 - 8 * i = u + 1 /\ u + 1 = (k - 24 - 8 * i) + 1
      <4>1. ASSUME NEW a \in Nat, NEW v \in Nat, NEW n, n = 8 * (a + 3) + v
            PROVE  n - 24 - 8 * a = v /\ (n + 1) - 24 - 8 * a = v + 1
        BY <4>1
      <4>2. k = 8 * (i + 3) + u /\ i \in Nat /\ u \in Nat
        BY <3>2, <3>5
      <4>3. k - 24 - 8 * i = u /\ (k + 1) - 24 - 8 * i = u + 1
        BY <4>1, <4>2
      <4> QED BY <4>3
    <3>7. c - 48 < 16 * T
      BY <3>2
    <3> QED BY <3>1, <3>2, <3>3, <3>5, <3>6, <3>7 DEF q, u
  <2>3. e.size = T
    <3>1. k - 16 \in Int /\ k - 16 >= 8
      BY <1>3, <2>2
    <3> QED BY <1>2, <3>1, FirstEnds
  <2>1. r = [p EXCEPT !.lengthOk = TRUE, !.data = d]
    <3>1. r = [p EXCEPT !.lengthOk = TRUE, !.data[(p.count - 48) \div 16] = Push(@, b)]
      <4>1. /\ ~(p.count % 2 = 0) /\ ~(p.count < 16) /\ ~(p.count < 32) /\ ~(p.count < 38)
            /\ ~(p.count < 48) /\ p.count - 48 < 16 * p.size
        <5>1. c \in Nat /\ c % 2 = 1 /\ c >= 48 /\ c - 48 < 16 * T
          BY <1>3, <1>14, <2>2
        <5>2. ~(c % 2 = 0) /\ ~(c < 16) /\ ~(c < 32) /\ ~(c < 38) /\ ~(c < 48)
          BY <5>1
        <5> QED BY <1>1, <2>3, <5>1, <5>2
      <4> QED BY <4>1 DEF Shifted
    <3> QED BY <1>1, <3>1 DEF Receiver
  <2>4. b = Bit(Payload(f)[i + 1], 7 - (k - 24 - 8 * i))
    <3>1. MessageByte(f, i + 3) = Payload(f)[i + 1]
      <4>1. i + 3 \notin {0, 1, 2} /\ (i + 3) - 2 = i + 1
        BY <2>2
      <4> QED BY <4>1 DEF MessageByte
    <3> QED BY <1>6, <1>14, <2>2, <3>1 DEF MessageBit
  <2>5. Payload(f)[i + 1] \in Byte
    <3>1. i + 1 \in 1..T
      BY <1>0, <2>2
    <3> QED BY <3>1, PayloadType DEF T
  <2> DEFINE x(n, j) == First(Payload(f)[j + 1], n - 24 - 8 * j)
  <2>6. Push(x(k, i), b) = x(k + 1, i)
    BY <2>2, <2>4, <2>5, FirstNext
  <2>7. ASSUME NEW j \in 0..(T - 1), j # i PROVE x(k + 1, j) = x(k, j)
    <3>1. k - 24 - 8 * j \in Int /\ (k + 1) - 24 - 8 * j \in Int
      BY <1>0, <1>3, <2>7
    <3>2. \/ k - 24 - 8 * j <= 0 /\ (k + 1) - 24 - 8 * j <= 0
          \/ k - 24 - 8 * j >= 8 /\ (k + 1) - 24 - 8 * j >= 8
      <4>1. j < i \/ j > i
        BY <1>0, <2>2, <2>7
      <4>2. CASE j < i
        <5>1. j + 1 <= i /\ k - 24 - 8 * i >= 0 /\ j \in Int /\ i \in Int
          BY <1>0, <2>2, <4>2
        <5> HIDE DEF i
        <5> QED BY <1>3, <5>1
      <4>3. CASE j > i
        <5>1. j >= i + 1 /\ k - 24 - 8 * i <= 7 /\ j \in Int /\ i \in Int
          BY <1>0, <2>2, <4>3
        <5> HIDE DEF i
        <5> QED BY <1>3, <5>1
      <4> QED BY <4>1, <4>2, <4>3
    <3> QED BY <3>1, <3>2, FirstEnds
  <2> HIDE DEF x
  <2>8. \A n : body(n) = [j \in 0..30 |-> IF j < T THEN x(n, j) ELSE 0]
    BY DEF body, x, T
  <2> HIDE DEF i
  <2>9. d = body(k + 1)
    <3>1. e.data = [j \in 0..30 |-> IF j < T THEN x(k, j) ELSE 0]
      BY <1>2, <2>8
    <3>2. e.data[i] = x(k, i)
      BY <1>0, <2>2, <3>1
    <3>3. d = [e.data EXCEPT ![i] = x(k + 1, i)]
      BY <2>6, <3>2
    <3>4. ASSUME NEW j \in 0..30 PROVE d[j] = IF j < T THEN x(k + 1, j) ELSE 0
      <4>1. CASE j = i
        BY <1>0, <2>2, <3>1, <3>3, <4>1
      <4>2. CASE j # i /\ j < T
        BY <1>0, <2>7, <3>1, <3>3, <4>2
      <4>3. CASE j # i /\ ~(j < T)
        BY <3>1, <3>3, <4>3
      <4> QED BY <4>1, <4>2, <4>3
    <3>5. d = [j \in 0..30 |-> d[j]]
      BY <3>1, <3>3
    <3> HIDE DEF d
    <3> QED BY <2>8, <3>4, <3>5
  <2>10. /\ First(f.receptor, k + 1) = First(f.receptor, k)
         /\ First(f.sender, (k + 1) - 8) = First(f.sender, k - 8)
         /\ First(T, (k + 1) - 16) = First(T, k - 16)
    <3>1. /\ k \in Int /\ k + 1 \in Int /\ (k + 1) - 8 \in Int /\ k - 8 \in Int
          /\ (k + 1) - 16 \in Int /\ k - 16 \in Int
          /\ k >= 8 /\ k + 1 >= 8 /\ (k + 1) - 8 >= 8 /\ k - 8 >= 8
          /\ (k + 1) - 16 >= 8 /\ k - 16 >= 8
      <4>1. k \in Int /\ k >= 24
        BY <1>3, <2>2
      <4> QED BY <4>1
    <3> QED BY <3>1, FirstEnds
  <2>11. upto(k + 1) = upto(k)
    BY <1>3, <2>2 DEF upto
  <2> HIDE DEF d
  <2>12. /\ r.active = e.active /\ r.count = c
        /\ r.data = d /\ r.lengthOk /\ r.receptor = e.receptor /\ r.sender = e.sender /\ r.type = e.type /\ r.size = e.size
        /\ r.done = e.done
    BY <1>1, <2>1 DEF Receiver
  <2> QED BY <1>1, <1>2, <2>2, <2>9, <2>10, <2>11, <2>12
<1> QED BY <1>3, <1>8, <1>9, <1>10, <1>11, <1>12, <1>13, <1>14

\* A half bit of the message is read, and the count does not wrap on the way.
LEMMA CollectingNext ==
    ASSUME NEW f \in Frames, 48 + 16 * Taille(f) < CountMod,
           NEW m \in 0..(46 + 16 * Taille(f)), NEW e, Sound(e), Collecting(e, f, m),
           NEW b \in Level, (m + 1) % 2 = 1 => b = MessageBit(f, m + 1)
    PROVE  Collecting(HalfBit(e, b), f, m + 1) /\ HalfBit(e, b).done = e.done
<1> DEFINE T == Taille(f)
<1> DEFINE w == (2 * e.bits + b) % WordMod
<1> DEFINE c == m + 1
<1> DEFINE p == [e EXCEPT !.bits = w, !.count = c]
<1> DEFINE r == Shifted(p, b)
<1>0. T \in 1..31 /\ T <= MaxSize /\ 48 + 16 * T < CountMod /\ m \in 0..(46 + 16 * T)
  BY FrameParts
<1> HIDE DEF T
<1>1. e \in Receiver /\ e.bits \in Word /\ e.active /\ e.count = m
  BY DEF Sound, Receiver, Collecting
<1>2. w \in Word
  BY <1>1, PushWord
<1>3. c \in Counts /\ (m + 1) % CountMod = c /\ c \in Nat /\ c <= 47 + 16 * T
  <2>1. \A n \in 1..31 : \A i \in 0..(46 + 16 * n) : 48 + 16 * n < CountMod =>
            /\ i + 1 \in 0..(CountMod - 1) /\ (i + 1) % CountMod = i + 1
            /\ i + 1 \in Nat /\ i + 1 <= 47 + 16 * n
    BY CountModAssumption
  <2> QED BY <1>0, <2>1 DEF Counts
<1>4. HalfBit(e, b) = IF BadSize(r) THEN [Forgotten(r) EXCEPT !.count = 0]
                      ELSE IF Whole(r) THEN Completed(r) ELSE r
  <2> DEFINE q == [e EXCEPT !.bits = w]
  <2>1. HalfBit(e, b) = IF q.active THEN Collected(q, b) ELSE Sought(q)
    BY DEF HalfBit
  <2> HIDE DEF w, c
  <2>2. q.active /\ q.count = m /\ [q EXCEPT !.count = c] = p
    BY <1>1 DEF Receiver
  <2> HIDE DEF q, p
  <2>3. [q EXCEPT !.count = (@ + 1) % CountMod] = p
    BY <1>3, <2>2 DEF c
  <2>4. Collected(q, b) = IF BadSize(r) THEN [Forgotten(r) EXCEPT !.count = 0]
                          ELSE IF Whole(r) THEN Completed(r) ELSE r
    BY <2>3 DEF Collected
  <2> QED BY <2>1, <2>2, <2>4
<1>5. p \in Receiver
  <2> HIDE DEF w, c
  <2> QED BY <1>1, <1>2, <1>3 DEF Receiver
<1> HIDE DEF w
<1>6. Collecting(r, f, c) /\ r.done = e.done
  <2>1. Counted(p, e, m + 1)
    BY <1>1 DEF Receiver, Counted
  <2>2. m \in 0..(46 + 16 * Taille(f))
    OBVIOUS
  <2> HIDE DEF p
  <2> QED BY <1>1, <1>5, <2>1, <2>2, CollectingShifted
<1> HIDE DEF r, p
<1>7. r.count = c /\ (r.lengthOk <=> c >= 49) /\ r.size = First(T, ((c + 1) \div 2) - 16)
  BY <1>6 DEF Collecting, T
<1>8. c >= 48 => r.size = T
  <2>1. c >= 48 => ((c + 1) \div 2) - 16 >= 8
    BY <1>3
  <2>2. ((c + 1) \div 2) - 16 \in Int
    BY <1>3
  <2> QED BY <1>7, <2>1, <2>2, FirstEnds
<1> HIDE DEF c
<1>9. ~BadSize(r)
  <2>1. \A n \in 1..31 : n <= MaxSize => n \in 1..MaxSize
    BY MaxSizeAssumption
  <2> QED BY <1>0, <1>7, <1>8, <2>1 DEF BadSize
<1>10. ~Whole(r)
  <2> SUFFICES ASSUME Whole(r) PROVE FALSE
    OBVIOUS
  <2>1. c >= 49 /\ c >= 48 + 16 * r.size
    BY <1>7 DEF Whole
  <2>2. r.size = T
    BY <1>3, <1>8, <2>1
  <2> QED BY <1>0, <1>3, <2>1, <2>2
<1> QED BY <1>4, <1>6, <1>9, <1>10 DEF c

\* After the last one, which only its position counts, the frame is handed over.
LEMMA CollectingLast ==
    ASSUME NEW f \in Frames, 48 + 16 * Taille(f) < CountMod,
           NEW e, Sound(e), Collecting(e, f, 47 + 16 * Taille(f)), NEW b \in Level
    PROVE  LET r == HalfBit(e, b) IN r.done /\ r.frame = f /\ ~r.active
<1> DEFINE T == Taille(f)
<1> DEFINE w == (2 * e.bits + b) % WordMod
<1> DEFINE c == 48 + 16 * T
<1> DEFINE r == [e EXCEPT !.bits = w, !.count = c]
<1>0. /\ T \in 1..31 /\ T <= MaxSize /\ f.data \in Seq(Byte) /\ Len(f.data) = T - 1
      /\ f.type \in 0..7 /\ 48 + 16 * T < CountMod
  BY FrameParts
<1>00. Collecting(e, f, 47 + 16 * T)
  OBVIOUS
<1> HIDE DEF T
<1>1. e \in Receiver /\ e.bits \in Word /\ e.active /\ e.count = 47 + 16 * T
  BY <1>00 DEF Sound, Receiver, Collecting
<1>2. w \in Word
  BY <1>1, PushWord
<1>3. c \in Counts /\ ((47 + 16 * T) + 1) % CountMod = c /\ c \in Nat /\ c % 2 = 0
  <2>1. \A n \in 1..31 : 48 + 16 * n < CountMod =>
            /\ 48 + 16 * n \in 0..(CountMod - 1) /\ ((47 + 16 * n) + 1) % CountMod = 48 + 16 * n
            /\ (48 + 16 * n) % 2 = 0 /\ 48 + 16 * n \in Nat
    BY CountModAssumption
  <2> QED BY <1>0, <2>1 DEF Counts
<1>4. HalfBit(e, b) = IF BadSize(r) THEN [Forgotten(r) EXCEPT !.count = 0]
                      ELSE IF Whole(r) THEN Completed(r) ELSE r
  <2> DEFINE q == [e EXCEPT !.bits = w]
  <2>1. HalfBit(e, b) = IF q.active THEN Collected(q, b) ELSE Sought(q)
    BY DEF HalfBit
  <2> HIDE DEF w, c
  <2>2. q.active /\ q.count = 47 + 16 * T /\ [q EXCEPT !.count = c] = r /\ r.count = c
    BY <1>1 DEF Receiver
  <2> HIDE DEF q, r
  <2>3. [q EXCEPT !.count = (@ + 1) % CountMod] = r
    BY <1>3, <2>2
  <2>4. Shifted(r, b) = r
    BY <1>3, <2>2 DEF Shifted
  <2>5. Collected(q, b) = IF BadSize(r) THEN [Forgotten(r) EXCEPT !.count = 0]
                          ELSE IF Whole(r) THEN Completed(r) ELSE r
    BY <2>3, <2>4 DEF Collected
  <2> QED BY <2>1, <2>2, <2>5
<1>5. /\ r \in Receiver /\ r.count = c /\ r.size = e.size /\ r.lengthOk = e.lengthOk
      /\ r.receptor = e.receptor /\ r.sender = e.sender /\ r.type = e.type
      /\ r.data = e.data
  <2> HIDE DEF w, c
  <2> QED BY <1>1, <1>2, <1>3 DEF Receiver
<1> DEFINE k == ((47 + 16 * T) + 1) \div 2
<1>6. /\ e.lengthOk <=> 47 + 16 * T >= 49
      /\ e.receptor = First(f.receptor, k)
      /\ e.sender = First(f.sender, k - 8)
      /\ e.type = First(f.type * 32 + T, IF k <= 19 THEN k - 16 ELSE 3)
      /\ e.size = First(T, k - 16)
      /\ e.data = [j \in 0..30 |->
                     IF j < T THEN First(Payload(f)[j + 1], k - 24 - 8 * j) ELSE 0]
  BY <1>00 DEF Collecting, T
<1> HIDE DEF r, w
<1>7. k = 24 + 8 * T
  BY <1>0
<1> HIDE DEF k, c
<1>8. /\ k \in Int /\ k - 8 \in Int /\ k - 16 \in Int /\ k >= 8 /\ k - 8 >= 8 /\ k - 16 >= 8
      /\ ~(k <= 19)
  BY <1>0, <1>7
<1>9. e.receptor = f.receptor /\ e.sender = f.sender /\ e.size = T
  BY <1>6, <1>8, FirstEnds
<1>10. e.type = f.type
  BY <1>0, <1>6, <1>8, SizeBits
<1>11. ASSUME NEW j \in 0..(T - 1) PROVE e.data[j] = Payload(f)[j + 1]
  <2>1. j \in 0..30 /\ j < T /\ k - 24 - 8 * j \in Int /\ k - 24 - 8 * j >= 8
    BY <1>0, <1>7
  <2>2. e.data[j] = First(Payload(f)[j + 1], k - 24 - 8 * j)
    BY <1>6, <2>1
  <2> QED BY <2>1, <2>2, FirstEnds
<1>12. e.lengthOk
  <2>1. 47 + 16 * T >= 49
    BY <1>0
  <2> QED BY <1>6, <2>1
<1>13. ~BadSize(r) /\ Whole(r)
  <2>1. \A n \in 1..31 : n <= MaxSize => n \in 1..MaxSize
    BY MaxSizeAssumption
  <2>2. r.size = T /\ r.lengthOk /\ r.count = 48 + 16 * T
    BY <1>5, <1>9, <1>12 DEF c
  <2>3. T \in 1..MaxSize
    BY <1>0, <2>1
  <2>4. r.count >= 48 + 16 * r.size
    BY <1>0, <2>2
  <2> QED BY <2>2, <2>3, <2>4 DEF BadSize, Whole
<1> DEFINE frame == [receptor |-> r.receptor, sender |-> r.sender, type |-> r.type,
                     data |-> [i \in 1..(r.size - 1) |-> r.data[i - 1]]]
<1>14. frame = f
  <2>1. ASSUME NEW i \in 1..(T - 1) PROVE r.data[i - 1] = f.data[i]
    <3>1. i - 1 \in 0..(T - 1) /\ (i - 1) + 1 = i
      BY <1>0
    <3>2. r.data[i - 1] = Payload(f)[i]
      BY <1>5, <1>11, <3>1
    <3> QED BY <3>2, PayloadType DEF T
  <2>2. f.data = [i \in 1..(T - 1) |-> f.data[i]]
    <3> DEFINE d == f.data
    <3>1. d \in Seq(Byte) /\ Len(d) = T - 1
      BY <1>0
    <3> HIDE DEF d
    <3>2. d = [i \in 1..(T - 1) |-> d[i]]
      BY <3>1
    <3> QED BY <3>2 DEF d
  <2>3. [i \in 1..(r.size - 1) |-> r.data[i - 1]] = f.data
    BY <1>5, <1>9, <2>1, <2>2
  <2>4. f = [receptor |-> f.receptor, sender |-> f.sender, type |-> f.type, data |-> f.data]
    BY FrameParts
  <2> QED BY <1>5, <1>9, <1>10, <2>3, <2>4
<1>15. r.data[r.size - 1] = ComputeCrc(frame)
  <2>1. T - 1 \in 0..(T - 1) /\ (T - 1) + 1 = T
    BY <1>0
  <2>2. e.data[T - 1] = Payload(f)[T]
    BY <1>11, <2>1
  <2>3. Payload(f)[T] = ComputeCrc(f)
    BY PayloadType DEF T
  <2> HIDE DEF frame
  <2> QED BY <1>5, <1>9, <1>14, <2>2, <2>3
<1>16. HalfBit(e, b) = [Forgotten(r) EXCEPT !.frame = frame,
                                            !.done = r.data[r.size - 1] = ComputeCrc(frame)]
  BY <1>4, <1>13 DEF Completed
<1> HIDE DEF frame
<1>17. HalfBit(e, b) = [Forgotten(r) EXCEPT !.frame = f, !.done = TRUE]
  BY <1>14, <1>15, <1>16
<1> QED BY <1>5, <1>17, ForgottenType DEF Receiver

\* Outside of a message, nothing is kept of the last one.
Idle(r) == ~r.active => Fresh(r)

\* Idle does not look at the clock.
LEMMA IdleView == ASSUME NEW r \in Receiver PROVE Idle(View(r)) <=> Idle(r)
  BY ViewType DEF Idle, Fresh

\* A receiver that leaves a message forgets it.
LEMMA HalfBitIdle ==
    ASSUME NEW q, Sound(q), Idle(q), NEW b \in Level
    PROVE  Idle(HalfBit(q, b))
<1> DEFINE w == (2 * q.bits + b) % WordMod
<1> DEFINE p == [q EXCEPT !.bits = w]
<1>1. q \in Receiver /\ q.bits \in Word
  BY DEF Sound, Receiver
<1>2. w \in Word
  BY <1>1, PushWord
<1>3. HalfBit(q, b) = IF p.active THEN Collected(p, b) ELSE Sought(p)
  BY DEF HalfBit
<1> HIDE DEF w
<1>4. /\ p \in Receiver /\ p.sum = q.sum /\ p.ramp = q.ramp /\ p.active = q.active
      /\ p.count = q.count /\ p.size = q.size /\ p.lengthOk = q.lengthOk
      /\ p.receptor = q.receptor /\ p.sender = q.sender /\ p.type = q.type /\ p.data = q.data
  BY <1>1, <1>2 DEF Receiver
<1> HIDE DEF p
<1>5. CASE p.active
  <2> DEFINE c == (p.count + 1) % CountMod
  <2> DEFINE u == [p EXCEPT !.count = c]
  <2> DEFINE r == Shifted(u, b)
  <2>1. p.count \in Counts /\ p.count \in Nat
    BY <1>4, CountModAssumption DEF Receiver, Counts
  <2>2. c \in Counts /\ (c = p.count + 1 \/ c = 0)
    BY <2>1, Wrapped
  <2>3. Collected(p, b) = IF BadSize(r) THEN [Forgotten(r) EXCEPT !.count = 0]
                          ELSE IF Whole(r) THEN Completed(r) ELSE r
    BY DEF Collected
  <2> HIDE DEF c
  <2>4. u \in Receiver /\ u.count = c /\ u.size = q.size /\ u.active
    BY <1>4, <1>5, <2>2 DEF Receiver
  <2>5. c >= 49 => q.size \in 1..31
    BY <1>4, <1>5, <2>1, <2>2, MaxSizeAssumption DEF Sound, Within
  <2> HIDE DEF u
  <2>6. r \in Receiver /\ r.active
    BY <2>4, <2>5, ShiftedType
  <2> HIDE DEF r
  <2>7. Idle(Forgotten(r)) /\ Idle(Completed(r)) /\ Idle([Forgotten(r) EXCEPT !.count = 0])
    <3>1. Fresh(Forgotten(r))
      BY <2>6 DEF Fresh, Forgotten, Receiver
    <3>2. Fresh([Forgotten(r) EXCEPT !.count = 0])
      BY <2>6 DEF Fresh, Forgotten, Receiver
    <3>3. Fresh(Completed(r))
      <4>1. ASSUME NEW x, NEW y PROVE Fresh([Forgotten(r) EXCEPT !.frame = x, !.done = y])
        BY <2>6 DEF Fresh, Forgotten, Receiver
      <4> QED BY <4>1 DEF Completed
    <3> QED BY <3>1, <3>2, <3>3 DEF Idle
  <2>8. Idle(r)
    BY <2>6 DEF Idle
  <2> QED BY <1>3, <1>5, <2>3, <2>7, <2>8
<1>6. CASE ~p.active
  <2>1. Fresh(p)
    BY <1>4, <1>6 DEF Idle, Fresh
  <2>2. Idle(p) /\ Idle([p EXCEPT !.active = TRUE, !.count = 0, !.size = 0])
    BY <1>4, <2>1 DEF Idle, Receiver
  <2> QED BY <1>3, <1>6, <2>2 DEF Sought
<1> QED BY <1>5, <1>6

\* So does one call of pll.
LEMMA SampledIdle ==
    ASSUME NEW r, Sound(r), Idle(r), NEW s \in Level
    PROVE  Idle(Sampled(r, s))
<1> DEFINE q == Sampled(r, s)
<1>1. r \in Receiver /\ q \in Receiver /\ Sound(View(r)) /\ Idle(View(r))
  BY SampledSound, ViewSound, IdleView DEF Sound
<1>2. View(q) = View(r) \/ \E b \in Level : View(q) = HalfBit(View(r), b)
  <2>1. Ramp(r, s) < 160 \/ Ramp(r, s) >= 160
    BY RampIs
  <2>2. Decided(r.sum + s) \in Level
    BY DEF Decided, Level
  <2> QED BY <2>1, <2>2, OneSample
<1> HIDE DEF q
<1>3. Idle(View(q))
  BY <1>1, <1>2, HalfBitIdle
<1>4. Idle(q)
  BY <1>1, <1>3, IdleView
<1> QED BY <1>4 DEF q

\* So do several.
LEMMA AfterIdle ==
    ASSUME NEW r, Sound(r), Idle(r), NEW s \in Level, NEW n \in Nat
    PROVE  Idle(After(r, s, n))
<1> DEFINE S == {i \in Nat : Idle(After(r, s, i))}
<1>1. 0 \in S
  BY AfterStep
<1>2. ASSUME NEW i \in Nat, i \in S PROVE i + 1 \in S
  BY <1>2, AfterStep, AfterSound, SampledIdle
<1>3. Nat \subseteq S
  <2> HIDE DEF S
  <2> QED BY <1>1, <1>2, SetInduction
<1> QED BY <1>3

-----------------------------------------------------------------------------
(* Half bits of the AGC sequence and of the start byte.                    *)

\* The receiver looks for a start byte.
Seeking(e) == ~e.active /\ Fresh(e) /\ ~e.done

\* Until it finds one.
LEMMA Sight ==
    ASSUME NEW e, Sound(e), Seeking(e), NEW b \in Level
    PROVE  LET w == (2 * e.bits + b) % WordMod
               r == HalfBit(e, b)
           IN /\ w # StartPattern => Seeking(r) /\ r.bits = w
              /\ w = StartPattern => \A f \in Frames : Collecting(r, f, 0) /\ ~r.done
<1> DEFINE w == (2 * e.bits + b) % WordMod
<1> DEFINE p == [e EXCEPT !.bits = w]
<1>1. e \in Receiver /\ e.bits \in Word /\ ~e.active
  BY DEF Sound, Receiver, Seeking
<1>2. w \in Word
  BY <1>1, PushWord
<1>3. HalfBit(e, b) = IF p.active THEN Collected(p, b) ELSE Sought(p)
  BY DEF HalfBit
<1> HIDE DEF w
<1>4. /\ p \in Receiver /\ ~p.active /\ p.bits = w /\ p.done = e.done
      /\ p.lengthOk = e.lengthOk /\ p.receptor = e.receptor /\ p.sender = e.sender
      /\ p.type = e.type /\ p.data = e.data
  BY <1>1, <1>2 DEF Receiver
<1> HIDE DEF p
<1>5. Seeking(p)
  BY <1>4 DEF Seeking, Fresh
<1>6. ASSUME w # StartPattern
      PROVE  Seeking(HalfBit(e, b)) /\ HalfBit(e, b).bits = w
  BY <1>3, <1>4, <1>5, <1>6 DEF Sought
<1>7. ASSUME w = StartPattern, NEW f \in Frames
      PROVE  Collecting(HalfBit(e, b), f, 0) /\ ~HalfBit(e, b).done
  <2> DEFINE r == [p EXCEPT !.active = TRUE, !.count = 0, !.size = 0]
  <2>1. HalfBit(e, b) = r
    BY <1>3, <1>4, <1>7 DEF Sought
  <2>2. /\ r.active /\ r.count = 0 /\ r.size = 0 /\ r.lengthOk = p.lengthOk
        /\ r.receptor = p.receptor /\ r.sender = p.sender /\ r.type = p.type
        /\ r.data = p.data /\ r.done = p.done
    BY <1>4 DEF Receiver
  <2>3. ~p.lengthOk /\ p.receptor = 0 /\ p.sender = 0 /\ p.type = 0 /\ p.data = NoData /\ ~p.done
    BY <1>5 DEF Seeking, Fresh
  <2>4. (0 + 1) \div 2 = 0
    OBVIOUS
  <2>5. /\ First(f.receptor, 0) = 0 /\ First(f.sender, 0 - 8) = 0
        /\ First(f.type * 32 + Taille(f), IF 0 <= 19 THEN 0 - 16 ELSE 3) = 0
        /\ First(Taille(f), 0 - 16) = 0
    BY DEF First
  <2>6. NoData = [j \in 0..30 |->
           IF j < Taille(f) THEN First(Payload(f)[j + 1], 0 - 24 - 8 * j) ELSE 0]
    <3>1. \A j \in 0..30 : First(Payload(f)[j + 1], 0 - 24 - 8 * j) = 0
      BY FirstEnds
    <3> QED BY <3>1 DEF NoData
  <2> HIDE DEF r
  <2>7. Collecting(r, f, 0) /\ ~r.done
    BY <2>2, <2>3, <2>4, <2>5, <2>6 DEF Collecting
  <2> QED BY <2>1, <2>7
<1> QED BY <1>6, <1>7 DEF w

\* No two 1s follow each other in the last four half bits, as in the AGC sequence,
\* whatever the clock makes of it.
NoPair(w) == w % 4 # 3 /\ (w \div 2) % 4 # 3 /\ (w \div 4) % 4 # 3

InAgc(e, last) == Seeking(e) /\ NoPair(e.bits) /\ (last = 0 => e.bits % 2 = 0)

\* A half bit that keeps the pairs apart completes no start byte.
LEMMA PairWord ==
    ASSUME NEW w \in Word, NoPair(w), NEW b \in Level, b = 1 => w % 2 = 0
    PROVE  LET v == (2 * w + b) % WordMod
           IN v # StartPattern /\ NoPair(v) /\ (b = 0 => v % 2 = 0)
<1> DEFINE v == (2 * w + b) % 65536
<1>1. w \in Nat /\ w <= 65535 /\ b \in 0..1
  BY DEF Word, WordMod, Level
<1>2. v % 16 = (2 * w + b) % 16 /\ v % 32 = (2 * w + b) % 32 /\ v \in Nat
  BY <1>1
<1>3. v # 25945
  <2>1. v = 25945 => v % 32 = 25
    OBVIOUS
  <2>2. (2 * w + b) % 32 = 25 => w % 16 = 12
    BY <1>1
  <2>3. w % 16 = 12 => (w \div 4) % 4 = 3
    BY <1>1
  <2> QED BY <1>2, <2>1, <2>2, <2>3 DEF NoPair
<1> HIDE DEF v
<1>4. v % 4 = (2 * w + b) % 4 /\ (v \div 2) % 4 = w % 4 /\ (v \div 4) % 4 = (w \div 2) % 4
  <2>1. \A x \in Nat : x % 4 = (x % 16) % 4 /\ (x \div 2) % 4 = ((x % 16) \div 2) % 4
                       /\ (x \div 4) % 4 = ((x % 16) \div 4) % 4
    OBVIOUS
  <2>2. 2 * w + b \in Nat
    BY <1>1
  <2>3. v % 4 = (2 * w + b) % 4 /\ (v \div 2) % 4 = ((2 * w + b) \div 2) % 4
        /\ (v \div 4) % 4 = ((2 * w + b) \div 4) % 4
    BY <1>2, <2>1, <2>2
  <2>4. (2 * w + b) \div 2 = w /\ (2 * w + b) \div 4 = w \div 2
    BY <1>1
  <2> QED BY <2>3, <2>4
<1>5. (2 * w + b) % 4 # 3 /\ (b = 0 => (2 * w + b) % 2 = 0)
  BY <1>1
<1>6. v % 2 = (2 * w + b) % 2
  BY <1>1 DEF v
<1>7. NoPair(v)
  BY <1>4, <1>5 DEF NoPair
<1> QED BY <1>3, <1>5, <1>6, <1>7 DEF v, WordMod, StartPattern

\* A half bit of the AGC sequence is not taken for the end of a start byte.
LEMMA AgcNext ==
    ASSUME NEW e, Sound(e), Seeking(e), NoPair(e.bits), NEW b \in Level,
           b = 1 => e.bits % 2 = 0
    PROVE  LET r == HalfBit(e, b) IN
           Sound(r) /\ Seeking(r) /\ NoPair(r.bits) /\ (b = 0 => r.bits % 2 = 0)
<1>1. e.bits \in Word
  BY DEF Sound, Receiver
<1> DEFINE w == (2 * e.bits + b) % WordMod
<1>2. w # StartPattern /\ NoPair(w) /\ (b = 0 => w % 2 = 0)
  BY <1>1, PairWord
<1> QED BY <1>2, Sight, HalfBitSound

\* The receiver with its half bit decided keeps the invariant.
LEMMA DueSound ==
    ASSUME NEW r, Sound(r)
    PROVE  Sound(Due(r)) /\ Sound(View(r))
<1>1. Decided(r.sum) \in Level
  BY DEF Decided, Level
<1> QED BY <1>1, ViewSound, HalfBitSound DEF Due

\* A half bit of the AGC sequence, however it is caught.
LEMMA AgcCaught ==
    ASSUME NEW r, Sound(r), NEW q, NEW s \in Level, r.last \in Level, s # r.last,
           InAgc(Due(r), r.last), Caught(q, r, s)
    PROVE  InAgc(Due(q), s) /\ ~View(q).done
<1> DEFINE e == Due(r)
<1> DEFINE p == HalfBit(e, s)
<1>0. s \in 0..1 /\ r.last = 1 - s /\ 0 \in Level
  BY DEF Level
<1>1. Sound(e) /\ Seeking(e) /\ NoPair(e.bits) /\ (s = 1 => e.bits % 2 = 0)
  BY <1>0, DueSound DEF InAgc
<1>2. e = HalfBit(View(r), 0) => e.bits % 2 = 0
  <2> SUFFICES ASSUME e = HalfBit(View(r), 0) PROVE e.bits % 2 = 0
    OBVIOUS
  <2>1. e.bits = (2 * View(r).bits + 0) % WordMod
    BY <1>0, DueSound, HalfBitSound
  <2>2. View(r).bits \in Nat
    BY DueSound DEF Sound, Receiver, Word
  <2> QED BY <2>1, <2>2 DEF WordMod
<1> HIDE DEF e
<1>3. Sound(p) /\ Seeking(p) /\ NoPair(p.bits) /\ (s = 0 => p.bits % 2 = 0)
  BY <1>1, AgcNext
<1>4. \A d : Sound(d) /\ Seeking(d) /\ NoPair(d.bits) =>
            Seeking(HalfBit(d, 0)) /\ NoPair(HalfBit(d, 0).bits) /\ HalfBit(d, 0).bits % 2 = 0
  BY <1>0, AgcNext
<1> HIDE DEF p
<1>5. \/ Due(q) = e /\ (s = 0 => e = HalfBit(View(r), 0))
      \/ Due(q) = p
      \/ Due(q) = HalfBit(e, 0)
      \/ Due(q) = HalfBit(p, 0)
  BY DEF Caught, e, p
<1>6. InAgc(Due(q), s)
  BY <1>0, <1>1, <1>2, <1>3, <1>4, <1>5 DEF InAgc
<1>7. View(q) = e \/ View(q) = p \/ View(q) = Due(q)
  BY DEF Caught, e, p
<1> QED BY <1>1, <1>3, <1>6, <1>7 DEF Seeking, InAgc

\* rx_bits when the half bits of the AGC sequence and of the start byte that were sent
\* are n in all: the last two or more are known.
Spelt(w, n) ==
    /\ n = 65 => w % 4 = 0 /\ (w \div 2) % 8 # 6
    /\ n = 66 => w % 8 = 1 /\ (w \div 4) % 8 # 6
    /\ n = 67 => w % 16 = 3
    /\ n = 68 => w % 32 = 6
    /\ n = 69 => w % 64 = 12
    /\ n = 70 => w % 128 = 25
    /\ n = 71 => w % 256 = 50
    /\ n = 72 => w % 512 = 101
    /\ n = 73 => w % 1024 = 202
    /\ n = 74 => w % 2048 = 405
    /\ n = 75 => w % 4096 = 810
    /\ n = 76 => w % 8192 = 1621
    /\ n = 77 => w % 16384 = 3243
    /\ n = 78 => w % 32768 = 6486
    /\ n = 79 => w = 12972

\* After the AGC sequence comes the start byte, and the receiver finds it where it is
\* complete, and not before.
LEMMA SpeltFirst ==
    ASSUME NEW w \in Word, NoPair(w), w % 2 = 0
    PROVE  LET v == (2 * w + 0) % WordMod IN v # StartPattern /\ Spelt(v, 65)
<1> DEFINE v == (2 * w + 0) % 65536
<1>1. w \in Nat /\ w <= 65535
  BY DEF Word, WordMod
<1>2. v % 16 = (2 * w) % 16 /\ v \in Nat
  BY <1>1
<1> HIDE DEF v
<1>3. v % 4 = 0 /\ v # 25945
  BY <1>1, <1>2
<1>4. (v \div 2) % 8 = w % 8
  BY <1>1, <1>2
<1>5. w % 8 = 6 => (w \div 2) % 4 = 3
  BY <1>1
<1> QED BY <1>3, <1>4, <1>5 DEF Spelt, NoPair, v, WordMod, StartPattern

\* The next half bit of the start byte: the receiver knows one more, and the start byte is
\* not complete.
LEMMA SpeltNext ==
    ASSUME NEW w \in Word, NEW n \in 65..78, Spelt(w, n), NEW f \in Frames
    PROVE  LET v == (2 * w + HalfBits(f)[n + 1]) % WordMod
           IN v # StartPattern /\ Spelt(v, n + 1)
<1>1. w \in Nat /\ w <= 65535 /\ 0 \in Level /\ 1 \in Level
  BY DEF Word, WordMod, Level
<1>65. CASE n = 65
  <2> DEFINE v == (2 * w + 1) % 65536
  <2>1. n + 1 = 66 /\ HalfBits(f)[n + 1] = 1
    BY <1>65, HalfBitsIs
  <2>2. w % 4 = 0 /\ (w \div 2) % 8 # 6
    BY <1>65 DEF Spelt
  <2>3. v % 8 = 1 /\ v \in Nat
    BY <1>1, <2>2, SMT
  <2>5. v % 64 = 2 * (w % 32) + 1
    BY <1>1, SMT
  <2> HIDE DEF v
  <2>4. v # 25945 /\ (v \div 4) % 8 # 6
    <3>1. (v \div 4) % 8 = (w \div 2) % 8
      BY <1>1, <2>3, <2>5
    <3>2. (25945 \div 4) % 8 = 6
      OBVIOUS
    <3> QED BY <2>2, <3>1, <3>2
  <2> QED BY <2>1, <2>3, <2>4 DEF Spelt, StartPattern, WordMod, v
<1>66. CASE n = 66
  <2> DEFINE v == (2 * w + 1) % 65536
  <2>1. n + 1 = 67 /\ HalfBits(f)[n + 1] = 1
    BY <1>66, HalfBitsIs
  <2>2. w % 8 = 1 /\ (w \div 4) % 8 # 6
    BY <1>66 DEF Spelt
  <2>3. v % 16 = 3 /\ v \in Nat
    BY <1>1, <2>2, SMT
  <2>5. v % 64 = 2 * (w % 32) + 1
    BY <1>1, SMT
  <2> HIDE DEF v
  <2>4. v # 25945
    BY <2>3
  <2> QED BY <2>1, <2>3, <2>4 DEF Spelt, StartPattern, WordMod, v
<1>67. CASE n = 67
  <2> DEFINE v == (2 * w + 0) % 65536
  <2>1. n + 1 = 68 /\ HalfBits(f)[n + 1] = 0
    BY <1>67, HalfBitsIs
  <2>2. w % 16 = 3
    BY <1>67 DEF Spelt
  <2>3. v % 32 = 6 /\ v \in Nat
    BY <1>1, <2>2, SMT
  <2> HIDE DEF v
  <2>4. v # 25945
    BY <2>3
  <2> QED BY <2>1, <2>3, <2>4 DEF Spelt, StartPattern, WordMod, v
<1>68. CASE n = 68
  <2> DEFINE v == (2 * w + 0) % 65536
  <2>1. n + 1 = 69 /\ HalfBits(f)[n + 1] = 0
    BY <1>68, HalfBitsIs
  <2>2. w % 32 = 6
    BY <1>68 DEF Spelt
  <2>3. v % 64 = 12 /\ v \in Nat
    BY <1>1, <2>2, SMT
  <2> HIDE DEF v
  <2>4. v # 25945
    BY <2>3
  <2> QED BY <2>1, <2>3, <2>4 DEF Spelt, StartPattern, WordMod, v
<1>69. CASE n = 69
  <2> DEFINE v == (2 * w + 1) % 65536
  <2>1. n + 1 = 70 /\ HalfBits(f)[n + 1] = 1
    BY <1>69, HalfBitsIs
  <2>2. w % 64 = 12
    BY <1>69 DEF Spelt
  <2>3. v % 128 = 25 /\ v \in Nat
    BY <1>1, <2>2, SMT
  <2> HIDE DEF v
  <2>4. v # 25945
    BY <2>3
  <2> QED BY <2>1, <2>3, <2>4 DEF Spelt, StartPattern, WordMod, v
<1>70. CASE n = 70
  <2> DEFINE v == (2 * w + 0) % 65536
  <2>1. n + 1 = 71 /\ HalfBits(f)[n + 1] = 0
    BY <1>70, HalfBitsIs
  <2>2. w % 128 = 25
    BY <1>70 DEF Spelt
  <2>3. v % 256 = 50 /\ v \in Nat
    BY <1>1, <2>2, SMT
  <2> HIDE DEF v
  <2>4. v # 25945
    BY <2>3
  <2> QED BY <2>1, <2>3, <2>4 DEF Spelt, StartPattern, WordMod, v
<1>71. CASE n = 71
  <2> DEFINE v == (2 * w + 1) % 65536
  <2>1. n + 1 = 72 /\ HalfBits(f)[n + 1] = 1
    BY <1>71, HalfBitsIs
  <2>2. w % 256 = 50
    BY <1>71 DEF Spelt
  <2>3. v % 512 = 101 /\ v \in Nat
    BY <1>1, <2>2, SMT
  <2> HIDE DEF v
  <2>4. v # 25945
    BY <2>3
  <2> QED BY <2>1, <2>3, <2>4 DEF Spelt, StartPattern, WordMod, v
<1>72. CASE n = 72
  <2> DEFINE v == (2 * w + 0) % 65536
  <2>1. n + 1 = 73 /\ HalfBits(f)[n + 1] = 0
    BY <1>72, HalfBitsIs
  <2>2. w % 512 = 101
    BY <1>72 DEF Spelt
  <2>3. v % 1024 = 202 /\ v \in Nat
    BY <1>1, <2>2, SMT
  <2> HIDE DEF v
  <2>4. v # 25945
    BY <2>3
  <2> QED BY <2>1, <2>3, <2>4 DEF Spelt, StartPattern, WordMod, v
<1>73. CASE n = 73
  <2> DEFINE v == (2 * w + 1) % 65536
  <2>1. n + 1 = 74 /\ HalfBits(f)[n + 1] = 1
    BY <1>73, HalfBitsIs
  <2>2. w % 1024 = 202
    BY <1>73 DEF Spelt
  <2>3. v % 2048 = 405 /\ v \in Nat
    BY <1>1, <2>2, SMT
  <2> HIDE DEF v
  <2>4. v # 25945
    BY <2>3
  <2> QED BY <2>1, <2>3, <2>4 DEF Spelt, StartPattern, WordMod, v
<1>74. CASE n = 74
  <2> DEFINE v == (2 * w + 0) % 65536
  <2>1. n + 1 = 75 /\ HalfBits(f)[n + 1] = 0
    BY <1>74, HalfBitsIs
  <2>2. w % 2048 = 405
    BY <1>74 DEF Spelt
  <2>3. v % 4096 = 810 /\ v \in Nat
    BY <1>1, <2>2, SMT
  <2> HIDE DEF v
  <2>4. v # 25945
    BY <2>3
  <2> QED BY <2>1, <2>3, <2>4 DEF Spelt, StartPattern, WordMod, v
<1>75. CASE n = 75
  <2> DEFINE v == (2 * w + 1) % 65536
  <2>1. n + 1 = 76 /\ HalfBits(f)[n + 1] = 1
    BY <1>75, HalfBitsIs
  <2>2. w % 4096 = 810
    BY <1>75 DEF Spelt
  <2>3. v % 8192 = 1621 /\ v \in Nat
    BY <1>1, <2>2, SMT
  <2> HIDE DEF v
  <2>4. v # 25945
    BY <2>3
  <2> QED BY <2>1, <2>3, <2>4 DEF Spelt, StartPattern, WordMod, v
<1>76. CASE n = 76
  <2> DEFINE v == (2 * w + 1) % 65536
  <2>1. n + 1 = 77 /\ HalfBits(f)[n + 1] = 1
    BY <1>76, HalfBitsIs
  <2>2. w % 8192 = 1621
    BY <1>76 DEF Spelt
  <2>3. v % 16384 = 3243 /\ v \in Nat
    BY <1>1, <2>2, SMT
  <2> HIDE DEF v
  <2>4. v # 25945
    BY <2>3
  <2> QED BY <2>1, <2>3, <2>4 DEF Spelt, StartPattern, WordMod, v
<1>77. CASE n = 77
  <2> DEFINE v == (2 * w + 0) % 65536
  <2>1. n + 1 = 78 /\ HalfBits(f)[n + 1] = 0
    BY <1>77, HalfBitsIs
  <2>2. w % 16384 = 3243
    BY <1>77 DEF Spelt
  <2>3. v % 32768 = 6486 /\ v \in Nat
    BY <1>1, <2>2, SMT
  <2> HIDE DEF v
  <2>4. v # 25945
    BY <2>3
  <2> QED BY <2>1, <2>3, <2>4 DEF Spelt, StartPattern, WordMod, v
<1>78. CASE n = 78
  <2> DEFINE v == (2 * w + 0) % 65536
  <2>1. n + 1 = 79 /\ HalfBits(f)[n + 1] = 0
    BY <1>78, HalfBitsIs
  <2>2. w % 32768 = 6486
    BY <1>78 DEF Spelt
  <2>3. v = 12972 /\ v \in Nat
    BY <1>1, <2>2, SMT
  <2> HIDE DEF v
  <2>4. v # 25945
    BY <2>3
  <2> QED BY <2>1, <2>3, <2>4 DEF Spelt, StartPattern, WordMod, v
<1> QED BY <1>65, <1>66, <1>67, <1>68, <1>69, <1>70, <1>71, <1>72, <1>73, <1>74, <1>75, <1>76, <1>77, <1>78

\* The sixteenth half bit completes the start byte.
LEMMA SpeltLast ==
    ASSUME NEW w \in Word, Spelt(w, 79)
    PROVE  (2 * w + 1) % WordMod = StartPattern
  BY DEF Spelt, WordMod, StartPattern

-----------------------------------------------------------------------------
(* Silence, and the end of a message.                                      *)

\* The receiver as listenSignal leaves it before a sample.
Ready(r) == [r EXCEPT !.done = FALSE]

\* setDone(false) clears done and nothing else.
LEMMA ReadyIs ==
    ASSUME NEW r, Sound(r)
    PROVE  /\ Sound(Ready(r)) /\ ~Ready(r).done
           /\ Ready(r).ramp = r.ramp /\ Ready(r).sum = r.sum /\ Ready(r).last = r.last
           /\ Ready(r).bits = r.bits /\ Ready(r).active = r.active
           /\ View(Ready(r)) = [View(r) EXCEPT !.done = FALSE]
           /\ Idle(r) => Idle(Ready(r))
           /\ ~r.done => Ready(r) = r
           /\ \A f, m : Collecting(View(r), f, m) => Collecting(View(Ready(r)), f, m)
<1> DEFINE p == Ready(r)
<1>1. r \in Receiver
  BY DEF Sound
<1>2. /\ p \in Receiver /\ ~p.done /\ p.ramp = r.ramp /\ p.sum = r.sum /\ p.last = r.last
      /\ p.bits = r.bits /\ p.active = r.active /\ p.count = r.count /\ p.size = r.size
      /\ p.lengthOk = r.lengthOk
  BY <1>1 DEF Ready, Receiver
<1>3. p.receptor = r.receptor /\ p.sender = r.sender /\ p.type = r.type /\ p.data = r.data
  BY <1>1 DEF Ready, Receiver
<1>4. View(p) = [View(r) EXCEPT !.done = FALSE]
  BY <1>1 DEF Ready, View, Receiver
<1>5. ~r.done => p = r
  BY <1>1 DEF Ready, Receiver
<1> HIDE DEF p
<1>6. Sound(p)
  BY <1>2 DEF Sound, Within
<1>7. Idle(r) => Idle(p)
  BY <1>2, <1>3 DEF Idle, Fresh
<1>8. \A f, m : Collecting(View(r), f, m) => Collecting(View(p), f, m)
  BY <1>1, <1>2, <1>3, ViewType DEF Collecting
<1> QED BY <1>2, <1>4, <1>5, <1>6, <1>7, <1>8 DEF p

\* After eight samples of silence there is nothing in sample_sum.
LEMMA Silenced ==
    ASSUME NEW r, Sound(r)
    PROVE  LET q == After(r, 0, 8) IN q.last = 0 /\ q.sum = 0
<1> DEFINE q == After(r, 0, 8)
<1> DEFINE a == Ramp(r, 0)
<1>1. 0 \in Level
  BY DEF Level
<1>2. /\ a \in 11..188 /\ r.ramp \in 0..159 /\ r.sum \in 0..14 /\ 11 * r.sum <= r.ramp
      /\ a = r.ramp + 20 \/ a = r.ramp + 11 \/ a = r.ramp + 29
  BY <1>1, RampIs DEF Sound, Level
<1>3. Reached(a, 8) = a + 140
  BY <1>2 DEF Reached
<1>4. AdvancedTo(q, r, 0, 8, a + 140, Since(a, 8))
  BY <1>1, <1>3, AfterAdvanced DEF Advanced
<1> HIDE DEF q, a
<1>5. q.last = 0
  BY <1>4 DEF AdvancedTo
<1>6. CASE a + 140 < 160
  <2>1. r.sum = 0
    BY <1>2, <1>6
  <2> QED BY <1>4, <1>5, <1>6, <2>1 DEF AdvancedTo, q
<1>7. CASE a + 140 >= 160
  BY <1>2, <1>4, <1>5, <1>7 DEF AdvancedTo, q
<1> QED BY <1>2, <1>6, <1>7

\* While there is none, up to eight samples of silence are a half bit 0 or nothing, and
\* eight are one.
LEMMA Silent ==
    ASSUME NEW r, Sound(r), r.last = 0, r.sum = 0, NEW n \in 0..8
    PROVE  LET q == After(r, 0, n)
           IN /\ q.last = 0 /\ q.sum = 0
              /\ View(q) = View(r) \/ View(q) = HalfBit(View(r), 0)
              /\ n = 8 => View(q) = HalfBit(View(r), 0)
<1>0. CASE n = 0
  BY <1>0, AfterStep
<1>00. CASE n # 0
  <2> DEFINE q == After(r, 0, n)
  <2>1. 0 \in Level /\ n \in 1..9
    BY <1>00 DEF Level
  <2>2. Ramp(r, 0) = r.ramp + 20 /\ r.ramp \in 0..159
    BY <2>1, RampIs
  <2>3. Reached(Ramp(r, 0), n) = r.ramp + 20 * n
    BY <2>2 DEF Reached
  <2>4. AdvancedTo(q, r, 0, n, r.ramp + 20 * n, Since(Ramp(r, 0), n))
    BY <2>1, <2>3, AfterAdvanced DEF Advanced
  <2>5. Decided(0) = 0
    BY DEF Decided
  <2> HIDE DEF q
  <2>6. q.last = 0 /\ q.sum = 0
    BY <2>2, <2>4 DEF AdvancedTo
  <2>7. CASE r.ramp + 20 * n < 160
    BY <2>2, <2>4, <2>6, <2>7 DEF AdvancedTo, q
  <2>8. CASE r.ramp + 20 * n >= 160
    BY <2>2, <2>4, <2>5, <2>6, <2>8 DEF AdvancedTo, q
  <2> QED BY <2>2, <2>7, <2>8
<1> QED BY <1>0, <1>00

\* A 0 at the end of rx_bits.
LEMMA ZeroPushed ==
    ASSUME NEW w \in Word
    PROVE  LET v == (2 * w + 0) % WordMod
           IN /\ v % 2 = 0
              /\ w % 2 = 0 => v % 4 = 0
              /\ w % 4 = 0 => v % 8 = 0
              /\ w % 8 = 0 => v % 8 = 0
<1>1. w \in Nat /\ w <= 65535
  BY DEF Word, WordMod
<1> DEFINE v == (2 * w + 0) % 65536
<1>2. v % 2 = 0
  BY <1>1, SMT
<1>3. w % 2 = 0 => v % 4 = 0
  BY <1>1, SMT
<1>4. v % 8 = (2 * w) % 8
  BY <1>1, SMT
<1>5. w % 4 = 0 => v % 8 = 0
  BY <1>1, <1>4, SMT
<1>6. w % 8 = 0 => w % 4 = 0
  BY <1>1, SMT
<1> QED BY <1>2, <1>3, <1>5, <1>6 DEF WordMod

\* What a pause leaves in rx_bits is as the AGC sequence has it.
LEMMA ThreeZeros ==
    ASSUME NEW w \in Word, w % 8 = 0
    PROVE  NoPair(w) /\ w % 2 = 0
<1>1. w \in Nat
  BY DEF Word, WordMod
<1>2. w % 4 = 0 /\ w % 2 = 0
  BY <1>1, SMT
<1>3. (w \div 2) % 4 = 0
  BY <1>1, SMT
<1>4. (w \div 4) % 2 = 0
  BY <1>1, SMT
<1>5. (w \div 4) % 4 # 3
  BY <1>1, <1>4, SMT
<1> QED BY <1>2, <1>3, <1>5 DEF NoPair

\* Where a frame begins after a pause, and the receiver is looking for one.
LEMMA Begun ==
    ASSUME NEW r, Sound(r), Idle(r), r.last = 0, r.sum = 0, ~r.active, r.bits % 8 = 0
    PROVE  Clock(r) /\ InAgc(Due(Ready(r)), 0)
<1> DEFINE p == Ready(r)
<1> DEFINE e == View(p)
<1>1. Sound(p) /\ ~p.done /\ p.sum = 0 /\ p.bits = r.bits /\ ~p.active /\ Idle(p)
  BY ReadyIs
<1> HIDE DEF p
<1>2. p \in Receiver
  BY <1>1 DEF Sound
<1>3. e.bits = r.bits /\ ~e.active /\ ~e.done /\ Sound(e) /\ Idle(e)
  BY <1>1, <1>2, ViewType, ViewSound, IdleView
<1> HIDE DEF e
<1>4. Seeking(e) /\ e.bits \in Word /\ 0 \in Level
  BY <1>3 DEF Seeking, Idle, Sound, Receiver, Level
<1>5. InAgc(e, 0)
  BY <1>3, <1>4, ThreeZeros DEF InAgc
<1>6. InAgc(HalfBit(e, 0), 0)
  BY <1>3, <1>4, <1>5, AgcNext DEF InAgc
<1>7. Due(p) = e \/ Due(p) = HalfBit(e, 0)
  BY <1>1 DEF Due, Decided, e
<1>8. Clock(r)
  <2>1. r.ramp \in 0..159
    BY RampIs DEF Level
  <2> QED BY <2>1 DEF Clock
<1> QED BY <1>5, <1>6, <1>7, <1>8 DEF p

\* r was all but through with f; q is r some samples, and at most as many half bits
\* later.
Handing(q, r, f, i) ==
    /\ Sound(q)
    /\ \/ View(q) = View(r) /\ q.ramp >= r.ramp + 11 * i
       \/ q.done /\ q.frame = f /\ (q.active => q.count <= i)

\* A frame that was handed over stays handed over: the next message is far from its end.
LEMMA HandedKept ==
    ASSUME NEW q, Sound(q), NEW b \in Level, NEW f, NEW i \in 0..8,
           q.done, q.frame = f, q.active => q.count <= i
    PROVE  LET p == HalfBit(q, b) IN
           p.done /\ p.frame = f /\ (p.active => p.count <= i + 1)
<1> DEFINE w == (2 * q.bits + b) % WordMod
<1> DEFINE e == [q EXCEPT !.bits = w]
<1>1. q \in Receiver /\ q.bits \in Word /\ q.count \in Nat
  BY CountModAssumption DEF Sound, Receiver, Counts
<1>2. w \in Word
  BY <1>1, PushWord
<1>3. HalfBit(q, b) = IF e.active THEN Collected(e, b) ELSE Sought(e)
  BY DEF HalfBit
<1> HIDE DEF w
<1>4. /\ e \in Receiver /\ e.done /\ e.frame = f /\ e.active = q.active /\ e.count = q.count
  BY <1>1, <1>2 DEF Receiver
<1> HIDE DEF e
<1>5. CASE ~e.active
  <2>1. HalfBit(q, b) = e \/ HalfBit(q, b) = [e EXCEPT !.active = TRUE, !.count = 0, !.size = 0]
    BY <1>3, <1>5 DEF Sought
  <2> DEFINE z == [e EXCEPT !.active = TRUE, !.count = 0, !.size = 0]
  <2>2. z.done /\ z.frame = f /\ z.count = 0
    BY <1>4 DEF Receiver
  <2> DEFINE p == HalfBit(q, b)
  <2>3. p = e \/ p = z
    BY <2>1
  <2> HIDE DEF z, p
  <2>4. p.done /\ p.frame = f /\ (p.active => p.count <= i + 1)
    BY <1>4, <1>5, <2>2, <2>3
  <2> QED BY <2>4 DEF p
<1>6. CASE e.active
  <2> DEFINE c == (e.count + 1) % CountMod
  <2> DEFINE d == [e EXCEPT !.count = c]
  <2> DEFINE r == Shifted(d, b)
  <2>1. c = e.count + 1
    BY <1>1, <1>4, <1>6, CountModAssumption
  <2>2. c \in 0..9 /\ c <= i + 1 /\ c \in Counts
    BY <1>1, <1>4, <1>6, <2>1, CountModAssumption DEF Counts
  <2>3. HalfBit(q, b) = IF BadSize(r) THEN [Forgotten(r) EXCEPT !.count = 0]
                        ELSE IF Whole(r) THEN Completed(r) ELSE r
    BY <1>3, <1>6 DEF Collected
  <2> HIDE DEF c
  <2>4. d \in Receiver /\ d.count = c /\ d.done /\ d.frame = f
    BY <1>4, <2>2 DEF Receiver
  <2> HIDE DEF d
  <2>5. r = d \/ r = [d EXCEPT !.receptor = Push(d.receptor, b)]
    BY <2>2, <2>4 DEF Shifted
  <2>6. r.count = c /\ r.done /\ r.frame = f
    BY <2>4, <2>5 DEF Receiver
  <2>7. d.size \in Nat
    BY <2>4 DEF Receiver
  <2>8. r.size \in Nat
    BY <2>4, <2>5, <2>7 DEF Receiver
  <2> HIDE DEF r
  <2>9. ~BadSize(r) /\ ~Whole(r)
    BY <2>2, <2>6, <2>8 DEF BadSize, Whole
  <2> QED BY <2>2, <2>3, <2>6, <2>9
<1> QED BY <1>5, <1>6

\* The same for a sample: at its half bit the frame is handed over.
LEMMA HandingNext ==
    ASSUME NEW r, Sound(r), NEW f \in Frames, 48 + 16 * Taille(f) < CountMod,
           Collecting(View(r), f, 47 + 16 * Taille(f)),
           NEW i \in 0..7, NEW q, Handing(q, r, f, i), NEW s \in Level
    PROVE  Handing(Sampled(q, s), r, f, i + 1)
<1> DEFINE p == Sampled(q, s)
<1> DEFINE b == Decided(q.sum + s)
<1>1. Sound(p) /\ Sound(q) /\ Sound(View(q)) /\ q \in Receiver /\ p \in Receiver
  BY SampledSound, ViewSound DEF Handing, Sound
<1>2. b \in Level
  BY DEF Decided, Level
<1>3. /\ q.ramp \in 0..159 /\ r.ramp \in 0..159 /\ Ramp(q, s) \in 11..188
      /\ Ramp(q, s) >= q.ramp + 11
  <2>1. s = q.last \/ (s # q.last /\ q.ramp < 80) \/ (s # q.last /\ q.ramp >= 80)
    BY <1>1, RampIs
  <2> QED BY <1>1, <2>1, RampIs
<1>4. /\ Ramp(q, s) < 160 => View(p) = View(q) /\ p.ramp = Ramp(q, s)
      /\ Ramp(q, s) >= 160 => View(p) = HalfBit(View(q), b)
  BY <1>1, OneSample
<1> HIDE DEF p, b
<1>5. CASE View(q) = View(r) /\ q.ramp >= r.ramp + 11 * i
  <2>1. CASE Ramp(q, s) < 160
    <3>1. View(p) = View(r)
      BY <1>4, <1>5, <2>1
    <3>2. p.ramp >= r.ramp + 11 * (i + 1)
      <4>1. p.ramp >= q.ramp + 11
        BY <1>3, <1>4, <2>1
      <4>2. q.ramp >= r.ramp + 11 * i
        BY <1>5
      <4>3. p.ramp \in Int /\ q.ramp \in Int /\ r.ramp \in Int
        BY <1>3, <1>4, <2>1
      <4> QED BY <4>1, <4>2, <4>3
    <3> QED BY <1>1, <3>1, <3>2 DEF Handing, p
  <2>2. CASE Ramp(q, s) >= 160
    <3>1. View(p).done /\ View(p).frame = f /\ ~View(p).active
      BY <1>1, <1>2, <1>4, <1>5, <2>2, CollectingLast
    <3> QED BY <1>1, <3>1, ViewType DEF Handing, p
  <2> QED BY <1>3, <2>1, <2>2
<1>6. CASE q.done /\ q.frame = f /\ (q.active => q.count <= i)
  <2>1. View(q).done /\ View(q).frame = f /\ (View(q).active => View(q).count <= i)
    BY <1>1, <1>6, ViewType
  <2>2. q.count \in Nat /\ p.count \in Nat
    BY <1>1, CountModAssumption DEF Receiver, Counts
  <2>3. CASE Ramp(q, s) < 160
    <3>1. p.done /\ p.frame = f /\ (p.active => p.count <= i)
      BY <1>1, <1>4, <2>1, <2>3, ViewType
    <3>2. p.active => p.count <= i + 1
      BY <2>2, <3>1
    <3> QED BY <1>1, <3>1, <3>2 DEF Handing, p
  <2>4. CASE Ramp(q, s) >= 160
    <3>1. i \in 0..8
      OBVIOUS
    <3>2. View(p).done /\ View(p).frame = f /\ (View(p).active => View(p).count <= i + 1)
      BY <1>1, <1>2, <1>4, <2>1, <2>4, <3>1, HandedKept
    <3> QED BY <1>1, <3>2, ViewType DEF Handing, p
  <2> QED BY <1>3, <2>3, <2>4
<1> QED BY <1>5, <1>6 DEF Handing

\* The same for several samples.
LEMMA HandingAfter ==
    ASSUME NEW r, Sound(r), NEW f \in Frames, 48 + 16 * Taille(f) < CountMod,
           Collecting(View(r), f, 47 + 16 * Taille(f)),
           NEW i \in 0..8, NEW q, Handing(q, r, f, i), NEW s \in Level,
           NEW n \in Nat, i + n <= 8
    PROVE  Handing(After(q, s, n), r, f, i + n)
<1> DEFINE S == {k \in Nat : i + k <= 8 => Handing(After(q, s, k), r, f, i + k)}
<1>1. 0 \in S
  BY AfterStep
<1>2. ASSUME NEW k \in Nat, k \in S PROVE k + 1 \in S
  <2> SUFFICES ASSUME i + (k + 1) <= 8
               PROVE  Handing(After(q, s, k + 1), r, f, i + (k + 1))
    OBVIOUS
  <2>1. i + k \in 0..7 /\ Handing(After(q, s, k), r, f, i + k) /\ (i + k) + 1 = i + (k + 1)
    BY <1>2
  <2>2. Handing(Sampled(After(q, s, k), s), r, f, (i + k) + 1)
    BY <2>1, HandingNext
  <2> QED BY <2>1, <2>2, AfterStep
<1>3. Nat \subseteq S
  <2> HIDE DEF S
  <2> QED BY <1>1, <1>2, SetInduction
<1> QED BY <1>3

\* The last half bit of a message is decided at the latest by the eight samples that
\* come after it, whatever they are: n of a level, and the others of another.
LEMMA Finishes ==
    ASSUME NEW r, Sound(r), r.ramp >= 80, NEW f \in Frames, 48 + 16 * Taille(f) < CountMod,
           Collecting(View(r), f, 47 + 16 * Taille(f)),
           NEW s \in Level, NEW u \in Level, NEW n \in 0..8
    PROVE  LET q == After(After(r, s, n), u, 8 - n) IN q.done /\ q.frame = f
<1> DEFINE m == After(r, s, n)
<1> DEFINE q == After(m, u, 8 - n)
<1>1. r.ramp \in 0..159
  BY DEF Sound, Receiver, Ramps
<1>2. Handing(r, r, f, 0)
  BY <1>1 DEF Handing
<1>3. Handing(m, r, f, n)
  <2>1. 0 + n = n /\ 0 \in 0..8 /\ n \in Nat /\ 0 + n <= 8
    OBVIOUS
  <2>2. Handing(After(r, s, n), r, f, 0 + n)
    BY <1>2, <2>1, HandingAfter
  <2> QED BY <2>1, <2>2
<1> HIDE DEF m
<1>4. Handing(q, r, f, 8)
  <2>1. n + (8 - n) = 8 /\ 8 - n \in Nat /\ n + (8 - n) <= 8
    OBVIOUS
  <2>2. Handing(After(m, u, 8 - n), r, f, n + (8 - n))
    BY <1>3, <2>1, HandingAfter
  <2> QED BY <2>1, <2>2
<1> HIDE DEF q
<1>5. q.ramp \in 0..159
  BY <1>4 DEF Handing, Sound, Receiver, Ramps
<1>6. ~(q.ramp >= r.ramp + 11 * 8)
  <2>1. r.ramp + 11 * 8 >= 168
    BY <1>1
  <2>2. r.ramp + 11 * 8 \in Int
    BY <1>1
  <2> QED BY <1>5, <2>1, <2>2
<1>7. q.done /\ q.frame = f
  BY <1>4, <1>6 DEF Handing
<1> QED BY <1>7 DEF q, m

-----------------------------------------------------------------------------
(* A half bit of a frame.                                                  *)

\* How near the ramp is when half bit a is next and slip was the last that was short or
\* long: nine nearer for each transition, and one half bit in two is one at least.
Locks(off, a, s) ==
    off <= 8 \/ off + 9 * (((a - 1) \div 2) - (s \div 2)) <= (IF s >= 17 THEN 28 ELSE 79)

\* How far the ramp can be.
LEMMA OffType ==
    ASSUME NEW r, Sound(r)
    PROVE  Off(r) \in 0..79
<1>1. r.ramp \in 0..159
  BY DEF Sound, Receiver, Ramps
<1> QED BY <1>1 DEF Off

\* After the AGC sequence the ramp is in step; where a half bit may be short or long
\* again, it is close, but for the first of the AGC sequence.
LEMMA Locked ==
    ASSUME NEW off \in 0..79, NEW a \in Nat, NEW p \in Nat, p < a, Locks(off, a, p)
    PROVE  /\ a >= 65 => off <= 28
           /\ (p = 0 \/ a - p > 16) /\ a >= 17 => off <= 8
<1> DEFINE x == (a - 1) \div 2
<1> DEFINE y == p \div 2
<1>1. /\ x \in Int /\ y \in Int /\ 2 * x <= a - 1 /\ a - 1 <= 2 * x + 1
      /\ 2 * y <= p /\ p <= 2 * y + 1
  OBVIOUS
<1>2. off <= 8 \/ off + 9 * (x - y) <= (IF p >= 17 THEN 28 ELSE 79)
  BY DEF Locks
<1> HIDE DEF x, y
<1>3. x >= y
  BY <1>1
<1>4. a >= 65 /\ p <= 16 => off <= 8
  <2> SUFFICES ASSUME a >= 65, p <= 16 PROVE off <= 8
    OBVIOUS
  <2>1. x - y >= 24
    BY <1>1
  <2> QED BY <1>1, <1>2, <2>1
<1>5. p >= 17 => off <= 28
  BY <1>1, <1>2, <1>3
<1>6. (p = 0 \/ a - p > 16) /\ a >= 17 => x - y >= 8
  BY <1>1
<1>7. x - y >= 8 => off <= 8
  BY <1>1, <1>2
<1> QED BY <1>4, <1>5, <1>6, <1>7

\* The lock after a half bit of eight samples.
LEMMA LocksNext ==
    ASSUME NEW off \in 0..79, NEW new \in 0..79, NEW a \in Nat \ {0}, NEW p \in Nat, p < a,
           Locks(off, a, p),
           new <= 8 \/ new <= off - 9 \/ (a % 2 = 1 /\ new = off)
    PROVE  Locks(new, a + 1, p)
<1> DEFINE x == (a - 1) \div 2
<1> DEFINE y == p \div 2
<1> DEFINE z == ((a + 1) - 1) \div 2
<1>1. x \in Int /\ y \in Int /\ z \in Int
  OBVIOUS
<1>2. z <= x + 1
  OBVIOUS
<1>3. a % 2 = 1 => z = x
  OBVIOUS
<1>4. off <= 8 \/ off + 9 * (x - y) <= (IF p >= 17 THEN 28 ELSE 79)
  BY DEF Locks
<1> HIDE DEF x, y, z
<1>5. new <= 8 \/ new + 9 * (z - y) <= (IF p >= 17 THEN 28 ELSE 79)
  BY <1>1, <1>2, <1>3, <1>4
<1> QED BY <1>5 DEF Locks, y, z

\* The lock after one that was short or long.
LEMMA LocksAnew ==
    ASSUME NEW new \in 0..79, NEW a \in Nat \ {0}, a >= 17 => new <= 28
    PROVE  Locks(new, a + 1, a)
<1>1. (((a + 1) - 1) \div 2) - (a \div 2) = 0
  OBVIOUS
<1> QED BY <1>1 DEF Locks

\* The lock when a frame begins, wherever the ramp is.
LEMMA LocksFirst ==
    ASSUME NEW off \in 0..79
    PROVE  Locks(off, 1, 0)
<1>1. (1 - 1) \div 2 = 0 /\ 0 \div 2 = 0
  OBVIOUS
<1> QED BY <1>1 DEF Locks

\* Half bit a, of level s, n samples long.
LEMMA Paced ==
    ASSUME NEW r, Sound(r), Clock(r), NEW s \in Level, NEW n \in 7..9,
           NEW a \in Nat \ {0}, NEW p \in Nat, p < a, Locks(Off(r), a, p),
           n = 8 \/ p = 0 \/ a - p > 16,
           a % 2 = 0 \/ a <= 64 => s # r.last,
           NEW q, Sound(q), Advanced(q, r, s, n)
    PROVE  /\ Clock(q) /\ q.last = s
           /\ a >= 65 => Heard(q, r, s)
           /\ a <= 64 => Caught(q, r, s)
           /\ Locks(Off(q), a + 1, IF n = 8 THEN p ELSE a)
<1>1. Off(r) \in 0..79 /\ Off(q) \in 0..79
  BY OffType
<1>2. a >= 65 => Off(r) <= 28
  BY <1>1, Locked
<1>3. n # 8 /\ a >= 17 => Off(r) <= 8
  BY <1>1, Locked
<1>4. CASE n = 8 /\ s # r.last
  <2>1. /\ Off(r) <= 28 => Heard(q, r, s)
        /\ Caught(q, r, s)
        /\ Off(q) <= 8 \/ Off(q) <= Off(r) - 9
    BY <1>4, Turn
  <2>2. Locks(Off(q), a + 1, p)
    BY <1>1, <2>1, LocksNext
  <2> QED BY <1>2, <1>4, <2>1, <2>2 DEF Caught
<1>5. CASE n = 8 /\ s = r.last
  <2>1. a >= 65 /\ a % 2 = 1
    BY <1>5
  <2>2. Heard(q, r, s) /\ Off(q) = Off(r)
    BY <1>2, <1>5, <2>1, Hold
  <2>3. Locks(Off(q), a + 1, p)
    BY <1>1, <2>1, <2>2, LocksNext
  <2> QED BY <1>5, <2>1, <2>2, <2>3 DEF Heard
<1>6. CASE n # 8 /\ s # r.last
  <2>1. n = 7 \/ n = 9
    BY <1>6
  <2>2. Caught(q, r, s) /\ (Off(r) <= 8 => Heard(q, r, s) /\ Off(q) <= 28)
    BY <1>6, <2>1, ShortTurn, LongTurn
  <2>3. a >= 65 => a >= 17
    OBVIOUS
  <2>4. Locks(Off(q), a + 1, a)
    BY <1>1, <1>3, <1>6, <2>2, LocksAnew
  <2> QED BY <1>3, <1>6, <2>2, <2>3, <2>4 DEF Caught
<1>7. CASE n # 8 /\ s = r.last
  <2>1. a >= 65 /\ a >= 17 /\ n \in {7, 9}
    BY <1>7
  <2>2. Heard(q, r, s) /\ Off(q) <= 28
    BY <1>3, <1>7, <2>1, SlipHold
  <2>3. Locks(Off(q), a + 1, a)
    BY <1>1, <2>2, LocksAnew
  <2> QED BY <1>7, <2>1, <2>2, <2>3 DEF Heard
<1> QED BY <1>4, <1>5, <1>6, <1>7

\* What the receiver knows when n half bits of f were sent, and were decided: last is the
\* level of the last one.
Stage(e, f, n, last) ==
    /\ n <= 64 => InAgc(e, last)
    /\ n \in 65..79 => Seeking(e) /\ Spelt(e.bits, n)
    /\ n >= 80 => Collecting(e, f, n - 80) /\ ~e.done

\* The half bits after those of the AGC sequence are decided as they were sent.
LEMMA StageNext ==
    ASSUME NEW f \in Frames, 48 + 16 * Taille(f) < CountMod,
           NEW n \in 64..(126 + 16 * Taille(f)), NEW e, Sound(e),
           Stage(e, f, n, IF n = 64 THEN 0 ELSE 1)
    PROVE  LET b == HalfBits(f)[n + 1]
           IN b \in Level /\ \A l : Stage(HalfBit(e, b), f, n + 1, l)
<1> DEFINE T == Taille(f)
<1> DEFINE h == HalfBits(f)
<1> DEFINE r == HalfBit(e, h[n + 1])
<1> DEFINE w == (2 * e.bits + h[n + 1]) % WordMod
<1>0. T \in 1..31 /\ n \in 64..(126 + 16 * T)
  BY FrameParts
<1>01. \A i \in 1..(128 + 16 * Taille(f)) : HalfBits(f)[i] \in Level
  BY HalfBitsIs
<1>02. HalfBits(f)[65] = 0 /\ HalfBits(f)[80] = 1
  BY HalfBitsIs
<1>03. \A i \in 81..(128 + 16 * Taille(f)) : i % 2 = 1 =>
          HalfBits(f)[i] = Bit(MessageByte(f, (i - 81) \div 16), 7 - (((i - 81) \div 2) % 8))
  BY HalfBitsIs
<1>00. /\ \A i \in 1..(128 + 16 * T) : h[i] \in Level
       /\ h[65] = 0 /\ h[80] = 1
       /\ \A i \in 81..(128 + 16 * T) : i % 2 = 1 =>
             h[i] = Bit(MessageByte(f, (i - 81) \div 16), 7 - (((i - 81) \div 2) % 8))
  BY <1>01, <1>02, <1>03
<1>1. e.bits \in Word
  BY DEF Sound, Receiver
<1> DEFINE b == h[n + 1]
<1>2. b \in Level
  <2> HIDE DEF T, h
  <2> QED BY <1>0, <1>00 DEF b
<1>3. CASE n = 64
  <2>1. Seeking(e) /\ NoPair(e.bits) /\ e.bits % 2 = 0
    BY <1>3 DEF Stage, InAgc
  <2>2. b = 0 /\ n + 1 = 65
    BY <1>3, <1>00
  <2>3. w # StartPattern /\ Spelt(w, 65)
    BY <1>1, <2>1, <2>2, SpeltFirst
  <2>4. Seeking(r) /\ r.bits = w
    BY <1>2, <2>1, <2>3, Sight
  <2> QED BY <1>2, <2>2, <2>3, <2>4 DEF Stage
<1>4. CASE n \in 65..78
  <2>1. Seeking(e) /\ Spelt(e.bits, n)
    BY <1>4 DEF Stage
  <2>2. w # StartPattern /\ Spelt(w, n + 1)
    BY <1>1, <1>4, <2>1, SpeltNext
  <2>3. Seeking(r) /\ r.bits = w
    BY <1>2, <2>1, <2>2, Sight
  <2>4. n + 1 \in 65..79
    BY <1>4
  <2> HIDE DEF r, w
  <2>5. \A l : Stage(r, f, n + 1, l)
    BY <2>2, <2>3, <2>4 DEF Stage
  <2> QED BY <1>2, <2>5 DEF r
<1>5. CASE n = 79
  <2>1. Seeking(e) /\ Spelt(e.bits, 79)
    BY <1>5 DEF Stage
  <2>2. b = 1 /\ n + 1 = 80
    BY <1>5, <1>00
  <2>3. w = StartPattern
    BY <1>1, <2>1, <2>2, SpeltLast
  <2>4. Collecting(r, f, 0) /\ ~r.done
    BY <1>2, <2>1, <2>3, Sight
  <2> HIDE DEF r, w
  <2>5. \A l : Stage(r, f, n + 1, l)
    BY <2>2, <2>4 DEF Stage
  <2> QED BY <1>2, <2>5 DEF r
<1>6. CASE n >= 80
  <2> DEFINE m == n - 80
  <2>1. Collecting(e, f, m) /\ ~e.done
    BY <1>0, <1>6 DEF Stage
  <2>2. m \in 0..(46 + 16 * T) /\ m + 1 = (n + 1) - 80
    BY <1>0, <1>6
  <2>3. (m + 1) % 2 = 1 => b = MessageBit(f, m + 1)
    <3> SUFFICES ASSUME (m + 1) % 2 = 1 PROVE b = MessageBit(f, m + 1)
      OBVIOUS
    <3> DEFINE i == n + 1
    <3>1. i \in 81..(128 + 16 * T) /\ i % 2 = 1 /\ i - 81 = (m + 1) - 1
      BY <1>0, <1>6
    <3>2. h[i] = Bit(MessageByte(f, (i - 81) \div 16), 7 - (((i - 81) \div 2) % 8))
      <4> HIDE DEF T, h, i
      <4> QED BY <1>00, <3>1
    <3> HIDE DEF h
    <3> QED BY <3>1, <3>2 DEF MessageBit
  <2> HIDE DEF m, b
  <2>4. Collecting(HalfBit(e, b), f, m + 1) /\ HalfBit(e, b).done = e.done
    <3>1. m \in 0..(46 + 16 * Taille(f))
      BY <2>2
    <3> QED BY <1>2, <2>1, <2>3, <3>1, CollectingNext
  <2>5. n + 1 >= 80 /\ ~(n + 1 <= 64) /\ n + 1 \notin 65..79
    BY <1>0, <1>6
  <2>6. \A l : Stage(HalfBit(e, b), f, n + 1, l)
    BY <2>1, <2>2, <2>4, <2>5 DEF Stage
  <2> QED BY <1>2, <2>6 DEF b
<1> QED BY <1>0, <1>3, <1>4, <1>5, <1>6

-----------------------------------------------------------------------------
(* A frame, half bit after half bit.                                       *)

\* The receiver when half bit a of f is next, and half bit p was short or long last.
Receiving(r, f, a, p) ==
    /\ Clock(r)
    /\ Locks(Off(r), a, p)
    /\ r.last = (IF a = 1 THEN 0 ELSE HalfBits(f)[a - 1])
    /\ Stage(Due(Ready(r)), f, a - 1, r.last)

\* The receiver has f, or will within the next eight samples.
Over(r, f) == r.ramp >= 80 /\ Collecting(View(r), f, 47 + 16 * Taille(f))

\* A half bit of a frame, of seven to nine samples, leaves the receiver in step; after the
\* last one it has the frame, or is about to.
LEMMA Received ==
    ASSUME NEW f \in Frames, 48 + 16 * Taille(f) < CountMod, NEW r, Sound(r),
           NEW a \in Nat \ {0}, a <= Len(HalfBits(f)), NEW p \in Nat, p < a,
           Receiving(r, f, a, p), NEW n \in 7..9, n = 8 \/ p = 0 \/ a - p > 16
    PROVE  LET q == After(Ready(r), HalfBits(f)[a], n)
           IN /\ a < Len(HalfBits(f)) =>
                    ~q.done /\ Receiving(q, f, a + 1, IF n = 8 THEN p ELSE a)
              /\ a = Len(HalfBits(f)) =>
                    (q.done /\ q.frame = f) \/ (~q.done /\ Over(q, f))
<1> DEFINE T == Taille(f)
<1> DEFINE x == Ready(r)
<1> DEFINE s == HalfBits(f)[a]
<1> DEFINE q == After(x, s, n)
<1> DEFINE e == Due(x)
<1> DEFINE L == Len(HalfBits(f))
<1>0. T \in 1..31 /\ L = 128 + 16 * T
  BY FrameParts, HalfBitsIs
<1>1. a \in 1..(128 + 16 * Taille(f))
  BY <1>0
<1>01. \A i \in 1..(128 + 16 * Taille(f)) :
          i % 2 = 0 => HalfBits(f)[i] = 1 - HalfBits(f)[i - 1]
  BY HalfBitsIs
<1>02. \A i \in 1..64 : HalfBits(f)[i] = i % 2
  BY HalfBitsIs
<1>2. s \in Level
  BY <1>1, HalfBitsIs
<1>3. Sound(x) /\ ~x.done /\ x.ramp = r.ramp /\ x.sum = r.sum /\ x.last = r.last
  BY ReadyIs
<1>4. r.last = (IF a = 1 THEN 0 ELSE HalfBits(f)[a - 1])
  BY DEF Receiving
<1>5. a % 2 = 0 \/ a <= 64 => s # x.last
  <2>1. ASSUME a % 2 = 0 PROVE s # x.last
    <3>1. s = 1 - HalfBits(f)[a - 1] /\ a # 1
      BY <1>1, <1>01, <2>1
    <3>2. a - 1 \in 1..(128 + 16 * Taille(f))
      <4>1. a # 1
        BY <3>1
      <4> DEFINE N == 128 + 16 * T
      <4>2. a \in 1..N /\ N \in Int
        BY <1>0, <1>1
      <4> HIDE DEF s, T, N
      <4>3. a - 1 \in 1..N
        BY <4>1, <4>2
      <4> QED BY <4>3 DEF N, T
    <3>3. HalfBits(f)[a - 1] \in Level
      BY <3>2, HalfBitsIs
    <3> QED BY <1>3, <1>4, <3>1, <3>3 DEF Level
  <2>2. ASSUME a <= 64 PROVE s # x.last
    <3>1. s = a % 2
      <4>1. a \in 1..64
        BY <2>2
      <4>2. HalfBits(f)[a] = a % 2
        BY <1>02, <4>1
      <4> QED BY <4>2
    <3>2. CASE a = 1
      BY <1>3, <1>4, <3>1, <3>2
    <3>3. CASE a # 1
      <4>1. a - 1 \in 1..64
        BY <2>2, <3>3
      <4>2. HalfBits(f)[a - 1] = (a - 1) % 2
        BY <4>1, HalfBitsIs
      <4>3. (a - 1) % 2 # a % 2
        OBVIOUS
      <4> QED BY <1>3, <1>4, <3>1, <3>3, <4>2, <4>3
    <3> QED BY <3>2, <3>3
  <2> QED BY <2>1, <2>2
<1>6. Clock(x) /\ Off(x) = Off(r) /\ Locks(Off(x), a, p) /\ Stage(e, f, a - 1, x.last)
  BY <1>3 DEF Receiving, Clock, Off
<1>7. Sound(e) /\ Sound(q)
  <2>1. n \in Nat
    OBVIOUS
  <2> QED BY <1>2, <1>3, <2>1, DueSound, AfterSound
<1>8. Advanced(q, x, s, n)
  BY <1>2, <1>3, AfterAdvanced
<1> HIDE DEF x, q
<1>9. /\ Clock(q) /\ q.last = s
      /\ a >= 65 => Heard(q, x, s)
      /\ a <= 64 => Caught(q, x, s)
      /\ Locks(Off(q), a + 1, IF n = 8 THEN p ELSE a)
  BY <1>2, <1>3, <1>5, <1>6, <1>7, <1>8, Paced
<1>10. q \in Receiver /\ Sound(View(q))
  BY <1>7, ViewSound DEF Sound
<1>11. View(q).done = q.done /\ View(q).frame = q.frame
  BY <1>10, ViewType
<1>12. ASSUME ~q.done, Stage(Due(q), f, a, s)
       PROVE  Receiving(q, f, a + 1, IF n = 8 THEN p ELSE a)
  <2>1. Ready(q) = q
    BY <1>7, <1>12, ReadyIs
  <2>2. (a + 1) - 1 = a /\ a + 1 # 1
    OBVIOUS
  <2>3. q.last = (IF a + 1 = 1 THEN 0 ELSE HalfBits(f)[(a + 1) - 1])
    BY <1>9, <2>2
  <2> QED BY <1>9, <1>12, <2>1, <2>2, <2>3 DEF Receiving
<1>13. CASE a <= 64
  <2>1. x.last \in Level /\ s # x.last
    BY <1>3, <1>5, <1>13 DEF Sound, Receiver
  <2>2. InAgc(e, x.last) /\ Caught(q, x, s)
    BY <1>6, <1>9, <1>13 DEF Stage
  <2>3. InAgc(Due(q), s) /\ ~View(q).done
    BY <1>2, <1>3, <2>1, <2>2, AgcCaught
  <2>4. Stage(Due(q), f, a, s)
    BY <1>13, <2>3 DEF Stage
  <2>5. a < L
    <3> HIDE DEF T, L
    <3> QED BY <1>0, <1>13
  <2> QED BY <1>11, <1>12, <2>3, <2>4, <2>5 DEF q, x
<1>14. CASE a >= 65
  <2>1. /\ Due(q) = HalfBit(e, s)
        /\ View(q) = e \/ View(q) = Due(q)
    BY <1>9, <1>14 DEF Heard
  <2>2. CASE a < L
    <3> DEFINE m == a - 1
    <3>1. m \in 64..(126 + 16 * Taille(f)) /\ m + 1 = a
      <4>1. m \in 64..(126 + 16 * T) /\ m + 1 = a
        <5> HIDE DEF T, L
        <5> QED BY <1>0, <1>14, <2>2
      <4> QED BY <4>1
    <3>2. m = 64 => x.last = 0
      <4> SUFFICES ASSUME a = 65 PROVE x.last = 0
        OBVIOUS
      <4>1. HalfBits(f)[64] = 64 % 2
        BY HalfBitsIs
      <4> QED BY <1>3, <1>4, <4>1
    <3>3. Stage(e, f, m, IF m = 64 THEN 0 ELSE 1)
      <4>1. Stage(e, f, m, x.last)
        BY <1>6
      <4>2. m # 64 => ~(m <= 64)
        BY <3>1
      <4> QED BY <3>2, <4>1, <4>2 DEF Stage
    <3> HIDE DEF m
    <3>4. s = HalfBits(f)[m + 1]
      BY <3>1
    <3>5. \A l : Stage(HalfBit(e, s), f, m + 1, l)
      BY <1>7, <3>1, <3>3, <3>4, StageNext
    <3>6. ~e.done
      BY <3>1, <3>3 DEF Stage, InAgc, Seeking
    <3>7. Stage(Due(q), f, a, s)
      BY <2>1, <3>1, <3>5
    <3>8. ~Due(q).done
      <4>1. a \in 65..79 \/ a >= 80
        BY <1>14
      <4> QED BY <3>7, <4>1 DEF Stage, Seeking
    <3>9. ~q.done
      BY <1>11, <2>1, <3>6, <3>8
    <3> QED BY <1>12, <2>2, <3>7, <3>9 DEF q, x
  <2>3. CASE a = L
    <3>1. a - 1 >= 80 /\ (a - 1) - 80 = 47 + 16 * T
      <4> HIDE DEF T, L
      <4> QED BY <1>0, <2>3
    <3>2. Collecting(e, f, 47 + 16 * T) /\ ~e.done
      BY <1>6, <3>1 DEF Stage
    <3>3. Due(q).done /\ Due(q).frame = f
      BY <1>2, <1>7, <2>1, <3>2, CollectingLast
    <3>4. CASE View(q) = Due(q)
      BY <1>11, <2>3, <3>3, <3>4 DEF q, x
    <3>5. CASE View(q) = e /\ View(q) # Due(q)
      <4>1. q.ramp >= 80
        <5>1. q.ramp \in 0..159
          BY <1>7 DEF Sound, Receiver, Ramps
        <5> HIDE DEF e
        <5>2. q.ramp < 80 => Due(q) = View(q)
          BY DEF Due
        <5>3. ~(q.ramp < 80)
          BY <3>5, <5>2
        <5>4. \A i \in 0..159 : i < 80 \/ i >= 80
          OBVIOUS
        <5> QED BY <5>1, <5>3, <5>4
      <4>2. ~q.done /\ Over(q, f)
        BY <1>11, <3>2, <3>5, <4>1 DEF Over
      <4> QED BY <2>3, <4>2 DEF q, x
    <3> QED BY <2>1, <3>4, <3>5
  <2> QED BY <1>0, <2>2, <2>3
<1> QED BY <1>13, <1>14

-----------------------------------------------------------------------------
(* Nodes that send.                                                        *)

\* What a step of a node starts from.
AirType ==
    /\ sent \in Seq(Frames) /\ at \in Nat /\ slip \in Nat /\ quiet \in 0..Pause
    /\ at = 0 => slip = 0
    /\ at # 0 => sent # <<>> /\ slip < at /\ quiet = 0 /\ at <= Len(HalfBits(Air))

\* What silence has left of the half bits before it.
Quiet ==
    /\ quiet > 0 => rx.last = 0 /\ rx.sum = 0
    /\ quiet >= 2 => rx.bits % 2 = 0
    /\ quiet >= 3 => rx.bits % 4 = 0
    /\ quiet >= 4 => rx.bits % 8 = 0

AirInv == Sound(rx) /\ Idle(rx) /\ AirType /\ Quiet

\* What is on the air is a frame.
LEMMA AirFrame ==
    ASSUME sent \in Seq(Frames), sent # <<>>
    PROVE  Air \in Frames /\ Signal[Air] = HalfBits(Air)
<1>1. Len(sent) \in 1..Len(sent)
  BY EmptySeq, LenProperties
<1>2. Air \in Frames
  BY <1>1, ElementOfSeq DEF Air
<1> QED BY <1>2 DEF Signal

\* The receiver as it starts.
LEMMA InitSound == Init => Sound(rx) /\ Idle(rx)
<1> SUFFICES ASSUME Init
             PROVE  Sound(rx) /\ Idle(rx)
  OBVIOUS
<1>1. /\ 0 \in Byte /\ 0 \in Ramps /\ 0 \in Sums /\ 0 \in Level /\ 0 \in Word
      /\ 0 \in Counts /\ 0 \in Nat
  BY CountModAssumption DEF Byte, Ramps, Sums, Level, Word, WordMod, Counts
<1>2. <<>> \in Seq(Byte)
  BY EmptySeq
<1>3. NoFrame \in Frame
  BY <1>1, <1>2 DEF NoFrame, Frame
<1>4. rx \in Receiver
  BY <1>1, <1>3, NoDataType DEF Init, Initial, Receiver
<1>5. /\ ~rx.active /\ rx.sum = 0 /\ rx.ramp = 0 /\ ~rx.lengthOk /\ rx.receptor = 0
      /\ rx.sender = 0 /\ rx.type = 0 /\ rx.data = NoData
  BY DEF Init, Initial
<1> QED BY <1>4, <1>5 DEF Sound, Within, Idle, Fresh

\* The invariant of the air holds when nobody has sent yet.
LEMMA AirStarts == FInit => AirInv
<1> SUFFICES ASSUME FInit
             PROVE  AirInv
  OBVIOUS
<1>1. Sound(rx) /\ Idle(rx)
  BY InitSound DEF FInit
<1>2. AirType
  <2>1. <<>> \in Seq(Frames)
    BY EmptySeq
  <2> QED BY <2>1, PauseAssumption DEF FInit, AirType
<1>3. Quiet
  <2>1. rx.last = 0 /\ rx.sum = 0 /\ rx.bits = 0
    BY DEF FInit, Init, Initial
  <2>2. 0 % 2 = 0 /\ 0 % 4 = 0 /\ 0 % 8 = 0
    OBVIOUS
  <2> QED BY <2>1, <2>2 DEF Quiet
<1> QED BY <1>1, <1>2, <1>3 DEF AirInv

\* listenSignal's setDone(false) keeps the invariant.
LEMMA WaitingIs ==
    ASSUME Sound(rx), Idle(rx)
    PROVE  Waiting = Ready(rx) /\ Sound(Waiting) /\ Idle(Waiting)
<1>1. Waiting = Ready(rx)
  BY DEF Waiting, Ready
<1> QED BY <1>1, ReadyIs

\* It is kept when a node begins to send,
LEMMA KeyAir ==
    ASSUME AirInv, Key
    PROVE  AirInv'
<1>1. PICK f \in Frames, phase \in IF sent = <<>> THEN 0..7 ELSE {0} :
         /\ at = 0 /\ sent' = Append(sent, f) /\ at' = 1
         /\ rx' = After(Waiting, 0, phase)
         /\ quiet' = 0 /\ slip' = slip
  BY DEF Key
<1>2. Sound(rx') /\ Idle(rx')
  <2>1. 0 \in Level /\ phase \in Nat
    BY DEF Level
  <2> QED BY <1>1, <2>1, WaitingIs, AfterSound, AfterIdle DEF AirInv
<1>3. sent \in Seq(Frames) /\ slip = 0
  BY <1>1 DEF AirInv, AirType
<1>4. /\ Append(sent, f) \in Seq(Frames) /\ Len(Append(sent, f)) = Len(sent) + 1
      /\ Append(sent, f)[Len(sent) + 1] = f /\ Append(sent, f) # <<>>
  BY <1>3, AppendProperties
<1>5. Air' = f /\ 1 <= Len(HalfBits(f))
  <2>1. Air' = f
    BY <1>1, <1>4 DEF Air
  <2>2. Taille(f) \in 1..31 /\ Len(HalfBits(f)) = 128 + 16 * Taille(f)
    BY FrameParts, HalfBitsIs
  <2> DEFINE T == Taille(f)
  <2>3. T \in 1..31 /\ Len(HalfBits(f)) = 128 + 16 * T
    BY <2>2
  <2> HIDE DEF T
  <2> QED BY <2>1, <2>3
<1>6. AirType'
  BY <1>1, <1>3, <1>4, <1>5, PauseAssumption DEF AirType
<1>7. Quiet'
  BY <1>1 DEF Quiet
<1> QED BY <1>2, <1>6, <1>7 DEF AirInv

\* by every half bit,
LEMMA EmitAir ==
    ASSUME AirInv, NEW n \in 7..9, Emit(n)
    PROVE  AirInv'
<1> DEFINE L == Len(HalfBits(Air))
<1>1. /\ at # 0 /\ sent \in Seq(Frames) /\ sent # <<>> /\ quiet = 0 /\ at \in Nat /\ slip \in Nat
      /\ slip < at /\ at <= L /\ Air \in Frames /\ Signal[Air] = HalfBits(Air)
  BY AirFrame DEF AirInv, AirType, Emit
<1>2. /\ rx' = After(Waiting, HalfBits(Air)[at], n)
      /\ at' = IF at = L THEN 0 ELSE at + 1
      /\ slip' = IF at' = 0 THEN 0 ELSE IF n = 8 THEN slip ELSE at
      /\ sent' = sent /\ quiet' = quiet /\ Air' = Air
  BY <1>1 DEF Emit, Listen, Air
<1>3. Taille(Air) \in 1..31 /\ L = 128 + 16 * Taille(Air)
  BY <1>1, FrameParts, HalfBitsIs
<1>4. HalfBits(Air)[at] \in Level
  <2>1. at \in 1..(128 + 16 * Taille(Air))
    <3> HIDE DEF L
    <3> QED BY <1>1, <1>3
  <2> QED BY <1>1, <2>1, HalfBitsIs
<1>5. Sound(rx') /\ Idle(rx')
  <2>1. n \in Nat
    OBVIOUS
  <2> QED BY <1>2, <1>4, <2>1, WaitingIs, AfterSound, AfterIdle DEF AirInv
<1>6. AirType'
  <2>0. L \in Nat
    <3> HIDE DEF L
    <3> QED BY <1>3
  <2>1. Len(HalfBits(Air))' = L
    BY <1>2
  <2> HIDE DEF L
  <2>2. at' \in Nat /\ slip' \in Nat /\ (at' = 0 => slip' = 0)
        /\ (at' # 0 => slip' < at' /\ at' <= L)
    BY <1>1, <1>2, <2>0
  <2>3. quiet' = 0 /\ 0 \in 0..Pause
    BY <1>1, <1>2, PauseAssumption
  <2> QED BY <1>1, <1>2, <2>1, <2>2, <2>3 DEF AirType
<1>7. Quiet'
  BY <1>1, <1>2 DEF Quiet
<1> QED BY <1>5, <1>6, <1>7 DEF AirInv

\* when a transmission breaks off,
LEMMA BreakOffAir ==
    ASSUME AirInv, BreakOff
    PROVE  AirInv'
<1>1. at # 0 /\ at' = 0 /\ slip' = 0 /\ rx' = rx /\ sent' = sent /\ quiet' = quiet
  BY DEF BreakOff
<1>2. AirType'
  BY <1>1 DEF AirType, AirInv
<1>3. Quiet'
  BY <1>1 DEF Quiet, AirInv
<1> QED BY <1>1, <1>2, <1>3 DEF AirInv

\* by silence, which fills rx_bits with zeros,
LEMMA SilenceAir ==
    ASSUME AirInv, Silence
    PROVE  AirInv'
<1> DEFINE r == Ready(rx)
<1>1. /\ at = 0 /\ at' = at /\ sent' = sent /\ slip' = slip
      /\ rx' = After(r, 0, 8)
      /\ quiet' = IF quiet = Pause THEN quiet ELSE quiet + 1
  BY WaitingIs DEF Silence, Listen, AirInv
<1>2. /\ Sound(r) /\ Idle(r) /\ r.last = rx.last /\ r.sum = rx.sum /\ r.bits = rx.bits
  BY ReadyIs DEF AirInv
<1>3. Sound(rx') /\ Idle(rx')
  <2>1. 0 \in Level /\ 8 \in Nat
    BY DEF Level
  <2> QED BY <1>1, <1>2, <2>1, AfterSound, AfterIdle
<1>4. quiet \in 0..Pause /\ Pause \in Nat /\ Pause # 0
  BY PauseAssumption DEF AirInv, AirType
<1>5. AirType'
  <2>1. quiet' \in 0..Pause
    BY <1>1, <1>4
  <2> QED BY <1>1, <2>1 DEF AirType, AirInv
<1>6. rx'.last = 0 /\ rx'.sum = 0
  BY <1>1, <1>2, Silenced
<1> HIDE DEF r
<1>7. ASSUME quiet > 0 PROVE rx'.bits = (2 * rx.bits + 0) % WordMod
  <2>1. r.last = 0 /\ r.sum = 0
    BY <1>2, <1>7 DEF AirInv, Quiet
  <2>2. View(rx') = HalfBit(View(r), 0)
    BY <1>1, <1>2, <2>1, Silent
  <2>3. 0 \in Level /\ r \in Receiver /\ rx' \in Receiver /\ Sound(View(r))
    BY <1>2, <1>3, ViewSound DEF Level, Sound
  <2>4. View(rx').bits = (2 * View(r).bits + 0) % WordMod
    BY <2>2, <2>3, HalfBitSound
  <2> QED BY <1>2, <2>3, <2>4, ViewType
<1>8. Quiet'
  <2>1. /\ quiet' >= 2 => quiet > 0
        /\ quiet' >= 3 => quiet > 0 /\ quiet >= 2
        /\ quiet' >= 4 => quiet > 0 /\ quiet >= 3
    BY <1>1, <1>4
  <2>2. rx.bits \in Word
    BY DEF AirInv, Sound, Receiver
  <2>3. quiet' >= 2 => rx'.bits % 2 = 0
    BY <1>7, <2>1, <2>2, ZeroPushed
  <2>4. quiet' >= 3 => rx'.bits % 4 = 0
    BY <1>7, <2>1, <2>2, ZeroPushed DEF AirInv, Quiet
  <2>5. quiet' >= 4 => rx'.bits % 8 = 0
    BY <1>7, <2>1, <2>2, ZeroPushed DEF AirInv, Quiet
  <2> QED BY <1>6, <2>3, <2>4, <2>5 DEF Quiet
<1> QED BY <1>3, <1>5, <1>8 DEF AirInv

\* by noise,
LEMMA NoiseAir ==
    ASSUME AirInv, Noise
    PROVE  AirInv'
<1>1. PICK n \in 1..7 :
         /\ at = 0 /\ rx' = After(After(Waiting, 1, n), 0, 8 - n)
         /\ quiet' = 0 /\ sent' = sent /\ at' = at /\ slip' = slip
  BY DEF Noise, Listen
<1>2. Sound(rx') /\ Idle(rx')
  <2>1. 0 \in Level /\ 1 \in Level /\ n \in Nat /\ 8 - n \in Nat
    BY DEF Level
  <2>2. Sound(After(Waiting, 1, n)) /\ Idle(After(Waiting, 1, n))
    BY <2>1, WaitingIs, AfterSound, AfterIdle DEF AirInv
  <2> QED BY <1>1, <2>1, <2>2, AfterSound, AfterIdle
<1>3. AirType'
  BY <1>1, PauseAssumption DEF AirType, AirInv
<1>4. Quiet'
  BY <1>1 DEF Quiet
<1> QED BY <1>2, <1>3, <1>4 DEF AirInv

\* and so by every step.
LEMMA AirStep ==
    ASSUME AirInv, [FNext]_vars
    PROVE  AirInv'
<1>1. CASE Key
  BY <1>1, KeyAir
<1>2. CASE Send
  <2>1. Emit(8) /\ 8 \in 7..9
    BY <1>2 DEF Send
  <2> QED BY <2>1, EmitAir
<1>3. CASE Slip
  <2>1. PICK n \in {7, 9} : Emit(n)
    BY <1>3 DEF Slip
  <2>2. n \in 7..9
    OBVIOUS
  <2> QED BY <2>1, <2>2, EmitAir
<1>4. CASE BreakOff
  BY <1>4, BreakOffAir
<1>5. CASE Silence
  BY <1>5, SilenceAir
<1>6. CASE Noise
  BY <1>6, NoiseAir
<1>7. CASE UNCHANGED vars
  <2>1. rx' = rx /\ sent' = sent /\ at' = at /\ slip' = slip /\ quiet' = quiet
    BY <1>7 DEF vars
  <2> QED BY <2>1 DEF AirInv, AirType, Quiet, Air
<1> QED BY <1>1, <1>2, <1>3, <1>4, <1>5, <1>6, <1>7 DEF FNext

\* The invariant of the air holds always.
LEMMA AirAlways == FSpec => []AirInv
<1> QED BY AirStarts, AirStep, PTL DEF FSpec

\* The receiver and the node on the air are in step, if the frame has a chance: from the
\* first half bit to the last one, and then until the frame is handed over.
OnAir ==
    /\ clean /\ at # 0 => got = <<>> /\ Receiving(rx, Air, at, slip)
    /\ clean /\ at = 0 =>
          /\ sent # <<>>
          /\ got = <<Air>> \/ (quiet = 0 /\ got = <<>> /\ Over(rx, Air))

\* After a pause a frame begins in step: the pause is long enough for rx_bits to have
\* forgotten what came before.
LEMMA KeyOnAir ==
    ASSUME Pause >= 4, AirInv, Key
    PROVE  OnAir'
<1>1. PICK f \in Frames, phase \in IF sent = <<>> THEN 0..7 ELSE {0} :
         /\ at = 0 /\ sent' = Append(sent, f) /\ at' = 1
         /\ rx' = After(Waiting, 0, phase)
         /\ clean' = (~rx'.active /\ quiet = Pause)
         /\ got' = <<>> /\ slip' = slip
  BY DEF Key
<1>2. sent \in Seq(Frames) /\ slip = 0
  BY <1>1 DEF AirInv, AirType
<1>3. Append(sent, f)[Len(sent) + 1] = f /\ Len(Append(sent, f)) = Len(sent) + 1
  BY <1>2, AppendProperties
<1>4. Air' = f
  BY <1>1, <1>3 DEF Air
<1>5. ASSUME ~rx'.active, quiet = Pause
      PROVE  Receiving(rx', f, 1, 0)
  <2> DEFINE r == Ready(rx)
  <2>1. rx.last = 0 /\ rx.sum = 0 /\ rx.bits % 8 = 0
    BY <1>5, PauseAssumption DEF AirInv, Quiet
  <2>2. Sound(r) /\ Idle(r) /\ r.last = 0 /\ r.sum = 0 /\ r.bits = rx.bits
    BY <2>1, ReadyIs DEF AirInv
  <2>3. rx' = After(r, 0, phase) /\ phase \in 0..8 /\ phase \in Nat /\ 0 \in Level
    BY <1>1, WaitingIs DEF AirInv, Level
  <2> HIDE DEF r
  <2>4. Sound(rx') /\ Idle(rx')
    BY <2>2, <2>3, AfterSound, AfterIdle
  <2>5. rx'.last = 0 /\ rx'.sum = 0 /\ (View(rx') = View(r) \/ View(rx') = HalfBit(View(r), 0))
    BY <2>2, <2>3, Silent
  <2>6. r \in Receiver /\ rx' \in Receiver /\ Sound(View(r)) /\ r.bits \in Word
    BY <2>2, <2>4, ViewSound DEF Sound, Receiver
  <2>7. rx'.bits = r.bits \/ rx'.bits = (2 * r.bits + 0) % WordMod
    BY <2>3, <2>5, <2>6, ViewType, HalfBitSound
  <2>8. rx'.bits % 8 = 0
    BY <2>1, <2>2, <2>6, <2>7, ZeroPushed
  <2>9. Clock(rx') /\ InAgc(Due(Ready(rx')), 0)
    BY <1>5, <2>4, <2>5, <2>8, Begun
  <2>10. Locks(Off(rx'), 1, 0)
    <3>1. Off(rx') \in 0..79
      BY <2>4, OffType
    <3> QED BY <3>1, LocksFirst
  <2>11. Stage(Due(Ready(rx')), f, 1 - 1, 0)
    BY <2>9 DEF Stage
  <2> QED BY <2>5, <2>9, <2>10, <2>11 DEF Receiving
<1>6. clean' => got' = <<>> /\ Receiving(rx', Air', at', slip')
  BY <1>1, <1>2, <1>4, <1>5
<1>7. at' # 0
  BY <1>1
<1> QED BY <1>6, <1>7 DEF OnAir

\* Every half bit keeps in step, short and long ones too.
LEMMA EmitOnAir ==
    ASSUME CountFits, AirInv, OnAir, NEW n \in 7..9, Emit(n),
           n = 8 \/ slip = 0 \/ at - slip > 16
    PROVE  OnAir'
<1> SUFFICES ASSUME clean
             PROVE  OnAir'
  BY DEF Emit, OnAir
<1> DEFINE L == Len(HalfBits(Air))
<1> DEFINE q == After(Ready(rx), HalfBits(Air)[at], n)
<1>1. /\ at # 0 /\ sent # <<>> /\ quiet = 0 /\ at \in Nat /\ slip \in Nat
      /\ slip < at /\ at <= L /\ Air \in Frames /\ Signal[Air] = HalfBits(Air)
  BY AirFrame DEF AirInv, AirType, Emit
<1>2. Waiting = Ready(rx) /\ Sound(rx)
  BY WaitingIs DEF AirInv
<1>3. /\ rx' = q
      /\ got' = IF q.done /\ got = <<>> THEN <<q.frame>> ELSE got
      /\ at' = IF at = L THEN 0 ELSE at + 1
      /\ slip' = IF at' = 0 THEN 0 ELSE IF n = 8 THEN slip ELSE at
      /\ sent' = sent /\ quiet' = quiet /\ clean' = clean /\ Air' = Air
  BY <1>1, <1>2 DEF Emit, Listen, Air
<1>4. got = <<>> /\ Receiving(rx, Air, at, slip)
  BY <1>1 DEF OnAir
<1>5. 48 + 16 * Taille(Air) < CountMod
  BY <1>1 DEF CountFits
<1>6. /\ at < L => ~q.done /\ Receiving(q, Air, at + 1, IF n = 8 THEN slip ELSE at)
      /\ at = L => (q.done /\ q.frame = Air) \/ (~q.done /\ Over(q, Air))
  BY <1>1, <1>2, <1>4, <1>5, Received
<1>7. L \in Nat
  BY <1>1, FrameParts, HalfBitsIs
<1> HIDE DEF L, q
<1>8. CASE at = L
  <2>1. at' = 0
    BY <1>3, <1>8
  <2>2. got' = <<Air>> \/ (got' = <<>> /\ Over(q, Air))
    BY <1>3, <1>4, <1>6, <1>8
  <2> QED BY <1>1, <1>3, <2>1, <2>2 DEF OnAir
<1>9. CASE at < L
  <2>1. at' = at + 1 /\ at' # 0 /\ slip' = IF n = 8 THEN slip ELSE at
    BY <1>1, <1>3, <1>7, <1>9
  <2>2. got' = <<>> /\ Receiving(q, Air, at', slip')
    BY <1>3, <1>4, <1>6, <1>9, <2>1
  <2> QED BY <1>3, <2>1, <2>2 DEF OnAir
<1> QED BY <1>1, <1>7, <1>8, <1>9

\* Eight samples when nobody sends: what was all but over is.
LEMMA PauseOnAir ==
    ASSUME CountFits, AirInv, OnAir, at = 0, NEW s \in Level, NEW n \in 0..8,
           Listen(After(After(Ready(rx), s, n), 0, 8 - n)),
           sent' = sent, at' = at, clean' = clean
    PROVE  OnAir'
<1> SUFFICES ASSUME clean
             PROVE  OnAir'
  BY DEF OnAir
<1> DEFINE q == After(After(Ready(rx), s, n), 0, 8 - n)
<1>1. Sound(rx) /\ sent \in Seq(Frames)
  BY DEF AirInv, AirType
<1>2. sent # <<>> /\ (got = <<Air>> \/ (got = <<>> /\ Over(rx, Air)))
  BY DEF OnAir
<1>3. Air \in Frames /\ Air' = Air
  BY <1>1, <1>2, AirFrame DEF Air
<1>4. got' = IF q.done /\ got = <<>> THEN <<q.frame>> ELSE got
  BY DEF Listen
<1>5. got = <<>> /\ Over(rx, Air) => q.done /\ q.frame = Air
  <2> SUFFICES ASSUME Over(rx, Air) PROVE q.done /\ q.frame = Air
    OBVIOUS
  <2>1. Sound(Ready(rx)) /\ Ready(rx).ramp = rx.ramp
    BY <1>1, ReadyIs
  <2>2. Collecting(View(Ready(rx)), Air, 47 + 16 * Taille(Air))
    BY <1>1, ReadyIs DEF Over
  <2>3. rx.ramp >= 80 /\ 48 + 16 * Taille(Air) < CountMod /\ 0 \in Level
    BY <1>3 DEF Over, CountFits, Level
  <2> QED BY <1>3, <2>1, <2>2, <2>3, Finishes
<1> HIDE DEF q
<1>6. got' = <<Air>>
  BY <1>2, <1>4, <1>5
<1> QED BY <1>2, <1>3, <1>6 DEF OnAir

\* Every step keeps the receiver in step with the node on the air.
LEMMA OnAirStep ==
    ASSUME CountFits, Pause >= 4, AirInv, OnAir, [FNext]_vars
    PROVE  OnAir'
<1>1. CASE Key
  BY <1>1, KeyOnAir
<1>2. CASE Send
  <2>1. Emit(8) /\ 8 \in 7..9
    BY <1>2 DEF Send
  <2> QED BY <2>1, EmitOnAir
<1>3. CASE Slip
  <2>1. PICK n \in {7, 9} : Emit(n) /\ (slip = 0 \/ at - slip > SlipGap)
    BY <1>3 DEF Slip
  <2>2. n \in 7..9 /\ (slip = 0 \/ at - slip > 16)
    BY <2>1, SlipGapAssumption DEF AirInv, AirType
  <2> QED BY <2>1, <2>2, EmitOnAir
<1>4. CASE BreakOff
  BY <1>4 DEF BreakOff, OnAir
<1>5. CASE Silence
  <2>1. /\ at = 0 /\ Listen(After(Ready(rx), 0, 8))
        /\ sent' = sent /\ at' = at /\ clean' = clean
    BY <1>5, WaitingIs DEF Silence, AirInv
  <2>2. After(Ready(rx), 0, 8) = After(After(Ready(rx), 0, 8), 0, 8 - 8)
    BY AfterStep
  <2>3. 0 \in Level /\ 8 \in 0..8
    BY DEF Level
  <2> QED BY <2>1, <2>2, <2>3, PauseOnAir
<1>6. CASE Noise
  <2>1. PICK n \in 1..7 :
           /\ at = 0 /\ Listen(After(After(Ready(rx), 1, n), 0, 8 - n))
           /\ sent' = sent /\ at' = at /\ clean' = clean
    BY <1>6, WaitingIs DEF Noise, AirInv
  <2>2. 1 \in Level /\ n \in 0..8
    BY DEF Level
  <2> QED BY <2>1, <2>2, PauseOnAir
<1>7. CASE UNCHANGED vars
  <2>1. /\ rx' = rx /\ sent' = sent /\ at' = at /\ slip' = slip /\ quiet' = quiet
        /\ clean' = clean /\ got' = got
    BY <1>7 DEF vars
  <2> QED BY <2>1 DEF OnAir, Air
<1> QED BY <1>1, <1>2, <1>3, <1>4, <1>5, <1>6, <1>7 DEF FNext

-----------------------------------------------------------------------------
(* The theorems.                                                           *)

\* The invariant holds of the receiver in front of any signal.
LEMMA SpecSound == Spec => []Sound(rx)
<1>1. Init => Sound(rx)
  BY InitSound
<1>2. Sound(rx) /\ [Next]_rx => Sound(rx)'
  <2>1. ASSUME Sound(rx), NEW s \in 0..1, rx' = Sampled([rx EXCEPT !.done = FALSE], s)
        PROVE  Sound(rx')
    BY <2>1, ReadyIs, SampledSound DEF Ready, Level
  <2> QED
    BY <2>1 DEF Next, Sound
<1> QED
  BY <1>1, <1>2, PTL DEF Spec

\* The master's and the gateway's receiver never index m_data past its end, and their
\* counters stay within their width, whatever the radio hears.
THEOREM ReceiverBounded == Spec => []Bounded
<1>1. Sound(rx) => Bounded
  BY DEF Sound, Within, Bounded
<1> QED
  BY <1>1, SpecSound, PTL

\* Whatever the radio hears, no message is longer than the longest one.
THEOREM EveryMessageEnds == Spec => []MessageEnds
<1>1. Sound(rx) => MessageEnds
  <2> SUFFICES ASSUME Sound(rx), rx.active
               PROVE  rx.count < 48 + 16 * MaxSize
    BY DEF MessageEnds
  <2>1. rx.count \in Nat
    BY CountModAssumption DEF Sound, Receiver, Counts
  <2> QED
    BY <2>1, MaxSizeAssumption DEF Sound, Within
<1> QED
  BY <1>1, SpecSound, PTL

\* The receiver stays within its bounds whatever the nodes send, and however they
\* break off.
THEOREM AirBounded == FSpec => []Bounded
<1>1. AirInv => Bounded
  BY DEF AirInv, Sound, Within, Bounded
<1> QED BY <1>1, AirAlways, PTL

\* However the nodes send, the receiver leaves every message.
THEOREM AirMessageEnds == FSpec => []MessageEnds
<1>1. AirInv => MessageEnds
  <2> SUFFICES ASSUME AirInv, rx.active
               PROVE  rx.count < 48 + 16 * MaxSize
    BY DEF MessageEnds
  <2>1. Sound(rx) /\ rx.count \in Nat
    BY CountModAssumption DEF AirInv, Sound, Receiver, Counts
  <2> QED BY <2>1, MaxSizeAssumption DEF Sound, Within
<1> QED BY <1>1, AirAlways, PTL

\* Every frame that a node sends after a pause is handed over.
THEOREM FramesDelivered ==
    ASSUME CountFits, Pause >= 4
    PROVE  FSpec => []Delivered
<1>1. FInit => OnAir
  BY DEF FInit, OnAir
<1>2. AirInv /\ OnAir /\ [FNext]_vars => OnAir'
  BY OnAirStep
<1>3. OnAir => Delivered
  BY DEF OnAir, Delivered, Air
<1> QED BY <1>1, <1>2, <1>3, AirAlways, PTL DEF FSpec
=============================================================================
