-------------------------- MODULE ProtocolRFProofs ---------------------------
(***************************************************************************)
(* Proofs about ProtocolRF for any commands, nodes and number of frames    *)
(* heard.                                                                  *)
(***************************************************************************)
EXTENDS ProtocolRF, FiniteSetTheorems, TLAPS

WebPC == {"idle"} \cup Transmitting
ListenPC == {"listen", "ack", "unlock", "check", "next"} \cup Transmitting
Frames == Commands \cup Heard
SendFrame == [of : Frames \cup {NoFrame}, extra : Int]
Airs == [Commands -> Nat]
Hist == [called : SUBSET Commands, heard : 0..MaxUp, acked : Nat, sent : Nat, airs : Airs]

\* Types; a frame that is to be acknowledged was heard, and was not acknowledged yet.
Types ==
    /\ pc \in [Threads -> WebPC \cup ListenPC]
    /\ pc["web"] \in WebPC /\ pc["listen"] \in ListenPC
    /\ then \in {"unlock", "next"}
    /\ sendFrame \in SendFrame
    /\ listACK \in Seq(Entry)
    /\ k \in Nat \ {0}
    /\ hist \in Hist
    /\ newack \in [Threads -> SendFrame]
    /\ ackFor \in Heard \cup {NoFrame}
    /\ hist.acked + (IF pc["listen"] = "ack" THEN 1 ELSE 0) <= hist.heard

\* m_sendframe holds a frame from the first one on, and what a thread copied from it is one.
Filled ==
    /\ pc["web"] # "idle" \/ pc["listen"] \in Transmitting => sendFrame.of \in Frames
    /\ pc["listen"] = "ack" => ackFor \in Heard
    /\ \A t \in Threads : pc[t] = "append" => newack[t].of \in Frames

\* Who owns the mutex, and how many times: the web server's thread once while it
\* transmits; the listening thread once while it handles a frame, and once more while it
\* transmits.
Owned ==
    /\ lock \in [owner : {"web", "listen", Nobody}, depth : Nat]
    /\ lock.owner = "web" <=> pc["web"] = "air"
    /\ lock.owner = "web" => lock.depth = 1
    /\ lock.owner = "listen" <=> Handling \/ pc["listen"] = "air"
    /\ lock.owner = "listen" =>
         lock.depth = IF Handling /\ pc["listen"] = "air" THEN 2 ELSE 1
    /\ lock.owner = Nobody => lock.depth = 0

\* In checkACK's loop transmit returns into the loop, not into listenSignal.
Returns == pc["listen"] = "next" => then = "next"

IInv == Types /\ Filled /\ Owned /\ Returns

-----------------------------------------------------------------------------
(* Sequences and smallest elements.                                        *)

\* The pairs of a number and a larger one.
LessThan == {pair \in Nat \X Nat : pair[1] < pair[2]}

LEMMA LessThanPairs == \A x, y \in Nat : x < y => <<x, y>> \in LessThan
  BY DEF LessThan

\* A set of numbers that is not empty has a smallest element.
LEMMA MinIsIn ==
    ASSUME NEW S, S \subseteq Nat, S # {}
    PROVE  Min(S) \in S /\ \A y \in S : Min(S) <= y
<1>1. IsWellFoundedOn(LessThan, Nat)
  BY NatLessThanWellFounded DEF OpToRel, LessThan
<1>2. PICK x \in S : \A y \in S : ~(<<y, x>> \in LessThan)
  BY <1>1, WFMin
<1>3. \A y \in S : x <= y
  <2> SUFFICES ASSUME NEW y \in S
               PROVE  x <= y
    OBVIOUS
  <2>1. x \in Nat /\ y \in Nat
    OBVIOUS
  <2>2. ~(y < x)
    BY <1>2, <2>1, LessThanPairs
  <2> QED
    BY <2>1, <2>2
<1> QED
  BY <1>3 DEF Min

\* Removing an element leaves a sequence of the same elements.
LEMMA RemoveAtType ==
    ASSUME NEW T, NEW s \in Seq(T), NEW n \in 1..Len(s)
    PROVE  RemoveAt(s, n) \in Seq(T)
  BY DEF RemoveAt

\* The entry the iterator stops at is one of the list's, at or after it.
LEMMA LateEntry ==
    ASSUME Types, LateFrom(k) # {}
    PROVE  LET n == Min(LateFrom(k)) IN
           n \in 1..Len(listACK) /\ n >= k /\ listACK[n] \in Entry
<1> DEFINE n == Min(LateFrom(k))
<1>1. k \in Nat /\ k >= 1 /\ Len(listACK) \in Nat
  BY DEF Types
<1>2. LateFrom(k) \subseteq Nat /\ \A m \in LateFrom(k) : m \in k..Len(listACK)
  BY <1>1 DEF LateFrom
<1>3. n \in LateFrom(k)
  BY <1>2, MinIsIn
<1> HIDE DEF n
<1>4. n \in 1..Len(listACK) /\ n >= k
  BY <1>1, <1>2, <1>3
<1>5. listACK[n] \in Entry
  BY <1>4 DEF Types
<1> QED
  BY <1>4, <1>5 DEF n

\* What an ACK erases leaves a list of entries.
LEMMA ErasedType ==
    ASSUME Types, NEW node
    PROVE  Erased(node) \in Seq(Entry)
<1> DEFINE Matches == {j \in 1..Len(listACK) : Receptor(listACK[j].frame.of) = node}
<1>1. listACK \in Seq(Entry)
  BY DEF Types
<1>2. CASE Matches = {}
  BY <1>1, <1>2 DEF Erased, RemoveFirstMatch
<1>3. CASE Matches # {}
  <2>1. Matches \subseteq Nat
    OBVIOUS
  <2>2. Min(Matches) \in 1..Len(listACK)
    BY <1>3, <2>1, MinIsIn
  <2>3. Erased(node) = RemoveAt(listACK, Min(Matches))
    BY <1>3 DEF Erased, RemoveFirstMatch, SelectInSeq
  <2> QED
    BY <1>1, <2>2, <2>3, RemoveAtType
<1> QED
  BY <1>2, <1>3

-----------------------------------------------------------------------------
(* Types, action by action.                                                *)

\* A thread that goes from one place to another leaves pc as it is for the other one.
LEMMA GotoType ==
    ASSUME Types, NEW t \in Threads, NEW l, Goto(t, l),
           l \in (IF t = "web" THEN WebPC ELSE ListenPC)
    PROVE  /\ pc' \in [Threads -> WebPC \cup ListenPC]
           /\ pc'["web"] \in WebPC /\ pc'["listen"] \in ListenPC
           /\ pc'[t] = l
           /\ \A u \in Threads \ {t} : pc'[u] = pc[u]
  BY DEF Types, Goto, Threads

\* The types hold at the start.
LEMMA InitTypes == Init => Types
  BY MaxUpAssumption DEF Init, Types, Threads, WebPC, ListenPC, Transmitting, SendFrame, Hist,
     Airs, Unset

\* SendMsg only fills m_sendframe.
LEMMA SendMsgTypes ==
    ASSUME Types, NEW c \in Commands, SendMsg(c)
    PROVE  Types'
<1>1. /\ pc' \in [Threads -> WebPC \cup ListenPC]
      /\ pc'["web"] \in WebPC /\ pc'["listen"] = pc["listen"]
      /\ pc'["listen"] \in ListenPC
  BY GotoType DEF SendMsg, Threads, WebPC, Transmitting
<1>2. sendFrame' \in SendFrame
  BY DEF SendMsg, SendFrame, Frames
<1>3. hist' \in Hist /\ hist'.acked = hist.acked /\ hist'.heard = hist.heard
  BY DEF SendMsg, Types, Hist
<1> QED
  BY <1>1, <1>2, <1>3 DEF SendMsg, Types

\* What transmit pushes is an entry: the copy it made of a frame.
PushedEntry(t) == [frame |-> newack[t], count |-> 0, late |-> FALSE]

LEMMA PushedType ==
    ASSUME Types, Filled, NEW t \in Threads, PushBack(t)
    PROVE  PushedEntry(t) \in Entry
<1>1. newack[t] \in SendFrame /\ newack[t].of \in Frames
  BY DEF Types, Filled, PushBack
<1> QED
  BY <1>1 DEF SendFrame, Frames, Entry, PushedEntry

\* transmit leaves the types what they are, and what it pushes is an entry.
LEMMA TransmitTypes ==
    ASSUME Types, Filled, NEW t \in Threads, Transmit(t)
    PROVE  Types'
<1>0. Threads = {"web", "listen"} /\ sendFrame \in SendFrame /\ hist \in Hist
  BY DEF Threads, Types
<1>1. CASE Size(t)
  <2>1. Goto(t, "bits") /\ "bits" \in WebPC \cap ListenPC
    BY <1>1 DEF Size, WebPC, ListenPC, Transmitting
  <2>2. sendFrame' \in SendFrame
    BY <1>0, <1>1 DEF Size, SendFrame
  <2> QED
    BY <1>0, <1>1, <2>1, <2>2, GotoType DEF Size, Types
<1>2. CASE Bits(t)
  <2>1. PICK l \in WebPC \cap ListenPC : Goto(t, l) /\ l \in {"lock", "push"}
    BY <1>2 DEF Bits, WebPC, ListenPC, Transmitting
  <2> QED
    BY <1>0, <1>2, <2>1, GotoType DEF Bits, Types
<1>3. CASE Push(t)
  <2>1. PICK l \in WebPC \cap ListenPC : Goto(t, l) /\ l \in {"copy", "lock"}
    BY <1>3 DEF Push, WebPC, ListenPC, Transmitting
  <2> QED
    BY <1>0, <1>3, <2>1, GotoType DEF Push, Types
<1>6. CASE Copy(t)
  <2>1. Goto(t, "append") /\ "append" \in WebPC \cap ListenPC
    BY <1>6 DEF Copy, WebPC, ListenPC, Transmitting
  <2>2. newack' \in [Threads -> SendFrame]
    BY <1>0, <1>6 DEF Copy, Types
  <2> QED
    BY <1>0, <1>6, <2>1, <2>2, GotoType DEF Copy, Types
<1>7. CASE PushBack(t)
  <2>1. Goto(t, "lock") /\ "lock" \in WebPC \cap ListenPC
    BY <1>7 DEF PushBack, WebPC, ListenPC, Transmitting
  <2>2. PushedEntry(t) \in Entry
    BY <1>7, PushedType
  <2>3. listACK' \in Seq(Entry)
    BY <1>7, <2>2 DEF PushBack, PushedEntry, Types
  <2>4. newack' \in [Threads -> SendFrame]
    BY <1>0, <1>7 DEF PushBack, Types, SendFrame, Unset
  <2> QED
    BY <1>0, <1>7, <2>1, <2>3, <2>4, GotoType DEF PushBack, Types
<1>4. CASE Air(t)
  <2>1. Goto(t, "air") /\ "air" \in WebPC \cap ListenPC
    BY <1>4 DEF Air, WebPC, ListenPC, Transmitting
  <2> QED
    BY <1>0, <1>4, <2>1, GotoType DEF Air, Types
<1>5. CASE AirEnd(t)
  <2>1. PICK l \in (IF t = "web" THEN WebPC ELSE ListenPC) :
          Goto(t, l) /\ l \in {"idle", "unlock", "next"}
    BY <1>5 DEF AirEnd, WebPC, ListenPC, Transmitting, Types
  <2> DEFINE airs == [c \in Commands |->
                        hist.airs[c] + (IF keyed = frameBits /\ keyed.of = c THEN 1 ELSE 0)]
  <2>2. airs \in Airs
    BY <1>0 DEF Hist, Airs
  <2> DEFINE sent == hist.sent + 1
  <2>3. sent \in Nat /\ hist' = [hist EXCEPT !.sent = sent, !.airs = airs]
    BY <1>0, <1>5 DEF AirEnd, Hist
  <2> HIDE DEF airs, sent
  <2>4. hist' \in Hist /\ hist'.acked = hist.acked /\ hist'.heard = hist.heard
    BY <1>0, <2>2, <2>3 DEF Hist
  <2> QED
    BY <1>0, <1>5, <2>1, <2>4, GotoType DEF AirEnd, Types
<1> QED
  BY <1>1, <1>2, <1>3, <1>4, <1>5, <1>6, <1>7 DEF Transmit

\* The listening thread outside of transmit.
LEMMA ListenTypes ==
    ASSUME Types, Filled, Listen
    PROVE  Types'
<1>0. /\ "listen" \in Threads /\ sendFrame \in SendFrame /\ hist \in Hist
      /\ {"listen", "ack", "unlock", "check", "next", "size"} \subseteq ListenPC
  BY DEF Threads, Types, ListenPC, Transmitting
<1>1. CASE HearNothing
  BY <1>0, <1>1, GotoType DEF HearNothing, Types
<1>2. CASE Hear
  <2>1. PICK type \in RfTypes, node \in Nodes :
          /\ listACK' = IF type = "ACK" THEN Erased(node) ELSE listACK
          /\ ackFor' = IF type = "ETAT_ACK" THEN [n |-> hist.heard + 1, node |-> node]
                       ELSE ackFor
          /\ Goto("listen", IF type = "ETAT_ACK" THEN "ack" ELSE "unlock")
    BY <1>2 DEF Hear
  <2>2. listACK' \in Seq(Entry)
    BY <2>1, ErasedType DEF Types
  <2>3. hist' \in Hist /\ hist'.heard = hist.heard + 1 /\ hist'.acked = hist.acked
    BY <1>0, <1>2, MaxUpAssumption DEF Hear, Hist
  <2>4. ackFor' \in Heard \cup {NoFrame}
    <3>1. hist.heard + 1 \in 1..MaxUp
      BY <1>0, <1>2, MaxUpAssumption DEF Hear, Hist
    <3>2. [n |-> hist.heard + 1, node |-> node] \in Heard
      BY <3>1 DEF Heard
    <3> QED
      BY <2>1, <3>2 DEF Types
  <2>5. /\ pc' \in [Threads -> WebPC \cup ListenPC]
        /\ pc'["web"] \in WebPC /\ pc'["listen"] \in ListenPC
    BY <1>0, <2>1, GotoType
  <2>6. hist'.acked + (IF pc'["listen"] = "ack" THEN 1 ELSE 0) <= hist'.heard
    BY <1>0, <1>2, <2>3 DEF Hear, Types, Hist
  <2> QED
    BY <1>2, <2>2, <2>3, <2>4, <2>5, <2>6 DEF Hear, Types
<1>3. CASE DataToFrame
  <2>1. sendFrame' \in SendFrame /\ then' = "unlock"
        /\ ackFor' \in Heard \cup {NoFrame}
    BY <1>3 DEF DataToFrame, SendFrame, Frames, Types
  <2>2. hist' \in Hist /\ hist'.heard = hist.heard /\ hist'.acked = hist.acked + 1
    BY <1>0, <1>3 DEF DataToFrame, Hist
  <2>3. /\ pc' \in [Threads -> WebPC \cup ListenPC] /\ pc'["listen"] = "size"
        /\ pc'["web"] \in WebPC /\ pc'["listen"] \in ListenPC
    BY <1>0, <1>3, GotoType DEF DataToFrame
  <2>4. hist'.acked + (IF pc'["listen"] = "ack" THEN 1 ELSE 0) <= hist'.heard
    BY <1>0, <1>3, <2>2, <2>3 DEF DataToFrame, Types, Hist
  <2> QED
    BY <1>3, <2>1, <2>2, <2>3, <2>4 DEF DataToFrame, Types
<1>4. CASE Unlock
  BY <1>0, <1>4, GotoType DEF Unlock, Types
<1>5. CASE CheckACK
  <2>1. PICK late \in SUBSET DOMAIN listACK :
          listACK' = [j \in DOMAIN listACK |-> [listACK[j] EXCEPT !.late = j \in late]]
    BY <1>5 DEF CheckACK
  <2>2. \A j \in DOMAIN listACK : [listACK[j] EXCEPT !.late = j \in late] \in Entry
    <3> SUFFICES ASSUME NEW j \in DOMAIN listACK
                 PROVE  [listACK[j] EXCEPT !.late = j \in late] \in Entry
      OBVIOUS
    <3>1. listACK[j] \in Entry
      BY DEF Types
    <3> DEFINE b == j \in late
    <3>2. b \in BOOLEAN
      OBVIOUS
    <3> HIDE DEF b
    <3>3. [listACK[j] EXCEPT !.late = b] \in Entry
      BY <3>1, <3>2 DEF Entry
    <3> QED
      BY <3>3 DEF b
  <2>3. DOMAIN listACK = 1..Len(listACK) /\ Len(listACK) \in Nat
    BY DEF Types
  <2>4. listACK' \in Seq(Entry)
    BY <2>1, <2>2, <2>3
  <2> QED
    BY <1>0, <1>5, <2>4, GotoType DEF CheckACK, Types
<1>6. CASE CheckDone
  BY <1>0, <1>6, GotoType DEF CheckDone, Types
<1>7. CASE Retry
  <2> DEFINE n == Min(LateFrom(k))
  <2>1. n \in 1..Len(listACK) /\ listACK[n] \in Entry /\ listACK[n].count < 2
    BY <1>7, LateEntry DEF Retry
  <2>2. /\ sendFrame' = [listACK[n].frame EXCEPT !.extra = @ - 1]
        /\ listACK' = [listACK EXCEPT ![n].count = @ + 1, ![n].late = FALSE]
        /\ k' = n + 1 /\ Goto("listen", "size")
    BY <1>7 DEF Retry
  <2> HIDE DEF n
  <2>3. sendFrame' \in SendFrame
    BY <2>1, <2>2 DEF Entry, SendFrame, Frames
  <2> DEFINE c == listACK[n].count + 1
  <2> DEFINE e == [listACK[n] EXCEPT !.count = c, !.late = FALSE]
  <2>3a. c \in 0..2
    BY <2>1 DEF Entry
  <2>5. listACK' = [listACK EXCEPT ![n] = e]
    BY <2>1, <2>2 DEF Types, Entry
  <2> HIDE DEF c
  <2>4. e \in Entry
    BY <2>1, <2>3a DEF Entry
  <2> HIDE DEF e
  <2>6. listACK' \in Seq(Entry)
    BY <2>1, <2>4, <2>5 DEF Types
  <2>7. k' \in Nat \ {0}
    BY <2>1, <2>2
  <2> QED
    BY <1>0, <1>7, <2>2, <2>3, <2>6, <2>7, GotoType DEF Retry, Types
<1>8. CASE GiveUp
  <2> DEFINE n == Min(LateFrom(k))
  <2>1. n \in 1..Len(listACK)
    BY <1>8, LateEntry DEF GiveUp
  <2>2. listACK' = RemoveAt(listACK, n) /\ k' = IF n = Len(listACK) THEN 1 ELSE n + 1
    BY <1>8 DEF GiveUp
  <2> HIDE DEF n
  <2>3. listACK' \in Seq(Entry) /\ k' \in Nat \ {0}
    BY <2>1, <2>2, RemoveAtType DEF Types
  <2> QED
    BY <1>8, <2>3 DEF GiveUp, Types
<1> QED
  BY <1>1, <1>2, <1>3, <1>4, <1>5, <1>6, <1>7, <1>8 DEF Listen

-----------------------------------------------------------------------------
(* The mutex, action by action.                                            *)

\* A step that leaves the mutex alone, neither begins nor ends a transmission and
\* neither begins nor ends the handling of a frame, leaves its owner what it was.
LEMMA OwnedKept ==
    ASSUME Owned, lock' = lock, Handling' <=> Handling,
           pc'["web"] = "air" <=> pc["web"] = "air",
           pc'["listen"] = "air" <=> pc["listen"] = "air"
    PROVE  Owned'
  BY DEF Owned

\* What the two operations of the mutex do.
LEMMA LockOps ==
    ASSUME Owned, NEW t \in Threads
    PROVE  /\ Locked(t) \in [owner : {"web", "listen", Nobody}, depth : Nat]
           /\ Locked(t).owner = t /\ Locked(t).depth = lock.depth + 1
           /\ lock.depth >= 1 =>
                /\ Unlocked \in [owner : {"web", "listen", Nobody}, depth : Nat]
                /\ Unlocked.owner = IF lock.depth = 1 THEN Nobody ELSE lock.owner
                /\ Unlocked.depth = lock.depth - 1
  BY DEF Owned, Locked, Unlocked, Threads

\* transmit takes the mutex once and gives it back once, in either thread.
LEMMA TransmitOwned ==
    ASSUME Types, Owned, NEW t \in Threads, Transmit(t)
    PROVE  Owned'
<1>0. /\ Threads = {"web", "listen"} /\ pc \in [Threads -> WebPC \cup ListenPC]
      /\ then \in {"unlock", "next"}
  BY DEF Threads, Types
<1>1. CASE Size(t) \/ Bits(t) \/ Push(t) \/ Copy(t) \/ PushBack(t)
  <2>1. lock' = lock /\ then' = then /\ pc[t] \in {"size", "bits", "push", "copy", "append"}
    BY <1>1 DEF Size, Bits, Push, Copy, PushBack
  <2>2. PICK l \in {"bits", "push", "copy", "append", "lock"} : Goto(t, l)
    BY <1>1 DEF Size, Bits, Push, Copy, PushBack
  <2>3. \A u \in Threads : pc'[u] = IF u = t THEN l ELSE pc[u]
    BY <1>0, <2>2 DEF Goto
  <2>4. Handling' <=> Handling
    BY <1>0, <2>1, <2>3 DEF Handling, Transmitting
  <2> QED
    BY <1>0, <2>1, <2>3, <2>4, OwnedKept
<1>2. CASE Air(t)
  <2>1. /\ pc[t] = "lock" /\ lock.owner \in {Nobody, t}
        /\ lock' = Locked(t) /\ then' = then /\ Goto(t, "air")
    BY <1>2 DEF Air, CanLock
  <2>2. \A u \in Threads : pc'[u] = IF u = t THEN "air" ELSE pc[u]
    BY <1>0, <2>1 DEF Goto
  <2>3. Handling' <=> Handling
    BY <1>0, <2>1, <2>2 DEF Handling, Transmitting
  <2>4. t = "web" => ~Handling /\ pc["listen"] # "air" /\ lock.depth = 0
    BY <2>1, NobodyAssumption DEF Owned
  <2>5. t = "listen" => /\ pc["web"] # "air"
                        /\ lock.depth = IF Handling THEN 1 ELSE 0
    BY <2>1, NobodyAssumption DEF Owned
  <2> QED
    BY <1>0, <2>1, <2>2, <2>3, <2>4, <2>5, LockOps, NobodyAssumption DEF Owned
<1>3. CASE AirEnd(t)
  <2>1. pc[t] = "air" /\ lock' = Unlocked /\ then' = then
    BY <1>3 DEF AirEnd
  <2>2. Goto(t, IF t = "web" THEN "idle" ELSE then)
    BY <1>3 DEF AirEnd
  <2>3. \A u \in Threads :
          pc'[u] = IF u = t THEN IF t = "web" THEN "idle" ELSE then ELSE pc[u]
    BY <1>0, <2>2 DEF Goto
  <2>4. Handling' <=> Handling
    BY <1>0, <2>1, <2>3 DEF Handling, Transmitting
  <2>5. lock.owner = t /\ lock.depth >= 1
    BY <1>0, <2>1 DEF Owned
  <2>6. CASE t = "web"
    BY <1>0, <2>1, <2>3, <2>4, <2>5, <2>6, LockOps, NobodyAssumption DEF Owned
  <2>7. CASE t = "listen"
    BY <1>0, <2>1, <2>3, <2>4, <2>5, <2>7, LockOps, NobodyAssumption DEF Owned
  <2> QED
    BY <1>0, <2>6, <2>7
<1> QED
  BY <1>1, <1>2, <1>3 DEF Transmit

\* The listening thread holds the mutex from the sample that completes a frame until it
\* has notified it, and while it transmits in between.
LEMMA ListenOwned ==
    ASSUME Types, Owned, Returns, Listen
    PROVE  Owned'
<1>0. "listen" \in Threads /\ pc \in [Threads -> WebPC \cup ListenPC] /\ "web" \in Threads
  BY DEF Threads, Types
<1>1. ASSUME NEW l, Goto("listen", l)
      PROVE  pc'["listen"] = l /\ pc'["web"] = pc["web"]
  BY <1>0, <1>1 DEF Goto
<1>2. CASE HearNothing \/ CheckACK \/ CheckDone \/ Retry \/ GiveUp
  <2>1. lock' = lock /\ pc["listen"] \in {"listen", "check", "next"}
    BY <1>2 DEF HearNothing, CheckACK, CheckDone, Retry, GiveUp
  <2>2. /\ pc'["listen"] \in {"listen", "check", "next", "size"}
        /\ pc'["web"] = pc["web"]
        /\ pc'["listen"] = "size" => then' = then /\ pc["listen"] = "next"
    BY <1>1, <1>2, <2>1 DEF HearNothing, CheckACK, CheckDone, Retry, GiveUp
  <2> QED
    BY <2>1, <2>2, OwnedKept DEF Handling, Returns, Transmitting
<1>3. CASE Hear
  <2>1. /\ pc["listen"] = "listen" /\ lock.owner \in {Nobody, "listen"}
        /\ lock' = Locked("listen") /\ then' = then
    BY <1>3 DEF Hear, CanLock
  <2>2. PICK l \in {"ack", "unlock"} : Goto("listen", l)
    BY <1>3 DEF Hear
  <2>3. pc'["listen"] \in {"ack", "unlock"} /\ pc'["web"] = pc["web"]
    BY <1>1, <2>2
  <2>4. Handling' /\ ~Handling
    BY <2>1, <2>3 DEF Handling, Transmitting
  <2>5. lock.depth = 0 /\ pc["web"] # "air"
    BY <2>1, <2>4, NobodyAssumption DEF Owned
  <2> QED
    BY <1>0, <2>1, <2>3, <2>4, <2>5, LockOps, NobodyAssumption DEF Owned
<1>4. CASE DataToFrame
  <2>1. /\ lock' = lock /\ pc["listen"] = "ack" /\ then' = "unlock"
        /\ pc'["listen"] = "size" /\ pc'["web"] = pc["web"]
    BY <1>1, <1>4 DEF DataToFrame
  <2> QED
    BY <2>1, OwnedKept DEF Handling, Transmitting
<1>5. CASE Unlock
  <2>1. /\ lock' = Unlocked /\ pc["listen"] = "unlock" /\ then' = then
        /\ pc'["listen"] = "check" /\ pc'["web"] = pc["web"]
    BY <1>1, <1>5 DEF Unlock
  <2>2. Handling /\ ~Handling'
    BY <2>1 DEF Handling, Transmitting
  <2>3. lock.owner = "listen" /\ lock.depth = 1 /\ pc["web"] # "air"
    BY <2>1, <2>2 DEF Owned
  <2> QED
    BY <2>1, <2>2, <2>3, <1>0, LockOps, NobodyAssumption DEF Owned
<1> QED
  BY <1>2, <1>3, <1>4, <1>5 DEF Listen

\* transmit goes back to where it was called from.
LEMMA ReturnsKept ==
    ASSUME Types, Returns, Next
    PROVE  Returns'
<1>0. pc \in [Threads -> WebPC \cup ListenPC] /\ Threads = {"web", "listen"}
  BY DEF Threads, Types
<1>1. ASSUME NEW t \in Threads, NEW l, Goto(t, l)
      PROVE  pc'["listen"] = IF t = "listen" THEN l ELSE pc["listen"]
  BY <1>0, <1>1 DEF Goto
<1>2. ASSUME NEW c \in Commands, SendMsg(c)
      PROVE  Returns'
  BY <1>0, <1>1, <1>2 DEF SendMsg, Returns
<1>3. CASE Listen
  <2>1. CASE HearNothing \/ CheckDone \/ Unlock
    BY <1>0, <1>1, <2>1 DEF HearNothing, CheckDone, Unlock, Returns
  <2>2. CASE Hear
    <3>1. PICK l \in {"ack", "unlock"} : Goto("listen", l)
      BY <2>2 DEF Hear
    <3> QED
      BY <1>0, <1>1, <3>1 DEF Returns
  <2>3. CASE DataToFrame \/ CheckACK \/ Retry
    BY <1>0, <1>1, <2>3 DEF DataToFrame, CheckACK, Retry, Returns
  <2>4. CASE GiveUp
    BY <2>4 DEF GiveUp, Returns
  <2> QED
    BY <1>3, <2>1, <2>2, <2>3, <2>4 DEF Listen
<1>4. ASSUME NEW t \in Threads, Transmit(t)
      PROVE  Returns'
  <2>1. then' = then
    BY <1>4 DEF Transmit, Size, Bits, Push, Copy, PushBack, Air, AirEnd
  <2>2. PICK l : Goto(t, l) /\ (t = "listen" => l # "next" \/ then = "next")
    <3>1. CASE Size(t) \/ Push(t) \/ Copy(t) \/ PushBack(t) \/ Air(t)
      BY <3>1 DEF Size, Push, Copy, PushBack, Air
    <3>2. CASE Bits(t)
      BY <3>2 DEF Bits
    <3>3. CASE AirEnd(t)
      BY <3>3 DEF AirEnd
    <3> QED
      BY <1>4, <3>1, <3>2, <3>3 DEF Transmit
  <2> QED
    BY <1>0, <1>1, <2>1, <2>2 DEF Returns
<1> QED
  BY <1>2, <1>3, <1>4 DEF Next

\* m_sendframe is filled before transmit is called, and never emptied again.
LEMMA FilledKept ==
    ASSUME Types, Filled, Next
    PROVE  Filled'
<1>0. /\ pc \in [Threads -> WebPC \cup ListenPC] /\ Threads = {"web", "listen"}
      /\ newack \in [Threads -> SendFrame] /\ sendFrame \in SendFrame
  BY DEF Threads, Types
<1>1. ASSUME NEW t \in Threads, NEW l, Goto(t, l)
      PROVE  \A u \in Threads : pc'[u] = IF u = t THEN l ELSE pc[u]
  BY <1>0, <1>1 DEF Goto
<1>2. ASSUME NEW c \in Commands, SendMsg(c)
      PROVE  Filled'
  <2>1. sendFrame'.of \in Frames /\ newack' = newack /\ ackFor' = ackFor
    BY <1>2 DEF SendMsg, Frames
  <2>2. \A u \in Threads : pc'[u] = IF u = "web" THEN "size" ELSE pc[u]
    BY <1>0, <1>1, <1>2 DEF SendMsg
  <2> QED
    BY <1>0, <2>1, <2>2 DEF Filled
<1>3. CASE Listen
  <2>1. CASE HearNothing \/ Unlock \/ CheckDone \/ GiveUp \/ CheckACK
    <3>1. sendFrame' = sendFrame /\ newack' = newack /\ ackFor' = ackFor
      BY <2>1 DEF HearNothing, Unlock, CheckDone, GiveUp, CheckACK
    <3>2. /\ pc'["web"] = pc["web"]
          /\ pc'["listen"] \in {"check", "listen", "next"}
      BY <1>0, <1>1, <2>1 DEF HearNothing, Unlock, CheckDone, GiveUp, CheckACK
    <3> QED
      BY <1>0, <3>1, <3>2 DEF Filled, Transmitting
  <2>2. CASE Hear
    <3>1. PICK type \in RfTypes, node \in Nodes :
            /\ ackFor' = IF type = "ETAT_ACK" THEN [n |-> hist.heard + 1, node |-> node]
                         ELSE ackFor
            /\ Goto("listen", IF type = "ETAT_ACK" THEN "ack" ELSE "unlock")
      BY <2>2 DEF Hear
    <3>2. sendFrame' = sendFrame /\ newack' = newack
      BY <2>2 DEF Hear
    <3>3. hist.heard + 1 \in 1..MaxUp
      BY <2>2, MaxUpAssumption DEF Hear, Types, Hist
    <3>4. [n |-> hist.heard + 1, node |-> node] \in Heard
      BY <3>3 DEF Heard
    <3>5. /\ pc'["web"] = pc["web"]
          /\ pc'["listen"] = IF type = "ETAT_ACK" THEN "ack" ELSE "unlock"
      BY <1>0, <1>1, <3>1
    <3> QED
      BY <1>0, <3>1, <3>2, <3>4, <3>5 DEF Filled, Transmitting
  <2>3. CASE DataToFrame
    <3>1. sendFrame'.of \in Frames /\ newack' = newack
      BY <2>3 DEF DataToFrame, Filled, Frames
    <3>2. pc'["web"] = pc["web"] /\ pc'["listen"] = "size"
      BY <1>0, <1>1, <2>3 DEF DataToFrame
    <3> QED
      BY <1>0, <3>1, <3>2 DEF Filled
  <2>4. CASE Retry
    <3> DEFINE n == Min(LateFrom(k))
    <3>1. listACK[n] \in Entry
      BY <2>4, LateEntry DEF Retry
    <3>2. sendFrame' = [listACK[n].frame EXCEPT !.extra = @ - 1] /\ newack' = newack
      BY <2>4 DEF Retry
    <3> HIDE DEF n
    <3>3. sendFrame'.of \in Frames
      BY <3>1, <3>2 DEF Entry, Frames
    <3>4. pc'["web"] = pc["web"] /\ pc'["listen"] = "size"
      BY <1>0, <1>1, <2>4 DEF Retry
    <3> QED
      BY <1>0, <3>2, <3>3, <3>4 DEF Filled
  <2> QED
    BY <1>3, <2>1, <2>2, <2>3, <2>4 DEF Listen
<1>4. ASSUME NEW t \in Threads, Transmit(t)
      PROVE  Filled'
  <2>1. pc[t] \in Transmitting /\ sendFrame.of \in Frames /\ ackFor' = ackFor
    BY <1>0, <1>4 DEF Transmit, Size, Bits, Push, Copy, PushBack, Air, AirEnd, Transmitting, Filled
  <2>2. sendFrame'.of = sendFrame.of
    BY <1>0, <1>4 DEF Transmit, Size, Bits, Push, Copy, PushBack, Air, AirEnd, SendFrame
  <2>3. PICK l \in Transmitting \cup {"idle", "unlock", "next"} : Goto(t, l)
    BY <1>4 DEF Transmit, Size, Bits, Push, Copy, PushBack, Air, AirEnd, Transmitting, Types
  <2>4. \A u \in Threads : pc'[u] = IF u = t THEN l ELSE pc[u]
    BY <1>1, <2>3
  <2>5. \A u \in Threads : pc'[u] = "append" => newack'[u].of \in Frames
    <3>1. CASE Copy(t)
      BY <1>0, <2>1, <2>4, <3>1 DEF Copy, Filled
    <3>2. CASE PushBack(t)
      <4>1. pc'[t] = "lock"
        BY <1>0, <1>1, <3>2 DEF PushBack
      <4> QED
        BY <1>0, <2>4, <3>2, <4>1 DEF PushBack, Filled
    <3>3. CASE Size(t) \/ Bits(t) \/ Push(t) \/ Air(t) \/ AirEnd(t)
      <4>1. newack' = newack /\ pc'[t] # "append"
        BY <1>0, <1>1, <3>3 DEF Size, Bits, Push, Air, AirEnd, Types
      <4> QED
        BY <2>4, <4>1 DEF Filled
    <3> QED
      BY <1>4, <3>1, <3>2, <3>3 DEF Transmit
  <2>6. pc'["listen"] = "ack" => pc["listen"] = "ack"
    BY <1>0, <2>3, <2>4 DEF Transmitting
  <2> QED
    BY <2>1, <2>2, <2>5, <2>6 DEF Filled
<1> QED
  BY <1>2, <1>3, <1>4 DEF Next

-----------------------------------------------------------------------------
(* The theorems.                                                           *)

\* The inductive invariant holds.
LEMMA InvariantHolds == Spec => []IInv
<1>1. Init => IInv
  BY InitTypes, NobodyAssumption DEF Init, IInv, Owned, Returns, Handling, Threads, Filled,
     Transmitting
<1>2. IInv /\ [Next]_vars => IInv'
  <2> SUFFICES ASSUME Types, Filled, Owned, Returns, [Next]_vars
               PROVE  Types' /\ Filled' /\ Owned' /\ Returns'
    BY DEF IInv
  <2>1. CASE UNCHANGED vars
    BY <2>1 DEF vars, Types, Filled, Owned, Returns, Handling, Transmitting
  <2>2. ASSUME NEW c \in Commands, SendMsg(c)
        PROVE  Types' /\ Owned'
    <3>1. /\ lock' = lock /\ then' = then /\ pc["web"] = "idle" /\ pc'["web"] = "size"
          /\ pc'["listen"] = pc["listen"]
      BY <2>2 DEF SendMsg, Goto, Types, Threads
    <3>2. Handling' <=> Handling
      BY <3>1 DEF Handling, Transmitting
    <3>3. Owned'
      BY <3>1, <3>2, OwnedKept
    <3>4. Types'
      BY <2>2, SendMsgTypes
    <3> QED
      BY <3>3, <3>4
  <2>3. ASSUME Listen
        PROVE  Types' /\ Owned'
    BY <2>3, ListenTypes, ListenOwned
  <2>4. ASSUME NEW t \in Threads, Transmit(t)
        PROVE  Types' /\ Owned'
    BY <2>4, TransmitTypes, TransmitOwned
  <2> QED
    BY <2>1, <2>2, <2>3, <2>4, ReturnsKept, FilledKept DEF Next
<1> QED
  BY <1>1, <1>2, PTL DEF Spec

\* The type invariant, for any commands, nodes and number of frames.
THEOREM TypeCorrect == Spec => []TypeOK
<1>1. Types => TypeOK
  BY DEF Types, TypeOK, WebPC, ListenPC, SendFrame, Frames, Hist
<1> QED
  BY <1>1, InvariantHolds, PTL DEF IInv

\* The recursive mutex does what its comment asks for: nobody reads the radio while
\* something is sent, and nobody sends while a frame is handled.
THEOREM RadioIsExclusive == Spec => []AirExclusive
<1>1. Owned => AirExclusive
  BY DEF Owned, AirExclusive, Threads
<1> QED
  BY <1>1, InvariantHolds, PTL DEF IInv

-----------------------------------------------------------------------------
(* How often the air is used.                                              *)

\* The retries the entries of a list have left, each as a pair of the entry and the
\* count that the retry makes.
Left(list) == {r \in (1..Len(list)) \X (1..2) : r[2] > list[r[1]].count}

\* The transmissions thread t has begun and not made, with the retries of the entry it
\* will push.
Owed(t) ==
    IF pc[t] \in {"push", "copy", "append"} \/ (pc[t] \in {"size", "bits"} /\ ~Retransmit(t)) THEN 3
    ELSE IF pc[t] \in Transmitting THEN 1
    ELSE 0

\* A command sent and an acknowledgement built pay for three transmissions each: those
\* made, those the threads are about to make and the retries left in the list.
Budget ==
    hist.sent + Owed("web") + Owed("listen") + Cardinality(Left(listACK))
        <= 3 * (Cardinality(hist.called) + hist.acked)

\* A list has finitely many retries left.
LEMMA LeftFinite ==
    ASSUME NEW list \in Seq(Entry)
    PROVE  IsFiniteSet(Left(list)) /\ Cardinality(Left(list)) \in Nat
<1>1. IsFiniteSet(1..Len(list)) /\ IsFiniteSet(1..2)
  <2>1. 1 \in Int /\ 2 \in Int /\ Len(list) \in Int
    OBVIOUS
  <2> QED
    BY <2>1, FS_Interval, Zenon
<1>2. IsFiniteSet((1..Len(list)) \X (1..2))
  BY <1>1, FS_Product
<1>3. Left(list) \in SUBSET ((1..Len(list)) \X (1..2))
  BY DEF Left
<1> QED
  BY <1>2, <1>3, FS_Subset, FS_CardinalityType

\* A list whose entries have the counts of another has its retries.
LEMMA LeftSame ==
    ASSUME NEW list \in Seq(Entry), NEW other \in Seq(Entry), Len(other) = Len(list),
           \A j \in 1..Len(list) : other[j].count = list[j].count
    PROVE  Left(other) = Left(list)
  BY DEF Left

\* One element more.
LEMMA OneMore ==
    ASSUME NEW S, NEW x, IsFiniteSet(S)
    PROVE  IsFiniteSet(S \cup {x}) /\ Cardinality(S \cup {x}) <= Cardinality(S) + 1
<1>1. Cardinality(S) \in Nat
  BY FS_CardinalityType
<1>2. /\ IsFiniteSet(S \cup {x})
      /\ Cardinality(S \cup {x}) = IF x \in S THEN Cardinality(S) ELSE Cardinality(S) + 1
  BY FS_AddElement, Zenon
<1> DEFINE c == Cardinality(S)
           d == Cardinality(S \cup {x})
<1> HIDE DEF c, d
<1>3. c \in Nat /\ (d = IF x \in S THEN c ELSE c + 1) => d <= c + 1
  OBVIOUS
<1> QED
  BY <1>1, <1>2, <1>3 DEF c, d

\* A new entry brings two retries at most.
LEMMA LeftAppend ==
    ASSUME NEW list \in Seq(Entry), NEW e \in Entry
    PROVE  Cardinality(Left(Append(list, e))) <= Cardinality(Left(list)) + 2
<1> DEFINE n == Len(list) + 1
           more == Left(list) \cup {<<n, 1>>}
           most == more \cup {<<n, 2>>}
<1>1. /\ IsFiniteSet(Left(list)) /\ Cardinality(Left(list)) \in Nat
  BY LeftFinite
<1>2. IsFiniteSet(more) /\ Cardinality(more) <= Cardinality(Left(list)) + 1
  BY <1>1, OneMore
<1>3. Cardinality(more) \in Nat
  BY <1>2, FS_CardinalityType
<1>4. IsFiniteSet(most) /\ Cardinality(most) <= Cardinality(more) + 1
  BY <1>2, <1>3, OneMore
<1>5. Left(Append(list, e)) \in SUBSET most
  BY DEF Left
<1>6. Cardinality(Left(Append(list, e))) <= Cardinality(most)
  BY <1>4, <1>5, FS_Subset
<1>7. Cardinality(most) \in Nat /\ Cardinality(Left(Append(list, e))) \in Nat
  BY <1>4, <1>5, FS_Subset, FS_CardinalityType
<1> QED
  BY <1>1, <1>2, <1>3, <1>4, <1>6, <1>7

\* Removing an entry adds none: the retries of the others are still theirs.
LEMMA LeftRemove ==
    ASSUME NEW list \in Seq(Entry), NEW n \in 1..Len(list)
    PROVE  Cardinality(Left(RemoveAt(list, n))) <= Cardinality(Left(list))
<1> DEFINE short == RemoveAt(list, n)
           Was(j) == IF j < n THEN j ELSE j + 1
           was == [r \in Left(short) |-> <<Was(r[1]), r[2]>>]
<1>1. /\ short \in Seq(Entry) /\ Len(short) = Len(list) - 1
      /\ \A j \in 1..Len(short) : Was(j) \in 1..Len(list) /\ short[j] = list[Was(j)]
  <2> DEFINE a == SubSeq(list, 1, n - 1)
             b == SubSeq(list, n + 1, Len(list))
  <2>1. a \in Seq(Entry) /\ Len(a) = n - 1 /\ \A j \in 1..(n - 1) : a[j] = list[j]
    OBVIOUS
  <2>2. /\ b \in Seq(Entry) /\ Len(b) = Len(list) - n
        /\ \A j \in 1..(Len(list) - n) : b[j] = list[n + j]
    OBVIOUS
  <2>3. short = a \o b
    BY DEF RemoveAt
  <2> HIDE DEF a, b, short
  <2>4. /\ short \in Seq(Entry) /\ Len(short) = Len(a) + Len(b)
        /\ \A j \in 1..Len(short) :
             short[j] = IF j <= Len(a) THEN a[j] ELSE b[j - Len(a)]
    <3>1. a \in Seq(Entry) /\ b \in Seq(Entry)
      BY <2>1, <2>2
    <3> QED
      BY <2>3, <3>1
  <2>5. Len(list) \in Nat /\ n \in Nat /\ Len(short) = Len(list) - 1
    BY <2>1, <2>2, <2>4
  <2>6. ASSUME NEW j \in 1..Len(short)
        PROVE  Was(j) \in 1..Len(list) /\ short[j] = list[Was(j)]
    <3>1. CASE j < n
      BY <2>1, <2>4, <2>5, <3>1
    <3>2. CASE ~(j < n)
      <4>1. short[j] = b[j - (n - 1)] /\ j - (n - 1) \in 1..(Len(list) - n)
        BY <2>1, <2>4, <2>5, <3>2
      <4> QED
        BY <2>2, <2>5, <3>2, <4>1
    <3> QED
      BY <3>1, <3>2
  <2> QED
    BY <2>4, <2>5, <2>6
<1> HIDE DEF short
<1>2. \A r \in Left(short) : <<Was(r[1]), r[2]>> \in Left(list)
  BY <1>1 DEF Left
<1>3. \A r \in Left(short) : r = <<r[1], r[2]>> /\ r[1] \in Int
  BY <1>1 DEF Left
<1>4. \A i, j \in Int : Was(i) = Was(j) => i = j
  OBVIOUS
<1>5. was \in Injection(Left(short), Left(list))
  <2>1. was \in [Left(short) -> Left(list)]
    BY <1>2
  <2>2. ASSUME NEW q \in Left(short), NEW r \in Left(short), was[q] = was[r]
        PROVE  q = r
    <3>1. Was(q[1]) = Was(r[1]) /\ q[2] = r[2]
      BY <2>2
    <3> QED
      BY <1>3, <1>4, <3>1
  <2> QED
    BY <2>1, <2>2 DEF Injection, IsInjective
<1> QED
  BY <1>5, LeftFinite, FS_Injection DEF short

\* A retry takes one.
LEMMA LeftRetry ==
    ASSUME NEW list \in Seq(Entry), NEW other \in Seq(Entry), NEW n \in 1..Len(list),
           Len(other) = Len(list), list[n].count < 2,
           other[n].count = list[n].count + 1,
           \A j \in 1..Len(list) : j # n => other[j].count = list[j].count
    PROVE  Cardinality(Left(other)) + 1 <= Cardinality(Left(list))
<1> DEFINE spent == <<n, list[n].count + 1>>
<1>1. list[n] \in Entry /\ list[n].count \in 0..2
  <2>1. list[n] \in Entry
    OBVIOUS
  <2> QED
    BY <2>1 DEF Entry
<1>2. spent \in Left(list)
  BY <1>1 DEF Left
<1>3. Left(other) \in SUBSET (Left(list) \ {spent})
  BY <1>1 DEF Left
<1> HIDE DEF spent
<1>4. /\ IsFiniteSet(Left(list) \ {spent})
      /\ Cardinality(Left(list) \ {spent}) = Cardinality(Left(list)) - 1
  BY <1>2, LeftFinite, FS_RemoveElement
<1>5. Cardinality(Left(other)) <= Cardinality(Left(list) \ {spent})
  BY <1>3, <1>4, FS_Subset
<1> QED
  BY <1>4, <1>5, LeftFinite

\* What an ACK erases has no more retries left than before.
LEMMA LeftErased ==
    ASSUME Types, NEW node
    PROVE  Cardinality(Left(Erased(node))) <= Cardinality(Left(listACK))
<1> DEFINE Matches == {j \in 1..Len(listACK) : Receptor(listACK[j].frame.of) = node}
<1>1. listACK \in Seq(Entry) /\ Cardinality(Left(listACK)) \in Nat
  BY LeftFinite DEF Types
<1>2. CASE Matches = {}
  BY <1>1, <1>2 DEF Erased, RemoveFirstMatch
<1>3. CASE Matches # {}
  <2>1. Matches \subseteq Nat
    OBVIOUS
  <2>2. Min(Matches) \in 1..Len(listACK)
    BY <1>3, <2>1, MinIsIn
  <2>3. Erased(node) = RemoveAt(listACK, Min(Matches))
    BY <1>3 DEF Erased, RemoveFirstMatch, SelectInSeq
  <2> QED
    BY <1>1, <2>2, <2>3, LeftRemove
<1> QED
  BY <1>2, <1>3

\* The numbers of the budget are numbers.
LEMMA BudgetTypes ==
    ASSUME Types
    PROVE  /\ hist.sent \in Nat /\ hist.acked \in Nat
           /\ Cardinality(Left(listACK)) \in Nat
           /\ IsFiniteSet(hist.called) /\ Cardinality(hist.called) \in Nat
           /\ \A t \in Threads : Owed(t) \in {0, 1, 3}
<1>1. listACK \in Seq(Entry) /\ hist.called \in SUBSET Commands
      /\ hist.sent \in Nat /\ hist.acked \in Nat
  BY DEF Types, Hist
<1>2. IsFiniteSet(hist.called) /\ Cardinality(hist.called) \in Nat
  BY <1>1, CommandsAssumption, FS_Subset, FS_CardinalityType
<1> QED
  BY <1>1, <1>2, LeftFinite DEF Owed

\* A step that owes no more and leaves the counts as they are stays in the budget.
LEMMA BudgetKept ==
    ASSUME Types, Types', Budget,
           hist'.sent + Owed("web")' + Owed("listen")' + Cardinality(Left(listACK)')
             <= hist.sent + Owed("web") + Owed("listen") + Cardinality(Left(listACK)),
           hist'.called = hist.called, hist'.acked = hist.acked
    PROVE  Budget'
<1>1. "web" \in Threads /\ "listen" \in Threads
  BY DEF Threads
<1>2. /\ hist.sent \in Nat /\ hist.acked \in Nat /\ Cardinality(Left(listACK)) \in Nat
      /\ Cardinality(hist.called) \in Nat /\ Owed("web") \in Nat /\ Owed("listen") \in Nat
  BY <1>1, BudgetTypes
<1>3. /\ hist'.sent \in Nat /\ Cardinality(Left(listACK)') \in Nat
      /\ Owed("web")' \in Nat /\ Owed("listen")' \in Nat
  <2>1. hist'.sent \in Nat /\ listACK' \in Seq(Entry)
    BY DEF Types, Hist
  <2>2. Cardinality(Left(listACK')) \in Nat
    BY <2>1, LeftFinite
  <2>3. Owed("web")' \in Nat /\ Owed("listen")' \in Nat
    BY DEF Owed
  <2> QED
    BY <2>1, <2>2, <2>3
<1> QED
  BY <1>2, <1>3 DEF Budget
\* A thread that goes from one place to another leaves the other where it was.
LEMMA GotoOnly ==
    ASSUME Types, NEW t \in Threads, NEW l, Goto(t, l)
    PROVE  \A u \in Threads : pc'[u] = IF u = t THEN l ELSE pc[u]
  BY DEF Types, Goto

\* SendMsg is paid for by the command it is called with.
LEMMA SendMsgBudget ==
    ASSUME Types, Types', Budget, NEW c \in Commands, SendMsg(c)
    PROVE  Budget'
<1>1. Threads = {"web", "listen"}
  BY DEF Threads
<1>2. /\ pc["web"] = "idle" /\ pc'["web"] = "size" /\ pc'["listen"] = pc["listen"]
      /\ then' = then /\ listACK' = listACK
  BY <1>1, GotoOnly DEF SendMsg
<1>3. Owed("web") = 0 /\ Owed("web")' = 3 /\ Owed("listen")' = Owed("listen")
  BY <1>2 DEF Owed, Transmitting, Retransmit
<1>4. hist \in Hist /\ hist' = [hist EXCEPT !.called = @ \cup {c}] /\ c \notin hist.called
  BY DEF SendMsg, Types
<1>5. hist'.called = hist.called \cup {c} /\ hist'.sent = hist.sent /\ hist'.acked = hist.acked
  BY <1>4 DEF Hist
<1>6. Cardinality(hist'.called) = Cardinality(hist.called) + 1
  BY <1>4, <1>5, BudgetTypes, FS_AddElement
<1>7. /\ hist.sent \in Nat /\ hist.acked \in Nat /\ Cardinality(Left(listACK)) \in Nat
      /\ Cardinality(hist.called) \in Nat /\ Owed("web") \in Nat /\ Owed("listen") \in Nat
  BY <1>1, BudgetTypes
<1>8. Cardinality(Left(listACK)') = Cardinality(Left(listACK))
  BY <1>2
<1> QED
  BY <1>3, <1>5, <1>6, <1>7, <1>8 DEF Budget

\* transmit: each transmission is one of those its thread owed, and the entry pushed
\* before the first one brings the retries it owed besides.
LEMMA TransmitBudget ==
    ASSUME Types, Filled, Types', Budget, NEW t \in Threads, Transmit(t)
    PROVE  Budget'
<1> DEFINE l == Cardinality(Left(listACK))
<1>0. /\ t \in {"web", "listen"} /\ hist \in Hist /\ then' = then
      /\ hist.sent \in Nat /\ l \in Nat
  BY BudgetTypes DEF Threads, Types, Transmit, Size, Bits, Push, Copy, PushBack, Air, AirEnd
<1>1. ASSUME NEW p, Goto(t, p)
      PROVE  pc'["web"] = (IF t = "web" THEN p ELSE pc["web"])
             /\ pc'["listen"] = (IF t = "listen" THEN p ELSE pc["listen"])
  BY <1>1, GotoOnly DEF Threads
<1>2. CASE Size(t) \/ Bits(t) \/ Air(t)
  <2>1. listACK' = listACK /\ hist' = hist
    BY <1>2 DEF Size, Bits, Air
  <2>2. CASE Size(t)
    BY <1>0, <1>1, <2>2 DEF Size, Owed, Transmitting, Retransmit, Budget
  <2>3. CASE Bits(t)
    <3>1. /\ pc[t] = "bits"
          /\ Goto(t, IF Retransmit(t) THEN "lock" ELSE "push")
      BY <2>3 DEF Bits
    <3>2. Owed("web")' = Owed("web") /\ Owed("listen")' = Owed("listen")
      BY <1>0, <1>1, <3>1 DEF Owed, Transmitting, Retransmit
    <3> QED
      BY <2>1, <3>2 DEF Budget
  <2>4. CASE Air(t)
    BY <1>0, <1>1, <2>4 DEF Air, Owed, Transmitting, Retransmit, Budget
  <2> QED
    BY <1>2, <2>2, <2>3, <2>4
<1>3. CASE Push(t) \/ Copy(t)
  <2>1. pc[t] \in {"push", "copy"} /\ listACK' = listACK /\ hist' = hist
    BY <1>3 DEF Push, Copy
  <2>2. PICK p \in {"copy", "append", "lock"} : Goto(t, p)
    BY <1>3 DEF Push, Copy
  <2>3. Owed("web")' + Owed("listen")' <= Owed("web") + Owed("listen")
    BY <1>0, <1>1, <2>1, <2>2 DEF Owed, Transmitting, Retransmit
  <2>4. /\ Owed("web") \in Nat /\ Owed("listen") \in Nat
        /\ Owed("web")' \in Nat /\ Owed("listen")' \in Nat
    BY DEF Owed
  <2> QED
    BY <1>0, <2>1, <2>3, <2>4, BudgetKept
<1>5. CASE PushBack(t)
  <2>1. pc[t] = "append" /\ Goto(t, "lock") /\ hist' = hist
    BY <1>5 DEF PushBack
  <2>2. Owed("web")' + Owed("listen")' + 2 = Owed("web") + Owed("listen")
    BY <1>0, <1>1, <2>1 DEF Owed, Transmitting, Retransmit
  <2>3. Cardinality(Left(listACK)') <= l + 2
    <3>1. listACK \in Seq(Entry) /\ PushedEntry(t) \in Entry
      BY <1>5, PushedType DEF Types
    <3>2. listACK' = Append(listACK, PushedEntry(t))
      BY <1>5 DEF PushBack, PushedEntry
    <3> QED
      BY <3>1, <3>2, LeftAppend
  <2>4. /\ Owed("web") \in Nat /\ Owed("listen") \in Nat
        /\ Owed("web")' \in Nat /\ Owed("listen")' \in Nat
    BY DEF Owed
  <2>5. Cardinality(Left(listACK)') \in Nat
    BY LeftFinite DEF Types
  <2> QED
    BY <1>0, <2>1, <2>2, <2>3, <2>4, <2>5, BudgetKept
<1>4. CASE AirEnd(t)
  <2>1. pc[t] = "air" /\ Goto(t, IF t = "web" THEN "idle" ELSE then) /\ listACK' = listACK
    BY <1>4 DEF AirEnd
  <2>2. Owed("web")' + Owed("listen")' + 1 = Owed("web") + Owed("listen")
    BY <1>0, <1>1, <2>1 DEF Owed, Transmitting, Retransmit, Types
  <2> DEFINE airs == [c \in Commands |->
                        hist.airs[c] + (IF keyed = frameBits /\ keyed.of = c THEN 1 ELSE 0)]
  <2>3. hist' = [hist EXCEPT !.sent = @ + 1, !.airs = airs]
    BY <1>0, <1>4 DEF AirEnd, Hist
  <2> HIDE DEF airs
  <2>4. hist'.sent = hist.sent + 1 /\ hist'.called = hist.called /\ hist'.acked = hist.acked
    BY <1>0, <2>3 DEF Hist
  <2>5. /\ Owed("web") \in Nat /\ Owed("listen") \in Nat
        /\ Owed("web")' \in Nat /\ Owed("listen")' \in Nat
    BY DEF Owed
  <2> QED
    BY <1>0, <2>1, <2>2, <2>4, <2>5, BudgetKept
<1> QED
  BY <1>2, <1>3, <1>4, <1>5 DEF Transmit

\* The listening thread outside of transmit: an acknowledgement pays for itself when it
\* is built, and a retry is taken from those left.
LEMMA ListenBudget ==
    ASSUME Types, Types', Budget, Returns, Listen
    PROVE  Budget'
<1> DEFINE l == Cardinality(Left(listACK))
<1>0. /\ hist \in Hist /\ listACK \in Seq(Entry) /\ listACK' \in Seq(Entry)
      /\ hist.sent \in Nat /\ hist.acked \in Nat /\ Cardinality(hist.called) \in Nat
      /\ l \in Nat /\ Cardinality(Left(listACK)') \in Nat
      /\ Owed("web") \in Nat /\ Owed("listen") \in Nat
      /\ Owed("web")' \in Nat /\ Owed("listen")' \in Nat
  BY BudgetTypes, LeftFinite DEF Types, Owed
<1>1. ASSUME NEW p, Goto("listen", p)
      PROVE  pc'["web"] = pc["web"] /\ pc'["listen"] = p
  BY <1>1, GotoOnly DEF Threads
<1>2. pc'["web"] = pc["web"] => Owed("web")' = Owed("web")
  BY DEF Owed, Retransmit
<1>3. CASE HearNothing \/ CheckDone \/ Unlock
  <2>1. \E p \in {"check", "listen"} : Goto("listen", p)
    BY <1>3 DEF HearNothing, CheckDone, Unlock
  <2>2. Owed("web")' = Owed("web") /\ Owed("listen")' = 0
    BY <1>1, <1>2, <2>1 DEF Owed, Transmitting
  <2>3. listACK' = listACK /\ hist' = hist
    BY <1>3 DEF HearNothing, CheckDone, Unlock
  <2> QED
    BY <1>0, <2>2, <2>3, BudgetKept
<1>4. CASE Hear
  <2>1. PICK node \in Nodes : listACK' \in {Erased(node), listACK}
    BY <1>4 DEF Hear
  <2>2. Cardinality(Left(listACK)') <= l
    BY <1>0, <2>1, LeftErased
  <2>3. \E p \in {"ack", "unlock"} : Goto("listen", p)
    BY <1>4 DEF Hear
  <2>4. Owed("web")' = Owed("web") /\ Owed("listen")' = 0
    BY <1>1, <1>2, <2>3 DEF Owed, Transmitting
  <2>5. hist'.sent = hist.sent /\ hist'.called = hist.called /\ hist'.acked = hist.acked
    BY <1>0, <1>4 DEF Hear, Hist
  <2> QED
    BY <1>0, <2>2, <2>4, <2>5, BudgetKept
<1>5. CASE DataToFrame
  <2>1. /\ pc["listen"] = "ack" /\ Goto("listen", "size") /\ then' = "unlock"
        /\ listACK' = listACK /\ hist' = [hist EXCEPT !.acked = @ + 1]
    BY <1>5 DEF DataToFrame
  <2>2. Owed("web")' = Owed("web") /\ Owed("listen") = 0 /\ Owed("listen")' = 3
    BY <1>1, <1>2, <2>1 DEF Owed, Transmitting, Retransmit
  <2>3. hist'.sent = hist.sent /\ hist'.called = hist.called /\ hist'.acked = hist.acked + 1
    BY <1>0, <2>1 DEF Hist
  <2>4. Cardinality(Left(listACK)') = Cardinality(Left(listACK))
    BY <2>1
  <2>5. Cardinality(hist'.called) = Cardinality(hist.called)
    BY <2>3
  <2>6. /\ hist.sent \in Nat /\ hist.acked \in Nat /\ Cardinality(hist.called) \in Nat
        /\ Cardinality(Left(listACK)) \in Nat /\ Owed("web") \in Nat
    BY <1>0
  <2> QED
    BY <2>2, <2>3, <2>4, <2>5, <2>6 DEF Budget
<1>6. CASE CheckACK
  <2>1. PICK late \in SUBSET DOMAIN listACK :
          listACK' = [j \in DOMAIN listACK |-> [listACK[j] EXCEPT !.late = j \in late]]
    BY <1>6 DEF CheckACK
  <2>2. DOMAIN listACK = 1..Len(listACK) /\ Len(listACK) \in Nat
    BY <1>0
  <2>3. Len(listACK') = Len(listACK)
    BY <1>0, <2>1, <2>2
  <2>4. ASSUME NEW j \in 1..Len(listACK)
        PROVE  listACK'[j].count = listACK[j].count
    <3> DEFINE b == j \in late
    <3>1. listACK'[j] = [listACK[j] EXCEPT !.late = b] /\ listACK[j] \in Entry
      BY <1>0, <2>1, <2>2
    <3> HIDE DEF b
    <3> QED
      BY <3>1 DEF Entry
  <2>5. Left(listACK)' = Left(listACK)
    BY <1>0, <2>3, <2>4, LeftSame
  <2>6. Owed("web")' = Owed("web") /\ Owed("listen")' = 0
    BY <1>1, <1>2, <1>6 DEF CheckACK, Owed, Transmitting
  <2>7. hist' = hist
    BY <1>6 DEF CheckACK
  <2> QED
    BY <1>0, <2>5, <2>6, <2>7, BudgetKept
<1>7. CASE Retry
  <2> DEFINE n == Min(LateFrom(k))
  <2>1. n \in 1..Len(listACK) /\ listACK[n] \in Entry /\ listACK[n].count < 2
    BY <1>7, LateEntry DEF Retry
  <2>2. /\ listACK' = [listACK EXCEPT ![n].count = @ + 1, ![n].late = FALSE]
        /\ pc["listen"] = "next" /\ Goto("listen", "size") /\ then' = then /\ hist' = hist
    BY <1>7 DEF Retry
  <2> HIDE DEF n
  <2>3. /\ Len(listACK') = Len(listACK) /\ listACK'[n].count = listACK[n].count + 1
        /\ \A j \in 1..Len(listACK) : j # n => listACK'[j].count = listACK[j].count
    <3> DEFINE c == listACK[n].count + 1
               e == [listACK[n] EXCEPT !.count = c, !.late = FALSE]
    <3>1. listACK' = [listACK EXCEPT ![n] = e]
      BY <1>0, <2>1, <2>2 DEF Entry
    <3>2. e.count = c
      BY <2>1 DEF Entry
    <3> HIDE DEF e
    <3> QED
      BY <1>0, <2>1, <3>1, <3>2
  <2>4. Cardinality(Left(listACK)') + 1 <= l
    BY <1>0, <2>1, <2>3, LeftRetry
  <2>5. Owed("web")' = Owed("web") /\ Owed("listen") = 0 /\ Owed("listen")' = 1
    BY <1>1, <1>2, <2>2 DEF Owed, Transmitting, Retransmit, Returns
  <2> QED
    BY <1>0, <2>2, <2>4, <2>5, BudgetKept
<1>8. CASE GiveUp
  <2> DEFINE n == Min(LateFrom(k))
  <2>1. n \in 1..Len(listACK)
    BY <1>8, LateEntry DEF GiveUp
  <2>2. listACK' = RemoveAt(listACK, n) /\ pc' = pc /\ then' = then /\ hist' = hist
    BY <1>8 DEF GiveUp
  <2> HIDE DEF n
  <2>3. Cardinality(Left(listACK)') <= l
    BY <1>0, <2>1, <2>2, LeftRemove
  <2>4. Owed("web")' = Owed("web") /\ Owed("listen")' = Owed("listen")
    BY <2>2 DEF Owed, Retransmit
  <2> QED
    BY <1>0, <2>2, <2>3, <2>4, BudgetKept
<1> QED
  BY <1>3, <1>4, <1>5, <1>6, <1>7, <1>8 DEF Listen

\* Retransmissions end: for any commands, any frames heard and any races for
\* m_sendframe, the air is used three times at most for a command sent or an
\* acknowledgement built.
THEOREM TrafficIsBounded == Spec => []TrafficBounded
<1>1. Init => Budget
  <2> SUFFICES ASSUME Init PROVE Budget
    OBVIOUS
  <2>1. Owed("web") = 0 /\ Owed("listen") = 0
    BY DEF Init, Owed, Transmitting, Threads
  <2>2. Left(listACK) = {}
    BY DEF Init, Left
  <2>3. hist.sent = 0 /\ hist.called = {} /\ hist.acked = 0
    BY DEF Init
  <2> QED
    BY <2>1, <2>2, <2>3, FS_EmptySet DEF Budget
<1>2. IInv /\ IInv' /\ Budget /\ [Next]_vars => Budget'
  <2> SUFFICES ASSUME Types, Filled, Returns, Types', Budget, [Next]_vars
               PROVE  Budget'
    BY DEF IInv
  <2>1. CASE UNCHANGED vars
    BY <2>1 DEF vars, Budget, Owed, Retransmit, Left
  <2> QED
    BY <2>1, SendMsgBudget, ListenBudget, TransmitBudget DEF Next
<1>3. IInv /\ Budget => TrafficBounded
  <2> SUFFICES ASSUME Types, Budget
               PROVE  TrafficBounded
    BY DEF IInv
  <2>1. Owed("web") \in Nat /\ Owed("listen") \in Nat
    BY DEF Owed
  <2> QED
    BY <2>1, BudgetTypes DEF Budget, TrafficBounded
<1> QED
  BY <1>1, <1>2, <1>3, InvariantHolds, PTL DEF Spec
=============================================================================
