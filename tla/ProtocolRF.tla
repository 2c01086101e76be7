----------------------------- MODULE ProtocolRF ------------------------------
(***************************************************************************)
(* plugins/rf/protocolRF.cpp: the master with a radio of its own.          *)
(*                                                                         *)
(* The web server's thread calls SendMsg, which transmits; the listening   *)
(* thread samples the receiver, handles what it decodes, acknowledges      *)
(* nodes, and retransmits commands no node acknowledged.  One recursive    *)
(* mutex keeps the receiver quiet while somebody transmits; m_sendframe,   *)
(* m_FrameBits and mListACK are shared outside of it.                      *)
(*                                                                         *)
(* A frame is named by what was copied last into it: a command, or the     *)
(* frame heard that an RF ACK is built for.  extra counts the bytes in     *)
(* taille beyond the payload: 1 once the CRC is counted.                   *)
(***************************************************************************)
EXTENDS Integers, Sequences, FiniteSets, FiniteSetsExt, SequencesExt

CONSTANTS
    Commands,        \* the commands the web server may send
    Nodes,           \* node addresses
    NodeOf,          \* the node each command is for
    RfTypes,         \* types of the frames heard, "ETAT" for those only notified
    MaxUp,           \* bound: frames heard
    Nobody           \* no thread

ASSUME NodeOfAssumption == NodeOf \in [Commands -> Nodes]
ASSUME RfTypesAssumption == RfTypes \subseteq {"ETAT", "ETAT_ACK", "ACK"}
ASSUME MaxUpAssumption == MaxUp \in Nat
ASSUME NobodyAssumption == Nobody \notin {"web", "listen"}

Threads == {"web", "listen"}

Heard == [n : 1..MaxUp, node : Nodes]
NoFrame == [n |-> 0, node |-> 0]

ASSUME CommandsAssumption == Commands \cap (Heard \cup {NoFrame}) = {} /\ IsFiniteSet(Commands)

VARIABLES
    pc,              \* where each thread is
    then,            \* where the listening thread goes on after transmit
    sendFrame,       \* m_sendframe
    frameBits,       \* m_FrameBits, and the number of bits that will be sent
    keyed,           \* what the first half of a transmission was made of
    newack,          \* each thread's own copy of the frame, in transmit
    listACK,         \* mListACK; late: older than TIME_OUT_ACK in this pass
    k,               \* checkACK's iterator
    lock,            \* _mutexSynchro: its owner and how often it holds it
    ackFor,          \* the frame being acknowledged
    hist             \* history: called, heard, acked (RF ACKs built), sent (the
                     \* transmissions made), airs (those made of one command only)

vars == <<pc, then, sendFrame, frameBits, keyed, newack, listACK, k, lock, ackFor, hist>>

Unset == [of |-> NoFrame, extra |-> 0]

Init ==
    /\ pc = [t \in Threads |-> IF t = "web" THEN "idle" ELSE "listen"]
    /\ then = "unlock"
    /\ sendFrame = Unset /\ frameBits = Unset /\ keyed = Unset
    /\ newack = [t \in Threads |-> Unset]
    /\ listACK = <<>> /\ k = 1
    /\ lock = [owner |-> Nobody, depth |-> 0]
    /\ ackFor = NoFrame
    /\ hist = [called |-> {}, heard |-> 0, acked |-> 0, sent |-> 0,
               airs |-> [c \in Commands |-> 0]]

Goto(t, l) == pc' = [pc EXCEPT ![t] = l]

\* The recursive mutex.
CanLock(t) == lock.owner \in {Nobody, t}
Locked(t) == [owner |-> t, depth |-> lock.depth + 1]
Unlocked == [owner |-> IF lock.depth = 1 THEN Nobody ELSE lock.owner,
             depth |-> lock.depth - 1]

-----------------------------------------------------------------------------
(* SendMsg, in the web server's thread.                                    *)

SendMsg(c) ==
    /\ pc["web"] = "idle" /\ c \notin hist.called
    /\ sendFrame' = [of |-> c, extra |-> 0]
    /\ hist' = [hist EXCEPT !.called = @ \cup {c}]
    /\ Goto("web", "size")
    /\ UNCHANGED <<then, frameBits, keyed, newack, listACK, k, lock, ackFor>>

-----------------------------------------------------------------------------
(* transmit, in either thread; only checkACK passes bRetransmit.           *)

Retransmit(t) == t = "listen" /\ then = "next"

\* taille counts the CRC from here on.
Size(t) ==
    /\ pc[t] = "size"
    /\ sendFrame' = [sendFrame EXCEPT !.extra = @ + 1]
    /\ Goto(t, "bits")
    /\ UNCHANGED <<then, frameBits, keyed, newack, listACK, k, lock, ackFor, hist>>

\* Mutant of Bits: bRetransmit is not looked at.
BitsAlwaysPush(t) ==
    /\ pc[t] = "bits"
    /\ frameBits' = sendFrame
    /\ Goto(t, "push")
    /\ UNCHANGED <<then, sendFrame, keyed, newack, listACK, k, lock, ackFor, hist>>

Bits(t) ==
    /\ pc[t] = "bits"
    /\ frameBits' = sendFrame
    /\ Goto(t, IF Retransmit(t) THEN "lock" ELSE "push")
    /\ UNCHANGED <<then, sendFrame, keyed, newack, listACK, k, lock, ackFor, hist>>

\* A command waits for an acknowledgement: the type is that of m_sendframe by now,
Push(t) ==
    /\ pc[t] = "push"
    /\ Goto(t, IF sendFrame.of \in Commands THEN "copy" ELSE "lock")
    /\ UNCHANGED <<then, sendFrame, frameBits, keyed, newack, listACK, k, lock, ackFor, hist>>

\* and the frame copied from it what it is later still, an RF ACK perhaps.
Copy(t) ==
    /\ pc[t] = "copy"
    /\ newack' = [newack EXCEPT ![t] = sendFrame]
    /\ Goto(t, "append")
    /\ UNCHANGED <<then, sendFrame, frameBits, keyed, listACK, k, lock, ackFor, hist>>

PushBack(t) ==
    /\ pc[t] = "append"
    /\ listACK' = Append(listACK, [frame |-> newack[t], count |-> 0, late |-> FALSE])
    /\ newack' = [newack EXCEPT ![t] = Unset]
    /\ Goto(t, "lock")
    /\ UNCHANGED <<then, sendFrame, frameBits, keyed, k, lock, ackFor, hist>>

\* The lock is taken, and the first bits go out.
Air(t) ==
    /\ pc[t] = "lock" /\ CanLock(t)
    /\ lock' = Locked(t)
    /\ keyed' = frameBits
    /\ Goto(t, "air")
    /\ UNCHANGED <<then, sendFrame, frameBits, newack, listACK, k, ackFor, hist>>

\* Mutant of AirEnd: the mutex is not recursive.
AirEndUnlocks(t) ==
    /\ pc[t] = "air"
    /\ lock' = [owner |-> Nobody, depth |-> 0]
    /\ hist' = [hist EXCEPT !.sent = @ + 1]
    /\ Goto(t, IF t = "web" THEN "idle" ELSE then)
    /\ UNCHANGED <<then, sendFrame, frameBits, keyed, newack, listACK, k, ackFor>>

\* The last bits, and the lock is given back.
AirEnd(t) ==
    /\ pc[t] = "air"
    /\ lock' = Unlocked
    /\ hist' = [hist EXCEPT
         !.sent = @ + 1,
         !.airs = [c \in Commands |->
                     @[c] + (IF keyed = frameBits /\ keyed.of = c THEN 1 ELSE 0)]]
    /\ Goto(t, IF t = "web" THEN "idle" ELSE then)
    /\ UNCHANGED <<then, sendFrame, frameBits, keyed, newack, listACK, k, ackFor>>

Transmit(t) ==
    Size(t) \/ Bits(t) \/ Push(t) \/ Copy(t) \/ PushBack(t) \/ Air(t) \/ AirEnd(t)

-----------------------------------------------------------------------------
(* listenSignal: one sample, which completes a frame or does not.          *)

HearNothing ==
    /\ pc["listen"] = "listen" /\ CanLock("listen")
    /\ Goto("listen", "check")
    /\ UNCHANGED <<then, sendFrame, frameBits, keyed, newack, listACK, k, lock, ackFor, hist>>

\* The node a frame is for: its receptor.
Receptor(of) == IF of \in Commands THEN NodeOf[of] ELSE of.node

\* The first entry for the node goes, whichever frame it was.
Erased(node) == RemoveFirstMatch(listACK, LAMBDA e : Receptor(e.frame.of) = node)

\* A node acknowledges what it heard of this master.
Hear ==
    /\ pc["listen"] = "listen" /\ CanLock("listen") /\ hist.heard < MaxUp
    /\ lock' = Locked("listen")
    /\ hist' = [hist EXCEPT !.heard = @ + 1]
    /\ \E type \in RfTypes, node \in Nodes :
         /\ type = "ACK" => \E c \in Commands : hist.airs[c] > 0 /\ NodeOf[c] = node
         /\ listACK' = IF type = "ACK" THEN Erased(node) ELSE listACK
         /\ ackFor' = IF type = "ETAT_ACK" THEN [n |-> hist.heard + 1, node |-> node]
                      ELSE ackFor
         /\ Goto("listen", IF type = "ETAT_ACK" THEN "ack" ELSE "unlock")
    /\ UNCHANGED <<then, sendFrame, frameBits, keyed, newack, k>>

\* dataToFrame.  A delay of 250 ms and the AGC sequence follow, then transmit.
DataToFrame ==
    /\ pc["listen"] = "ack"
    /\ sendFrame' = [of |-> ackFor, extra |-> 0]
    /\ ackFor' = NoFrame
    /\ then' = "unlock"
    /\ hist' = [hist EXCEPT !.acked = @ + 1]
    /\ Goto("listen", "size")
    /\ UNCHANGED <<frameBits, keyed, newack, listACK, k, lock>>

\* Mutant of Unlock: the mutex is kept.
UnlockForgotten ==
    /\ pc["listen"] = "unlock"
    /\ Goto("listen", "check")
    /\ UNCHANGED <<then, sendFrame, frameBits, keyed, newack, listACK, k, lock, ackFor, hist>>

\* Notify, and the sample is done.
Unlock ==
    /\ pc["listen"] = "unlock"
    /\ lock' = Unlocked
    /\ Goto("listen", "check")
    /\ UNCHANGED <<then, sendFrame, frameBits, keyed, newack, listACK, k, ackFor, hist>>

-----------------------------------------------------------------------------
(* checkACK.                                                               *)

\* getTime is compared with the time of each entry.
CheckACK ==
    /\ pc["listen"] = "check"
    /\ \E late \in SUBSET DOMAIN listACK :
         listACK' = [j \in DOMAIN listACK |-> [listACK[j] EXCEPT !.late = j \in late]]
    /\ k' = 1 /\ then' = "next"
    /\ Goto("listen", "next")
    /\ UNCHANGED <<sendFrame, frameBits, keyed, newack, lock, ackFor, hist>>

\* The late entries the iterator has not passed.
LateFrom(j) == {n \in j..Len(listACK) : listACK[n].late}

CheckDone ==
    /\ pc["listen"] = "next" /\ LateFrom(k) = {}
    /\ Goto("listen", "listen")
    /\ UNCHANGED <<then, sendFrame, frameBits, keyed, newack, listACK, k, lock, ackFor, hist>>

\* Mutant of Retry: one retry more.
RetryOnceMore ==
    /\ pc["listen"] = "next" /\ LateFrom(k) # {}
    /\ LET n == Min(LateFrom(k)) IN
         /\ listACK[n].count <= 2
         /\ sendFrame' = [listACK[n].frame EXCEPT !.extra = @ - 1]
         /\ listACK' = [listACK EXCEPT ![n].count = @ + 1, ![n].late = FALSE]
         /\ k' = n + 1
    /\ Goto("listen", "size")
    /\ UNCHANGED <<then, frameBits, keyed, newack, lock, ackFor, hist>>

\* An entry is sent again: its CRC byte is taken off, for transmit to count.
Retry ==
    /\ pc["listen"] = "next" /\ LateFrom(k) # {}
    /\ LET n == Min(LateFrom(k)) IN
         /\ listACK[n].count < 2
         /\ sendFrame' = [listACK[n].frame EXCEPT !.extra = @ - 1]
         /\ listACK' = [listACK EXCEPT ![n].count = @ + 1, ![n].late = FALSE]
         /\ k' = n + 1
    /\ Goto("listen", "size")
    /\ UNCHANGED <<then, frameBits, keyed, newack, lock, ackFor, hist>>

\* Mutant of GiveUp: the entry is passed over and kept.
GiveUpKeeps ==
    /\ pc["listen"] = "next" /\ LateFrom(k) # {}
    /\ LET n == Min(LateFrom(k)) IN
         /\ listACK[n].count >= 2
         /\ listACK' = [listACK EXCEPT ![n].late = FALSE]
         /\ k' = n + 1
    /\ UNCHANGED <<pc, then, sendFrame, frameBits, keyed, newack, lock, ackFor, hist>>

\* An entry is given up.  erase returns the next one, which the loop then passes
\* over; after the last, the incremented end() is the beginning of libstdc++'s
\* circular list.
GiveUp ==
    /\ pc["listen"] = "next" /\ LateFrom(k) # {}
    /\ LET n == Min(LateFrom(k)) IN
         /\ listACK[n].count >= 2
         /\ listACK' = RemoveAt(listACK, n)
         /\ k' = IF n = Len(listACK) THEN 1 ELSE n + 1
    /\ UNCHANGED <<pc, then, sendFrame, frameBits, keyed, newack, lock, ackFor, hist>>

-----------------------------------------------------------------------------
Listen ==
    \/ HearNothing \/ Hear \/ DataToFrame \/ Unlock
    \/ CheckACK \/ CheckDone \/ Retry \/ GiveUp

Next ==
    \/ \E c \in Commands : SendMsg(c)
    \/ Listen
    \/ \E t \in Threads : Transmit(t)

Spec == Init /\ [][Next]_vars

\* The threads go on.  The listening thread sleeps between two samples without the
\* mutex, so that the web server's thread gets it; and time passes.
Fairness ==
    /\ WF_vars(Listen) /\ WF_vars(Transmit("listen"))
    /\ SF_vars(Transmit("web"))
    /\ SF_vars(CheckACK /\ \A n \in DOMAIN listACK : listACK'[n].late)

FairSpec == Spec /\ Fairness

-----------------------------------------------------------------------------
(* Properties.                                                             *)

Entry == [frame : [of : Commands \cup Heard, extra : Int], count : 0..2, late : BOOLEAN]

Transmitting == {"size", "bits", "push", "copy", "append", "lock", "air"}

\* The types.  What waits for an acknowledgement is a command or an RF ACK, retried
\* twice at most.
TypeOK ==
    /\ pc["web"] \in {"idle"} \cup Transmitting
    /\ pc["listen"] \in {"listen", "ack", "unlock", "check", "next"} \cup Transmitting
    /\ sendFrame \in [of : Commands \cup Heard \cup {NoFrame}, extra : Int]
    /\ listACK \in Seq(Entry)
    /\ k \in Nat \ {0}
    /\ hist.called \subseteq Commands /\ hist.acked <= hist.heard

\* The listening thread handles a frame it has received.
Handling ==
    \/ pc["listen"] \in {"ack", "unlock"}
    \/ then = "unlock" /\ pc["listen"] \in Transmitting

\* The comment of _mutexSynchro: no reading of the radio while something is sent.
\* Nobody transmits while the other does, nor while a frame is handled.
AirExclusive ==
    /\ \A t \in Threads : pc[t] = "air" => lock.owner = t
    /\ Handling => lock.owner = "listen"

\* Retransmissions end: whatever the threads do to each other's frames, the air
\* is used three times at most for a command sent or an acknowledgement built.
TrafficBounded ==
    hist.sent <= 3 * (Cardinality(hist.called) + hist.acked)

\* Every entry leaves the list in the end, acknowledged or given up.
RetriesEnd == <>[](listACK = <<>>)

\* SendMsg returns: the listening thread does not keep the mutex.
SendReturns == pc["web"] = "size" ~> pc["web"] = "idle"

\* The comment in checkACK: a command that had more than two retries is removed.
\* So it is on the air three times at most.
ThreeTimesAtMost == \A c \in Commands : hist.airs[c] <= 3
=============================================================================
