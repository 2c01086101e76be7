-------------------------------- MODULE I2CRF --------------------------------
(***************************************************************************)
(* The radio protocol whose radio is an Arduino on the I2C bus             *)
(* (plugins/i2crf/protocol.cpp, i2c.cpp).  The device keeps the last frame *)
(* it heard in one register, raises a pin while the frame is unread and    *)
(* another while its radio works.  Two threads of the master read the      *)
(* register, the listen thread and the one wiringPi runs the interrupt on, *)
(* and both copy what they read into m_receivedframe and hand over a       *)
(* pointer to it.  A third, the one that answers web requests, writes.     *)
(***************************************************************************)
EXTENDS NodeData, FiniteSets

CONSTANTS
    Packets,    \* what the nodes send: [plugin, items, data]
    Commands,   \* the frames SendMsg is given: [taille, data]
    MaxFrames,  \* the frames the device hears
    MaxCommands,
    Garbage     \* what the stack holds behind trame[30]

\* i2c_smbus_read_i2c_block_data is asked for 30 bytes, four of them the head.
ReadSize == 26

ASSUME BoundsAssumption == MaxFrames \in Nat /\ MaxCommands \in Nat /\ Garbage \subseteq Byte

\* A packet carries the bytes its node packs: two numbers of sixteen bits of a DHT11, any
\* items of another node.
ASSUME PacketsAssumption ==
    \A packet \in Packets :
        /\ packet.data = Data(packet.plugin, packet.items)
        /\ packet.plugin = "DHT11" => packet.items \in Word \X Word
        /\ packet.plugin # "DHT11" => packet.items \in Seq(Types \X Int)

Readers == {"isr", "listen"}

VARIABLES
    heard,      \* the packets of the frames the device heard, oldest first
    register,   \* the frame in the device's register, 0 for none
    available,  \* mPinDataAvailable
    busy,       \* mPinReceiving, high unless "no": "hears", "stored" or "sends"
    edge,       \* an interrupt is pending
    lost,       \* the frames the device heard the next one over
    at,         \* where each reader is
    trame,      \* what each reader read: a frame
    m_rx_done,
    m_receivedframe,
    notified,   \* m_receivedframe at each Notify, oldest first
    overlapped, \* a reader read between the other's Read and its Notify
    sending,    \* the command the web thread is in transmit with
    sent        \* what I2C::Write put on the bus, oldest first

deviceVars == <<heard, register, available, busy, edge, lost>>
readerVars == <<at, trame, m_rx_done, m_receivedframe, notified, overlapped>>
writerVars == <<sending, sent>>
vars == <<heard, register, available, busy, edge, lost, at, trame, m_rx_done,
          m_receivedframe, notified, overlapped, sending, sent>>

NoCommand == [taille |-> 0, data |-> <<>>]

\* m_receivedframe: its taille and its data, and which frame each comes from.
EmptyFrame == [taille |-> 0, data |-> <<>>, head |-> 0, body |-> 0]

Init ==
    /\ heard = <<>> /\ register = 0 /\ available = FALSE /\ busy = "no"
    /\ edge = FALSE /\ lost = {}
    /\ at = [r \in Readers |-> "out"] /\ trame = [r \in Readers |-> 0]
    /\ m_rx_done = FALSE /\ m_receivedframe = EmptyFrame
    /\ notified = <<>> /\ overlapped = FALSE
    /\ sending = NoCommand /\ sent = <<>>

-----------------------------------------------------------------------------
(* The device.                                                             *)

\* Its radio begins to receive a frame.
Hear == /\ busy = "no" /\ Len(heard) < MaxFrames
        /\ busy' = "hears"
        /\ UNCHANGED <<heard, register, available, edge, lost, readerVars, writerVars>>

\* The frame is in the register: wiringPi sees the rising edge, if there is one.
Store(packet) ==
    /\ busy = "hears"
    /\ heard' = Append(heard, packet)
    /\ register' = Len(heard')
    /\ lost' = IF available THEN lost \cup {register} ELSE lost
    /\ available' = TRUE
    /\ edge' = (edge \/ (~available /\ at["isr"] # "out"))
    /\ busy' = "stored"
    /\ UNCHANGED <<readerVars, writerVars>>

\* The radio is done: the frame has been stored, or the command sent.
Rest == /\ busy \in {"stored", "sends"}
        /\ busy' = "no"
        /\ UNCHANGED <<heard, register, available, edge, lost, readerVars, writerVars>>

-----------------------------------------------------------------------------
(* Start, and what the two readers do alike.                               *)

\* Start: the listen thread first, a second later the interrupt.
StartListen == /\ at["listen"] = "out"
               /\ at' = [at EXCEPT !["listen"] = "loop"]
               /\ UNCHANGED <<deviceVars, trame, m_rx_done, m_receivedframe,
                              notified, overlapped, writerVars>>

RegisterInterrupt ==
    /\ at["listen"] # "out" /\ at["isr"] = "out"
    /\ at' = [at EXCEPT !["isr"] = "idle"]
    /\ UNCHANGED <<deviceVars, trame, m_rx_done, m_receivedframe, notified,
                   overlapped, writerVars>>

Holds(r) == at[r] \in {"head", "data", "notify"} \/ (r = "listen" /\ m_rx_done)

\* I2C::Read, which takes the available pin down.
Read(r) ==
    /\ at[r] = "read"
    /\ trame' = [trame EXCEPT ![r] = register]
    /\ available' = FALSE
    /\ overlapped' = (overlapped \/ \E q \in Readers \ {r} : Holds(q))
    /\ at' = [at EXCEPT ![r] = "head"]
    /\ UNCHANGED <<heard, register, busy, edge, lost, m_rx_done, m_receivedframe,
                   notified, writerVars>>

\* The memcpy to m_receivedframe, of the taille + 3 bytes the frame says it has: the
\* head with the taille, then the data, whose end is garbage when it is longer
\* than what was read.  What lay behind stays.
CopyHead(r) ==
    /\ at[r] = "head"
    /\ m_receivedframe' =
         [m_receivedframe EXCEPT !.taille = Len(heard[trame[r]].data) + 1, !.head = trame[r]]
    /\ at' = [at EXCEPT ![r] = "data"]
    /\ UNCHANGED <<deviceVars, trame, m_rx_done, notified, overlapped, writerVars>>

Copied(data, old, g) ==
    [n \in 1..(IF Len(data) > Len(old) THEN Len(data) ELSE Len(old)) |->
        IF n > Len(data) THEN old[n] ELSE IF n > ReadSize THEN g ELSE data[n]]

\* Mutant: the listen thread does not remember that it has a frame.
CopyDataUndone(r, g) ==
    /\ at[r] = "data"
    /\ m_receivedframe' =
         [m_receivedframe EXCEPT !.data = Copied(heard[trame[r]].data, @, g),
                                 !.body = trame[r]]
    /\ at' = [at EXCEPT ![r] = IF r = "listen" THEN "loop" ELSE "notify"]
    /\ UNCHANGED <<deviceVars, trame, m_rx_done, notified, overlapped, writerVars>>

CopyData(r, g) ==
    /\ at[r] = "data"
    /\ m_receivedframe' =
         [m_receivedframe EXCEPT !.data = Copied(heard[trame[r]].data, @, g),
                                 !.body = trame[r]]
    /\ IF r = "listen"
         THEN m_rx_done' = TRUE /\ at' = [at EXCEPT ![r] = "loop"]
         ELSE at' = [at EXCEPT ![r] = "notify"] /\ UNCHANGED m_rx_done
    /\ UNCHANGED <<deviceVars, trame, notified, overlapped, writerVars>>

Notify == notified' = Append(notified, m_receivedframe)

-----------------------------------------------------------------------------
(* The interrupt: receive.                                                 *)

Interrupt == /\ at["isr"] = "idle" /\ edge
             /\ edge' = FALSE
             /\ at' = [at EXCEPT !["isr"] = "receive"]
             /\ UNCHANGED <<heard, register, available, busy, lost, trame, m_rx_done,
                            m_receivedframe, notified, overlapped, writerVars>>

\* While the radio is busy receive sleeps and calls itself.
Receive == /\ at["isr"] = "receive" /\ busy = "no"
           /\ at' = [at EXCEPT !["isr"] = "read"]
           /\ UNCHANGED <<deviceVars, trame, m_rx_done, m_receivedframe, notified,
                          overlapped, writerVars>>

ReceiveNotify == /\ at["isr"] = "notify"
                 /\ Notify
                 /\ at' = [at EXCEPT !["isr"] = "idle"]
                 /\ UNCHANGED <<deviceVars, trame, m_rx_done, m_receivedframe,
                                overlapped, writerVars>>

-----------------------------------------------------------------------------
(* The listen thread: listenSignal.                                        *)

ListenDone == /\ at["listen"] = "loop" /\ m_rx_done
              /\ m_rx_done' = FALSE
              /\ Notify
              /\ UNCHANGED <<deviceVars, at, trame, m_receivedframe, overlapped,
                             writerVars>>

ListenAvailable == /\ at["listen"] = "loop" /\ ~m_rx_done
                   /\ available /\ busy = "no"
                   /\ at' = [at EXCEPT !["listen"] = "read"]
                   /\ UNCHANGED <<deviceVars, trame, m_rx_done, m_receivedframe,
                                  notified, overlapped, writerVars>>

-----------------------------------------------------------------------------
(* The web thread: SendMsg and transmit.                                   *)

SendMsg(frame) == /\ sending = NoCommand /\ Len(sent) < MaxCommands
                  /\ sending' = frame
                  /\ UNCHANGED <<deviceVars, readerVars, sent>>

\* taille + 3 bytes from the head on: four of head, taille - 1 of data.
Transmit == /\ sending # NoCommand /\ busy = "no"
            /\ sent' = Append(sent, SubSeq(sending.data, 1, sending.taille - 1))
            /\ sending' = NoCommand
            /\ busy' = "sends"
            /\ UNCHANGED <<heard, register, available, edge, lost, readerVars>>

-----------------------------------------------------------------------------
DeviceWorks == (\E packet \in Packets : Store(packet)) \/ Rest

IsrNext == \/ RegisterInterrupt \/ Interrupt \/ Receive \/ ReceiveNotify
           \/ Read("isr") \/ CopyHead("isr") \/ \E g \in Garbage : CopyData("isr", g)

ListenNext == \/ StartListen \/ ListenDone \/ ListenAvailable
              \/ Read("listen") \/ CopyHead("listen")
              \/ \E g \in Garbage : CopyData("listen", g)

Next == \/ Hear \/ DeviceWorks \/ IsrNext \/ ListenNext
        \/ (\E frame \in Commands : SendMsg(frame)) \/ Transmit

\* The radio comes to the end of a frame and the kernel runs both threads.
Fairness == WF_vars(DeviceWorks) /\ WF_vars(IsrNext) /\ WF_vars(ListenNext)

Spec == Init /\ [][Next]_vars /\ Fairness

-----------------------------------------------------------------------------
(* Type correctness: the received and the sent frames stay inside data[30]  *)
(* (misc/INode.h), whatever a node was asked to pack.                       *)
FrameType == [taille : 0..DataSize, data : Seq(Byte), head : 0..MaxFrames,
              body : 0..MaxFrames]

TypeOK ==
    /\ heard \in Seq(Packets) /\ register = Len(heard) /\ Len(heard) <= MaxFrames
    /\ available \in BOOLEAN /\ edge \in BOOLEAN /\ overlapped \in BOOLEAN
    /\ busy \in {"no", "hears", "stored", "sends"}
    /\ lost \subseteq 1..MaxFrames
    /\ at["isr"] \in {"out", "idle", "receive", "read", "head", "data", "notify"}
    /\ at["listen"] \in {"out", "loop", "read", "head", "data"}
    /\ trame \in [Readers -> 0..MaxFrames] /\ m_rx_done \in BOOLEAN
    /\ m_receivedframe \in FrameType /\ Len(m_receivedframe.data) < DataSize
    /\ notified \in Seq(FrameType)
    /\ sending \in Commands \cup {NoCommand} /\ Len(sent) <= MaxCommands

\* What is handed over belongs to one frame, the frames come in the order they were
\* heard in, and none comes more than three times.
WholeAndInOrder ==
    \A k \in DOMAIN notified :
        /\ notified[k].head = notified[k].body
        /\ k > 1 => notified[k - 1].head <= notified[k].head
        /\ k > 3 => notified[k - 3].head < notified[k].head

\* A frame handed over in one piece is read by its plugin as what its node packed.
Decoded ==
    \A k \in DOMAIN notified :
        LET frame == notified[k]
            packet == heard[frame.head]
        IN frame.head = frame.body /\ Plain(packet) /\ Len(packet.data) <= ReadSize
             => ReadsAs(packet, SubSeq(frame.data, 1, frame.taille - 1))

\* The two readers share m_receivedframe without a lock, and both may read one
\* frame (receive, listenSignal).  As long as they do not read inside each other's
\* Read to Notify, every frame reaches the observers whole and in order; and a frame
\* that is whole, by luck or not, and no longer than what is read, shows the values
\* its node packed.
Delivered == (~overlapped => WholeAndInOrder) /\ Decoded

Notified == {notified[k].head : k \in {n \in DOMAIN notified :
                                          notified[n].head = notified[n].body}}

\* Every frame the device heard, before the interrupt was registered or after, is
\* notified by one of the two threads, unless the device heard the next one over
\* it or the two readers ran into each other.
EveryFrameNotified ==
    \A k \in 1..MaxFrames :
        (k <= Len(heard)) ~> (k \in Notified \cup lost \/ overlapped)
=============================================================================
