--------------------------------- MODULE Pll ---------------------------------
(***************************************************************************)
(* pll of plugins/rf/protocolRF.cpp, which turns samples of the receiver   *)
(* into frames, eight samples to a half bit.  The gateway's pll in         *)
(* plugins/serial-rf/YdleSerial/ydle.cpp is the same code with a bit_count *)
(* of eight bits, another limit on the size, and the test of the CRC put   *)
(* off until receive.                                                      *)
(*                                                                         *)
(* rx is the receiver's state.  receptor, sender and type are wider than   *)
(* eight bits in the master, but only their low eight bits are used.       *)
(***************************************************************************)
EXTENDS RadioFrame

CONSTANTS
    CountMod,        \* bit_count wraps at this: 2^8 in the gateway, and nowhere near in
                     \* the master, an int
    MaxSize          \* the largest size the length check lets through

ASSUME CountModAssumption == CountMod \in Nat /\ CountMod >= 256
ASSUME MaxSizeAssumption == MaxSize \in 1..31

VARIABLE rx

WordMod == 65536                            \* rx_bits has sixteen bits
StartPattern == 25945                       \* 0x6559: the start byte's half bits
NoData == [i \in 0..30 |-> 0]
NoFrame == [receptor |-> 0, sender |-> 0, type |-> 0, data |-> <<>>]

Initial == [ramp |-> 0, sum |-> 0, last |-> 0, bits |-> 0, active |-> FALSE,
            count |-> 0, size |-> 0, lengthOk |-> FALSE,
            receptor |-> 0, sender |-> 0, type |-> 0, data |-> NoData,
            frame |-> NoFrame, done |-> FALSE]

Push(x, b) == (2 * x + b) % 256

\* One half bit of two is kept, where its position says.
Shifted(r, b) ==
    IF r.count % 2 = 0 THEN r
    ELSE IF r.count < 16 THEN [r EXCEPT !.receptor = Push(@, b)]
    ELSE IF r.count < 32 THEN [r EXCEPT !.sender = Push(@, b)]
    ELSE IF r.count < 38 THEN [r EXCEPT !.type = Push(@, b)]
    ELSE IF r.count < 48 THEN [r EXCEPT !.size = 2 * @ + b]
    ELSE IF r.count - 48 < 16 * r.size
         THEN [r EXCEPT !.lengthOk = TRUE, !.data[(r.count - 48) \div 16] = Push(@, b)]
    ELSE r

\* Mutant: the type is left for the next frame to shift.
ForgetsType(r) ==
    [r EXCEPT !.active = FALSE, !.lengthOk = FALSE, !.receptor = 0, !.sender = 0,
              !.data = NoData]

Forgotten(r) ==
    [r EXCEPT !.active = FALSE, !.lengthOk = FALSE, !.receptor = 0, !.sender = 0,
              !.type = 0, !.data = NoData]

BadSize(r) == r.count >= 48 /\ r.size \notin 1..MaxSize

\* Mutant: one half bit more than the message has is waited for.
WholeLate(r) == r.count > 48 + 16 * r.size /\ r.lengthOk

Whole(r) == r.count >= 48 + 16 * r.size /\ r.lengthOk

\* The frame is handed over when the last byte is the CRC of the others.
Completed(r) ==
    LET frame == [receptor |-> r.receptor, sender |-> r.sender, type |-> r.type,
                  data |-> [i \in 1..(r.size - 1) |-> r.data[i - 1]]]
    IN [Forgotten(r) EXCEPT !.frame = frame,
                            !.done = r.data[r.size - 1] = ComputeCrc(frame)]

\* Half bit b inside a message.
Collected(q, b) ==
    LET r == Shifted([q EXCEPT !.count = (@ + 1) % CountMod], b)
    IN IF BadSize(r) THEN [Forgotten(r) EXCEPT !.count = 0]
       ELSE IF Whole(r) THEN Completed(r)
       ELSE r

\* Outside of one, the start byte is looked for.
Sought(r) ==
    IF r.bits = StartPattern THEN [r EXCEPT !.active = TRUE, !.count = 0, !.size = 0]
    ELSE r

HalfBit(q, b) ==
    LET r == [q EXCEPT !.bits = (2 * @ + b) % WordMod]
    IN IF r.active THEN Collected(r, b) ELSE Sought(r)

\* A half bit ends when the ramp gets to 160; a transition speeds up a ramp that is
\* behind and slows down one that is ahead.
Ramp(r, s) == r.ramp + (IF s = r.last THEN 20 ELSE IF r.ramp < 80 THEN 11 ELSE 29)

\* Mutant: the samples of the last half bit are counted again.
SampledOn(r, s) ==
    LET q == [r EXCEPT !.sum = @ + s, !.last = s, !.ramp = Ramp(r, s)]
    IN IF q.ramp < 160 THEN q
       ELSE HalfBit([q EXCEPT !.ramp = @ - 160], IF q.sum >= 5 THEN 1 ELSE 0)

\* One call of pll with sample s.
Sampled(r, s) ==
    LET q == [r EXCEPT !.sum = @ + s, !.last = s, !.ramp = Ramp(r, s)]
    IN IF q.ramp < 160 THEN q
       ELSE HalfBit([q EXCEPT !.ramp = @ - 160, !.sum = 0],
                    IF q.sum >= 5 THEN 1 ELSE 0)

-----------------------------------------------------------------------------
\* The receiver by itself, in front of any signal at all.
Init == rx = Initial
Next == \E s \in 0..1 : rx' = Sampled([rx EXCEPT !.done = FALSE], s)
Spec == Init /\ [][Next]_rx

\* The types of rx: a half bit has at most fourteen samples, and ramp is less than 160
\* between two samples.
Ramps == 0..159
Sums == 0..14
Level == 0..1
Word == 0..(WordMod - 1)
Counts == 0..(CountMod - 1)
Data == [0..30 -> Byte]
Frame == [receptor : Byte, sender : Byte, type : Byte, data : Seq(Byte)]

Receiver ==
    [ramp : Ramps, sum : Sums, last : Level, bits : Word, active : BOOLEAN,
     count : Counts, size : Nat, lengthOk : BOOLEAN,
     receptor : Byte, sender : Byte, type : Byte, data : Data,
     frame : Frame, done : BOOLEAN]

\* What the receiver may be, whatever it samples: sample_sum and pll_ramp stay far
\* inside their eight bits, and a size that was let through is within its limits for
\* as long as data is taken, so that m_data is not written or read past its end.
Bounded ==
    /\ rx \in Receiver
    /\ 11 * rx.sum <= rx.ramp
    /\ rx.active /\ rx.count >= 48 => rx.size \in 1..MaxSize

\* The receiver is never further inside a message than the longest one is long: after
\* a start byte by chance, a size of nothing or a transmission that broke off, it looks
\* for a start byte again.  (A count that wraps, the gateway's, begins anew instead.)
MessageEnds == rx.active => rx.count < 48 + 16 * MaxSize
=============================================================================
