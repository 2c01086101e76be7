----------------------------- MODULE RadioFrame ------------------------------
(***************************************************************************)
(* A frame and what transmit (plugins/rf/protocolRF.cpp) puts on the air   *)
(* for it: the AGC sequence, the start byte, receptor, sender, type and    *)
(* size, the data and the CRC, each bit as a Manchester pair of half bits. *)
(***************************************************************************)
EXTENDS Integers, Sequences

Byte == 0..255

\* taille of a frame that is sent counts its data and the CRC: Len(data) + 1.
Taille(frame) == Len(frame.data) + 1

\* 1 shifted left n times.
TwoTo(n) == <<1, 2, 4, 8, 16, 32, 64, 128>>[n + 1]

Bit(x, i) == (x \div TwoTo(i)) % 2

Xor(x, y) ==
    LET Digit(i) == TwoTo(i) * ((Bit(x, i) + Bit(y, i)) % 2)
    IN Digit(0) + Digit(1) + Digit(2) + Digit(3) + Digit(4) + Digit(5) + Digit(6)
         + Digit(7)

\* _atm_crc8_table: the remainders by x^8 + x^2 + x + 1, to which x, eight times
\* doubled, comes down.
Doubled(x) == IF x < 128 THEN 2 * x ELSE Xor((2 * x) % 256, 7)
CrcTable ==
    [x \in Byte |-> Doubled(Doubled(Doubled(Doubled(Doubled(Doubled(Doubled(Doubled(x))))))))]

\* crc8 of src/misc/crc.cpp, with its final exclusive or of 0x55.
Crc8(bytes) ==
    LET crc[n \in 0..Len(bytes)] ==
            IF n = 0 THEN 0 ELSE CrcTable[Xor(bytes[n], crc[n - 1])]
    IN Xor(crc[Len(bytes)], 85)

ComputeCrc(frame) ==
    Crc8(<<frame.sender, frame.receptor, ((frame.type * 32) % 256) + Taille(frame)>>
         \o frame.data)

AgcBits == [n \in 1..32 |-> 1]
StartBits == <<0, 1, 0, 0, 0, 0, 1, 0>>

\* m_FrameBits: itob writes each number high bit first.
FrameBits(frame) ==
    LET bytes == <<frame.receptor, frame.sender, frame.type * 32 + Taille(frame)>>
                 \o frame.data \o <<ComputeCrc(frame)>>
    IN [n \in 1..(8 * Len(bytes)) |->
            Bit(bytes[((n - 1) \div 8) + 1], 7 - ((n - 1) % 8))]

\* sendPair sends a bit and then its complement.
HalfBits(frame) ==
    LET bits == AgcBits \o StartBits \o FrameBits(frame)
    IN [n \in 1..(2 * Len(bits)) |->
            IF n % 2 = 1 THEN bits[(n + 1) \div 2] ELSE 1 - bits[n \div 2]]
=============================================================================
