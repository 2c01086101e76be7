------------------------------ MODULE NodeData -------------------------------
(***************************************************************************)
(* The data of a frame: what a node packs (addData of the two radio        *)
(* protocols, the same text twice) and what the plugins of the master read *)
(* back (plugins/node0.5/node0.5.cpp, plugins/dht11/dhtxx.cpp,             *)
(* misc/Float.cpp).  An item is <<type, value>>, the value an integer; a   *)
(* value read back is a fraction <<integer, divisor>>.                     *)
(***************************************************************************)
EXTENDS Integers, Sequences

Byte == 0..255
Word == 0..65535

\* eDataType.
ETAT == 1
DEGREEC == 2
DEGREEF == 3
PERCENT == 4
DISTANCE == 5
WATT == 6
HUMIDITY == 7
PRESSION == 8

Types == ETAT..PRESSION
Signed == {DEGREEC, DEGREEF, PERCENT}

\* data[30]; addData leaves the thirtieth byte to the CRC.
DataSize == 30

-----------------------------------------------------------------------------
(* Packing.                                                                *)

Size(type) == IF type = ETAT THEN 1 ELSE IF type = WATT THEN 3 ELSE 2

Magnitude(v) == IF v < 0 THEN -v ELSE v

\* Mutant: the two's complement of a negative value is sent, and the sign.
SignedBytesTwos(type, v) ==
    LET sign == IF v < 0 THEN 8 ELSE 0
    IN <<16 * type + sign + ((v \div 256) % 16), v % 256>>

SignedBytes(type, v) ==
    LET sign == IF v < 0 THEN 8 ELSE 0
    IN <<16 * type + sign + ((Magnitude(v) \div 256) % 16), Magnitude(v) % 256>>

Bytes(type, v) ==
    IF type = ETAT THEN <<16 * type + (v % 16)>>
    ELSE IF type = WATT
      THEN <<16 * type + ((v \div 65536) % 16), (v \div 256) % 256, v % 256>>
    ELSE IF type \in Signed \cup {HUMIDITY} THEN SignedBytes(type, v)
    ELSE <<16 * type + ((v \div 256) % 16), v % 256>>

\* Mutant: the byte of the CRC is forgotten.
AddDataOneMore(data, type, v) ==
    IF Len(data) + Size(type) <= DataSize THEN data \o Bytes(type, v) ELSE data

\* An item that does not fit is left out, with a warning.
AddData(data, type, v) ==
    IF Len(data) + Size(type) < DataSize THEN data \o Bytes(type, v) ELSE data

\* The data after each of the items.
Packing(items) ==
    LET data[n \in 0..Len(items)] ==
            IF n = 0 THEN <<>> ELSE AddData(data[n - 1], items[n][1], items[n][2])
    IN data

Packed(items) == Packing(items)[Len(items)]

\* sDht11Data, as the node has it in memory: a temperature in half precision and a
\* humidity, both little-endian.
DhtBytes(temperature, humidity) ==
    <<temperature % 256, temperature \div 256, humidity % 256, humidity \div 256>>

\* What a node sends, for the plugin its settings give it.
Data(plugin, items) ==
    IF plugin = "DHT11" THEN DhtBytes(items[1], items[2]) ELSE Packed(items)

-----------------------------------------------------------------------------
(* Reading, by the plugin of the node 0.5.                                 *)

\* The item whose first byte is number p + 1: fvalue is not assigned for ETAT.
ExtractData(data, p, fvalue) ==
    LET first == data[p + 1]
        type == first \div 16
        second == data[p + 2]
        eleven == (first % 8) * 256 + second
        twelve == (first % 16) * 256 + second
    IN IF type = ETAT THEN <<type, fvalue>>
       ELSE IF type \in Signed
         THEN <<type, <<IF (first \div 8) % 2 = 1 THEN -eleven ELSE eleven, 20>>>>
       ELSE IF type = HUMIDITY THEN <<type, <<twelve, 40>>>>
       ELSE IF type = WATT
         THEN <<type, <<twelve * 256 + data[p + 3], 1>>>>
       ELSE <<type, <<twelve, 1>>>>

\* fValue before the first item that sets it: an uninitialised float.
Unset == <<0, 0>>

\* One turn of the loop of GetData.  It makes no progress at a byte whose type no
\* case names, and an item cut by the end of the frame is completed from the bytes
\* behind it: either way what has been read so far is not `sound`.
Turn(data, r) ==
    LET type == data[r.p + 1] \div 16
        item == ExtractData(data, r.p, r.fvalue)
    IN IF r.p >= Len(data) \/ ~r.sound THEN r
       ELSE IF type \notin Types \/ r.p + Size(type) > Len(data)
         THEN [r EXCEPT !.sound = FALSE]
       ELSE [p |-> r.p + Size(type), fvalue |-> item[2],
             items |-> Append(r.items, item), sound |-> TRUE]

GetData(data) ==
    LET read[n \in 0..Len(data)] ==
            IF n = 0 THEN [p |-> 0, fvalue |-> Unset, items |-> <<>>, sound |-> TRUE]
                     ELSE Turn(data, read[n - 1])
    IN read[Len(data)]

-----------------------------------------------------------------------------
(* Reading, by the plugin of the DHT11.                                    *)

Half(data, p) == data[p + 1] + 256 * data[p + 2]

\* 1 shifted left n times.
TwoTo(n) ==
    <<1, 2, 4, 8, 16, 32, 64, 128, 256, 512, 1024, 2048, 4096, 8192, 16384, 32768, 65536, 131072,
      262144, 524288, 1048576, 2097152, 4194304, 8388608>>[n + 1]

\* half_to_float_full: the sign, the exponent and the mantissa of the float.
Float16To32(half) ==
    LET sign == half \div 32768
        e == (half \div 1024) % 32
        m == half % 1024
        shift == CHOOSE n \in 1..10 : m * TwoTo(n) \in 1024..2047
        Float(exponent, mantissa) ==
            [sign |-> sign, exponent |-> exponent, mantissa |-> mantissa * 8192]
    IN IF e = 0 /\ m = 0 THEN Float(0, 0)
       ELSE IF e = 0 THEN Float(113 - shift, (m * TwoTo(shift)) % 1024)
       ELSE IF e = 31 THEN Float(255, m)
       ELSE Float(112 + e, m)

Int16(half) == IF half >= 32768 THEN half - 65536 ELSE half

DhtGetData(data) ==
    <<<<DEGREEC, Float16To32(Half(data, 0))>>, <<HUMIDITY, Int16(Half(data, 2))>>>>

-----------------------------------------------------------------------------
(* What the master should read.                                            *)

\* The largest number of the twenty bits of a WATT.
WattMax == 1048575

\* The values that survive packing, and the divisor of the unit they are in.
Values(type) ==
    IF type = ETAT THEN 0..15
    ELSE IF type \in Signed THEN -2047..2047
    ELSE IF type = WATT THEN 0..WattMax
    ELSE 0..4095

Divisor(type) == IF type \in Signed THEN 20 ELSE IF type = HUMIDITY THEN 40 ELSE 1

NoneLeftOut(items) ==
    \A n \in DOMAIN items :
        Len(Packing(items)[n]) = Len(Packing(items)[n - 1]) + Size(items[n][1])

\* A packet whose values are in range and all fit.
Plain(packet) ==
    packet.plugin # "DHT11" =>
        /\ \A n \in DOMAIN packet.items : packet.items[n][2] \in Values(packet.items[n][1])
        /\ NoneLeftOut(packet.items)

\* A single and a half are the same finite number: with n and q the integer and
\* the exponent of the half, 2^23 + mantissa = n * 2^(q - exponent + 126).
SameNumber(float, half) ==
    LET e == (half \div 1024) % 32
        n == IF e = 0 THEN half % 1024 ELSE 1024 + (half % 1024)
        q == IF e = 0 THEN 0 ELSE e - 1
        float24 == 8388608 + float.mantissa
    IN e = 31 \/ /\ (n = 0 => float.exponent = 0 /\ float.mantissa = 0)
                 /\ (n # 0 => float24 = n * TwoTo(q + 126 - float.exponent))
                 /\ float.sign = half \div 32768

\* A signed number of sixteen bits with the bits of a word.
SameBits(number, word) ==
    (number - word) % 65536 = 0 /\ -32768 <= number /\ number < 32768

\* The bytes are read as the values of the packet; an ETAT has no value.
ReadsAs(packet, data) ==
    IF packet.plugin = "DHT11"
      THEN LET read == DhtGetData(data)
           IN /\ SameNumber(read[1][2], packet.items[1])
              /\ SameBits(read[2][2], packet.items[2])
      ELSE LET read == GetData(data)
           IN /\ read.sound
              /\ Len(read.items) = Len(packet.items)
              /\ \A n \in DOMAIN packet.items :
                   LET item == packet.items[n]
                   IN /\ read.items[n][1] = item[1]
                      /\ item[1] # ETAT => read.items[n][2] = <<item[2], Divisor(item[1])>>
=============================================================================
