----------------------------- MODULE I2CRFProofs ------------------------------
(***************************************************************************)
(* Proofs about I2CRF, for any packets, commands and number of frames: its *)
(* types, and that what is handed over is whole, in order, and read as     *)
(* what the node packed.                                                   *)
(***************************************************************************)
EXTENDS I2CRF, SequenceTheorems, NaturalsInduction, WellFoundedInduction, TLAPS

-----------------------------------------------------------------------------
(* Bytes                                                                   *)

LEMMA ByteOf == ASSUME NEW a \in Int PROVE a % 256 \in Byte /\ a % 16 \in 0..15
BY SMT DEF Byte

\* The number of a type and what is behind it in the first byte.
LEMMA FirstByte ==
    ASSUME NEW type \in 1..8, NEW x \in 0..15
    PROVE  /\ 16 * type + x \in Byte
           /\ (16 * type + x) \div 16 = type /\ (16 * type + x) % 16 = x
           /\ (16 * type + x) \div 8 = 2 * type + x \div 8 /\ (16 * type + x) % 8 = x % 8
BY SMT DEF Byte

LEMMA Divided ==
    ASSUME NEW v \in Nat
    PROVE  /\ v \div 256 \in Nat /\ v % 256 \in 0..255
           /\ 256 * (v \div 256) + (v % 256) = v
BY SMT

\* The two digits of base 256 of a value of twelve bits, and the three of one of twenty.
LEMMA TwoDigits ==
    ASSUME NEW v \in Nat, v < 4096
    PROVE  /\ v \div 256 \in 0..15 /\ (v \div 256) % 16 = v \div 256
           /\ (v \div 256) * 256 + (v % 256) = v
<1> DEFINE q == v \div 256
           d == v % 256
<1>1. q \in Nat /\ d \in 0..255 /\ 256 * q + d = v
  BY Divided
<1> HIDE DEF q, d
<1>2. q \in 0..15 /\ q % 16 = q /\ q * 256 + d = v
  BY SMT, <1>1
<1> QED BY <1>2 DEF q, d

LEMMA ThreeDigits ==
    ASSUME NEW v \in Nat, v \div 65536 \in 0..15
    PROVE  (((v \div 65536) % 16) * 256 + ((v \div 256) % 256)) * 256 + (v % 256) = v
<1> DEFINE q == v \div 256
           d == v % 256
           h == v \div 65536
<1>1. q \in Nat /\ d \in 0..255 /\ 256 * q + d = v
  BY Divided
<1>2. h = q \div 256
  BY SMT
<1> HIDE DEF q, d, h
<1>3. h \in 0..15
  BY DEF h
<1>4. 256 * h + (q % 256) = q /\ q % 256 \in Int
  BY <1>1, <1>2, Divided
<1>5. h % 16 = h
  BY SMT, <1>3
<1>6. ((h % 16) * 256 + (q % 256)) * 256 + d = v
  BY SMT, <1>1, <1>3, <1>4, <1>5
<1> QED BY <1>6 DEF q, d, h

LEMMA TypeNumbers ==
    /\ Types = 1..8 /\ ETAT = 1 /\ WATT = 6 /\ HUMIDITY = 7 /\ Signed = {2, 3, 4}
BY SMT DEF Types, ETAT, DEGREEC, DEGREEF, PERCENT, WATT, HUMIDITY, PRESSION, Signed

\* A magnitude of eleven bits and the sign in the bit above.
LEMMA SignAndMagnitude ==
    ASSUME NEW m \in Nat, m < 2048, NEW s \in {0, 8}
    PROVE  /\ s + ((m \div 256) % 16) \in 0..15
           /\ (s + ((m \div 256) % 16)) \div 8 = IF s = 8 THEN 1 ELSE 0
           /\ ((s + ((m \div 256) % 16)) % 8) * 256 + (m % 256) = m
<1> DEFINE q == m \div 256
           d == m % 256
<1>1. q \in Nat /\ d \in 0..255 /\ 256 * q + d = m
  BY Divided
<1> HIDE DEF q, d
<1>2. q \in 0..7
  BY SMT, <1>1
<1>3. q % 16 = q /\ s + q \in 0..15 /\ (s + q) % 8 = q
  BY SMT, <1>2
<1>4. (s + q) \div 8 = IF s = 8 THEN 1 ELSE 0
  BY SMT, <1>2
<1>5. s + (q % 16) \in 0..15 /\ (s + (q % 16)) \div 8 = (IF s = 8 THEN 1 ELSE 0)
      /\ ((s + (q % 16)) % 8) * 256 + d = m
  BY SMT, <1>1, <1>3, <1>4
<1> QED BY <1>5 DEF q, d

-----------------------------------------------------------------------------
(* Packing                                                                 *)

LEMMA SizeOf == ASSUME NEW type PROVE Size(type) \in 1..3
BY DEF Size

LEMMA Triples ==
    ASSUME NEW S, NEW a \in S, NEW b \in S, NEW c \in S
    PROVE  /\ <<a>> \in Seq(S) /\ Len(<<a>>) = 1
           /\ <<a, b>> \in Seq(S) /\ Len(<<a, b>>) = 2
           /\ <<a, b, c>> \in Seq(S) /\ Len(<<a, b, c>>) = 3
OBVIOUS

LEMMA MagnitudeType == ASSUME NEW v \in Int PROVE Magnitude(v) \in Nat
BY DEF Magnitude

LEMMA FirstOf ==
    ASSUME NEW type \in 1..8, NEW a \in Int
    PROVE  16 * type + (a % 16) \in Byte
BY ByteOf, FirstByte

LEMMA SignedFirst ==
    ASSUME NEW type \in 1..8, NEW s \in {0, 8}, NEW a \in Int
    PROVE  16 * type + s + (a % 16) \in Byte
<1>1. a % 16 \in 0..15
  BY ByteOf
<1> DEFINE x == a % 16
<1> HIDE DEF x
<1>2. x \in 0..15
  BY <1>1 DEF x
<1>3. 16 * type + s + x \in Byte
  BY SMT, <1>2 DEF Byte
<1> QED BY <1>3 DEF x

\* Whatever the value, an item is packed into as many bytes as its type has.
LEMMA BytesType ==
    ASSUME NEW type \in Types, NEW v \in Int
    PROVE  Bytes(type, v) \in Seq(Byte) /\ Len(Bytes(type, v)) = Size(type)
<1>0. type \in 1..8
  BY TypeNumbers
<1>1. /\ v \div 65536 \in Int /\ v \div 256 \in Int
      /\ Magnitude(v) \div 256 \in Int /\ Magnitude(v) \in Int
  <2>1. Magnitude(v) \in Int
    BY MagnitudeType
  <2> QED BY SMT, <2>1
<1>2. CASE type = ETAT
  <2>1. Bytes(type, v) = <<16 * type + (v % 16)>> /\ Size(type) = 1
    BY <1>2 DEF Bytes, Size
  <2> QED BY <2>1, <1>0, FirstOf, Triples
<1>3. CASE type = WATT
  <2>1. /\ Bytes(type, v) = <<16 * type + ((v \div 65536) % 16), (v \div 256) % 256, v % 256>>
        /\ Size(type) = 3
    BY <1>3, TypeNumbers DEF Bytes, Size
  <2>2. 16 * type + ((v \div 65536) % 16) \in Byte /\ (v \div 256) % 256 \in Byte
        /\ v % 256 \in Byte
    BY <1>0, <1>1, FirstOf, ByteOf
  <2> QED BY <2>1, <2>2, Triples
<1>4. CASE type # ETAT /\ type # WATT /\ type \in Signed \cup {HUMIDITY}
  <2> DEFINE s == IF v < 0 THEN 8 ELSE 0
             m == Magnitude(v)
  <2>1. /\ Bytes(type, v) = <<16 * type + s + ((m \div 256) % 16), m % 256>>
        /\ Size(type) = 2
    BY <1>4 DEF Bytes, Size, SignedBytes
  <2>2. s \in {0, 8}
    OBVIOUS
  <2>3. m \in Int /\ m \div 256 \in Int
    BY <1>1
  <2> HIDE DEF s, m
  <2>4. 16 * type + s + ((m \div 256) % 16) \in Byte /\ m % 256 \in Byte
    BY <1>0, <2>2, <2>3, SignedFirst, ByteOf
  <2> QED BY <2>1, <2>4, Triples
<1>5. CASE type # ETAT /\ type # WATT /\ type \notin Signed \cup {HUMIDITY}
  <2>1. /\ Bytes(type, v) = <<16 * type + ((v \div 256) % 16), v % 256>>
        /\ Size(type) = 2
    BY <1>5 DEF Bytes, Size
  <2>2. 16 * type + ((v \div 256) % 16) \in Byte /\ v % 256 \in Byte
    BY <1>0, <1>1, FirstOf, ByteOf
  <2> QED BY <2>1, <2>2, Triples
<1> QED BY <1>2, <1>3, <1>4, <1>5

-----------------------------------------------------------------------------
(* Reading one item back                                                   *)

\* A value of twelve bits behind a type.
LEMMA TwelveBits ==
    ASSUME NEW type \in 1..8, NEW v \in 0..4095
    PROVE  LET first == 16 * type + ((v \div 256) % 16)
               second == v % 256
           IN  first \div 16 = type /\ (first % 16) * 256 + second = v
<1> DEFINE first == 16 * type + ((v \div 256) % 16)
           second == v % 256
<1>1. v \in Nat /\ v < 4096
  OBVIOUS
<1> DEFINE x == (v \div 256) % 16
<1>2. x \in 0..15 /\ x * 256 + second = v
  BY <1>1, TwoDigits
<1>3. first = 16 * type + x
  OBVIOUS
<1> HIDE DEF x, first, second
<1>4. first \div 16 = type /\ first % 16 = x
  BY <1>2, <1>3, FirstByte
<1>5. first \div 16 = type /\ (first % 16) * 256 + second = v
  BY <1>2, <1>4
<1> QED BY <1>5 DEF first, second

LEMMA WattMaxNat == WattMax \in Nat
BY SMT DEF WattMax

LEMMA WattMaxHas == ASSUME NEW v \in Nat, v <= WattMax PROVE v \div 65536 \in 0..15
BY SMT DEF WattMax

LEMMA TwentyBits ==
    ASSUME NEW type \in 1..8, NEW v \in 0..WattMax, NEW first, NEW second, NEW third,
           first = 16 * type + ((v \div 65536) % 16), second = (v \div 256) % 256,
           third = v % 256
    PROVE  /\ first \div 16 = type
           /\ ((first % 16) * 256 + second) * 256 + third = v
<1> DEFINE h == v \div 65536
           x == h % 16
<1>1. v \in Nat /\ v <= WattMax
  BY WattMaxNat
<1>2. h \in 0..15
  BY <1>1, WattMaxHas
<1>3. x \in 0..15
  BY <1>2
<1>4. (x * 256 + second) * 256 + third = v
  BY <1>1, <1>2, ThreeDigits
<1> HIDE DEF h, x
<1>5. first = 16 * type + x
  BY DEF h, x
<1>6. first \div 16 = type /\ first % 16 = x
  BY <1>3, <1>5, FirstByte
<1> QED BY <1>4, <1>6

SignedFirstByte(type, v) ==
    16 * type + (IF v < 0 THEN 8 ELSE 0) + ((Magnitude(v) \div 256) % 16)

SignedRead(first, second) ==
    IF (first \div 8) % 2 = 1 THEN -((first % 8) * 256 + second)
                              ELSE (first % 8) * 256 + second

LEMMA SignAndElevenBits ==
    ASSUME NEW type \in 1..8, NEW v \in Int, Magnitude(v) < 2048
    PROVE  /\ SignedFirstByte(type, v) \div 16 = type
           /\ SignedRead(SignedFirstByte(type, v), Magnitude(v) % 256) = v
<1> DEFINE first == SignedFirstByte(type, v)
           second == Magnitude(v) % 256
           m == Magnitude(v)
           s == IF v < 0 THEN 8 ELSE 0
           x == s + ((m \div 256) % 16)
<1>1. m \in Nat /\ m < 2048 /\ v = IF s = 8 THEN -m ELSE m
  BY DEF Magnitude
<1>2. s \in {0, 8}
  OBVIOUS
<1>3. (m \div 256) % 16 \in Int
  <2>1. m \div 256 \in Int
    BY <1>1, Divided
  <2> HIDE DEF m
  <2> QED BY <2>1, ByteOf
<1>4. first = 16 * type + s + ((m \div 256) % 16) /\ second = m % 256
  BY DEF SignedFirstByte
<1> HIDE DEF m, s, first, second
<1>5. x \in 0..15 /\ x \div 8 = (IF s = 8 THEN 1 ELSE 0) /\ (x % 8) * 256 + second = m
  BY <1>1, <1>2, <1>4, SignAndMagnitude
<1>6. first = 16 * type + x
  BY <1>2, <1>3, <1>4
<1> HIDE DEF x
<1>7. first \div 16 = type /\ first \div 8 = 2 * type + x \div 8 /\ first % 8 = x % 8
  BY <1>5, <1>6, FirstByte
<1>8. (first \div 8) % 2 = (IF s = 8 THEN 1 ELSE 0)
  BY SMT, <1>5, <1>7
<1>9. first \div 16 = type /\ SignedRead(first, second) = v
  BY <1>1, <1>2, <1>5, <1>7, <1>8 DEF SignedRead
<1> QED BY <1>9 DEF first, second

LEMMA ValuesInt == ASSUME NEW type \in Types, NEW v \in Values(type) PROVE v \in Int
<1>1. CASE type = WATT
  BY <1>1, WattMaxNat, TypeNumbers DEF Values
<1>2. CASE type # WATT
  BY <1>2, TypeNumbers DEF Values
<1> QED BY <1>1, <1>2

\* The bytes of an item are in the data from byte p + 1 on.
Behind(data, p, type, v) ==
    /\ p \in Nat /\ p + Size(type) <= Len(data)
    /\ \A i \in 1..Size(type) : data[p + i] = Bytes(type, v)[i]

\* A value in range is read back from the bytes it was packed into, wherever they are.
LEMMA ItemRead ==
    ASSUME NEW type \in Types, NEW v \in Values(type), NEW data, NEW p, NEW f,
           Behind(data, p, type, v)
    PROVE  /\ data[p + 1] \div 16 = type
           /\ ExtractData(data, p, f)[1] = type
           /\ type # ETAT => ExtractData(data, p, f)[2] = <<v, Divisor(type)>>
<1> DEFINE first == data[p + 1]
           second == data[p + 2]
           third == data[p + 3]
<1>0. type \in 1..8 /\ \A i \in 1..Size(type) : data[p + i] = Bytes(type, v)[i]
  BY TypeNumbers DEF Behind
<1>1. CASE type = ETAT
  <2>1. Bytes(type, v) = <<16 * type + (v % 16)>> /\ Size(type) = 1
    BY <1>1 DEF Bytes, Size
  <2>2. first = 16 * type + (v % 16)
    BY <1>0, <2>1
  <2>3. v % 16 \in 0..15
    BY ValuesInt, ByteOf
  <2>4. first \div 16 = type
    BY <1>0, <2>2, <2>3, FirstByte
  <2> QED BY <1>1, <2>4 DEF ExtractData
<1>2. CASE type = WATT
  <2>1. /\ Bytes(type, v) = <<16 * type + ((v \div 65536) % 16), (v \div 256) % 256, v % 256>>
        /\ Size(type) = 3 /\ v \in 0..WattMax /\ Divisor(type) = 1
    BY <1>2, TypeNumbers DEF Bytes, Size, Values, Divisor
  <2>2. /\ first = 16 * type + ((v \div 65536) % 16) /\ second = (v \div 256) % 256
        /\ third = v % 256
    BY <1>0, <2>1
  <2>3. first \div 16 = type /\ ((first % 16) * 256 + second) * 256 + third = v
    BY <1>0, <2>1, <2>2, TwentyBits
  <2>4. ExtractData(data, p, f) = <<type, <<((first % 16) * 256 + second) * 256 + third, 1>>>>
    BY <1>2, <2>3, TypeNumbers DEF ExtractData
  <2> QED BY <2>1, <2>3, <2>4
<1>3. CASE type \in Signed
  <2>1. /\ Bytes(type, v) = <<SignedFirstByte(type, v), Magnitude(v) % 256>>
        /\ Size(type) = 2 /\ v \in -2047..2047 /\ Divisor(type) = 20
    BY <1>3, TypeNumbers DEF Bytes, SignedBytes, Size, Values, Divisor, SignedFirstByte
  <2>2. first = SignedFirstByte(type, v) /\ second = Magnitude(v) % 256
    BY <1>0, <2>1
  <2>3. first \div 16 = type /\ SignedRead(first, second) = v
    <3>1. v \in Int /\ Magnitude(v) < 2048 /\ type \in 1..8
      BY <1>0, <2>1 DEF Magnitude
    <3>2. SignedFirstByte(type, v) \div 16 = type /\ SignedRead(SignedFirstByte(type, v), Magnitude(v) % 256) = v
      BY <3>1, SignAndElevenBits
    <3> QED BY <3>2, <2>2
  <2>4. ExtractData(data, p, f) = <<type, <<SignedRead(first, second), 20>>>>
    BY <1>3, <2>3, TypeNumbers DEF ExtractData, SignedRead
  <2> HIDE DEF first, second, third
  <2> QED BY <2>1, <2>3, <2>4 DEF first
<1>4. CASE type \in {5, 7, 8}
  <2>1. /\ Bytes(type, v) = <<16 * type + ((v \div 256) % 16), v % 256>>
        /\ Size(type) = 2 /\ v \in 0..4095
    <3>1. v \in 0..4095 /\ Size(type) = 2
      BY <1>4, TypeNumbers DEF Values, Size
    <3>2. Magnitude(v) = v /\ ~(v < 0) /\ v \in Int
      BY <3>1 DEF Magnitude
    <3>3. CASE type = 7
      <4>1. Bytes(type, v) = <<16 * type + 0 + ((v \div 256) % 16), v % 256>>
        BY <3>2, <3>3, TypeNumbers DEF Bytes, SignedBytes
      <4>2. 16 * type + 0 = 16 * type
        BY <3>3
      <4> QED BY <3>1, <4>1, <4>2
    <3>4. CASE type # 7
      BY <1>4, <3>1, <3>4, TypeNumbers DEF Bytes
    <3> QED BY <3>3, <3>4
  <2>2. first = 16 * type + ((v \div 256) % 16) /\ second = v % 256
    BY <1>0, <2>1
  <2>3. first \div 16 = type /\ (first % 16) * 256 + second = v
    BY <1>0, <2>1, <2>2, TwelveBits
  <2> HIDE DEF first, second, third
  <2>4. ExtractData(data, p, f) = <<type, <<(first % 16) * 256 + second, Divisor(type)>>>>
    BY <1>4, <2>3, TypeNumbers DEF ExtractData, Divisor, first, second, third
  <2> QED BY <2>1, <2>3, <2>4 DEF first
<1> QED BY <1>0, <1>1, <1>2, <1>3, <1>4, TypeNumbers

-----------------------------------------------------------------------------
(* Packing all the items                                                   *)

LessThan == {pair \in Nat \X Nat : pair[1] < pair[2]}

\* The least number outside S would follow one in S.
LEMMA SetInduction ==
    ASSUME NEW S, 0 \in S, \A n \in Nat : n \in S => n + 1 \in S
    PROVE  Nat \subseteq S
<1> DEFINE T == Nat \ S
<1> SUFFICES ASSUME T # {} PROVE FALSE
  OBVIOUS
<1>1. IsWellFoundedOn(LessThan, Nat)
  BY NatLessThanWellFounded DEF OpToRel, LessThan
<1>2. PICK m \in T : \A y \in T : ~(<<y, m>> \in LessThan)
  BY <1>1, WFMin
<1>3. m # 0 /\ m - 1 \in Nat /\ m - 1 < m
  OBVIOUS
<1>4. m - 1 \notin T
  BY <1>2, <1>3 DEF LessThan
<1> QED BY <1>3, <1>4

\* The definition of Packing, for the first n items.
PackingBody(items, d, n) ==
    IF n = 0 THEN <<>> ELSE AddData(d[n - 1], items[n][1], items[n][2])

IsPacking(items, n, d) == d = [k \in 0..n |-> PackingBody(items, d, k)]

LEMMA PackingIs == ASSUME NEW items PROVE IsPacking(items, Len(items), Packing(items))
              \/ ~\E d : IsPacking(items, Len(items), d)
BY DEF Packing, IsPacking, PackingBody

LEMMA PackingExists ==
    ASSUME NEW items, NEW N \in Nat PROVE \E d : IsPacking(items, N, d)
<1> DEFINE S == {n \in Nat : \E d : IsPacking(items, n, d)}
<1>1. 0 \in S
  <2>1. IsPacking(items, 0, [k \in 0..0 |-> <<>>])
    BY DEF IsPacking, PackingBody
  <2> QED BY <2>1
<1>2. ASSUME NEW n \in Nat, n \in S PROVE n + 1 \in S
  <2>1. PICK d : IsPacking(items, n, d)
    BY <1>2
  <2> DEFINE e == [k \in 0..(n + 1) |-> IF k <= n THEN d[k] ELSE PackingBody(items, d, n + 1)]
  <2>2. ASSUME NEW k \in 0..(n + 1) PROVE e[k] = PackingBody(items, e, k)
    <3>1. CASE k <= n
      <4>1. d[k] = PackingBody(items, d, k)
        BY <2>1, <3>1 DEF IsPacking
      <4>2. PackingBody(items, e, k) = PackingBody(items, d, k)
        BY <3>1 DEF PackingBody
      <4> QED BY <3>1, <4>1, <4>2
    <3>2. CASE k = n + 1
      BY <3>2 DEF PackingBody
    <3> QED BY <3>1, <3>2
  <2>3. IsPacking(items, n + 1, e)
    BY <2>2 DEF IsPacking
  <2> QED BY <2>3
<1>3. Nat \subseteq S
  <2> HIDE DEF S
  <2> QED BY <1>1, <1>2, SetInduction
<1> QED BY <1>3

LEMMA PackingDef ==
    ASSUME NEW items, Len(items) \in Nat
    PROVE  /\ Packing(items)[0] = <<>>
           /\ \A n \in 1..Len(items) :
                Packing(items)[n] = AddData(Packing(items)[n - 1], items[n][1], items[n][2])
<1> DEFINE d == Packing(items)
           N == Len(items)
<1>1. IsPacking(items, N, d)
  BY PackingIs, PackingExists
<1> HIDE DEF d, N
<1>2. \A n \in 0..N : d[n] = PackingBody(items, d, n)
  BY <1>1 DEF IsPacking
<1>3. N \in Nat
  BY DEF N
<1>4. d[0] = <<>> /\ \A n \in 1..N : d[n] = AddData(d[n - 1], items[n][1], items[n][2])
  BY <1>2, <1>3 DEF PackingBody
<1> QED BY <1>4 DEF d, N

LEMMA AddDataType ==
    ASSUME NEW data \in Seq(Byte), Len(data) < DataSize, NEW type \in Types, NEW v \in Int
    PROVE  /\ AddData(data, type, v) \in Seq(Byte)
           /\ Len(AddData(data, type, v)) < DataSize
<1>1. Bytes(type, v) \in Seq(Byte) /\ Len(Bytes(type, v)) = Size(type)
  BY BytesType
<1>2. data \o Bytes(type, v) \in Seq(Byte)
      /\ Len(data \o Bytes(type, v)) = Len(data) + Size(type)
  BY <1>1, ConcatProperties
<1> QED BY <1>2 DEF AddData

LEMMA PackingType ==
    ASSUME NEW items \in Seq(Types \X Int)
    PROVE  \A n \in 0..Len(items) :
             Packing(items)[n] \in Seq(Byte) /\ Len(Packing(items)[n]) < DataSize
<1> DEFINE d == Packing(items)
           N == Len(items)
           S == {n \in Nat : n <= N => d[n] \in Seq(Byte) /\ Len(d[n]) < DataSize}
<1>1. N \in Nat /\ \A n \in 1..N : items[n][1] \in Types /\ items[n][2] \in Int
  BY ElementOfSeq
<1>2. d[0] = <<>> /\ \A n \in 1..N : d[n] = AddData(d[n - 1], items[n][1], items[n][2])
  BY <1>1, PackingDef
<1> HIDE DEF d, N
<1>3. 0 \in S
  <2>1. <<>> \in Seq(Byte) /\ Len(<<>>) = 0
    OBVIOUS
  <2>2. d[0] \in Seq(Byte) /\ Len(d[0]) = 0
    BY <1>2, <2>1
  <2>3. Len(d[0]) < DataSize
    BY <2>2 DEF DataSize
  <2> QED BY <2>2, <2>3
<1>4. ASSUME NEW n \in Nat, n \in S PROVE n + 1 \in S
  <2>1. CASE n + 1 <= N
    <3>1. n + 1 \in 1..N /\ (n + 1) - 1 = n /\ n <= N
      BY <1>1, <2>1
    <3>2. d[n + 1] = AddData(d[n], items[n + 1][1], items[n + 1][2])
      BY <1>2, <3>1
    <3>3. d[n] \in Seq(Byte) /\ Len(d[n]) < DataSize
      BY <1>4, <3>1
    <3>4. items[n + 1][1] \in Types /\ items[n + 1][2] \in Int
      BY <1>1, <3>1
    <3> QED BY <3>2, <3>3, <3>4, AddDataType
  <2> QED BY <2>1
<1>5. Nat \subseteq S
  <2> HIDE DEF S
  <2> QED BY <1>3, <1>4, SetInduction
<1>6. \A n \in 0..N : d[n] \in Seq(Byte) /\ Len(d[n]) < DataSize
  BY <1>1, <1>5
<1> QED BY <1>6 DEF d, N

\* When no item is left out, the bytes of each are in the data behind those of the items
\* before it.
LEMMA PackedItem ==
    ASSUME NEW items \in Seq(Types \X Int), NoneLeftOut(items), NEW n \in 1..Len(items)
    PROVE  LET before == Packing(items)[n - 1]
               after == Packing(items)[n]
           IN  /\ before \in Seq(Byte) /\ after \in Seq(Byte)
               /\ Len(after) = Len(before) + Size(items[n][1])
               /\ \A i \in 1..Len(before) : after[i] = before[i]
               /\ \A i \in 1..Size(items[n][1]) :
                    after[Len(before) + i] = Bytes(items[n][1], items[n][2])[i]
<1> DEFINE before == Packing(items)[n - 1]
           after == Packing(items)[n]
           type == items[n][1]
           v == items[n][2]
<1>1. Len(items) \in Nat /\ n - 1 \in 0..Len(items) /\ n \in 0..Len(items)
  OBVIOUS
<1>2. before \in Seq(Byte) /\ after \in Seq(Byte)
  BY <1>1, PackingType
<1>3. after = AddData(before, type, v)
  BY <1>1, PackingDef
<1>4. Len(after) = Len(before) + Size(type)
  BY DEF NoneLeftOut
<1>5. type \in Types /\ v \in Int
  BY ElementOfSeq
<1>6. Bytes(type, v) \in Seq(Byte) /\ Len(Bytes(type, v)) = Size(type) /\ Size(type) \in 1..3
  BY <1>5, BytesType, SizeOf
<1> HIDE DEF before, after, type, v
<1>7. Len(before) \in Nat
  BY <1>2
<1>8. after = before \o Bytes(type, v)
  BY <1>3, <1>4, <1>6, <1>7 DEF AddData
<1>9. /\ \A i \in 1..Len(before) : after[i] = before[i]
      /\ \A i \in 1..Size(type) : after[Len(before) + i] = Bytes(type, v)[i]
  BY <1>2, <1>6, <1>7, <1>8
<1> QED BY <1>2, <1>4, <1>9 DEF before, after, type, v

LEMMA PackedPrefix ==
    ASSUME NEW items \in Seq(Types \X Int), NoneLeftOut(items), NEW n \in 0..Len(items)
    PROVE  \A m \in n..Len(items) :
             /\ Len(Packing(items)[n]) + (m - n) <= Len(Packing(items)[m])
             /\ \A i \in 1..Len(Packing(items)[n]) : Packing(items)[m][i] = Packing(items)[n][i]
<1> DEFINE d == Packing(items)
           N == Len(items)
           Prefix(m) == /\ Len(d[n]) + (m - n) <= Len(d[m])
                        /\ \A i \in 1..Len(d[n]) : d[m][i] = d[n][i]
           S == {k \in Nat : n + k <= N => Prefix(n + k)}
<1>1. N \in Nat /\ \A m \in 0..N : Len(d[m]) \in Nat
  <2>1. \A m \in 0..N : d[m] \in Seq(Byte)
    BY PackingType
  <2> QED BY <2>1
<1>2. \A m \in 1..N : /\ Len(d[m]) >= Len(d[m - 1]) + 1
                      /\ \A i \in 1..Len(d[m - 1]) : d[m][i] = d[m - 1][i]
  <2> TAKE m \in 1..N
  <2>1. /\ Len(d[m]) = Len(d[m - 1]) + Size(items[m][1])
        /\ \A i \in 1..Len(d[m - 1]) : d[m][i] = d[m - 1][i]
    BY PackedItem
  <2>2. Size(items[m][1]) \in 1..3 /\ Len(d[m - 1]) \in Nat
    BY <1>1, SizeOf
  <2> QED BY <2>1, <2>2
<1> HIDE DEF d, N
<1>3. n \in Nat /\ n <= N
  BY <1>1 DEF N
<1>4. 0 \in S
  BY <1>1, <1>3
<1>5. ASSUME NEW k \in Nat, k \in S PROVE k + 1 \in S
  <2>1. CASE n + (k + 1) <= N
    <3> DEFINE m == n + (k + 1)
    <3>1. m \in 1..N /\ m - 1 = n + k /\ n + k <= N /\ m - 1 \in 0..N /\ m \in 0..N /\ n \in 0..N
      BY <1>1, <1>3, <2>1
    <3>2. Prefix(m - 1)
      BY <1>5, <3>1
    <3>3. /\ Len(d[m]) >= Len(d[m - 1]) + 1
          /\ \A i \in 1..Len(d[m - 1]) : d[m][i] = d[m - 1][i]
      BY <1>2, <3>1
    <3>4. Len(d[m]) \in Nat /\ Len(d[m - 1]) \in Nat /\ Len(d[n]) \in Nat
      BY <1>1, <3>1
    <3>5. m - 1 \in Nat /\ m \in Nat /\ n \in Nat /\ n <= m - 1
      BY <1>3, <3>1
    <3> HIDE DEF m
    <3>6. /\ Len(d[n]) + ((m - 1) - n) <= Len(d[m - 1])
          /\ \A i \in 1..Len(d[n]) : d[m - 1][i] = d[n][i]
      BY <3>2
    <3>7. Len(d[n]) + (m - n) <= Len(d[m]) /\ Len(d[n]) <= Len(d[m - 1])
      BY <3>3, <3>4, <3>5, <3>6
    <3>8. \A i \in 1..Len(d[n]) : d[m][i] = d[n][i]
      <4> TAKE i \in 1..Len(d[n])
      <4>1. i \in 1..Len(d[m - 1])
        BY <3>4, <3>7
      <4> QED BY <4>1, <3>3, <3>6
    <3>9. Prefix(m)
      BY <3>7, <3>8
    <3> HIDE DEF Prefix
    <3>10. Prefix(n + (k + 1)) /\ k + 1 \in Nat
      BY <3>9 DEF m
    <3> QED BY <3>10
  <2> QED BY <2>1
<1>6. Nat \subseteq S
  <2> HIDE DEF S
  <2> QED BY <1>4, <1>5, SetInduction
<1>7. \A m \in n..N : Prefix(m)
  <2> TAKE m \in n..N
  <2>1. m - n \in Nat /\ n + (m - n) = m /\ n + (m - n) <= N
    BY <1>1, <1>3
  <2>2. m - n \in S
    BY <1>6, <2>1
  <2> HIDE DEF Prefix
  <2> QED BY <2>1, <2>2
<1> QED BY <1>7 DEF d, N

-----------------------------------------------------------------------------
(* Reading all the items back                                              *)

\* The definition of GetData, for the first n turns of its loop.
ReadStart == [p |-> 0, fvalue |-> Unset, items |-> <<>>, sound |-> TRUE]

ReadBody(data, r, n) == IF n = 0 THEN ReadStart ELSE Turn(data, r[n - 1])

IsReading(data, n, r) == r = [k \in 0..n |-> ReadBody(data, r, k)]

Reading(data, n) == CHOOSE r : IsReading(data, n, r)

LEMMA GetDataIs == ASSUME NEW data PROVE GetData(data) = Reading(data, Len(data))[Len(data)]
BY DEF GetData, Reading, IsReading, ReadBody, ReadStart

LEMMA ReadingExists ==
    ASSUME NEW data, NEW N \in Nat PROVE \E r : IsReading(data, N, r)
<1> DEFINE S == {n \in Nat : \E r : IsReading(data, n, r)}
<1>1. 0 \in S
  <2>1. IsReading(data, 0, [k \in 0..0 |-> ReadStart])
    BY DEF IsReading, ReadBody
  <2> QED BY <2>1
<1>2. ASSUME NEW n \in Nat, n \in S PROVE n + 1 \in S
  <2>1. PICK r : IsReading(data, n, r)
    BY <1>2
  <2> DEFINE e == [k \in 0..(n + 1) |-> IF k <= n THEN r[k] ELSE ReadBody(data, r, n + 1)]
  <2>2. ASSUME NEW k \in 0..(n + 1) PROVE e[k] = ReadBody(data, e, k)
    <3>1. CASE k <= n
      <4>1. r[k] = ReadBody(data, r, k)
        BY <2>1, <3>1 DEF IsReading
      <4>2. ReadBody(data, e, k) = ReadBody(data, r, k)
        BY <3>1 DEF ReadBody
      <4> QED BY <3>1, <4>1, <4>2
    <3>2. CASE k = n + 1
      BY <3>2 DEF ReadBody
    <3> QED BY <3>1, <3>2
  <2>3. IsReading(data, n + 1, e)
    BY <2>2 DEF IsReading
  <2> QED BY <2>3
<1>3. Nat \subseteq S
  <2> HIDE DEF S
  <2> QED BY <1>1, <1>2, SetInduction
<1> QED BY <1>3

LEMMA ReadingDef ==
    ASSUME NEW data, NEW N \in Nat
    PROVE  /\ Reading(data, N)[0] = ReadStart
           /\ \A n \in 1..N : Reading(data, N)[n] = Turn(data, Reading(data, N)[n - 1])
<1> DEFINE r == Reading(data, N)
<1>1. IsReading(data, N, r)
  BY ReadingExists DEF Reading
<1> HIDE DEF r
<1>2. \A n \in 0..N : r[n] = ReadBody(data, r, n)
  BY <1>1 DEF IsReading
<1>3. r[0] = ReadStart /\ \A n \in 1..N : r[n] = Turn(data, r[n - 1])
  BY <1>2 DEF ReadBody
<1> QED BY <1>3 DEF r

\* An item as it is read: an ETAT has no value.
SameItem(read, item) ==
    /\ read[1] = item[1]
    /\ item[1] # ETAT => read[2] = <<item[2], Divisor(item[1])>>

\* A turn at an item that is in range and all there reads it.
LEMMA TurnReads ==
    ASSUME NEW data, Len(data) \in Nat, NEW r, NEW type \in Types, NEW v \in Values(type),
           r.sound = TRUE, Behind(data, r.p, type, v)
    PROVE  /\ Turn(data, r).p = r.p + Size(type) /\ Turn(data, r).sound = TRUE
           /\ \E item : /\ SameItem(item, <<type, v>>)
                        /\ Turn(data, r).items = Append(r.items, item)
<1> DEFINE item == ExtractData(data, r.p, r.fvalue)
<1>1. data[r.p + 1] \div 16 = type /\ SameItem(item, <<type, v>>)
  <2> DEFINE p == r.p
             f == r.fvalue
  <2>1. Behind(data, p, type, v)
    OBVIOUS
  <2> HIDE DEF p, f
  <2>2. /\ data[p + 1] \div 16 = type
        /\ ExtractData(data, p, f)[1] = type
        /\ type # ETAT => ExtractData(data, p, f)[2] = <<v, Divisor(type)>>
    BY <2>1, ItemRead
  <2> QED BY <2>2 DEF p, f, SameItem
<1>0. r.p \in Nat /\ r.p + Size(type) <= Len(data)
  BY DEF Behind
<1>2. ~(r.p >= Len(data) \/ ~r.sound)
  BY <1>0, SizeOf
<1>3. ~(data[r.p + 1] \div 16 \notin Types \/ r.p + Size(data[r.p + 1] \div 16) > Len(data))
  BY <1>0, <1>1, SizeOf
<1>4. Turn(data, r) = [p |-> r.p + Size(type), fvalue |-> item[2],
                       items |-> Append(r.items, item), sound |-> TRUE]
  BY <1>1, <1>2, <1>3 DEF Turn
<1> HIDE DEF item
<1> QED BY <1>1, <1>4

LEMMA SeqWider == ASSUME NEW S, NEW x, NEW s \in Seq(S) PROVE s \in Seq(S \cup {x})
OBVIOUS

\* What has been read after the turn for item n.
ReadSoFar(items, r, n) ==
    /\ r[n].p = Len(Packing(items)[n]) /\ r[n].sound = TRUE
    /\ (\E S : r[n].items \in Seq(S)) /\ Len(r[n].items) = n
    /\ \A k \in 1..n : SameItem(r[n].items[k], items[k])

Packet(items) ==
    /\ items \in Seq(Types \X Int) /\ NoneLeftOut(items)
    /\ \A n \in DOMAIN items : items[n][2] \in Values(items[n][1])

LEMMA NextItemReads ==
    ASSUME NEW items, Packet(items), NEW r, NEW n \in 1..Len(items),
           ReadSoFar(items, r, n - 1), r[n] = Turn(Packed(items), r[n - 1])
    PROVE  ReadSoFar(items, r, n)
<1> DEFINE d == Packing(items)
           N == Len(items)
           data == Packed(items)
           type == items[n][1]
           v == items[n][2]
<1>0. /\ items \in Seq(Types \X Int) /\ NoneLeftOut(items)
      /\ N \in Nat /\ N \in 0..N /\ data = d[N]
  BY DEF Packet, Packed
<1>1. /\ d[n - 1] \in Seq(Byte) /\ d[n] \in Seq(Byte)
      /\ Len(d[n]) = Len(d[n - 1]) + Size(type)
      /\ \A i \in 1..Size(type) : d[n][Len(d[n - 1]) + i] = Bytes(type, v)[i]
  BY <1>0, PackedItem
<1>2. type \in Types /\ v \in Values(type) /\ items[n] = <<type, v>>
  <2>1. items[n] \in Types \X Int
    BY <1>0, ElementOfSeq
  <2>2. n \in DOMAIN items
    BY <1>0
  <2> QED BY <2>1, <2>2 DEF Packet
<1>3. /\ Len(d[n]) <= Len(d[N])
      /\ \A i \in 1..Len(d[n]) : d[N][i] = d[n][i]
  <2>1. n \in 0..N /\ N \in n..N /\ N - n \in Nat
    BY <1>0
  <2>2. /\ Len(d[n]) + (N - n) <= Len(d[N])
        /\ \A i \in 1..Len(d[n]) : d[N][i] = d[n][i]
    BY <1>0, <2>1, PackedPrefix
  <2>3. Len(d[n]) \in Nat /\ Len(d[N]) \in Nat
    <3>1. d[N] \in Seq(Byte)
      BY <1>0, PackingType
    <3> QED BY <1>1, <3>1
  <2> QED BY <2>1, <2>2, <2>3
<1>4. r[n - 1].p = Len(d[n - 1]) /\ r[n - 1].sound = TRUE
  BY DEF ReadSoFar
<1>5. data \in Seq(Byte) /\ Len(data) \in Nat /\ Len(d[n - 1]) \in Nat /\ Len(d[n]) \in Nat
  <2>1. data \in Seq(Byte)
    BY <1>0, PackingType
  <2> QED BY <1>1, <2>1
<1> HIDE DEF d, N, data, type, v
<1>6. \A i \in 1..Size(type) : data[r[n - 1].p + i] = Bytes(type, v)[i]
  <2> TAKE i \in 1..Size(type)
  <2>1. Len(d[n - 1]) + i \in 1..Len(d[n])
    BY <1>1, <1>5, SizeOf
  <2> QED BY <1>0, <1>1, <1>3, <1>4, <2>1
<1>7. r[n - 1].p + Size(type) <= Len(data) /\ r[n - 1].p \in Nat
  BY <1>0, <1>1, <1>3, <1>4, <1>5
<1> DEFINE last == r[n - 1]
           next == r[n]
<1>8. next = Turn(data, last) /\ last.sound = TRUE /\ Behind(data, last.p, type, v)
  BY <1>4, <1>6, <1>7 DEF data, Behind
<1> HIDE DEF last, next
<1>9. /\ next.p = last.p + Size(type) /\ next.sound = TRUE
      /\ \E item : SameItem(item, <<type, v>>) /\ next.items = Append(last.items, item)
  <2>1. type \in Types /\ v \in Values(type) /\ Len(data) \in Nat
    BY <1>2, <1>5
  <2>2. Turn(data, last).p = last.p + Size(type)
    BY <2>1, <1>8, TurnReads
  <2>3. Turn(data, last).sound = TRUE
    BY <2>1, <1>8, TurnReads
  <2>4. \E item : SameItem(item, <<type, v>>) /\ Turn(data, last).items = Append(last.items, item)
    BY <2>1, <1>8, TurnReads
  <2> QED BY <1>8, <2>2, <2>3, <2>4
<1>10. PICK item : SameItem(item, <<type, v>>) /\ next.items = Append(last.items, item)
  BY <1>9
<1>11. /\ (\E S : last.items \in Seq(S)) /\ Len(last.items) = n - 1
       /\ \A k \in 1..(n - 1) : SameItem(last.items[k], items[k])
  BY DEF ReadSoFar, last
<1>12. n - 1 \in Nat /\ n \in Nat /\ (n - 1) + 1 = n
  BY <1>0 DEF N
<1>13. /\ (\E S : next.items \in Seq(S)) /\ Len(next.items) = n /\ next.items[n] = item
       /\ \A k \in 1..(n - 1) : next.items[k] = last.items[k]
  <2>1. PICK S : last.items \in Seq(S)
    BY <1>11
  <2> DEFINE T == S \cup {item}
  <2>2. last.items \in Seq(T) /\ item \in T
    BY <2>1, SeqWider
  <2> HIDE DEF T
  <2> QED BY <1>10, <1>11, <1>12, <2>2, AppendProperties
<1>14. \A k \in 1..n : SameItem(next.items[k], items[k])
  <2> TAKE k \in 1..n
  <2>1. CASE k = n
    BY <1>2, <1>10, <1>13, <2>1
  <2>2. CASE k \in 1..(n - 1)
    BY <1>11, <1>13, <2>2
  <2> QED BY <1>12, <2>1, <2>2
<1>15. next.p = Len(d[n])
  BY <1>1, <1>4, <1>9 DEF last
<1> QED BY <1>9, <1>13, <1>14, <1>15 DEF ReadSoFar, next, d

LEMMA TurnAtEnd == ASSUME NEW data, NEW r, r.p >= Len(data) PROVE Turn(data, r) = r
BY DEF Turn

\* The plugin of the node 0.5 reads what addData packed: as many items, in their order.
LEMMA PacketReads ==
    ASSUME NEW items, Packet(items)
    PROVE  LET read == GetData(Packed(items))
           IN  /\ read.sound = TRUE /\ Len(read.items) = Len(items)
               /\ \A n \in 1..Len(items) : SameItem(read.items[n], items[n])
<1> DEFINE d == Packing(items)
           N == Len(items)
           data == Packed(items)
           r == Reading(data, Len(data))
           S == {n \in Nat : n <= N => ReadSoFar(items, r, n)}
           T == {n \in Nat : N + n <= Len(data) => r[N + n] = r[N]}
<1>1. /\ items \in Seq(Types \X Int) /\ NoneLeftOut(items)
      /\ N \in Nat /\ N \in 0..N /\ 0 \in 0..N /\ N \in 0..N
  BY DEF Packet
<1>2. d[0] = <<>> /\ data = d[N] /\ data \in Seq(Byte) /\ Len(data) \in Nat
  <2>1. d[0] = <<>>
    BY <1>1, PackingDef
  <2>2. data = d[N]
    BY DEF Packed
  <2>3. d[N] \in Seq(Byte)
    BY <1>1, PackingType
  <2> HIDE DEF d, N, data
  <2> QED BY <2>1, <2>2, <2>3
<1>3. N <= Len(data)
  <2>1. Len(d[0]) + (N - 0) <= Len(d[N])
    BY <1>1, PackedPrefix
  <2>2. Len(d[0]) = 0
    BY <1>2
  <2> QED BY <1>1, <1>2, <2>1, <2>2
<1>4. r[0] = ReadStart /\ \A n \in 1..Len(data) : r[n] = Turn(data, r[n - 1])
  BY <1>2, ReadingDef
<1>5. GetData(data) = r[Len(data)]
  BY GetDataIs
<1> HIDE DEF r
<1>6. 0 \in S
  <2>1. r[0].p = 0 /\ r[0].sound = TRUE /\ r[0].items = <<>>
    BY <1>4 DEF ReadStart
  <2>2. <<>> \in Seq({}) /\ Len(<<>>) = 0
    OBVIOUS
  <2>3. ReadSoFar(items, r, 0)
    BY <1>2, <2>1, <2>2 DEF ReadSoFar
  <2> QED BY <2>3
<1>7. ASSUME NEW n \in Nat, n \in S PROVE n + 1 \in S
  <2>1. CASE n + 1 <= N
    <3>1. n + 1 \in 1..N /\ n + 1 \in 1..Len(data) /\ (n + 1) - 1 = n /\ n <= N
      BY <1>1, <1>2, <1>3, <2>1
    <3>2. ReadSoFar(items, r, n)
      BY <1>7, <3>1
    <3>3. r[n + 1] = Turn(data, r[n])
      BY <1>4, <3>1
    <3>4. ReadSoFar(items, r, n + 1)
      BY <3>1, <3>2, <3>3, NextItemReads
    <3> QED BY <3>4
  <2> QED BY <2>1
<1>8. ReadSoFar(items, r, N)
  <2>1. Nat \subseteq S
    <3> HIDE DEF S
    <3> QED BY <1>6, <1>7, SetInduction
  <2> QED BY <1>1, <2>1
<1>9. r[N].p = Len(data)
  BY <1>2, <1>8 DEF ReadSoFar
<1>10. 0 \in T
  BY <1>1
<1>11. ASSUME NEW n \in Nat, n \in T PROVE n + 1 \in T
  <2>1. CASE N + (n + 1) <= Len(data)
    <3>1. /\ N + (n + 1) \in 1..Len(data) /\ (N + (n + 1)) - 1 = N + n
          /\ N + n <= Len(data)
      BY <1>1, <1>2, <2>1
    <3>2. r[N + (n + 1)] = Turn(data, r[N + n]) /\ r[N + n] = r[N]
      BY <1>4, <1>11, <3>1
    <3>3. r[N].p >= Len(data)
      BY <1>2, <1>9
    <3> QED BY <3>2, <3>3, TurnAtEnd
  <2> QED BY <2>1
<1>12. r[Len(data)] = r[N]
  <2>1. Nat \subseteq T
    <3> HIDE DEF T
    <3> QED BY <1>10, <1>11, SetInduction
  <2>2. Len(data) - N \in Nat /\ N + (Len(data) - N) = Len(data)
    BY <1>1, <1>2, <1>3
  <2>3. Len(data) - N \in T
    BY <2>1, <2>2
  <2> QED BY <1>2, <2>2, <2>3
<1>13. GetData(data) = r[N]
  BY <1>5, <1>12
<1> QED BY <1>8, <1>13 DEF ReadSoFar

-----------------------------------------------------------------------------
(* The numbers of a DHT11                                                  *)

LEMMA SmallPowers ==
    /\ TwoTo(1) = 2 /\ TwoTo(2) = 4 /\ TwoTo(3) = 8 /\ TwoTo(4) = 16 /\ TwoTo(5) = 32
    /\ TwoTo(6) = 64 /\ TwoTo(7) = 128 /\ TwoTo(8) = 256 /\ TwoTo(9) = 512
    /\ TwoTo(10) = 1024 /\ TwoTo(13) = 8192
BY SMT DEF TwoTo

LEMMA LargePowers ==
    /\ TwoTo(14) = 8192 * 2 /\ TwoTo(15) = 8192 * 4 /\ TwoTo(16) = 8192 * 8
    /\ TwoTo(17) = 8192 * 16 /\ TwoTo(18) = 8192 * 32 /\ TwoTo(19) = 8192 * 64
    /\ TwoTo(20) = 8192 * 128 /\ TwoTo(21) = 8192 * 256 /\ TwoTo(22) = 8192 * 512
    /\ TwoTo(23) = 8192 * 1024
BY SMT DEF TwoTo

\* A subnormal half can be shifted until its first bit is the eleventh.
Shifted(m, n) == m * TwoTo(n) \in 1024..2047
Shift(m) == CHOOSE n \in 1..10 : Shifted(m, n)

LEMMA ShiftExists ==
    ASSUME NEW m \in 1..1023 PROVE Shift(m) \in 1..10 /\ Shifted(m, Shift(m))
<1> SUFFICES \E n \in 1..10 : Shifted(m, n)
  BY Zenon DEF Shift
<1>0. \/ m >= 512 \/ m \in 256..511 \/ m \in 128..255 \/ m \in 64..127 \/ m \in 32..63
      \/ m \in 16..31 \/ m \in 8..15 \/ m \in 4..7 \/ m \in 2..3 \/ m = 1
  OBVIOUS
<1>1. CASE m >= 512
  BY <1>1, SmallPowers DEF Shifted
<1>2. CASE m \in 256..511
  BY <1>2, SmallPowers DEF Shifted
<1>3. CASE m \in 128..255
  BY <1>3, SmallPowers DEF Shifted
<1>4. CASE m \in 64..127
  BY <1>4, SmallPowers DEF Shifted
<1>5. CASE m \in 32..63
  BY <1>5, SmallPowers DEF Shifted
<1>6. CASE m \in 16..31
  BY <1>6, SmallPowers DEF Shifted
<1>7. CASE m \in 8..15
  BY <1>7, SmallPowers DEF Shifted
<1>8. CASE m \in 4..7
  BY <1>8, SmallPowers DEF Shifted
<1>9. CASE m \in 2..3
  BY <1>9, SmallPowers DEF Shifted
<1>10. CASE m = 1
  BY <1>10, SmallPowers DEF Shifted
<1> DEFINE Exists == \E n \in 1..10 : Shifted(m, n)
<1>11. /\ m >= 512 => Exists
       /\ m \in 256..511 => Exists
       /\ m \in 128..255 => Exists
       /\ m \in 64..127 => Exists
       /\ m \in 32..63 => Exists
       /\ m \in 16..31 => Exists
       /\ m \in 8..15 => Exists
       /\ m \in 4..7 => Exists
       /\ m \in 2..3 => Exists
       /\ m = 1 => Exists
  BY Zenon, <1>1, <1>2, <1>3, <1>4, <1>5, <1>6, <1>7, <1>8, <1>9, <1>10
<1> HIDE DEF Exists
<1>12. Exists
  BY SMT, <1>0, <1>11
<1> QED BY <1>12 DEF Exists

\* The mantissa of a subnormal, shifted, without its first bit.
ShiftKeeps(m, n) == 8388608 + ((m * TwoTo(n)) % 1024) * 8192 = m * TwoTo(13 + n)

LEMMA ShiftedMantissa ==
    ASSUME NEW m \in 1..1023 PROVE Shift(m) \in 1..10 /\ ShiftKeeps(m, Shift(m))
<1> DEFINE n == Shift(m)
           k == m * TwoTo(n)
<1>1. n \in 1..10 /\ k \in 1024..2047
  <2>1. n \in 1..10 /\ Shifted(m, n)
    BY ShiftExists
  <2> QED BY <2>1 DEF Shifted
<1> HIDE DEF n
<1>2. TwoTo(13 + n) = 8192 * TwoTo(n) /\ TwoTo(n) \in Nat
  BY SMT, <1>1, SmallPowers, LargePowers
<1>3. m * TwoTo(13 + n) = 8192 * k
  BY SMT, <1>2
<1> HIDE DEF k
<1>4. k % 1024 = k - 1024
  BY SMT, <1>1
<1>5. 8388608 + (k % 1024) * 8192 = 8192 * k
  BY SMT, <1>1, <1>4
<1>6. ShiftKeeps(m, n)
  BY SMT, <1>3, <1>5 DEF k, ShiftKeeps
<1> QED BY <1>1, <1>6 DEF n

\* half_to_float_full keeps the number: zero, a subnormal, infinity or NaN, a normal.
LEMMA SameFloat ==
    ASSUME NEW half \in Word PROVE SameNumber(Float16To32(half), half)
<1> DEFINE e == (half \div 1024) % 32
           m == half % 1024
           sign == half \div 32768
           float == Float16To32(half)
           n == IF e = 0 THEN m ELSE 1024 + m
           q == IF e = 0 THEN 0 ELSE e - 1
           Same == e = 31 \/ /\ (n = 0 => float.exponent = 0 /\ float.mantissa = 0)
                             /\ (n # 0 => 8388608 + float.mantissa
                                            = n * TwoTo(q + 126 - float.exponent))
                             /\ float.sign = sign
<1>1. e \in 0..31 /\ m \in 0..1023
  <2>1. half \in Nat
    BY SMT DEF Word
  <2> QED BY SMT, <2>1
<1>2. SameNumber(float, half) = Same
  BY DEF SameNumber
<1>3. CASE e = 0 /\ m = 0
  <2>1. float = [sign |-> sign, exponent |-> 0, mantissa |-> 0 * 8192]
    BY <1>3 DEF Float16To32
  <2> HIDE DEF e, m, sign, float
  <2>2. Same
    BY SMT, <1>3, <2>1
  <2> HIDE DEF Same
  <2> QED BY <1>2, <2>2 DEF float
<1>4. CASE e = 0 /\ m # 0
  <2> DEFINE shift == Shift(m)
  <2>1. float = [sign |-> sign, exponent |-> 113 - shift,
                 mantissa |-> ((m * TwoTo(shift)) % 1024) * 8192]
    BY <1>4 DEF Float16To32, Shift, Shifted
  <2> HIDE DEF e, m, sign, float
  <2>6. m \in 1..1023
    BY <1>1, <1>4
  <2>2. shift \in 1..10
    BY <2>6, ShiftedMantissa
  <2>3. 8388608 + ((m * TwoTo(shift)) % 1024) * 8192 = m * TwoTo(13 + shift)
    <3>1. ShiftKeeps(m, shift)
      BY <2>6, ShiftedMantissa
    <3> HIDE DEF shift
    <3> QED BY SMT, <3>1 DEF ShiftKeeps
  <2> HIDE DEF shift
  <2>4. 0 + 126 - (113 - shift) = 13 + shift
    BY <2>2
  <2>5. Same
    BY SMT, <1>4, <2>1, <2>3, <2>4
  <2> HIDE DEF Same
  <2> QED BY <1>2, <2>5 DEF float
<1>5. CASE e = 31
  <2>1. Same
    BY <1>5
  <2> HIDE DEF Same, float
  <2> QED BY <1>2, <2>1 DEF float
<1>6. CASE e \in 1..30
  <2>5. e # 0 /\ e # 31
    BY <1>6
  <2>1. float = [sign |-> sign, exponent |-> 112 + e, mantissa |-> m * 8192]
    BY <2>5 DEF Float16To32
  <2> HIDE DEF e, m, sign, float
  <2>2. (e - 1) + 126 - (112 + e) = 13
    BY <1>6
  <2>3. 8388608 + m * 8192 = (1024 + m) * TwoTo(13)
    BY SMT, <1>1, SmallPowers
  <2>4. Same
    BY SMT, <1>1, <1>6, <2>1, <2>2, <2>3
  <2> HIDE DEF Same
  <2> QED BY <1>2, <2>4 DEF float
<1> QED BY SMT, <1>1, <1>3, <1>4, <1>5, <1>6

LEMMA WordDigits ==
    ASSUME NEW w \in Word
    PROVE  w % 256 \in Byte /\ w \div 256 \in Byte /\ (w % 256) + 256 * (w \div 256) = w
<1>1. w \in Nat /\ w < 65536
  BY SMT DEF Word
<1> DEFINE q == w \div 256
           d == w % 256
<1>2. q \in Nat /\ d \in 0..255 /\ 256 * q + d = w
  BY <1>1, Divided
<1> HIDE DEF q, d
<1>3. q \in 0..255 /\ d + 256 * q = w
  BY SMT, <1>1, <1>2
<1> QED BY <1>2, <1>3 DEF q, d, Byte

LEMMA FourBytes ==
    ASSUME NEW S, NEW a \in S, NEW b \in S, NEW c \in S, NEW d \in S
    PROVE  /\ <<a, b, c, d>> \in Seq(S) /\ Len(<<a, b, c, d>>) = 4
           /\ <<a, b, c, d>>[0 + 1] = a /\ <<a, b, c, d>>[0 + 2] = b
           /\ <<a, b, c, d>>[2 + 1] = c /\ <<a, b, c, d>>[2 + 2] = d
OBVIOUS

LEMMA DhtBytesRead ==
    ASSUME NEW t \in Word, NEW h \in Word
    PROVE  /\ DhtBytes(t, h) \in Seq(Byte) /\ Len(DhtBytes(t, h)) = 4
           /\ Half(DhtBytes(t, h), 0) = t /\ Half(DhtBytes(t, h), 2) = h
<1> DEFINE a == t % 256
           b == t \div 256
           c == h % 256
           d == h \div 256
<1>1. /\ a \in Byte /\ b \in Byte /\ c \in Byte /\ d \in Byte
      /\ a + 256 * b = t /\ c + 256 * d = h
  BY WordDigits
<1>2. DhtBytes(t, h) = <<a, b, c, d>>
  BY DEF DhtBytes
<1> HIDE DEF a, b, c, d
<1>3. Half(DhtBytes(t, h), 0) = a + 256 * b /\ Half(DhtBytes(t, h), 2) = c + 256 * d
  BY <1>1, <1>2, FourBytes DEF Half
<1> QED BY <1>1, <1>2, <1>3, FourBytes

LEMMA Int16Same == ASSUME NEW h \in Word PROVE SameBits(Int16(h), h)
<1>1. h \in Nat /\ h < 65536
  BY SMT DEF Word
<1>2. CASE h >= 32768
  <2>1. Int16(h) = h - 65536
    BY SMT, <1>2 DEF Int16
  <2>2. (h - 65536) - h = -65536
    BY SMT, <1>1
  <2>3. (-65536) % 65536 = 0
    BY SMT
  <2> QED BY SMT, <1>1, <1>2, <2>1, <2>2, <2>3 DEF SameBits
<1>3. CASE h < 32768
  <2>1. Int16(h) = h
    BY SMT, <1>1, <1>3 DEF Int16
  <2>2. h - h = 0 /\ 0 % 65536 = 0
    BY SMT, <1>1
  <2>3. -32768 <= h /\ h < 32768
    BY SMT, <1>1, <1>3
  <2>4. (h - h) % 65536 = 0
    BY SMT, <2>2
  <2> QED BY SMT, <2>1, <2>3, <2>4 DEF SameBits
<1> QED BY SMT, <1>1, <1>2, <1>3

-----------------------------------------------------------------------------
(* Whatever the plugin                                                     *)

LEMMA DataType ==
    ASSUME NEW packet \in Packets
    PROVE  packet.data \in Seq(Byte) /\ Len(packet.data) < DataSize
<1>1. CASE packet.plugin = "DHT11"
  <2> DEFINE t == packet.items[1]
             h == packet.items[2]
  <2>1. packet.data = DhtBytes(t, h) /\ t \in Word /\ h \in Word
    BY <1>1, PacketsAssumption DEF Data
  <2>2. packet.data \in Seq(Byte) /\ Len(packet.data) = 4
    BY <2>1, DhtBytesRead
  <2> QED BY <2>2 DEF DataSize
<1>2. CASE packet.plugin # "DHT11"
  <2>1. packet.data = Packed(packet.items) /\ packet.items \in Seq(Types \X Int)
    BY <1>2, PacketsAssumption DEF Data
  <2>2. Len(packet.items) \in 0..Len(packet.items)
    BY <2>1
  <2> QED BY <2>1, <2>2, PackingType DEF Packed
<1> QED BY <1>1, <1>2

\* The round trip: what a plugin reads from the bytes of a packet is what its node packed.
LEMMA ReadsBack ==
    ASSUME NEW packet \in Packets, Plain(packet) PROVE ReadsAs(packet, packet.data)
<1>1. CASE packet.plugin = "DHT11"
  <2> DEFINE t == packet.items[1]
             h == packet.items[2]
             read == DhtGetData(packet.data)
  <2>1. packet.data = DhtBytes(t, h) /\ t \in Word /\ h \in Word
    BY <1>1, PacketsAssumption DEF Data
  <2>2. Half(packet.data, 0) = t /\ Half(packet.data, 2) = h
    BY <2>1, DhtBytesRead
  <2>3. read = <<<<DEGREEC, Float16To32(t)>>, <<HUMIDITY, Int16(h)>>>>
    BY <2>2 DEF DhtGetData
  <2>4. read[1][2] = Float16To32(t) /\ read[2][2] = Int16(h)
    BY <2>3
  <2> HIDE DEF t, h, read
  <2>5. SameNumber(read[1][2], t) /\ SameBits(read[2][2], h)
    BY <2>1, <2>4, SameFloat, Int16Same
  <2> QED BY <1>1, <2>5 DEF ReadsAs, t, h, read
<1>2. CASE packet.plugin # "DHT11"
  <2> DEFINE items == packet.items
             read == GetData(packet.data)
  <2>1. packet.data = Packed(items) /\ items \in Seq(Types \X Int)
    BY <1>2, PacketsAssumption DEF Data
  <2>2. Packet(items)
    BY <1>2, <2>1 DEF Plain, Packet
  <2>3. DOMAIN items = 1..Len(items)
    BY <2>1
  <2>4. /\ read.sound = TRUE /\ Len(read.items) = Len(items)
        /\ \A n \in 1..Len(items) : SameItem(read.items[n], items[n])
    BY <2>1, <2>2, PacketReads
  <2> HIDE DEF items, read
  <2>5. /\ read.sound /\ Len(read.items) = Len(items)
        /\ \A n \in DOMAIN items :
             /\ read.items[n][1] = items[n][1]
             /\ items[n][1] # ETAT => read.items[n][2] = <<items[n][2], Divisor(items[n][1])>>
    BY <2>3, <2>4 DEF SameItem
  <2> QED BY <1>2, <2>5 DEF ReadsAs, items, read
<1> QED BY <1>1, <1>2

-----------------------------------------------------------------------------
(* The inductive invariant: the types                                      *)

Places == {"out", "idle", "loop", "receive", "read", "head", "data", "notify"}

Bodies == {SubSeq(frame.data, 1, frame.taille - 1) : frame \in Commands}

\* Something is left to be read, so something was heard.
Waits == \/ available \/ edge \/ at["isr"] \in {"receive", "read"} \/ at["listen"] = "read"

TypeInv ==
    /\ TypeOK
    /\ at \in [Readers -> Places]
    /\ sent \in Seq(Bodies)
    /\ busy = "hears" => Len(heard) < MaxFrames
    /\ sending # NoCommand => Len(sent) < MaxCommands
    /\ Waits => Len(heard) >= 1
    /\ \A r \in Readers : at[r] \in {"head", "data", "notify"} => trame[r] \in 1..Len(heard)
    /\ m_rx_done => at["listen"] = "loop"

-----------------------------------------------------------------------------
(* The inductive invariant: what m_receivedframe holds                     *)

\* A frame has the length of the packet its head comes from and, as far as it is read,
\* the data of the packet its body comes from.
HoldsHead(frame, packets) ==
    /\ frame.head \in 1..Len(packets)
    /\ frame.taille = Len(packets[frame.head].data) + 1

HoldsBody(frame, packets) ==
    /\ frame.body \in 1..Len(packets)
    /\ Len(packets[frame.body].data) <= Len(frame.data)
    /\ \A i \in 1..Len(packets[frame.body].data) :
         i <= ReadSize => frame.data[i] = packets[frame.body].data[i]

FrameInv ==
    /\ m_receivedframe.head # 0 => HoldsHead(m_receivedframe, heard)
    /\ m_receivedframe.body # 0 => HoldsBody(m_receivedframe, heard)
    /\ \A r \in Readers : at[r] = "data" => m_receivedframe.head # 0
    /\ at["isr"] = "notify" \/ m_rx_done => m_receivedframe.head # 0 /\ m_receivedframe.body # 0
    /\ \A k \in DOMAIN notified : HoldsHead(notified[k], heard) /\ HoldsBody(notified[k], heard)

-----------------------------------------------------------------------------
(* The inductive invariant: whole, in order, at most three times           *)

\* The two readers do not both have a frame, and the one that has it put it into
\* m_receivedframe, as far as it is.
OneHolds == ~(Holds("isr") /\ Holds("listen"))

CopiedInv ==
    /\ \A r \in Readers : at[r] = "data" => m_receivedframe.head = trame[r]
    /\ at["isr"] = "notify" => /\ m_receivedframe.head = trame["isr"]
                               /\ m_receivedframe.body = trame["isr"]
    /\ m_rx_done => /\ m_receivedframe.head = trame["listen"]
                    /\ m_receivedframe.body = trame["listen"]

OrderInv ==
    /\ \A r \in Readers : Holds(r) => /\ trame[r] <= register
                                      /\ \A k \in DOMAIN notified : notified[k].head <= trame[r]
    /\ \A k \in DOMAIN notified : notified[k].head <= register

\* The times frame f may still be handed over: when it is the one in the register, once
\* for the pending interrupt, once for the one that is being served and once for the pin
\* the listen thread sees, and once for each reader that has it.
Bit(b) == IF b THEN 1 ELSE 0

Marks == Bit(edge) + Bit(at["isr"] \in {"receive", "read"})
           + Bit(available \/ at["listen"] = "read")

Pending(f) == IF f = register THEN Marks ELSE 0

Held(f) == Bit(Holds("isr") /\ trame["isr"] = f) + Bit(Holds("listen") /\ trame["listen"] = f)

Tokens(f) == Pending(f) + Held(f)

BudgetInv ==
    /\ \A f \in 1..MaxFrames : Tokens(f) <= 3
    /\ \A k \in DOMAIN notified : \A f \in 1..MaxFrames :
         notified[k].head = f /\ Tokens(f) > 0 => (Len(notified) - k) + 1 + Tokens(f) <= 3

OrderlyInv == OneHolds /\ CopiedInv /\ OrderInv /\ BudgetInv /\ WholeAndInOrder

IInv == TypeInv /\ FrameInv /\ (~overlapped => OrderlyInv)

-----------------------------------------------------------------------------
(* The types are kept                                                      *)

LEMMA InitTypes == Init => TypeInv
<1> SUFFICES ASSUME Init PROVE TypeInv
  OBVIOUS
<1>1. <<>> \in Seq(Packets) /\ <<>> \in Seq(FrameType) /\ <<>> \in Seq(Bodies)
      /\ <<>> \in Seq(Byte) /\ Len(<<>>) = 0
  OBVIOUS
<1>2. MaxFrames \in Nat /\ MaxCommands \in Nat
  BY BoundsAssumption
<1>3. EmptyFrame \in FrameType /\ Len(EmptyFrame.data) < DataSize
  BY <1>1, <1>2 DEF EmptyFrame, FrameType, DataSize
<1>5. /\ at["isr"] = "out" /\ at["listen"] = "out"
      /\ trame \in [Readers -> 0..MaxFrames]
  BY <1>2 DEF Init, Readers
<1>6. /\ heard \in Seq(Packets) /\ register = Len(heard) /\ Len(heard) <= MaxFrames
      /\ Len(sent) <= MaxCommands
  BY <1>1, <1>2 DEF Init
<1>7. /\ m_receivedframe \in FrameType /\ Len(m_receivedframe.data) < DataSize
      /\ notified \in Seq(FrameType)
  BY <1>1, <1>3 DEF Init
<1>4. TypeOK
  BY <1>5, <1>6, <1>7 DEF Init, TypeOK
<1> QED BY <1>1, <1>4 DEF Init, TypeInv, Readers, Places, Waits

LEMMA DeviceTypes ==
    ASSUME TypeInv, Hear \/ (\E packet \in Packets : Store(packet)) \/ Rest
    PROVE  TypeInv'
<1>1. CASE Hear
  BY <1>1 DEF TypeInv, TypeOK, Hear, readerVars, writerVars, Waits
<1>2. ASSUME NEW packet \in Packets, Store(packet) PROVE TypeInv'
  <2>0. /\ heard \in Seq(Packets) /\ Len(heard) \in Nat /\ register = Len(heard)
        /\ Len(heard) < MaxFrames /\ MaxFrames \in Nat /\ lost \subseteq 1..MaxFrames
    BY <1>2, BoundsAssumption DEF TypeInv, TypeOK, Store
  <2>1. /\ heard' \in Seq(Packets) /\ Len(heard') = Len(heard) + 1
        /\ register' = Len(heard')
    BY <1>2, <2>0 DEF Store
  <2>2. lost' \subseteq 1..MaxFrames
    <3>1. CASE available
      <4>1. register \in 1..MaxFrames
        BY <2>0, <3>1 DEF TypeInv, Waits
      <4> QED BY <1>2, <2>0, <3>1, <4>1 DEF Store
    <3>2. CASE ~available
      BY <1>2, <2>0, <3>2 DEF Store
    <3> QED BY <3>1, <3>2
  <2>3. available' = TRUE /\ edge' \in BOOLEAN /\ busy' = "stored"
    BY <1>2 DEF Store, TypeInv, TypeOK
  <2>4. UNCHANGED <<at, trame, m_rx_done, m_receivedframe, notified, overlapped, sending, sent>>
    BY <1>2 DEF Store, readerVars, writerVars
  <2>5. TypeOK'
    BY <2>0, <2>1, <2>2, <2>3, <2>4 DEF TypeInv, TypeOK
  <2>6. Len(heard') >= 1 /\ 1..Len(heard) \subseteq 1..Len(heard')
    BY <2>0, <2>1
  <2> QED BY <2>3, <2>4, <2>5, <2>6 DEF TypeInv
<1>3. CASE Rest
  BY <1>3 DEF TypeInv, TypeOK, Rest, readerVars, writerVars, Waits
<1> QED BY <1>1, <1>2, <1>3

LEMMA StartTypes ==
    ASSUME TypeInv, StartListen \/ RegisterInterrupt \/ Interrupt \/ Receive \/ ListenAvailable
    PROVE  TypeInv'
<1> USE DEF Readers, Places
<1>1. CASE StartListen
  BY <1>1 DEF TypeInv, TypeOK, StartListen, deviceVars, writerVars, Waits
<1>2. CASE RegisterInterrupt
  BY <1>2 DEF TypeInv, TypeOK, RegisterInterrupt, deviceVars, writerVars, Waits
<1>3. CASE Interrupt
  BY <1>3 DEF TypeInv, TypeOK, Interrupt, deviceVars, writerVars, Waits
<1>4. CASE Receive
  BY <1>4 DEF TypeInv, TypeOK, Receive, deviceVars, writerVars, Waits
<1>5. CASE ListenAvailable
  BY <1>5 DEF TypeInv, TypeOK, ListenAvailable, deviceVars, writerVars, Waits
<1> QED BY <1>1, <1>2, <1>3, <1>4, <1>5

LEMMA ReadTypes ==
    ASSUME TypeInv, NEW r \in Readers, Read(r) PROVE TypeInv'
<1> USE DEF Readers, Places
<1>1. register \in 1..Len(heard) /\ register \in 0..MaxFrames
  BY BoundsAssumption DEF Read, TypeInv, TypeOK, Waits
<1> QED BY <1>1 DEF TypeInv, TypeOK, Read, writerVars, Waits

LEMMA LengthFits ==
    ASSUME NEW data \in Seq(Byte), Len(data) < DataSize PROVE Len(data) + 1 \in 0..DataSize
<1> DEFINE n == Len(data)
<1>1. n \in Nat /\ DataSize \in Nat
  BY DEF DataSize
<1> HIDE DEF n
<1>2. n < DataSize => n + 1 \in 0..DataSize
  BY <1>1
<1> QED BY <1>2 DEF n

LEMMA CopyHeadTypes ==
    ASSUME TypeInv, NEW r \in Readers, CopyHead(r) PROVE TypeInv'
<1> USE DEF Readers, Places
<1>1. trame[r] \in 1..Len(heard) /\ trame[r] \in 0..MaxFrames
  BY BoundsAssumption DEF CopyHead, TypeInv, TypeOK
<1>2. heard[trame[r]] \in Packets
  BY <1>1 DEF TypeInv, TypeOK
<1>3. Len(heard[trame[r]].data) + 1 \in 0..DataSize
  <2>1. heard[trame[r]].data \in Seq(Byte) /\ Len(heard[trame[r]].data) < DataSize
    BY <1>2, DataType
  <2> QED BY <2>1, LengthFits
<1>4. m_receivedframe' \in FrameType /\ Len(m_receivedframe'.data) < DataSize
  BY <1>1, <1>3 DEF TypeInv, TypeOK, CopyHead, FrameType
<1> QED BY <1>4 DEF TypeInv, TypeOK, CopyHead, deviceVars, writerVars, Waits

\* What the copy leaves: the new bytes as far as they were read, garbage, the old ones.
LEMMA CopiedIs ==
    ASSUME NEW data \in Seq(Byte), NEW old \in Seq(Byte), NEW g \in Byte,
           Len(data) < DataSize, Len(old) < DataSize
    PROVE  /\ Copied(data, old, g) \in Seq(Byte) /\ Len(Copied(data, old, g)) < DataSize
           /\ Len(data) <= Len(Copied(data, old, g))
           /\ \A i \in 1..Len(data) : i <= ReadSize => Copied(data, old, g)[i] = data[i]
<1> DEFINE n == IF Len(data) > Len(old) THEN Len(data) ELSE Len(old)
           c == Copied(data, old, g)
<1>1. /\ n \in Nat /\ n < DataSize /\ Len(data) <= n
      /\ Len(data) \in Nat /\ Len(old) \in Nat /\ (n = Len(data) \/ n = Len(old))
  OBVIOUS
<1>2. c = [i \in 1..n |-> IF i > Len(data) THEN old[i] ELSE IF i > ReadSize THEN g ELSE data[i]]
  BY DEF Copied
<1> HIDE DEF n, c
<1>3. \A i \in 1..n : c[i] \in Byte
  <2> TAKE i \in 1..n
  <2>1. CASE i > Len(data)
    <3>1. i \in 1..Len(old)
      BY <1>1, <2>1
    <3> QED BY <1>2, <2>1, <3>1
  <2>2. CASE i <= Len(data)
    <3>1. i \in 1..Len(data)
      BY <1>1, <2>2
    <3> QED BY <1>1, <1>2, <2>2, <3>1
  <2> QED BY <1>1, <2>1, <2>2
<1>4. c \in [1..n -> Byte]
  BY <1>2, <1>3
<1>5. c \in Seq(Byte) /\ Len(c) = n
  BY <1>1, <1>4
<1>6. \A i \in 1..Len(data) : i <= ReadSize => c[i] = data[i]
  BY <1>1, <1>2 DEF ReadSize
<1> QED BY <1>1, <1>5, <1>6 DEF c

LEMMA CopyDataFacts ==
    ASSUME TypeInv, NEW r \in Readers, NEW g \in Garbage, CopyData(r, g)
    PROVE  /\ trame[r] \in 1..Len(heard) /\ trame[r] \in 0..MaxFrames
           /\ heard[trame[r]] \in Packets
           /\ m_receivedframe' = [m_receivedframe EXCEPT
                !.data = Copied(heard[trame[r]].data, m_receivedframe.data, g),
                !.body = trame[r]]
           /\ m_receivedframe' \in FrameType /\ Len(m_receivedframe'.data) < DataSize
           /\ HoldsBody(m_receivedframe', heard)
<1> DEFINE data == heard[trame[r]].data
           old == m_receivedframe.data
           c == Copied(data, old, g)
<1>1. trame[r] \in 1..Len(heard) /\ trame[r] \in 0..MaxFrames
  BY BoundsAssumption DEF CopyData, TypeInv, TypeOK, Readers
<1>2. heard[trame[r]] \in Packets
  BY <1>1 DEF TypeInv, TypeOK
<1>3. data \in Seq(Byte) /\ Len(data) < DataSize
  BY <1>2, DataType
<1>4. /\ m_receivedframe \in FrameType /\ old \in Seq(Byte) /\ Len(old) < DataSize
      /\ g \in Byte
  BY BoundsAssumption DEF TypeInv, TypeOK, FrameType
<1>5. m_receivedframe' = [m_receivedframe EXCEPT !.data = c, !.body = trame[r]]
  BY DEF CopyData
<1>6. /\ c \in Seq(Byte) /\ Len(c) < DataSize /\ Len(data) <= Len(c)
      /\ \A i \in 1..Len(data) : i <= ReadSize => c[i] = data[i]
  BY <1>3, <1>4, CopiedIs
<1> HIDE DEF c, old
<1>7. m_receivedframe'.data = c /\ m_receivedframe'.body = trame[r]
      /\ m_receivedframe' \in FrameType
  BY <1>1, <1>4, <1>5, <1>6 DEF FrameType
<1>8. HoldsBody(m_receivedframe', heard)
  BY <1>1, <1>6, <1>7 DEF HoldsBody
<1> QED BY <1>1, <1>2, <1>5, <1>6, <1>7, <1>8 DEF c, old

LEMMA CopyDataTypes ==
    ASSUME TypeInv, NEW r \in Readers, NEW g \in Garbage, CopyData(r, g) PROVE TypeInv'
<1> USE DEF Readers, Places
<1>1. /\ m_receivedframe' \in FrameType /\ Len(m_receivedframe'.data) < DataSize
  BY CopyDataFacts
<1>2. CASE r = "listen"
  BY <1>1, <1>2 DEF TypeInv, TypeOK, CopyData, deviceVars, writerVars, Waits
<1>3. CASE r = "isr"
  BY <1>1, <1>3 DEF TypeInv, TypeOK, CopyData, deviceVars, writerVars, Waits
<1> QED BY <1>2, <1>3

LEMMA NotifyTypes ==
    ASSUME TypeInv, ReceiveNotify \/ ListenDone PROVE TypeInv'
<1> USE DEF Readers, Places
<1>1. notified' \in Seq(FrameType)
  <2>1. m_receivedframe \in FrameType /\ notified \in Seq(FrameType)
    BY DEF TypeInv, TypeOK
  <2>2. notified' = Append(notified, m_receivedframe)
    BY DEF ReceiveNotify, ListenDone, Notify
  <2> QED BY <2>1, <2>2
<1>2. CASE ReceiveNotify
  BY <1>1, <1>2 DEF TypeInv, TypeOK, ReceiveNotify, deviceVars, writerVars, Waits
<1>3. CASE ListenDone
  BY <1>1, <1>3 DEF TypeInv, TypeOK, ListenDone, deviceVars, writerVars, Waits
<1> QED BY <1>2, <1>3

LEMMA WriteTypes ==
    ASSUME TypeInv, (\E frame \in Commands : SendMsg(frame)) \/ Transmit PROVE TypeInv'
<1>1. ASSUME NEW frame \in Commands, SendMsg(frame) PROVE TypeInv'
  BY <1>1 DEF TypeInv, TypeOK, SendMsg, deviceVars, readerVars, Waits
<1>2. CASE Transmit
  <2>1. SubSeq(sending.data, 1, sending.taille - 1) \in Bodies
    BY <1>2 DEF Transmit, TypeInv, TypeOK, Bodies
  <2>2. sent' \in Seq(Bodies) /\ Len(sent') <= MaxCommands
    <3> DEFINE body == SubSeq(sending.data, 1, sending.taille - 1)
    <3>1. body \in Bodies /\ sent' = Append(sent, body)
      BY <1>2, <2>1 DEF Transmit
    <3> HIDE DEF body
    <3>2. sent \in Seq(Bodies) /\ Len(sent) < MaxCommands /\ MaxCommands \in Nat
      BY <1>2, BoundsAssumption DEF Transmit, TypeInv
    <3> QED BY <3>1, <3>2
  <2> QED BY <1>2, <2>2 DEF TypeInv, TypeOK, Transmit, readerVars, Waits
<1> QED BY <1>1, <1>2

LEMMA StutterTypes == ASSUME TypeInv, UNCHANGED vars PROVE TypeInv'
BY DEF TypeInv, TypeOK, vars, Waits

LEMMA NextTypes == ASSUME TypeInv, [Next]_vars PROVE TypeInv'
BY DeviceTypes, StartTypes, ReadTypes, CopyHeadTypes, CopyDataTypes, NotifyTypes, WriteTypes,
   StutterTypes DEF Next, DeviceWorks, IsrNext, ListenNext, Readers

\* Received frames stay inside data[30], whatever the nodes pack and however the readers
\* interleave.
THEOREM TypeCorrect == Spec => []TypeOK
<1>1. Spec => []TypeInv
  BY InitTypes, NextTypes, PTL DEF Spec
<1> QED BY <1>1, PTL DEF TypeInv

-----------------------------------------------------------------------------
(* What m_receivedframe holds is kept                                      *)

\* The packets heard stay where they are.
LEMMA HeardStays ==
    ASSUME NEW P, NEW packets \in Seq(P), NEW packet \in P, NEW frame
    PROVE  /\ HoldsHead(frame, packets) => HoldsHead(frame, Append(packets, packet))
           /\ HoldsBody(frame, packets) => HoldsBody(frame, Append(packets, packet))
<1> DEFINE more == Append(packets, packet)
<1>1. /\ Len(packets) \in Nat /\ Len(more) = Len(packets) + 1
      /\ \A i \in 1..Len(packets) : more[i] = packets[i]
  BY AppendProperties
<1> HIDE DEF more
<1>2. 1..Len(packets) \subseteq 1..Len(more)
  BY <1>1
<1>3. HoldsHead(frame, packets) => HoldsHead(frame, more)
  BY <1>1, <1>2 DEF HoldsHead
<1>4. HoldsBody(frame, packets) => HoldsBody(frame, more)
  BY <1>1, <1>2 DEF HoldsBody
<1> QED BY <1>3, <1>4 DEF more

LEMMA InitFrame == Init => FrameInv
BY DEF Init, FrameInv, EmptyFrame, Readers

LEMMA StoreFrame ==
    ASSUME TypeInv, FrameInv, NEW packet \in Packets, Store(packet) PROVE FrameInv'
<1>1. heard' = Append(heard, packet) /\ heard \in Seq(Packets)
  BY DEF Store, TypeInv, TypeOK
<1>2. UNCHANGED <<at, m_rx_done, m_receivedframe, notified>>
  BY DEF Store, readerVars
<1>3. \A frame : /\ HoldsHead(frame, heard) => HoldsHead(frame, heard')
                 /\ HoldsBody(frame, heard) => HoldsBody(frame, heard')
  BY <1>1, HeardStays
<1> QED BY <1>2, <1>3 DEF FrameInv

\* The steps that leave the frames alone: no reader comes to what it copies next.
FramesLeft ==
    /\ UNCHANGED <<heard, m_receivedframe, notified>>
    /\ \A r \in Readers : at[r]' = "data" => at[r] = "data"
    /\ at["isr"]' = "notify" => at["isr"] = "notify"
    /\ m_rx_done' => m_rx_done

LEMMA LeftFrame == ASSUME FrameInv, FramesLeft PROVE FrameInv'
BY DEF FrameInv, FramesLeft

LEMMA LeavesFrames ==
    ASSUME TypeInv,
           \/ Hear \/ Rest \/ StartListen \/ RegisterInterrupt \/ Interrupt \/ Receive
           \/ ListenAvailable \/ (\E r \in Readers : Read(r))
           \/ (\E frame \in Commands : SendMsg(frame)) \/ Transmit \/ UNCHANGED vars
    PROVE  FramesLeft
<1> USE DEF Readers
<1>0. at \in [Readers -> Places]
  BY DEF TypeInv
<1>1. CASE Hear \/ Rest \/ Transmit \/ \E frame \in Commands : SendMsg(frame)
  BY <1>1 DEF Hear, Rest, Transmit, SendMsg, FramesLeft, deviceVars, readerVars
<1>2. CASE StartListen \/ RegisterInterrupt \/ Interrupt \/ Receive \/ ListenAvailable
  BY <1>0, <1>2 DEF StartListen, RegisterInterrupt, Interrupt, Receive, ListenAvailable,
                    FramesLeft, deviceVars
<1>3. CASE \E r \in Readers : Read(r)
  BY <1>0, <1>3 DEF Read, FramesLeft
<1>4. CASE UNCHANGED vars
  BY <1>4 DEF vars, FramesLeft
<1> QED BY <1>1, <1>2, <1>3, <1>4

LEMMA CopyHeadFrame ==
    ASSUME TypeInv, FrameInv, NEW r \in Readers, CopyHead(r) PROVE FrameInv'
<1> USE DEF Readers
<1>1. /\ m_receivedframe \in FrameType /\ at \in [Readers -> Places]
      /\ trame[r] \in 1..Len(heard) /\ (m_rx_done => at["listen"] = "loop")
  BY DEF TypeInv, TypeOK, CopyHead
<1>2. /\ m_receivedframe' = [m_receivedframe EXCEPT
            !.taille = Len(heard[trame[r]].data) + 1, !.head = trame[r]]
      /\ at' = [at EXCEPT ![r] = "data"]
      /\ UNCHANGED <<heard, m_rx_done, notified>>
  BY DEF CopyHead, deviceVars
<1>3. /\ m_receivedframe'.head = trame[r] /\ m_receivedframe'.body = m_receivedframe.body
      /\ m_receivedframe'.data = m_receivedframe.data
      /\ m_receivedframe'.taille = Len(heard[trame[r]].data) + 1
  BY <1>1, <1>2 DEF FrameType
<1>4. HoldsHead(m_receivedframe', heard')
  BY <1>1, <1>2, <1>3 DEF HoldsHead
<1>5. m_receivedframe'.body # 0 => HoldsBody(m_receivedframe', heard')
  BY <1>2, <1>3 DEF FrameInv, HoldsBody
<1>6. m_receivedframe'.head # 0
  BY <1>1, <1>3 DEF TypeInv, TypeOK
<1>7. at["isr"]' = "notify" \/ m_rx_done' => m_receivedframe'.body # 0
  BY <1>1, <1>2, <1>3 DEF FrameInv
<1> QED BY <1>2, <1>4, <1>5, <1>6, <1>7 DEF FrameInv

LEMMA CopyDataFrame ==
    ASSUME TypeInv, FrameInv, NEW r \in Readers, NEW g \in Garbage, CopyData(r, g)
    PROVE  FrameInv'
<1> USE DEF Readers
<1>1. /\ m_receivedframe \in FrameType /\ at \in [Readers -> Places] /\ at[r] = "data"
      /\ UNCHANGED <<heard, notified>>
  BY DEF TypeInv, TypeOK, CopyData, deviceVars
<1>2. /\ trame[r] \in 1..Len(heard) /\ HoldsBody(m_receivedframe', heard)
      /\ m_receivedframe' = [m_receivedframe EXCEPT
            !.data = Copied(heard[trame[r]].data, m_receivedframe.data, g), !.body = trame[r]]
  BY CopyDataFacts
<1>3. /\ m_receivedframe'.head = m_receivedframe.head
      /\ m_receivedframe'.taille = m_receivedframe.taille
      /\ m_receivedframe'.body = trame[r]
  BY <1>1, <1>2 DEF FrameType
<1>4. m_receivedframe'.head # 0 /\ m_receivedframe'.body # 0
  BY <1>1, <1>2, <1>3 DEF FrameInv
<1>5. HoldsHead(m_receivedframe', heard) /\ HoldsBody(m_receivedframe', heard)
  BY <1>2, <1>3, <1>4 DEF FrameInv, HoldsHead
<1> QED BY <1>1, <1>4, <1>5 DEF FrameInv

LEMMA NotifyFrame ==
    ASSUME TypeInv, FrameInv, ReceiveNotify \/ ListenDone PROVE FrameInv'
<1> USE DEF Readers
<1>1. /\ notified' = Append(notified, m_receivedframe)
      /\ notified \in Seq(FrameType) /\ m_receivedframe \in FrameType
      /\ at \in [Readers -> Places]
      /\ UNCHANGED <<heard, m_receivedframe>>
  BY DEF TypeInv, TypeOK, ReceiveNotify, ListenDone, Notify, deviceVars
<1>2. HoldsHead(m_receivedframe, heard) /\ HoldsBody(m_receivedframe, heard)
  BY DEF FrameInv, ReceiveNotify, ListenDone
<1>3. \A k \in DOMAIN notified' : notified'[k] = m_receivedframe \/ /\ k \in DOMAIN notified
                                                                    /\ notified'[k] = notified[k]
  BY <1>1
<1>4. \A k \in DOMAIN notified' : HoldsHead(notified'[k], heard) /\ HoldsBody(notified'[k], heard)
  BY <1>2, <1>3 DEF FrameInv
<1>5. /\ \A r \in Readers : at[r]' = "data" => at[r] = "data"
      /\ at["isr"]' = "notify" \/ m_rx_done' => at["isr"] = "notify" \/ m_rx_done
  BY <1>1 DEF ReceiveNotify, ListenDone
<1> QED BY <1>1, <1>4, <1>5 DEF FrameInv

LEMMA NextFrame == ASSUME TypeInv, FrameInv, [Next]_vars PROVE FrameInv'
BY StoreFrame, LeavesFrames, LeftFrame, CopyHeadFrame, CopyDataFrame, NotifyFrame
   DEF Next, DeviceWorks, IsrNext, ListenNext, Readers

-----------------------------------------------------------------------------
(* What is handed over stays whole, in order and within its budget         *)

LEMMA BitNat == ASSUME NEW b PROVE Bit(b) \in 0..1
BY DEF Bit

LEMMA TokensNat ==
    ASSUME NEW f PROVE /\ Marks \in 0..3 /\ Held(f) \in 0..2 /\ Tokens(f) \in Nat
                       /\ Pending(f) \in 0..3
<1>2. Marks \in 0..3
  BY BitNat DEF Marks
<1>3. Held(f) \in 0..2
  BY BitNat DEF Held
<1>4. Pending(f) \in 0..3
  BY <1>2 DEF Pending
<1> QED BY <1>2, <1>3, <1>4 DEF Tokens

LEMMA InitOrderly == Init => OrderlyInv
<1> SUFFICES ASSUME Init PROVE OrderlyInv
  OBVIOUS
<1>1. notified = <<>> /\ DOMAIN notified = {} /\ m_rx_done = FALSE /\ overlapped = FALSE
      /\ \A r \in Readers : at[r] = "out"
  BY DEF Init
<1>2. \A r \in Readers : ~Holds(r)
  BY <1>1 DEF Holds, Readers
<1>3. \A f : Tokens(f) <= 3
  <2> TAKE f
  <2>1. Held(f) = 0
    BY <1>2 DEF Held, Bit, Readers
  <2>2. Pending(f) \in 0..3
    BY TokensNat
  <2> QED BY <2>1, <2>2 DEF Tokens
<1> QED BY <1>1, <1>2, <1>3
    DEF OrderlyInv, OneHolds, CopiedInv, OrderInv, BudgetInv, WholeAndInOrder, Readers

\* The steps that take nothing from the register and hand nothing over.
Quiet ==
    /\ UNCHANGED <<register, trame, m_rx_done, m_receivedframe, notified, overlapped>>
    /\ \A r \in Readers : \A place \in {"head", "data", "notify"} :
         at[r]' = place <=> at[r] = place
    /\ Marks' <= Marks

LEMMA QuietHolds ==
    ASSUME Quiet PROVE \A r \in Readers : Holds(r)' = Holds(r)
BY DEF Quiet, Holds

LEMMA QuietTokens ==
    ASSUME Quiet, NEW f PROVE Tokens(f)' \in Nat /\ Tokens(f)' <= Tokens(f)
<1>1. Holds("isr")' = Holds("isr") /\ Holds("listen")' = Holds("listen")
  BY QuietHolds DEF Readers
<1>2. Held(f)' = Held(f)
  BY <1>1 DEF Held, Quiet
<1>3. Pending(f)' <= Pending(f)
  BY DEF Pending, Quiet
<1>4. Held(f) \in 0..2 /\ Pending(f) \in 0..3 /\ Pending(f)' \in 0..3
  <2>1. Held(f) \in 0..2 /\ Pending(f) \in 0..3
    BY TokensNat
  <2>2. Pending(f)' \in 0..3
    BY BitNat DEF Pending, Marks
  <2> QED BY <2>1, <2>2
<1> QED BY <1>2, <1>3, <1>4 DEF Tokens

\* No more may be handed over and nothing is.
LEMMA BudgetKept ==
    ASSUME TypeInv, BudgetInv, UNCHANGED notified,
           \A f \in 1..MaxFrames : Tokens(f)' \in Nat /\ Tokens(f)' <= Tokens(f)
    PROVE  BudgetInv'
<1>1. \A f : Tokens(f) \in Nat
  BY TokensNat
<1>2. notified \in Seq(FrameType) /\ DOMAIN notified = 1..Len(notified) /\ Len(notified) \in Nat
  BY DEF TypeInv, TypeOK
<1>3. \A f \in 1..MaxFrames : Tokens(f)' <= 3
  BY <1>1 DEF BudgetInv
<1>4. ASSUME NEW k \in DOMAIN notified, NEW f \in 1..MaxFrames,
             notified[k].head = f, Tokens(f)' > 0
      PROVE  (Len(notified) - k) + 1 + Tokens(f)' <= 3
  <2>1. Tokens(f) \in Nat /\ Tokens(f)' \in Nat /\ Tokens(f)' <= Tokens(f) /\ k \in Nat
    BY <1>1, <1>2
  <2>2. Tokens(f) > 0
    BY <1>4, <2>1
  <2>3. (Len(notified) - k) + 1 + Tokens(f) <= 3
    BY <1>4, <2>2 DEF BudgetInv
  <2> QED BY <1>2, <2>1, <2>3
<1> QED BY <1>3, <1>4 DEF BudgetInv

LEMMA QuietOrderly ==
    ASSUME TypeInv, OrderlyInv, Quiet PROVE OrderlyInv'
<1>1. \A r \in Readers : Holds(r)' = Holds(r)
  BY QuietHolds
<1>2. OneHolds'
  BY <1>1 DEF OneHolds, OrderlyInv, Readers
<1>3. CopiedInv'
  BY DEF CopiedInv, OrderlyInv, Quiet, Readers
<1>4. OrderInv'
  BY <1>1 DEF OrderInv, OrderlyInv, Quiet
<1>5. BudgetInv'
  BY QuietTokens, BudgetKept DEF OrderlyInv, Quiet
<1>6. WholeAndInOrder'
  BY DEF WholeAndInOrder, OrderlyInv, Quiet
<1> QED BY <1>2, <1>3, <1>4, <1>5, <1>6 DEF OrderlyInv

LEMMA QuietSteps ==
    ASSUME TypeInv,
           \/ Hear \/ Rest \/ StartListen \/ RegisterInterrupt \/ Interrupt \/ Receive
           \/ ListenAvailable \/ (\E frame \in Commands : SendMsg(frame)) \/ Transmit
           \/ UNCHANGED vars
    PROVE  Quiet
<1>0. at \in [Readers -> Places] /\ "isr" \in Readers /\ "listen" \in Readers
      /\ edge \in BOOLEAN /\ available \in BOOLEAN
      /\ Bit(TRUE) = 1 /\ Bit(FALSE) = 0 /\ Marks \in 0..3
  BY TokensNat DEF TypeInv, TypeOK, Readers, Bit
<1>1. CASE UNCHANGED <<register, available, edge, at, trame, m_rx_done, m_receivedframe,
                       notified, overlapped>>
  BY <1>0, <1>1 DEF Quiet, Marks
<1>2. CASE StartListen
  <2>1. at' = [at EXCEPT !["listen"] = "loop"] /\ at["listen"] = "out"
        /\ UNCHANGED <<register, available, edge, trame, m_rx_done, m_receivedframe,
                       notified, overlapped>>
    BY <1>2 DEF StartListen, deviceVars
  <2>2. at'["isr"] = at["isr"] /\ at'["listen"] = "loop"
    BY <1>0, <2>1 DEF Readers
  <2>3. Marks' = Marks
    BY <2>1, <2>2 DEF Marks
  <2> QED BY <1>0, <2>1, <2>2, <2>3 DEF Quiet, Readers
<1>3. CASE RegisterInterrupt
  <2>1. at' = [at EXCEPT !["isr"] = "idle"] /\ at["isr"] = "out"
        /\ UNCHANGED <<register, available, edge, trame, m_rx_done, m_receivedframe,
                       notified, overlapped>>
    BY <1>3 DEF RegisterInterrupt, deviceVars
  <2>2. at'["listen"] = at["listen"] /\ at'["isr"] = "idle"
    BY <1>0, <2>1 DEF Readers
  <2>3. Marks' = Marks
    BY <2>1, <2>2 DEF Marks
  <2> QED BY <1>0, <2>1, <2>2, <2>3 DEF Quiet, Readers
<1>4. CASE Interrupt
  <2>1. at' = [at EXCEPT !["isr"] = "receive"] /\ at["isr"] = "idle" /\ edge = TRUE
        /\ edge' = FALSE
        /\ UNCHANGED <<register, available, trame, m_rx_done, m_receivedframe,
                       notified, overlapped>>
    BY <1>0, <1>4 DEF Interrupt
  <2>2. at'["listen"] = at["listen"] /\ at'["isr"] = "receive"
    BY <1>0, <2>1 DEF Readers
  <2>3. Marks' = Marks
    <3>1. Bit(edge) = 1 /\ Bit(edge') = 0
      BY <1>0, <2>1
    <3>2. Bit(at["isr"] \in {"receive", "read"}) = 0
          /\ Bit(at'["isr"] \in {"receive", "read"}) = 1
      BY <2>1, <2>2 DEF Bit
    <3> QED BY <2>1, <2>2, <3>1, <3>2 DEF Marks
  <2> QED BY <1>0, <2>1, <2>2, <2>3 DEF Quiet, Readers
<1>5. CASE Receive
  <2>1. at' = [at EXCEPT !["isr"] = "read"] /\ at["isr"] = "receive"
        /\ UNCHANGED <<register, available, edge, trame, m_rx_done, m_receivedframe,
                       notified, overlapped>>
    BY <1>5 DEF Receive, deviceVars
  <2>2. at'["listen"] = at["listen"] /\ at'["isr"] = "read"
    BY <1>0, <2>1 DEF Readers
  <2>3. Marks' = Marks
    BY <2>1, <2>2 DEF Marks
  <2> QED BY <1>0, <2>1, <2>2, <2>3 DEF Quiet, Readers
<1>6. CASE ListenAvailable
  <2>1. at' = [at EXCEPT !["listen"] = "read"] /\ at["listen"] = "loop" /\ available
        /\ UNCHANGED <<register, available, edge, trame, m_rx_done, m_receivedframe,
                       notified, overlapped>>
    BY <1>6 DEF ListenAvailable, deviceVars
  <2>2. at'["isr"] = at["isr"] /\ at'["listen"] = "read"
    BY <1>0, <2>1 DEF Readers
  <2>3. Marks' = Marks
    BY <2>1, <2>2 DEF Marks
  <2> QED BY <1>0, <2>1, <2>2, <2>3 DEF Quiet, Readers
<1> QED BY <1>1, <1>2, <1>3, <1>4, <1>5, <1>6
    DEF Hear, Rest, SendMsg, Transmit, vars, readerVars, deviceVars

LEMMA CopyHeadOrderly ==
    ASSUME TypeInv, OrderlyInv, NEW r \in Readers, CopyHead(r) PROVE OrderlyInv'
<1>1. /\ at \in [Readers -> Places] /\ at[r] = "head" /\ at' = [at EXCEPT ![r] = "data"]
      /\ UNCHANGED <<register, available, edge, trame, m_rx_done, notified, overlapped>>
      /\ m_rx_done => at["listen"] = "loop"
      /\ m_receivedframe \in FrameType
      /\ m_receivedframe' = [m_receivedframe EXCEPT
           !.taille = Len(heard[trame[r]].data) + 1, !.head = trame[r]]
  BY DEF TypeInv, TypeOK, CopyHead, deviceVars
<1>2. /\ at'[r] = "data" /\ (\A q \in Readers \ {r} : at'[q] = at[q])
      /\ m_receivedframe'.head = trame[r]
  BY <1>1 DEF FrameType
<1>3. \A q \in Readers : Holds(q)' = Holds(q)
  BY <1>1, <1>2 DEF Holds
<1>4. Holds(r) /\ \A q \in Readers \ {r} : ~Holds(q)
  BY <1>1 DEF Holds, OrderlyInv, OneHolds, Readers
<1>5. OneHolds'
  BY <1>3 DEF OneHolds, OrderlyInv, Readers
<1>6. CopiedInv'
  BY <1>1, <1>2, <1>4 DEF CopiedInv, Holds, Readers
<1>7. OrderInv'
  BY <1>1, <1>3 DEF OrderInv, OrderlyInv
<1>8. \A f : Tokens(f)' = Tokens(f)
  <2>1. Marks' = Marks
    BY <1>1, <1>2 DEF Marks, Readers
  <2>2. \A f : Held(f)' = Held(f)
    BY <1>1, <1>3 DEF Held, Readers
  <2> QED BY <1>1, <2>1, <2>2 DEF Tokens, Pending
<1>9. BudgetInv'
  <2>1. \A f : Tokens(f) \in Nat
    BY TokensNat
  <2> QED BY <1>1, <1>8, <2>1, BudgetKept DEF OrderlyInv
<1>10. WholeAndInOrder'
  BY <1>1 DEF WholeAndInOrder, OrderlyInv
<1> QED BY <1>5, <1>6, <1>7, <1>9, <1>10 DEF OrderlyInv

LEMMA CopyDataOrderly ==
    ASSUME TypeInv, OrderlyInv, NEW r \in Readers, NEW g \in Garbage, CopyData(r, g)
    PROVE  OrderlyInv'
<1>1. /\ at \in [Readers -> Places] /\ at[r] = "data"
      /\ at' = [at EXCEPT ![r] = IF r = "listen" THEN "loop" ELSE "notify"]
      /\ UNCHANGED <<register, available, edge, trame, notified, overlapped>>
      /\ m_rx_done' = IF r = "listen" THEN TRUE ELSE m_rx_done
      /\ m_rx_done => at["listen"] = "loop"
      /\ m_receivedframe \in FrameType
  BY DEF TypeInv, TypeOK, CopyData, deviceVars, Readers
<1>2. /\ at'[r] = (IF r = "listen" THEN "loop" ELSE "notify")
      /\ (\A q \in Readers \ {r} : at'[q] = at[q])
  BY <1>1
<1>3. m_receivedframe'.head = m_receivedframe.head /\ m_receivedframe'.body = trame[r]
  BY <1>1, CopyDataFacts DEF FrameType
<1>4. Holds(r) /\ \A q \in Readers \ {r} : ~Holds(q)
  BY <1>1 DEF Holds, OrderlyInv, OneHolds, Readers
<1>5. m_receivedframe.head = trame[r]
  BY <1>1 DEF OrderlyInv, CopiedInv
<1>6. \A q \in Readers : Holds(q)' = Holds(q)
  BY <1>1, <1>2, <1>4 DEF Holds, Readers
<1>7. OneHolds'
  BY <1>6 DEF OneHolds, OrderlyInv, Readers
<1>8. CopiedInv'
  <2>1. CASE r = "isr"
    BY <1>1, <1>2, <1>3, <1>4, <1>5, <2>1 DEF CopiedInv, Holds, Readers
  <2>2. CASE r = "listen"
    BY <1>1, <1>2, <1>3, <1>4, <1>5, <2>2 DEF CopiedInv, Holds, Readers
  <2> QED BY <2>1, <2>2 DEF Readers
<1>9. OrderInv'
  BY <1>1, <1>6 DEF OrderInv, OrderlyInv
<1>10. \A f : Tokens(f)' = Tokens(f)
  <2>1. Marks' = Marks
    <3>1. CASE r = "isr"
      BY <1>1, <1>2, <3>1 DEF Marks, Readers
    <3>2. CASE r = "listen"
      BY <1>1, <1>2, <3>2 DEF Marks, Readers
    <3> QED BY <3>1, <3>2 DEF Readers
  <2>2. \A f : Held(f)' = Held(f)
    BY <1>1, <1>6 DEF Held, Readers
  <2> QED BY <1>1, <2>1, <2>2 DEF Tokens, Pending
<1>11. BudgetInv'
  <2>1. \A f : Tokens(f) \in Nat
    BY TokensNat
  <2> QED BY <1>1, <1>10, <2>1, BudgetKept DEF OrderlyInv
<1>12. WholeAndInOrder'
  BY <1>1 DEF WholeAndInOrder, OrderlyInv
<1> QED BY <1>7, <1>8, <1>9, <1>11, <1>12 DEF OrderlyInv

LEMMA Successor == ASSUME NEW m \in 0..3 PROVE m + 1 \in Nat
OBVIOUS

\* A reader that reads what is in the register takes one of the marks on it.
LEMMA ReadOrderly ==
    ASSUME TypeInv, FrameInv, OrderlyInv, NEW r \in Readers, Read(r), ~overlapped'
    PROVE  OrderlyInv'
<1>1. /\ at \in [Readers -> Places] /\ at[r] = "read" /\ at' = [at EXCEPT ![r] = "head"]
      /\ trame' = [trame EXCEPT ![r] = register] /\ available' = FALSE
      /\ trame \in [Readers -> 0..MaxFrames]
      /\ UNCHANGED <<register, edge, m_rx_done, m_receivedframe, notified>>
      /\ m_rx_done => at["listen"] = "loop"
      /\ register \in Nat
  BY DEF TypeInv, TypeOK, Read
<1>2. /\ at'[r] = "head" /\ (\A q \in Readers \ {r} : at'[q] = at[q] /\ trame'[q] = trame[q])
      /\ trame'[r] = register
  BY <1>1
<1>3. \A q \in Readers \ {r} : ~Holds(q)
  BY DEF Read
<1>4. ~Holds(r)
  BY <1>1 DEF Holds, Readers
<1>5. Holds(r)' /\ \A q \in Readers \ {r} : ~Holds(q)'
  BY <1>1, <1>2, <1>3 DEF Holds
<1>6. OneHolds'
  BY <1>5 DEF OneHolds, Readers
<1>7. CopiedInv'
  BY <1>1, <1>2, <1>3 DEF CopiedInv, Holds, Readers
<1>8. OrderInv'
  <2>1. \A k \in DOMAIN notified : notified[k].head <= register
    BY DEF OrderlyInv, OrderInv
  <2> QED BY <1>1, <1>2, <1>5, <2>1 DEF OrderInv, Readers
<1>9. Marks' + 1 <= Marks
  <2>1. CASE r = "isr"
    <3>1. Bit(at["isr"] \in {"receive", "read"}) = 1 /\ Bit(at'["isr"] \in {"receive", "read"}) = 0
      BY <1>1, <1>2, <2>1 DEF Bit
    <3>2. Bit(available' \/ at'["listen"] = "read") <= Bit(available \/ at["listen"] = "read")
      BY <1>1, <1>2, <2>1 DEF Bit, Readers
    <3>3. Bit(edge') = Bit(edge)
      BY <1>1
    <3> QED BY <3>1, <3>2, <3>3, BitNat DEF Marks
  <2>2. CASE r = "listen"
    <3>1. Bit(available' \/ at'["listen"] = "read") = 0 /\ Bit(available \/ at["listen"] = "read") = 1
      BY <1>1, <1>2, <2>2 DEF Bit
    <3>2. at'["isr"] = at["isr"]
      BY <1>2, <2>2 DEF Readers
    <3>3. Bit(edge') = Bit(edge)
      BY <1>1
    <3> QED BY <3>1, <3>2, <3>3, BitNat DEF Marks
  <2> QED BY <2>1, <2>2 DEF Readers
<1>10. \A f : Held(f) = 0 /\ Held(f)' = Bit(f = register)
  BY <1>2, <1>3, <1>4, <1>5 DEF Held, Bit, Readers
<1>11. \A f : Tokens(f)' \in Nat /\ Tokens(f)' <= Tokens(f)
  <2> TAKE f
  <2>1. Marks \in 0..3 /\ Marks' \in 0..3
    BY BitNat DEF Marks
  <2>2. CASE f = register
    <3>1. Pending(f) = Marks /\ Pending(f)' = Marks'
      BY <1>1, <2>2 DEF Pending
    <3>2. Held(f) = 0 /\ Held(f)' = 1
      BY <1>10, <2>2 DEF Bit
    <3>3. Tokens(f) = Marks /\ Tokens(f)' = Marks' + 1
      BY <2>1, <3>1, <3>2 DEF Tokens
    <3>4. PICK m \in 0..3 : m = Marks'
      BY <2>1
    <3>5. m + 1 \in Nat /\ Tokens(f)' = m + 1
      BY Zenon, <3>3, <3>4, Successor
    <3>6. m + 1 <= Tokens(f)
      BY Zenon, <1>9, <3>3, <3>4
    <3> QED BY Zenon, <3>5, <3>6
  <2>3. CASE f # register
    BY <1>1, <1>10, <2>3 DEF Tokens, Pending, Bit
  <2> QED BY <2>2, <2>3
<1>12. BudgetInv'
  BY <1>1, <1>11, BudgetKept DEF OrderlyInv
<1>13. WholeAndInOrder'
  BY <1>1 DEF WholeAndInOrder, OrderlyInv
<1> QED BY <1>6, <1>7, <1>8, <1>12, <1>13 DEF OrderlyInv

\* A new frame takes over the marks; an old one keeps no more than the reader that has it.
LEMMA StoreOrderly ==
    ASSUME TypeInv, OrderlyInv, NEW packet \in Packets, Store(packet) PROVE OrderlyInv'
<1>1. /\ UNCHANGED <<at, trame, m_rx_done, m_receivedframe, notified, overlapped>>
      /\ register = Len(heard) /\ register \in Nat /\ register' = register + 1
      /\ trame \in [Readers -> 0..MaxFrames]
  BY DEF Store, readerVars, TypeInv, TypeOK
<1>2. \A r \in Readers : Holds(r)' = Holds(r)
  BY <1>1 DEF Holds
<1>3. OneHolds' /\ CopiedInv' /\ WholeAndInOrder'
  BY <1>1, <1>2 DEF OrderlyInv, OneHolds, CopiedInv, WholeAndInOrder, Readers
<1>4. notified \in Seq(FrameType) /\ \A k \in DOMAIN notified : notified[k].head \in Nat
  <2>1. notified \in Seq(FrameType)
    BY DEF TypeInv, TypeOK
  <2>2. \A k \in DOMAIN notified : notified[k] \in FrameType
    BY <2>1
  <2>3. \A frame \in FrameType : frame.head \in Nat
    BY BoundsAssumption DEF FrameType
  <2> QED BY <2>1, <2>2, <2>3
<1>5. OrderInv'
  BY <1>1, <1>2, <1>4, BoundsAssumption DEF OrderlyInv, OrderInv, Readers
<1>6. \A f : Held(f)' = Held(f)
  BY <1>1, <1>2 DEF Held, Readers
<1>7. \A f : f # register' => Tokens(f)' \in Nat /\ Tokens(f)' <= Tokens(f)
  <2> TAKE f
  <2>1. Held(f) \in 0..2 /\ Pending(f) \in 0..3
    BY TokensNat
  <2>2. f # register' => Pending(f)' = 0
    BY DEF Pending
  <2> QED BY <1>6, <2>1, <2>2 DEF Tokens
<1>9. BudgetInv'
  <2>1. \A f \in 1..MaxFrames : Tokens(f)' <= 3
    <3> TAKE f \in 1..MaxFrames
    <3>1. CASE f = register'
      <4>1. Held(f)' = 0
        BY <1>1, <1>6, <3>1, BoundsAssumption DEF OrderlyInv, OrderInv, Held, Bit, Readers
      <4>2. Pending(f)' \in 0..3
        BY BitNat DEF Pending, Marks
      <4> QED BY <4>1, <4>2 DEF Tokens
    <3>2. CASE f # register'
      BY <1>7, <3>2, TokensNat DEF OrderlyInv, BudgetInv
    <3> QED BY <3>1, <3>2
  <2>2. ASSUME NEW k \in DOMAIN notified, NEW f \in 1..MaxFrames,
               notified[k].head = f, Tokens(f)' > 0
        PROVE  (Len(notified) - k) + 1 + Tokens(f)' <= 3
    <3>1. f # register'
      BY <1>1, <2>2 DEF OrderlyInv, OrderInv
    <3>2. Tokens(f) \in Nat /\ Tokens(f)' \in Nat /\ Tokens(f)' <= Tokens(f)
      BY <1>7, <3>1, TokensNat
    <3>3. Tokens(f) > 0
      BY <2>2, <3>2
    <3>4. (Len(notified) - k) + 1 + Tokens(f) <= 3
      BY <2>2, <3>3 DEF OrderlyInv, BudgetInv
    <3>5. k \in Nat /\ Len(notified) \in Nat
      BY <1>4
    <3> QED BY <3>2, <3>4, <3>5
  <2> QED BY <1>1, <2>1, <2>2 DEF BudgetInv
<1> QED BY <1>3, <1>5, <1>9 DEF OrderlyInv

\* A frame is handed over for one of its tokens.
HandsOver(r) ==
    /\ notified' = Append(notified, m_receivedframe)
    /\ m_receivedframe.head = trame[r] /\ m_receivedframe.body = trame[r]
    /\ Holds(r) /\ \A q \in Readers \ {r} : ~Holds(q)
    /\ \A q \in Readers : ~Holds(q)'
    /\ \A q \in Readers : at[q]' # "data" /\ at[q]' # "notify"
    /\ ~m_rx_done'
    /\ Marks' = Marks
    /\ UNCHANGED <<register, trame>>

LEMMA NotifyHandsOver ==
    ASSUME TypeInv, OrderlyInv, ReceiveNotify \/ ListenDone
    PROVE  \E r \in Readers : HandsOver(r)
<1> USE DEF Readers
<1>0. /\ at \in [Readers -> Places] /\ (m_rx_done => at["listen"] = "loop")
      /\ at["listen"] \in {"out", "loop", "read", "head", "data"}
  BY DEF TypeInv, TypeOK
<1>1. CASE ReceiveNotify
  <2>1. /\ at["isr"] = "notify" /\ at' = [at EXCEPT !["isr"] = "idle"]
        /\ notified' = Append(notified, m_receivedframe)
        /\ UNCHANGED <<edge, available, register, trame, m_rx_done>>
    BY <1>1 DEF ReceiveNotify, Notify, deviceVars
  <2>2. at'["isr"] = "idle" /\ at'["listen"] = at["listen"]
    BY <1>0, <2>1
  <2>3. Holds("isr") /\ ~Holds("listen")
    BY <2>1 DEF Holds, OrderlyInv, OneHolds
  <2>4. at["listen"] # "head" /\ at["listen"] # "data" /\ ~m_rx_done
    BY <2>3 DEF Holds
  <2>5. Marks' = Marks
    BY <2>1, <2>2 DEF Marks
  <2>6. \A q \in Readers : ~Holds(q)'
    BY <1>0, <2>1, <2>2, <2>4 DEF Holds
  <2>7. HandsOver("isr")
    BY <1>0, <2>1, <2>2, <2>3, <2>4, <2>5, <2>6 DEF HandsOver, OrderlyInv, CopiedInv
  <2> QED BY <2>7
<1>2. CASE ListenDone
  <2>1. /\ at["listen"] = "loop" /\ m_rx_done /\ m_rx_done' = FALSE
        /\ notified' = Append(notified, m_receivedframe)
        /\ UNCHANGED <<edge, available, register, trame, at>>
    BY <1>2 DEF ListenDone, Notify, deviceVars
  <2>2. Holds("listen") /\ ~Holds("isr")
    BY <2>1 DEF Holds, OrderlyInv, OneHolds
  <2>3. at["isr"] \notin {"head", "data", "notify"}
    BY <2>2 DEF Holds
  <2>4. Marks' = Marks
    BY <2>1 DEF Marks
  <2>5. \A q \in Readers : ~Holds(q)'
    BY <2>1, <2>3 DEF Holds
  <2>6. HandsOver("listen")
    BY <2>1, <2>2, <2>3, <2>4, <2>5 DEF HandsOver, OrderlyInv, CopiedInv
  <2> QED BY <2>6
<1> QED BY <1>1, <1>2

LEMMA NotifyOrderly ==
    ASSUME TypeInv, FrameInv, OrderlyInv, NEW r \in Readers, HandsOver(r),
           NEW t, t = trame[r]
    PROVE  OrderlyInv'
<1> DEFINE N == Len(notified)
<1>1. /\ notified \in Seq(FrameType) /\ N \in Nat /\ DOMAIN notified = 1..N
      /\ m_receivedframe \in FrameType /\ register \in Nat /\ register <= MaxFrames
  BY BoundsAssumption DEF TypeInv, TypeOK
<1>2. /\ Len(notified') = N + 1 /\ DOMAIN notified' = 1..(N + 1)
      /\ notified'[N + 1] = m_receivedframe
      /\ \A k \in 1..N : notified'[k] = notified[k]
  BY <1>1 DEF HandsOver
<1>3. /\ notified'[N + 1].head = t /\ notified'[N + 1].body = t
      /\ t <= register /\ \A k \in 1..N : notified[k].head <= t
  BY <1>1, <1>2 DEF HandsOver, OrderlyInv, OrderInv
<1>4. \A k \in 1..N : notified[k].head \in 1..MaxFrames
  <2>1. \A k \in 1..N : notified[k].head \in 1..Len(heard)
    BY <1>1 DEF FrameInv, HoldsHead
  <2> QED BY <1>1, <2>1, BoundsAssumption DEF TypeInv, TypeOK
<1>5. t \in 1..MaxFrames
  <2>1. t \in 0..MaxFrames
    BY DEF TypeInv, TypeOK
  <2>2. t # 0
    <3>1. at[r] \in {"head", "data", "notify"} => trame[r] \in 1..Len(heard)
      BY DEF TypeInv
    <3>2. m_rx_done => m_receivedframe.head # 0
      BY DEF FrameInv
    <3> QED BY <3>1, <3>2, <1>1 DEF HandsOver, Holds
  <2> QED BY <2>1, <2>2, BoundsAssumption
<1>6. Held(t) >= 1 /\ \A f : Held(f)' = 0 /\ Held(f) \in 0..2 /\ (f # t => Held(f) = 0)
  <2>1. \A f : Held(f)' = 0
    BY DEF HandsOver, Held, Bit, Readers
  <2>2. Held(t) = 1 /\ \A f : f # t => Held(f) = 0
    BY DEF HandsOver, Held, Bit, Readers
  <2>3. \A f : Held(f) \in 0..2
    BY TokensNat
  <2> QED BY <2>1, <2>2, <2>3
<1>7. \A f : Pending(f)' = Pending(f) /\ Pending(f) \in 0..3
  BY TokensNat DEF HandsOver, Pending
<1> HIDE DEF N
<1>8. /\ \A f : Tokens(f) \in Nat /\ Tokens(f)' \in Nat /\ Tokens(f)' <= Tokens(f)
      /\ Tokens(t)' + 1 <= Tokens(t)
  BY <1>6, <1>7 DEF Tokens
<1>9. OneHolds' /\ CopiedInv'
  BY DEF HandsOver, OneHolds, CopiedInv, Readers
<1>10. OrderInv'
  <2>1. \A k \in 1..(N + 1) : notified'[k].head <= register
    <3> TAKE k \in 1..(N + 1)
    <3>1. CASE k = N + 1
      BY <1>3, <3>1
    <3>2. CASE k \in 1..N
      BY <1>1, <1>2, <3>2 DEF OrderlyInv, OrderInv
    <3> QED BY <1>1, <3>1, <3>2
  <2> QED BY <1>2, <2>1 DEF HandsOver, OrderInv
<1>11. ASSUME NEW k \in 1..N, notified[k].head = t PROVE (N - k) + 1 + Tokens(t) <= 3
  <2>1. Tokens(t) \in Nat /\ Tokens(t)' \in Nat /\ Tokens(t)' + 1 <= Tokens(t)
    BY <1>8
  <2>2. Tokens(t) > 0
    BY <2>1
  <2> QED BY <1>1, <1>5, <1>11, <2>2 DEF OrderlyInv, BudgetInv, N
<1>12. ASSUME NEW k \in 1..N, NEW f \in 1..MaxFrames, notified[k].head = f, Tokens(f)' > 0
       PROVE  f = t
  <2>1. f <= t /\ t <= register
    BY <1>3, <1>12
  <2>2. f # t => f # register
    BY <1>1, <1>5, <2>1
  <2>3. f # register => Tokens(f)' = 0
    BY <1>6, <1>7 DEF Tokens, Pending
  <2>4. f # register => ~(Tokens(f)' > 0)
    BY <2>3
  <2> QED BY <1>12, <2>2, <2>4
<1>13. BudgetInv'
  <2>1. \A f \in 1..MaxFrames : Tokens(f)' <= 3
    BY <1>8 DEF OrderlyInv, BudgetInv
  <2>2. ASSUME NEW k \in 1..(N + 1), NEW f \in 1..MaxFrames,
               notified'[k].head = f, Tokens(f)' > 0
        PROVE  ((N + 1) - k) + 1 + Tokens(f)' <= 3
    <3>0. Tokens(t) \in Nat /\ Tokens(t)' \in Nat /\ Tokens(t)' + 1 <= Tokens(t)
      BY <1>8
    <3>1. CASE k = N + 1
      <4>1. f = t
        BY <1>3, <2>2, <3>1
      <4>2. Tokens(t) <= 3
        BY <1>5 DEF OrderlyInv, BudgetInv
      <4>3. ((N + 1) - k) + 1 = 1
        BY <1>1, <3>1
      <4>4. 1 + Tokens(t)' <= 3
        BY <3>0, <4>2
      <4> QED BY <4>1, <4>3, <4>4
    <3>2. CASE k \in 1..N
      <4>1. notified[k].head = f
        BY <1>2, <2>2, <3>2
      <4>2. f = t
        BY <1>12, <2>2, <3>2, <4>1
      <4>3. (N - k) + 1 + Tokens(t) <= 3
        BY <1>11, <3>2, <4>1, <4>2
      <4>4. ((N + 1) - k) + 1 + Tokens(t)' <= 3
        BY <1>1, <3>0, <3>2, <4>3
      <4> QED BY <4>2, <4>4
    <3> QED BY <1>1, <3>1, <3>2
  <2> QED BY <1>2, <2>1, <2>2 DEF BudgetInv
<1>14. \A k \in 1..(N + 1) :
         /\ notified'[k].head = notified'[k].body
         /\ k > 1 => notified'[k - 1].head <= notified'[k].head
         /\ k > 3 => notified'[k - 3].head < notified'[k].head
  <2> TAKE k \in 1..(N + 1)
  <2>1. CASE k \in 1..N
    <3>1. k > 1 => k - 1 \in 1..N
      BY <1>1, <2>1
    <3>2. k > 3 => k - 3 \in 1..N
      BY <1>1, <2>1
    <3> QED BY <1>1, <1>2, <2>1, <3>1, <3>2 DEF OrderlyInv, WholeAndInOrder
  <2>2. CASE k = N + 1
    <3>1. ASSUME k > 1 PROVE notified'[k - 1].head <= t
      <4>1. k - 1 \in 1..N
        BY <1>1, <2>2, <3>1
      <4> QED BY <1>2, <1>3, <4>1
    <3>2. ASSUME k > 3 PROVE notified'[k - 3].head < t
      <4>1. k - 3 \in 1..N /\ (N - (k - 3)) + 1 = 3
        BY <1>1, <2>2, <3>2
      <4>2. notified[k - 3].head <= t /\ notified[k - 3].head \in 1..MaxFrames
        BY <1>3, <1>4, <4>1
      <4>3. notified[k - 3].head # t
        <5>1. SUFFICES ASSUME notified[k - 3].head = t PROVE FALSE
          OBVIOUS
        <5>2. 3 + Tokens(t) <= 3
          BY <1>11, <4>1, <5>1
        <5> QED BY <1>8, <5>2
      <4>4. notified[k - 3].head < t
        BY <1>5, <4>2, <4>3
      <4> QED BY <1>2, <4>1, <4>4
    <3> QED BY <1>3, <2>2, <3>1, <3>2
  <2> QED BY <1>1, <2>1, <2>2
<1>15. WholeAndInOrder'
  BY <1>2, <1>14 DEF WholeAndInOrder
<1> QED BY <1>9, <1>10, <1>13, <1>15 DEF OrderlyInv

LEMMA NextOrderly ==
    ASSUME TypeInv, FrameInv, OrderlyInv, [Next]_vars, ~overlapped' PROVE OrderlyInv'
<1>1. CASE \/ Hear \/ Rest \/ StartListen \/ RegisterInterrupt \/ Interrupt \/ Receive
           \/ ListenAvailable \/ (\E frame \in Commands : SendMsg(frame)) \/ Transmit
           \/ UNCHANGED vars
  BY <1>1, QuietSteps, QuietOrderly
<1>2. CASE \E packet \in Packets : Store(packet)
  BY <1>2, StoreOrderly
<1>3. CASE \E r \in Readers : Read(r)
  BY <1>3, ReadOrderly
<1>4. CASE \E r \in Readers : CopyHead(r)
  BY <1>4, CopyHeadOrderly
<1>5. CASE \E r \in Readers : \E g \in Garbage : CopyData(r, g)
  BY <1>5, CopyDataOrderly
<1>6. CASE ReceiveNotify \/ ListenDone
  <2>1. PICK r \in Readers : HandsOver(r)
    BY <1>6, NotifyHandsOver
  <2>2. PICK t : t = trame[r]
    OBVIOUS
  <2> QED BY <2>1, <2>2, NotifyOrderly
<1> QED BY <1>1, <1>2, <1>3, <1>4, <1>5, <1>6
    DEF Next, DeviceWorks, IsrNext, ListenNext, Readers

\* Two readers that ran into each other have done so for good.
LEMMA OverlappedStays == ASSUME TypeInv, [Next]_vars, ~overlapped' PROVE ~overlapped
BY DEF Next, DeviceWorks, IsrNext, ListenNext, Hear, Store, Rest, StartListen,
       RegisterInterrupt, Interrupt, Receive, ReceiveNotify, ListenDone, ListenAvailable,
       Read, CopyHead, CopyData, SendMsg, Transmit, vars, readerVars

LEMMA IInvHolds == Spec => []IInv
<1>1. Init => IInv
  BY InitTypes, InitFrame, InitOrderly DEF IInv
<1>2. IInv /\ [Next]_vars => IInv'
  <2> SUFFICES ASSUME TypeInv, FrameInv, ~overlapped => OrderlyInv, [Next]_vars PROVE IInv'
    BY DEF IInv
  <2>1. TypeInv' /\ FrameInv'
    BY NextTypes, NextFrame
  <2>2. ~overlapped' => OrderlyInv'
    BY NextOrderly, OverlappedStays
  <2> QED BY <2>1, <2>2 DEF IInv
<1> QED BY <1>1, <1>2, PTL DEF Spec

\* The bytes handed over, cut to the length in the head, are the packet's.
LEMMA WholeData ==
    ASSUME NEW data \in Seq(Byte), NEW copy \in Seq(Byte), Len(data) <= Len(copy),
           Len(data) <= ReadSize,
           \A i \in 1..Len(data) : i <= ReadSize => copy[i] = data[i]
    PROVE  SubSeq(copy, 1, Len(data)) = data
<1> DEFINE n == Len(data)
           cut == SubSeq(copy, 1, n)
<1>1. n \in Nat /\ Len(copy) \in Nat /\ ReadSize \in Nat
  BY DEF ReadSize
<1>2. \A i \in 1..n : copy[i] = data[i]
  BY <1>1
<1>3. cut = [i \in 1..n |-> copy[i]]
  BY <1>1
<1>4. data = [i \in 1..n |-> data[i]]
  OBVIOUS
<1> HIDE DEF n, cut
<1>5. cut = data
  BY <1>2, <1>3, <1>4
<1> QED BY <1>5 DEF n, cut

LEMMA InvDecoded == ASSUME TypeInv, FrameInv PROVE Decoded
<1> SUFFICES ASSUME NEW k \in DOMAIN notified, notified[k].head = notified[k].body,
                    Plain(heard[notified[k].head]),
                    Len(heard[notified[k].head].data) <= ReadSize
             PROVE  ReadsAs(heard[notified[k].head],
                            SubSeq(notified[k].data, 1, notified[k].taille - 1))
  BY DEF Decoded
<1> DEFINE frame == notified[k]
           packet == heard[frame.head]
<1>1. frame.head \in 1..Len(heard) /\ frame.taille = Len(packet.data) + 1
  BY DEF FrameInv, HoldsHead
<1>2. /\ Len(packet.data) <= Len(frame.data)
      /\ \A i \in 1..Len(packet.data) : i <= ReadSize => frame.data[i] = packet.data[i]
  BY DEF FrameInv, HoldsBody
<1>3. packet \in Packets /\ frame \in FrameType
  BY <1>1 DEF TypeInv, TypeOK
<1>4. packet.data \in Seq(Byte) /\ Len(packet.data) \in Nat /\ frame.data \in Seq(Byte)
  <2>1. packet.data \in Seq(Byte)
    BY <1>3, DataType
  <2> QED BY <1>3, <2>1 DEF FrameType
<1>5. Plain(packet) /\ Len(packet.data) <= ReadSize
  OBVIOUS
<1> HIDE DEF frame, packet
<1>6. SubSeq(frame.data, 1, Len(packet.data)) = packet.data
  BY <1>2, <1>4, <1>5, WholeData
<1>7. frame.taille - 1 = Len(packet.data)
  BY <1>1, <1>4
<1>8. ReadsAs(packet, SubSeq(frame.data, 1, frame.taille - 1))
  BY <1>3, <1>5, <1>6, <1>7, ReadsBack
<1> QED BY <1>8 DEF frame, packet

\* As long as the two readers do not read inside each other's Read to Notify, every frame
\* comes to the observers whole and in order, and none more than three times; and whatever
\* they do, a frame that is whole and no longer than what is read shows its plugin the
\* values its node packed, for any values in range.
THEOREM DeliveredHolds == Spec => []Delivered
<1>1. IInv => Delivered
  BY InvDecoded DEF IInv, OrderlyInv, Delivered
<1> QED BY <1>1, IInvHolds, PTL
=============================================================================
