------------------------------- MODULE MCI2CRF -------------------------------
(* The instance TLC checks: one frame of any packet, or three of two.       *)
EXTENDS I2CRF

Packet(plugin, items) ==
    [plugin |-> plugin, items |-> items, data |-> Data(plugin, items)]

Node(items) == Packet("NODE VERSION 0.5", items)
Dht(half, humidity) == Packet("DHT11", <<half, humidity>>)

\* The ends of each range, and one step beyond it.
Edges(type) ==
    IF type = ETAT THEN {0, 1, 15, 16}
    ELSE IF type \in Signed THEN {-2048, -2047, -256, -1, 0, 255, 256, 2047, 2048}
    ELSE IF type = WATT THEN {0, 255, 256, 65535, 65536, 1048575, 1048576}
    ELSE {-1, 0, 255, 256, 2048, 4095, 4096}

Singles == {Node(<<<<type, v>>>>) : <<type, v>> \in
              UNION {{type} \X Edges(type) : type \in Types}}

Short == Node(<<<<DISTANCE, 300>>>>)
Mixed == Node(<<<<DEGREEC, -431>>, <<ETAT, 1>>, <<WATT, 70000>>, <<HUMIDITY, 2500>>>>)

Repeat(item, n) == Node([k \in 1..n |-> item])

\* 26 and 28 bytes of data, and more than fits.
Long == {Repeat(<<PRESSION, 1013>>, 13), Repeat(<<PRESSION, 1013>>, 14),
         Repeat(<<WATT, 70000>>, 12)}

\* Zero, the smallest and largest of each kind, 21.5, -0.5, infinity.
Halves == {Dht(half, humidity) : half \in {0, 32768, 1, 1023, 1024, 31743, 19808, 47104, 31744},
                                 humidity \in {45, 65535}}

MCPackets == Singles \cup {Short, Mixed} \cup Long \cup Halves

MCCommands == {[taille |-> 2, data |-> <<16, 1>>]}

\* One frame of any packet, or a long, a short and a long one; the command is asked
\* for before the second.
Pattern == <<Mixed, Short, Mixed>>

Traffic ==
    /\ \A k \in DOMAIN heard :
         heard[k] # Pattern[k] => heard[k] \notin {Short, Mixed} /\ k = 1 /\ busy # "hears"
    /\ sending # NoCommand => Len(heard) <= 1

MCSpec == Init /\ [][Next /\ Traffic']_vars /\ Fairness
=============================================================================
