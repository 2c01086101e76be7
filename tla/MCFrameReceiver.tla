--------------------------- MODULE MCFrameReceiver ---------------------------
(* The instances TLC checks.                                                *)
EXTENDS FrameReceiver

\* A frame of this size, with data of both kinds of bits.
OfSize(n) == [receptor |-> 1, sender |-> 165, type |-> IF n = 1 THEN 3 ELSE 4,
              data |-> [i \in 1..(n - 1) |-> (77 * i + n) % 256]]

Acks == {OfSize(1)}
Some == {OfSize(1), OfSize(3), OfSize(31)}
Large == {OfSize(12), OfSize(13)}
None == {}
=============================================================================
