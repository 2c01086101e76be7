---------------------------- MODULE FrameReceiver ----------------------------
(***************************************************************************)
(* A receiver, with Pll, in front of nodes that transmit frames one after  *)
(* the other.  A step is a half bit of the transmitter, eight samples of   *)
(* the receiver, or eight samples of silence.  The frames do not come in   *)
(* phase with the sampling, the transmitter's clock slips, the air is      *)
(* noisy, and a transmission breaks off.                                   *)
(***************************************************************************)
EXTENDS Pll

CONSTANTS
    Frames,          \* the frames nodes send
    Troubled,        \* those of them whose transmission may be disturbed
    SlipGap,         \* the clocks of the two ends agree to a sample for so many half bits
    Pause,           \* the half bits of silence before a frame that count as a pause
    MaxFrames,       \* bound: frames sent
    MaxTrouble       \* bound: disturbances

\* Addresses and data are bytes, type has three bits and taille what the receiver lets
\* through.
ASSUME FramesAssumption ==
    /\ Frames \subseteq [receptor : Byte, sender : Byte, type : 0..7, data : Seq(Byte)]
    /\ \A f \in Frames : Taille(f) <= MaxSize
ASSUME TroubledAssumption == Troubled \subseteq Frames
ASSUME SlipGapAssumption == SlipGap \in Nat /\ SlipGap >= 16
ASSUME PauseAssumption == Pause \in Nat \ {0}
ASSUME BoundsAssumption == MaxFrames \in Nat /\ MaxTrouble \in Nat

VARIABLES
    sent,            \* the frames sent, oldest first
    at,              \* the half bit of the last of them to send next, 0 if there is none
    slip,            \* the half bit of it that was short or long last, or 0
    quiet,           \* the half bits it was silent for, up to Pause
    clean,           \* the last frame began after a pause, with the receiver looking for
                     \* a frame, and was not broken off
    trouble,         \* disturbances so far
    got              \* the first frame handed over since the last one began

vars == <<rx, sent, at, slip, quiet, clean, trouble, got>>

Signal == [f \in Frames |-> HalfBits(f)]

\* The frame on the air.
Air == sent[Len(sent)]

FInit ==
    /\ Init
    /\ sent = <<>> /\ at = 0 /\ slip = 0 /\ quiet = Pause /\ clean = FALSE
    /\ trouble = 0 /\ got = <<>>

\* The receiver after n samples of level s, one call of pll for each.
After(r, s, n) ==
    LET run[i \in 0..n] == IF i = 0 THEN r ELSE Sampled(run[i - 1], s)
    IN run[n]

\* listenSignal: setDone(false) before a sample, and the frame is handled when one is
\* done.  Of so few samples one completes a frame at the most, as it takes more than
\* 48 half bits.
Waiting == [rx EXCEPT !.done = FALSE]
Listen(r) ==
    /\ rx' = r
    /\ got' = IF r.done /\ got = <<>> THEN <<r.frame>> ELSE got

\* A node begins to send: the first of them at any phase of the sampling.
Key == \E f \in Frames, phase \in IF sent = <<>> THEN 0..7 ELSE {0} :
    /\ at = 0 /\ Len(sent) < MaxFrames
    /\ sent' = Append(sent, f) /\ at' = 1
    /\ rx' = After(Waiting, 0, phase)
    /\ clean' = (~rx'.active /\ quiet = Pause)
    /\ quiet' = 0 /\ got' = <<>>
    /\ UNCHANGED <<slip, trouble>>

\* The next half bit, n samples long.
Emit(n) ==
    /\ at # 0
    /\ Listen(After(Waiting, Signal[Air][at], n))
    /\ at' = IF at = Len(Signal[Air]) THEN 0 ELSE at + 1
    /\ slip' = IF at' = 0 THEN 0 ELSE IF n = 8 THEN slip ELSE at
    /\ UNCHANGED <<sent, quiet, clean>>

Send == Emit(8) /\ UNCHANGED trouble

Disturbed == trouble < MaxTrouble /\ trouble' = trouble + 1

\* The clocks of the two ends drift: a half bit is one sample short or long.
Slip == \E n \in {7, 9} :
    /\ at # 0 /\ Air \in Troubled
    /\ slip = 0 \/ at - slip > SlipGap
    /\ Emit(n) /\ Disturbed

\* The node fails, or its signal is drowned from here on.
BreakOff ==
    /\ at # 0 /\ Air \in Troubled /\ Disturbed
    /\ at' = 0 /\ slip' = 0 /\ clean' = FALSE
    /\ UNCHANGED <<rx, sent, quiet, got>>

Silence ==
    /\ at = 0
    /\ Listen(After(Waiting, 0, 8))
    /\ quiet' = IF quiet = Pause THEN quiet ELSE quiet + 1
    /\ UNCHANGED <<sent, at, slip, clean, trouble>>

\* A pulse of n samples when nobody sends.
Noise == \E n \in 1..7 :
    /\ at = 0 /\ Disturbed
    /\ Listen(After(After(Waiting, 1, n), 0, 8 - n))
    /\ quiet' = 0
    /\ UNCHANGED <<sent, at, slip, clean>>

FNext == Key \/ Send \/ Slip \/ BreakOff \/ Silence \/ Noise

FSpec == FInit /\ [][FNext]_vars

-----------------------------------------------------------------------------
(* Properties                                                              *)

\* Every frame sent after a pause, while the receiver is looking for one, is handed over
\* as it was sent, and nothing before it, whatever its size, whatever came before, and
\* although the two clocks are not in phase and drift: eight samples after its last half
\* bit at the latest.  (After less than four half bits, the end of a start byte that was
\* broken off, the silence and the first half bit of the AGC sequence can make a start
\* byte.)
Delivered ==
    clean /\ at = 0 /\ quiet > 0 => got = <<sent[Len(sent)]>>

\* bit_count gets to the end of every frame without wrapping.
CountFits == \A f \in Frames : 48 + 16 * Taille(f) < CountMod
=============================================================================
