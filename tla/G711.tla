-------------------------------- MODULE G711 --------------------------------
(***************************************************************************)
(* The two telephone codecs of the voice gateway, written from their bit   *)
(* arithmetic: a 16-bit sample becomes a byte and comes back.  The frame   *)
(* is any FrameLen neighbours among the samples there are.                 *)
(***************************************************************************)
EXTENDS Integers

CONSTANT FrameLen       \* samples of one frame; divides 65536

ASSUME G711Assumption == FrameLen \in Nat \ {0} /\ 65536 % FrameLen = 0

VARIABLE frame          \* the first sample of the frame, below all of them at first
xvars == <<frame>>

Byte == 0..255
Samples == -32768..32767
Inverted(b) == 255 - b
\* i ^ 0x55: every other bit of a byte, from the lowest on.
Toggle(b, bit) == IF (b \div bit) % 2 = 0 THEN bit ELSE -bit
Toggled == [b \in Byte |-> b + Toggle(b, 1) + Toggle(b, 4) + Toggle(b, 16) + Toggle(b, 64)]
Abs(x) == IF x < 0 THEN -x ELSE x
Capped(x, top) == IF x > top THEN top ELSE x
SignBit(x) == IF x < 0 THEN 128 ELSE 0
Nibble(n) == n % 16
\* 1 << k; so x << k is x * Bit[k], and x >> k is x \div Bit[k].
Bit == [k \in 0..15 |-> 2^k]
SegmentBits(b) == (b \div 16) % 8

\* The segment of a magnitude: the place of its highest bit from 14 down to 8, and
\* nothing below.
Segment(m) == IF m < 256 THEN 0 ELSE CHOOSE e \in 1..7 : Bit[e + 7] <= m /\ m < Bit[e + 8]

\* MULAW_DECODE and ALAW_DECODE.
MulawDecode == [b \in Byte |->
    LET u == Inverted(b)
        magnitude == (Nibble(u) * 8 + 132) * Bit[SegmentBits(u)] - 132
    IN  IF u >= 128 THEN -magnitude ELSE magnitude]
AlawDecode == [b \in Byte |->
    LET a == Toggled[b]
        e == SegmentBits(a)
        data == Nibble(a) * 16 + 8 + IF e = 0 THEN 0 ELSE 256
        magnitude == IF e > 1 THEN data * Bit[e - 1] ELSE data
    IN  IF a >= 128 THEN -magnitude ELSE magnitude]

linearToMulaw(x) ==
    LET m == Capped(Abs(x), 32635) + 132
        e == Segment(m)
    IN  Inverted(SignBit(x) + e * 16 + Nibble(m \div Bit[e + 3]))

\* Mutant: one shift for every segment.
linearToAlaw_one_shift(x) ==
    LET m == Capped(Abs(x), 32767)
        e == Segment(m)
    IN  Toggled[SignBit(x) + e * 16 + Nibble(m \div Bit[e + 3])]

\* The lowest segment is as coarse as the one above it.
linearToAlaw(x) ==
    LET m == Capped(Abs(x), 32767)
        e == Segment(m)
    IN  Toggled[SignBit(x) + e * 16 + Nibble(m \div Bit[IF e = 0 THEN 4 ELSE e + 3])]

CodecInit == frame = -32768 - FrameLen
NextFrame == CodecInit /\ \E n \in 0..(65536 \div FrameLen - 1) : frame' = n * FrameLen - 32768
CodecNext == NextFrame
CodecSpec == CodecInit /\ [][CodecNext]_xvars

-----------------------------------------------------------------------------
\* The frame is made of samples, once there is one.
CodecTypeOK == CodecInit \/ frame \in Samples

Frame == frame..(frame + FrameLen - 1)
Near(x, back, base) == Abs(back - x) <= (IF Abs(x) + base < 256 THEN 8 ELSE (Abs(x) + base) \div 32)

\* Whatever the level, from silence to the loudest sample of either sign, a sample
\* that is coded and decoded comes back within a thirty-second of itself (of itself
\* and the bias in mu-law; within 8 when that is below 256) and, if it is above 8,
\* on the same side of zero; what was decoded once is coded to the same sound again.
LevelIsKept ==
    ~CodecInit => \A x \in Frame :
        LET u == linearToMulaw(x)
            a == linearToAlaw(x)
        IN  /\ u \in Byte /\ a \in Byte
            /\ Near(x, MulawDecode[u], 132) /\ Near(x, AlawDecode[a], 0)
            /\ Abs(x) > 8 => (x < 0) = (MulawDecode[u] < 0) /\ (x < 0) = (AlawDecode[a] < 0)
            /\ MulawDecode[linearToMulaw(MulawDecode[u])] = MulawDecode[u]
            /\ AlawDecode[linearToAlaw(AlawDecode[a])] = AlawDecode[a]
=============================================================================
