---------------------------- MODULE AudioStream -----------------------------
(***************************************************************************)
(* The resampling of one call's audio (RealtimeAudioIo): the model's voice *)
(* at 24 kHz comes in deltas of any length and goes to the telephone at    *)
(* 8 kHz, the caller's goes back.  A sample is its number in the stream,   *)
(* and an output sample is the samples the filter weighs for it, in the    *)
(* order of the weights.                                                   *)
(***************************************************************************)
EXTENDS Integers, Sequences

CONSTANTS
    Taps,           \* weights of the filter (LOWPASS_24K: 63)
    Spoken,         \* bound: samples of a stream
    DeltaMax        \* bound: samples of one delta

ASSUME AudioAssumption ==
    Taps \in Nat \ {0} /\ Spoken \in Nat /\ DeltaMax \in Nat

VARIABLES
    down,           \* FirDecimator24to8: its ring, and what it put out
    up,             \* CubicUpsampler8to24 likewise
    heard           \* samples of each stream that came

ovars == <<down, up, heard>>

Quiet == 0
AudioInit ==
    /\ down = [delay |-> [i \in 0..(Taps - 1) |-> Quiet], write |-> 0, phase |-> 0, out |-> <<>>]
    /\ up = [hist |-> <<Quiet, Quiet, Quiet, Quiet>>, out |-> <<>>]
    /\ heard = [down |-> 0, up |-> 0]

\* The samples of the ring, the last written first.
Weighed(delay, next) == [t \in 1..Taps |-> delay[(next - t) % Taps]]

Decimated(d, x) ==
    LET delay == [d.delay EXCEPT ![d.write] = x]
        next == (d.write + 1) % Taps
    IN  [delay |-> delay, write |-> next, phase |-> (d.phase + 1) % 3,
         out |-> IF d.phase = 0 THEN Append(d.out, Weighed(delay, next)) ELSE d.out]

\* cubicSample at index 2 of the history: it weighs the places 1, 2 and 3, the
\* last one twice, at 0, a third and two thirds of the way.
Upsampled(u, x) ==
    LET h == <<u.hist[2], u.hist[3], u.hist[4], x>>
    IN  [hist |-> h, out |-> u.out \o [third \in 1..3 |-> <<h[2], h[3], h[4], third - 1>>]]

Chunk(from, n) == [i \in 1..n |-> from + i]

\* Mutant: every delta begins with an output sample.
Down_from_start(delta) ==
    LET after[i \in 0..Len(delta)] ==
            IF i = 0 THEN [down EXCEPT !.phase = 0] ELSE Decimated(after[i - 1], delta[i])
    IN  after[Len(delta)]

\* process of either filter: one sample of the delta after the other.
Down(delta) ==
    LET after[i \in 0..Len(delta)] == IF i = 0 THEN down ELSE Decimated(after[i - 1], delta[i])
    IN  after[Len(delta)]
Up(delta) ==
    LET after[i \in 0..Len(delta)] == IF i = 0 THEN up ELSE Upsampled(after[i - 1], delta[i])
    IN  after[Len(delta)]

\* toPstn and toRealtime; a delta may be empty, and shorter than a step of three.
ToPstn(n) ==
    /\ heard.down + n <= Spoken
    /\ down' = Down(Chunk(heard.down, n))
    /\ heard' = [heard EXCEPT !.down = @ + n]
    /\ UNCHANGED up

ToRealtime(n) ==
    /\ heard.up + n <= Spoken
    /\ up' = Up(Chunk(heard.up, n))
    /\ heard' = [heard EXCEPT !.up = @ + n]
    /\ UNCHANGED down

AudioNext == \E n \in 0..DeltaMax : ToPstn(n) \/ ToRealtime(n)
AudioSpec == AudioInit /\ [][AudioNext]_ovars

-----------------------------------------------------------------------------
\* Every variable keeps its type.
AudioTypeOK ==
    /\ down.delay \in [0..(Taps - 1) -> 0..Spoken] /\ down.write \in 0..(Taps - 1)
    /\ down.phase \in 0..2 /\ Len(up.hist) = 4
    /\ heard \in [down: 0..Spoken, up: 0..Spoken]

SampleAt(i) == IF i > 0 THEN i ELSE Quiet
\* However the API cuts its voice into deltas, the telephone gets what the filter
\* makes of the whole: one sample for every third, each of the last Taps samples
\* before it; and three for each the caller sends.  No click where deltas meet.
DeltasJoin ==
    /\ down.out = [k \in 1..((heard.down + 2) \div 3) |-> [t \in 1..Taps |-> SampleAt(3 * k - 1 - t)]]
    /\ up.out = [k \in 1..(3 * heard.up) |->
                    LET i == (k + 2) \div 3
                    IN  <<SampleAt(i - 2), SampleAt(i - 1), i, (k - 1) % 3>>]
=============================================================================
