------------------------------ MODULE VoiceLine ------------------------------
(***************************************************************************)
(* The half-duplex line of a call: the bridge to the Realtime API, the     *)
(* playout that feeds the telephone, and the rule by which the caller is   *)
(* heard again.  The API streams a response in bursts, calls tools in the  *)
(* middle of it and ends it long before the caller has heard it; what the  *)
(* robot says must not come back to it as the caller's words, and the line *)
(* must not stay deaf.                                                     *)
(***************************************************************************)
EXTENDS Naturals

CONSTANTS
    Preroll,        \* pieces of audio the playout waits for (RTP_PREROLL_BYTES)
    Pieces,         \* bound: pieces of audio in one response
    LineTools,      \* bound: tool calls in the call
    LineTurns       \* bound: turns of the caller and take-overs in the call

ASSUME LineAssumption ==
    /\ Preroll \in Nat \ {0} /\ Pieces \in Nat
    /\ LineTools \in Nat /\ LineTurns \in Nat

VARIABLES
    line,           \* the bridge and the flags of handleInboundInvite
    playout,        \* RtpPlayout: what is buffered, and whether it speaks
    toolsCalled, turnsTaken

lvars == <<line, playout, toolsCalled, turnsTaken>>
lbounds == <<toolsCalled, turnsTaken>>

\* flight: responseInFlight; idle: playoutIdle; guard: unmuteTimer; queued:
\* turnQueued; tools: toolJobs that run; used: toolsThisTurn > 0; server: how
\* far the API is with the response; pieces: the audio it sent for it.
SilentLine == [flight |-> FALSE, generating |-> FALSE, muted |-> TRUE, guard |-> FALSE,
               idle |-> TRUE, queued |-> FALSE, tools |-> 0, used |-> FALSE,
               server |-> "off", pieces |-> 0]

\* holdLine.
Hold(l) == [l EXCEPT !.generating = TRUE, !.idle = FALSE, !.guard = FALSE, !.muted = TRUE]
\* beginResponse: one response at a time.
Begin(l) == IF l.flight THEN [l EXCEPT !.queued = TRUE]
            ELSE [Hold(l) EXCEPT !.flight = TRUE, !.server = "asked", !.pieces = 0]
\* considerListen: after the echo of the last word.
Listen(l) == IF l.generating \/ ~l.idle THEN l ELSE [l EXCEPT !.guard = TRUE]

LineInit ==
    /\ line = SilentLine
    /\ playout = [buf |-> 0, speaking |-> FALSE]
    /\ toolsCalled = 0 /\ turnsTaken = 0

-----------------------------------------------------------------------------
\* connect ends with the greeting.
Greet ==
    /\ line.server = "off"
    /\ line' = Begin(line)
    /\ UNCHANGED <<playout, lbounds>>

Turn == turnsTaken < LineTurns /\ turnsTaken' = turnsTaken + 1

\* The API heard the end of the caller's phrase: input_audio_buffer.committed.
CallerSpoke ==
    /\ ~line.muted /\ ~line.flight
    /\ Turn
    /\ line' = Begin(line)
    /\ UNCHANGED <<playout, toolsCalled>>

\* requestTransfer, of a take-over from the cabinet; one that comes before the
\* greeting ends the call, as VoiceCall has it.
Announce ==
    /\ line.server # "off"
    /\ Turn
    /\ line' = Begin(line)
    /\ UNCHANGED <<playout, toolsCalled>>

Created ==
    /\ line.server = "asked"
    /\ line' = [Hold(line) EXCEPT !.server = "speaking", !.flight = TRUE]
    /\ UNCHANGED <<playout, lbounds>>

\* The API answers response.create with an error event, which is only logged:
\* nothing is created for it and nothing done, and responseInFlight stays set.
Refused ==
    /\ line.server = "asked"
    /\ line' = [line EXCEPT !.server = "refused"]
    /\ UNCHANGED <<playout, lbounds>>

\* push keeps the newest audio when the buffer is full.
Pushed(p) == [p EXCEPT !.buf = IF @ < Pieces + Preroll THEN @ + 1 ELSE @]

\* Mutant: audio is queued and the line left as it is.
Delta_push_only ==
    /\ line.server = "speaking" /\ line.pieces < Pieces
    /\ line' = [line EXCEPT !.pieces = @ + 1]
    /\ playout' = Pushed(playout)
    /\ UNCHANGED lbounds

\* onAudioOut.
Delta ==
    /\ line.server = "speaking" /\ line.pieces < Pieces
    /\ line' = [line EXCEPT !.guard = FALSE, !.idle = FALSE, !.muted = TRUE, !.pieces = @ + 1]
    /\ playout' = Pushed(playout)
    /\ UNCHANGED lbounds

ToolCalled ==
    /\ line.server = "speaking" /\ toolsCalled < LineTools
    /\ toolsCalled' = toolsCalled + 1
    /\ line' = [line EXCEPT !.tools = @ + 1, !.used = TRUE]
    /\ UNCHANGED <<playout, turnsTaken>>

ToolReturns ==
    /\ line.tools > 0
    /\ line' = [line EXCEPT !.tools = @ - 1]
    /\ UNCHANGED <<playout, lbounds>>

ResponseDone ==
    /\ line.server = "speaking"
    /\ line' = [line EXCEPT !.server = "done"]
    /\ UNCHANGED <<playout, lbounds>>

\* What is left of response.done once the tools have answered.
Finished(l) ==
    LET free == Listen([l EXCEPT !.flight = FALSE, !.generating = FALSE, !.used = FALSE,
                                 !.queued = FALSE, !.server = "quiet"])
    IN IF l.used \/ l.queued THEN Begin(free) ELSE free
Finish ==
    /\ line.server = "done" /\ line.tools = 0
    /\ line' = Finished(line)
    /\ UNCHANGED <<playout, lbounds>>

-----------------------------------------------------------------------------
\* emitFrame, the tick of the RTP clock.
StartSpeaking ==
    /\ ~playout.speaking /\ playout.buf >= Preroll
    /\ playout' = [playout EXCEPT !.speaking = TRUE]
    /\ UNCHANGED <<line, lbounds>>

PlayPiece ==
    /\ playout.speaking /\ playout.buf > 0
    /\ playout' = [playout EXCEPT !.buf = @ - 1]
    /\ UNCHANGED <<line, lbounds>>

\* Mutant: the end of the speech is not reported.
Underrun_unreported ==
    /\ playout.speaking /\ playout.buf = 0
    /\ playout' = [playout EXCEPT !.speaking = FALSE]
    /\ UNCHANGED <<line, lbounds>>

\* Nothing came for RTP_CONCEAL_MS: onIdle, in the middle of a response too.
Underrun ==
    /\ playout.speaking /\ playout.buf = 0
    /\ playout' = [playout EXCEPT !.speaking = FALSE]
    /\ line' = Listen([line EXCEPT !.idle = TRUE])
    /\ UNCHANGED lbounds

\* ECHO_GUARD_MS later.
GuardFires ==
    /\ line.guard
    /\ line' = [line EXCEPT !.guard = FALSE,
                            !.muted = @ /\ (line.generating \/ ~line.idle)]
    /\ UNCHANGED <<playout, lbounds>>

Streaming == Created \/ ResponseDone \/ Finish
Playing == StartSpeaking \/ PlayPiece \/ Underrun
LineNext == \/ Greet \/ CallerSpoke \/ Announce \/ Refused \/ Delta \/ ToolCalled \/ ToolReturns
            \/ GuardFires \/ Streaming \/ Playing

\* The API answers what it is asked and ends what it began, tools come back, and the clocks run.
LineFairness == /\ WF_lvars(Streaming) /\ WF_lvars(ToolReturns)
                /\ WF_lvars(Playing) /\ WF_lvars(GuardFires)
LineSpec == LineInit /\ [][LineNext]_lvars /\ LineFairness

-----------------------------------------------------------------------------
\* Every variable keeps its type.
LineTypeOK ==
    /\ line \in [flight: BOOLEAN, generating: BOOLEAN, muted: BOOLEAN, guard: BOOLEAN,
                 idle: BOOLEAN, queued: BOOLEAN, tools: 0..LineTools, used: BOOLEAN,
                 server: {"off", "quiet", "asked", "refused", "speaking", "done"}, pieces: 0..Pieces]
    /\ playout \in [buf: 0..(Pieces + Preroll), speaking: BOOLEAN]
    /\ toolsCalled \in 0..LineTools /\ turnsTaken \in 0..LineTurns

\* The caller's microphone is open only while the robot is neither speaking nor
\* about to: a burst that comes late, an underrun in the middle of a response
\* and a timer set before it do not open it over the robot's own voice.
ListenOnlyWhenQuiet ==
    ~line.muted => ~line.flight /\ ~line.generating /\ ~playout.speaking /\ playout.buf = 0
\* A response that has ended with no audio, or with less than a preroll of it
\* in the buffer: the playout never starts, so it never reports its end.
Unspoken == /\ ~line.flight /\ ~playout.speaking /\ playout.buf < Preroll
            /\ playout.buf > 0 \/ line.pieces = 0

\* After every response the caller is heard again - but for a response that
\* ends unspoken, and for one the API refused: both leave the line deaf.
LineListens == line.flight ~> (~line.muted \/ Unspoken \/ line.server = "refused")
=============================================================================
