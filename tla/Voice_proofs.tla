---------------------------- MODULE Voice_proofs ----------------------------
(***************************************************************************)
(* What holds of the voice gateway's line, of its registration, of its     *)
(* calls and of its converters of sound for every preroll, every length of *)
(* a response, every number of turns, tool calls, user names, calls, taps  *)
(* and samples, and every number of failures; and of its codecs for every  *)
(* sample.                                                                 *)
(***************************************************************************)
EXTENDS VoiceLine, SipRegistrar, VoiceCall, AudioStream, G711, WellFoundedInduction, SequenceTheorems, TLAPS

-----------------------------------------------------------------------------
(* The registration.                                                        *)

\* The unregistering request is sent by stop() only: while the trunk runs no
\* answer to it can set a second timer.
SipInv ==
    /\ SipTypeOK
    /\ OneRegisterLoop
    /\ ~registrar.stopped => asking["zero"].at = "none"

LEMMA RequestTypes ==
    ASSUME SipTypeOK, NEW k \in Requests
    PROVE  /\ registrar \in [stopped: BOOLEAN, timer: BOOLEAN, registered: BOOLEAN]
           /\ asking[k].at \in {"none", "plain", "signed"}
           /\ asking[k].at = "signed" => asking[k].user \in 1..SipUsers
           /\ asking \in [Requests -> {Idle, Plain} \cup {Signed(n) : n \in 1..SipUsers}]
           /\ Signed(1) \in {Signed(n) : n \in 1..SipUsers}
BY SipAssumption DEF SipTypeOK, Idle, Plain, Signed

LEMMA SipInitInv == SipInit => SipInv
BY DEF SipInit, SipInv, SipTypeOK, OneRegisterLoop, Requests, Idle, Plain, Signed

\* What onFinal and scheduleRetry do to the registrar.
LEMMA FinalType ==
    ASSUME SipTypeOK, NEW k \in Requests, NEW ok \in BOOLEAN
    PROVE  /\ Final(registrar, k, ok)
                \in [stopped: BOOLEAN, timer: BOOLEAN, registered: BOOLEAN]
           /\ Final(registrar, k, ok).stopped = registrar.stopped
           /\ Final(registrar, k, ok).timer =
                (IF k = "full" THEN registrar.timer \/ ~registrar.stopped ELSE registrar.timer)
           /\ Rearmed(registrar) \in [stopped: BOOLEAN, timer: BOOLEAN, registered: BOOLEAN]
           /\ Rearmed(registrar).stopped = registrar.stopped
           /\ Rearmed(registrar).timer = (registrar.timer \/ ~registrar.stopped)
BY DEF SipTypeOK, Final, Rearmed

LEMMA SipStepInv == SipInv /\ [SipNext]_gvars => SipInv'
<1> SUFFICES ASSUME SipInv, [SipNext]_gvars
             PROVE  SipInv'
  OBVIOUS
<1> USE DEF SipInv
<1>1. CASE TimerFires
  BY <1>1, RequestTypes
     DEF TimerFires, SipTypeOK, OneRegisterLoop, Requests, Idle, Plain, Signed
<1>2. CASE Stop
  BY <1>2, RequestTypes DEF Stop, SipTypeOK, OneRegisterLoop, Requests, Idle, Plain, Signed
<1>3. ASSUME NEW k \in Requests, Challenged(k)
      PROVE  SipInv'
  <2>1. CASE asking' = [asking EXCEPT ![k] = Signed(1)] /\ UNCHANGED registrar
    BY <1>3, <2>1, RequestTypes
       DEF Challenged, SipTypeOK, OneRegisterLoop, Requests, Idle, Plain, Signed
  <2>2. CASE asking' = [asking EXCEPT ![k] = Idle] /\ registrar' = Rearmed(registrar)
    BY <1>3, <2>2, RequestTypes, FinalType
       DEF Challenged, SipTypeOK, OneRegisterLoop, Requests, Idle, Plain, Signed
  <2> QED
    BY <1>3, <2>1, <2>2 DEF Challenged
<1>4. ASSUME NEW k \in Requests, NextName(k)
      PROVE  SipInv'
  <2>1. asking[k].user + 1 \in 1..SipUsers
    BY <1>4, RequestTypes, SipAssumption DEF NextName
  <2>2. CASE asking' = [asking EXCEPT ![k] = Signed(asking[k].user + 1)] /\ UNCHANGED registrar
    <3>1. Signed(asking[k].user + 1) \in {Signed(n) : n \in 1..SipUsers}
      BY <2>1
    <3> QED
      BY <1>4, <2>2, <3>1, RequestTypes
         DEF NextName, SipTypeOK, OneRegisterLoop, Requests, Idle, Plain, Signed
  <2>3. CASE asking' = [asking EXCEPT ![k] = Idle] /\ registrar' = Rearmed(registrar)
    BY <1>4, <2>3, RequestTypes, FinalType
       DEF NextName, SipTypeOK, OneRegisterLoop, Requests, Idle, Plain, Signed
  <2> QED
    BY <1>4, <2>2, <2>3 DEF NextName
<1>5. ASSUME NEW k \in Requests, ProviderAnswers(k)
      PROVE  SipInv'
  BY <1>5, RequestTypes, FinalType
     DEF ProviderAnswers, SipTypeOK, OneRegisterLoop, Requests, Idle, Plain, Signed
<1>6. ASSUME NEW k \in Requests, NoResponse(k)
      PROVE  SipInv'
  BY <1>6, RequestTypes, FinalType
     DEF NoResponse, SipTypeOK, OneRegisterLoop, Requests, Idle, Plain, Signed
<1>7. CASE UNCHANGED gvars
  BY <1>7 DEF gvars, SipTypeOK, OneRegisterLoop
<1> QED
  BY <1>1, <1>2, <1>3, <1>4, <1>5, <1>6, <1>7 DEF SipNext, SipAnswer

\* Whatever the provider answers, and however many names there are to try, the
\* registration goes on in one loop until stop(), and in none after it.
THEOREM RegistersInOneLoop == SipSpec => []OneRegisterLoop
<1>1. SipInv => OneRegisterLoop
  BY DEF SipInv
<1> QED
  BY SipInitInv, SipStepInv, <1>1, PTL DEF SipSpec

-----------------------------------------------------------------------------
(* The line.                                                                *)

\* The flags of the bridge go together, and the playout reports an end only when
\* nothing is left to play: an open microphone and a filled buffer exclude
\* each other through `idle`.
LineInv ==
    /\ LineTypeOK
    /\ line.flight = line.generating
    /\ ~line.muted => ~line.generating /\ line.idle
    /\ line.idle => ~playout.speaking /\ playout.buf = 0
    /\ line.tools <= toolsCalled

LineRow == [flight: BOOLEAN, generating: BOOLEAN, muted: BOOLEAN, guard: BOOLEAN,
            idle: BOOLEAN, queued: BOOLEAN, tools: 0..LineTools, used: BOOLEAN,
            server: {"off", "quiet", "asked", "refused", "speaking", "done"}, pieces: 0..Pieces]

\* A line is a line again once its flags, its server or its counters are set.
LEMMA LineSet ==
    ASSUME NEW l \in LineRow
    PROVE  /\ \A b \in BOOLEAN : /\ [l EXCEPT !.flight = b] \in LineRow
                                 /\ [l EXCEPT !.generating = b] \in LineRow
                                 /\ [l EXCEPT !.muted = b] \in LineRow
                                 /\ [l EXCEPT !.guard = b] \in LineRow
                                 /\ [l EXCEPT !.idle = b] \in LineRow
                                 /\ [l EXCEPT !.queued = b] \in LineRow
                                 /\ [l EXCEPT !.used = b] \in LineRow
           /\ \A n \in 0..LineTools : [l EXCEPT !.tools = n] \in LineRow
           /\ \A n \in 0..Pieces : [l EXCEPT !.pieces = n] \in LineRow
           /\ \A s \in {"off", "quiet", "asked", "refused", "speaking", "done"} :
                [l EXCEPT !.server = s] \in LineRow
BY DEF LineRow

\* holdLine, considerListen and beginResponse, and what each leaves of a line.
LEMMA HoldRow ==
    ASSUME NEW l \in LineRow
    PROVE  /\ Hold(l) \in LineRow
           /\ Hold(l).generating /\ ~Hold(l).idle /\ Hold(l).muted
           /\ Hold(l).flight = l.flight /\ Hold(l).tools = l.tools
<1>1. [l EXCEPT !.generating = TRUE] \in LineRow
  BY LineSet
<1>2. [l EXCEPT !.generating = TRUE, !.idle = FALSE] \in LineRow
  BY <1>1, LineSet
<1>3. [l EXCEPT !.generating = TRUE, !.idle = FALSE, !.guard = FALSE] \in LineRow
  BY <1>2, LineSet
<1>4. Hold(l) \in LineRow
  BY <1>3, LineSet DEF Hold
<1> QED
  BY <1>4 DEF Hold, LineRow

LEMMA ListenRow ==
    ASSUME NEW l \in LineRow
    PROVE  /\ Listen(l) \in LineRow
           /\ \E g \in BOOLEAN : Listen(l) = [l EXCEPT !.guard = g]
<1>1. \E g \in BOOLEAN : Listen(l) = [l EXCEPT !.guard = g]
  BY DEF Listen, LineRow
<1> QED
  BY <1>1, LineSet

LEMMA BeginRow ==
    ASSUME NEW l \in LineRow
    PROVE  /\ Begin(l) \in LineRow
           /\ Begin(l).tools = l.tools
           /\ l.flight => /\ Begin(l).flight /\ Begin(l).generating = l.generating
                          /\ Begin(l).muted = l.muted /\ Begin(l).idle = l.idle
           /\ ~l.flight => /\ Begin(l).flight /\ Begin(l).generating
                           /\ Begin(l).muted /\ ~Begin(l).idle
<1>1. CASE l.flight
  <2>1. Begin(l) = [l EXCEPT !.queued = TRUE]
    BY <1>1 DEF Begin
  <2>2. Begin(l) \in LineRow
    BY <2>1, LineSet
  <2> QED
    BY <1>1, <2>1, <2>2 DEF LineRow
<1>2. CASE ~l.flight
  <2> DEFINE h == Hold(l)
             f == [h EXCEPT !.flight = TRUE]
             a == [f EXCEPT !.server = "asked"]
  <2>1. h \in LineRow /\ h.generating /\ ~h.idle /\ h.muted /\ h.tools = l.tools
    BY HoldRow
  <2>2. f \in LineRow /\ a \in LineRow
    BY <2>1, LineSet
  <2>3. Begin(l) = [a EXCEPT !.pieces = 0]
    BY <1>2 DEF Begin
  <2>4. Begin(l) \in LineRow
    <3>1. 0 \in 0..Pieces
      BY LineAssumption
    <3>2. ASSUME NEW x \in LineRow
          PROVE  [x EXCEPT !.pieces = 0] \in LineRow
      BY <3>1, LineSet
    <3> HIDE DEF a
    <3> QED
      BY <2>2, <2>3, <3>2
  <2> HIDE DEF h
  <2> QED
    BY <1>2, <2>1, <2>3, <2>4 DEF LineRow
<1> QED
  BY <1>1, <1>2

LEMMA LineTypes ==
    ASSUME LineTypeOK
    PROVE  /\ line \in LineRow
           /\ playout \in [buf: 0..(Pieces + Preroll), speaking: BOOLEAN]
           /\ Preroll \in Nat \ {0} /\ Pieces \in Nat /\ LineTools \in Nat /\ LineTurns \in Nat
BY LineAssumption DEF LineTypeOK, LineRow

LEMMA LineInitInv == LineInit => LineInv
BY LineAssumption DEF LineInit, LineInv, LineTypeOK, SilentLine

\* beginResponse and the next step it is part of: a line that waits keeps its
\* flags, and a line that is free is held.
LEMMA BeginKeeps ==
    ASSUME LineInv, line' = Begin(line), UNCHANGED <<playout, toolsCalled>>,
           turnsTaken' \in 0..LineTurns
    PROVE  LineInv'
<1>1. line \in LineRow
  BY LineTypes DEF LineInv
<1>2. line' \in LineRow
  BY <1>1, BeginRow
<1> QED
  BY <1>1, <1>2, BeginRow, LineTypes DEF LineInv, LineTypeOK, LineRow

LEMMA LineStepInv == LineInv /\ [LineNext]_lvars => LineInv'
<1> SUFFICES ASSUME LineInv, [LineNext]_lvars
             PROVE  LineInv'
  OBVIOUS
<1> USE DEF LineInv
<1>1. CASE Greet
  BY <1>1, BeginKeeps DEF Greet, lbounds, LineTypeOK
<1>2. CASE CallerSpoke
  BY <1>2, BeginKeeps, LineTypes DEF CallerSpoke, Turn, LineTypeOK
<1>3. CASE Announce
  BY <1>3, BeginKeeps, LineTypes DEF Announce, Turn, LineTypeOK
<1>4. CASE Delta
  <2>1. line' \in LineRow
    <3>1. line.pieces + 1 \in 0..Pieces
      BY <1>4, LineTypes DEF Delta, LineRow
    <3>2. [line EXCEPT !.guard = FALSE] \in LineRow
      BY LineTypes, LineSet
    <3>3. [line EXCEPT !.guard = FALSE, !.idle = FALSE] \in LineRow
      BY <3>2, LineSet
    <3>4. [line EXCEPT !.guard = FALSE, !.idle = FALSE, !.muted = TRUE] \in LineRow
      BY <3>3, LineSet
    <3> QED
      BY <1>4, <3>1, <3>4, LineSet DEF Delta
  <2>2. playout' \in [buf: 0..(Pieces + Preroll), speaking: BOOLEAN]
    BY <1>4, LineTypes DEF Delta, Pushed
  <2> QED
    BY <1>4, <2>1, <2>2, LineTypes DEF Delta, lbounds, LineTypeOK, LineRow
<1>5. CASE ToolCalled
  <2>1. line.tools + 1 \in 0..LineTools /\ line.tools + 1 <= toolsCalled + 1
    BY <1>5, LineTypes DEF ToolCalled, LineTypeOK
  <2>2. [line EXCEPT !.tools = line.tools + 1] \in LineRow
    BY <2>1, LineTypes, LineSet
  <2>3. line' \in LineRow
    BY <1>5, <2>2, LineSet DEF ToolCalled
  <2> QED
    BY <1>5, <2>1, <2>3, LineTypes DEF ToolCalled, LineTypeOK, LineRow
<1>6. CASE ToolReturns
  <2>1. line.tools - 1 \in 0..LineTools /\ line.tools - 1 <= toolsCalled
    BY <1>6, LineTypes DEF ToolReturns, LineTypeOK
  <2> QED
    BY <1>6, <2>1, LineTypes DEF ToolReturns, lbounds, LineTypeOK, LineRow
<1>7. CASE GuardFires
  BY <1>7, LineTypes DEF GuardFires, lbounds, LineTypeOK, LineRow
<1>8. CASE Created
  BY <1>8, LineTypes DEF Created, Hold, lbounds, LineTypeOK, LineRow
<1>9. CASE ResponseDone \/ Refused
  BY <1>9, LineTypes DEF ResponseDone, Refused, lbounds, LineTypeOK, LineRow
<1>10. CASE Finish
  <2> DEFINE n1 == [line EXCEPT !.flight = FALSE]
             n2 == [n1 EXCEPT !.generating = FALSE]
             n3 == [n2 EXCEPT !.used = FALSE]
             n4 == [n3 EXCEPT !.queued = FALSE]
             ended == [n4 EXCEPT !.server = "quiet"]
             free == Listen(ended)
  <2>1. n1 \in LineRow /\ n2 \in LineRow /\ n3 \in LineRow /\ n4 \in LineRow
    BY LineTypes, LineSet
  <2>2. ended \in LineRow
    BY <2>1, LineSet
  <2>3. /\ ~ended.flight /\ ~ended.generating /\ ended.muted = line.muted
        /\ ended.idle = line.idle /\ ended.tools = line.tools
    BY LineTypes DEF LineRow
  <2>4. line' = Begin(free) \/ line' = free
    BY <1>10 DEF Finish, Finished
  <2> HIDE DEF ended
  <2>5. /\ free \in LineRow
        /\ ~free.flight /\ ~free.generating /\ free.muted = line.muted
        /\ free.idle = line.idle /\ free.tools = line.tools
    BY <2>2, <2>3, ListenRow DEF LineRow
  <2> HIDE DEF free
  <2>6. line' \in LineRow
    BY <2>4, <2>5, BeginRow
  <2> QED
    BY <1>10, <2>4, <2>5, <2>6, BeginRow, LineTypes DEF Finish, lbounds, LineTypeOK, LineRow
<1>11. CASE StartSpeaking
  <2>1. ~line.idle
    BY <1>11, LineTypes DEF StartSpeaking
  <2> QED
    BY <1>11, <2>1, LineTypes DEF StartSpeaking, lbounds, LineTypeOK, LineRow
<1>12. CASE PlayPiece
  BY <1>12, LineTypes DEF PlayPiece, lbounds, LineTypeOK, LineRow
<1>13. CASE Underrun
  BY <1>13, LineTypes DEF Underrun, Listen, lbounds, LineTypeOK, LineRow
<1>14. CASE UNCHANGED lvars
  BY <1>14 DEF lvars, LineTypeOK
<1> QED
  BY <1>1, <1>2, <1>3, <1>4, <1>5, <1>6, <1>7, <1>8, <1>9, <1>10, <1>11, <1>12, <1>13,
     <1>14 DEF LineNext, Streaming, Playing

\* Whatever the API streams and whenever the playout runs dry, the microphone is
\* never open over the robot's own voice.
THEOREM ListensOnlyWhenQuiet == LineSpec => []ListenOnlyWhenQuiet
<1>1. LineInv => ListenOnlyWhenQuiet
  BY DEF LineInv, ListenOnlyWhenQuiet
<1> QED
  BY LineInitInv, LineStepInv, <1>1, PTL DEF LineSpec

\* The line is deaf for a reason that passes: a response that is on its way, the
\* timer of the echo, or audio that is played; or for one of the two that do not.
DeafHasReason ==
    line.muted =>
        \/ line.server = "off"
        \/ line.flight /\ line.server \in {"asked", "speaking", "done"}
        \/ line.guard /\ ~line.generating /\ line.idle
        \/ playout.speaking \/ playout.buf >= Preroll
        \/ Unspoken \/ line.server = "refused"

\* Neither the API, a tool, the playout nor the timer has anything to do.
LineAtRest ==
    /\ line.server \notin {"asked", "speaking"} /\ ~(line.server = "done" /\ line.tools = 0)
    /\ line.tools = 0
    /\ ~playout.speaking /\ playout.buf < Preroll
    /\ ~line.guard

ListensAtRest == LineAtRest /\ line.server # "off" => ~line.muted \/ Unspoken \/ line.server = "refused"

\* A response is in flight while the API is with it, and for good when it refused
\* it; what the playout has to report it will; and whoever finds the line free last
\* has set the timer.
DeafInv ==
    /\ line.flight <=> line.server \in {"asked", "refused", "speaking", "done"}
    /\ line.server = "asked" => line.pieces = 0
    /\ ~playout.speaking /\ playout.buf = 0 /\ ~line.idle => line.pieces = 0
    /\ line.guard => ~line.generating /\ line.idle
    /\ line.muted /\ ~line.flight /\ line.server # "off" /\ line.idle => line.guard

\* What beginResponse says of a line and its server.
LEMMA BeginAsks ==
    ASSUME NEW l \in LineRow
    PROVE  /\ l.flight => /\ Begin(l).server = l.server /\ Begin(l).pieces = l.pieces
                          /\ Begin(l).guard = l.guard
           /\ ~l.flight => /\ Begin(l).server = "asked" /\ Begin(l).pieces = 0
                           /\ ~Begin(l).guard
<1>1. CASE l.flight
  <2>1. Begin(l) = [l EXCEPT !.queued = TRUE]
    BY <1>1 DEF Begin
  <2> QED
    BY <1>1, <2>1 DEF LineRow
<1>2. CASE ~l.flight
  <2> DEFINE g == [[l EXCEPT !.generating = TRUE] EXCEPT !.idle = FALSE]
             h == [g EXCEPT !.guard = FALSE]
             m == [h EXCEPT !.muted = TRUE]
             f == [m EXCEPT !.flight = TRUE]
             a == [f EXCEPT !.server = "asked"]
  <2>1. Begin(l) = [a EXCEPT !.pieces = 0]
    BY <1>2 DEF Begin, Hold
  <2>2. [l EXCEPT !.generating = TRUE] \in LineRow
    BY LineSet
  <2>3. g \in LineRow
    BY <2>2, LineSet
  <2> HIDE DEF g
  <2>4. h \in LineRow
    BY <2>3, LineSet
  <2>5. ~h.guard
    BY <2>3 DEF LineRow
  <2> HIDE DEF h
  <2>6. m \in LineRow
    BY <2>4, LineSet
  <2>7. ~m.guard
    BY <2>4, <2>5 DEF LineRow
  <2> HIDE DEF m
  <2>8. f \in LineRow
    BY <2>6, LineSet
  <2>9. ~f.guard
    BY <2>6, <2>7 DEF LineRow
  <2> HIDE DEF f
  <2>10. a \in LineRow
    BY <2>8, LineSet
  <2>11. ~a.guard /\ a.server = "asked"
    BY <2>8, <2>9 DEF LineRow
  <2> HIDE DEF a
  <2> QED
    BY <1>2, <2>1, <2>10, <2>11 DEF LineRow
<1> QED
  BY <1>1, <1>2

LEMMA DeafStart == LineInit => DeafInv
BY LineAssumption DEF LineInit, DeafInv, SilentLine

LEMMA DeafBegins ==
    ASSUME LineInv, DeafInv, line' = Begin(line), playout' = playout
    PROVE  DeafInv'
<1>1. line \in LineRow
  BY LineTypes DEF LineInv
<1> QED
  BY <1>1, BeginRow, BeginAsks DEF LineInv, DeafInv

LEMMA DeafNext == LineInv /\ DeafInv /\ [LineNext]_lvars => DeafInv'
<1> SUFFICES ASSUME LineInv, DeafInv, [LineNext]_lvars
             PROVE  DeafInv'
  OBVIOUS
<1>0. line \in LineRow
  BY LineTypes DEF LineInv
<1>1. CASE Greet \/ CallerSpoke \/ Announce
  BY <1>1, DeafBegins DEF Greet, CallerSpoke, Announce
<1>2. CASE Delta
  <2>1. playout'.buf # 0
    BY <1>2, LineTypes DEF Delta, Pushed, LineInv
  <2>2. /\ line'.flight = line.flight /\ line'.server = "speaking" /\ line.server = "speaking"
        /\ ~line'.guard /\ ~line'.idle
    BY <1>0, <1>2 DEF Delta, LineRow
  <2> QED
    BY <2>1, <2>2 DEF DeafInv
<1>3. CASE ToolCalled
  <2> DEFINE l == [line EXCEPT !.tools = line.tools + 1]
  <2>1. line' = [l EXCEPT !.used = TRUE] /\ playout' = playout
    BY <1>3 DEF ToolCalled
  <2>2. /\ l.flight = line.flight /\ l.server = line.server /\ l.pieces = line.pieces
        /\ l.idle = line.idle /\ l.guard = line.guard /\ l.generating = line.generating
        /\ l.muted = line.muted /\ DOMAIN l = DOMAIN line
    BY <1>0 DEF LineRow
  <2> HIDE DEF l
  <2>3. /\ line'.flight = l.flight /\ line'.server = l.server /\ line'.pieces = l.pieces
        /\ line'.idle = l.idle /\ line'.guard = l.guard /\ line'.generating = l.generating
        /\ line'.muted = l.muted
    BY <1>0, <2>1, <2>2 DEF LineRow
  <2> QED
    BY <2>1, <2>2, <2>3 DEF DeafInv
<1>4. CASE ToolReturns
  BY <1>0, <1>4 DEF ToolReturns, DeafInv, LineRow
<1>5. CASE GuardFires
  BY <1>0, <1>5 DEF GuardFires, DeafInv, LineRow
<1>6. CASE Created
  BY <1>0, <1>6 DEF Created, Hold, DeafInv, LineRow
<1>7. CASE ResponseDone \/ Refused
  BY <1>0, <1>7 DEF ResponseDone, Refused, DeafInv, LineRow
<1>8. CASE Finish
  <2> DEFINE n1 == [line EXCEPT !.flight = FALSE]
             n2 == [n1 EXCEPT !.generating = FALSE]
             n3 == [n2 EXCEPT !.used = FALSE]
             n4 == [n3 EXCEPT !.queued = FALSE]
             ended == [n4 EXCEPT !.server = "quiet"]
             free == Listen(ended)
  <2>1. n1 \in LineRow /\ n2 \in LineRow /\ n3 \in LineRow /\ n4 \in LineRow
    BY <1>0, LineSet
  <2>2. ended \in LineRow
    BY <2>1, LineSet
  <2>3. /\ ~ended.flight /\ ~ended.generating /\ ended.server = "quiet"
        /\ ended.idle = line.idle /\ ended.guard = line.guard /\ ended.pieces = line.pieces
    BY <1>0 DEF LineRow
  <2>4. (line' = Begin(free) \/ line' = free) /\ playout' = playout /\ line.flight
    BY <1>8 DEF Finish, Finished, DeafInv
  <2>5. ~line.guard
    BY <2>4 DEF DeafInv, LineInv
  <2> HIDE DEF ended
  <2>6. free \in LineRow
    BY <2>2, ListenRow
  <2>7. /\ ~free.flight /\ ~free.generating /\ free.server = "quiet"
        /\ free.idle = line.idle /\ free.pieces = line.pieces
        /\ free.guard <=> free.idle
    <3>1. CASE ended.idle
      <4>1. free = [ended EXCEPT !.guard = TRUE]
        BY <2>3, <3>1 DEF Listen
      <4> QED
        BY <2>2, <2>3, <3>1, <4>1 DEF LineRow
    <3>2. CASE ~ended.idle
      <4>1. free = ended
        BY <3>2 DEF Listen
      <4> QED
        BY <2>3, <2>5, <3>2, <4>1
    <3> QED
      BY <3>1, <3>2
  <2> HIDE DEF free
  <2>8. CASE line' = free
    BY <2>4, <2>7, <2>8 DEF DeafInv
  <2>9. CASE line' = Begin(free)
    BY <2>4, <2>6, <2>7, <2>9, BeginRow, BeginAsks DEF DeafInv
  <2> QED
    BY <2>4, <2>8, <2>9
<1>9. CASE StartSpeaking
  BY <1>9, LineTypes DEF StartSpeaking, DeafInv, LineInv
<1>10. CASE PlayPiece
  BY <1>10, LineTypes DEF PlayPiece, DeafInv, LineInv
<1>11. CASE Underrun
  <2> DEFINE l == [line EXCEPT !.idle = TRUE]
  <2>0. line' = Listen(l) /\ l \in LineRow
    BY <1>0, <1>11, LineSet DEF Underrun
  <2>1. /\ l.idle /\ l.flight = line.flight
        /\ l.server = line.server /\ l.generating = line.generating /\ l.pieces = line.pieces
        /\ l.guard = line.guard
    BY <1>0 DEF LineRow
  <2> HIDE DEF l
  <2>2. CASE line.generating
    <3>1. line' = l
      BY <2>0, <2>1, <2>2 DEF Listen
    <3> QED
      BY <2>1, <2>2, <3>1 DEF DeafInv, LineInv
  <2>3. CASE ~line.generating
    <3>1. line' = [l EXCEPT !.guard = TRUE]
      BY <2>0, <2>1, <2>3 DEF Listen
    <3>2. /\ line'.guard /\ line'.idle /\ ~line'.generating
          /\ line'.flight = l.flight /\ line'.server = l.server /\ line'.pieces = l.pieces
      BY <2>0, <2>1, <2>3, <3>1 DEF LineRow
    <3> QED
      BY <2>1, <2>3, <3>2 DEF DeafInv, LineInv
  <2> QED
    BY <2>2, <2>3
<1>12. CASE UNCHANGED lvars
  BY <1>12 DEF lvars, DeafInv
<1> QED
  BY <1>1, <1>2, <1>3, <1>4, <1>5, <1>6, <1>7, <1>8, <1>9, <1>10, <1>11, <1>12
     DEF LineNext, Streaming, Playing

\* However responses, tools, take-overs and the two clocks interleave, a line that
\* does not hear the caller waits for something that will come: when nothing is left
\* to wait for, it listens - but after a response that ended unspoken, or one the
\* API refused (considerListen, onIdle, the echo timer, the error event).
THEOREM ListensWhenNothingIsLeft == LineSpec => [](DeafHasReason /\ ListensAtRest)
<1>1. LineInv /\ DeafInv => DeafHasReason /\ ListensAtRest
  <2> SUFFICES ASSUME LineInv, DeafInv PROVE DeafHasReason /\ ListensAtRest
    OBVIOUS
  <2>1. playout.buf \in Nat /\ Preroll \in Nat \ {0}
    BY LineTypes DEF LineInv
  <2>2. DeafHasReason
    BY <2>1 DEF DeafHasReason, DeafInv, Unspoken, LineInv
  <2>3. line.flight => ~LineAtRest \/ line.server = "refused"
    BY DEF DeafInv, LineAtRest
  <2> QED
    BY <2>1, <2>2, <2>3 DEF DeafHasReason, ListensAtRest, LineAtRest, LineInv
<1> QED
  BY <1>1, LineInitInv, LineStepInv, DeafStart, DeafNext, PTL DEF LineSpec

-----------------------------------------------------------------------------
(* The calls.                                                               *)

\* Forms of what a handler of a call holds.
Ends == [EndStates -> {"no", "asked", "written"}]
Held == [at: {"away", "start", "accept", "mark", "connect", "up", "gone", "dead"},
         dialog: {"none", "ringing", "up", "ended"},
         live: BOOLEAN, wanted: BOOLEAN, limit: BOOLEAN, goodbye: {"no", "set", "over"}, hears: BOOLEAN,
         bridge: {"none", "connecting", "open", "shut", "leaked", "closed"},
         refer: {"none", "tool", "desk"}, ends: Ends,
         referred: BOOLEAN, early: BOOLEAN, cut: BOOLEAN]

\* What is known of a call that is held as k and whose row is row.  A REFER is sent
\* for a caller who was to be handed over, by a handler that is up or too early;
\* "failed" is written for calls that never were up, "completed" for calls whose
\* dialog had ended when nobody was handed over.
CallOK(k, row) ==
    /\ k.at = "away" => k = NoCall /\ row = "none"
    /\ k.refer # "none" \/ k.referred => k.wanted /\ (k.at = "up" \/ k.early)
    /\ k.ends["failed"] # "no" => k.at = "gone"
    /\ ~k.cut /\ k.ends["completed"] # "no" => k.dialog = "ended" /\ ~k.referred
    /\ k.referred /\ ~k.cut /\ ~k.early => row = "transferred" \/ k.ends["transferred"] = "asked"

CallsInv ==
    /\ call \in [Calls -> Held]
    /\ rows \in [Calls -> {"none"} \cup OpenRow \cup EndStates]
    /\ \A c \in Calls : CallOK(call[c], rows[c])

LEMMA HeldSet ==
    ASSUME NEW k \in Held
    PROVE  /\ \A x \in {"away", "start", "accept", "mark", "connect", "up", "gone", "dead"} : [k EXCEPT !.at = x] \in Held
           /\ \A x \in {"none", "ringing", "up", "ended"} : [k EXCEPT !.dialog = x] \in Held
           /\ \A x \in {"no", "set", "over"} : [k EXCEPT !.goodbye = x] \in Held
           /\ \A x \in {"none", "connecting", "open", "shut", "leaked", "closed"} : [k EXCEPT !.bridge = x] \in Held
           /\ \A x \in {"none", "tool", "desk"} : [k EXCEPT !.refer = x] \in Held
           /\ \A x \in BOOLEAN : [k EXCEPT !.live = x] \in Held
           /\ \A x \in BOOLEAN : [k EXCEPT !.wanted = x] \in Held
           /\ \A x \in BOOLEAN : [k EXCEPT !.limit = x] \in Held
           /\ \A x \in BOOLEAN : [k EXCEPT !.hears = x] \in Held
           /\ \A x \in BOOLEAN : [k EXCEPT !.referred = x] \in Held
           /\ \A x \in BOOLEAN : [k EXCEPT !.early = x] \in Held
           /\ \A x \in BOOLEAN : [k EXCEPT !.cut = x] \in Held
           /\ \A x \in Ends : [k EXCEPT !.ends = x] \in Held
<1>1. \A x \in {"away", "start", "accept", "mark", "connect", "up", "gone", "dead"} : [k EXCEPT !.at = x] \in Held
  BY DEF Held
<1>2. \A x \in {"none", "ringing", "up", "ended"} : [k EXCEPT !.dialog = x] \in Held
  BY DEF Held
<1>3. \A x \in {"no", "set", "over"} : [k EXCEPT !.goodbye = x] \in Held
  BY DEF Held
<1>4. \A x \in {"none", "connecting", "open", "shut", "leaked", "closed"} : [k EXCEPT !.bridge = x] \in Held
  BY DEF Held
<1>5. \A x \in {"none", "tool", "desk"} : [k EXCEPT !.refer = x] \in Held
  BY DEF Held
<1>6. \A x \in BOOLEAN : [k EXCEPT !.live = x] \in Held
  BY DEF Held
<1>7. \A x \in BOOLEAN : [k EXCEPT !.wanted = x] \in Held
  BY DEF Held
<1>8. \A x \in BOOLEAN : [k EXCEPT !.limit = x] \in Held
  BY DEF Held
<1>9. \A x \in BOOLEAN : [k EXCEPT !.hears = x] \in Held
  BY DEF Held
<1>10. \A x \in BOOLEAN : [k EXCEPT !.referred = x] \in Held
  BY DEF Held
<1>11. \A x \in BOOLEAN : [k EXCEPT !.early = x] \in Held
  BY DEF Held
<1>12. \A x \in BOOLEAN : [k EXCEPT !.cut = x] \in Held
  BY DEF Held
<1>13. \A x \in Ends : [k EXCEPT !.ends = x] \in Held
  BY DEF Held
<1> QED
  BY <1>1, <1>2, <1>3, <1>4, <1>5, <1>6, <1>7, <1>8, <1>9, <1>10, <1>11, <1>12, <1>13

\* The parts of a call that CallOK speaks of.
Same(k, l) == /\ l.at = k.at /\ l.dialog = k.dialog /\ l.wanted = k.wanted /\ l.refer = k.refer
              /\ l.ends = k.ends /\ l.referred = k.referred /\ l.early = k.early /\ l.cut = k.cut

LEMMA ShutKeeps ==
    ASSUME NEW k \in Held
    PROVE  Shut(k) \in Held /\ Same(k, Shut(k)) /\ Shut(k).hears = k.hears
<1> DEFINE b == IF k.bridge = "none" THEN k.bridge
                ELSE IF k.bridge = "connecting" THEN "shut" ELSE "closed"
<1>1. b \in {"none", "connecting", "open", "shut", "leaked", "closed"}
  OBVIOUS
<1>2. Shut(k) = [k EXCEPT !.bridge = b]
  BY DEF Shut
<1> HIDE DEF b
<1>3. Shut(k) \in Held
  BY <1>1, <1>2 DEF Held
<1>4. Same(k, Shut(k)) /\ Shut(k).hears = k.hears
  BY <1>2 DEF Held, Same
<1> QED
  BY <1>3, <1>4

LEMMA RemovedKeeps ==
    ASSUME NEW k \in Held
    PROVE  Removed(k) \in Held /\ Same(k, Removed(k))
<1>1. CASE k.live
  <2> DEFINE l == [k EXCEPT !.live = FALSE, !.limit = FALSE]
  <2>1. [k EXCEPT !.live = FALSE] \in Held
    BY HeldSet
  <2>2. l \in Held
    BY <2>1, HeldSet
  <2>3. Same(k, l)
    BY DEF Same, Held
  <2>4. Removed(k) = Shut(l)
    BY <1>1 DEF Removed
  <2> HIDE DEF l
  <2> QED
    BY <2>2, <2>3, <2>4, ShutKeeps DEF Same
<1>2. CASE ~k.live
  BY <1>2 DEF Removed, Same
<1> QED
  BY <1>1, <1>2

\* Asking for an end, or taking it on.
LEMMA EndSet ==
    ASSUME NEW k \in Held, NEW st \in EndStates, NEW x \in {"no", "asked", "written"},
           NEW l, l = [k EXCEPT !.ends[st] = x]
    PROVE  /\ l \in Held
           /\ l.ends[st] = x /\ \A s \in EndStates : s # st => l.ends[s] = k.ends[s]
           /\ l.at = k.at /\ l.dialog = k.dialog /\ l.wanted = k.wanted /\ l.refer = k.refer
           /\ l.referred = k.referred /\ l.early = k.early /\ l.cut = k.cut
<1> DEFINE e == [k.ends EXCEPT ![st] = x]
<1>1. k.ends \in Ends
  BY DEF Held
<1>2. /\ e \in Ends
      /\ e[st] = x /\ \A s \in EndStates : s # st => e[s] = k.ends[s]
  BY <1>1 DEF Ends
<1> HIDE DEF e
<1>3. l = [k EXCEPT !.ends = e]
  BY DEF e
<1>4. l \in Held
  <2>1. \A y \in Ends : [k EXCEPT !.ends = y] \in Held
    BY HeldSet
  <2>2. [k EXCEPT !.ends = e] \in Held
    BY <1>2, <2>1
  <2> QED
    BY <1>3, <2>2
<1>5. /\ l.ends = e
      /\ l.at = k.at /\ l.dialog = k.dialog /\ l.wanted = k.wanted /\ l.refer = k.refer
      /\ l.referred = k.referred /\ l.early = k.early /\ l.cut = k.cut
  BY <1>3 DEF Held
<1> QED
  BY <1>2, <1>4, <1>5

LEMMA EndStatesAre ==
    "completed" \in EndStates /\ "transferred" \in EndStates /\ "failed" \in EndStates
BY DEF EndStates

\* The end of a dialog that may be heard.
LEMMA HeardKeeps ==
    ASSUME NEW k \in Held, NEW row, CallOK(k, row), k.dialog = "ended", k.at # "away"
    PROVE  /\ Heard(k) \in Held /\ CallOK(Heard(k), row)
           /\ Heard(k).cut = k.cut /\ Heard(k).referred = k.referred
           /\ Heard(k).dialog = "ended" /\ Heard(k).at = k.at
<1>1. CASE k.hears
  <2> DEFINE l == [k EXCEPT !.goodbye = "over"]
             m == Shut(l)
             st == Outcome(k)
  <2>1. l \in Held /\ Same(k, l)
    <3>1. l \in Held
      BY HeldSet
    <3> QED
      BY <3>1 DEF Same, Held
  <2>2. m \in Held /\ Same(k, m)
    BY <2>1, ShutKeeps DEF Same
  <2>3. st \in EndStates /\ st = (IF k.wanted THEN "transferred" ELSE "completed")
    BY <2>2, EndStatesAre DEF Outcome, Same
  <2>4. Heard(k) = [m EXCEPT !.ends[st] = "asked"]
    BY <1>1 DEF Heard, Ended
  <2> HIDE DEF l, m, st
  <2>5. /\ Heard(k) \in Held
        /\ Heard(k).ends[st] = "asked"
        /\ \A s \in EndStates : s # st => Heard(k).ends[s] = m.ends[s]
        /\ Heard(k).at = m.at /\ Heard(k).dialog = m.dialog /\ Heard(k).wanted = m.wanted
        /\ Heard(k).refer = m.refer /\ Heard(k).referred = m.referred
        /\ Heard(k).early = m.early /\ Heard(k).cut = m.cut
    BY <2>2, <2>3, <2>4, EndSet
  <2>6. CallOK(Heard(k), row)
    BY <2>2, <2>3, <2>5, EndStatesAre DEF CallOK, Same
  <2> QED
    BY <2>2, <2>5, <2>6 DEF Same
<1>2. CASE ~k.hears
  BY <1>2 DEF Heard
<1> QED
  BY <1>1, <1>2

\* An end that is asked for may come too late, but not too early.
LEMMA EndedKeeps ==
    ASSUME NEW k \in Held, NEW row, CallOK(k, row), k.at # "away", NEW st \in EndStates,
           st = "failed" => k.at = "gone",
           st = "completed" => k.cut \/ (k.dialog = "ended" /\ ~k.referred)
    PROVE  Ended(k, st) \in Held /\ CallOK(Ended(k, st), row)
<1> DEFINE h == Ended(k, st)
<1>1. h = [k EXCEPT !.ends[st] = "asked"]
  BY DEF Ended
<1> HIDE DEF h
<1>2. /\ h \in Held
      /\ h.ends[st] = "asked"
      /\ \A s \in EndStates : s # st => h.ends[s] = k.ends[s]
      /\ h.at = k.at /\ h.dialog = k.dialog /\ h.wanted = k.wanted
      /\ h.refer = k.refer /\ h.referred = k.referred
      /\ h.early = k.early /\ h.cut = k.cut
  BY <1>1, EndSet
<1>3. h \in Held /\ CallOK(h, row)
  BY <1>2, EndStatesAre DEF CallOK
<1> QED
  BY <1>3 DEF h

\* The gateway hangs up.
LEMMA HungUpKeeps ==
    ASSUME NEW k \in Held, NEW row, CallOK(k, row), k.at # "away", NEW loud \in BOOLEAN
    PROVE  HungUp(k, loud) \in Held /\ CallOK(HungUp(k, loud), row)
<1> DEFINE b == [k EXCEPT !.dialog = "ended", !.cut = TRUE]
           m == IF loud /\ k.dialog = "up" THEN Heard(b) ELSE b
<1>1. b \in Held
  <2>1. [k EXCEPT !.dialog = "ended"] \in Held
    BY HeldSet
  <2> QED
    BY <2>1, HeldSet
<1>2. /\ b.dialog = "ended" /\ b.cut /\ b.at = k.at /\ b.wanted = k.wanted /\ b.refer = k.refer
      /\ b.ends = k.ends /\ b.referred = k.referred /\ b.early = k.early
  BY DEF Held
<1> HIDE DEF b
<1>3. CallOK(b, row)
  BY <1>2 DEF CallOK
<1>4. m \in Held /\ CallOK(m, row) /\ m.cut /\ m.at = k.at
  BY <1>1, <1>2, <1>3, HeardKeeps
<1>5. HungUp(k, loud) = Ended(m, "completed")
  BY DEF HungUp, b
<1> HIDE DEF m
<1> QED
  BY <1>4, <1>5, EndedKeeps, EndStatesAre

\* A step of one call.
LEMMA CallStep ==
    ASSUME CallsInv, NEW c \in Calls, NEW k \in Held, Becomes(c, k),
           NEW row \in {"none"} \cup OpenRow \cup EndStates, CallOK(k, row),
           rows' = [rows EXCEPT ![c] = row]
    PROVE  CallsInv'
<1>1. /\ call' \in [Calls -> Held] /\ call'[c] = k
      /\ \A d \in Calls : d # c => call'[d] = call[d]
  BY DEF CallsInv, Becomes
<1>2. /\ rows' \in [Calls -> {"none"} \cup OpenRow \cup EndStates] /\ rows'[c] = row
      /\ \A d \in Calls : d # c => rows'[d] = rows[d]
  BY DEF CallsInv
<1>3. \A d \in Calls : CallOK(call'[d], rows'[d])
  BY <1>1, <1>2 DEF CallsInv
<1>4. (\A d \in Calls : CallOK(call[d], rows[d]))'
  BY <1>3 DEF CallOK
<1> QED
  BY <1>1, <1>2, <1>4 DEF CallsInv

\* A step of one call that leaves its row.
LEMMA CallStays ==
    ASSUME CallsInv, NEW c \in Calls, NEW k \in Held, Becomes(c, k), CallOK(k, rows[c]),
           rows' = rows
    PROVE  CallsInv'
<1>1. rows' = [rows EXCEPT ![c] = rows[c]] /\ rows[c] \in {"none"} \cup OpenRow \cup EndStates
  BY DEF CallsInv
<1> QED
  BY <1>1, CallStep

LEMMA NoCallHeld ==
    /\ NoCall \in Held
    /\ NoCall.refer = "none" /\ ~NoCall.referred /\ ~NoCall.limit /\ ~NoCall.live /\ ~NoCall.hears
    /\ NoCall.bridge = "none" /\ NoCall.goodbye = "no" /\ NoCall.dialog = "none"
    /\ \A st \in EndStates : NoCall.ends[st] = "no"
<1> DEFINE e == [st \in EndStates |-> "no"]
<1>1. e \in Ends /\ \A st \in EndStates : e[st] = "no"
  BY DEF Ends
<1>2. NoCall = [at |-> "away", dialog |-> "none", live |-> FALSE, wanted |-> FALSE,
                bridge |-> "none", limit |-> FALSE, goodbye |-> "no", hears |-> FALSE,
                refer |-> "none", ends |-> e, referred |-> FALSE, early |-> FALSE, cut |-> FALSE]
  BY DEF NoCall
<1> HIDE DEF e
<1> QED
  BY <1>1, <1>2 DEF Held

LEMMA CallsStart == CallInit => CallsInv
<1> SUFFICES ASSUME CallInit PROVE CallsInv
  OBVIOUS
<1>1. call \in [Calls -> Held] /\ \A c \in Calls : call[c] = NoCall
  BY NoCallHeld DEF CallInit
<1>2. /\ rows \in [Calls -> {"none"} \cup OpenRow \cup EndStates]
      /\ \A c \in Calls : rows[c] = "none"
  BY DEF CallInit
<1>3. \A c \in Calls : CallOK(call[c], rows[c])
  BY <1>1, <1>2, NoCallHeld, EndStatesAre DEF CallOK
<1> QED
  BY <1>1, <1>2, <1>3 DEF CallsInv

\* The handler of the INVITE, from await to await.
LEMMA HandlerKeeps ==
    ASSUME CallsInv, NEW c \in Calls, CallHandler(c) \/ Invite(c)
    PROVE  CallsInv'
<1>1. call[c] \in Held /\ CallOK(call[c], rows[c])
  BY DEF CallsInv
<1>2. CASE Invite(c)
  <2> DEFINE k == [call[c] EXCEPT !.at = "start", !.dialog = "ringing"]
  <2>1. [call[c] EXCEPT !.at = "start"] \in Held
    BY <1>1, HeldSet
  <2>2. k \in Held
    BY <2>1, HeldSet
  <2>3. /\ k.at = "start" /\ k.dialog = "ringing" /\ k.wanted = call[c].wanted
        /\ k.refer = call[c].refer /\ k.ends = call[c].ends /\ k.referred = call[c].referred
        /\ k.early = call[c].early /\ k.cut = call[c].cut
    BY <1>1 DEF Held
  <2>4. Becomes(c, k) /\ rows' = rows /\ call[c].at = "away"
    BY <1>2 DEF Invite, At
  <2> HIDE DEF k
  <2> QED
    BY <1>1, <2>2, <2>3, <2>4, CallStays, NoCallHeld, EndStatesAre DEF CallOK
<1>3. CASE OpenSession(c)
  <2> DEFINE k == [call[c] EXCEPT !.at = "accept", !.live = TRUE]
  <2>1. [call[c] EXCEPT !.at = "accept"] \in Held
    BY <1>1, HeldSet
  <2>2. k \in Held
    BY <2>1, HeldSet
  <2>3. /\ k.at = "accept" /\ k.dialog = call[c].dialog /\ k.wanted = call[c].wanted
        /\ k.refer = call[c].refer /\ k.ends = call[c].ends /\ k.referred = call[c].referred
        /\ k.early = call[c].early /\ k.cut = call[c].cut
    BY <1>1 DEF Held
  <2>4. Becomes(c, k) /\ rows' = [rows EXCEPT ![c] = "ringing"] /\ call[c].at = "start"
    BY <1>3 DEF OpenSession, At
  <2> HIDE DEF k
  <2>5. CallOK(k, "ringing")
    BY <1>1, <2>3, <2>4 DEF CallOK
  <2>6. "ringing" \in {"none"} \cup OpenRow \cup EndStates
    BY DEF OpenRow
  <2> QED
    BY <2>2, <2>4, <2>5, <2>6, CallStep
<1>4. CASE Accept(c)
  <2>1. call[c].at = "accept" /\ rows' = rows
    BY <1>4 DEF Accept, At
  <2>2. CASE call[c].dialog = "ringing"
    <3> DEFINE k == [call[c] EXCEPT !.at = "mark", !.dialog = "up"]
    <3>1. [call[c] EXCEPT !.at = "mark"] \in Held
      BY <1>1, HeldSet
    <3>2. k \in Held
      BY <3>1, HeldSet
    <3>3. /\ k.at = "mark" /\ k.dialog = "up" /\ k.wanted = call[c].wanted
          /\ k.refer = call[c].refer /\ k.ends = call[c].ends /\ k.referred = call[c].referred
          /\ k.early = call[c].early /\ k.cut = call[c].cut
      BY <1>1 DEF Held
    <3>4. Becomes(c, k)
      BY <1>4, <2>2 DEF Accept
    <3> HIDE DEF k
    <3>5. CallOK(k, rows[c])
      BY <1>1, <2>1, <2>2, <3>3 DEF CallOK
    <3> QED
      BY <2>1, <3>2, <3>4, <3>5, CallStays
  <2>3. CASE call[c].dialog # "ringing"
    <3> DEFINE k == [call[c] EXCEPT !.at = "gone"]
    <3>1. k \in Held
      BY <1>1, HeldSet
    <3>2. /\ k.at = "gone" /\ k.dialog = call[c].dialog /\ k.wanted = call[c].wanted
          /\ k.refer = call[c].refer /\ k.ends = call[c].ends /\ k.referred = call[c].referred
          /\ k.early = call[c].early /\ k.cut = call[c].cut
      BY <1>1 DEF Held
    <3>3. Becomes(c, Ended(k, "failed"))
      BY <1>4, <2>3 DEF Accept
    <3> HIDE DEF k
    <3>4. CallOK(k, rows[c])
      BY <1>1, <2>1, <3>2 DEF CallOK
    <3>5. Ended(k, "failed") \in Held /\ CallOK(Ended(k, "failed"), rows[c])
      BY <3>1, <3>2, <3>4, EndedKeeps, EndStatesAre
    <3> QED
      BY <2>1, <3>3, <3>5, CallStays
  <2> QED
    BY <2>2, <2>3
<1>5. CASE MarkActive(c)
  <2> DEFINE k == [call[c] EXCEPT !.at = "connect", !.bridge = "connecting", !.limit = TRUE]
  <2>1. [call[c] EXCEPT !.at = "connect"] \in Held
    BY <1>1, HeldSet
  <2>2. [call[c] EXCEPT !.at = "connect", !.bridge = "connecting"] \in Held
    BY <2>1, HeldSet
  <2>3. k \in Held
    BY <2>2, HeldSet
  <2>4. /\ k.at = "connect" /\ k.dialog = call[c].dialog /\ k.wanted = call[c].wanted
        /\ k.refer = call[c].refer /\ k.ends = call[c].ends /\ k.referred = call[c].referred
        /\ k.early = call[c].early /\ k.cut = call[c].cut
    BY <1>1 DEF Held
  <2>5. Becomes(c, k) /\ rows' = [rows EXCEPT ![c] = "active"] /\ call[c].at = "mark"
    BY <1>5 DEF MarkActive, At
  <2> HIDE DEF k
  <2>6. CallOK(k, "active")
    BY <1>1, <2>4, <2>5 DEF CallOK
  <2>7. "active" \in {"none"} \cup OpenRow \cup EndStates
    BY DEF OpenRow
  <2> QED
    BY <2>3, <2>5, <2>6, <2>7, CallStep
<1>6. CASE SocketOpens(c)
  <2> DEFINE b == IF call[c].bridge = "shut" THEN "leaked" ELSE "open"
             k == [call[c] EXCEPT !.bridge = b]
  <2>1. b \in {"none", "connecting", "open", "shut", "leaked", "closed"}
    OBVIOUS
  <2>2. Becomes(c, k) /\ rows' = rows /\ call[c].bridge \in {"connecting", "shut"}
    BY <1>6 DEF SocketOpens
  <2> HIDE DEF b
  <2>3. k \in Held
    BY <1>1, <2>1, HeldSet
  <2>4. Same(call[c], k)
    BY <1>1 DEF Held, Same
  <2> HIDE DEF k
  <2>5. call[c].at # "away"
    BY <1>1, <2>2, NoCallHeld DEF CallOK
  <2>6. CallOK(k, rows[c])
    BY <1>1, <2>4, <2>5 DEF CallOK, Same
  <2> QED
    BY <2>2, <2>3, <2>6, CallStays
<1>7. CASE SessionReady(c)
  <2> DEFINE k == [call[c] EXCEPT !.at = "up", !.hears = TRUE]
  <2>1. [call[c] EXCEPT !.at = "up"] \in Held
    BY <1>1, HeldSet
  <2>2. k \in Held
    BY <2>1, HeldSet
  <2>3. /\ k.at = "up" /\ k.dialog = call[c].dialog /\ k.wanted = call[c].wanted
        /\ k.refer = call[c].refer /\ k.ends = call[c].ends /\ k.referred = call[c].referred
        /\ k.early = call[c].early /\ k.cut = call[c].cut
    BY <1>1 DEF Held
  <2>4. Becomes(c, k) /\ rows' = rows /\ call[c].at = "connect"
    BY <1>7 DEF SessionReady, At
  <2> HIDE DEF k
  <2>5. CallOK(k, rows[c])
    BY <1>1, <2>3, <2>4 DEF CallOK
  <2> QED
    BY <2>2, <2>4, <2>5, CallStays
<1> QED
  BY <1>2, <1>3, <1>4, <1>5, <1>6, <1>7 DEF CallHandler

\* The handler gives up.
LEMMA FailsKeep ==
    ASSUME CallsInv, NEW c \in Calls, StartFails(c) \/ ConnectFails(c)
    PROVE  CallsInv'
<1>1. call[c] \in Held /\ CallOK(call[c], rows[c]) /\ rows' = rows
  BY DEF CallsInv, StartFails, ConnectFails
<1> DEFINE k == [call[c] EXCEPT !.at = "gone", !.dialog = "ended"]
<1>2. k \in Held
  <2>1. [call[c] EXCEPT !.at = "gone"] \in Held
    BY <1>1, HeldSet
  <2> QED
    BY <2>1, HeldSet
<1>3. /\ k.at = "gone" /\ k.dialog = "ended" /\ k.wanted = call[c].wanted
      /\ k.refer = call[c].refer /\ k.ends = call[c].ends /\ k.referred = call[c].referred
      /\ k.early = call[c].early /\ k.cut = call[c].cut /\ k.bridge = call[c].bridge
  BY <1>1 DEF Held
<1>4. CASE StartFails(c)
  <2>1. Becomes(c, k) /\ call[c].at = "start"
    BY <1>4 DEF StartFails, At
  <2> HIDE DEF k
  <2>2. CallOK(k, rows[c])
    BY <1>1, <1>3, <2>1 DEF CallOK
  <2> QED
    BY <1>1, <1>2, <2>1, <2>2, CallStays
<1>5. CASE ConnectFails(c)
  <2> DEFINE b == IF call[c].bridge \in {"open", "leaked"} THEN call[c].bridge ELSE "closed"
             l == [k EXCEPT !.bridge = b]
  <2>1. b \in {"none", "connecting", "open", "shut", "leaked", "closed"}
    OBVIOUS
  <2>2. l = [call[c] EXCEPT !.at = "gone", !.dialog = "ended", !.bridge = b]
    OBVIOUS
  <2>3. Becomes(c, Ended(l, "failed")) /\ call[c].at = "connect"
    BY <1>5 DEF ConnectFails, At
  <2> HIDE DEF b, k
  <2>4. l \in Held
    BY <1>2, <2>1, HeldSet
  <2>5. Same(k, l)
    BY <1>2 DEF Held, Same
  <2> HIDE DEF l
  <2>6. CallOK(l, rows[c]) /\ l.at = "gone"
    BY <1>1, <1>3, <2>3, <2>5 DEF CallOK, Same
  <2>7. Ended(l, "failed") \in Held /\ CallOK(Ended(l, "failed"), rows[c])
    BY <2>4, <2>6, EndedKeeps, EndStatesAre
  <2> QED
    BY <1>1, <2>3, <2>7, CallStays
<1> QED
  BY <1>4, <1>5

\* The dialog, the timers, the socket and the tool.
LEMMA EndsKeep ==
    ASSUME CallsInv, NEW c \in Calls,
           CallerHangsUp(c) \/ LimitFires(c) \/ GoodbyeFires(c) \/ SocketCloses(c)
    PROVE  CallsInv'
<1>1. call[c] \in Held /\ CallOK(call[c], rows[c]) /\ rows' = rows
  BY DEF CallsInv, CallerHangsUp, LimitFires, GoodbyeFires, SocketCloses
<1>2. call[c].at # "away"
  BY <1>1, NoCallHeld DEF CallOK, CallerHangsUp, LimitFires, GoodbyeFires, SocketCloses
<1>3. CASE CallerHangsUp(c)
  <2> DEFINE k == [call[c] EXCEPT !.dialog = "ended"]
  <2>1. k \in Held
    BY <1>1, HeldSet
  <2>2. /\ k.at = call[c].at /\ k.dialog = "ended" /\ k.wanted = call[c].wanted
        /\ k.refer = call[c].refer /\ k.ends = call[c].ends /\ k.referred = call[c].referred
        /\ k.early = call[c].early /\ k.cut = call[c].cut
    BY <1>1 DEF Held
  <2>3. Becomes(c, Heard(k))
    BY <1>3 DEF CallerHangsUp
  <2> HIDE DEF k
  <2>4. CallOK(k, rows[c])
    BY <1>1, <1>2, <2>2 DEF CallOK
  <2>5. Heard(k) \in Held /\ CallOK(Heard(k), rows[c])
    BY <1>2, <2>1, <2>2, <2>4, HeardKeeps
  <2> QED
    BY <1>1, <2>3, <2>5, CallStays
<1>4. CASE LimitFires(c)
  <2> DEFINE k == [call[c] EXCEPT !.limit = FALSE]
  <2>1. k \in Held
    BY <1>1, HeldSet
  <2>2. Same(call[c], k)
    BY <1>1 DEF Held, Same
  <2>3. PICK loud \in BOOLEAN : Becomes(c, HungUp(k, loud))
    BY <1>4 DEF LimitFires
  <2> HIDE DEF k
  <2>4. CallOK(k, rows[c]) /\ k.at # "away"
    BY <1>1, <1>2, <2>2 DEF CallOK, Same
  <2>5. HungUp(k, loud) \in Held /\ CallOK(HungUp(k, loud), rows[c])
    BY <2>1, <2>4, HungUpKeeps
  <2> QED
    BY <1>1, <2>3, <2>5, CallStays
<1>5. CASE GoodbyeFires(c)
  <2> DEFINE k == [call[c] EXCEPT !.goodbye = "over"]
  <2>1. k \in Held
    BY <1>1, HeldSet
  <2>2. Same(call[c], k)
    BY <1>1 DEF Held, Same
  <2>3. PICK loud \in BOOLEAN : Becomes(c, HungUp(k, loud))
    BY <1>5 DEF GoodbyeFires
  <2> HIDE DEF k
  <2>4. CallOK(k, rows[c]) /\ k.at # "away"
    BY <1>1, <1>2, <2>2 DEF CallOK, Same
  <2>5. HungUp(k, loud) \in Held /\ CallOK(HungUp(k, loud), rows[c])
    BY <2>1, <2>4, HungUpKeeps
  <2> QED
    BY <1>1, <2>3, <2>5, CallStays
<1>6. CASE SocketCloses(c)
  <2> DEFINE b == call[c].cut \/ ~call[c].wanted
             k == [call[c] EXCEPT !.bridge = "closed", !.cut = b]
             st == Outcome(call[c])
  <2>0. Becomes(c, Ended(k, st))
    BY <1>6 DEF SocketCloses
  <2>b. b \in BOOLEAN /\ (call[c].cut => b) /\ (~call[c].wanted => b)
    BY <1>1 DEF Held
  <2> HIDE DEF b
  <2>1. k \in Held
    <3>1. [call[c] EXCEPT !.bridge = "closed"] \in Held
      BY <1>1, HeldSet
    <3> QED
      BY <2>b, <3>1, HeldSet
  <2>2. /\ k.at = call[c].at /\ k.dialog = call[c].dialog /\ k.wanted = call[c].wanted
        /\ k.refer = call[c].refer /\ k.ends = call[c].ends /\ k.referred = call[c].referred
        /\ k.early = call[c].early /\ k.cut = b
    BY <1>1 DEF Held
  <2>3. st \in EndStates /\ st # "failed" /\ (st = "completed" => k.cut)
    BY <2>b, <2>2 DEF Outcome, EndStates
  <2> HIDE DEF k, st
  <2>4. call[c].cut => k.cut
    BY <2>b, <2>2
  <2>5. CallOK(k, rows[c]) /\ k.at # "away"
    BY <1>1, <1>2, <2>2, <2>4 DEF CallOK
  <2>6. Ended(k, st) \in Held /\ CallOK(Ended(k, st), rows[c])
    BY <2>1, <2>3, <2>5, EndedKeeps
  <2> QED
    BY <1>1, <2>0, <2>6, CallStays
<1> QED
  BY <1>3, <1>4, <1>5, <1>6

\* The goodbye, the tool, the take-over and the end over HTTP.
LEMMA AsksKeep ==
    ASSUME CallsInv, NEW c \in Calls,
           SayGoodbye(c) \/ AskTransfer(c) \/ TakeOver(c) \/ EndFromOutside(c)
    PROVE  CallsInv'
<1>1. call[c] \in Held /\ CallOK(call[c], rows[c])
  BY DEF CallsInv
<1>2. call[c].at # "away"
  BY <1>1, NoCallHeld DEF CallOK, SayGoodbye, AskTransfer, TakeOver, EndFromOutside, At
<1>3. CASE SayGoodbye(c)
  <2> DEFINE k == [call[c] EXCEPT !.goodbye = "set"]
  <2>1. k \in Held
    BY <1>1, HeldSet
  <2>2. Same(call[c], k)
    BY <1>1 DEF Held, Same
  <2>3. Becomes(c, k) /\ rows' = rows
    BY <1>3 DEF SayGoodbye
  <2> HIDE DEF k
  <2>4. CallOK(k, rows[c])
    BY <1>1, <1>2, <2>2 DEF CallOK, Same
  <2> QED
    BY <2>1, <2>3, <2>4, CallStays
<1>4. CASE AskTransfer(c)
  <2> DEFINE k == [call[c] EXCEPT !.wanted = TRUE, !.refer = "tool"]
  <2>1. k \in Held
    <3>1. [call[c] EXCEPT !.wanted = TRUE] \in Held
      BY <1>1, HeldSet
    <3> QED
      BY <3>1, HeldSet
  <2>2. /\ k.at = call[c].at /\ k.dialog = call[c].dialog /\ k.wanted
        /\ k.ends = call[c].ends /\ k.referred = call[c].referred
        /\ k.early = call[c].early /\ k.cut = call[c].cut
    BY <1>1 DEF Held
  <2>3. Becomes(c, k) /\ rows' = rows /\ call[c].at = "up"
    BY <1>4 DEF AskTransfer, At
  <2> HIDE DEF k
  <2>4. CallOK(k, rows[c])
    BY <1>1, <2>2, <2>3 DEF CallOK
  <2> QED
    BY <2>1, <2>3, <2>4, CallStays
<1>5. CASE TakeOver(c)
  <2> DEFINE e == call[c].early \/ ~At(c, {"up"})
             k == [call[c] EXCEPT !.wanted = TRUE, !.refer = "desk", !.early = e]
  <2>0. e \in BOOLEAN /\ (e <=> call[c].early \/ call[c].at # "up")
    BY DEF At
  <2>1. Becomes(c, k) /\ rows' = rows
    BY <1>5 DEF TakeOver
  <2> HIDE DEF e
  <2>2. k \in Held
    <3>1. [call[c] EXCEPT !.wanted = TRUE] \in Held
      BY <1>1, HeldSet
    <3>2. [call[c] EXCEPT !.wanted = TRUE, !.refer = "desk"] \in Held
      BY <3>1, HeldSet
    <3> QED
      BY <2>0, <3>2, HeldSet
  <2>3. /\ k.at = call[c].at /\ k.dialog = call[c].dialog /\ k.wanted
        /\ k.ends = call[c].ends /\ k.referred = call[c].referred
        /\ k.early = e /\ k.cut = call[c].cut
    BY <1>1 DEF Held
  <2> HIDE DEF k
  <2>4. CallOK(k, rows[c])
    BY <1>1, <1>2, <2>0, <2>3 DEF CallOK
  <2> QED
    BY <2>1, <2>2, <2>4, CallStays
<1>6. CASE EndFromOutside(c)
  <2> DEFINE k == [call[c] EXCEPT !.cut = TRUE]
  <2>1. k \in Held
    BY <1>1, HeldSet
  <2>2. /\ k.at = call[c].at /\ k.dialog = call[c].dialog /\ k.wanted = call[c].wanted
        /\ k.refer = call[c].refer /\ k.ends = call[c].ends /\ k.referred = call[c].referred
        /\ k.early = call[c].early /\ k.cut
    BY <1>1 DEF Held
  <2>3. PICK st \in EndStates : rows' = [rows EXCEPT ![c] = st]
    BY <1>6 DEF EndFromOutside
  <2>4. Becomes(c, k)
    BY <1>6 DEF EndFromOutside
  <2> HIDE DEF k
  <2>5. CallOK(k, st)
    BY <1>1, <1>2, <2>2 DEF CallOK
  <2> QED
    BY <2>1, <2>3, <2>4, <2>5, CallStep
<1> QED
  BY <1>3, <1>4, <1>5, <1>6

\* The REFER is answered, and the ends are written.
LEMMA ReferKeeps ==
    ASSUME CallsInv, NEW c \in Calls, ReferAnswered(c)
    PROVE  CallsInv'
<1>1. call[c] \in Held /\ CallOK(call[c], rows[c]) /\ rows' = rows /\ call[c].refer # "none"
  BY DEF CallsInv, ReferAnswered
<1>2. call[c].at # "away"
  BY <1>1, NoCallHeld DEF CallOK
<1>3. PICK ok \in {x \in BOOLEAN : x => call[c].dialog = "up"} :
        LET k == [call[c] EXCEPT !.refer = "none", !.referred = @ \/ ok]
        IN Becomes(c, IF ok \/ call[c].refer = "desk" THEN Ended(k, "transferred") ELSE k)
  BY DEF ReferAnswered
<1> DEFINE r == call[c].referred \/ ok
           k == [call[c] EXCEPT !.refer = "none", !.referred = r]
<1>4. Becomes(c, IF ok \/ call[c].refer = "desk" THEN Ended(k, "transferred") ELSE k)
  BY <1>3
<1>5. r \in BOOLEAN /\ (r <=> call[c].referred \/ ok) /\ (ok => call[c].dialog = "up")
  BY <1>3
<1> HIDE DEF r
<1>6. k \in Held
  <2>1. [call[c] EXCEPT !.refer = "none"] \in Held
    BY <1>1, HeldSet
  <2> QED
    BY <1>5, <2>1, HeldSet
<1>7. /\ k.at = call[c].at /\ k.dialog = call[c].dialog /\ k.wanted = call[c].wanted
      /\ k.refer = "none" /\ k.ends = call[c].ends /\ k.referred = r
      /\ k.early = call[c].early /\ k.cut = call[c].cut
  BY <1>1 DEF Held
<1> HIDE DEF k
<1>8. CASE ok \/ call[c].refer = "desk"
  <2> DEFINE h == Ended(k, "transferred")
  <2>1. h = [k EXCEPT !.ends["transferred"] = "asked"]
    BY DEF Ended
  <2>2. Becomes(c, h)
    BY <1>4, <1>8
  <2> HIDE DEF h
  <2>3. /\ h \in Held
        /\ h.ends["transferred"] = "asked"
        /\ \A s \in EndStates : s # "transferred" => h.ends[s] = k.ends[s]
        /\ h.at = k.at /\ h.dialog = k.dialog /\ h.wanted = k.wanted
        /\ h.refer = k.refer /\ h.referred = k.referred
        /\ h.early = k.early /\ h.cut = k.cut
    BY <1>6, <2>1, EndSet, EndStatesAre
  <2>4. CallOK(h, rows[c])
    BY <1>1, <1>2, <1>5, <1>7, <2>3, EndStatesAre DEF CallOK
  <2> QED
    BY <1>1, <2>2, <2>3, <2>4, CallStays
<1>9. CASE ~(ok \/ call[c].refer = "desk")
  <2>1. Becomes(c, k)
    BY <1>4, <1>9
  <2>2. CallOK(k, rows[c])
    BY <1>1, <1>2, <1>5, <1>7, <1>9 DEF CallOK
  <2> QED
    BY <1>1, <1>6, <2>1, <2>2, CallStays
<1> QED
  BY <1>8, <1>9

LEMMA WritesKeep ==
    ASSUME CallsInv, NEW c \in Calls, NEW st \in EndStates, CallEnd(c, st)
    PROVE  CallsInv'
<1>1. call[c] \in Held /\ CallOK(call[c], rows[c])
  BY DEF CallsInv
<1>2. call[c].at # "away"
  BY <1>1, NoCallHeld DEF CallOK, CallEnd, EndWrite, EndRemove
<1>3. CASE EndWrite(c, st)
  <2> DEFINE k == [call[c] EXCEPT !.ends[st] = "written"]
  <2>1. Becomes(c, k) /\ rows' = [rows EXCEPT ![c] = st] /\ call[c].ends[st] = "asked"
    BY <1>3 DEF EndWrite
  <2>2. k = [call[c] EXCEPT !.ends[st] = "written"]
    OBVIOUS
  <2> HIDE DEF k
  <2>3. /\ k \in Held
        /\ k.ends[st] = "written"
        /\ \A s \in EndStates : s # st => k.ends[s] = call[c].ends[s]
        /\ k.at = call[c].at /\ k.dialog = call[c].dialog /\ k.wanted = call[c].wanted
        /\ k.refer = call[c].refer /\ k.referred = call[c].referred
        /\ k.early = call[c].early /\ k.cut = call[c].cut
    BY <1>1, <2>2, EndSet
  <2>4. st = "failed" \/ st = "completed" \/ st = "transferred"
    BY DEF EndStates
  <2>5. CallOK(k, st)
    BY <1>1, <1>2, <2>1, <2>3, <2>4, EndStatesAre DEF CallOK
  <2> QED
    BY <2>1, <2>3, <2>5, CallStep
<1>4. CASE EndRemove(c, st)
  <2> DEFINE k == [call[c] EXCEPT !.ends[st] = "no"]
  <2>1. Becomes(c, Removed(k)) /\ rows' = rows /\ call[c].ends[st] = "written"
    BY <1>4 DEF EndRemove
  <2>2. k = [call[c] EXCEPT !.ends[st] = "no"]
    OBVIOUS
  <2> HIDE DEF k
  <2>3. /\ k \in Held
        /\ k.ends[st] = "no"
        /\ \A s \in EndStates : s # st => k.ends[s] = call[c].ends[s]
        /\ k.at = call[c].at /\ k.dialog = call[c].dialog /\ k.wanted = call[c].wanted
        /\ k.refer = call[c].refer /\ k.referred = call[c].referred
        /\ k.early = call[c].early /\ k.cut = call[c].cut
    BY <1>1, <2>2, EndSet
  <2>4. CallOK(k, rows[c])
    BY <1>1, <1>2, <2>1, <2>3, EndStatesAre DEF CallOK
  <2>5. Removed(k) \in Held /\ Same(k, Removed(k))
    BY <2>3, RemovedKeeps
  <2>6. CallOK(Removed(k), rows[c])
    BY <1>2, <2>3, <2>4, <2>5 DEF CallOK, Same
  <2> QED
    BY <2>1, <2>5, <2>6, CallStays
<1> QED
  BY <1>3, <1>4 DEF CallEnd

LEMMA GoneKeeps ==
    ASSUME CallsInv, GatewayGone
    PROVE  CallsInv'
<1> DEFINE dead == [NoCall EXCEPT !.at = "dead", !.dialog = "ended"]
<1>1. /\ dead \in Held /\ dead.at = "dead" /\ dead.refer = "none" /\ ~dead.referred
      /\ dead.ends = NoCall.ends
  <2>1. [NoCall EXCEPT !.at = "dead"] \in Held
    BY NoCallHeld, HeldSet
  <2>2. dead \in Held
    BY <2>1, HeldSet
  <2> QED
    BY <2>2, NoCallHeld DEF Held
<1>2. /\ call' = [c \in Calls |-> IF call[c].at = "away" THEN NoCall ELSE dead]
      /\ rows' = rows
  BY DEF GatewayGone
<1> HIDE DEF dead
<1>3. call' \in [Calls -> Held]
  BY <1>1, <1>2, NoCallHeld
<1>4. ASSUME NEW c \in Calls PROVE CallOK(call'[c], rows'[c])
  <2>1. CASE call[c].at = "away"
    <3>1. call'[c] = NoCall /\ rows'[c] = "none"
      BY <1>2, <2>1 DEF CallsInv, CallOK
    <3> QED
      BY <3>1, NoCallHeld, EndStatesAre DEF CallOK
  <2>2. CASE call[c].at # "away"
    <3>1. call'[c] = dead
      BY <1>2, <2>2
    <3> QED
      BY <1>1, <3>1, NoCallHeld, EndStatesAre DEF CallOK
  <2> QED
    BY <2>1, <2>2
<1>5. (\A c \in Calls : CallOK(call[c], rows[c]))'
  BY <1>4 DEF CallOK
<1> QED
  BY <1>2, <1>3, <1>5 DEF CallsInv

LEMMA CallsNext == CallsInv /\ [CallNext]_vvars => CallsInv'
<1> SUFFICES ASSUME CallsInv, [CallNext]_vvars PROVE CallsInv'
  OBVIOUS
<1>1. CASE UNCHANGED vvars
  <2>1. (\A c \in Calls : CallOK(call[c], rows[c]))'
    BY <1>1 DEF vvars, CallsInv, CallOK
  <2> QED
    BY <1>1, <2>1 DEF vvars, CallsInv
<1>2. CASE GatewayGone
  BY <1>2, GoneKeeps
<1>3. ASSUME NEW c \in Calls,
             \/ CallHandler(c) \/ Invite(c) \/ StartFails(c) \/ ConnectFails(c)
             \/ CallerHangsUp(c) \/ LimitFires(c) \/ SayGoodbye(c)
             \/ GoodbyeFires(c) \/ SocketCloses(c) \/ AskTransfer(c)
             \/ TakeOver(c) \/ ReferAnswered(c) \/ EndFromOutside(c)
             \/ \E st \in EndStates : CallEnd(c, st)
      PROVE  CallsInv'
  BY <1>3, HandlerKeeps, FailsKeep, EndsKeep, AsksKeep, ReferKeeps, WritesKeep
<1> QED
  BY <1>1, <1>2, <1>3 DEF CallNext

\* A caller whose REFER was accepted is on record as handed over, whoever ends
\* the dialog afterwards (onTransfer, dialog.on("end") and endCall in
\* voice-gateway), unless the call was cut - the robot hung up, the API closed the
\* socket before a hand-over was wanted, the row was ended over HTTP - or the
\* take-over came before the handler of the INVITE was through.
THEOREM HandOversAreRecorded == CallSpec => []HandedOverIsRecorded
<1>1. CallsInv => HandedOverIsRecorded
  BY EndStatesAre DEF CallsInv, CallOK, HandedOverIsRecorded, Settled
<1> QED
  BY CallsStart, CallsNext, <1>1, PTL DEF CallSpec

\* An end is asked for, and one is under way.
Asked(k) == \E st \in EndStates : k.ends[st] = "asked"
Ending(k) == \E st \in EndStates : k.ends[st] # "no"

\* What the end of a call waits for: a row that is open, for an end that is asked
\* for or the limit; a session that lives, for an end or the limit; and one that is
\* gone has closed its socket, or will find it leaked.
Closing(k, row) ==
    /\ row \in OpenRow => k.limit \/ Asked(k)
    /\ k.live => k.limit \/ Ending(k)
    /\ ~k.live => k.bridge \in {"none", "shut", "leaked", "closed"}

\* On a call that nobody took over too early: a handler that has not connected yet
\* has no end, no timer and no socket; one that is through has none half open.
CallCloses(k, row) ==
    ~k.early /\ k.at # "dead" =>
        /\ k.at \in {"away", "start"} => row = "none" /\ ~k.live
        /\ k.at \in {"away", "start", "accept", "mark"} => k.bridge = "none" /\ ~k.limit /\ ~Ending(k)
        /\ k.at \in {"accept", "mark"} => k.live
        /\ k.at \in {"connect", "up", "gone"} => Closing(k, row)
        /\ k.at \in {"up", "gone"} => k.bridge \notin {"connecting", "shut"}
        /\ \A st \in EndStates : k.ends[st] = "written" => row \notin OpenRow
        /\ k.hears \/ k.goodbye = "set" => k.at = "up"

CallsClose == \A c \in Calls : CallCloses(call[c], rows[c])

\* Neither its handler, its limit, a REFER nor an end has anything to do for the call.
CallAtRest(c) ==
    /\ ~At(c, {"away", "start", "accept", "mark"})
    /\ call[c].bridge \notin {"connecting", "shut"}
    /\ At(c, {"connect"}) => call[c].bridge \notin {"open", "closed", "leaked"}
    /\ ~call[c].limit /\ call[c].refer = "none"
    /\ \A st \in EndStates : call[c].ends[st] = "no"

ClosedAtRest ==
    \A c \in Calls : CallAtRest(c) => CallClosed(c) \/ At(c, {"dead"}) \/ call[c].early

\* The parts of a call that CallCloses speaks of.
SameRest(k, l) ==
    /\ l.at = k.at /\ l.bridge = k.bridge /\ l.live = k.live /\ l.limit = k.limit
    /\ l.hears = k.hears /\ l.goodbye = k.goodbye /\ l.ends = k.ends /\ l.early = k.early

LEMMA SameRestCloses ==
    ASSUME NEW k, NEW l, NEW row, SameRest(k, l), CallCloses(k, row)
    PROVE  CallCloses(l, row)
BY DEF SameRest, CallCloses, Closing, Asked, Ending

ShutBridge(b) == IF b = "none" THEN "none" ELSE IF b = "connecting" THEN "shut" ELSE "closed"

\* A call that has connected closes when an end is asked for, with the socket
\* closed at once or later.
LEMMA AskedCloses ==
    ASSUME NEW k, NEW h, NEW row, CallCloses(k, row), Asked(h),
           ~k.early /\ k.at # "dead" => k.at \in {"connect", "up", "gone"},
           h.at = k.at /\ h.early = k.early /\ h.live = k.live /\ h.hears = k.hears,
           h.goodbye \in {k.goodbye, "over"}, h.bridge \in {k.bridge, ShutBridge(k.bridge)},
           \A st \in EndStates : h.ends[st] = k.ends[st] \/ h.ends[st] = "asked"
    PROVE  CallCloses(h, row)
<1> SUFFICES ASSUME ~h.early, h.at # "dead"
             PROVE  CallCloses(h, row)
  BY DEF CallCloses
<1>1. k.at \in {"connect", "up", "gone"} /\ Closing(k, row) /\ h.at = k.at
  BY DEF CallCloses
<1>2. Ending(h)
  BY DEF Asked, Ending
<1>3. Closing(h, row)
  BY <1>1, <1>2 DEF Closing, ShutBridge
<1>4. h.at \in {"up", "gone"} => h.bridge \notin {"connecting", "shut"}
  BY <1>1 DEF CallCloses, ShutBridge
<1>5. \A st \in EndStates : h.ends[st] = "written" => row \notin OpenRow
  BY <1>1 DEF CallCloses
<1>6. h.hears \/ h.goodbye = "set" => h.at = "up"
  BY <1>1 DEF CallCloses
<1> HIDE DEF Closing, Ending
<1> QED
  BY <1>1, <1>3, <1>4, <1>5, <1>6 DEF CallCloses

LEMMA EndSetMore ==
    ASSUME NEW k \in Held, NEW st \in EndStates, NEW x \in {"no", "asked", "written"},
           NEW l, l = [k EXCEPT !.ends[st] = x]
    PROVE  /\ l.bridge = k.bridge /\ l.live = k.live /\ l.limit = k.limit /\ l.hears = k.hears
           /\ l.goodbye = k.goodbye
<1> DEFINE e == [k.ends EXCEPT ![st] = x]
<1>1. l = [k EXCEPT !.ends = e]
  OBVIOUS
<1> HIDE DEF e
<1> QED
  BY <1>1 DEF Held

LEMMA ShutRest ==
    ASSUME NEW k \in Held
    PROVE  /\ Shut(k).live = k.live /\ Shut(k).limit = k.limit /\ Shut(k).hears = k.hears
           /\ Shut(k).goodbye = k.goodbye /\ Shut(k).bridge = ShutBridge(k.bridge)
<1> DEFINE b == IF k.bridge = "none" THEN k.bridge
                ELSE IF k.bridge = "connecting" THEN "shut" ELSE "closed"
<1>1. b = ShutBridge(k.bridge)
  BY DEF ShutBridge
<1>2. Shut(k) = [k EXCEPT !.bridge = b]
  BY DEF Shut
<1> HIDE DEF b
<1> QED
  BY <1>1, <1>2 DEF Held

LEMMA EndedRest ==
    ASSUME NEW k \in Held, NEW st \in EndStates
    PROVE  /\ Ended(k, st) \in Held /\ Ended(k, st).ends[st] = "asked"
           /\ \A s \in EndStates : s # st => Ended(k, st).ends[s] = k.ends[s]
           /\ Ended(k, st).at = k.at /\ Ended(k, st).early = k.early
           /\ Ended(k, st).bridge = k.bridge /\ Ended(k, st).live = k.live
           /\ Ended(k, st).limit = k.limit /\ Ended(k, st).hears = k.hears
           /\ Ended(k, st).goodbye = k.goodbye /\ Asked(Ended(k, st))
<1> DEFINE h == Ended(k, st)
<1>1. h = [k EXCEPT !.ends[st] = "asked"]
  BY DEF Ended
<1> HIDE DEF h
<1>2. /\ h \in Held /\ h.ends[st] = "asked"
      /\ \A s \in EndStates : s # st => h.ends[s] = k.ends[s]
      /\ h.at = k.at /\ h.early = k.early
  BY <1>1, EndSet
<1>3. /\ h.bridge = k.bridge /\ h.live = k.live /\ h.limit = k.limit /\ h.hears = k.hears
      /\ h.goodbye = k.goodbye
  BY <1>1, EndSetMore
<1>4. Asked(h)
  BY <1>2 DEF Asked
<1> QED
  BY <1>2, <1>3, <1>4 DEF h

\* The end of a dialog: nothing where it is not listened for; else an end is asked
\* for and the socket closed.
LEMMA HeardRest ==
    ASSUME NEW k \in Held
    PROVE  /\ ~k.hears => Heard(k) = k
           /\ k.hears => Asked(Heard(k))
           /\ Heard(k).at = k.at /\ Heard(k).early = k.early /\ Heard(k).live = k.live
           /\ Heard(k).limit = k.limit /\ Heard(k).hears = k.hears
           /\ Heard(k).goodbye \in {k.goodbye, "over"}
           /\ Heard(k).bridge \in {k.bridge, ShutBridge(k.bridge)}
           /\ \A st \in EndStates : Heard(k).ends[st] = k.ends[st] \/ Heard(k).ends[st] = "asked"
           /\ Heard(k) \in Held
<1>1. CASE ~k.hears
  BY <1>1 DEF Heard
<1>2. CASE k.hears
  <2> DEFINE l == [k EXCEPT !.goodbye = "over"]
             m == Shut(l)
             o == Outcome(m)
             h == Heard(k)
  <2>1. l \in Held
    BY HeldSet
  <2>2. /\ Same(k, l) /\ l.bridge = k.bridge /\ l.live = k.live /\ l.limit = k.limit
        /\ l.hears = k.hears /\ l.goodbye = "over"
    BY DEF Same, Held
  <2> HIDE DEF l
  <2>3. m \in Held /\ Same(l, m)
    BY <2>1, ShutKeeps
  <2>4. /\ m.live = l.live /\ m.limit = l.limit /\ m.hears = l.hears /\ m.goodbye = l.goodbye
        /\ m.bridge = ShutBridge(l.bridge)
    BY <2>1, ShutRest
  <2> HIDE DEF m
  <2>5. o \in EndStates /\ Outcome(k) = o
    BY <2>2, <2>3, EndStatesAre DEF Outcome, Same
  <2> HIDE DEF o
  <2>6. h = Ended(m, o)
    BY <1>2, <2>5 DEF Heard, l, m
  <2> HIDE DEF h
  <2>7. /\ h \in Held /\ h.ends[o] = "asked" /\ Asked(h)
        /\ \A s \in EndStates : s # o => h.ends[s] = m.ends[s]
        /\ h.at = m.at /\ h.early = m.early /\ h.bridge = m.bridge /\ h.live = m.live
        /\ h.limit = m.limit /\ h.hears = m.hears /\ h.goodbye = m.goodbye
    BY <2>3, <2>5, <2>6, EndedRest
  <2> QED
    BY <1>2, <2>2, <2>3, <2>4, <2>7 DEF Same, h
<1> QED
  BY <1>1, <1>2

\* The gateway hangs up: "completed" is asked for, and the socket closed if the
\* BYE is heard.
LEMMA HungUpRest ==
    ASSUME NEW k \in Held, NEW loud \in BOOLEAN, NEW h, h = HungUp(k, loud)
    PROVE  /\ Asked(h) /\ h.at = k.at /\ h.early = k.early /\ h.live = k.live /\ h.hears = k.hears
           /\ h.goodbye \in {k.goodbye, "over"} /\ h.bridge \in {k.bridge, ShutBridge(k.bridge)}
           /\ \A st \in EndStates : h.ends[st] = k.ends[st] \/ h.ends[st] = "asked"
<1> DEFINE b == [k EXCEPT !.dialog = "ended", !.cut = TRUE]
           m == IF loud /\ k.dialog = "up" THEN Heard(b) ELSE b
<1>1. [k EXCEPT !.dialog = "ended"] \in Held
  BY HeldSet
<1>2. b \in Held
  BY <1>1, HeldSet
<1>3. SameRest(k, b)
  BY DEF Held, SameRest
<1>4. h = Ended(m, "completed")
  BY DEF HungUp
<1> HIDE DEF b
<1>5. /\ m \in Held /\ m.at = b.at /\ m.early = b.early /\ m.live = b.live /\ m.hears = b.hears
      /\ m.goodbye \in {b.goodbye, "over"} /\ m.bridge \in {b.bridge, ShutBridge(b.bridge)}
      /\ \A st \in EndStates : m.ends[st] = b.ends[st] \/ m.ends[st] = "asked"
  BY <1>2, HeardRest
<1> HIDE DEF m
<1>6. /\ h.ends["completed"] = "asked" /\ Asked(h)
      /\ \A s \in EndStates : s # "completed" => h.ends[s] = m.ends[s]
      /\ h.at = m.at /\ h.early = m.early /\ h.bridge = m.bridge /\ h.live = m.live
      /\ h.hears = m.hears /\ h.goodbye = m.goodbye
  <2> DEFINE e == Ended(m, "completed")
  <2>1. /\ e.ends["completed"] = "asked" /\ Asked(e)
        /\ \A s \in EndStates : s # "completed" => e.ends[s] = m.ends[s]
        /\ e.at = m.at /\ e.early = m.early /\ e.bridge = m.bridge /\ e.live = m.live
        /\ e.hears = m.hears /\ e.goodbye = m.goodbye
    BY <1>5, EndedRest, EndStatesAre
  <2>2. h = e
    BY <1>4
  <2> HIDE DEF e
  <2> QED
    BY <2>1, <2>2
<1> QED
  BY <1>3, <1>5, <1>6 DEF SameRest

LEMMA RemovedRest ==
    ASSUME NEW k \in Held
    PROVE  /\ ~k.live => Removed(k) = k
           /\ k.live => /\ Removed(k).at = k.at /\ Removed(k).early = k.early
                        /\ Removed(k).ends = k.ends /\ Removed(k).hears = k.hears
                        /\ Removed(k).goodbye = k.goodbye /\ ~Removed(k).live
                        /\ ~Removed(k).limit /\ Removed(k).bridge = ShutBridge(k.bridge)
<1>1. CASE ~k.live
  BY <1>1 DEF Removed
<1>2. CASE k.live
  <2> DEFINE l == [k EXCEPT !.live = FALSE, !.limit = FALSE]
  <2>1. [k EXCEPT !.live = FALSE] \in Held
    BY HeldSet
  <2>2. l \in Held
    BY <2>1, HeldSet
  <2>3. /\ Same(k, l) /\ l.hears = k.hears /\ l.bridge = k.bridge /\ l.goodbye = k.goodbye
        /\ ~l.live /\ ~l.limit
    BY DEF Same, Held
  <2>4. Removed(k) = Shut(l)
    BY <1>2 DEF Removed
  <2> HIDE DEF l
  <2> QED
    BY <1>2, <2>2, <2>3, <2>4, ShutKeeps, ShutRest DEF Same
<1> QED
  BY <1>1, <1>2

\* A step of one call, and of its row.
LEMMA CloseStep ==
    ASSUME CallsInv, CallsClose, NEW c \in Calls, NEW k, Becomes(c, k), NEW row,
           rows' = [rows EXCEPT ![c] = row], CallCloses(k, row)
    PROVE  CallsClose'
<1>1. /\ call'[c] = k /\ rows'[c] = row
      /\ \A d \in Calls : d # c => call'[d] = call[d] /\ rows'[d] = rows[d]
  BY DEF CallsInv, Becomes
<1>2. \A d \in Calls : CallCloses(call'[d], rows'[d])
  BY <1>1 DEF CallsClose
<1> QED
  BY <1>2 DEF CallsClose, CallCloses

LEMMA CloseStays ==
    ASSUME CallsInv, CallsClose, NEW c \in Calls, NEW k, Becomes(c, k), rows' = rows,
           CallCloses(k, rows[c])
    PROVE  CallsClose'
<1>1. rows' = [rows EXCEPT ![c] = rows[c]]
  BY DEF CallsInv
<1> QED
  BY <1>1, CloseStep

LEMMA CloseStart == CallInit => CallsClose
<1> SUFFICES ASSUME CallInit, NEW c \in Calls PROVE CallCloses(call[c], rows[c])
  BY DEF CallsClose
<1>1. call[c] = NoCall /\ rows[c] = "none" /\ NoCall.at = "away"
  BY DEF CallInit, NoCall
<1> QED
  <2>1. ~Ending(NoCall)
    BY NoCallHeld DEF Ending
  <2> QED
    BY <1>1, <2>1, NoCallHeld DEF CallCloses, OpenRow

\* Where an end is asked for, a timer of the call fires or a REFER is out, the call has
\* connected, unless it was taken over too early.
Connected(k) == ~k.early /\ k.at # "dead" => k.at \in {"connect", "up", "gone"}

LEMMA HasConnected ==
    ASSUME NEW k \in Held, NEW row, CallCloses(k, row),
           k.limit \/ k.hears \/ k.goodbye = "set" \/ k.bridge # "none" \/ Ending(k) \/ k.at = "up"
    PROVE  Connected(k)
<1> SUFFICES ASSUME ~k.early, k.at # "dead" PROVE k.at \in {"connect", "up", "gone"}
  BY DEF Connected
<1>1. k.at \in {"away", "start", "accept", "mark", "connect", "up", "gone", "dead"}
  BY DEF Held
<1>2. k.at \in {"away", "start", "accept", "mark"} => k.bridge = "none" /\ ~k.limit /\ ~Ending(k)
  BY DEF CallCloses
<1>3. k.hears \/ k.goodbye = "set" => k.at = "up"
  BY DEF CallCloses
<1> HIDE DEF Ending
<1> QED
  BY <1>1, <1>2, <1>3

\* The handler of the INVITE, from await to await, and where it gives up.
LEMMA HandlerCloses ==
    ASSUME CallsInv, CallsClose, NEW c \in Calls,
           CallHandler(c) \/ Invite(c) \/ StartFails(c) \/ ConnectFails(c)
    PROVE  CallsClose'
<1> DEFINE k0 == call[c]
<1>1. k0 \in Held /\ CallOK(k0, rows[c]) /\ CallCloses(k0, rows[c])
  BY DEF CallsInv, CallsClose
<1>2. CASE Invite(c)
  <2> DEFINE k == [k0 EXCEPT !.at = "start", !.dialog = "ringing"]
  <2>1. /\ k.at = "start" /\ k.bridge = k0.bridge /\ k.live = k0.live /\ k.limit = k0.limit
        /\ k.hears = k0.hears /\ k.ends = k0.ends /\ k.early = k0.early /\ k.goodbye = k0.goodbye
    BY <1>1 DEF Held
  <2>2. Becomes(c, k) /\ rows' = rows /\ k0.at = "away"
    BY <1>2 DEF Invite, At
  <2> HIDE DEF k, k0
  <2>3. CallCloses(k, rows[c])
    BY <1>1, <2>1, <2>2, NoCallHeld DEF CallCloses, Closing, Ending, Asked, CallOK
  <2> QED
    BY <2>2, <2>3, CloseStays
<1>3. CASE OpenSession(c)
  <2> DEFINE k == [k0 EXCEPT !.at = "accept", !.live = TRUE]
  <2>1. /\ k.at = "accept" /\ k.bridge = k0.bridge /\ k.live /\ k.limit = k0.limit
        /\ k.hears = k0.hears /\ k.ends = k0.ends /\ k.early = k0.early /\ k.goodbye = k0.goodbye
    BY <1>1 DEF Held
  <2>2. Becomes(c, k) /\ rows' = [rows EXCEPT ![c] = "ringing"] /\ k0.at = "start"
    BY <1>3 DEF OpenSession, At
  <2> HIDE DEF k, k0
  <2>3. CallCloses(k, "ringing")
    BY <1>1, <2>1, <2>2 DEF CallCloses, Closing, Ending, Asked
  <2> QED
    BY <2>2, <2>3, CloseStep
<1>4. CASE Accept(c)
  <2>1. k0.at = "accept" /\ rows' = rows
    BY <1>4 DEF Accept, At
  <2>2. CASE k0.dialog = "ringing"
    <3> DEFINE k == [k0 EXCEPT !.at = "mark", !.dialog = "up"]
    <3>1. /\ k.at = "mark" /\ k.bridge = k0.bridge /\ k.live = k0.live /\ k.limit = k0.limit
          /\ k.hears = k0.hears /\ k.ends = k0.ends /\ k.early = k0.early /\ k.goodbye = k0.goodbye
      BY <1>1 DEF Held
    <3>2. Becomes(c, k)
      BY <1>4, <2>2 DEF Accept
    <3> HIDE DEF k, k0
    <3>3. CallCloses(k, rows[c])
      BY <1>1, <2>1, <3>1 DEF CallCloses, Closing, Ending, Asked
    <3> QED
      BY <2>1, <3>2, <3>3, CloseStays
  <2>3. CASE k0.dialog # "ringing"
    <3> DEFINE g == [k0 EXCEPT !.at = "gone"]
               k == Ended(g, "failed")
    <3>1. g \in Held
      BY <1>1, HeldSet
    <3>2. /\ g.at = "gone" /\ g.bridge = k0.bridge /\ g.live = k0.live /\ g.limit = k0.limit
          /\ g.hears = k0.hears /\ g.ends = k0.ends /\ g.early = k0.early /\ g.goodbye = k0.goodbye
      BY <1>1 DEF Held
    <3>3. Becomes(c, k)
      BY <1>4, <2>3 DEF Accept
    <3> HIDE DEF g, k0
    <3>4. /\ k.ends["failed"] = "asked"
          /\ \A s \in EndStates : s # "failed" => k.ends[s] = g.ends[s]
          /\ k.at = g.at /\ k.early = g.early /\ k.goodbye = g.goodbye /\ Asked(k)
          /\ k.bridge = g.bridge /\ k.live = g.live /\ k.limit = g.limit /\ k.hears = g.hears
      BY <3>1, EndedRest, EndStatesAre
    <3> HIDE DEF k
    <3>5. CallCloses(k, rows[c])
      BY <1>1, <2>1, <3>2, <3>4 DEF CallCloses, Closing, Ending, Asked
    <3> QED
      BY <2>1, <3>3, <3>5, CloseStays
  <2> QED
    BY <2>2, <2>3
<1>5. CASE MarkActive(c)
  <2> DEFINE k == [k0 EXCEPT !.at = "connect", !.bridge = "connecting", !.limit = TRUE]
  <2>1. /\ k.at = "connect" /\ k.bridge = "connecting" /\ k.live = k0.live /\ k.limit
        /\ k.hears = k0.hears /\ k.ends = k0.ends /\ k.early = k0.early /\ k.goodbye = k0.goodbye
    BY <1>1 DEF Held
  <2>2. Becomes(c, k) /\ rows' = [rows EXCEPT ![c] = "active"] /\ k0.at = "mark"
    BY <1>5 DEF MarkActive, At
  <2> HIDE DEF k, k0
  <2>3. CallCloses(k, "active")
    BY <1>1, <2>1, <2>2 DEF CallCloses, Closing, Ending, Asked
  <2> QED
    BY <2>2, <2>3, CloseStep
<1>6. CASE SocketOpens(c)
  <2> DEFINE b == IF k0.bridge = "shut" THEN "leaked" ELSE "open"
             k == [k0 EXCEPT !.bridge = b]
  <2>1. Becomes(c, k) /\ rows' = rows /\ k0.bridge \in {"connecting", "shut"}
    BY <1>6 DEF SocketOpens
  <2>2. b \in {"open", "leaked"} /\ (b = "open" <=> k0.bridge = "connecting")
    BY <2>1
  <2> HIDE DEF b
  <2>3. /\ k.at = k0.at /\ k.bridge = b /\ k.live = k0.live /\ k.limit = k0.limit
        /\ k.hears = k0.hears /\ k.ends = k0.ends /\ k.early = k0.early /\ k.goodbye = k0.goodbye
    BY <1>1 DEF Held
  <2> HIDE DEF k, k0
  <2>4. Connected(k0)
    BY <1>1, <2>1, HasConnected
  <2>5. ASSUME ~k.early, k.at # "dead" PROVE CallCloses(k, rows[c])
    <3>1. k0.at \in {"connect", "up", "gone"} /\ Closing(k0, rows[c])
      BY <1>1, <2>3, <2>4, <2>5 DEF Connected, CallCloses
    <3>2. Closing(k, rows[c])
      BY <2>1, <2>2, <2>3, <3>1 DEF Closing, Asked, Ending
    <3>3. \A st \in EndStates : k0.ends[st] = "written" => rows[c] \notin OpenRow
      BY <1>1, <2>3, <2>5 DEF CallCloses
    <3>4. k0.hears \/ k0.goodbye = "set" => k0.at = "up"
      BY <1>1, <2>3, <2>5 DEF CallCloses
    <3> HIDE DEF Closing
    <3> QED
      BY <2>2, <2>3, <3>1, <3>2, <3>3, <3>4 DEF CallCloses
  <2>6. CallCloses(k, rows[c])
    BY <2>5 DEF CallCloses
  <2> QED
    BY <2>1, <2>6, CloseStays
<1>7. CASE SessionReady(c)
  <2> DEFINE k == [k0 EXCEPT !.at = "up", !.hears = TRUE]
  <2>1. /\ k.at = "up" /\ k.bridge = k0.bridge /\ k.live = k0.live /\ k.limit = k0.limit
        /\ k.ends = k0.ends /\ k.early = k0.early /\ k.goodbye = k0.goodbye
    BY <1>1 DEF Held
  <2>2. Becomes(c, k) /\ rows' = rows /\ k0.at = "connect" /\ k0.bridge \notin {"connecting", "shut"}
    BY <1>7 DEF SessionReady, At
  <2> HIDE DEF k, k0
  <2>3. CallCloses(k, rows[c])
    BY <1>1, <2>1, <2>2 DEF CallCloses, Closing, Ending, Asked
  <2> QED
    BY <2>2, <2>3, CloseStays
<1>8. CASE StartFails(c)
  <2> DEFINE k == [k0 EXCEPT !.at = "gone", !.dialog = "ended"]
  <2>1. /\ k.at = "gone" /\ k.bridge = k0.bridge /\ k.live = k0.live /\ k.limit = k0.limit
        /\ k.hears = k0.hears /\ k.ends = k0.ends /\ k.early = k0.early /\ k.goodbye = k0.goodbye
    BY <1>1 DEF Held
  <2>2. Becomes(c, k) /\ rows' = rows /\ k0.at = "start"
    BY <1>8 DEF StartFails, At
  <2> HIDE DEF k, k0
  <2>3. CallCloses(k, rows[c])
    BY <1>1, <2>1, <2>2 DEF CallCloses, Closing, Ending, Asked, OpenRow
  <2> QED
    BY <2>2, <2>3, CloseStays
<1>9. CASE ConnectFails(c)
  <2> DEFINE b == IF k0.bridge \in {"open", "leaked"} THEN k0.bridge ELSE "closed"
             g == [k0 EXCEPT !.at = "gone", !.dialog = "ended", !.bridge = b]
             k == Ended(g, "failed")
  <2>1. b \in {"none", "connecting", "open", "shut", "leaked", "closed"}
    OBVIOUS
  <2>2. b = "closed" \/ (b = k0.bridge /\ b \in {"open", "leaked"})
    OBVIOUS
  <2>3. Becomes(c, k) /\ rows' = rows /\ k0.at = "connect"
    BY <1>9 DEF ConnectFails, At
  <2> HIDE DEF b
  <2>4. [k0 EXCEPT !.at = "gone"] \in Held
    BY <1>1, HeldSet
  <2>5. [k0 EXCEPT !.at = "gone", !.dialog = "ended"] \in Held
    BY <2>4, HeldSet
  <2>6. g \in Held
    BY <2>1, <2>5, HeldSet
  <2>7. /\ g.at = "gone" /\ g.bridge = b /\ g.live = k0.live /\ g.limit = k0.limit
        /\ g.hears = k0.hears /\ g.ends = k0.ends /\ g.early = k0.early /\ g.goodbye = k0.goodbye
    BY <1>1 DEF Held
  <2> HIDE DEF g, k0
  <2>8. /\ k.ends["failed"] = "asked"
        /\ \A s \in EndStates : s # "failed" => k.ends[s] = g.ends[s]
        /\ k.at = g.at /\ k.early = g.early /\ k.goodbye = g.goodbye /\ Asked(k)
        /\ k.bridge = g.bridge /\ k.live = g.live /\ k.limit = g.limit /\ k.hears = g.hears
    BY <2>6, EndedRest, EndStatesAre
  <2> HIDE DEF k
  <2>9. CallCloses(k, rows[c])
    BY <1>1, <2>2, <2>3, <2>7, <2>8 DEF CallCloses, Closing, Ending, Asked
  <2> QED
    BY <2>3, <2>9, CloseStays
<1> QED
  BY <1>2, <1>3, <1>4, <1>5, <1>6, <1>7, <1>8, <1>9 DEF CallHandler

\* The end of the dialog, the goodbye, the tool and the take-over.
LEMMA AsksClose ==
    ASSUME CallsInv, CallsClose, NEW c \in Calls,
           CallerHangsUp(c) \/ SayGoodbye(c) \/ AskTransfer(c) \/ TakeOver(c)
    PROVE  CallsClose'
<1> DEFINE k0 == call[c]
<1>1. k0 \in Held /\ CallOK(k0, rows[c]) /\ CallCloses(k0, rows[c])
  BY DEF CallsInv, CallsClose
<1>2. CASE CallerHangsUp(c)
  <2> DEFINE k == [k0 EXCEPT !.dialog = "ended"]
             h == Heard(k)
  <2>1. k \in Held
    BY <1>1, HeldSet
  <2>2. SameRest(k0, k)
    BY <1>1 DEF Held, SameRest
  <2>3. Becomes(c, h) /\ rows' = rows
    BY <1>2 DEF CallerHangsUp
  <2> HIDE DEF k0, k
  <2>4. CallCloses(k, rows[c])
    BY <1>1, <2>2, SameRestCloses
  <2>5. CASE ~k.hears
    <3>1. h = k
      BY <2>1, <2>5, HeardRest
    <3> QED
      BY <2>3, <2>4, <3>1, CloseStays
  <2>6. CASE k.hears
    <3>1. /\ h.at = k.at /\ h.early = k.early /\ h.live = k.live /\ h.hears = k.hears /\ Asked(h)
          /\ h.goodbye \in {k.goodbye, "over"} /\ h.bridge \in {k.bridge, ShutBridge(k.bridge)}
          /\ \A st \in EndStates : h.ends[st] = k.ends[st] \/ h.ends[st] = "asked"
      BY <2>1, <2>6, HeardRest
    <3> HIDE DEF h
    <3>2. Connected(k)
      BY <2>1, <2>4, <2>6, HasConnected
    <3>3. CallCloses(h, rows[c])
      BY <2>4, <3>1, <3>2, AskedCloses DEF Connected
    <3> QED
      BY <2>3, <3>3, CloseStays
  <2> QED
    BY <2>5, <2>6
<1>3. CASE SayGoodbye(c)
  <2> DEFINE k == [k0 EXCEPT !.goodbye = "set"]
  <2>1. /\ k.at = k0.at /\ k.bridge = k0.bridge /\ k.live = k0.live /\ k.limit = k0.limit
        /\ k.hears = k0.hears /\ k.ends = k0.ends /\ k.early = k0.early
    BY <1>1 DEF Held
  <2>2. Becomes(c, k) /\ rows' = rows /\ k0.at = "up"
    BY <1>3 DEF SayGoodbye, At
  <2> HIDE DEF k0, k
  <2>3. CallCloses(k, rows[c])
    BY <1>1, <2>1, <2>2 DEF CallCloses, Closing, Asked, Ending
  <2> QED
    BY <2>2, <2>3, CloseStays
<1>4. CASE AskTransfer(c)
  <2> DEFINE k == [k0 EXCEPT !.wanted = TRUE, !.refer = "tool"]
  <2>1. SameRest(k0, k)
    BY <1>1 DEF Held, SameRest
  <2>2. Becomes(c, k) /\ rows' = rows
    BY <1>4 DEF AskTransfer
  <2> HIDE DEF k0, k
  <2> QED
    BY <1>1, <2>1, <2>2, SameRestCloses, CloseStays
<1>5. CASE TakeOver(c)
  <2> DEFINE e == k0.early \/ ~At(c, {"up"})
             k == [k0 EXCEPT !.wanted = TRUE, !.refer = "desk", !.early = e]
  <2>1. Becomes(c, k) /\ rows' = rows
    BY <1>5 DEF TakeOver
  <2>2. ~e => ~k0.early
    OBVIOUS
  <2> HIDE DEF e
  <2>3. /\ k.at = k0.at /\ k.bridge = k0.bridge /\ k.live = k0.live /\ k.limit = k0.limit
        /\ k.hears = k0.hears /\ k.ends = k0.ends /\ k.early = e /\ k.goodbye = k0.goodbye
    BY <1>1 DEF Held
  <2> HIDE DEF k0, k
  <2>4. CallCloses(k, rows[c])
    BY <1>1, <2>2, <2>3 DEF CallCloses, Closing, Asked, Ending
  <2> QED
    BY <2>1, <2>4, CloseStays
<1> QED
  BY <1>2, <1>3, <1>4, <1>5

\* The limit and the goodbye hang up.
LEMMA HungUpCloses ==
    ASSUME NEW k0 \in Held, NEW k \in Held, NEW row, CallCloses(k0, row), Connected(k0),
           NEW loud \in BOOLEAN,
           k.at = k0.at /\ k.bridge = k0.bridge /\ k.live = k0.live /\ k.hears = k0.hears
             /\ k.ends = k0.ends /\ k.early = k0.early,
           k.goodbye \in {k0.goodbye, "over"}
    PROVE  CallCloses(HungUp(k, loud), row)
<1> DEFINE h == HungUp(k, loud)
<1>1. h = HungUp(k, loud)
  OBVIOUS
<1> HIDE DEF h
<1>2. /\ Asked(h) /\ h.at = k.at /\ h.early = k.early /\ h.live = k.live /\ h.hears = k.hears
      /\ h.goodbye \in {k.goodbye, "over"} /\ h.bridge \in {k.bridge, ShutBridge(k.bridge)}
      /\ \A st \in EndStates : h.ends[st] = k.ends[st] \/ h.ends[st] = "asked"
  BY <1>1, HungUpRest
<1>3. CallCloses(h, row)
  BY <1>2, AskedCloses DEF Connected
<1> QED
  BY <1>1, <1>3

\* The limit, the goodbye, the socket and the end over HTTP.
LEMMA CutsClose ==
    ASSUME CallsInv, CallsClose, NEW c \in Calls,
           LimitFires(c) \/ GoodbyeFires(c) \/ SocketCloses(c) \/ EndFromOutside(c)
    PROVE  CallsClose'
<1> DEFINE k0 == call[c]
<1>1. k0 \in Held /\ CallCloses(k0, rows[c])
  BY DEF CallsInv, CallsClose
<1>2. CASE LimitFires(c)
  <2> DEFINE k == [k0 EXCEPT !.limit = FALSE]
  <2>1. k \in Held
    BY <1>1, HeldSet
  <2>2. /\ k.at = k0.at /\ k.bridge = k0.bridge /\ k.live = k0.live /\ k.hears = k0.hears
        /\ k.ends = k0.ends /\ k.early = k0.early /\ k.goodbye = k0.goodbye
    BY <1>1 DEF Held
  <2>3. PICK loud \in BOOLEAN : Becomes(c, HungUp(k, loud))
    BY <1>2 DEF LimitFires
  <2>4. rows' = rows /\ k0.limit
    BY <1>2 DEF LimitFires
  <2> HIDE DEF k0, k
  <2>5. Connected(k0)
    BY <1>1, <2>4, HasConnected
  <2>6. CallCloses(HungUp(k, loud), rows[c])
    BY <1>1, <2>1, <2>2, <2>5, HungUpCloses
  <2> QED
    BY <2>3, <2>4, <2>6, CloseStays
<1>3. CASE GoodbyeFires(c)
  <2> DEFINE k == [k0 EXCEPT !.goodbye = "over"]
  <2>1. k \in Held
    BY <1>1, HeldSet
  <2>2. /\ k.at = k0.at /\ k.bridge = k0.bridge /\ k.live = k0.live /\ k.hears = k0.hears
        /\ k.ends = k0.ends /\ k.early = k0.early /\ k.goodbye = "over"
    BY <1>1 DEF Held
  <2>3. PICK loud \in BOOLEAN : Becomes(c, HungUp(k, loud))
    BY <1>3 DEF GoodbyeFires
  <2>4. rows' = rows /\ k0.goodbye = "set"
    BY <1>3 DEF GoodbyeFires
  <2> HIDE DEF k0, k
  <2>5. Connected(k0)
    BY <1>1, <2>4, HasConnected
  <2>6. CallCloses(HungUp(k, loud), rows[c])
    BY <1>1, <2>1, <2>2, <2>5, HungUpCloses
  <2> QED
    BY <2>3, <2>4, <2>6, CloseStays
<1>4. CASE SocketCloses(c)
  <2> DEFINE x == k0.cut \/ ~k0.wanted
             k == [k0 EXCEPT !.bridge = "closed", !.cut = x]
             st == Outcome(k0)
             h == Ended(k, st)
  <2>1. [k0 EXCEPT !.bridge = "closed"] \in Held
    BY <1>1, HeldSet
  <2>2. x \in BOOLEAN
    BY <1>1 DEF Held
  <2>3. Becomes(c, h) /\ rows' = rows /\ k0.bridge \in {"open", "leaked"}
    BY <1>4 DEF SocketCloses
  <2> HIDE DEF x
  <2>4. k \in Held
    BY <2>1, <2>2, HeldSet
  <2>5. /\ k.at = k0.at /\ k.bridge = "closed" /\ k.live = k0.live /\ k.hears = k0.hears
        /\ k.ends = k0.ends /\ k.early = k0.early /\ k.goodbye = k0.goodbye
    BY <1>1 DEF Held
  <2>6. st \in EndStates
    BY EndStatesAre DEF Outcome
  <2> HIDE DEF k0, k, st
  <2>7. /\ h.ends[st] = "asked" /\ Asked(h)
        /\ \A s \in EndStates : s # st => h.ends[s] = k.ends[s]
        /\ h.at = k.at /\ h.early = k.early /\ h.bridge = k.bridge /\ h.live = k.live
        /\ h.hears = k.hears /\ h.goodbye = k.goodbye
    BY <2>4, <2>6, EndedRest
  <2> HIDE DEF h
  <2>8. Connected(k0)
    BY <1>1, <2>3, HasConnected
  <2>9. h.bridge = ShutBridge(k0.bridge)
    BY <2>3, <2>5, <2>7 DEF ShutBridge
  <2>10. CallCloses(h, rows[c])
    BY <1>1, <2>5, <2>6, <2>7, <2>8, <2>9, AskedCloses DEF Connected
  <2> QED
    BY <2>3, <2>10, CloseStays
<1>5. CASE EndFromOutside(c)
  <2> DEFINE k == [k0 EXCEPT !.cut = TRUE]
  <2>1. SameRest(k0, k)
    BY <1>1 DEF Held, SameRest
  <2>2. PICK st \in EndStates : rows' = [rows EXCEPT ![c] = st]
    BY <1>5 DEF EndFromOutside
  <2>3. Becomes(c, k) /\ rows[c] # "none"
    BY <1>5 DEF EndFromOutside
  <2>4. st \notin OpenRow
    BY DEF EndStates, OpenRow
  <2> HIDE DEF k0, k
  <2>5. CallCloses(k0, st)
    BY <1>1, <2>3, <2>4 DEF CallCloses, Closing
  <2>6. CallCloses(k, st)
    BY <2>1, <2>5, SameRestCloses
  <2> QED
    BY <2>2, <2>3, <2>6, CloseStep
<1> QED
  BY <1>2, <1>3, <1>4, <1>5

\* The REFER is answered; it was sent from a call that is up, or too early.
LEMMA ReferCloses ==
    ASSUME CallsInv, CallsClose, NEW c \in Calls, ReferAnswered(c)
    PROVE  CallsClose'
<1> DEFINE k0 == call[c]
<1>1. k0 \in Held /\ CallOK(k0, rows[c]) /\ CallCloses(k0, rows[c])
  BY DEF CallsInv, CallsClose
<1>2. rows' = rows /\ k0.refer # "none"
  BY DEF ReferAnswered
<1>3. PICK ok \in {x \in BOOLEAN : x => k0.dialog = "up"} :
        LET k == [k0 EXCEPT !.refer = "none", !.referred = @ \/ ok]
        IN Becomes(c, IF ok \/ k0.refer = "desk" THEN Ended(k, "transferred") ELSE k)
  BY DEF ReferAnswered
<1> DEFINE r == k0.referred \/ ok
           k == [k0 EXCEPT !.refer = "none", !.referred = r]
           h == Ended(k, "transferred")
<1>4. Becomes(c, IF ok \/ k0.refer = "desk" THEN h ELSE k)
  BY <1>3
<1>5. r \in BOOLEAN
  OBVIOUS
<1> HIDE DEF r
<1>6. [k0 EXCEPT !.refer = "none"] \in Held
  BY <1>1, HeldSet
<1>7. k \in Held
  BY <1>5, <1>6, HeldSet
<1>8. SameRest(k0, k)
  BY <1>1 DEF Held, SameRest
<1>9. k0.at = "up" \/ k0.early
  BY <1>1, <1>2 DEF CallOK
<1> HIDE DEF k0, k
<1>10. CallCloses(k, rows[c])
  BY <1>1, <1>8, SameRestCloses
<1>11. /\ h.ends["transferred"] = "asked" /\ Asked(h)
       /\ \A s \in EndStates : s # "transferred" => h.ends[s] = k.ends[s]
       /\ h.at = k.at /\ h.early = k.early /\ h.bridge = k.bridge /\ h.live = k.live
       /\ h.hears = k.hears /\ h.goodbye = k.goodbye
  BY <1>7, EndedRest, EndStatesAre
<1> HIDE DEF h
<1>12. Connected(k)
  BY <1>8, <1>9 DEF SameRest, Connected
<1>13. CallCloses(h, rows[c])
  BY <1>10, <1>11, <1>12, AskedCloses DEF Connected
<1> QED
  BY <1>2, <1>4, <1>10, <1>13, CloseStays

\* An end closes the row first, and the socket with the session afterwards.
LEMMA WritesClose ==
    ASSUME CallsInv, CallsClose, NEW c \in Calls, NEW st \in EndStates, CallEnd(c, st)
    PROVE  CallsClose'
<1> DEFINE k0 == call[c]
<1>1. k0 \in Held /\ CallCloses(k0, rows[c])
  BY DEF CallsInv, CallsClose
<1>2. k0.ends[st] # "no"
  BY DEF CallEnd, EndWrite, EndRemove
<1>3. Connected(k0)
  BY <1>1, <1>2, HasConnected DEF Ending
<1>4. CASE EndWrite(c, st)
  <2> DEFINE k == [k0 EXCEPT !.ends[st] = "written"]
  <2>1. Becomes(c, k) /\ rows' = [rows EXCEPT ![c] = st]
    BY <1>4 DEF EndWrite
  <2>2. k = [k0 EXCEPT !.ends[st] = "written"]
    OBVIOUS
  <2> HIDE DEF k, k0
  <2>3. k.ends[st] = "written" /\ k.at = k0.at /\ k.early = k0.early
    BY <1>1, <2>2, EndSet
  <2>4. /\ k.bridge = k0.bridge /\ k.live = k0.live /\ k.hears = k0.hears
        /\ k.goodbye = k0.goodbye
    BY <1>1, <2>2, EndSetMore
  <2>5. st \notin OpenRow
    BY DEF EndStates, OpenRow
  <2>6. Ending(k)
    BY <2>3 DEF Ending
  <2>7. ASSUME ~k.early, k.at # "dead" PROVE CallCloses(k, st)
    <3>1. k0.at \in {"connect", "up", "gone"} /\ Closing(k0, rows[c])
      BY <1>1, <1>3, <2>3, <2>7 DEF Connected, CallCloses
    <3>2. Closing(k, st)
      BY <2>4, <2>5, <2>6, <3>1 DEF Closing
    <3> HIDE DEF Closing, Ending
    <3>3. k0.at \in {"up", "gone"} => k0.bridge \notin {"connecting", "shut"}
      BY <1>1, <2>3, <2>7 DEF CallCloses
    <3>4. k0.hears \/ k0.goodbye = "set" => k0.at = "up"
      BY <1>1, <2>3, <2>7 DEF CallCloses
    <3> QED
      BY <2>3, <2>4, <2>5, <3>1, <3>2, <3>3, <3>4 DEF CallCloses
  <2>8. CallCloses(k, st)
    BY <2>7 DEF CallCloses
  <2> QED
    BY <2>1, <2>8, CloseStep
<1>5. CASE EndRemove(c, st)
  <2> DEFINE k == [k0 EXCEPT !.ends[st] = "no"]
             g == Removed(k)
  <2>1. Becomes(c, g) /\ rows' = rows /\ k0.ends[st] = "written"
    BY <1>5 DEF EndRemove
  <2>2. k = [k0 EXCEPT !.ends[st] = "no"]
    OBVIOUS
  <2> HIDE DEF k, k0
  <2>3. /\ k \in Held /\ k.ends[st] = "no"
        /\ \A s \in EndStates : s # st => k.ends[s] = k0.ends[s]
        /\ k.at = k0.at /\ k.early = k0.early
    BY <1>1, <2>2, EndSet
  <2>4. /\ k.bridge = k0.bridge /\ k.live = k0.live /\ k.hears = k0.hears
        /\ k.goodbye = k0.goodbye
    BY <1>1, <2>2, EndSetMore
  <2>5. /\ ~g.live /\ g.at = k0.at /\ g.early = k0.early /\ g.hears = k0.hears
        /\ g.goodbye = k0.goodbye
        /\ g.bridge = IF k0.live THEN ShutBridge(k0.bridge) ELSE k0.bridge
        /\ \A s \in EndStates : g.ends[s] = k0.ends[s] \/ g.ends[s] = "no"
    BY <2>3, <2>4, RemovedRest
  <2> HIDE DEF g
  <2>6. ASSUME ~g.early, g.at # "dead" PROVE CallCloses(g, rows[c])
    <3>1. /\ k0.at \in {"connect", "up", "gone"} /\ Closing(k0, rows[c])
          /\ rows[c] \notin OpenRow
      BY <1>1, <1>3, <2>1, <2>5, <2>6 DEF Connected, CallCloses
    <3>2. g.bridge \in {"none", "shut", "leaked", "closed"}
      BY <2>5, <3>1 DEF Closing, ShutBridge
    <3>3. Closing(g, rows[c])
      BY <2>5, <3>1, <3>2 DEF Closing
    <3>4. k0.at \in {"up", "gone"} => k0.bridge \notin {"connecting", "shut"}
      BY <1>1, <2>5, <2>6 DEF CallCloses
    <3>5. g.at \in {"up", "gone"} => g.bridge \notin {"connecting", "shut"}
      BY <2>5, <3>4 DEF ShutBridge
    <3>6. g.hears \/ g.goodbye = "set" => g.at = "up"
      BY <1>1, <2>5, <2>6 DEF CallCloses
    <3> HIDE DEF Closing
    <3> QED
      BY <2>5, <3>1, <3>3, <3>5, <3>6 DEF CallCloses
  <2>7. CallCloses(g, rows[c])
    BY <2>6 DEF CallCloses
  <2> QED
    BY <2>1, <2>7, CloseStays
<1> QED
  BY <1>4, <1>5 DEF CallEnd

LEMMA GoneCloses ==
    ASSUME CallsInv, CallsClose, GatewayGone
    PROVE  CallsClose'
<1> DEFINE dead == [NoCall EXCEPT !.at = "dead", !.dialog = "ended"]
<1>1. dead.at = "dead"
  BY NoCallHeld DEF Held
<1>2. /\ call' = [c \in Calls |-> IF call[c].at = "away" THEN NoCall ELSE dead]
      /\ rows' = rows
  BY DEF GatewayGone
<1> HIDE DEF dead
<1>3. ASSUME NEW c \in Calls PROVE CallCloses(call'[c], rows'[c])
  <2>1. CASE call[c].at = "away"
    <3>1. call'[c] = call[c] /\ rows'[c] = rows[c]
      BY <1>2, <2>1 DEF CallsInv, CallOK
    <3> QED
      BY <3>1 DEF CallsClose
  <2>2. CASE call[c].at # "away"
    BY <1>1, <1>2, <2>2 DEF CallCloses
  <2> QED
    BY <2>1, <2>2
<1> QED
  BY <1>3 DEF CallsClose, CallCloses

LEMMA CloseNext == CallsInv /\ CallsClose /\ [CallNext]_vvars => CallsClose'
<1> SUFFICES ASSUME CallsInv, CallsClose, [CallNext]_vvars PROVE CallsClose'
  OBVIOUS
<1>1. CASE UNCHANGED vvars
  BY <1>1 DEF vvars, CallsClose, CallCloses
<1>2. CASE GatewayGone
  BY <1>2, GoneCloses
<1>3. ASSUME NEW c \in Calls,
             \/ CallHandler(c) \/ Invite(c) \/ StartFails(c) \/ ConnectFails(c)
             \/ CallerHangsUp(c) \/ LimitFires(c) \/ SayGoodbye(c)
             \/ GoodbyeFires(c) \/ SocketCloses(c) \/ AskTransfer(c)
             \/ TakeOver(c) \/ ReferAnswered(c) \/ EndFromOutside(c)
             \/ \E st \in EndStates : CallEnd(c, st)
      PROVE  CallsClose'
  BY <1>3, HandlerCloses, AsksClose, CutsClose, ReferCloses, WritesClose
<1> QED
  BY <1>1, <1>2, <1>3 DEF CallNext

\* What CallsAreClosed needs of every state: a call for which nothing is left to do
\* that the gateway will do of itself - no step of handleInboundInvite, no limit, no
\* answer to a REFER, no end of sessions.endCall - has its row closed and its socket
\* with it, but for a socket closed while it was being opened, which opens all the
\* same; unless the gateway died or a take-over came while the handler was still at
\* work.
THEOREM CallsAtRestAreClosed == CallSpec => []ClosedAtRest
<1>1. CallsInv /\ CallsClose => ClosedAtRest
  <2> SUFFICES ASSUME CallsInv, CallsClose, NEW c \in Calls, CallAtRest(c)
               PROVE  CallClosed(c) \/ At(c, {"dead"}) \/ call[c].early
    BY DEF ClosedAtRest
  <2>1. call[c] \in Held /\ CallCloses(call[c], rows[c])
    BY DEF CallsInv, CallsClose
  <2>2. call[c].at \in {"away", "start", "accept", "mark", "connect", "up", "gone", "dead"}
    BY <2>1 DEF Held
  <2>3. /\ call[c].at \in {"connect", "up", "gone", "dead"} /\ ~call[c].limit
        /\ call[c].bridge \notin {"connecting", "shut"}
        /\ call[c].at = "connect" => call[c].bridge \notin {"open", "closed", "leaked"}
    BY <2>2 DEF CallAtRest, At
  <2>4. ~Asked(call[c]) /\ ~Ending(call[c])
    BY DEF CallAtRest, Asked, Ending
  <2>5. CASE call[c].at # "dead" /\ ~call[c].early
    <3>1. Closing(call[c], rows[c])
      BY <2>1, <2>3, <2>5 DEF CallCloses
    <3> HIDE DEF Asked, Ending
    <3>2. rows[c] \notin OpenRow /\ call[c].bridge \in {"none", "shut", "leaked", "closed"}
      BY <2>3, <2>4, <3>1 DEF Closing
    <3> QED
      BY <2>3, <3>2 DEF CallClosed
  <2> QED
    BY <2>5 DEF At
<1> QED
  BY CallsStart, CallsNext, CloseStart, CloseNext, <1>1, PTL DEF CallSpec

-----------------------------------------------------------------------------
(* The converters of sound.                                                *)

\* A set of naturals has a least one.
LEMMA Least ==
    ASSUME NEW T, T \subseteq Nat, T # {}
    PROVE  \E x \in T : \A y \in T : x <= y
<1>1. \E x \in T : \A y \in T : ~ (<<y, x>> \in OpToRel(<, Nat))
  BY NatLessThanWellFounded, WFMin, Zenon
<1>2. \A x, y \in T : x <= y \/ <<y, x>> \in OpToRel(<, Nat)
  BY DEF OpToRel
<1> QED BY <1>1, <1>2

\* What the decimator is after the first m samples of the stream.
Decimates(d, m) ==
    /\ d = [delay |-> d.delay, write |-> d.write, phase |-> d.phase, out |-> d.out]
    /\ d.delay \in [0..(Taps - 1) -> Nat] /\ d.write \in 0..(Taps - 1)
    /\ \A t \in 1..Taps : d.delay[(d.write - t) % Taps] = SampleAt(m + 1 - t)
    /\ d.phase = m % 3
    /\ d.out = [k \in 1..((m + 2) \div 3) |-> [t \in 1..Taps |-> SampleAt(3 * k - 1 - t)]]

LEMMA Around ==
    ASSUME NEW w \in 0..(Taps - 1), NEW t \in 1..Taps
    PROVE  /\ Taps \in Nat /\ Taps >= 1
           /\ (w + 1) % Taps \in 0..(Taps - 1)
           /\ (w - t) % Taps \in 0..(Taps - 1)
           /\ (((w + 1) % Taps) - t) % Taps = (IF t = 1 THEN w ELSE (w - (t - 1)) % Taps)
           /\ t > 1 => (w - (t - 1)) % Taps # w
<1>1. Taps \in Nat /\ Taps >= 1
  BY AudioAssumption
<1>2. (w + 1) % Taps = IF w + 1 = Taps THEN 0 ELSE w + 1
  BY <1>1
<1>3. (w - t) % Taps = IF t <= w THEN w - t ELSE w - t + Taps
  BY <1>1
<1>4. t > 1 => (w - (t - 1)) % Taps = IF t - 1 <= w THEN w - (t - 1) ELSE w - (t - 1) + Taps
  BY <1>1
<1>5. (((w + 1) % Taps) - t) % Taps = IF t <= (w + 1) % Taps THEN ((w + 1) % Taps) - t
                                      ELSE ((w + 1) % Taps) - t + Taps
  <2> DEFINE v == (w + 1) % Taps
  <2>1. v \in 0..(Taps - 1)
    BY <1>1, <1>2
  <2> HIDE DEF v
  <2>2. (v - t) % Taps = IF t <= v THEN v - t ELSE v - t + Taps
    BY <1>1, <2>1
  <2> QED BY <2>2 DEF v
<1>6. (w + 1) % Taps \in 0..(Taps - 1) /\ (w - t) % Taps \in 0..(Taps - 1)
  BY <1>1, <1>2, <1>3
<1>7. t > 1 => (w - (t - 1)) % Taps # w
  BY <1>1, <1>4
<1>8. (((w + 1) % Taps) - t) % Taps = (IF t = 1 THEN w ELSE (w - (t - 1)) % Taps)
  <2>1. CASE w + 1 = Taps
    BY <1>1, <1>2, <1>4, <1>5, <2>1
  <2>2. CASE w + 1 # Taps
    BY <1>1, <1>2, <1>4, <1>5, <2>2
  <2> QED BY <2>1, <2>2
<1> QED BY <1>1, <1>6, <1>7, <1>8

LEMMA Thirds ==
    ASSUME NEW m \in Nat
    PROVE  /\ ((m % 3) + 1) % 3 = (m + 1) % 3
           /\ (m + 2) \div 3 \in Nat /\ (m + 3) \div 3 \in Nat
           /\ m % 3 = 0 => (m + 3) \div 3 = (m + 2) \div 3 + 1 /\ 3 * ((m + 3) \div 3) = m + 3
           /\ m % 3 # 0 => (m + 3) \div 3 = (m + 2) \div 3
OBVIOUS

LEMMA OneSampleDown ==
    ASSUME NEW m \in Nat, NEW d, Decimates(d, m)
    PROVE  Decimates(Decimated(d, m + 1), m + 1)
<1> DEFINE delay == [d.delay EXCEPT ![d.write] = m + 1]
           next == (d.write + 1) % Taps
           e == Decimated(d, m + 1)
<1>t. /\ d.delay \in [0..(Taps - 1) -> Nat] /\ d.write \in 0..(Taps - 1)
      /\ Taps \in Nat /\ Taps >= 1
      /\ \A t \in 1..Taps : d.delay[(d.write - t) % Taps] = SampleAt(m + 1 - t)
      /\ d.phase = m % 3
      /\ d.out = [k \in 1..((m + 2) \div 3) |-> [t \in 1..Taps |-> SampleAt(3 * k - 1 - t)]]
  BY AudioAssumption DEF Decimates
<1>1. /\ e.delay = delay /\ e.write = next /\ e.phase = (d.phase + 1) % 3
      /\ e.out = IF d.phase = 0 THEN Append(d.out, Weighed(delay, next)) ELSE d.out
      /\ e = [delay |-> e.delay, write |-> e.write, phase |-> e.phase, out |-> e.out]
  BY DEF Decimated
<1> HIDE DEF e
<1>2. /\ delay \in [0..(Taps - 1) -> Nat] /\ delay[d.write] = m + 1
      /\ \A i \in 0..(Taps - 1) : i # d.write => delay[i] = d.delay[i]
  <2>1. ASSUME NEW S, NEW V, NEW f \in [S -> V], NEW w \in S, NEW v \in V
        PROVE  /\ [f EXCEPT ![w] = v] \in [S -> V] /\ [f EXCEPT ![w] = v][w] = v
               /\ \A i \in S : i # w => [f EXCEPT ![w] = v][i] = f[i]
    OBVIOUS
  <2>2. m + 1 \in Nat
    OBVIOUS
  <2> QED BY <1>t, <2>1, <2>2
<1> HIDE DEF delay
<1>3. next \in 0..(Taps - 1)
  <2>1. 1 \in 1..Taps
    BY <1>t
  <2> QED BY <1>t, <2>1, Around
<1>4. \A t \in 1..Taps : delay[(next - t) % Taps] = SampleAt((m + 1) + 1 - t)
  <2> SUFFICES ASSUME NEW t \in 1..Taps
               PROVE  delay[(next - t) % Taps] = SampleAt((m + 1) + 1 - t)
    OBVIOUS
  <2>1. CASE t = 1
    <3>1. (next - t) % Taps = d.write
      BY <1>t, <2>1, Around
    <3>2. SampleAt((m + 1) + 1 - t) = m + 1
      <4>1. (m + 1) + 1 - t = m + 1 /\ m + 1 > 0
        BY <2>1
      <4> QED BY <4>1 DEF SampleAt
    <3> QED BY <1>2, <3>1, <3>2
  <2>2. CASE t # 1
    <3>1. t - 1 \in 1..Taps /\ (m + 1) + 1 - t = m + 1 - (t - 1) /\ t > 1
      <4>1. Taps \in Nat /\ t \in Nat /\ t >= 1 /\ t <= Taps
        BY AudioAssumption
      <4> QED BY <2>2, <4>1
    <3>2. (next - t) % Taps = (d.write - (t - 1)) % Taps /\ (d.write - (t - 1)) % Taps # d.write
          /\ (d.write - (t - 1)) % Taps \in 0..(Taps - 1)
      <4>1. d.write \in 0..(Taps - 1)
        BY <1>t
      <4>2. /\ (next - t) % Taps = (IF t = 1 THEN d.write ELSE (d.write - (t - 1)) % Taps)
            /\ t > 1 => (d.write - (t - 1)) % Taps # d.write
        BY <4>1, Around
      <4>3. (d.write - (t - 1)) % Taps \in 0..(Taps - 1)
        BY <3>1, <4>1, Around
      <4> QED BY <2>2, <3>1, <4>2, <4>3
    <3>3. d.delay[(d.write - (t - 1)) % Taps] = SampleAt(m + 1 - (t - 1))
      BY <1>t, <3>1
    <3> QED BY <1>2, <3>1, <3>2, <3>3
  <2> QED BY <2>1, <2>2
<1>5. (d.phase + 1) % 3 = (m + 1) % 3
  BY <1>t, Thirds
<1>6. e.out = [k \in 1..((m + 1 + 2) \div 3) |-> [t \in 1..Taps |-> SampleAt(3 * k - 1 - t)]]
  <2> DEFINE n == (m + 2) \div 3
             Out(k) == [t \in 1..Taps |-> SampleAt(3 * k - 1 - t)]
  <2>1. n \in Nat /\ d.out = [k \in 1..n |-> Out(k)]
    BY <1>t, Thirds
  <2>2. CASE m % 3 # 0
    <3>1. (m + 1 + 2) \div 3 = n
      BY <2>2, Thirds
    <3>2. e.out = d.out
      BY <1>t, <1>1, <2>2
    <3> QED BY <2>1, <3>1, <3>2
  <2>3. CASE m % 3 = 0
    <3>1. (m + 1 + 2) \div 3 = n + 1 /\ 3 * (n + 1) = m + 3
      BY <2>3, Thirds
    <3>2. e.out = Append(d.out, Weighed(delay, next))
      BY <1>t, <1>1, <2>3
    <3>3. Weighed(delay, next) = Out(n + 1)
      <4>1. \A t \in 1..Taps : (m + 1) + 1 - t = 3 * (n + 1) - 1 - t
        BY <3>1, <1>t
      <4>2. \A t \in 1..Taps : delay[(next - t) % Taps] = SampleAt(3 * (n + 1) - 1 - t)
        BY <1>4, <4>1
      <4> HIDE DEF n, next
      <4> QED BY <4>2 DEF Weighed
    <3> HIDE DEF n, Out
    <3>4. Append([k \in 1..n |-> Out(k)], Out(n + 1)) = [k \in 1..(n + 1) |-> Out(k)]
      BY <2>1
    <3> QED BY <2>1, <3>1, <3>2, <3>3, <3>4 DEF Out
  <2> QED BY <2>2, <2>3
<1> QED
  BY <1>1, <1>2, <1>3, <1>4, <1>5, <1>6 DEF Decimates, e

\* The states of a filter over a delta: the first is the one before, each next one
\* comes of one more sample.
LEMMA DownRuns ==
    ASSUME NEW delta, Len(delta) \in Nat
    PROVE  \E after : /\ after = [i \in 0..Len(delta) |->
                                    IF i = 0 THEN down ELSE Decimated(after[i - 1], delta[i])]
                      /\ Down(delta) = after[Len(delta)]
<1> DEFINE Runs(n, f) == f = [i \in 0..n |-> IF i = 0 THEN down ELSE Decimated(f[i - 1], delta[i])]
           None == {n \in Nat : \A f : ~Runs(n, f)}
<1>1. None = {}
  <2> SUFFICES ASSUME None # {} PROVE FALSE
    OBVIOUS
  <2>1. None \subseteq Nat
    OBVIOUS
  <2> HIDE DEF None
  <2>2. PICK n \in None : \A k \in None : n <= k
    BY <2>1, Least
  <2>3. n \in Nat /\ \A f : ~Runs(n, f)
    BY <2>2 DEF None
  <2>4. CASE n = 0
    <3>1. Runs(0, [i \in 0..0 |-> down])
      OBVIOUS
    <3> QED BY <2>3, <2>4, <3>1
  <2>5. CASE n # 0
    <3>1. n - 1 \in Nat /\ n - 1 \notin None
      BY <2>2, <2>3, <2>5
    <3>2. PICK f : Runs(n - 1, f)
      BY <3>1 DEF None
    <3> DEFINE g == [i \in 0..n |-> IF i < n THEN f[i] ELSE Decimated(f[n - 1], delta[n])]
    <3>3. \A i \in 0..n : g[i] = IF i = 0 THEN down ELSE Decimated(g[i - 1], delta[i])
      <4> SUFFICES ASSUME NEW i \in 0..n
                   PROVE  g[i] = IF i = 0 THEN down ELSE Decimated(g[i - 1], delta[i])
        OBVIOUS
      <4>1. CASE i = n
        <5>1. g[i] = Decimated(f[n - 1], delta[n]) /\ g[i - 1] = f[n - 1] /\ i # 0
          BY <2>3, <2>5, <3>1, <4>1
        <5> QED BY <4>1, <5>1
      <4>2. CASE i # n
        <5>1. i \in 0..(n - 1) /\ g[i] = f[i] /\ (i # 0 => g[i - 1] = f[i - 1])
          BY <2>3, <3>1, <4>2
        <5>2. f[i] = IF i = 0 THEN down ELSE Decimated(f[i - 1], delta[i])
          BY <3>2, <5>1
        <5> QED BY <5>1, <5>2
      <4> QED BY <4>1, <4>2
    <3>4. Runs(n, g)
      BY <3>3
    <3> QED BY <2>3, <3>4
  <2> QED BY <2>4, <2>5
<1>2. \E f : Runs(Len(delta), f)
  BY <1>1
<1> DEFINE after[i \in 0..Len(delta)] == IF i = 0 THEN down ELSE Decimated(after[i - 1], delta[i])
<1>3. after = CHOOSE f : Runs(Len(delta), f)
  BY DEF after
<1>4. Runs(Len(delta), after)
  BY <1>2, <1>3
<1>5. Down(delta) = after[Len(delta)]
  BY DEF Down
<1> QED BY <1>4, <1>5

LEMMA UpRuns ==
    ASSUME NEW delta, Len(delta) \in Nat
    PROVE  \E after : /\ after = [i \in 0..Len(delta) |->
                                    IF i = 0 THEN up ELSE Upsampled(after[i - 1], delta[i])]
                      /\ Up(delta) = after[Len(delta)]
<1> DEFINE Runs(n, f) == f = [i \in 0..n |-> IF i = 0 THEN up ELSE Upsampled(f[i - 1], delta[i])]
           None == {n \in Nat : \A f : ~Runs(n, f)}
<1>1. None = {}
  <2> SUFFICES ASSUME None # {} PROVE FALSE
    OBVIOUS
  <2>1. None \subseteq Nat
    OBVIOUS
  <2> HIDE DEF None
  <2>2. PICK n \in None : \A k \in None : n <= k
    BY <2>1, Least
  <2>3. n \in Nat /\ \A f : ~Runs(n, f)
    BY <2>2 DEF None
  <2>4. CASE n = 0
    <3>1. Runs(0, [i \in 0..0 |-> up])
      OBVIOUS
    <3> QED BY <2>3, <2>4, <3>1
  <2>5. CASE n # 0
    <3>1. n - 1 \in Nat /\ n - 1 \notin None
      BY <2>2, <2>3, <2>5
    <3>2. PICK f : Runs(n - 1, f)
      BY <3>1 DEF None
    <3> DEFINE g == [i \in 0..n |-> IF i < n THEN f[i] ELSE Upsampled(f[n - 1], delta[n])]
    <3>3. \A i \in 0..n : g[i] = IF i = 0 THEN up ELSE Upsampled(g[i - 1], delta[i])
      <4> SUFFICES ASSUME NEW i \in 0..n
                   PROVE  g[i] = IF i = 0 THEN up ELSE Upsampled(g[i - 1], delta[i])
        OBVIOUS
      <4>1. CASE i = n
        <5>1. g[i] = Upsampled(f[n - 1], delta[n]) /\ g[i - 1] = f[n - 1] /\ i # 0
          BY <2>3, <2>5, <3>1, <4>1
        <5> QED BY <4>1, <5>1
      <4>2. CASE i # n
        <5>1. i \in 0..(n - 1) /\ g[i] = f[i] /\ (i # 0 => g[i - 1] = f[i - 1])
          BY <2>3, <3>1, <4>2
        <5>2. f[i] = IF i = 0 THEN up ELSE Upsampled(f[i - 1], delta[i])
          BY <3>2, <5>1
        <5> QED BY <5>1, <5>2
      <4> QED BY <4>1, <4>2
    <3>4. Runs(n, g)
      BY <3>3
    <3> QED BY <2>3, <3>4
  <2> QED BY <2>4, <2>5
<1>2. \E f : Runs(Len(delta), f)
  BY <1>1
<1> DEFINE after[i \in 0..Len(delta)] == IF i = 0 THEN up ELSE Upsampled(after[i - 1], delta[i])
<1>3. after = CHOOSE f : Runs(Len(delta), f)
  BY DEF after
<1>4. Runs(Len(delta), after)
  BY <1>2, <1>3
<1>5. Up(delta) = after[Len(delta)]
  BY DEF Up
<1> QED BY <1>4, <1>5

\* What the upsampler is after the first m samples of the stream.
Upsamples(u, m) ==
    /\ u = [hist |-> u.hist, out |-> u.out]
    /\ u.hist = <<SampleAt(m - 3), SampleAt(m - 2), SampleAt(m - 1), SampleAt(m)>>
    /\ u.out = [k \in 1..(3 * m) |->
                   LET i == (k + 2) \div 3 IN <<SampleAt(i - 2), SampleAt(i - 1), i, (k - 1) % 3>>]

LEMMA OneSampleUp ==
    ASSUME NEW m \in Nat, NEW u, Upsamples(u, m)
    PROVE  Upsamples(Upsampled(u, m + 1), m + 1)
<1> DEFINE Out(k) == LET i == (k + 2) \div 3 IN <<SampleAt(i - 2), SampleAt(i - 1), i, (k - 1) % 3>>
           e == Upsampled(u, m + 1)
           h == <<SampleAt(m - 2), SampleAt(m - 1), SampleAt(m), m + 1>>
           three == [third \in 1..3 |-> <<h[2], h[3], h[4], third - 1>>]
<1>1. u.hist = <<SampleAt(m - 3), SampleAt(m - 2), SampleAt(m - 1), SampleAt(m)>>
      /\ u.out = [k \in 1..(3 * m) |-> Out(k)]
  BY DEF Upsamples
<1>2. <<u.hist[2], u.hist[3], u.hist[4], m + 1>> = h
  BY <1>1
<1>3. e = [hist |-> h, out |-> u.out \o three]
  BY <1>2 DEF Upsampled
<1>4. h = <<SampleAt((m + 1) - 3), SampleAt((m + 1) - 2), SampleAt((m + 1) - 1), SampleAt(m + 1)>>
  <2>1. (m + 1) - 3 = m - 2 /\ (m + 1) - 2 = m - 1 /\ (m + 1) - 1 = m /\ m + 1 > 0
    OBVIOUS
  <2>2. SampleAt(m + 1) = m + 1
    BY <2>1 DEF SampleAt
  <2> QED BY <2>1, <2>2
<1>5. \A t \in 1..3 : three[t] = Out(3 * m + t)
  <2> SUFFICES ASSUME NEW t \in 1..3 PROVE three[t] = Out(3 * m + t)
    OBVIOUS
  <2>1. (3 * m + t + 2) \div 3 = m + 1 /\ (3 * m + t - 1) % 3 = t - 1 /\ m + 1 - 2 = m - 1 /\ m + 1 - 1 = m
    OBVIOUS
  <2>2. three[t] = <<SampleAt(m - 1), SampleAt(m), m + 1, t - 1>>
    OBVIOUS
  <2> QED BY <2>1, <2>2
<1> HIDE DEF Out, h, three
<1>6. u.out \o three = [k \in 1..(3 * (m + 1)) |-> Out(k)]
  <2>1. 3 * m \in Nat /\ 3 * (m + 1) = 3 * m + 3
    OBVIOUS
  <2> DEFINE p == 3 * m
  <2>2. u.out = [k \in 1..p |-> Out(k)] /\ three = [k \in 1..3 |-> three[k]]
    BY <1>1 DEF three
  <2>p. p \in Nat
    OBVIOUS
  <2> HIDE DEF p
  <2>3. [k \in 1..p |-> Out(k)] \o [k \in 1..3 |-> three[k]]
          = [k \in 1..(p + 3) |-> IF k <= p THEN Out(k) ELSE three[k - p]]
    BY <2>p
  <2>4. \A k \in 1..(p + 3) : (IF k <= p THEN Out(k) ELSE three[k - p]) = Out(k)
    <3> SUFFICES ASSUME NEW k \in 1..(p + 3), ~(k <= p)
                 PROVE  three[k - p] = Out(k)
      OBVIOUS
    <3>1. k - p \in 1..3 /\ p + (k - p) = k
      BY <2>p
    <3>2. three[k - p] = Out(p + (k - p))
      BY <1>5, <3>1 DEF p
    <3> QED BY <3>1, <3>2
  <2>5. u.out \o three = [k \in 1..(p + 3) |-> Out(k)]
    BY <2>2, <2>3, <2>4
  <2> QED BY <2>1, <2>5 DEF p
<1>7. e.out = [k \in 1..(3 * (m + 1)) |-> Out(k)] /\ e.hist = h /\ e = [hist |-> e.hist, out |-> e.out]
  BY <1>3, <1>6
<1> HIDE DEF e
<1> QED BY <1>4, <1>7 DEF Upsamples, Out, e

\* However long a delta is, it leaves the filter where its last sample leaves it.
LEMMA DeltaDown ==
    ASSUME NEW m \in Nat, NEW n \in Nat, Decimates(down, m)
    PROVE  Decimates(Down(Chunk(m, n)), m + n)
<1> DEFINE delta == Chunk(m, n)
<1>1. Len(delta) = n /\ \A i \in 1..n : delta[i] = m + i
  BY DEF Chunk
<1> HIDE DEF delta
<1>2. PICK after : /\ after = [i \in 0..n |-> IF i = 0 THEN down ELSE Decimated(after[i - 1], delta[i])]
                   /\ Down(delta) = after[n]
  BY <1>1, DownRuns
<1> DEFINE Wrong == {i \in 0..n : ~Decimates(after[i], m + i)}
<1>3. Wrong = {}
  <2> SUFFICES ASSUME Wrong # {} PROVE FALSE
    OBVIOUS
  <2>1. Wrong \subseteq Nat
    OBVIOUS
  <2> HIDE DEF Wrong
  <2>2. PICK i \in Wrong : \A k \in Wrong : i <= k
    BY <2>1, Least
  <2>3. i \in 0..n /\ ~Decimates(after[i], m + i)
    BY <2>2 DEF Wrong
  <2>4. i # 0
    BY <1>2, <2>3
  <2>5. i - 1 \in 0..n /\ i \in 1..n /\ m + (i - 1) \in Nat /\ (m + (i - 1)) + 1 = m + i /\ i - 1 \notin Wrong
    BY <2>2, <2>3, <2>4
  <2>6. Decimates(after[i - 1], m + (i - 1))
    BY <2>5 DEF Wrong
  <2>7. after[i] = Decimated(after[i - 1], (m + (i - 1)) + 1)
    BY <1>1, <1>2, <2>4, <2>5
  <2>8. Decimates(after[i], (m + (i - 1)) + 1)
    BY <2>5, <2>6, <2>7, OneSampleDown
  <2> QED BY <2>3, <2>5, <2>8
<1>4. Decimates(after[n], m + n)
  BY <1>3
<1> QED BY <1>2, <1>4 DEF delta

LEMMA DeltaUp ==
    ASSUME NEW m \in Nat, NEW n \in Nat, Upsamples(up, m)
    PROVE  Upsamples(Up(Chunk(m, n)), m + n)
<1> DEFINE delta == Chunk(m, n)
<1>1. Len(delta) = n /\ \A i \in 1..n : delta[i] = m + i
  BY DEF Chunk
<1> HIDE DEF delta
<1>2. PICK after : /\ after = [i \in 0..n |-> IF i = 0 THEN up ELSE Upsampled(after[i - 1], delta[i])]
                   /\ Up(delta) = after[n]
  BY <1>1, UpRuns
<1> DEFINE Wrong == {i \in 0..n : ~Upsamples(after[i], m + i)}
<1>3. Wrong = {}
  <2> SUFFICES ASSUME Wrong # {} PROVE FALSE
    OBVIOUS
  <2>1. Wrong \subseteq Nat
    OBVIOUS
  <2> HIDE DEF Wrong
  <2>2. PICK i \in Wrong : \A k \in Wrong : i <= k
    BY <2>1, Least
  <2>3. i \in 0..n /\ ~Upsamples(after[i], m + i)
    BY <2>2 DEF Wrong
  <2>4. i # 0
    BY <1>2, <2>3
  <2>5. i - 1 \in 0..n /\ i \in 1..n /\ m + (i - 1) \in Nat /\ (m + (i - 1)) + 1 = m + i /\ i - 1 \notin Wrong
    BY <2>2, <2>3, <2>4
  <2>6. Upsamples(after[i - 1], m + (i - 1))
    BY <2>5 DEF Wrong
  <2>7. after[i] = Upsampled(after[i - 1], (m + (i - 1)) + 1)
    BY <1>1, <1>2, <2>4, <2>5
  <2>8. Upsamples(after[i], (m + (i - 1)) + 1)
    BY <2>5, <2>6, <2>7, OneSampleUp
  <2> QED BY <2>3, <2>5, <2>8
<1>4. Upsamples(after[n], m + n)
  BY <1>3
<1> QED BY <1>2, <1>4 DEF delta

AudioInv ==
    /\ heard \in [down: 0..Spoken, up: 0..Spoken]
    /\ Decimates(down, heard.down) /\ Upsamples(up, heard.up)

LEMMA AudioInitInv == AudioInit => AudioInv
<1> SUFFICES ASSUME AudioInit PROVE AudioInv
  OBVIOUS
<1>1. Taps \in Nat /\ Taps >= 1 /\ 0 \in 0..Spoken /\ 0 \in 0..(Taps - 1)
  BY AudioAssumption
<1>2. heard \in [down: 0..Spoken, up: 0..Spoken] /\ heard.down = 0 /\ heard.up = 0
  BY <1>1 DEF AudioInit
<1>3. Decimates(down, 0)
  <2>1. /\ down.delay = [i \in 0..(Taps - 1) |-> 0] /\ down.write = 0 /\ down.phase = 0 /\ down.out = <<>>
        /\ down = [delay |-> down.delay, write |-> down.write, phase |-> down.phase, out |-> down.out]
    BY DEF AudioInit, Quiet
  <2>2. \A t \in 1..Taps : down.delay[(down.write - t) % Taps] = SampleAt(0 + 1 - t)
    <3> SUFFICES ASSUME NEW t \in 1..Taps PROVE down.delay[(down.write - t) % Taps] = SampleAt(0 + 1 - t)
      OBVIOUS
    <3>1. (0 - t) % Taps \in 0..(Taps - 1)
      BY <1>1, Around
    <3>2. SampleAt(0 + 1 - t) = 0
      <4>1. ~(0 + 1 - t > 0)
        BY <1>1
      <4> QED BY <4>1 DEF SampleAt, Quiet
    <3> QED BY <2>1, <3>1, <3>2
  <2>3. 0 % 3 = 0 /\ (0 + 2) \div 3 = 0
    OBVIOUS
  <2>4. [k \in 1..0 |-> [t \in 1..Taps |-> SampleAt(3 * k - 1 - t)]] = <<>>
    OBVIOUS
  <2> QED BY <1>1, <2>1, <2>2, <2>3, <2>4 DEF Decimates
<1>4. Upsamples(up, 0)
  <2>1. up.hist = <<0, 0, 0, 0>> /\ up.out = <<>> /\ up = [hist |-> up.hist, out |-> up.out]
    BY DEF AudioInit, Quiet
  <2>2. SampleAt(0 - 3) = 0 /\ SampleAt(0 - 2) = 0 /\ SampleAt(0 - 1) = 0 /\ SampleAt(0) = 0 /\ 3 * 0 = 0
    BY DEF SampleAt, Quiet
  <2> QED BY <2>1, <2>2 DEF Upsamples
<1> QED BY <1>2, <1>3, <1>4 DEF AudioInv

LEMMA AudioStepInv == AudioInv /\ [AudioNext]_ovars => AudioInv'
<1> SUFFICES ASSUME AudioInv, [AudioNext]_ovars PROVE AudioInv'
  OBVIOUS
<1>t. /\ heard \in [down: 0..Spoken, up: 0..Spoken]
      /\ heard.down \in Nat /\ heard.up \in Nat /\ Spoken \in Nat /\ DeltaMax \in Nat
  BY AudioAssumption DEF AudioInv
<1>1. ASSUME NEW n \in 0..DeltaMax, ToPstn(n)
      PROVE  AudioInv'
  <2>1. /\ heard.down + n \in 0..Spoken /\ n \in Nat
        /\ heard' = [heard EXCEPT !.down = heard.down + n] /\ up' = up
        /\ down' = Down(Chunk(heard.down, n))
    BY <1>1, <1>t DEF ToPstn
  <2>2. heard' \in [down: 0..Spoken, up: 0..Spoken] /\ heard'.down = heard.down + n /\ heard'.up = heard.up
    BY <1>t, <2>1
  <2>3. Decimates(down', heard'.down)
    BY <1>t, <2>1, <2>2, DeltaDown DEF AudioInv
  <2> QED BY <2>1, <2>2, <2>3 DEF AudioInv
<1>2. ASSUME NEW n \in 0..DeltaMax, ToRealtime(n)
      PROVE  AudioInv'
  <2>1. /\ heard.up + n \in 0..Spoken /\ n \in Nat
        /\ heard' = [heard EXCEPT !.up = heard.up + n] /\ down' = down
        /\ up' = Up(Chunk(heard.up, n))
    BY <1>2, <1>t DEF ToRealtime
  <2>2. heard' \in [down: 0..Spoken, up: 0..Spoken] /\ heard'.up = heard.up + n /\ heard'.down = heard.down
    BY <1>t, <2>1
  <2>3. Upsamples(up', heard'.up)
    BY <1>t, <2>1, <2>2, DeltaUp DEF AudioInv
  <2> QED BY <2>1, <2>2, <2>3 DEF AudioInv
<1>3. CASE UNCHANGED ovars
  BY <1>3 DEF ovars, AudioInv
<1> QED BY <1>1, <1>2, <1>3 DEF AudioNext

\* However many weights the filter has, however long the stream and wherever the API
\* cuts it into deltas: both resamplers give what they give for the whole.
THEOREM DeltasAlwaysJoin == AudioSpec => []DeltasJoin
<1>1. AudioInv => DeltasJoin
  BY DEF AudioInv, Decimates, Upsamples, DeltasJoin
<1> QED
  BY AudioInitInv, AudioStepInv, <1>1, PTL DEF AudioSpec

-----------------------------------------------------------------------------
(* The codecs.                                                             *)

\* A byte toggled twice is the byte.
LEMMA ToggledBack ==
    ASSUME NEW b \in Byte
    PROVE  Toggled[b] \in Byte /\ Toggled[Toggled[b]] = b
<1> DEFINE T(c) == c + Toggle(c, 1) + Toggle(c, 4) + Toggle(c, 16) + Toggle(c, 64)
<1>1. T(b) \in Byte /\ T(T(b)) = b
  BY DEF Byte, Toggle
<1>2. \A c \in Byte : Toggled[c] = T(c)
  BY DEF Toggled
<1> QED BY <1>1, <1>2

LEMMA BitIs ==
    /\ Bit[0] = 1 /\ Bit[1] = 2 /\ Bit[2] = 4 /\ Bit[3] = 8 /\ Bit[4] = 16 /\ Bit[5] = 32
    /\ Bit[6] = 64 /\ Bit[7] = 128 /\ Bit[8] = 256 /\ Bit[9] = 512 /\ Bit[10] = 1024
    /\ Bit[11] = 2048 /\ Bit[12] = 4096 /\ Bit[13] = 8192 /\ Bit[14] = 16384 /\ Bit[15] = 32768
BY DEF Bit

\* A magnitude of a segment: its four bits under the highest one, and the middle
\* of what shares them.
Under(m, e) == m \div Bit[e + 3]
Middle(q, e) == (8 * q + 4) * Bit[e]

LEMMA MiddleIs ==
    ASSUME NEW e \in 0..7, NEW m \in Nat, Bit[e + 7] <= m, m < Bit[e + 8]
    PROVE  /\ Under(m, e) \in 16..31
           /\ Middle(Under(m, e), e) \in Nat
           /\ Bit[e + 7] <= Middle(Under(m, e), e) /\ Middle(Under(m, e), e) < Bit[e + 8]
           /\ Under(Middle(Under(m, e), e), e) = Under(m, e)
           /\ Abs(Middle(Under(m, e), e) - m) <= 4 * Bit[e]
           /\ e >= 1 => 4 * Bit[e] <= m \div 32
           /\ e = 0 => 4 * Bit[e] = 4
           /\ m >= 136 => Middle(Under(m, e), e) >= 140
           /\ Middle(Under(m, e), e) >= 132 /\ Middle(Under(m, e), e) <= 32256
<1>0. CASE e = 0
  BY <1>0, BitIs DEF Under, Middle, Abs
<1>1. CASE e = 1
  BY <1>1, BitIs DEF Under, Middle, Abs
<1>2. CASE e = 2
  BY <1>2, BitIs DEF Under, Middle, Abs
<1>3. CASE e = 3
  BY <1>3, BitIs DEF Under, Middle, Abs
<1>4. CASE e = 4
  BY <1>4, BitIs DEF Under, Middle, Abs
<1>5. CASE e = 5
  BY <1>5, BitIs DEF Under, Middle, Abs
<1>6. CASE e = 6
  BY <1>6, BitIs DEF Under, Middle, Abs
<1>7. CASE e = 7
  BY <1>7, BitIs DEF Under, Middle, Abs
<1> QED BY <1>0, <1>1, <1>2, <1>3, <1>4, <1>5, <1>6, <1>7

\* The least magnitude of a segment; but the lowest one goes down to nothing.
Lowest(e) == IF e = 0 THEN 128 ELSE IF e = 1 THEN 256 ELSE IF e = 2 THEN 512 ELSE IF e = 3 THEN 1024
            ELSE IF e = 4 THEN 2048 ELSE IF e = 5 THEN 4096 ELSE IF e = 6 THEN 8192 ELSE 16384

LEMMA LowestIs ==
    ASSUME NEW e \in 0..7
    PROVE  Bit[e + 7] = Lowest(e) /\ Bit[e + 8] = 2 * Lowest(e)
<1>0. CASE e = 0
  BY <1>0, BitIs DEF Lowest
<1>1. CASE e = 1
  BY <1>1, BitIs DEF Lowest
<1>2. CASE e = 2
  BY <1>2, BitIs DEF Lowest
<1>3. CASE e = 3
  BY <1>3, BitIs DEF Lowest
<1>4. CASE e = 4
  BY <1>4, BitIs DEF Lowest
<1>5. CASE e = 5
  BY <1>5, BitIs DEF Lowest
<1>6. CASE e = 6
  BY <1>6, BitIs DEF Lowest
<1>7. CASE e = 7
  BY <1>7, BitIs DEF Lowest
<1> QED BY <1>0, <1>1, <1>2, <1>3, <1>4, <1>5, <1>6, <1>7

\* The segment is the place of the highest bit.
LEMMA SegmentIs ==
    ASSUME NEW m \in Nat, m <= 32767
    PROVE  /\ Segment(m) \in 0..7 /\ m < Bit[Segment(m) + 8]
           /\ Segment(m) = 0 <=> m < 256
           /\ m >= 128 => Bit[Segment(m) + 7] <= m
           /\ \A e \in 0..7 : Bit[e + 7] <= m /\ m < Bit[e + 8] => e = Segment(m)
<1> DEFINE Of(e) == Bit[e + 7] <= m /\ m < Bit[e + 8]
           In(e) == Lowest(e) <= m /\ m < 2 * Lowest(e)
<1>1. \A e \in 0..7 : Of(e) <=> In(e)
  <2> SUFFICES ASSUME NEW e \in 0..7 PROVE Of(e) <=> In(e)
    OBVIOUS
  <2>1. Bit[e + 7] = Lowest(e) /\ Bit[e + 8] = 2 * Lowest(e)
    BY LowestIs
  <2> QED BY <2>1
<1>c. m >= 256 => Segment(m) = CHOOSE e \in 1..7 : Of(e)
  BY DEF Segment
<1>2. \A e, f \in 0..7 : In(e) /\ In(f) => e = f
  BY DEF Lowest
<1>3. m >= 256 => In(1) \/ In(2) \/ In(3) \/ In(4) \/ In(5) \/ In(6) \/ In(7)
  BY DEF Lowest
<1>4. In(0) <=> m >= 128 /\ m < 256
  BY DEF Lowest
<1> HIDE DEF Of, In
<1>5. CASE m < 256
  <2>1. Segment(m) = 0
    BY <1>5 DEF Segment
  <2>2. m < Bit[0 + 8]
    BY <1>5, BitIs
  <2>3. m >= 128 => Of(0)
    BY <1>1, <1>4, <1>5
  <2>4. \A e \in 0..7 : Of(e) => e = 0 \/ m < 128
    BY <1>1, <1>2, <1>4, <1>5
  <2>5. m < 128 => \A e \in 0..7 : ~In(e)
    BY DEF In, Lowest
  <2>6. \A e \in 0..7 : Of(e) => e = 0
    BY <1>1, <2>4, <2>5
  <2> QED BY <1>5, <2>1, <2>2, <2>3, <2>6 DEF Of
<1>6. CASE m >= 256
  <2>1. Segment(m) = CHOOSE e \in 1..7 : Of(e)
    BY <1>6, <1>c
  <2>2. \E e \in 1..7 : Of(e)
    <3>1. \A e \in 1..7 : In(e) => Of(e)
      BY <1>1
    <3> QED BY <1>3, <1>6, <3>1
  <2>3. Segment(m) \in 1..7 /\ Of(Segment(m))
    BY <2>1, <2>2
  <2> HIDE DEF Segment
  <2>4. Segment(m) \in 0..7 /\ Segment(m) # 0
    BY <2>3
  <2>5. \A e \in 0..7 : Of(e) => e = Segment(m)
    BY <1>1, <1>2, <2>3, <2>4
  <2> QED BY <1>6, <2>3, <2>4, <2>5 DEF Of
<1> QED BY <1>5, <1>6

\* The bounds of a segment, and that there is no other.
Holds(e, m) == e \in 0..7 /\ Bit[e + 7] <= m /\ m < Bit[e + 8]

LEMMA SegmentHolds ==
    ASSUME NEW m \in Nat, m <= 32767, m >= 128
    PROVE  Holds(Segment(m), m)
BY SegmentIs DEF Holds

LEMMA SegmentOnly ==
    ASSUME NEW m \in Nat, m <= 32767, NEW e, Holds(e, m)
    PROVE  Segment(m) = e
BY SegmentIs DEF Holds

\* A sample as what is coded of it: its side and its magnitude.
Coded(x, e, n) == SignBit(x) + e * 16 + n

LEMMA BitsOf ==
    ASSUME NEW x \in Int, NEW e \in 0..7, NEW n \in 0..15
    PROVE  /\ Coded(x, e, n) \in Byte /\ Inverted(Coded(x, e, n)) \in Byte
           /\ Inverted(Inverted(Coded(x, e, n))) = Coded(x, e, n)
           /\ Nibble(Coded(x, e, n)) = n /\ SegmentBits(Coded(x, e, n)) = e
           /\ Coded(x, e, n) >= 128 <=> x < 0
BY DEF Coded, SignBit, Byte, Inverted, Nibble, SegmentBits

\* What the middle of a segment's step is coded to: the same step again.
LEMMA CodedAgain ==
    ASSUME NEW m \in Nat, m <= 32767, m >= 128,
           NEW e, e = Segment(m), NEW back, back = Middle(Under(m, e), e)
    PROVE  /\ back \in Nat /\ back >= 128 /\ back <= 32256
           /\ Segment(back) = e /\ Under(back, e) = Under(m, e)
<1>1. Holds(e, m)
  BY SegmentHolds
<1>2. /\ back \in Nat /\ back <= 32256 /\ Under(back, e) = Under(m, e)
      /\ Bit[e + 7] <= back /\ back < Bit[e + 8]
  BY <1>1, MiddleIs DEF Holds
<1>3. Bit[e + 7] >= 128 /\ Bit[e + 7] \in Nat
  BY <1>1, LowestIs DEF Lowest, Holds
<1>4. back >= 128
  BY <1>2, <1>3
<1>5. Holds(e, back)
  BY <1>1, <1>2 DEF Holds
<1>6. Segment(back) = e
  BY <1>2, <1>5, SegmentOnly
<1> QED BY <1>2, <1>4, <1>6

MulawLevel(x) == Capped(Abs(x), 32635) + 132
Sided(x, magnitude) == IF x < 0 THEN -magnitude ELSE magnitude

\* What a sample is after the first codec.
LEMMA MulawIs ==
    ASSUME NEW x \in Int, NEW m, m = MulawLevel(x), NEW e, e = Segment(m)
    PROVE  /\ m \in Nat /\ m >= 132 /\ m <= 32767 /\ Holds(e, m)
           /\ linearToMulaw(x) \in Byte
           /\ MulawDecode[linearToMulaw(x)] = Sided(x, Middle(Under(m, e), e) - 132)
<1> DEFINE q == Under(m, e)
           c == Coded(x, e, q - 16)
<1>1. m \in Nat /\ m >= 132 /\ m <= 32767
  BY DEF MulawLevel, Capped, Abs
<1>2. linearToMulaw(x) = Inverted(SignBit(x) + e * 16 + Nibble(q))
  BY DEF linearToMulaw, MulawLevel, Under
<1>3. Holds(e, m) /\ e \in 0..7
  BY <1>1, SegmentHolds DEF Holds
<1>4. q \in 16..31
  BY <1>1, <1>3, MiddleIs DEF Holds
<1> HIDE DEF q
<1>5. Nibble(q) = q - 16 /\ q - 16 \in 0..15
  BY <1>4 DEF Nibble
<1>6. linearToMulaw(x) = Inverted(c)
  BY <1>2, <1>5 DEF Coded
<1>7. /\ c \in Byte /\ Inverted(c) \in Byte /\ Inverted(Inverted(c)) = c
      /\ Nibble(c) = q - 16 /\ SegmentBits(c) = e /\ (c >= 128 <=> x < 0)
  BY <1>3, <1>5, BitsOf
<1> HIDE DEF c
<1>8. MulawDecode[Inverted(c)] = Sided(x, ((q - 16) * 8 + 132) * Bit[e] - 132)
  BY <1>7 DEF MulawDecode, Sided
<1>9. ((q - 16) * 8 + 132) * Bit[e] = Middle(q, e)
  <2>1. (q - 16) * 8 + 132 = 8 * q + 4
    BY <1>4
  <2> QED BY <2>1 DEF Middle
<1> QED BY <1>1, <1>3, <1>6, <1>7, <1>8, <1>9 DEF q

AlawLevel(x) == Capped(Abs(x), 32767)
\* The magnitude the second codec gives back: its lowest segment has the steps of
\* the one above.
Back(m, e) == IF e = 0 THEN (m \div 16) * 16 + 8 ELSE Middle(Under(m, e), e)

\* What a sample is after the second codec.
LEMMA AlawIs ==
    ASSUME NEW x \in Int, NEW m, m = AlawLevel(x), NEW e, e = Segment(m)
    PROVE  /\ m \in Nat /\ m <= 32767 /\ e \in 0..7
           /\ linearToAlaw(x) \in Byte
           /\ AlawDecode[linearToAlaw(x)] = Sided(x, Back(m, e))
<1> DEFINE q == m \div Bit[IF e = 0 THEN 4 ELSE e + 3]
           n == Nibble(q)
           c == Coded(x, e, n)
<1>1. m \in Nat /\ m <= 32767
  BY DEF AlawLevel, Capped, Abs
<1>2. linearToAlaw(x) = Toggled[c]
  BY DEF linearToAlaw, AlawLevel, Coded
<1>3. e \in 0..7 /\ (e = 0 <=> m < 256)
  BY <1>1, SegmentIs
<1>4. e # 0 => q = Under(m, e) /\ q \in 16..31
  <2> SUFFICES ASSUME e # 0 PROVE q = Under(m, e) /\ q \in 16..31
    OBVIOUS
  <2>1. m >= 128
    BY <1>1, <1>3
  <2>2. Holds(e, m)
    BY <1>1, <2>1, SegmentHolds
  <2>3. q = Under(m, e)
    BY DEF Under
  <2> HIDE DEF q
  <2> QED BY <1>1, <2>2, <2>3, MiddleIs DEF Holds
<1>5. e = 0 => q = m \div 16 /\ q \in 0..15
  <2> SUFFICES ASSUME e = 0 PROVE q = m \div 16 /\ q \in 0..15
    OBVIOUS
  <2>1. q = m \div 16
    BY BitIs
  <2> HIDE DEF q
  <2> QED BY <1>1, <1>3, <2>1
<1> HIDE DEF q
<1>6. n \in 0..15 /\ (e = 0 => n = q) /\ (e # 0 => n = q - 16)
  BY <1>3, <1>4, <1>5 DEF Nibble
<1> HIDE DEF n
<1>7. c \in Byte /\ Nibble(c) = n /\ SegmentBits(c) = e /\ (c >= 128 <=> x < 0)
  BY <1>3, <1>6, BitsOf
<1> HIDE DEF c
<1>8. Toggled[c] \in Byte /\ Toggled[Toggled[c]] = c
  BY <1>7, ToggledBack
<1> DEFINE data == n * 16 + 8 + IF e = 0 THEN 0 ELSE 256
           level == IF e > 1 THEN data * Bit[e - 1] ELSE data
<1>9. AlawDecode[Toggled[c]] = Sided(x, level)
  BY <1>7, <1>8 DEF AlawDecode, Sided
<1>10. level = Back(m, e)
  <2>1. CASE e = 0
    BY <1>1, <1>5, <1>6, <2>1 DEF Back
  <2>2. CASE e # 0
    <3>1. data = 16 * q + 8 /\ q \in Nat /\ Back(m, e) = (8 * q + 4) * Bit[e]
      BY <1>4, <1>6, <2>2 DEF Back, Middle
    <3> HIDE DEF data
    <3>2. e = 1 \/ e = 2 \/ e = 3 \/ e = 4 \/ e = 5 \/ e = 6 \/ e = 7
      BY <1>3, <2>2
    <3>3. CASE e = 1
      BY <3>1, <3>3, BitIs
    <3>4. CASE e = 2
      BY <3>1, <3>4, BitIs
    <3>5. CASE e = 3
      BY <3>1, <3>5, BitIs
    <3>6. CASE e = 4
      BY <3>1, <3>6, BitIs
    <3>7. CASE e = 5
      BY <3>1, <3>7, BitIs
    <3>8. CASE e = 6
      BY <3>1, <3>8, BitIs
    <3>9. CASE e = 7
      BY <3>1, <3>9, BitIs
    <3> QED BY <3>2, <3>3, <3>4, <3>5, <3>6, <3>7, <3>8, <3>9
  <2> QED BY <2>1, <2>2
<1> HIDE DEF level
<1> QED BY <1>1, <1>2, <1>3, <1>8, <1>9, <1>10

\* The second codec's steps: how near, and the same step again.
LEMMA BackIs ==
    ASSUME NEW m \in Nat, m <= 32767, NEW e, e = Segment(m), NEW back, back = Back(m, e)
    PROVE  /\ back \in Nat /\ back >= 8 /\ back <= 32256
           /\ Segment(back) = e /\ Back(back, e) = back
           /\ Abs(back - m) <= IF m < 256 THEN 8 ELSE m \div 32
<1>1. e \in 0..7 /\ (e = 0 <=> m < 256)
  BY SegmentIs
<1>2. CASE e = 0
  <2>1. m < 256 /\ back = (m \div 16) * 16 + 8
    BY <1>1, <1>2 DEF Back
  <2>2. back \in Nat /\ back >= 8 /\ back < 256 /\ (back \div 16) * 16 + 8 = back /\ Abs(back - m) <= 8
    BY <2>1 DEF Abs
  <2>3. Segment(back) = 0
    BY <2>2 DEF Segment
  <2> QED BY <1>2, <2>1, <2>2, <2>3 DEF Back
<1>3. CASE e # 0
  <2>1. m >= 256 /\ back = Middle(Under(m, e), e)
    BY <1>1, <1>3 DEF Back
  <2>2. Holds(e, m)
    BY <2>1, SegmentHolds
  <2>3. Abs(back - m) <= 4 * Bit[e] /\ 4 * Bit[e] <= m \div 32
    BY <1>1, <1>3, <2>1, <2>2, MiddleIs DEF Holds
  <2>4. /\ back \in Nat /\ back >= 128 /\ back <= 32256
        /\ Segment(back) = e /\ Under(back, e) = Under(m, e)
    BY <2>1, CodedAgain
  <2>5. Bit[e] \in Nat
    BY <1>1, BitIs
  <2>6. Abs(back - m) <= m \div 32
    BY <2>3, <2>4, <2>5 DEF Abs
  <2> QED BY <1>3, <2>1, <2>4, <2>6 DEF Back
<1> QED BY <1>2, <1>3

LEMMA MulawKept ==
    ASSUME NEW x \in Int, x >= -32768, x <= 32767, NEW u, u = linearToMulaw(x)
    PROVE  /\ u \in Byte /\ Near(x, MulawDecode[u], 132)
           /\ Abs(x) > 8 => ((x < 0) = (MulawDecode[u] < 0))
           /\ MulawDecode[linearToMulaw(MulawDecode[u])] = MulawDecode[u]
<1> DEFINE m == MulawLevel(x)
           e == Segment(m)
           back == Middle(Under(m, e), e)
           y == Sided(x, back - 132)
<1>1. /\ m \in Nat /\ m >= 132 /\ m <= 32767 /\ Holds(e, m)
      /\ u \in Byte /\ MulawDecode[u] = y
  BY MulawIs
<1>2. m = IF Abs(x) > 32635 THEN 32767 ELSE Abs(x) + 132
  BY DEF MulawLevel, Capped, Abs
<1>3. /\ back \in Nat /\ back >= 128 /\ back <= 32256
      /\ Segment(back) = e /\ Under(back, e) = Under(m, e)
  BY <1>1, CodedAgain
<1>4. /\ e \in 0..7 /\ Abs(back - m) <= 4 * Bit[e] /\ (e >= 1 => 4 * Bit[e] <= m \div 32)
      /\ (e = 0 => 4 * Bit[e] = 4) /\ (m >= 136 => back >= 140) /\ back >= 132
  BY <1>1, MiddleIs DEF Holds
<1>5. e = 0 <=> m < 256
  BY <1>1, SegmentIs
<1>6. Bit[e] \in Nat
  BY <1>4, BitIs
<1>c. m = 32767 => e = 7
  <2>1. Holds(7, 32767)
    BY BitIs DEF Holds
  <2> QED BY <2>1, SegmentOnly
<1> HIDE DEF back, e, m
<1>7. Abs(back - m) <= (IF m < 256 THEN 4 ELSE m \div 32) /\ Abs(back - m) \in Nat
  BY <1>1, <1>3, <1>4, <1>5, <1>6 DEF Abs
<1>8. y \in Int /\ Abs(y) = back - 132
  BY <1>3, <1>4 DEF Sided, Abs
<1>9. MulawLevel(y) = back
  BY <1>3, <1>8 DEF MulawLevel, Capped
<1>10. MulawDecode[linearToMulaw(y)] = Sided(y, Middle(Under(back, e), e) - 132)
  BY <1>3, <1>8, <1>9, MulawIs
<1>11. Middle(Under(back, e), e) = back
  BY <1>3 DEF back
<1>12. Sided(y, back - 132) = y
  BY <1>3, <1>4 DEF Sided
<1>13. Near(x, y, 132)
  <2>1. Abs(y - x) = Abs(back - 132 - Abs(x))
    BY <1>3, <1>4 DEF Sided, Abs
  <2>2. CASE Abs(x) > 32635
    <3>1. m = 32767 /\ Abs(x) <= 32768 /\ Abs(x) \in Nat
      BY <1>2, <2>2 DEF Abs
    <3>2. Abs(back - m) <= 512
      BY <1>4, <1>c, <3>1, BitIs
    <3>3. back >= 32255
      BY <1>3, <3>1, <3>2 DEF Abs
    <3>4. Abs(y - x) <= 1023
      BY <1>3, <2>1, <2>2, <3>1, <3>3 DEF Abs
    <3>5. (Abs(x) + 132) \div 32 >= 1023 /\ Abs(x) + 132 >= 256
      BY <2>2, <3>1
    <3>6. Abs(y - x) \in Int
      BY <1>3, <1>8 DEF Abs
    <3> HIDE DEF y
    <3> QED BY <3>1, <3>4, <3>5, <3>6 DEF Near
  <2>3. CASE Abs(x) <= 32635
    <3>1. m = Abs(x) + 132 /\ Abs(x) \in Nat
      BY <1>2, <2>3 DEF Abs
    <3>2. Abs(y - x) = Abs(back - m)
      BY <1>3, <2>1, <3>1 DEF Abs
    <3> HIDE DEF y
    <3>3. Abs(y - x) <= IF Abs(x) + 132 < 256 THEN 8 ELSE (Abs(x) + 132) \div 32
      BY <1>7, <3>1, <3>2
    <3> QED BY <3>3 DEF Near
  <2>4. Abs(x) \in Nat
    BY DEF Abs
  <2> QED BY <2>2, <2>3, <2>4
<1>14. Abs(x) > 8 => ((x < 0) = (y < 0))
  <2>1. Abs(x) > 8 => back >= 140
    BY <1>2, <1>4 DEF Abs
  <2> QED BY <1>3, <1>4, <2>1 DEF Sided
<1> QED BY <1>1, <1>10, <1>11, <1>12, <1>13, <1>14

LEMMA AlawKept ==
    ASSUME NEW x \in Int, x >= -32768, x <= 32767, NEW a, a = linearToAlaw(x)
    PROVE  /\ a \in Byte /\ Near(x, AlawDecode[a], 0)
           /\ Abs(x) > 8 => ((x < 0) = (AlawDecode[a] < 0))
           /\ AlawDecode[linearToAlaw(AlawDecode[a])] = AlawDecode[a]
<1> DEFINE m == AlawLevel(x)
           e == Segment(m)
           back == Back(m, e)
           y == Sided(x, back)
<1>1. m \in Nat /\ m <= 32767 /\ e \in 0..7 /\ a \in Byte /\ AlawDecode[a] = y
  BY AlawIs
<1>2. m = IF Abs(x) > 32767 THEN 32767 ELSE Abs(x)
  BY DEF AlawLevel, Capped, Abs
<1>3. /\ back \in Nat /\ back >= 8 /\ back <= 32256 /\ Segment(back) = e /\ Back(back, e) = back
      /\ Abs(back - m) <= IF m < 256 THEN 8 ELSE m \div 32
  BY <1>1, BackIs
<1> HIDE DEF back, e, m
<1>4. y \in Int /\ Abs(y) = back
  BY <1>3 DEF Sided, Abs
<1>5. AlawLevel(y) = back
  BY <1>3, <1>4 DEF AlawLevel, Capped
<1>6. AlawDecode[linearToAlaw(y)] = Sided(y, back)
  BY <1>3, <1>4, <1>5, AlawIs
<1>7. Sided(y, back) = y
  BY <1>3 DEF Sided
<1>8. Near(x, y, 0)
  <2>1. Abs(y - x) = Abs(back - Abs(x)) /\ Abs(x) \in Nat /\ Abs(x) <= 32768
    BY <1>3 DEF Sided, Abs
  <2>2. CASE Abs(x) > 32767
    <3>1. m = 32767 /\ back >= 31744
      BY <1>2, <1>3, <2>2 DEF Abs
    <3>2. Abs(y - x) <= 1024
      BY <1>3, <2>1, <2>2, <3>1 DEF Abs
    <3> QED BY <2>1, <2>2, <3>1, <3>2 DEF Near
  <2>3. CASE Abs(x) <= 32767
    <3>1. m = Abs(x)
      BY <1>2, <2>1, <2>3
    <3> QED BY <1>3, <2>1, <3>1 DEF Near
  <2> QED BY <2>1, <2>2, <2>3
<1>9. (x < 0) = (y < 0)
  BY <1>3 DEF Sided
<1> QED BY <1>1, <1>6, <1>7, <1>8, <1>9

\* The frames cover the samples and nothing else.
CodecInv == CodecInit \/ (frame \in Int /\ frame >= -32768 /\ frame + FrameLen <= 32768)

LEMMA NextFrameInv == CodecInv /\ [CodecNext]_xvars => CodecInv'
<1> SUFFICES ASSUME CodecInv, [CodecNext]_xvars PROVE CodecInv'
  OBVIOUS
<1>1. CASE UNCHANGED xvars
  BY <1>1 DEF CodecInv, CodecInit, xvars
<1>2. CASE CodecNext
  <2> DEFINE many == 65536 \div FrameLen
  <2>1. PICK n \in 0..(many - 1) : frame' = n * FrameLen - 32768
    BY <1>2 DEF CodecNext, NextFrame
  <2>2. FrameLen \in Nat /\ FrameLen >= 1 /\ many \in Nat /\ many * FrameLen = 65536
    BY G711Assumption
  <2> HIDE DEF many
  <2>3. n \in Nat /\ n + 1 <= many
    BY <2>1, <2>2
  <2>4. n * FrameLen \in Nat /\ (n + 1) * FrameLen = n * FrameLen + FrameLen
    BY <2>2, <2>3
  <2>5. (n + 1) * FrameLen <= many * FrameLen
    BY <2>2, <2>3
  <2> QED BY <2>1, <2>2, <2>4, <2>5 DEF CodecInv
<1> QED BY <1>1, <1>2

\* A sample keeps its side and its loudness through either codec, and what was
\* decoded once stays what it is: in audio.ts the two codecs of the telephone's side.
THEOREM LevelIsAlwaysKept == CodecSpec => []LevelIsKept
<1>1. CodecInit => CodecInv
  BY DEF CodecInv
<1>2. CodecInv => LevelIsKept
  <2> SUFFICES ASSUME CodecInv, ~CodecInit, NEW x \in Frame,
                      NEW u, u = linearToMulaw(x), NEW a, a = linearToAlaw(x)
               PROVE  /\ u \in Byte /\ a \in Byte
                      /\ Near(x, MulawDecode[u], 132) /\ Near(x, AlawDecode[a], 0)
                      /\ Abs(x) > 8 => (x < 0) = (MulawDecode[u] < 0) /\ (x < 0) = (AlawDecode[a] < 0)
                      /\ MulawDecode[linearToMulaw(MulawDecode[u])] = MulawDecode[u]
                      /\ AlawDecode[linearToAlaw(AlawDecode[a])] = AlawDecode[a]
    BY DEF LevelIsKept
  <2>1. x \in Int /\ x >= -32768 /\ x <= 32767
    BY G711Assumption DEF CodecInv, Frame
  <2> QED BY <2>1, MulawKept, AlawKept
<1> QED BY <1>1, <1>2, NextFrameInv, PTL DEF CodecSpec
=============================================================================
