------------------------------ MODULE VoiceCall ------------------------------
(***************************************************************************)
(* A telephone call: the SIP dialog, the handler of its INVITE, the socket *)
(* to the Realtime API, the row in call_sessions and the live session in   *)
(* the gateway's memory.  A call is ended by whoever comes first: the      *)
(* caller, the API behind the socket, the limit on its length, the goodbye *)
(* after hours, the hand-over to a manager, or the cabinet.                *)
(***************************************************************************)
EXTENDS Naturals, FiniteSets

CONSTANTS
    Calls,
    CallTroubles,       \* bound: failing steps and deaths of the gateway
    DeskClicks          \* bound: take-overs and ends that come over HTTP

ASSUME CallAssumption == IsFiniteSet(Calls) /\ CallTroubles \in Nat /\ DeskClicks \in Nat

VARIABLES
    call,           \* per call: what the gateway holds
    rows,           \* per call: the status of its row
    callTroubles, deskClicks

vbounds == <<callTroubles, deskClicks>>
vvars == <<call, rows, vbounds>>

OpenRow == {"ringing", "active"}
EndStates == {"completed", "transferred", "failed"}

\* at: the step of handleInboundInvite; wanted:
\* transferRequested; limit, goodbye: the timers; hears: the handler of
\* the dialog's end is there; ends: the calls of endCall under way.  The last
\* three record what happened: a REFER that was accepted; early, a take-over while
\* the handler was still at work; cut, an end that knows of no hand-over: the robot
\* hung up, the API closed the socket before one was wanted, or the row was ended
\* over HTTP.
NoCall == [at |-> "away", dialog |-> "none", live |-> FALSE, wanted |-> FALSE,
           bridge |-> "none", limit |-> FALSE, goodbye |-> "no", hears |-> FALSE,
           refer |-> "none", ends |-> [st \in EndStates |-> "no"],
           referred |-> FALSE, early |-> FALSE, cut |-> FALSE]

CallInit ==
    /\ call = [c \in Calls |-> NoCall]
    /\ rows = [c \in Calls |-> "none"]
    /\ callTroubles = 0 /\ deskClicks = 0

At(c, steps) == call[c].at \in steps
CallTrouble == callTroubles < CallTroubles /\ callTroubles' = callTroubles + 1
DeskClick == deskClicks < DeskClicks /\ deskClicks' = deskClicks + 1
Becomes(c, new) == call' = [call EXCEPT ![c] = new]

\* bridge.close: a socket that is still being opened fails, and connect tries
\* the next model on a bridge that is closed.
Shut(k) == [k EXCEPT !.bridge = IF @ = "none" THEN @
                                ELSE IF @ = "connecting" THEN "shut" ELSE "closed"]
\* sessions.remove, of a session that may be gone already.
Removed(k) == IF k.live THEN Shut([k EXCEPT !.live = FALSE, !.limit = FALSE]) ELSE k
\* sessions.endCall: asked for now, written, then cleared away.
Ended(k, st) == [k EXCEPT !.ends[st] = "asked"]

\* Mutant: the hand-over is forgotten when the dialog ends.
Outcome_plain(k) == "completed"
Outcome(k) == IF k.wanted THEN "transferred" ELSE "completed"
\* dialog.on("end").
Heard(k) == IF k.hears THEN Ended(Shut([k EXCEPT !.goodbye = "over"]), Outcome(k)) ELSE k

-----------------------------------------------------------------------------
\* handleInboundInvite, from one await to the next; startCall first.
Invite(c) ==
    /\ At(c, {"away"})
    /\ Becomes(c, [call[c] EXCEPT !.at = "start", !.dialog = "ringing"])
    /\ UNCHANGED <<rows, vbounds>>

\* startCall: the deal of the number, or a new one, and the row.
OpenSession(c) ==
    /\ At(c, {"start"})
    /\ Becomes(c, [call[c] EXCEPT !.at = "accept", !.live = TRUE])
    /\ rows' = [rows EXCEPT ![c] = "ringing"]
    /\ UNCHANGED vbounds

StartFails(c) ==
    /\ At(c, {"start"})
    /\ CallTrouble
    /\ Becomes(c, [call[c] EXCEPT !.at = "gone", !.dialog = "ended"])
    /\ UNCHANGED <<rows, deskClicks>>

Accept(c) ==
    /\ At(c, {"accept"})
    /\ Becomes(c, IF call[c].dialog = "ringing"
                  THEN [call[c] EXCEPT !.at = "mark", !.dialog = "up"]
                  ELSE Ended([call[c] EXCEPT !.at = "gone"], "failed"))
    /\ UNCHANGED <<rows, vbounds>>

\* Mutant: the timer is set when the call is connected.
MarkActive_no_limit(c) ==
    /\ At(c, {"mark"})
    /\ rows' = [rows EXCEPT ![c] = "active"]
    /\ Becomes(c, [call[c] EXCEPT !.at = "connect", !.bridge = "connecting"])
    /\ UNCHANGED vbounds

\* markActive, whatever became of the row; then the bridge and the timer of the
\* limit are made.
MarkActive(c) ==
    /\ At(c, {"mark"})
    /\ rows' = [rows EXCEPT ![c] = "active"]
    /\ Becomes(c, [call[c] EXCEPT !.at = "connect", !.bridge = "connecting", !.limit = TRUE])
    /\ UNCHANGED vbounds

\* "leaked": open, on a bridge that was closed meanwhile.
SocketOpens(c) ==
    /\ call[c].bridge \in {"connecting", "shut"}
    /\ Becomes(c, [call[c] EXCEPT !.bridge = IF @ = "shut" THEN "leaked" ELSE "open"])
    /\ UNCHANGED <<rows, vbounds>>

\* waitForSession; only now is the dialog listened to.
SessionReady(c) ==
    /\ At(c, {"connect"})
    /\ call[c].bridge \in {"open", "closed", "leaked"}
    /\ Becomes(c, [call[c] EXCEPT !.at = "up", !.hears = TRUE])
    /\ UNCHANGED <<rows, vbounds>>

ConnectFails(c) ==
    /\ At(c, {"connect"})
    /\ CallTrouble
    /\ Becomes(c, Ended([call[c] EXCEPT !.at = "gone", !.dialog = "ended",
                                        !.bridge = IF @ \in {"open", "leaked"} THEN @
                                                   ELSE "closed"], "failed"))
    /\ UNCHANGED <<rows, deskClicks>>

-----------------------------------------------------------------------------
\* The caller (or the provider, after a REFER) ends the dialog.
CallerHangsUp(c) ==
    /\ call[c].dialog \in {"ringing", "up"}
    /\ Becomes(c, Heard([call[c] EXCEPT !.dialog = "ended"]))
    /\ UNCHANGED <<rows, vbounds>>

\* hangup: the BYE may be heard as the dialog's end, or not.
HungUp(k, heard) ==
    LET byed == [k EXCEPT !.dialog = "ended", !.cut = TRUE]
    IN Ended(IF heard /\ k.dialog = "up" THEN Heard(byed) ELSE byed, "completed")

LimitFires(c) ==
    /\ call[c].limit
    /\ \E heard \in BOOLEAN : Becomes(c, HungUp([call[c] EXCEPT !.limit = FALSE], heard))
    /\ UNCHANGED <<rows, vbounds>>

\* onGreetingDone after hours; the timer is cleared by the dialog's end only.
SayGoodbye(c) ==
    /\ At(c, {"up"}) /\ call[c].bridge = "open" /\ call[c].goodbye = "no"
    /\ Becomes(c, [call[c] EXCEPT !.goodbye = "set"])
    /\ UNCHANGED <<rows, vbounds>>

GoodbyeFires(c) ==
    /\ call[c].goodbye = "set"
    /\ \E heard \in BOOLEAN : Becomes(c, HungUp([call[c] EXCEPT !.goodbye = "over"], heard))
    /\ UNCHANGED <<rows, vbounds>>

\* The API closes the socket: onClose.
SocketCloses(c) ==
    /\ call[c].bridge \in {"open", "leaked"}
    /\ CallTrouble
    /\ Becomes(c, Ended([call[c] EXCEPT !.bridge = "closed", !.cut = @ \/ ~call[c].wanted],
                        Outcome(call[c])))
    /\ UNCHANGED <<rows, deskClicks>>

\* The tool escalate_call: onTransfer.
AskTransfer(c) ==
    /\ At(c, {"up"}) /\ call[c].bridge = "open" /\ call[c].refer = "none"
    /\ Becomes(c, [call[c] EXCEPT !.wanted = TRUE, !.refer = "tool"])
    /\ UNCHANGED <<rows, vbounds>>

\* POST /internal/takeover/:dealId: the deal's newest row that is open, which here
\* is the call's own.
TakeOver(c) ==
    /\ rows[c] \in OpenRow /\ call[c].live /\ call[c].refer = "none"
    /\ DeskClick
    /\ Becomes(c, [call[c] EXCEPT !.wanted = TRUE, !.refer = "desk",
                                  !.early = @ \/ ~At(c, {"up"})])
    /\ UNCHANGED <<rows, callTroubles>>

\* dialog.refer comes back; a take-over ends the session in any case.
ReferAnswered(c) ==
    /\ call[c].refer # "none"
    /\ \E ok \in {x \in BOOLEAN : x => call[c].dialog = "up"} :
         LET k == [call[c] EXCEPT !.refer = "none", !.referred = @ \/ ok]
         IN Becomes(c, IF ok \/ call[c].refer = "desk" THEN Ended(k, "transferred") ELSE k)
    /\ UNCHANGED <<rows, vbounds>>

\* POST /calls/:sessionId/end writes the row and tells the gateway nothing.
EndFromOutside(c) ==
    /\ rows[c] # "none"
    /\ DeskClick
    /\ \E st \in EndStates : rows' = [rows EXCEPT ![c] = st]
    /\ Becomes(c, [call[c] EXCEPT !.cut = TRUE])
    /\ UNCHANGED callTroubles

-----------------------------------------------------------------------------
EndWrite(c, st) ==
    /\ call[c].ends[st] = "asked"
    /\ rows' = [rows EXCEPT ![c] = st]
    /\ Becomes(c, [call[c] EXCEPT !.ends[st] = "written"])
    /\ UNCHANGED vbounds

EndRemove(c, st) ==
    /\ call[c].ends[st] = "written"
    /\ Becomes(c, Removed([call[c] EXCEPT !.ends[st] = "no"]))
    /\ UNCHANGED <<rows, vbounds>>

\* A promise nobody catches, or a kill: the rows stay as they are.
GatewayGone ==
    /\ CallTrouble
    /\ call' = [c \in Calls |-> IF call[c].at = "away" THEN NoCall
                                ELSE [NoCall EXCEPT !.at = "dead", !.dialog = "ended"]]
    /\ UNCHANGED <<rows, deskClicks>>

CallHandler(c) == \/ OpenSession(c) \/ Accept(c) \/ MarkActive(c)
                  \/ SocketOpens(c) \/ SessionReady(c)
CallEnd(c, st) == EndWrite(c, st) \/ EndRemove(c, st)
CallNext ==
    \/ GatewayGone
    \/ \E c \in Calls : \/ CallHandler(c) \/ Invite(c) \/ StartFails(c) \/ ConnectFails(c)
                        \/ CallerHangsUp(c) \/ LimitFires(c) \/ SayGoodbye(c)
                        \/ GoodbyeFires(c) \/ SocketCloses(c) \/ AskTransfer(c)
                        \/ TakeOver(c) \/ ReferAnswered(c) \/ EndFromOutside(c)
                        \/ \E st \in EndStates : CallEnd(c, st)

\* The handler goes on, a timer that is set fires, and what was sent is answered.
CallFairness ==
    \A c \in Calls : /\ WF_vvars(CallHandler(c)) /\ WF_vvars(LimitFires(c))
                     /\ WF_vvars(ReferAnswered(c))
                     /\ \A st \in EndStates : WF_vvars(CallEnd(c, st))
CallSpec == CallInit /\ [][CallNext]_vvars /\ CallFairness

-----------------------------------------------------------------------------
\* Every variable keeps its type.
CallTypeOK ==
    /\ call \in [Calls ->
         [at: {"away", "start", "accept", "mark", "connect", "up", "gone", "dead"},
          dialog: {"none", "ringing", "up", "ended"},
          live: BOOLEAN, wanted: BOOLEAN, limit: BOOLEAN, goodbye: {"no", "set", "over"}, hears: BOOLEAN,
          bridge: {"none", "connecting", "open", "shut", "leaked", "closed"},
          refer: {"none", "tool", "desk"}, ends: [EndStates -> {"no", "asked", "written"}],
          referred: BOOLEAN, early: BOOLEAN, cut: BOOLEAN]]
    /\ rows \in [Calls -> {"none"} \cup OpenRow \cup EndStates]
    /\ callTroubles \in 0..CallTroubles /\ deskClicks \in 0..DeskClicks

Settled(c) == /\ call[c].dialog = "ended" /\ call[c].refer = "none" /\ ~call[c].live
              /\ At(c, {"up", "gone"})
              /\ \A st \in EndStates : call[c].ends[st] = "no"

\* A call whose REFER was accepted is on record as transferred, whoever ends
\* the dialog afterwards and in whatever order the ends are written - unless
\* the call was cut (the limit or the goodbye hung up on it, the API closed its
\* socket before the hand-over was asked for, the row was ended over HTTP) or the
\* take-over came early, while the handler had yet to mark the row or to fail.
HandedOverIsRecorded ==
    \A c \in Calls :
        Settled(c) /\ call[c].referred /\ ~call[c].cut /\ ~call[c].early => rows[c] = "transferred"

\* Closed is closed, but for the leaked socket.
CallClosed(c) == rows[c] \notin OpenRow /\ call[c].bridge \in {"none", "closed", "leaked"}
\* Once the dialog is over the row is closed and the paid socket with it, whoever
\* ended it - the end of the dialog may be missed while the socket is opened, and
\* then it is the limit that ends the call - unless the gateway died or a take-over
\* came early, which leaves either of them open; and a socket closed while it was
\* being opened opens all the same and is left to the API.
CallsAreClosed ==
    \A c \in Calls : call[c].dialog = "ended" ~> CallClosed(c) \/ At(c, {"dead"}) \/ call[c].early
=============================================================================
