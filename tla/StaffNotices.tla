---------------------------- MODULE StaffNotices ----------------------------
(***************************************************************************)
(* What the robot tells its people: notices in the queue `channel`, each   *)
(* under a job id of its own (channelJobId) that stays in the queue after  *)
(* the job is over.  The workers add a notice for every quote that ran     *)
(* out, for a digest, for a follow-up; the gateway adds an alert for an    *)
(* escalation and posts them all, to the staff group, the director's       *)
(* channel, or first the one and then the other.                           *)
(***************************************************************************)
EXTENDS Naturals, FiniteSets

CONSTANTS
    Quotes,             \* quotes that may run out: told to the staff group
    Alerts,             \* escalations the director hears of too
    Digests,            \* a day's digest, an hour's follow-up: one id each
    NoticeAttempts,     \* `attempts` of a notice
    NoticeTroubles      \* bound: failing steps and deaths of a process

Notices == Quotes \cup Alerts \cup Digests

ASSUME NoticeAssumption ==
    /\ IsFiniteSet(Notices)
    /\ Quotes \cap Alerts = {} /\ Quotes \cap Digests = {} /\ Alerts \cap Digests = {}
    /\ NoticeAttempts \in Nat \ {0} /\ NoticeTroubles \in Nat

VARIABLES
    ranOut,         \* quotes whose valid_until has passed
    bargaining,     \* quotes whose deal is quoting, pricing or negotiating
    notice,         \* per notice: its job
    told,           \* notices whose post to the staff group returned
    noticeTroubles

nvars == <<ranOut, bargaining, notice, told, noticeTroubles>>

NoNotice == [state |-> "absent", fails |-> 0, stalls |-> 0]

NoticesInit ==
    /\ ranOut = {} /\ bargaining = Quotes
    /\ notice = [n \in Notices |-> NoNotice]
    /\ told = {} /\ noticeTroubles = 0

NoticeIs(n, state) == notice[n].state = state
NoticeTo(n, state) == notice' = [notice EXCEPT ![n].state = state]
NoticeTrouble == noticeTroubles < NoticeTroubles /\ noticeTroubles' = noticeTroubles + 1

-----------------------------------------------------------------------------
RunsOut(q) ==
    /\ q \notin ranOut
    /\ ranOut' = ranOut \cup {q}
    /\ UNCHANGED <<bargaining, notice, told, noticeTroubles>>

\* The deal is closed, or handed over, or comes back to quoting.
DealMovesOn(q) ==
    /\ bargaining' = IF q \in bargaining THEN bargaining \ {q} ELSE bargaining \cup {q}
    /\ UNCHANGED <<ranOut, notice, told, noticeTroubles>>
\* enqueueChannel: an id that is in the queue already, in whatever state, is
\* not added again.
Enqueued(new) ==
    [n \in Notices |-> IF n \in new /\ NoticeIs(n, "absent")
                       THEN [NoNotice EXCEPT !.state = "waiting"] ELSE notice[n]]

Due == ranOut \cap bargaining

\* Mutant: an id that is there already ends the check.
CheckTtl_stops ==
    /\ \A q \in Due : NoticeIs(q, "absent")
    /\ notice' = Enqueued(Due)
    /\ UNCHANGED <<ranOut, bargaining, told, noticeTroubles>>

\* check_quote_ttl, every quarter of an hour.
CheckTtl ==
    /\ notice' = Enqueued(Due)
    /\ UNCHANGED <<ranOut, bargaining, told, noticeTroubles>>

\* The queue cannot be reached at some row: the rest waits for the next check.
CheckTtlFails ==
    /\ NoticeTrouble
    /\ \E reached \in SUBSET Due : notice' = Enqueued(reached)
    /\ UNCHANGED <<ranOut, bargaining, told>>

\* The gateway's alert after a turn that escalated, and the workers' digests;
\* both may be asked for again under the same id.
Ask(n) ==
    /\ n \in Alerts \cup Digests
    /\ notice' = Enqueued({n})
    /\ UNCHANGED <<ranOut, bargaining, told, noticeTroubles>>

-----------------------------------------------------------------------------
\* The worker of the queue: routeStaffChannelPost.
TakeNotice(n) ==
    /\ NoticeIs(n, "waiting")
    /\ NoticeTo(n, IF n \in Digests THEN "director" ELSE "staff")
    /\ UNCHANGED <<ranOut, bargaining, told, noticeTroubles>>

\* Only an alert goes on to the director.
AfterStaff(n) == IF n \in Alerts THEN "director" ELSE "done"
PostToStaff(n) ==
    /\ NoticeIs(n, "staff")
    /\ told' = told \cup {n}
    /\ NoticeTo(n, AfterStaff(n))
    /\ UNCHANGED <<ranOut, bargaining, noticeTroubles>>

\* sendToChat, when the post into the topic throws - be it that the forum
\* refused it, be it that the answer was lost: the text is sent again, flat.
PostFlat(n) ==
    /\ NoticeIs(n, "staff")
    /\ NoticeTrouble
    /\ told' = told \cup {n}
    /\ NoticeTo(n, AfterStaff(n))
    /\ UNCHANGED <<ranOut, bargaining>>

PostToDirector(n) ==
    /\ NoticeIs(n, "director")
    /\ NoticeTo(n, "done")
    /\ UNCHANGED <<ranOut, bargaining, told, noticeTroubles>>

\* A post throws, delivered or not, and the whole job is tried again.
FailNotice(n) ==
    /\ NoticeTrouble
    /\ notice[n].state \in {"staff", "director"}
    /\ notice' = [notice EXCEPT ![n].fails = @ + 1,
                                ![n].state = IF notice[n].fails + 1 < NoticeAttempts
                                             THEN "waiting" ELSE "failed"]
    /\ UNCHANGED <<ranOut, bargaining, told>>

\* The gateway dies: a job it had in hand is run again, once.
GatewayDies ==
    /\ NoticeTrouble
    /\ notice' = [n \in Notices |->
                    IF notice[n].state \notin {"staff", "director"} THEN notice[n]
                    ELSE [notice[n] EXCEPT !.stalls = @ + 1,
                                           !.state = IF notice[n].stalls = 0
                                                     THEN "waiting" ELSE "failed"]]
    /\ UNCHANGED <<ranOut, bargaining, told>>

PostNotice(n) == TakeNotice(n) \/ PostToStaff(n) \/ PostToDirector(n)
NoticesNext ==
    \/ CheckTtl \/ CheckTtlFails \/ GatewayDies
    \/ \E q \in Quotes : RunsOut(q) \/ DealMovesOn(q)
    \/ \E n \in Notices : Ask(n) \/ PostNotice(n) \/ PostFlat(n) \/ FailNotice(n)

\* The repeated check runs, and so does the queue's worker.
NoticesFairness ==
    /\ WF_nvars(CheckTtl)
    /\ \A n \in Notices : WF_nvars(PostNotice(n))
NoticesSpec == NoticesInit /\ [][NoticesNext]_nvars /\ NoticesFairness

-----------------------------------------------------------------------------
\* Every variable keeps its type.
NoticesTypeOK ==
    /\ ranOut \subseteq Quotes /\ bargaining \subseteq Quotes /\ told \subseteq Notices
    /\ notice \in [Notices ->
                     [state: {"absent", "waiting", "staff", "director", "done", "failed"},
                      fails: 0..NoticeAttempts, stalls: 0..NoticeTroubles]]
    /\ noticeTroubles \in 0..NoticeTroubles
\* A quote that runs out while its deal is being bargained over is announced to
\* the staff, unless something broke or the deal moves on and on.
RunOutIsTold ==
    \A q \in Quotes : q \in Due ~> q \in told \/ q \notin bargaining \/ noticeTroubles > 0
=============================================================================
