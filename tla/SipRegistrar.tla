---------------------------- MODULE SipRegistrar ----------------------------
(***************************************************************************)
(* The REGISTER loop of the SIP trunk.  A number that is not registered    *)
(* gets no calls, and nothing but this loop registers it: whatever the     *)
(* provider answers, or does not answer, one timer or one request must     *)
(* carry it on - and none may after stop().                                *)
(***************************************************************************)
EXTENDS Naturals

CONSTANT SipUsers       \* how many user names are tried in turn

ASSUME SipAssumption == SipUsers \in Nat \ {0}

VARIABLES
    registrar,      \* stopped, timer, registered
    asking          \* per kind of request ("full", or "zero" of stop): where it is

gvars == <<registrar, asking>>

\* plain: sent without credentials; n > 0: signed for the n-th user name.
Requests == {"full", "zero"}
Idle == [at |-> "none", user |-> 0]
Plain == [at |-> "plain", user |-> 0]
Signed(n) == [at |-> "signed", user |-> n]

SipInit ==
    /\ registrar = [stopped |-> FALSE, timer |-> FALSE, registered |-> FALSE]
    /\ asking = [k \in Requests |-> IF k = "full" THEN Plain ELSE Idle]

-----------------------------------------------------------------------------
\* scheduleRetry, and the timer of the refresh: neither after stop().
Rearmed(r) == [r EXCEPT !.timer = @ \/ ~r.stopped]
\* onFinal: the unregistering request sets no timer.
Final(r, k, ok) ==
    LET seen == [r EXCEPT !.registered = ok]
    IN IF k = "full" THEN Rearmed(seen) ELSE seen

TimerFires ==
    /\ registrar.timer
    /\ registrar' = [registrar EXCEPT !.timer = FALSE]
    /\ asking' = [asking EXCEPT !["full"] = Plain]

\* Mutant: a request that cannot be signed ends the loop.
Challenged_gives_up(k) ==
    /\ asking[k].at = "plain"
    /\ \E signed \in BOOLEAN :
         asking' = [asking EXCEPT ![k] = IF signed THEN Signed(1) ELSE Idle]
    /\ UNCHANGED registrar

\* 401 or 407: the request is signed for the first name, or cannot be signed.
Challenged(k) ==
    /\ asking[k].at = "plain"
    /\ \/ asking' = [asking EXCEPT ![k] = Signed(1)] /\ UNCHANGED registrar
       \/ asking' = [asking EXCEPT ![k] = Idle] /\ registrar' = Rearmed(registrar)
\* 403 for a name: the next one is signed, if there is one left.
NextName(k) ==
    /\ asking[k].at = "signed" /\ asking[k].user < SipUsers
    /\ \/ /\ asking' = [asking EXCEPT ![k] = Signed(asking[k].user + 1)]
          /\ UNCHANGED registrar
       \/ asking' = [asking EXCEPT ![k] = Idle] /\ registrar' = Rearmed(registrar)

\* The provider accepts or refuses.
ProviderAnswers(k) ==
    /\ asking[k].at # "none"
    /\ asking' = [asking EXCEPT ![k] = Idle]
    /\ \E ok \in BOOLEAN : registrar' = Final(registrar, k, ok)

\* No response: registered keeps what it said.
NoResponse(k) ==
    /\ asking[k].at # "none"
    /\ asking' = [asking EXCEPT ![k] = Idle]
    /\ registrar' = Rearmed(registrar)

\* stop, on SIGTERM: the request under way goes on.
Stop ==
    /\ ~registrar.stopped
    /\ registrar' = [registrar EXCEPT !.stopped = TRUE, !.timer = FALSE]
    /\ asking' = [asking EXCEPT !["zero"] = Plain]

SipAnswer(k) == Challenged(k) \/ NextName(k) \/ ProviderAnswers(k) \/ NoResponse(k)
SipNext == TimerFires \/ Stop \/ \E k \in Requests : SipAnswer(k)
SipSpec == SipInit /\ [][SipNext]_gvars

-----------------------------------------------------------------------------
\* Every variable keeps its type.
SipTypeOK ==
    /\ registrar \in [stopped: BOOLEAN, timer: BOOLEAN, registered: BOOLEAN]
    /\ asking \in [Requests -> {Idle, Plain} \cup {Signed(n) : n \in 1..SipUsers}]

\* While the trunk runs the registration goes on in one loop: a timer or a
\* request, never neither and never both; after stop() no timer is left that
\* would register the number again.
OneRegisterLoop ==
    IF registrar.stopped THEN ~registrar.timer
    ELSE registrar.timer <=> asking["full"].at = "none"
=============================================================================
