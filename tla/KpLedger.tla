------------------------------ MODULE KpLedger ------------------------------
(***************************************************************************)
(* What the pilot hold promises of a deal's commercial proposals (KP),     *)
(* whatever turns, letters, hints and clicks do to the deal meanwhile: the *)
(* deal leaves the hold only when staff let the standing price out, and a  *)
(* client agrees only to the standing price, off hold and let out.         *)
(***************************************************************************)
CONSTANTS
    Kps,
    NoKp        \* no price stands
VARIABLES
    offer,      \* the KP that stands
    held,       \* whether the deal is on hold
    out,        \* KP that staff let out or that need no approval
    agreed      \* KP the client's consent made a contract of

Init == offer = NoKp /\ held = FALSE /\ out = {} /\ agreed = {}

\* A new price stands: one that staff are yet to see, or one that may go out.
Quote(k) == offer' = k /\ UNCHANGED <<held, out, agreed>>
QuoteOut(k) == offer' = k /\ out' = out \cup {k} /\ UNCHANGED <<held, agreed>>

Withdraw == offer' = NoKp /\ UNCHANGED <<held, out, agreed>>

\* The price that stands is put on hold as it is.
Hold == offer # NoKp /\ held' = TRUE /\ UNCHANGED <<offer, out, agreed>>

\* A decision on one KP, be it the one that stands or an older one.
LetOut(k) == out' = out \cup {k} /\ UNCHANGED <<offer, held, agreed>>

\* The end of the hold lets the standing KP out, and an older one whose messages
\* were withheld.
Lift(k) ==
    /\ held' = FALSE
    /\ out' = out \cup ({offer, k} \ {NoKp})
    /\ UNCHANGED <<offer, agreed>>

Agree ==
    /\ offer \in out \ {NoKp}
    /\ ~held
    /\ agreed' = agreed \cup {offer}
    /\ UNCHANGED <<offer, held, out>>

Next ==
    \/ Withdraw \/ Hold \/ Agree
    \/ \E k \in Kps : Quote(k) \/ QuoteOut(k) \/ LetOut(k)
    \/ \E k \in Kps \cup {NoKp} : Lift(k)

Spec == Init /\ [][Next]_<<offer, held, out, agreed>>
=============================================================================
