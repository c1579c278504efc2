------------------------------ MODULE DealDesk ------------------------------
(***************************************************************************)
(* One deal between its client, the concierge that quotes it and the staff *)
(* that approve prices and supplier letters.                               *)
(***************************************************************************)
EXTENDS ClientTurn, StaffDesk

Init ==
    /\ \E mode \in {"open", "gate"} : deal = [FreshDeal EXCEPT !.meta.mode = mode]
    /\ rows = {}
    /\ calls = [c \in Calls |-> Unused]
    /\ clicks = 0
    /\ released = {}
    /\ shown = {}
    /\ accepted = {}
    /\ mailings = {}
    /\ swallowed = {}

\* A handler dies between two of its transactions (process restart, database
\* or network error): what it wrote stays.
Fail(c) ==
    /\ MayFail
    /\ c \in InFlight
    /\ Finish(c)
    /\ UNCHANGED <<deal, rows, clicks, ghosts>>

Next ==
    \/ \E c \in Calls : TurnStep(c) \/ Quote(c) \/ StaffStep(c) \/ Fail(c)
    \/ StaffClick

Spec == Init /\ [][Next]_vars

-----------------------------------------------------------------------------
Mailings == [by: Calls, batch: Maybe(Tags), seen: Maybe(Tags)]

\* Every variable keeps the type its column or ghost has.
TypeOK ==
    /\ deal \in Deal
    /\ rows \subseteq Rows
    /\ calls \in [Calls -> Call]
    /\ clicks \in 0..StaffBudget
    /\ released \subseteq Tags
    /\ shown \subseteq Tags
    /\ accepted \subseteq Tags
    /\ mailings \subseteq Mailings
    /\ swallowed \subseteq Tags \X {"escalation", "reload"}

\* No price becomes a contract by the client's consent unless staff let that
\* very price out (or no approval is required): what apply_lifecycle's guard
\* on escalate, paused and kp_hold is for.  It needs the row the guard reads
\* to be the row as it is, so it is a claim about handlers run one by one.
AcceptedWasReleased == accepted \subseteq released

\* A batch of held RFQ letters is mailed by at most one flush, however often
\* staff press "approve" on however many escalations.
MailedOnce == \A m, n \in mailings : m.batch = n.batch => m.by = n.by

\* A batch staff have yet to decide on does not vanish from the deal: it is
\* sent, rejected or replaced by a newer pending batch.  This is what the
\* reload after enqueue_freight_quote_emails protects; a reload that fails does
\* wipe it, so this is claimed of quotes that swallow no error.
BatchKept ==
    deal.meta.rfq = "pending" =>
        \/ deal'.meta.rfq = "pending"
        \/ deal'.meta.batch = deal.meta.batch /\ deal'.meta.rfq \in {"sent", "rejected"}
PendingBatchKept == [][BatchKept]_vars

\* Whatever overlaps or crashes, a deal never sits on withheld KP messages
\* that nobody was told about: run_freight_quote announces a KP before it
\* puts it on hold, and no later write of an old copy can change that.
HeldKpAnnounced ==
    deal.meta.pending # None => \E r \in rows : r.reason = "human_kp_approve"

\* A quote swallowed both the error of its batch's announcement and the error
\* of reading the row back: its stale copy wipes the batch nobody was told of.
Unheard == \E t \in Tags : {<<t, "escalation">>, <<t, "reload">>} \subseteq swallowed

\* Nor is a deal flagged for staff with nothing to decide: there is an
\* escalation, or a batch whose escalation failed after it was stored.  It
\* takes two errors swallowed by the same quote to leave the flag alone, no
\* single one does, nor a handler dying anywhere.  It is claimed for handlers
\* run one by one: an old copy written back by another handler before that
\* escalation would wipe the batch and leave the flag.
FlagHasCause == deal.escalate => rows # {} \/ deal.meta.rfq = "pending" \/ Unheard

\* Each of the desk's transactions is a step of the ledger of prices, or none of
\* its business: no metadata written back by a turn, a hint, a flush or a worker
\* takes a deal off hold, only approve-kp does, which lets the standing price
\* out; what is put on hold is the price that was just published; and consent is
\* to the standing price.  Like AcceptedWasReleased, for handlers run one by one.
Kp == INSTANCE KpLedger WITH Kps <- Tags, NoKp <- None,
                             offer <- deal.offer, held <- deal.meta.kp = "on",
                             out <- released, agreed <- accepted
KeepsKpLedger == Kp!Spec

-----------------------------------------------------------------------------
\* What the project's own words claim and the code does not keep.

\* EscalationsPage.tsx: "Approve возвращает сделку в работу".  Approving the
\* escalation of a KP leaves the deal working, or in the hands of a person.
ApproveReturnsToWork ==
    [][\A r \in rows : r.reason = "human_kp_approve" /\ Approve(r)
           => deal'.takeover \/ ~deal'.paused]_vars

\* quote_pipeline.py: "Pilot hold: calculate KP but do not send ₽ to client
\* until staff approve".
NoPriceBeforeApproval == shown \subseteq released

\* queues.py: "Preflight RFQ: N адрес(ов). Проверьте scrub и список." - what
\* is mailed is the batch whose preview the approved escalation carried.
MailedWasPreviewed == \A m \in mailings : m.batch = m.seen
==============================================================================
