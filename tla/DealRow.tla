------------------------------- MODULE DealRow -------------------------------
(***************************************************************************)
(* One row of the `deals` table, its rows of `escalations`, and the        *)
(* handler invocations ("calls") that work on them.  Every handler of the  *)
(* orchestrator and of the API is a sequence of short transactions; what   *)
(* it read in an earlier one stays in a local variable `deal`, and the     *)
(* later ones write `{**(deal.metadata), ...}` back from that copy.  The   *)
(* copy is calls[c].row; each step of a call is one transaction.           *)
(***************************************************************************)
EXTENDS Naturals, FiniteSets

CONSTANTS
    Calls,          \* handler invocations; each is used at most once
    None,           \* no previous status, no offer, no batch
    MaxInFlight,    \* how many handlers may be between two transactions
    MayFail,        \* whether a handler may die between two transactions
    HumanKp,        \* answers of _require_human_kp_approve: {TRUE} in the pilot
    GptStages,      \* next_stage values the concierge may propose
    Inputs,         \* bound: what clients, cargo and staff may bring up; a
                    \* client's intents are among it
    StaffBudget     \* bound: staff clicks considered

Statuses == {"intake", "sizing", "customs", "quoting", "pricing", "negotiation",
             "contract", "execution", "awaiting_manager",
             "closed_won", "closed_lost", "cancelled"}

\* "question" stands for every intent that is only answered (tracking, claim,
\* request_contract_change too).
Intents == {"question", "recalculate", "request_discount", "accept_offer",
            "accept_contract", "payment_sent"}
AllInputs == Intents \cup {
              "turn", "hint", "approve_kp", "cut3", "fallback",
              "grey", "hard_block", "url", "ops", "customs", "restricted",
              "no_channels", "price_review",
              "pause", "resume", "takeover", "reject", "close", "escalate",
              "decide"}
May(input) == input \in Inputs

ASSUME DealAssumption ==
    /\ None \notin Calls \X (1..2)
    /\ None \notin Statuses
    /\ MaxInFlight \in Nat
    /\ MayFail \in BOOLEAN
    /\ HumanKp \subseteq BOOLEAN
    /\ GptStages \subseteq Statuses
    /\ Inputs \subseteq AllInputs
    /\ StaffBudget \in Nat

VARIABLES
    deal,       \* the row of `deals`
    rows,       \* the deal's rows of `escalations`
    calls,      \* per call: where it stands and its local copy of the row
    clicks,     \* staff clicks so far (bounded by StaffBudget)
    released,   \* commercial proposals (KP) staff let out, or that need no approval
    shown,      \* KP whose price reached the client
    accepted,   \* KP the client's consent moved the deal to `contract` with
    mailings,   \* batches of held RFQ letters handed to the mail queue
    swallowed   \* errors a quote swallowed: its batch was not announced, or not
                \* read back

vars == <<deal, rows, calls, clicks, released, shown, accepted, mailings,
          swallowed>>

(***************************************************************************)
(* A KP, and a batch of held RFQ letters, are named by the call and the    *)
(* quote within it that made them: a client turn can quote twice.          *)
(***************************************************************************)
Tags == Calls \X (1..2)
Maybe(S) == S \cup {None}

\* metadata: kp is kp_hold (a key that may be absent), pending is
\* pending_kp_messages, batch/rfq are rfq_preflight and its status, attempted
\* stands for rfq_attempted or a non-empty *_email_jobs list, mode is what the
\* staff flags manager_gate, hold_rfq, consult_manager amount to.
Meta == [kp: {"unset", "on", "off"}, pending: Maybe(Tags), batch: Maybe(Tags),
         rfq: {"none", "pending", "sent", "rejected"}, attempted: BOOLEAN,
         mode: {"open", "gate", "hold"}]

\* An offer may carry a price (offer # None) and still say quotes_pending: the
\* 3% cut prices an offer that was withdrawn.
Deal == [status: Statuses, previous: Maybe(Statuses), escalate: BOOLEAN,
         paused: BOOLEAN, takeover: BOOLEAN, offer: Maybe(Tags),
         quotesPending: BOOLEAN, meta: Meta]

\* "review" stands for every reason that only asks a person to look.
Reasons == {"rfq_preflight", "human_kp_approve", "review"}
Rows == {r \in [reason: Reasons, about: Maybe(Tags),
                status: {"pending", "approved", "rejected"}] :
           r.reason # "review" => r.about # None}

FreshDeal ==
    [status |-> "intake", previous |-> None, escalate |-> FALSE, paused |-> FALSE,
     takeover |-> FALSE, offer |-> None, quotesPending |-> FALSE,
     meta |-> [kp |-> "unset", pending |-> None, batch |-> None, rfq |-> "none",
               attempted |-> FALSE, mode |-> "open"]]

Kinds == {"none", "turn", "hint", "approve_kp", "flush", "fallback", "cut3"}
PCs == {"idle", "done",
        "merge", "grey", "urlEsc", "urlReload", "plan", "settled", "hardEsc", "hardSet", "hardIntake",
        "opsEsc", "opsSet", "life",
        "begin", "legal", "legalEsc", "scheme", "mail", "pfRead", "pfStore",
        "pfEsc", "reload", "offer", "withdraw", "publish", "kpEsc", "kpHold",
        "mark", "hintPatch", "hintPost", "hintApply", "kpRelease", "cutPatch",
        "flushRead", "flushMail", "flushMark"}

Call == [pc: PCs, kind: Kinds, round: 1..2, row: Deal, body: Meta,
         intent: Intents, again: BOOLEAN, send: BOOLEAN, discount: BOOLEAN,
         seen: Maybe(Tags)]

Unused == [pc |-> "idle", kind |-> "none", round |-> 1, row |-> FreshDeal,
           body |-> FreshDeal.meta, intent |-> "question", again |-> FALSE,
           send |-> FALSE, discount |-> FALSE, seen |-> None]
Finished == [Unused EXCEPT !.pc = "done"]

InFlight == {c \in Calls : calls[c].pc \notin {"idle", "done"}}
At(c, pc) == calls[c].pc = pc
Row(c) == calls[c].row
Tag(c) == <<c, calls[c].round>>

\* What a call does to itself: begin, move on with the row it just read or
\* wrote, or return.
Begin(c, call) ==
    /\ At(c, "idle")
    /\ Cardinality(InFlight) < MaxInFlight
    /\ calls' = [calls EXCEPT ![c] = call]
Goto(c, pc, row) == calls' = [calls EXCEPT ![c].pc = pc, ![c].row = row]
Finish(c) == calls' = [calls EXCEPT ![c] = Finished]

Pending(reason) == {r \in rows : r.reason = reason /\ r.status = "pending"}

\* create_escalation: one transaction that leaves an already pending row of
\* the same reason alone.  Its SELECT may predate a row another running
\* handler commits, and two reasons that "review" stands for do not exclude
\* each other.
DuplicateEscalation(reason) ==
    /\ Pending(reason) # {}
    /\ UNCHANGED <<deal, rows>>
NewEscalation(c, reason, about) ==
    /\ \/ Pending(reason) = {}
       \/ reason = "review"
       \/ InFlight \ {c} # {}
    /\ deal' = [deal EXCEPT !.previous = deal.status,
                            !.status = "awaiting_manager",
                            !.escalate = TRUE]
    /\ rows' = rows \cup {[reason |-> reason, about |-> about,
                           status |-> "pending"]}
CreateEscalation(c, reason, about) ==
    DuplicateEscalation(reason) \/ NewEscalation(c, reason, about)

Rank == [s \in {"intake", "sizing", "customs", "quoting", "pricing",
                "negotiation", "contract", "execution"} |->
           CASE s = "intake" -> 0 [] s = "sizing" -> 1 [] s = "customs" -> 2
             [] s = "quoting" -> 3 [] s = "pricing" -> 4
             [] s = "negotiation" -> 5 [] s = "contract" -> 6
             [] s = "execution" -> 7]

\* _hold_deal_stage(prev, nxt)
HoldStage(prev, nxt) ==
    CASE nxt = "awaiting_manager" ->
           IF prev = "awaiting_manager" THEN "intake" ELSE prev
      [] nxt \in {"closed_won", "closed_lost", "cancelled"} -> nxt
      [] OTHER -> IF prev \in DOMAIN Rank /\ Rank[nxt] < Rank[prev]
                  THEN prev ELSE nxt
==============================================================================
