----------------------------- MODULE ClientTurn -----------------------------
(***************************************************************************)
(* POST /process: one client message is answered.  A turn that is split    *)
(* off into a new order works on another row and is not shown here.        *)
(***************************************************************************)
EXTENDS FreightQuote

Might(input, pcs) == IF May(input) THEN pcs ELSE {}

Turn == [Unused EXCEPT !.kind = "turn", !.pc = "merge", !.row = deal]

\* A paused or taken-over deal only records the message.  A grey scheme is
\* refused and escalated without asking the concierge.
StartTurn(c) ==
    /\ May("turn")
    /\ \/ /\ deal.paused \/ deal.takeover
          /\ Begin(c, Finished)
       \/ /\ ~deal.paused /\ ~deal.takeover
          /\ \E pc \in {"merge"} \cup Might("grey", {"grey"}) : Begin(c, [Turn EXCEPT !.pc = pc])
    /\ UNCHANGED <<deal, rows, clicks, ghosts>>

GreyScheme(c) ==
    /\ At(c, "grey")
    /\ CreateEscalation(c, "review", None)
    /\ Finish(c)
    /\ UNCHANGED <<clicks, ghosts>>

\* Whether this turn may quote is decided by the stage it stored, whatever the
\* row says when it gets there.
Planned(row) == IF row.status \in {"contract", "execution"} THEN "settled" ELSE "plan"

\* The concierge's cargo, route and stage are merged; status comes from the
\* stage held against the status read at the start, metadata from that copy.
MergeTurn(c) ==
    /\ At(c, "merge")
    /\ \E gpt \in GptStages :
         LET row == [deal EXCEPT !.status = HoldStage(Row(c).status, gpt),
                                 !.meta = Row(c).meta]
         IN  \E pc \in {Planned(row)} \cup Might("url", {"urlEsc"})
                            \cup Might("hard_block", {"hardEsc", "hardIntake"}) :
               UpdateThen(c, pc, row)
    /\ UNCHANGED <<rows, clicks, ghosts>>

\* product_url_unresolved, after which the row is read again.
UrlEscalate(c) ==
    /\ At(c, "urlEsc")
    /\ CreateEscalation(c, "review", None)
    /\ Goto(c, "urlReload", Row(c))
    /\ UNCHANGED <<clicks, ghosts>>

UrlReload(c) ==
    /\ At(c, "urlReload")
    /\ Goto(c, Planned(Row(c)), deal)
    /\ UNCHANGED <<deal, rows, clicks, ghosts>>

\* A hard block escalates (unless that is already pending), then stores the
\* status: awaiting_manager only if this turn raised the escalation.
HardEscalate(c) ==
    /\ At(c, "hardEsc")
    /\ \/ DuplicateEscalation("review") /\ Goto(c, "hardIntake", Row(c))
       \/ NewEscalation(c, "review", None) /\ Goto(c, "hardSet", Row(c))
    /\ UNCHANGED <<clicks, ghosts>>

HardSet(c) ==
    /\ calls[c].pc \in {"hardSet", "hardIntake"}
    /\ deal' = [deal EXCEPT
                  !.status = IF At(c, "hardSet") THEN "awaiting_manager" ELSE "intake",
                  !.meta = Row(c).meta]
    /\ Finish(c)
    /\ UNCHANGED <<rows, clicks, ghosts>>

\* The plan wants a price and no quotes_pending, the lifecycle only a price.
Priced(row) == row.offer # None
HasOffer(row) == Priced(row) /\ ~row.quotesPending

\* What the turn does next, from its copy: quote (or ask suppliers only), or
\* go straight to the lifecycle.
PlanTurn(c) ==
    /\ calls[c].pc \in {"plan", "settled"}
    /\ \E intent \in Intents \cap Inputs, ready, wantRecalc, hinted, fullQuote \in BOOLEAN :
         LET row == Row(c)
             canQuote == ready /\ At(c, "plan")
             firstQuote == ~row.meta.attempted /\ ~HasOffer(row)
             discount == hinted /\ intent = "request_discount" /\ HasOffer(row)
             quote == /\ canQuote
                      /\ \/ firstQuote \/ wantRecalc \/ discount
                         \/ fullQuote /\ ~HasOffer(row)
             next(pc) == [calls[c] EXCEPT
                            !.pc = pc,
                            !.intent = intent,
                            !.again = canQuote /\ ~wantRecalc /\ intent = "recalculate",
                            !.send = quote /\ (firstQuote \/ wantRecalc),
                            !.discount = quote /\ discount]
         IN  /\ hinted /\ intent = "recalculate" => wantRecalc
             /\ \E pc \in IF quote THEN {"begin"} \cup Might("ops", {"opsEsc"})
                          ELSE {"life"} :
                  calls' = [calls EXCEPT ![c] = next(pc)]
    /\ UNCHANGED <<deal, rows, clicks, ghosts>>

\* run_ops_rfq: buyout or sourcing without a freight formula.
OpsEscalate(c) ==
    /\ At(c, "opsEsc")
    /\ CreateEscalation(c, "review", None)
    /\ Goto(c, "opsSet", Row(c))
    /\ UNCHANGED <<clicks, ghosts>>

OpsSet(c) ==
    /\ At(c, "opsSet")
    /\ UpdateThen(c, "life",
                  [deal EXCEPT !.status = "awaiting_manager",
                               !.meta = [Row(c).meta EXCEPT !.attempted = TRUE]])
    /\ UNCHANGED <<rows, clicks, ghosts>>

(***************************************************************************)
(* apply_lifecycle: one action per outcome, all on the turn's copy.        *)
(***************************************************************************)
Life(c, intent) == At(c, "life") /\ calls[c].intent = intent

\* Mutant: consent is not checked against kp_hold.
Held_flags_only(row) == row.escalate \/ row.paused

Held(row) == row.escalate \/ row.paused \/ row.meta.kp = "on"

\* A changed price was asked for and this turn has not quoted for it.
Recalculate(c) ==
    /\ Life(c, "recalculate")
    /\ IF calls[c].again
       THEN calls' = [calls EXCEPT ![c].pc = "begin", ![c].round = 2, ![c].send = TRUE]
       ELSE Finish(c)
    /\ UNCHANGED <<deal, rows, clicks, ghosts>>

AcceptOffer(c) ==
    /\ Life(c, "accept_offer")
    /\ Priced(Row(c))
    /\ ~Held(Row(c))
    /\ deal' = [deal EXCEPT !.status = "contract", !.meta = Row(c).meta]
    /\ accepted' = accepted \cup {Row(c).offer}
    /\ shown' = shown \cup {Row(c).offer}
    /\ Finish(c)
    /\ UNCHANGED <<rows, clicks, released, mailings, swallowed>>

\* accept_contract, consent to a priceless deal under contract, and a payment
\* notice all start the execution.
Execute(c) ==
    /\ \/ Life(c, "accept_contract")
       \/ Life(c, "payment_sent")
       \/ /\ Life(c, "accept_offer")
          /\ ~Priced(Row(c))
          /\ Row(c).status = "contract"
    /\ deal' = [deal EXCEPT !.status = "execution", !.meta = Row(c).meta]
    /\ Finish(c)
    /\ UNCHANGED <<rows, clicks, ghosts>>

\* A question about a running offer is answered with a reminder of its price.
Remind(c) ==
    /\ Life(c, "question")
    /\ Priced(Row(c))
    /\ Row(c).status \in {"negotiation", "pricing"}
    /\ shown' = shown \cup {Row(c).offer}
    /\ Finish(c)
    /\ UNCHANGED <<deal, rows, clicks, released, accepted, mailings, swallowed>>

\* Everything else only answers.
JustAnswer(c) ==
    /\ At(c, "life")
    /\ \/ calls[c].intent \in {"question", "request_discount"}
       \/ /\ calls[c].intent = "accept_offer"
          /\ IF Priced(Row(c)) THEN Held(Row(c)) ELSE Row(c).status # "contract"
    /\ Finish(c)
    /\ UNCHANGED <<deal, rows, clicks, ghosts>>

TurnStep(c) ==
    \/ StartTurn(c) \/ GreyScheme(c) \/ MergeTurn(c) \/ UrlEscalate(c)
    \/ UrlReload(c) \/ HardEscalate(c) \/ HardSet(c) \/ PlanTurn(c)
    \/ OpsEscalate(c) \/ OpsSet(c) \/ Recalculate(c) \/ AcceptOffer(c)
    \/ Execute(c) \/ Remind(c) \/ JustAnswer(c)
==============================================================================
