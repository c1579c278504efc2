---------------------------- MODULE FreightQuote ----------------------------
(***************************************************************************)
(* run_freight_quote and what it calls to hold or mail the RFQ letters.    *)
(* It is entered at "begin" by a client turn, a staff hint or the API      *)
(* fallback, with the caller's copy of the row.                            *)
(***************************************************************************)
EXTENDS DealRow

ghosts == <<released, shown, accepted, mailings, swallowed>>

\* Where the caller goes on: a turn applies the lifecycle after its first
\* quote, the API fallback writes its time stamp, a staff hint returns.
Return(c, row) ==
    CASE calls[c].kind = "turn" /\ calls[c].round = 1 -> Goto(c, "life", row)
      [] calls[c].kind = "fallback" -> Goto(c, "mark", row)
      [] OTHER -> Finish(c)

\* update_deal(...) RETURNING *: the row written is the call's new copy.
UpdateThen(c, pc, row) == deal' = row /\ Goto(c, pc, row)

\* First update: status, with the metadata of the caller's copy.
QuoteBegin(c) ==
    /\ At(c, "begin")
    /\ \E customs \in {FALSE, May("customs")} :
         UpdateThen(c, IF customs THEN "legal"
                       ELSE IF calls[c].send THEN "scheme" ELSE "offer",
                    [deal EXCEPT !.status = IF customs THEN "customs" ELSE "quoting",
                                 !.meta = Row(c).meta])
    /\ UNCHANGED <<rows, clicks, ghosts>>

\* Customs: the legal research is stored; restricted or dual-use goods also
\* ask for a compliance decision, which does not stop the quote.
QuoteLegal(c) ==
    /\ At(c, "legal")
    /\ \E restricted \in {FALSE, May("restricted")} :
         UpdateThen(c, IF restricted THEN "legalEsc"
                       ELSE IF calls[c].send THEN "scheme" ELSE "offer",
                    [deal EXCEPT !.status = "quoting", !.meta = Row(c).meta])
    /\ UNCHANGED <<rows, clicks, ghosts>>

QuoteCompliance(c) ==
    /\ At(c, "legalEsc")
    /\ CreateEscalation(c, "review", None)
    /\ Goto(c, IF calls[c].send THEN "scheme" ELSE "offer", Row(c))
    /\ UNCHANGED <<clicks, ghosts>>

\* The catalogue scheme is put on the card when it has none: again the
\* metadata of the copy, and the copy itself is not refreshed.
SaveScheme(c) ==
    /\ At(c, "scheme")
    /\ \/ deal' = [deal EXCEPT !.meta = Row(c).meta]
       \/ UNCHANGED deal
    /\ Goto(c, "mail", Row(c))
    /\ UNCHANGED <<rows, clicks, ghosts>>

\* "hold": no letter, one more metadata update, whose error is swallowed.  "gate": the letters wait for
\* staff, unless nothing can be sent.  "open": they are mailed at once.
MailRfq(c) ==
    /\ At(c, "mail")
    /\ \/ /\ Row(c).meta.mode = "hold"
          /\ \/ deal' = [deal EXCEPT !.meta = Row(c).meta]
             \/ MayFail /\ UNCHANGED deal
          /\ Goto(c, "reload", Row(c))
       \/ /\ Row(c).meta.mode = "gate"
          /\ \E pc \in {"pfRead", "reload"} : Goto(c, pc, Row(c))
          /\ UNCHANGED deal
       \/ /\ Row(c).meta.mode = "open"
          /\ Goto(c, "reload", Row(c))
          /\ UNCHANGED deal
    /\ UNCHANGED <<rows, clicks, ghosts>>

\* An error of the database that the quote passes over.
Swallow(c, what) == MayFail /\ swallowed' = swallowed \cup {<<Tag(c), what>>}

\* _store_rfq_preflight: read, store the batch, then announce it.
PreflightRead(c) ==
    /\ At(c, "pfRead")
    /\ Goto(c, "pfStore", deal)
    /\ UNCHANGED <<deal, rows, clicks, ghosts>>

PreflightStore(c) ==
    /\ At(c, "pfStore")
    /\ deal' = [deal EXCEPT !.status = "awaiting_manager",
                            !.escalate = TRUE,
                            !.meta = [Row(c).meta EXCEPT !.batch = Tag(c),
                                                         !.rfq = "pending"]]
    /\ Goto(c, "pfEsc", Row(c))
    /\ UNCHANGED <<rows, clicks, ghosts>>

\* The escalation carries this batch as its preview; its failure is logged
\* and swallowed.
PreflightEscalate(c) ==
    /\ At(c, "pfEsc")
    /\ \/ CreateEscalation(c, "rfq_preflight", Tag(c)) /\ UNCHANGED swallowed
       \/ UNCHANGED <<deal, rows>> /\ Swallow(c, "escalation")
    /\ Goto(c, "reload", Row(c))
    /\ UNCHANGED <<clicks, released, shown, accepted, mailings>>

\* Mutant: the copy is not read again.
Reload_stale(c) ==
    /\ At(c, "reload")
    /\ Goto(c, "offer", Row(c))
    /\ UNCHANGED <<deal, rows, clicks, ghosts>>

\* "Reload: preflight path writes metadata.rfq_preflight; stale deal would
\* wipe it."  When the read fails the quote goes on with the stale copy.
Reload(c) ==
    /\ At(c, "reload")
    /\ \/ Goto(c, "offer", deal) /\ UNCHANGED swallowed
       \/ Goto(c, "offer", Row(c)) /\ Swallow(c, "reload")
    /\ UNCHANGED <<deal, rows, clicks, released, shown, accepted, mailings>>

\* No letter went out, none is held, no rate came: missing_partner_channels.
\* Without a rate the offer can only be withdrawn.
NoPartnerChannels(c) ==
    /\ May("no_channels")
    /\ At(c, "offer")
    /\ Row(c).meta.rfq # "pending"
    /\ calls[c].send => Row(c).meta.mode # "hold"
    /\ CreateEscalation(c, "review", None)
    /\ Goto(c, "withdraw", Row(c))
    /\ UNCHANGED <<clicks, ghosts>>

\* No supplier rate yet: quotes_pending, the price is withdrawn, the pause is
\* lifted, and the deal waits for staff only if a batch is pending.
WithdrawOffer(c) ==
    /\ calls[c].pc \in {"offer", "withdraw"}
    /\ LET held == Row(c).meta.rfq = "pending"
           row == [deal EXCEPT
                     !.status = IF held THEN "awaiting_manager" ELSE "quoting",
                     !.paused = FALSE,
                     !.escalate = held,
                     !.offer = None,
                     !.quotesPending = TRUE,
                     !.meta = [Row(c).meta EXCEPT !.attempted = TRUE]]
       IN  deal' = row /\ Return(c, row)
    /\ UNCHANGED <<rows, clicks, ghosts>>

\* A rate came.  Invoice, amount and margin rules may ask for a review first.
ReviewPrice(c) ==
    /\ May("price_review")
    /\ calls[c].pc \in {"offer", "publish"}
    /\ CreateEscalation(c, "review", None)
    /\ Goto(c, "publish", Row(c))
    /\ UNCHANGED <<clicks, ghosts>>

\* Mutant: the KP is put on hold without telling staff.
PublishOffer_silent(c) ==
    /\ calls[c].pc \in {"offer", "publish"}
    /\ LET row == [deal EXCEPT !.status = "pricing", !.offer = Tag(c),
                               !.quotesPending = FALSE,
                               !.meta = [Row(c).meta EXCEPT !.attempted = TRUE]]
       IN  UpdateThen(c, "kpHold", row)
    /\ UNCHANGED <<rows, clicks, ghosts>>

\* The priced offer is stored; unless a human must approve it, it goes to the
\* client with this answer.
PublishOffer(c) ==
    /\ calls[c].pc \in {"offer", "publish"}
    /\ \E human \in HumanKp :
         LET row == [deal EXCEPT
                       !.status = IF calls[c].discount THEN "negotiation" ELSE "pricing",
                       !.offer = Tag(c),
                       !.quotesPending = FALSE,
                       !.meta = [Row(c).meta EXCEPT !.attempted = TRUE]]
         IN  /\ deal' = row
             /\ IF human THEN Goto(c, "kpEsc", row) ELSE Return(c, row)
             /\ released' = IF human THEN released ELSE released \cup {Tag(c)}
             /\ shown' = IF human THEN shown ELSE shown \cup {Tag(c)}
    /\ UNCHANGED <<rows, clicks, accepted, mailings, swallowed>>

\* Pilot hold: announce the KP to staff, then put it and the deal on hold.
KpEscalate(c) ==
    /\ At(c, "kpEsc")
    /\ CreateEscalation(c, "human_kp_approve", Tag(c))
    /\ Goto(c, "kpHold", Row(c))
    /\ UNCHANGED <<clicks, ghosts>>

KpHold(c) ==
    /\ At(c, "kpHold")
    /\ LET row == [deal EXCEPT
                     !.status = "awaiting_manager",
                     !.escalate = TRUE,
                     !.paused = TRUE,
                     !.offer = Tag(c),
                     !.quotesPending = FALSE,
                     !.meta = [Row(c).meta EXCEPT !.kp = "on", !.pending = Tag(c)]]
       IN  deal' = row /\ Return(c, row)
    /\ UNCHANGED <<rows, clicks, ghosts>>

Quote(c) ==
    \/ QuoteBegin(c) \/ QuoteLegal(c) \/ QuoteCompliance(c) \/ SaveScheme(c)
    \/ MailRfq(c) \/ PreflightRead(c) \/ PreflightStore(c)
    \/ PreflightEscalate(c) \/ Reload(c) \/ NoPartnerChannels(c)
    \/ WithdrawOffer(c) \/ ReviewPrice(c) \/ PublishOffer(c)
    \/ KpEscalate(c) \/ KpHold(c)
==============================================================================
