------------------------------ MODULE StaffDesk ------------------------------
(***************************************************************************)
(* What staff do to a deal from the cabinet and the Telegram bot: single   *)
(* API transactions (clicks), and calls of several steps: a logistics hint *)
(* that re-quotes, approve-kp, the 3% cut, the flush of held RFQ letters   *)
(* that an approval triggers.  The workers' API-quote fallback is here too.*)
(***************************************************************************)
EXTENDS FreightQuote

Click == clicks < StaffBudget /\ clicks' = clicks + 1

(***************************************************************************)
(* Clicks.                                                                 *)
(***************************************************************************)
\* PATCH /deals/:id with {paused: true}; {paused, takeover: false};
\* {takeover, paused: true}; {status: "cancelled", escalate: false}.
Patch(row) ==
    /\ Click
    /\ deal' = row
    /\ UNCHANGED <<rows, calls, ghosts>>
Pause == May("pause") /\ Patch([deal EXCEPT !.paused = TRUE])
Resume == May("resume") /\ Patch([deal EXCEPT !.paused = FALSE, !.takeover = FALSE])
Takeover == May("takeover") /\ Patch([deal EXCEPT !.paused = TRUE, !.takeover = TRUE])
RejectDeal == May("reject") /\ Patch([deal EXCEPT !.status = "cancelled", !.escalate = FALSE])

\* POST /deals/:id/close on the orchestrator: no status is excluded.
CloseDeal == May("close") /\ \E s \in {"closed_won", "closed_lost"} : Patch([deal EXCEPT !.status = s])

\* POST /deals/:id/escalate: no check for a pending row.
ApiEscalate ==
    /\ May("escalate")
    /\ Click
    /\ deal' = [deal EXCEPT !.previous = deal.status,
                            !.status = "awaiting_manager", !.escalate = TRUE]
    /\ rows' = rows \cup {[reason |-> "review", about |-> None, status |-> "pending"]}
    /\ UNCHANGED <<calls, ghosts>>

\* POST /escalations/:id/decide: any row, decided or not.
Decided(r, decision) == (rows \ {r}) \cup {[r EXCEPT !.status = decision]}

\* The flush of an approved preflight is best effort: the request may be lost.
FlushAfter(r) ==
    IF r.reason = "rfq_preflight"
    THEN \/ \E c \in Calls : Begin(c, [Unused EXCEPT !.kind = "flush",
                                                    !.pc = "flushRead",
                                                    !.seen = r.about])
         \/ UNCHANGED calls
    ELSE UNCHANGED calls

Approve(r) ==
    /\ Click
    /\ rows' = Decided(r, "approved")
    /\ deal' = [deal EXCEPT
                  !.status = IF deal.previous # None THEN deal.previous
                             ELSE IF r.reason = "rfq_preflight" THEN "quoting"
                             ELSE "negotiation",
                  !.escalate = FALSE]
    /\ released' = IF r.reason = "human_kp_approve"
                   THEN released \cup {r.about} ELSE released
    /\ FlushAfter(r)
    /\ UNCHANGED <<shown, accepted, mailings, swallowed>>

\* Mutant: the rejection writes a deal status into metadata.rfq_preflight.
RejectPreflight_wrong_word(r) ==
    /\ Click
    /\ r.reason = "rfq_preflight"
    /\ rows' = Decided(r, "rejected")
    /\ deal' = [deal EXCEPT !.escalate = FALSE, !.meta.rfq = "cancelled"]
    /\ UNCHANGED <<calls, ghosts>>

\* "Reject preflight = do not send RFQ; keep deal open."
RejectPreflight(r) ==
    /\ Click
    /\ r.reason = "rfq_preflight"
    /\ rows' = Decided(r, "rejected")
    /\ deal' = [deal EXCEPT
                  !.escalate = FALSE,
                  !.status = IF deal.previous # None THEN deal.previous ELSE "quoting",
                  !.meta.rfq = "rejected"]
    /\ UNCHANGED <<calls, ghosts>>

RejectRow(r) ==
    /\ Click
    /\ r.reason # "rfq_preflight"
    /\ rows' = Decided(r, "rejected")
    /\ deal' = [deal EXCEPT !.status = "cancelled", !.escalate = FALSE]
    /\ UNCHANGED <<calls, ghosts>>

StaffClick ==
    \/ Pause \/ Resume \/ Takeover \/ RejectDeal \/ CloseDeal \/ ApiEscalate
    \/ May("decide") /\ \E r \in rows : Approve(r) \/ RejectPreflight(r) \/ RejectRow(r)

(***************************************************************************)
(* flush_rfq_preflight: read, mail, mark.                                  *)
(***************************************************************************)
\* Mutant: a batch that was already sent is flushed again.
FlushRead_unchecked(c) ==
    /\ At(c, "flushRead")
    /\ IF deal.meta.rfq # "none" THEN Goto(c, "flushMail", deal) ELSE Finish(c)
    /\ UNCHANGED <<deal, rows, clicks, ghosts>>

FlushRead(c) ==
    /\ At(c, "flushRead")
    /\ IF deal.meta.rfq = "pending" THEN Goto(c, "flushMail", deal) ELSE Finish(c)
    /\ UNCHANGED <<deal, rows, clicks, ghosts>>

FlushMail(c) ==
    /\ At(c, "flushMail")
    /\ mailings' = mailings \cup {[by |-> c, batch |-> Row(c).meta.batch,
                                   seen |-> calls[c].seen]}
    /\ Goto(c, "flushMark", Row(c))
    /\ UNCHANGED <<deal, rows, clicks, released, shown, accepted, swallowed>>

\* Mutant: the metadata is written anew with the batch alone.
FlushMark_anew(c) ==
    /\ At(c, "flushMark")
    /\ deal' = [deal EXCEPT !.meta = [FreshDeal.meta EXCEPT
                                        !.batch = Row(c).meta.batch,
                                        !.rfq = "sent",
                                        !.attempted = TRUE],
                            !.status = "quoting",
                            !.escalate = FALSE,
                            !.paused = FALSE]
    /\ Finish(c)
    /\ UNCHANGED <<rows, clicks, ghosts>>

FlushMark(c) ==
    /\ At(c, "flushMark")
    /\ deal' = [deal EXCEPT !.meta = [Row(c).meta EXCEPT !.rfq = "sent",
                                                         !.attempted = TRUE],
                            !.status = "quoting",
                            !.escalate = FALSE,
                            !.paused = FALSE]
    /\ Finish(c)
    /\ UNCHANGED <<rows, clicks, ghosts>>

(***************************************************************************)
(* approve-kp: SELECT, then one UPDATE and the messages.                   *)
(***************************************************************************)
StartApproveKp(c) ==
    /\ May("approve_kp")
    /\ Begin(c, [Unused EXCEPT !.kind = "approve_kp", !.pc = "kpRelease", !.row = deal])
    /\ UNCHANGED <<deal, rows, clicks, ghosts>>

\* A held KP goes to the client (a message may be lost: no chat, an enqueue
\* error); a deal that holds nothing goes to `contract`.
ReleaseKp(c) ==
    /\ At(c, "kpRelease")
    /\ LET row == Row(c)
           held == \/ row.meta.kp = "on"
                   \/ row.status = "awaiting_manager"
           release == held /\ (row.meta.pending # None \/ row.offer # None)
           kps == {row.offer, row.meta.pending} \ {None}
       IN  /\ deal' = [deal EXCEPT
                         !.status = IF release THEN "pricing" ELSE "contract",
                         !.escalate = FALSE,
                         !.paused = FALSE,
                         !.meta = [row.meta EXCEPT !.kp = "off", !.pending = None]]
           /\ released' = released \cup kps
           /\ \/ shown' = shown
              \/ release /\ shown' = shown \cup ({row.meta.pending} \ {None})
    /\ Finish(c)
    /\ UNCHANGED <<rows, clicks, accepted, mailings, swallowed>>

(***************************************************************************)
(* cut3: the bot reads the deal and patches a price 3% lower, set by staff.*)
(***************************************************************************)
StartCut(c) ==
    /\ May("cut3")
    /\ Begin(c, [Unused EXCEPT !.kind = "cut3", !.pc = "cutPatch", !.row = deal])
    /\ UNCHANGED <<deal, rows, clicks, ghosts>>

\* Without an offer the price comes from amount_rub, if an earlier KP left one;
\* the offer keeps the quotes_pending the bot read.
CutPatch(c) ==
    /\ At(c, "cutPatch")
    /\ \E offer \in {Tag(c)} \cup ({Row(c).offer} \cap {None}) :
         /\ deal' = [deal EXCEPT !.offer = offer,
                                 !.quotesPending = Row(c).quotesPending,
                                 !.escalate = FALSE,
                                 !.status = "negotiation"]
         /\ released' = released \cup ({offer} \ {None})
    /\ Finish(c)
    /\ UNCHANGED <<rows, clicks, shown, accepted, mailings, swallowed>>

(***************************************************************************)
(* A logistics hint (also "approve RFQ"): the bot reads the deal, patches  *)
(* it, and posts the metadata it read to apply-ops-hint.                   *)
(***************************************************************************)
StartHint(c) ==
    /\ May("hint")
    /\ \E mode \in {"open", "gate", "hold"} :
         Begin(c, [Unused EXCEPT !.kind = "hint", !.pc = "hintPatch",
                                 !.send = TRUE, !.body = [deal.meta EXCEPT !.mode = mode]])
    /\ UNCHANGED <<deal, rows, clicks, ghosts>>

\* A gated or held card is paused (a gated card whose staff named addresses
\* mails at once, mode "open").  The post to the orchestrator may not happen.
HintPatch(c) ==
    /\ At(c, "hintPatch")
    /\ \E gated \in BOOLEAN :
         /\ calls[c].body.mode # "open" => gated
         /\ deal' = [deal EXCEPT !.meta = calls[c].body, !.status = "quoting",
                                 !.paused = gated]
    /\ Goto(c, "hintPost", Row(c)) \/ Finish(c)
    /\ UNCHANGED <<rows, clicks, ghosts>>

HintPost(c) ==
    /\ At(c, "hintPost")
    /\ Goto(c, "hintApply", deal)
    /\ UNCHANGED <<deal, rows, clicks, ghosts>>

\* meta.update(body.metadata): a key the bot did not have survives.
MergeMeta(db, body) ==
    [body EXCEPT !.kp = IF body.kp = "unset" THEN db.kp ELSE body.kp,
                 !.pending = IF body.kp = "unset" THEN db.pending ELSE body.pending,
                 !.batch = IF body.rfq = "none" THEN db.batch ELSE body.batch,
                 !.rfq = IF body.rfq = "none" THEN db.rfq ELSE body.rfq]

\* rfq_attempted is dropped (job lists that stay keep the deal "attempted");
\* then the quote runs again, unless the hint asks for none.  The pause is kept
\* but for a gated card with staff addresses whose quote runs again.
HintApply(c) ==
    /\ At(c, "hintApply")
    /\ \E attempted \in {FALSE, Row(c).meta.attempted}, kept \in BOOLEAN :
         LET meta == [MergeMeta(Row(c).meta, calls[c].body) EXCEPT !.attempted = attempted]
             row == [deal EXCEPT !.meta = meta, !.status = "quoting", !.paused = kept]
         IN  /\ deal' = row
             /\ meta.mode # "open" => kept
             /\ \/ kept = (meta.mode # "open") /\ Goto(c, "begin", row)
                \/ Finish(c)
    /\ UNCHANGED <<rows, clicks, ghosts>>

(***************************************************************************)
(* run_api_quote_fallback: a quote without letters, for a deal that has no *)
(* price; live API quotes or a recent run also skip it.                    *)
(***************************************************************************)
StartFallback(c) ==
    /\ May("fallback")
    /\ deal.offer = None \/ deal.quotesPending
    /\ Begin(c, [Unused EXCEPT !.kind = "fallback", !.pc = "begin", !.row = deal])
    /\ UNCHANGED <<deal, rows, clicks, ghosts>>

FallbackMark(c) ==
    /\ At(c, "mark")
    /\ deal' = [deal EXCEPT !.meta = Row(c).meta]
    /\ Finish(c)
    /\ UNCHANGED <<rows, clicks, ghosts>>

StaffStep(c) ==
    \/ FlushRead(c) \/ FlushMail(c) \/ FlushMark(c)
    \/ StartApproveKp(c) \/ ReleaseKp(c) \/ StartCut(c) \/ CutPatch(c)
    \/ StartHint(c) \/ HintPatch(c) \/ HintPost(c) \/ HintApply(c)
    \/ StartFallback(c) \/ FallbackMark(c)
==============================================================================
