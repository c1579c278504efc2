--------------------------- MODULE DealDesk_proofs ---------------------------
(***************************************************************************)
(* What holds of DealDesk for every set of calls, every number of them     *)
(* overlapping, with and without crashes.                                  *)
(***************************************************************************)
EXTENDS DealDesk, TLAPS

-----------------------------------------------------------------------------
(* What the steps of a call do to `calls`.                                  *)

LEMMA TagType ==
    ASSUME TypeOK, NEW c \in Calls
    PROVE  Tag(c) \in Tags /\ Tag(c) # None
BY DealAssumption DEF TypeOK, Tag, Tags, Call

LEMMA RowType ==
    ASSUME TypeOK, NEW c \in Calls
    PROVE  /\ calls[c] \in Call
           /\ Row(c) \in Deal
           /\ Row(c).meta \in Meta
           /\ deal \in Deal
           /\ deal.meta \in Meta
BY DEF TypeOK, Row, Call, Deal

LEMMA UnusedType == Unused \in Call /\ Finished \in Call /\ FreshDeal \in Deal
<1>1. FreshDeal.meta \in Meta
  BY DEF FreshDeal, Meta, Maybe
<1>2. FreshDeal \in Deal
  BY <1>1 DEF FreshDeal, Deal, Statuses, Maybe
<1>3. Unused \in Call
  BY <1>1, <1>2 DEF Unused, Call, PCs, Kinds, Intents, Maybe
<1> QED
  BY <1>2, <1>3 DEF Finished, Call, PCs

LEMMA TurnType ==
    ASSUME TypeOK, NEW pc \in PCs
    PROVE  [Turn EXCEPT !.pc = pc] \in Call
<1>1. "turn" \in Kinds /\ "merge" \in PCs /\ deal \in Deal
  BY DEF Kinds, PCs, TypeOK
<1>2. [Unused EXCEPT !.kind = "turn"] \in Call
  BY <1>1, UnusedType DEF Call
<1>3. [[Unused EXCEPT !.kind = "turn"] EXCEPT !.pc = "merge"] \in Call
  BY <1>1, <1>2 DEF Call
<1>4. [[[Unused EXCEPT !.kind = "turn"] EXCEPT !.pc = "merge"] EXCEPT !.row = deal] \in Call
  BY <1>1, <1>3 DEF Call
<1>5. Turn \in Call
  BY <1>4 DEF Turn
<1> QED
  BY <1>5 DEF Call

LEMMA TurnsType ==
    ASSUME TypeOK
    PROVE  /\ Finished \in Call
           /\ \A pc \in {"merge", "grey"} : [Turn EXCEPT !.pc = pc] \in Call
<1>1. \A pc \in {"merge", "grey"} : pc \in PCs
  BY DEF PCs
<1> QED
  BY <1>1, TurnType, UnusedType

\* The calls of staff that begin with the deal's row.
LEMMA StaffCallType ==
    ASSUME TypeOK
    PROVE  /\ [Unused EXCEPT !.kind = "approve_kp", !.pc = "kpRelease", !.row = deal] \in Call
           /\ [Unused EXCEPT !.kind = "cut3", !.pc = "cutPatch", !.row = deal] \in Call
           /\ [Unused EXCEPT !.kind = "fallback", !.pc = "begin", !.row = deal] \in Call
<1>1. ASSUME NEW kind \in Kinds, NEW pc \in PCs
      PROVE  [Unused EXCEPT !.kind = kind, !.pc = pc, !.row = deal] \in Call
  <2>1. deal \in Deal
    BY DEF TypeOK
  <2> QED
    BY <2>1, UnusedType DEF Call
<1>2. /\ "approve_kp" \in Kinds /\ "cut3" \in Kinds /\ "fallback" \in Kinds
      /\ "kpRelease" \in PCs /\ "cutPatch" \in PCs /\ "begin" \in PCs
  BY DEF Kinds, PCs
<1> QED
  BY <1>1, <1>2

LEMMA MergeType ==
    ASSUME NEW db \in Meta, NEW body \in Meta
    PROVE  MergeMeta(db, body) \in Meta
<1> DEFINE kp == IF body.kp = "unset" THEN db.kp ELSE body.kp
           pending == IF body.kp = "unset" THEN db.pending ELSE body.pending
           batch == IF body.rfq = "none" THEN db.batch ELSE body.batch
           rfq == IF body.rfq = "none" THEN db.rfq ELSE body.rfq
<1>1. /\ kp \in {"unset", "on", "off"} /\ pending \in Maybe(Tags) /\ batch \in Maybe(Tags)
      /\ rfq \in {"none", "pending", "sent", "rejected"}
  BY DEF Meta
<1>2. MergeMeta(db, body) = [body EXCEPT !.kp = kp, !.pending = pending, !.batch = batch, !.rfq = rfq]
  BY DEF MergeMeta
<1> HIDE DEF kp, pending, batch, rfq
<1> QED
  BY <1>1, <1>2 DEF Meta

LEMMA HintCallType ==
    ASSUME TypeOK, NEW mode \in {"open", "gate", "hold"}
    PROVE  [Unused EXCEPT !.kind = "hint", !.pc = "hintPatch", !.send = TRUE,
                          !.body = [deal.meta EXCEPT !.mode = mode]] \in Call
<1>1. [deal.meta EXCEPT !.mode = mode] \in Meta
  BY DEF TypeOK, Deal, Meta
<1>2. "hint" \in Kinds /\ "hintPatch" \in PCs
  BY DEF Kinds, PCs
<1> QED
  BY <1>1, <1>2, UnusedType DEF Call

LEMMA BeginType ==
    ASSUME TypeOK, NEW c \in Calls, NEW call \in Call, Begin(c, call)
    PROVE  calls' \in [Calls -> Call]
BY DEF TypeOK, Begin

LEMMA FinishType ==
    ASSUME TypeOK, NEW c \in Calls, Finish(c)
    PROVE  calls' \in [Calls -> Call]
BY UnusedType DEF TypeOK, Finish

LEMMA GotoType ==
    ASSUME TypeOK, NEW c \in Calls, NEW pc \in PCs, NEW row \in Deal, Goto(c, pc, row)
    PROVE  calls' \in [Calls -> Call]
<1> DEFINE old == calls[c]
           x == [[old EXCEPT !.pc = pc] EXCEPT !.row = row]
<1>1. calls \in [Calls -> Call] /\ old \in Call
  BY DEF TypeOK
<1>2. calls' = [calls EXCEPT ![c] = x]
  BY DEF Goto
<1> HIDE DEF old
<1>3. [old EXCEPT !.pc = pc] \in Call
  BY <1>1 DEF Call
<1>4. x \in Call
  BY <1>3 DEF Call
<1> HIDE DEF x
<1> QED
  BY <1>1, <1>2, <1>4

LEMMA ReturnType ==
    ASSUME TypeOK, NEW c \in Calls, NEW row \in Deal, Return(c, row)
    PROVE  calls' \in [Calls -> Call]
BY GotoType, FinishType DEF Return, PCs

LEMMA EscalationType ==
    ASSUME TypeOK, NEW c \in Calls, NEW reason \in Reasons, NEW about \in Maybe(Tags),
           reason # "review" => about # None,
           CreateEscalation(c, reason, about)
    PROVE  deal' \in Deal /\ rows' \subseteq Rows
<1>1. CASE DuplicateEscalation(reason)
  BY <1>1 DEF TypeOK, DuplicateEscalation
<1>2. CASE NewEscalation(c, reason, about)
  <2>1. deal' \in Deal
    BY <1>2, RowType DEF NewEscalation, Deal, Statuses, Maybe
  <2>2. [reason |-> reason, about |-> about, status |-> "pending"] \in Rows
    BY DEF Rows
  <2> QED
    BY <1>2, <2>1, <2>2 DEF TypeOK, NewEscalation
<1> QED
  BY <1>1, <1>2 DEF CreateEscalation

-----------------------------------------------------------------------------
(* Type correctness, one lemma per group of actions.                        *)

LEMMA SwallowType ==
    ASSUME TypeOK, NEW c \in Calls, NEW what \in {"escalation", "reload"},
           UNCHANGED swallowed \/ Swallow(c, what)
    PROVE  swallowed' \subseteq Tags \X {"escalation", "reload"}
BY TagType DEF TypeOK, Swallow

LEMMA QuoteTypeOK ==
    ASSUME TypeOK, NEW c \in Calls, Quote(c)
    PROVE  TypeOK'
<1>0. /\ Tag(c) \in Tags /\ Tag(c) # None /\ Tag(c) \in Maybe(Tags) /\ None \in Maybe(Tags)
      /\ calls[c] \in Call /\ Row(c) \in Deal /\ Row(c).meta \in Meta
      /\ deal \in Deal /\ deal.meta \in Meta
  BY TagType, RowType DEF Maybe
<1> USE <1>0
<1>1. CASE QuoteBegin(c)
  <2>1. deal' \in Deal
    BY <1>1 DEF QuoteBegin, UpdateThen, Deal, Statuses
  <2>2. calls' \in [Calls -> Call]
    BY <1>1, <2>1, GotoType DEF QuoteBegin, UpdateThen, PCs
  <2> QED BY <1>1, <2>1, <2>2 DEF TypeOK, QuoteBegin, ghosts
<1>2. CASE QuoteLegal(c)
  <2>1. deal' \in Deal
    BY <1>2 DEF QuoteLegal, UpdateThen, Deal, Statuses
  <2>2. calls' \in [Calls -> Call]
    BY <1>2, <2>1, GotoType DEF QuoteLegal, UpdateThen, PCs
  <2> QED BY <1>2, <2>1, <2>2 DEF TypeOK, QuoteLegal, ghosts
<1>3. CASE QuoteCompliance(c)
  <2>1. deal' \in Deal /\ rows' \subseteq Rows
    BY <1>3, EscalationType DEF QuoteCompliance, Reasons
  <2>2. calls' \in [Calls -> Call]
    BY <1>3, GotoType DEF QuoteCompliance, PCs
  <2> QED BY <1>3, <2>1, <2>2 DEF TypeOK, QuoteCompliance, ghosts
<1>4. CASE SaveScheme(c)
  <2>1. deal' \in Deal
    BY <1>4 DEF SaveScheme, Deal
  <2>2. calls' \in [Calls -> Call]
    BY <1>4, GotoType DEF SaveScheme, PCs
  <2> QED BY <1>4, <2>1, <2>2 DEF TypeOK, SaveScheme, ghosts
<1>5. CASE MailRfq(c)
  <2>1. deal' \in Deal
    BY <1>5 DEF MailRfq, Deal
  <2>2. calls' \in [Calls -> Call]
    BY <1>5, GotoType DEF MailRfq, PCs
  <2> QED BY <1>5, <2>1, <2>2 DEF TypeOK, MailRfq, ghosts
<1>6. CASE PreflightRead(c)
  <2>1. calls' \in [Calls -> Call]
    BY <1>6, GotoType DEF PreflightRead, PCs
  <2> QED BY <1>6, <2>1 DEF TypeOK, PreflightRead, ghosts
<1>7. CASE PreflightStore(c)
  <2>1. [Row(c).meta EXCEPT !.batch = Tag(c), !.rfq = "pending"] \in Meta
    BY <1>0 DEF Meta
  <2>2. deal' \in Deal
    BY <1>7, <2>1 DEF PreflightStore, Deal, Statuses
  <2>3. calls' \in [Calls -> Call]
    BY <1>7, GotoType DEF PreflightStore, PCs
  <2> QED BY <1>7, <2>2, <2>3 DEF TypeOK, PreflightStore, ghosts
<1>8. CASE PreflightEscalate(c)
  <2>1. deal' \in Deal /\ rows' \subseteq Rows
    BY <1>8, EscalationType DEF PreflightEscalate, Reasons, TypeOK
  <2>2. calls' \in [Calls -> Call]
    BY <1>8, GotoType DEF PreflightEscalate, PCs
  <2>3. swallowed' \subseteq Tags \X {"escalation", "reload"}
    BY <1>8, SwallowType DEF PreflightEscalate
  <2> QED BY <1>8, <2>1, <2>2, <2>3 DEF TypeOK, PreflightEscalate
<1>9. CASE Reload(c)
  <2>1. calls' \in [Calls -> Call]
    BY <1>9, GotoType DEF Reload, PCs
  <2>2. swallowed' \subseteq Tags \X {"escalation", "reload"}
    BY <1>9, SwallowType DEF Reload
  <2> QED BY <1>9, <2>1, <2>2 DEF TypeOK, Reload
<1>10. CASE NoPartnerChannels(c)
  <2>1. deal' \in Deal /\ rows' \subseteq Rows
    BY <1>10, EscalationType DEF NoPartnerChannels, Reasons
  <2>2. calls' \in [Calls -> Call]
    BY <1>10, GotoType DEF NoPartnerChannels, PCs
  <2> QED BY <1>10, <2>1, <2>2 DEF TypeOK, NoPartnerChannels, ghosts
<1>11. CASE WithdrawOffer(c)
  <2>1. [Row(c).meta EXCEPT !.attempted = TRUE] \in Meta
    BY DEF Meta
  <2>2. deal' \in Deal /\ Return(c, deal')
    BY <1>11, <2>1 DEF WithdrawOffer, Deal, Statuses
  <2>3. calls' \in [Calls -> Call]
    BY <2>2, ReturnType
  <2> QED BY <1>11, <2>2, <2>3 DEF TypeOK, WithdrawOffer, ghosts
<1>12. CASE ReviewPrice(c)
  <2>1. deal' \in Deal /\ rows' \subseteq Rows
    BY <1>12, EscalationType DEF ReviewPrice, Reasons
  <2>2. calls' \in [Calls -> Call]
    BY <1>12, GotoType DEF ReviewPrice, PCs
  <2> QED BY <1>12, <2>1, <2>2 DEF TypeOK, ReviewPrice, ghosts
<1>13. CASE PublishOffer(c)
  <2>1. [Row(c).meta EXCEPT !.attempted = TRUE] \in Meta
    BY DEF Meta
  <2>2. /\ deal' \in Deal
        /\ Goto(c, "kpEsc", deal') \/ Return(c, deal')
    BY <1>13, <2>1 DEF PublishOffer, Deal, Statuses
  <2>3. calls' \in [Calls -> Call]
    BY <2>2, ReturnType, GotoType DEF PCs
  <2>4. released' \subseteq Tags /\ shown' \subseteq Tags
    BY <1>13 DEF PublishOffer, TypeOK
  <2> QED BY <1>13, <2>2, <2>3, <2>4 DEF TypeOK, PublishOffer
<1>14. CASE KpEscalate(c)
  <2>1. deal' \in Deal /\ rows' \subseteq Rows
    BY <1>14, EscalationType DEF KpEscalate, Reasons
  <2>2. calls' \in [Calls -> Call]
    BY <1>14, GotoType DEF KpEscalate, PCs
  <2> QED BY <1>14, <2>1, <2>2 DEF TypeOK, KpEscalate, ghosts
<1>15. CASE KpHold(c)
  <2>1. [Row(c).meta EXCEPT !.kp = "on", !.pending = Tag(c)] \in Meta
    BY <1>0 DEF Meta
  <2>2. deal' \in Deal /\ Return(c, deal')
    BY <1>15, <2>1 DEF KpHold, Deal, Statuses
  <2>3. calls' \in [Calls -> Call]
    BY <2>2, ReturnType
  <2> QED BY <1>15, <2>2, <2>3 DEF TypeOK, KpHold, ghosts
<1> QED
  BY <1>1, <1>2, <1>3, <1>4, <1>5, <1>6, <1>7, <1>8, <1>9, <1>10, <1>11,
     <1>12, <1>13, <1>14, <1>15 DEF Quote

\* The stage a turn stores is a status.
LEMMA HoldStageType ==
    ASSUME NEW prev \in Statuses, NEW nxt \in Statuses
    PROVE  HoldStage(prev, nxt) \in Statuses
BY DEF HoldStage, Statuses

\* Planning a turn decides what it does next and leaves its copies alone.
LEMMA PlanKeeps ==
    ASSUME TypeOK, NEW c \in Calls, PlanTurn(c)
    PROVE  \E call \in Call :
             /\ calls' = [calls EXCEPT ![c] = call]
             /\ call.pc \in {"begin", "opsEsc", "life"}
             /\ call.row = calls[c].row
             /\ call.body = calls[c].body
<1>1. PICK intent \in Intents \cap Inputs, ready \in BOOLEAN, wantRecalc \in BOOLEAN,
           hinted \in BOOLEAN, fullQuote \in BOOLEAN :
             PlanTurn(c)!2!(intent, ready, wantRecalc, hinted, fullQuote)
  BY DEF PlanTurn
<1> DEFINE canQuote == ready /\ At(c, "plan")
           firstQuote == ~Row(c).meta.attempted /\ ~HasOffer(Row(c))
           discount == hinted /\ intent = "request_discount" /\ HasOffer(Row(c))
           quote == /\ canQuote
                    /\ \/ firstQuote \/ wantRecalc \/ discount
                       \/ fullQuote /\ ~HasOffer(Row(c))
           next(pc) == [calls[c] EXCEPT
                          !.pc = pc, !.intent = intent,
                          !.again = canQuote /\ ~wantRecalc /\ intent = "recalculate",
                          !.send = quote /\ (firstQuote \/ wantRecalc),
                          !.discount = quote /\ discount]
<1>2. \E pc \in {"begin", "opsEsc", "life"} : calls' = [calls EXCEPT ![c] = next(pc)]
  BY <1>1 DEF Might
<1>3. \A pc \in {"begin", "opsEsc", "life"} :
        /\ next(pc) \in Call
        /\ next(pc).pc = pc
        /\ next(pc).row = calls[c].row
        /\ next(pc).body = calls[c].body
  <2> HIDE DEF canQuote, firstQuote, discount, quote
  <2>1. /\ (canQuote /\ ~wantRecalc /\ intent = "recalculate") \in BOOLEAN
        /\ (quote /\ (firstQuote \/ wantRecalc)) \in BOOLEAN
        /\ (quote /\ discount) \in BOOLEAN
    OBVIOUS
  <2>2. calls[c] \in Call
    BY RowType
  <2>3. ASSUME NEW pc \in {"begin", "opsEsc", "life"} PROVE next(pc) \in Call
    <3>1. pc \in PCs /\ intent \in Intents
      BY DEF PCs
    <3> QED BY <2>1, <2>2, <3>1 DEF Call
  <2>4. DOMAIN calls[c] = {"pc", "kind", "round", "row", "body", "intent", "again",
                           "send", "discount", "seen"}
    BY <2>2 DEF Call
  <2>5. ASSUME NEW pc
        PROVE  next(pc).pc = pc /\ next(pc).row = calls[c].row /\ next(pc).body = calls[c].body
    <3> HIDE DEF Row, HasOffer
    <3> QED BY <2>4
  <2> QED BY <2>3, <2>5
<1> HIDE DEF next
<1> QED
  BY <1>2, <1>3

LEMMA TurnTypeOK ==
    ASSUME TypeOK, NEW c \in Calls, TurnStep(c)
    PROVE  TypeOK'
<1>0. /\ Tag(c) \in Tags /\ Tag(c) # None /\ Tag(c) \in Maybe(Tags) /\ None \in Maybe(Tags)
      /\ calls[c] \in Call /\ Row(c) \in Deal /\ Row(c).meta \in Meta
      /\ deal \in Deal /\ deal.meta \in Meta
  BY TagType, RowType DEF Maybe
<1> USE <1>0
<1>1. CASE StartTurn(c)
  <2>1. /\ Finished \in Call
        /\ \A pc \in {"merge", "grey"} : [Turn EXCEPT !.pc = pc] \in Call
    BY TurnsType
  <2>2. calls' \in [Calls -> Call]
    BY <1>1, <2>1, BeginType DEF StartTurn, Might
  <2> QED BY <1>1, <2>2 DEF TypeOK, StartTurn, ghosts
<1>2. CASE GreyScheme(c)
  <2>1. deal' \in Deal /\ rows' \subseteq Rows
    BY <1>2, EscalationType DEF GreyScheme, Reasons
  <2>2. calls' \in [Calls -> Call]
    BY <1>2, FinishType DEF GreyScheme
  <2> QED BY <1>2, <2>1, <2>2 DEF TypeOK, GreyScheme, ghosts
<1>3. CASE MergeTurn(c)
  <2>1. PICK gpt \in GptStages, pc \in {"plan", "settled", "urlEsc", "hardEsc", "hardIntake"} :
          UpdateThen(c, pc, [deal EXCEPT !.status = HoldStage(Row(c).status, gpt),
                                         !.meta = Row(c).meta])
    BY <1>3 DEF MergeTurn, Might, Planned
  <2>2. HoldStage(Row(c).status, gpt) \in Statuses
    BY HoldStageType, DealAssumption DEF Deal
  <2>3. deal' \in Deal
    BY <2>1, <2>2 DEF UpdateThen, Deal
  <2>4. calls' \in [Calls -> Call]
    BY <2>1, <2>3, GotoType DEF UpdateThen, PCs
  <2> QED BY <1>3, <2>3, <2>4 DEF TypeOK, MergeTurn, ghosts
<1>4. CASE UrlEscalate(c)
  <2>1. deal' \in Deal /\ rows' \subseteq Rows
    BY <1>4, EscalationType DEF UrlEscalate, Reasons
  <2>2. calls' \in [Calls -> Call]
    BY <1>4, GotoType DEF UrlEscalate, PCs
  <2> QED BY <1>4, <2>1, <2>2 DEF TypeOK, UrlEscalate, ghosts
<1>5. CASE UrlReload(c)
  <2>1. calls' \in [Calls -> Call]
    BY <1>5, GotoType DEF UrlReload, Planned, PCs
  <2> QED BY <1>5, <2>1 DEF TypeOK, UrlReload, ghosts
<1>6. CASE HardEscalate(c)
  <2>1. CreateEscalation(c, "review", None)
    BY <1>6 DEF HardEscalate, CreateEscalation
  <2>2. deal' \in Deal /\ rows' \subseteq Rows
    BY <2>1, EscalationType DEF Reasons
  <2>3. calls' \in [Calls -> Call]
    BY <1>6, GotoType DEF HardEscalate, PCs
  <2> QED BY <1>6, <2>2, <2>3 DEF TypeOK, HardEscalate, ghosts
<1>7. CASE HardSet(c)
  <2>1. deal' \in Deal
    BY <1>7 DEF HardSet, Deal, Statuses
  <2>2. calls' \in [Calls -> Call]
    BY <1>7, FinishType DEF HardSet, PCs
  <2> QED BY <1>7, <2>1, <2>2 DEF TypeOK, HardSet, ghosts
<1>8. CASE PlanTurn(c)
  <2>1. calls' \in [Calls -> Call]
    BY <1>8, PlanKeeps DEF TypeOK
  <2> QED BY <1>8, <2>1 DEF TypeOK, PlanTurn, ghosts
<1>9. CASE OpsEscalate(c)
  <2>1. deal' \in Deal /\ rows' \subseteq Rows
    BY <1>9, EscalationType DEF OpsEscalate, Reasons
  <2>2. calls' \in [Calls -> Call]
    BY <1>9, GotoType DEF OpsEscalate, PCs
  <2> QED BY <1>9, <2>1, <2>2 DEF TypeOK, OpsEscalate, ghosts
<1>10. CASE OpsSet(c)
  <2>1. [Row(c).meta EXCEPT !.attempted = TRUE] \in Meta
    BY DEF Meta
  <2>2. deal' \in Deal
    BY <1>10, <2>1 DEF OpsSet, UpdateThen, Deal, Statuses
  <2>3. calls' \in [Calls -> Call]
    BY <1>10, <2>2, GotoType DEF OpsSet, UpdateThen, PCs
  <2> QED BY <1>10, <2>2, <2>3 DEF TypeOK, OpsSet, ghosts
<1>11. CASE Recalculate(c)
  <2>1. calls' \in [Calls -> Call]
    BY <1>11, FinishType DEF Recalculate, TypeOK, Call, PCs
  <2> QED BY <1>11, <2>1 DEF TypeOK, Recalculate, ghosts
<1>12. CASE AcceptOffer(c)
  <2>1. Row(c).offer \in Tags
    BY <1>12 DEF AcceptOffer, Priced, Deal, Maybe
  <2>2. deal' \in Deal
    BY <1>12 DEF AcceptOffer, Deal, Statuses
  <2>3. calls' \in [Calls -> Call]
    BY <1>12, FinishType DEF AcceptOffer
  <2> QED BY <1>12, <2>1, <2>2, <2>3 DEF TypeOK, AcceptOffer
<1>13. CASE Execute(c)
  <2>1. deal' \in Deal
    BY <1>13 DEF Execute, Deal, Statuses
  <2>2. calls' \in [Calls -> Call]
    BY <1>13, FinishType DEF Execute, PCs
  <2> QED BY <1>13, <2>1, <2>2 DEF TypeOK, Execute, ghosts
<1>14. CASE Remind(c)
  <2>1. Row(c).offer \in Tags
    BY <1>14 DEF Remind, Priced, Deal, Maybe
  <2>2. calls' \in [Calls -> Call]
    BY <1>14, FinishType DEF Remind
  <2> QED BY <1>14, <2>1, <2>2 DEF TypeOK, Remind
<1>15. CASE JustAnswer(c)
  <2>1. calls' \in [Calls -> Call]
    BY <1>15, FinishType DEF JustAnswer
  <2> QED BY <1>15, <2>1 DEF TypeOK, JustAnswer, ghosts
<1> QED
  BY <1>1, <1>2, <1>3, <1>4, <1>5, <1>6, <1>7, <1>8, <1>9, <1>10, <1>11,
     <1>12, <1>13, <1>14, <1>15 DEF TurnStep

LEMMA StaffTypeOK ==
    ASSUME TypeOK, NEW c \in Calls, StaffStep(c)
    PROVE  TypeOK'
<1>0. /\ Tag(c) \in Tags /\ Tag(c) # None /\ Tag(c) \in Maybe(Tags) /\ None \in Maybe(Tags)
      /\ calls[c] \in Call /\ Row(c) \in Deal /\ Row(c).meta \in Meta
      /\ deal \in Deal /\ deal.meta \in Meta
  BY TagType, RowType DEF Maybe
<1> USE <1>0
<1>1. CASE FlushRead(c)
  <2>1. calls' \in [Calls -> Call]
    BY <1>1, GotoType, FinishType DEF FlushRead, PCs
  <2> QED BY <1>1, <2>1 DEF TypeOK, FlushRead, ghosts
<1>2. CASE FlushMail(c)
  <2>1. [by |-> c, batch |-> Row(c).meta.batch, seen |-> calls[c].seen] \in Mailings
    BY DEF Mailings, Meta, Call
  <2>2. calls' \in [Calls -> Call]
    BY <1>2, GotoType DEF FlushMail, PCs
  <2> QED BY <1>2, <2>1, <2>2 DEF TypeOK, FlushMail
<1>3. CASE FlushMark(c)
  <2>1. [Row(c).meta EXCEPT !.rfq = "sent", !.attempted = TRUE] \in Meta
    BY DEF Meta
  <2>2. deal' \in Deal
    BY <1>3, <2>1 DEF FlushMark, Deal, Statuses
  <2>3. calls' \in [Calls -> Call]
    BY <1>3, FinishType DEF FlushMark
  <2> QED BY <1>3, <2>2, <2>3 DEF TypeOK, FlushMark, ghosts
<1>4. CASE StartApproveKp(c)
  <2>1. [Unused EXCEPT !.kind = "approve_kp", !.pc = "kpRelease", !.row = deal] \in Call
    BY StaffCallType
  <2>2. calls' \in [Calls -> Call]
    BY <1>4, <2>1, BeginType DEF StartApproveKp
  <2> QED BY <1>4, <2>2 DEF TypeOK, StartApproveKp, ghosts
<1>5. CASE ReleaseKp(c)
  <2>1. [Row(c).meta EXCEPT !.kp = "off", !.pending = None] \in Meta
    BY DEF Meta
  <2>2. deal' \in Deal
    BY <1>5, <2>1 DEF ReleaseKp, Deal, Statuses
  <2>3. {Row(c).offer, Row(c).meta.pending} \ {None} \subseteq Tags
    BY DEF Deal, Meta, Maybe
  <2>4. released' \subseteq Tags /\ shown' \subseteq Tags
    BY <1>5, <2>3 DEF ReleaseKp, TypeOK
  <2>5. calls' \in [Calls -> Call]
    BY <1>5, FinishType DEF ReleaseKp
  <2> QED BY <1>5, <2>2, <2>4, <2>5 DEF TypeOK, ReleaseKp
<1>6. CASE StartCut(c)
  <2>1. [Unused EXCEPT !.kind = "cut3", !.pc = "cutPatch", !.row = deal] \in Call
    BY StaffCallType
  <2>2. calls' \in [Calls -> Call]
    BY <1>6, <2>1, BeginType DEF StartCut
  <2> QED BY <1>6, <2>2 DEF TypeOK, StartCut, ghosts
<1>7. CASE CutPatch(c)
  <2>0. PICK offer \in {Tag(c)} \cup ({Row(c).offer} \cap {None}) :
          /\ deal' = [deal EXCEPT !.offer = offer,
                                  !.quotesPending = Row(c).quotesPending,
                                  !.escalate = FALSE,
                                  !.status = "negotiation"]
          /\ released' = released \cup ({offer} \ {None})
    BY <1>7 DEF CutPatch
  <2>1. deal' \in Deal
    BY <2>0 DEF Deal, Statuses
  <2>2. released' \subseteq Tags
    BY <2>0 DEF TypeOK
  <2>3. calls' \in [Calls -> Call]
    BY <1>7, FinishType DEF CutPatch
  <2> QED BY <1>7, <2>1, <2>2, <2>3 DEF TypeOK, CutPatch
<1>8. CASE StartHint(c)
  <2>1. \A mode \in {"open", "gate", "hold"} :
          [Unused EXCEPT !.kind = "hint", !.pc = "hintPatch", !.send = TRUE,
                         !.body = [deal.meta EXCEPT !.mode = mode]] \in Call
    BY HintCallType
  <2>2. calls' \in [Calls -> Call]
    BY <1>8, <2>1, BeginType DEF StartHint
  <2> QED BY <1>8, <2>2 DEF TypeOK, StartHint, ghosts
<1>9. CASE HintPatch(c)
  <2>1. calls[c].body \in Meta
    BY DEF Call
  <2>2. deal' \in Deal
    BY <1>9, <2>1 DEF HintPatch, Deal, Statuses
  <2>3. calls' \in [Calls -> Call]
    BY <1>9, GotoType, FinishType DEF HintPatch, PCs
  <2> QED BY <1>9, <2>2, <2>3 DEF TypeOK, HintPatch, ghosts
<1>10. CASE HintPost(c)
  <2>1. calls' \in [Calls -> Call]
    BY <1>10, GotoType DEF HintPost, PCs
  <2> QED BY <1>10, <2>1 DEF TypeOK, HintPost, ghosts
<1>11. CASE HintApply(c)
  <2>1. PICK attempted \in {FALSE, Row(c).meta.attempted}, kept \in BOOLEAN :
          LET meta == [MergeMeta(Row(c).meta, calls[c].body) EXCEPT !.attempted = attempted]
              row == [deal EXCEPT !.meta = meta, !.status = "quoting", !.paused = kept]
          IN  deal' = row /\ (Goto(c, "begin", row) \/ Finish(c))
    BY <1>11 DEF HintApply
  <2>2. calls[c].body \in Meta /\ attempted \in BOOLEAN
    BY DEF Call, Meta
  <2>3. MergeMeta(Row(c).meta, calls[c].body) \in Meta
    BY <2>2 DEF MergeMeta, Meta
  <2>4. [MergeMeta(Row(c).meta, calls[c].body) EXCEPT !.attempted = attempted] \in Meta
    BY <2>2, <2>3 DEF Meta
  <2>5. deal' \in Deal /\ (Goto(c, "begin", deal') \/ Finish(c))
    BY <2>1, <2>4 DEF Deal, Statuses
  <2>6. calls' \in [Calls -> Call]
    BY <2>5, GotoType, FinishType DEF PCs
  <2> QED BY <1>11, <2>5, <2>6 DEF TypeOK, HintApply, ghosts
<1>12. CASE StartFallback(c)
  <2>1. [Unused EXCEPT !.kind = "fallback", !.pc = "begin", !.row = deal] \in Call
    BY StaffCallType
  <2>2. calls' \in [Calls -> Call]
    BY <1>12, <2>1, BeginType DEF StartFallback
  <2> QED BY <1>12, <2>2 DEF TypeOK, StartFallback, ghosts
<1>13. CASE FallbackMark(c)
  <2>1. deal' \in Deal
    BY <1>13 DEF FallbackMark, Deal, Statuses
  <2>2. calls' \in [Calls -> Call]
    BY <1>13, FinishType DEF FallbackMark, PCs
  <2> QED BY <1>13, <2>1, <2>2 DEF TypeOK, FallbackMark, ghosts
<1> QED
  BY <1>1, <1>2, <1>3, <1>4, <1>5, <1>6, <1>7, <1>8, <1>9, <1>10, <1>11,
     <1>12, <1>13 DEF StaffStep

LEMMA ClickTypeOK ==
    ASSUME TypeOK, StaffClick
    PROVE  TypeOK'
<1>0. deal \in Deal /\ deal.meta \in Meta
  BY DEF TypeOK, Deal
<1>1. Click => clicks' \in 0..StaffBudget
  BY DealAssumption DEF TypeOK, Click
<1>2. ASSUME NEW row \in Deal, Patch(row) PROVE TypeOK'
  BY <1>1, <1>2 DEF TypeOK, Patch, ghosts
<1>3. /\ [deal EXCEPT !.paused = TRUE] \in Deal
      /\ [deal EXCEPT !.paused = FALSE, !.takeover = FALSE] \in Deal
      /\ [deal EXCEPT !.paused = TRUE, !.takeover = TRUE] \in Deal
      /\ [deal EXCEPT !.status = "cancelled", !.escalate = FALSE] \in Deal
      /\ \A s \in {"closed_won", "closed_lost"} : [deal EXCEPT !.status = s] \in Deal
  BY <1>0 DEF Deal, Statuses
<1>4. CASE Pause \/ Resume \/ Takeover \/ RejectDeal \/ CloseDeal
  BY <1>2, <1>3, <1>4 DEF Pause, Resume, Takeover, RejectDeal, CloseDeal
<1>5. CASE ApiEscalate
  <2>1. deal' \in Deal
    BY <1>0, <1>5 DEF ApiEscalate, Deal, Statuses, Maybe
  <2>2. [reason |-> "review", about |-> None, status |-> "pending"] \in Rows
    BY DEF Rows, Reasons, Maybe
  <2> QED BY <1>1, <1>5, <2>1, <2>2 DEF TypeOK, ApiEscalate, ghosts
<1>6. ASSUME NEW r \in rows, NEW decision \in {"approved", "rejected"}
      PROVE  Decided(r, decision) \subseteq Rows
  BY DEF TypeOK, Decided, Rows
<1>7. ASSUME NEW r \in rows, Approve(r) PROVE TypeOK'
  <2>1. r \in Rows
    BY DEF TypeOK
  <2>2. deal' \in Deal
    BY <1>0, <1>7 DEF Approve, Deal, Statuses, Maybe
  <2>3. calls' \in [Calls -> Call]
    <3>1. [Unused EXCEPT !.kind = "flush", !.pc = "flushRead",
                         !.seen = r.about] \in Call
      BY <2>1, UnusedType DEF Call, PCs, Kinds, Rows
    <3> QED BY <1>7, <3>1, BeginType DEF Approve, FlushAfter, TypeOK
  <2>4. released' \subseteq Tags
    BY <1>7, <2>1 DEF Approve, TypeOK, Rows, Maybe
  <2>5. rows' \subseteq Rows /\ clicks' \in 0..StaffBudget
    BY <1>1, <1>6, <1>7 DEF Approve
  <2> QED BY <1>7, <2>2, <2>3, <2>4, <2>5 DEF TypeOK, Approve
<1>8. ASSUME NEW r \in rows, RejectPreflight(r) PROVE TypeOK'
  <2>1. [deal.meta EXCEPT !.rfq = "rejected"] \in Meta
    BY <1>0 DEF Meta
  <2>2. deal' \in Deal
    BY <1>0, <1>8, <2>1 DEF RejectPreflight, Deal, Statuses, Maybe
  <2> QED BY <1>1, <1>6, <1>8, <2>2 DEF TypeOK, RejectPreflight, ghosts
<1>9. ASSUME NEW r \in rows, RejectRow(r) PROVE TypeOK'
  <2>1. deal' \in Deal
    BY <1>0, <1>9 DEF RejectRow, Deal, Statuses
  <2> QED BY <1>1, <1>6, <1>9, <2>1 DEF TypeOK, RejectRow, ghosts
<1> QED
  BY <1>4, <1>5, <1>7, <1>8, <1>9 DEF StaffClick

\* The invariant steps of TypeCorrect: the initial states, and every step.
LEMMA TypeInit == Init => TypeOK
<1> SUFFICES ASSUME Init PROVE TypeOK
  OBVIOUS
<1>1. PICK mode \in {"open", "gate"} : deal = [FreshDeal EXCEPT !.meta.mode = mode]
  BY DEF Init
<1>2. FreshDeal \in Deal /\ FreshDeal.meta \in Meta
  BY UnusedType DEF Deal
<1>3. [FreshDeal.meta EXCEPT !.mode = mode] \in Meta
  BY <1>2 DEF Meta
<1>4. deal \in Deal
  BY <1>1, <1>2, <1>3 DEF Deal
<1>5. calls \in [Calls -> Call]
  BY UnusedType DEF Init
<1> QED
  BY <1>4, <1>5, DealAssumption DEF Init, TypeOK

LEMMA TypeStep == TypeOK /\ [Next]_vars => TypeOK'
<1> SUFFICES ASSUME TypeOK, [Next]_vars PROVE TypeOK'
  OBVIOUS
<1>1. ASSUME NEW c \in Calls, Fail(c) PROVE TypeOK'
  BY <1>1, FinishType DEF Fail, TypeOK, ghosts
<1>2. CASE UNCHANGED vars
  BY <1>2 DEF TypeOK, vars
<1> QED
  BY <1>1, <1>2, TurnTypeOK, QuoteTypeOK, StaffTypeOK, ClickTypeOK DEF Next

\* Whatever overlaps, crashes or repeats, every column and every local copy of
\* the row keeps its type; in particular metadata.rfq_preflight.status never
\* holds a word flush_rfq_preflight does not know, and a row of `escalations`
\* that releases something always names what.
THEOREM TypeCorrect == Spec => []TypeOK
BY TypeInit, TypeStep, PTL DEF Spec

-----------------------------------------------------------------------------
(* HeldKpAnnounced.  It is not inductive: a KP may be about to be held, and  *)
(* any local copy of the row that holds one may be written back.  Either     *)
(* staff have been told, which nothing undoes, or there is no withheld       *)
(* message anywhere: not in the row, not in a copy, not on its way.          *)

Told == \E r \in rows : r.reason = "human_kp_approve"
Clean(call) == /\ call.pc # "kpHold"
               /\ call.row.meta.pending = None
               /\ call.body.pending = None
NothingHeld == /\ deal.meta.pending = None
               /\ \A c \in Calls : Clean(calls[c])
HeldInv == Told \/ NothingHeld

\* No escalation is ever deleted: a step adds rows, or decides one.
LEMMA RowsStay ==
    ASSUME [Next]_vars
    PROVE  rows \subseteq rows' \/ \E r \in rows : \E decision : rows' = Decided(r, decision)
<1>1. ASSUME NEW c \in Calls, NEW reason, NEW about, CreateEscalation(c, reason, about)
      PROVE  rows \subseteq rows'
  BY <1>1 DEF CreateEscalation, DuplicateEscalation, NewEscalation
<1>2. ASSUME NEW c \in Calls, TurnStep(c) PROVE rows \subseteq rows'
  BY <1>1, <1>2 DEF TurnStep, StartTurn, GreyScheme, MergeTurn, UrlEscalate,
     UrlReload, HardEscalate, CreateEscalation, HardSet, PlanTurn, OpsEscalate,
     OpsSet, Recalculate, AcceptOffer, Execute, Remind, JustAnswer
<1>3. ASSUME NEW c \in Calls, Quote(c) PROVE rows \subseteq rows'
  BY <1>1, <1>3 DEF Quote, QuoteBegin, QuoteLegal, QuoteCompliance, SaveScheme,
     MailRfq, PreflightRead, PreflightStore, PreflightEscalate, Reload,
     NoPartnerChannels, WithdrawOffer, ReviewPrice, PublishOffer, KpEscalate, KpHold
<1>4. ASSUME NEW c \in Calls, StaffStep(c) \/ Fail(c) PROVE rows \subseteq rows'
  BY <1>4 DEF StaffStep, FlushRead, FlushMail, FlushMark, StartApproveKp,
     ReleaseKp, StartCut, CutPatch, StartHint, HintPatch, HintPost, HintApply,
     StartFallback, FallbackMark, Fail
<1>5. CASE StaffClick
  <2>1. CASE Pause \/ Resume \/ Takeover \/ RejectDeal \/ CloseDeal \/ ApiEscalate
    BY <2>1 DEF Pause, Resume, Takeover, RejectDeal, CloseDeal, Patch, ApiEscalate
  <2>2. ASSUME NEW r \in rows, Approve(r) \/ RejectPreflight(r) \/ RejectRow(r)
        PROVE  \E decision : rows' = Decided(r, decision)
    BY <2>2 DEF Approve, RejectPreflight, RejectRow
  <2> QED BY <1>5, <2>1, <2>2 DEF StaffClick
<1> QED
  BY <1>2, <1>3, <1>4, <1>5 DEF Next, vars

LEMMA ToldStays == ASSUME TypeOK, [Next]_vars, Told PROVE Told'
<1>1. ASSUME NEW r \in rows, NEW decision, rows' = Decided(r, decision) PROVE Told'
  <2>1. PICK s \in rows : s.reason = "human_kp_approve"
    BY DEF Told
  <2>2. CASE s = r
    <3>1. [r EXCEPT !.status = decision].reason = "human_kp_approve"
      BY <2>1, <2>2 DEF TypeOK, Rows
    <3> QED BY <1>1, <3>1 DEF Told, Decided
  <2>3. CASE s # r
    BY <1>1, <2>1, <2>3 DEF Told, Decided
  <2> QED BY <2>2, <2>3
<1> QED
  BY <1>1, RowsStay DEF Told

\* Moving on, returning and beginning keep clean calls clean.
LEMMA GotoClean ==
    ASSUME TypeOK, NothingHeld, NEW c \in Calls, NEW pc, NEW row,
           Goto(c, pc, row), pc # "kpHold", row.meta.pending = None
    PROVE  \A b \in Calls : Clean(calls'[b])
BY DEF Goto, NothingHeld, Clean, TypeOK, Call

LEMMA FinishClean ==
    ASSUME TypeOK, NothingHeld, NEW c \in Calls, Finish(c)
    PROVE  \A b \in Calls : Clean(calls'[b])
BY DEF Finish, Finished, Unused, FreshDeal, NothingHeld, Clean, TypeOK

LEMMA ReturnClean ==
    ASSUME TypeOK, NothingHeld, NEW c \in Calls, NEW row,
           Return(c, row), row.meta.pending = None
    PROVE  \A b \in Calls : Clean(calls'[b])
BY GotoClean, FinishClean DEF Return

LEMMA CleanBegin ==
    ASSUME TypeOK, NothingHeld, NEW c \in Calls, NEW call \in Call,
           Clean(call), Begin(c, call)
    PROVE  \A b \in Calls : Clean(calls'[b])
BY DEF Begin, NothingHeld, TypeOK

LEMMA QuoteHeld ==
    ASSUME TypeOK, NothingHeld, NEW c \in Calls, Quote(c), ~Told'
    PROVE  NothingHeld'
<1>0. /\ calls[c] \in Call /\ Row(c) \in Deal /\ Row(c).meta \in Meta
      /\ deal \in Deal /\ deal.meta \in Meta
      /\ deal.meta.pending = None /\ Row(c).meta.pending = None
      /\ ~At(c, "kpHold")
  BY RowType DEF NothingHeld, Clean, Row, At
<1> USE <1>0
<1>1. ASSUME NEW reason, NEW about, CreateEscalation(c, reason, about)
      PROVE  deal'.meta = deal.meta
  BY <1>1 DEF CreateEscalation, DuplicateEscalation, NewEscalation, Deal
<1>2. CASE QuoteBegin(c) \/ QuoteLegal(c)
  <2>1. PICK pc \in {"legal", "legalEsc", "scheme", "offer"} : UpdateThen(c, pc, deal')
    BY <1>2 DEF QuoteBegin, QuoteLegal, UpdateThen
  <2>2. deal'.meta = Row(c).meta
    BY <1>2 DEF QuoteBegin, QuoteLegal, UpdateThen, Deal
  <2> QED BY <2>1, <2>2, GotoClean, FinishClean DEF UpdateThen, NothingHeld
<1>3. CASE QuoteCompliance(c)
  BY <1>1, <1>3, GotoClean, FinishClean DEF QuoteCompliance, NothingHeld
<1>4. CASE SaveScheme(c)
  BY <1>4, GotoClean, FinishClean DEF SaveScheme, NothingHeld, Deal
<1>5. CASE MailRfq(c)
  BY <1>5, GotoClean, FinishClean DEF MailRfq, NothingHeld, Deal
<1>6. CASE PreflightRead(c) \/ Reload(c)
  BY <1>6, GotoClean, FinishClean DEF PreflightRead, Reload, NothingHeld
<1>7. CASE PreflightStore(c)
  BY <1>7, GotoClean, FinishClean DEF PreflightStore, NothingHeld, Deal, Meta
<1>8. CASE PreflightEscalate(c)
  BY <1>1, <1>8, GotoClean, FinishClean DEF PreflightEscalate, NothingHeld
<1>9. CASE NoPartnerChannels(c) \/ ReviewPrice(c)
  BY <1>1, <1>9, GotoClean, FinishClean DEF NoPartnerChannels, ReviewPrice, NothingHeld
<1>10. CASE WithdrawOffer(c)
  <2>1. PICK row : deal' = row /\ row.meta.pending = None /\ Return(c, row)
    BY <1>10 DEF WithdrawOffer, Deal, Meta
  <2> QED BY <2>1, ReturnClean DEF NothingHeld
<1>11. CASE PublishOffer(c)
  <2>1. PICK row : /\ deal' = row
                   /\ row.meta.pending = None
                   /\ Goto(c, "kpEsc", row) \/ Return(c, row)
    BY <1>11 DEF PublishOffer, Deal, Meta
  <2> QED BY <2>1, GotoClean, ReturnClean DEF NothingHeld
<1>12. CASE KpEscalate(c)
  <2>1. CASE DuplicateEscalation("human_kp_approve")
    BY <2>1 DEF DuplicateEscalation, Pending, Told
  <2>2. CASE NewEscalation(c, "human_kp_approve", Tag(c))
    <3>1. [reason |-> "human_kp_approve", about |-> Tag(c), status |-> "pending"] \in rows'
      BY <2>2 DEF NewEscalation
    <3>2. Told'
      BY <3>1 DEF Told
    <3> QED BY <3>2
  <2> QED BY <1>12, <2>1, <2>2 DEF KpEscalate, CreateEscalation
<1>13. CASE KpHold(c)
  BY <1>13 DEF KpHold
<1> QED
  BY <1>2, <1>3, <1>4, <1>5, <1>6, <1>7, <1>8, <1>9, <1>10, <1>11, <1>12, <1>13
     DEF Quote

LEMMA TurnHeld ==
    ASSUME TypeOK, NothingHeld, NEW c \in Calls, TurnStep(c)
    PROVE  NothingHeld'
<1>0. /\ calls[c] \in Call /\ Row(c) \in Deal /\ Row(c).meta \in Meta
      /\ deal \in Deal /\ deal.meta \in Meta
      /\ deal.meta.pending = None /\ Row(c).meta.pending = None
      /\ calls[c].body.pending = None
  BY RowType DEF NothingHeld, Clean, Row
<1> USE <1>0
<1>1. ASSUME NEW reason, NEW about, CreateEscalation(c, reason, about)
      PROVE  deal'.meta = deal.meta
  BY <1>1 DEF CreateEscalation, DuplicateEscalation, NewEscalation, Deal
<1>2. CASE StartTurn(c)
  <2>1. /\ Finished \in Call
        /\ \A pc \in {"merge", "grey"} : [Turn EXCEPT !.pc = pc] \in Call
    BY TurnsType
  <2>2. /\ Clean(Finished)
        /\ \A pc \in {"merge", "grey"} : Clean([Turn EXCEPT !.pc = pc])
    BY DEF Turn, Clean, Finished, Unused, FreshDeal
  <2> QED BY <1>2, <2>1, <2>2, CleanBegin DEF StartTurn, Might, NothingHeld
<1>3. CASE GreyScheme(c) \/ UrlEscalate(c) \/ OpsEscalate(c)
  BY <1>1, <1>3, GotoClean, FinishClean DEF GreyScheme, UrlEscalate, OpsEscalate, NothingHeld
<1>4. CASE MergeTurn(c)
  <2>1. \E pc \in {"plan", "settled", "urlEsc", "hardEsc", "hardIntake"} :
          UpdateThen(c, pc, deal')
    BY <1>4 DEF MergeTurn, UpdateThen, Might, Planned
  <2>2. deal'.meta = Row(c).meta
    BY <1>4 DEF MergeTurn, UpdateThen, Deal
  <2> QED BY <2>1, <2>2, GotoClean, FinishClean DEF UpdateThen, NothingHeld
<1>5. CASE UrlReload(c)
  BY <1>5, GotoClean, FinishClean DEF UrlReload, Planned, NothingHeld
<1>6. CASE HardEscalate(c)
  <2>1. CreateEscalation(c, "review", None)
    BY <1>6 DEF HardEscalate, CreateEscalation
  <2> QED BY <1>1, <1>6, <2>1, GotoClean, FinishClean DEF HardEscalate, NothingHeld
<1>7. CASE HardSet(c) \/ AcceptOffer(c) \/ Execute(c)
  <2>1. deal'.meta = Row(c).meta /\ Finish(c)
    BY <1>7 DEF HardSet, AcceptOffer, Execute, Deal
  <2> QED BY <2>1, GotoClean, FinishClean DEF NothingHeld
<1>8. CASE PlanTurn(c)
  <2>1. \A b \in Calls : Clean(calls'[b])
    BY <1>8, PlanKeeps DEF NothingHeld, Clean, TypeOK
  <2> QED BY <1>8, <2>1 DEF PlanTurn, NothingHeld
<1>9. CASE OpsSet(c)
  <2>1. deal'.meta.pending = None /\ Goto(c, "life", deal')
    BY <1>9 DEF OpsSet, UpdateThen, Deal, Meta
  <2> QED BY <2>1, GotoClean, FinishClean DEF NothingHeld
<1>10. CASE Recalculate(c)
  <2>1. \/ Finish(c)
        \/ calls' = [calls EXCEPT ![c].pc = "begin", ![c].round = 2, ![c].send = TRUE]
    BY <1>10 DEF Recalculate
  <2>2. ASSUME calls' = [calls EXCEPT ![c].pc = "begin", ![c].round = 2, ![c].send = TRUE]
        PROVE  \A b \in Calls : Clean(calls'[b])
    BY <2>2 DEF NothingHeld, Clean, TypeOK, Call
  <2>3. \A b \in Calls : Clean(calls'[b])
    BY <2>1, <2>2, FinishClean
  <2> QED BY <1>10, <2>3 DEF Recalculate, NothingHeld
<1>11. CASE Remind(c) \/ JustAnswer(c)
  BY <1>11, GotoClean, FinishClean DEF Remind, JustAnswer, NothingHeld
<1> QED
  BY <1>2, <1>3, <1>4, <1>5, <1>6, <1>7, <1>8, <1>9, <1>10, <1>11 DEF TurnStep

LEMMA StaffHeld ==
    ASSUME TypeOK, NothingHeld, NEW c \in Calls, StaffStep(c)
    PROVE  NothingHeld'
<1>0. /\ calls[c] \in Call /\ Row(c) \in Deal /\ Row(c).meta \in Meta
      /\ deal \in Deal /\ deal.meta \in Meta
      /\ deal.meta.pending = None /\ Row(c).meta.pending = None
      /\ calls[c].body \in Meta /\ calls[c].body.pending = None
  BY RowType DEF NothingHeld, Clean, Row, Call
<1> USE <1>0
<1>1. CASE FlushRead(c) \/ FlushMail(c) \/ HintPost(c)
  BY <1>1, GotoClean, FinishClean DEF FlushRead, FlushMail, HintPost, NothingHeld
<1>2. CASE FlushMark(c) \/ ReleaseKp(c) \/ FallbackMark(c) \/ CutPatch(c)
  <2>1. deal'.meta.pending = None
    <3>1. CASE FlushMark(c)
      BY <3>1 DEF FlushMark, Deal, Meta
    <3>2. CASE ReleaseKp(c)
      BY <3>2 DEF ReleaseKp, Deal, Meta
    <3>3. CASE FallbackMark(c)
      BY <3>3 DEF FallbackMark, Deal
    <3>4. CASE CutPatch(c)
      BY <3>4 DEF CutPatch, Deal
    <3> QED BY <1>2, <3>1, <3>2, <3>3, <3>4
  <2>2. Finish(c)
    BY <1>2 DEF FlushMark, ReleaseKp, FallbackMark, CutPatch
  <2> QED BY <2>1, <2>2, FinishClean DEF NothingHeld
<1>3. CASE StartApproveKp(c)
  <2> DEFINE call == [Unused EXCEPT !.kind = "approve_kp", !.pc = "kpRelease", !.row = deal]
  <2>1. call \in Call
    BY StaffCallType
  <2>2. Clean(call)
    BY DEF Clean, Unused, FreshDeal
  <2> QED BY <1>3, <2>1, <2>2, CleanBegin DEF StartApproveKp, NothingHeld
<1>4. CASE StartCut(c)
  <2> DEFINE call == [Unused EXCEPT !.kind = "cut3", !.pc = "cutPatch", !.row = deal]
  <2>1. call \in Call
    BY StaffCallType
  <2>2. Clean(call)
    BY DEF Clean, Unused, FreshDeal
  <2> QED BY <1>4, <2>1, <2>2, CleanBegin DEF StartCut, NothingHeld
<1>5. CASE StartHint(c)
  <2> DEFINE call(mode) == [Unused EXCEPT !.kind = "hint", !.pc = "hintPatch", !.send = TRUE,
                                          !.body = [deal.meta EXCEPT !.mode = mode]]
  <2>1. \A mode \in {"open", "gate", "hold"} : call(mode) \in Call
    BY HintCallType
  <2>2. \A mode \in {"open", "gate", "hold"} : Clean(call(mode))
    BY DEF Clean, Unused, FreshDeal, Meta
  <2> QED BY <1>5, <2>1, <2>2, CleanBegin DEF StartHint, NothingHeld
<1>6. CASE HintPatch(c)
  <2>1. deal'.meta.pending = None
    BY <1>6 DEF HintPatch, Deal
  <2> QED BY <1>6, <2>1, GotoClean, FinishClean DEF HintPatch, NothingHeld
<1>7. CASE HintApply(c)
  <2>1. MergeMeta(Row(c).meta, calls[c].body).pending = None
    BY DEF MergeMeta, Meta
  <2>2. MergeMeta(Row(c).meta, calls[c].body) \in Meta
    BY DEF MergeMeta, Meta
  <2> DEFINE meta(attempted) == [MergeMeta(Row(c).meta, calls[c].body)
                                  EXCEPT !.attempted = attempted]
             row(attempted, kept) == [deal EXCEPT !.meta = meta(attempted),
                                                  !.status = "quoting", !.paused = kept]
  <2>3. PICK attempted, kept : /\ deal' = row(attempted, kept)
                               /\ Goto(c, "begin", row(attempted, kept)) \/ Finish(c)
    BY <1>7 DEF HintApply
  <2>4. row(attempted, kept).meta.pending = None
    BY <2>1, <2>2 DEF Deal, Meta
  <2> HIDE DEF row
  <2> QED BY <2>3, <2>4, GotoClean, FinishClean DEF NothingHeld
<1>8. CASE StartFallback(c)
  <2> DEFINE call == [Unused EXCEPT !.kind = "fallback", !.pc = "begin", !.row = deal]
  <2>1. call \in Call
    BY StaffCallType
  <2>2. Clean(call)
    BY DEF Clean, Unused, FreshDeal
  <2> QED BY <1>8, <2>1, <2>2, CleanBegin DEF StartFallback, NothingHeld
<1> QED
  BY <1>1, <1>2, <1>3, <1>4, <1>5, <1>6, <1>7, <1>8 DEF StaffStep

LEMMA ClickHeld ==
    ASSUME TypeOK, NothingHeld, StaffClick
    PROVE  NothingHeld'
<1>0. deal \in Deal /\ deal.meta \in Meta /\ deal.meta.pending = None
  BY DEF TypeOK, Deal, NothingHeld
<1> USE <1>0
<1>1. CASE Pause \/ Resume \/ Takeover \/ RejectDeal \/ CloseDeal \/ ApiEscalate
  <2>1. deal'.meta = deal.meta /\ calls' = calls
    BY <1>1 DEF Pause, Resume, Takeover, RejectDeal, CloseDeal, ApiEscalate, Patch, Deal
  <2> QED BY <2>1 DEF NothingHeld
<1>2. ASSUME NEW r \in rows, Approve(r) PROVE NothingHeld'
  <2> DEFINE call == [Unused EXCEPT !.kind = "flush", !.pc = "flushRead", !.seen = r.about]
  <2>1. call \in Call
    <3>1. r.about \in Maybe(Tags)
      BY DEF TypeOK, Rows
    <3>2. "flush" \in Kinds /\ "flushRead" \in PCs
      BY DEF Kinds, PCs
    <3> QED
      BY <3>1, <3>2, UnusedType DEF Call
  <2>2. Clean(call)
    BY DEF Clean, Unused, FreshDeal
  <2>3. deal'.meta = deal.meta
    BY <1>2 DEF Approve, Deal
  <2>4. UNCHANGED calls \/ \E c \in Calls : Begin(c, call)
    BY <1>2 DEF Approve, FlushAfter
  <2>5. \A b \in Calls : Clean(calls'[b])
    BY <2>1, <2>2, <2>4, CleanBegin DEF NothingHeld
  <2> QED BY <2>3, <2>5 DEF NothingHeld
<1>3. ASSUME NEW r \in rows, RejectPreflight(r) \/ RejectRow(r) PROVE NothingHeld'
  <2>1. CASE RejectPreflight(r)
    BY <2>1 DEF RejectPreflight, Deal, Meta, NothingHeld
  <2>2. CASE RejectRow(r)
    BY <2>2 DEF RejectRow, Deal, NothingHeld
  <2> QED BY <1>3, <2>1, <2>2
<1> QED
  BY <1>1, <1>2, <1>3 DEF StaffClick

LEMMA HeldStep == TypeOK /\ HeldInv /\ [Next]_vars => HeldInv'
<1> SUFFICES ASSUME TypeOK, HeldInv, [Next]_vars, ~Told' PROVE NothingHeld'
  BY DEF HeldInv
<1>1. NothingHeld
  BY ToldStays DEF HeldInv
<1>2. ASSUME NEW c \in Calls, Fail(c) PROVE NothingHeld'
  BY <1>1, <1>2, FinishClean DEF Fail, NothingHeld
<1>3. CASE UNCHANGED vars
  BY <1>1, <1>3 DEF NothingHeld, vars
<1> QED
  BY <1>1, <1>2, <1>3, TurnHeld, QuoteHeld, StaffHeld, ClickHeld DEF Next

LEMMA HeldInit == Init => HeldInv
BY DEF Init, HeldInv, NothingHeld, Clean, Unused, FreshDeal

\* run_freight_quote announces a KP (create_escalation) before it puts it on
\* hold (update_deal): for every number of overlapping handlers, with crashes
\* between any two transactions and old copies written back at will, a deal
\* with withheld KP messages has an escalation that told staff of a KP.
THEOREM HeldKpAlwaysAnnounced == Spec => []HeldKpAnnounced
<1>1. HeldInv => HeldKpAnnounced
  BY DEF HeldInv, NothingHeld, Told, HeldKpAnnounced
<1> QED
  BY <1>1, HeldInit, HeldStep, TypeCorrect, PTL DEF Spec
==============================================================================
