-------------------------- MODULE DealSerial_proofs --------------------------
(***************************************************************************)
(* What holds of DealDesk when handlers run one by one: the metadata a     *)
(* handler writes back is then the metadata of the row.  Staff clicks      *)
(* still fall between any two transactions.  First for handlers none of    *)
(* which dies, then, of the flag for staff, for handlers that may die.     *)
(***************************************************************************)
EXTENDS DealDesk_proofs, FiniteSetTheorems

\* One handler at a time; and each to its end.
OneAtATime == IsFiniteSet(Calls) /\ MaxInFlight = 1
OneByOne == OneAtATime /\ ~MayFail

Alone == \A b, c \in InFlight : b = c

\* Where a handler has not read the row yet, and where it has just stored a
\* batch its copy does not show.
NoCopy == {"hintPatch", "hintPost", "flushRead"}
OldBatch == {"pfEsc", "reload"}
HintPCs == {"hintPatch", "hintPost", "hintApply"}
KpPCs == {"kpEsc", "kpHold"}

\* The row d as a call standing at pc may know it: its copy has the offer, the
\* hold and the waiting batch, and so has the metadata a hint is to post.
CopyOf(d, pc, row, body) ==
    /\ pc \notin NoCopy => row.offer = d.offer /\ row.meta.kp = d.meta.kp
    /\ pc \in HintPCs => body.kp = d.meta.kp
    /\ d.meta.rfq = "pending" =>
         /\ pc \notin NoCopy \cup OldBatch =>
              row.meta.rfq = "pending" /\ row.meta.batch = d.meta.batch
         /\ pc \in HintPCs =>
              body.rfq = "pending" /\ body.batch = d.meta.batch

Synced == \A c \in InFlight : CopyOf(deal, calls[c].pc, Row(c), calls[c].body)

\* A price staff have not let out is on hold, or about to be.
KpCovered ==
    \/ deal.offer \in released \cup {None}
    \/ deal.meta.kp = "on"
    \/ \E c \in Calls : calls[c].pc \in KpPCs

SerialInv == Alone /\ Synced /\ KpCovered /\ AcceptedWasReleased

\* The price and its hold are as they were, or the price was withdrawn.
Kept == deal'.offer \in {deal.offer, None} /\ deal'.meta.kp = deal.meta.kp

-----------------------------------------------------------------------------
(* What a step of a call does to the others: there are none.                *)

LEMMA BeginAlone ==
    ASSUME OneAtATime, NEW c \in Calls, NEW call, Begin(c, call)
    PROVE  InFlight = {} /\ c \notin InFlight
<1>1. IsFiniteSet(InFlight)
  BY FS_Subset DEF OneAtATime, InFlight
<1>2. Cardinality(InFlight) \in Nat /\ Cardinality(InFlight) < 1
  BY <1>1, FS_CardinalityType DEF OneAtATime, Begin
<1>3. Cardinality(InFlight) = 0
  BY <1>2
<1> QED
  BY <1>1, <1>3, FS_EmptySet

LEMMA MovePasses ==
    ASSUME SerialInv, NEW c \in InFlight,
           \A b \in Calls : b # c => calls'[b] = calls[b],
           \/ calls'[c].pc \in {"idle", "done"}
           \/ CopyOf(deal', calls'[c].pc, calls'[c].row, calls'[c].body),
           KpCovered', AcceptedWasReleased'
    PROVE  SerialInv'
<1>1. \A b \in InFlight' : b = c /\ calls'[c].pc \notin {"idle", "done"}
  BY DEF InFlight, SerialInv, Alone
<1>2. Alone' /\ Synced'
  BY <1>1 DEF Alone, Synced, Row
<1> QED
  BY <1>2 DEF SerialInv

LEMMA GotoPasses ==
    ASSUME TypeOK, SerialInv, NEW c \in InFlight, NEW pc, NEW row,
           Goto(c, pc, row), CopyOf(deal', pc, row, calls[c].body),
           KpCovered', AcceptedWasReleased'
    PROVE  SerialInv'
<1>1. /\ calls'[c].pc = pc /\ calls'[c].row = row /\ calls'[c].body = calls[c].body
      /\ \A b \in Calls : b # c => calls'[b] = calls[b]
  BY DEF Goto, TypeOK, Call, InFlight
<1> QED
  BY <1>1, MovePasses

LEMMA FinishPasses ==
    ASSUME TypeOK, SerialInv, NEW c \in InFlight, Finish(c),
           KpCovered', AcceptedWasReleased'
    PROVE  SerialInv'
<1>1. calls'[c].pc = "done" /\ \A b \in Calls : b # c => calls'[b] = calls[b]
  BY DEF Finish, Finished, Unused, TypeOK, InFlight
<1> QED
  BY <1>1, MovePasses

LEMMA ReturnPasses ==
    ASSUME TypeOK, SerialInv, NEW c \in InFlight, NEW row, Return(c, row),
           CopyOf(deal', "life", row, calls[c].body),
           CopyOf(deal', "mark", row, calls[c].body),
           KpCovered', AcceptedWasReleased'
    PROVE  SerialInv'
BY GotoPasses, FinishPasses DEF Return

\* No other call is at kpEsc or kpHold.
LEMMA CoverStays ==
    ASSUME SerialInv, NEW c \in InFlight, calls[c].pc \notin KpPCs, Kept,
           released \subseteq released'
    PROVE  KpCovered'
<1>1. \A b \in Calls : calls[b].pc \notin KpPCs
  BY DEF SerialInv, Alone, InFlight, KpPCs
<1> QED
  BY <1>1 DEF SerialInv, KpCovered, Kept

\* A row that was just read or written is a true copy, but to a hint that has
\* its own metadata to post.
LEMMA FreshCopy ==
    ASSUME NEW d, NEW pc, NEW body, pc \notin HintPCs PROVE CopyOf(d, pc, d, body)
BY DEF CopyOf

\* A transaction that writes the copy's metadata back, changing neither its
\* kp_hold nor its pending batch, and stores no price.
LEMMA UpdatePasses ==
    ASSUME TypeOK, SerialInv, NEW c \in InFlight,
           calls[c].pc \notin KpPCs \cup NoCopy \cup OldBatch,
           NEW pc, pc \notin HintPCs,
           Goto(c, pc, deal') \/ Return(c, deal') \/ Finish(c),
           deal'.offer \in {deal.offer, None},
           deal'.meta.kp = Row(c).meta.kp,
           Row(c).meta.rfq = "pending" => deal'.meta.rfq = "pending",
           UNCHANGED <<released, accepted>>
    PROVE  SerialInv' /\ BatchKept
<1>1. CopyOf(deal, calls[c].pc, Row(c), calls[c].body)
  BY DEF SerialInv, Synced
<1>2. Kept /\ BatchKept
  BY <1>1 DEF CopyOf, Kept, BatchKept
<1>3. KpCovered' /\ AcceptedWasReleased'
  BY <1>2, CoverStays DEF SerialInv, AcceptedWasReleased
<1>4. /\ CopyOf(deal', pc, deal', calls[c].body)
      /\ CopyOf(deal', "life", deal', calls[c].body)
      /\ CopyOf(deal', "mark", deal', calls[c].body)
  BY FreshCopy DEF HintPCs
<1> QED
  BY <1>2, <1>3, <1>4, GotoPasses, ReturnPasses, FinishPasses

\* A transaction after which the call keeps its copy, or has the row as it is.
LEMMA StepPasses ==
    ASSUME TypeOK, SerialInv, NEW c \in InFlight, calls[c].pc \notin KpPCs \cup NoCopy,
           NEW pc, pc \notin HintPCs,
           calls[c].pc \in OldBatch => pc \in OldBatch,
           \/ Goto(c, pc, Row(c))
           \/ Finish(c),
           deal'.offer = deal.offer, deal'.meta = deal.meta,
           UNCHANGED <<released, accepted>>
    PROVE  SerialInv' /\ BatchKept
<1>1. CopyOf(deal, calls[c].pc, Row(c), calls[c].body)
  BY DEF SerialInv, Synced
<1>2. CopyOf(deal', pc, Row(c), calls[c].body)
  BY <1>1 DEF CopyOf
<1>3. Kept /\ BatchKept
  BY DEF Kept, BatchKept
<1>4. KpCovered' /\ AcceptedWasReleased'
  BY <1>3, CoverStays DEF SerialInv, AcceptedWasReleased
<1> QED
  BY <1>2, <1>3, <1>4, GotoPasses, FinishPasses

LEMMA ReadPasses ==
    ASSUME TypeOK, SerialInv, NEW c \in InFlight, calls[c].pc \notin KpPCs,
           NEW pc, pc \notin HintPCs, Goto(c, pc, deal) \/ Finish(c),
           UNCHANGED <<deal, released, accepted>>
    PROVE  SerialInv' /\ BatchKept
<1>1. Kept /\ BatchKept
  BY DEF Kept, BatchKept
<1>2. KpCovered' /\ AcceptedWasReleased'
  BY <1>1, CoverStays DEF SerialInv, AcceptedWasReleased
<1> QED
  BY <1>1, <1>2, FreshCopy, GotoPasses, FinishPasses

LEMMA BeginPasses ==
    ASSUME OneByOne, TypeOK, SerialInv, NEW c \in Calls, NEW call \in Call,
           Begin(c, call),
           call.pc = "done" \/ CopyOf(deal', call.pc, call.row, call.body),
           Kept, released \subseteq released', UNCHANGED accepted
    PROVE  SerialInv'
<1>1. InFlight = {}
  BY BeginAlone DEF OneByOne
<1>2. calls'[c] = call /\ \A b \in Calls : b # c => calls'[b] = calls[b]
  BY DEF Begin, TypeOK
<1>3. \A b \in InFlight' : b = c /\ call.pc # "done"
  BY <1>1, <1>2 DEF InFlight
<1>4. Alone' /\ Synced'
  BY <1>2, <1>3 DEF Alone, Synced, Row
<1>5. \A b \in Calls : calls[b].pc \notin KpPCs
  BY <1>1 DEF InFlight, KpPCs
<1>6. KpCovered'
  BY <1>5 DEF SerialInv, KpCovered, Kept
<1> QED
  BY <1>4, <1>6 DEF SerialInv, AcceptedWasReleased

\* A step that leaves the calls alone and decides a waiting batch at most.
LEMMA ClickPasses ==
    ASSUME TypeOK, SerialInv, UNCHANGED <<calls, accepted>>,
           released \subseteq released',
           deal'.offer = deal.offer, deal'.meta.kp = deal.meta.kp,
           deal'.meta.batch = deal.meta.batch,
           deal'.meta.rfq = "pending" => deal.meta.rfq = "pending"
    PROVE  SerialInv'
<1>1. InFlight' = InFlight /\ \A c \in InFlight : Row(c)' = Row(c)
  BY DEF InFlight, Row
<1>2. Alone' /\ Synced'
  BY <1>1 DEF SerialInv, Alone, Synced, CopyOf, Row
<1>3. KpCovered'
  BY DEF SerialInv, KpCovered
<1> QED
  BY <1>2, <1>3 DEF SerialInv, AcceptedWasReleased

\* create_escalation touches neither price nor metadata.
LEMMA EscalationKeeps ==
    ASSUME TypeOK, NEW c \in Calls, NEW reason, NEW about,
           CreateEscalation(c, reason, about)
    PROVE  deal'.meta = deal.meta /\ deal'.offer = deal.offer
BY DEF TypeOK, CreateEscalation, DuplicateEscalation, NewEscalation, Deal

LEMMA QuoteSerial ==
    ASSUME OneByOne, TypeOK, SerialInv, NEW c \in Calls, Quote(c)
    PROVE  SerialInv' /\ BatchKept
<1>0. /\ Row(c) \in Deal /\ Row(c).meta \in Meta /\ deal \in Deal /\ deal.meta \in Meta
      /\ Tag(c) \in Tags
      /\ At(c, calls[c].pc)
  BY RowType, TagType DEF Row, At
<1> USE <1>0
<1>1. c \in InFlight /\ CopyOf(deal, calls[c].pc, Row(c), calls[c].body)
  <2>1. c \in InFlight
    BY DEF InFlight, At, Quote, QuoteBegin, QuoteLegal, QuoteCompliance, SaveScheme,
       MailRfq, PreflightRead, PreflightStore, PreflightEscalate, Reload,
       NoPartnerChannels, WithdrawOffer, ReviewPrice, PublishOffer, KpEscalate, KpHold
  <2> QED BY <2>1 DEF SerialInv, Synced
<1>2. CASE QuoteBegin(c) \/ QuoteLegal(c)
  <2>1. PICK pc \in {"legal", "legalEsc", "scheme", "offer"} : Goto(c, pc, deal')
    BY <1>2 DEF QuoteBegin, QuoteLegal, UpdateThen
  <2>2. deal'.meta = Row(c).meta /\ deal'.offer = deal.offer
    BY <1>2 DEF QuoteBegin, QuoteLegal, UpdateThen, Deal
  <2>3. calls[c].pc \in {"begin", "legal"} /\ UNCHANGED <<released, accepted>>
    BY <1>2 DEF QuoteBegin, QuoteLegal, At, ghosts
  <2> QED BY <1>1, <2>1, <2>2, <2>3, UpdatePasses DEF KpPCs, NoCopy, OldBatch, HintPCs
<1>3. CASE QuoteCompliance(c) \/ NoPartnerChannels(c) \/ ReviewPrice(c)
  <2>1. CreateEscalation(c, "review", None) /\ UNCHANGED <<released, accepted>>
    BY <1>3 DEF QuoteCompliance, NoPartnerChannels, ReviewPrice, ghosts
  <2>2. PICK pc \in {"scheme", "offer", "withdraw", "publish"} : Goto(c, pc, Row(c))
    BY <1>3 DEF QuoteCompliance, NoPartnerChannels, ReviewPrice
  <2>3. calls[c].pc \in {"legalEsc", "offer", "publish"}
    BY <1>3 DEF QuoteCompliance, NoPartnerChannels, ReviewPrice, At
  <2> QED BY <1>1, <2>1, <2>2, <2>3, EscalationKeeps, StepPasses
          DEF KpPCs, NoCopy, OldBatch, HintPCs
<1>4. CASE SaveScheme(c)
  <2>1. /\ deal'.offer = deal.offer
        /\ deal'.meta \in {deal.meta, Row(c).meta}
    BY <1>4 DEF SaveScheme, Deal
  <2>2. At(c, "scheme") /\ Goto(c, "mail", Row(c)) /\ UNCHANGED <<released, accepted>>
    BY <1>4 DEF SaveScheme, ghosts
  <2>3. CopyOf(deal', "mail", Row(c), calls[c].body) /\ Kept /\ BatchKept
    BY <1>1, <2>1, <2>2 DEF CopyOf, NoCopy, OldBatch, HintPCs, At, Kept, BatchKept
  <2>4. KpCovered' /\ AcceptedWasReleased'
    BY <1>1, <2>2, <2>3, CoverStays DEF At, KpPCs, SerialInv, AcceptedWasReleased
  <2> QED BY <1>1, <2>2, <2>3, <2>4, GotoPasses
<1>5. CASE MailRfq(c)
  <2>1. /\ deal'.offer = deal.offer
        /\ deal'.meta \in {deal.meta, Row(c).meta}
    BY <1>5 DEF MailRfq, Deal
  <2>2. At(c, "mail") /\ UNCHANGED <<released, accepted>>
    BY <1>5 DEF MailRfq, ghosts
  <2>3. PICK pc \in {"reload", "pfRead"} : Goto(c, pc, Row(c))
    BY <1>5 DEF MailRfq
  <2>4. CopyOf(deal', pc, Row(c), calls[c].body) /\ Kept /\ BatchKept
    BY <1>1, <2>1, <2>2 DEF CopyOf, NoCopy, OldBatch, HintPCs, At, Kept, BatchKept
  <2>5. KpCovered' /\ AcceptedWasReleased'
    BY <1>1, <2>2, <2>4, CoverStays DEF At, KpPCs, SerialInv, AcceptedWasReleased
  <2> QED BY <1>1, <2>3, <2>4, <2>5, GotoPasses
<1>6. CASE PreflightRead(c) \/ Reload(c)
  <2>1. PICK pc \in {"pfStore", "offer"} : Goto(c, pc, deal)
    BY <1>6 DEF PreflightRead, Reload, Swallow, OneByOne
  <2>2. calls[c].pc \in {"pfRead", "reload"} /\ UNCHANGED <<deal, released, accepted>>
    BY <1>6 DEF PreflightRead, Reload, At, ghosts
  <2> QED BY <1>1, <2>1, <2>2, ReadPasses DEF KpPCs, HintPCs
<1>7. CASE PreflightStore(c)
  <2>1. /\ deal'.offer = deal.offer /\ deal'.meta.kp = Row(c).meta.kp
        /\ deal'.meta.rfq = "pending"
    BY <1>7 DEF PreflightStore, Deal, Meta
  <2>2. At(c, "pfStore") /\ Goto(c, "pfEsc", Row(c)) /\ UNCHANGED <<released, accepted>>
    BY <1>7 DEF PreflightStore, ghosts
  <2>3. CopyOf(deal', "pfEsc", Row(c), calls[c].body) /\ Kept /\ BatchKept
    BY <1>1, <2>1, <2>2 DEF CopyOf, NoCopy, OldBatch, HintPCs, At, Kept, BatchKept
  <2>4. KpCovered' /\ AcceptedWasReleased'
    BY <1>1, <2>2, <2>3, CoverStays DEF At, KpPCs, SerialInv, AcceptedWasReleased
  <2> QED BY <1>1, <2>2, <2>3, <2>4, GotoPasses
<1>8. CASE PreflightEscalate(c)
  <2>1. deal'.meta = deal.meta /\ deal'.offer = deal.offer
    BY <1>8, EscalationKeeps DEF PreflightEscalate
  <2>2. At(c, "pfEsc") /\ Goto(c, "reload", Row(c)) /\ UNCHANGED <<released, accepted>>
    BY <1>8 DEF PreflightEscalate, ghosts
  <2> QED BY <1>1, <2>1, <2>2, StepPasses DEF At, KpPCs, NoCopy, OldBatch, HintPCs
<1>9. CASE WithdrawOffer(c)
  <2>1. /\ Return(c, deal')
        /\ deal'.offer = None
        /\ deal'.meta.kp = Row(c).meta.kp /\ deal'.meta.rfq = Row(c).meta.rfq
    BY <1>9 DEF WithdrawOffer, Deal, Meta
  <2>2. calls[c].pc \in {"offer", "withdraw"} /\ UNCHANGED <<released, accepted>>
    BY <1>9 DEF WithdrawOffer, ghosts
  <2> QED BY <1>1, <2>1, <2>2, UpdatePasses DEF KpPCs, NoCopy, OldBatch, HintPCs
<1>10. CASE PublishOffer(c)
  <2>1. /\ deal'.offer = Tag(c)
        /\ deal'.meta.kp = Row(c).meta.kp /\ deal'.meta.rfq = Row(c).meta.rfq
        /\ \/ Goto(c, "kpEsc", deal') /\ released' = released
           \/ Return(c, deal') /\ released' = released \cup {Tag(c)}
    BY <1>10 DEF PublishOffer, Deal, Meta
  <2>2. calls[c].pc \in {"offer", "publish"} /\ UNCHANGED accepted
    BY <1>10 DEF PublishOffer
  <2>3. BatchKept /\ AcceptedWasReleased'
    BY <1>1, <2>1, <2>2 DEF CopyOf, NoCopy, OldBatch, BatchKept, SerialInv, AcceptedWasReleased
  <2>4. CASE Goto(c, "kpEsc", deal')
    <3>1. calls'[c].pc = "kpEsc"
      BY <2>4 DEF Goto, TypeOK, Call
    <3>2. KpCovered'
      BY <3>1 DEF KpCovered, KpPCs
    <3> QED BY <1>1, <2>3, <2>4, <3>2, FreshCopy, GotoPasses DEF HintPCs
  <2>5. CASE Return(c, deal') /\ released' = released \cup {Tag(c)}
    <3>1. KpCovered'
      BY <2>1, <2>5 DEF KpCovered
    <3> QED BY <1>1, <2>3, <2>5, <3>1, FreshCopy, ReturnPasses DEF HintPCs
  <2> QED BY <2>1, <2>4, <2>5
<1>11. CASE KpEscalate(c)
  <2>1. deal'.meta = deal.meta /\ deal'.offer = deal.offer
    BY <1>11, EscalationKeeps DEF KpEscalate
  <2>2. At(c, "kpEsc") /\ Goto(c, "kpHold", Row(c)) /\ UNCHANGED <<released, accepted>>
    BY <1>11 DEF KpEscalate, ghosts
  <2>3. CopyOf(deal', "kpHold", Row(c), calls[c].body) /\ BatchKept
    BY <1>1, <2>1, <2>2 DEF CopyOf, NoCopy, OldBatch, HintPCs, At, BatchKept
  <2>4. calls'[c].pc = "kpHold"
    BY <2>2 DEF Goto, TypeOK, Call
  <2>5. KpCovered' /\ AcceptedWasReleased'
    BY <2>2, <2>4 DEF KpCovered, KpPCs, SerialInv, AcceptedWasReleased
  <2> QED BY <1>1, <2>2, <2>3, <2>5, GotoPasses
<1>12. CASE KpHold(c)
  <2>1. /\ Return(c, deal')
        /\ deal'.meta.kp = "on" /\ deal'.meta.rfq = Row(c).meta.rfq
    BY <1>12 DEF KpHold, Deal, Meta
  <2>2. At(c, "kpHold") /\ UNCHANGED <<released, accepted>>
    BY <1>12 DEF KpHold, ghosts
  <2>3. BatchKept /\ KpCovered' /\ AcceptedWasReleased'
    BY <1>1, <2>1, <2>2 DEF CopyOf, NoCopy, OldBatch, At, BatchKept, KpCovered,
       SerialInv, AcceptedWasReleased
  <2> QED BY <1>1, <2>1, <2>3, FreshCopy, ReturnPasses DEF HintPCs
<1> QED
  BY <1>2, <1>3, <1>4, <1>5, <1>6, <1>7, <1>8, <1>9, <1>10, <1>11, <1>12 DEF Quote

LEMMA TurnSerial ==
    ASSUME OneByOne, TypeOK, SerialInv, NEW c \in Calls, TurnStep(c)
    PROVE  SerialInv' /\ BatchKept
<1>0. /\ calls[c] \in Call /\ Row(c) \in Deal /\ Row(c).meta \in Meta
      /\ deal \in Deal /\ deal.meta \in Meta
      /\ At(c, calls[c].pc)
  BY RowType DEF Row, At
<1> USE <1>0
<1>1. CASE StartTurn(c)
  <2>1. /\ Finished \in Call /\ Finished.pc = "done"
        /\ \A pc \in {"merge", "grey"} : [Turn EXCEPT !.pc = pc] \in Call
    BY TurnsType DEF Finished, Unused
  <2>2. \A pc \in {"merge", "grey"} : /\ [Turn EXCEPT !.pc = pc].pc = pc
                                      /\ [Turn EXCEPT !.pc = pc].row = deal
    BY DEF Turn, Unused
  <2>3. deal' = deal /\ UNCHANGED <<released, accepted>>
    BY <1>1 DEF StartTurn, ghosts
  <2>4. Kept /\ BatchKept
    BY <2>3 DEF Kept, BatchKept
  <2>5. CASE Begin(c, Finished)
    BY <2>1, <2>3, <2>4, <2>5, BeginPasses
  <2>6. ASSUME NEW pc \in {"merge", "grey"}, Begin(c, [Turn EXCEPT !.pc = pc])
        PROVE  SerialInv'
    <3> DEFINE call == [Turn EXCEPT !.pc = pc]
    <3>1. call \in Call /\ call.pc = pc /\ call.row = deal'
      BY <2>1, <2>2, <2>3
    <3> HIDE DEF call
    <3>2. CopyOf(deal', call.pc, call.row, call.body)
      BY <3>1, FreshCopy DEF HintPCs
    <3>3. Begin(c, call)
      BY <2>6 DEF call
    <3> QED BY <2>3, <2>4, <3>1, <3>2, <3>3, BeginPasses
  <2> QED BY <1>1, <2>4, <2>5, <2>6 DEF StartTurn, Might
<1>2. SUFFICES ASSUME ~StartTurn(c) PROVE SerialInv' /\ BatchKept
  BY <1>1
<1>3. c \in InFlight /\ CopyOf(deal, calls[c].pc, Row(c), calls[c].body)
  <2>1. c \in InFlight
    BY <1>2 DEF InFlight, At, TurnStep, GreyScheme, MergeTurn, UrlEscalate, UrlReload,
       HardEscalate, HardSet, PlanTurn, OpsEscalate, OpsSet, Recalculate,
       AcceptOffer, Execute, Remind, JustAnswer, Life
  <2> QED BY <2>1 DEF SerialInv, Synced
<1>4. CASE GreyScheme(c) \/ UrlEscalate(c) \/ OpsEscalate(c) \/ HardEscalate(c)
  <2>1. CreateEscalation(c, "review", None) /\ UNCHANGED <<released, accepted>>
    BY <1>4 DEF GreyScheme, UrlEscalate, OpsEscalate, HardEscalate, CreateEscalation, ghosts
  <2>2. \/ Finish(c)
        \/ \E pc \in {"urlReload", "opsSet", "hardIntake", "hardSet"} : Goto(c, pc, Row(c))
    BY <1>4 DEF GreyScheme, UrlEscalate, OpsEscalate, HardEscalate
  <2>3. PICK pc \in {"urlReload", "opsSet", "hardIntake", "hardSet"} :
          Goto(c, pc, Row(c)) \/ Finish(c)
    BY <2>2
  <2>4. calls[c].pc \in {"grey", "urlEsc", "opsEsc", "hardEsc"}
    BY <1>4 DEF GreyScheme, UrlEscalate, OpsEscalate, HardEscalate, At
  <2> QED BY <1>3, <2>1, <2>3, <2>4, EscalationKeeps, StepPasses
          DEF KpPCs, NoCopy, OldBatch, HintPCs
<1>5. CASE MergeTurn(c) \/ OpsSet(c)
  <2>1. PICK pc \in {"plan", "settled", "urlEsc", "hardEsc", "hardIntake", "life"} :
          Goto(c, pc, deal')
    BY <1>5 DEF MergeTurn, OpsSet, UpdateThen, Might, Planned
  <2>2. /\ deal'.offer = deal.offer
        /\ deal'.meta.kp = Row(c).meta.kp /\ deal'.meta.rfq = Row(c).meta.rfq
    <3>1. CASE MergeTurn(c)
      BY <3>1 DEF MergeTurn, UpdateThen, Deal
    <3>2. CASE OpsSet(c)
      BY <3>2 DEF OpsSet, UpdateThen, Deal, Meta
    <3> QED BY <1>5, <3>1, <3>2
  <2>3. calls[c].pc \in {"merge", "opsSet"} /\ UNCHANGED <<released, accepted>>
    BY <1>5 DEF MergeTurn, OpsSet, At, ghosts
  <2> QED BY <1>3, <2>1, <2>2, <2>3, UpdatePasses DEF KpPCs, NoCopy, OldBatch, HintPCs
<1>6. CASE UrlReload(c)
  <2>1. PICK pc \in {"plan", "settled"} : Goto(c, pc, deal)
    BY <1>6 DEF UrlReload, Planned
  <2>2. At(c, "urlReload") /\ UNCHANGED <<deal, released, accepted>>
    BY <1>6 DEF UrlReload, ghosts
  <2> QED BY <1>3, <2>1, <2>2, ReadPasses DEF At, KpPCs, HintPCs
<1>7. CASE HardSet(c) \/ Execute(c)
  <2>1. /\ Finish(c)
        /\ deal'.offer = deal.offer
        /\ deal'.meta = Row(c).meta
    BY <1>7 DEF HardSet, Execute, Deal
  <2>2. calls[c].pc \in {"hardSet", "hardIntake", "life"} /\ UNCHANGED <<released, accepted>>
    BY <1>7 DEF HardSet, Execute, Life, At, ghosts
  <2> QED BY <1>3, <2>1, <2>2, UpdatePasses DEF KpPCs, NoCopy, OldBatch, HintPCs
<1>8. CASE PlanTurn(c) \/ Recalculate(c)
  <2>1. UNCHANGED <<deal, released, accepted>> /\ calls[c].pc \in {"plan", "settled", "life"}
    BY <1>8 DEF PlanTurn, Recalculate, Life, At, ghosts
  <2>2. /\ \A b \in Calls : b # c => calls'[b] = calls[b]
        /\ \/ calls'[c].pc = "done"
           \/ /\ calls'[c].pc \in {"begin", "opsEsc", "life"}
              /\ calls'[c].row = Row(c) /\ calls'[c].body = calls[c].body
    <3>1. CASE PlanTurn(c)
      BY <3>1, PlanKeeps DEF TypeOK, Row
    <3>2. CASE Finish(c)
      BY <3>2 DEF Finish, Finished, Unused, TypeOK
    <3>3. CASE calls' = [calls EXCEPT ![c].pc = "begin", ![c].round = 2, ![c].send = TRUE]
      BY <3>3 DEF TypeOK, Call, Row
    <3> QED BY <1>8, <3>1, <3>2, <3>3 DEF Recalculate
  <2>3. \/ calls'[c].pc = "done"
        \/ CopyOf(deal', calls'[c].pc, calls'[c].row, calls'[c].body)
    BY <1>3, <2>1, <2>2 DEF CopyOf, NoCopy, OldBatch, HintPCs
  <2>4. KpCovered' /\ AcceptedWasReleased' /\ BatchKept
    BY <1>3, <2>1, CoverStays DEF KpPCs, Kept, BatchKept, SerialInv, AcceptedWasReleased
  <2> QED BY <1>3, <2>2, <2>3, <2>4, MovePasses
<1>9. CASE AcceptOffer(c)
  <2>1. /\ Finish(c)
        /\ deal'.offer = deal.offer /\ deal'.meta = Row(c).meta
    BY <1>9 DEF AcceptOffer, Deal
  <2>2. /\ Row(c).offer # None /\ Row(c).meta.kp # "on"
        /\ accepted' = accepted \cup {Row(c).offer} /\ UNCHANGED released
    BY <1>9 DEF AcceptOffer, Priced, Held
  <2>3. At(c, "life")
    BY <1>9 DEF AcceptOffer, Life
  <2>4. Kept /\ BatchKept /\ Row(c).offer = deal.offer /\ deal.meta.kp # "on"
    BY <1>3, <2>1, <2>2, <2>3 DEF CopyOf, NoCopy, OldBatch, At, Kept, BatchKept
  <2>5. \A b \in Calls : calls[b].pc \notin KpPCs
    BY <1>3, <2>3 DEF SerialInv, Alone, InFlight, KpPCs, At
  <2>6. deal.offer \in released
    BY <2>2, <2>4, <2>5 DEF SerialInv, KpCovered
  <2>7. AcceptedWasReleased'
    BY <2>2, <2>4, <2>6 DEF SerialInv, AcceptedWasReleased
  <2>8. KpCovered'
    BY <1>3, <2>2, <2>3, <2>4, CoverStays DEF At, KpPCs
  <2> QED BY <1>3, <2>1, <2>4, <2>7, <2>8, FinishPasses
<1>10. CASE Remind(c) \/ JustAnswer(c)
  <2>1. At(c, "life") /\ Finish(c) /\ UNCHANGED <<deal, released, accepted>>
    BY <1>10 DEF Remind, JustAnswer, Life, ghosts
  <2> QED BY <1>3, <2>1, ReadPasses DEF At, KpPCs, HintPCs
<1> QED
  BY <1>2, <1>4, <1>5, <1>6, <1>7, <1>8, <1>9, <1>10 DEF TurnStep

\* A staff request or a worker that starts with the row as it is.
LEMMA StartPasses ==
    ASSUME OneByOne, TypeOK, SerialInv, NEW c \in Calls, NEW call \in Call,
           Begin(c, call), call.row = deal, call.pc \notin HintPCs,
           UNCHANGED <<deal, released, accepted>>
    PROVE  SerialInv' /\ BatchKept
<1>1. Kept /\ BatchKept /\ CopyOf(deal', call.pc, call.row, call.body)
  BY FreshCopy DEF Kept, BatchKept
<1> QED
  BY <1>1, BeginPasses

LEMMA StaffSerial ==
    ASSUME OneByOne, TypeOK, SerialInv, NEW c \in Calls, StaffStep(c)
    PROVE  SerialInv' /\ BatchKept
<1>0. /\ calls[c] \in Call /\ Row(c) \in Deal /\ Row(c).meta \in Meta
      /\ deal \in Deal /\ deal.meta \in Meta /\ calls[c].body \in Meta
      /\ At(c, calls[c].pc)
  BY RowType DEF Row, At, Call
<1> USE <1>0
<1>1. CASE StartApproveKp(c)
  <2> DEFINE call == [Unused EXCEPT !.kind = "approve_kp", !.pc = "kpRelease", !.row = deal]
  <2>1. call \in Call
    BY StaffCallType
  <2>2. call.row = deal /\ call.pc \notin HintPCs
    BY DEF Unused, HintPCs
  <2> QED BY <1>1, <2>1, <2>1, <2>1, <2>2, StartPasses DEF StartApproveKp, ghosts
<1>2. CASE StartCut(c)
  <2> DEFINE call == [Unused EXCEPT !.kind = "cut3", !.pc = "cutPatch", !.row = deal]
  <2>1. call \in Call
    BY StaffCallType
  <2>2. call.row = deal /\ call.pc \notin HintPCs
    BY DEF Unused, HintPCs
  <2> QED BY <1>2, <2>1, <2>1, <2>1, <2>2, StartPasses DEF StartCut, ghosts
<1>3. CASE StartFallback(c)
  <2> DEFINE call == [Unused EXCEPT !.kind = "fallback", !.pc = "begin", !.row = deal]
  <2>1. call \in Call
    BY StaffCallType
  <2>2. call.row = deal /\ call.pc \notin HintPCs
    BY DEF Unused, HintPCs
  <2> QED BY <1>3, <2>1, <2>1, <2>1, <2>2, StartPasses DEF StartFallback, ghosts
<1>4. CASE StartHint(c)
  <2> DEFINE call(mode) == [Unused EXCEPT !.kind = "hint", !.pc = "hintPatch", !.send = TRUE,
                                          !.body = [deal.meta EXCEPT !.mode = mode]]
  <2>1. PICK mode \in {"open", "gate", "hold"} : Begin(c, call(mode))
    BY <1>4 DEF StartHint
  <2>2. call(mode) \in Call
    BY HintCallType
  <2>3. /\ call(mode).pc = "hintPatch"
        /\ call(mode).body.kp = deal.meta.kp /\ call(mode).body.rfq = deal.meta.rfq
        /\ call(mode).body.batch = deal.meta.batch
    BY DEF Unused, FreshDeal, Meta
  <2>4. UNCHANGED <<deal, released, accepted>>
    BY <1>4 DEF StartHint, ghosts
  <2> HIDE DEF call
  <2>5. CopyOf(deal', call(mode).pc, call(mode).row, call(mode).body)
    BY <2>3, <2>4 DEF CopyOf, NoCopy, HintPCs
  <2>6. Kept /\ BatchKept
    BY <2>4 DEF Kept, BatchKept
  <2> QED BY <2>1, <2>2, <2>4, <2>5, <2>6, BeginPasses
<1>5. SUFFICES ASSUME c \in InFlight, CopyOf(deal, calls[c].pc, Row(c), calls[c].body)
               PROVE  SerialInv' /\ BatchKept
  <2>1. \/ StartApproveKp(c) \/ StartCut(c) \/ StartFallback(c) \/ StartHint(c)
        \/ c \in InFlight
    BY DEF InFlight, At, StaffStep, FlushRead, FlushMail, FlushMark, ReleaseKp,
       CutPatch, HintPatch, HintPost, HintApply, FallbackMark
  <2> QED BY <1>1, <1>2, <1>3, <1>4, <2>1 DEF SerialInv, Synced
<1>6. CASE FlushRead(c)
  <2>1. At(c, "flushRead") /\ UNCHANGED <<deal, released, accepted>>
    BY <1>6 DEF FlushRead, ghosts
  <2>2. Goto(c, "flushMail", deal) \/ Finish(c)
    BY <1>6 DEF FlushRead
  <2> QED BY <1>5, <2>1, <2>2, ReadPasses DEF At, KpPCs, HintPCs
<1>7. CASE FlushMail(c)
  <2>1. /\ At(c, "flushMail") /\ Goto(c, "flushMark", Row(c))
        /\ UNCHANGED <<deal, released, accepted>>
    BY <1>7 DEF FlushMail
  <2> QED BY <1>5, <2>1, StepPasses DEF At, KpPCs, NoCopy, OldBatch, HintPCs
<1>8. CASE FlushMark(c)
  <2>1. /\ deal'.offer = deal.offer /\ deal'.meta.kp = Row(c).meta.kp
        /\ deal'.meta.rfq = "sent" /\ deal'.meta.batch = Row(c).meta.batch
    BY <1>8 DEF FlushMark, Deal, Meta
  <2>2. At(c, "flushMark") /\ Finish(c) /\ UNCHANGED <<released, accepted>>
    BY <1>8 DEF FlushMark, ghosts
  <2>3. Kept /\ BatchKept
    BY <1>5, <2>1, <2>2 DEF CopyOf, NoCopy, OldBatch, At, Kept, BatchKept
  <2>4. KpCovered' /\ AcceptedWasReleased'
    BY <1>5, <2>2, <2>3, CoverStays DEF At, KpPCs, SerialInv, AcceptedWasReleased
  <2> QED BY <1>5, <2>2, <2>3, <2>4, FinishPasses
<1>9. CASE ReleaseKp(c)
  <2>1. /\ deal'.offer = deal.offer /\ deal'.meta.rfq = Row(c).meta.rfq
        /\ released' = released \cup ({Row(c).offer, Row(c).meta.pending} \ {None})
    BY <1>9 DEF ReleaseKp, Deal, Meta
  <2>2. At(c, "kpRelease") /\ Finish(c) /\ UNCHANGED accepted
    BY <1>9 DEF ReleaseKp
  <2>3. BatchKept /\ KpCovered' /\ AcceptedWasReleased'
    BY <1>5, <2>1, <2>2 DEF CopyOf, NoCopy, OldBatch, At, BatchKept, KpCovered,
       SerialInv, AcceptedWasReleased
  <2> QED BY <1>5, <2>2, <2>3, FinishPasses
<1>10. CASE CutPatch(c)
  <2>1. /\ deal'.meta = deal.meta
        /\ released' = released \cup ({deal'.offer} \ {None})
    BY <1>10 DEF CutPatch, Deal
  <2>2. Finish(c) /\ UNCHANGED accepted
    BY <1>10 DEF CutPatch
  <2>3. BatchKept /\ KpCovered' /\ AcceptedWasReleased'
    BY <2>1, <2>2 DEF BatchKept, KpCovered, SerialInv, AcceptedWasReleased
  <2> QED BY <1>5, <2>2, <2>3, FinishPasses
<1>11. CASE HintPatch(c)
  <2>1. deal'.offer = deal.offer /\ deal'.meta = calls[c].body
    BY <1>11 DEF HintPatch, Deal
  <2>2. /\ At(c, "hintPatch") /\ UNCHANGED <<released, accepted>>
        /\ Goto(c, "hintPost", Row(c)) \/ Finish(c)
    BY <1>11 DEF HintPatch, ghosts
  <2>3. Kept /\ BatchKept /\ CopyOf(deal', "hintPost", Row(c), calls[c].body)
    BY <1>5, <2>1, <2>2 DEF CopyOf, NoCopy, HintPCs, At, Kept, BatchKept
  <2>4. KpCovered' /\ AcceptedWasReleased'
    BY <1>5, <2>2, <2>3, CoverStays DEF At, KpPCs, SerialInv, AcceptedWasReleased
  <2> QED BY <1>5, <2>2, <2>3, <2>4, GotoPasses, FinishPasses
<1>12. CASE HintPost(c)
  <2>1. /\ At(c, "hintPost") /\ Goto(c, "hintApply", deal)
        /\ UNCHANGED <<deal, released, accepted>>
    BY <1>12 DEF HintPost, ghosts
  <2>2. Kept /\ BatchKept /\ CopyOf(deal', "hintApply", deal, calls[c].body)
    BY <1>5, <2>1 DEF CopyOf, HintPCs, At, Kept, BatchKept
  <2>3. KpCovered' /\ AcceptedWasReleased'
    BY <1>5, <2>1, <2>2, CoverStays DEF At, KpPCs, SerialInv, AcceptedWasReleased
  <2> QED BY <1>5, <2>1, <2>2, <2>3, GotoPasses
<1>13. CASE HintApply(c)
  <2> DEFINE merged == MergeMeta(Row(c).meta, calls[c].body)
  <2>1. At(c, "hintApply") /\ UNCHANGED <<released, accepted>>
    BY <1>13 DEF HintApply, ghosts
  <2>2. Goto(c, "begin", deal') \/ Finish(c)
    BY <1>13 DEF HintApply
  <2>3. /\ merged.kp = deal.meta.kp
        /\ deal.meta.rfq = "pending" => merged.rfq = "pending"
        /\ merged \in Meta
    BY <1>5, <2>1 DEF CopyOf, NoCopy, HintPCs, At, MergeMeta, Meta
  <2>4. PICK attempted, kept :
          deal' = [deal EXCEPT !.meta = [merged EXCEPT !.attempted = attempted],
                               !.status = "quoting", !.paused = kept]
    BY <1>13 DEF HintApply
  <2> HIDE DEF merged
  <2>5. /\ deal'.offer = deal.offer
        /\ deal'.meta.kp = merged.kp /\ deal'.meta.rfq = merged.rfq
    BY <2>3, <2>4 DEF Deal, Meta
  <2>6. Kept /\ BatchKept
    BY <2>3, <2>5 DEF Kept, BatchKept
  <2>7. KpCovered' /\ AcceptedWasReleased'
    BY <1>5, <2>1, <2>6, CoverStays DEF At, KpPCs, SerialInv, AcceptedWasReleased
  <2>8. CopyOf(deal', "begin", deal', calls[c].body)
    BY FreshCopy DEF HintPCs
  <2> QED BY <1>5, <2>2, <2>6, <2>7, <2>8, GotoPasses, FinishPasses
<1>14. CASE FallbackMark(c)
  <2>1. deal'.offer = deal.offer /\ deal'.meta = Row(c).meta
    BY <1>14 DEF FallbackMark, Deal
  <2>2. At(c, "mark") /\ Finish(c) /\ UNCHANGED <<released, accepted>>
    BY <1>14 DEF FallbackMark, ghosts
  <2> QED BY <1>5, <2>1, <2>2, UpdatePasses DEF At, KpPCs, NoCopy, OldBatch, HintPCs
<1> QED
  BY <1>1, <1>2, <1>3, <1>4, <1>6, <1>7, <1>8, <1>9, <1>10, <1>11, <1>12, <1>13, <1>14
     DEF StaffStep

LEMMA ClickSerial ==
    ASSUME OneByOne, TypeOK, SerialInv, StaffClick
    PROVE  SerialInv' /\ BatchKept
<1>0. deal \in Deal /\ deal.meta \in Meta
  BY DEF TypeOK, Deal
<1> USE <1>0
<1>1. CASE Pause \/ Resume \/ Takeover \/ RejectDeal \/ CloseDeal \/ ApiEscalate
  <2>1. /\ deal'.meta = deal.meta /\ deal'.offer = deal.offer
        /\ UNCHANGED <<calls, released, accepted>>
    BY <1>1 DEF Pause, Resume, Takeover, RejectDeal, CloseDeal, ApiEscalate, Patch, Deal, ghosts
  <2> QED BY <2>1, ClickPasses DEF BatchKept
<1>2. ASSUME NEW r \in rows, Approve(r) PROVE SerialInv' /\ BatchKept
  <2> DEFINE call == [Unused EXCEPT !.kind = "flush", !.pc = "flushRead", !.seen = r.about]
  <2>1. call \in Call /\ call.pc = "flushRead"
    BY UnusedType DEF TypeOK, Call, PCs, Kinds, Rows
  <2>2. deal'.meta = deal.meta /\ deal'.offer = deal.offer
    BY <1>2 DEF Approve, Deal
  <2>3. UNCHANGED calls \/ \E c \in Calls : Begin(c, call)
    BY <1>2 DEF Approve, FlushAfter
  <2>4. released \subseteq released' /\ UNCHANGED accepted
    BY <1>2 DEF Approve
  <2> HIDE DEF call
  <2>5. CASE UNCHANGED calls
    BY <2>2, <2>4, <2>5, ClickPasses DEF BatchKept
  <2>6. ASSUME NEW c \in Calls, Begin(c, call) PROVE SerialInv'
    <3>1. CopyOf(deal', call.pc, call.row, call.body)
      BY <2>1 DEF CopyOf, NoCopy, HintPCs
    <3> QED BY <2>1, <2>2, <2>4, <2>6, <3>1, BeginPasses DEF Kept
  <2> QED BY <2>2, <2>3, <2>5, <2>6 DEF BatchKept
<1>3. ASSUME NEW r \in rows, RejectPreflight(r) \/ RejectRow(r)
      PROVE  SerialInv' /\ BatchKept
  <2>1. /\ deal'.offer = deal.offer /\ deal'.meta.kp = deal.meta.kp
        /\ deal'.meta.batch = deal.meta.batch
        /\ deal'.meta.rfq \in {deal.meta.rfq, "rejected"}
    <3>1. CASE RejectPreflight(r)
      BY <3>1 DEF RejectPreflight, Deal, Meta
    <3>2. CASE RejectRow(r)
      BY <3>2 DEF RejectRow, Deal
    <3> QED BY <1>3, <3>1, <3>2
  <2>2. UNCHANGED <<calls, released, accepted>>
    BY <1>3 DEF RejectPreflight, RejectRow, ghosts
  <2> QED BY <2>1, <2>2, ClickPasses DEF BatchKept
<1> QED
  BY <1>1, <1>2, <1>3 DEF StaffClick

LEMMA SerialStep ==
    ASSUME OneByOne, TypeOK, SerialInv, [Next]_vars
    PROVE  SerialInv' /\ [BatchKept]_vars
<1>1. CASE UNCHANGED vars
  BY <1>1 DEF vars, SerialInv, Alone, Synced, KpCovered, AcceptedWasReleased, InFlight, Row
<1>2. ASSUME NEW c \in Calls, Fail(c) PROVE FALSE
  BY <1>2 DEF Fail, OneByOne
<1> QED
  BY <1>1, <1>2, TurnSerial, QuoteSerial, StaffSerial, ClickSerial DEF Next

LEMMA SerialInit == Init => SerialInv
<1> SUFFICES ASSUME Init PROVE SerialInv
  OBVIOUS
<1>1. \A c \in Calls : calls[c].pc = "idle"
  BY DEF Init, Unused
<1>2. deal.offer = None
  BY DEF Init, FreshDeal
<1> QED
  BY <1>1, <1>2 DEF Init, SerialInv, Alone, Synced, KpCovered, AcceptedWasReleased, InFlight

-----------------------------------------------------------------------------
\* apply_lifecycle's guard on escalate, paused and kp_hold does its work when
\* handlers run one by one: whatever staff click between two transactions, and
\* however many turns, quotes, hints and cuts went before, the price a client's
\* consent makes a contract is one that staff let out.
THEOREM ConsentNeedsRelease ==
    ASSUME OneByOne
    PROVE  Spec => []AcceptedWasReleased
<1>1. TypeOK /\ SerialInv /\ [Next]_vars => SerialInv'
  BY SerialStep
<1>2. SerialInv => AcceptedWasReleased
  BY DEF SerialInv
<1> QED
  BY <1>1, <1>2, SerialInit, TypeCorrect, PTL DEF Spec

\* The reload after enqueue_freight_quote_emails does its work when handlers run
\* one by one: no step of a turn, a quote, a hint or a flush, and no click, lets
\* a batch that waits for staff vanish from the row.
THEOREM WaitingBatchStays ==
    ASSUME OneByOne
    PROVE  Spec => PendingBatchKept
<1>1. TypeOK /\ SerialInv /\ [Next]_vars => SerialInv' /\ [BatchKept]_vars
  BY SerialStep
<1> QED
  BY <1>1, SerialInit, TypeCorrect, PTL DEF Spec, PendingBatchKept

-----------------------------------------------------------------------------
(* When handlers run one by one the desk implements the ledger of prices.   *)

\* The price that a call is about to put on hold is the one that stands.
KpStands == \A c \in Calls : calls[c].pc \in KpPCs => deal.offer = Tag(c)

\* Call c, and no other, moves on, to anywhere but a hold.
Moves(c) ==
    /\ calls'[c].pc \notin KpPCs
    /\ \A b \in Calls : b # c => calls'[b] = calls[b]

\* The price, its hold, what was let out and agreed to are as they were.
Untouched ==
    /\ deal'.offer = deal.offer
    /\ deal'.meta.kp = deal.meta.kp
    /\ UNCHANGED <<released, accepted>>

KpStep == [Kp!Next]_<<deal.offer, deal.meta.kp = "on", released, accepted>>

LEMMA LedgerRests == Untouched => KpStep
BY DEF Untouched, KpStep

LEMMA LedgerQuotes ==
    ASSUME NEW k \in Tags, deal'.offer = k, deal'.meta.kp = deal.meta.kp,
           released' \in {released, released \cup {k}}, UNCHANGED accepted
    PROVE  KpStep
BY DEF KpStep, Kp!Next, Kp!Quote, Kp!QuoteOut

LEMMA LedgerWithdraws ==
    ASSUME deal'.offer = None, deal'.meta.kp = deal.meta.kp,
           UNCHANGED <<released, accepted>>
    PROVE  KpStep
BY DEF KpStep, Kp!Next, Kp!Withdraw

LEMMA LedgerHolds ==
    ASSUME deal.offer # None, deal'.offer = deal.offer, deal'.meta.kp = "on",
           UNCHANGED <<released, accepted>>
    PROVE  KpStep
BY DEF KpStep, Kp!Next, Kp!Hold

LEMMA LedgerLetsOut ==
    ASSUME NEW k \in Tags, deal'.offer = deal.offer, deal'.meta.kp = deal.meta.kp,
           released' = released \cup {k}, UNCHANGED accepted
    PROVE  KpStep
BY DEF KpStep, Kp!Next, Kp!LetOut

LEMMA LedgerLifts ==
    ASSUME NEW k \in Maybe(Tags), deal'.offer = deal.offer, deal'.meta.kp # "on",
           released' = released \cup ({deal.offer, k} \ {None}), UNCHANGED accepted
    PROVE  KpStep
BY DEF KpStep, Kp!Next, Kp!Lift, Maybe

LEMMA LedgerAgrees ==
    ASSUME deal.offer \in released, deal.offer # None, deal.meta.kp # "on",
           deal'.offer = deal.offer, deal'.meta.kp = deal.meta.kp,
           accepted' = accepted \cup {deal.offer}, UNCHANGED released
    PROVE  KpStep
BY DEF KpStep, Kp!Next, Kp!Agree

LEMMA MovesStand ==
    ASSUME NEW c \in Calls, InFlight \subseteq {c}, Moves(c)
    PROVE  KpStands'
BY DEF KpStands, Moves, InFlight, KpPCs

LEMMA FlyingStand ==
    ASSUME SerialInv, NEW c \in InFlight, Moves(c)
    PROVE  KpStands'
<1>1. c \in Calls /\ InFlight \subseteq {c}
  BY DEF SerialInv, Alone, InFlight
<1> QED BY <1>1, MovesStand

LEMMA GotoMoves ==
    ASSUME TypeOK, NEW c \in Calls, NEW pc, NEW row, Goto(c, pc, row), pc \notin KpPCs
    PROVE  Moves(c)
BY DEF Goto, TypeOK, Call, Moves

LEMMA FinishMoves == ASSUME TypeOK, NEW c \in Calls, Finish(c) PROVE Moves(c)
BY DEF Finish, Finished, Unused, TypeOK, Moves, KpPCs

LEMMA ReturnMoves ==
    ASSUME TypeOK, NEW c \in Calls, NEW row, Return(c, row)
    PROVE  Moves(c)
BY GotoMoves, FinishMoves DEF Return, KpPCs

LEMMA BeginStands ==
    ASSUME OneByOne, TypeOK, NEW c \in Calls, NEW call, Begin(c, call),
           call.pc \notin KpPCs
    PROVE  KpStands'
<1>1. InFlight \subseteq {c}
  BY BeginAlone DEF OneByOne
<1>2. Moves(c)
  BY DEF Begin, TypeOK, Moves
<1> QED BY <1>1, <1>2, MovesStand

LEMMA QuoteLedger ==
    ASSUME TypeOK, SerialInv, KpStands, NEW c \in Calls, Quote(c)
    PROVE  KpStep /\ KpStands'
<1>0. /\ Row(c) \in Deal /\ Row(c).meta \in Meta /\ deal \in Deal /\ deal.meta \in Meta
      /\ Tag(c) \in Tags /\ Tag(c) # None
      /\ At(c, calls[c].pc)
  BY RowType, TagType DEF Row, At
<1> USE <1>0
<1>1. c \in InFlight /\ CopyOf(deal, calls[c].pc, Row(c), calls[c].body)
  <2>1. c \in InFlight
    BY DEF InFlight, At, Quote, QuoteBegin, QuoteLegal, QuoteCompliance, SaveScheme,
       MailRfq, PreflightRead, PreflightStore, PreflightEscalate, Reload,
       NoPartnerChannels, WithdrawOffer, ReviewPrice, PublishOffer, KpEscalate, KpHold
  <2> QED BY <2>1 DEF SerialInv, Synced
<1>2. CASE QuoteCompliance(c) \/ NoPartnerChannels(c) \/ ReviewPrice(c)
             \/ PreflightRead(c) \/ PreflightEscalate(c) \/ Reload(c)
  <2>1. Untouched
    BY <1>2, EscalationKeeps DEF Untouched, QuoteCompliance, NoPartnerChannels, ReviewPrice,
       PreflightRead, PreflightEscalate, Reload, ghosts
  <2>2. PICK pc \in {"scheme", "offer", "withdraw", "publish", "pfStore", "reload"} :
          \E row : Goto(c, pc, row)
    BY <1>2 DEF QuoteCompliance, NoPartnerChannels, ReviewPrice, PreflightRead,
       PreflightEscalate, Reload
  <2>3. Moves(c)
    BY <2>2, GotoMoves DEF KpPCs
  <2> QED BY <1>1, <2>1, <2>3, LedgerRests, FlyingStand
<1>3. CASE QuoteBegin(c) \/ QuoteLegal(c) \/ SaveScheme(c) \/ MailRfq(c) \/ PreflightStore(c)
  <2>1. /\ deal'.offer = deal.offer
        /\ deal'.meta.kp \in {deal.meta.kp, Row(c).meta.kp}
    <3>1. CASE QuoteBegin(c) \/ QuoteLegal(c)
      BY <3>1 DEF QuoteBegin, QuoteLegal, UpdateThen, Deal
    <3>2. CASE SaveScheme(c) \/ MailRfq(c)
      BY <3>2 DEF SaveScheme, MailRfq, Deal
    <3>3. CASE PreflightStore(c)
      BY <3>3 DEF PreflightStore, Deal, Meta
    <3> QED BY <1>3, <3>1, <3>2, <3>3
  <2>2. /\ calls[c].pc \in {"begin", "legal", "scheme", "mail", "pfStore"}
        /\ UNCHANGED <<released, accepted>>
    BY <1>3 DEF QuoteBegin, QuoteLegal, SaveScheme, MailRfq, PreflightStore, At, ghosts
  <2>3. Untouched
    BY <1>1, <2>1, <2>2 DEF CopyOf, NoCopy, Untouched
  <2>4. PICK pc \in {"legal", "legalEsc", "scheme", "offer", "mail", "pfRead", "pfEsc", "reload"} :
          \E row : Goto(c, pc, row)
    BY <1>3 DEF QuoteBegin, QuoteLegal, UpdateThen, SaveScheme, MailRfq, PreflightStore
  <2>5. Moves(c)
    BY <2>4, GotoMoves DEF KpPCs
  <2> QED BY <1>1, <2>3, <2>5, LedgerRests, FlyingStand
<1>4. CASE WithdrawOffer(c)
  <2>1. /\ Return(c, deal')
        /\ deal'.offer = None /\ deal'.meta.kp = Row(c).meta.kp
    BY <1>4 DEF WithdrawOffer, Deal, Meta
  <2>2. calls[c].pc \in {"offer", "withdraw"} /\ UNCHANGED <<released, accepted>>
    BY <1>4 DEF WithdrawOffer, ghosts
  <2>3. deal'.meta.kp = deal.meta.kp
    BY <1>1, <2>1, <2>2 DEF CopyOf, NoCopy
  <2> QED BY <1>1, <2>1, <2>2, <2>3, LedgerWithdraws, ReturnMoves, FlyingStand
<1>5. CASE PublishOffer(c)
  <2>1. /\ deal'.offer = Tag(c) /\ deal'.meta.kp = Row(c).meta.kp
        /\ \/ Goto(c, "kpEsc", deal') /\ released' = released
           \/ Return(c, deal') /\ released' = released \cup {Tag(c)}
    BY <1>5 DEF PublishOffer, Deal, Meta
  <2>2. calls[c].pc \in {"offer", "publish"} /\ UNCHANGED accepted
    BY <1>5 DEF PublishOffer
  <2>3. deal'.meta.kp = deal.meta.kp
    BY <1>1, <2>1, <2>2 DEF CopyOf, NoCopy
  <2>4. KpStep
    BY <2>1, <2>2, <2>3, LedgerQuotes
  <2>5. CASE Goto(c, "kpEsc", deal')
    <3>1. /\ calls'[c].round = calls[c].round
          /\ \A b \in Calls : b # c => calls'[b].pc \notin KpPCs
      BY <1>1, <2>5 DEF Goto, TypeOK, Call, SerialInv, Alone, InFlight, KpPCs
    <3>2. KpStands'
      BY <2>1, <3>1 DEF KpStands, Tag
    <3> QED BY <2>4, <3>2
  <2> QED BY <1>1, <2>1, <2>4, <2>5, ReturnMoves, FlyingStand
<1>6. CASE KpEscalate(c)
  <2>1. Untouched /\ At(c, "kpEsc") /\ Goto(c, "kpHold", Row(c))
    BY <1>6, EscalationKeeps DEF Untouched, KpEscalate, ghosts
  <2>2. /\ calls'[c].round = calls[c].round
        /\ \A b \in Calls : b # c => calls'[b].pc \notin KpPCs
    BY <1>1, <2>1 DEF Goto, TypeOK, Call, SerialInv, Alone, InFlight, KpPCs
  <2>3. deal.offer = Tag(c)
    BY <2>1 DEF KpStands, KpPCs, At
  <2>4. KpStands'
    BY <2>1, <2>2, <2>3 DEF KpStands, Tag, Untouched
  <2> QED BY <2>1, <2>4, LedgerRests
<1>7. CASE KpHold(c)
  <2>1. /\ Return(c, deal')
        /\ deal'.offer = Tag(c) /\ deal'.meta.kp = "on"
    BY <1>7 DEF KpHold, Deal, Meta
  <2>2. deal.offer = Tag(c) /\ UNCHANGED <<released, accepted>>
    BY <1>7 DEF KpHold, ghosts, KpStands, KpPCs, At
  <2> QED BY <1>1, <2>1, <2>2, LedgerHolds, ReturnMoves, FlyingStand
<1> QED
  BY <1>2, <1>3, <1>4, <1>5, <1>6, <1>7 DEF Quote

LEMMA TurnLedger ==
    ASSUME OneByOne, TypeOK, SerialInv, KpStands, NEW c \in Calls, TurnStep(c)
    PROVE  KpStep /\ KpStands'
<1>0. /\ calls[c] \in Call /\ Row(c) \in Deal /\ Row(c).meta \in Meta
      /\ deal \in Deal /\ deal.meta \in Meta
      /\ At(c, calls[c].pc)
  BY RowType DEF Row, At
<1> USE <1>0
<1>1. CASE StartTurn(c)
  <2>1. /\ Finished.pc = "done"
        /\ \A pc \in {"merge", "grey"} : [Turn EXCEPT !.pc = pc].pc = pc
    BY DEF Turn, Finished, Unused
  <2>2. KpStep
    BY <1>1, LedgerRests DEF StartTurn, Untouched, ghosts
  <2>3. CASE Begin(c, Finished)
    BY <2>1, <2>2, <2>3, BeginStands DEF KpPCs
  <2>4. ASSUME NEW pc \in {"merge", "grey"}, Begin(c, [Turn EXCEPT !.pc = pc])
        PROVE  KpStands'
    BY <2>1, <2>4, BeginStands DEF KpPCs
  <2> QED BY <1>1, <2>2, <2>3, <2>4 DEF StartTurn, Might
<1>2. SUFFICES ASSUME ~StartTurn(c) PROVE KpStep /\ KpStands'
  BY <1>1
<1>3. c \in InFlight /\ CopyOf(deal, calls[c].pc, Row(c), calls[c].body)
  <2>1. c \in InFlight
    BY <1>2 DEF InFlight, At, TurnStep, GreyScheme, MergeTurn, UrlEscalate, UrlReload,
       HardEscalate, HardSet, PlanTurn, OpsEscalate, OpsSet, Recalculate,
       AcceptOffer, Execute, Remind, JustAnswer, Life
  <2> QED BY <2>1 DEF SerialInv, Synced
<1>4. CASE GreyScheme(c) \/ UrlEscalate(c) \/ OpsEscalate(c) \/ HardEscalate(c)
  <2>1. Untouched
    BY <1>4, EscalationKeeps DEF Untouched, GreyScheme, UrlEscalate, OpsEscalate,
       HardEscalate, CreateEscalation, ghosts
  <2>2. \/ Finish(c)
        \/ \E pc \in {"urlReload", "opsSet", "hardIntake", "hardSet"} : Goto(c, pc, Row(c))
    BY <1>4 DEF GreyScheme, UrlEscalate, OpsEscalate, HardEscalate
  <2>3. Moves(c)
    BY <2>2, GotoMoves, FinishMoves DEF KpPCs
  <2> QED BY <1>3, <2>1, <2>3, LedgerRests, FlyingStand
<1>5. CASE MergeTurn(c) \/ OpsSet(c) \/ HardSet(c) \/ Execute(c)
  <2>1. deal'.offer = deal.offer /\ deal'.meta.kp = Row(c).meta.kp
    <3>1. CASE MergeTurn(c)
      BY <3>1 DEF MergeTurn, UpdateThen, Deal
    <3>2. CASE OpsSet(c)
      BY <3>2 DEF OpsSet, UpdateThen, Deal, Meta
    <3>3. CASE HardSet(c) \/ Execute(c)
      BY <3>3 DEF HardSet, Execute, Deal
    <3> QED BY <1>5, <3>1, <3>2, <3>3
  <2>2. /\ calls[c].pc \in {"merge", "opsSet", "hardSet", "hardIntake", "life"}
        /\ UNCHANGED <<released, accepted>>
    BY <1>5 DEF MergeTurn, OpsSet, HardSet, Execute, Life, At, ghosts
  <2>3. Untouched
    BY <1>3, <2>1, <2>2 DEF CopyOf, NoCopy, Untouched
  <2>4. \/ Finish(c)
        \/ \E pc \in {"plan", "settled", "urlEsc", "hardEsc", "hardIntake", "life"} :
             Goto(c, pc, deal')
    BY <1>5 DEF MergeTurn, OpsSet, HardSet, Execute, UpdateThen, Might, Planned
  <2>5. Moves(c)
    BY <2>4, GotoMoves, FinishMoves DEF KpPCs
  <2> QED BY <1>3, <2>3, <2>5, LedgerRests, FlyingStand
<1>6. CASE UrlReload(c) \/ Remind(c) \/ JustAnswer(c)
  <2>1. Untouched
    BY <1>6 DEF UrlReload, Remind, JustAnswer, Untouched, ghosts
  <2>2. Finish(c) \/ \E pc \in {"plan", "settled"} : Goto(c, pc, deal)
    BY <1>6 DEF UrlReload, Remind, JustAnswer, Planned
  <2>3. Moves(c)
    BY <2>2, GotoMoves, FinishMoves DEF KpPCs
  <2> QED BY <1>3, <2>1, <2>3, LedgerRests, FlyingStand
<1>7. CASE PlanTurn(c) \/ Recalculate(c)
  <2>1. Untouched
    BY <1>7 DEF PlanTurn, Recalculate, Untouched, ghosts
  <2>2. Moves(c)
    <3>1. CASE PlanTurn(c)
      BY <3>1, PlanKeeps DEF TypeOK, Moves, KpPCs
    <3>2. CASE Finish(c)
      BY <3>2, FinishMoves
    <3>3. CASE calls' = [calls EXCEPT ![c].pc = "begin", ![c].round = 2, ![c].send = TRUE]
      BY <3>3 DEF TypeOK, Call, Moves, KpPCs
    <3> QED BY <1>7, <3>1, <3>2, <3>3 DEF Recalculate
  <2> QED BY <1>3, <2>1, <2>2, LedgerRests, FlyingStand
<1>8. CASE AcceptOffer(c)
  <2>1. /\ Finish(c)
        /\ deal'.offer = deal.offer /\ deal'.meta = Row(c).meta
    BY <1>8 DEF AcceptOffer, Deal
  <2>2. /\ Row(c).offer # None /\ Row(c).meta.kp # "on"
        /\ accepted' = accepted \cup {Row(c).offer} /\ UNCHANGED released
    BY <1>8 DEF AcceptOffer, Priced, Held
  <2>3. At(c, "life")
    BY <1>8 DEF AcceptOffer, Life
  <2>4. Row(c).offer = deal.offer /\ Row(c).meta.kp = deal.meta.kp
    BY <1>3, <2>3 DEF CopyOf, NoCopy, At
  <2>5. \A b \in Calls : calls[b].pc \notin KpPCs
    BY <1>3, <2>3 DEF SerialInv, Alone, InFlight, KpPCs, At
  <2>6. deal.offer \in released
    BY <2>2, <2>4, <2>5 DEF SerialInv, KpCovered
  <2> QED BY <1>3, <2>1, <2>2, <2>4, <2>6, LedgerAgrees, FinishMoves, FlyingStand
<1> QED
  BY <1>2, <1>4, <1>5, <1>6, <1>7, <1>8 DEF TurnStep

LEMMA StaffLedger ==
    ASSUME OneByOne, TypeOK, SerialInv, KpStands, NEW c \in Calls, StaffStep(c)
    PROVE  KpStep /\ KpStands'
<1>0. /\ calls[c] \in Call /\ Row(c) \in Deal /\ Row(c).meta \in Meta
      /\ deal \in Deal /\ deal.meta \in Meta /\ calls[c].body \in Meta
      /\ Tag(c) \in Tags
      /\ At(c, calls[c].pc)
  BY RowType, TagType DEF Row, At, Call
<1> USE <1>0
<1>1. CASE StartApproveKp(c) \/ StartCut(c) \/ StartFallback(c) \/ StartHint(c)
  <2>1. Untouched
    BY <1>1 DEF StartApproveKp, StartCut, StartFallback, StartHint, Untouched, ghosts
  <2>2. CASE StartHint(c)
    <3> DEFINE call(mode) == [Unused EXCEPT !.kind = "hint", !.pc = "hintPatch", !.send = TRUE,
                                            !.body = [deal.meta EXCEPT !.mode = mode]]
    <3>1. PICK mode \in {"open", "gate", "hold"} : Begin(c, call(mode))
      BY <2>2 DEF StartHint
    <3>2. call(mode).pc = "hintPatch"
      BY DEF Unused
    <3> HIDE DEF call
    <3> QED BY <2>1, <3>1, <3>2, LedgerRests, BeginStands DEF KpPCs
  <2>3. CASE StartApproveKp(c) \/ StartCut(c) \/ StartFallback(c)
    <3> DEFINE call(kind, pc) == [Unused EXCEPT !.kind = kind, !.pc = pc, !.row = deal]
    <3>1. PICK kind \in {"approve_kp", "cut3", "fallback"},
               pc \in {"kpRelease", "cutPatch", "begin"} : Begin(c, call(kind, pc))
      BY <2>3 DEF StartApproveKp, StartCut, StartFallback
    <3>2. call(kind, pc).pc = pc
      BY DEF Unused
    <3> HIDE DEF call
    <3> QED BY <2>1, <3>1, <3>2, LedgerRests, BeginStands DEF KpPCs
  <2> QED BY <1>1, <2>2, <2>3
<1>2. SUFFICES ASSUME c \in InFlight, CopyOf(deal, calls[c].pc, Row(c), calls[c].body)
               PROVE  KpStep /\ KpStands'
  <2>1. \/ StartApproveKp(c) \/ StartCut(c) \/ StartFallback(c) \/ StartHint(c)
        \/ c \in InFlight
    BY DEF InFlight, At, StaffStep, FlushRead, FlushMail, FlushMark, ReleaseKp,
       CutPatch, HintPatch, HintPost, HintApply, FallbackMark
  <2> QED BY <1>1, <2>1 DEF SerialInv, Synced
<1>3. CASE FlushRead(c) \/ FlushMail(c) \/ HintPost(c)
  <2>1. Untouched
    BY <1>3 DEF FlushRead, FlushMail, HintPost, Untouched, ghosts
  <2>2. \/ Finish(c)
        \/ \E pc \in {"flushMail", "flushMark", "hintApply"} : \E row : Goto(c, pc, row)
    BY <1>3 DEF FlushRead, FlushMail, HintPost
  <2>3. Moves(c)
    BY <2>2, GotoMoves, FinishMoves DEF KpPCs
  <2> QED BY <1>2, <2>1, <2>3, LedgerRests, FlyingStand
<1>4. CASE FlushMark(c) \/ FallbackMark(c)
  <2>1. deal'.offer = deal.offer /\ deal'.meta.kp = Row(c).meta.kp
    <3>1. CASE FlushMark(c)
      BY <3>1 DEF FlushMark, Deal, Meta
    <3>2. CASE FallbackMark(c)
      BY <3>2 DEF FallbackMark, Deal
    <3> QED BY <1>4, <3>1, <3>2
  <2>2. /\ calls[c].pc \in {"flushMark", "mark"} /\ Finish(c)
        /\ UNCHANGED <<released, accepted>>
    BY <1>4 DEF FlushMark, FallbackMark, At, ghosts
  <2>3. Untouched
    BY <1>2, <2>1, <2>2 DEF CopyOf, NoCopy, Untouched
  <2> QED BY <1>2, <2>2, <2>3, LedgerRests, FinishMoves, FlyingStand
<1>5. CASE ReleaseKp(c)
  <2>1. /\ deal'.offer = deal.offer /\ deal'.meta.kp = "off"
        /\ released' = released \cup ({Row(c).offer, Row(c).meta.pending} \ {None})
    BY <1>5 DEF ReleaseKp, Deal, Meta
  <2>2. At(c, "kpRelease") /\ Finish(c) /\ UNCHANGED accepted
    BY <1>5 DEF ReleaseKp
  <2>3. Row(c).offer = deal.offer /\ Row(c).meta.pending \in Maybe(Tags)
    BY <1>2, <2>2 DEF CopyOf, NoCopy, At, Meta
  <2> QED BY <1>2, <2>1, <2>2, <2>3, LedgerLifts, FinishMoves, FlyingStand
<1>6. CASE CutPatch(c)
  <2>1. /\ deal'.meta = deal.meta
        /\ released' = released \cup ({deal'.offer} \ {None})
        /\ deal'.offer = Tag(c) \/ (deal'.offer = None /\ Row(c).offer = None)
    BY <1>6 DEF CutPatch, Deal
  <2>2. At(c, "cutPatch") /\ Finish(c) /\ UNCHANGED accepted
    BY <1>6 DEF CutPatch
  <2>3. CASE deal'.offer = Tag(c)
    <3>1. released' = released \cup {Tag(c)}
      BY <2>1, <2>3, TagType
    <3>2. KpStep
      BY <2>1, <2>2, <2>3, <3>1, LedgerQuotes
    <3> QED BY <1>2, <2>2, <3>2, FinishMoves, FlyingStand
  <2>4. CASE deal'.offer = None /\ Row(c).offer = None
    <3>1. Untouched
      BY <1>2, <2>1, <2>2, <2>4 DEF CopyOf, NoCopy, At, Untouched
    <3> QED BY <1>2, <2>2, <3>1, LedgerRests, FinishMoves, FlyingStand
  <2> QED BY <2>1, <2>3, <2>4
<1>7. CASE HintPatch(c)
  <2>1. deal'.offer = deal.offer /\ deal'.meta = calls[c].body
    BY <1>7 DEF HintPatch, Deal
  <2>2. /\ At(c, "hintPatch") /\ UNCHANGED <<released, accepted>>
        /\ Goto(c, "hintPost", Row(c)) \/ Finish(c)
    BY <1>7 DEF HintPatch, ghosts
  <2>3. Untouched
    BY <1>2, <2>1, <2>2 DEF CopyOf, HintPCs, At, Untouched
  <2>4. Moves(c)
    BY <2>2, GotoMoves, FinishMoves DEF KpPCs
  <2> QED BY <1>2, <2>3, <2>4, LedgerRests, FlyingStand
<1>8. CASE HintApply(c)
  <2> DEFINE merged == MergeMeta(Row(c).meta, calls[c].body)
  <2>1. /\ At(c, "hintApply") /\ UNCHANGED <<released, accepted>>
        /\ Goto(c, "begin", deal') \/ Finish(c)
    BY <1>8 DEF HintApply, ghosts
  <2>2. merged.kp = deal.meta.kp /\ merged \in Meta
    BY <1>2, <2>1 DEF CopyOf, NoCopy, HintPCs, At, MergeMeta, Meta
  <2>3. PICK attempted, kept :
          deal' = [deal EXCEPT !.meta = [merged EXCEPT !.attempted = attempted],
                               !.status = "quoting", !.paused = kept]
    BY <1>8 DEF HintApply
  <2> HIDE DEF merged
  <2>4. Untouched
    BY <2>1, <2>2, <2>3 DEF Deal, Meta, Untouched
  <2>5. Moves(c)
    BY <2>1, GotoMoves, FinishMoves DEF KpPCs
  <2> QED BY <1>2, <2>4, <2>5, LedgerRests, FlyingStand
<1> QED
  BY <1>1, <1>3, <1>4, <1>5, <1>6, <1>7, <1>8 DEF StaffStep

LEMMA ClickLedger ==
    ASSUME OneByOne, TypeOK, SerialInv, KpStands, StaffClick
    PROVE  KpStep /\ KpStands'
<1>0. deal \in Deal /\ deal.meta \in Meta
  BY DEF TypeOK, Deal
<1> USE <1>0
<1>1. ASSUME UNCHANGED calls, deal'.offer = deal.offer PROVE KpStands'
  BY <1>1 DEF KpStands, Tag
<1>2. CASE Pause \/ Resume \/ Takeover \/ RejectDeal \/ CloseDeal \/ ApiEscalate
  <2>1. Untouched /\ UNCHANGED calls
    BY <1>2 DEF Pause, Resume, Takeover, RejectDeal, CloseDeal, ApiEscalate, Patch, Deal,
       Untouched, ghosts
  <2> QED BY <1>1, <2>1, LedgerRests DEF Untouched
<1>3. ASSUME NEW r \in rows, RejectPreflight(r) \/ RejectRow(r)
      PROVE  KpStep /\ KpStands'
  <2>1. deal'.offer = deal.offer /\ deal'.meta.kp = deal.meta.kp
    <3>1. CASE RejectPreflight(r)
      BY <3>1 DEF RejectPreflight, Deal, Meta
    <3>2. CASE RejectRow(r)
      BY <3>2 DEF RejectRow, Deal
    <3> QED BY <1>3, <3>1, <3>2
  <2>2. UNCHANGED <<calls, released, accepted>>
    BY <1>3 DEF RejectPreflight, RejectRow, ghosts
  <2> QED BY <1>1, <2>1, <2>2, LedgerRests DEF Untouched
<1>4. ASSUME NEW r \in rows, Approve(r) PROVE KpStep /\ KpStands'
  <2>1. deal'.offer = deal.offer /\ deal'.meta.kp = deal.meta.kp /\ UNCHANGED accepted
    BY <1>4 DEF Approve, Deal
  <2>2. KpStep
    <3>1. CASE r.reason = "human_kp_approve"
      <4>1. r.about \in Tags /\ released' = released \cup {r.about}
        BY <1>4, <3>1 DEF Approve, TypeOK, Rows, Maybe
      <4> QED BY <2>1, <4>1, LedgerLetsOut
    <3>2. CASE r.reason # "human_kp_approve"
      BY <1>4, <2>1, <3>2, LedgerRests DEF Approve, Untouched
    <3> QED BY <3>1, <3>2
  <2> DEFINE call == [Unused EXCEPT !.kind = "flush", !.pc = "flushRead", !.seen = r.about]
  <2>3. UNCHANGED calls \/ \E c \in Calls : Begin(c, call)
    BY <1>4 DEF Approve, FlushAfter
  <2>4. call.pc = "flushRead"
    BY DEF Unused
  <2> HIDE DEF call
  <2>5. KpStands'
    BY <1>1, <2>1, <2>3, <2>4, BeginStands DEF KpPCs
  <2> QED BY <2>2, <2>5
<1> QED
  BY <1>2, <1>3, <1>4 DEF StaffClick

LEMMA LedgerStep ==
    ASSUME OneByOne, TypeOK, SerialInv, KpStands, [Next]_vars
    PROVE  KpStep /\ KpStands'
<1>1. CASE UNCHANGED vars
  BY <1>1, LedgerRests DEF vars, Untouched, KpStands, Tag
<1>2. ASSUME NEW c \in Calls, Fail(c) PROVE FALSE
  BY <1>2 DEF Fail, OneByOne
<1> QED
  BY <1>1, <1>2, TurnLedger, QuoteLedger, StaffLedger, ClickLedger DEF Next

LEMMA LedgerInit == Init => Kp!Init /\ KpStands
BY DEF Init, FreshDeal, Unused, Kp!Init, KpStands, KpPCs

\* The desk implements the ledger of prices when handlers run one by one and to
\* their ends: whatever turns, quotes, letters, hints and cuts write back from the
\* metadata they read, a deal leaves the hold only by approve-kp, which lets the
\* standing price out, and only the price just published is put on hold.
THEOREM DeskKeepsKpLedger ==
    ASSUME OneByOne
    PROVE  Spec => KeepsKpLedger
<1>1. TypeOK /\ SerialInv /\ [Next]_vars => SerialInv'
  BY SerialStep
<1>2. TypeOK /\ SerialInv /\ KpStands /\ [Next]_vars =>
        /\ [Kp!Next]_<<deal.offer, deal.meta.kp = "on", released, accepted>>
        /\ KpStands'
  BY LedgerStep DEF KpStep
<1> QED
  BY <1>1, <1>2, SerialInit, LedgerInit, TypeCorrect, PTL DEF Spec, KeepsKpLedger, Kp!Spec

\* What keeping the ledger is worth, by the abstract specification alone: a price
\* the client's consent made a contract was let out.
THEOREM LedgerGuardsConsent == KeepsKpLedger => []AcceptedWasReleased
<1>1. Kp!Init => AcceptedWasReleased
  BY DEF Kp!Init, AcceptedWasReleased
<1>2. AcceptedWasReleased
        /\ [Kp!Next]_<<deal.offer, deal.meta.kp = "on", released, accepted>>
        => AcceptedWasReleased'
  BY DEF AcceptedWasReleased, Kp!Next, Kp!Withdraw, Kp!Hold, Kp!Agree, Kp!Quote,
     Kp!QuoteOut, Kp!LetOut, Kp!Lift
<1> QED
  BY <1>1, <1>2, PTL DEF KeepsKpLedger, Kp!Spec

-----------------------------------------------------------------------------
(* What holds when handlers run one by one and may die.                     *)

\* What a call must know of the row d while there is no escalation: that a batch
\* waits.  It is about to write its copy back, or the metadata a hint is to post.
Knows(d, pc, row, body) ==
    d.meta.rfq = "pending" =>
        /\ pc \notin NoCopy \cup OldBatch => row.meta.rfq = "pending"
        /\ pc \in HintPCs => body.rfq = "pending"

\* A copy that does not show the waiting batch, held by a quote that is about to
\* read the row back; and a quote that swallowed the error of its announcement.
MayWipe(d, pc, row) == pc = "reload" /\ d.meta.rfq = "pending" /\ row.meta.rfq # "pending"
Untold(c) == <<Tag(c), "escalation">> \in swallowed

\* Before the first escalation only a waiting batch raises the flag, no call is
\* about to put a KP on hold, and only a quote whose announcement failed may wipe
\* the batch, if it cannot read the row back either.
Flagged == deal.escalate => deal.meta.rfq = "pending"
NoneYet == /\ Alone
           /\ Flagged
           /\ \A c \in InFlight : /\ calls[c].pc # "kpHold"
                                  /\ Knows(deal, calls[c].pc, Row(c), calls[c].body)
                                  /\ MayWipe(deal, calls[c].pc, Row(c)) => Untold(c)
CauseInv == rows # {} \/ Unheard \/ NoneYet

\* What was swallowed stays so: the ghost only grows.
LEMMA SwallowedStays == [Next]_vars => swallowed \subseteq swallowed'
<1> SUFFICES ASSUME [Next]_vars PROVE swallowed \subseteq swallowed'
  OBVIOUS
<1>1. ASSUME NEW c \in Calls, TurnStep(c) PROVE swallowed' = swallowed
  BY <1>1 DEF ghosts, TurnStep, StartTurn, GreyScheme, MergeTurn, UrlEscalate,
     UrlReload, HardEscalate, HardSet, PlanTurn, OpsEscalate,
     OpsSet, Recalculate, AcceptOffer, Execute, Remind, JustAnswer
<1>2. ASSUME NEW c \in Calls, Quote(c) PROVE swallowed \subseteq swallowed'
  BY <1>2 DEF ghosts, Swallow, Quote, QuoteBegin, QuoteLegal, QuoteCompliance, SaveScheme,
     MailRfq, PreflightRead, PreflightStore, PreflightEscalate, Reload,
     NoPartnerChannels, WithdrawOffer, ReviewPrice, PublishOffer, KpEscalate, KpHold
<1>3. ASSUME NEW c \in Calls, StaffStep(c) \/ Fail(c) PROVE swallowed' = swallowed
  BY <1>3 DEF ghosts, StaffStep, FlushRead, FlushMail, FlushMark, StartApproveKp,
     ReleaseKp, StartCut, CutPatch, StartHint, HintPatch, HintPost, HintApply,
     StartFallback, FallbackMark, Fail
<1>4. CASE StaffClick
  BY <1>4 DEF ghosts, StaffClick, Pause, Resume, Takeover, RejectDeal, CloseDeal, Patch,
     ApiEscalate, Approve, RejectPreflight, RejectRow
<1> QED
  BY <1>1, <1>2, <1>3, <1>4 DEF Next, vars

LEMMA MoveKnows ==
    ASSUME NoneYet, NEW c \in InFlight,
           \A b \in Calls : b # c => calls'[b] = calls[b],
           \/ calls'[c].pc \in {"idle", "done"}
           \/ /\ calls'[c].pc # "kpHold"
              /\ Knows(deal', calls'[c].pc, calls'[c].row, calls'[c].body)
              /\ MayWipe(deal', calls'[c].pc, calls'[c].row) => Untold(c)',
           Flagged'
    PROVE  NoneYet'
<1>1. \A b \in InFlight' : b = c /\ calls'[c].pc \notin {"idle", "done"}
  BY DEF InFlight, NoneYet, Alone
<1> QED
  BY <1>1 DEF NoneYet, Alone, Row

LEMMA FinishKnows ==
    ASSUME TypeOK, NoneYet, NEW c \in InFlight, Finish(c), Flagged'
    PROVE  NoneYet'
<1>1. calls'[c].pc = "done" /\ \A b \in Calls : b # c => calls'[b] = calls[b]
  BY DEF Finish, Finished, Unused, TypeOK, InFlight
<1> QED
  BY <1>1, MoveKnows

LEMMA GotoKnows ==
    ASSUME TypeOK, NoneYet, NEW c \in InFlight, NEW pc, NEW row,
           Goto(c, pc, row) \/ Finish(c), pc # "kpHold",
           Knows(deal', pc, row, calls[c].body), Flagged',
           MayWipe(deal', pc, row) => <<Tag(c), "escalation">> \in swallowed'
    PROVE  NoneYet'
<1>1. CASE Goto(c, pc, row)
  <2>1. /\ calls'[c].pc = pc /\ calls'[c].row = row /\ calls'[c].body = calls[c].body
        /\ calls'[c].round = calls[c].round
        /\ \A b \in Calls : b # c => calls'[b] = calls[b]
    BY <1>1 DEF Goto, TypeOK, Call, InFlight
  <2>2. MayWipe(deal', calls'[c].pc, calls'[c].row) => Untold(c)'
    BY <2>1 DEF Untold, Tag
  <2> QED
    BY <2>1, <2>2, MoveKnows
<1> QED
  BY <1>1, FinishKnows

\* A transaction that writes the copy's batch back and raises no flag.
LEMMA WriteKnows ==
    ASSUME TypeOK, NoneYet, NEW c \in InFlight, calls[c].pc \notin NoCopy \cup OldBatch,
           NEW pc, pc \notin HintPCs \cup {"kpHold"},
           Goto(c, pc, deal') \/ Return(c, deal') \/ Finish(c),
           deal'.escalate => deal.escalate, deal'.meta.rfq = Row(c).meta.rfq
    PROVE  NoneYet'
<1>1. Flagged'
  BY DEF NoneYet, Knows, Flagged
<1>2. \A at \in {pc, "life", "mark"} :
        Knows(deal', at, deal', calls[c].body) /\ ~MayWipe(deal', at, deal')
  BY DEF Knows, HintPCs, MayWipe
<1> QED
  BY <1>1, <1>2, GotoKnows, FinishKnows DEF Return

\* A transaction that leaves flag and metadata alone.
LEMMA KeepKnows ==
    ASSUME TypeOK, NoneYet, NEW c \in InFlight, calls[c].pc \notin NoCopy,
           NEW pc, pc \notin HintPCs \cup {"kpHold", "reload"},
           calls[c].pc \in OldBatch => pc \in OldBatch,
           Goto(c, pc, Row(c)) \/ Finish(c), deal' = deal
    PROVE  NoneYet'
<1>1. Flagged'
  BY DEF NoneYet, Flagged
<1>2. Knows(deal', pc, Row(c), calls[c].body) /\ ~MayWipe(deal', pc, Row(c))
  BY DEF NoneYet, Knows, MayWipe
<1> QED
  BY <1>1, <1>2, GotoKnows

LEMMA ReadKnows ==
    ASSUME TypeOK, NoneYet, NEW c \in InFlight, NEW pc, pc \notin HintPCs \cup {"kpHold"},
           Goto(c, pc, deal) \/ Finish(c), deal' = deal
    PROVE  NoneYet'
<1>1. Flagged' /\ Knows(deal', pc, deal, calls[c].body) /\ ~MayWipe(deal', pc, deal)
  BY DEF NoneYet, Flagged, Knows, MayWipe
<1> QED
  BY <1>1, GotoKnows

LEMMA BeginKnows ==
    ASSUME OneAtATime, TypeOK, NoneYet, NEW c \in Calls, NEW call, Begin(c, call),
           \/ call.pc = "done"
           \/ call.pc \notin {"kpHold", "reload"} /\ Knows(deal', call.pc, call.row, call.body),
           Flagged'
    PROVE  NoneYet'
<1>1. InFlight = {}
  BY BeginAlone
<1>2. calls'[c] = call /\ \A b \in Calls : b # c => calls'[b] = calls[b]
  BY DEF Begin, TypeOK
<1>3. \A b \in InFlight' : b = c /\ call.pc # "done"
  BY <1>1, <1>2 DEF InFlight
<1> QED
  BY <1>2, <1>3 DEF NoneYet, Alone, Row, MayWipe

\* The first escalation ends the state without one.
LEMMA EscalationEnds ==
    ASSUME rows = {}, rows' = {}, NEW c, NEW reason, NEW about
    PROVE  ~CreateEscalation(c, reason, about)
BY DEF CreateEscalation, DuplicateEscalation, NewEscalation, Pending

LEMMA QuoteKnows ==
    ASSUME TypeOK, NoneYet, rows = {}, rows' = {}, ~Unheard', NEW c \in Calls, Quote(c)
    PROVE  NoneYet'
<1>0. /\ Row(c) \in Deal /\ Row(c).meta \in Meta /\ deal \in Deal /\ deal.meta \in Meta
      /\ At(c, calls[c].pc)
  BY RowType DEF Row, At
<1> USE <1>0
<1>1. /\ c \in InFlight /\ calls[c].pc # "kpHold"
      /\ Knows(deal, calls[c].pc, Row(c), calls[c].body)
  <2>1. c \in InFlight
    BY DEF InFlight, At, Quote, QuoteBegin, QuoteLegal, QuoteCompliance, SaveScheme,
       MailRfq, PreflightRead, PreflightStore, PreflightEscalate, Reload,
       NoPartnerChannels, WithdrawOffer, ReviewPrice, PublishOffer, KpEscalate, KpHold
  <2> QED BY <2>1 DEF NoneYet
<1>2. CASE QuoteBegin(c) \/ QuoteLegal(c)
  <2>1. PICK pc \in {"legal", "legalEsc", "scheme", "offer"} : Goto(c, pc, deal')
    BY <1>2 DEF QuoteBegin, QuoteLegal, UpdateThen
  <2>2. deal'.meta = Row(c).meta /\ deal'.escalate = deal.escalate
    BY <1>2 DEF QuoteBegin, QuoteLegal, UpdateThen, Deal
  <2>3. calls[c].pc \in {"begin", "legal"}
    BY <1>2 DEF QuoteBegin, QuoteLegal, At
  <2> QED BY <1>1, <2>1, <2>2, <2>3, WriteKnows DEF NoCopy, OldBatch, HintPCs
<1>3. CASE QuoteCompliance(c) \/ NoPartnerChannels(c) \/ ReviewPrice(c) \/ KpEscalate(c)
  BY <1>3, EscalationEnds DEF QuoteCompliance, NoPartnerChannels, ReviewPrice, KpEscalate
<1>4. CASE SaveScheme(c) \/ MailRfq(c)
  <2>1. deal'.escalate = deal.escalate /\ deal'.meta \in {deal.meta, Row(c).meta}
    <3>1. CASE SaveScheme(c)
      BY <3>1 DEF SaveScheme, Deal
    <3>2. CASE MailRfq(c)
      BY <3>2 DEF MailRfq, Deal
    <3> QED BY <1>4, <3>1, <3>2
  <2>2. PICK pc \in {"mail", "reload", "pfRead"} : Goto(c, pc, Row(c))
    BY <1>4 DEF SaveScheme, MailRfq
  <2>3. calls[c].pc \in {"scheme", "mail"}
    BY <1>4 DEF SaveScheme, MailRfq, At
  <2>4. Flagged' /\ Knows(deal', pc, Row(c), calls[c].body) /\ ~MayWipe(deal', pc, Row(c))
    BY <1>1, <2>1, <2>3 DEF NoneYet, Flagged, Knows, MayWipe, NoCopy, OldBatch, HintPCs
  <2> QED BY <1>1, <2>2, <2>4, GotoKnows
<1>5. CASE PreflightRead(c) \/ Reload(c)
  <2>1. deal' = deal
    BY <1>5 DEF PreflightRead, Reload
  <2>2. ASSUME NEW pc \in {"pfStore", "offer"}, Goto(c, pc, deal) PROVE NoneYet'
    BY <1>1, <2>1, <2>2, ReadKnows DEF HintPCs
  <2>3. CASE At(c, "reload") /\ Goto(c, "offer", Row(c)) /\ Swallow(c, "reload")
    <3>1. ~Untold(c)
      BY <2>3, TagType DEF Untold, Unheard, Swallow
    <3>2. ~MayWipe(deal, "reload", Row(c))
      BY <1>1, <2>3, <3>1 DEF NoneYet, At
    <3>3. Flagged' /\ Knows(deal', "offer", Row(c), calls[c].body)
          /\ ~MayWipe(deal', "offer", Row(c))
      BY <2>1, <3>2 DEF NoneYet, Flagged, Knows, MayWipe, HintPCs
    <3> QED BY <1>1, <2>3, <3>3, GotoKnows
  <2> QED BY <1>5, <2>2, <2>3 DEF PreflightRead, Reload
<1>6. CASE PreflightStore(c)
  <2>1. deal'.meta.rfq = "pending"
    BY <1>6 DEF PreflightStore, Deal, Meta
  <2>2. Goto(c, "pfEsc", Row(c))
    BY <1>6 DEF PreflightStore
  <2>3. Flagged' /\ Knows(deal', "pfEsc", Row(c), calls[c].body)
        /\ ~MayWipe(deal', "pfEsc", Row(c))
    BY <2>1 DEF Flagged, Knows, MayWipe, OldBatch, HintPCs
  <2> QED BY <1>1, <2>2, <2>3, GotoKnows
<1>7. CASE PreflightEscalate(c)
  <2>1. /\ deal' = deal /\ At(c, "pfEsc") /\ Goto(c, "reload", Row(c))
        /\ <<Tag(c), "escalation">> \in swallowed'
    BY <1>7, EscalationEnds DEF PreflightEscalate, Swallow
  <2>2. Flagged' /\ Knows(deal', "reload", Row(c), calls[c].body)
    BY <1>1, <2>1 DEF NoneYet, Flagged, Knows, At, OldBatch, HintPCs
  <2> QED BY <1>1, <2>1, <2>2, GotoKnows
<1>8. CASE WithdrawOffer(c)
  <2>1. /\ Return(c, deal')
        /\ deal'.meta.rfq = Row(c).meta.rfq
        /\ deal'.escalate = (Row(c).meta.rfq = "pending")
    BY <1>8 DEF WithdrawOffer, Deal, Meta
  <2>2. Flagged' /\ \A at \in {"life", "mark"} :
                      Knows(deal', at, deal', calls[c].body) /\ ~MayWipe(deal', at, deal')
    BY <2>1 DEF Flagged, Knows, MayWipe, HintPCs
  <2> QED BY <1>1, <2>1, <2>2, GotoKnows, FinishKnows DEF Return
<1>9. CASE PublishOffer(c)
  <2>1. /\ Goto(c, "kpEsc", deal') \/ Return(c, deal')
        /\ deal'.meta.rfq = Row(c).meta.rfq /\ deal'.escalate = deal.escalate
    BY <1>9 DEF PublishOffer, Deal, Meta
  <2>2. calls[c].pc \in {"offer", "publish"}
    BY <1>9 DEF PublishOffer
  <2> QED BY <1>1, <2>1, <2>2, WriteKnows DEF NoCopy, OldBatch, HintPCs
<1>10. CASE KpHold(c)
  BY <1>1, <1>10 DEF KpHold, At
<1> QED
  BY <1>2, <1>3, <1>4, <1>5, <1>6, <1>7, <1>8, <1>9, <1>10 DEF Quote

LEMMA TurnKnows ==
    ASSUME OneAtATime, TypeOK, NoneYet, rows = {}, rows' = {}, NEW c \in Calls, TurnStep(c)
    PROVE  NoneYet'
<1>0. /\ calls[c] \in Call /\ Row(c) \in Deal /\ Row(c).meta \in Meta
      /\ deal \in Deal /\ deal.meta \in Meta
      /\ At(c, calls[c].pc)
  BY RowType DEF Row, At
<1> USE <1>0
<1>1. CASE StartTurn(c)
  <2>1. Finished.pc = "done" /\ \A pc \in {"merge", "grey"} :
          [Turn EXCEPT !.pc = pc].pc = pc /\ [Turn EXCEPT !.pc = pc].row = deal
    BY DEF Turn, Finished, Unused
  <2>2. deal' = deal /\ Flagged'
    BY <1>1 DEF StartTurn, NoneYet, Flagged
  <2>3. CASE Begin(c, Finished)
    BY <2>1, <2>2, <2>3, BeginKnows
  <2>4. ASSUME NEW pc \in {"merge", "grey"}, Begin(c, [Turn EXCEPT !.pc = pc])
        PROVE  NoneYet'
    <3> DEFINE call == [Turn EXCEPT !.pc = pc]
    <3>1. call.pc = pc /\ call.row = deal /\ Begin(c, call)
      BY <2>1, <2>4
    <3> HIDE DEF call
    <3>2. Knows(deal', call.pc, call.row, call.body)
      BY <2>2, <3>1 DEF Knows, HintPCs
    <3> QED BY <2>2, <3>1, <3>2, BeginKnows
  <2> QED BY <1>1, <2>3, <2>4 DEF StartTurn, Might
<1>2. SUFFICES ASSUME ~StartTurn(c) PROVE NoneYet'
  BY <1>1
<1>3. c \in InFlight /\ Knows(deal, calls[c].pc, Row(c), calls[c].body)
  <2>1. c \in InFlight
    BY <1>2 DEF InFlight, At, TurnStep, GreyScheme, MergeTurn, UrlEscalate, UrlReload,
       HardEscalate, HardSet, PlanTurn, OpsEscalate, OpsSet, Recalculate,
       AcceptOffer, Execute, Remind, JustAnswer, Life
  <2> QED BY <2>1 DEF NoneYet
<1>4. CASE GreyScheme(c) \/ UrlEscalate(c) \/ OpsEscalate(c) \/ HardEscalate(c)
  <2>1. CreateEscalation(c, "review", None)
    BY <1>4 DEF GreyScheme, UrlEscalate, OpsEscalate, HardEscalate, CreateEscalation
  <2> QED BY <2>1, EscalationEnds
<1>5. CASE MergeTurn(c) \/ OpsSet(c)
  <2>1. PICK pc \in {"plan", "settled", "urlEsc", "hardEsc", "hardIntake", "life"} :
          Goto(c, pc, deal')
    BY <1>5 DEF MergeTurn, OpsSet, UpdateThen, Might, Planned
  <2>2. deal'.escalate = deal.escalate /\ deal'.meta.rfq = Row(c).meta.rfq
    <3>1. CASE MergeTurn(c)
      BY <3>1 DEF MergeTurn, UpdateThen, Deal
    <3>2. CASE OpsSet(c)
      BY <3>2 DEF OpsSet, UpdateThen, Deal, Meta
    <3> QED BY <1>5, <3>1, <3>2
  <2>3. calls[c].pc \in {"merge", "opsSet"}
    BY <1>5 DEF MergeTurn, OpsSet, At
  <2> QED BY <1>3, <2>1, <2>2, <2>3, WriteKnows DEF NoCopy, OldBatch, HintPCs
<1>6. CASE UrlReload(c)
  <2>1. PICK pc \in {"plan", "settled"} : Goto(c, pc, deal)
    BY <1>6 DEF UrlReload, Planned
  <2>2. deal' = deal
    BY <1>6 DEF UrlReload
  <2> QED BY <1>3, <2>1, <2>2, ReadKnows DEF HintPCs
<1>7. CASE HardSet(c) \/ Execute(c) \/ AcceptOffer(c)
  <2>1. Finish(c) /\ deal'.escalate = deal.escalate /\ deal'.meta = Row(c).meta
    BY <1>7 DEF HardSet, Execute, AcceptOffer, Deal
  <2>2. calls[c].pc \in {"hardSet", "hardIntake", "life"}
    BY <1>7 DEF HardSet, Execute, AcceptOffer, Life, At
  <2> QED BY <1>3, <2>1, <2>2, WriteKnows DEF NoCopy, OldBatch, HintPCs
<1>8. CASE PlanTurn(c) \/ Recalculate(c)
  <2>1. deal' = deal /\ calls[c].pc \in {"plan", "settled", "life"}
    BY <1>8 DEF PlanTurn, Recalculate, Life, At
  <2>2. /\ \A b \in Calls : b # c => calls'[b] = calls[b]
        /\ \/ calls'[c].pc = "done"
           \/ /\ calls'[c].pc \in {"begin", "opsEsc", "life"}
              /\ calls'[c].row = Row(c) /\ calls'[c].body = calls[c].body
    <3>1. CASE PlanTurn(c)
      BY <3>1, PlanKeeps DEF TypeOK, Row
    <3>2. CASE Finish(c)
      BY <3>2 DEF Finish, Finished, Unused, TypeOK
    <3>3. CASE calls' = [calls EXCEPT ![c].pc = "begin", ![c].round = 2, ![c].send = TRUE]
      BY <3>3 DEF TypeOK, Call, Row
    <3> QED BY <1>8, <3>1, <3>2, <3>3 DEF Recalculate
  <2>3. Flagged' /\ \/ calls'[c].pc = "done"
                    \/ /\ calls'[c].pc # "kpHold"
                       /\ Knows(deal', calls'[c].pc, calls'[c].row, calls'[c].body)
                       /\ ~MayWipe(deal', calls'[c].pc, calls'[c].row)
    BY <1>3, <2>1, <2>2 DEF NoneYet, Flagged, Knows, MayWipe, NoCopy, OldBatch, HintPCs
  <2> QED BY <1>3, <2>2, <2>3, MoveKnows
<1>9. CASE Remind(c) \/ JustAnswer(c)
  <2>1. Finish(c) /\ deal' = deal
    BY <1>9 DEF Remind, JustAnswer
  <2> QED BY <1>3, <2>1, FinishKnows DEF NoneYet, Flagged
<1> QED
  BY <1>2, <1>4, <1>5, <1>6, <1>7, <1>8, <1>9 DEF TurnStep

LEMMA StaffKnows ==
    ASSUME OneAtATime, TypeOK, NoneYet, NEW c \in Calls, StaffStep(c)
    PROVE  NoneYet'
<1>0. /\ calls[c] \in Call /\ Row(c) \in Deal /\ Row(c).meta \in Meta
      /\ deal \in Deal /\ deal.meta \in Meta /\ calls[c].body \in Meta
      /\ At(c, calls[c].pc)
  BY RowType DEF Row, At, Call
<1> USE <1>0
<1>1. CASE StartApproveKp(c) \/ StartCut(c) \/ StartFallback(c)
  <2>1. deal' = deal /\ Flagged'
    BY <1>1 DEF StartApproveKp, StartCut, StartFallback, NoneYet, Flagged
  <2>2. PICK kind \in {"approve_kp", "cut3", "fallback"}, pc \in {"kpRelease", "cutPatch", "begin"} :
          Begin(c, [Unused EXCEPT !.kind = kind, !.pc = pc, !.row = deal])
    BY <1>1 DEF StartApproveKp, StartCut, StartFallback
  <2> DEFINE call == [Unused EXCEPT !.kind = kind, !.pc = pc, !.row = deal]
  <2>3. call.pc = pc /\ call.row = deal /\ Begin(c, call)
    BY <2>2 DEF Unused
  <2> HIDE DEF call
  <2>4. call.pc \notin {"kpHold", "reload"} /\ Knows(deal', call.pc, call.row, call.body)
    BY <2>1, <2>3 DEF Knows, HintPCs
  <2> QED BY <2>1, <2>3, <2>4, BeginKnows
<1>2. CASE StartHint(c)
  <2> DEFINE call(mode) == [Unused EXCEPT !.kind = "hint", !.pc = "hintPatch", !.send = TRUE,
                                          !.body = [deal.meta EXCEPT !.mode = mode]]
  <2>1. PICK mode \in {"open", "gate", "hold"} : Begin(c, call(mode))
    BY <1>2 DEF StartHint
  <2>2. call(mode).pc = "hintPatch" /\ call(mode).body.rfq = deal.meta.rfq
    BY DEF Unused, FreshDeal, Meta
  <2>3. deal' = deal /\ Flagged'
    BY <1>2 DEF StartHint, NoneYet, Flagged
  <2> HIDE DEF call
  <2>4. Knows(deal', call(mode).pc, call(mode).row, call(mode).body)
    BY <2>2, <2>3 DEF Knows, NoCopy
  <2> QED BY <2>1, <2>2, <2>3, <2>4, BeginKnows
<1>3. SUFFICES ASSUME c \in InFlight, Knows(deal, calls[c].pc, Row(c), calls[c].body)
               PROVE  NoneYet'
  <2>1. \/ StartApproveKp(c) \/ StartCut(c) \/ StartFallback(c) \/ StartHint(c)
        \/ c \in InFlight
    BY DEF InFlight, At, StaffStep, FlushRead, FlushMail, FlushMark, ReleaseKp,
       CutPatch, HintPatch, HintPost, HintApply, FallbackMark
  <2> QED BY <1>1, <1>2, <2>1 DEF NoneYet
<1>4. CASE FlushRead(c)
  BY <1>3, <1>4, ReadKnows DEF FlushRead, HintPCs
<1>5. CASE FlushMail(c)
  <2>1. At(c, "flushMail") /\ Goto(c, "flushMark", Row(c)) /\ deal' = deal
    BY <1>5 DEF FlushMail
  <2> QED BY <1>3, <2>1, KeepKnows DEF At, NoCopy, OldBatch, HintPCs
<1>6. CASE FlushMark(c) \/ ReleaseKp(c) \/ CutPatch(c)
  <2>1. deal'.escalate = FALSE /\ Finish(c)
    <3>1. CASE FlushMark(c)
      BY <3>1 DEF FlushMark, Deal
    <3>2. CASE ReleaseKp(c)
      BY <3>2 DEF ReleaseKp, Deal
    <3>3. CASE CutPatch(c)
      BY <3>3 DEF CutPatch, Deal
    <3> QED BY <1>6, <3>1, <3>2, <3>3
  <2> QED BY <1>3, <2>1, FinishKnows DEF Flagged
<1>7. CASE HintPatch(c)
  <2>1. deal'.escalate = deal.escalate /\ deal'.meta = calls[c].body
    BY <1>7 DEF HintPatch, Deal
  <2>2. At(c, "hintPatch") /\ (Goto(c, "hintPost", Row(c)) \/ Finish(c))
    BY <1>7 DEF HintPatch
  <2>3. Flagged' /\ Knows(deal', "hintPost", Row(c), calls[c].body)
        /\ ~MayWipe(deal', "hintPost", Row(c))
    BY <1>3, <2>1, <2>2 DEF NoneYet, Flagged, Knows, MayWipe, NoCopy, HintPCs, At
  <2> QED BY <1>3, <2>2, <2>3, GotoKnows
<1>8. CASE HintPost(c)
  <2>1. At(c, "hintPost") /\ Goto(c, "hintApply", deal) /\ deal' = deal
    BY <1>8 DEF HintPost
  <2>2. Flagged' /\ Knows(deal', "hintApply", deal, calls[c].body)
        /\ ~MayWipe(deal', "hintApply", deal)
    BY <1>3, <2>1 DEF NoneYet, Flagged, Knows, MayWipe, HintPCs, At
  <2> QED BY <1>3, <2>1, <2>2, GotoKnows
<1>9. CASE HintApply(c)
  <2> DEFINE merged == MergeMeta(Row(c).meta, calls[c].body)
  <2>1. At(c, "hintApply") /\ (Goto(c, "begin", deal') \/ Finish(c))
    BY <1>9 DEF HintApply
  <2>2. merged \in Meta /\ (deal.meta.rfq = "pending" => merged.rfq = "pending")
    <3>1. calls[c].pc = "hintApply" /\ "hintApply" \in HintPCs
      BY <2>1 DEF At, HintPCs
    <3>2. deal.meta.rfq = "pending" => calls[c].body.rfq = "pending"
      BY <1>3, <3>1 DEF Knows
    <3>3. calls[c].body \in Meta /\ Row(c).meta \in Meta
      BY DEF Call
    <3> DEFINE body == calls[c].body
               old == Row(c).meta
    <3>4. merged = MergeMeta(old, body) /\ body \in Meta /\ old \in Meta
      BY <3>3
    <3> HIDE DEF merged, body, old
    <3>5. merged \in Meta
      BY <3>4, MergeType
    <3>6. body.rfq = "pending" => merged.rfq = "pending"
      BY <3>4 DEF MergeMeta, Meta
    <3> QED
      BY <3>2, <3>5, <3>6 DEF body
  <2>3. PICK attempted, kept :
          deal' = [deal EXCEPT !.meta = [merged EXCEPT !.attempted = attempted],
                               !.status = "quoting", !.paused = kept]
    BY <1>9 DEF HintApply
  <2> HIDE DEF merged
  <2>4. deal'.escalate = deal.escalate /\ deal'.meta.rfq = merged.rfq
    BY <2>2, <2>3 DEF Deal, Meta
  <2>5. Flagged' /\ Knows(deal', "begin", deal', calls[c].body)
        /\ ~MayWipe(deal', "begin", deal')
    BY <2>2, <2>4 DEF NoneYet, Flagged, Knows, MayWipe, HintPCs
  <2> QED BY <1>3, <2>1, <2>5, GotoKnows
<1>10. CASE FallbackMark(c)
  <2>1. At(c, "mark") /\ Finish(c)
        /\ deal'.escalate = deal.escalate /\ deal'.meta = Row(c).meta
    BY <1>10 DEF FallbackMark, Deal
  <2> QED BY <1>3, <2>1, WriteKnows DEF At, NoCopy, OldBatch, HintPCs
<1> QED
  BY <1>1, <1>2, <1>4, <1>5, <1>6, <1>7, <1>8, <1>9, <1>10 DEF StaffStep

\* Without an escalation there is nothing to decide.
LEMMA ClickKnows ==
    ASSUME TypeOK, NoneYet, rows = {}, rows' = {}, StaffClick
    PROVE  NoneYet'
<1>1. Pause \/ Resume \/ Takeover \/ RejectDeal \/ CloseDeal
  BY DEF StaffClick, ApiEscalate
<1>2. /\ calls' = calls /\ deal'.meta = deal.meta
      /\ deal'.escalate => deal.escalate
  BY <1>1 DEF Pause, Resume, Takeover, RejectDeal, CloseDeal, Patch, TypeOK, Deal
<1>3. InFlight' = InFlight /\ \A c \in InFlight : Row(c)' = Row(c)
  BY <1>2 DEF InFlight, Row
<1>4. swallowed \subseteq swallowed' /\ \A c : Tag(c)' = Tag(c)
  BY <1>2, SwallowedStays DEF Next, Tag
<1> QED
  BY <1>2, <1>3, <1>4 DEF NoneYet, Alone, Flagged, Knows, MayWipe, Untold

LEMMA CauseStep ==
    ASSUME OneAtATime, TypeOK, CauseInv, [Next]_vars
    PROVE  CauseInv'
<1>1. SUFFICES ASSUME rows' = {}, ~Unheard' PROVE NoneYet'
  BY DEF CauseInv
<1>2. rows = {} /\ NoneYet
  BY <1>1, RowsStay, SwallowedStays DEF CauseInv, Decided, Unheard
<1>3. ASSUME NEW c \in Calls, Fail(c) PROVE NoneYet'
  BY <1>2, <1>3, FinishKnows DEF Fail, NoneYet, Flagged
<1>4. CASE UNCHANGED vars
  BY <1>2, <1>4 DEF vars, NoneYet, Alone, Flagged, InFlight, Row, Tag, Knows, MayWipe, Untold
<1> QED
  BY <1>1, <1>2, <1>3, <1>4, TurnKnows, QuoteKnows, StaffKnows, ClickKnows DEF Next

LEMMA CauseStart == Init => CauseInv
<1> SUFFICES ASSUME Init PROVE CauseInv
  OBVIOUS
<1>1. \A c \in Calls : calls[c].pc = "idle"
  BY DEF Init, Unused
<1>2. ~deal.escalate
  BY DEF Init, FreshDeal
<1> QED
  BY <1>1, <1>2 DEF CauseInv, NoneYet, Alone, Flagged, InFlight

\* run_freight_quote and _store_rfq_preflight flag a deal for staff when there is
\* something to decide, wherever a handler dies between two transactions,
\* whichever error a quote swallows, and whatever staff click meanwhile, as long
\* as handlers run one by one; but for a quote that could neither announce its
\* batch nor read the row back.
THEOREM FlagsHaveCause ==
    ASSUME OneAtATime
    PROVE  Spec => []FlagHasCause
<1>1. TypeOK /\ CauseInv /\ [Next]_vars => CauseInv'
  BY CauseStep
<1>2. CauseInv => FlagHasCause
  BY DEF CauseInv, NoneYet, Flagged, FlagHasCause
<1> QED
  BY <1>1, <1>2, CauseStart, TypeCorrect, PTL DEF Spec

-----------------------------------------------------------------------------
(* A batch of held RFQ letters is mailed by one flush: which batches the row *)
(* and the calls carry as pending, and which of them were mailed.            *)

FlushPCs == {"flushRead", "flushMail", "flushMark"}

\* The batch that waits according to this metadata.
Waiting(meta) == IF meta.rfq = "pending" THEN {meta.batch} ELSE {}

CarriedBy(c) == Waiting(Row(c).meta) \cup Waiting(calls[c].body)
Carried == Waiting(deal.meta) \cup UNION {CarriedBy(c) : c \in Calls}

\* A batch that is carried as pending was made by a call that began, and is not
\* mailed yet, but for the moment between mailing and marking it.
CarriedIsFresh ==
    \A b \in Carried :
        /\ b # None
        /\ ~At(b[1], "idle")
        /\ \A m \in mailings : m.batch = b => At(m.by, "flushMark")

\* A batch that was mailed belongs to a call that will make no batch any more.
MailedIsOld ==
    \A m \in mailings : m.batch \in Tags /\ calls[m.batch[1]].pc \in FlushPCs \cup {"done"}

\* Only a running call has a copy, and a flush mails what was pending.
CopiesAreLive ==
    \A c \in Calls :
        /\ c \notin InFlight => CarriedBy(c) = {}
        /\ At(c, "flushMail") => Row(c).meta.rfq = "pending"

LettersInv == MailedOnce /\ CarriedIsFresh /\ MailedIsOld /\ CopiesAreLive

-----------------------------------------------------------------------------
\* Where a running call stands that is not a flush.
StepPCs == PCs \ (FlushPCs \cup {"idle", "done"})

\* What call c can come to know: what the row and its own copies carry, and, as
\* it stores one, a batch of its own.
Known(c) == Waiting(deal.meta) \cup CarriedBy(c)
              \cup (IF At(c, "pfStore") THEN {Tag(c)} ELSE {})

LEMMA MoveLetters ==
    ASSUME TypeOK, LettersInv, NEW c \in Calls, InFlight \subseteq {c},
           ~At(c, "flushMark"),
           \A b \in Calls : b # c => calls'[b] = calls[b],
           calls'[c].pc \notin {"idle", "flushMark"},
           Waiting(deal'.meta) \subseteq Known(c),
           Waiting(calls'[c].row.meta) \subseteq Known(c),
           Waiting(calls'[c].body) \subseteq Known(c),
           calls'[c].pc = "done" =>
             Waiting(calls'[c].row.meta) = {} /\ Waiting(calls'[c].body) = {},
           calls'[c].pc = "flushMail" => calls'[c].row.meta.rfq = "pending",
           At(c, "done") \/ calls[c].pc \in FlushPCs =>
             calls'[c].pc \in FlushPCs \cup {"done"},
           UNCHANGED mailings
    PROVE  LettersInv'
<1>1. /\ CarriedBy(c)' \subseteq Known(c)
      /\ \A b \in Calls : b # c => CarriedBy(b)' = CarriedBy(b)
  BY DEF CarriedBy, Row
<1>2. Carried' \subseteq Carried \cup (IF At(c, "pfStore") THEN {Tag(c)} ELSE {})
  BY <1>1 DEF Carried, Known
<1>3. MailedOnce' /\ MailedIsOld'
  BY DEF LettersInv, MailedOnce, MailedIsOld, At, TypeOK, Tags
<1>4. CopiesAreLive'
  BY <1>1 DEF LettersInv, CopiesAreLive, CarriedBy, Row, InFlight, At
<1>5. \A m \in mailings : ~At(m.by, "flushMark")
  BY DEF TypeOK, Mailings, InFlight, At
<1>6. ASSUME NEW b \in Carried
      PROVE  b \in Tags /\ calls'[b[1]].pc # "idle" /\ \A m \in mailings' : m.batch # b
  <2>1. b # None /\ ~At(b[1], "idle") /\ \A m \in mailings : m.batch # b
    BY <1>5 DEF LettersInv, CarriedIsFresh
  <2>2. b \in Tags
    <3>1. deal.meta \in Meta /\ \A d \in Calls : Row(d).meta \in Meta /\ calls[d].body \in Meta
      BY RowType DEF Call
    <3>2. b \in Maybe(Tags)
      BY <1>6, <3>1 DEF Carried, CarriedBy, Waiting, Meta
    <3> QED BY <2>1, <3>2 DEF Maybe
  <2> QED BY <2>1, <2>2 DEF At, Tags
<1>7. ASSUME At(c, "pfStore")
      PROVE  /\ Tag(c) # None /\ calls'[Tag(c)[1]].pc # "idle"
             /\ \A m \in mailings' : m.batch # Tag(c)
  <2>1. Tag(c) \in Tags /\ Tag(c)[1] = c
    BY TagType DEF Tag
  <2>2. Tag(c) # None
    BY <2>1, DealAssumption DEF Tags
  <2>3. calls[Tag(c)[1]].pc \notin FlushPCs \cup {"done"}
    BY <1>7, <2>1 DEF At, FlushPCs
  <2>4. \A m \in mailings : m.batch # Tag(c)
    BY <2>3 DEF LettersInv, MailedIsOld
  <2> QED BY <2>1, <2>2, <2>4
<1>8. None \notin Tags
  BY DealAssumption DEF Tags
<1>9. CarriedIsFresh'
  BY <1>2, <1>6, <1>7, <1>8 DEF CarriedIsFresh, At
<1> QED
  BY <1>3, <1>4, <1>9 DEF LettersInv

LEMMA BeginLetters ==
    ASSUME OneByOne, TypeOK, LettersInv, NEW c \in Calls, NEW call, Begin(c, call),
           call.pc \notin {"idle", "flushMail", "flushMark"},
           Waiting(deal'.meta) \subseteq Known(c),
           Waiting(call.row.meta) \subseteq Known(c),
           Waiting(call.body) \subseteq Known(c),
           call.pc = "done" => Waiting(call.row.meta) = {} /\ Waiting(call.body) = {},
           UNCHANGED mailings
    PROVE  LettersInv'
<1>1. InFlight = {} /\ At(c, "idle")
  BY BeginAlone DEF OneByOne, Begin
<1>2. calls'[c] = call /\ \A b \in Calls : b # c => calls'[b] = calls[b]
  BY DEF Begin, TypeOK
<1> QED
  BY <1>1, <1>2, MoveLetters DEF At, FlushPCs

\* A step of a running turn, quote, hint or staff request.
LEMMA StepLetters ==
    ASSUME TypeOK, SerialInv, LettersInv, NEW c \in InFlight, calls[c].pc \notin FlushPCs,
           NEW pc \in StepPCs, NEW row,
           Goto(c, pc, row) \/ Return(c, row) \/ Finish(c),
           Waiting(deal'.meta) \subseteq Known(c),
           Waiting(row.meta) \subseteq Known(c),
           UNCHANGED mailings
    PROVE  LettersInv'
<1>1. c \in Calls /\ InFlight \subseteq {c}
  BY DEF SerialInv, Alone, InFlight
<1>2. ASSUME Finish(c) PROVE LettersInv'
  <2>1. /\ calls'[c] = Finished
        /\ \A b \in Calls : b # c => calls'[b] = calls[b]
    BY <1>1, <1>2 DEF Finish, TypeOK
  <2>2. Finished.pc = "done" /\ Waiting(Finished.row.meta) = {} /\ Waiting(Finished.body) = {}
    BY DEF Finished, Unused, FreshDeal, Waiting
  <2> QED BY <1>1, <2>1, <2>2, MoveLetters DEF At, FlushPCs
<1>3. ASSUME NEW to \in StepPCs, Goto(c, to, row)
      PROVE  LettersInv'
  <2>1. /\ calls'[c].pc = to /\ calls'[c].row = row /\ calls'[c].body = calls[c].body
        /\ \A b \in Calls : b # c => calls'[b] = calls[b]
    BY <1>1, <1>3 DEF Goto, TypeOK, Call
  <2>2. Waiting(calls[c].body) \subseteq Known(c)
    BY DEF Known, CarriedBy
  <2>3. ~At(c, "done")
    BY DEF InFlight, At
  <2> QED BY <1>1, <1>3, <2>1, <2>2, <2>3, MoveLetters DEF At, StepPCs, FlushPCs
<1>4. {"life", "mark"} \subseteq StepPCs
  BY DEF StepPCs, PCs, FlushPCs
<1> QED
  BY <1>2, <1>3, <1>4 DEF Return

\* A click decides a waiting batch at most.
LEMMA ClickLetters ==
    ASSUME TypeOK, LettersInv, UNCHANGED <<calls, mailings>>,
           Waiting(deal'.meta) \subseteq Waiting(deal.meta)
    PROVE  LettersInv'
<1>1. \A c \in Calls : CarriedBy(c)' = CarriedBy(c) /\ Row(c)' = Row(c)
  BY DEF CarriedBy, Row
<1>2. Carried' \subseteq Carried
  BY <1>1 DEF Carried
<1>3. InFlight' = InFlight
  BY DEF InFlight
<1> QED
  BY <1>1, <1>2, <1>3 DEF LettersInv, MailedOnce, CarriedIsFresh, MailedIsOld, CopiesAreLive, At

LEMMA KnownCopies ==
    ASSUME NEW c \in Calls
    PROVE  /\ Waiting(deal.meta) \subseteq Known(c)
           /\ Waiting(Row(c).meta) \subseteq Known(c)
           /\ Waiting(calls[c].body) \subseteq Known(c)
BY DEF Known, CarriedBy

LEMMA QuoteLetters ==
    ASSUME TypeOK, SerialInv, LettersInv, NEW c \in Calls, Quote(c)
    PROVE  LettersInv'
<1>0. /\ Row(c) \in Deal /\ Row(c).meta \in Meta /\ deal \in Deal /\ deal.meta \in Meta
      /\ At(c, calls[c].pc)
  BY RowType DEF At
<1> USE <1>0, KnownCopies
<1>1. c \in InFlight /\ calls[c].pc \notin FlushPCs
  BY DEF InFlight, FlushPCs, At, Quote, QuoteBegin, QuoteLegal, QuoteCompliance, SaveScheme,
     MailRfq, PreflightRead, PreflightStore, PreflightEscalate, Reload,
     NoPartnerChannels, WithdrawOffer, ReviewPrice, PublishOffer, KpEscalate, KpHold
<1>2. UNCHANGED mailings
  BY DEF ghosts, Quote, QuoteBegin, QuoteLegal, QuoteCompliance, SaveScheme,
     MailRfq, PreflightRead, PreflightStore, PreflightEscalate, Reload,
     NoPartnerChannels, WithdrawOffer, ReviewPrice, PublishOffer, KpEscalate, KpHold
<1>3. {"legal", "legalEsc", "scheme", "mail", "pfRead", "pfStore", "pfEsc", "reload", "offer",
       "withdraw", "publish", "kpEsc", "kpHold", "life"} \subseteq StepPCs
  BY DEF StepPCs, PCs, FlushPCs
<1>4. ASSUME NEW reason, NEW about, CreateEscalation(c, reason, about)
      PROVE  Waiting(deal'.meta) \subseteq Known(c)
  BY <1>4, EscalationKeeps
<1>5. CASE QuoteBegin(c) \/ QuoteLegal(c)
  <2>1. PICK pc \in {"legal", "legalEsc", "scheme", "offer"} : Goto(c, pc, deal')
    BY <1>5 DEF QuoteBegin, QuoteLegal, UpdateThen
  <2>2. deal'.meta = Row(c).meta
    BY <1>5 DEF QuoteBegin, QuoteLegal, UpdateThen, Deal
  <2> QED BY <1>1, <1>2, <1>3, <2>1, <2>2, StepLetters
<1>6. CASE QuoteCompliance(c) \/ NoPartnerChannels(c) \/ ReviewPrice(c) \/ KpEscalate(c)
  <2>1. PICK pc \in {"scheme", "offer", "withdraw", "publish", "kpHold"} : Goto(c, pc, Row(c))
    BY <1>6 DEF QuoteCompliance, NoPartnerChannels, ReviewPrice, KpEscalate
  <2>2. Waiting(deal'.meta) \subseteq Known(c)
    BY <1>4, <1>6 DEF QuoteCompliance, NoPartnerChannels, ReviewPrice, KpEscalate
  <2> QED BY <1>1, <1>2, <1>3, <2>1, <2>2, StepLetters
<1>7. CASE SaveScheme(c)
  <2>1. deal'.meta \in {deal.meta, Row(c).meta} /\ Goto(c, "mail", Row(c))
    BY <1>7 DEF SaveScheme, Deal
  <2> QED BY <1>1, <1>2, <1>3, <2>1, StepLetters
<1>8. CASE MailRfq(c)
  <2>1. deal'.meta \in {deal.meta, Row(c).meta}
    BY <1>8 DEF MailRfq, Deal
  <2>2. PICK pc \in {"reload", "pfRead"} : Goto(c, pc, Row(c))
    BY <1>8 DEF MailRfq
  <2> QED BY <1>1, <1>2, <1>3, <2>1, <2>2, StepLetters
<1>9. CASE PreflightRead(c) \/ Reload(c)
  <2>1. PICK pc \in {"pfStore", "offer"} :
          (Goto(c, pc, deal) \/ Goto(c, pc, Row(c))) /\ UNCHANGED deal
    BY <1>9 DEF PreflightRead, Reload
  <2> QED BY <1>1, <1>2, <1>3, <2>1, StepLetters
<1>10. CASE PreflightStore(c)
  <2>1. At(c, "pfStore") /\ Goto(c, "pfEsc", Row(c)) /\ deal'.meta.batch = Tag(c)
    BY <1>10 DEF PreflightStore, Deal, Meta
  <2>2. Waiting(deal'.meta) \subseteq Known(c)
    BY <2>1 DEF Waiting, Known
  <2> QED BY <1>1, <1>2, <1>3, <2>1, <2>2, StepLetters
<1>11. CASE PreflightEscalate(c)
  <2>1. Waiting(deal'.meta) \subseteq Known(c) /\ Goto(c, "reload", Row(c))
    BY <1>4, <1>11 DEF PreflightEscalate
  <2> QED BY <1>1, <1>2, <1>3, <2>1, StepLetters
<1>12. CASE WithdrawOffer(c) \/ PublishOffer(c) \/ KpHold(c)
  <2>1. Return(c, deal') \/ Goto(c, "kpEsc", deal')
    BY <1>12 DEF WithdrawOffer, PublishOffer, KpHold
  <2>2. deal'.meta.rfq = Row(c).meta.rfq /\ deal'.meta.batch = Row(c).meta.batch
    <3>1. CASE WithdrawOffer(c)
      BY <3>1 DEF WithdrawOffer, Deal, Meta
    <3>2. CASE PublishOffer(c)
      BY <3>2 DEF PublishOffer, Deal, Meta
    <3>3. CASE KpHold(c)
      BY <3>3 DEF KpHold, Deal, Meta
    <3> QED BY <1>12, <3>1, <3>2, <3>3
  <2>3. Waiting(deal'.meta) \subseteq Known(c)
    BY <2>2 DEF Waiting
  <2> QED BY <1>1, <1>2, <1>3, <2>1, <2>3, StepLetters
<1> QED
  BY <1>5, <1>6, <1>7, <1>8, <1>9, <1>10, <1>11, <1>12 DEF Quote

LEMMA TurnLetters ==
    ASSUME OneByOne, TypeOK, SerialInv, LettersInv, NEW c \in Calls, TurnStep(c)
    PROVE  LettersInv'
<1>0. /\ Row(c) \in Deal /\ Row(c).meta \in Meta /\ deal \in Deal /\ deal.meta \in Meta
      /\ At(c, calls[c].pc)
  BY RowType DEF At
<1> USE <1>0, KnownCopies
<1>1. UNCHANGED mailings
  BY DEF ghosts, TurnStep, StartTurn, GreyScheme, MergeTurn, UrlEscalate, UrlReload,
     HardEscalate, HardSet, PlanTurn, OpsEscalate, OpsSet, Recalculate,
     AcceptOffer, Execute, Remind, JustAnswer
<1>2. CASE StartTurn(c)
  <2>1. /\ Finished.pc = "done"
        /\ Waiting(Finished.row.meta) = {} /\ Waiting(Finished.body) = {}
        /\ \A pc \in {"merge", "grey"} :
             /\ [Turn EXCEPT !.pc = pc].pc = pc
             /\ [Turn EXCEPT !.pc = pc].row = deal
             /\ Waiting([Turn EXCEPT !.pc = pc].body) = {}
    BY DEF Finished, Turn, Unused, FreshDeal, Waiting
  <2>2. PICK call \in {Finished, [Turn EXCEPT !.pc = "merge"], [Turn EXCEPT !.pc = "grey"]} :
          Begin(c, call)
    BY <1>2 DEF StartTurn, Might
  <2>3. UNCHANGED deal
    BY <1>2 DEF StartTurn
  <2> QED BY <1>1, <2>1, <2>2, <2>3, BeginLetters
<1>3. SUFFICES ASSUME ~StartTurn(c) PROVE LettersInv'
  BY <1>2
<1>4. c \in InFlight /\ calls[c].pc \notin FlushPCs
  BY <1>3 DEF InFlight, FlushPCs, At, TurnStep, GreyScheme, MergeTurn, UrlEscalate, UrlReload,
     HardEscalate, HardSet, PlanTurn, OpsEscalate, OpsSet, Recalculate,
     AcceptOffer, Execute, Remind, JustAnswer, Life
<1>5. {"urlReload", "opsSet", "hardIntake", "hardSet", "plan", "settled", "urlEsc", "hardEsc",
       "life"} \subseteq StepPCs
  BY DEF StepPCs, PCs, FlushPCs
<1>6. CASE GreyScheme(c) \/ UrlEscalate(c) \/ OpsEscalate(c) \/ HardEscalate(c)
  <2>1. CreateEscalation(c, "review", None)
    BY <1>6 DEF GreyScheme, UrlEscalate, OpsEscalate, HardEscalate, CreateEscalation
  <2>2. \/ Finish(c)
        \/ \E pc \in {"urlReload", "opsSet", "hardIntake", "hardSet"} : Goto(c, pc, Row(c))
    BY <1>6 DEF GreyScheme, UrlEscalate, OpsEscalate, HardEscalate
  <2>3. PICK pc \in {"urlReload", "opsSet", "hardIntake", "hardSet"} :
          Goto(c, pc, Row(c)) \/ Finish(c)
    BY <2>2
  <2> QED BY <1>1, <1>4, <1>5, <2>1, <2>3, EscalationKeeps, StepLetters
<1>7. CASE MergeTurn(c) \/ OpsSet(c)
  <2>1. PICK pc \in {"plan", "settled", "urlEsc", "hardEsc", "hardIntake", "life"} :
          Goto(c, pc, deal')
    BY <1>7 DEF MergeTurn, OpsSet, UpdateThen, Might, Planned
  <2>2. deal'.meta.rfq = Row(c).meta.rfq /\ deal'.meta.batch = Row(c).meta.batch
    <3>1. CASE MergeTurn(c)
      BY <3>1 DEF MergeTurn, UpdateThen, Deal
    <3>2. CASE OpsSet(c)
      BY <3>2 DEF OpsSet, UpdateThen, Deal, Meta
    <3> QED BY <1>7, <3>1, <3>2
  <2>3. Waiting(deal'.meta) \subseteq Known(c)
    BY <2>2 DEF Waiting
  <2> QED BY <1>1, <1>4, <1>5, <2>1, <2>3, StepLetters
<1>8. CASE UrlReload(c)
  <2>1. PICK pc \in {"plan", "settled"} : Goto(c, pc, deal) /\ UNCHANGED deal
    BY <1>8 DEF UrlReload, Planned
  <2> QED BY <1>1, <1>4, <1>5, <2>1, StepLetters
<1>9. CASE HardSet(c) \/ Execute(c) \/ AcceptOffer(c) \/ Remind(c) \/ JustAnswer(c)
  <2>1. Finish(c) /\ deal'.meta \in {deal.meta, Row(c).meta}
    BY <1>9 DEF HardSet, Execute, AcceptOffer, Remind, JustAnswer, Deal
  <2>2. Waiting(deal'.meta) \subseteq Known(c)
    BY <2>1
  <2> QED BY <1>1, <1>4, <1>5, <2>1, <2>2, StepLetters
<1>10. CASE PlanTurn(c) \/ Recalculate(c)
  <2>1. UNCHANGED deal
    BY <1>10 DEF PlanTurn, Recalculate
  <2>2. CASE Finish(c)
    BY <1>1, <1>4, <1>5, <2>1, <2>2, StepLetters
  <2>3. /\ \A b \in Calls : b # c => calls'[b] = calls[b]
        /\ \/ Finish(c)
           \/ /\ calls'[c].pc \in {"begin", "opsEsc", "life"}
              /\ calls'[c].row = Row(c) /\ calls'[c].body = calls[c].body
    <3>1. CASE PlanTurn(c)
      BY <3>1, PlanKeeps DEF TypeOK, Row
    <3>2. CASE Finish(c)
      BY <3>2 DEF Finish, TypeOK
    <3>3. CASE calls' = [calls EXCEPT ![c].pc = "begin", ![c].round = 2, ![c].send = TRUE]
      BY <3>3, RowType DEF TypeOK, Call, Row
    <3> QED BY <1>10, <3>1, <3>2, <3>3 DEF Recalculate
  <2>4. InFlight \subseteq {c} /\ ~At(c, "done") /\ ~At(c, "flushMark")
    BY <1>4 DEF SerialInv, Alone, InFlight, At, FlushPCs
  <2> QED BY <1>1, <1>4, <2>1, <2>2, <2>3, <2>4, MoveLetters
<1> QED
  BY <1>3, <1>6, <1>7, <1>8, <1>9, <1>10 DEF TurnStep

LEMMA StartLetters ==
    ASSUME OneByOne, TypeOK, SerialInv, LettersInv, NEW c \in Calls,
           StartApproveKp(c) \/ StartCut(c) \/ StartFallback(c) \/ StartHint(c)
    PROVE  LettersInv'
<1>1. UNCHANGED <<deal, mailings>>
  BY DEF StartApproveKp, StartCut, StartFallback, StartHint, ghosts
<1>2. Waiting(FreshDeal.meta) = {}
  BY DEF FreshDeal, Waiting
<1>3. CASE StartHint(c)
  <2> DEFINE call(mode) == [Unused EXCEPT !.kind = "hint", !.pc = "hintPatch", !.send = TRUE,
                                          !.body = [deal.meta EXCEPT !.mode = mode]]
  <2>1. PICK mode \in {"open", "gate", "hold"} : Begin(c, call(mode))
    BY <1>3 DEF StartHint
  <2>2. /\ call(mode).pc = "hintPatch" /\ call(mode).row = FreshDeal
        /\ call(mode).body.rfq = deal.meta.rfq /\ call(mode).body.batch = deal.meta.batch
    BY RowType DEF Unused, Meta
  <2> HIDE DEF call
  <2>3. Waiting(call(mode).body) \subseteq Known(c)
    BY <2>2, KnownCopies DEF Waiting
  <2> QED BY <1>1, <1>2, <2>1, <2>2, <2>3, KnownCopies, BeginLetters
<1>4. CASE StartApproveKp(c) \/ StartCut(c) \/ StartFallback(c)
  <2> DEFINE call(kind, pc) == [Unused EXCEPT !.kind = kind, !.pc = pc, !.row = deal]
  <2>1. \/ Begin(c, call("approve_kp", "kpRelease"))
        \/ Begin(c, call("cut3", "cutPatch"))
        \/ Begin(c, call("fallback", "begin"))
    BY <1>4 DEF StartApproveKp, StartCut, StartFallback
  <2>2. \A kind, pc : /\ call(kind, pc).pc = pc
                      /\ call(kind, pc).row = deal
                      /\ call(kind, pc).body = FreshDeal.meta
    BY DEF Unused
  <2> HIDE DEF call
  <2>3. ASSUME NEW kind, NEW pc \in {"kpRelease", "cutPatch", "begin"},
               Begin(c, call(kind, pc))
        PROVE  LettersInv'
    BY <1>1, <1>2, <2>2, <2>3, KnownCopies, BeginLetters
  <2> QED BY <2>1, <2>3
<1> QED
  BY <1>3, <1>4

LEMMA FlushReadLetters ==
    ASSUME TypeOK, SerialInv, LettersInv, NEW c \in Calls, FlushRead(c)
    PROVE  LettersInv'
<1>1. At(c, "flushRead") /\ UNCHANGED <<deal, mailings>> /\ InFlight \subseteq {c}
  BY DEF FlushRead, ghosts, SerialInv, Alone, InFlight, At
<1>2. CASE deal.meta.rfq = "pending" /\ Goto(c, "flushMail", deal)
  <2>1. /\ calls'[c].pc = "flushMail" /\ calls'[c].row = deal /\ calls'[c].body = calls[c].body
        /\ \A b \in Calls : b # c => calls'[b] = calls[b]
    BY <1>2 DEF Goto, TypeOK, Call
  <2> QED BY <1>1, <1>2, <2>1, KnownCopies, MoveLetters DEF At, FlushPCs
<1>3. CASE Finish(c)
  <2>1. calls'[c] = Finished /\ \A b \in Calls : b # c => calls'[b] = calls[b]
    BY <1>3 DEF Finish, TypeOK
  <2>2. Finished.pc = "done" /\ Waiting(Finished.row.meta) = {} /\ Waiting(Finished.body) = {}
    BY DEF Finished, Unused, FreshDeal, Waiting
  <2> QED BY <1>1, <2>1, <2>2, KnownCopies, MoveLetters DEF At, FlushPCs
<1> QED
  BY <1>2, <1>3 DEF FlushRead

LEMMA FlushMailLetters ==
    ASSUME TypeOK, SerialInv, LettersInv, NEW c \in Calls, FlushMail(c)
    PROVE  LettersInv'
<1> DEFINE new == [by |-> c, batch |-> Row(c).meta.batch, seen |-> calls[c].seen]
<1>1. /\ At(c, "flushMail") /\ UNCHANGED deal /\ mailings' = mailings \cup {new}
      /\ Goto(c, "flushMark", Row(c))
  BY DEF FlushMail
<1>2. c \in InFlight /\ InFlight \subseteq {c}
  BY <1>1 DEF SerialInv, Alone, InFlight, At
<1>3. new.by = c /\ new.batch \in CarriedBy(c) /\ new.batch \in Carried
  BY <1>1 DEF LettersInv, CopiesAreLive, CarriedBy, Carried, Waiting
<1> HIDE DEF new
<1>4. \A m \in mailings : m.by \in Calls /\ ~At(m.by, "flushMark")
  BY <1>1, <1>2 DEF TypeOK, Mailings, InFlight, At
<1>5. new.batch # None /\ ~At(new.batch[1], "idle") /\ \A m \in mailings : m.batch # new.batch
  BY <1>3, <1>4 DEF LettersInv, CarriedIsFresh
<1>6. new.batch \in Tags
  <2>1. Row(c).meta \in Meta /\ calls[c].body \in Meta
    BY RowType DEF Call
  <2> QED BY <1>3, <1>5, <2>1 DEF CarriedBy, Waiting, Meta, Maybe
<1>7. /\ calls'[c].pc = "flushMark" /\ calls'[c].row = Row(c) /\ calls'[c].body = calls[c].body
      /\ \A b \in Calls : b # c => calls'[b] = calls[b]
  BY <1>1 DEF Goto, TypeOK, Call
<1>8. \A b \in Calls : CarriedBy(b)' = CarriedBy(b)
  BY <1>7 DEF CarriedBy, Row
<1>9. Carried' = Carried
  BY <1>1, <1>8 DEF Carried
<1>10. MailedOnce'
  BY <1>1, <1>5 DEF LettersInv, MailedOnce
<1>11. MailedIsOld'
  <2>1. new.batch[1] \in Calls
    BY <1>6 DEF Tags
  <2>2. calls'[new.batch[1]].pc \in FlushPCs \cup {"done"}
    BY <1>2, <1>5, <1>7, <2>1 DEF FlushPCs, InFlight, At
  <2>3. \A m \in mailings : /\ m.batch \in Tags
                            /\ calls'[m.batch[1]].pc \in FlushPCs \cup {"done"}
    BY <1>7 DEF LettersInv, MailedIsOld, FlushPCs, Tags
  <2> QED BY <1>1, <1>6, <2>2, <2>3 DEF MailedIsOld
<1>12. CopiesAreLive'
  BY <1>7, <1>8 DEF LettersInv, CopiesAreLive, Row, InFlight, At
<1>13. ASSUME NEW b \in Carried
       PROVE  /\ b # None /\ calls'[b[1]].pc # "idle"
              /\ \A m \in mailings : m.batch # b
  <2>1. b # None /\ ~At(b[1], "idle") /\ \A m \in mailings : m.batch # b
    BY <1>4 DEF LettersInv, CarriedIsFresh
  <2>2. b \in Tags
    <3>1. deal.meta \in Meta /\ \A d \in Calls : Row(d).meta \in Meta /\ calls[d].body \in Meta
      BY RowType DEF Call
    <3>2. b \in Maybe(Tags)
      BY <1>13, <3>1 DEF Carried, CarriedBy, Waiting, Meta
    <3> QED BY <2>1, <3>2 DEF Maybe
  <2> QED BY <1>7, <2>1, <2>2 DEF At, Tags
<1>14. CarriedIsFresh'
  BY <1>1, <1>3, <1>7, <1>9, <1>13 DEF CarriedIsFresh, At
<1> QED
  BY <1>10, <1>11, <1>12, <1>14 DEF LettersInv

LEMMA FlushMarkLetters ==
    ASSUME TypeOK, SerialInv, LettersInv, NEW c \in Calls, FlushMark(c)
    PROVE  LettersInv'
<1>1. At(c, "flushMark") /\ Finish(c) /\ UNCHANGED mailings
  BY DEF FlushMark, ghosts
<1>2. Waiting(deal'.meta) = {}
  <2>1. deal \in Deal /\ Row(c).meta \in Meta
    BY RowType
  <2>2. deal'.meta.rfq = "sent"
    BY <2>1 DEF FlushMark, Deal, Meta
  <2> QED BY <2>2 DEF Waiting
<1>3. InFlight \subseteq {c}
  BY <1>1 DEF SerialInv, Alone, InFlight, At
<1>4. /\ calls'[c] = Finished /\ Finished.pc = "done"
      /\ Waiting(Finished.row.meta) = {} /\ Waiting(Finished.body) = {}
      /\ \A b \in Calls : b # c => calls'[b] = calls[b]
  BY <1>1 DEF Finish, Finished, Unused, FreshDeal, Waiting, TypeOK
<1>5. \A b \in Calls : CarriedBy(b)' = {} /\ calls'[b].pc \in {"idle", "done"}
  BY <1>3, <1>4 DEF LettersInv, CopiesAreLive, CarriedBy, Row, InFlight
<1>6. Carried' = {}
  BY <1>2, <1>5 DEF Carried
<1>7. MailedOnce' /\ MailedIsOld'
  BY <1>1, <1>4 DEF LettersInv, MailedOnce, MailedIsOld, FlushPCs, Tags
<1> QED
  BY <1>5, <1>6, <1>7 DEF LettersInv, CarriedIsFresh, CopiesAreLive, At

LEMMA StaffLetters ==
    ASSUME OneByOne, TypeOK, SerialInv, LettersInv, NEW c \in Calls, StaffStep(c)
    PROVE  LettersInv'
<1>0. /\ Row(c) \in Deal /\ Row(c).meta \in Meta /\ deal \in Deal /\ deal.meta \in Meta
      /\ calls[c].body \in Meta
      /\ At(c, calls[c].pc)
  BY RowType DEF At, Call
<1> USE <1>0, KnownCopies
<1>1. SUFFICES ASSUME \/ ReleaseKp(c) \/ CutPatch(c) \/ HintPatch(c)
                      \/ HintPost(c) \/ HintApply(c) \/ FallbackMark(c)
               PROVE  LettersInv'
  BY StartLetters, FlushReadLetters, FlushMailLetters, FlushMarkLetters DEF StaffStep
<1>2. c \in InFlight /\ calls[c].pc \notin FlushPCs /\ UNCHANGED mailings
  BY <1>1 DEF InFlight, FlushPCs, At, ghosts, ReleaseKp, CutPatch, HintPatch, HintPost,
     HintApply, FallbackMark
<1>3. {"hintPost", "hintApply", "begin"} \subseteq StepPCs
  BY DEF StepPCs, PCs, FlushPCs
<1>4. CASE ReleaseKp(c) \/ CutPatch(c) \/ FallbackMark(c)
  <2>1. Waiting(deal'.meta) \subseteq Known(c)
    <3>1. CASE ReleaseKp(c)
      <4>1. deal'.meta.rfq = Row(c).meta.rfq /\ deal'.meta.batch = Row(c).meta.batch
        BY <3>1 DEF ReleaseKp, Deal, Meta
      <4> QED BY <4>1 DEF Waiting
    <3>2. CASE CutPatch(c)
      BY <3>2 DEF CutPatch, Deal
    <3>3. CASE FallbackMark(c)
      BY <3>3 DEF FallbackMark, Deal
    <3> QED BY <1>4, <3>1, <3>2, <3>3
  <2>2. Finish(c)
    BY <1>4 DEF ReleaseKp, CutPatch, FallbackMark
  <2> QED BY <1>2, <1>3, <2>1, <2>2, StepLetters
<1>5. CASE HintPatch(c)
  <2>1. deal'.meta = calls[c].body /\ (Goto(c, "hintPost", Row(c)) \/ Finish(c))
    BY <1>5 DEF HintPatch, Deal
  <2> QED BY <1>2, <1>3, <2>1, StepLetters
<1>6. CASE HintPost(c)
  <2>1. Goto(c, "hintApply", deal) /\ UNCHANGED deal
    BY <1>6 DEF HintPost
  <2> QED BY <1>2, <1>3, <2>1, StepLetters
<1>7. CASE HintApply(c)
  <2> DEFINE merged == MergeMeta(Row(c).meta, calls[c].body)
  <2>1. Waiting(merged) \subseteq Known(c) /\ merged \in Meta
    <3> DEFINE body == calls[c].body
               old == Row(c).meta
    <3>1. body \in Meta /\ old \in Meta /\ merged = MergeMeta(old, body)
      BY DEF Call
    <3>2. Waiting(body) \subseteq Known(c) /\ Waiting(old) \subseteq Known(c)
      BY DEF Known, CarriedBy
    <3> HIDE DEF merged, body, old
    <3>3. merged \in Meta
      BY <3>1, MergeType
    <3>4. /\ body.rfq = "none" => merged.rfq = old.rfq /\ merged.batch = old.batch
          /\ body.rfq # "none" => merged.rfq = body.rfq /\ merged.batch = body.batch
      BY <3>1 DEF MergeMeta, Meta
    <3> QED
      BY <3>2, <3>3, <3>4 DEF Waiting
  <2>2. PICK attempted, kept :
          deal' = [deal EXCEPT !.meta = [merged EXCEPT !.attempted = attempted],
                               !.status = "quoting", !.paused = kept]
    BY <1>7 DEF HintApply
  <2> HIDE DEF merged
  <2>3. deal'.meta.rfq = merged.rfq /\ deal'.meta.batch = merged.batch
    BY <2>1, <2>2 DEF Deal, Meta
  <2>4. Waiting(deal'.meta) \subseteq Known(c)
    BY <2>1, <2>3 DEF Waiting
  <2>5. Goto(c, "begin", deal') \/ Finish(c)
    BY <1>7 DEF HintApply
  <2> QED BY <1>2, <1>3, <2>4, <2>5, StepLetters
<1> QED
  BY <1>1, <1>4, <1>5, <1>6, <1>7

LEMMA ClickStepLetters ==
    ASSUME OneByOne, TypeOK, SerialInv, LettersInv, StaffClick
    PROVE  LettersInv'
<1>0. deal \in Deal /\ deal.meta \in Meta
  BY DEF TypeOK, Deal
<1> USE <1>0
<1>1. CASE Pause \/ Resume \/ Takeover \/ RejectDeal \/ CloseDeal \/ ApiEscalate
  <2>1. deal'.meta = deal.meta /\ UNCHANGED <<calls, mailings>>
    BY <1>1 DEF Pause, Resume, Takeover, RejectDeal, CloseDeal, ApiEscalate, Patch, Deal, ghosts
  <2> QED BY <2>1, ClickLetters
<1>2. ASSUME NEW r \in rows, Approve(r) PROVE LettersInv'
  <2> DEFINE call == [Unused EXCEPT !.kind = "flush", !.pc = "flushRead", !.seen = r.about]
  <2>1. call.pc = "flushRead" /\ Waiting(call.row.meta) = {} /\ Waiting(call.body) = {}
    BY DEF Unused, FreshDeal, Waiting
  <2>2. deal'.meta = deal.meta /\ UNCHANGED mailings
    BY <1>2 DEF Approve, Deal
  <2>3. UNCHANGED calls \/ \E c \in Calls : Begin(c, call)
    BY <1>2 DEF Approve, FlushAfter
  <2> HIDE DEF call
  <2> QED BY <2>1, <2>2, <2>3, KnownCopies, ClickLetters, BeginLetters
<1>3. ASSUME NEW r \in rows, RejectPreflight(r) \/ RejectRow(r) PROVE LettersInv'
  <2>1. CASE RejectPreflight(r)
    <3>1. deal'.meta.rfq = "rejected"
      BY <2>1 DEF RejectPreflight, Deal, Meta
    <3>2. UNCHANGED <<calls, mailings>>
      BY <2>1 DEF RejectPreflight, ghosts
    <3> QED BY <3>1, <3>2, ClickLetters DEF Waiting
  <2>2. CASE RejectRow(r)
    <3>1. deal'.meta = deal.meta /\ UNCHANGED <<calls, mailings>>
      BY <2>2 DEF RejectRow, Deal, ghosts
    <3> QED BY <3>1, ClickLetters
  <2> QED BY <1>3, <2>1, <2>2
<1> QED
  BY <1>1, <1>2, <1>3 DEF StaffClick

LEMMA LettersStep ==
    ASSUME OneByOne, TypeOK, SerialInv, LettersInv, [Next]_vars
    PROVE  LettersInv'
<1>1. CASE UNCHANGED vars
  <2>1. UNCHANGED <<deal, calls, mailings>>
    BY <1>1 DEF vars
  <2> QED BY <2>1, ClickLetters
<1>2. ASSUME NEW c \in Calls, Fail(c) PROVE FALSE
  BY <1>2 DEF Fail, OneByOne
<1> QED
  BY <1>1, <1>2, TurnLetters, QuoteLetters, StaffLetters, ClickStepLetters DEF Next

LEMMA LettersInit == Init => LettersInv
<1> SUFFICES ASSUME Init PROVE LettersInv
  OBVIOUS
<1>1. Waiting(deal.meta) = {}
  BY DEF Init, FreshDeal, Waiting
<1>2. \A c \in Calls : CarriedBy(c) = {} /\ ~At(c, "flushMail")
  BY DEF Init, Unused, FreshDeal, CarriedBy, Row, Waiting, At
<1>3. Carried = {} /\ mailings = {}
  BY <1>1, <1>2 DEF Init, Carried
<1> QED
  BY <1>2, <1>3 DEF LettersInv, MailedOnce, CarriedIsFresh, MailedIsOld, CopiesAreLive

-----------------------------------------------------------------------------
\* flush_rfq_preflight's check of the batch's status does its work when handlers
\* run one by one: however many escalations of a batch staff approve, however
\* often, and whichever old copies a quote or a hint writes back in between, the
\* held letters of one batch are handed to the mail queue by one flush.
THEOREM LettersGoOnce ==
    ASSUME OneByOne
    PROVE  Spec => []MailedOnce
<1>1. TypeOK /\ SerialInv /\ LettersInv /\ [Next]_vars => SerialInv' /\ LettersInv'
  BY SerialStep, LettersStep
<1>2. LettersInv => MailedOnce
  BY DEF LettersInv
<1> QED
  BY <1>1, <1>2, SerialInit, LettersInit, TypeCorrect, PTL DEF Spec
=============================================================================
