-------------------------- MODULE MailIntake_proofs -------------------------
(***************************************************************************)
(* What holds of the IMAP intake for every mailbox, every number of syncs  *)
(* at once and every number of mishaps; above all, that it keeps the       *)
(* ledger of MailLedger; of the triage for every letter; and of the mailer *)
(* for every number of letters, of senders, of tokens and of failures.     *)
(***************************************************************************)
EXTENDS MailIntake, MailTriage, MailSender, FiniteSetTheorems, TLAPS

SyncState == [pc: SyncPCs, todo: SUBSET Mails, got: SUBSET Mails, at: Mails \cup {Nobody}]
WorksOn == {"flag", "sort", "quote", "replied", "ask", "key", "after"}

\* An answer was mailed for a settled mail, and is on record.
AnswerSettled == mailAnswered \subseteq settled \cap concierge

\* A sync works on a mail it holds and only on mails that have arrived; past the
\* key the mail it works on is settled.
MailInv ==
    /\ inbox \in [Mails -> {"away", "unread", "read"}]
    /\ syncs \in [Syncs -> SyncState]
    /\ settled \subseteq Mails
    /\ mailMishaps \in Nat
    /\ \A s \in Syncs : syncs[s].pc \in WorksOn => syncs[s].at \in syncs[s].got
    /\ \A s \in Syncs : \A m \in syncs[s].got \cup syncs[s].todo : inbox[m] # "away"
    /\ \A m \in settled : inbox[m] # "away"
    /\ \A s \in Syncs : syncs[s].pc = "after" => syncs[s].at \in settled
    /\ AnswerSettled

-----------------------------------------------------------------------------
(* What the steps do to the syncs.                                          *)

LEMMA IdleType ==
    /\ IdleSync \in SyncState
    /\ IdleSync.pc = "idle" /\ IdleSync.got = {} /\ IdleSync.todo = {}
BY DEF IdleSync, SyncState, SyncPCs

LEMMA SyncSet ==
    ASSUME NEW x \in SyncState
    PROVE  /\ \A pc \in SyncPCs : [x EXCEPT !.pc = pc] \in SyncState
           /\ \A S \in SUBSET Mails : /\ [x EXCEPT !.todo = S] \in SyncState
                                      /\ [x EXCEPT !.got = S] \in SyncState
           /\ \A m \in Mails \cup {Nobody} : [x EXCEPT !.at = m] \in SyncState
BY DEF SyncState

\* SyncGoto: a sync that only goes on.
LEMMA GotoSync ==
    ASSUME syncs \in [Syncs -> SyncState], NEW s \in Syncs, NEW pc \in SyncPCs, SyncGoto(s, pc)
    PROVE  /\ syncs' \in [Syncs -> SyncState]
           /\ syncs'[s].pc = pc /\ syncs'[s].at = syncs[s].at
           /\ \A r \in Syncs : /\ r # s => syncs'[r] = syncs[r]
                               /\ syncs'[r].got = syncs[r].got /\ syncs'[r].todo = syncs[r].todo
<1>1. [syncs[s] EXCEPT !.pc = pc] \in SyncState
  BY SyncSet
<1>2. syncs' = [syncs EXCEPT ![s] = [syncs[s] EXCEPT !.pc = pc]]
  BY DEF SyncGoto
<1> QED
  BY <1>1, <1>2 DEF SyncState

LEMMA MailInitInv == MailInit => MailInv
<1> SUFFICES ASSUME MailInit
             PROVE  MailInv
  OBVIOUS
<1>1. syncs \in [Syncs -> SyncState] /\ \A s \in Syncs : syncs[s] = IdleSync
  BY IdleType DEF MailInit
<1> QED
  BY <1>1, IdleType DEF MailInit, MailInv, AnswerSettled, WorksOn

-----------------------------------------------------------------------------
LEMMA MailStepInv == MailInv /\ [MailNext]_ivars => MailInv'
<1> SUFFICES ASSUME MailInv, [MailNext]_ivars
             PROVE  MailInv'
  OBVIOUS
<1> USE DEF MailInv
<1>1. CASE MailWorkerDies
  <2>1. syncs' \in [Syncs -> SyncState] /\ \A s \in Syncs : syncs'[s] = IdleSync
    BY <1>1, IdleType DEF MailWorkerDies
  <2> QED
    BY <1>1, <2>1, IdleType, MailAssumption
       DEF MailWorkerDies, MailMishap, mbox, mrows, AnswerSettled, WorksOn
<1>2. ASSUME NEW m \in Mails, Arrives(m)
      PROVE  MailInv'
  BY <1>2 DEF Arrives, mrows, mhistory, mfaults, AnswerSettled
<1>3. ASSUME NEW s \in Syncs, SearchMail(s)
      PROVE  MailInv'
  <2> DEFINE unread == {m \in Mails : inbox[m] = "unread"}
             x == [[syncs[s] EXCEPT !.pc = "list"] EXCEPT !.todo = unread]
  <2>1. x \in SyncState
    BY SyncSet DEF SyncPCs
  <2>2. x.pc = "list" /\ x.got = syncs[s].got /\ x.todo = unread
    BY DEF SyncState
  <2>3. syncs' = [syncs EXCEPT ![s] = x]
    BY <1>3 DEF SearchMail
  <2> HIDE DEF x
  <2>4. /\ syncs' \in [Syncs -> SyncState] /\ syncs'[s] = x
        /\ \A r \in Syncs : r # s => syncs'[r] = syncs[r]
    BY <2>1, <2>3
  <2>5. UNCHANGED <<inbox, settled, mailMishaps, concierge, mailAnswered>>
    BY <1>3 DEF SearchMail, mbox, mrows, mfaults
  <2>6. \A m \in x.got \cup x.todo : inbox[m] # "away"
    BY <2>2
  <2>7. x.pc \notin WorksOn /\ x.pc # "after"
    BY <2>2 DEF WorksOn
  <2> QED
    BY <2>4, <2>5, <2>6, <2>7 DEF AnswerSettled
<1>4. ASSUME NEW s \in Syncs, FetchMail(s)
      PROVE  MailInv'
  <2>1. PICK m \in syncs[s].todo :
          syncs' = IF mailForm[m] = "blank" THEN [syncs EXCEPT ![s].todo = @ \ {m}]
                   ELSE [syncs EXCEPT ![s].pc = "flag", ![s].at = m, ![s].got = @ \cup {m},
                                      ![s].todo = @ \ {m}]
    BY <1>4 DEF FetchMail
  <2>b. CASE mailForm[m] = "blank"
    <3> DEFINE left == syncs[s].todo \ {m}
               x == [syncs[s] EXCEPT !.todo = left]
    <3>1. left \in SUBSET Mails
      BY DEF SyncState
    <3>2. x \in SyncState
      BY <3>1, SyncSet
    <3>3. x.pc = "list" /\ x.got = syncs[s].got /\ x.todo = left
      BY <1>4 DEF FetchMail, SyncIs, SyncState
    <3>4. syncs' = [syncs EXCEPT ![s] = x]
      BY <2>1, <2>b
    <3> HIDE DEF x
    <3>5. /\ syncs' \in [Syncs -> SyncState] /\ syncs'[s] = x
          /\ \A r \in Syncs : r # s => syncs'[r] = syncs[r]
      BY <3>2, <3>4
    <3>6. UNCHANGED <<inbox, settled, mailMishaps, concierge, mailAnswered>>
      BY <1>4 DEF FetchMail, mbox, mrows, mhistory, mfaults
    <3>7. x.pc \notin WorksOn /\ x.pc # "after"
      BY <3>3 DEF WorksOn
    <3> QED
      BY <3>3, <3>5, <3>6, <3>7 DEF AnswerSettled
  <2> SUFFICES ASSUME mailForm[m] # "blank"
               PROVE  MailInv'
    BY <2>b
  <2> DEFINE y == [[syncs[s] EXCEPT !.pc = "flag"] EXCEPT !.at = m]
             x == [[y EXCEPT !.got = syncs[s].got \cup {m}] EXCEPT !.todo = syncs[s].todo \ {m}]
  <2>2. m \in Mails /\ syncs[s].got \cup {m} \in SUBSET Mails /\ syncs[s].todo \ {m} \in SUBSET Mails
    BY DEF SyncState
  <2>3. y \in SyncState
    BY <2>2, SyncSet DEF SyncPCs
  <2>4. x \in SyncState
    BY <2>2, <2>3, SyncSet
  <2>5. x.pc = "flag" /\ x.at = m /\ x.got = syncs[s].got \cup {m} /\ x.todo = syncs[s].todo \ {m}
    BY DEF SyncState
  <2>6. syncs' = [syncs EXCEPT ![s] = x]
    BY <2>1 DEF SyncState
  <2> HIDE DEF x
  <2>7. /\ syncs' \in [Syncs -> SyncState] /\ syncs'[s] = x
        /\ \A r \in Syncs : r # s => syncs'[r] = syncs[r]
    BY <2>4, <2>6
  <2>8. UNCHANGED <<inbox, settled, mailMishaps, concierge, mailAnswered>>
    BY <1>4 DEF FetchMail, mbox, mrows, mhistory, mfaults
  <2>9. \A k \in x.got \cup x.todo : inbox[k] # "away"
    BY <2>5
  <2>10. x.pc # "after" /\ x.at \in x.got
    BY <2>5
  <2> QED
    BY <2>7, <2>8, <2>9, <2>10 DEF AnswerSettled
<1>5. ASSUME NEW s \in Syncs, FlagMail(s)
      PROVE  MailInv'
  <2> DEFINE x == [[syncs[s] EXCEPT !.pc = "list"] EXCEPT !.at = Nobody]
  <2>1. x \in SyncState
    BY SyncSet DEF SyncPCs
  <2>2. x.pc = "list" /\ x.got = syncs[s].got /\ x.todo = syncs[s].todo
    BY DEF SyncState
  <2>3. syncs' = [syncs EXCEPT ![s] = x]
    BY <1>5 DEF FlagMail
  <2> HIDE DEF x
  <2>4. /\ syncs' \in [Syncs -> SyncState] /\ syncs'[s] = x
        /\ \A r \in Syncs : r # s => syncs'[r] = syncs[r]
    BY <2>1, <2>3
  <2>5. /\ inbox' \in [Mails -> {"away", "unread", "read"}]
        /\ \A m \in Mails : inbox[m] # "away" => inbox'[m] # "away"
    BY <1>5 DEF FlagMail
  <2>6. \A r \in Syncs : syncs[r].got \cup syncs[r].todo \subseteq Mails
    BY DEF SyncState
  <2> QED
    BY <1>5, <2>2, <2>4, <2>5, <2>6
       DEF FlagMail, mrows, mhistory, mfaults, AnswerSettled, WorksOn
<1>6. ASSUME NEW s \in Syncs, SyncFails(s)
      PROVE  MailInv'
  <2> DEFINE x == [[[syncs[s] EXCEPT !.pc = "work"] EXCEPT !.at = Nobody] EXCEPT !.todo = {}]
  <2>1. x \in SyncState
    BY SyncSet DEF SyncPCs
  <2>2. x.pc = "work" /\ x.got = syncs[s].got /\ x.todo = {}
    BY DEF SyncState
  <2>3. syncs' = [syncs EXCEPT ![s] = x]
    BY <1>6 DEF SyncFails
  <2> HIDE DEF x
  <2>4. /\ syncs' \in [Syncs -> SyncState] /\ syncs'[s] = x
        /\ \A r \in Syncs : r # s => syncs'[r] = syncs[r]
    BY <2>1, <2>3
  <2> QED
    BY <1>6, <2>2, <2>4 DEF SyncFails, MailMishap, mbox, mrows, AnswerSettled, WorksOn
<1>7. ASSUME NEW s \in Syncs, NEW pc \in SyncPCs, SyncGoto(s, pc),
             pc \in WorksOn => syncs[s].pc \in WorksOn,
             pc = "after" => syncs[s].at \in settled',
             UNCHANGED <<mbox, mailMishaps>>, settled \subseteq settled', settled' \subseteq Mails,
             \A m \in settled' : inbox[m] # "away",
             AnswerSettled'
      PROVE  MailInv'
  BY <1>7, GotoSync DEF mbox
<1>8. ASSUME NEW s \in Syncs, ListDone(s) \/ WorkDone(s)
      PROVE  MailInv'
  BY <1>7, <1>8 DEF ListDone, WorkDone, SyncPCs, WorksOn, mbox, mrows, mhistory, mfaults, AnswerSettled
<1>9. ASSUME NEW s \in Syncs, TakeUp(s)
      PROVE  MailInv'
  <2>1. PICK m \in syncs[s].got :
          syncs' = IF m \in mailKeys THEN [syncs EXCEPT ![s].got = @ \ {m}]
                   ELSE [syncs EXCEPT ![s].pc = "sort", ![s].at = m]
    BY <1>9 DEF TakeUp
  <2>2. m \in Mails /\ syncs[s].got \ {m} \in SUBSET Mails
    BY DEF SyncState
  <2>5. UNCHANGED <<inbox, settled, mailMishaps, concierge, mailAnswered>>
    BY <1>9 DEF TakeUp, mbox, mrows, mhistory, mfaults
  <2>3. CASE m \in mailKeys
    <3> DEFINE x == [syncs[s] EXCEPT !.got = syncs[s].got \ {m}]
    <3>1. x \in SyncState
      BY <2>2, SyncSet
    <3>2. x.pc = "work" /\ x.got = syncs[s].got \ {m} /\ x.todo = syncs[s].todo
      BY <1>9 DEF SyncState, TakeUp, SyncIs
    <3>3. syncs' = [syncs EXCEPT ![s] = x]
      BY <2>1, <2>3
    <3> HIDE DEF x
    <3>4. /\ syncs' \in [Syncs -> SyncState] /\ syncs'[s] = x
          /\ \A r \in Syncs : r # s => syncs'[r] = syncs[r]
      BY <3>1, <3>3
    <3> QED
      BY <2>5, <3>2, <3>4 DEF AnswerSettled, WorksOn
  <2>4. CASE m \notin mailKeys
    <3> DEFINE x == [[syncs[s] EXCEPT !.pc = "sort"] EXCEPT !.at = m]
    <3>1. x \in SyncState
      BY <2>2, SyncSet DEF SyncPCs
    <3>2. x.pc = "sort" /\ x.at = m /\ x.got = syncs[s].got /\ x.todo = syncs[s].todo
      BY DEF SyncState
    <3>3. syncs' = [syncs EXCEPT ![s] = x]
      BY <2>1, <2>4
    <3> HIDE DEF x
    <3>4. /\ syncs' \in [Syncs -> SyncState] /\ syncs'[s] = x
          /\ \A r \in Syncs : r # s => syncs'[r] = syncs[r]
      BY <3>1, <3>3
    <3> QED
      BY <2>5, <3>2, <3>4 DEF AnswerSettled, WorksOn
  <2> QED
    BY <2>3, <2>4
<1>10. ASSUME NEW s \in Syncs, SortMail(s) \/ StoreQuote(s) \/ NoteReply(s)
       PROVE  MailInv'
  <2>1. \E pc \in {"key", "quote", "replied", "ask"} : SyncGoto(s, pc)
    BY <1>10 DEF SortMail, StoreQuote, NoteReply
  <2>2. syncs[s].pc \in WorksOn /\ UNCHANGED <<mbox, mailMishaps, settled, concierge, mailAnswered>>
    BY <1>10 DEF SortMail, StoreQuote, NoteReply, SyncIs, WorksOn, mbox, mrows, mhistory, mfaults
  <2> QED
    BY <1>7, <2>1, <2>2 DEF SyncPCs, mbox, AnswerSettled
<1>11. ASSUME NEW s \in Syncs, AskConcierge(s)
       PROVE  MailInv'
  <2>1. AnswerSettled'
    BY <1>11 DEF AskConcierge, AnswerSettled
  <2> QED
    BY <1>7, <1>11, <2>1 DEF AskConcierge, SyncIs, SyncPCs, WorksOn, mbox, mhistory, mfaults
<1>12. ASSUME NEW s \in Syncs, MarkKey(s)
       PROVE  MailInv'
  <2>1. syncs[s].at \in syncs[s].got /\ syncs[s].got \subseteq Mails
    BY <1>12 DEF MarkKey, SyncIs, WorksOn, SyncState
  <2>2. settled' = settled \cup {syncs[s].at} /\ \A m \in settled' : m \in Mails /\ inbox[m] # "away"
    BY <1>12, <2>1 DEF MarkKey, MailOf
  <2>3. AnswerSettled'
    BY <1>12, <2>2 DEF MarkKey, AnswerSettled
  <2> QED
    BY <1>7, <1>12, <2>2, <2>3 DEF MarkKey, SyncIs, SyncPCs, WorksOn, mbox, mhistory, mfaults
<1>13. ASSUME NEW s \in Syncs, Conclude(s)
       PROVE  MailInv'
  <2> DEFINE left == syncs[s].got \ {syncs[s].at}
             y == [[syncs[s] EXCEPT !.pc = "work"] EXCEPT !.at = Nobody]
             x == [y EXCEPT !.got = left]
  <2>1. left \in SUBSET Mails /\ y \in SyncState
    <3>1. left \in SUBSET Mails
      BY DEF SyncState
    <3>2. [syncs[s] EXCEPT !.pc = "work"] \in SyncState
      BY SyncSet DEF SyncPCs
    <3> QED
      BY <3>1, <3>2, SyncSet
  <2>2. x \in SyncState
    BY <2>1, SyncSet
  <2>3. x.pc = "work" /\ x.got = left /\ x.todo = syncs[s].todo
    BY DEF SyncState
  <2>4. syncs' = [syncs EXCEPT ![s] = x]
    BY <1>13 DEF Conclude, MailOf
  <2> HIDE DEF x
  <2>5. /\ syncs' \in [Syncs -> SyncState] /\ syncs'[s] = x
        /\ \A r \in Syncs : r # s => syncs'[r] = syncs[r]
    BY <2>2, <2>4
  <2>6. AnswerSettled'
    BY <1>13 DEF Conclude, MailOf, SyncIs, AnswerSettled
  <2> QED
    BY <1>13, <2>3, <2>5, <2>6 DEF Conclude, mbox, mhistory, mfaults, WorksOn
<1>14. ASSUME NEW s \in Syncs, SyncThrows(s)
       PROVE  MailInv'
  <2>1. /\ syncs' \in [Syncs -> SyncState] /\ syncs'[s] = IdleSync
        /\ \A r \in Syncs : r # s => syncs'[r] = syncs[r]
    BY <1>14, IdleType DEF SyncThrows
  <2> QED
    BY <1>14, <2>1, IdleType DEF SyncThrows, MailMishap, mbox, mrows, AnswerSettled, WorksOn
<1>15. CASE UNCHANGED ivars
  BY <1>15 DEF ivars, mbox, mrows, mhistory, mfaults, AnswerSettled
<1> QED
  BY <1>1, <1>2, <1>3, <1>4, <1>5, <1>6, <1>8, <1>9, <1>10, <1>11, <1>12, <1>13, <1>14, <1>15
     DEF MailNext, SyncStep

\* Whatever throws, whoever dies and however many syncs overlap, a client is
\* mailed only an answer that is on record, and for a mail never answered again
\* unless it has no Message-ID, and so no key.
THEOREM AnswersAreFinal == MailSpec => []AnswerIsFinal
<1>1. MailInv => AnswerIsFinal
  BY DEF MailInv, AnswerSettled, AnswerIsFinal, mailKeys
<1> QED
  BY MailInitInv, MailStepInv, <1>1, PTL DEF MailSpec

-----------------------------------------------------------------------------
(* The refinement.                                                          *)

LEMMA StatusIs ==
    ASSUME NEW m \in Mails, MailInv
    PROVE  /\ m \in settled => StatusOf(m) = "settled"
           /\ m \notin settled /\ HeldMail(m) => StatusOf(m) = "taken"
           /\ m \notin settled /\ ~HeldMail(m) /\ inbox[m] = "read" => StatusOf(m) = "lost"
           /\ m \notin settled /\ ~HeldMail(m) /\ inbox[m] = "unread" => StatusOf(m) = "new"
           /\ inbox[m] = "away" => StatusOf(m) = "away"
           /\ HeldMail(m) => inbox[m] # "away"
BY DEF StatusOf, HeldMail, MailInv

\* A mail whose place, key and holders stay as they are keeps its status.
LEMMA SameStatus ==
    ASSUME NEW m \in Mails, inbox'[m] = inbox[m], m \in settled' <=> m \in settled,
           HeldMail(m)' <=> HeldMail(m)
    PROVE  StatusOf(m)' = StatusOf(m)
BY DEF StatusOf

\* A mail that has its key is settled whatever else happens to it; one that is
\* held is taken in.
LEMMA HeldStatus ==
    ASSUME NEW m \in Mails, HeldMail(m), HeldMail(m)', m \in settled' <=> m \in settled
    PROVE  StatusOf(m)' = StatusOf(m)
BY DEF StatusOf

LEMMA KeptStatus ==
    ASSUME NEW m \in Mails, m \in settled, m \in settled'
    PROVE  StatusOf(m)' = StatusOf(m)
BY DEF StatusOf

\* A step of the ledger that turns one mail, and one that turns none.
LEMMA TurnsOne ==
    ASSUME NEW m \in Mails, NEW from, NEW to, StatusOf(m) = from, StatusOf(m)' = to,
           \A n \in Mails : n # m => StatusOf(n)' = StatusOf(n),
           UNCHANGED mailMishaps
    PROVE  Ledger!Turn(m, from, to)
BY DEF Ledger!Turn

LEMMA TurnsNone ==
    ASSUME \A n \in Mails : StatusOf(n)' = StatusOf(n), UNCHANGED mailMishaps
    PROVE  UNCHANGED <<[m \in Mails |-> StatusOf(m)], mailMishaps>>
OBVIOUS

LEMMA LedgerInit == MailInit => Ledger!Init
<1> SUFFICES ASSUME MailInit
             PROVE  Ledger!Init
  OBVIOUS
<1>1. \A m \in Mails : ~HeldMail(m)
  BY IdleType DEF MailInit, HeldMail
<1>2. \A m \in Mails : StatusOf(m) = "away"
  BY <1>1 DEF MailInit, StatusOf
<1> QED
  BY <1>2 DEF MailInit, Ledger!Init

\* A mishap after which fewer mails are held: those that were flagged are lost,
\* and those that were not are new again.
LEMMA LedgerBreaks ==
    ASSUME MailInv, mailMishaps' = mailMishaps + 1, UNCHANGED <<inbox, settled>>,
           \A m \in Mails : HeldMail(m)' => HeldMail(m)
    PROVE  Ledger!Break
<1> DEFINE dropped == {m \in Mails : StatusOf(m) = "taken" /\ ~HeldMail(m)'}
           lost == {m \in dropped : inbox[m] = "read"}
           again == {m \in dropped : inbox[m] = "unread"}
<1>1. lost \in SUBSET Ledger!Taken /\ again \in SUBSET (Ledger!Taken \ lost)
  BY DEF Ledger!Taken
<1>2. ASSUME NEW m \in Mails
      PROVE  StatusOf(m)' = IF m \in lost THEN "lost" ELSE IF m \in again THEN "new" ELSE StatusOf(m)
  <2>1. CASE m \in dropped
    <3>1. m \notin settled /\ HeldMail(m) /\ inbox[m] \in {"unread", "read"}
      BY <2>1, StatusIs DEF MailInv, StatusOf
    <3> QED
      BY <2>1, <3>1 DEF StatusOf
  <2>2. CASE m \notin dropped
    <3>1. StatusOf(m) = "taken" => HeldMail(m)'
      BY <2>2
    <3>2. m \in settled \/ (HeldMail(m)' <=> HeldMail(m))
      BY <3>1, StatusIs
    <3>3. StatusOf(m)' = StatusOf(m)
      BY <3>2, SameStatus, KeptStatus
    <3> QED
      BY <2>2, <3>3
  <2> QED
    BY <2>1, <2>2
<1>3. [m \in Mails |-> StatusOf(m)]' =
        [m \in Mails |-> IF m \in lost THEN "lost" ELSE IF m \in again THEN "new"
                         ELSE [n \in Mails |-> StatusOf(n)][m]]
  BY <1>2
<1> HIDE DEF lost, again
<1> QED
  BY <1>1, <1>3 DEF Ledger!Break

\* A sync that changes neither what it holds nor the mailbox nor the keys does
\* nothing for the ledger.
LEMMA LedgerStands ==
    ASSUME UNCHANGED <<inbox, settled, mailMishaps>>,
           \A s \in Syncs : syncs'[s].got = syncs[s].got
    PROVE  UNCHANGED <<[m \in Mails |-> StatusOf(m)], mailMishaps>>
<1>1. \A m \in Mails : HeldMail(m)' <=> HeldMail(m)
  BY DEF HeldMail
<1> QED
  BY <1>1, SameStatus, TurnsNone

LEMMA LedgerStep ==
    MailInv /\ MailInv' /\ [MailNext]_ivars
      => [Ledger!Next]_<<[m \in Mails |-> StatusOf(m)], mailMishaps>>
<1> SUFFICES ASSUME MailInv, MailInv', [MailNext]_ivars
             PROVE  \/ Ledger!Next
                    \/ UNCHANGED <<[m \in Mails |-> StatusOf(m)], mailMishaps>>
  OBVIOUS
<1>t. /\ syncs \in [Syncs -> SyncState] /\ \A s \in Syncs : syncs[s].got \subseteq Mails
      /\ \A s \in Syncs : syncs[s].todo \subseteq Mails
  BY DEF MailInv, SyncState
<1>1. CASE MailWorkerDies
  <2>1. \A s \in Syncs : syncs'[s].got = {}
    BY <1>1, IdleType DEF MailWorkerDies
  <2>2. \A m \in Mails : HeldMail(m)' => HeldMail(m)
    BY <2>1 DEF HeldMail
  <2> QED
    BY <1>1, <2>2, LedgerBreaks DEF MailWorkerDies, MailMishap, mbox, mrows, Ledger!Next
<1>2. ASSUME NEW m \in Mails, Arrives(m)
      PROVE  Ledger!Next
  <2>1. /\ inbox[m] = "away" /\ inbox'[m] = "unread" /\ UNCHANGED <<syncs, settled, mailMishaps>>
        /\ \A n \in Mails : n # m => inbox'[n] = inbox[n]
    BY <1>2 DEF Arrives, mrows, mhistory, mfaults, MailInv
  <2>2. \A n \in Mails : HeldMail(n)' <=> HeldMail(n)
    BY <2>1 DEF HeldMail
  <2>3. m \notin settled /\ ~HeldMail(m) /\ StatusOf(m) = "away"
    BY <2>1, StatusIs DEF MailInv
  <2>4. StatusOf(m)' = "new"
    BY <2>1, <2>2, <2>3 DEF StatusOf
  <2>5. \A n \in Mails : n # m => StatusOf(n)' = StatusOf(n)
    BY <2>1, <2>2, SameStatus
  <2>6. Ledger!Turn(m, "away", "new")
    BY <2>1, <2>3, <2>4, <2>5, TurnsOne
  <2> QED
    BY <2>6 DEF Ledger!Next, Ledger!Arrive
<1>3. ASSUME NEW s \in Syncs, SearchMail(s)
      PROVE  UNCHANGED <<[m \in Mails |-> StatusOf(m)], mailMishaps>>
  <2>1. \A r \in Syncs : syncs'[r].got = syncs[r].got
    BY <1>3, <1>t DEF SearchMail, SyncState
  <2> QED
    BY <1>3, <2>1, LedgerStands DEF SearchMail, mbox, mrows, mfaults
<1>4. ASSUME NEW s \in Syncs, FetchMail(s)
      PROVE  Ledger!Next \/ UNCHANGED <<[m \in Mails |-> StatusOf(m)], mailMishaps>>
  <2>1. PICK m \in syncs[s].todo :
          /\ \/ syncs'[s].got = syncs[s].got
             \/ syncs'[s].got = syncs[s].got \cup {m}
          /\ \A r \in Syncs : r # s => syncs'[r] = syncs[r]
    BY <1>4, <1>t DEF FetchMail, SyncState
  <2>b. CASE syncs'[s].got = syncs[s].got
    <3>1. \A r \in Syncs : syncs'[r].got = syncs[r].got
      BY <2>1, <2>b
    <3> QED
      BY <1>4, <3>1, LedgerStands DEF FetchMail, mbox, mrows, mhistory, mfaults
  <2> SUFFICES ASSUME syncs'[s].got = syncs[s].got \cup {m}
               PROVE  Ledger!Next \/ UNCHANGED <<[n \in Mails |-> StatusOf(n)], mailMishaps>>
    BY <2>1, <2>b
  <2>2. m \in Mails /\ inbox[m] # "away" /\ UNCHANGED <<inbox, settled, mailMishaps>>
    BY <1>4, <1>t DEF FetchMail, mbox, mrows, mhistory, mfaults, MailInv
  <2>3. HeldMail(m)' /\ \A n \in Mails : n # m => (HeldMail(n)' <=> HeldMail(n))
    BY <2>1 DEF HeldMail
  <2>4. \A n \in Mails : n # m => StatusOf(n)' = StatusOf(n)
    BY <2>2, <2>3, SameStatus
  <2>5. CASE m \in settled \/ HeldMail(m)
    <3>1. StatusOf(m)' = StatusOf(m)
      BY <2>2, <2>3, <2>5, HeldStatus, KeptStatus
    <3> QED
      BY <2>2, <2>4, <3>1, TurnsNone
  <2>6. CASE m \notin settled /\ ~HeldMail(m)
    <3>1. StatusOf(m) \in {"new", "lost"}
      BY <2>2, <2>6, StatusIs DEF MailInv
    <3>2. StatusOf(m)' = "taken"
      BY <2>2, <2>3, <2>6 DEF StatusOf
    <3>3. Ledger!Turn(m, "new", "taken") \/ Ledger!Turn(m, "lost", "taken")
      BY <2>2, <2>4, <3>1, <3>2, TurnsOne
    <3> QED
      BY <2>2, <3>3 DEF Ledger!Next, Ledger!TakeIn
  <2> QED
    BY <2>5, <2>6
<1>5. ASSUME NEW s \in Syncs, FlagMail(s)
      PROVE  UNCHANGED <<[m \in Mails |-> StatusOf(m)], mailMishaps>>
  <2>1. /\ \A r \in Syncs : syncs'[r].got = syncs[r].got
        /\ UNCHANGED <<settled, mailMishaps>>
        /\ \A n \in Mails : n # syncs[s].at => inbox'[n] = inbox[n]
    BY <1>5, <1>t DEF FlagMail, MailOf, MailInv, SyncState, mrows, mhistory, mfaults
  <2>2. \A n \in Mails : HeldMail(n)' <=> HeldMail(n)
    BY <2>1 DEF HeldMail
  <2>3. syncs[s].at \in syncs[s].got
    BY <1>5 DEF FlagMail, SyncIs, MailInv, WorksOn
  <2>4. HeldMail(syncs[s].at)
    BY <2>3 DEF HeldMail
  <2>5. ASSUME NEW n \in Mails
        PROVE  StatusOf(n)' = StatusOf(n)
    <3>1. CASE n = syncs[s].at
      BY <2>1, <2>2, <2>4, <3>1, HeldStatus
    <3>2. CASE n # syncs[s].at
      BY <2>1, <2>2, <3>2, SameStatus
    <3> QED
      BY <3>1, <3>2
  <2> QED
    BY <2>1, <2>5, TurnsNone
<1>6. ASSUME NEW s \in Syncs, SyncFails(s)
      PROVE  Ledger!Next
  <2>1. \A r \in Syncs : syncs'[r].got = syncs[r].got
    BY <1>6, <1>t DEF SyncFails, SyncState
  <2>2. \A m \in Mails : HeldMail(m)' => HeldMail(m)
    BY <2>1 DEF HeldMail
  <2> QED
    BY <1>6, <2>2, LedgerBreaks DEF SyncFails, MailMishap, mbox, mrows, Ledger!Next
<1>7. ASSUME NEW s \in Syncs,
             ListDone(s) \/ WorkDone(s) \/ SortMail(s) \/ StoreQuote(s) \/ NoteReply(s) \/ AskConcierge(s)
      PROVE  UNCHANGED <<[m \in Mails |-> StatusOf(m)], mailMishaps>>
  <2>1. \E pc \in SyncPCs : SyncGoto(s, pc)
    BY <1>7 DEF ListDone, WorkDone, SortMail, StoreQuote, NoteReply, AskConcierge, SyncPCs
  <2>2. \A r \in Syncs : syncs'[r].got = syncs[r].got
    BY <1>t, <2>1, GotoSync
  <2> QED
    BY <1>7, <2>2, LedgerStands
       DEF ListDone, WorkDone, SortMail, StoreQuote, NoteReply, AskConcierge,
           mbox, mrows, mhistory, mfaults
<1>8. ASSUME NEW s \in Syncs, TakeUp(s)
      PROVE  UNCHANGED <<[m \in Mails |-> StatusOf(m)], mailMishaps>>
  <2>1. PICK m \in syncs[s].got :
          syncs' = IF m \in mailKeys THEN [syncs EXCEPT ![s].got = @ \ {m}]
                   ELSE [syncs EXCEPT ![s].pc = "sort", ![s].at = m]
    BY <1>8 DEF TakeUp
  <2>2. UNCHANGED <<inbox, settled, mailMishaps>>
    BY <1>8 DEF TakeUp, mbox, mrows, mhistory, mfaults
  <2>3. CASE m \in mailKeys
    <3>0. m \in settled
      BY <2>3 DEF mailKeys
    <3>1. /\ syncs'[s].got = syncs[s].got \ {m}
          /\ \A r \in Syncs : r # s => syncs'[r] = syncs[r]
      BY <1>t, <2>1, <2>3 DEF SyncState
    <3>2. \A n \in Mails : n # m => (HeldMail(n)' <=> HeldMail(n))
      BY <3>1 DEF HeldMail
    <3>3. \A n \in Mails : StatusOf(n)' = StatusOf(n)
      BY <2>2, <3>0, <3>2, SameStatus, KeptStatus
    <3> QED
      BY <2>2, <3>3, TurnsNone
  <2>4. CASE m \notin mailKeys
    <3>1. \A r \in Syncs : syncs'[r].got = syncs[r].got
      BY <1>t, <2>1, <2>4 DEF SyncState
    <3> QED
      BY <2>2, <3>1, LedgerStands
  <2> QED
    BY <2>3, <2>4
<1>9. ASSUME NEW s \in Syncs, MarkKey(s)
      PROVE  Ledger!Next \/ UNCHANGED <<[m \in Mails |-> StatusOf(m)], mailMishaps>>
  <2>1. PICK m \in syncs[s].got : m = syncs[s].at
    BY <1>9 DEF MarkKey, SyncIs, MailInv, WorksOn
  <2>2. /\ settled' = settled \cup {m} /\ UNCHANGED <<inbox, mailMishaps>>
        /\ \A r \in Syncs : syncs'[r].got = syncs[r].got
    BY <1>9, <1>t, <2>1, GotoSync DEF MarkKey, MailOf, SyncPCs, mbox, mhistory, mfaults
  <2>3. m \in Mails /\ HeldMail(m) /\ \A n \in Mails : HeldMail(n)' <=> HeldMail(n)
    BY <1>t, <2>1, <2>2 DEF HeldMail
  <2>4. \A n \in Mails : n # m => StatusOf(n)' = StatusOf(n)
    BY <2>2, <2>3, SameStatus
  <2>5. CASE m \in settled
    <3>1. StatusOf(m)' = StatusOf(m)
      BY <2>2, <2>3, <2>5, KeptStatus
    <3> QED
      BY <2>2, <2>4, <3>1, TurnsNone
  <2>6. CASE m \notin settled
    <3>1. StatusOf(m) = "taken" /\ StatusOf(m)' = "settled"
      BY <2>2, <2>3, <2>6 DEF StatusOf
    <3>2. Ledger!Turn(m, "taken", "settled")
      BY <2>2, <2>3, <2>4, <3>1, TurnsOne
    <3> QED
      BY <2>3, <3>2 DEF Ledger!Next, Ledger!Settle
  <2> QED
    BY <2>5, <2>6
<1>10. ASSUME NEW s \in Syncs, Conclude(s)
       PROVE  UNCHANGED <<[m \in Mails |-> StatusOf(m)], mailMishaps>>
  <2>1. PICK m \in settled : m = syncs[s].at
    BY <1>10 DEF Conclude, SyncIs, MailInv
  <2>2. /\ syncs'[s].got = syncs[s].got \ {m} /\ UNCHANGED <<inbox, settled, mailMishaps>>
        /\ \A r \in Syncs : r # s => syncs'[r] = syncs[r]
    BY <1>10, <1>t, <2>1 DEF Conclude, MailOf, SyncState, mbox, mhistory, mfaults
  <2>3. \A n \in Mails : n # m => (HeldMail(n)' <=> HeldMail(n))
    BY <2>2 DEF HeldMail
  <2>4. \A n \in Mails : StatusOf(n)' = StatusOf(n)
    BY <2>1, <2>2, <2>3, SameStatus, KeptStatus
  <2> QED
    BY <2>2, <2>4, TurnsNone
<1>11. ASSUME NEW s \in Syncs, SyncThrows(s)
       PROVE  Ledger!Next
  <2>1. syncs'[s].got = {} /\ \A r \in Syncs : r # s => syncs'[r] = syncs[r]
    BY <1>11, <1>t, IdleType DEF SyncThrows
  <2>2. \A m \in Mails : HeldMail(m)' => HeldMail(m)
    BY <2>1 DEF HeldMail
  <2> QED
    BY <1>11, <2>2, LedgerBreaks DEF SyncThrows, MailMishap, mbox, mrows, Ledger!Next
<1>12. CASE UNCHANGED ivars
  BY <1>12, LedgerStands DEF ivars, mbox, mrows, mhistory, mfaults
<1> QED
  BY <1>1, <1>2, <1>3, <1>4, <1>5, <1>6, <1>7, <1>8, <1>9, <1>10, <1>11, <1>12
     DEF MailNext, SyncStep

\* The intake implements the ledger: a mail taken in is settled for good, and it
\* is lost, or new again, only by a step that threw or a worker that died.  It is
\* settled when its work came to its end, with a Message-ID or without.
THEOREM IntakeKeepsLedger == MailSpec => KeepsLedger
BY LedgerInit, LedgerStep, MailInitInv, MailStepInv, PTL
   DEF MailSpec, KeepsLedger, Ledger!Spec

-----------------------------------------------------------------------------
(* Prices are stored once.                                                  *)

Quiet(x) == x.pc = "idle" /\ x.got = {} /\ x.todo = {}

\* What is known of the only sync that is at work: what it lists is unread, what it
\* holds is read unless flagging broke, and what it works on is not settled, or has
\* no Message-ID.
WorkerOK(x) ==
    /\ x.pc = "idle" => x.got = {}
    /\ x.pc \notin {"list", "flag"} => x.todo = {}
    /\ \A m \in x.todo : inbox[m] = "unread"
    /\ x.pc = "flag" => x.at \notin x.todo
    /\ \A m \in x.got : inbox[m] = "unread" => (x.pc = "flag" /\ x.at = m) \/ mailMishaps > 0
    /\ x.pc \in {"sort", "quote", "replied", "ask", "key"} => x.at \notin mailKeys

\* A price whose mail has no key is being worked on, or was dropped by a mishap:
\* after one mishap its mail is read and will not be fetched again.
NamedPrice(m, x) ==
    /\ mailQuotes[m] > 1 => mailMishaps > 1
    /\ mailQuotes[m] > 0 /\ m \notin settled /\ ~(x.pc \in {"replied", "key"} /\ x.at = m) =>
         mailMishaps > 0 /\ ((inbox[m] = "read" /\ m \notin x.got) \/ mailMishaps > 1)

\* The mail of a price that never has a key is being worked on, or is read.
OtherPrice(m, x) ==
    /\ mailQuotes[m] > 1 => mailMishaps > 0
    /\ mailQuotes[m] > 0 /\ ~(x.pc \in {"replied", "key", "after"} /\ x.at = m) =>
         (inbox[m] = "read" /\ m \notin x.got) \/ mailMishaps > 0

PriceOK(m, x) ==
    /\ inbox[m] = "away" => mailQuotes[m] = 0
    /\ mailForm[m] = "named" => NamedPrice(m, x)
    /\ mailForm[m] # "named" => OtherPrice(m, x)

OnceFor(x) == WorkerOK(x) /\ \A m \in Mails : PriceOK(m, x)
Once == \/ (\A r \in Syncs : Quiet(syncs[r])) /\ OnceFor(IdleSync)
        \/ \E s \in Syncs : (\A r \in Syncs : r # s => Quiet(syncs[r])) /\ OnceFor(syncs[s])
OnceInv == /\ MailInv
           /\ mailQuotes \in [Mails -> Nat] /\ overlapped \in BOOLEAN
           /\ ~overlapped => Once

LEMMA QuietOnce ==
    ASSUME NEW x, NEW y, Quiet(x), Quiet(y), OnceFor(x)
    PROVE  OnceFor(y)
BY DEF Quiet, OnceFor, WorkerOK, PriceOK, NamedPrice, OtherPrice

\* A sync that is at work, or begins when nobody is, is the only one.
LEMMA OnlyWorker ==
    ASSUME Once, NEW s \in Syncs,
           syncs[s].pc # "idle" \/ \A r \in Syncs : r # s => syncs[r].pc = "idle"
    PROVE  OnceFor(syncs[s]) /\ \A r \in Syncs : r # s => Quiet(syncs[r])
<1>1. CASE (\A r \in Syncs : Quiet(syncs[r])) /\ OnceFor(IdleSync)
  BY <1>1, QuietOnce, IdleType DEF Quiet
<1>2. ASSUME NEW t \in Syncs, \A r \in Syncs : r # t => Quiet(syncs[r]), OnceFor(syncs[t])
      PROVE  OnceFor(syncs[s]) /\ \A r \in Syncs : r # s => Quiet(syncs[r])
  <2>1. CASE t = s
    BY <1>2, <2>1
  <2>2. CASE t # s
    <3>1. Quiet(syncs[s])
      BY <1>2, <2>2
    <3>2. Quiet(syncs[t])
      BY <1>2, <2>2, <3>1 DEF Quiet, OnceFor, WorkerOK
    <3>3. OnceFor(syncs[s])
      BY <1>2, <3>1, <3>2, QuietOnce
    <3> QED
      BY <1>2, <3>2, <3>3
  <2> QED
    BY <2>1, <2>2
<1> QED
  BY <1>1, <1>2 DEF Once

LEMMA OnceStep ==
    ASSUME NEW s \in Syncs, \A r \in Syncs : r # s => Quiet(syncs[r]) /\ syncs'[r] = syncs[r],
           OnceFor(syncs[s])'
    PROVE  Once'
<1>1. (\A r \in Syncs : r # s => Quiet(syncs[r]))'
  BY DEF Quiet
<1> QED
  BY <1>1 DEF Once

\* The listing of the mailbox.
LEMMA ListOnce ==
    ASSUME OnceInv, ~overlapped', NEW s \in Syncs,
           SearchMail(s) \/ FetchMail(s) \/ FlagMail(s) \/ SyncFails(s) \/ ListDone(s)
    PROVE  Once'
<1>0. /\ Once /\ syncs[s] \in SyncState /\ mailMishaps \in Nat /\ MailInv
      /\ mailQuotes' = mailQuotes /\ settled' = settled /\ mailQuotes \in [Mails -> Nat]
      /\ mailForm' = mailForm /\ mailKeys' = mailKeys
  BY DEF OnceInv, MailInv, SearchMail, FetchMail, FlagMail, SyncFails, ListDone,
         mrows, mbox, mhistory, mfaults, mailKeys
<1>1. OnceFor(syncs[s]) /\ \A r \in Syncs : r # s => Quiet(syncs[r])
  <2>1. CASE SearchMail(s)
    <3>1. \A r \in Syncs : r # s => syncs[r].pc = "idle"
      BY <2>1 DEF SearchMail, SyncIs
    <3> QED
      BY <1>0, <3>1, OnlyWorker
  <2>2. CASE ~SearchMail(s)
    <3>1. syncs[s].pc # "idle"
      BY <2>2 DEF FetchMail, FlagMail, SyncFails, ListDone, SyncIs
    <3> QED
      BY <1>0, <3>1, OnlyWorker
  <2> QED
    BY <2>1, <2>2
<1>2. CASE SearchMail(s)
  <2> DEFINE unread == {m \in Mails : inbox[m] = "unread"}
  <2>1. /\ syncs'[s].pc = "list" /\ syncs'[s].todo = unread /\ syncs'[s].got = syncs[s].got
        /\ syncs'[s].at = syncs[s].at
        /\ \A r \in Syncs : r # s => syncs'[r] = syncs[r]
        /\ inbox' = inbox /\ mailMishaps' = mailMishaps /\ syncs[s].pc = "idle"
    BY <1>0, <1>2 DEF SearchMail, SyncIs, SyncState, MailInv, mbox, mfaults
  <2>2. OnceFor(syncs[s])'
    BY <1>0, <1>1, <2>1 DEF OnceFor, WorkerOK, PriceOK, NamedPrice, OtherPrice
  <2> QED
    BY <1>1, <2>1, <2>2, OnceStep
<1>3. CASE FetchMail(s)
  <2>1. PICK m \in syncs[s].todo :
          syncs' = IF mailForm[m] = "blank" THEN [syncs EXCEPT ![s].todo = @ \ {m}]
                   ELSE [syncs EXCEPT ![s].pc = "flag", ![s].at = m, ![s].got = @ \cup {m},
                                      ![s].todo = @ \ {m}]
    BY <1>3 DEF FetchMail
  <2>0. inbox' = inbox /\ mailMishaps' = mailMishaps /\ syncs[s].pc = "list" /\ inbox[m] = "unread"
    BY <1>1, <1>3 DEF FetchMail, SyncIs, mbox, mhistory, mfaults, OnceFor, WorkerOK
  <2>b. CASE mailForm[m] = "blank"
    <3>1. /\ syncs'[s].pc = "list" /\ syncs'[s].got = syncs[s].got
          /\ syncs'[s].todo = syncs[s].todo \ {m}
          /\ \A r \in Syncs : r # s => syncs'[r] = syncs[r]
      BY <1>0, <2>0, <2>1, <2>b DEF SyncState, MailInv
    <3>2. WorkerOK(syncs[s])'
      BY <1>0, <1>1, <2>0, <3>1 DEF OnceFor, WorkerOK
    <3>3. (\A n \in Mails : PriceOK(n, syncs[s]))'
      BY <1>0, <1>1, <2>0, <3>1 DEF OnceFor, PriceOK, NamedPrice, OtherPrice
    <3> QED
      BY <1>1, <3>1, <3>2, <3>3, OnceStep DEF OnceFor
  <2> SUFFICES ASSUME mailForm[m] # "blank"
               PROVE  Once'
    BY <2>b
  <2>2. /\ syncs'[s].pc = "flag" /\ syncs'[s].at = m /\ syncs'[s].got = syncs[s].got \cup {m}
        /\ syncs'[s].todo = syncs[s].todo \ {m}
        /\ \A r \in Syncs : r # s => syncs'[r] = syncs[r]
    BY <1>0, <2>1 DEF SyncState, MailInv
  <2>4. WorkerOK(syncs[s])'
    BY <1>0, <1>1, <2>0, <2>2 DEF OnceFor, WorkerOK
  <2>5. (\A n \in Mails : PriceOK(n, syncs[s]))'
    BY <1>0, <1>1, <2>0, <2>2 DEF OnceFor, PriceOK, NamedPrice, OtherPrice
  <2> QED
    BY <1>1, <2>2, <2>4, <2>5, OnceStep DEF OnceFor
<1>4. CASE FlagMail(s)
  <2>1. /\ syncs'[s].pc = "list" /\ syncs'[s].got = syncs[s].got /\ syncs'[s].todo = syncs[s].todo
        /\ \A r \in Syncs : r # s => syncs'[r] = syncs[r]
        /\ mailMishaps' = mailMishaps /\ syncs[s].pc = "flag"
    BY <1>0, <1>4 DEF FlagMail, SyncIs, SyncState, MailInv, mhistory, mfaults
  <2>2. \A m \in Mails : inbox'[m] = IF m = syncs[s].at THEN "read" ELSE inbox[m]
    BY <1>0, <1>4 DEF FlagMail, MailOf, MailInv
  <2>3. syncs[s].got \subseteq Mails /\ syncs[s].todo \subseteq Mails
    BY <1>0 DEF SyncState
  <2>4. WorkerOK(syncs[s])'
    BY <1>0, <1>1, <2>1, <2>2, <2>3 DEF OnceFor, WorkerOK
  <2>5. (\A n \in Mails : PriceOK(n, syncs[s]))'
    BY <1>0, <1>1, <2>1, <2>2 DEF OnceFor, PriceOK, NamedPrice, OtherPrice
  <2> QED
    BY <1>1, <2>1, <2>4, <2>5, OnceStep DEF OnceFor
<1>5. CASE SyncFails(s)
  <2>1. /\ syncs'[s].pc = "work" /\ syncs'[s].got = syncs[s].got /\ syncs'[s].todo = {}
        /\ \A r \in Syncs : r # s => syncs'[r] = syncs[r]
        /\ mailMishaps' = mailMishaps + 1 /\ inbox' = inbox /\ syncs[s].pc \in {"list", "flag"}
    BY <1>0, <1>5 DEF SyncFails, SyncState, MailInv, MailMishap, mbox
  <2>2. WorkerOK(syncs[s])'
    BY <1>0, <1>1, <2>1 DEF OnceFor, WorkerOK
  <2>3. (\A n \in Mails : PriceOK(n, syncs[s]))'
    BY <1>0, <1>1, <2>1 DEF OnceFor, PriceOK, NamedPrice, OtherPrice
  <2> QED
    BY <1>1, <2>1, <2>2, <2>3, OnceStep DEF OnceFor
<1>6. CASE ListDone(s)
  <2>1. /\ syncs'[s].pc = "work" /\ syncs'[s].got = syncs[s].got /\ syncs'[s].todo = syncs[s].todo
        /\ \A r \in Syncs : r # s => syncs'[r] = syncs[r]
        /\ mailMishaps' = mailMishaps /\ inbox' = inbox /\ syncs[s].pc = "list"
        /\ syncs[s].todo = {}
    BY <1>0, <1>6, GotoSync DEF ListDone, SyncIs, SyncPCs, MailInv, mbox, mhistory, mfaults
  <2>2. OnceFor(syncs[s])'
    BY <1>0, <1>1, <2>1 DEF OnceFor, WorkerOK, PriceOK, NamedPrice, OtherPrice
  <2> QED
    BY <1>1, <2>1, <2>2, OnceStep
<1> QED
  BY <1>2, <1>3, <1>4, <1>5, <1>6

\* The work on the mails.
LEMMA WorkOnce ==
    ASSUME OnceInv, ~overlapped', NEW s \in Syncs,
           \/ TakeUp(s) \/ SortMail(s) \/ StoreQuote(s) \/ NoteReply(s) \/ AskConcierge(s)
           \/ MarkKey(s) \/ Conclude(s) \/ WorkDone(s) \/ SyncThrows(s)
    PROVE  Once'
<1> DEFINE x == syncs[s]
           Acts == \/ TakeUp(s) \/ SortMail(s) \/ StoreQuote(s) \/ NoteReply(s) \/ AskConcierge(s)
                   \/ MarkKey(s) \/ Conclude(s) \/ WorkDone(s) \/ SyncThrows(s)
<1>0. /\ Once /\ x \in SyncState /\ mailMishaps \in Nat /\ MailInv
      /\ inbox' = inbox /\ mailQuotes \in [Mails -> Nat] /\ x.pc # "idle"
      /\ mailForm' = mailForm /\ (settled' = settled => mailKeys' = mailKeys)
  BY DEF OnceInv, MailInv, TakeUp, SortMail, StoreQuote, NoteReply, AskConcierge, MarkKey,
         Conclude, WorkDone, SyncThrows, SyncIs, mbox, mhistory, mailKeys
<1>1. OnceFor(syncs[s]) /\ \A r \in Syncs : r # s => Quiet(syncs[r])
  BY <1>0, OnlyWorker
<1>2. ASSUME NEW pc \in SyncPCs, SyncGoto(s, pc), mailMishaps' = mailMishaps
      PROVE  /\ syncs'[s].pc = pc /\ syncs'[s].at = x.at /\ syncs'[s].got = x.got
             /\ syncs'[s].todo = x.todo
             /\ \A r \in Syncs : r # s => syncs'[r] = syncs[r]
  BY <1>0, <1>2, GotoSync DEF MailInv
<1>3. CASE TakeUp(s)
  <2>1. PICK m \in x.got :
          syncs' = IF m \in mailKeys THEN [syncs EXCEPT ![s].got = @ \ {m}]
                   ELSE [syncs EXCEPT ![s].pc = "sort", ![s].at = m]
    BY <1>3 DEF TakeUp
  <2>2. /\ mailQuotes' = mailQuotes /\ settled' = settled /\ mailMishaps' = mailMishaps
        /\ x.pc = "work"
    BY <1>3 DEF TakeUp, SyncIs, mrows, mhistory, mfaults
  <2>3. /\ syncs'[s].todo = x.todo
        /\ \A r \in Syncs : r # s => syncs'[r] = syncs[r]
        /\ \/ /\ m \in mailKeys /\ syncs'[s].pc = "work" /\ syncs'[s].got = x.got \ {m}
           \/ /\ m \notin mailKeys /\ syncs'[s].pc = "sort" /\ syncs'[s].at = m
              /\ syncs'[s].got = x.got
    BY <1>0, <2>1, <2>2 DEF SyncState, MailInv
  <2>4. WorkerOK(syncs[s])'
    BY <1>0, <1>1, <2>2, <2>3 DEF OnceFor, WorkerOK
  <2>5. (\A n \in Mails : PriceOK(n, syncs[s]))'
    BY <1>0, <1>1, <2>2, <2>3 DEF OnceFor, PriceOK, NamedPrice, OtherPrice, mailKeys
  <2> QED
    BY <1>1, <2>3, <2>4, <2>5, OnceStep DEF OnceFor
<1>4. CASE SortMail(s) \/ NoteReply(s) \/ AskConcierge(s)
  <2>1. /\ mailQuotes' = mailQuotes /\ settled' = settled /\ mailMishaps' = mailMishaps
        /\ x.pc \in {"sort", "replied", "ask"}
    BY <1>4 DEF SortMail, NoteReply, AskConcierge, SyncIs, mrows, mhistory, mfaults
  <2>2. PICK pc \in {"key", "quote", "replied", "ask"} :
          SyncGoto(s, pc) /\ (x.pc = "replied" => pc = "key")
    BY <1>4 DEF SortMail, NoteReply, AskConcierge, SyncIs
  <2>3. /\ syncs'[s].pc = pc /\ syncs'[s].at = x.at /\ syncs'[s].got = x.got
        /\ syncs'[s].todo = x.todo
        /\ \A r \in Syncs : r # s => syncs'[r] = syncs[r]
    BY <1>2, <2>1, <2>2 DEF SyncPCs
  <2>4. WorkerOK(syncs[s])'
    BY <1>0, <1>1, <2>1, <2>2, <2>3 DEF OnceFor, WorkerOK
  <2>5. (\A n \in Mails : PriceOK(n, syncs[s]))'
    BY <1>0, <1>1, <2>1, <2>2, <2>3 DEF OnceFor, PriceOK, NamedPrice, OtherPrice
  <2> QED
    BY <1>1, <2>3, <2>4, <2>5, OnceStep DEF OnceFor
<1>5. CASE StoreQuote(s)
  <2>1. /\ settled' = settled /\ mailMishaps' = mailMishaps /\ x.pc = "quote"
        /\ mailQuotes' = [mailQuotes EXCEPT ![x.at] = @ + 1] /\ SyncGoto(s, "replied")
    BY <1>5 DEF StoreQuote, SyncIs, MailOf, mrows, mhistory, mfaults
  <2>2. /\ syncs'[s].pc = "replied" /\ syncs'[s].at = x.at /\ syncs'[s].got = x.got
        /\ syncs'[s].todo = x.todo
        /\ \A r \in Syncs : r # s => syncs'[r] = syncs[r]
    BY <1>2, <2>1 DEF SyncPCs
  <2>3. x.at \in x.got /\ x.at \notin mailKeys /\ x.at \in Mails /\ inbox[x.at] # "away"
    BY <1>0, <1>1, <2>1 DEF OnceFor, WorkerOK, MailInv, WorksOn, SyncState
  <2>4. WorkerOK(syncs[s])'
    BY <1>0, <1>1, <2>1, <2>2 DEF OnceFor, WorkerOK
  <2>5. \A n \in Mails : PriceOK(n, x)
    BY <1>1 DEF OnceFor
  <2>6. mailQuotes[x.at] > 0 => IF mailForm[x.at] = "named" THEN mailMishaps > 1 ELSE mailMishaps > 0
    BY <1>0, <2>1, <2>3, <2>5 DEF PriceOK, NamedPrice, OtherPrice, mailKeys
  <2>7. /\ mailQuotes'[x.at] = mailQuotes[x.at] + 1 /\ mailQuotes[x.at] \in Nat
        /\ \A n \in Mails : n # x.at => mailQuotes'[n] = mailQuotes[n]
    BY <1>0, <2>1, <2>3
  <2>8. ASSUME NEW n \in Mails PROVE PriceOK(n, syncs[s])'
    <3>1. CASE n = x.at
      BY <1>0, <2>1, <2>2, <2>3, <2>6, <2>7, <3>1 DEF PriceOK, NamedPrice, OtherPrice
    <3>2. CASE n # x.at
      BY <1>0, <2>1, <2>2, <2>5, <2>7, <3>2 DEF PriceOK, NamedPrice, OtherPrice
    <3> QED
      BY <3>1, <3>2
  <2>9. (\A n \in Mails : PriceOK(n, syncs[s]))'
    BY <2>8
  <2> QED
    BY <1>1, <2>2, <2>4, <2>9, OnceStep DEF OnceFor
<1>6. CASE MarkKey(s)
  <2>1. /\ mailQuotes' = mailQuotes /\ mailMishaps' = mailMishaps /\ x.pc = "key"
        /\ settled' = settled \cup {x.at} /\ SyncGoto(s, "after")
    BY <1>6 DEF MarkKey, SyncIs, MailOf, mrows, mhistory, mfaults
  <2>2. /\ syncs'[s].pc = "after" /\ syncs'[s].at = x.at /\ syncs'[s].got = x.got
        /\ syncs'[s].todo = x.todo
        /\ \A r \in Syncs : r # s => syncs'[r] = syncs[r]
    BY <1>2, <2>1 DEF SyncPCs
  <2>3. OnceFor(syncs[s])'
    BY <1>0, <1>1, <2>1, <2>2 DEF OnceFor, WorkerOK, PriceOK, NamedPrice, OtherPrice
  <2> QED
    BY <1>1, <2>2, <2>3, OnceStep
<1>7. CASE Conclude(s)
  <2>1. /\ mailQuotes' = mailQuotes /\ settled' = settled /\ mailMishaps' = mailMishaps
        /\ x.pc = "after"
    BY <1>7 DEF Conclude, SyncIs, mhistory, mfaults
  <2>2. /\ syncs'[s].pc = "work" /\ syncs'[s].got = x.got \ {x.at} /\ syncs'[s].todo = x.todo
        /\ \A r \in Syncs : r # s => syncs'[r] = syncs[r]
    BY <1>0, <1>7 DEF Conclude, MailOf, SyncState, MailInv
  <2>3. WorkerOK(syncs[s])'
    BY <1>0, <1>1, <2>1, <2>2 DEF OnceFor, WorkerOK
  <2>4. x.at \in x.got /\ x.at \in settled /\ (inbox[x.at] = "read" \/ mailMishaps > 0)
    <3>1. x.at \in x.got /\ x.at \in settled /\ x.at \in Mails /\ inbox[x.at] # "away"
      BY <1>0, <2>1 DEF MailInv, WorksOn, SyncState
    <3>2. inbox[x.at] = "unread" => mailMishaps > 0
      BY <1>1, <2>1, <3>1 DEF OnceFor, WorkerOK
    <3> QED
      BY <1>0, <3>1, <3>2 DEF MailInv
  <2>5. \A n \in Mails : PriceOK(n, x)
    BY <1>1 DEF OnceFor
  <2>6. ASSUME NEW n \in Mails PROVE PriceOK(n, syncs[s])'
    <3>1. CASE n = x.at
      BY <1>0, <2>1, <2>2, <2>4, <2>5, <3>1 DEF PriceOK, NamedPrice, OtherPrice
    <3>2. CASE n # x.at
      BY <1>0, <2>1, <2>2, <2>5, <3>2 DEF PriceOK, NamedPrice, OtherPrice
    <3> QED
      BY <3>1, <3>2
  <2>7. (\A n \in Mails : PriceOK(n, syncs[s]))'
    BY <2>6
  <2> QED
    BY <1>1, <2>2, <2>3, <2>7, OnceStep DEF OnceFor
<1>8. CASE WorkDone(s)
  <2>1. /\ mailQuotes' = mailQuotes /\ settled' = settled /\ mailMishaps' = mailMishaps
        /\ x.pc = "work" /\ x.got = {} /\ SyncGoto(s, "idle")
    BY <1>8 DEF WorkDone, SyncIs, mrows, mhistory, mfaults
  <2>2. /\ syncs'[s].pc = "idle" /\ syncs'[s].at = x.at /\ syncs'[s].got = x.got
        /\ syncs'[s].todo = x.todo
        /\ \A r \in Syncs : r # s => syncs'[r] = syncs[r]
    BY <1>2, <2>1 DEF SyncPCs
  <2>3. OnceFor(syncs[s])'
    BY <1>0, <1>1, <2>1, <2>2 DEF OnceFor, WorkerOK, PriceOK, NamedPrice, OtherPrice
  <2> QED
    BY <1>1, <2>2, <2>3, OnceStep
<1>9. CASE SyncThrows(s)
  <2>1. /\ mailQuotes' = mailQuotes /\ settled' = settled /\ mailMishaps' = mailMishaps + 1
        /\ x.pc \in {"work", "sort", "quote", "replied", "key", "after"}
        /\ syncs' = [syncs EXCEPT ![s] = IdleSync]
    BY <1>9 DEF SyncThrows, MailMishap, mrows
  <2>2. /\ syncs'[s].pc = "idle" /\ syncs'[s].got = {} /\ syncs'[s].todo = {}
        /\ \A r \in Syncs : r # s => syncs'[r] = syncs[r]
    BY <1>0, <2>1, IdleType DEF MailInv
  <2>3. WorkerOK(syncs[s])'
    BY <2>2 DEF WorkerOK
  <2>4. ASSUME NEW n \in Mails PROVE PriceOK(n, syncs[s])'
    <3>1. PriceOK(n, x) /\ WorkerOK(x)
      BY <1>1 DEF OnceFor
    <3>2. CASE x.pc \in {"replied", "key"} /\ x.at = n
      <4>1. n \in x.got /\ inbox[n] \in {"unread", "read"}
        BY <1>0, <3>2 DEF MailInv, WorksOn
      <4> QED
        BY <1>0, <2>1, <2>2, <3>1, <3>2, <4>1 DEF PriceOK, NamedPrice, OtherPrice, WorkerOK
    <3>3. CASE ~(x.pc \in {"replied", "key"} /\ x.at = n)
      BY <1>0, <2>1, <2>2, <3>1, <3>3 DEF PriceOK, NamedPrice, OtherPrice
    <3> QED
      BY <3>2, <3>3
  <2>5. (\A n \in Mails : PriceOK(n, syncs[s]))'
    BY <2>4 DEF PriceOK, NamedPrice, OtherPrice
  <2> QED
    BY <1>1, <2>2, <2>3, <2>5, OnceStep DEF OnceFor
<1> QED
  BY <1>3, <1>4, <1>5, <1>6, <1>7, <1>8, <1>9

\* Mails arrive; the worker dies.
LEMMA ArriveOnce ==
    ASSUME OnceInv, ~overlapped', NEW m \in Mails, Arrives(m)
    PROVE  Once'
<1>1. /\ Once /\ MailInv /\ inbox[m] = "away"
      /\ syncs' = syncs /\ mailQuotes' = mailQuotes /\ settled' = settled
      /\ mailMishaps' = mailMishaps
      /\ \A n \in Mails : inbox'[n] = IF n = m THEN "unread" ELSE inbox[n]
      /\ \A n \in Mails : n # m => mailForm'[n] = mailForm[n]
      /\ m \notin settled /\ settled \subseteq Mails /\ mailQuotes \in [Mails -> Nat]
  BY DEF OnceInv, MailInv, Arrives, mrows, mhistory, mfaults
<1>k. mailKeys' = mailKeys
  BY <1>1 DEF mailKeys
<1>2. ASSUME NEW x \in SyncState, m \notin x.got, m \notin x.todo, OnceFor(x),
             x.pc \in WorksOn => x.at \in x.got
      PROVE  WorkerOK(x)' /\ (\A n \in Mails : PriceOK(n, x))'
  <2>1. x.got \subseteq Mails /\ x.todo \subseteq Mails
    BY DEF SyncState
  <2>2. WorkerOK(x)'
    BY <1>1, <1>k, <1>2, <2>1 DEF OnceFor, WorkerOK
  <2>3. ASSUME NEW n \in Mails PROVE PriceOK(n, x)'
    <3>1. PriceOK(n, x)
      BY <1>2 DEF OnceFor
    <3>2. CASE n = m
      BY <1>1, <3>1, <3>2 DEF PriceOK, NamedPrice, OtherPrice
    <3>3. CASE n # m
      BY <1>1, <3>1, <3>3 DEF PriceOK, NamedPrice, OtherPrice
    <3> QED
      BY <3>2, <3>3
  <2>4. (\A n \in Mails : PriceOK(n, x))'
    BY <2>3
  <2> QED
    BY <2>2, <2>4
<1>3. CASE (\A r \in Syncs : Quiet(syncs[r])) /\ OnceFor(IdleSync)
  <2>1. WorkerOK(IdleSync)' /\ (\A n \in Mails : PriceOK(n, IdleSync))'
    BY <1>2, <1>3, IdleType DEF WorksOn
  <2>2. (\A r \in Syncs : Quiet(syncs[r]))'
    BY <1>1, <1>3 DEF Quiet
  <2> QED
    BY <2>1, <2>2 DEF Once, OnceFor
<1>4. ASSUME NEW s \in Syncs, \A r \in Syncs : r # s => Quiet(syncs[r]), OnceFor(syncs[s])
      PROVE  Once'
  <2>1. /\ syncs[s] \in SyncState /\ m \notin syncs[s].got /\ m \notin syncs[s].todo
        /\ syncs[s].pc \in WorksOn => syncs[s].at \in syncs[s].got
    BY <1>1 DEF MailInv
  <2>2. WorkerOK(syncs[s])' /\ (\A n \in Mails : PriceOK(n, syncs[s]))'
    BY <1>1, <1>2, <1>4, <2>1 DEF WorkerOK, PriceOK, NamedPrice, OtherPrice
  <2>3. OnceFor(syncs[s])'
    BY <2>2 DEF OnceFor
  <2> QED
    BY <1>1, <1>4, <2>3, OnceStep
<1> QED
  BY <1>1, <1>3, <1>4 DEF Once

LEMMA DieOnce ==
    ASSUME OnceInv, ~overlapped', MailWorkerDies
    PROVE  Once'
<1>1. /\ Once /\ MailInv /\ inbox' = inbox /\ mailQuotes' = mailQuotes /\ settled' = settled
      /\ mailMishaps' = mailMishaps + 1 /\ mailMishaps \in Nat
      /\ mailForm' = mailForm
      /\ \A s \in Syncs : syncs'[s] = IdleSync
  BY DEF OnceInv, MailInv, MailWorkerDies, MailMishap, mbox, mrows
<1>2. (\A r \in Syncs : Quiet(syncs[r]))'
  BY <1>1, IdleType DEF Quiet
<1>3. ASSUME NEW x, OnceFor(x), x.pc \in {"replied", "key"} => x.at \in x.got /\ inbox[x.at] # "away",
             NEW n \in Mails
      PROVE  PriceOK(n, IdleSync)'
  <2>1. inbox[n] \in {"away", "unread", "read"}
    BY <1>1 DEF MailInv
  <2>2. CASE x.pc \in {"replied", "key"} /\ x.at = n
    BY <1>1, <1>3, <2>1, <2>2, IdleType DEF OnceFor, WorkerOK, PriceOK, NamedPrice, OtherPrice
  <2>3. CASE ~(x.pc \in {"replied", "key"} /\ x.at = n)
    BY <1>1, <1>3, <2>3, IdleType DEF OnceFor, PriceOK, NamedPrice, OtherPrice
  <2> QED
    BY <2>2, <2>3
<1>4. \A s \in Syncs : syncs[s].pc \in {"replied", "key"}
                          => syncs[s].at \in syncs[s].got /\ inbox[syncs[s].at] # "away"
  BY <1>1 DEF MailInv, WorksOn
<1>5. \A n \in Mails : PriceOK(n, IdleSync)'
  BY <1>1, <1>3, <1>4, IdleType DEF Once
<1>6. WorkerOK(IdleSync)'
  BY IdleType DEF WorkerOK
<1>7. OnceFor(IdleSync)'
  BY <1>5, <1>6 DEF OnceFor, PriceOK, NamedPrice, OtherPrice
<1> QED
  BY <1>2, <1>7 DEF Once

LEMMA OnceStart == MailInit => OnceInv
<1> SUFFICES ASSUME MailInit PROVE OnceInv
  OBVIOUS
<1>1. \A r \in Syncs : Quiet(syncs[r])
  BY IdleType DEF MailInit, Quiet
<1>2. OnceFor(IdleSync)
  BY IdleType DEF MailInit, OnceFor, WorkerOK, PriceOK, NamedPrice, OtherPrice
<1> QED
  BY <1>1, <1>2, MailInitInv DEF MailInit, OnceInv, Once

\* While syncs do not overlap it takes two mishaps to store a supplier's price
\* twice (syncInboundMail flags before the work, markEmailSeen is called after
\* it), and one if its mail has no Message-ID, which markEmailSeen passes over.
THEOREM QuotesAreStoredOnce == MailSpec => []QuoteStoredOnce
<1>1. OnceInv /\ [MailNext]_ivars => OnceInv'
  <2> SUFFICES ASSUME OnceInv, [MailNext]_ivars PROVE OnceInv'
    OBVIOUS
  <2>1. MailInv'
    BY MailStepInv DEF OnceInv
  <2>2. CASE UNCHANGED ivars
    BY <2>1, <2>2 DEF ivars, mbox, mrows, mhistory, mfaults, OnceInv, Once, OnceFor, WorkerOK,
                      PriceOK, NamedPrice, OtherPrice, Quiet, mailKeys
  <2>3. CASE MailNext
    <3>1. mailQuotes' \in [Mails -> Nat]
      <4>1. ASSUME NEW s \in Syncs, StoreQuote(s) PROVE mailQuotes' \in [Mails -> Nat]
        <5>1. MailOf(s) \in Mails
          BY <4>1 DEF OnceInv, MailInv, StoreQuote, SyncIs, MailOf, WorksOn, SyncState
        <5>2. mailQuotes[MailOf(s)] + 1 \in Nat
          BY <5>1 DEF OnceInv
        <5> QED
          BY <4>1, <5>1, <5>2 DEF OnceInv, StoreQuote
      <4>2. CASE \A s \in Syncs : ~StoreQuote(s)
        <5>1. mailQuotes' = mailQuotes
          BY <2>3, <4>2 DEF MailNext, MailWorkerDies, Arrives, SyncStep, SearchMail, FetchMail,
             FlagMail, ListDone, TakeUp, SortMail, NoteReply, AskConcierge, MarkKey,
             Conclude, WorkDone, SyncFails, SyncThrows, mrows
        <5> QED
          BY <5>1 DEF OnceInv
      <4> QED
        BY <4>1, <4>2
    <3>2. overlapped' \in BOOLEAN /\ (~overlapped' => ~overlapped)
      BY <2>3 DEF OnceInv, MailNext, MailWorkerDies, Arrives, SyncStep, SearchMail, FetchMail,
         FlagMail, ListDone, TakeUp, SortMail, StoreQuote, NoteReply, AskConcierge, MarkKey,
         Conclude, WorkDone, SyncFails, SyncThrows, mhistory
    <3>3. ~overlapped' => Once'
      BY <2>3, ListOnce, WorkOnce, ArriveOnce, DieOnce DEF MailNext, SyncStep
    <3> QED
      BY <2>1, <3>1, <3>2, <3>3 DEF OnceInv
  <2> QED
    BY <2>2, <2>3
<1>2. OnceInv => QuoteStoredOnce
  <2> SUFFICES ASSUME OnceInv, ~overlapped, NEW m \in Mails, mailQuotes[m] > 1
               PROVE  mailMishaps > 1 \/ (mailForm[m] # "named" /\ mailMishaps > 0)
    BY DEF QuoteStoredOnce
  <2> QED
    BY DEF OnceInv, Once, OnceFor, PriceOK, NamedPrice, OtherPrice
<1> QED
  BY OnceStart, <1>1, <1>2, PTL DEF MailSpec

-----------------------------------------------------------------------------
(* The sorting of letters.                                                  *)

\* The last term of the score is two exactly when both of its words are there.
LEMMA RouteAndAmount ==
    ASSUME NEW words
    PROVE  LET both == words \cap {"route", "amount"}
           IN /\ Cardinality(both) \in 0..2
              /\ Cardinality(both) = 2 <=> {"route", "amount"} \subseteq words
<1> DEFINE both == words \cap {"route", "amount"}
<1>1. IsFiniteSet({"route", "amount"}) /\ Cardinality({"route", "amount"}) = 2
  <2>1. IsFiniteSet({"route"}) /\ Cardinality({"route"}) = 1
    BY FS_Singleton
  <2>2. {"route", "amount"} = {"route"} \cup {"amount"} /\ "amount" \notin {"route"}
    OBVIOUS
  <2> QED BY <2>1, <2>2, FS_AddElement
<1>2. both \subseteq {"route", "amount"}
  OBVIOUS
<1>3. IsFiniteSet(both) /\ Cardinality(both) \in Nat /\ Cardinality(both) <= 2
      /\ (Cardinality(both) = 2 => both = {"route", "amount"})
  BY <1>1, <1>2, FS_Subset, FS_CardinalityType
<1>4. {"route", "amount"} \subseteq words => both = {"route", "amount"}
  OBVIOUS
<1> QED BY <1>1, <1>3, <1>4

\* A letter counts as a request only with a request's words, and never with those of
\* a bill or a mailing: no sum of points outweighs these.
LEMMA CalcMeans ==
    ASSUME NEW l
    PROVE  /\ IsCalc(l) => /\ ~Has(l, {"invoice", "unsubscribe", "newsletter"})
                           /\ Has(l, {"rate", "tariff"}) \/ {"route", "amount"} \subseteq l.words
           /\ Asks(l) => IsCalc(l)
<1> DEFINE both == Cardinality(l.words \cap {"route", "amount"})
<1>1. both \in 0..2 /\ (both = 2 <=> {"route", "amount"} \subseteq l.words)
  BY RouteAndAmount
<1> HIDE DEF both
<1>2. Score(l) = (IF Has(l, {"invoice", "unsubscribe", "newsletter"}) THEN -3 ELSE 0)
                   + (IF Has(l, {"rate", "tariff"}) THEN 2 ELSE 0) + both
  BY DEF Score, both
<1> QED BY <1>1, <1>2 DEF IsCalc, Asks

\* The rules put a request aside only with a sign of bulk mail, and let no sign of
\* it pass for a request.
LEMMA RulesAgree ==
    ASSUME NEW l
    PROVE  /\ Asks(l) /\ PreClassify(l) => BulkSigns(l)
           /\ IsCalc(l) /\ ~PreClassify(l) => ~BulkSigns(l) /\ "unsubscribe" \notin l.words
<1>1. Has(l, {"invoice", "unsubscribe", "newsletter"})
        <=> "invoice" \in l.words \/ "unsubscribe" \in l.words \/ "newsletter" \in l.words
  BY DEF Has
<1>2. Has(l, {"unsubscribe", "newsletter"}) <=> "unsubscribe" \in l.words \/ "newsletter" \in l.words
  BY DEF Has
<1>3. Has(l, {"security"}) <=> "security" \in l.words
  BY DEF Has
<1>4. Business(l) <=> "invoice" \in l.words \/ Has(l, {"rate", "contract"})
  BY DEF Has, Business
<1>5. Asks(l) => IsCalc(l) /\ ~Has(l, {"invoice", "unsubscribe", "newsletter"})
  BY CalcMeans DEF Asks
<1>6. IsCalc(l) => ~Has(l, {"invoice", "unsubscribe", "newsletter"})
  BY CalcMeans
<1>7. Asks(l) /\ PreClassify(l) => BulkSigns(l)
  <2> SUFFICES ASSUME Asks(l), PreClassify(l)
               PROVE  BulkSigns(l)
    OBVIOUS
  <2>1. IsCalc(l) /\ Newsletter(l)
    BY <1>5 DEF PreClassify
  <2> QED BY <2>1, <1>1, <1>2, <1>3, <1>4, <1>5 DEF Newsletter, BulkSigns
<1>8. IsCalc(l) /\ ~PreClassify(l) => ~BulkSigns(l) /\ "unsubscribe" \notin l.words
  BY <1>1, <1>3, <1>4, <1>6 DEF PreClassify, Newsletter, BulkSigns
<1> QED BY <1>7, <1>8

\* A letter that is new has met nobody; one without a reference is noise for a rule, for
\* its score or for GPT, a client's for its score and past the rules, and a
\* supplier's by the word of GPT only.
TriageInv ==
    /\ mailFound \in Kinds4 \cup {"new"}
    /\ mailFound = "new" => mailFate = "unread" /\ gptSaid = "nothing"
    /\ mailFound = "noise" => \/ PreClassify(letterIn) \/ ~IsCalc(letterIn)
                              \/ gptSaid \in {"failed", "noise"}
    /\ mailFound = "client" /\ ~letterIn.ref => IsCalc(letterIn) /\ ~PreClassify(letterIn)
    /\ mailFound \in {"supplier_quote", "supplier_other"} /\ ~letterIn.ref => gptSaid = mailFound
    /\ MailIsSorted

LEMMA TriageInitInv == TriageInit => TriageInv
BY DEF TriageInit, TriageInv, MailIsSorted, RequestIsHeard, NoDealForBulk

LEMMA TriageStepInv == TriageInv /\ [TriageNext]_wvars => TriageInv'
<1> SUFFICES ASSUME TriageInv, [TriageNext]_wvars
             PROVE  TriageInv'
  OBVIOUS
<1> USE DEF TriageInv, MailIsSorted, RequestIsHeard, NoDealForBulk, Kinds4
<1>1. CASE Presort
  BY <1>1 DEF Presort
<1>2. CASE SortByWords
  BY <1>2 DEF SortByWords
<1>3. CASE SortByGpt
  BY <1>3 DEF SortByGpt
<1>4. CASE GptFails
  BY <1>4 DEF GptFails
<1>5. CASE ActOnMail
  <2>1. UNCHANGED <<letterIn, gptOn, gptSaid, mailFound>> /\ mailFound # "new"
    BY <1>5 DEF ActOnMail
  <2>2. mailFate' = "concierge" => mailFound = "client" /\ ~letterIn.ref
    BY <1>5 DEF ActOnMail
  <2>3. mailFate' = "skipped" /\ ~letterIn.ref =>
          \/ mailFound \in {"noise", "supplier_quote", "supplier_other"}
          \/ mailFound = "client" /\ letterIn.from = "nobody"
    BY <1>5 DEF ActOnMail
  <2>4. NoDealForBulk'
    BY <2>1, <2>2, RulesAgree, CalcMeans
  <2>5. RequestIsHeard'
    BY <2>1, <2>3, RulesAgree, CalcMeans
  <2> QED BY <2>1, <2>4, <2>5
<1>6. CASE UNCHANGED wvars
  BY <1>6 DEF wvars
<1> QED
  BY <1>1, <1>2, <1>3, <1>4, <1>5, <1>6 DEF TriageNext

\* Whatever letter comes and whatever GPT says of it: a request is put aside only for
\* a sign of bulk mail, a missing sender or GPT's word, and the concierge gets no
\* letter with such a sign, none that tells how to unsubscribe, and none without
\* the words of a request.
THEOREM LettersAreSorted == TriageSpec => []MailIsSorted
<1>1. TriageInv => MailIsSorted
  BY DEF TriageInv
<1> QED
  BY TriageInitInv, TriageStepInv, <1>1, PTL DEF TriageSpec

-----------------------------------------------------------------------------
(* The mailer.                                                             *)

\* A set of naturals has a least one.
LEMMA Least ==
    ASSUME NEW T, T \subseteq Nat, T # {}
    PROVE  \E x \in T : \A y \in T : x <= y
<1>1. \E x \in T : \A y \in T : ~ (<<y, x>> \in OpToRel(<, Nat))
  BY NatLessThanWellFounded, WFMin, Zenon
<1>2. \A x, y \in T : x <= y \/ <<y, x>> \in OpToRel(<, Nat)
  BY DEF OpToRel
<1> QED BY <1>1, <1>2

LetterStates == {"idle", "endpoints", "token", "ways", "open", "unsent"}
Letter == [at: LetterStates, exp: 0..(ClockMax + TokenLife), took: 0..ClockMax,
           tried: 0..4, expired: BOOLEAN]

\* The admissions come one after another; the list holds the last of them, and the
\* ones before it are out of the window.
Dropped == Len(admissions) - Len(sentAt)
ListInv ==
    /\ \A i, j \in DOMAIN admissions : i <= j => admissions[i] <= admissions[j]
    /\ \A i \in DOMAIN admissions : admissions[i] <= mailNow
    /\ Dropped >= 0
    /\ \A i \in DOMAIN sentAt : sentAt[i] = admissions[Dropped + i]
    /\ \A i \in DOMAIN admissions : i <= Dropped => mailNow - admissions[i] > Window

\* A letter on its ways took a token that is good for a minute, and has a way left.
TokenInv ==
    \A s \in Senders :
        /\ mailJobs[s].took <= mailNow
        /\ mailJobs[s].at \in {"endpoints", "token"} => mailJobs[s].tried = 0 /\ ~mailJobs[s].expired
        /\ mailJobs[s].at = "ways" => mailJobs[s].tried < Ways
        /\ mailJobs[s].at = "ways" /\ mailAuth = "oauth2" => mailJobs[s].exp >= mailJobs[s].took + Window

SenderInv == SenderTypeOK /\ ListInv /\ TokenInv /\ SendingKeepsLimits

LEMMA SenderTypes ==
    ASSUME SenderTypeOK
    PROVE  /\ mailJobs \in [Senders -> Letter] /\ NotSending \in Letter
           /\ mailNow \in Nat /\ mailNow >= 1 /\ mailNow <= ClockMax /\ ClockMax \in Nat
           /\ Window \in Nat /\ Window >= 1 /\ TokenLife \in Nat /\ TokenLife >= Window
           /\ MinuteMax \in Nat /\ MinuteMax >= 1
           /\ sentAt \in Seq(1..ClockMax) /\ admissions \in Seq(1..ClockMax)
           /\ Len(sentAt) \in Nat /\ Len(admissions) \in Nat
           /\ Ways \in {2, 4} /\ tokenExp \in 0..(ClockMax + TokenLife)
BY SenderAssumption DEF SenderTypeOK, Letter, LetterStates, NotSending, Ways

LEMMA SenderInitInv == SenderInit => SenderInv
<1> SUFFICES ASSUME SenderInit PROVE SenderInv
  OBVIOUS
<1>1. sentAt = <<>> /\ admissions = <<>> /\ mailNow = 1 /\ tokenExp = 0
      /\ mailJobs = [s \in Senders |-> NotSending] /\ Len(sentAt) = 0 /\ Len(admissions) = 0
  BY DEF SenderInit
<1>2. 1 \in 1..ClockMax /\ 0 \in 0..ClockMax /\ 0 \in 0..(ClockMax + TokenLife)
  BY SenderAssumption
<1> QED
  BY <1>1, <1>2, SenderAssumption DEF SenderInit, LetterStates, Letter, SenderInv, SenderTypeOK, ListInv, TokenInv, SendingKeepsLimits,
     RateKept, TokenLasts, NotSending, Dropped, Ways

\* What is shifted off the list is what is out of the window, and no more.
LEMMA GoneIs ==
    ASSUME SenderInv
    PROVE  /\ Gone \in 0..Len(sentAt)
           /\ \A i \in 1..Gone : mailNow - sentAt[i] > Window
           /\ Gone < Len(sentAt) => mailNow - sentAt[Gone + 1] <= Window
<1>t. /\ mailNow \in Nat /\ Window \in Nat /\ sentAt \in Seq(1..ClockMax) /\ Len(sentAt) \in Nat
      /\ \A i \in 1..Len(sentAt) : sentAt[i] \in Nat
  BY SenderTypes DEF SenderInv
<1> DEFINE Over == {n \in 0..Len(sentAt) : n < Len(sentAt) => InWindow(sentAt[n + 1])}
<1>1. Over \subseteq Nat /\ Len(sentAt) \in Over
  BY <1>t
<1>2. PICK n \in Over : \A m \in Over : n <= m
  BY <1>1, Least
<1>3. \A i \in 1..n : ~InWindow(sentAt[i])
  <2> SUFFICES ASSUME NEW i \in 1..n, InWindow(sentAt[i]) PROVE FALSE
    OBVIOUS
  <2>1. i - 1 \in 0..Len(sentAt) /\ (i - 1) + 1 = i /\ i - 1 < n
    BY <1>t, <1>2
  <2>2. i - 1 \in Over
    BY <2>1
  <2>3. n \in Nat /\ i \in Nat
    BY <1>1, <1>2
  <2> HIDE DEF Over
  <2>4. n <= i - 1
    BY <1>2, <2>2
  <2> QED BY <2>1, <2>3, <2>4
<1>4. \E k \in 0..Len(sentAt) :
        /\ \A i \in 1..k : ~InWindow(sentAt[i])
        /\ k < Len(sentAt) => InWindow(sentAt[k + 1])
  BY <1>2, <1>3
<1>5. /\ Gone \in 0..Len(sentAt)
      /\ \A i \in 1..Gone : ~InWindow(sentAt[i])
      /\ Gone < Len(sentAt) => InWindow(sentAt[Gone + 1])
  BY <1>4 DEF Gone
<1> QED
  BY <1>t, <1>5 DEF InWindow

LEMMA Elements ==
    ASSUME NEW S, NEW s \in Seq(S)
    PROVE  /\ \A k \in 1..Len(s) : s[k] \in S
           /\ Len(s) \in Nat /\ DOMAIN s = 1..Len(s)
OBVIOUS

\* A letter goes one step on, and nothing else of the mailer changes but its list.
LEMMA OnWay ==
    ASSUME SenderInv, NEW s \in Senders, NEW l \in Letter, Sends(s, l),
           UNCHANGED <<mailNow, mailAuth, mailProxy>>,
           l.took <= mailNow, l.at = "ways" => l.tried < Ways,
           l.at \in {"endpoints", "token"} => l.tried = 0 /\ ~l.expired,
           l.at = "ways" /\ mailAuth = "oauth2" => l.exp >= l.took + Window,
           l.expired => mailNow - l.took >= Window
    PROVE  TokenInv' /\ TokenLasts' /\ mailJobs' \in [Senders -> Letter]
<1>1. /\ mailJobs' \in [Senders -> Letter] /\ mailJobs'[s] = l
      /\ \A o \in Senders : o # s => mailJobs'[o] = mailJobs[o]
  BY SenderTypes DEF SenderInv, Sends
<1>2. Ways' = Ways
  BY DEF Ways
<1>3. TokenInv'
  BY <1>1, <1>2 DEF SenderInv, TokenInv
<1>4. TokenLasts'
  BY <1>1 DEF SenderInv, SendingKeepsLimits, TokenLasts
<1> QED BY <1>1, <1>3, <1>4

OnItsWays(k, e, t) == [k EXCEPT !.at = "ways", !.exp = e, !.took = t]
LEMMA TakesToken ==
    ASSUME NEW k \in Letter, NEW e \in 0..(ClockMax + TokenLife), NEW t \in 0..ClockMax
    PROVE  /\ OnItsWays(k, e, t) \in Letter /\ OnItsWays(k, e, t).at = "ways"
           /\ OnItsWays(k, e, t).exp = e /\ OnItsWays(k, e, t).took = t
           /\ OnItsWays(k, e, t).tried = k.tried /\ OnItsWays(k, e, t).expired = k.expired
BY DEF Letter, LetterStates, OnItsWays

LEMMA ListStays ==
    ASSUME SenderInv, UNCHANGED <<sentAt, admissions>>, mailNow' \in Nat, mailNow' >= mailNow
    PROVE  ListInv' /\ RateKept'
<1>1. /\ Dropped' = Dropped /\ mailNow \in Nat /\ Window \in Nat
      /\ DOMAIN admissions = 1..Len(admissions) /\ DOMAIN admissions' = 1..Len(admissions)
      /\ \A i \in DOMAIN admissions : admissions[i] \in Nat
  BY SenderTypes, Elements DEF Dropped, SenderInv
<1> QED
  BY <1>1 DEF SenderInv, ListInv, RateKept, SendingKeepsLimits

LEMMA SenderStepInv == SenderInv /\ [SenderNext]_mvars => SenderInv'
<1> SUFFICES ASSUME SenderInv, [SenderNext]_mvars PROVE SenderInv'
  OBVIOUS
<1>t. /\ mailJobs \in [Senders -> Letter] /\ NotSending \in Letter
      /\ mailNow \in Nat /\ mailNow >= 1 /\ mailNow <= ClockMax /\ ClockMax \in Nat
      /\ Window \in Nat /\ Window >= 1 /\ TokenLife \in Nat /\ TokenLife >= Window
      /\ MinuteMax \in Nat /\ MinuteMax >= 1
      /\ sentAt \in Seq(1..ClockMax) /\ admissions \in Seq(1..ClockMax)
      /\ Len(sentAt) \in Nat /\ Len(admissions) \in Nat
      /\ Ways \in {2, 4} /\ tokenExp \in 0..(ClockMax + TokenLife)
  BY SenderTypes DEF SenderInv
<1>i. SenderTypeOK /\ ListInv /\ TokenInv /\ RateKept /\ TokenLasts
  BY DEF SenderInv, SendingKeepsLimits
<1>u. /\ NotSending.at = "idle" /\ NotSending.took = 0 /\ NotSending.tried = 0
      /\ NotSending.exp = 0 /\ NotSending.expired = FALSE
  BY DEF NotSending
\* What is left to show of a letter's step that leaves the list alone.
<1>l. ASSUME NEW s \in Senders, NEW l \in Letter, Sends(s, l),
             UNCHANGED <<mailNow, sentAt, admissions, mailAuth, mailProxy>>,
             tokenExp' \in 0..(ClockMax + TokenLife),
             l.took <= mailNow, l.at = "ways" => l.tried < Ways,
             l.at \in {"endpoints", "token"} => l.tried = 0 /\ ~l.expired,
             l.at = "ways" /\ mailAuth = "oauth2" => l.exp >= l.took + Window,
             l.expired => mailNow - l.took >= Window
      PROVE  SenderInv'
  <2>1. TokenInv' /\ TokenLasts' /\ mailJobs' \in [Senders -> Letter]
    BY <1>l, OnWay
  <2>2. ListInv' /\ RateKept'
    BY <1>l, <1>t, ListStays
  <2>3. SenderTypeOK'
    BY <1>l, <1>i, <2>1 DEF SenderTypeOK, Letter, LetterStates
  <2> QED BY <2>1, <2>2, <2>3 DEF SenderInv, SendingKeepsLimits
<1>1. ASSUME NEW s \in Senders, Admit(s)
      PROVE  SenderInv'
  <2> DEFINE recent == SubSeq(sentAt, Gone + 1, Len(sentAt))
             ok == Len(recent) < MinuteMax
             l == [NotSending EXCEPT !.at = IF ok THEN "endpoints" ELSE "idle"]
  <2>1. /\ sentAt' = IF ok THEN Append(recent, mailNow) ELSE recent
        /\ admissions' = IF ok THEN Append(admissions, mailNow) ELSE admissions
        /\ Sends(s, l) /\ UNCHANGED <<mailNow, mailAuth, mailProxy, tokenExp>>
    BY <1>1 DEF Admit
  <2>2. l \in Letter /\ l.at # "ways" /\ l.took = 0 /\ l.tried = 0 /\ ~l.expired
    BY <1>t, <1>u DEF Letter, LetterStates
  <2>3. TokenInv' /\ TokenLasts' /\ mailJobs' \in [Senders -> Letter]
    <3> HIDE DEF l
    <3> QED BY <1>t, <2>1, <2>2, OnWay
  <2>g. /\ Gone \in 0..Len(sentAt)
        /\ \A i \in 1..Gone : mailNow - sentAt[i] > Window
    BY GoneIs
  <2>4. /\ recent \in Seq(1..ClockMax) /\ Len(recent) = Len(sentAt) - Gone
        /\ \A i \in 1..Len(recent) : recent[i] = sentAt[Gone + i]
    BY <1>t, <2>g
  <2> HIDE DEF recent
  <2>d. Dropped \in Nat /\ Dropped = Len(admissions) - Len(sentAt)
    BY <1>i, <1>t DEF Dropped, ListInv
  <2>e. /\ DOMAIN admissions = 1..Len(admissions) /\ \A i \in 1..Len(admissions) : admissions[i] \in 1..ClockMax
        /\ DOMAIN sentAt = 1..Len(sentAt) /\ DOMAIN recent = 1..Len(recent)
    BY <1>t, <2>4, Elements
  <2>5. \A i \in 1..Len(recent) : recent[i] = admissions[(Dropped + Gone) + i]
    <3> SUFFICES ASSUME NEW i \in 1..Len(recent) PROVE recent[i] = admissions[(Dropped + Gone) + i]
      OBVIOUS
    <3>1. Gone + i \in 1..Len(sentAt) /\ Dropped + (Gone + i) = (Dropped + Gone) + i
      BY <1>t, <2>d, <2>g, <2>4
    <3>2. sentAt[Gone + i] = admissions[Dropped + (Gone + i)]
      BY <1>i, <2>e, <3>1 DEF ListInv
    <3> QED BY <2>4, <3>1, <3>2
  <2>6. \A i \in 1..Len(admissions) : i <= Dropped + Gone => mailNow - admissions[i] > Window
    <3> SUFFICES ASSUME NEW i \in 1..Len(admissions), i <= Dropped + Gone
                 PROVE  mailNow - admissions[i] > Window
      OBVIOUS
    <3>1. CASE i <= Dropped
      BY <1>t, <1>i, <3>1, Elements DEF ListInv
    <3>2. CASE i > Dropped
      <4>1. i - Dropped \in 1..Gone /\ i - Dropped \in 1..Len(sentAt) /\ Dropped + (i - Dropped) = i
        BY <3>2, <2>d, <2>g
      <4>2. sentAt[i - Dropped] = admissions[i]
        BY <1>t, <1>i, <4>1, Elements DEF ListInv
      <4> QED BY <2>g, <4>1, <4>2
    <3> QED BY <2>d, <3>1, <3>2
  <2>7. CASE ~ok
    <3>1. sentAt' = recent /\ admissions' = admissions /\ mailNow' = mailNow
      BY <2>1, <2>7
    <3>2. Dropped' = Dropped + Gone
      <4>1. Dropped' = Len(admissions) - Len(recent)
        BY <3>1 DEF Dropped
      <4> QED BY <1>t, <2>4, <2>d, <2>g, <4>1
    <3>3. ListInv'
      <4>1. Dropped + Gone >= 0
        BY <2>d, <2>g
      <4>2. \A i \in DOMAIN admissions : i <= Dropped + Gone => mailNow - admissions[i] > Window
        BY <2>6, <2>e
      <4>3. \A i \in DOMAIN recent : recent[i] = admissions[(Dropped + Gone) + i]
        BY <2>5, <2>e
      <4>4. /\ \A i, j \in DOMAIN admissions : i <= j => admissions[i] <= admissions[j]
            /\ \A i \in DOMAIN admissions : admissions[i] <= mailNow
        BY <1>i DEF ListInv
      <4> HIDE DEF ok
      <4> QED BY <3>1, <3>2, <4>1, <4>2, <4>3, <4>4 DEF ListInv
    <3>4. RateKept'
      BY <1>i, <3>1 DEF RateKept
    <3>5. SenderTypeOK'
      BY <1>i, <2>1, <2>3, <2>4, <3>1 DEF SenderTypeOK, Letter, LetterStates
    <3> QED BY <2>3, <3>3, <3>4, <3>5 DEF SenderInv, SendingKeepsLimits
  <2>8. CASE ok
    <3>1. sentAt' = Append(recent, mailNow) /\ admissions' = Append(admissions, mailNow) /\ mailNow' = mailNow
      BY <2>1, <2>8
    <3>2. /\ Len(sentAt') = Len(recent) + 1 /\ Len(admissions') = Len(admissions) + 1
          /\ DOMAIN sentAt' = 1..(Len(recent) + 1) /\ DOMAIN admissions' = 1..(Len(admissions) + 1)
          /\ \A i \in 1..Len(recent) : sentAt'[i] = recent[i]
          /\ \A i \in 1..Len(admissions) : admissions'[i] = admissions[i]
          /\ sentAt'[Len(recent) + 1] = mailNow /\ admissions'[Len(admissions) + 1] = mailNow
          /\ sentAt' \in Seq(1..ClockMax) /\ admissions' \in Seq(1..ClockMax)
      BY <1>t, <2>4, <3>1
    <3>n. Len(recent) \in Nat /\ Len(admissions) \in Nat /\ Len(recent) = Len(admissions) - (Dropped + Gone)
          /\ Len(recent) < MinuteMax
      BY <1>t, <2>4, <2>d, <2>g, <2>8
    <3>3. Dropped' = Dropped + Gone
      BY <3>2, <3>n, <2>d, <2>g DEF Dropped
    <3>4. ListInv'
      <4>1. \A i \in 1..(Len(recent) + 1) : sentAt'[i] = admissions'[(Dropped + Gone) + i]
        <5> SUFFICES ASSUME NEW i \in 1..(Len(recent) + 1)
                     PROVE  sentAt'[i] = admissions'[(Dropped + Gone) + i]
          OBVIOUS
        <5>1. CASE i = Len(recent) + 1
          BY <3>2, <3>n, <5>1, <2>d, <2>g
        <5>2. CASE i # Len(recent) + 1
          <6>1. i \in 1..Len(recent) /\ (Dropped + Gone) + i \in 1..Len(admissions)
            BY <3>n, <5>2, <2>d, <2>g
          <6> QED BY <2>5, <3>2, <6>1
        <5> QED BY <5>1, <5>2
      <4>2. \A i \in 1..(Len(admissions) + 1) : i <= Dropped + Gone => mailNow - admissions'[i] > Window
        <5> SUFFICES ASSUME NEW i \in 1..(Len(admissions) + 1), i <= Dropped + Gone
                     PROVE  mailNow - admissions'[i] > Window
          OBVIOUS
        <5>1. i \in 1..Len(admissions)
          BY <3>n, <2>d, <2>g
        <5> QED BY <2>6, <3>2, <5>1
      <4>3. \A i \in 1..(Len(admissions) + 1) : admissions'[i] <= mailNow
        <5> SUFFICES ASSUME NEW i \in 1..(Len(admissions) + 1) PROVE admissions'[i] <= mailNow
          OBVIOUS
        <5>1. CASE i = Len(admissions) + 1
          BY <1>t, <3>2, <5>1
        <5>2. CASE i # Len(admissions) + 1
          <6>1. i \in 1..Len(admissions)
            BY <3>n, <5>2
          <6> QED BY <1>i, <2>e, <3>2, <6>1 DEF ListInv
        <5> QED BY <5>1, <5>2
      <4>4. \A i, j \in 1..(Len(admissions) + 1) : i <= j => admissions'[i] <= admissions'[j]
        <5> SUFFICES ASSUME NEW i \in 1..(Len(admissions) + 1), NEW j \in 1..(Len(admissions) + 1), i <= j
                     PROVE  admissions'[i] <= admissions'[j]
          OBVIOUS
        <5>1. CASE j = Len(admissions) + 1
          BY <3>2, <4>3, <5>1
        <5>2. CASE j # Len(admissions) + 1
          <6>1. i \in 1..Len(admissions) /\ j \in 1..Len(admissions)
            BY <3>n, <5>2
          <6> QED BY <1>i, <2>e, <3>2, <6>1 DEF ListInv
        <5> QED BY <5>1, <5>2
      <4>5. Dropped + Gone >= 0
        BY <2>d, <2>g
      <4> QED
        BY <3>1, <3>2, <3>3, <4>1, <4>2, <4>3, <4>4, <4>5 DEF ListInv
    <3>5. RateKept'
      <4> SUFFICES ASSUME NEW k \in 1..(Len(admissions) + 1), k + MinuteMax \in 1..(Len(admissions) + 1)
                   PROVE  admissions'[k + MinuteMax] - admissions'[k] > Window
        BY <3>2 DEF RateKept
      <4>1. CASE k + MinuteMax = Len(admissions) + 1
        <5>1. k \in 1..Len(admissions) /\ k <= Dropped + Gone
          BY <1>t, <3>n, <4>1, <2>d, <2>g
        <5> QED BY <2>6, <3>2, <4>1, <5>1
      <4>2. CASE k + MinuteMax # Len(admissions) + 1
        <5>1. k \in 1..Len(admissions) /\ k + MinuteMax \in 1..Len(admissions)
          <6>1. MinuteMax \in Nat /\ MinuteMax >= 1 /\ Len(admissions) \in Nat
            BY <1>t
          <6>2. k \in Nat /\ k + MinuteMax \in Nat /\ k >= 1 /\ k + MinuteMax <= Len(admissions) + 1
            BY <6>1
          <6> HIDE DEF recent, ok, l
          <6> QED BY <4>2, <6>1, <6>2
        <5> QED BY <1>i, <2>e, <3>2, <5>1 DEF RateKept
      <4> QED BY <4>1, <4>2
    <3>6. SenderTypeOK'
      BY <1>i, <2>1, <2>3, <3>1, <3>2 DEF SenderTypeOK, Letter, LetterStates
    <3> QED BY <2>3, <3>4, <3>5, <3>6 DEF SenderInv, SendingKeepsLimits
  <2> QED BY <2>7, <2>8
<1>2. ASSUME NEW s \in Senders, Resolve(s)
      PROVE  SenderInv'
  <2>1. CASE mailAuth = "app_password" \/ TokenServes
    <3> DEFINE l == [mailJobs[s] EXCEPT !.at = "ways", !.exp = tokenExp, !.took = mailNow]
    <3>1. Sends(s, l) /\ UNCHANGED <<mailNow, sentAt, admissions, mailAuth, mailProxy, tokenExp>>
          /\ mailJobs[s].at = "endpoints"
      BY <1>2, <2>1 DEF Resolve
    <3>2. mailJobs[s] \in Letter /\ mailJobs[s].tried = 0 /\ ~mailJobs[s].expired
      BY <1>i, <1>t, <3>1 DEF TokenInv
    <3>3. l \in Letter /\ l.at = "ways" /\ l.exp = tokenExp /\ l.took = mailNow /\ l.tried = 0 /\ ~l.expired
      <4>1. mailNow \in 0..ClockMax
        BY <1>t
      <4>2. l = OnItsWays(mailJobs[s], tokenExp, mailNow)
        BY DEF OnItsWays
      <4> QED BY <1>t, <3>2, <4>1, <4>2, TakesToken
    <3>4. mailAuth = "oauth2" => tokenExp >= mailNow + Window
      BY <1>t, <2>1 DEF TokenServes
    <3> HIDE DEF l
    <3> QED BY <1>l, <1>t, <3>1, <3>3, <3>4
  <2>2. CASE ~(mailAuth = "app_password" \/ TokenServes)
    <3> DEFINE l == [mailJobs[s] EXCEPT !.at = "token"]
    <3>1. Sends(s, l) /\ UNCHANGED <<mailNow, sentAt, admissions, mailAuth, mailProxy, tokenExp>>
          /\ mailJobs[s].at = "endpoints"
      BY <1>2, <2>2 DEF Resolve
    <3>2. mailJobs[s] \in Letter /\ mailJobs[s].tried = 0 /\ ~mailJobs[s].expired
          /\ mailJobs[s].took <= mailNow
      BY <1>i, <1>t, <3>1 DEF TokenInv
    <3>3. l \in Letter /\ l.at = "token" /\ l.took <= mailNow /\ l.tried = 0 /\ ~l.expired
      BY <1>t, <3>2 DEF Letter, LetterStates
    <3> HIDE DEF l
    <3> QED BY <1>l, <1>t, <3>1, <3>3
  <2> QED BY <2>1, <2>2
<1>3. ASSUME NEW s \in Senders, TokenComes(s)
      PROVE  SenderInv'
  <2>1. mailJobs[s].at = "token" /\ UNCHANGED <<mailNow, sentAt, admissions, mailAuth, mailProxy>>
    BY <1>3 DEF TokenComes
  <2>2. mailJobs[s] \in Letter /\ mailJobs[s].tried = 0 /\ ~mailJobs[s].expired
        /\ mailJobs[s].took <= mailNow
    BY <1>i, <1>t, <2>1 DEF TokenInv
  <2>3. CASE tokenExp' = mailNow + TokenLife
             /\ Sends(s, [mailJobs[s] EXCEPT !.at = "ways", !.exp = tokenExp', !.took = mailNow])
    <3> DEFINE l == [mailJobs[s] EXCEPT !.at = "ways", !.exp = tokenExp', !.took = mailNow]
    <3>1. tokenExp' \in 0..(ClockMax + TokenLife) /\ tokenExp' >= mailNow + Window
      BY <1>t, <2>3
    <3>2. l \in Letter /\ l.at = "ways" /\ l.exp = tokenExp' /\ l.took = mailNow /\ l.tried = 0 /\ ~l.expired
      <4>1. mailNow \in 0..ClockMax
        BY <1>t
      <4>2. l = OnItsWays(mailJobs[s], tokenExp', mailNow)
        BY DEF OnItsWays
      <4> QED BY <2>2, <3>1, <4>1, <4>2, TakesToken
    <3>3. Sends(s, l)
      BY <2>3
    <3> HIDE DEF l
    <3> QED BY <1>l, <1>t, <2>1, <3>1, <3>2, <3>3
  <2>4. CASE Sends(s, [mailJobs[s] EXCEPT !.at = "unsent"]) /\ UNCHANGED tokenExp
    <3> DEFINE l == [mailJobs[s] EXCEPT !.at = "unsent"]
    <3>1. l \in Letter /\ l.at = "unsent" /\ l.took <= mailNow /\ l.tried = 0 /\ ~l.expired
      BY <1>t, <2>2 DEF Letter, LetterStates
    <3>2. Sends(s, l)
      BY <2>4
    <3> HIDE DEF l
    <3> QED BY <1>l, <1>t, <2>1, <2>4, <3>1, <3>2
  <2> QED BY <1>3, <2>3, <2>4 DEF TokenComes
<1>4. ASSUME NEW s \in Senders, TryWay(s)
      PROVE  SenderInv'
  <2> DEFINE k == mailJobs[s]
             fit == mailAuth = "app_password" \/ k.exp > mailNow
  <2>1. k.at = "ways" /\ UNCHANGED <<mailNow, sentAt, admissions, mailAuth, mailProxy, tokenExp>>
    BY <1>4 DEF TryWay
  <2>2. /\ k \in Letter /\ k.tried < Ways /\ k.took <= mailNow
        /\ mailAuth = "oauth2" => k.exp >= k.took + Window
        /\ k.expired => mailNow - k.took >= Window
    BY <1>i, <1>t, <2>1 DEF TokenInv, TokenLasts
  <2>3. CASE fit /\ Sends(s, [k EXCEPT !.at = "open"])
    <3> DEFINE l == [k EXCEPT !.at = "open"]
    <3>1. l \in Letter /\ l.at = "open" /\ l.took = k.took /\ l.expired = k.expired
      BY <2>2 DEF Letter, LetterStates
    <3>2. Sends(s, l)
      BY <2>3
    <3> HIDE DEF l
    <3> QED BY <1>l, <1>t, <2>1, <2>2, <3>1, <3>2
  <2>4. CASE Sends(s, [k EXCEPT !.tried = k.tried + 1, !.expired = k.expired \/ ~fit,
                                !.at = IF k.tried + 1 = Ways THEN "unsent" ELSE k.at])
    <3> DEFINE refused == k.expired \/ ~fit
               on == IF k.tried + 1 = Ways THEN "unsent" ELSE k.at
               l == [k EXCEPT !.tried = k.tried + 1, !.expired = refused, !.at = on]
    <3>1. k.tried + 1 \in 0..4 /\ on \in {"unsent", "ways"} /\ (on = "ways" => k.tried + 1 < Ways)
      BY <1>t, <2>1, <2>2 DEF Letter
    <3>2. refused \in BOOLEAN /\ (refused => mailNow - k.took >= Window)
      <4>1. mailAuth \in {"app_password", "oauth2"}
        BY <1>i DEF SenderTypeOK
      <4>2. k.exp \in Nat /\ k.took \in Nat /\ k.expired \in BOOLEAN
        BY <1>t, <2>2 DEF Letter
      <4> QED BY <1>t, <2>2, <4>1, <4>2
    <3>3. Sends(s, l)
      BY <2>4
    <3> HIDE DEF refused, on
    <3>4. l \in Letter /\ l.at = on /\ l.took = k.took /\ l.exp = k.exp /\ l.expired = refused /\ l.tried = k.tried + 1
      BY <2>2, <3>1, <3>2 DEF Letter, LetterStates
    <3> HIDE DEF l
    <3> QED BY <1>l, <1>t, <2>1, <2>2, <3>1, <3>2, <3>3, <3>4
  <2> QED BY <1>4, <2>3, <2>4 DEF TryWay
<1>5. ASSUME NEW s \in Senders, LetterLeaves(s)
      PROVE  SenderInv'
  <2>1. Sends(s, NotSending) /\ UNCHANGED <<mailNow, sentAt, admissions, mailAuth, mailProxy, tokenExp>>
    BY <1>5 DEF LetterLeaves
  <2> QED BY <1>l, <1>t, <1>u, <2>1
<1>6. CASE MailClock
  <2>1. /\ mailNow' = mailNow + 1 /\ mailNow' \in 1..ClockMax
        /\ UNCHANGED <<sentAt, admissions, mailAuth, mailProxy, tokenExp, mailJobs>>
    BY <1>6, <1>t DEF MailClock
  <2>2. ListInv' /\ RateKept'
    BY <1>t, <2>1, ListStays
  <2>3. SenderTypeOK'
    BY <1>i, <2>1 DEF SenderTypeOK
  <2>4. TokenInv' /\ TokenLasts'
    <3>1. \A s \in Senders : mailJobs[s].took \in Nat
      BY <1>t DEF Letter
    <3> QED BY <1>i, <1>t, <2>1, <3>1 DEF TokenInv, TokenLasts, Ways
  <2> QED BY <2>2, <2>3, <2>4 DEF SenderInv, SendingKeepsLimits
<1>9. CASE UNCHANGED mvars
  <2>1. UNCHANGED <<mailNow, sentAt, admissions, mailAuth, mailProxy, tokenExp, mailJobs>>
    BY <1>9 DEF mvars
  <2>2. ListInv' /\ RateKept'
    BY <1>t, <2>1, ListStays
  <2>3. TokenInv' /\ TokenLasts' /\ SenderTypeOK'
    BY <1>i, <2>1 DEF TokenInv, TokenLasts, SenderTypeOK, Ways
  <2> QED BY <2>2, <2>3 DEF SenderInv, SendingKeepsLimits
<1> QED BY <1>1, <1>2, <1>3, <1>4, <1>5, <1>6, <1>9 DEF SenderNext

\* However many jobs send at a time, whatever the limit and the life of a token: in no
\* minute more letters are let through than the limit, and a token the server calls
\* expired was good for a minute when its letter took it (emailRateOk,
\* fetchOAuthAccessToken).
THEOREM LimitsAreKept == SenderSpec => []SendingKeepsLimits
<1>1. SenderInv => SendingKeepsLimits
  BY DEF SenderInv
<1> QED
  BY SenderInitInv, SenderStepInv, <1>1, PTL DEF SenderSpec
=============================================================================
