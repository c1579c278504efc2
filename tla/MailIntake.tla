----------------------------- MODULE MailIntake -----------------------------
(***************************************************************************)
(* The IMAP sync of the email worker: every minute a job reads the unread  *)
(* mails of the mailbox, flags each one as read, and only then works on    *)
(* them one by one.  Any step may throw, which ends the job for good (a    *)
(* repeated job has one attempt), and the worker may die.  What was worked *)
(* on is known by its Message-ID, which a mail need not have.              *)
(***************************************************************************)
EXTENDS Naturals, FiniteSets

CONSTANTS
    Mails,
    Nobody,         \* the sync works on no mail
    Syncs,          \* jobs that may run at the same time
    MailMishaps         \* bound: throwing steps and deaths of the worker

ASSUME MailAssumption ==
    /\ IsFiniteSet(Mails) /\ Nobody \notin Mails
    /\ MailMishaps \in Nat

VARIABLES
    inbox,          \* per mail: not there yet, unread, or read
    mailKind,       \* per mail: what it is
    mailForm,       \* per mail: with a Message-ID or without, or without a source
    syncs,          \* per job: where it stands, and the mails it holds
    settled,        \* mails markEmailSeen was called for
    mailQuotes,     \* per mail: rows it put in `quotes`
    concierge,      \* client mails the orchestrator has answered in its records
    mailAnswered,   \* client mails whose answer was sent
    overlapped,     \* two syncs ran at the same time
    brokenSyncs,    \* syncs that threw: entries of the dead letter queue
    mailMishaps

mbox == <<inbox, mailKind, mailForm>>
mrows == <<settled, mailQuotes, concierge, mailAnswered>>
mfaults == <<brokenSyncs, mailMishaps>>
mhistory == <<overlapped, mfaults>>
ivars == <<mbox, syncs, mrows, mhistory>>

\* With a deal's Ref: a supplier's price, or anything else.  Without: a client
\* asking for a rate, or what is thrown away.
MailKinds == {"quote", "other", "client", "noise"}
\* "blank": the server gives no source for it, at any poll.
MailForms == {"named", "nameless", "blank"}
\* The mails with a row in idempotency_keys: markEmailSeen does nothing for a
\* mail that has no Message-ID.
mailKeys == {m \in settled : mailForm[m] = "named"}
IdleSync == [pc |-> "idle", todo |-> {}, got |-> {}, at |-> Nobody]

MailInit ==
    /\ inbox = [m \in Mails |-> "away"]
    /\ mailKind = [m \in Mails |-> "noise"]
    /\ mailForm = [m \in Mails |-> "named"]
    /\ syncs = [s \in Syncs |-> IdleSync]
    /\ settled = {} /\ concierge = {} /\ mailAnswered = {}
    /\ mailQuotes = [m \in Mails |-> 0]
    /\ overlapped = FALSE /\ brokenSyncs = 0 /\ mailMishaps = 0

SyncIs(s, pc) == syncs[s].pc = pc
MailOf(s) == syncs[s].at
SyncGoto(s, pc) == syncs' = [syncs EXCEPT ![s].pc = pc]
MailMishap == mailMishaps < MailMishaps /\ mailMishaps' = mailMishaps + 1

Arrives(m) ==
    /\ inbox[m] = "away"
    /\ inbox' = [inbox EXCEPT ![m] = "unread"]
    /\ \E k \in MailKinds : mailKind' = [mailKind EXCEPT ![m] = k]
    /\ \E f \in MailForms : mailForm' = [mailForm EXCEPT ![m] = f]
    /\ UNCHANGED <<syncs, mrows, mhistory>>

-----------------------------------------------------------------------------
\* syncInboundMail: search, then fetch and flag one mail after the other.
SearchMail(s) ==
    /\ SyncIs(s, "idle")
    /\ syncs' = [syncs EXCEPT ![s].pc = "list",
                              ![s].todo = {m \in Mails : inbox[m] = "unread"}]
    /\ overlapped' = (overlapped \/ \E other \in Syncs : other # s /\ ~SyncIs(other, "idle"))
    /\ UNCHANGED <<mbox, mrows, mfaults>>

\* A mail that comes without a source is passed over, and stays unread.
FetchMail(s) ==
    /\ SyncIs(s, "list")
    /\ \E m \in syncs[s].todo :
         syncs' = IF mailForm[m] = "blank" THEN [syncs EXCEPT ![s].todo = @ \ {m}]
                  ELSE [syncs EXCEPT ![s].pc = "flag", ![s].at = m, ![s].got = @ \cup {m},
                                     ![s].todo = @ \ {m}]
    /\ UNCHANGED <<mbox, mrows, mhistory>>

FlagMail(s) ==
    /\ SyncIs(s, "flag")
    /\ inbox' = [inbox EXCEPT ![MailOf(s)] = "read"]
    /\ syncs' = [syncs EXCEPT ![s].pc = "list", ![s].at = Nobody]
    /\ UNCHANGED <<mailKind, mailForm, mrows, mhistory>>

\* "[imap] sync failed": what was fetched so far is worked on all the same.
SyncFails(s) ==
    /\ syncs[s].pc \in {"list", "flag"}
    /\ MailMishap
    /\ syncs' = [syncs EXCEPT ![s].pc = "work", ![s].at = Nobody, ![s].todo = {}]
    /\ UNCHANGED <<mbox, mrows, overlapped, brokenSyncs>>

ListDone(s) ==
    /\ SyncIs(s, "list")
    /\ syncs[s].todo = {}
    /\ SyncGoto(s, "work")
    /\ UNCHANGED <<mbox, mrows, mhistory>>

-----------------------------------------------------------------------------
\* Mutant: the key is not looked up.
TakeUp_unchecked(s) ==
    /\ SyncIs(s, "work")
    /\ \E m \in syncs[s].got : syncs' = [syncs EXCEPT ![s].pc = "sort", ![s].at = m]
    /\ UNCHANGED <<mbox, mrows, mhistory>>

\* The loop over the fetched mails.  A mail whose key is there is skipped.
TakeUp(s) ==
    /\ SyncIs(s, "work")
    /\ \E m \in syncs[s].got :
         syncs' = IF m \in mailKeys THEN [syncs EXCEPT ![s].got = @ \ {m}]
                  ELSE [syncs EXCEPT ![s].pc = "sort", ![s].at = m]
    /\ UNCHANGED <<mbox, mrows, mhistory>>

\* classifyInboundMailWithGpt: whatever a mail is, GPT may call it noise.
SortMail(s) ==
    /\ SyncIs(s, "sort")
    /\ \/ SyncGoto(s, "key")
       \/ mailKind[MailOf(s)] = "quote" /\ SyncGoto(s, "quote")
       \/ mailKind[MailOf(s)] = "other" /\ SyncGoto(s, "replied")
       \/ mailKind[MailOf(s)] = "client" /\ SyncGoto(s, "ask")
    /\ UNCHANGED <<mbox, mrows, mhistory>>

StoreQuote(s) ==
    /\ SyncIs(s, "quote")
    /\ mailQuotes' = [mailQuotes EXCEPT ![MailOf(s)] = @ + 1]
    /\ SyncGoto(s, "replied")
    /\ UNCHANGED <<mbox, settled, concierge, mailAnswered, mhistory>>

\* markSupplierReplied: SupplierDesk!Reply.
NoteReply(s) ==
    /\ SyncIs(s, "replied")
    /\ SyncGoto(s, "key")
    /\ UNCHANGED <<mbox, mrows, mhistory>>

\* Mutant: the answer is mailed before the mail's key is stored.
AskConcierge_answer_first(s) ==
    /\ SyncIs(s, "ask")
    /\ concierge' \in {concierge, concierge \cup {MailOf(s)}}
    /\ mailAnswered' = mailAnswered \cup ({MailOf(s)} \cap concierge')
    /\ SyncGoto(s, "key")
    /\ UNCHANGED <<mbox, settled, mailQuotes, mhistory>>

\* processEmailWithGpt; the key of the orchestrator is new every time.
AskConcierge(s) ==
    /\ SyncIs(s, "ask")
    /\ concierge' \in {concierge, concierge \cup {MailOf(s)}}
    /\ SyncGoto(s, "key")
    /\ UNCHANGED <<mbox, settled, mailQuotes, mailAnswered, mhistory>>

\* Mutant: the key is kept only for a mail that was answered or was a quote.
MarkKey_sorted(s) ==
    /\ SyncIs(s, "key")
    /\ settled' = settled \cup {m \in {MailOf(s)} : mailQuotes[m] > 0 \/ m \in concierge}
    /\ SyncGoto(s, "after")
    /\ UNCHANGED <<mbox, mailQuotes, concierge, mailAnswered, mhistory>>

MarkKey(s) ==
    /\ SyncIs(s, "key")
    /\ settled' = settled \cup {MailOf(s)}
    /\ SyncGoto(s, "after")
    /\ UNCHANGED <<mbox, mailQuotes, concierge, mailAnswered, mhistory>>

\* The answer to a client, or the alert and the new price of the deal (a
\* reprocess that fails is only logged).
Conclude(s) ==
    /\ SyncIs(s, "after")
    /\ mailAnswered' = mailAnswered \cup ({MailOf(s)} \cap concierge)
    /\ syncs' = [syncs EXCEPT ![s].pc = "work", ![s].at = Nobody, ![s].got = @ \ {MailOf(s)}]
    /\ UNCHANGED <<mbox, settled, mailQuotes, concierge, mhistory>>

WorkDone(s) ==
    /\ SyncIs(s, "work")
    /\ syncs[s].got = {}
    /\ SyncGoto(s, "idle")
    /\ UNCHANGED <<mbox, mrows, mhistory>>

\* A step throws: moveToDlq, and the rest of the mails is dropped.
SyncThrows(s) ==
    /\ syncs[s].pc \in {"work", "sort", "quote", "replied", "key", "after"}
    /\ MailMishap
    /\ brokenSyncs' = brokenSyncs + 1
    /\ syncs' = [syncs EXCEPT ![s] = IdleSync]
    /\ UNCHANGED <<mbox, mrows, overlapped>>

MailWorkerDies ==
    /\ MailMishap
    /\ syncs' = [s \in Syncs |-> IdleSync]
    /\ UNCHANGED <<mbox, mrows, overlapped, brokenSyncs>>

SyncStep(s) ==
    \/ SearchMail(s) \/ FetchMail(s) \/ FlagMail(s) \/ ListDone(s) \/ TakeUp(s)
    \/ SortMail(s) \/ StoreQuote(s) \/ NoteReply(s) \/ AskConcierge(s) \/ MarkKey(s)
    \/ Conclude(s) \/ WorkDone(s)
MailNext ==
    \/ MailWorkerDies
    \/ \E m \in Mails : Arrives(m)
    \/ \E s \in Syncs : SyncStep(s) \/ SyncFails(s) \/ SyncThrows(s)

\* BullMQ starts the repeated job again and again, and the worker runs it.
MailFairness == \A s \in Syncs : WF_ivars(SyncStep(s))
MailSpec == MailInit /\ [][MailNext]_ivars /\ MailFairness

-----------------------------------------------------------------------------
SyncPCs == {"idle", "list", "flag", "work", "sort", "quote", "replied", "ask", "key", "after"}
\* Every variable keeps its type, and a sync works on a mail it holds.
MailTypeOK ==
    /\ inbox \in [Mails -> {"away", "unread", "read"}]
    /\ mailKind \in [Mails -> MailKinds] /\ mailForm \in [Mails -> MailForms]
    /\ syncs \in [Syncs -> [pc: SyncPCs, todo: SUBSET Mails, got: SUBSET Mails,
                            at: Mails \cup {Nobody}]]
    /\ \A s \in Syncs : syncs[s].pc \in {"flag", "sort", "quote", "replied", "ask", "key", "after"}
                            => MailOf(s) \in syncs[s].got
    /\ settled \subseteq Mails /\ concierge \subseteq Mails /\ mailAnswered \subseteq Mails
    /\ mailQuotes \in [Mails -> Nat]
    /\ overlapped \in BOOLEAN /\ brokenSyncs \in 0..MailMishaps /\ mailMishaps \in 0..MailMishaps

HeldMail(m) == \E s \in Syncs : m \in syncs[s].got
\* While syncs do not overlap a supplier's price is stored once, even if flagging
\* its mail failed and the next sync fetched it again: it takes two mishaps (the
\* flag, and the key) to store it twice, or one (the flag) if the mail has no
\* Message-ID, for then there is no key.  Two syncs at once may do so (the key
\* is looked up first and stored last).
QuoteStoredOnce ==
    \A m \in Mails : mailQuotes[m] > 1 =>
        \/ overlapped \/ mailMishaps > 1
        \/ mailForm[m] # "named" /\ mailMishaps > 0

\* A client's answer is mailed only when it is in the orchestrator's records,
\* and for a mail that has its key and will not be answered again; for one
\* without a Message-ID there is no key, and it may be.
AnswerIsFinal ==
    \A m \in mailAnswered : m \in concierge /\ (mailForm[m] = "named" => m \in mailKeys)

\* Every mail that arrives is dealt with, unless a sync breaks or the server
\* gives no source for it: such a mail is passed over at every poll.
MailDealtWith ==
    \A m \in Mails : inbox[m] = "unread" /\ mailForm[m] # "blank" ~> m \in settled \/ mailMishaps > 0

-----------------------------------------------------------------------------
\* What a mail is for the ledger.
StatusOf(m) ==
    CASE m \in settled -> "settled"
      [] m \notin settled /\ HeldMail(m) -> "taken"
      [] m \notin settled /\ ~HeldMail(m) /\ inbox[m] = "read" -> "lost"
      [] m \notin settled /\ ~HeldMail(m) /\ inbox[m] = "unread" -> "new"
      [] OTHER -> "away"

Ledger == INSTANCE MailLedger WITH status <- [m \in Mails |-> StatusOf(m)],
                                   breaks <- mailMishaps

\* The sync keeps the ledger: what is settled stays so, and no mail is lost
\* but by a step that threw or a worker that died.  (Settled is a mail whose
\* work came to its end; one without a Message-ID may be worked on again.)
KeepsLedger == Ledger!Spec
=============================================================================
