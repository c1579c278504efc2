---------------------------- MODULE SupplierDesk ----------------------------
(***************************************************************************)
(* One supplier: its rows, the director's buttons on the page "Suppliers", *)
(* the RFQ letters the email worker sends it, and the count of unanswered  *)
(* letters that takes it off the mailing.  The worker runs the jobs of the *)
(* queue `email`; it may die at any point, and every step of a job may     *)
(* fail.  SMTP is required (mailRequiresSmtp), as in production.           *)
(***************************************************************************)
EXTENDS Naturals, FiniteSets

CONSTANTS
    Rfqs,               \* jobs that ask this supplier for a quote
    LetterAttempts,     \* `attempts` of an email job
    LetterStalls,       \* BullMQ's maxStalledCount
    SilentStreak,       \* SUPPLIER_SILENT_AFTER_STREAK
    SupplierTroubles,   \* bound: failing steps and deaths of the worker
    SupplierClicks      \* bound: clicks that switch the supplier

ASSUME SupplierAssumption ==
    /\ IsFiniteSet(Rfqs)
    /\ LetterAttempts \in Nat \ {0} /\ SilentStreak \in Nat \ {0}
    /\ LetterStalls \in Nat /\ SupplierTroubles \in Nat /\ SupplierClicks \in Nat

VARIABLES
    supplier,       \* the rows of `partners`, `suppliers` and `partner_contacts`
    letter,         \* per RFQ: its job
    deadLetters,    \* RFQs with an entry in the dead letter queue
    owed,           \* letters the supplier has not answered
    supplierTroubles, supplierClicks

sjobs == <<letter, deadLetters, supplierTroubles>>
svars == <<supplier, sjobs, owed, supplierClicks>>

\* note is silent_note, as far as LIKE 'auto:%' sees it; lastRfq tells whether
\* last_rfq_at is longer ago than SUPPLIER_SILENT_AFTER_HOURS; answered, whether
\* last_reply_at is not before it; approved is first_email_approved.
Supplier == [known: BOOLEAN, listed: BOOLEAN, active: BOOLEAN, left: BOOLEAN,
             silent: BOOLEAN, note: {"none", "auto", "staff"}, streak: Nat,
             lastRfq: {"never", "recent", "old"}, answered: BOOLEAN, approved: BOOLEAN]
Letter == [state: {"absent", "waiting", "active", "sent", "marked", "stalled",
                   "done", "failed"},
           found: BOOLEAN, fails: Nat, stalls: Nat]

NoSupplier == [known |-> FALSE, listed |-> FALSE, active |-> FALSE, left |-> FALSE,
               silent |-> FALSE, note |-> "none", streak |-> 0, lastRfq |-> "never",
               answered |-> FALSE, approved |-> FALSE]
NoLetter == [state |-> "absent", found |-> FALSE, fails |-> 0, stalls |-> 0]

SupplierInit ==
    /\ supplier = NoSupplier
    /\ letter = [r \in Rfqs |-> NoLetter]
    /\ deadLetters = {} /\ owed = 0
    /\ supplierTroubles = 0 /\ supplierClicks = 0

LetterIs(r, states) == letter[r].state \in states
MoveLetter(r, state) == letter' = [letter EXCEPT ![r].state = state]
Uncounted == {r \in Rfqs : LetterIs(r, {"sent"})}

-----------------------------------------------------------------------------
\* The director's buttons (routes/partners.ts).
Press ==
    /\ supplier.known
    /\ supplierClicks < SupplierClicks /\ supplierClicks' = supplierClicks + 1
    /\ UNCHANGED sjobs

\* POST: the three rows are one transaction; the address counts as approved.
AddSupplier ==
    /\ ~supplier.known
    /\ supplier' = [NoSupplier EXCEPT !.known = TRUE, !.listed = TRUE, !.active = TRUE,
                                      !.approved = TRUE]
    /\ UNCHANGED <<sjobs, owed, supplierClicks>>

Silence ==
    /\ Press
    /\ \E note \in {"staff", supplier.note} :
         supplier' = [supplier EXCEPT !.silent = TRUE, !.note = note]
    /\ UNCHANGED owed

Reactivate ==
    /\ Press
    /\ supplier' = [supplier EXCEPT !.listed = TRUE, !.active = TRUE, !.left = FALSE,
                                    !.silent = FALSE, !.note = "none"]
    /\ UNCHANGED owed

LeaveMarket ==
    /\ Press
    /\ \E note \in {"staff", supplier.note} :
         supplier' = [supplier EXCEPT !.left = TRUE, !.silent = FALSE, !.note = note]
    /\ UNCHANGED owed

PauseSupplier ==
    /\ Press
    /\ supplier' = [supplier EXCEPT !.listed = FALSE, !.active = FALSE]
    /\ UNCHANGED owed

-----------------------------------------------------------------------------
\* list_supplier_rfq_emails: who is asked in the first place.
Enlisted(s) == s.listed /\ s.active /\ ~s.left /\ ~s.silent

\* dispatch_supplier_rfqs: when that leaves nobody (others says whether it
\* does), every approved address is asked.  find_and_request (found) goes to
\* an address found on a website instead.
AskSupplier(r) ==
    /\ LetterIs(r, {"absent"})
    /\ \E found, others \in BOOLEAN :
         /\ ~found => supplier.approved /\ (Enlisted(supplier) \/ ~others)
         /\ letter' = [letter EXCEPT ![r] = [NoLetter EXCEPT !.state = "waiting", !.found = found]]
    /\ UNCHANGED <<supplier, deadLetters, owed, supplierTroubles, supplierClicks>>

\* markSupplierRfqSent: nothing for a supplier that was paused or left, or
\* whose address is nobody's contact yet.
Counted(s) == IF s.active /\ ~s.left
              THEN [s EXCEPT !.streak = @ + 1, !.lastRfq = "recent", !.answered = FALSE]
              ELSE s
\* Mutant: the letter is counted when its job starts, before it is sent.
TakeLetter_count_first(r) ==
    /\ LetterIs(r, {"waiting"})
    /\ MoveLetter(r, "active")
    /\ supplier' = Counted(supplier)
    /\ UNCHANGED <<deadLetters, owed, supplierTroubles, supplierClicks>>

TakeLetter(r) ==
    /\ LetterIs(r, {"waiting"})
    /\ MoveLetter(r, "active")
    /\ UNCHANGED <<supplier, deadLetters, owed, supplierTroubles, supplierClicks>>

\* A found address that is neither whitelisted nor approved is not written to:
\* staff are alerted and the job is over.
AskFirst(r) ==
    /\ LetterIs(r, {"active"})
    /\ letter[r].found /\ ~supplier.approved
    /\ MoveLetter(r, "done")
    /\ UNCHANGED <<supplier, deadLetters, owed, supplierTroubles, supplierClicks>>

SendLetter(r) ==
    /\ LetterIs(r, {"active"})
    /\ MoveLetter(r, "sent")
    /\ owed' = owed + 1
    /\ UNCHANGED <<supplier, deadLetters, supplierTroubles, supplierClicks>>

MarkSent(r) ==
    /\ LetterIs(r, {"sent"})
    /\ supplier' = Counted(supplier)
    /\ MoveLetter(r, "marked")
    /\ UNCHANGED <<deadLetters, owed, supplierTroubles, supplierClicks>>

CompleteLetter(r) ==
    /\ LetterIs(r, {"marked"})
    /\ MoveLetter(r, "done")
    /\ UNCHANGED <<supplier, deadLetters, owed, supplierTroubles, supplierClicks>>

SupplierTrouble ==
    /\ supplierTroubles < SupplierTroubles
    /\ supplierTroubles' = supplierTroubles + 1
    /\ UNCHANGED <<supplier, owed, supplierClicks>>

\* A step throws: the dead letter queue gets an entry, and BullMQ tries the
\* whole job again until its attempts are used up.
Retried(r) == [letter EXCEPT ![r].fails = @ + 1,
                             ![r].state = IF letter[r].fails + 1 < LetterAttempts
                                          THEN "waiting" ELSE "failed"]
FailLetter(r) ==
    /\ LetterIs(r, {"active", "sent"})
    /\ SupplierTrouble
    /\ letter' = Retried(r)
    /\ deadLetters' = deadLetters \cup {r}

\* The worker dies: its jobs stall, and are run again at most LetterStalls times.
LetterWorkerDies ==
    /\ SupplierTrouble
    /\ letter' = [r \in Rfqs |->
                    IF LetterIs(r, {"active", "sent", "marked"})
                    THEN [letter[r] EXCEPT !.state = "stalled"] ELSE letter[r]]
    /\ UNCHANGED deadLetters

Unstall(r) ==
    /\ LetterIs(r, {"stalled"})
    /\ letter' = [letter EXCEPT ![r].stalls = @ + 1,
                                ![r].state = IF letter[r].stalls < LetterStalls
                                             THEN "waiting" ELSE "failed"]
    /\ UNCHANGED <<supplier, deadLetters, owed, supplierTroubles, supplierClicks>>

-----------------------------------------------------------------------------
\* Mutant: a reply lifts every silence, the director's too.
Answered_any(s) == [s EXCEPT !.answered = TRUE, !.streak = 0, !.silent = FALSE, !.note = "none"]

\* markSupplierReplied, when the IMAP sync takes up a mail of the supplier.
\* Letters on their way to being counted are counted after the reply.
Answered(s) == [s EXCEPT !.answered = TRUE, !.streak = 0,
                         !.silent = s.silent /\ s.note # "auto",
                         !.note = IF s.silent /\ s.note = "auto" THEN "none" ELSE s.note]
SupplierReplies ==
    /\ supplier.known
    /\ supplier' = Answered(supplier)
    /\ owed' = Cardinality(Uncounted)
    /\ UNCHANGED <<sjobs, supplierClicks>>

HoursPass ==
    /\ supplier.lastRfq = "recent"
    /\ supplier' = [supplier EXCEPT !.lastRfq = "old"]
    /\ UNCHANGED <<sjobs, owed, supplierClicks>>

\* autoMarkSilentSuppliers, every half an hour.
Overdue(s) ==
    /\ s.active /\ ~s.left /\ ~s.silent /\ s.lastRfq # "never"
    /\ s.streak >= SilentStreak \/ (s.lastRfq = "old" /\ ~s.answered)
\* Mutant: the mark is worded in a way the reply does not look for.
AutoSilence_reworded ==
    /\ Overdue(supplier)
    /\ supplier' = [supplier EXCEPT !.silent = TRUE, !.note = "overdue"]
    /\ UNCHANGED <<sjobs, owed, supplierClicks>>

AutoSilence ==
    /\ Overdue(supplier)
    /\ supplier' = [supplier EXCEPT !.silent = TRUE, !.note = "auto"]
    /\ UNCHANGED <<sjobs, owed, supplierClicks>>

WorkLetter(r) == \/ TakeLetter(r) \/ AskFirst(r) \/ SendLetter(r) \/ MarkSent(r)
                 \/ CompleteLetter(r) \/ Unstall(r)
SupplierNext ==
    \/ AddSupplier \/ Silence \/ Reactivate \/ LeaveMarket \/ PauseSupplier
    \/ SupplierReplies \/ HoursPass \/ AutoSilence \/ LetterWorkerDies
    \/ \E r \in Rfqs : AskSupplier(r) \/ WorkLetter(r) \/ FailLetter(r)

SupplierSpec == SupplierInit /\ [][SupplierNext]_svars

-----------------------------------------------------------------------------
\* Every column keeps its type; no job is attempted more often than it may be.
SupplierTypeOK ==
    /\ supplier \in Supplier
    /\ letter \in [Rfqs -> Letter]
    /\ \A r \in Rfqs : letter[r].fails <= LetterAttempts /\ letter[r].stalls <= LetterStalls + 1
    /\ deadLetters \subseteq Rfqs
    /\ owed \in Nat
    /\ supplierTroubles \in 0..SupplierTroubles /\ supplierClicks \in 0..SupplierClicks

\* no_reply_streak never counts a letter the supplier did not get, or one it
\* has answered: whatever is retried, dies half way or is answered meanwhile,
\* a supplier is not called silent for letters that were not sent.
StreakIsOwed ==
    supplier.streak + Cardinality(Uncounted) <= owed

\* A silence the director gave a reason for is lifted by the director alone,
\* not by a reply, and not by way of an automatic mark on top of it.
StaffSilenceKept ==
    [][supplier.silent /\ supplier.note = "staff" /\ supplierClicks' = supplierClicks
         => supplier'.silent /\ supplier'.note = "staff"]_svars
=============================================================================
