----------------------------- MODULE MailLedger -----------------------------
(***************************************************************************)
(* What the reading of the mailbox promises, whatever the IMAP sync does   *)
(* on the way: a mail that was taken in is settled, once and for good; it  *)
(* is lost, or new again, only when something broke, and a lost one turns  *)
(* up again only if another sync had it on its list.                       *)
(***************************************************************************)
EXTENDS Naturals
CONSTANT Mails
VARIABLES
    status,     \* per mail
    breaks      \* how often something broke

Statuses == {"away", "new", "taken", "settled", "lost"}

Init == status = [m \in Mails |-> "away"] /\ breaks = 0

Turn(m, from, to) ==
    /\ status[m] = from
    /\ status' = [status EXCEPT ![m] = to]
    /\ UNCHANGED breaks

Arrive(m) == Turn(m, "away", "new")
TakeIn(m) == Turn(m, "new", "taken") \/ Turn(m, "lost", "taken")
Settle(m) == Turn(m, "taken", "settled")

Taken == {m \in Mails : status[m] = "taken"}

\* What breaks loses the mails it has flagged, all at once; those it has not
\* flagged are new again.
Break ==
    /\ breaks' = breaks + 1
    /\ \E lost \in SUBSET Taken : \E again \in SUBSET (Taken \ lost) :
         status' = [m \in Mails |-> IF m \in lost THEN "lost"
                                   ELSE IF m \in again THEN "new" ELSE status[m]]

Next == Break \/ \E m \in Mails : Arrive(m) \/ TakeIn(m) \/ Settle(m)

Spec == Init /\ [][Next]_<<status, breaks>>
=============================================================================
