------------------------------ MODULE MailTriage ------------------------------
(***************************************************************************)
(* What becomes of one letter of the inbox: the rules that look for bulk   *)
(* mail and service mail, the word of GPT, and the choice between a        *)
(* supplier's price, a supplier's answer, a client's request and noise.    *)
(* A letter is the set of its headers and of the kinds of words in it.     *)
(***************************************************************************)
EXTENDS Integers, FiniteSets

CONSTANTS
    TriageWords,        \* bound: the kinds of words a letter may have, of AllWords
    TriageHeads         \* bound: the headers it may have, of AllHeads

AllHeads == {"list", "bulk", "mailer"}
AllWords == {"rate", "tariff", "contract", "invoice", "unsubscribe", "newsletter",
             "security", "service", "route", "amount"}

ASSUME TriageAssumption == TriageWords \subseteq AllWords /\ TriageHeads \subseteq AllHeads

VARIABLES
    letterIn,           \* the letter
    gptOn,                \* MAIL_LLM_INBOUND and a key are there
    gptSaid,            \* what GPT has answered
    mailFound,               \* what the letter was found to be
    mailFate              \* what was done with it

wvars == <<letterIn, gptOn, gptSaid, mailFound, mailFate>>

\* The houses of free mail that also send notices, Yandex being a service too.
Froms == {"firm", "yandex", "mailru", "robot", "nobody"}
Kinds4 == {"supplier_quote", "supplier_other", "client", "noise"}

TriageInit ==
    /\ letterIn \in [from: Froms, heads: SUBSET TriageHeads, words: SUBSET TriageWords,
                     ref: BOOLEAN, price: BOOLEAN]
    /\ gptOn \in BOOLEAN /\ gptSaid = "nothing" /\ mailFound = "new" /\ mailFate = "unread"

-----------------------------------------------------------------------------
Has(l, some) == l.words \cap some # {}

\* calcRequestScore; what its patterns share is in the kinds of words: "rate" is
\* a word of requests and of business, "tariff" of requests only.  (The point for
\* the railway's own mailbox is given to letters of the archive only.)
Score(l) ==
    (IF Has(l, {"invoice", "unsubscribe", "newsletter"}) THEN -3 ELSE 0)
    + (IF Has(l, {"rate", "tariff"}) THEN 2 ELSE 0)
    + Cardinality(l.words \cap {"route", "amount"})
IsCalc(l) == Score(l) >= 2
Business(l) == Has(l, {"rate", "contract", "invoice"})

\* looksLikeNewsletter
Newsletter(l) ==
    \/ "list" \in l.heads /\ ~(IsCalc(l) /\ Business(l))
    \/ l.heads \cap {"bulk", "mailer"} # {}
    \/ l.from = "robot" /\ ~IsCalc(l)
       /\ (~Business(l) \/ Has(l, {"unsubscribe", "newsletter"}))
    \/ Has(l, {"unsubscribe", "newsletter"}) /\ ~IsCalc(l)
       /\ (~Business(l) \/ Has(l, {"unsubscribe"}))
    \/ l.from \in {"yandex", "mailru"} /\ Has(l, {"security"})

\* matchServiceProvider: a domain of the list, or its name anywhere in the letter.
ServiceProvider(l) == l.from = "yandex" \/ Has(l, {"service"})

\* Mutant: a letter of a service provider is never a request.
PreClassify_service_first(l) == Newsletter(l) \/ (ServiceProvider(l) /\ ~l.ref)

\* preClassifyInboundMail
PreClassify(l) == Newsletter(l) \/ (ServiceProvider(l) /\ ~l.ref /\ ~IsCalc(l))

Presort ==
    /\ mailFound = "new" /\ PreClassify(letterIn)
    /\ mailFound' = "noise"
    /\ UNCHANGED <<letterIn, gptOn, gptSaid, mailFate>>

\* Without GPT.
SortByWords ==
    /\ mailFound = "new" /\ ~PreClassify(letterIn) /\ ~gptOn
    /\ mailFound' = IF letterIn.ref THEN IF letterIn.price THEN "supplier_quote" ELSE "supplier_other"
               ELSE IF IsCalc(letterIn) THEN "client" ELSE "noise"
    /\ UNCHANGED <<letterIn, gptOn, gptSaid, mailFate>>

\* Mutant: what GPT calls a client is one.
SortByGpt_unchecked ==
    /\ mailFound = "new" /\ ~PreClassify(letterIn) /\ gptOn
    /\ gptSaid' \in Kinds4
    /\ mailFound' = gptSaid'
    /\ UNCHANGED <<letterIn, gptOn, mailFate>>

SortByGpt ==
    /\ mailFound = "new" /\ ~PreClassify(letterIn) /\ gptOn
    /\ gptSaid' \in Kinds4
    /\ mailFound' = IF gptSaid' = "client" /\ ~IsCalc(letterIn) /\ ~letterIn.ref THEN "noise"
               ELSE gptSaid'
    /\ UNCHANGED <<letterIn, gptOn, mailFate>>

\* No answer, or one that is none of the four: the letter's reference decides.
GptFails ==
    /\ mailFound = "new" /\ ~PreClassify(letterIn) /\ gptOn
    /\ gptSaid' = "failed"
    /\ mailFound' = IF ~letterIn.ref THEN "noise"
               ELSE IF letterIn.price THEN "supplier_quote" ELSE "supplier_other"
    /\ UNCHANGED <<letterIn, gptOn, mailFate>>

\* The branches of imap_sync.  With a reference, a price in the text is a
\* supplier's price whatever the letter was found to be.
ActOnMail ==
    /\ mailFound # "new" /\ mailFate = "unread"
    /\ mailFate' = CASE mailFound = "noise" -> "skipped"
                   [] mailFound = "client" /\ ~letterIn.ref ->
                        IF letterIn.from = "nobody" THEN "skipped" ELSE "concierge"
                   [] mailFound # "noise" /\ letterIn.ref ->
                        IF letterIn.price THEN "quote" ELSE "answer"
                   [] OTHER -> "skipped"
    /\ UNCHANGED <<letterIn, gptOn, gptSaid, mailFound>>

TriageNext == Presort \/ SortByWords \/ SortByGpt \/ GptFails \/ ActOnMail
TriageSpec == TriageInit /\ [][TriageNext]_wvars

-----------------------------------------------------------------------------
\* Every variable keeps its type.
TriageTypeOK ==
    /\ letterIn.from \in Froms /\ letterIn.heads \subseteq AllHeads
    /\ letterIn.words \subseteq AllWords /\ gptOn \in BOOLEAN
    /\ gptSaid \in Kinds4 \cup {"nothing", "failed"} /\ mailFound \in Kinds4 \cup {"new"}
    /\ mailFate \in {"unread", "skipped", "concierge", "quote", "answer"}

\* Words that a request has and a bill or a mailing has not.
Asks(l) == /\ Has(l, {"rate", "tariff"}) \/ {"route", "amount"} \subseteq l.words
           /\ ~Has(l, {"invoice", "unsubscribe", "newsletter"})
\* The exceptions the rules make.
BulkSigns(l) == \/ l.heads \cap {"bulk", "mailer"} # {}
                \/ "list" \in l.heads /\ ~Has(l, {"rate", "contract"})
                \/ l.from \in {"yandex", "mailru"} /\ "security" \in l.words

\* A letter that asks for a rate and names its sender is not skipped over its other
\* words (a service's name, a list header) - unless it carries a sign of bulk
\* mail, or GPT failed on it or took it for something else.
RequestIsHeard ==
    mailFate = "skipped" /\ Asks(letterIn) /\ ~letterIn.ref =>
        \/ BulkSigns(letterIn) \/ letterIn.from = "nobody"
        \/ gptSaid \in {"failed", "noise", "supplier_quote", "supplier_other"}

\* "Never opens a client deal for newsletters/service mail", whatever GPT says:
\* the concierge gets no letter with a sign of bulk mail, none that tells how to
\* unsubscribe, and none without the words of a request.
NoDealForBulk ==
    mailFate = "concierge" =>
        /\ ~BulkSigns(letterIn) /\ "unsubscribe" \notin letterIn.words
        /\ Has(letterIn, {"rate", "tariff"}) \/ {"route", "amount"} \subseteq letterIn.words

MailIsSorted == RequestIsHeard /\ NoDealForBulk
=============================================================================
