------------------------------ MODULE StaffPeer ------------------------------
(***************************************************************************)
(* The staff room's plain language: a message is understood by patterns    *)
(* first and by GPT when they are not sure, and acts on the deal it names, *)
(* or on the deals it is taken to mean.  A hint is applied to each of them *)
(* in turn, by reading the deal, writing it back whole, and asking the     *)
(* orchestrator to go on - to send the RFQ letters, if that was said.      *)
(***************************************************************************)
EXTENDS Naturals, FiniteSets, FiniteSetsExt

CONSTANTS
    StaffDeals, NoDeal,
    Lane,           \* the deals on the route that a hint about a scheme names
    Posts,          \* bound: messages in the room
    Speech,         \* bound: what a message says, a set of its telling words
    PeerClosures    \* bound: deals that are closed meanwhile

ASSUME PeerAssumption ==
    /\ NoDeal \notin StaffDeals /\ Lane \subseteq StaffDeals /\ IsFiniteSet(StaffDeals)
    /\ IsFiniteSet(Posts) /\ PeerClosures \in Nat

VARIABLES
    hinted,         \* per deal: closed, paused, and what staff said of its RFQ
    post,           \* per message: how far its handler is
    rfqFor,         \* per deal: the messages that had its RFQ sent
    closures

pvars == <<hinted, post, rfqFor, closures>>

\* hold: hold_rfq, consult_manager; gate: require_manager_approve; mails, draft:
\* staff_rfq_emails, staff_rfq_body.  bound records what staff said last: keep
\* the RFQ back, or send it.
NewDeal == [closed |-> FALSE, paused |-> FALSE, hold |-> FALSE, gate |-> FALSE,
            mails |-> FALSE, draft |-> FALSE, bound |-> FALSE]
NoPatch == [hold |-> "keep", gate |-> "keep", mails |-> FALSE, draft |-> FALSE,
            rerun |-> FALSE, all |-> FALSE]
\* todo: deals the hint is still to be applied to; d, body: the one at hand, and
\* its row as it was read; want: the RFQ is to go; how: the deal was named, by staff
\* or by GPT, was found by a query of GPT's, or was picked among the open ones;
\* shut: deals that were closed when the message was handled.
Unsaid == [at |-> "unsaid", words |-> {}, aim |-> NoDeal, patch |-> NoPatch, rfqIntent |-> FALSE,
           todo |-> {}, d |-> NoDeal, body |-> NewDeal, want |-> FALSE, how |-> "named", shut |-> {}]

PeerInit ==
    /\ hinted = [d \in StaffDeals |-> NewDeal]
    /\ post = [p \in Posts |-> Unsaid]
    /\ rfqFor = [d \in StaffDeals |-> {}]
    /\ closures = 0

PostIs(p, step) == post[p].at = step
Over(k) == [k EXCEPT !.at = IF k.todo = {} THEN "done" ELSE "todo", !.d = NoDeal,
                     !.body = NewDeal, !.want = FALSE]
PostTo(p, k) == post' = [post EXCEPT ![p] = k]

-----------------------------------------------------------------------------
(***************************************************************************)
(* What the patterns find.  "go" stands for the Russian for "send",        *)
(* "dont" for "do not send", "ok_rfq" and "ok_kp" for "approve the RFQ"    *)
(* and "approve the KP", "send_rfq" for "post the RFQ".                    *)
(***************************************************************************)
\* The pattern of "send" finds "do not send" as well.
SendNow(words) == words \cap {"go", "dont", "ok_rfq"} # {}

\* parseOpsHint: "do not send" and "wait" hold the RFQ, unless it is to be sent;
\* addresses and a text hold it until it is.
HintWords == {"scheme", "rule", "mail", "block", "draft", "go", "dont", "wait", "ok_rfq",
              "send_rfq", "both", "calc"}
ParseHint(words) ==
    LET held == words \cap {"dont", "wait"} # {} /\ ~SendNow(words)
        hold == IF SendNow(words) THEN "off"
                ELSE IF held \/ words \cap {"mail", "block", "draft"} # {} THEN "on" ELSE "keep"
    IN [hold |-> hold, gate |-> IF held THEN "on" ELSE "keep",
        mails |-> "mail" \in words, draft |-> "draft" \in words,
        rerun |-> hold = "off" \/ (hold = "keep" /\ "scheme" \in words),
        all |-> "both" \in words]

\* parseStaffPeerIntent: the first rule that finds its word.
Rules ==
    << <<{"hello"}, "help">>, <<{"escalations"}, "escalations">>, <<{"status"}, "status">>,
       <<{"calc"}, "deal_card">>, <<{"awaiting"}, "awaiting">>,
       <<{"ok_kp", "ok_rfq"}, "approve_kp">>, <<{"reject"}, "reject_deal">>,
       <<{"takeover"}, "takeover">>, <<{"pause"}, "pause">>, <<{"resume"}, "resume">>,
       <<{"cut3"}, "cut3">>, <<{"focus"}, "set_active">>,
       <<{"ok_rfq", "send_rfq"}, "approve_rfq">>, <<HintWords, "ops_hint">> >>
Intent(words, aim) ==
    LET hits == {i \in DOMAIN Rules : Rules[i][1] \cap words # {}}
    IN IF hits # {} THEN Rules[Min(hits)][2]
       ELSE IF aim # NoDeal \/ "card" \in words THEN "deal_card" ELSE "unclear"

ToldIntents == {"help", "escalations", "status", "awaiting"}
DealIntents == {"approve_kp", "reject_deal", "takeover", "pause", "resume", "cut3",
                "set_active", "approve_rfq", "ops_hint"}

\* resolveStaffPeerRequest: a rule that is sure is not put to GPT; GPT may read
\* any intent into the message, and any deal or a query for one.
Understood(words, aim) ==
    LET found == Intent(words, aim)
        sure == found \in ToldIntents \/ (found \in DealIntents /\ aim # NoDeal)
        patch == IF words \cap HintWords # {} THEN ParseHint(words) ELSE NoPatch
    IN IF sure THEN {[intent |-> found, deal |-> aim, patch |-> patch, query |-> FALSE]}
       ELSE [intent : {found, "answer", "observe"} \cup ToldIntents \cup DealIntents,
             deal : StaffDeals \cup {aim}, patch : {patch}, query : BOOLEAN]

\* resolveDealId: the deal that is named, or the only hit of the query.  The
\* search asks for no status: a hit may be closed.
Located(req) ==
    IF req.deal # NoDeal \/ ~req.query THEN {[deal |-> req.deal, how |-> "named"]}
    ELSE [deal : StaffDeals \cup {NoDeal}, how : {"found"}]

\* Mutant: deals that are closed are picked too.
Picked_closed(pool, words, patch) ==
    LET same == IF "scheme" \in words THEN pool \cap Lane ELSE {}
        chosen == IF same # {} THEN same ELSE pool
    IN IF patch.all \/ Cardinality(chosen) = 1 \/ Cardinality(same) > 1 THEN chosen ELSE {}

\* pickOpenDealsForOpsHint: the deals on the route, or the only one there is.
Picked(pool, words, patch) ==
    LET open == {d \in pool : ~hinted[d].closed}
        same == IF "scheme" \in words THEN open \cap Lane ELSE {}
        chosen == IF same # {} THEN same ELSE open
    IN IF patch.all \/ Cardinality(chosen) = 1 \/ Cardinality(same) > 1 THEN chosen ELSE {}

-----------------------------------------------------------------------------
Say(p) ==
    /\ PostIs(p, "unsaid")
    /\ \E words \in Speech, aim \in StaffDeals \cup {NoDeal} :
         PostTo(p, [post[p] EXCEPT !.at = "said", !.words = words, !.aim = aim])
    /\ UNCHANGED <<hinted, rfqFor, closures>>

\* The clicks by word of mouth; an approval and a discount give a deal a status
\* of its own, closed or not.
Clicked(row, intent) ==
    CASE intent = "reject_deal" -> [row EXCEPT !.closed = TRUE]
      [] intent \in {"takeover", "pause"} -> [row EXCEPT !.paused = TRUE]
      [] intent = "resume" -> [row EXCEPT !.paused = FALSE]
      [] intent = "approve_kp" -> [row EXCEPT !.closed = FALSE, !.paused = FALSE]
      [] intent = "cut3" -> [row EXCEPT !.closed = FALSE]
      [] OTHER -> row
Applying(p, deals, how, patch, rfqIntent) ==
    PostTo(p, Over([post[p] EXCEPT !.todo = deals, !.how = how, !.patch = patch,
                                   !.rfqIntent = rfqIntent,
                                   !.shut = {d \in StaffDeals : hinted[d].closed}]))

\* handleStaffPeer.  A deal that nobody named is searched for, in what the search
\* finds and then among the open ones; when that leaves more than one, staff
\* are asked.  An answer that sounds like a hint is one.  approve_rfq lifts the
\* hold and the gate.
Handle(p) ==
    /\ PostIs(p, "said")
    /\ \E req \in Understood(post[p].words, post[p].aim) : \E it \in Located(req) :
         LET words == post[p].words
             hint == words \cap HintWords # {}
         IN \/ /\ req.intent = "ops_hint" /\ it.deal = NoDeal
               /\ \E found \in SUBSET StaffDeals :
                    LET first == Picked(found, words, req.patch)
                        deals == IF first # {} THEN first
                                 ELSE Picked({d \in StaffDeals : ~hinted[d].closed},
                                             words, req.patch)
                    IN Applying(p, deals, "picked", req.patch, FALSE)
               /\ UNCHANGED hinted
            \/ /\ it.deal # NoDeal
               /\ \/ req.intent = "ops_hint"
                  \/ req.intent = "answer" /\ hint
               /\ Applying(p, {it.deal}, it.how,
                           [req.patch EXCEPT !.rerun = @ /\ req.intent = "ops_hint"], FALSE)
               /\ UNCHANGED hinted
            \/ /\ it.deal # NoDeal /\ req.intent = "approve_rfq"
               /\ Applying(p, {it.deal}, it.how,
                           [NoPatch EXCEPT !.hold = "off", !.gate = "off", !.rerun = TRUE], TRUE)
               /\ UNCHANGED hinted
            \/ /\ req.intent = "approve_rfq" => it.deal = NoDeal
               /\ req.intent = "answer" /\ hint => it.deal = NoDeal
               /\ req.intent # "ops_hint"
               /\ hinted' = IF it.deal = NoDeal THEN hinted
                            ELSE [hinted EXCEPT ![it.deal] = Clicked(@, req.intent)]
               /\ Applying(p, {}, it.how, NoPatch, FALSE)
    /\ UNCHANGED <<rfqFor, closures>>

-----------------------------------------------------------------------------
\* applyOpsHintToDeal, deal by deal; one that cannot be read is left out.
ReadDeal(p, d) ==
    /\ PostIs(p, "todo") /\ d \in post[p].todo
    /\ \/ PostTo(p, [post[p] EXCEPT !.at = "read", !.d = d, !.body = hinted[d]])
       \/ PostTo(p, Over([post[p] EXCEPT !.todo = @ \ {d}]))
    /\ UNCHANGED <<hinted, rfqFor, closures>>

Set(old, new) == IF new = "keep" THEN old ELSE new = "on"
Merged(row, patch) ==
    [row EXCEPT !.hold = Set(@, patch.hold), !.gate = Set(@, patch.gate),
                !.mails = @ \/ patch.mails, !.draft = @ \/ patch.draft,
                !.bound = Set(@, patch.hold)]

\* Mutant: the hint is judged by itself, not by what the deal already says.
SafeRerun_patch_only(meta, patch, words) ==
    SendNow(words) \/ (patch.rerun /\ patch.hold # "on" /\ ~patch.mails /\ ~patch.draft)

\* safeOpsRerunRfq.
SafeRerun(meta, patch, words) ==
    SendNow(words) \/ (patch.rerun /\ ~meta.hold /\ ~meta.mails /\ ~meta.draft)

\* The PATCH puts the deal back to quoting, and its pause to what the gate says.
WriteDeal(p) ==
    /\ PostIs(p, "read")
    /\ LET k == post[p]
           meta == Merged(k.body, k.patch)
           row == [meta EXCEPT !.closed = FALSE, !.paused = meta.gate \/ meta.hold]
           want == SafeRerun(meta, k.patch, k.words)
       IN /\ hinted' = [hinted EXCEPT ![k.d] = row]
          /\ PostTo(p, IF meta.hold /\ ~want THEN Over([k EXCEPT !.todo = @ \ {k.d}])
                       ELSE [k EXCEPT !.at = "written", !.body = row, !.want = want])
    /\ UNCHANGED <<rfqFor, closures>>

\* apply-ops-hint; it may not be reached.  Addresses of staff lift the pause.
PostHint(p) ==
    /\ PostIs(p, "written")
    /\ LET k == post[p]
           free == k.body.mails /\ k.want /\ ~k.body.hold
           next == Over([k EXCEPT !.todo = @ \ {k.d}])
       IN /\ \/ /\ hinted' = [hinted EXCEPT ![k.d] = [k.body EXCEPT !.paused = @ /\ ~free]]
                /\ rfqFor' = IF k.want THEN [rfqFor EXCEPT ![k.d] = @ \cup {p}] ELSE rfqFor
             \/ UNCHANGED <<hinted, rfqFor>>
          /\ PostTo(p, next)
    /\ UNCHANGED closures

\* The client, the cabinet or another message closes a deal.
DealCloses(d) ==
    /\ ~hinted[d].closed /\ closures < PeerClosures
    /\ closures' = closures + 1
    /\ hinted' = [hinted EXCEPT ![d].closed = TRUE]
    /\ UNCHANGED <<post, rfqFor>>

PeerNext ==
    \/ \E p \in Posts : \/ Say(p) \/ Handle(p) \/ WriteDeal(p) \/ PostHint(p)
                        \/ \E d \in StaffDeals : ReadDeal(p, d)
    \/ \E d \in StaffDeals : DealCloses(d)
PeerSpec == PeerInit /\ [][PeerNext]_pvars

-----------------------------------------------------------------------------
\* Every variable keeps its type.
PeerTypeOK ==
    /\ hinted \in [StaffDeals -> [closed: BOOLEAN, paused: BOOLEAN, hold: BOOLEAN, gate: BOOLEAN,
                                  mails: BOOLEAN, draft: BOOLEAN, bound: BOOLEAN]]
    /\ \A p \in Posts :
         /\ post[p].at \in {"unsaid", "said", "todo", "read", "written", "done"}
         /\ post[p].words \in Speech \cup {{}} /\ post[p].todo \subseteq StaffDeals
         /\ post[p].d \in post[p].todo \cup {NoDeal}
         /\ post[p].how \in {"named", "found", "picked"} /\ post[p].shut \subseteq StaffDeals
    /\ rfqFor \in [StaffDeals -> SUBSET Posts] /\ closures \in 0..PeerClosures

\* When staff held the RFQ of a deal back - by a word, by naming addresses or a
\* text of their own - no later hint sends it, whatever route or scheme it is
\* about and whoever's it is, until someone says to send it; a hint that read
\* the deal before the hold was written is judged by what it read.
HoldNeedsWord ==
    [][\A d \in StaffDeals : \A p \in rfqFor'[d] \ rfqFor[d] :
         SendNow(post[p].words) \/ post[p].rfqIntent \/ ~post[p].body.bound]_pvars

\* A closed deal comes back only by a click in a message that named it or found
\* it by a query of GPT's - whose search leaves no closed deal out -, or by a hint
\* that is being applied to it; and a hint without a deal of its own brings back
\* only what was open when the hint picked it and has been closed since, however
\* many deals it was meant for and whatever wrote them meanwhile.
ClosedIsNotRevived ==
    [][\A d \in StaffDeals : hinted[d].closed /\ ~hinted'[d].closed =>
         \E p \in Posts : /\ post'[p].at # post[p].at
                          /\ \/ post[p].at = "said" /\ post'[p].how # "picked"
                             \/ /\ post[p].d = d
                                /\ post[p].how = "picked" => d \notin post[p].shut]_pvars

\* What the project's own words claim and the code does not keep: staffPeer.ts
\* lists "do not send" among the words that hold an RFQ, and the prompt of GPT
\* calls it an instruction.
DontMeansDont ==
    \A d \in StaffDeals : \A p \in rfqFor[d] : post[p].words # {"dont"}
=============================================================================
