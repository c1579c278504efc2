----------------------------- MODULE MailSender -----------------------------
(***************************************************************************)
(* How a letter leaves: the rate limit of the process, the account's token *)
(* and the ways to the mail server, tried one after another.  The worker   *)
(* sends two letters at a time.                                            *)
(***************************************************************************)
EXTENDS Naturals, FiniteSets, Sequences

CONSTANTS
    Senders,            \* jobs that may send at a time (2)
    MinuteMax,          \* MAIL_MAX_SEND_PER_MINUTE (30)
    Window,             \* 60 s, in the model's ticks
    TokenLife,          \* expires_in, in ticks
    ClockMax            \* bound: ticks

ASSUME SenderAssumption ==
    /\ IsFiniteSet(Senders) /\ MinuteMax \in Nat \ {0}
    /\ Window \in Nat \ {0} /\ ClockMax \in Nat \ {0}
    /\ TokenLife \in Nat /\ TokenLife >= Window     \* Math.max(60, expires_in)

VARIABLES
    mailNow,            \* Date.now()
    sentAt,             \* when letters were admitted in the last minute
    admissions,         \* when all letters were admitted
    mailAuth,           \* MAIL_AUTH_MODE: app_password or oauth2
    mailProxy,          \* mailProxyUrl: the proxy is switched on and named
    tokenExp,           \* _oauthCache: when the token expires (0: none)
    mailJobs             \* per job: where its letter is, its token, the ways tried

mvars == <<mailNow, sentAt, admissions, mailAuth, mailProxy, tokenExp, mailJobs>>

NotSending == [at |-> "idle", exp |-> 0, took |-> 0, tried |-> 0, expired |-> FALSE]

SenderInit ==
    /\ mailNow = 1 /\ sentAt = <<>> /\ admissions = <<>>
    /\ mailAuth \in {"app_password", "oauth2"} /\ mailProxy \in BOOLEAN
    /\ tokenExp = 0
    /\ mailJobs = [s \in Senders |-> NotSending]

Sends(s, r) == mailJobs' = [mailJobs EXCEPT ![s] = r]

\* Mutant: a letter leaves the window a moment early.
InWindow_open(t) == mailNow - t < Window

\* sentAt keeps what is not older than a minute.
InWindow(t) == mailNow - t <= Window

\* How many are shifted off the front: up to the first one in the window.
Gone == CHOOSE n \in 0..Len(sentAt) :
            /\ \A i \in 1..n : ~InWindow(sentAt[i])
            /\ n < Len(sentAt) => InWindow(sentAt[n + 1])

\* emailRateOk: a letter beyond the limit fails with email_rate_limited.
Admit(s) ==
    /\ mailJobs[s].at = "idle"
    /\ LET recent == SubSeq(sentAt, Gone + 1, Len(sentAt))
           ok == Len(recent) < MinuteMax
       IN /\ sentAt' = IF ok THEN Append(recent, mailNow) ELSE recent
          /\ admissions' = IF ok THEN Append(admissions, mailNow) ELSE admissions
          /\ Sends(s, [NotSending EXCEPT !.at = IF ok THEN "endpoints" ELSE "idle"])
    /\ UNCHANGED <<mailNow, mailAuth, mailProxy, tokenExp>>

\* Mutant: the token is used to its last moment.
TokenServes_to_the_end == tokenExp > mailNow

\* A token is used again while it has more than a minute to live.
TokenServes == tokenExp > mailNow + Window

\* resolveMailEndpoints: a password needs nothing; a token may have to be asked
\* for, and without one there is no way to send.
Resolve(s) ==
    /\ mailJobs[s].at = "endpoints"
    /\ IF mailAuth = "app_password" \/ TokenServes
       THEN /\ Sends(s, [mailJobs[s] EXCEPT !.at = "ways", !.exp = tokenExp, !.took = mailNow])
            /\ UNCHANGED tokenExp
       ELSE Sends(s, [mailJobs[s] EXCEPT !.at = "token"]) /\ UNCHANGED tokenExp
    /\ UNCHANGED <<mailNow, sentAt, admissions, mailAuth, mailProxy>>

\* fetchOAuthAccessToken: two jobs may both ask; the later answer is kept.
TokenComes(s) ==
    /\ mailJobs[s].at = "token"
    /\ \/ /\ tokenExp' = mailNow + TokenLife
          /\ Sends(s, [mailJobs[s] EXCEPT !.at = "ways", !.exp = tokenExp', !.took = mailNow])
       \/ Sends(s, [mailJobs[s] EXCEPT !.at = "unsent"]) /\ UNCHANGED tokenExp
    /\ UNCHANGED <<mailNow, sentAt, admissions, mailAuth, mailProxy>>

\* mailProxyUrl doubles the ways: over the proxy first, then without; each by the
\* port that is set, then by the other one of 465 and 587.
Ways == IF mailProxy THEN 4 ELSE 2

\* verify() of the next way: the server answers, refuses, or nothing is reached;
\* a token that has expired is refused.  After the last one there is no transport.
TryWay(s) ==
    LET l == mailJobs[s]
        live == mailAuth = "app_password" \/ l.exp > mailNow
    IN /\ l.at = "ways"
       /\ \/ live /\ Sends(s, [l EXCEPT !.at = "open"])
          \/ Sends(s, [l EXCEPT !.tried = @ + 1, !.expired = @ \/ ~live,
                                !.at = IF l.tried + 1 = Ways THEN "unsent" ELSE @])
    /\ UNCHANGED <<mailNow, sentAt, admissions, mailAuth, mailProxy, tokenExp>>

\* sendMail, or smtp_not_configured; the worker takes another job.
LetterLeaves(s) ==
    /\ mailJobs[s].at \in {"open", "unsent"}
    /\ Sends(s, NotSending)
    /\ UNCHANGED <<mailNow, sentAt, admissions, mailAuth, mailProxy, tokenExp>>

\* Time passes; an attempt to connect ends within one tick.
MailClock ==
    /\ mailNow < ClockMax /\ mailNow' = mailNow + 1
    /\ UNCHANGED <<sentAt, admissions, mailAuth, mailProxy, tokenExp, mailJobs>>

SenderNext ==
    \/ MailClock
    \/ \E s \in Senders : Admit(s) \/ Resolve(s) \/ TokenComes(s) \/ TryWay(s) \/ LetterLeaves(s)
SenderSpec == SenderInit /\ [][SenderNext]_mvars

-----------------------------------------------------------------------------
\* Every variable keeps its type.
SenderTypeOK ==
    /\ mailNow \in 1..ClockMax /\ sentAt \in Seq(1..ClockMax) /\ admissions \in Seq(1..ClockMax)
    /\ mailAuth \in {"app_password", "oauth2"} /\ mailProxy \in BOOLEAN
    /\ tokenExp \in 0..(ClockMax + TokenLife)
    /\ mailJobs \in [Senders -> [at: {"idle", "endpoints", "token", "ways", "open", "unsent"},
                                exp: 0..(ClockMax + TokenLife), took: 0..ClockMax,
                                tried: 0..4, expired: BOOLEAN]]

\* In no minute, wherever it begins, are more letters admitted than the limit.
RateKept ==
    \A k \in DOMAIN admissions :
        k + MinuteMax \in DOMAIN admissions => admissions[k + MinuteMax] - admissions[k] > Window

\* A token that was refused as expired had been good for a minute when the letter
\* took it: only a letter that tried its ways that long can lose it.
TokenLasts == \A s \in Senders : mailJobs[s].expired => mailNow - mailJobs[s].took >= Window

\* Both limits of the mailer, the one of the minute and the one of the token.
SendingKeepsLimits == RateKept /\ TokenLasts
=============================================================================
