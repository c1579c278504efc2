---------------------------- MODULE ChatAccounts ----------------------------
(***************************************************************************)
(* Several Telegram accounts in one gateway.  Every account has a loop     *)
(* that connects it, and the loops run at once and hand their session over *)
(* in process.env, which they share; answers leave through the senders, by *)
(* the account the router gives them.                                      *)
(***************************************************************************)
EXTENDS Naturals

CONSTANTS
    Accounts,       \* TG_ACCOUNTS_JSON, as a set
    AccountChats,   \* clients
    NoAccount,      \* no account: not an account
    Routes,         \* how many ways there are to connect: proxies, then direct
    AccountWrites,  \* bound: messages of clients, resumed deals and approved KPs
    AccountTroubles,\* bound: failed connections and catch-ups
    AccountStops    \* bound: restarts

ASSUME AccountAssumption ==
    /\ NoAccount \notin Accounts
    /\ Routes \in Nat \ {0}
    /\ AccountWrites \in Nat /\ AccountTroubles \in Nat /\ AccountStops \in Nat

VARIABLES
    known,          \* the accounts of the environment at this start
    env_session,    \* process.env.TG_STRING_SESSION
    loops,          \* startAccountLoop of each account: the session it took
    live,           \* the sessions of each account's clients that hear messages
    senders,        \* the map of the gateway: a session, or none
    sticky,         \* of TgAccountRouter: the last account of a chat
    met,            \* history: per chat, the accounts that heard or answered it
    replies,        \* the outbound queue, [chat, account, wrote, left]
    sentBy,         \* history: answers as [wrote, by, known, met]
    accountLuck     \* bound: what is left of writes, troubles and stops

yvars == <<known, env_session, loops, live, senders, sticky, met, replies, sentBy, accountLuck>>

SendAttempts == 3
Resting == [at |-> "start", session |-> NoAccount, route |-> 0]
Spend(what) == accountLuck[what] > 0 /\ accountLuck' = [accountLuck EXCEPT ![what] = @ - 1]

AccountsInit ==
    /\ known = Accounts /\ env_session = NoAccount
    /\ loops = [a \in Accounts |-> Resting] /\ live = [a \in Accounts |-> {}]
    /\ senders = [a \in Accounts |-> NoAccount]
    /\ sticky = [c \in AccountChats |-> NoAccount] /\ met = [c \in AccountChats |-> {}]
    /\ replies = {} /\ sentBy = {}
    /\ accountLuck = [writes |-> AccountWrites, troubles |-> AccountTroubles, stops |-> AccountStops]

-----------------------------------------------------------------------------
\* The loop up to the first await of startUserClient: the session goes into the
\* environment and out again before another loop can run.
Open(a) ==
    /\ a \in known /\ loops[a].at = "start"
    /\ env_session' = a
    /\ loops' = [loops EXCEPT ![a] = [at |-> "connect", session |-> a, route |-> 1]]
    /\ UNCHANGED <<known, live, senders, sticky, met, replies, sentBy, accountLuck>>

\* connectWithProxy did not get through: the client is destroyed and the next way
\* is tried; after the last the loop sleeps and begins again.
NotConnected(a) ==
    /\ loops[a].at = "connect" /\ Spend("troubles")
    /\ loops' = [loops EXCEPT ![a] = IF @.route = Routes THEN Resting ELSE [@ EXCEPT !.route = loops[a].route + 1]]
    /\ UNCHANGED <<known, env_session, live, senders, sticky, met, replies, sentBy>>

SessionOf(a) == loops[a].session

Connected(a) ==
    /\ loops[a].at = "connect"
    /\ live' = [live EXCEPT ![a] = @ \cup {SessionOf(a)}]
    /\ senders' = [senders EXCEPT ![a] = SessionOf(a)]
    /\ loops' = [loops EXCEPT ![a].at = "catchup"]
    /\ UNCHANGED <<known, env_session, sticky, met, replies, sentBy, accountLuck>>

\* runStartupCatchUp; when it throws, the sender goes and the client stays.
CaughtUp(a) ==
    /\ loops[a].at = "catchup"
    /\ \/ loops' = [loops EXCEPT ![a].at = "up"] /\ UNCHANGED <<senders, accountLuck>>
       \/ /\ Spend("troubles")
          /\ loops' = [loops EXCEPT ![a] = Resting]
          /\ senders' = [senders EXCEPT ![a] = NoAccount]
    /\ UNCHANGED <<known, env_session, live, sticky, met, replies, sentBy>>

-----------------------------------------------------------------------------
Reply(c, a, wrote) == [chat |-> c, account |-> a, wrote |-> wrote, left |-> SendAttempts]

\* handleInboundMessage: a client writes to a session, and the answer is to leave
\* by the account whose loop made the client that heard it.
Heard(c, a, s) ==
    /\ s \in live[a] /\ Spend("writes")
    /\ sticky' = [sticky EXCEPT ![c] = a]
    /\ met' = [met EXCEPT ![c] = @ \cup {a}]
    /\ replies' = replies \cup {Reply(c, a, s)}
    /\ UNCHANGED <<known, env_session, loops, live, senders, sentBy>>

\* A deal resumed at the start: every account resumes them all, the first one does.
Resumed(c, a) ==
    /\ loops[a].at = "catchup" /\ Spend("writes")
    /\ replies' = replies \cup {Reply(c, a, NoAccount)}
    /\ UNCHANGED <<known, env_session, loops, live, senders, sticky, met, sentBy>>

\* approve-kp: the API sends the KP that was held, and names no account.
Released(c) ==
    /\ Spend("writes")
    /\ replies' = replies \cup {Reply(c, NoAccount, NoAccount)}
    /\ UNCHANGED <<known, env_session, loops, live, senders, sticky, met, sentBy>>

\* assign: the account of the answer, else the chat's last one, else the one whose
\* turn it is (any, here).
\* Mutant: the chat's last account goes first.
Assigned_sticky(c, preferred) ==
    CASE sticky[c] \in known -> {sticky[c]}
      [] sticky[c] \notin known /\ preferred \in known -> {preferred}
      [] OTHER -> known
Assigned(c, preferred) ==
    CASE preferred \in known -> {preferred}
      [] preferred \notin known /\ sticky[c] \in known -> {sticky[c]}
      [] OTHER -> known

\* An answer as it leaves by the account a; what it is due to, when it names none.
Left(job, a) == [wrote |-> job.wrote, by |-> senders[a], known |-> job.account \in known,
                 met |-> IF job.account = NoAccount THEN met[job.chat] ELSE {}]

\* The outbound worker: no sender, no answer, and one attempt less.
Send(job) ==
    /\ job \in replies
    /\ \E a \in Assigned(job.chat, job.account) :
           /\ sticky' = [sticky EXCEPT ![job.chat] = a]
           /\ met' = [met EXCEPT ![job.chat] = IF job.account \in known THEN @ \cup {a} ELSE @]
           /\ \/ /\ senders[a] # NoAccount
                 /\ sentBy' = sentBy \cup {Left(job, a)}
                 /\ replies' = replies \ {job}
              \/ /\ senders[a] = NoAccount
                 /\ replies' = (replies \ {job}) \cup
                      (IF job.left = 1 THEN {} ELSE {[job EXCEPT !.left = @ - 1]})
                 /\ UNCHANGED sentBy
    /\ UNCHANGED <<known, env_session, loops, live, senders, accountLuck>>

\* The gateway restarts, perhaps without an account it had; the queue is in Redis.
Restart(kept) ==
    /\ Spend("stops") /\ kept \subseteq known /\ kept # {}
    /\ known' = kept /\ env_session' = NoAccount
    /\ loops' = [a \in Accounts |-> Resting] /\ live' = [a \in Accounts |-> {}]
    /\ senders' = [a \in Accounts |-> NoAccount]
    /\ sticky' = [c \in AccountChats |-> NoAccount] /\ met' = [c \in AccountChats |-> {}]
    /\ UNCHANGED <<replies, sentBy>>

AccountsNext ==
    \/ \E a \in Accounts : \/ Open(a) \/ NotConnected(a) \/ Connected(a) \/ CaughtUp(a)
                           \/ \E c \in AccountChats : \/ Resumed(c, a)
                                                      \/ \E s \in Accounts : Heard(c, a, s)
    \/ \E c \in AccountChats : Released(c)
    \/ \E job \in replies : Send(job)
    \/ \E kept \in SUBSET Accounts : Restart(kept)
AccountsSpec == AccountsInit /\ [][AccountsNext]_yvars

-----------------------------------------------------------------------------
\* Every variable keeps its type.
AccountsTypeOK ==
    LET Some == Accounts \cup {NoAccount}
    IN  /\ known \subseteq Accounts /\ env_session \in Some
        /\ loops \in [Accounts -> [at: {"start", "connect", "catchup", "up"}, session: Some, route: 0..Routes]]
        /\ live \in [Accounts -> SUBSET Accounts] /\ senders \in [Accounts -> Some]
        /\ sticky \in [AccountChats -> Some]
        /\ met \in [AccountChats -> SUBSET Accounts]
        /\ replies \subseteq [chat: AccountChats, account: Some, wrote: Some, left: 1..SendAttempts]

\* While loops connect and fail at once, sharing one environment, and chats move
\* from one account to another, an answer leaves by the Telegram session its client
\* wrote to: by no other, unless that account is no longer configured.  An answer
\* of a resumed deal is not claimed: the account that resumed it first sends it.
\* A KP that staff released names no account: it leaves by one that has heard or
\* answered the chat since the restart, and by any when none has.
AnsweredByItsAccount ==
    \A s \in sentBy : /\ s.known /\ s.wrote # NoAccount => s.by = s.wrote
                      /\ s.met # {} => s.by \in s.met
=============================================================================
