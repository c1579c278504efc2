--------------------------- MODULE Gateway_proofs ---------------------------
(***************************************************************************)
(* What holds of the Telegram gateway for every number of accounts, chats  *)
(* and routes, for every set of topics, for every number of troubles and   *)
(* restarts; of the staff topic's peer for every number of deals and of    *)
(* messages; of the staff room for every number of messages, texts, clocks *)
(* and restarts; of media in chats for every number of speech models;      *)
(* of a topic's history for every room, limit and number of failures; and  *)
(* of the proxy's socket for every size of records and of reads.           *)
(***************************************************************************)
EXTENDS ChatAccounts, StaffTopics, StaffPeer, StaffRoom, InboundMedia, TopicHistory, FakeTls,
        FiniteSetTheorems, SequenceTheorems, WellFoundedInduction, TLAPS

-----------------------------------------------------------------------------
(* The accounts.                                                            *)

\* A loop that is past its start works with its own account's session, so its
\* clients hear, and its sender sends, for that account only; an answer waits
\* for the account whose session its client wrote to; and a chat that was heard or
\* answered since the start belongs to an account that did so.
MetInv == \A c \in AccountChats : met[c] \subseteq known /\ (met[c] # {} => sticky[c] \in met[c])
AccountsInv ==
    /\ AccountsTypeOK
    /\ \A a \in Accounts : loops[a].at # "start" => loops[a].session = a
    /\ \A a \in Accounts : live[a] \subseteq {a}
    /\ \A a \in Accounts : senders[a] \in {a, NoAccount}
    /\ \A job \in replies : job.wrote \in {job.account, NoAccount}
    /\ \A a \in Accounts : loops[a].at # "start" \/ live[a] # {} => a \in known
    /\ MetInv
    /\ AnsweredByItsAccount

Sessions == Accounts \cup {NoAccount}
Loop == [at: {"start", "connect", "catchup", "up"}, session: Sessions, route: 0..Routes]
Job == [chat: AccountChats, account: Sessions, wrote: Sessions, left: 1..SendAttempts]

LEMMA AccountTypes ==
    ASSUME AccountsTypeOK
    PROVE  /\ loops \in [Accounts -> Loop]
           /\ replies \subseteq Job
           /\ live \in [Accounts -> SUBSET Accounts] /\ senders \in [Accounts -> Sessions]
           /\ sticky \in [AccountChats -> Sessions] /\ met \in [AccountChats -> SUBSET Accounts]
           /\ Resting \in Loop /\ Resting.at = "start"
           /\ NoAccount \notin Accounts
BY AccountAssumption DEF AccountsTypeOK, Loop, Job, Sessions, Resting

LEMMA AccountsInitInv == AccountsInit => AccountsInv
BY AccountAssumption
   DEF AccountsInit, AccountsInv, AccountsTypeOK, AnsweredByItsAccount, MetInv, Resting

\* Where the router may send an answer: to its own account while that one is
\* configured, else where its chat belongs.
LEMMA AssignedAccount ==
    ASSUME AccountsTypeOK, MetInv, NEW job \in replies, NEW a \in Assigned(job.chat, job.account)
    PROVE  /\ a \in known /\ a \in Accounts
           /\ job.account \in known => a = job.account
           /\ job.account = NoAccount /\ met[job.chat] # {} => a \in met[job.chat]
<1>1. /\ job.chat \in AccountChats /\ NoAccount \notin known /\ known \subseteq Accounts
  BY AccountTypes DEF AccountsTypeOK, Job
<1>2. a \in known /\ (job.account \in known => a = job.account)
  BY DEF Assigned
<1>3. job.account \notin known /\ sticky[job.chat] \in known => a = sticky[job.chat]
  BY DEF Assigned
<1>4. met[job.chat] # {} => sticky[job.chat] \in met[job.chat] /\ met[job.chat] \subseteq known
  BY <1>1 DEF MetInv
<1> QED
  BY <1>1, <1>2, <1>3, <1>4

LEMMA ReplyType ==
    ASSUME NEW c \in AccountChats, NEW a \in Sessions, NEW s \in Sessions
    PROVE  Reply(c, a, s) \in Job
BY DEF Reply, Job, SendAttempts

LEMMA AccountsStepInv == AccountsInv /\ [AccountsNext]_yvars => AccountsInv'
<1> SUFFICES ASSUME AccountsInv, [AccountsNext]_yvars
             PROVE  AccountsInv'
  OBVIOUS
<1> USE DEF AccountsInv
<1>t. /\ loops \in [Accounts -> Loop] /\ replies \subseteq Job
      /\ live \in [Accounts -> SUBSET Accounts] /\ senders \in [Accounts -> Sessions]
      /\ sticky \in [AccountChats -> Sessions] /\ met \in [AccountChats -> SUBSET Accounts]
      /\ Resting \in Loop /\ Resting.at = "start" /\ NoAccount \notin Accounts
  BY AccountTypes
<1>1. ASSUME NEW a \in Accounts, Open(a)
      PROVE  AccountsInv'
  <2>1. [at |-> "connect", session |-> a, route |-> 1] \in Loop
    BY AccountAssumption DEF Loop, Sessions
  <2>2. loops' \in [Accounts -> Loop]
    BY <1>1, <1>t, <2>1 DEF Open
  <2> QED
    BY <1>1, <1>t, <2>2 DEF Open, AccountsTypeOK, AnsweredByItsAccount, MetInv, Loop, Sessions
<1>2. ASSUME NEW a \in Accounts, NotConnected(a)
      PROVE  AccountsInv'
  <2> DEFINE next == IF loops[a].route = Routes THEN Resting
                     ELSE [loops[a] EXCEPT !.route = loops[a].route + 1]
  <2>1. next \in Loop
    <3>1. loops[a].route # Routes => loops[a].route + 1 \in 0..Routes
      <4>1. loops[a] \in Loop
        BY <1>t
      <4>2. loops[a].route \in 0..Routes /\ Routes \in Nat
        BY <4>1, AccountAssumption DEF Loop
      <4> QED BY <4>2
    <3>2. ASSUME NEW l \in Loop, NEW n \in 0..Routes
          PROVE  [l EXCEPT !.route = n] \in Loop
      BY DEF Loop
    <3> QED
      BY <1>t, <3>1, <3>2
  <2>2. loops' \in [Accounts -> Loop]
    <3>1. loops' = [loops EXCEPT ![a] = next]
      BY <1>2 DEF NotConnected
    <3> HIDE DEF next
    <3> QED
      BY <1>t, <2>1, <3>1
  <2>3. \A b \in Accounts : loops'[b].at # "start" =>
            loops[b].at # "start" /\ loops'[b].session = loops[b].session
    BY <1>2, <1>t DEF NotConnected, Loop
  <2> QED
    BY <1>2, <2>2, <2>3 DEF NotConnected, AccountsTypeOK, AnsweredByItsAccount, MetInv, Loop, Sessions
<1>3. ASSUME NEW a \in Accounts, Connected(a)
      PROVE  AccountsInv'
  <2>1. loops[a].session = a
    BY <1>3 DEF Connected
  <2>2. /\ loops' \in [Accounts -> Loop]
        /\ \A b \in Accounts : loops'[b].session = loops[b].session
        /\ \A b \in Accounts : b # a => loops'[b] = loops[b]
    BY <1>3, <1>t DEF Connected, Loop
  <2>3. /\ live' = [live EXCEPT ![a] = @ \cup {a}]
        /\ senders' = [senders EXCEPT ![a] = a]
    BY <1>3, <2>1 DEF Connected, SessionOf
  <2>4. /\ live' \in [Accounts -> SUBSET Accounts] /\ \A b \in Accounts : live'[b] \subseteq {b}
        /\ senders' \in [Accounts -> Sessions] /\ \A b \in Accounts : senders'[b] \in {b, NoAccount}
    BY <1>t, <2>3 DEF Sessions
  <2> QED
    BY <1>3, <2>1, <2>2, <2>4 DEF Connected, AccountsTypeOK, AnsweredByItsAccount, MetInv, Loop, Sessions
<1>4. ASSUME NEW a \in Accounts, CaughtUp(a)
      PROVE  AccountsInv'
  <2>1. /\ loops' \in [Accounts -> Loop]
        /\ \A b \in Accounts : loops'[b].at # "start" =>
             loops[b].at # "start" /\ loops'[b].session = loops[b].session
    <3>1. CASE loops' = [loops EXCEPT ![a].at = "up"]
      <4>1. loops[a].at = "catchup"
        BY <1>4 DEF CaughtUp
      <4> QED BY <1>t, <3>1, <4>1 DEF Loop
    <3>2. CASE loops' = [loops EXCEPT ![a] = Resting]
      BY <1>t, <3>2
    <3> QED BY <1>4, <3>1, <3>2 DEF CaughtUp
  <2>2. /\ senders' \in [Accounts -> Sessions]
        /\ \A b \in Accounts : senders'[b] \in {b, NoAccount}
    BY <1>4, <1>t DEF CaughtUp, Sessions
  <2> QED
    BY <1>4, <2>1, <2>2 DEF CaughtUp, AccountsTypeOK, AnsweredByItsAccount, MetInv, Loop, Sessions
<1>5. ASSUME NEW a \in Accounts, NEW c \in AccountChats, Resumed(c, a)
      PROVE  AccountsInv'
  <2>1. Reply(c, a, NoAccount) \in Job /\ Reply(c, a, NoAccount).wrote = NoAccount
    BY ReplyType DEF Sessions, Reply
  <2> QED
    BY <1>5, <1>t, <2>1 DEF Resumed, AccountsTypeOK, AnsweredByItsAccount, MetInv, Job, Sessions
<1>6. ASSUME NEW a \in Accounts, NEW c \in AccountChats, NEW s \in Accounts, Heard(c, a, s)
      PROVE  AccountsInv'
  <2>1. s = a
    BY <1>6 DEF Heard
  <2>2. Reply(c, a, s) \in Job /\ Reply(c, a, s).wrote = Reply(c, a, s).account
    BY <2>1, ReplyType DEF Sessions, Reply
  <2>3. sticky' \in [AccountChats -> Sessions]
    BY <1>6, <1>t DEF Heard, Sessions
  <2>4. a \in known /\ met' \in [AccountChats -> SUBSET Accounts] /\ MetInv'
    <3>1. /\ sticky' = [sticky EXCEPT ![c] = a] /\ known' = known
          /\ met' = [met EXCEPT ![c] = @ \cup {a}] /\ live[a] # {} /\ MetInv
      BY <1>6 DEF Heard
    <3>2. a \in known
      BY <3>1
    <3> QED BY <1>t, <3>1, <3>2 DEF MetInv
  <2> QED
    BY <1>6, <1>t, <2>2, <2>3, <2>4 DEF Heard, AccountsTypeOK, AnsweredByItsAccount, Job, Sessions
<1>7. ASSUME NEW job \in replies, Send(job)
      PROVE  AccountsInv'
  <2>1. PICK a \in Assigned(job.chat, job.account) :
          /\ sticky' = [sticky EXCEPT ![job.chat] = a]
          /\ met' = [met EXCEPT ![job.chat] = IF job.account \in known THEN @ \cup {a} ELSE @]
          /\ \/ /\ senders[a] # NoAccount
                /\ sentBy' = sentBy \cup {Left(job, a)}
                /\ replies' = replies \ {job}
             \/ /\ senders[a] = NoAccount
                /\ replies' = (replies \ {job}) \cup
                     (IF job.left = 1 THEN {} ELSE {[job EXCEPT !.left = @ - 1]})
                /\ UNCHANGED sentBy
    BY <1>7 DEF Send
  <2>2. /\ a \in known /\ a \in Accounts /\ (job.account \in known => a = job.account)
        /\ job.account = NoAccount /\ met[job.chat] # {} => a \in met[job.chat]
    BY AssignedAccount
  <2>3. sticky' \in [AccountChats -> Sessions] /\ met' \in [AccountChats -> SUBSET Accounts]
    BY <1>t, <2>1, <2>2 DEF Sessions
  <2>4. job \in Job /\ job.wrote \in {job.account, NoAccount} /\ job.chat \in AccountChats
    BY <1>t DEF Job
  <2>5. /\ job.left # 1 => [job EXCEPT !.left = @ - 1] \in Job
        /\ [job EXCEPT !.left = @ - 1].wrote = job.wrote
        /\ [job EXCEPT !.left = @ - 1].account = job.account
    BY <2>4 DEF Job, SendAttempts
  <2>6. replies' \subseteq Job /\ \A r \in replies' : r.wrote \in {r.account, NoAccount}
    BY <1>t, <2>1, <2>4, <2>5
  <2>7. AnsweredByItsAccount'
    <3> DEFINE out == Left(job, a)
    <3>1. /\ out.wrote = job.wrote /\ out.by = senders[a] /\ out.known = (job.account \in known)
          /\ out.met = IF job.account = NoAccount THEN met[job.chat] ELSE {}
      BY DEF Left
    <3> HIDE DEF out
    <3>2. senders[a] # NoAccount => /\ (out.known /\ out.wrote # NoAccount => out.by = out.wrote)
                                    /\ (out.met # {} => out.by \in out.met)
      <4>1. senders[a] \in {a, NoAccount}
        BY <1>t, <2>2
      <4>2. ASSUME senders[a] # NoAccount, out.known, out.wrote # NoAccount
            PROVE  out.by = out.wrote
        <5>1. job.account \in known /\ job.wrote # NoAccount
          BY <3>1, <4>2
        <5> QED BY <2>2, <2>4, <3>1, <4>1, <4>2, <5>1
      <4>3. ASSUME senders[a] # NoAccount, out.met # {}
            PROVE  out.by \in out.met
        BY <2>2, <3>1, <4>1, <4>3
      <4> QED BY <4>2, <4>3
    <3>3. \A s \in sentBy' : s \in sentBy \/ (s = out /\ senders[a] # NoAccount)
      BY <2>1 DEF out
    <3>4. \A s \in sentBy : /\ (s.known /\ s.wrote # NoAccount => s.by = s.wrote)
                            /\ (s.met # {} => s.by \in s.met)
      BY <1>7 DEF AccountsInv, AnsweredByItsAccount
    <3> QED
      BY <3>2, <3>3, <3>4 DEF AnsweredByItsAccount
  <2>8. MetInv'
    <3>1. /\ MetInv /\ known' = known
      BY <1>7 DEF Send
    <3>2. ASSUME NEW c \in AccountChats
          PROVE  met'[c] \subseteq known /\ (met'[c] # {} => sticky'[c] \in met'[c])
      <4>1. CASE c # job.chat
        <5>1. met'[c] = met[c] /\ sticky'[c] = sticky[c]
          BY <1>t, <2>1, <4>1
        <5> QED BY <3>1, <5>1 DEF MetInv
      <4>2. CASE c = job.chat
        <5>1. /\ met'[c] = IF job.account \in known THEN met[c] \cup {a} ELSE met[c]
              /\ sticky'[c] = a
          BY <1>t, <2>1, <4>2
        <5>2. met[c] \subseteq known /\ (met[c] # {} => sticky[c] \in met[c])
          BY <3>1 DEF MetInv
        <5>3. job.account \notin known /\ met[c] # {} => a = sticky[c]
          BY <4>2, <5>2 DEF Assigned
        <5> QED BY <2>2, <5>1, <5>2, <5>3
      <4> QED BY <4>1, <4>2
    <3> QED BY <3>1, <3>2 DEF MetInv
  <2> QED
    BY <1>7, <2>3, <2>6, <2>7, <2>8 DEF Send, AccountsTypeOK, Job, Sessions
<1>10. ASSUME NEW c \in AccountChats, Released(c)
      PROVE  AccountsInv'
  <2>1. Reply(c, NoAccount, NoAccount) \in Job /\ Reply(c, NoAccount, NoAccount).wrote = NoAccount
    BY ReplyType DEF Sessions, Reply
  <2> QED
    BY <1>10, <1>t, <2>1 DEF Released, AccountsTypeOK, AnsweredByItsAccount, MetInv, Job, Sessions
<1>8. ASSUME NEW kept \in SUBSET Accounts, Restart(kept)
      PROVE  AccountsInv'
  BY <1>8, <1>t DEF Restart, AccountsTypeOK, AnsweredByItsAccount, MetInv, Loop, Sessions
<1>9. CASE UNCHANGED yvars
  BY <1>9 DEF yvars, AccountsTypeOK, AnsweredByItsAccount, MetInv
<1> QED
  BY <1>1, <1>2, <1>3, <1>4, <1>5, <1>6, <1>7, <1>8, <1>9, <1>10 DEF AccountsNext

\* However the loops interleave, fail and start again, an answer leaves by the
\* session its client wrote to while that account is configured, but for those of
\* resumed deals; a KP that was released leaves by an account the chat has met.
THEOREM AnswersGoByTheirAccount == AccountsSpec => []AnsweredByItsAccount
<1>1. AccountsInv => AnsweredByItsAccount
  BY DEF AccountsInv
<1> QED
  BY AccountsInitInv, AccountsStepInv, <1>1, PTL DEF AccountsSpec

-----------------------------------------------------------------------------
(* The topics of the staff room.                                            *)

\* One caller at a time asks, and holds the promise; what a caller that sees the
\* room is about to make, and did not find listed, is not in the room.
TopicsInv ==
    /\ TopicsTypeOK
    /\ \A c \in Callers : asks[c].at # "no" => promise
    /\ \A c, d \in Callers : asks[c].at # "no" /\ asks[d].at # "no" => c = d
    /\ \A c \in Callers : asks[c].at # "make" => asks[c].making = {}
    /\ \A c \in Callers : \A k, l \in asks[c].making : k = l
    /\ \A c \in Callers : asks[c].making \cap (asks[c].todo \cup asks[c].listed) = {}
    /\ \A c \in Callers : Seer(c) /\ asks[c].at = "make" =>
          \A k \in (asks[c].todo \cup asks[c].making) \ asks[c].listed : forum[k] = 0
    /\ TwinsAreBlind

Ask == [at: {"no", "list", "make"}, listed: SUBSET TopicKinds,
        todo: SUBSET TopicKinds, making: SUBSET TopicKinds]

LEMMA AskType ==
    /\ NotAsking \in Ask /\ [NotAsking EXCEPT !.at = "list"] \in Ask
    /\ NotAsking.at = "no" /\ NotAsking.making = {}
    /\ [NotAsking EXCEPT !.at = "list"].at = "list" /\ [NotAsking EXCEPT !.at = "list"].making = {}
BY DEF NotAsking, Ask

\* What a caller knows keeps its form when a part of it is set.
LEMMA AskSet ==
    ASSUME NEW a \in Ask, NEW s \in SUBSET TopicKinds
    PROVE  /\ [a EXCEPT !.listed = s] \in Ask /\ [a EXCEPT !.todo = s] \in Ask
           /\ [a EXCEPT !.making = s] \in Ask /\ [a EXCEPT !.at = "make"] \in Ask
BY DEF Ask

\* The callers of a gateway that has just started.
LEMMA NobodyAsks ==
    /\ [c \in Callers |-> NotAsking] \in [Callers -> Ask]
    /\ \A c \in Callers : /\ [d \in Callers |-> NotAsking][c].at = "no"
                          /\ [d \in Callers |-> NotAsking][c].making = {}
BY AskType

LEMMA TopicsInitInv == TopicsInit => TopicsInv
<1> SUFFICES ASSUME TopicsInit
             PROVE  TopicsInv
  OBVIOUS
<1>1. /\ asks \in [Callers -> Ask]
      /\ \A c \in Callers : asks[c].at = "no" /\ asks[c].making = {}
  BY NobodyAsks DEF TopicsInit
<1>2. PICK there \in SUBSET TopicKinds :
        forum = [k \in TopicKinds |-> IF k \in env \cup there THEN 1 ELSE 0]
  BY DEF TopicsInit
<1>3. forum \in [TopicKinds -> Nat] /\ \A k \in TopicKinds : forum[k] <= 1
  BY <1>2
<1>4. blind \in [TopicKinds -> Nat] /\ \A k \in TopicKinds : blind[k] = 0
  BY DEF TopicsInit
<1>5. topicStops \in 0..TopicStops /\ topicTroubles \in 0..TopicTroubles
  BY TopicAssumption DEF TopicsInit
<1>6. env \subseteq TopicKinds /\ topicIds \subseteq TopicKinds /\ promise \in BOOLEAN
  BY DEF TopicsInit
<1>7. TwinsAreBlind
  BY <1>3, <1>4 DEF TwinsAreBlind
<1> QED
  BY <1>1, <1>3, <1>4, <1>5, <1>6, <1>7 DEF TopicsInv, TopicsTypeOK, Ask

LEMMA TopicsStepInv == TopicsInv /\ [TopicsNext]_tvars => TopicsInv'
<1> SUFFICES ASSUME TopicsInv, [TopicsNext]_tvars
             PROVE  TopicsInv'
  OBVIOUS
<1> USE DEF TopicsInv
<1>t. /\ asks \in [Callers -> Ask]
      /\ forum \in [TopicKinds -> Nat] /\ blind \in [TopicKinds -> Nat]
      /\ topicStops \in Nat /\ topicTroubles \in Nat
  BY TopicAssumption DEF TopicsTypeOK, Ask
<1>1. CASE TopicsForgotten
  <2>1. /\ asks' \in [Callers -> Ask]
        /\ \A c \in Callers : asks'[c].at = "no" /\ asks'[c].making = {}
    BY <1>1, NobodyAsks DEF TopicsForgotten
  <2>2. env' \subseteq TopicKinds /\ topicStops' \in 0..TopicStops
    BY <1>1, <1>t, TopicAssumption DEF TopicsForgotten, TopicsTypeOK
  <2> QED
    BY <1>1, <2>1, <2>2 DEF TopicsForgotten, TopicsTypeOK, TwinsAreBlind, Ask
<1>2. ASSUME NEW c \in Callers, AskTopics(c)
      PROVE  TopicsInv'
  <2>1. /\ asks' \in [Callers -> Ask] /\ asks'[c].at = "list" /\ asks'[c].making = {}
        /\ \A d \in Callers : d # c => asks'[d] = asks[d] /\ asks[d].at = "no"
    BY <1>2, <1>t, AskType DEF AskTopics, Asking
  <2> QED
    BY <1>2, <2>1 DEF AskTopics, TopicsTypeOK, TwinsAreBlind, Ask
<1>3. ASSUME NEW c \in Callers, Asked(c), asks[c].at # "no",
             UNCHANGED <<forum, env, topicIds, blind, topicStops>>,
             topicTroubles' \in 0..TopicTroubles
      PROVE  TopicsInv'
  <2>1. /\ asks' \in [Callers -> Ask] /\ asks'[c].at = "no" /\ asks'[c].making = {}
        /\ \A d \in Callers : d # c => asks'[d] = asks[d] /\ asks[d].at = "no"
    BY <1>3, <1>t, AskType DEF Asked, Asking
  <2> QED
    BY <1>3, <2>1 DEF Asked, TopicsTypeOK, TwinsAreBlind, Ask
<1>4. ASSUME NEW c \in Callers, ListTopics(c)
      PROVE  TopicsInv'
  <2>1. CASE Seer(c) /\ TopicTrouble(1) /\ Asked(c)
    <3>1. topicTroubles' \in 0..TopicTroubles
      BY <2>1, <1>t, TopicAssumption DEF TopicTrouble
    <3> QED
      BY <1>3, <1>4, <2>1, <3>1 DEF ListTopics
  <2>2. CASE ~(Seer(c) /\ TopicTrouble(1) /\ Asked(c))
    <3> DEFINE spotted == IF Seer(c) THEN {k \in TopicKinds : forum[k] > 0} ELSE {}
               found == [asks[c] EXCEPT !.at = "make", !.todo = TopicKinds, !.listed = spotted]
    <3>1. Asking(c, found) /\ UNCHANGED <<forum, env, topicIds, promise, blind, topicStops, topicTroubles>>
      BY <1>4, <2>2 DEF ListTopics
    <3>2. asks[c].at = "list" /\ asks[c].making = {}
      BY <1>4 DEF ListTopics
    <3>3. found \in Ask /\ found.at = "make" /\ found.todo = TopicKinds /\ found.listed = spotted
          /\ found.making = {}
      <4>1. spotted \in SUBSET TopicKinds
        OBVIOUS
      <4> HIDE DEF spotted
      <4>2. [asks[c] EXCEPT !.at = "make"] \in Ask
        BY <1>t, AskSet
      <4>3. [asks[c] EXCEPT !.at = "make", !.todo = TopicKinds] \in Ask
        BY <4>2, AskSet
      <4>4. found \in Ask
        BY <4>1, <4>3, AskSet
      <4>5. asks[c] \in Ask
        BY <1>t
      <4> QED
        BY <3>2, <4>4, <4>5 DEF Ask
    <3> HIDE DEF found
    <3>4. /\ asks' \in [Callers -> Ask] /\ asks'[c] = found
          /\ \A d \in Callers : d # c => asks'[d] = asks[d] /\ asks[d].at = "no"
      BY <1>t, <3>1, <3>2, <3>3 DEF Asking
    <3>5. Seer(c) => \A k \in TopicKinds \ spotted : forum[k] = 0
      BY <1>t
    <3> QED
      BY <3>1, <3>2, <3>3, <3>4, <3>5 DEF TopicsTypeOK, TwinsAreBlind, Ask
  <2> QED
    BY <2>1, <2>2
<1>5. ASSUME NEW c \in Callers, TopicsReady(c)
      PROVE  TopicsInv'
  <2>1. topicTroubles' \in 0..TopicTroubles
    BY <1>5 DEF TopicsReady, TopicsTypeOK
  <2> QED
    BY <1>3, <1>5, <2>1 DEF TopicsReady
<1>6. ASSUME NEW c \in Callers, NEW k \in TopicKinds, FindTopic(c, k)
      PROVE  TopicsInv'
  <2> DEFINE found == k \in topicIds \cup asks[c].listed
             made == IF found THEN {} ELSE {k}
             next == [asks[c] EXCEPT !.todo = asks[c].todo \ {k}, !.making = made]
  <2>1. /\ Asking(c, next) /\ asks[c].at = "make" /\ asks[c].making = {} /\ k \in asks[c].todo
        /\ topicIds' = IF found THEN topicIds \cup {k} ELSE topicIds
        /\ UNCHANGED <<forum, env, promise, blind, topicStops, topicTroubles>>
    BY <1>6 DEF FindTopic
  <2>2. /\ next \in Ask /\ next.at = "make" /\ next.todo = asks[c].todo \ {k}
        /\ next.listed = asks[c].listed /\ next.making = made
    <3>1. made \in SUBSET TopicKinds
      OBVIOUS
    <3> HIDE DEF made
    <3>2. asks[c] \in Ask /\ asks[c].todo \ {k} \in SUBSET TopicKinds
      BY <1>t DEF Ask
    <3>3. [asks[c] EXCEPT !.todo = asks[c].todo \ {k}] \in Ask
      BY <3>2, AskSet
    <3>4. next \in Ask
      BY <3>1, <3>3, AskSet
    <3> QED
      BY <2>1, <3>2, <3>4 DEF Ask
  <2> HIDE DEF next
  <2>3. /\ asks' \in [Callers -> Ask] /\ asks'[c] = next
        /\ \A d \in Callers : d # c => asks'[d] = asks[d] /\ asks[d].at = "no"
    BY <1>t, <2>1, <2>2 DEF Asking
  <2> QED
    BY <2>1, <2>2, <2>3 DEF TopicsTypeOK, TwinsAreBlind, Ask
<1>7. ASSUME NEW c \in Callers, NEW k \in TopicKinds, MakeTopic(c, k)
      PROVE  TopicsInv'
  <2> DEFINE next == [asks[c] EXCEPT !.making = {}]
  <2>1. k \in asks[c].making /\ Asking(c, next) /\ UNCHANGED <<env, promise, topicStops>>
    BY <1>7 DEF MakeTopic
  <2>2. asks[c].at = "make" /\ asks[c].making = {k} /\ k \notin asks[c].todo \cup asks[c].listed
    BY <2>1, <1>t DEF Ask
  <2>3. /\ next \in Ask /\ next.at = "make" /\ next.todo = asks[c].todo
        /\ next.listed = asks[c].listed /\ next.making = {}
    BY <1>t, <2>2 DEF Ask
  <2>4. PICK lost \in 0..2, made \in BOOLEAN :
          /\ TopicTrouble(IF made THEN lost ELSE lost + 1)
          /\ forum' = [forum EXCEPT ![k] = @ + lost + IF made THEN 1 ELSE 0]
          /\ blind' = [blind EXCEPT ![k] = @ + lost + IF made /\ ~Seer(c) THEN 1 ELSE 0]
          /\ topicIds' = IF made THEN topicIds \cup {k} ELSE topicIds
    BY <1>7 DEF MakeTopic
  <2> HIDE DEF next
  <2>5. /\ asks' \in [Callers -> Ask] /\ asks'[c] = next
        /\ \A d \in Callers : d # c => asks'[d] = asks[d] /\ asks[d].at = "no"
    BY <1>t, <2>1, <2>2, <2>3 DEF Asking
  <2>6. /\ forum' \in [TopicKinds -> Nat] /\ blind' \in [TopicKinds -> Nat]
        /\ topicTroubles' \in 0..TopicTroubles /\ topicIds' \subseteq TopicKinds
    BY <1>t, <2>4, TopicAssumption DEF TopicTrouble, TopicsTypeOK
  <2>7. /\ forum[k] <= 1 + blind[k] /\ (Seer(c) => forum[k] = 0)
        /\ \A l \in TopicKinds : l # k => forum'[l] = forum[l] /\ blind'[l] = blind[l]
    BY <1>t, <2>2, <2>4 DEF TwinsAreBlind
  <2>8. forum'[k] <= 1 + blind'[k]
    BY <1>t, <2>4, <2>7
  <2>9. TwinsAreBlind'
    BY <2>7, <2>8 DEF TwinsAreBlind
  <2>10. TopicsTypeOK'
    BY <2>1, <2>5, <2>6 DEF TopicsTypeOK, Ask
  <2>11. \A d \in Callers : asks'[d].making = {}
    BY <2>3, <2>5
  <2>12. \A d \in Callers : Seer(d) /\ asks'[d].at = "make" =>
           \A l \in (asks'[d].todo \cup asks'[d].making) \ asks'[d].listed : forum'[l] = 0
    <3> SUFFICES ASSUME NEW d \in Callers, Seer(d), asks'[d].at = "make",
                        NEW l \in asks'[d].todo, l \notin asks'[d].listed
                 PROVE  forum'[l] = 0
      BY <2>11
    <3>1. d = c
      BY <2>5
    <3>2. l \in asks[c].todo \ asks[c].listed /\ l # k /\ l \in TopicKinds
      BY <1>t, <2>2, <2>3, <2>5, <3>1 DEF Ask
    <3> QED
      BY <2>2, <2>7, <3>1, <3>2
  <2> QED
    BY <2>1, <2>2, <2>3, <2>5, <2>9, <2>10, <2>11, <2>12
<1>8. CASE UNCHANGED tvars
  BY <1>8 DEF tvars, TopicsTypeOK, TwinsAreBlind
<1> QED
  BY <1>1, <1>2, <1>4, <1>5, <1>6, <1>7, <1>8 DEF TopicsNext

\* Whoever asks, whatever fails and however often the gateway starts again, a
\* topic has no twin but one that was made blindly.
THEOREM TwinsAreMadeBlindly == TopicsSpec => []TwinsAreBlind
<1>1. TopicsInv => TwinsAreBlind
  BY DEF TopicsInv
<1> QED
  BY TopicsInitInv, TopicsStepInv, <1>1, PTL DEF TopicsSpec

-----------------------------------------------------------------------------
(* The peer in the staff topic.                                             *)

\* Forms of a deal's row as the peer sees it, of a patch, and of a message in hand.
DealSays == [closed: BOOLEAN, paused: BOOLEAN, hold: BOOLEAN, gate: BOOLEAN,
             mails: BOOLEAN, draft: BOOLEAN, bound: BOOLEAN]
PatchSays == [hold: {"keep", "on", "off"}, gate: {"keep", "on", "off"}, mails: BOOLEAN,
              draft: BOOLEAN, rerun: BOOLEAN, all: BOOLEAN]
Handling == [at: {"unsaid", "said", "todo", "read", "written", "done"}, words: Speech \cup {{}},
             aim: StaffDeals \cup {NoDeal}, patch: PatchSays, rfqIntent: BOOLEAN,
             todo: SUBSET StaffDeals, d: StaffDeals \cup {NoDeal}, body: DealSays,
             want: BOOLEAN, how: {"named", "found", "picked"}, shut: SUBSET StaffDeals]

\* What is known of a message k: deals it picked were open, a row it holds back
\* it holds, the deal in hand is on its list, and one it has written is open.
PostOK(k) ==
    /\ k.at = "unsaid" => k.todo = {}
    /\ k.how = "picked" => k.todo \cap k.shut = {}
    /\ k.body.bound => k.body.hold
    /\ k.at \in {"read", "written"} => k.d \in StaffDeals /\ k.d \in k.todo
    /\ k.at = "written" =>
         /\ ~k.body.closed
         /\ k.want => SendNow(k.words) \/ k.rfqIntent \/ ~k.body.bound

PeerInv ==
    /\ hinted \in [StaffDeals -> DealSays]
    /\ post \in [Posts -> Handling]
    /\ rfqFor \in [StaffDeals -> SUBSET Posts]
    /\ \A d \in StaffDeals : hinted[d].bound => hinted[d].hold
    /\ \A p \in Posts : PostOK(post[p])

LEMMA HandlingSet ==
    ASSUME NEW k \in Handling
    PROVE  /\ \A at \in {"unsaid", "said", "todo", "read", "written", "done"} :
                [k EXCEPT !.at = at] \in Handling
           /\ \A w \in Speech : [k EXCEPT !.words = w] \in Handling
           /\ \A a \in StaffDeals \cup {NoDeal} : /\ [k EXCEPT !.aim = a] \in Handling
                                                  /\ [k EXCEPT !.d = a] \in Handling
           /\ \A x \in PatchSays : [k EXCEPT !.patch = x] \in Handling
           /\ \A b \in BOOLEAN : /\ [k EXCEPT !.rfqIntent = b] \in Handling
                                 /\ [k EXCEPT !.want = b] \in Handling
           /\ \A h \in {"named", "found", "picked"} : [k EXCEPT !.how = h] \in Handling
           /\ \A s \in SUBSET StaffDeals : /\ [k EXCEPT !.todo = s] \in Handling
                                           /\ [k EXCEPT !.shut = s] \in Handling
           /\ \A x \in DealSays : [k EXCEPT !.body = x] \in Handling
<1>1. \A at \in {"unsaid", "said", "todo", "read", "written", "done"} : [k EXCEPT !.at = at] \in Handling
  BY DEF Handling
<1>2. \A w \in Speech : [k EXCEPT !.words = w] \in Handling
  BY DEF Handling
<1>3. \A a \in StaffDeals \cup {NoDeal} : [k EXCEPT !.aim = a] \in Handling /\ [k EXCEPT !.d = a] \in Handling
  BY DEF Handling
<1>4. \A x \in PatchSays : [k EXCEPT !.patch = x] \in Handling
  BY DEF Handling
<1>5. \A b \in BOOLEAN : /\ [k EXCEPT !.rfqIntent = b] \in Handling
                      /\ [k EXCEPT !.want = b] \in Handling
  BY DEF Handling
<1>8. \A h \in {"named", "found", "picked"} : [k EXCEPT !.how = h] \in Handling
  BY DEF Handling
<1>6. \A s \in SUBSET StaffDeals : [k EXCEPT !.todo = s] \in Handling /\ [k EXCEPT !.shut = s] \in Handling
  BY DEF Handling
<1>7. \A x \in DealSays : [k EXCEPT !.body = x] \in Handling
  BY DEF Handling
<1> QED
  BY <1>1, <1>2, <1>3, <1>4, <1>5, <1>6, <1>7, <1>8

LEMMA NewDealSays == NewDeal \in DealSays /\ ~NewDeal.bound /\ NoPatch \in PatchSays
BY DEF NewDeal, DealSays, NoPatch, PatchSays

\* A message that is done with a deal has no row in hand.
LEMMA OverKeeps ==
    ASSUME NEW k \in Handling
    PROVE  /\ Over(k) \in Handling
           /\ Over(k).at \in {"todo", "done"} /\ Over(k).body = NewDeal
           /\ Over(k).todo = k.todo /\ Over(k).how = k.how /\ Over(k).shut = k.shut
<1> DEFINE at == IF k.todo = {} THEN "done" ELSE "todo"
<1>1. at \in {"todo", "done"}
  OBVIOUS
<1>2. Over(k) = [k EXCEPT !.at = at, !.d = NoDeal, !.body = NewDeal, !.want = FALSE]
  BY DEF Over
<1> HIDE DEF at
<1>3. [k EXCEPT !.at = at] \in Handling
  BY <1>1, HandlingSet
<1>4. [k EXCEPT !.at = at, !.d = NoDeal] \in Handling
  BY <1>3, HandlingSet
<1>5. [k EXCEPT !.at = at, !.d = NoDeal, !.body = NewDeal] \in Handling
  BY <1>4, NewDealSays, HandlingSet
<1>6. Over(k) \in Handling
  BY <1>2, <1>5, HandlingSet
<1>7. /\ Over(k).at = at /\ Over(k).body = NewDeal
      /\ Over(k).todo = k.todo /\ Over(k).how = k.how /\ Over(k).shut = k.shut
  BY <1>2 DEF Handling
<1> QED
  BY <1>1, <1>6, <1>7

\* A step that gives message p the form k, whatever it writes to the deals.
LEMMA PostStep ==
    ASSUME PeerInv, NEW p \in Posts, NEW k \in Handling, PostTo(p, k), PostOK(k),
           rfqFor' \in [StaffDeals -> SUBSET Posts],
           hinted' \in [StaffDeals -> DealSays],
           \A d \in StaffDeals : hinted'[d].bound => hinted'[d].hold
    PROVE  PeerInv'
<1>1. post' \in [Posts -> Handling] /\ post'[p] = k
      /\ \A q \in Posts : q # p => post'[q] = post[q]
  BY DEF PeerInv, PostTo
<1>2. \A q \in Posts : PostOK(post'[q])
  BY <1>1 DEF PeerInv
<1>4. (\A q \in Posts : PostOK(post[q]))'
  BY <1>2 DEF PostOK
<1> QED
  BY <1>1, <1>4 DEF PeerInv

\* The deal d gets a row that is as it should be.
LEMMA RowStep ==
    ASSUME PeerInv, NEW d \in StaffDeals, NEW row \in DealSays, row.bound => row.hold,
           hinted' = [hinted EXCEPT ![d] = row]
    PROVE  /\ hinted' \in [StaffDeals -> DealSays] /\ hinted'[d] = row
           /\ \A e \in StaffDeals : hinted'[e].bound => hinted'[e].hold
<1>1. hinted \in [StaffDeals -> DealSays] /\ \A e \in StaffDeals : hinted[e].bound => hinted[e].hold
  BY DEF PeerInv
<1>2. hinted' \in [StaffDeals -> DealSays] /\ hinted'[d] = row
      /\ \A e \in StaffDeals : e # d => hinted'[e] = hinted[e]
  BY <1>1
<1> QED
  BY <1>1, <1>2

LEMMA PeerStart == PeerInit => PeerInv
<1> SUFFICES ASSUME PeerInit PROVE PeerInv
  OBVIOUS
<1>1. Unsaid \in Handling /\ PostOK(Unsaid)
  BY NewDealSays DEF Unsaid, Handling, PostOK
<1>2. /\ hinted \in [StaffDeals -> DealSays] /\ post \in [Posts -> Handling]
      /\ \A d \in StaffDeals : hinted[d] = NewDeal
      /\ \A p \in Posts : post[p] = Unsaid
  BY <1>1, NewDealSays DEF PeerInit
<1> QED
  BY <1>1, <1>2, NewDealSays DEF PeerInit, PeerInv

\* Deals that are picked are open.
LEMMA PickedOpen ==
    ASSUME NEW pool \in SUBSET StaffDeals, NEW words, NEW patch
    PROVE  /\ Picked(pool, words, patch) \in SUBSET StaffDeals
           /\ \A d \in Picked(pool, words, patch) : ~hinted[d].closed
BY DEF Picked

LEMMA UnderstoodTypes ==
    ASSUME NEW words, NEW aim \in StaffDeals \cup {NoDeal}, NEW req \in Understood(words, aim)
    PROVE  req.deal \in StaffDeals \cup {NoDeal} /\ req.patch \in PatchSays
<1>1. ParseHint(words) \in PatchSays
  BY DEF ParseHint, PatchSays
<1> DEFINE patch == IF words \cap HintWords # {} THEN ParseHint(words) ELSE NoPatch
           intents == {Intent(words, aim), "answer", "observe"} \cup ToldIntents \cup DealIntents
<1>2. patch \in PatchSays
  BY <1>1, NewDealSays
<1> HIDE DEF patch
<1>3. \/ req = [intent |-> Intent(words, aim), deal |-> aim, patch |-> patch, query |-> FALSE]
      \/ req \in [intent : intents, deal : StaffDeals \cup {aim}, patch : {patch}, query : BOOLEAN]
  BY DEF Understood, patch
<1> HIDE DEF intents
<1>4. CASE req = [intent |-> Intent(words, aim), deal |-> aim, patch |-> patch, query |-> FALSE]
  BY <1>2, <1>4
<1>5. CASE req \in [intent : intents, deal : StaffDeals \cup {aim}, patch : {patch}, query : BOOLEAN]
  BY <1>2, <1>5
<1> QED
  BY <1>3, <1>4, <1>5

LEMMA LocatedTypes ==
    ASSUME NEW req, req.deal \in StaffDeals \cup {NoDeal}, NEW it \in Located(req)
    PROVE  it.deal \in StaffDeals \cup {NoDeal} /\ it.how \in {"named", "found"}
<1>1. \/ it = [deal |-> req.deal, how |-> "named"]
      \/ it \in [deal : StaffDeals \cup {NoDeal}, how : {"found"}]
  BY DEF Located
<1> QED
  BY <1>1

LEMMA PeerSays ==
    ASSUME PeerInv, NEW p \in Posts, Say(p)
    PROVE  PeerInv'
<1>1. PICK words \in Speech, aim \in StaffDeals \cup {NoDeal} :
        PostTo(p, [post[p] EXCEPT !.at = "said", !.words = words, !.aim = aim])
  BY DEF Say
<1> DEFINE k == [post[p] EXCEPT !.at = "said", !.words = words, !.aim = aim]
<1>2. post[p] \in Handling /\ PostOK(post[p])
  BY DEF PeerInv
<1>3. k \in Handling
  <2>1. [post[p] EXCEPT !.at = "said"] \in Handling
    BY <1>2, HandlingSet
  <2>2. [post[p] EXCEPT !.at = "said", !.words = words] \in Handling
    BY <2>1, HandlingSet
  <2> QED
    BY <2>2, HandlingSet
<1>4. /\ k.at = "said" /\ k.todo = post[p].todo /\ k.how = post[p].how
      /\ k.body = post[p].body /\ k.shut = post[p].shut
  BY <1>2 DEF Handling
<1>5. PostTo(p, k) /\ hinted' = hinted /\ rfqFor' = rfqFor
  BY <1>1 DEF Say
<1> HIDE DEF k
<1>6. PostOK(k)
  BY <1>2, <1>4 DEF PostOK
<1>7. /\ rfqFor' \in [StaffDeals -> SUBSET Posts] /\ hinted' \in [StaffDeals -> DealSays]
      /\ \A d \in StaffDeals : hinted'[d].bound => hinted'[d].hold
  BY <1>5 DEF PeerInv
<1> QED
  BY <1>3, <1>5, <1>6, <1>7, PostStep

\* A message that is about to be applied to deals that are open, or are its own.
LEMMA PeerApplies ==
    ASSUME PeerInv, NEW p \in Posts, NEW deals \in SUBSET StaffDeals,
           NEW how \in {"named", "found", "picked"},
           NEW patch \in PatchSays, NEW intent \in BOOLEAN,
           Applying(p, deals, how, patch, intent), rfqFor' = rfqFor,
           how = "picked" => \A d \in deals : ~hinted[d].closed,
           hinted' \in [StaffDeals -> DealSays],
           \A d \in StaffDeals : hinted'[d].bound => hinted'[d].hold
    PROVE  PeerInv' /\ post'[p].at \in {"todo", "done"} /\ post'[p].how = how
<1> DEFINE shut == {d \in StaffDeals : hinted[d].closed}
           k == [post[p] EXCEPT !.todo = deals, !.how = how, !.patch = patch,
                                !.rfqIntent = intent, !.shut = shut]
<1>0. shut \in SUBSET StaffDeals /\ (how = "picked" => deals \cap shut = {})
  OBVIOUS
<1>1. post[p] \in Handling /\ rfqFor' \in [StaffDeals -> SUBSET Posts] /\ post \in [Posts -> Handling]
  BY DEF PeerInv
<1> HIDE DEF shut
<1>2. k \in Handling
  <2>1. [post[p] EXCEPT !.todo = deals] \in Handling
    BY <1>1, HandlingSet
  <2>2. [post[p] EXCEPT !.todo = deals, !.how = how] \in Handling
    BY <2>1, HandlingSet
  <2>3. [post[p] EXCEPT !.todo = deals, !.how = how, !.patch = patch] \in Handling
    BY <2>2, HandlingSet
  <2>4. [post[p] EXCEPT !.todo = deals, !.how = how, !.patch = patch, !.rfqIntent = intent] \in Handling
    BY <2>3, HandlingSet
  <2> QED
    BY <1>0, <2>4, HandlingSet
<1>3. k.todo = deals /\ k.how = how /\ k.shut = shut
  BY <1>1 DEF Handling
<1>4. PostTo(p, Over(k))
  BY DEF Applying, shut
<1> HIDE DEF k
<1>5. /\ Over(k) \in Handling
      /\ Over(k).at \in {"todo", "done"} /\ Over(k).body = NewDeal
      /\ Over(k).todo = deals /\ Over(k).how = how /\ Over(k).shut = shut
  BY <1>2, <1>3, OverKeeps
<1>6. PostOK(Over(k))
  BY <1>0, <1>5, NewDealSays DEF PostOK
<1>7. PeerInv'
  BY <1>1, <1>4, <1>5, <1>6, PostStep
<1>8. post'[p] = Over(k)
  BY <1>1, <1>4 DEF PostTo
<1> QED
  BY <1>5, <1>7, <1>8

\* A click by word of mouth says nothing of the RFQ.
LEMMA ClickedKeeps ==
    ASSUME NEW row \in DealSays, NEW intent
    PROVE  /\ Clicked(row, intent) \in DealSays
           /\ Clicked(row, intent).bound = row.bound /\ Clicked(row, intent).hold = row.hold
<1>1. \/ Clicked(row, intent) = [row EXCEPT !.closed = TRUE]
      \/ Clicked(row, intent) = [row EXCEPT !.paused = TRUE]
      \/ Clicked(row, intent) = [row EXCEPT !.paused = FALSE]
      \/ Clicked(row, intent) = [row EXCEPT !.closed = FALSE, !.paused = FALSE]
      \/ Clicked(row, intent) = [row EXCEPT !.closed = FALSE]
      \/ Clicked(row, intent) = row
  BY DEF Clicked
<1> QED
  BY <1>1 DEF DealSays

\* What the handler makes of a message, by the four ways it may end.
HandledAs(p, req, it) ==
    \/ /\ it.deal = NoDeal
       /\ \E found \in SUBSET StaffDeals :
            LET first == Picked(found, post[p].words, req.patch)
                deals == IF first # {} THEN first
                         ELSE Picked({d \in StaffDeals : ~hinted[d].closed},
                                     post[p].words, req.patch)
            IN Applying(p, deals, "picked", req.patch, FALSE)
       /\ UNCHANGED hinted
    \/ /\ it.deal # NoDeal
       /\ Applying(p, {it.deal}, it.how,
                   [req.patch EXCEPT !.rerun = @ /\ req.intent = "ops_hint"], FALSE)
       /\ UNCHANGED hinted
    \/ /\ it.deal # NoDeal
       /\ Applying(p, {it.deal}, it.how,
                   [NoPatch EXCEPT !.hold = "off", !.gate = "off", !.rerun = TRUE], TRUE)
       /\ UNCHANGED hinted
    \/ /\ hinted' = IF it.deal = NoDeal THEN hinted
                    ELSE [hinted EXCEPT ![it.deal] = Clicked(@, req.intent)]
       /\ Applying(p, {}, it.how, NoPatch, FALSE)

\* Whatever a message is understood to be, its handler picks only open deals and
\* clicks only on a deal of the message's own.
LEMMA PeerHandles ==
    ASSUME PeerInv, NEW p \in Posts, Handle(p)
    PROVE  /\ PeerInv' /\ post'[p].at \in {"todo", "done"}
           /\ post'[p].how # "picked" \/ hinted' = hinted
<1>8. PICK req \in Understood(post[p].words, post[p].aim) : \E it \in Located(req) : HandledAs(p, req, it)
  BY DEF Handle, HandledAs
<1>9. PICK it \in Located(req) : HandledAs(p, req, it)
  BY <1>8
<1>2. /\ req.deal \in StaffDeals \cup {NoDeal} /\ req.patch \in PatchSays
      /\ hinted \in [StaffDeals -> DealSays] /\ rfqFor' = rfqFor
      /\ \A d \in StaffDeals : hinted[d].bound => hinted[d].hold
  <2>1. post[p].aim \in StaffDeals \cup {NoDeal}
    BY DEF PeerInv, Handling
  <2> QED
    BY <2>1, UnderstoodTypes DEF PeerInv, Handle
<1>7. /\ it.deal \in StaffDeals \cup {NoDeal}
      /\ it.how \in {"named", "found", "picked"} /\ it.how # "picked"
  <2>1. it.deal \in StaffDeals \cup {NoDeal} /\ it.how \in {"named", "found"}
    BY <1>2, LocatedTypes
  <2> QED
    BY <2>1
<1>3. ASSUME NEW found \in SUBSET StaffDeals, UNCHANGED hinted,
             Applying(p, IF Picked(found, post[p].words, req.patch) # {}
                         THEN Picked(found, post[p].words, req.patch)
                         ELSE Picked({d \in StaffDeals : ~hinted[d].closed},
                                     post[p].words, req.patch), "picked", req.patch, FALSE)
      PROVE  PeerInv' /\ post'[p].at \in {"todo", "done"}
  <2> DEFINE deals == IF Picked(found, post[p].words, req.patch) # {}
                      THEN Picked(found, post[p].words, req.patch)
                      ELSE Picked({d \in StaffDeals : ~hinted[d].closed}, post[p].words, req.patch)
  <2>1. deals \in SUBSET StaffDeals /\ \A d \in deals : ~hinted[d].closed
    BY PickedOpen
  <2>2. Applying(p, deals, "picked", req.patch, FALSE)
    BY <1>3
  <2> HIDE DEF deals
  <2> QED
    BY <1>2, <1>3, <2>1, <2>2, PeerApplies
<1>4. CASE /\ it.deal # NoDeal /\ UNCHANGED hinted
           /\ Applying(p, {it.deal}, it.how,
                       [req.patch EXCEPT !.rerun = @ /\ req.intent = "ops_hint"], FALSE)
  <2>1. [req.patch EXCEPT !.rerun = @ /\ req.intent = "ops_hint"] \in PatchSays
    BY <1>2 DEF PatchSays
  <2>2. {it.deal} \in SUBSET StaffDeals
    BY <1>4, <1>7
  <2>3. PeerInv' /\ post'[p].at \in {"todo", "done"} /\ post'[p].how = it.how
    BY <1>2, <1>4, <1>7, <2>1, <2>2, PeerApplies
  <2> QED
    BY <1>7, <2>3
<1>5. CASE /\ it.deal # NoDeal /\ UNCHANGED hinted
           /\ Applying(p, {it.deal}, it.how,
                       [NoPatch EXCEPT !.hold = "off", !.gate = "off", !.rerun = TRUE], TRUE)
  <2>1. [NoPatch EXCEPT !.hold = "off", !.gate = "off", !.rerun = TRUE] \in PatchSays
    BY DEF PatchSays, NoPatch
  <2>2. {it.deal} \in SUBSET StaffDeals
    BY <1>5, <1>7
  <2>3. PeerInv' /\ post'[p].at \in {"todo", "done"} /\ post'[p].how = it.how
    BY <1>2, <1>5, <1>7, <2>1, <2>2, PeerApplies
  <2> QED
    BY <1>7, <2>3
<1>6. CASE /\ hinted' = IF it.deal = NoDeal THEN hinted
                        ELSE [hinted EXCEPT ![it.deal] = Clicked(@, req.intent)]
           /\ Applying(p, {}, it.how, NoPatch, FALSE)
  <2>1. /\ hinted' \in [StaffDeals -> DealSays]
        /\ \A d \in StaffDeals : hinted'[d] = hinted[d] \/ hinted'[d] = Clicked(hinted[d], req.intent)
    BY <1>2, <1>6, ClickedKeeps
  <2>2. \A d \in StaffDeals : hinted'[d].bound => hinted'[d].hold
    BY <1>2, <2>1, ClickedKeeps
  <2>3. {} \in SUBSET StaffDeals /\ \A d \in {} : ~hinted[d].closed
    OBVIOUS
  <2>4. Applying(p, {}, it.how, NoPatch, FALSE) /\ NoPatch \in PatchSays
    BY <1>6, NewDealSays
  <2>5. PeerInv' /\ post'[p].at \in {"todo", "done"} /\ post'[p].how = it.how
    BY <1>2, <1>7, <2>1, <2>2, <2>3, <2>4, PeerApplies
  <2> QED
    BY <1>7, <2>5
<1> QED
  BY <1>9, <1>3, <1>4, <1>5, <1>6 DEF HandledAs

LEMMA PeerReads ==
    ASSUME PeerInv, NEW p \in Posts, NEW d \in StaffDeals, ReadDeal(p, d)
    PROVE  PeerInv'
<1>1. /\ post[p] \in Handling /\ PostOK(post[p]) /\ hinted[d] \in DealSays
      /\ hinted[d].bound => hinted[d].hold
      /\ d \in post[p].todo
  BY DEF PeerInv, ReadDeal
<1>0. /\ rfqFor' \in [StaffDeals -> SUBSET Posts] /\ hinted' \in [StaffDeals -> DealSays]
      /\ \A e \in StaffDeals : hinted'[e].bound => hinted'[e].hold
  BY DEF PeerInv, ReadDeal
<1>2. CASE PostTo(p, [post[p] EXCEPT !.at = "read", !.d = d, !.body = hinted[d]])
  <2> DEFINE k == [post[p] EXCEPT !.at = "read", !.d = d, !.body = hinted[d]]
  <2>1. k \in Handling
    <3>1. [post[p] EXCEPT !.at = "read"] \in Handling
      BY <1>1, HandlingSet
    <3>2. [post[p] EXCEPT !.at = "read", !.d = d] \in Handling
      BY <3>1, HandlingSet
    <3> QED
      BY <1>1, <3>2, HandlingSet
  <2>2. /\ k.at = "read" /\ k.d = d /\ k.body = hinted[d] /\ k.todo = post[p].todo
        /\ k.how = post[p].how /\ k.shut = post[p].shut
    BY <1>1 DEF Handling
  <2>3. PostTo(p, k)
    BY <1>2
  <2> HIDE DEF k
  <2>4. PostOK(k)
    BY <1>1, <2>2 DEF PostOK
  <2> QED
    BY <1>0, <2>1, <2>3, <2>4, PostStep
<1>3. CASE PostTo(p, Over([post[p] EXCEPT !.todo = @ \ {d}]))
  <2> DEFINE k == [post[p] EXCEPT !.todo = post[p].todo \ {d}]
  <2>1. k \in Handling
    <3>1. post[p].todo \ {d} \in SUBSET StaffDeals
      BY <1>1 DEF Handling
    <3> QED
      BY <1>1, <3>1, HandlingSet
  <2>2. k.todo = post[p].todo \ {d} /\ k.how = post[p].how /\ k.shut = post[p].shut
    BY <1>1 DEF Handling
  <2>3. PostTo(p, Over(k))
    BY <1>3
  <2> HIDE DEF k
  <2>4. /\ Over(k) \in Handling /\ Over(k).at \in {"todo", "done"} /\ Over(k).body = NewDeal
        /\ Over(k).todo = k.todo /\ Over(k).how = k.how /\ Over(k).shut = k.shut
    BY <2>1, OverKeeps
  <2>5. PostOK(Over(k))
    BY <1>1, <2>2, <2>4, NewDealSays DEF PostOK
  <2> QED
    BY <1>0, <2>3, <2>4, <2>5, PostStep
<1> QED
  BY <1>2, <1>3 DEF ReadDeal

LEMMA MergedSays ==
    ASSUME NEW row \in DealSays, NEW patch \in PatchSays, row.bound => row.hold
    PROVE  /\ Merged(row, patch) \in DealSays
           /\ Merged(row, patch).bound => Merged(row, patch).hold
<1> DEFINE hold == Set(row.hold, patch.hold)
           gate == Set(row.gate, patch.gate)
           bound == Set(row.bound, patch.hold)
           mails == row.mails \/ patch.mails
           draft == row.draft \/ patch.draft
<1>1. /\ hold \in BOOLEAN /\ gate \in BOOLEAN /\ bound \in BOOLEAN
      /\ mails \in BOOLEAN /\ draft \in BOOLEAN /\ (bound => hold)
  BY DEF Set, DealSays, PatchSays
<1>2. Merged(row, patch) = [row EXCEPT !.hold = hold, !.gate = gate, !.mails = mails,
                                       !.draft = draft, !.bound = bound]
  BY DEF Merged
<1> HIDE DEF hold, gate, bound, mails, draft
<1> QED
  BY <1>1, <1>2 DEF DealSays

\* What is left of a message when it is done with the deal in hand.
LEMMA NextDeal ==
    ASSUME NEW k \in Handling, PostOK(k)
    PROVE  LET next == Over([k EXCEPT !.todo = k.todo \ {k.d}])
           IN next \in Handling /\ PostOK(next) /\ next.at \in {"todo", "done"}
<1> DEFINE next == [k EXCEPT !.todo = k.todo \ {k.d}]
<1>1. next \in Handling /\ next.todo \subseteq k.todo /\ next.how = k.how /\ next.shut = k.shut
  <2>1. k.todo \ {k.d} \in SUBSET StaffDeals
    BY DEF Handling
  <2>2. next \in Handling
    BY <2>1, HandlingSet
  <2> QED
    BY <2>2 DEF Handling
<1> HIDE DEF next
<1>2. /\ Over(next) \in Handling /\ Over(next).at \in {"todo", "done"} /\ Over(next).body = NewDeal
      /\ Over(next).todo = next.todo /\ Over(next).how = next.how /\ Over(next).shut = next.shut
  BY <1>1, OverKeeps
<1>3. PostOK(Over(next))
  BY <1>1, <1>2, NewDealSays DEF PostOK
<1> QED
  BY <1>2, <1>3 DEF next

\* The PATCH writes the row of the deal in hand, and no other.
LEMMA PeerWrites ==
    ASSUME PeerInv, NEW p \in Posts, WriteDeal(p)
    PROVE  /\ PeerInv' /\ post'[p].at # "read"
           /\ \A d \in StaffDeals : d # post[p].d => hinted'[d] = hinted[d]
<1> DEFINE k == post[p]
           meta == Merged(k.body, k.patch)
           row == [meta EXCEPT !.closed = FALSE, !.paused = meta.gate \/ meta.hold]
           want == SafeRerun(meta, k.patch, k.words)
           next == Over([k EXCEPT !.todo = k.todo \ {k.d}])
           written == [k EXCEPT !.at = "written", !.body = row, !.want = want]
<1>0. k.d \in StaffDeals /\ k.d \in k.todo
  BY DEF PeerInv, PostOK, WriteDeal, PostIs
<1>1. k \in Handling /\ PostOK(k) /\ k.body \in DealSays /\ k.patch \in PatchSays
      /\ (k.body.bound => k.body.hold) /\ rfqFor' \in [StaffDeals -> SUBSET Posts]
      /\ hinted \in [StaffDeals -> DealSays] /\ post \in [Posts -> Handling]
  BY DEF PeerInv, WriteDeal, Handling, PostOK
<1>2. meta \in DealSays /\ (meta.bound => meta.hold)
  BY <1>1, MergedSays
<1>3. hinted' = [hinted EXCEPT ![k.d] = row]
      /\ PostTo(p, IF meta.hold /\ ~want THEN next ELSE written)
  BY DEF WriteDeal
<1>4. want \in BOOLEAN /\ (want => SendNow(k.words) \/ ~meta.hold)
  BY DEF SafeRerun
<1> HIDE DEF meta, want
<1>5. row \in DealSays /\ row.bound = meta.bound /\ row.hold = meta.hold /\ ~row.closed
  BY <1>2 DEF DealSays
<1> HIDE DEF row
<1>6. next \in Handling /\ PostOK(next) /\ next.at \in {"todo", "done"}
  BY <1>1, NextDeal
<1>9. written \in Handling
  <2>1. [k EXCEPT !.at = "written"] \in Handling
    BY <1>1, HandlingSet
  <2>2. [k EXCEPT !.at = "written", !.body = row] \in Handling
    BY <1>5, <2>1, HandlingSet
  <2> QED
    BY <1>4, <2>2, HandlingSet
<1>10. /\ written.at = "written" /\ written.body = row /\ written.want = want
       /\ written.words = k.words /\ written.todo = k.todo /\ written.how = k.how
       /\ written.shut = k.shut /\ written.d = k.d
  BY <1>1 DEF Handling
<1> HIDE DEF written, next
<1>11. PostOK(written)
  BY <1>0, <1>1, <1>2, <1>4, <1>5, <1>10 DEF PostOK
<1> DEFINE new == IF meta.hold /\ ~want THEN next ELSE written
<1>12. new \in Handling /\ PostOK(new) /\ new.at # "read"
  BY <1>6, <1>9, <1>10, <1>11
<1>13. PostTo(p, new)
  BY <1>3
<1> HIDE DEF new
<1>14. /\ hinted' \in [StaffDeals -> DealSays]
       /\ \A e \in StaffDeals : hinted'[e].bound => hinted'[e].hold
  BY <1>0, <1>2, <1>3, <1>5, RowStep
<1>15. PeerInv'
  BY <1>1, <1>12, <1>13, <1>14, PostStep
<1>16. post'[p] = new
  BY <1>1, <1>13 DEF PostTo
<1>17. \A d \in StaffDeals : d # k.d => hinted'[d] = hinted[d]
  BY <1>1, <1>3
<1> QED
  BY <1>12, <1>15, <1>16, <1>17

\* The orchestrator, too, writes only the deal in hand.
LEMMA PeerPosts ==
    ASSUME PeerInv, NEW p \in Posts, PostHint(p)
    PROVE  /\ PeerInv' /\ post'[p].at # "written"
           /\ \A d \in StaffDeals : d # post[p].d => hinted'[d] = hinted[d]
<1> DEFINE k == post[p]
           next == Over([k EXCEPT !.todo = k.todo \ {k.d}])
           free == k.body.mails /\ k.want /\ ~k.body.hold
           row == [k.body EXCEPT !.paused = k.body.paused /\ ~free]
<1>0. k.d \in StaffDeals
  BY DEF PeerInv, PostOK, PostHint, PostIs
<1>1. /\ k \in Handling /\ PostOK(k) /\ k.body \in DealSays /\ (k.body.bound => k.body.hold)
      /\ hinted \in [StaffDeals -> DealSays] /\ post \in [Posts -> Handling]
      /\ rfqFor \in [StaffDeals -> SUBSET Posts]
      /\ \A e \in StaffDeals : hinted[e].bound => hinted[e].hold
  BY DEF PeerInv, Handling, PostOK
<1>2. /\ PostTo(p, next)
      /\ \/ /\ hinted' = [hinted EXCEPT ![k.d] = row]
            /\ rfqFor' = IF k.want THEN [rfqFor EXCEPT ![k.d] = @ \cup {p}] ELSE rfqFor
         \/ UNCHANGED <<hinted, rfqFor>>
  BY DEF PostHint
<1>3. row \in DealSays /\ (row.bound => row.hold)
  BY <1>1 DEF DealSays
<1> HIDE DEF row
<1>4. next \in Handling /\ PostOK(next) /\ next.at \in {"todo", "done"}
  BY <1>1, NextDeal
<1> HIDE DEF next
<1>5. rfqFor' \in [StaffDeals -> SUBSET Posts]
  BY <1>1, <1>2
<1>6. /\ hinted' \in [StaffDeals -> DealSays]
      /\ \A e \in StaffDeals : hinted'[e].bound => hinted'[e].hold
      /\ \A d \in StaffDeals : d # k.d => hinted'[d] = hinted[d]
  <2>1. CASE hinted' = hinted
    BY <1>1, <2>1
  <2>2. CASE hinted' = [hinted EXCEPT ![k.d] = row]
    <3>1. \A d \in StaffDeals : d # k.d => hinted'[d] = hinted[d]
      BY <1>1, <2>2
    <3> QED
      BY <1>0, <1>3, <2>2, <3>1, RowStep
  <2> QED
    BY <1>2, <2>1, <2>2
<1>7. PeerInv'
  BY <1>2, <1>4, <1>5, <1>6, PostStep
<1>8. post'[p] = next
  BY <1>1, <1>2 DEF PostTo
<1> QED
  BY <1>4, <1>6, <1>7, <1>8

LEMMA PeerCloses ==
    ASSUME PeerInv, NEW d \in StaffDeals, DealCloses(d)
    PROVE  PeerInv' /\ \A e \in StaffDeals : hinted[e].closed => hinted'[e].closed
<1>1. hinted' = [hinted EXCEPT ![d] = [hinted[d] EXCEPT !.closed = TRUE]]
      /\ post' = post /\ rfqFor' = rfqFor /\ hinted \in [StaffDeals -> DealSays]
  BY DEF DealCloses, PeerInv
<1> DEFINE row == [hinted[d] EXCEPT !.closed = TRUE]
<1>2. row \in DealSays /\ row.closed /\ (row.bound => row.hold)
  BY DEF PeerInv, DealSays
<1>3. hinted' = [hinted EXCEPT ![d] = row]
  BY <1>1
<1> HIDE DEF row
<1>4. /\ hinted' \in [StaffDeals -> DealSays] /\ hinted'[d] = row
      /\ \A e \in StaffDeals : hinted'[e].bound => hinted'[e].hold
  BY <1>2, <1>3, RowStep
<1>5. (\A q \in Posts : PostOK(post[q]))'
  BY <1>1 DEF PeerInv, PostOK
<1>6. \A e \in StaffDeals : hinted[e].closed => hinted'[e].closed
  BY <1>1, <1>2, <1>3, <1>4
<1>7. PeerInv'
  BY <1>1, <1>4, <1>5 DEF PeerInv
<1> QED
  BY <1>6, <1>7

LEMMA PeerStepInv == PeerInv /\ [PeerNext]_pvars => PeerInv'
<1> SUFFICES ASSUME PeerInv, [PeerNext]_pvars PROVE PeerInv'
  OBVIOUS
<1>1. ASSUME UNCHANGED pvars PROVE PeerInv'
  <2>1. (\A p \in Posts : PostOK(post[p]))'
    BY <1>1 DEF pvars, PeerInv, PostOK
  <2> QED
    BY <1>1, <2>1 DEF pvars, PeerInv
<1> QED
  BY <1>1, PeerSays, PeerHandles, PeerReads, PeerWrites, PeerPosts, PeerCloses DEF PeerNext

LEMMA PeerKeeps == PeerSpec => []PeerInv
BY PeerStart, PeerStepInv, PTL DEF PeerSpec

\* The step brings back a closed deal only as ClosedIsNotRevived allows it.
RevivedFor(d) ==
    \E p \in Posts : /\ post'[p].at # post[p].at
                     /\ \/ post[p].at = "said" /\ post'[p].how # "picked"
                        \/ /\ post[p].d = d
                           /\ post[p].how = "picked" => d \notin post[p].shut

\* A closed deal comes back by a click on a deal of the message's own or by a
\* hint that is applied to it, and a hint that had to pick its deals
\* (pickOpenDealsForOpsHint in staffPeer.ts) brings back none that was closed when
\* it picked them, whatever the search finds.
THEOREM ClosedStaysClosed == PeerSpec => ClosedIsNotRevived
<1>1. ASSUME PeerInv, PeerNext, NEW d \in StaffDeals, hinted[d].closed, ~hinted'[d].closed
      PROVE  RevivedFor(d)
  <2>0. hinted' # hinted
    BY <1>1
  <2>1. ASSUME NEW p \in Posts, Handle(p) PROVE RevivedFor(d)
    <3>1. post[p].at = "said" /\ post'[p].at \in {"todo", "done"} /\ post'[p].how # "picked"
      BY <1>1, <2>0, <2>1, PeerHandles DEF Handle, PostIs
    <3> QED
      BY <3>1 DEF RevivedFor
  <2>2. ASSUME NEW p \in Posts, post[p].at \in {"read", "written"}, post'[p].at # post[p].at,
               \A e \in StaffDeals : e # post[p].d => hinted'[e] = hinted[e]
        PROVE  RevivedFor(d)
    <3>1. post[p].d = d
      BY <1>1, <2>2
    <3>2. PostOK(post[p])
      BY <1>1 DEF PeerInv
    <3>3. post[p].how = "picked" => d \notin post[p].shut
      BY <2>2, <3>1, <3>2 DEF PostOK
    <3> QED
      BY <2>2, <3>1, <3>3 DEF RevivedFor
  <2>3. ASSUME NEW p \in Posts, WriteDeal(p) PROVE RevivedFor(d)
    <3>1. post[p].at = "read"
      BY <2>3 DEF WriteDeal, PostIs
    <3> QED
      BY <1>1, <2>2, <2>3, <3>1, PeerWrites
  <2>4. ASSUME NEW p \in Posts, PostHint(p) PROVE RevivedFor(d)
    <3>1. post[p].at = "written"
      BY <2>4 DEF PostHint, PostIs
    <3> QED
      BY <1>1, <2>2, <2>4, <3>1, PeerPosts
  <2>5. \A p \in Posts : ~Say(p) /\ \A e \in StaffDeals : ~ReadDeal(p, e)
    BY <2>0 DEF Say, ReadDeal
  <2>6. \A e \in StaffDeals : ~DealCloses(e)
    BY <1>1, PeerCloses
  <2> QED
    BY <1>1, <2>1, <2>3, <2>4, <2>5, <2>6 DEF PeerNext
<1>2. PeerInv /\ [PeerNext]_pvars
        => [\A d \in StaffDeals : hinted[d].closed /\ ~hinted'[d].closed => RevivedFor(d)]_pvars
  BY <1>1
<1>3. PeerSpec => [][\A d \in StaffDeals : hinted[d].closed /\ ~hinted'[d].closed => RevivedFor(d)]_pvars
  BY <1>2, PeerKeeps, PTL DEF PeerSpec
<1> QED
  BY <1>3 DEF ClosedIsNotRevived, RevivedFor

\* An RFQ that staff held back is not sent by a later hint before someone says
\* to send it (safeOpsRerunRfq in staffPeer.ts).
THEOREM HoldsAreKept == PeerSpec => HoldNeedsWord
<1>1. ASSUME PeerInv, PeerNext, NEW d \in StaffDeals, NEW p \in rfqFor'[d] \ rfqFor[d]
      PROVE  SendNow(post[p].words) \/ post[p].rfqIntent \/ ~post[p].body.bound
  <2>1. PICK q \in Posts : PostHint(q)
    <3>1. rfqFor' # rfqFor
      OBVIOUS
    <3> QED
      BY <1>1, <3>1 DEF PeerNext, Say, Handle, ReadDeal, WriteDeal, DealCloses
  <2>2. /\ rfqFor' = IF post[q].want THEN [rfqFor EXCEPT ![post[q].d] = @ \cup {q}] ELSE rfqFor
        /\ post[q].at = "written"
    <3>1. rfqFor' # rfqFor
      OBVIOUS
    <3> QED
      BY <2>1, <3>1 DEF PostHint, PostIs
  <2>3. p = q /\ post[q].want
    BY <1>1, <2>2 DEF PeerInv
  <2> QED
    BY <1>1, <2>2, <2>3 DEF PeerInv, PostOK
<1>2. PeerInv /\ [PeerNext]_pvars
        => [\A d \in StaffDeals : \A p \in rfqFor'[d] \ rfqFor[d] :
              SendNow(post[p].words) \/ post[p].rfqIntent \/ ~post[p].body.bound]_pvars
  BY <1>1
<1> QED
  BY <1>2, PeerKeeps, PTL DEF PeerSpec, HoldNeedsWord

-----------------------------------------------------------------------------
(* The staff room.                                                          *)

EarStates == [at: {"none", "due", "hearing", "heard"}, text: RoomTexts \cup {NoText}]
NoteStates == [said: BOOLEAN, text: RoomTexts \cup {NoText}, voice: BOOLEAN]

\* What was heard of the message came to something.
Settled(n) ==
    \/ acts[n] > 0 \/ n \in learnt
    \/ \E l \in Ears : EarIs(l, n, "heard") /\ ears[l][n].text \in RobotLike \cup told

\* Nobody hears before the dispatcher is set, and the account not before it is
\* connected; a text that is remembered was acted on.
EarsInv ==
    /\ gateway.user => gateway.armed
    /\ \A l \in Ears, n \in Notes :
         /\ EarIs(l, n, "hearing") => gateway.armed /\ ears[l][n].text \in RoomTexts
         /\ ears[l][n].at # "none" => notes[n].said
         /\ ears[l][n].at \in {"none", "due"} => ears[l][n].text = NoText
    /\ \A n \in Notes : ears["user"][n].at \in {"due", "hearing"} => gateway.user
    /\ \A n \in Notes : notes[n].said => notes[n].text \in RoomTexts
    /\ seen.texts \subseteq told

\* A message acted on in this life of the gateway is claimed, or no ear holds it any
\* more, or its claim has lapsed; a claimed one is settled; and so is one that any ear
\* has heard, unless Telegram gives it to the bot again.
ActsInv ==
    \A n \in Notes :
        /\ acts[n] > 0 => notes[n].said
        /\ n \notin lapsed => acts[n] <= 1 + roomStops
        /\ acts[n] > roomStops => n \in seen.ids \/ BothDone(n) \/ n \in lapsed
        /\ n \in seen.ids => Settled(n)
        /\ (\E l \in Ears : Caught(l, n))
             => Settled(n) \/ ears["bot"][n].at \in {"due", "hearing"}

RoomInv == RoomTypeOK /\ EarsInv /\ ActsInv

LEMMA RoomInitInv == RoomInit => RoomInv
BY RoomAssumption
   DEF RoomInit, RoomInv, RoomTypeOK, EarsInv, ActsInv, Settled, BothDone, Caught, Deaf, EarIs, Ears

LEMMA RoomTypes ==
    ASSUME RoomTypeOK
    PROVE  /\ ears \in [Ears -> [Notes -> EarStates]] /\ notes \in [Notes -> NoteStates]
           /\ acts \in [Notes -> Nat] /\ roomStops \in Nat
           /\ seen.ids \subseteq Notes /\ seen.texts \subseteq RoomTexts
           /\ Ears = {"bot", "user"}
BY RoomAssumption DEF RoomTypeOK, EarStates, NoteStates, Ears

\* What changes when one ear turns to one message.
EarTurns(l, n, e) == ears' = [ears EXCEPT ![l][n] = e]
EarTurned(l, n, e) ==
    /\ ears' \in [Ears -> [Notes -> EarStates]] /\ ears'[l][n] = e
    /\ \A k \in Ears, m \in Notes : k # l \/ m # n => ears'[k][m] = ears[k][m]

LEMMA OneEar ==
    ASSUME RoomTypeOK, NEW l \in Ears, NEW n \in Notes, NEW e \in EarStates, EarTurns(l, n, e)
    PROVE  EarTurned(l, n, e)
<1> DEFINE x == [ears[l] EXCEPT ![n] = e]
<1>1. ears \in [Ears -> [Notes -> EarStates]] /\ ears[l] \in [Notes -> EarStates]
  BY RoomTypes
<1>2. x \in [Notes -> EarStates] /\ x[n] = e /\ \A m \in Notes : m # n => x[m] = ears[l][m]
  BY <1>1
<1>3. ears' = [ears EXCEPT ![l] = x]
  BY DEF EarTurns
<1> HIDE DEF x
<1>4. ears' \in [Ears -> [Notes -> EarStates]] /\ ears'[l] = x /\ \A k \in Ears : k # l => ears'[k] = ears[k]
  BY <1>1, <1>2, <1>3
<1> QED
  BY <1>2, <1>4 DEF EarTurned

LEMMA RoomStutters ==
    ASSUME RoomInv, UNCHANGED rvars
    PROVE  RoomInv'
<1>1. /\ UNCHANGED <<gateway, notes, ears, seen, lapsed, history, acts, told, learnt, roomStops, roomSyncs>>
      /\ RoomTypeOK /\ EarsInv /\ ActsInv
  BY DEF rvars, rbounds, RoomInv
<1>2. RoomTypeOK'
  BY <1>1 DEF RoomTypeOK
<1>3. EarsInv'
  BY <1>1 DEF EarsInv, EarIs
<1>4. ActsInv'
  <2>1. \A n \in Notes : (Settled(n)' <=> Settled(n)) /\ (BothDone(n)' <=> BothDone(n))
    BY <1>1 DEF Settled, BothDone, EarIs
  <2> QED BY <1>1, <2>1 DEF ActsInv, Caught, EarIs
<1> QED BY <1>2, <1>3, <1>4 DEF RoomInv

LEMMA RoomStepInv == RoomInv /\ [RoomNext]_rvars => RoomInv'
<1> SUFFICES ASSUME RoomInv, [RoomNext]_rvars
             PROVE  RoomInv'
  OBVIOUS
<1>a. RoomTypeOK /\ EarsInv /\ ActsInv
  BY DEF RoomInv
<1>b. /\ ears \in [Ears -> [Notes -> EarStates]] /\ notes \in [Notes -> NoteStates]
      /\ acts \in [Notes -> Nat] /\ roomStops \in Nat
      /\ seen.ids \subseteq Notes /\ seen.texts \subseteq RoomTexts
      /\ Ears = {"bot", "user"}
  BY <1>a, RoomTypes
\* Actions that touch neither what was heard nor what was acted on.
<1>0. ASSUME UNCHANGED <<notes, ears, acts, told, roomStops>>, learnt \subseteq learnt',
             lapsed \subseteq lapsed',
             seen'.ids \subseteq seen.ids, \A n \in seen.ids \ seen'.ids : BothDone(n) \/ n \in lapsed'
      PROVE  ActsInv'
  BY <1>a, <1>b, <1>0 DEF ActsInv, Settled, BothDone, Caught, EarIs
<1>1. CASE ArmBot
  <2>1. ActsInv'
    BY <1>0, <1>1 DEF ArmBot, rbounds
  <2>2. RoomTypeOK' /\ EarsInv'
    BY <1>a, <1>1 DEF ArmBot, RoomTypeOK, EarsInv, EarIs, rbounds
  <2> QED BY <2>1, <2>2 DEF RoomInv
<1>2. CASE UserConnects
  <2>1. ActsInv'
    BY <1>0, <1>2 DEF UserConnects, rbounds
  <2>2. /\ gateway' = [gateway EXCEPT !.user = TRUE] /\ gateway.armed
        /\ UNCHANGED <<notes, ears, seen, lapsed, acts, told, learnt, roomStops, roomSyncs>>
        /\ gateway \in [armed: BOOLEAN, user: BOOLEAN]
        /\ history \in [at: {"idle", "scan"}, marked: BOOLEAN] /\ history' = BootIngest
    BY <1>a, <1>2 DEF UserConnects, RoomTypeOK, rbounds
  <2>3. gateway' \in [armed: BOOLEAN, user: BOOLEAN] /\ gateway'.armed /\ gateway'.user
    BY <2>2
  <2>4. history' \in [at: {"idle", "scan"}, marked: BOOLEAN]
    BY <2>2 DEF BootIngest
  <2>5. RoomTypeOK'
    BY <1>a, <2>2, <2>3, <2>4 DEF RoomTypeOK
  <2>6. EarsInv'
    BY <1>a, <2>2, <2>3 DEF EarsInv, EarIs
  <2> QED BY <2>1, <2>5, <2>6 DEF RoomInv
<1>3. CASE ForgetText
  <2>1. ActsInv'
    BY <1>a, <1>0, <1>3 DEF ForgetText, RoomTypeOK, rbounds
  <2>2. RoomTypeOK' /\ EarsInv'
    BY <1>a, <1>3 DEF ForgetText, RoomTypeOK, EarsInv, EarIs, rbounds
  <2> QED BY <2>1, <2>2 DEF RoomInv
<1>4. CASE Sync \/ IngestEnds
  <2>1. ActsInv'
    BY <1>0, <1>4 DEF Sync, IngestEnds, rbounds
  <2>2. RoomTypeOK' /\ EarsInv'
    <3>1. history' \in [at: {"idle", "scan"}, marked: BOOLEAN] /\ roomSyncs' \in 0..RoomSyncs
      <4>1. history \in [at: {"idle", "scan"}, marked: BOOLEAN] /\ roomSyncs \in 0..RoomSyncs
        BY <1>a DEF RoomTypeOK
      <4>2. CASE Sync
        <5>1. history' = [history EXCEPT !.at = "scan"] /\ roomSyncs < RoomSyncs /\ roomSyncs' = roomSyncs + 1
          BY <4>2 DEF Sync
        <5> QED BY <4>1, <5>1, RoomAssumption
      <4>3. CASE IngestEnds
        <5>1. history' = [history EXCEPT !.at = "idle", !.marked = TRUE] /\ roomSyncs' = roomSyncs
          BY <4>3 DEF IngestEnds, rbounds
        <5> QED BY <4>1, <5>1
      <4> QED BY <1>4, <4>2, <4>3
    <3>2. UNCHANGED <<gateway, notes, ears, seen, lapsed, acts, told, learnt, roomStops>>
      BY <1>4 DEF Sync, IngestEnds, rbounds
    <3> QED BY <1>a, <3>1, <3>2 DEF RoomTypeOK, EarsInv, EarIs
  <2> QED BY <2>1, <2>2 DEF RoomInv
<1>5. ASSUME NEW n \in Notes, ForgetMessage(n)
      PROVE  RoomInv'
  <2>1. ActsInv'
    BY <1>a, <1>0, <1>5 DEF ForgetMessage, RoomTypeOK, BothDone, rbounds
  <2>2. RoomTypeOK' /\ EarsInv'
    <3>1. /\ UNCHANGED <<gateway, notes, ears, history, acts, told, learnt, roomStops, roomSyncs>>
          /\ seen' = [seen EXCEPT !.ids = seen.ids \ {n}]
      BY <1>5 DEF ForgetMessage, rbounds
    <3>2. /\ seen' \in [ids: SUBSET Notes, texts: SUBSET RoomTexts] /\ seen'.texts = seen.texts
          /\ lapsed' \subseteq Notes
      BY <1>a, <1>5, <3>1 DEF RoomTypeOK, ForgetMessage
    <3>3. RoomTypeOK'
      BY <1>a, <3>1, <3>2 DEF RoomTypeOK
    <3>4. EarsInv'
      BY <1>a, <3>1, <3>2 DEF EarsInv, EarIs
    <3> QED BY <3>3, <3>4
  <2> QED BY <2>1, <2>2 DEF RoomInv
<1>6. ASSUME NEW n \in Notes, IngestNote(n)
      PROVE  RoomInv'
  <2>1. ActsInv'
    BY <1>a, <1>b, <1>6 DEF IngestNote, RoomTypeOK, ActsInv, Settled, BothDone, Caught, EarIs, rbounds
  <2>2. RoomTypeOK' /\ EarsInv'
    <3>1. RoomTypeOK'
      BY <1>a, <1>6 DEF IngestNote, RoomTypeOK, rbounds
    <3>2. EarsInv'
      BY <1>a, <1>6 DEF IngestNote, RoomTypeOK, EarsInv, EarIs, rbounds
    <3> QED BY <3>1, <3>2
  <2> QED BY <2>1, <2>2 DEF RoomInv
<1>7. ASSUME NEW n \in Notes, Speak(n)
      PROVE  RoomInv'
  <2>1. PICK text \in RoomTexts, voice \in BOOLEAN, toBot \in BOOLEAN :
          /\ notes' = [notes EXCEPT ![n] = [said |-> TRUE, text |-> text, voice |-> voice]]
          /\ ears' = [l \in Ears |->
               IF (l = "bot" /\ toBot) \/ (l = "user" /\ gateway.user)
               THEN [ears[l] EXCEPT ![n].at = "due"] ELSE ears[l]]
    BY <1>7 DEF Speak
  <2>2. UNCHANGED <<gateway, seen, lapsed, history, acts, told, learnt, roomStops, roomSyncs>> /\ ~notes[n].said
    BY <1>7 DEF Speak, rbounds
  <2>3. /\ notes' \in [Notes -> NoteStates] /\ notes'[n].said /\ notes'[n].text = text
        /\ \A m \in Notes : m # n => notes'[m] = notes[m]
    BY <1>b, <2>1 DEF NoteStates
  <2>4. /\ ears' \in [Ears -> [Notes -> EarStates]]
        /\ \A l \in Ears, m \in Notes : m # n => ears'[l][m] = ears[l][m]
        /\ \A l \in Ears : /\ ears'[l][n].at \in {"none", "due"} /\ ears[l][n].at = "none"
                           /\ ears'[l][n].text = ears[l][n].text
        /\ ears'["user"][n].at = "due" => gateway.user
    <3>1. \A l \in Ears : [ears[l] EXCEPT ![n].at = "due"] \in [Notes -> EarStates]
      <4> SUFFICES ASSUME NEW l \in Ears
                   PROVE  [ears[l] EXCEPT ![n].at = "due"] \in [Notes -> EarStates]
        OBVIOUS
      <4>1. ears[l] \in [Notes -> EarStates] /\ [ears[l][n] EXCEPT !.at = "due"] \in EarStates
        BY <1>b DEF EarStates
      <4> QED BY <4>1
    <3>2. \A l \in Ears : ears[l][n].at = "none"
      BY <1>a, <2>2 DEF EarsInv
    <3>3. ears' \in [Ears -> [Notes -> EarStates]]
      BY <1>b, <2>1, <3>1
    <3>4. \A l \in Ears, m \in Notes : m # n => ears'[l][m] = ears[l][m]
      BY <1>b, <2>1
    <3>5. \A l \in Ears : \/ ears'[l] = ears[l]
                          \/ /\ ears'[l] = [ears[l] EXCEPT ![n].at = "due"]
                             /\ l = "user" => gateway.user
      BY <1>b, <2>1
    <3> QED BY <1>b, <3>2, <3>3, <3>4, <3>5 DEF EarStates
  <2>5. RoomTypeOK'
    BY <1>a, <2>2, <2>3, <2>4 DEF RoomTypeOK, EarStates, NoteStates
  <2>6. EarsInv'
    <3>1. ASSUME NEW l \in Ears, NEW m \in Notes
          PROVE  /\ ears'[l][m].at = "hearing" => gateway.armed /\ ears'[l][m].text \in RoomTexts
                 /\ ears'[l][m].at # "none" => notes'[m].said
                 /\ ears'[l][m].at \in {"none", "due"} => ears'[l][m].text = NoText
      <4>1. CASE m = n
        BY <1>a, <2>3, <2>4, <4>1 DEF EarsInv
      <4>2. CASE m # n
        <5>1. ears'[l][m] = ears[l][m] /\ notes'[m] = notes[m]
          BY <2>3, <2>4, <4>2
        <5> QED BY <1>a, <5>1 DEF EarsInv, EarIs
      <4> QED BY <4>1, <4>2
    <3>2. \A m \in Notes : /\ ears'["user"][m].at \in {"due", "hearing"} => gateway.user
                           /\ notes'[m].said => notes'[m].text \in RoomTexts
      BY <1>a, <1>b, <2>3, <2>4 DEF EarsInv
    <3> QED BY <1>a, <2>2, <3>1, <3>2 DEF EarsInv, EarIs
  <2>7. ActsInv'
    <3> SUFFICES ASSUME NEW m \in Notes
                 PROVE  /\ acts[m] > 0 => notes'[m].said
                        /\ m \notin lapsed => acts[m] <= 1 + roomStops
                        /\ acts[m] > roomStops => m \in seen.ids \/ BothDone(m)' \/ m \in lapsed
                        /\ m \in seen.ids => Settled(m)'
                        /\ (\E l \in Ears : Caught(l, m)')
                             => Settled(m)' \/ ears'["bot"][m].at \in {"due", "hearing"}
      BY <2>2 DEF ActsInv
    <3>1. CASE m = n
      BY <1>a, <1>b, <2>2, <2>3, <2>4, <3>1 DEF ActsInv, Settled, BothDone, Caught, EarIs
    <3>2. CASE m # n
      BY <1>a, <1>b, <2>2, <2>3, <2>4, <3>2 DEF ActsInv, Settled, BothDone, Caught, EarIs
    <3> QED BY <3>1, <3>2
  <2> QED BY <2>5, <2>6, <2>7 DEF RoomInv
<1>8. ASSUME NEW n \in Notes, NEW l \in Ears, Hear(l, n)
      PROVE  RoomInv'
  <2>1. PICK ear \in EarStates :
          /\ EarTurns(l, n, ear)
          /\ \/ ear.at = "hearing" /\ ear.text \in RoomTexts
             \/ ear.at = "heard" /\ ear.text = ears[l][n].text /\ l = "user"
    <3>1. ears[l][n] \in EarStates /\ notes[n].said
      BY <1>a, <1>b, <1>8 DEF EarsInv, Hear, EarIs
    <3>2. ASSUME NEW text \in (IF notes[n].voice THEN RoomTexts ELSE {notes[n].text}),
                 ears' = [ears EXCEPT ![l][n] = [at |-> "hearing", text |-> text]]
          PROVE  /\ [at |-> "hearing", text |-> text] \in EarStates
                 /\ EarTurns(l, n, [at |-> "hearing", text |-> text]) /\ text \in RoomTexts
      <4>1. text \in RoomTexts
        BY <1>a, <3>1 DEF EarsInv
      <4> QED BY <3>2, <4>1 DEF EarStates, EarTurns
    <3>3. ASSUME Turned(l, n, "heard")
          PROVE  /\ [ears[l][n] EXCEPT !.at = "heard"] \in EarStates
                 /\ EarTurns(l, n, [ears[l][n] EXCEPT !.at = "heard"])
                 /\ [ears[l][n] EXCEPT !.at = "heard"].text = ears[l][n].text
      <4>1. [ears[l][n] EXCEPT !.at = "heard"] \in EarStates
        BY <3>1 DEF EarStates
      <4>2. [ears[l][n] EXCEPT !.at = "heard"].text = ears[l][n].text
        BY <3>1 DEF EarStates
      <4>3. ears' = [ears EXCEPT ![l][n] = [ears[l][n] EXCEPT !.at = "heard"]]
        BY <1>b, <3>3 DEF Turned
      <4> QED BY <4>1, <4>2, <4>3 DEF EarTurns
    <3>4. [ears[l][n] EXCEPT !.at = "heard"].at = "heard"
      BY <3>1 DEF EarStates
    <3>5. \/ \E text \in (IF notes[n].voice THEN RoomTexts ELSE {notes[n].text}) :
                ears' = [ears EXCEPT ![l][n] = [at |-> "hearing", text |-> text]]
          \/ Turned(l, n, "heard") /\ l = "user"
      BY <1>8 DEF Hear
    <3>6. CASE Turned(l, n, "heard") /\ l = "user"
      BY <3>3, <3>4, <3>6
    <3>7. CASE \E text \in (IF notes[n].voice THEN RoomTexts ELSE {notes[n].text}) :
                 ears' = [ears EXCEPT ![l][n] = [at |-> "hearing", text |-> text]]
      BY <3>2, <3>7
    <3> QED BY <3>5, <3>6, <3>7
  <2>2. /\ UNCHANGED <<gateway, notes, seen, lapsed, history, acts, told, learnt, roomStops, roomSyncs>>
        /\ ears[l][n].at = "due" /\ (l = "bot" => gateway.armed)
    BY <1>8 DEF Hear, EarIs, rbounds
  <2>3. notes[n].said /\ (ears[l][n].at = "due" => ears[l][n].text = NoText)
    BY <1>a, <2>2 DEF EarsInv
  <2>4. EarTurned(l, n, ear)
    BY <1>a, <2>1, OneEar
  <2>5. RoomTypeOK'
    BY <1>a, <2>2, <2>4 DEF RoomTypeOK, EarStates, EarTurned
  <2>6. EarsInv'
    BY <1>a, <1>b, <2>1, <2>2, <2>3, <2>4 DEF EarsInv, EarIs, EarTurned
  <2>7. ASSUME NEW m \in Notes
        PROVE  (/\ acts[m] > 0 => notes[m].said
                /\ m \notin lapsed => acts[m] <= 1 + roomStops
                /\ acts[m] > roomStops => m \in seen.ids \/ BothDone(m) \/ m \in lapsed
                /\ m \in seen.ids => Settled(m)
                /\ (\E k \in Ears : Caught(k, m))
                     => Settled(m) \/ ears["bot"][m].at \in {"due", "hearing"})'
    <3>0. /\ acts[m] > 0 => notes[m].said
          /\ m \notin lapsed => acts[m] <= 1 + roomStops
          /\ acts[m] > roomStops => m \in seen.ids \/ BothDone(m) \/ m \in lapsed
          /\ m \in seen.ids => Settled(m)
          /\ (\E k \in Ears : Caught(k, m))
               => Settled(m) \/ ears["bot"][m].at \in {"due", "hearing"}
      BY <1>a DEF ActsInv
    <3>1. \A k \in Ears : EarIs(k, m, "heard") => ears'[k][m] = ears[k][m]
      BY <2>2, <2>4 DEF EarIs, EarTurned
    <3>2. Settled(m) => Settled(m)'
      BY <2>2, <3>1 DEF Settled, EarIs
    <3>3. BothDone(m) => BothDone(m)'
      BY <2>2, <2>4 DEF BothDone, EarTurned
    <3>4. \A k \in Ears : Caught(k, m)' => Caught(k, m)
      BY <2>1, <2>2, <2>3, <2>4 DEF Caught, EarIs, EarTurned
    <3>5. (\E k \in Ears : Caught(k, m)) /\ ears["bot"][m].at \in {"due", "hearing"}
            => ears'["bot"][m].at \in {"due", "hearing"}
      <4>1. CASE l # "bot" \/ m # n
        BY <1>b, <2>4, <4>1 DEF EarTurned
      <4>2. CASE l = "bot" /\ m = n
        <5>1. ear.at = "hearing"
          BY <2>1, <4>2
        <5> QED BY <2>4, <4>2, <5>1 DEF EarTurned
      <4> QED BY <4>1, <4>2
    <3> QED BY <2>2, <3>0, <3>2, <3>3, <3>4, <3>5
  <2>8. ActsInv'
    BY <2>7 DEF ActsInv
  <2> QED BY <2>5, <2>6, <2>8 DEF RoomInv
<1>9. ASSUME NEW n \in Notes, NEW l \in Ears, Dispatch(l, n)
      PROVE  RoomInv'
  <2> DEFINE text == ears[l][n].text
             claims == ~Ignored(l, n) /\ n \notin seen.ids
             fresh == claims /\ text \notin seen.texts
  <2>1. /\ ears[l][n].at = "hearing" /\ ears' = [ears EXCEPT ![l][n] = [ears[l][n] EXCEPT !.at = "heard"]]
        /\ seen' = [ids |-> IF claims THEN seen.ids \cup {n} ELSE seen.ids,
                    texts |-> IF fresh THEN seen.texts \cup {text} ELSE seen.texts]
        /\ acts' = [acts EXCEPT ![n] = @ + IF fresh THEN 1 ELSE 0]
        /\ told' = IF fresh THEN told \cup {text} ELSE told
        /\ UNCHANGED <<gateway, notes, lapsed, history, learnt, roomStops, roomSyncs>>
    BY <1>9, <1>b DEF Dispatch, EarIs, Turned, rbounds
  <2>2. text \in RoomTexts /\ gateway.armed /\ notes[n].said
    BY <1>a, <2>1 DEF EarsInv, EarIs
  <2>3. /\ ears' \in [Ears -> [Notes -> EarStates]]
        /\ ears'[l][n].at = "heard" /\ ears'[l][n].text = text
        /\ \A k \in Ears, m \in Notes : k # l \/ m # n => ears'[k][m] = ears[k][m]
    <3> DEFINE ear == [ears[l][n] EXCEPT !.at = "heard"]
    <3>1. ears[l][n] \in EarStates
      BY <1>b
    <3>2. ear \in EarStates /\ ear.at = "heard" /\ ear.text = text
      BY <3>1 DEF EarStates
    <3>3. ears' = [ears EXCEPT ![l][n] = ear]
      BY <2>1
    <3> HIDE DEF ear
    <3>4. EarTurns(l, n, ear)
      BY <3>3 DEF EarTurns
    <3>5. EarTurned(l, n, ear)
      BY <1>a, <3>2, <3>4, OneEar
    <3> QED BY <3>2, <3>5 DEF EarTurned
  <2>4. /\ acts' \in [Notes -> Nat] /\ \A m \in Notes : m # n => acts'[m] = acts[m]
        /\ acts'[n] = acts[n] + IF fresh THEN 1 ELSE 0
        /\ acts[n] \in Nat
    BY <1>b, <2>1
  <2>5. seen'.ids = (IF claims THEN seen.ids \cup {n} ELSE seen.ids)
        /\ seen'.texts = (IF fresh THEN seen.texts \cup {text} ELSE seen.texts)
    BY <2>1
  <2>6. fresh => claims /\ text \in told'
    BY <2>1
  <2>7. ~Ignored(l, n) \/ text \in RobotLike
    BY <2>2 DEF Ignored
  <2>c. claims <=> ~Ignored(l, n) /\ n \notin seen.ids
    OBVIOUS
  <2>d. claims /\ ~fresh => text \in told
    BY <1>a DEF EarsInv
  <2> HIDE DEF text, claims, fresh
  <2>8. told \subseteq told'
    BY <2>1
  <2>9. RoomTypeOK'
    BY <1>a, <1>b, <2>1, <2>2, <2>3, <2>4 DEF RoomTypeOK, EarStates
  <2>10. EarsInv'
    BY <1>a, <1>b, <2>1, <2>2, <2>3, <2>5, <2>6, <2>8 DEF EarsInv, EarIs
  <2>11. Settled(n)'
    <3>1. CASE fresh
      BY <2>4, <3>1 DEF Settled
    <3>2. CASE text \in RobotLike \/ (claims /\ ~fresh)
      BY <2>3, <2>8, <2>d, <3>2 DEF Settled, EarIs
    <3>3. CASE n \in seen.ids /\ ~fresh
      BY <1>a, <2>1, <2>3, <2>4, <2>8, <3>3 DEF ActsInv, Settled, EarIs
    <3> QED BY <2>7, <2>c, <3>1, <3>2, <3>3
  <2>12. ASSUME NEW m \in Notes
         PROVE  (/\ acts[m] > 0 => notes[m].said
                 /\ m \notin lapsed => acts[m] <= 1 + roomStops
                 /\ acts[m] > roomStops => m \in seen.ids \/ BothDone(m) \/ m \in lapsed
                 /\ m \in seen.ids => Settled(m)
                 /\ (\E k \in Ears : Caught(k, m))
                      => Settled(m) \/ ears["bot"][m].at \in {"due", "hearing"})'
    <3>1. CASE m = n
      <4>1. claims /\ n \notin lapsed => acts[n] <= roomStops
        BY <1>a, <1>b, <2>1, <2>c DEF ActsInv, BothDone
      <4>2. /\ n \notin lapsed => acts'[n] <= 1 + roomStops
            /\ acts'[n] > roomStops => n \in seen'.ids \/ BothDone(n)' \/ n \in lapsed
        <5>1. CASE fresh
          BY <1>b, <2>4, <2>5, <2>6, <4>1, <5>1
        <5>2. CASE ~fresh
          BY <1>a, <1>b, <2>1, <2>3, <2>4, <2>5, <5>2 DEF ActsInv, BothDone
        <5> QED BY <5>1, <5>2
      <4> QED BY <2>1, <2>2, <2>11, <3>1, <4>2
    <3>2. CASE m # n
      <4>1. /\ acts'[m] = acts[m] /\ notes' = notes /\ learnt' = learnt /\ roomStops' = roomStops
            /\ lapsed' = lapsed /\ \A k \in Ears : ears'[k][m] = ears[k][m]
        BY <2>1, <2>3, <2>4, <3>2
      <4>2. m \in seen.ids <=> m \in seen'.ids
        BY <2>5, <3>2
      <4>3. BothDone(m)' <=> BothDone(m)
        BY <4>1 DEF BothDone
      <4>4. Settled(m) => Settled(m)'
        BY <2>8, <4>1 DEF Settled, EarIs
      <4>5. (\E k \in Ears : Caught(k, m))' => \E k \in Ears : Caught(k, m)
        BY <4>1 DEF Caught, EarIs
      <4>6. ears'["bot"][m] = ears["bot"][m]
        BY <1>b, <4>1
      <4> QED BY <1>a, <4>1, <4>2, <4>3, <4>4, <4>5, <4>6 DEF ActsInv
    <3> QED BY <3>1, <3>2
  <2>13. ActsInv'
    BY <2>12 DEF ActsInv
  <2> QED BY <2>9, <2>10, <2>13 DEF RoomInv
<1>10. CASE GatewayStops
  <2>1. /\ roomStops < RoomStops /\ roomStops' = roomStops + 1
        /\ gateway' = [armed |-> FALSE, user |-> FALSE]
        /\ seen' = [ids |-> {}, texts |-> {}]
        /\ history' = [history EXCEPT !.at = "idle"]
        /\ UNCHANGED <<notes, lapsed, acts, told, learnt, roomSyncs>>
    BY <1>10 DEF GatewayStops
  <2>2. PICK again \in SUBSET {n \in Notes : EarIs("bot", n, "heard")} :
          ears' = [bot |-> [n \in Notes |->
                    IF n \in again \/ EarIs("bot", n, "hearing")
                    THEN [at |-> "due", text |-> NoText] ELSE ears["bot"][n]],
                  user |-> [n \in Notes |->
                    IF EarIs("user", n, "heard") THEN ears["user"][n] ELSE Deaf]]
    BY <1>10 DEF GatewayStops
  <2>3. \A n \in Notes : ears'["bot"][n] = IF n \in again \/ EarIs("bot", n, "hearing")
                                           THEN [at |-> "due", text |-> NoText] ELSE ears["bot"][n]
    BY <2>2
  <2>4. \A n \in Notes : ears'["user"][n] = IF EarIs("user", n, "heard") THEN ears["user"][n] ELSE Deaf
    BY <2>2
  <2>5. ears' \in [Ears -> [Notes -> EarStates]]
    <3>1. ears'["bot"] \in [Notes -> EarStates] /\ ears'["user"] \in [Notes -> EarStates]
      BY <1>b, <2>2 DEF EarStates, Deaf
    <3>2. ears' \in [{"bot", "user"} -> [Notes -> EarStates]]
      BY <2>2, <3>1
    <3> QED BY <1>b, <3>2
  <2>6. RoomTypeOK'
    <3>1. gateway' \in [armed: BOOLEAN, user: BOOLEAN] /\ seen' \in [ids: SUBSET Notes, texts: SUBSET RoomTexts]
      BY <2>1
    <3>2. history \in [at: {"idle", "scan"}, marked: BOOLEAN]
      BY <1>a DEF RoomTypeOK
    <3>3. history' \in [at: {"idle", "scan"}, marked: BOOLEAN]
      BY <2>1, <3>2
    <3>4. roomStops' \in 0..RoomStops
      BY <1>a, <2>1, RoomAssumption DEF RoomTypeOK
    <3>5. ears' \in [Ears -> [Notes -> [at: {"none", "due", "hearing", "heard"},
                                        text: RoomTexts \cup {NoText}]]]
      BY <2>5 DEF EarStates
    <3> QED BY <1>a, <2>1, <3>1, <3>3, <3>4, <3>5 DEF RoomTypeOK
  <2>7. EarsInv'
    BY <1>a, <1>b, <2>1, <2>3, <2>4, <2>5 DEF EarsInv, EarIs, Deaf
  <2>8. ASSUME NEW n \in Notes
        PROVE  (/\ acts[n] > 0 => notes[n].said
                /\ n \notin lapsed => acts[n] <= roomStops
                /\ (\E k \in Ears : Caught(k, n))
                     => Settled(n) \/ ears["bot"][n].at \in {"due", "hearing"})'
    <3>1. (acts[n] > 0 => notes[n].said)' /\ (n \notin lapsed' => acts'[n] <= roomStops')
      BY <1>a, <1>b, <2>1 DEF ActsInv
    <3>2. CASE n \in again \/ EarIs("bot", n, "hearing") \/ EarIs("bot", n, "due")
      <4>1. ears'["bot"][n].at = "due"
        BY <2>3, <3>2 DEF EarIs
      <4> QED BY <3>1, <4>1
    <3>3. CASE ~(n \in again \/ EarIs("bot", n, "hearing") \/ EarIs("bot", n, "due"))
      <4>1. ears'["bot"][n] = ears["bot"][n]
        BY <2>3, <3>3
      <4>2. \A k \in Ears : EarIs(k, n, "heard")' <=> EarIs(k, n, "heard")
        BY <1>b, <2>4, <4>1 DEF EarIs, Deaf
      <4>5. \A k \in Ears : Caught(k, n)' => Caught(k, n)
        BY <1>b, <2>4, <4>1 DEF Caught, EarIs, Deaf
      <4>3. \A k \in Ears : EarIs(k, n, "heard") => ears'[k][n] = ears[k][n]
        BY <1>b, <2>4, <4>1
      <4>4. Settled(n) => Settled(n)'
        BY <2>1, <4>2, <4>3 DEF Settled
      <4> QED BY <1>a, <3>1, <3>3, <4>1, <4>4, <4>5 DEF ActsInv, EarIs
    <3> QED BY <3>2, <3>3
  <2>9. ActsInv'
    BY <1>b, <2>1, <2>8 DEF ActsInv
  <2> QED BY <2>6, <2>7, <2>9 DEF RoomInv
<1>11. CASE UNCHANGED rvars
  BY <1>11, RoomStutters
<1> QED
  BY <1>1, <1>2, <1>3, <1>4, <1>5, <1>6, <1>7, <1>8, <1>9, <1>10, <1>11 DEF RoomNext, EarStep

\* However many messages, stops of the gateway and runs of the ingest there are, and
\* whatever each ear makes of a voice: a message is acted on once in a life of the
\* gateway, unless its claim was forgotten before an ear was done with it, and one an
\* ear had words of came to something, but for the code's own exceptions.
THEOREM RoomActsOnceAlways == RoomSpec => []RoomActsOnce
<1>1. RoomInv => RoomActsOnce
  <2> SUFFICES ASSUME RoomInv
               PROVE  ActedOnce /\ HeardIsActedOn
    BY DEF RoomActsOnce
  <2>1. ActedOnce
    BY DEF RoomInv, ActsInv, ActedOnce
  <2>2. ASSUME NEW n \in Notes, NEW l \in Ears, Caught(l, n), BothDone(n)
        PROVE  \/ acts[n] > 0 \/ n \in learnt
               \/ \E k \in Ears : Caught(k, n) /\ ears[k][n].text \in RobotLike \cup told
    <3>1. Settled(n)
      BY <2>2 DEF RoomInv, ActsInv, BothDone, Ears
    <3>2. \A k \in Ears : EarIs(k, n, "heard") /\ ears[k][n].text \in RobotLike \cup told => Caught(k, n)
      BY RoomAssumption DEF RoomInv, RoomTypeOK, Caught
    <3> QED BY <3>1, <3>2 DEF Settled
  <2> QED BY <2>1, <2>2 DEF HeardIsActedOn
<1> QED
  BY RoomInitInv, RoomStepInv, <1>1, PTL DEF RoomSpec

-----------------------------------------------------------------------------
(* Media in chats.                                                          *)

\* What a message is and what there is to find out about it never change, and the
\* bot takes voices only.
ParcelInv ==
    /\ parcel \in [door: Doors, kind: Kinds, caption: BOOLEAN]
    /\ parcel.door = "bot" => Voice
    /\ luck \in [loads: {"throws", "nothing", "bytes"}, key: BOOLEAN, size: {"fits", "large"},
                hears: [1..SpeechModels -> {"throws", "nothing", "text"}]]

\* A message that is being read came whole, is of a known kind and stands at its
\* listener only if it is a voice; no model tried so far understood the voice; and
\* once the reading is over, what a model understood is there.
MediaInv ==
    /\ MediaTypeOK /\ ParcelInv
    /\ mediaAt = "new" => nextModel = 1 /\ gist = {}
    /\ mediaAt \in {"voice", "file", "compose"} => luck.loads = "bytes" /\ parcel.kind # "unknown"
    /\ mediaAt = "voice" => Voice /\ gist = {} /\ \A i \in 1..(nextModel - 1) : luck.hears[i] # "text"
    /\ mediaAt = "file" => ~Voice
    /\ mediaAt = "compose" /\ Voice /\ luck.key /\ luck.size = "fits" /\ SomeModelHears
         => "contents" \in gist
    /\ WordsGetThrough

\* The models tried so far, and the next one.
LEMMA OneMoreModel ==
    ASSUME NEW N \in Nat \ {0}, NEW n \in 1..N, NEW hears,
           \A i \in 1..(n - 1) : hears[i] # "text", hears[n] # "text"
    PROVE  /\ n = N => ~\E i \in 1..N : hears[i] = "text"
           /\ n # N => n + 1 \in 1..N /\ \A i \in 1..((n + 1) - 1) : hears[i] # "text"
<1>1. \A i \in 1..n : i = n \/ i \in 1..(n - 1)
  OBVIOUS
<1>2. \A i \in 1..n : hears[i] # "text"
  BY <1>1
<1>3. (n + 1) - 1 = n /\ (n # N => n + 1 \in 1..N)
  OBVIOUS
<1> QED BY <1>2, <1>3

LEMMA NoModelYet ==
    ASSUME NEW n, n = 1, NEW hears
    PROVE  \A i \in 1..(n - 1) : hears[i] # "text"
OBVIOUS

LEMMA MediaInitInv == MediaInit => MediaInv
BY MediaAssumption
   DEF MediaInit, MediaInv, MediaTypeOK, ParcelInv, WordsGetThrough, SomeModelHears, Voice, Doors, Kinds

LEMMA DownloadedInv ==
    ASSUME MediaInv, Downloaded
    PROVE  MediaInv'
<1>1. /\ nextModel = 1 /\ gist = {} /\ luck.loads = "bytes" /\ parcel.kind # "unknown"
      /\ mediaAt' = (IF Voice THEN "voice" ELSE "file")
      /\ UNCHANGED <<parcel, luck, nextModel, gist>>
  BY DEF Downloaded, MediaGoes, MediaInv
<1>2. \A i \in 1..(nextModel - 1) : luck.hears[i] # "text"
  BY <1>1, NoModelYet
<1>3. MediaTypeOK' /\ ParcelInv' /\ WordsGetThrough'
  BY <1>1 DEF MediaInv, MediaTypeOK, ParcelInv, WordsGetThrough, Voice
<1> QED
  BY <1>1, <1>2, <1>3 DEF MediaInv, Voice

LEMMA TryModelInv ==
    ASSUME MediaInv, TryModel
    PROVE  MediaInv'
<1>1. /\ mediaAt = "voice" /\ luck.key /\ luck.size = "fits" /\ UNCHANGED <<parcel, luck>>
      /\ mediaAt' \in {"voice", "compose"}
  BY DEF TryModel, MediaGoes
<1>2. SpeechModels \in Nat \ {0} /\ nextModel \in 1..SpeechModels
  BY MediaAssumption DEF MediaInv, MediaTypeOK
<1>3. Voice /\ gist = {} /\ \A i \in 1..(nextModel - 1) : luck.hears[i] # "text"
  BY <1>1 DEF MediaInv
<1>4. /\ parcel.door \in Doors /\ parcel.kind \in Kinds /\ ParcelInv'
      /\ luck.loads = "bytes" /\ parcel.kind # "unknown"
  BY <1>1 DEF MediaInv, MediaTypeOK, ParcelInv, Voice
<1>5. \/ /\ mediaAt' = "compose" /\ nextModel' = nextModel
         /\ "contents" \in gist' \/ ~SomeModelHears
         /\ gist' \subseteq {"contents"}
      \/ /\ mediaAt' = "voice" /\ gist' = {} /\ nextModel' \in 1..SpeechModels
         /\ \A i \in 1..(nextModel' - 1) : luck.hears[i] # "text"
  <2>1. CASE luck.hears[nextModel] = "text"
    BY <2>1 DEF TryModel, MediaGoes
  <2>2. CASE luck.hears[nextModel] # "text" /\ nextModel = SpeechModels
    <3>1. ~SomeModelHears
      BY <1>2, <1>3, <2>2, OneMoreModel DEF SomeModelHears
    <3> QED BY <1>3, <2>2, <3>1 DEF TryModel, MediaGoes
  <2>3. CASE luck.hears[nextModel] # "text" /\ nextModel # SpeechModels
    <3>1. /\ nextModel + 1 \in 1..SpeechModels
          /\ \A i \in 1..((nextModel + 1) - 1) : luck.hears[i] # "text"
      BY <1>2, <1>3, <2>3, OneMoreModel
    <3>2. mediaAt' = "voice" /\ gist' = {} /\ nextModel' = nextModel + 1
      BY <1>3, <2>3 DEF TryModel, MediaGoes
    <3> QED BY <3>1, <3>2
  <2> QED BY <2>1, <2>2, <2>3
<1>6. UNCHANGED <<SomeModelHears, Voice>>
  BY <1>1 DEF SomeModelHears, Voice
<1>7. MediaTypeOK' /\ WordsGetThrough'
  BY <1>1, <1>2, <1>4, <1>5 DEF MediaTypeOK, WordsGetThrough
<1> QED
  BY <1>1, <1>3, <1>4, <1>5, <1>6, <1>7 DEF MediaInv

LEMMA MediaStutters ==
    ASSUME MediaInv, UNCHANGED bvars
    PROVE  MediaInv'
<1>1. parcel' = parcel /\ luck' = luck /\ mediaAt' = mediaAt /\ nextModel' = nextModel /\ gist' = gist
  BY DEF bvars
<1>2. SomeModelHears' = SomeModelHears /\ Voice' = Voice
  BY <1>1 DEF SomeModelHears, Voice
<1>3. MediaTypeOK' /\ ParcelInv'
  BY <1>1, <1>2 DEF MediaInv, MediaTypeOK, ParcelInv
<1>4. WordsGetThrough'
  BY <1>1, <1>2 DEF MediaInv, WordsGetThrough
<1> QED
  BY <1>1, <1>2, <1>3, <1>4 DEF MediaInv

LEMMA MediaStepInv == MediaInv /\ [MediaNext]_bvars => MediaInv'
<1> SUFFICES ASSUME MediaInv, [MediaNext]_bvars
             PROVE  MediaInv'
  OBVIOUS
<1> USE MediaAssumption DEF MediaInv, MediaTypeOK, ParcelInv, WordsGetThrough, SomeModelHears,
                            Voice, Caption, MediaGoes, Doors, Kinds
<1>1. CASE NoMedia
  BY <1>1 DEF NoMedia
<1>2. CASE DownloadThrows
  <2>1. /\ mediaAt = "new" /\ nextModel' = nextModel /\ UNCHANGED <<parcel, luck>>
        /\ luck.loads # "bytes" /\ mediaAt' \in {"lost", "done"}
    BY <1>2 DEF DownloadThrows
  <2>2. CASE parcel.door = "client"
    <3>1. gist' = {} /\ luck.loads = "throws"
      BY <1>2, <2>2 DEF DownloadThrows
    <3> QED BY <2>1, <2>2, <3>1
  <2>3. CASE parcel.door = "listener"
    <3>1. gist' = Caption
      BY <1>2, <2>3 DEF DownloadThrows
    <3> QED BY <2>1, <2>3, <3>1
  <2>4. CASE parcel.door = "bot"
    <3>1. gist' = IF parcel.caption THEN Caption ELSE {"please write"}
      BY <1>2, <2>4 DEF DownloadThrows
    <3> QED BY <2>1, <2>4, <3>1
  <2> QED BY <2>2, <2>3, <2>4
<1>3. CASE ListenerPasses
  BY <1>3 DEF ListenerPasses
<1>4. CASE Downloaded
  BY <1>4, DownloadedInv
<1>5. CASE ReadFile
  BY <1>5 DEF ReadFile
<1>6. CASE SkipVoice
  BY <1>6 DEF SkipVoice
<1>7. CASE TryModel
  BY <1>7, TryModelInv
<1>8. CASE Compose
  BY <1>8 DEF Compose
<1>9. CASE UNCHANGED bvars
  BY <1>9, MediaStutters
<1> QED
  BY <1>1, <1>2, <1>3, <1>4, <1>5, <1>6, <1>7, <1>8, <1>9 DEF MediaNext

\* However many models a voice is tried with and wherever a download fails: a voice
\* that came and that a model understands reaches the assistant in words, a caption
\* is lost only with a client's download, and nothing a client sent that came whole
\* is dropped in silence.
THEOREM WordsAreHeard == MediaSpec => []WordsGetThrough
<1>1. MediaInv => WordsGetThrough
  BY DEF MediaInv
<1> QED
  BY MediaInitInv, MediaStepInv, <1>1, PTL DEF MediaSpec

-----------------------------------------------------------------------------
(* The history of a topic.                                                 *)

\* A set of naturals has a least one.
LEMMA LeastOf ==
    ASSUME NEW T, T \subseteq Nat, T # {}
    PROVE  \E x \in T : \A y \in T : x <= y
<1>1. \E x \in T : \A y \in T : ~ (<<y, x>> \in OpToRel(<, Nat))
  BY NatLessThanWellFounded, WFMin, Zenon
<1>2. \A x, y \in T : x <= y \/ <<y, x>> \in OpToRel(<, Nat)
  BY DEF OpToRel
<1> QED BY <1>1, <1>2

Falls(s) == \A i, j \in DOMAIN s : i < j => s[i] > s[j]

\* Every finite set of numbers can be written down from the largest to the least.
LEMMA Falling ==
    ASSUME NEW S, S \subseteq Nat, IsFiniteSet(S)
    PROVE  \E s \in [1..Cardinality(S) -> S] : Falls(s)
<1> DEFINE Bad == {n \in Nat : \E T \in SUBSET Nat : /\ IsFiniteSet(T) /\ Cardinality(T) = n
                                                     /\ ~ \E s \in [1..n -> T] : Falls(s)}
<1>1. Bad = {}
  <2> SUFFICES ASSUME Bad # {} PROVE FALSE
    OBVIOUS
  <2>1. Bad \subseteq Nat
    OBVIOUS
  <2> HIDE DEF Bad
  <2>2. PICK n \in Bad : \A k \in Bad : n <= k
    BY <2>1, LeastOf
  <2>3. n \in Nat
    BY <2>1, <2>2
  <2>4. PICK T \in SUBSET Nat : /\ IsFiniteSet(T) /\ Cardinality(T) = n
                                /\ ~ \E s \in [1..n -> T] : Falls(s)
    BY <2>2 DEF Bad
  <2>5. CASE n = 0
    <3> DEFINE none == [i \in 1..0 |-> 0]
    <3>1. none \in [1..0 -> T] /\ Falls(none)
      BY DEF Falls
    <3> QED BY <2>4, <2>5, <3>1
  <2>6. CASE n # 0
    <3>1. T # {}
      BY <2>4, <2>6, FS_EmptySet
    <3>2. PICK x \in T : \A y \in T : x <= y
      BY <3>1, LeastOf
    <3> DEFINE U == T \ {x}
    <3>3. IsFiniteSet(U) /\ Cardinality(U) = n - 1 /\ U \in SUBSET Nat /\ n - 1 \in Nat
      BY <2>3, <2>4, <2>6, <3>2, FS_RemoveElement
    <3>4. n - 1 \notin Bad
      BY <2>2, <2>3, <3>3
    <3>5. PICK s \in [1..(n - 1) -> U] : Falls(s)
      BY <3>3, <3>4 DEF Bad
    <3> DEFINE r == [i \in 1..n |-> IF i < n THEN s[i] ELSE x]
    <3>6. \A i \in 1..n : i < n => r[i] = s[i] /\ s[i] \in U /\ s[i] > x
      <4> SUFFICES ASSUME NEW i \in 1..n, i < n PROVE r[i] = s[i] /\ s[i] \in U /\ s[i] > x
        OBVIOUS
      <4>1. i \in 1..(n - 1)
        BY <2>3
      <4>2. s[i] \in U /\ r[i] = s[i]
        BY <3>5, <4>1
      <4>3. s[i] \in Nat /\ x \in Nat /\ s[i] # x /\ x <= s[i]
        BY <2>4, <3>2, <4>2
      <4> QED BY <4>2, <4>3
    <3>7. r[n] = x /\ n \in 1..n
      BY <2>3, <2>6
    <3>8. r \in [1..n -> T]
      <4>1. \A i \in 1..n : r[i] \in T
        <5> SUFFICES ASSUME NEW i \in 1..n PROVE r[i] \in T
          OBVIOUS
        <5>1. i < n \/ i = n
          BY <2>3
        <5> QED BY <3>2, <3>6, <3>7, <5>1
      <4> QED BY <4>1
    <3>9. Falls(r)
      <4> SUFFICES ASSUME NEW i \in 1..n, NEW j \in 1..n, i < j PROVE r[i] > r[j]
        BY DEF Falls
      <4>1. CASE j = n
        BY <3>6, <3>7, <4>1
      <4>2. CASE j # n
        <5>1. i < n /\ j < n /\ i \in 1..(n - 1) /\ j \in 1..(n - 1)
          BY <2>3, <4>2
        <5>2. s[i] > s[j]
          BY <3>5, <5>1 DEF Falls
        <5> QED BY <3>6, <5>1, <5>2
      <4> QED BY <4>1, <4>2
    <3> QED BY <2>4, <3>8, <3>9
  <2> QED BY <2>5, <2>6
<1>2. Cardinality(S) \in Nat
  BY FS_CardinalityType
<1> QED BY <1>1, <1>2

\* A page, newest first, is every one of its messages once.
LEMMA PageIs ==
    ASSUME NEW S, S \subseteq Nat, IsFiniteSet(S)
    PROVE  /\ NewestFirst(S) \in Seq(S) /\ Len(NewestFirst(S)) = Cardinality(S)
           /\ Falls(NewestFirst(S)) /\ {NewestFirst(S)[k] : k \in 1..Cardinality(S)} = S
<1> DEFINE s == NewestFirst(S)
           n == Cardinality(S)
<1>1. s \in [1..n -> S] /\ Falls(s)
  BY Falling DEF NewestFirst, Falls
<1>2. n \in Nat
  BY FS_CardinalityType
<1> HIDE DEF s, n
<1>3. IsInjective(s)
  <2> SUFFICES ASSUME NEW i \in 1..n, NEW j \in 1..n, s[i] = s[j], i # j PROVE FALSE
    BY <1>1 DEF IsInjective
  <2>0. s[i] \in S /\ s[j] \in S
    BY <1>1
  <2>1. s[i] \in Nat /\ s[j] \in Nat
    BY <2>0
  <2>4. i \in Nat /\ j \in Nat /\ i \in DOMAIN s /\ j \in DOMAIN s
    BY <1>1, <1>2
  <2>2. CASE i < j
    BY <1>1, <2>1, <2>2, <2>4 DEF Falls
  <2>3. CASE j < i
    BY <1>1, <2>1, <2>3, <2>4 DEF Falls
  <2> QED BY <2>2, <2>3, <2>4
<1>4. s \in Injection(1..n, S)
  BY <1>1, <1>3 DEF Injection
<1>5. IsFiniteSet(1..n) /\ Cardinality(1..n) = n
  BY <1>2, FS_Interval
<1>6. s \in Surjection(1..n, S)
  BY <1>4, <1>5, FS_Injection DEF n
<1>7. {s[k] : k \in 1..n} = S
  BY <1>1, <1>6 DEF Surjection
<1>8. s \in Seq(S) /\ Len(s) = n
  BY <1>1, <1>2
<1> QED BY <1>1, <1>7, <1>8 DEF s, n

\* A falling sequence, sorted, rises; and has the same elements.
LEMMA SortedIs ==
    ASSUME NEW s \in Seq(Nat), Falls(s)
    PROVE  /\ Sorted(s) \in Seq(Nat) /\ Len(Sorted(s)) = Len(s)
           /\ \A i, j \in 1..Len(s) : i < j => Sorted(s)[i] < Sorted(s)[j]
           /\ {Sorted(s)[k] : k \in 1..Len(s)} = {s[k] : k \in 1..Len(s)}
<1> DEFINE n == Len(s)
           Rises(p) == \A i, j \in 1..n : i < j => s[p[i]] <= s[p[j]]
           p == CHOOSE p \in Bijection(1..n, 1..n) : Rises(p)
           back == [i \in 1..n |-> n + 1 - i]
<1>1. n \in Nat /\ DOMAIN s = 1..n /\ \A i \in 1..n : s[i] \in Nat
  OBVIOUS
<1>2. back \in Bijection(1..n, 1..n)
  <2>1. back \in [1..n -> 1..n]
    BY <1>1
  <2>2. \A i, j \in 1..n : back[i] = back[j] => i = j
    BY <1>1
  <2>3. \A k \in 1..n : n + 1 - k \in 1..n /\ back[n + 1 - k] = k
    BY <1>1
  <2> HIDE DEF back
  <2> QED BY <2>1, <2>2, <2>3 DEF Bijection, Injection, Surjection, IsInjective
<1>3. Rises(back)
  <2> SUFFICES ASSUME NEW i \in 1..n, NEW j \in 1..n, i < j PROVE s[back[i]] <= s[back[j]]
    OBVIOUS
  <2>1. back[i] \in 1..n /\ back[j] \in 1..n /\ back[j] < back[i]
    BY <1>1
  <2> HIDE DEF back
  <2>2. s[back[j]] > s[back[i]]
    BY <1>1, <2>1 DEF Falls
  <2> QED BY <1>1, <2>1, <2>2
<1> HIDE DEF back
<1>4. p \in Bijection(1..n, 1..n) /\ Rises(p)
  BY <1>2, <1>3
<1>5. Sorted(s) = [i \in 1..n |-> s[p[i]]]
  BY <1>1 DEF Sorted
<1> HIDE DEF p
<1>6. /\ p \in [1..n -> 1..n] /\ \A i, j \in 1..n : p[i] = p[j] => i = j
      /\ \A k \in 1..n : \E i \in 1..n : p[i] = k
  BY <1>4 DEF Bijection, Injection, Surjection, IsInjective
<1>7. \A i, j \in 1..n : i < j => s[p[i]] < s[p[j]]
  <2> SUFFICES ASSUME NEW i \in 1..n, NEW j \in 1..n, i < j PROVE s[p[i]] < s[p[j]]
    OBVIOUS
  <2>1. s[p[i]] <= s[p[j]]
    BY <1>4
  <2>0. i # j
    BY <1>1
  <2>2. p[i] \in 1..n /\ p[j] \in 1..n /\ p[i] # p[j]
    BY <1>6, <2>0
  <2>3. s[p[i]] # s[p[j]]
    <3>1. CASE p[i] < p[j]
      BY <1>1, <2>2, <3>1 DEF Falls
    <3>2. CASE p[j] < p[i]
      BY <1>1, <2>2, <3>2 DEF Falls
    <3> QED BY <1>1, <2>2, <3>1, <3>2
  <2> QED BY <1>1, <2>1, <2>2, <2>3
<1>8. {s[p[k]] : k \in 1..n} = {s[k] : k \in 1..n}
  <2>1. \A k \in 1..n : s[p[k]] \in {s[i] : i \in 1..n}
    BY <1>6
  <2>2. \A k \in 1..n : s[k] \in {s[p[i]] : i \in 1..n}
    BY <1>6
  <2> QED BY <2>1, <2>2
<1>9. Sorted(s) \in Seq(Nat) /\ Len(Sorted(s)) = n /\ \A i \in 1..n : Sorted(s)[i] = s[p[i]]
  <2>1. \A i \in 1..n : s[p[i]] \in Nat
    BY <1>1, <1>6
  <2>2. [i \in 1..n |-> s[p[i]]] \in [1..n -> Nat]
    BY <2>1
  <2> DEFINE r == [i \in 1..n |-> s[p[i]]]
  <2> HIDE DEF r, n
  <2>3. r \in Seq(Nat) /\ Len(r) = n
    BY <1>1, <2>2 DEF r
  <2> QED BY <1>5, <2>3 DEF r
<1> HIDE DEF n
<1>10. {Sorted(s)[k] : k \in 1..n} = {s[p[k]] : k \in 1..n}
  <2> DEFINE r == Sorted(s)
  <2>1. \A k \in 1..n : r[k] = s[p[k]]
    BY <1>9
  <2> HIDE DEF r
  <2>2. {r[k] : k \in 1..n} = {s[p[k]] : k \in 1..n}
    BY <2>1
  <2> QED BY <2>2 DEF r
<1>11. \A i, j \in 1..n : i < j => Sorted(s)[i] < Sorted(s)[j]
  BY <1>7, <1>9
<1> QED BY <1>8, <1>9, <1>10, <1>11 DEF n

\* The page: the newest n of what is eligible; nothing eligible between two of its
\* messages is left out.
LEMMA OlderIs ==
    ASSUME NEW those, NEW n \in Nat, n > 0, room \in Seq(Sorts), fetch.offsetId \in Nat
    PROVE  /\ Older(those, n) \subseteq DOMAIN room /\ IsFiniteSet(Older(those, n))
           /\ Older(those, n) \subseteq Nat
           /\ Cardinality(Older(those, n)) \in Nat /\ Cardinality(Older(those, n)) <= n
           /\ \A i \in Older(those, n) : fetch.offsetId = FromNewest \/ i < fetch.offsetId
           /\ \A i \in Older(those, n), j \in DOMAIN room :
                j > i /\ room[j] \in those /\ (fetch.offsetId = FromNewest \/ j < fetch.offsetId)
                  => j \in Older(those, n)
<1> DEFINE all == {i \in DOMAIN room : room[i] \in those /\
                                         (fetch.offsetId = FromNewest \/ i < fetch.offsetId)}
           Above(i) == {j \in all : j > i}
           page == {i \in all : Cardinality(Above(i)) < n}
<1>0. page = Older(those, n)
  BY DEF Older
<1>1. DOMAIN room = 1..Len(room) /\ Len(room) \in Nat
  OBVIOUS
<1>2. IsFiniteSet(all) /\ all \subseteq Nat
  <2>1. IsFiniteSet(1..Len(room))
    BY <1>1, FS_Interval
  <2> QED BY <1>1, <2>1, FS_Subset
<1>3. IsFiniteSet(page) /\ page \subseteq all
  BY <1>2, FS_Subset
<1>4. \A i \in all : IsFiniteSet(Above(i)) /\ Cardinality(Above(i)) \in Nat
  BY <1>2, FS_Subset, FS_CardinalityType
<1>5. \A i \in page, j \in all : j > i => j \in page
  <2> SUFFICES ASSUME NEW i \in page, NEW j \in all, j > i PROVE j \in page
    OBVIOUS
  <2>1. i \in Nat /\ j \in Nat /\ i \in all
    BY <1>2, <1>3
  <2>2. Above(j) \subseteq Above(i)
    BY <1>2, <2>1
  <2> HIDE DEF Above
  <2>3. Cardinality(Above(j)) <= Cardinality(Above(i))
    BY <1>4, <2>1, <2>2, FS_Subset
  <2>4. Cardinality(Above(i)) < n
    OBVIOUS
  <2> QED BY <1>4, <2>1, <2>3, <2>4
<1>6. Cardinality(page) \in Nat /\ Cardinality(page) <= n
  <2>1. Cardinality(page) \in Nat
    BY <1>3, FS_CardinalityType
  <2>2. CASE page = {}
    <3>1. Cardinality({}) = 0
      BY FS_EmptySet
    <3> HIDE DEF page
    <3> QED BY <2>2, <3>1
  <2>3. CASE page # {}
    <3>1. PICK m \in page : \A i \in page : m <= i
      BY <1>2, <1>3, <2>3, LeastOf
    <3>2. page \ {m} \subseteq Above(m)
      <4> SUFFICES ASSUME NEW i \in page, i # m PROVE i > m
        BY <1>3
      <4>1. i \in Nat /\ m \in Nat /\ m <= i
        BY <1>2, <1>3, <3>1
      <4> QED BY <4>1
    <3>3. IsFiniteSet(page \ {m}) /\ Cardinality(page \ {m}) = Cardinality(page) - 1
      BY <1>3, <3>1, FS_RemoveElement
    <3>4. m \in all /\ Cardinality(Above(m)) < n
      BY <3>1
    <3> HIDE DEF page, Above
    <3>5. Cardinality(page \ {m}) <= Cardinality(Above(m))
      BY <1>4, <3>2, <3>4, FS_Subset
    <3> QED BY <1>4, <2>1, <3>3, <3>4, <3>5
  <2> QED BY <2>2, <2>3
<1>7. \A i \in page : fetch.offsetId = FromNewest \/ i < fetch.offsetId
  OBVIOUS
<1>8. page \subseteq DOMAIN room
  OBVIOUS
<1>9. \A i \in page, j \in DOMAIN room :
        j > i /\ room[j] \in those /\ (fetch.offsetId = FromNewest \/ j < fetch.offsetId) => j \in page
  <2> SUFFICES ASSUME NEW i \in page, NEW j \in DOMAIN room,
                      j > i /\ room[j] \in those /\ (fetch.offsetId = FromNewest \/ j < fetch.offsetId)
               PROVE  j \in page
    OBVIOUS
  <2>1. j \in all
    OBVIOUS
  <2> HIDE DEF page, all
  <2> QED BY <1>5, <2>1
<1> HIDE DEF page, all
<1> QED BY <1>0, <1>2, <1>3, <1>6, <1>7, <1>8, <1>9

-----------------------------------------------------------------------------
\* The messages that were fetched.
Ids(out) == {out[k] : k \in DOMAIN out}

\* From this message on, up to the newest one fetched, no text is missing.
Complete(r, out, from) ==
    \A i \in DOMAIN r : r[i] = "text" /\ i >= from /\ (\E k \in Ids(out) : i <= k) => i \in Ids(out)

\* While pages are added, what was fetched falls from the newest down to the offset,
\* below which the next page begins; nothing is missing down to floor, nor down to
\* the offset.
FetchedInv ==
    /\ fetch.out \in Seq(Nat) /\ Ids(fetch.out) \subseteq DOMAIN room
    /\ fetch.at \in {"idle", "lost"} => fetch.out = <<>>
    /\ fetch.at = "idle" => fetch.offsetId = FromNewest
    /\ Len(fetch.out) <= HistoryLimit
    /\ fetch.at \in {"page", "sort"} => Falls(fetch.out)
    /\ fetch.at = "fetched" => \A i, j \in 1..Len(fetch.out) : i < j => fetch.out[i] < fetch.out[j]
    /\ Complete(room, fetch.out, floor)
    /\ fetch.at = "page" =>
         /\ Len(fetch.out) < HistoryLimit
         /\ fetch.offsetId = FromNewest => fetch.out = <<>>
         /\ fetch.offsetId # FromNewest => /\ Complete(room, fetch.out, fetch.offsetId)
                                           /\ \A i \in Ids(fetch.out) : i >= fetch.offsetId

HistTypes ==
    /\ room \in Seq(Sorts) /\ Len(room) <= RoomMax /\ ranBefore \in BOOLEAN
    /\ fetch \in [at: {"idle", "page", "sort", "fetched", "lost"}, offsetId: 0..RoomMax, out: Seq(Nat)]
    /\ floor \in 1..(RoomMax + 1) /\ fetchTroubles \in 0..FetchTroubles

HistoryInv == HistTypes /\ FetchedInv

LEMMA HistConstants ==
    /\ RoomMax \in Nat /\ HistoryLimit \in Nat /\ HistoryLimit >= 1 /\ PageLimit \in Nat /\ PageLimit >= 1
    /\ FetchTroubles \in Nat /\ WrittenBefore \in Nat /\ WrittenBefore <= RoomMax /\ FromNewest = 0
BY HistoryAssumption DEF FromNewest

LEMMA HistoryInitInv == HistoryInit => HistoryInv
<1> SUFFICES ASSUME HistoryInit PROVE HistoryInv
  OBVIOUS
<1>1. /\ room \in [1..WrittenBefore -> Sorts] /\ ranBefore \in BOOLEAN
      /\ fetch = [at |-> "idle", offsetId |-> 0, out |-> <<>>] /\ floor = RoomMax + 1 /\ fetchTroubles = 0
  BY DEF HistoryInit, FromNewest
<1>2. room \in Seq(Sorts) /\ Len(room) = WrittenBefore
  BY <1>1, HistConstants
<1>3. HistTypes
  BY <1>1, <1>2, HistConstants DEF HistTypes
<1>4. fetch.out = <<>> /\ fetch.at = "idle" /\ fetch.offsetId = 0 /\ Ids(fetch.out) = {} /\ Len(fetch.out) = 0
  BY <1>1 DEF Ids
<1>5. FetchedInv
  BY <1>4, HistConstants DEF FetchedInv, Complete
<1> QED BY <1>3, <1>5 DEF HistoryInv

LEMMA MinIs ==
    ASSUME NEW S, S \subseteq Nat, S # {}
    PROVE  Min(S) \in S /\ \A i \in S : Min(S) <= i
<1>1. \E x \in S : \A y \in S : x <= y
  BY LeastOf
<1> QED BY <1>1 DEF Min

\* One falling sequence after another, all of whose numbers are lower.
LEMMA FallsOn ==
    ASSUME NEW s \in Seq(Nat), NEW t \in Seq(Nat), Falls(s), Falls(t),
           \A i \in DOMAIN s, j \in DOMAIN t : s[i] > t[j]
    PROVE  /\ s \o t \in Seq(Nat) /\ Len(s \o t) = Len(s) + Len(t)
           /\ Falls(s \o t) /\ Ids(s \o t) = Ids(s) \cup Ids(t)
<1> DEFINE m == Len(s)
           n == Len(t)
           r == s \o t
<1>1. /\ m \in Nat /\ n \in Nat /\ r \in Seq(Nat) /\ Len(r) = m + n
      /\ DOMAIN s = 1..m /\ DOMAIN t = 1..n /\ DOMAIN r = 1..(m + n)
  OBVIOUS
<1>2. \A i \in 1..(m + n) : r[i] = IF i <= m THEN s[i] ELSE t[i - m]
  OBVIOUS
<1>3. \A i \in 1..m : i \in 1..(m + n) /\ r[i] = s[i]
  BY <1>1, <1>2
<1>4. \A i \in 1..(m + n) : i > m => i - m \in 1..n /\ r[i] = t[i - m]
  BY <1>1, <1>2
<1>5. \A i \in 1..n : m + i \in 1..(m + n) /\ r[m + i] = t[i]
  <2> SUFFICES ASSUME NEW i \in 1..n PROVE m + i \in 1..(m + n) /\ r[m + i] = t[i]
    OBVIOUS
  <2>1. m + i \in 1..(m + n) /\ m + i > m /\ (m + i) - m = i
    BY <1>1
  <2> HIDE DEF r, m, n
  <2> QED BY <1>4, <2>1
<1>d. /\ \A i, j \in 1..m : i < j => s[i] > s[j]
      /\ \A i, j \in 1..n : i < j => t[i] > t[j]
      /\ \A i \in 1..m, j \in 1..n : s[i] > t[j]
  BY <1>1 DEF Falls
<1> HIDE DEF r, m, n
<1>6. Falls(r)
  <2> SUFFICES ASSUME NEW i \in 1..(m + n), NEW j \in 1..(m + n), i < j PROVE r[i] > r[j]
    BY <1>1 DEF Falls
  <2>1. CASE j <= m
    <3>1. i \in 1..m /\ j \in 1..m
      BY <1>1, <2>1
    <3> QED BY <1>3, <1>d, <3>1
  <2>2. CASE ~(j <= m) /\ i <= m
    <3>1. i \in 1..m /\ j > m
      BY <1>1, <2>2
    <3> QED BY <1>3, <1>4, <1>d, <3>1
  <2>3. CASE ~(i <= m)
    <3>1. i > m /\ j > m /\ i - m < j - m
      BY <1>1, <2>3
    <3>2. i - m \in 1..n /\ r[i] = t[i - m] /\ j - m \in 1..n /\ r[j] = t[j - m]
      BY <1>4, <3>1
    <3> QED BY <1>d, <3>1, <3>2
  <2> QED BY <2>1, <2>2, <2>3
<1>7. Ids(r) = Ids(s) \cup Ids(t)
  <2>1. \A i \in 1..(m + n) : r[i] \in Ids(s) \cup Ids(t)
    <3> SUFFICES ASSUME NEW i \in 1..(m + n) PROVE r[i] \in Ids(s) \cup Ids(t)
      OBVIOUS
    <3>1. CASE i <= m
      <4>1. i \in 1..m
        BY <1>1, <3>1
      <4> QED BY <1>1, <1>3, <4>1 DEF Ids
    <3>2. CASE ~(i <= m)
      <4>1. i > m
        BY <1>1, <3>2
      <4> QED BY <1>1, <1>4, <4>1 DEF Ids
    <3> QED BY <3>1, <3>2
  <2>2. \A x \in Ids(s) : x \in Ids(r)
    BY <1>1, <1>3 DEF Ids
  <2>3. \A x \in Ids(t) : x \in Ids(r)
    BY <1>1, <1>5 DEF Ids
  <2>4. \A x \in Ids(r) : x \in Ids(s) \cup Ids(t)
    BY <1>1, <2>1 DEF Ids
  <2> QED BY <2>2, <2>3, <2>4
<1> QED BY <1>1, <1>6, <1>7 DEF r, m, n

LEMMA PageGoesOn ==
    ASSUME HistoryInv, fetch.at = "page", room' = room,
           NEW those \in SUBSET Sorts, "text" \in those, AddPage(Older(those, Batch))
    PROVE  /\ FetchedInv' /\ floor' \in 1..(RoomMax + 1)
           /\ fetch' \in [at: {"idle", "page", "sort", "fetched", "lost"}, offsetId: 0..RoomMax, out: Seq(Nat)]
<1> DEFINE page == Older(those, Batch)
           texts == {i \in page : room[i] \in {"text", "other"}}
           out == fetch.out \o NewestFirst(texts)
           more == Cardinality(page) = Batch /\ Onward(page) # FromNewest /\ Len(out) < HistoryLimit
           off == fetch.offsetId
<1>t. /\ room \in Seq(Sorts) /\ Len(room) <= RoomMax /\ Len(room) \in Nat /\ DOMAIN room = 1..Len(room)
      /\ fetch.out \in Seq(Nat) /\ Len(fetch.out) \in Nat /\ off \in Nat /\ off \in 0..RoomMax
      /\ floor \in 1..(RoomMax + 1)
  BY HistConstants DEF HistoryInv, HistTypes
<1>i. /\ Ids(fetch.out) \subseteq DOMAIN room /\ Falls(fetch.out)
      /\ Complete(room, fetch.out, floor) /\ Len(fetch.out) < HistoryLimit
      /\ off = FromNewest => fetch.out = <<>>
      /\ off # FromNewest => Complete(room, fetch.out, off) /\ \A i \in Ids(fetch.out) : i >= off
  BY DEF HistoryInv, FetchedInv
<1>1. fetch' = [at |-> IF more THEN "page" ELSE "sort", offsetId |-> Onward(page), out |-> out]
      /\ floor' = IF page = {} THEN floor ELSE Min(page)
  BY DEF AddPage
<1>2. Batch \in Nat /\ Batch > 0 /\ Batch <= HistoryLimit - Len(fetch.out)
  <2> DEFINE left == HistoryLimit - Len(fetch.out)
  <2>1. left \in Nat /\ left > 0
    <3>1. Len(fetch.out) \in Nat /\ Len(fetch.out) < HistoryLimit /\ HistoryLimit \in Nat
      BY <1>t, <1>i, HistConstants
    <3> QED BY <3>1
  <2>2. Batch = IF left < PageLimit THEN left ELSE PageLimit
    BY DEF Batch
  <2> HIDE DEF left
  <2>3. Batch \in Nat /\ Batch > 0 /\ Batch <= left
    BY <2>1, <2>2, HistConstants
  <2> QED BY <2>3 DEF left
<1>3. /\ page \subseteq DOMAIN room /\ IsFiniteSet(page) /\ page \subseteq Nat
      /\ Cardinality(page) \in Nat /\ Cardinality(page) <= Batch
      /\ \A i \in page : off = FromNewest \/ i < off
      /\ \A i \in page, j \in DOMAIN room :
           j > i /\ room[j] \in those /\ (off = FromNewest \/ j < off) => j \in page
  BY <1>t, <1>2, OlderIs
<1> HIDE DEF page
<1>4. texts \subseteq page /\ texts \subseteq Nat /\ IsFiniteSet(texts) /\ Cardinality(texts) \in Nat
      /\ Cardinality(texts) <= Cardinality(page)
  <2>1. texts \subseteq page /\ texts \subseteq Nat
    BY <1>3
  <2> QED BY <1>3, <2>1, FS_Subset, FS_CardinalityType
<1> DEFINE new == NewestFirst(texts)
<1>n. \A i \in page : room[i] = "text" => i \in texts
  OBVIOUS
<1>s. \A i \in texts : room[i] # "service"
  OBVIOUS
<1> HIDE DEF texts
<1>5. new \in Seq(texts) /\ Len(new) = Cardinality(texts) /\ Falls(new) /\ Ids(new) = texts
  <2>1. /\ new \in Seq(texts) /\ Len(new) = Cardinality(texts) /\ Falls(new)
        /\ {new[k] : k \in 1..Cardinality(texts)} = texts
    BY <1>4, PageIs
  <2>2. DOMAIN new = 1..Cardinality(texts)
    BY <2>1
  <2> QED BY <2>1, <2>2 DEF Ids
<1> HIDE DEF new
<1>6. \A i \in DOMAIN fetch.out, j \in DOMAIN new : fetch.out[i] > new[j]
  <2> SUFFICES ASSUME NEW i \in DOMAIN fetch.out, NEW j \in DOMAIN new PROVE fetch.out[i] > new[j]
    OBVIOUS
  <2>1. fetch.out[i] \in Ids(fetch.out) /\ new[j] \in texts
    BY <1>5 DEF Ids
  <2>2. off # FromNewest
    BY <1>i, <1>t DEF Ids
  <2>3. fetch.out[i] >= off /\ new[j] < off /\ fetch.out[i] \in Nat /\ new[j] \in Nat
    <3>1. fetch.out[i] >= off
      BY <1>i, <2>1, <2>2
    <3>2. new[j] \in page
      BY <1>4, <2>1
    <3>3. new[j] < off /\ new[j] \in Nat
      BY <1>3, <2>2, <3>2
    <3>4. fetch.out[i] \in Nat
      BY <1>t, <1>i, <2>1
    <3> QED BY <3>1, <3>3, <3>4
  <2> QED BY <1>t, <2>3
<1>7. new \in Seq(Nat)
  <2>1. new \in [1..Len(new) -> texts] /\ Len(new) \in Nat
    BY <1>5
  <2>2. \A k \in 1..Len(new) : new[k] \in Nat
    BY <1>4, <2>1
  <2>3. new \in [1..Len(new) -> Nat]
    BY <2>1, <2>2
  <2> QED BY <2>1, <2>3
<1>8. out \in Seq(Nat) /\ Len(out) = Len(fetch.out) + Len(new) /\ Falls(out) /\ Ids(out) = Ids(fetch.out) \cup texts
  <2>1. out = fetch.out \o new
    BY DEF new
  <2> QED BY <1>t, <1>i, <1>5, <1>6, <1>7, <2>1, FallsOn
<1> HIDE DEF out
<1>9. Len(out) <= HistoryLimit
  BY <1>t, <1>2, <1>3, <1>4, <1>5, <1>8, HistConstants
<1>10. Ids(out) \subseteq DOMAIN room
  BY <1>i, <1>3, <1>4, <1>8
<1>11. page # {} => Min(page) \in page /\ \A i \in page : Min(page) <= i
  BY <1>3, MinIs
<1>12. floor' \in 1..(RoomMax + 1)
  BY <1>1, <1>t, <1>3, <1>11, HistConstants
<1>13. Complete(room, out, floor')
  <2> SUFFICES ASSUME NEW i \in DOMAIN room, room[i] = "text", i >= floor', NEW k \in Ids(out), i <= k
               PROVE  i \in Ids(out)
    BY DEF Complete
  <2>1. CASE page = {}
    <3>1. texts = {} /\ floor' = floor
      BY <1>1, <1>4, <2>1
    <3> QED BY <1>i, <1>8, <3>1 DEF Complete
  <2>2. CASE page # {}
    <3>1. floor' = Min(page) /\ Min(page) \in page /\ i \in Nat /\ Min(page) \in Nat
      BY <1>1, <1>t, <1>3, <1>11, <2>2
    <3>2. CASE off = FromNewest \/ i < off
      <4>1. i = Min(page) \/ i > Min(page)
        BY <3>1
      <4>2. i \in page
        BY <1>3, <3>1, <3>2, <4>1
      <4> QED BY <1>n, <1>8, <4>2
    <3>3. CASE off # FromNewest /\ ~(i < off)
      <4>1. k \notin texts
        <5> SUFFICES ASSUME k \in texts PROVE FALSE
          OBVIOUS
        <5>1. k \in page
          BY <1>4
        <5>2. k < off /\ k \in Nat
          BY <1>3, <3>3, <5>1
        <5>3. i \in Nat /\ off \in Nat /\ ~(i < off)
          BY <1>t, <3>1, <3>3
        <5> QED BY <5>2, <5>3
      <4>2. k \in Ids(fetch.out) /\ i >= off
        BY <1>t, <1>8, <3>1, <3>3, <4>1
      <4> QED BY <1>i, <1>8, <3>3, <4>2 DEF Complete
    <3> QED BY <3>2, <3>3
  <2> QED BY <2>1, <2>2
<1>14. /\ Onward(page) \in 0..RoomMax
       /\ Onward(page) # FromNewest => /\ Onward(page) >= floor'
                                       /\ \A i \in Ids(out) : i >= Onward(page)
  <2> DEFINE ids == {i \in page : room[i] # "service"}
  <2>1. CASE ids = {}
    BY <2>1, HistConstants DEF Onward
  <2>2. CASE ids # {}
    <3>1. ids \subseteq Nat /\ ids \subseteq page /\ texts \subseteq ids
      BY <1>3, <1>4, <1>s
    <3>2. Onward(page) = Min(ids)
      BY <2>2 DEF Onward
    <3> HIDE DEF ids
    <3>3. Min(ids) \in ids /\ \A i \in ids : Min(ids) <= i
      BY <2>2, <3>1, MinIs
    <3>4. Min(ids) \in page /\ Min(ids) \in Nat /\ Min(ids) \in DOMAIN room /\ page # {}
      BY <1>3, <3>1, <3>3
    <3>5. Min(ids) \in 0..RoomMax
      BY <1>t, <3>4, HistConstants
    <3>6. Min(ids) >= floor'
      BY <1>1, <1>3, <1>11, <3>4
    <3>7. \A i \in Ids(out) : i >= Min(ids)
      <4> SUFFICES ASSUME NEW i \in Ids(out) PROVE i >= Min(ids)
        OBVIOUS
      <4>1. CASE i \in texts
        BY <1>4, <3>1, <3>3, <3>4, <4>1
      <4>2. CASE i \notin texts
        <5>1. i \in Ids(fetch.out) /\ i \in Nat
          BY <1>8, <1>10, <1>t, <4>2
        <5>2. off # FromNewest
          BY <1>i, <5>1 DEF Ids
        <5> QED BY <1>t, <1>i, <1>3, <3>4, <5>1, <5>2
      <4> QED BY <4>1, <4>2
    <3> QED BY <3>2, <3>5, <3>6, <3>7
  <2> QED BY <2>1, <2>2
<1>15. /\ fetch'.at = (IF more THEN "page" ELSE "sort") /\ fetch'.offsetId = Onward(page) /\ fetch'.out = out
       /\ fetch' \in [at: {"idle", "page", "sort", "fetched", "lost"}, offsetId: 0..RoomMax, out: Seq(Nat)]
  BY <1>1, <1>8, <1>14
<1>16. more => Onward(page) # FromNewest /\ Len(out) < HistoryLimit
  OBVIOUS
<1> HIDE DEF more
<1>17. Onward(page) # FromNewest => Complete(room, out, Onward(page))
  <2>1. \A i \in DOMAIN room : Onward(page) # FromNewest /\ i >= Onward(page) => i >= floor'
    BY <1>t, <1>12, <1>14, HistConstants
  <2> QED BY <1>13, <2>1 DEF Complete
<1>18. FetchedInv'
  BY <1>8, <1>9, <1>10, <1>13, <1>14, <1>15, <1>16, <1>17 DEF FetchedInv
<1> QED BY <1>12, <1>15, <1>18

\* A fetch that is given up.
LEMMA GivesUp ==
    ASSUME NEW A, NEW O, NEW S, NEW f \in [at: A, offsetId: O, out: S], NEW x \in A, NEW y \in S
    PROVE  LET g == [f EXCEPT !.at = x, !.out = y]
           IN  g.at = x /\ g.out = y /\ g \in [at: A, offsetId: O, out: S]
OBVIOUS

LEMMA HistoryStepInv == HistoryInv /\ [HistoryNext]_hvars => HistoryInv'
<1> SUFFICES ASSUME HistoryInv, [HistoryNext]_hvars PROVE HistoryInv'
  OBVIOUS
<1>t. HistTypes /\ FetchedInv
  BY DEF HistoryInv
<1>f. fetch \in [at: {"idle", "page", "sort", "fetched", "lost"}, offsetId: 0..RoomMax, out: Seq(Nat)]
  BY <1>t DEF HistTypes
<1>1. CASE BootHistory \/ SyncHistory
  <2>1. /\ fetch.at = "idle" /\ fetch' = [fetch EXCEPT !.at = "page"]
        /\ UNCHANGED <<room, ranBefore, floor, fetchTroubles>>
    BY <1>1 DEF BootHistory, SyncHistory, BeginFetch
  <2>2. /\ fetch'.at = "page" /\ fetch'.out = fetch.out /\ fetch'.offsetId = fetch.offsetId
        /\ fetch' \in [at: {"idle", "page", "sort", "fetched", "lost"}, offsetId: 0..RoomMax, out: Seq(Nat)]
    BY <1>f, <2>1
  <2>3. fetch.out = <<>> /\ fetch.offsetId = FromNewest /\ Len(fetch.out) = 0 /\ Falls(fetch.out)
    BY <1>t, <2>1 DEF FetchedInv, Falls
  <2>4. FetchedInv'
    BY <1>t, <2>1, <2>2, <2>3, HistConstants DEF FetchedInv
  <2> QED BY <1>t, <2>1, <2>2, <2>4 DEF HistoryInv, HistTypes
<1>2. CASE FetchPage
  <2>1. /\ fetch.at = "page" /\ UNCHANGED <<room, ranBefore, fetchTroubles>>
        /\ AddPage(Older({"text", "photo", "service"}, Batch))
    BY <1>2 DEF FetchPage
  <2>2. {"text", "photo", "service"} \in SUBSET Sorts
    BY DEF Sorts
  <2>3. /\ FetchedInv' /\ floor' \in 1..(RoomMax + 1)
        /\ fetch' \in [at: {"idle", "page", "sort", "fetched", "lost"}, offsetId: 0..RoomMax, out: Seq(Nat)]
    BY <2>1, <2>2, PageGoesOn
  <2> QED BY <1>t, <2>1, <2>3 DEF HistoryInv, HistTypes
<1>3. CASE FetchFails
  <2>1. fetch.at = "page" /\ UNCHANGED <<room, ranBefore>>
    BY <1>3 DEF FetchFails
  <2>2. CASE fetchTroubles < FetchTroubles /\ fetchTroubles' = fetchTroubles + 1 /\ AddPage(Older(Sorts, Batch))
    <3>1. "text" \in Sorts
      BY DEF Sorts
    <3>2. /\ FetchedInv' /\ floor' \in 1..(RoomMax + 1)
          /\ fetch' \in [at: {"idle", "page", "sort", "fetched", "lost"}, offsetId: 0..RoomMax, out: Seq(Nat)]
      BY <2>1, <2>2, <3>1, PageGoesOn
    <3>3. fetchTroubles' \in 0..FetchTroubles
      BY <1>t, <2>2, HistConstants DEF HistTypes
    <3> QED BY <1>t, <2>1, <3>2, <3>3 DEF HistoryInv, HistTypes
  <2>3. CASE /\ \E n \in {1, 2} : fetchTroubles + n <= FetchTroubles /\ fetchTroubles' = fetchTroubles + n
             /\ fetch' = [fetch EXCEPT !.at = "lost", !.out = <<>>] /\ UNCHANGED floor
    <3>1. fetchTroubles' \in 0..FetchTroubles
      BY <1>t, <2>3, HistConstants DEF HistTypes
    <3>2. /\ fetch'.at = "lost" /\ fetch'.out = <<>>
          /\ fetch' \in [at: {"idle", "page", "sort", "fetched", "lost"}, offsetId: 0..RoomMax, out: Seq(Nat)]
      <4>1. "lost" \in {"idle", "page", "sort", "fetched", "lost"} /\ <<>> \in Seq(Nat)
        OBVIOUS
      <4> QED BY <1>f, <2>3, <4>1, GivesUp
    <3>3. Ids(<<>>) = {} /\ Len(<<>>) = 0 /\ <<>> \in Seq(Nat)
      BY DEF Ids
    <3>4. FetchedInv'
      BY <3>2, <3>3, HistConstants DEF FetchedInv, Complete
    <3> QED BY <1>t, <2>1, <2>3, <3>1, <3>2, <3>4 DEF HistoryInv, HistTypes
  <2> QED BY <1>3, <2>2, <2>3 DEF FetchFails
<1>4. CASE SortHistory
  <2>1. /\ fetch.at = "sort" /\ fetch' = [fetch EXCEPT !.at = "fetched", !.out = Sorted(fetch.out)]
        /\ UNCHANGED <<room, ranBefore, floor, fetchTroubles>>
    BY <1>4 DEF SortHistory
  <2>2. fetch.out \in Seq(Nat) /\ Falls(fetch.out)
    BY <1>t, <2>1 DEF FetchedInv
  <2>3. /\ Sorted(fetch.out) \in Seq(Nat) /\ Len(Sorted(fetch.out)) = Len(fetch.out)
        /\ \A i, j \in 1..Len(fetch.out) : i < j => Sorted(fetch.out)[i] < Sorted(fetch.out)[j]
        /\ {Sorted(fetch.out)[k] : k \in 1..Len(fetch.out)} = {fetch.out[k] : k \in 1..Len(fetch.out)}
    BY <2>2, SortedIs
  <2>4. DOMAIN Sorted(fetch.out) = 1..Len(fetch.out) /\ DOMAIN fetch.out = 1..Len(fetch.out)
    BY <2>2, <2>3
  <2>5. Ids(Sorted(fetch.out)) = Ids(fetch.out)
    BY <2>3, <2>4 DEF Ids
  <2>6. /\ fetch'.at = "fetched" /\ fetch'.out = Sorted(fetch.out)
        /\ fetch' \in [at: {"idle", "page", "sort", "fetched", "lost"}, offsetId: 0..RoomMax, out: Seq(Nat)]
    BY <1>f, <2>1, <2>3
  <2>7. FetchedInv'
    BY <1>t, <2>1, <2>3, <2>5, <2>6 DEF FetchedInv, Complete
  <2> QED BY <1>t, <2>1, <2>6, <2>7 DEF HistoryInv, HistTypes
<1>5. CASE MarkIngest
  <2>1. ranBefore' = TRUE /\ UNCHANGED <<room, fetch, floor, fetchTroubles>>
    BY <1>5 DEF MarkIngest
  <2> QED BY <1>t, <2>1 DEF HistoryInv, HistTypes, FetchedInv
<1>6. CASE SomebodyWrites
  <2>1. PICK a \in Sorts : room' = Append(room, a)
    BY <1>6 DEF SomebodyWrites
  <2>2. UNCHANGED <<ranBefore, fetch, floor, fetchTroubles>> /\ Len(room) < RoomMax
    BY <1>6 DEF SomebodyWrites
  <2>3. /\ room' \in Seq(Sorts) /\ Len(room') = Len(room) + 1 /\ Len(room) \in Nat
        /\ DOMAIN room = 1..Len(room) /\ DOMAIN room' = 1..(Len(room) + 1)
        /\ \A i \in 1..Len(room) : room'[i] = room[i]
    BY <1>t, <2>1 DEF HistTypes
  <2>4. HistTypes'
    BY <1>t, <2>2, <2>3, HistConstants DEF HistTypes
  <2>5. ASSUME NEW from, Complete(room, fetch.out, from), Ids(fetch.out) \subseteq DOMAIN room
        PROVE  Complete(room', fetch.out, from)
    <3> SUFFICES ASSUME NEW i \in DOMAIN room', room'[i] = "text", i >= from,
                        NEW k \in Ids(fetch.out), i <= k
                 PROVE  i \in Ids(fetch.out)
      BY DEF Complete
    <3>1. k \in 1..Len(room)
      BY <2>3, <2>5
    <3>2. i \in 1..Len(room)
      BY <2>3, <3>1
    <3>3. i \in DOMAIN room /\ room[i] = "text"
      BY <2>3, <3>2
    <3> QED BY <2>5, <3>3 DEF Complete
  <2>6. Ids(fetch.out) \subseteq DOMAIN room /\ Complete(room, fetch.out, floor)
    BY <1>t DEF FetchedInv
  <2>7. DOMAIN room \subseteq DOMAIN room'
    BY <2>3
  <2>8. FetchedInv'
    BY <1>t, <2>2, <2>5, <2>6, <2>7 DEF FetchedInv
  <2> QED BY <2>4, <2>8 DEF HistoryInv
<1>7. CASE UNCHANGED hvars
  BY <1>t, <1>7 DEF hvars, HistoryInv, HistTypes, FetchedInv
<1> QED BY <1>1, <1>2, <1>3, <1>4, <1>5, <1>6, <1>7 DEF HistoryNext

\* However many messages the room has, however long a page and the history are, what is
\* written and whatever fails meanwhile: what was fetched is at most the limit, in
\* order, each message once, and misses no text between the oldest message seen
\* and the newest one fetched.
THEOREM HistoryIsWhole == HistorySpec => []HistoryHasNoHole
<1>1. HistoryInv => HistoryHasNoHole
  <2> SUFFICES ASSUME HistoryInv, fetch.at = "fetched"
               PROVE  LET ids == {fetch.out[k] : k \in DOMAIN fetch.out} IN
                      /\ Len(fetch.out) <= HistoryLimit
                      /\ \A k \in 1..(Len(fetch.out) - 1) : fetch.out[k] < fetch.out[k + 1]
                      /\ ids # {} => \A i \in floor..Max(ids) : room[i] = "text" => i \in ids
    BY DEF HistoryHasNoHole
  <2>t. /\ fetch.out \in Seq(Nat) /\ Ids(fetch.out) \subseteq DOMAIN room /\ Len(fetch.out) <= HistoryLimit
        /\ \A i, j \in 1..Len(fetch.out) : i < j => fetch.out[i] < fetch.out[j]
        /\ Complete(room, fetch.out, floor) /\ room \in Seq(Sorts) /\ floor \in 1..(RoomMax + 1)
    BY DEF HistoryInv, FetchedInv, HistTypes
  <2> DEFINE n == Len(fetch.out)
             ids == Ids(fetch.out)
  <2>1. n \in Nat /\ DOMAIN fetch.out = 1..n /\ DOMAIN room = 1..Len(room) /\ Len(room) \in Nat
        /\ \A k \in 1..n : fetch.out[k] \in Nat
    BY <2>t
  <2> HIDE DEF n
  <2>2. \A k \in 1..(n - 1) : fetch.out[k] < fetch.out[k + 1]
    <3> SUFFICES ASSUME NEW k \in 1..(n - 1) PROVE fetch.out[k] < fetch.out[k + 1]
      OBVIOUS
    <3>1. k \in 1..n /\ k + 1 \in 1..n /\ k < k + 1
      BY <2>1
    <3> QED BY <2>t, <3>1 DEF n
  <2>3. ASSUME ids # {}
        PROVE  Max(ids) \in ids /\ \A i \in ids : i <= Max(ids)
    <3>1. n \in 1..n
      BY <2>1, <2>3 DEF Ids
    <3>2. fetch.out[n] \in ids
      BY <2>1, <3>1 DEF Ids
    <3>3. \A k \in 1..n : fetch.out[n] >= fetch.out[k]
      <4> SUFFICES ASSUME NEW k \in 1..n PROVE fetch.out[n] >= fetch.out[k]
        OBVIOUS
      <4>1. CASE k = n
        BY <2>1, <4>1
      <4>2. CASE k # n
        <5>1. k < n
          BY <2>1, <4>2
        <5>2. fetch.out[k] < fetch.out[n]
          BY <2>t, <3>1, <5>1 DEF n
        <5> QED BY <2>1, <3>1, <5>2
      <4> QED BY <4>1, <4>2
    <3>4. \A i \in ids : fetch.out[n] >= i
      BY <2>1, <3>3 DEF Ids
    <3>5. \E x \in ids : \A y \in ids : x >= y
      BY <3>2, <3>4
    <3> HIDE DEF ids
    <3>6. Max(ids) \in ids /\ \A i \in ids : Max(ids) >= i
      BY <3>5 DEF Max
    <3>7. \A i \in ids : i \in Nat
      BY <2>t, <2>1 DEF ids
    <3> QED BY <3>6, <3>7
  <2>4. ASSUME ids # {}, NEW i \in floor..Max(ids), room[i] = "text"
        PROVE  i \in ids
    <3>1. Max(ids) \in ids /\ Max(ids) \in 1..Len(room)
      BY <2>t, <2>1, <2>3, <2>4
    <3>2. i \in 1..Len(room) /\ i >= floor /\ i <= Max(ids)
      BY <2>t, <2>1, <3>1
    <3> QED BY <2>t, <2>1, <2>4, <3>1, <3>2 DEF Complete
  <2> QED BY <2>t, <2>2, <2>4 DEF n, Ids
<1> QED
  BY HistoryInitInv, HistoryStepInv, <1>1, PTL DEF HistorySpec

-----------------------------------------------------------------------------
(* The proxy's socket.                                                      *)

Byte == [record: Nat, at: Nat, app: BOOLEAN, len: Nat]
Socket == [at: {"off", "header", "body", "app"}, stream: Seq(Byte), rawHold: Seq(Byte),
           ready: BOOLEAN, part: Seq(Byte), want: Nat, shaken: 0..3, closed: BOOLEAN]

\* Payload goes through the bytes one by one.
LEMMA PayloadRuns ==
    ASSUME NEW s, Len(s) \in Nat
    PROVE  \E upTo : /\ upTo = [i \in 0..Len(s) |->
                                  IF i = 0 THEN NoBytes ELSE Keep(upTo[i - 1], s[i])]
                     /\ Payload(s) = upTo[Len(s)]
<1> DEFINE Runs(n, f) == f = [i \in 0..n |-> IF i = 0 THEN NoBytes ELSE Keep(f[i - 1], s[i])]
           None == {n \in Nat : \A f : ~Runs(n, f)}
<1>1. None = {}
  <2> SUFFICES ASSUME None # {} PROVE FALSE
    OBVIOUS
  <2>1. None \subseteq Nat
    OBVIOUS
  <2> HIDE DEF None
  <2>2. PICK n \in None : \A k \in None : n <= k
    BY <2>1, LeastOf
  <2>3. n \in Nat /\ \A f : ~Runs(n, f)
    BY <2>2 DEF None
  <2>4. CASE n = 0
    <3>1. Runs(0, [i \in 0..0 |-> NoBytes])
      OBVIOUS
    <3> QED BY <2>3, <2>4, <3>1
  <2>5. CASE n # 0
    <3>1. n - 1 \in Nat /\ n - 1 \notin None
      BY <2>2, <2>3, <2>5
    <3>2. PICK f : Runs(n - 1, f)
      BY <3>1 DEF None
    <3> DEFINE g == [i \in 0..n |-> IF i < n THEN f[i] ELSE Keep(f[n - 1], s[n])]
    <3>3. \A i \in 0..n : g[i] = IF i = 0 THEN NoBytes ELSE Keep(g[i - 1], s[i])
      <4> SUFFICES ASSUME NEW i \in 0..n
                   PROVE  g[i] = IF i = 0 THEN NoBytes ELSE Keep(g[i - 1], s[i])
        OBVIOUS
      <4>1. CASE i = n
        <5>1. g[i] = Keep(f[n - 1], s[n]) /\ g[i - 1] = f[n - 1] /\ i # 0
          BY <2>3, <2>5, <3>1, <4>1
        <5> QED BY <4>1, <5>1
      <4>2. CASE i # n
        <5>1. i \in 0..(n - 1) /\ g[i] = f[i] /\ (i # 0 => g[i - 1] = f[i - 1])
          BY <2>3, <3>1, <4>2
        <5>2. f[i] = IF i = 0 THEN NoBytes ELSE Keep(f[i - 1], s[i])
          BY <3>2, <5>1
        <5> QED BY <5>1, <5>2
      <4> QED BY <4>1, <4>2
    <3>4. Runs(n, g)
      BY <3>3
    <3> QED BY <2>3, <3>4
  <2> QED BY <2>4, <2>5
<1>2. \E f : Runs(Len(s), f)
  <2> HIDE DEF Runs
  <2> QED
    BY <1>1
<1> DEFINE upTo[i \in 0..Len(s)] == IF i = 0 THEN NoBytes ELSE Keep(upTo[i - 1], s[i])
<1>3. upTo = CHOOSE f : Runs(Len(s), f)
  BY DEF upTo
<1>4. Runs(Len(s), upTo)
  BY <1>2, <1>3
<1>5. Payload(s) = upTo[Len(s)]
  BY DEF Payload
<1> QED BY <1>4, <1>5

LEMMA KeepIn ==
    ASSUME NEW kept \in Seq(Byte), NEW b \in Byte
    PROVE  Keep(kept, b) \in Seq(Byte)
BY AppendProperties DEF Keep

\* What was kept before goes before.
LEMMA KeepAfter ==
    ASSUME NEW s \in Seq(Byte), NEW t \in Seq(Byte), NEW b \in Byte
    PROVE  Keep(s \o t, b) = s \o Keep(t, b)
<1>1. CASE b.app /\ b.at > Header
  <2>1. Append(s \o t, b) = (s \o t) \o <<b>>
    BY AppendIsConcat, ConcatProperties
  <2>2. Append(t, b) = t \o <<b>>
    BY AppendIsConcat
  <2>3. <<b>> \in Seq(Byte)
    OBVIOUS
  <2>4. (s \o t) \o <<b>> = s \o (t \o <<b>>)
    BY <2>3, ConcatAssociative
  <2> QED
    BY <1>1, <2>1, <2>2, <2>4 DEF Keep
<1>2. CASE ~(b.app /\ b.at > Header)
  BY <1>2 DEF Keep
<1> QED
  BY <1>1, <1>2

LEMMA PayloadNone == Payload(NoBytes) = NoBytes
<1>1. Len(NoBytes) = 0
  BY DEF NoBytes
<1>2. PICK f : /\ f = [i \in 0..0 |-> IF i = 0 THEN NoBytes ELSE Keep(f[i - 1], NoBytes[i])]
               /\ Payload(NoBytes) = f[0]
  BY <1>1, PayloadRuns
<1> QED
  BY <1>2

LEMMA PayloadIn ==
    ASSUME NEW s \in Seq(Byte), NEW f,
           f = [i \in 0..Len(s) |-> IF i = 0 THEN NoBytes ELSE Keep(f[i - 1], s[i])]
    PROVE  \A i \in 0..Len(s) : f[i] \in Seq(Byte)
<1> DEFINE Wrong == {i \in 0..Len(s) : f[i] \notin Seq(Byte)}
<1> SUFFICES ASSUME Wrong # {} PROVE FALSE
  OBVIOUS
<1>1. Wrong \subseteq Nat
  BY LenProperties
<1> HIDE DEF Wrong
<1>2. PICK i \in Wrong : \A k \in Wrong : i <= k
  BY <1>1, LeastOf
<1>3. i \in 0..Len(s) /\ f[i] \notin Seq(Byte) /\ Len(s) \in Nat
  BY <1>2, LenProperties DEF Wrong
<1>4. i # 0
  BY <1>3 DEF NoBytes
<1>5. i - 1 \in 0..Len(s) /\ i - 1 \notin Wrong /\ i \in 1..Len(s)
  BY <1>2, <1>3, <1>4
<1>6. f[i - 1] \in Seq(Byte) /\ s[i] \in Byte
  BY <1>5, ElementOfSeq DEF Wrong
<1>7. f[i] = Keep(f[i - 1], s[i])
  BY <1>3, <1>4
<1> QED
  BY <1>3, <1>6, <1>7, KeepIn

LEMMA PayloadSeq ==
    ASSUME NEW s \in Seq(Byte)
    PROVE  Payload(s) \in Seq(Byte)
<1>1. Len(s) \in Nat
  BY LenProperties
<1>2. PICK f : /\ f = [i \in 0..Len(s) |-> IF i = 0 THEN NoBytes ELSE Keep(f[i - 1], s[i])]
               /\ Payload(s) = f[Len(s)]
  BY <1>1, PayloadRuns
<1>3. \A i \in 0..Len(s) : f[i] \in Seq(Byte)
  BY <1>2, PayloadIn
<1>4. Len(s) \in 0..Len(s)
  BY <1>1
<1> QED
  BY <1>2, <1>3, <1>4

\* The payload of two pieces is that of the first and then that of the second.
LEMMA PayloadConcat ==
    ASSUME NEW a \in Seq(Byte), NEW b \in Seq(Byte)
    PROVE  Payload(a \o b) = Payload(a) \o Payload(b)
<1> DEFINE c == a \o b
           la == Len(a)
           lb == Len(b)
<1>1. la \in Nat /\ lb \in Nat
  BY LenProperties
<1>2. /\ c \in Seq(Byte) /\ Len(c) = la + lb
      /\ \A i \in 1..(la + lb) : c[i] = IF i <= la THEN a[i] ELSE b[i - la]
  BY ConcatProperties
<1>3. PICK f : /\ f = [i \in 0..la |-> IF i = 0 THEN NoBytes ELSE Keep(f[i - 1], a[i])]
               /\ Payload(a) = f[la]
  BY <1>1, PayloadRuns
<1>4. PICK g : /\ g = [i \in 0..lb |-> IF i = 0 THEN NoBytes ELSE Keep(g[i - 1], b[i])]
               /\ Payload(b) = g[lb]
  BY <1>1, PayloadRuns
<1>l. Len(c) \in Nat
  BY <1>1, <1>2
<1> HIDE DEF c
<1>5. PICK h : /\ h = [i \in 0..Len(c) |-> IF i = 0 THEN NoBytes ELSE Keep(h[i - 1], c[i])]
               /\ Payload(c) = h[Len(c)]
  BY <1>l, PayloadRuns
<1>6. (\A i \in 0..la : f[i] \in Seq(Byte)) /\ (\A i \in 0..lb : g[i] \in Seq(Byte))
  BY <1>3, <1>4, PayloadIn
<1> HIDE DEF la, lb
<1> DEFINE Wrong == {i \in 0..(la + lb) : h[i] # IF i <= la THEN f[i] ELSE f[la] \o g[i - la]}
<1>7. Wrong = {}
  <2> SUFFICES ASSUME Wrong # {} PROVE FALSE
    OBVIOUS
  <2>1. Wrong \subseteq Nat
    BY <1>1
  <2> HIDE DEF Wrong
  <2>2. PICK i \in Wrong : \A k \in Wrong : i <= k
    BY <2>1, LeastOf
  <2>3. i \in 0..(la + lb) /\ h[i] # IF i <= la THEN f[i] ELSE f[la] \o g[i - la]
    BY <2>2 DEF Wrong
  <2>4. h[0] = NoBytes /\ f[0] = NoBytes /\ g[0] = NoBytes
    BY <1>1, <1>2, <1>3, <1>4, <1>5
  <2>5. i # 0
    BY <1>1, <2>3, <2>4
  <2>6. /\ i \in 1..(la + lb) /\ i - 1 \in 0..(la + lb) /\ i - 1 \notin Wrong
    BY <1>1, <2>2, <2>3, <2>5
  <2>7. h[i - 1] = IF i - 1 <= la THEN f[i - 1] ELSE f[la] \o g[i - 1 - la]
    BY <2>6 DEF Wrong
  <2>8. h[i] = Keep(h[i - 1], c[i])
    BY <1>2, <1>5, <2>5, <2>6
  <2>9. CASE i <= la
    <3>1. f[i] = Keep(f[i - 1], a[i]) /\ h[i - 1] = f[i - 1] /\ c[i] = a[i]
      BY <1>1, <1>2, <1>3, <2>6, <2>7, <2>9
    <3> QED
      BY <2>3, <2>8, <2>9, <3>1
  <2>10. CASE ~(i <= la)
    <3> DEFINE j == i - la
    <3>1. j \in 1..lb /\ j - 1 \in 0..lb /\ c[i] = b[j] /\ la \in 0..la /\ i - 1 - la = j - 1
      BY <1>1, <1>2, <2>6, <2>10
    <3>2. g[j] = Keep(g[j - 1], b[j])
      BY <1>4, <3>1
    <3>3. h[i - 1] = f[la] \o g[j - 1]
      <4>1. CASE i - 1 <= la
        <5>1. i - 1 = la /\ j - 1 = 0
          BY <1>1, <2>6, <2>10, <4>1
        <5>2. f[la] \o NoBytes = f[la]
          BY <1>6, <3>1, ConcatEmptySeq DEF NoBytes
        <5> QED
          BY <2>4, <2>7, <4>1, <5>1, <5>2
      <4>2. CASE ~(i - 1 <= la)
        BY <2>7, <3>1, <4>2
      <4> QED
        BY <4>1, <4>2
    <3>4. b[j] \in Byte
      BY <3>1, ElementOfSeq DEF lb
    <3>5. f[la] \in Seq(Byte) /\ g[j - 1] \in Seq(Byte)
      BY <1>6, <3>1
    <3> HIDE DEF j
    <3>6. Keep(f[la] \o g[j - 1], b[j]) = f[la] \o Keep(g[j - 1], b[j])
      BY <3>4, <3>5, KeepAfter
    <3>7. h[i] = f[la] \o g[j]
      BY <2>8, <3>1, <3>2, <3>3, <3>6
    <3> QED
      BY <2>3, <2>10, <3>7 DEF j
  <2> QED
    BY <2>9, <2>10
<1>8. h[la + lb] = f[la] \o g[lb]
  <2>1. la + lb \in 0..(la + lb)
    BY <1>1
  <2>0. \A i \in 0..(la + lb) : h[i] = IF i <= la THEN f[i] ELSE f[la] \o g[i - la]
    BY <1>7
  <2> HIDE DEF Wrong
  <2> DEFINE n == la + lb
  <2>n. n \in 0..n /\ \A i \in 0..n : h[i] = IF i <= la THEN f[i] ELSE f[la] \o g[i - la]
    BY <2>0, <2>1
  <2> HIDE DEF n
  <2>2. h[n] = IF n <= la THEN f[n] ELSE f[la] \o g[n - la]
    BY <2>n
  <2>3. CASE lb = 0
    <3>1. f[la] \o NoBytes = f[la] /\ g[0] = NoBytes
      BY <1>1, <1>4, <1>6, ConcatEmptySeq DEF NoBytes
    <3>2. n = la /\ n <= la /\ lb = 0
      BY <1>1, <2>3 DEF n
    <3>3. h[n] = f[la] \o g[lb]
      BY <2>2, <3>1, <3>2
    <3> QED
      BY <3>3 DEF n
  <2>4. CASE lb # 0
    <3>1. ~(n <= la) /\ n - la = lb
      BY <1>1, <2>4 DEF n
    <3>2. h[n] = f[la] \o g[lb]
      BY <2>2, <3>1
    <3> QED
      BY <3>2 DEF n
  <2> QED
    BY <2>3, <2>4
<1> QED
  BY <1>2, <1>3, <1>4, <1>5, <1>8 DEF c

\* Bytes puts one record after the other.
LEMMA BytesAssociate ==
    \A s, t, u \in Seq(Byte) : (s \o t) \o u = s \o (t \o u)
BY ConcatAssociative

LEMMA BytesRuns ==
    ASSUME NEW s, Len(s) \in Nat
    PROVE  \E upTo : /\ upTo = [i \in 0..Len(s) |->
                                  IF i = 0 THEN NoBytes ELSE upTo[i - 1] \o BytesOf(i, s[i])]
                     /\ Bytes(s) = upTo[Len(s)]
<1> DEFINE Runs(n, f) == f = [i \in 0..n |-> IF i = 0 THEN NoBytes
                                             ELSE f[i - 1] \o BytesOf(i, s[i])]
           None == {n \in Nat : \A f : ~Runs(n, f)}
<1>1. None = {}
  <2> SUFFICES ASSUME None # {} PROVE FALSE
    OBVIOUS
  <2>1. None \subseteq Nat
    OBVIOUS
  <2> HIDE DEF None
  <2>2. PICK n \in None : \A k \in None : n <= k
    BY <2>1, LeastOf
  <2>3. n \in Nat /\ \A f : ~Runs(n, f)
    BY <2>2 DEF None
  <2>4. CASE n = 0
    <3>1. Runs(0, [i \in 0..0 |-> NoBytes])
      OBVIOUS
    <3> QED BY <2>3, <2>4, <3>1
  <2>5. CASE n # 0
    <3>1. n - 1 \in Nat /\ n - 1 \notin None
      BY <2>2, <2>3, <2>5
    <3>2. PICK f : Runs(n - 1, f)
      BY <3>1 DEF None
    <3> DEFINE g == [i \in 0..n |-> IF i < n THEN f[i] ELSE f[n - 1] \o BytesOf(n, s[n])]
    <3>3. \A i \in 0..n : g[i] = IF i = 0 THEN NoBytes ELSE g[i - 1] \o BytesOf(i, s[i])
      <4> SUFFICES ASSUME NEW i \in 0..n
                   PROVE  g[i] = IF i = 0 THEN NoBytes ELSE g[i - 1] \o BytesOf(i, s[i])
        OBVIOUS
      <4>1. CASE i = n
        <5>1. g[i] = f[n - 1] \o BytesOf(n, s[n]) /\ g[i - 1] = f[n - 1] /\ i # 0
          BY <2>3, <2>5, <3>1, <4>1
        <5> QED BY <4>1, <5>1
      <4>2. CASE i # n
        <5>1. i \in 0..(n - 1) /\ g[i] = f[i] /\ (i # 0 => g[i - 1] = f[i - 1])
          BY <2>3, <3>1, <4>2
        <5>2. f[i] = IF i = 0 THEN NoBytes ELSE f[i - 1] \o BytesOf(i, s[i])
          BY <3>2, <5>1
        <5> QED BY <5>1, <5>2
      <4> QED BY <4>1, <4>2
    <3>4. Runs(n, g)
      BY <3>3
    <3> QED BY <2>3, <3>4
  <2> QED BY <2>4, <2>5
<1>2. \E f : Runs(Len(s), f)
  <2> HIDE DEF Runs
  <2> QED
    BY <1>1
<1> DEFINE upTo[i \in 0..Len(s)] == IF i = 0 THEN NoBytes ELSE upTo[i - 1] \o BytesOf(i, s[i])
<1>3. upTo = CHOOSE f : Runs(Len(s), f)
  BY DEF upTo
<1>4. Runs(Len(s), upTo)
  BY <1>2, <1>3
<1>5. Bytes(s) = upTo[Len(s)]
  BY DEF Bytes
<1> QED BY <1>4, <1>5

\* The three records of the handshake, of one byte of body each.
Size == Header + 1
AllShaken == Size + Size + Size
\* What is known of the bytes of a connection: they begin with the handshake, and
\* the last one is the last of its record.
Framed(w) ==
    /\ w \in Seq(Byte) /\ Len(w) >= AllShaken
    /\ w[Header].len = 1 /\ w[Size + Header].len = 1 /\ w[Size + Size + Header].len = 1
    /\ w[Len(w)].at = Header + w[Len(w)].len

LEMMA Sizes == Header \in Nat \ {0} /\ Size \in Nat /\ AllShaken \in Nat
               /\ Size = Header + 1 /\ AllShaken = Size + Size + Size
BY TlsAssumption DEF Size, AllShaken

LEMMA BytesOfIs ==
    ASSUME NEW i \in Nat, NEW r \in [app: BOOLEAN, len: Nat]
    PROVE  /\ BytesOf(i, r) \in Seq(Byte) /\ Len(BytesOf(i, r)) = Header + r.len
           /\ \A k \in 1..(Header + r.len) : BytesOf(i, r)[k].at = k /\ BytesOf(i, r)[k].len = r.len
<1>1. Header + r.len \in Nat /\ Header \in Nat
  BY TlsAssumption
<1>2. \A k \in 1..(Header + r.len) : [record |-> i, at |-> k, app |-> r.app, len |-> r.len] \in Byte
  BY <1>1 DEF Byte
<1> DEFINE n == Header + r.len
<1>3. BytesOf(i, r) = [k \in 1..n |-> [record |-> i, at |-> k, app |-> r.app, len |-> r.len]]
  BY DEF BytesOf
<1>n. n \in Nat /\ n = Header + r.len
  BY <1>1
<1>4. \A k \in 1..n : [record |-> i, at |-> k, app |-> r.app, len |-> r.len] \in Byte
  BY <1>2
<1> HIDE DEF n
<1>5. BytesOf(i, r) \in Seq(Byte) /\ Len(BytesOf(i, r)) = n
  BY <1>3, <1>4, <1>n
<1>6. \A k \in 1..n : BytesOf(i, r)[k].at = k /\ BytesOf(i, r)[k].len = r.len
  BY <1>3
<1> QED
  BY <1>5, <1>6, <1>n

\* The bytes of a record with len bytes of body, p in all; c is a and behind it such a record.
OneRecord(b, len, p) ==
    b \in Seq(Byte) /\ Len(b) = p /\ \A k \in 1..p : b[k].at = k /\ b[k].len = len
Behind(a, c, l, len, p) ==
    /\ c \in Seq(Byte) /\ l \in Nat /\ p \in Nat /\ p >= 1 /\ Len(c) = l + p
    /\ \A k \in 1..l : c[k] = a[k]
    /\ \A k \in 1..p : c[l + k].at = k /\ c[l + k].len = len

LEMMA OneMore ==
    ASSUME NEW a \in Seq(Byte), NEW b, NEW len, NEW p \in Nat, p >= 1, OneRecord(b, len, p)
    PROVE  Behind(a, a \o b, Len(a), len, p)
<1> DEFINE l == Len(a)
           c == a \o b
<1>1. l \in Nat
  BY LenProperties
<1>0. b \in Seq(Byte) /\ Len(b) = p /\ \A k \in 1..p : b[k].at = k /\ b[k].len = len
  BY DEF OneRecord
<1>2. /\ c \in Seq(Byte) /\ Len(c) = l + p
      /\ \A k \in 1..(l + p) : c[k] = IF k <= l THEN a[k] ELSE b[k - l]
  BY <1>0, ConcatProperties
<1> HIDE DEF l, c
<1>3. \A k \in 1..l : c[k] = a[k]
  BY <1>1, <1>2
<1>4. ASSUME NEW k \in 1..p
      PROVE  c[l + k].at = k /\ c[l + k].len = len
  <2> DEFINE m == l + k
  <2>1. m \in 1..(l + p) /\ ~(m <= l) /\ m - l = k
    BY <1>1
  <2> HIDE DEF m
  <2>2. c[m] = b[k]
    BY <1>2, <2>1
  <2> QED
    BY <1>0, <2>2 DEF m
<1>5. Behind(a, c, l, len, p)
  BY <1>1, <1>2, <1>3, <1>4 DEF Behind
<1> QED
  BY <1>5 DEF l, c

\* A record behind what there is, by its number.
LEMMA RecordPut ==
    ASSUME NEW a \in Seq(Byte), NEW i \in Nat, NEW r \in [app: BOOLEAN, len: Nat]
    PROVE  Behind(a, a \o BytesOf(i, r), Len(a), r.len, Header + r.len)
<1> DEFINE b == BytesOf(i, r)
           p == Header + r.len
<1>1. p \in Nat /\ p >= 1
  BY Sizes
<1>4. b \in Seq(Byte) /\ Len(b) = p /\ \A k \in 1..p : b[k].at = k /\ b[k].len = r.len
  BY BytesOfIs
<1> HIDE DEF b, p
<1>5. OneRecord(b, r.len, p)
  BY <1>4 DEF OneRecord
<1>6. Behind(a, a \o b, Len(a), r.len, p)
  BY <1>1, <1>5, OneMore
<1> QED
  BY <1>6 DEF b, p

\* However many records follow the handshake, they end where one ends.
LEMMA RecordsFrame ==
    ASSUME NEW rs \in Seq([app: BOOLEAN, len: Nat]), Len(rs) >= 3,
           rs[1].len = 1, rs[2].len = 1, rs[3].len = 1
    PROVE  Framed(Bytes(rs)) /\ (Len(rs) = 3 => Len(Bytes(rs)) = AllShaken)
<1> DEFINE Rec == [app: BOOLEAN, len: Nat]
           n == Len(rs)
<1>1. n \in Nat /\ n >= 3 /\ \A i \in 1..n : rs[i] \in Rec
  BY LenProperties, ElementOfSeq
<1>2. PICK f : /\ f = [i \in 0..n |-> IF i = 0 THEN NoBytes ELSE f[i - 1] \o BytesOf(i, rs[i])]
               /\ Bytes(rs) = f[n]
  BY <1>1, BytesRuns
<1>4. f[0] = NoBytes
  BY <1>1, <1>2
<1>5. ASSUME NEW i \in 1..n, NEW j, j = i - 1
      PROVE  f[i] = f[j] \o BytesOf(i, rs[i])
  <2>1. i \in 0..n /\ i # 0
    BY <1>1
  <2>2. f[i] = f[i - 1] \o BytesOf(i, rs[i])
    BY <1>2, <2>1
  <2> QED
    BY <1>5, <2>2
<1>s. Header \in Nat \ {0} /\ Size \in Nat /\ Size = Header + 1 /\ AllShaken = Size + Size + Size
  BY Sizes
<1>0. f[0] \in Seq(Byte) /\ Len(f[0]) = 0
  BY <1>4 DEF NoBytes
<1> DEFINE f0 == f[0]
           f1 == f[1]
           f2 == f[2]
           f3 == f[3]
<1>e. /\ f1 = f0 \o BytesOf(1, rs[1]) /\ rs[1] \in Rec /\ rs[1].len = 1
      /\ f2 = f1 \o BytesOf(2, rs[2]) /\ rs[2] \in Rec /\ rs[2].len = 1
      /\ f3 = f2 \o BytesOf(3, rs[3]) /\ rs[3] \in Rec /\ rs[3].len = 1
  <2>1. 1 \in 1..n /\ 2 \in 1..n /\ 3 \in 1..n /\ 0 = 1 - 1 /\ 1 = 2 - 1 /\ 2 = 3 - 1
    BY <1>1
  <2> QED
    BY <1>1, <1>5, <2>1
<1>z. f0 \in Seq(Byte) /\ 0 = Len(f0) /\ Size = Header + 1
  BY <1>0, <1>s
<1> HIDE DEF f0, f1, f2, f3
<1> DEFINE Two == Size + Size
<1>6. /\ f1 \in Seq(Byte) /\ Len(f1) = Size /\ f1[Header].len = 1
  <2>1. Behind(f0, f1, 0, 1, Size)
    BY <1>e, <1>z, RecordPut
  <2>2. /\ f1 \in Seq(Byte) /\ Len(f1) = 0 + Size
        /\ \A k \in 1..Size : f1[0 + k].at = k /\ f1[0 + k].len = 1
    BY <2>1 DEF Behind
  <2>3. Header \in 1..Size /\ 0 + Header = Header /\ 0 + Size = Size
    BY <1>s
  <2> QED
    BY <2>2, <2>3
<1>7. /\ f2 \in Seq(Byte) /\ Len(f2) = Two /\ f2[Header].len = 1 /\ f2[Size + Header].len = 1
  <2>1. Behind(f1, f2, Size, 1, Size)
    BY <1>e, <1>z, <1>6, RecordPut
  <2>2. /\ f2 \in Seq(Byte) /\ Len(f2) = Size + Size
        /\ \A k \in 1..Size : f2[k] = f1[k]
        /\ \A k \in 1..Size : f2[Size + k].at = k /\ f2[Size + k].len = 1
    BY <2>1 DEF Behind
  <2>3. Header \in 1..Size
    BY <1>s
  <2> QED
    BY <1>6, <2>2, <2>3
<1>8. /\ f3 \in Seq(Byte) /\ Len(f3) = AllShaken
      /\ f3[Header].len = 1 /\ f3[Size + Header].len = 1 /\ f3[Size + Size + Header].len = 1
      /\ f3[AllShaken].at = Header + f3[AllShaken].len
  <2>0. Two \in Nat /\ Two = Size + Size /\ AllShaken = Two + Size
    BY <1>s
  <2>4. f2[Size + Header].len = 1
    BY <1>7
  <2>t. Len(f2) = Two
    BY <1>7
  <2> HIDE DEF Two
  <2>1. Behind(f2, f3, Two, 1, Size)
    <3>1. f3 = f2 \o BytesOf(3, rs[3]) /\ rs[3] \in Rec /\ rs[3].len = 1 /\ f2 \in Seq(Byte)
      BY <1>e, <1>7
    <3>2. Behind(f2, f2 \o BytesOf(3, rs[3]), Len(f2), rs[3].len, Header + rs[3].len)
      BY <3>1, RecordPut
    <3> QED
      BY <1>z, <2>t, <3>1, <3>2
  <2>2. /\ f3 \in Seq(Byte) /\ Len(f3) = Two + Size
        /\ \A k \in 1..Two : f3[k] = f2[k]
        /\ \A k \in 1..Size : f3[Two + k].at = k /\ f3[Two + k].len = 1
    BY <2>1 DEF Behind
  <2> DEFINE sh == Size + Header
  <2>3. Header \in 1..Size /\ Size \in 1..Size /\ Header \in 1..Two /\ sh \in 1..Two
    BY <1>s, <2>0
  <2>5. f2[sh].len = 1
    BY <2>4
  <2> HIDE DEF sh
  <2>6. f3[sh].len = 1 /\ f3[Header].len = 1 /\ f3[Two + Header].len = 1
        /\ f3[Two + Size].at = Size /\ f3[Two + Size].len = 1
    BY <1>7, <2>2, <2>3, <2>5
  <2>7. f3[AllShaken].at = Header + f3[AllShaken].len
    <3>1. f3[AllShaken].at = Size /\ f3[AllShaken].len = 1
      BY <2>0, <2>6
    <3> QED
      BY <1>s, <3>1
  <2>8. f3[Size + Header].len = 1 /\ f3[Size + Size + Header].len = 1
    BY <2>6 DEF sh, Two
  <2> QED
    BY <2>0, <2>2, <2>6, <2>7, <2>8
<1>10. Framed(f3)
  BY <1>8, <1>s DEF Framed
<1> HIDE DEF Rec
<1> DEFINE Wrong == {i \in 3..n : ~Framed(f[i])}
<1>9. Wrong = {}
  <2> SUFFICES ASSUME Wrong # {} PROVE FALSE
    OBVIOUS
  <2>1. Wrong \subseteq Nat
    BY <1>1
  <2> HIDE DEF Wrong
  <2>2. PICK i \in Wrong : \A k \in Wrong : i <= k
    BY <2>1, LeastOf
  <2>3. i \in 3..n /\ ~Framed(f[i])
    BY <2>2 DEF Wrong
  <2>5. i # 3
    BY <1>10, <2>3 DEF f3
  <2> DEFINE j == i - 1
  <2>6. j \in 3..n /\ j \notin Wrong /\ i \in 1..n /\ i \in Nat
    BY <1>1, <2>2, <2>3, <2>5
  <2>j. j = i - 1
    OBVIOUS
  <2> HIDE DEF j
  <2> DEFINE r == rs[i]
             a == f[j]
             c == f[i]
             l == Len(a)
             len == r.len
             m == Header + len
  <2>7. Framed(a)
    BY <2>6 DEF Wrong
  <2>r. r \in [app: BOOLEAN, len: Nat] /\ c = a \o BytesOf(i, r) /\ ~Framed(c)
    BY <1>1, <1>5, <2>3, <2>6, <2>j DEF Rec
  <2>a. a \in Seq(Byte) /\ l = Len(a) /\ len = r.len /\ m = Header + len
    BY <2>7 DEF Framed
  <2>11. l >= AllShaken /\ a[Header].len = 1 /\ a[Size + Header].len = 1
         /\ a[Size + Size + Header].len = 1
    BY <2>7 DEF Framed
  <2> HIDE DEF r, a, c, l, len, m
  <2>8. /\ c \in Seq(Byte) /\ l \in Nat /\ m \in Nat /\ m >= 1 /\ Len(c) = l + m
        /\ \A k \in 1..l : c[k] = a[k]
        /\ \A k \in 1..m : c[l + k].at = k /\ c[l + k].len = len
    <3>1. Behind(a, c, l, len, m)
      BY <2>6, <2>r, <2>a, RecordPut
    <3> QED
      BY <3>1 DEF Behind
  <2>9. m \in 1..m
    BY <2>8
  <2> DEFINE e == l + m
             h1 == Size + Header
             h2 == Size + Size + Header
  <2>10. c[e].at = Header + c[e].len
    <3>1. c[l + m].at = m /\ c[l + m].len = len
      BY <2>8, <2>9
    <3> QED
      BY <2>a, <3>1
  <2>h. a[h1].len = 1 /\ a[h2].len = 1 /\ Len(c) = e
    BY <2>8, <2>11
  <2>12. Header \in 1..l /\ h1 \in 1..l /\ h2 \in 1..l /\ e >= AllShaken
    BY <1>s, <2>8, <2>11
  <2> HIDE DEF e, h1, h2
  <2>13. c[Header].len = 1 /\ c[h1].len = 1 /\ c[h2].len = 1
    BY <2>8, <2>11, <2>h, <2>12
  <2>14. Framed(c)
    <3>1. c[Size + Header].len = 1 /\ c[Size + Size + Header].len = 1
      BY <2>13 DEF h1, h2
    <3>2. Len(c) >= AllShaken /\ c[Len(c)].at = Header + c[Len(c)].len
      BY <2>10, <2>12, <2>h
    <3> QED
      BY <2>8, <2>13, <3>1, <3>2 DEF Framed
  <2> QED
    BY <2>r, <2>14
<1>11. Framed(f[n])
  <2>1. n \in 3..n /\ \A i \in 3..n : Framed(f[i])
    BY <1>1, <1>9
  <2> QED
    BY <2>1
<1>12. n = 3 => Len(f[n]) = AllShaken
  BY <1>8 DEF f3
<1> QED
  BY <1>2, <1>11, <1>12

LEMMA WiresFramed ==
    /\ \A w \in Wires : Framed(Bytes(Handshake \o w))
    /\ Len(Bytes(Handshake)) = AllShaken
<1> DEFINE Rec == [app: BOOLEAN, len: Nat]
<1>1. /\ Handshake \in Seq(Rec) /\ Len(Handshake) = 3
      /\ Handshake[1].len = 1 /\ Handshake[2].len = 1 /\ Handshake[3].len = 1
  BY DEF Handshake
<1>2. ASSUME NEW w \in Wires PROVE Framed(Bytes(Handshake \o w))
  <2>1. PICK n \in 0..Records : w \in [1..n -> [app: BOOLEAN, len: 0..PayloadMax]]
    BY DEF Wires
  <2>2. n \in Nat /\ w \in [1..n -> Rec]
    <3>1. [app: BOOLEAN, len: 0..PayloadMax] \subseteq Rec
      BY TlsAssumption
    <3> QED
      BY <2>1, <3>1, TlsAssumption
  <2> HIDE DEF Rec
  <2>3. w \in Seq(Rec) /\ Len(w) = n
    BY <2>2
  <2> DEFINE h == Handshake
             rs == h \o w
  <2>h. h \in Seq(Rec) /\ Len(h) = 3 /\ h[1].len = 1 /\ h[2].len = 1 /\ h[3].len = 1
    BY <1>1
  <2> HIDE DEF h
  <2>4. /\ rs \in Seq(Rec) /\ Len(rs) = 3 + n
        /\ \A i \in 1..(3 + n) : rs[i] = IF i <= 3 THEN h[i] ELSE w[i - 3]
    <3>1. /\ h \o w \in Seq(Rec) /\ Len(h \o w) = Len(h) + Len(w)
          /\ \A i \in 1..(Len(h) + Len(w)) :
                 (h \o w)[i] = IF i <= Len(h) THEN h[i] ELSE w[i - Len(h)]
      BY <2>h, <2>3, ConcatProperties
    <3> QED
      BY <2>h, <2>3, <3>1
  <2> HIDE DEF rs
  <2>5. rs[1] = h[1] /\ rs[2] = h[2] /\ rs[3] = h[3] /\ Len(rs) >= 3
    BY <2>2, <2>4
  <2>6. Framed(Bytes(rs))
    BY <2>h, <2>4, <2>5, RecordsFrame DEF Rec
  <2> QED
    BY <2>6 DEF rs, h
<1>3. Len(Bytes(Handshake)) = AllShaken
  <2> DEFINE h == Handshake
  <2>1. /\ h \in Seq([app: BOOLEAN, len: Nat]) /\ Len(h) = 3 /\ Len(h) >= 3
        /\ h[1].len = 1 /\ h[2].len = 1 /\ h[3].len = 1
    BY <1>1
  <2> HIDE DEF h
  <2> QED
    BY <2>1, RecordsFrame DEF h
<1> QED
  BY <1>2, <1>3


\* The bytes of w behind the first i, up to the j-th.
Piece(w, i, j) == SubSeq(w, i + 1, j)

Within(w, i, j) == w \in Seq(Byte) /\ i \in Nat /\ j \in Nat /\ i <= j /\ j <= Len(w)
IsPiece(w, i, j) ==
    /\ Piece(w, i, j) \in Seq(Byte) /\ Len(Piece(w, i, j)) = j - i
    /\ \A k \in 1..(j - i) : Piece(w, i, j)[k] = w[i + k]

LEMMA PieceIs ==
    ASSUME NEW w \in Seq(Byte), NEW i \in Nat, NEW j \in Nat, i <= j, j <= Len(w)
    PROVE  /\ Piece(w, i, j) \in Seq(Byte) /\ Len(Piece(w, i, j)) = j - i
           /\ \A k \in 1..(j - i) : Piece(w, i, j)[k] = w[i + k]
<1> DEFINE m == i + 1
<1>1. Len(w) \in Nat
  BY LenProperties
<1>2. m \in Int /\ j \in Int /\ \A k \in m..j : k \in 1..Len(w)
  BY <1>1
<1>3. \A k \in m..j : w[k] \in Byte
  BY <1>2, ElementOfSeq
<1>4. m = i + 1 /\ j - m + 1 = j - i /\ (m <= j => j - i > 0) /\ (~(m <= j) => j - i = 0)
  BY <1>1
<1> HIDE DEF m
<1>5. /\ SubSeq(w, m, j) \in Seq(Byte)
      /\ Len(SubSeq(w, m, j)) = IF m <= j THEN j - m + 1 ELSE 0
      /\ \A k \in 1..(j - m + 1) : SubSeq(w, m, j)[k] = w[m + k - 1]
  BY <1>2, <1>3, SubSeqProperties
<1>6. Piece(w, i, j) = SubSeq(w, m, j)
  BY <1>4 DEF Piece
<1>7. ASSUME NEW k \in 1..(j - i) PROVE Piece(w, i, j)[k] = w[i + k]
  <2>1. m + k - 1 = i + k
    BY <1>4
  <2>2. k \in 1..(j - m + 1)
    BY <1>4
  <2> QED
    BY <1>5, <1>6, <2>1, <2>2
<1> QED
  BY <1>4, <1>5, <1>6, <1>7

LEMMA PieceOf ==
    ASSUME NEW w, NEW i, NEW j, Within(w, i, j)
    PROVE  IsPiece(w, i, j)
<1>1. w \in Seq(Byte) /\ i \in Nat /\ j \in Nat /\ i <= j /\ j <= Len(w)
  BY DEF Within
<1>2. /\ Piece(w, i, j) \in Seq(Byte) /\ Len(Piece(w, i, j)) = j - i
      /\ \A k \in 1..(j - i) : Piece(w, i, j)[k] = w[i + k]
  BY <1>1, PieceIs
<1> QED
  BY <1>2 DEF IsPiece

LEMMA PieceNone ==
    ASSUME NEW w \in Seq(Byte), NEW i \in Nat
    PROVE  Piece(w, i, i) = NoBytes
<1>1. i + 1 \in Int /\ i \in Int /\ i < i + 1
  OBVIOUS
<1> QED
  BY <1>1, SubSeqEmpty DEF Piece, NoBytes

LEMMA PieceJoin ==
    ASSUME NEW w \in Seq(Byte), NEW i \in Nat, NEW j \in Nat, NEW k \in Nat,
           i <= j, j <= k, k <= Len(w)
    PROVE  Piece(w, i, j) \o Piece(w, j, k) = Piece(w, i, k)
<1> DEFINE m == i + 1
<1>1. Len(w) \in Nat
  BY LenProperties
<1>2. m \in 1..(Len(w) + 1) /\ j \in (m - 1)..Len(w) /\ k \in j..Len(w)
  BY <1>1
<1> HIDE DEF m
<1>3. SubSeq(w, m, j) \o SubSeq(w, j + 1, k) = SubSeq(w, m, k)
  BY <1>2, ConcatAdjacentSubSeq
<1> QED
  BY <1>3 DEF Piece, m

\* The first n bytes of a piece and the others.
Cuts(w, i, j, n) ==
    /\ SubSeq(Piece(w, i, j), 1, n) = Piece(w, i, i + n)
    /\ SubSeq(Piece(w, i, j), n + 1, Len(Piece(w, i, j))) = Piece(w, i + n, j)

LEMMA PieceCut ==
    ASSUME NEW w \in Seq(Byte), NEW i \in Nat, NEW j \in Nat, NEW n \in Nat,
           i <= j, j <= Len(w), n <= j - i
    PROVE  Cuts(w, i, j, n)
<1> DEFINE p == Piece(w, i, j)
           e == i + n
           l == j - i
           a == Piece(p, 0, n)
           b == Piece(p, n, l)
           c == Piece(w, i, e)
           d == Piece(w, e, j)
<1>1. l \in Nat /\ e \in Nat /\ i <= e /\ e <= j /\ e <= Len(w) /\ e - i = n /\ j - e = l - n
      /\ 0 <= n /\ n <= l /\ Len(w) \in Nat /\ n - 0 = n /\ e = i + n /\ 0 \in Nat
  BY LenProperties
<1>2. p \in Seq(Byte) /\ Len(p) = l /\ \A k \in 1..l : p[k] = w[i + k]
  BY PieceIs
<1>3. SubSeq(p, 1, n) = a /\ SubSeq(p, n + 1, Len(p)) = b
  BY <1>2 DEF Piece
<1> HIDE DEF p, l, e
<1>4. a \in Seq(Byte) /\ Len(a) = n - 0 /\ \A k \in 1..(n - 0) : a[k] = p[0 + k]
  <2>1. Within(p, 0, n)
    BY <1>1, <1>2 DEF Within
  <2>2. IsPiece(p, 0, n)
    BY <2>1, PieceOf
  <2> QED
    BY <2>2 DEF IsPiece
<1>5. b \in Seq(Byte) /\ Len(b) = l - n /\ \A k \in 1..(l - n) : b[k] = p[n + k]
  <2>1. l <= Len(p) /\ n <= l /\ l \in Nat /\ p \in Seq(Byte)
    BY <1>1, <1>2
  <2> QED
    BY <2>1, PieceIs
<1>6. c \in Seq(Byte) /\ Len(c) = e - i /\ \A k \in 1..(e - i) : c[k] = w[i + k]
  BY <1>1, PieceIs
<1>7. d \in Seq(Byte) /\ Len(d) = j - e /\ \A k \in 1..(j - e) : d[k] = w[e + k]
  BY <1>1, PieceIs
<1> HIDE DEF a, b, c, d
<1>8. \A k \in 1..n : a[k] = c[k]
  <2> TAKE k \in 1..n
  <2>1. k \in 1..(n - 0) /\ k \in 1..l /\ 0 + k = k /\ k \in 1..(e - i)
    BY <1>1
  <2> QED
    BY <1>2, <1>4, <1>6, <2>1
<1>9. \A k \in 1..(l - n) : b[k] = d[k]
  <2> TAKE k \in 1..(l - n)
  <2> DEFINE m == n + k
             q == i + m
  <2>1. m \in 1..l /\ q = e + k /\ k \in 1..(j - e) /\ q = i + m /\ m = n + k
    BY <1>1
  <2> HIDE DEF m, q
  <2>2. b[k] = p[m] /\ p[m] = w[q] /\ d[k] = w[q]
    BY <1>2, <1>5, <1>7, <2>1
  <2> QED
    BY <2>2
<1>10. a = c
  <2>1. Len(a) = n /\ Len(c) = n
    BY <1>1, <1>4, <1>6
  <2> QED
    BY <1>4, <1>6, <1>8, <2>1, SeqEqual
<1>11. b = d
  <2>1. Len(b) = Len(d) /\ \A k \in 1..Len(b) : b[k] = d[k]
    BY <1>1, <1>5, <1>7, <1>9
  <2> QED
    BY <1>5, <1>7, <2>1, SeqEqual
<1> QED
  BY <1>3, <1>10, <1>11 DEF Cuts, p, c, d, e

\* Whole finds the last end of a record.
LEMMA WholeIs ==
    ASSUME NEW hold \in Seq(Byte)
    PROVE  /\ Whole(hold) \in 0..Len(hold)
           /\ \A k \in 1..Len(hold) : k > Whole(hold) => hold[k].at # Header + hold[k].len
<1> DEFINE l == Len(hold)
           ends == {i \in 1..l : hold[i].at = Header + hold[i].len}
           n == CHOOSE i \in ends : \A j \in ends : j <= i
<1>1. l \in Nat
  BY LenProperties
<1>2. Whole(hold) = IF ends = {} THEN 0 ELSE n
  BY DEF Whole
<1>3. CASE ends = {}
  BY <1>1, <1>2, <1>3
<1>4. CASE ends # {}
  <2> DEFINE T == {l - i : i \in ends}
  <2>1. T \subseteq Nat /\ T # {}
    BY <1>1, <1>4
  <2>2. PICK x \in T : \A y \in T : x <= y
    BY <2>1, LeastOf
  <2>3. PICK i \in ends : x = l - i
    BY <2>2
  <2>4. \A j \in ends : l - i <= l - j
    BY <2>2, <2>3
  <2>5. \A j \in ends : j <= i
    BY <1>1, <2>4
  <2>6. n \in ends /\ \A j \in ends : j <= n
    BY <2>5
  <2>7. n \in 1..l
    BY <2>6
  <2> HIDE DEF n
  <2>8. ASSUME NEW k \in 1..l, k > n PROVE hold[k].at # Header + hold[k].len
    <3>1. k \notin ends
      BY <1>1, <2>6, <2>7, <2>8
    <3> QED
      BY <3>1
  <2> QED
    BY <1>1, <1>2, <1>4, <2>7, <2>8
<1> QED
  BY <1>3, <1>4

\* Where the body or the header that the handshake reads begins.
Base(t) == (IF t.shaken = 0 THEN 0 ELSE IF t.shaken = 1 THEN Size ELSE Size + Size)
           + (IF t.at = "body" THEN Header ELSE 0)
\* In the handshake the part read and the stream are the wire from there on.
Shaking(t, c, g) ==
    /\ g = NoBytes /\ t.rawHold = NoBytes /\ t.shaken \in 0..2
    /\ t.want + Len(t.part) = IF t.at = "header" THEN Header ELSE 1
    /\ Base(t) + Len(t.part) <= c
    /\ t.part = Piece(wire, Base(t), Base(t) + Len(t.part))
    /\ t.stream = Piece(wire, Base(t) + Len(t.part), c)
\* After it the wire is cut where a record ends: what was read and the stream are the
\* payload before, the hold is what came behind, no whole record.
CutAt(b, t, c, g) ==
    /\ b >= AllShaken /\ t.rawHold = Piece(wire, b, c)
    /\ g \o t.stream = Payload(Piece(wire, AllShaken, b))
NoEnd(b, c) ==
    \A k \in 1..(c - b) : Piece(wire, b, c)[k].at # Header + Piece(wire, b, c)[k].len
Reading(t, c, g) == \E b \in 0..c : CutAt(b, t, c, g) /\ NoEnd(b, c)
\* A reader that asks for something and is not woken leaves nothing in the stream.
Attentive(t) == t.want >= 1 /\ (~t.ready => t.stream = NoBytes)
SocketHolds(t, c, g) ==
    /\ t \in Socket /\ c \in 0..Len(wire) /\ g \in Seq(Byte)
    /\ t.at = "off" => g = NoBytes
    /\ t.at \in {"header", "body"} => Shaking(t, c, g)
    /\ t.at = "app" => Reading(t, c, g)
TlsInv == /\ Framed(wire) /\ SocketHolds(tls, came, got)
          /\ tls.at = "off" => came = 0
          /\ tls.at # "off" => Attentive(tls)

\* What ingest makes of the hold.
LEMMA IngestIs ==
    ASSUME Framed(wire), NEW t \in Socket, NEW g \in Seq(Byte),
           NEW b \in Nat, NEW c \in Nat, NEW d \in Nat, b <= c, c <= d, d <= Len(wire),
           CutAt(b, t, c, g)
    PROVE  LET u == Ingest(t, Piece(wire, c, d))
           IN  /\ u \in Socket /\ Reading(u, d, g)
               /\ u.at = t.at /\ u.ready = t.ready /\ u.want = t.want
               /\ b = d => u.stream = t.stream
<1> DEFINE u == Ingest(t, Piece(wire, c, d))
           hold == Piece(wire, b, d)
           n == Whole(hold)
           e == b + n
<1>0. wire \in Seq(Byte) /\ AllShaken \in Nat /\ Len(wire) \in Nat
  BY Sizes, LenProperties DEF Framed
<1>o. b <= c /\ c <= d /\ b <= d /\ d <= Len(wire)
  OBVIOUS
<1>p. b >= AllShaken /\ t.rawHold = Piece(wire, b, c)
  BY DEF CutAt
<1>1. hold \in Seq(Byte) /\ Len(hold) = d - b
  BY <1>0, <1>o, PieceIs
<1>2. t.rawHold \o Piece(wire, c, d) = hold
  <2>1. Piece(wire, b, c) \o Piece(wire, c, d) = Piece(wire, b, d)
    BY <1>0, <1>o, PieceJoin
  <2> QED
    BY <1>p, <2>1
<1>3. u = [t EXCEPT !.rawHold = SubSeq(hold, n + 1, Len(hold)),
                    !.stream = t.stream \o Payload(SubSeq(hold, 1, n))]
  BY <1>2 DEF Ingest
<1> HIDE DEF u
<1>4. n \in 0..(d - b) /\ \A k \in 1..(d - b) : k > n => hold[k].at # Header + hold[k].len
  BY <1>1, WholeIs
<1> HIDE DEF n
<1>5. SubSeq(hold, 1, n) = Piece(wire, b, e) /\ SubSeq(hold, n + 1, Len(hold)) = Piece(wire, e, d)
  <2>1. n \in Nat /\ n <= d - b
    BY <1>4
  <2>2. wire \in Seq(Byte)
    BY <1>0
  <2> HIDE DEF hold, e
  <2>3. Cuts(wire, b, d, n)
    BY <1>o, <2>1, <2>2, PieceCut
  <2> QED
    BY <2>3 DEF Cuts, hold, e
<1>6. e \in Nat /\ AllShaken <= b /\ b <= e /\ e <= d /\ e >= AllShaken /\ e \in 0..d /\ e = b + n
  BY <1>0, <1>p, <1>4
<1> HIDE DEF hold, e
<1> DEFINE first == Piece(wire, AllShaken, b)
           more == Piece(wire, b, e)
           left == Piece(wire, e, d)
<1>7. /\ first \in Seq(Byte) /\ more \in Seq(Byte) /\ left \in Seq(Byte) /\ Len(left) = d - e
      /\ \A k \in 1..(d - e) : left[k] = wire[e + k]
      /\ first \o more = Piece(wire, AllShaken, e)
  <2>0. Within(wire, AllShaken, b) /\ Within(wire, b, e) /\ Within(wire, e, d)
    BY <1>0, <1>o, <1>6 DEF Within
  <2>1. first \in Seq(Byte)
    BY <2>0, PieceOf DEF IsPiece
  <2>2. more \in Seq(Byte)
    BY <2>0, PieceOf DEF IsPiece
  <2>3. left \in Seq(Byte) /\ Len(left) = d - e /\ \A k \in 1..(d - e) : left[k] = wire[e + k]
    BY <2>0, PieceOf DEF IsPiece
  <2>4. first \o more = Piece(wire, AllShaken, e)
    <3>1. AllShaken <= b /\ e <= Len(wire)
      BY <1>0, <1>6
    <3> QED
      BY <1>0, <1>6, <3>1, PieceJoin
  <2> QED
    BY <2>1, <2>2, <2>3, <2>4
<1>8. g \o t.stream = Payload(first)
  BY DEF CutAt
<1>9. u = [t EXCEPT !.rawHold = left, !.stream = t.stream \o Payload(more)]
  BY <1>3, <1>5
<1>10. Payload(more) \in Seq(Byte) /\ t.stream \in Seq(Byte)
  BY <1>7, PayloadSeq DEF Socket
<1>11. \A k \in 1..(d - e) : left[k].at # Header + left[k].len
  <2> TAKE k \in 1..(d - e)
  <2> DEFINE m == n + k
  <2>1. m \in 1..(d - b) /\ m > n /\ b + m = e + k
    BY <1>4, <1>6
  <2> HIDE DEF m
  <2>2. hold[m].at # Header + hold[m].len
    BY <1>4, <2>1
  <2>3. hold[m] = wire[b + m]
    <3>1. Within(wire, b, d)
      BY <1>0, <1>o DEF Within
    <3>2. IsPiece(wire, b, d)
      BY <3>1, PieceOf
    <3>3. \A q \in 1..(d - b) : Piece(wire, b, d)[q] = wire[b + q]
      BY <3>2 DEF IsPiece
    <3>4. hold = Piece(wire, b, d)
      BY DEF hold
    <3>5. hold[m] = wire[b + m]
      BY <2>1, <3>3, <3>4
    <3> QED
      BY <3>5
  <2> QED
    BY <1>7, <2>1, <2>2, <2>3
<1> HIDE DEF first, more, left
<1>12. /\ u.rawHold = left /\ u.stream = t.stream \o Payload(more)
       /\ u.at = t.at /\ u.ready = t.ready /\ u.want = t.want /\ u \in Socket
  <2>1. t.stream \o Payload(more) \in Seq(Byte)
    BY <1>10, ConcatProperties
  <2> QED
    BY <1>7, <1>9, <2>1 DEF Socket
<1>13. g \o u.stream = Payload(Piece(wire, AllShaken, e))
  <2>1. g \o u.stream = (g \o t.stream) \o Payload(more)
    <3> DEFINE x == Payload(more)
           y == t.stream
    <3>1. x \in Seq(Byte) /\ y \in Seq(Byte) /\ g \in Seq(Byte)
      BY <1>10
    <3>2. u.stream = y \o x
      BY <1>12
    <3> HIDE DEF x, y
    <3>3. (g \o y) \o x = g \o (y \o x)
      BY <3>1, BytesAssociate
    <3> QED
      BY <3>2, <3>3 DEF x, y
  <2>2. Payload(first \o more) = Payload(first) \o Payload(more)
    BY <1>7, PayloadConcat
  <2> QED
    BY <1>7, <1>8, <2>1, <2>2
<1>14. CutAt(e, u, d, g) /\ NoEnd(e, d)
  BY <1>6, <1>11, <1>12, <1>13 DEF CutAt, NoEnd, left
<1>15. Reading(u, d, g)
  BY <1>6, <1>14 DEF Reading
<1>16. ASSUME b = d PROVE u.stream = t.stream
  <2>1. e = b
    BY <1>6, <1>16
  <2>2. more = NoBytes
    BY <1>0, <2>1, PieceNone DEF more
  <2> QED
    BY <1>10, <1>12, <2>2, PayloadNone, ConcatEmptySeq DEF NoBytes
<1> QED
  BY <1>12, <1>15, <1>16 DEF u

\* A byte count that a read takes.
LEMMA TakesSome ==
    ASSUME NEW a \in Nat, NEW b \in Nat
    PROVE  /\ Least(a, b) \in Nat /\ Least(a, b) <= a /\ Least(a, b) <= b
           /\ (Least(a, b) = a \/ Least(a, b) = b)
BY DEF Least

\* The first n bytes and the others are all of them.
LEMMA WholeOfTwo ==
    ASSUME NEW s \in Seq(Byte), NEW n \in Nat, n <= Len(s)
    PROVE  /\ SubSeq(s, 1, n) \in Seq(Byte) /\ SubSeq(s, n + 1, Len(s)) \in Seq(Byte)
           /\ SubSeq(s, 1, n) \o SubSeq(s, n + 1, Len(s)) = s
<1> DEFINE l == Len(s)
<1>1. l \in Nat /\ n <= l /\ 0 \in Nat /\ 0 <= n /\ l <= Len(s) /\ 0 <= l
  BY LenProperties
<1>2. SubSeq(s, 1, l) = s
  BY SubSeqFull
<1> HIDE DEF l
<1>3. Piece(s, 0, n) \in Seq(Byte)
  BY <1>1, PieceIs
<1>4. Piece(s, n, l) \in Seq(Byte)
  BY <1>1, PieceIs
<1>5. Piece(s, 0, n) \o Piece(s, n, l) = Piece(s, 0, l)
  BY <1>1, PieceJoin
<1>6. 0 + 1 = 1
  OBVIOUS
<1>7. Piece(s, 0, n) = SubSeq(s, 1, n) /\ Piece(s, n, l) = SubSeq(s, n + 1, l)
      /\ Piece(s, 0, l) = SubSeq(s, 1, l)
  BY <1>6 DEF Piece
<1> QED
  BY <1>2, <1>3, <1>4, <1>5, <1>7 DEF l

\* read changes nothing but these fields.
LEMMA TakenSet ==
    ASSUME NEW t \in Socket, NEW n \in Nat, n <= Len(t.stream), n <= t.want
    PROVE  /\ Taken(t, n) \in Socket
           /\ Taken(t, n).stream = SubSeq(t.stream, n + 1, Len(t.stream))
           /\ Taken(t, n).part = t.part \o SubSeq(t.stream, 1, n)
           /\ Taken(t, n).want = t.want - n /\ (Taken(t, n).ready <=> n < Len(t.stream))
           /\ Taken(t, n).at = t.at /\ Taken(t, n).shaken = t.shaken
           /\ Taken(t, n).rawHold = t.rawHold
<1> DEFINE a == SubSeq(t.stream, n + 1, Len(t.stream))
           b == SubSeq(t.stream, 1, n)
           p == t.part \o b
           r == n < Len(t.stream)
           m == t.want - n
<1>1. t.stream \in Seq(Byte) /\ t.part \in Seq(Byte) /\ t.want \in Nat
  BY DEF Socket
<1>2. a \in Seq(Byte) /\ b \in Seq(Byte)
  BY <1>1, WholeOfTwo
<1>3. p \in Seq(Byte)
  BY <1>1, <1>2, ConcatProperties
<1>4. m \in Nat
  BY <1>1
<1>5. r \in BOOLEAN
  OBVIOUS
<1>6. Taken(t, n) = [t EXCEPT !.stream = a, !.part = p, !.want = m, !.ready = r]
  BY DEF Taken
<1> HIDE DEF a, b, p, r, m
<1>7. Taken(t, n) \in Socket
  BY <1>2, <1>3, <1>4, <1>5, <1>6 DEF Socket
<1>8. /\ Taken(t, n).stream = a /\ Taken(t, n).part = p /\ Taken(t, n).want = m /\ Taken(t, n).ready = r
      /\ Taken(t, n).at = t.at /\ Taken(t, n).shaken = t.shaken /\ Taken(t, n).rawHold = t.rawHold
  BY <1>6 DEF Socket
<1> QED
  BY <1>7, <1>8 DEF a, b, p, r, m

\* A read in the handshake.
LEMMA TakenShakes ==
    ASSUME Framed(wire), NEW t \in Socket, NEW c \in 0..Len(wire), NEW g, Shaking(t, c, g),
           NEW n \in Nat, n <= Len(t.stream), n <= t.want
    PROVE  Shaking(Taken(t, n), c, g)
<1> DEFINE u == Taken(t, n)
           b == Base(t)
           p == Len(t.part)
           e == b + p
<1>0. wire \in Seq(Byte) /\ Len(wire) \in Nat /\ Size \in Nat /\ Header \in Nat
  BY Sizes, LenProperties DEF Framed
<1>1. /\ g = NoBytes /\ t.rawHold = NoBytes /\ t.shaken \in 0..2
      /\ t.want + p = IF t.at = "header" THEN Header ELSE 1
      /\ e <= c /\ t.part = Piece(wire, b, e) /\ t.stream = Piece(wire, e, c)
  BY DEF Shaking
<1>2. t.want \in Nat /\ t.part \in Seq(Byte) /\ p \in Nat /\ c \in Nat /\ c <= Len(wire)
  BY <1>0, LenProperties DEF Socket
<1>3. b \in Nat
  BY <1>0 DEF Base
<1>4. /\ u.stream = SubSeq(t.stream, n + 1, Len(t.stream)) /\ u.part = t.part \o SubSeq(t.stream, 1, n)
      /\ u.want = t.want - n /\ u.at = t.at /\ u.shaken = t.shaken /\ u.rawHold = t.rawHold
  BY TakenSet
<1>5. Base(u) = b
  BY <1>4 DEF Base
<1> HIDE DEF u, b, p
<1>6. e \in Nat /\ b <= e /\ e <= Len(wire)
  BY <1>1, <1>2, <1>3
<1> HIDE DEF e
<1>7. Len(t.stream) = c - e /\ n <= c - e
  <2>1. Len(Piece(wire, e, c)) = c - e
    BY <1>0, <1>1, <1>2, <1>6, PieceIs
  <2> QED
    BY <1>1, <2>1
<1>8. Cuts(wire, e, c, n)
  BY <1>0, <1>1, <1>2, <1>6, <1>7, PieceCut
<1> DEFINE q == e + n
<1>9. q \in Nat /\ e <= q /\ b <= q /\ q <= c /\ q <= Len(wire) /\ q = e + n
  <2>1. e \in Nat /\ c \in Nat /\ b \in Nat /\ b <= e /\ n <= c - e /\ c <= Len(wire)
    BY <1>2, <1>3, <1>6, <1>7
  <2> QED
    BY <1>0, <2>1
<1>10. u.stream = Piece(wire, q, c)
  BY <1>1, <1>4, <1>8 DEF Cuts
<1>11. u.part = Piece(wire, b, e) \o Piece(wire, e, q)
  BY <1>1, <1>4, <1>8 DEF Cuts
<1> HIDE DEF q
<1>12. u.part = Piece(wire, b, q)
  BY <1>0, <1>3, <1>6, <1>9, <1>11, PieceJoin
<1>13. Len(u.part) = q - b
  <2>1. Len(Piece(wire, b, q)) = q - b
    BY <1>0, <1>3, <1>9, PieceIs
  <2> QED
    BY <1>12, <2>1
<1>14. q = b + Len(u.part) /\ u.want + Len(u.part) = t.want + p
  <2>1. e = b + p
    BY DEF e
  <2>2. Len(u.part) = p + n /\ q = b + (p + n)
    BY <1>2, <1>3, <1>9, <1>13, <2>1
  <2>3. (t.want - n) + (p + n) = t.want + p
    BY <1>2
  <2> QED
    BY <1>4, <2>2, <2>3
<1>15. Shaking(u, c, g)
  BY <1>1, <1>4, <1>5, <1>9, <1>10, <1>12, <1>14 DEF Shaking
<1> QED
  BY <1>15 DEF u

\* A read of the application: what leaves the stream is read.
LEMMA TakenReads ==
    ASSUME NEW t \in Socket, NEW c, NEW g \in Seq(Byte), Reading(t, c, g),
           NEW n \in Nat, n <= Len(t.stream), n <= t.want
    PROVE  /\ g \o SubSeq(t.stream, 1, n) \in Seq(Byte)
           /\ Reading(Taken(t, n), c, g \o SubSeq(t.stream, 1, n))
<1> DEFINE u == Taken(t, n)
           x == SubSeq(t.stream, 1, n)
           y == SubSeq(t.stream, n + 1, Len(t.stream))
<1>1. t.stream \in Seq(Byte)
  BY DEF Socket
<1>2. x \in Seq(Byte) /\ y \in Seq(Byte) /\ x \o y = t.stream
  BY <1>1, WholeOfTwo
<1>3. u.stream = y /\ u.rawHold = t.rawHold
  BY TakenSet
<1> HIDE DEF u, x, y
<1>4. (g \o x) \o y = g \o (x \o y)
  <2>1. x \in Seq(Byte) /\ y \in Seq(Byte)
    BY <1>2
  <2> QED
    BY <2>1, ConcatAssociative
<1>5. (g \o x) \o u.stream = g \o t.stream
  BY <1>2, <1>3, <1>4
<1>6. PICK b \in 0..c : CutAt(b, t, c, g) /\ NoEnd(b, c)
  BY DEF Reading
<1>7. CutAt(b, u, c, g \o x)
  BY <1>3, <1>5, <1>6 DEF CutAt
<1>8. Reading(u, c, g \o x)
  BY <1>6, <1>7 DEF Reading
<1>9. g \o x \in Seq(Byte)
  BY <1>2, ConcatProperties
<1> QED
  BY <1>8, <1>9 DEF u, x

\* What follows a read: the next header, the body, the application, or more of it.
LEMMA GoesOn ==
    ASSUME Framed(wire), NEW u \in Socket, NEW c \in 0..Len(wire), NEW g \in Seq(Byte), u.at # "off",
           u.at \in {"header", "body"} => Shaking(u, c, g),
           u.at = "app" => Reading(u, c, g),
           ~u.ready => u.stream = NoBytes
    PROVE  SocketHolds(Go(u), c, g) /\ Go(u).at # "off" /\ Attentive(Go(u))
<1>0. /\ wire \in Seq(Byte) /\ Len(wire) \in Nat /\ Size \in Nat /\ Header \in Nat /\ Header >= 1
      /\ Size = Header + 1 /\ AllShaken = Size + Size + Size /\ AllShaken \in Nat
      /\ wire[Header].len = 1 /\ wire[Size + Header].len = 1 /\ wire[Size + Size + Header].len = 1
  BY Sizes, LenProperties DEF Framed
<1>w. wire \in Seq(Byte) /\ Len(wire) \in Nat
  BY <1>0
<1>m. Size \in Nat /\ Header \in Nat /\ Size = Header + 1
  BY <1>0
<1>1. u.want \in Nat /\ u.at \in {"header", "body", "app"} /\ ReadLen \in Nat /\ ReadLen >= 1
      /\ NoBytes \in Seq(Byte) /\ Len(NoBytes) = 0
  BY TlsAssumption DEF Socket, NoBytes
<1>2. CASE u.want > 0
  <2>1. Go(u) = u
    BY <1>2 DEF Go
  <2>2. u.want >= 1
    BY <1>1, <1>2
  <2> QED
    BY <1>1, <2>1, <2>2 DEF SocketHolds, Attentive
<1>3. CASE ~(u.want > 0) /\ u.at = "app"
  <2> DEFINE v == [u EXCEPT !.part = NoBytes, !.want = ReadLen]
  <2>1. Go(u) = v
    BY <1>3 DEF Go
  <2>2. /\ v \in Socket /\ v.at = "app" /\ v.want = ReadLen /\ v.ready = u.ready
        /\ v.stream = u.stream /\ v.rawHold = u.rawHold
    BY <1>1, <1>3 DEF Socket
  <2> HIDE DEF v
  <2>3. PICK b \in 0..c : CutAt(b, u, c, g) /\ NoEnd(b, c)
    BY <1>3 DEF Reading
  <2>4. CutAt(b, v, c, g)
    BY <2>2, <2>3 DEF CutAt
  <2>5. Reading(v, c, g)
    BY <2>3, <2>4 DEF Reading
  <2>6. Attentive(v)
    BY <1>1, <2>2 DEF Attentive
  <2> QED
    BY <2>1, <2>2, <2>5, <2>6 DEF SocketHolds
<1>4. CASE ~(u.want > 0) /\ u.at = "header"
  <2> DEFINE k == IF u.shaken = 0 THEN 0 ELSE IF u.shaken = 1 THEN Size ELSE Size + Size
             e == k + Header
  <2>1. /\ g = NoBytes /\ u.rawHold = NoBytes /\ u.shaken \in 0..2 /\ u.want = 0
        /\ u.want + Len(u.part) = Header /\ Base(u) + Len(u.part) <= c
        /\ u.part = Piece(wire, Base(u), Base(u) + Len(u.part))
        /\ u.stream = Piece(wire, Base(u) + Len(u.part), c)
    BY <1>1, <1>4 DEF Shaking
  <2>2. Base(u) = k /\ k \in Nat
    <3>1. Base(u) = k + 0
      BY <1>4 DEF Base
    <3>2. k \in Nat
      BY <1>0
    <3> QED
      BY <3>1, <3>2
  <2>3. Len(u.part) = Header
    <3>1. Len(u.part) \in Nat
      BY LenProperties DEF Socket
    <3> QED
      BY <1>0, <2>1, <3>1
  <2>4. wire[e].len = 1
    <3>1. CASE u.shaken = 0
      <4>1. 0 + Header = Header
        BY <1>0
      <4> QED
        BY <1>0, <3>1, <4>1
    <3>2. CASE u.shaken = 1
      BY <1>0, <3>2
    <3>3. CASE u.shaken = 2
      BY <1>0, <3>3
    <3> QED
      BY <2>1, <3>1, <3>2, <3>3
  <2> HIDE DEF k
  <2>5. e \in Nat /\ e <= c /\ k <= e /\ e - k = Header /\ e = k + Header /\ c \in Nat /\ c <= Len(wire)
        /\ e <= Len(wire)
    BY <1>0, <2>1, <2>2, <2>3
  <2> HIDE DEF e
  <2>6. u.part = Piece(wire, k, e) /\ u.stream = Piece(wire, e, c)
    BY <2>1, <2>2, <2>3, <2>5
  <2>7. u.part[Header].len = 1
    <3>1. \A q \in 1..(e - k) : Piece(wire, k, e)[q] = wire[k + q]
      <4>1. k \in Nat /\ e \in Nat /\ k <= e /\ e <= Len(wire)
        BY <2>2, <2>5
      <4> QED
        BY <1>w, <4>1, PieceIs
    <3>2. Header \in 1..(e - k)
      BY <1>0, <2>5
    <3> QED
      BY <2>4, <2>5, <2>6, <3>1, <3>2
  <2> DEFINE v == [u EXCEPT !.at = "body", !.part = NoBytes, !.want = 1]
  <2>8. Go(u) = v
    BY <1>1, <1>4, <2>7 DEF Go
  <2>9. /\ v \in Socket /\ v.at = "body" /\ v.want = 1 /\ v.ready = u.ready /\ v.part = NoBytes
        /\ v.stream = u.stream /\ v.rawHold = u.rawHold /\ v.shaken = u.shaken
    BY <1>1 DEF Socket
  <2> HIDE DEF v
  <2>10. Base(v) = e
    BY <2>9 DEF Base, k, e
  <2>11. Shaking(v, c, g)
    <3>1. e + 0 = e /\ 1 + 0 = 1
      BY <2>5
    <3>2. NoBytes = Piece(wire, e, e)
      BY <1>0, <2>5, PieceNone
    <3> QED
      BY <1>1, <2>1, <2>5, <2>6, <2>9, <2>10, <3>1, <3>2 DEF Shaking
  <2>12. Attentive(v)
    BY <2>9 DEF Attentive
  <2> QED
    BY <2>8, <2>9, <2>11, <2>12 DEF SocketHolds
<1>5. CASE ~(u.want > 0) /\ u.at = "body"
  <2> DEFINE k == IF u.shaken = 0 THEN 0 ELSE IF u.shaken = 1 THEN Size ELSE Size + Size
             e == k + Size
  <2>1. /\ g = NoBytes /\ u.rawHold = NoBytes /\ u.shaken \in 0..2 /\ u.want = 0
        /\ u.want + Len(u.part) = 1 /\ Base(u) + Len(u.part) <= c
        /\ u.stream = Piece(wire, Base(u) + Len(u.part), c)
    BY <1>1, <1>5 DEF Shaking
  <2>2. Base(u) = k + Header /\ k \in Nat
    BY <1>0, <1>5 DEF Base
  <2>3. Len(u.part) = 1
    <3>1. Len(u.part) \in Nat
      BY LenProperties DEF Socket
    <3> QED
      BY <2>1, <3>1
  <2>4. (k + Header) + 1 = e /\ e \in Nat /\ e <= c /\ e <= Len(wire) /\ c \in Nat /\ c <= Len(wire)
    <3> HIDE DEF k
    <3>1. (k + Header) + 1 = e /\ e \in Nat
      <4>1. k \in Nat
        BY <2>2
      <4> QED
        BY <1>m, <4>1
    <3>2. (k + Header) + 1 <= c
      BY <2>1, <2>2, <2>3
    <3> QED
      BY <1>0, <3>1, <3>2
  <2>5. u.stream = Piece(wire, e, c)
    BY <2>1, <2>2, <2>3, <2>4
  <2>6. CASE u.shaken < 2
    <3> DEFINE v == [u EXCEPT !.at = "header", !.part = NoBytes, !.want = Header, !.shaken = u.shaken + 1]
    <3>1. Go(u) = v
      BY <1>5, <2>6 DEF Go
    <3>2. u.shaken + 1 \in 0..3 /\ u.shaken + 1 \in 1..2
      BY <2>1, <2>6
    <3>3. /\ v \in Socket /\ v.at = "header" /\ v.want = Header /\ v.ready = u.ready /\ v.part = NoBytes
          /\ v.stream = u.stream /\ v.rawHold = u.rawHold /\ v.shaken = u.shaken + 1
      BY <1>0, <1>1, <3>2 DEF Socket
    <3> HIDE DEF v
    <3>4. Base(v) = e
      <4>1. CASE u.shaken = 0
        BY <1>0, <3>3, <4>1 DEF Base
      <4>2. CASE u.shaken = 1
        BY <1>0, <3>3, <4>2 DEF Base
      <4> QED
        BY <2>1, <2>6, <4>1, <4>2
    <3> HIDE DEF e, k
    <3>5. Shaking(v, c, g)
      <4>1. e + 0 = e /\ Header + 0 = Header
        <5>1. \A i \in Nat : i + 0 = i
          OBVIOUS
        <5>2. e \in Nat /\ Header \in Nat
          BY <1>0, <2>4
        <5> QED BY <5>1, <5>2
      <4>2. NoBytes = Piece(wire, e, e)
        BY <1>0, <2>4, PieceNone
      <4>3. v.shaken \in 0..2
        BY <3>2, <3>3
      <4> QED
        BY <1>1, <2>1, <2>4, <2>5, <3>3, <3>4, <4>1, <4>2, <4>3 DEF Shaking
    <3>6. Attentive(v)
      BY <1>0, <3>3 DEF Attentive
    <3> QED
      BY <3>1, <3>3, <3>5, <3>6 DEF SocketHolds
  <2>7. CASE u.shaken = 2
    <3>1. e = AllShaken
      BY <1>0, <2>7
    <3> DEFINE w == [u EXCEPT !.at = "app", !.part = NoBytes, !.want = ReadLen, !.shaken = 3,
                              !.stream = NoBytes]
               v == Ingest(w, Piece(wire, e, c))
    <3>2. Go(u) = v
      <4>1. Go(u) = Ingest(w, u.stream)
        BY <1>5, <2>7 DEF Go
      <4> QED
        BY <2>5, <4>1
    <3>3. /\ w \in Socket /\ w.at = "app" /\ w.want = ReadLen /\ w.ready = u.ready
          /\ w.stream = NoBytes /\ w.rawHold = u.rawHold
      <4> HIDE DEF e, k
      <4>1. ReadLen \in Nat /\ NoBytes \in Seq(Byte) /\ 3 \in 0..3
        BY <1>1
      <4>2. w \in Socket
        BY <4>1 DEF Socket
      <4>3. w.at = "app" /\ w.want = ReadLen /\ w.ready = u.ready
        BY DEF Socket
      <4>4. w.stream = NoBytes /\ w.rawHold = u.rawHold
        BY DEF Socket
      <4> QED
        BY <4>2, <4>3, <4>4
    <3> HIDE DEF e, k, w
    <3>4. CutAt(e, w, e, g)
      <4>1. Piece(wire, e, e) = NoBytes
        BY <1>0, <2>4, PieceNone
      <4>2. g \o w.stream = NoBytes
        BY <2>1, <3>3, EmptySeq, ConcatEmptySeq DEF NoBytes
      <4>3. e >= AllShaken
        BY <1>0, <3>1
      <4> QED
        BY <2>1, <3>1, <3>3, <4>1, <4>2, <4>3, PayloadNone DEF CutAt
    <3>5. /\ v \in Socket /\ Reading(v, c, g) /\ v.at = w.at /\ v.ready = w.ready /\ v.want = w.want
          /\ e = c => v.stream = w.stream
      <4>1. e <= e /\ e <= c /\ c <= Len(wire) /\ e >= AllShaken
        BY <1>0, <2>4, <3>1
      <4> QED
        BY <2>4, <3>3, <3>4, <4>1, IngestIs
    <3> HIDE DEF v
    <3>6. ASSUME ~v.ready PROVE v.stream = NoBytes
      <4>1. Piece(wire, e, c) = NoBytes
        BY <2>5, <3>3, <3>5, <3>6
      <4>2. Within(wire, e, c)
        BY <1>0, <2>4 DEF Within
      <4>3. Len(Piece(wire, e, c)) = c - e
        BY <4>2, PieceOf DEF IsPiece
      <4>4. e = c
        BY <1>1, <2>4, <4>1, <4>3
      <4> QED
        BY <3>3, <3>5, <4>4
    <3>7. Attentive(v)
      BY <1>1, <3>3, <3>5, <3>6 DEF Attentive
    <3> QED
      BY <3>2, <3>3, <3>5, <3>7 DEF SocketHolds
  <2> QED
    BY <2>1, <2>6, <2>7
<1> QED
  BY <1>1, <1>2, <1>3, <1>4, <1>5

LEMMA TlsStarts == TlsInit => TlsInv
<1> SUFFICES ASSUME TlsInit PROVE TlsInv
  OBVIOUS
<1>1. Framed(wire)
  BY WiresFramed DEF TlsInit
<1>2. wire \in Seq(Byte) /\ Len(wire) \in Nat
  BY <1>1, LenProperties DEF Framed
<1>3. came = 0 /\ tls = NoSocket /\ got = NoBytes
  BY DEF TlsInit
<1>4. NoBytes \in Seq(Byte)
  BY DEF NoBytes
<1>5. NoSocket \in Socket /\ NoSocket.at = "off"
  BY <1>4 DEF NoSocket, Socket
<1>6. 0 \in 0..Len(wire)
  BY <1>2
<1> QED
  BY <1>1, <1>3, <1>4, <1>5, <1>6 DEF TlsInv, SocketHolds

\* What the socket holds depends on the wire, which never changes.
LEMMA WireStays ==
    ASSUME wire' = wire, SocketHolds(tls', came', got')
    PROVE  SocketHolds(tls, came, got)'
BY DEF SocketHolds, Shaking, Base, Reading, CutAt, NoEnd, Piece

LEMMA TlsConnects == TlsInv /\ Connect => TlsInv'
<1> SUFFICES ASSUME TlsInv, Connect PROVE TlsInv'
  OBVIOUS
<1>0. Framed(wire) /\ wire \in Seq(Byte) /\ Len(wire) \in Nat /\ Header \in Nat /\ Header >= 1
      /\ Size \in Nat
  BY Sizes, LenProperties DEF TlsInv, Framed
<1>1. tls.at = "off" /\ wire' = wire /\ came' = 0 /\ got' = NoBytes
  BY DEF Connect, TlsInv, SocketHolds
<1> DEFINE v == [NoSocket EXCEPT !.at = "header", !.want = Header]
<1>2. tls' = v
  BY DEF Connect
<1>n. NoBytes \in Seq(Byte) /\ Len(NoBytes) = 0
  BY DEF NoBytes
<1>3. /\ v.at = "header" /\ v.want = Header /\ v.part = NoBytes /\ v.stream = NoBytes
      /\ v.rawHold = NoBytes /\ v.shaken = 0
  BY DEF NoSocket
<1>4. v \in Socket
  <2>1. NoSocket \in Socket
    BY <1>n DEF NoSocket, Socket
  <2>2. \A t \in Socket : [t EXCEPT !.at = "header", !.want = Header] \in Socket
    BY <1>0 DEF Socket
  <2> QED
    BY <2>1, <2>2
<1> HIDE DEF v
<1>5. Base(v) = 0
  BY <1>3 DEF Base
<1>6. Shaking(v, 0, NoBytes)
  <2>1. Piece(wire, 0, 0) = NoBytes
    BY <1>0, PieceNone
  <2>2. Header + 0 = Header /\ 0 + 0 = 0 /\ 0 <= 0 /\ 0 \in 0..2
    BY <1>0
  <2> QED
    BY <1>n, <1>3, <1>5, <2>1, <2>2 DEF Shaking
<1>7. Attentive(v)
  BY <1>0, <1>3 DEF Attentive
<1>8. 0 \in 0..Len(wire)
  BY <1>0
<1>9. SocketHolds(v, 0, NoBytes)
  BY <1>n, <1>3, <1>4, <1>6, <1>8 DEF SocketHolds
<1>10. SocketHolds(tls, came, got)'
  <2>1. SocketHolds(tls', came', got')
    BY <1>1, <1>2, <1>9
  <2> QED
    BY <1>1, <2>1, WireStays
<1>11. Framed(wire)' /\ tls'.at # "off"
  BY <1>0, <1>1, <1>2, <1>3 DEF Framed
<1> QED
  BY <1>1, <1>2, <1>7, <1>10, <1>11 DEF TlsInv

LEMMA TlsArrives ==
    ASSUME TlsInv, NEW n \in 1..Len(wire), BytesArrive(n)
    PROVE  TlsInv'
<1> DEFINE d == came + n
           chunk == Piece(wire, came, d)
           u == IF AppMode(tls) THEN Ingest(tls, chunk)
                ELSE [tls EXCEPT !.stream = tls.stream \o chunk]
<1>0. Framed(wire) /\ wire \in Seq(Byte) /\ Len(wire) \in Nat
  BY LenProperties DEF TlsInv, Framed
<1>1. /\ tls.at # "off" /\ tls \in Socket /\ came \in 0..Len(wire) /\ got \in Seq(Byte) /\ Attentive(tls)
      /\ tls.at \in {"header", "body"} => Shaking(tls, came, got)
      /\ tls.at = "app" => Reading(tls, came, got)
  BY DEF BytesArrive, TlsInv, SocketHolds
<1>2. /\ d <= Len(wire) /\ came' = d /\ wire' = wire /\ got' = got
      /\ tls' = [u EXCEPT !.ready = TRUE]
  BY DEF BytesArrive, Piece
<1>3. d \in Nat /\ came \in Nat /\ came <= d /\ d \in 0..Len(wire)
  BY <1>0, <1>1, <1>2
<1> HIDE DEF d
<1>4. chunk \in Seq(Byte)
  BY <1>0, <1>2, <1>3, PieceIs
<1> HIDE DEF u
<1>5. /\ u \in Socket /\ u.at = tls.at /\ u.want = tls.want
      /\ u.at \in {"header", "body"} => Shaking(u, d, got)
      /\ u.at = "app" => Reading(u, d, got)
  <2>1. CASE tls.at = "app"
    <3>1. u = Ingest(tls, chunk)
      BY <2>1 DEF u, AppMode
    <3>2. PICK b \in 0..came : CutAt(b, tls, came, got) /\ NoEnd(b, came)
      BY <1>1, <2>1 DEF Reading
    <3>3. b \in Nat /\ b <= came /\ b >= AllShaken
      BY <1>3, <3>2 DEF CutAt
    <3>4. u \in Socket /\ Reading(u, d, got) /\ u.at = tls.at /\ u.want = tls.want
      BY <1>0, <1>1, <1>2, <1>3, <3>1, <3>2, <3>3, IngestIs
    <3> QED
      BY <2>1, <3>4
  <2>2. CASE tls.at # "app"
    <3> DEFINE s == tls.stream \o chunk
               p == Base(tls) + Len(tls.part)
    <3>1. tls.at \in {"header", "body"} /\ Shaking(tls, came, got)
      BY <1>1, <2>2 DEF Socket
    <3>2. s \in Seq(Byte)
      <4>1. tls.stream \in Seq(Byte)
        BY <1>1 DEF Socket
      <4> QED
        BY <1>4, <4>1, ConcatProperties
    <3>3. u = [tls EXCEPT !.stream = s]
      BY <2>2 DEF u, AppMode
    <3>4. p \in Nat /\ p <= came /\ tls.stream = Piece(wire, p, came)
      <4>1. Len(tls.part) \in Nat /\ Base(tls) \in Nat
        BY <1>1, Sizes, LenProperties DEF Socket, Base
      <4> QED
        BY <3>1, <4>1 DEF Shaking
    <3> HIDE DEF p
    <3>5. s = Piece(wire, p, d)
      <4>1. Piece(wire, p, came) \o Piece(wire, came, d) = Piece(wire, p, d)
        BY <1>0, <1>2, <1>3, <3>4, PieceJoin
      <4> QED
        BY <3>4, <4>1
    <3> HIDE DEF s
    <3>6. /\ u \in Socket /\ u.stream = s /\ u.at = tls.at /\ u.want = tls.want /\ u.part = tls.part
          /\ u.shaken = tls.shaken /\ u.rawHold = tls.rawHold
      BY <1>1, <3>2, <3>3 DEF Socket
    <3>7. Base(u) = Base(tls) /\ p = Base(tls) + Len(tls.part)
      BY <3>6 DEF Base, p
    <3>8. p <= d
      BY <1>3, <3>4
    <3>9. Shaking(u, d, got)
      BY <3>1, <3>5, <3>6, <3>7, <3>8 DEF Shaking
    <3> QED
      BY <2>2, <3>6, <3>9
  <2> QED
    BY <2>1, <2>2
<1> HIDE DEF chunk
<1> DEFINE v == [u EXCEPT !.ready = TRUE]
<1>6. /\ v \in Socket /\ v.at = u.at /\ v.want = u.want /\ v.ready = TRUE /\ v.stream = u.stream
      /\ v.part = u.part /\ v.shaken = u.shaken /\ v.rawHold = u.rawHold
  BY <1>5 DEF Socket
<1>7. tls' = v
  BY <1>2
<1> HIDE DEF v
<1>8. v.at \in {"header", "body"} => Shaking(v, d, got)
  <2>1. Base(v) = Base(u)
    BY <1>6 DEF Base
  <2> QED
    BY <1>5, <1>6, <2>1 DEF Shaking
<1>9. v.at = "app" => Reading(v, d, got)
  BY <1>5, <1>6 DEF Reading, CutAt
<1>10. SocketHolds(v, d, got) /\ Attentive(v) /\ v.at # "off"
  BY <1>1, <1>3, <1>5, <1>6, <1>8, <1>9 DEF SocketHolds, Attentive
<1>11. SocketHolds(tls, came, got)'
  BY <1>2, <1>7, <1>10, WireStays
<1>12. tls' = v /\ Framed(wire)'
  BY <1>0, <1>2, <1>7 DEF Framed
<1>13. Attentive(tls)' /\ tls'.at # "off"
  BY <1>10, <1>12 DEF Attentive
<1> QED
  BY <1>11, <1>12, <1>13 DEF TlsInv

LEMMA TlsReads == TlsInv /\ Read => TlsInv'
<1> SUFFICES ASSUME TlsInv, Read PROVE TlsInv'
  OBVIOUS
<1> DEFINE n == Least(tls.want, Len(tls.stream))
           u == Taken(tls, n)
           g == IF AppMode(tls) THEN got \o SubSeq(tls.stream, 1, n) ELSE got
<1>0. Framed(wire)
  BY DEF TlsInv
<1>1. /\ tls.at # "off" /\ tls \in Socket /\ came \in 0..Len(wire) /\ got \in Seq(Byte)
      /\ tls.at \in {"header", "body"} => Shaking(tls, came, got)
      /\ tls.at = "app" => Reading(tls, came, got)
  BY DEF Read, TlsInv, SocketHolds
<1>2. tls' = Go(u) /\ got' = g /\ wire' = wire /\ came' = came
  BY DEF Read
<1>3. tls.want \in Nat /\ Len(tls.stream) \in Nat
  BY <1>1, LenProperties DEF Socket
<1>4. n \in Nat /\ n <= tls.want /\ n <= Len(tls.stream)
  BY <1>3, TakesSome
<1> HIDE DEF n
<1>5. /\ u \in Socket /\ u.at = tls.at /\ (u.ready <=> n < Len(tls.stream))
      /\ u.stream = SubSeq(tls.stream, n + 1, Len(tls.stream))
  BY <1>1, <1>4, TakenSet
<1>6. g \in Seq(Byte) /\ (u.at \in {"header", "body"} => Shaking(u, came, g))
      /\ (u.at = "app" => Reading(u, came, g))
  <2>1. CASE tls.at = "app"
    <3>1. g = got \o SubSeq(tls.stream, 1, n)
      BY <2>1 DEF AppMode
    <3>2. /\ got \o SubSeq(tls.stream, 1, n) \in Seq(Byte)
          /\ Reading(u, came, got \o SubSeq(tls.stream, 1, n))
      BY <1>1, <1>4, <2>1, TakenReads
    <3> QED
      BY <1>5, <2>1, <3>1, <3>2
  <2>2. CASE tls.at # "app"
    <3>1. g = got
      BY <2>2 DEF AppMode
    <3>2. tls.at \in {"header", "body"} /\ Shaking(tls, came, got)
      BY <1>1, <2>2 DEF Socket
    <3>3. Shaking(u, came, got)
      BY <1>0, <1>1, <1>4, <3>2, TakenShakes
    <3> QED
      BY <1>1, <1>5, <2>2, <3>1, <3>3
  <2> QED
    BY <2>1, <2>2
<1>7. ASSUME ~u.ready PROVE u.stream = NoBytes
  <2>1. n = Len(tls.stream)
    BY <1>3, <1>4, <1>5, <1>7
  <2>2. SubSeq(tls.stream, n + 1, n) = << >>
    BY <1>4, SubSeqEmpty
  <2> QED
    BY <1>5, <2>1, <2>2 DEF NoBytes
<1> HIDE DEF u, g
<1>8. SocketHolds(Go(u), came, g) /\ Go(u).at # "off" /\ Attentive(Go(u))
  BY <1>0, <1>1, <1>5, <1>6, <1>7, GoesOn
<1>9. SocketHolds(tls, came, got)'
  BY <1>2, <1>8, WireStays
<1>10. Attentive(tls)' /\ tls'.at # "off"
  BY <1>2, <1>8 DEF Attentive
<1>11. Framed(wire)'
  BY <1>0, <1>2 DEF Framed
<1> QED
  BY <1>9, <1>10, <1>11 DEF TlsInv

LEMMA TlsCloses == TlsInv /\ Closes => TlsInv'
<1> SUFFICES ASSUME TlsInv, Closes PROVE TlsInv'
  OBVIOUS
<1>0. Framed(wire) /\ SocketHolds(tls, came, got) /\ Attentive(tls) /\ tls.at # "off"
  BY DEF TlsInv, Closes
<1>1. tls' = [tls EXCEPT !.closed = TRUE, !.ready = TRUE] /\ wire' = wire /\ came' = came /\ got' = got
  BY DEF Closes
<1> DEFINE v == [tls EXCEPT !.closed = TRUE, !.ready = TRUE]
<1>2. tls \in Socket
  BY <1>0 DEF SocketHolds
<1>3. /\ v \in Socket /\ v.at = tls.at /\ v.want = tls.want /\ v.ready = TRUE /\ v.stream = tls.stream
      /\ v.part = tls.part /\ v.shaken = tls.shaken /\ v.rawHold = tls.rawHold
  BY <1>2 DEF Socket
<1>4. tls' = v
  BY <1>1
<1> HIDE DEF v
<1>5. Shaking(tls, came, got) => Shaking(v, came, got)
  <2>1. Base(v) = Base(tls)
    BY <1>3 DEF Base
  <2> QED
    BY <1>3, <2>1 DEF Shaking
<1>6. Reading(tls, came, got) => Reading(v, came, got)
  BY <1>3 DEF Reading, CutAt
<1>7. SocketHolds(v, came, got) /\ Attentive(v)
  BY <1>0, <1>3, <1>5, <1>6 DEF SocketHolds, Attentive
<1>8. SocketHolds(tls, came, got)'
  BY <1>1, <1>4, <1>7, WireStays
<1>9. Attentive(tls)' /\ tls'.at # "off"
  BY <1>0, <1>3, <1>4, <1>7 DEF Attentive
<1>10. Framed(wire)'
  BY <1>0, <1>1 DEF Framed
<1> QED
  BY <1>8, <1>9, <1>10 DEF TlsInv

LEMMA TlsInvHolds == TlsSpec => []TlsInv
<1>1. TlsInit => TlsInv
  BY TlsStarts
<1>2. TlsInv /\ [TlsNext]_zvars => TlsInv'
  <2> SUFFICES ASSUME TlsInv, [TlsNext]_zvars PROVE TlsInv'
    OBVIOUS
  <2>1. CASE Connect
    BY <2>1, TlsConnects
  <2>2. CASE Arriving
    BY <2>2, TlsArrives DEF Arriving
  <2>3. CASE Read
    BY <2>3, TlsReads
  <2>4. CASE Closes
    BY <2>4, TlsCloses
  <2>5. CASE UNCHANGED zvars
    <3>1. tls' = tls /\ wire' = wire /\ came' = came /\ got' = got
      BY <2>5 DEF zvars
    <3>2. SocketHolds(tls, came, got) /\ Framed(wire)
      BY DEF TlsInv
    <3>3. SocketHolds(tls, came, got)'
      BY <3>1, <3>2, WireStays
    <3> QED
      BY <3>1, <3>2, <3>3 DEF TlsInv, Attentive, Framed
  <2> QED
    BY <2>1, <2>2, <2>3, <2>4, <2>5 DEF TlsNext
<1> QED
  BY <1>1, <1>2, PTL DEF TlsSpec

\* What the reader took is the beginning of the payload: nothing lost, doubled or
\* out of its place, and nothing of a handshake.
ComesInOrder == \E rest \in Seq(Byte) : Sent = got \o rest
\* When the wire is all here and no continuation can run, the payload was read.
WireAtRest ==
    tls.at # "off" /\ ~tls.closed /\ ~tls.ready /\ came = Len(wire) => got = Sent

LEMMA ReadsAllOfIt == TlsInv => ComesInOrder /\ WireAtRest
<1> SUFFICES ASSUME TlsInv PROVE ComesInOrder /\ WireAtRest
  OBVIOUS
<1>0. /\ Framed(wire) /\ wire \in Seq(Byte) /\ Len(wire) \in Nat /\ Len(wire) >= AllShaken
      /\ wire[Len(wire)].at = Header + wire[Len(wire)].len
      /\ AllShaken \in Nat /\ Size \in Nat /\ Header \in Nat /\ Size = Header + 1
      /\ AllShaken = Size + Size + Size
  BY Sizes, LenProperties DEF TlsInv, Framed
<1>1. Sent = Payload(Piece(wire, AllShaken, Len(wire)))
  BY WiresFramed DEF Sent, Piece
<1>2. tls \in Socket /\ got \in Seq(Byte) /\ came \in 0..Len(wire)
  BY DEF TlsInv, SocketHolds
<1>3. Sent \in Seq(Byte)
  <2>1. Piece(wire, AllShaken, Len(wire)) \in Seq(Byte)
    BY <1>0, PieceIs
  <2> QED
    BY <1>1, <2>1, PayloadSeq
<1>4. CASE tls.at = "app"
  <2>1. PICK b \in 0..came : CutAt(b, tls, came, got) /\ NoEnd(b, came)
    BY <1>4 DEF TlsInv, SocketHolds, Reading
  <2>2. b \in Nat /\ came \in Nat /\ b <= came /\ came <= Len(wire) /\ b <= Len(wire) /\ AllShaken <= b
    BY <1>0, <1>2, <2>1 DEF CutAt
  <2>3. got \o tls.stream = Payload(Piece(wire, AllShaken, b))
    BY <2>1 DEF CutAt
  <2> DEFINE first == Piece(wire, AllShaken, b)
             more == Piece(wire, b, Len(wire))
  <2>4. first \in Seq(Byte) /\ more \in Seq(Byte) /\ first \o more = Piece(wire, AllShaken, Len(wire))
    <3>1. first \in Seq(Byte)
      BY <1>0, <2>2, PieceIs
    <3>2. more \in Seq(Byte)
      BY <1>0, <2>2, PieceIs
    <3>3. first \o more = Piece(wire, AllShaken, Len(wire))
      <4> DEFINE l == Len(wire)
      <4>1. /\ l \in Nat /\ l <= Len(wire) /\ b <= l /\ b \in Nat /\ AllShaken <= b
            /\ wire \in Seq(Byte) /\ AllShaken \in Nat
        BY <1>0, <2>2
      <4> HIDE DEF l
      <4>2. Piece(wire, AllShaken, b) \o Piece(wire, b, l) = Piece(wire, AllShaken, l)
        BY <4>1, PieceJoin
      <4> QED
        BY <4>2 DEF l
    <3> QED
      BY <3>1, <3>2, <3>3
  <2>5. Sent = Payload(first) \o Payload(more)
    <3> HIDE DEF first, more
    <3>1. Payload(first \o more) = Payload(first) \o Payload(more)
      BY <2>4, PayloadConcat
    <3> QED
      BY <1>1, <2>4, <3>1
  <2>6. ComesInOrder
    <3> DEFINE x == tls.stream
               y == Payload(more)
    <3>1. x \in Seq(Byte) /\ y \in Seq(Byte)
      BY <1>2, <2>4, PayloadSeq DEF Socket
    <3>2. Sent = (got \o x) \o y
      BY <2>3, <2>5
    <3> HIDE DEF x, y
    <3>3. (got \o x) \o y = got \o (x \o y)
      <4>1. got \in Seq(Byte)
        BY <1>2
      <4> QED
        BY <3>1, <4>1, BytesAssociate
    <3>4. x \o y \in Seq(Byte)
      BY <3>1, ConcatProperties
    <3> QED
      BY <3>2, <3>3, <3>4 DEF ComesInOrder
  <2>7. ASSUME ~tls.ready, came = Len(wire) PROVE got = Sent
    <3>1. tls.stream = NoBytes
      BY <1>4, <2>7 DEF TlsInv, Attentive
    <3>2. b = Len(wire)
      <4> SUFFICES ASSUME b # Len(wire) PROVE FALSE
        OBVIOUS
      <4> DEFINE l == Len(wire)
                 k == l - b
      <4>0. l \in Nat /\ wire[l].at = Header + wire[l].len /\ l <= Len(wire) /\ came = l /\ b <= l /\ b # l
        BY <1>0, <2>2, <2>7
      <4> HIDE DEF l
      <4>1. k \in 1..(l - b) /\ b + k = l
        BY <2>2, <4>0
      <4>2. \A q \in 1..(l - b) : Piece(wire, b, l)[q] = wire[b + q]
        BY <1>0, <2>2, <4>0, PieceIs
      <4>3. \A q \in 1..(l - b) : Piece(wire, b, l)[q].at # Header + Piece(wire, b, l)[q].len
        BY <2>1, <4>0 DEF NoEnd
      <4> HIDE DEF k
      <4>4. Piece(wire, b, l)[k] = wire[l]
        BY <4>1, <4>2
      <4> QED
        BY <4>0, <4>1, <4>3, <4>4
    <3>3. got \o NoBytes = got
      BY <1>2, ConcatEmptySeq DEF NoBytes
    <3>4. got = Payload(Piece(wire, AllShaken, Len(wire)))
      BY <2>3, <3>1, <3>2, <3>3
    <3> QED
      BY <1>1, <3>4
  <2> QED
    BY <2>6, <2>7 DEF WireAtRest
<1>5. CASE tls.at = "off"
  <2>1. got = NoBytes
    BY <1>5 DEF TlsInv, SocketHolds
  <2>2. Sent = got \o Sent
    BY <1>3, <2>1, ConcatEmptySeq DEF NoBytes
  <2> QED
    BY <1>3, <1>5, <2>2 DEF ComesInOrder, WireAtRest
<1>6. CASE tls.at \in {"header", "body"}
  <2>1. Shaking(tls, came, got) /\ Attentive(tls)
    BY <1>6 DEF TlsInv, SocketHolds
  <2>2. Sent = got \o Sent
    BY <1>3, <2>1, ConcatEmptySeq DEF NoBytes, Shaking
  <2>3. ASSUME ~tls.ready, came = Len(wire) PROVE FALSE
    <3> DEFINE l == Len(tls.part)
               base == Base(tls)
               p == base + l
    <3>1. l \in Nat /\ tls.want \in Nat /\ base \in Nat
      BY <1>0, <1>2, LenProperties DEF Socket, Base
    <3>2. /\ p <= came /\ tls.stream = Piece(wire, p, came) /\ tls.stream = NoBytes /\ tls.want >= 1
          /\ tls.want + l = IF tls.at = "header" THEN Header ELSE 1
      BY <2>1, <2>3 DEF Shaking, Attentive
    <3>3. base + (IF tls.at = "header" THEN Header ELSE 1) <= AllShaken
      <4>1. tls.shaken \in 0..2
        BY <2>1 DEF Shaking
      <4>2. CASE tls.at = "header"
        BY <1>0, <4>1, <4>2 DEF Base
      <4>3. CASE tls.at = "body"
        BY <1>0, <4>1, <4>3 DEF Base
      <4> QED
        BY <1>6, <4>2, <4>3
    <3> HIDE DEF l, base
    <3>4. p \in Nat /\ p < AllShaken
      <4>1. CASE tls.at = "header"
        BY <1>0, <3>1, <3>2, <3>3, <4>1
      <4>2. CASE tls.at # "header"
        BY <1>0, <3>1, <3>2, <3>3, <4>2
      <4> QED
        BY <4>1, <4>2
    <3> HIDE DEF p
    <3>5. p <= Len(wire) /\ came = Len(wire)
      BY <2>3, <3>2
    <3>6. Len(Piece(wire, p, Len(wire))) = Len(wire) - p
      BY <1>0, <3>4, <3>5, PieceIs
    <3>7. Piece(wire, p, Len(wire)) = NoBytes /\ Len(NoBytes) = 0
      BY <3>2, <3>5 DEF NoBytes
    <3>8. Len(wire) - p = 0
      BY <3>6, <3>7
    <3> QED
      BY <1>0, <3>4, <3>8
  <2> QED
    BY <1>3, <2>2, <2>3 DEF ComesInOrder, WireAtRest
<1>7. tls.at \in {"off", "header", "body", "app"}
  BY <1>2 DEF Socket
<1> QED
  BY <1>4, <1>5, <1>6, <1>7

\* However the network cuts the bytes of the proxy, the reader has the beginning of
\* the payload, and all of it when neither a chunk nor a turn of the reader is left.
THEOREM WireComesWhole == TlsSpec => [](ComesInOrder /\ WireAtRest)
BY TlsInvHolds, ReadsAllOfIt, PTL
=============================================================================
