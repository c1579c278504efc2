----------------------------- MODULE StaffTopics -----------------------------
(***************************************************************************)
(* The fixed topics of the staff room.  The bot at its start, the account  *)
(* when it connects and /staff_sync all ask for them; whoever asks first   *)
(* looks for them and makes what is missing, the others share its promise. *)
(* Topics stay in Telegram, what is known of them in memory.               *)
(***************************************************************************)
EXTENDS Naturals, FiniteSets

CONSTANTS
    TopicKinds,         \* general, escalations, rfq, coaching
    TopicStops,         \* bound: stops of the gateway
    TopicTroubles       \* bound: calls of Telegram that fail or lose their answer

ASSUME TopicAssumption ==
    /\ IsFiniteSet(TopicKinds) /\ TopicStops \in Nat /\ TopicTroubles \in Nat

VARIABLES
    forum,          \* per kind: the topics of that title in the room
    env,            \* kinds whose topic TG_STAFF_TOPIC_* names
    topicIds,       \* kinds whose topic is known
    promise,        \* ensurePromise: somebody asks, or has asked and found some
    asks,           \* per caller: where its run of ensureStaffTopics is
    blind,          \* per kind: topics made with no list, or whose answer was lost
    topicStops, topicTroubles

tvars == <<forum, env, topicIds, promise, asks, blind, topicStops, topicTroubles>>

\* The bot's start asks without the account; the others have both, or the
\* account alone.
Callers == {"bot", "account", "sync"}
Seer(c) == c # "bot"
NotAsking == [at |-> "no", listed |-> {}, todo |-> {}, making |-> {}]

TopicsInit ==
    /\ env \in SUBSET TopicKinds
    /\ \E there \in SUBSET TopicKinds :
         forum = [k \in TopicKinds |-> IF k \in env \cup there THEN 1 ELSE 0]
    /\ topicIds = {} /\ promise = FALSE
    /\ asks = [c \in Callers |-> NotAsking]
    /\ blind = [k \in TopicKinds |-> 0]
    /\ topicStops = 0 /\ topicTroubles = 0

Asking(c, a) == asks' = [asks EXCEPT ![c] = a]
TopicTrouble(n) == /\ topicTroubles + n <= TopicTroubles
                   /\ topicTroubles' = topicTroubles + n

-----------------------------------------------------------------------------
\* Mutant: every caller looks for itself.
AskTopics_each(c) ==
    /\ asks[c].at = "no"
    /\ Asking(c, [NotAsking EXCEPT !.at = "list"])
    /\ promise' = TRUE
    /\ topicIds' = topicIds \cup env
    /\ UNCHANGED <<forum, env, blind, topicStops, topicTroubles>>

\* ensureStaffTopics, up to its first await.
AskTopics(c) ==
    /\ asks[c].at = "no" /\ ~promise
    /\ Asking(c, [NotAsking EXCEPT !.at = "list"])
    /\ promise' = TRUE
    /\ topicIds' = topicIds \cup env
    /\ UNCHANGED <<forum, env, blind, topicStops, topicTroubles>>

\* The promise is kept once a topic is known; until then it may be made again.
Asked(c) ==
    /\ Asking(c, NotAsking)
    /\ promise' = (topicIds # {})

\* listForumTopics, with the account; it is tried twice.
ListTopics(c) ==
    /\ asks[c].at = "list"
    /\ \/ /\ Asking(c, [asks[c] EXCEPT !.at = "make", !.todo = TopicKinds,
                            !.listed = IF Seer(c) THEN {k \in TopicKinds : forum[k] > 0} ELSE {}])
          /\ UNCHANGED <<promise, topicTroubles>>
       \/ Seer(c) /\ TopicTrouble(1) /\ Asked(c)
    /\ UNCHANGED <<forum, env, topicIds, blind, topicStops>>

\* A kind that is known or listed needs no topic; the order is the code's own
\* and does not matter.
FindTopic(c, k) ==
    /\ asks[c].at = "make" /\ asks[c].making = {} /\ k \in asks[c].todo
    /\ LET a == asks[c]
           found == k \in topicIds \cup a.listed
       IN /\ Asking(c, [a EXCEPT !.todo = @ \ {k}, !.making = IF found THEN {} ELSE {k}])
          /\ topicIds' = IF found THEN topicIds \cup {k} ELSE topicIds
    /\ UNCHANGED <<forum, env, promise, blind, topicStops, topicTroubles>>

\* createTopicViaUser, and createTopicViaBot when that has no id to give: an
\* answer may be lost after the topic was made.
MakeTopic(c, k) ==
    /\ k \in asks[c].making
    /\ Asking(c, [asks[c] EXCEPT !.making = {}])
    /\ \E lost \in 0..2, made \in BOOLEAN :
         /\ TopicTrouble(IF made THEN lost ELSE lost + 1)
         /\ forum' = [forum EXCEPT ![k] = @ + lost + IF made THEN 1 ELSE 0]
         /\ blind' = [blind EXCEPT ![k] = @ + lost + IF made /\ ~Seer(c) THEN 1 ELSE 0]
         /\ topicIds' = IF made THEN topicIds \cup {k} ELSE topicIds
         /\ lost + (IF made THEN 1 ELSE 0) <= IF Seer(c) THEN 2 ELSE 1
    /\ UNCHANGED <<env, promise, topicStops>>

TopicsReady(c) ==
    /\ asks[c].at = "make" /\ asks[c].todo = {} /\ asks[c].making = {}
    /\ Asked(c)
    /\ UNCHANGED <<forum, env, topicIds, blind, topicStops, topicTroubles>>

\* The process stops; the bootstrap script may write the topics to .env.
TopicsForgotten ==
    /\ topicStops < TopicStops
    /\ topicStops' = topicStops + 1
    /\ topicIds' = {} /\ promise' = FALSE
    /\ asks' = [c \in Callers |-> NotAsking]
    /\ \E named \in SUBSET {k \in TopicKinds : forum[k] > 0} : env' = env \cup named
    /\ UNCHANGED <<forum, blind, topicTroubles>>

TopicsNext ==
    \/ TopicsForgotten
    \/ \E c \in Callers : \/ AskTopics(c) \/ ListTopics(c) \/ TopicsReady(c)
                          \/ \E k \in TopicKinds : FindTopic(c, k) \/ MakeTopic(c, k)
TopicsSpec == TopicsInit /\ [][TopicsNext]_tvars

-----------------------------------------------------------------------------
\* Every variable keeps its type.
TopicsTypeOK ==
    /\ forum \in [TopicKinds -> Nat] /\ blind \in [TopicKinds -> Nat]
    /\ env \subseteq TopicKinds /\ topicIds \subseteq TopicKinds /\ promise \in BOOLEAN
    /\ asks \in [Callers -> [at: {"no", "list", "make"}, listed: SUBSET TopicKinds,
                             todo: SUBSET TopicKinds, making: SUBSET TopicKinds]]
    /\ topicStops \in 0..TopicStops /\ topicTroubles \in 0..TopicTroubles

\* A topic has a twin only when Telegram lost an answer, or when the bot made it
\* without seeing what is in the room: callers that ask at the same time, and
\* starts of a gateway with an account, make none.
TwinsAreBlind == \A k \in TopicKinds : forum[k] <= 1 + blind[k]
=============================================================================
