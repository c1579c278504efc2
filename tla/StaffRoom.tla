------------------------------ MODULE StaffRoom ------------------------------
(***************************************************************************)
(* How the gateway hears the staff room.  Two ears listen to one chat: the *)
(* bot, whose updates Telegram keeps and repeats until the next poll, and  *)
(* the user account, which hears everything but only while it is connected.*)
(* A third reader goes through the history of the topics for the learning  *)
(* tables.  Claims in memory keep them from acting on a message twice.     *)
(***************************************************************************)
EXTENDS Naturals, FiniteSets

CONSTANTS
    Notes,          \* bound: messages of staff
    RoomTexts,      \* bound: what they say
    RobotLike,      \* texts that sound like the robot's own (SELF_REPLY_RE)
    RoomStops,      \* bound: stops of the gateway
    RoomSyncs       \* bound: calls of /staff_sync

NoText == "no text"
ASSUME RoomAssumption ==
    /\ RobotLike \subseteq RoomTexts /\ NoText \notin RoomTexts /\ IsFiniteSet(Notes)
    /\ RoomStops \in Nat /\ RoomSyncs \in Nat

VARIABLES
    gateway,        \* armed: the dispatcher is set; user: the account listens
    notes,          \* per message: said or not, its text, and whether by voice
    ears,           \* per ear and message: how far its handler is
    seen,           \* seenMsg and seenText: the claims
    lapsed,         \* messages whose claim lapsed before both ears were done with them
    history,        \* the run of the history ingest
    acts, told,     \* per message: times it was acted on; and the texts that were
    learnt,         \* messages that were taken for history
    roomStops, roomSyncs

rvars == <<gateway, notes, ears, seen, lapsed, history, acts, told, learnt, roomStops, roomSyncs>>
rbounds == <<roomStops, roomSyncs>>

Ears == {"bot", "user"}
Deaf == [at |-> "none", text |-> NoText]
EarIs(l, n, step) == ears[l][n].at = step
\* No ear is to hear the message yet.
BothDone(n) == \A l \in Ears : ears[l][n].at \in {"none", "heard"}
Turned(l, n, step) == ears' = [ears EXCEPT ![l][n].at = step]

RoomInit ==
    /\ gateway = [armed |-> FALSE, user |-> FALSE]
    /\ notes = [n \in Notes |-> [said |-> FALSE, text |-> NoText, voice |-> FALSE]]
    /\ ears = [l \in Ears |-> [n \in Notes |-> Deaf]]
    /\ seen = [ids |-> {}, texts |-> {}] /\ lapsed = {}
    /\ history = [at |-> "idle", marked |-> FALSE]
    /\ acts = [n \in Notes |-> 0] /\ told = {} /\ learnt = {}
    /\ roomStops = 0 /\ roomSyncs = 0

-----------------------------------------------------------------------------
\* main: the dispatcher first, then the account.
ArmBot ==
    /\ ~gateway.armed
    /\ gateway' = [gateway EXCEPT !.armed = TRUE]
    /\ UNCHANGED <<notes, ears, seen, lapsed, history, acts, told, learnt, rbounds>>

\* The boot's ingest starts with the account, unless its marker is on disk.
BootIngest == IF history.marked THEN history
              ELSE [history EXCEPT !.at = "scan"]

\* Mutant: the account is started without waiting for the bot.
UserConnects_at_once ==
    /\ ~gateway.user
    /\ gateway' = [gateway EXCEPT !.user = TRUE]
    /\ history' = BootIngest
    /\ UNCHANGED <<notes, ears, seen, lapsed, acts, told, learnt, rbounds>>

UserConnects ==
    /\ gateway.armed /\ ~gateway.user
    /\ gateway' = [gateway EXCEPT !.user = TRUE]
    /\ history' = BootIngest
    /\ UNCHANGED <<notes, ears, seen, lapsed, acts, told, learnt, rbounds>>

\* The privacy mode of a bot may keep a message from it.
Speak(n) ==
    /\ ~notes[n].said
    /\ \E text \in RoomTexts, voice \in BOOLEAN, toBot \in BOOLEAN :
         /\ notes' = [notes EXCEPT ![n] = [said |-> TRUE, text |-> text, voice |-> voice]]
         /\ ears' = [l \in Ears |->
              IF (l = "bot" /\ toBot) \/ (l = "user" /\ gateway.user)
              THEN [ears[l] EXCEPT ![n].at = "due"] ELSE ears[l]]
    /\ UNCHANGED <<gateway, seen, lapsed, history, acts, told, learnt, rbounds>>

\* Each ear has a voice message transcribed for itself, and what comes back may
\* differ.  The bot takes its updates one at a time, and has a text of its own for
\* a voice it could not download; the account gives such a one up, unless there is
\* a caption.
Hear(l, n) ==
    /\ EarIs(l, n, "due")
    /\ l = "bot" => gateway.armed /\ \A o \in Notes : ~EarIs("bot", o, "hearing")
    /\ \/ \E text \in IF notes[n].voice THEN RoomTexts ELSE {notes[n].text} :
            ears' = [ears EXCEPT ![l][n] = [at |-> "hearing", text |-> text]]
       \/ /\ l = "user" /\ notes[n].voice
          /\ Turned(l, n, "heard")
    /\ UNCHANGED <<gateway, notes, seen, lapsed, history, acts, told, learnt, rbounds>>

Ignored(l, n) == ~gateway.armed \/ ears[l][n].text \in RobotLike

\* Mutant: a message is known by its text only.
Dispatch_by_text(l, n) ==
    /\ EarIs(l, n, "hearing")
    /\ Turned(l, n, "heard")
    /\ LET text == ears[l][n].text
           fresh == ~Ignored(l, n) /\ text \notin seen.texts
       IN /\ seen' = IF fresh THEN [seen EXCEPT !.texts = @ \cup {text}] ELSE seen
          /\ acts' = [acts EXCEPT ![n] = @ + IF fresh THEN 1 ELSE 0]
          /\ told' = IF fresh THEN told \cup {text} ELSE told
    /\ UNCHANGED <<gateway, notes, lapsed, history, learnt, rbounds>>

\* dispatchStaffGroup: claimStaffMessage, claimStaffText, then the dispatcher.
Dispatch(l, n) ==
    /\ EarIs(l, n, "hearing")
    /\ Turned(l, n, "heard")
    /\ LET text == ears[l][n].text
           claims == ~Ignored(l, n) /\ n \notin seen.ids
           fresh == claims /\ text \notin seen.texts
       IN /\ seen' = [ids |-> IF claims THEN seen.ids \cup {n} ELSE seen.ids,
                      texts |-> IF fresh THEN seen.texts \cup {text} ELSE seen.texts]
          /\ acts' = [acts EXCEPT ![n] = @ + IF fresh THEN 1 ELSE 0]
          /\ told' = IF fresh THEN told \cup {text} ELSE told
    /\ UNCHANGED <<gateway, notes, lapsed, history, learnt, rbounds>>

\* A claim is forgotten by the clock alone: a text's after 45 s, a message's after
\* 180 s, though the bot's updates may be waiting behind a long one.
ForgetText ==
    /\ seen.texts # {}
    /\ seen' = [seen EXCEPT !.texts = {}]
    /\ UNCHANGED <<gateway, notes, ears, lapsed, history, acts, told, learnt, rbounds>>

ForgetMessage(n) ==
    /\ n \in seen.ids
    /\ seen' = [seen EXCEPT !.ids = @ \ {n}]
    /\ lapsed' = IF BothDone(n) THEN lapsed ELSE lapsed \cup {n}
    /\ UNCHANGED <<gateway, notes, ears, history, acts, told, learnt, rbounds>>

-----------------------------------------------------------------------------
\* /staff_sync: the topics again, marker or not.
Sync ==
    /\ gateway.user /\ history.at = "idle" /\ roomSyncs < RoomSyncs
    /\ roomSyncs' = roomSyncs + 1
    /\ history' = [history EXCEPT !.at = "scan"]
    /\ UNCHANGED <<gateway, notes, ears, seen, lapsed, acts, told, learnt, roomStops>>

\* runStaffHistoryIngest, message by message; whether the post succeeds is not
\* looked at.  A voice message has no text to be read.
IngestNote(n) ==
    /\ history.at = "scan" /\ notes[n].said /\ ~notes[n].voice
    /\ notes[n].text \notin RobotLike /\ n \notin seen.ids
    /\ seen' = [seen EXCEPT !.ids = @ \cup {n}]
    /\ learnt' = learnt \cup {n}
    /\ UNCHANGED <<gateway, notes, ears, lapsed, history, acts, told, rbounds>>

\* The marker is written, whether or not every topic could be read.
IngestEnds ==
    /\ history.at = "scan"
    /\ history' = [history EXCEPT !.at = "idle", !.marked = TRUE]
    /\ UNCHANGED <<gateway, notes, ears, seen, lapsed, acts, told, learnt, rbounds>>

\* The process stops, and with it the memory; the bot's updates since its last
\* poll come again.
GatewayStops ==
    /\ gateway.armed /\ roomStops < RoomStops
    /\ roomStops' = roomStops + 1
    /\ gateway' = [armed |-> FALSE, user |-> FALSE]
    /\ seen' = [ids |-> {}, texts |-> {}]
    /\ history' = [history EXCEPT !.at = "idle"]
    /\ \E again \in SUBSET {n \in Notes : EarIs("bot", n, "heard")} :
         ears' = [bot |-> [n \in Notes |->
                    IF n \in again \/ EarIs("bot", n, "hearing")
                    THEN [at |-> "due", text |-> NoText] ELSE ears["bot"][n]],
                  user |-> [n \in Notes |->
                    IF EarIs("user", n, "heard") THEN ears["user"][n] ELSE Deaf]]
    /\ UNCHANGED <<notes, lapsed, acts, told, learnt, roomSyncs>>

EarStep(l, n) == Hear(l, n) \/ Dispatch(l, n)
RoomNext ==
    \/ ArmBot \/ UserConnects \/ ForgetText \/ Sync \/ IngestEnds \/ GatewayStops
    \/ \E n \in Notes : Speak(n) \/ ForgetMessage(n) \/ IngestNote(n)
                        \/ \E l \in Ears : EarStep(l, n)
RoomSpec == RoomInit /\ [][RoomNext]_rvars

-----------------------------------------------------------------------------
\* Every variable keeps its type.
RoomTypeOK ==
    /\ gateway \in [armed: BOOLEAN, user: BOOLEAN]
    /\ notes \in [Notes -> [said: BOOLEAN, text: RoomTexts \cup {NoText}, voice: BOOLEAN]]
    /\ ears \in [Ears -> [Notes -> [at: {"none", "due", "hearing", "heard"},
                                    text: RoomTexts \cup {NoText}]]]
    /\ seen \in [ids: SUBSET Notes, texts: SUBSET RoomTexts] /\ lapsed \subseteq Notes
    /\ history \in [at: {"idle", "scan"}, marked: BOOLEAN]
    /\ acts \in [Notes -> Nat] /\ told \subseteq RoomTexts /\ learnt \subseteq Notes
    /\ roomStops \in 0..RoomStops /\ roomSyncs \in 0..RoomSyncs

\* However many ears hear a message, and whatever each makes of a voice, one
\* life of the gateway acts on it once: only a stop makes Telegram repeat it.
\* Excepted is a message whose claim was forgotten, for its age, while an ear was
\* still to hear it.
ActedOnce == \A n \in Notes \ lapsed : acts[n] <= 1 + roomStops

\* An ear is done with the message and had words of it.
Caught(l, n) == EarIs(l, n, "heard") /\ ears[l][n].text # NoText

\* What both ears have done with is acted on, when one of them had words of it.
\* The exceptions are the code's own: words that sound like the robot, a text
\* that was acted on before, and a message that the ingest of the history took
\* first.  A voice that only the account hears and cannot download is lost.
HeardIsActedOn ==
    \A n \in Notes :
        LET caught == {l \in Ears : Caught(l, n)}
        IN caught # {} /\ BothDone(n)
             => \/ acts[n] > 0 \/ n \in learnt
                \/ \E l \in caught : ears[l][n].text \in RobotLike \cup told

\* What is heard is acted on, and once, but for the exceptions just named.
RoomActsOnce == ActedOnce /\ HeardIsActedOn
=============================================================================
