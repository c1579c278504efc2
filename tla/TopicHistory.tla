---------------------------- MODULE TopicHistory ----------------------------
(***************************************************************************)
(* Reading back what staff wrote in a topic before the bot was there: the  *)
(* topic is fetched page by page, newest first, until enough texts are     *)
(* found; staff go on writing meanwhile, and in other topics too.          *)
(***************************************************************************)
EXTENDS Naturals, Sequences, FiniteSetsExt

CONSTANTS
    RoomMax,            \* bound: messages of the room
    WrittenBefore,      \* those written before the fetch begins
    HistoryLimit,       \* TG_STAFF_HISTORY_LIMIT (300)
    PageLimit,          \* messages Telegram gives at a time (100)
    FetchTroubles       \* bound: requests that fail

ASSUME HistoryAssumption ==
    /\ WrittenBefore \in 0..RoomMax /\ RoomMax \in Nat
    /\ HistoryLimit \in Nat \ {0} /\ PageLimit \in Nat \ {0} /\ FetchTroubles \in Nat

VARIABLES
    room,               \* the room's messages, oldest first; an id is a position
    ranBefore,          \* the flag file of an earlier ingest is there
    fetch,              \* where the fetch is: at, offsetId, out
    floor,              \* every message from here on has been given
    fetchTroubles

hvars == <<room, ranBefore, fetch, floor, fetchTroubles>>

\* text: of this topic; other: text of another topic; photo: of this topic, with
\* no text; service: a topic's pin or title, no Api.Message.
Sorts == {"text", "other", "photo", "service"}
FromNewest == 0

HistoryInit ==
    /\ room \in [1..WrittenBefore -> Sorts]
    /\ ranBefore \in BOOLEAN
    /\ fetch = [at |-> "idle", offsetId |-> FromNewest, out |-> <<>>]
    /\ floor = RoomMax + 1
    /\ fetchTroubles = 0

BeginFetch == fetch' = [fetch EXCEPT !.at = "page"] /\ UNCHANGED <<room, ranBefore, floor, fetchTroubles>>

\* A start of the gateway reads the history once for good; /staff_sync always.
BootHistory == fetch.at = "idle" /\ ~ranBefore /\ BeginFetch
SyncHistory == fetch.at = "idle" /\ BeginFetch

\* The newest messages with an id below offsetId, at most n of them.
Older(those, n) ==
    LET all == {i \in DOMAIN room : room[i] \in those /\
                                    (fetch.offsetId = FromNewest \/ i < fetch.offsetId)}
    IN {i \in all : Cardinality({j \in all : j > i}) < n}

Batch == LET left == HistoryLimit - Len(fetch.out) IN IF left < PageLimit THEN left ELSE PageLimit

\* Mutant: the next page begins below the last message, whose id is passed over.
Onward_past(page) == LET ids == {i \in page : room[i] # "service"} IN
    IF ids = {} THEN FromNewest ELSE Min(ids) - 1

\* The next offsetId: service messages have no part in it.
Onward(page) == LET ids == {i \in page : room[i] # "service"} IN
    IF ids = {} THEN FromNewest ELSE Min(ids)

\* A page comes newest first.
NewestFirst(ids) ==
    CHOOSE s \in [1..Cardinality(ids) -> ids] : \A i, j \in DOMAIN s : i < j => s[i] > s[j]

\* What a page adds, and whether another follows: a short page is the last, and
\* so is a page of service messages alone.
AddPage(page) ==
    LET texts == {i \in page : room[i] \in {"text", "other"}}
        out == fetch.out \o NewestFirst(texts)
        more == Cardinality(page) = Batch /\ Onward(page) # FromNewest /\ Len(out) < HistoryLimit
    IN /\ fetch' = [at |-> IF more THEN "page" ELSE "sort",
                    offsetId |-> Onward(page), out |-> out]
       /\ floor' = IF page = {} THEN floor ELSE Min(page)

FetchPage ==
    /\ fetch.at = "page"
    /\ AddPage(Older({"text", "photo", "service"}, Batch))
    /\ UNCHANGED <<room, ranBefore, fetchTroubles>>

\* GetReplies failed: for the first page the whole chat is asked instead; if that
\* fails too, or a later page does, the topic's messages are given up.
FetchFails ==
    /\ fetch.at = "page"
    /\ LET first == fetch.out = <<>> /\ fetch.offsetId = FromNewest IN
       \/ /\ first /\ fetchTroubles < FetchTroubles
          /\ fetchTroubles' = fetchTroubles + 1
          /\ AddPage(Older(Sorts, Batch))
       \/ /\ fetchTroubles + (IF first THEN 2 ELSE 1) <= FetchTroubles
          /\ fetchTroubles' = fetchTroubles + IF first THEN 2 ELSE 1
          /\ fetch' = [fetch EXCEPT !.at = "lost", !.out = <<>>]
          /\ UNCHANGED floor
    /\ UNCHANGED <<room, ranBefore>>

\* out.sort by id.
Sorted(s) ==
    LET p == CHOOSE p \in Bijection(DOMAIN s, DOMAIN s) :
                 \A i, j \in DOMAIN s : i < j => s[p[i]] <= s[p[j]]
    IN  [i \in DOMAIN s |-> s[p[i]]]

\* Oldest first.
SortHistory ==
    /\ fetch.at = "sort"
    /\ fetch' = [fetch EXCEPT !.at = "fetched", !.out = Sorted(fetch.out)]
    /\ UNCHANGED <<room, ranBefore, floor, fetchTroubles>>

\* The flag is written whether or not the topic could be read.
MarkIngest ==
    /\ fetch.at \in {"fetched", "lost"} /\ ~ranBefore
    /\ ranBefore' = TRUE
    /\ UNCHANGED <<room, fetch, floor, fetchTroubles>>

SomebodyWrites ==
    /\ fetch.at \in {"page", "sort"} /\ Len(room) < RoomMax
    /\ \E s \in Sorts : room' = Append(room, s)
    /\ UNCHANGED <<ranBefore, fetch, floor, fetchTroubles>>

HistoryNext ==
    \/ BootHistory \/ SyncHistory \/ FetchPage \/ FetchFails \/ SortHistory \/ MarkIngest \/ SomebodyWrites
HistorySpec == HistoryInit /\ [][HistoryNext]_hvars

-----------------------------------------------------------------------------
\* Every variable keeps its type.
HistoryTypeOK ==
    /\ room \in Seq(Sorts) /\ ranBefore \in BOOLEAN
    /\ fetch.at \in {"idle", "page", "sort", "fetched", "lost"}
    /\ fetch.offsetId \in 0..RoomMax /\ fetch.out \in Seq(1..RoomMax)
    /\ floor \in 1..(RoomMax + 1) /\ fetchTroubles \in 0..FetchTroubles

\* What was fetched is at most the limit, in order, each message once, and has no
\* hole: of the topic's texts, all between the oldest message seen and the newest
\* one fetched are there, whatever was written or failed meanwhile.
HistoryHasNoHole ==
    fetch.at = "fetched" =>
        LET ids == {fetch.out[k] : k \in DOMAIN fetch.out} IN
        /\ Len(fetch.out) <= HistoryLimit
        /\ \A k \in 1..(Len(fetch.out) - 1) : fetch.out[k] < fetch.out[k + 1]
        /\ ids # {} => \A i \in floor..Max(ids) : room[i] = "text" => i \in ids
=============================================================================
