---------------------------- MODULE CalendarSync ----------------------------
(***************************************************************************)
(* The SLA events of a deal and their copies in Google's calendar.  A quote *)
(* inserts an event; once a minute, and after every insertion, the worker   *)
(* lists what is not in the calendar yet and posts it, one row at a time.   *)
(***************************************************************************)
EXTENDS Naturals, FiniteSets, Sequences

CONSTANTS
    CalEvents,          \* bound: 1..CalEvents are the events, in the order of due_at
    CalBatch,           \* how many rows one sync lists (50)
    CalTroubles         \* bound: failures

ASSUME CalendarAssumption ==
    /\ CalEvents \in Nat /\ CalBatch \in Nat \ {0} /\ CalTroubles \in Nat

VARIABLES
    refused,            \* events Google never takes
    event,              \* per event: its row of calendar_events
    entries,            \* per event: its entry in Google's calendar, and those
                        \* whose id was not stored
    sync,               \* the running sync: where it stands, the rows it listed
    calTroubles

kvars == <<refused, event, entries, sync, calTroubles>>

Events == 1..CalEvents
NoEvent == [made |-> FALSE, done |-> FALSE, old |-> FALSE, gid |-> FALSE, cancelled |-> FALSE]
NoSync == [at |-> "idle", todo |-> <<>>]

CalendarInit ==
    /\ refused \in SUBSET Events
    /\ event = [e \in Events |-> NoEvent]
    /\ entries = [e \in Events |-> [known |-> FALSE, strays |-> 0]]
    /\ sync = NoSync /\ calTroubles = 0

CalTrouble == calTroubles < CalTroubles /\ calTroubles' = calTroubles + 1

-----------------------------------------------------------------------------
\* create_calendar_event: an event that is due in hours or days.
CreateEvent(e) ==
    /\ ~event[e].made /\ \A f \in e..CalEvents : ~event[f].old
    /\ event' = [event EXCEPT ![e].made = TRUE]
    /\ UNCHANGED <<refused, entries, sync, calTroubles>>

\* A week after it was due an event is out of the sync's sight.
EventAges(e) ==
    /\ event[e].made /\ \A f \in 1..(e - 1) : event[f].made => event[f].old
    /\ event' = [event EXCEPT ![e].old = TRUE]
    /\ UNCHANGED <<refused, entries, sync, calTroubles>>

\* The column `done`: three queries read it, people set it in the database.
EventIsDone(e) ==
    /\ event[e].made
    /\ event' = [event EXCEPT ![e].done = TRUE]
    /\ UNCHANGED <<refused, entries, sync, calTroubles>>

\* Mutant: rows are listed however old they are.
ToSync_any_age(r) == r.made /\ (~r.gid \/ (r.done /\ ~r.cancelled))

\* The rows a sync lists.
ToSync(r) == r.made /\ ~r.old /\ (~r.gid \/ (r.done /\ ~r.cancelled))

\* A row as the sync has read it, whatever is written to it meanwhile.
AsRead(e) == [ev |-> e, done |-> event[e].done, gid |-> event[e].gid]
Pages == UNION {[1..n -> Events] : n \in 0..CalEvents}
\* ORDER BY due_at LIMIT CalBatch.
Listed(page) ==
    /\ \A i, j \in DOMAIN page : i < j => page[i] < page[j]
    /\ \A i \in DOMAIN page : ToSync(event[page[i]])
    /\ Len(page) <= CalBatch
    /\ \A e \in Events : ToSync(event[e]) =>
           \/ \E i \in DOMAIN page : page[i] = e
           \/ Len(page) = CalBatch /\ \A i \in DOMAIN page : page[i] < e

\* The worker takes one job of the queue at a time.  Without a token (a
\* trouble, see SyncBreaks) there is no sync.
StartSync ==
    /\ sync.at = "idle"
    /\ \E page \in Pages :
        /\ Listed(page)
        /\ sync' = [at |-> "row", todo |-> [i \in DOMAIN page |-> AsRead(page[i])]]
    /\ UNCHANGED <<refused, event, entries, calTroubles>>

Row == Head(sync.todo)
AtRow == sync.at = "row" /\ sync.todo # <<>>
NextRow == sync' = [at |-> "row", todo |-> Tail(sync.todo)]

\* Done before it was ever posted.
SkipEvent ==
    /\ AtRow /\ Row.done /\ ~Row.gid
    /\ NextRow
    /\ UNCHANGED <<refused, event, entries, calTroubles>>

\* upsertGoogleEvent: the sync goes on past an event that is not taken.
PostEvent ==
    /\ AtRow /\ ~Row.done
    /\ \/ /\ Row.ev \notin refused
          /\ entries' = [entries EXCEPT ![Row.ev].strays = @ + 1]
          /\ sync' = [sync EXCEPT !.at = "store"]
          /\ UNCHANGED calTroubles
       \/ /\ Row.ev \in refused \/ CalTrouble
          /\ Row.ev \in refused => UNCHANGED calTroubles
          /\ NextRow /\ UNCHANGED entries
    /\ UNCHANGED <<refused, event>>

StoreId ==
    /\ sync.at = "store"
    /\ event' = [event EXCEPT ![Row.ev].gid = TRUE]
    /\ entries' = [entries EXCEPT ![Row.ev].known = TRUE, ![Row.ev].strays = @ - 1]
    /\ NextRow
    /\ UNCHANGED <<refused, calTroubles>>

\* deleteGoogleEvent: the answer is not looked at.
DeleteEntry ==
    /\ AtRow /\ Row.done /\ Row.gid
    /\ \/ entries' = [entries EXCEPT ![Row.ev].known = FALSE] /\ UNCHANGED calTroubles
       \/ CalTrouble /\ UNCHANGED entries
    /\ sync' = [sync EXCEPT !.at = "cancel"]
    /\ UNCHANGED <<refused, event>>

MarkCancelled ==
    /\ sync.at = "cancel"
    /\ event' = [event EXCEPT ![Row.ev].cancelled = TRUE]
    /\ NextRow
    /\ UNCHANGED <<refused, entries, calTroubles>>

EndSync ==
    /\ sync.at = "row" /\ sync.todo = <<>>
    /\ sync' = NoSync
    /\ UNCHANGED <<refused, event, entries, calTroubles>>

\* No token, a request that throws with or without effect, a worker that dies:
\* the rest of the list waits for the next minute.
SyncBreaks ==
    /\ sync.at # "idle" /\ CalTrouble
    /\ sync' = NoSync
    /\ \/ UNCHANGED entries
       \/ AtRow /\ ~Row.done /\ Row.ev \notin refused
          /\ entries' = [entries EXCEPT ![Row.ev].strays = @ + 1]
    /\ UNCHANGED <<refused, event>>

SyncCalendar ==
    \/ StartSync \/ SkipEvent \/ PostEvent \/ StoreId \/ DeleteEntry \/ MarkCancelled \/ EndSync
CalendarNext ==
    \/ SyncCalendar \/ SyncBreaks
    \/ \E e \in Events : CreateEvent(e) \/ EventAges(e) \/ EventIsDone(e)
CalendarSpec == CalendarInit /\ [][CalendarNext]_kvars /\ WF_kvars(SyncCalendar)

-----------------------------------------------------------------------------
\* Every variable keeps its type.
CalendarTypeOK ==
    /\ refused \subseteq Events /\ calTroubles \in 0..CalTroubles
    /\ event \in [Events -> [made: BOOLEAN, done: BOOLEAN, old: BOOLEAN,
                             gid: BOOLEAN, cancelled: BOOLEAN]]
    /\ entries \in [Events -> [known: BOOLEAN, strays: 0..(CalTroubles + 1)]]
    /\ sync.at \in {"idle", "row", "store", "cancel"}
    /\ sync.todo \in Seq([ev: Events, done: BOOLEAN, gid: BOOLEAN])

\* The rows ahead of an event that every sync lists again and leaves as they are.
Stuck(e) == {f \in 1..(e - 1) : event[f].made /\ ~event[f].old /\ ~event[f].gid
                                /\ (event[f].done \/ f \in refused)}
Crowded(e) == Cardinality(Stuck(e)) >= CalBatch

\* Whatever breaks on the way, an event that Google takes gets into the calendar
\* before it is a week past - unless somebody marks it done, or the rows ahead
\* that never get there fill the list.
EventGetsThere ==
    \A e \in Events :
        event[e].made /\ e \notin refused
            ~> event[e].gid \/ event[e].done \/ event[e].old \/ Crowded(e)
=============================================================================
