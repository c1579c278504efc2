----------------------------- MODULE ParserRuns -----------------------------
(***************************************************************************)
(* The carriers' catalogue update: the director starts it in the cabinet,  *)
(* the digest queue once a week, and a Python process does it.  Its row in *)
(* parser_runs is written by the API, the worker and the process in turn,  *)
(* and while one row is queued or running the cabinet starts no other.     *)
(***************************************************************************)
EXTENDS Naturals, Sequences

CONSTANTS
    ParserTabs,     \* the director's open pages
    ParserIds,      \* bound: runs 1..ParserIds
    Weeks,          \* bound: times the weekly job comes due
    Toggles,        \* bound: times the director switches the schedule
    ParserTroubles  \* bound: failures and kills

ASSUME ParserAssumption ==
    ParserIds \in Nat /\ Weeks \in Nat /\ Toggles \in Nat /\ ParserTroubles \in Nat

VARIABLES
    runRow,         \* parser_runs.status
    scheduled,      \* parser_settings.enabled
    clicks,         \* POST /parsers/run in each tab, and the run it made
    digest,         \* the waiting jobs of the digest queue
    hand,           \* the digest worker, one job at a time
    procs,          \* the Python processes and their runs
    due,            \* bound: what is left of Weeks
    switches,       \* bound: what is left of Toggles
    parserLuck,     \* bound: what is left of ParserTroubles
    stranded        \* history: runs that a trouble left as they were

qvars == <<runRow, scheduled, clicks, digest, hand, procs, due, switches, parserLuck, stranded>>

RunIds == 1..ParserIds
Active == {r \in RunIds : runRow[r] \in {"queued", "running"}}
Manual(r) == [run |-> r, stalled |-> FALSE]
Weekly == [run |-> 0, stalled |-> FALSE]
AtRest == [at |-> "idle", job |-> Weekly, run |-> 0]

ParserInit ==
    /\ runRow = [r \in RunIds |-> "none"] /\ scheduled = TRUE
    /\ clicks = [t \in ParserTabs |-> [at |-> "idle", run |-> 0]]
    /\ digest = <<>> /\ hand = AtRest /\ procs = {}
    /\ due = Weeks /\ switches = Toggles /\ parserLuck = ParserTroubles /\ stranded = {}

\* randomUUID.
NewRun(r) == runRow[r] = "none" /\ \A s \in RunIds : s < r => runRow[s] # "none"
ParserTrouble == parserLuck > 0 /\ parserLuck' = parserLuck - 1
Leaves(runs) == stranded' = stranded \cup runs

-----------------------------------------------------------------------------
\* POST /parsers/run: with an active row it answers already_running.
RunCheck(t) ==
    /\ clicks[t].at = "idle" /\ Active = {}
    /\ clicks' = [clicks EXCEPT ![t].at = "clear"]
    /\ UNCHANGED <<runRow, scheduled, digest, hand, procs, due, switches, parserLuck, stranded>>

RunInsert(t, r) ==
    /\ clicks[t].at = "clear" /\ NewRun(r)
    /\ runRow' = [runRow EXCEPT ![r] = "queued"]
    /\ clicks' = [clicks EXCEPT ![t] = [at |-> "queueing", run |-> r]]
    /\ UNCHANGED <<scheduled, digest, hand, procs, due, switches, parserLuck, stranded>>

RunEnqueue(t) ==
    /\ clicks[t].at = "queueing"
    /\ clicks' = [clicks EXCEPT ![t] = [at |-> "idle", run |-> 0]]
    /\ \/ digest' = Append(digest, Manual(clicks[t].run)) /\ UNCHANGED <<parserLuck, stranded>>
       \/ ParserTrouble /\ Leaves({clicks[t].run}) /\ UNCHANGED digest
    /\ UNCHANGED <<runRow, scheduled, hand, procs, due, switches>>

\* PUT /parsers/settings.
Switch ==
    /\ switches > 0 /\ switches' = switches - 1
    /\ scheduled' = ~scheduled
    /\ UNCHANGED <<runRow, clicks, digest, hand, procs, due, parserLuck, stranded>>

WeeklyDue ==
    /\ due > 0 /\ due' = due - 1
    /\ digest' = Append(digest, Weekly)
    /\ UNCHANGED <<runRow, scheduled, clicks, hand, procs, switches, parserLuck, stranded>>

-----------------------------------------------------------------------------
\* The worker's handler.  The weekly job asks whether it is switched on, and makes
\* its row without asking whether another is active.
TakeJob ==
    /\ hand.at = "idle" /\ digest # <<>>
    /\ LET job == Head(digest)
       IN  hand' = [at |-> IF job.run = 0 THEN "weekly" ELSE "spawn", job |-> job, run |-> job.run]
    /\ digest' = Tail(digest)
    /\ UNCHANGED <<runRow, scheduled, clicks, procs, due, switches, parserLuck, stranded>>

\* Mutant: the weekly job makes its row before it asks.
WeeklyAsks_row_first ==
    /\ hand.at = "weekly"
    /\ \E r \in RunIds :
        /\ NewRun(r) /\ runRow' = [runRow EXCEPT ![r] = "queued"]
        /\ hand' = IF scheduled THEN [hand EXCEPT !.at = "spawn", !.run = r] ELSE AtRest
    /\ UNCHANGED <<scheduled, clicks, digest, procs, due, switches, parserLuck, stranded>>
WeeklyAsks ==
    /\ hand.at = "weekly"
    /\ hand' = IF scheduled THEN [hand EXCEPT !.at = "insert"] ELSE AtRest
    /\ UNCHANGED <<runRow, scheduled, clicks, digest, procs, due, switches, parserLuck, stranded>>

WeeklyInsert(r) ==
    /\ hand.at = "insert" /\ NewRun(r)
    /\ runRow' = [runRow EXCEPT ![r] = "queued"]
    /\ hand' = [hand EXCEPT !.at = "spawn", !.run = r]
    /\ UNCHANGED <<scheduled, clicks, digest, procs, due, switches, parserLuck, stranded>>

\* runAssociationsUpdateJob; without the venv, or a process, it throws, and the job
\* has one attempt.
Spawn ==
    /\ hand.at = "spawn"
    /\ \/ /\ procs' = procs \cup {[run |-> hand.run, at |-> "start", own |-> TRUE]}
          /\ hand' = [hand EXCEPT !.at = "wait"] /\ UNCHANGED <<parserLuck, stranded>>
       \/ ParserTrouble /\ Leaves({hand.run}) /\ hand' = AtRest /\ UNCHANGED procs
    /\ UNCHANGED <<runRow, scheduled, clicks, digest, due, switches>>

Become(p, at) == procs' = (procs \ {p}) \cup {[p EXCEPT !.at = at]}

\* _mark_running; without the database it goes on and leaves the row alone.
MarkRunning(p) ==
    /\ p.at = "start"
    /\ \/ /\ runRow' = [runRow EXCEPT ![p.run] = "running"]
          /\ Become(p, "parse") /\ UNCHANGED <<parserLuck, stranded>>
       \/ ParserTrouble /\ Leaves({p.run}) /\ Become(p, "over") /\ UNCHANGED runRow
    /\ UNCHANGED <<scheduled, clicks, digest, hand, due, switches>>

\* _finish_run, with success or with what parsing or seeding threw; the connection
\* may be gone by then.
FinishRun(p, status) ==
    /\ p.at = "parse" /\ status \in {"success", "failed"}
    /\ \/ runRow' = [runRow EXCEPT ![p.run] = status] /\ UNCHANGED <<parserLuck, stranded>>
       \/ ParserTrouble /\ Leaves({p.run}) /\ UNCHANGED runRow
    /\ Become(p, "over")
    /\ UNCHANGED <<scheduled, clicks, digest, hand, due, switches>>

\* The process' close event; nobody waits for one whose worker is gone.
Close(p) ==
    /\ p.at = "over"
    /\ procs' = procs \ {p}
    /\ hand' = IF p.own THEN AtRest ELSE hand
    /\ UNCHANGED <<runRow, scheduled, clicks, digest, due, switches, parserLuck, stranded>>

\* The worker is killed and starts anew; its process runs on.  A job found stalled
\* comes back once, with the run it was given and not the one it made.
WorkerKilled ==
    /\ hand.at # "idle" /\ ParserTrouble
    /\ hand' = AtRest
    /\ procs' = {[p EXCEPT !.own = FALSE] : p \in procs}
    /\ IF hand.job.stalled
       THEN digest' = digest
       ELSE digest' = <<[hand.job EXCEPT !.stalled = TRUE]>> \o digest
    /\ Leaves(IF hand.at = "spawn" /\ (hand.job.run = 0 \/ hand.job.stalled) THEN {hand.run} ELSE {})
    /\ UNCHANGED <<runRow, scheduled, clicks, due, switches>>

\* The process itself is killed or cannot go on.
ProcessKilled(p) ==
    /\ p.at # "over" /\ ParserTrouble
    /\ Become(p, "over") /\ Leaves({p.run})
    /\ UNCHANGED <<runRow, scheduled, clicks, digest, hand, due, switches>>

ParserNext ==
    \/ \E t \in ParserTabs : RunCheck(t) \/ RunEnqueue(t) \/ \E r \in RunIds : RunInsert(t, r)
    \/ Switch \/ WeeklyDue \/ TakeJob \/ WeeklyAsks \/ Spawn \/ WorkerKilled
    \/ \E r \in RunIds : WeeklyInsert(r)
    \/ \E p \in procs : \/ MarkRunning(p) \/ Close(p) \/ ProcessKilled(p)
                        \/ \E status \in {"success", "failed"} : FinishRun(p, status)
ParserSpec == ParserInit /\ [][ParserNext]_qvars

-----------------------------------------------------------------------------
\* Every variable keeps its type.
ParserTypeOK ==
    /\ runRow \in [RunIds -> {"none", "queued", "running", "success", "failed"}]
    /\ scheduled \in BOOLEAN /\ stranded \subseteq RunIds
    /\ clicks \in [ParserTabs -> [at: {"idle", "clear", "queueing"}, run: 0..ParserIds]]
    /\ digest \in Seq([run: 0..ParserIds, stalled: BOOLEAN])
    /\ hand \in [at: {"idle", "weekly", "insert", "spawn", "wait"},
                 job: [run: 0..ParserIds, stalled: BOOLEAN], run: 0..ParserIds]
    /\ procs \subseteq [run: RunIds, at: {"start", "parse", "over"}, own: BOOLEAN]

Carried(r) ==
    \/ \E t \in ParserTabs : clicks[t].run = r
    \/ \E i \in 1..Len(digest) : digest[i].run = r
    \/ hand.run = r /\ hand.at = "spawn"
    \/ \E p \in procs : p.run = r /\ p.at # "over"
\* A row is left queued or running, so that the cabinet starts nothing more and
\* tells the director to wait, only by a trouble: else somebody still has the run
\* in hand - the request, the queue, the worker or a process - whichever way the
\* director, the schedule and a restarted worker come together.
ActiveIsCarried == \A r \in Active : Carried(r) \/ r \in stranded
=============================================================================
