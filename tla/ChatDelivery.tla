---------------------------- MODULE ChatDelivery ----------------------------
(***************************************************************************)
(* One client's direct messages on their way through tg-gateway: the event *)
(* handler, the BullMQ queue `orchestrate`, POST /process on the           *)
(* orchestrator, the BullMQ queue `outbound` and back to Telegram; with    *)
(* the catch-up that every start of the gateway runs.  The deal is neither *)
(* paused nor taken over (see ClientTurn for what a turn does to it), and  *)
(* Redis, which holds the queues, does not fail.                           *)
(***************************************************************************)
EXTENDS Naturals, FiniteSets

CONSTANTS
    MaxMsg,         \* bound: messages the client sends
    MaxHour,        \* bound: hours the run spans (resume keys name the hour)
    MaxRestarts,    \* bound: crashes of the gateway
    MaxFaults,      \* bound: other faults
    Faults,         \* which other faults may happen
    Attempts,       \* `attempts` of the orchestrate and outbound jobs
    MaxStalls       \* BullMQ's maxStalledCount, left at its default

\* refuse: the API cannot be reached; lose: the response is lost; giveup: the
\* API's proxy stops waiting and answers 502; die: the run raises; drop: the
\* rate limit is still hit after 5 s; send: Telegram refuses a message; deny:
\* the API answers 429, 401 or 500 by itself; mute: the concierge leaves nothing
\* to say (no message, or only such as name a price).
AllFaults == {"refuse", "lose", "giveup", "die", "drop", "send", "deny", "mute"}

ASSUME ChatAssumption ==
    /\ MaxMsg \in Nat \ {0}
    /\ MaxHour \in Nat \ {0}
    /\ MaxRestarts \in Nat
    /\ MaxFaults \in Nat
    /\ Faults \subseteq AllFaults
    /\ Attempts \in Nat \ {0}
    /\ MaxStalls \in Nat

VARIABLES
    sent,       \* messages the client has sent
    read,       \* up to which message Telegram counts them as read
    boot,       \* the gateway: down, in its startup catch-up, or up
    handler,    \* handleInboundMessage, per message
    jobs,       \* the `orchestrate` queue, per job id
    runs,       \* runs of /process in the orchestrator, per key and attempt
    cached,     \* idempotency_keys
    recorded,   \* client messages in the table `messages`
    last,       \* the newest row of `messages`
    answers,    \* runs that wrote their replies to `messages`
    out,        \* the `outbound` queue: replies, per job id
    hour,       \* the clock, as resume keys see it
    restarts, faults

vars == <<sent, read, boot, handler, jobs, runs, cached, recorded, last,
          answers, out, hour, restarts, faults>>

gateway == <<read, boot, handler>>
records == <<cached, recorded, last, answers>>

Messages == 1..MaxMsg
Keys == [kind: {"in"}, msg: Messages, hour: {0}]
          \cup [kind: {"resume"}, msg: Messages, hour: 1..MaxHour]
InKey(m) == [kind |-> "in", msg |-> m, hour |-> 0]
ResumeKey(m) == [kind |-> "resume", msg |-> m, hour |-> hour]

Tries == 1..(Attempts + MaxStalls)
Try(k) == jobs[k].fails + jobs[k].stalls + 1

\* A reply is named by the key and the run that wrote it; the fallback text
\* is the same for every run of a key.
Posts == [key: Keys, run: Tries \cup {0}]

Boots == [pc: {"down", "connect", "unread", "mark", "deals", "since", "resume", "up"},
          msg: Messages \cup {0}, await: Messages \cup {0}]
Boot(pc, msg, await) == boot' = [pc |-> pc, msg |-> msg, await |-> await]
Up == boot.pc # "down"
Awaited == \A m \in Messages : boot.await = m => handler[m] = "none"

Fault(f) == f \in Faults /\ faults < MaxFaults /\ faults' = faults + 1

Init ==
    /\ sent = 0 /\ read = 0 /\ hour = 1 /\ restarts = 0 /\ faults = 0
    /\ boot = [pc |-> "connect", msg |-> 0, await |-> 0]
    /\ handler = [m \in Messages |-> "none"]
    /\ jobs = [k \in Keys |-> [state |-> "absent", fails |-> 0, stalls |-> 0]]
    /\ runs = [k \in Keys |-> [n \in Tries |-> "none"]]
    /\ cached = {} /\ recorded = {} /\ answers = {}
    /\ last = [dir |-> "none", msg |-> 0]
    /\ out = <<>>

(***************************************************************************)
(* The client, and the event handler.  Queue.add of a job id that exists,  *)
(* in whatever state, adds nothing.                                        *)
(***************************************************************************)
Notify(m) == [handler EXCEPT ![m] = IF @ = "none" THEN "event" ELSE @]
Add(k) == jobs' = [jobs EXCEPT ![k].state = IF @ = "absent" THEN "waiting" ELSE @]

Send ==
    /\ sent < MaxMsg
    /\ sent' = sent + 1
    /\ handler' = IF boot.pc \in {"down", "connect"} THEN handler ELSE Notify(sent + 1)
    /\ UNCHANGED <<read, boot, jobs, runs, records, out, hour, restarts, faults>>

\* The rate limit, then the look-up in `messages` (an error counts as "no").
HandlerCheck(m) ==
    /\ handler[m] = "event"
    /\ \/ /\ handler' = [handler EXCEPT ![m] = IF m \in recorded THEN "none" ELSE "checked"]
          /\ UNCHANGED faults
       \/ /\ Fault("drop")
          /\ handler' = [handler EXCEPT ![m] = "none"]
       \/ /\ Fault("refuse")
          /\ handler' = [handler EXCEPT ![m] = "checked"]
    /\ UNCHANGED <<sent, read, boot, jobs, runs, records, out, hour, restarts>>

HandlerEnqueue(m) ==
    /\ handler[m] = "checked"
    /\ handler' = [handler EXCEPT ![m] = "none"]
    /\ Add(InKey(m))
    /\ UNCHANGED <<sent, read, boot, runs, records, out, hour, restarts, faults>>

(***************************************************************************)
(* The start of the gateway: connect, the latest unread message, then the  *)
(* open deal, if the client spoke last in its records.                     *)
(***************************************************************************)
Connect ==
    /\ boot.pc = "connect"
    /\ Boot("unread", 0, 0)
    /\ UNCHANGED <<sent, read, handler, jobs, runs, records, out, hour, restarts, faults>>

\* Mutant: the chat is marked read before its message is handled.
CatchUpUnread_mark_first ==
    /\ boot.pc = "unread"
    /\ read' = sent
    /\ IF sent > read
       THEN handler' = Notify(sent) /\ Boot("mark", sent, sent)
       ELSE Boot("deals", 0, 0) /\ UNCHANGED handler
    /\ UNCHANGED <<sent, jobs, runs, records, out, hour, restarts, faults>>

CatchUpUnread ==
    /\ boot.pc = "unread"
    /\ IF sent > read
       THEN handler' = Notify(sent) /\ Boot("mark", sent, sent)
       ELSE Boot("deals", 0, 0) /\ UNCHANGED handler
    /\ UNCHANGED <<sent, read, jobs, runs, records, out, hour, restarts, faults>>

MarkRead ==
    /\ boot.pc = "mark"
    /\ Awaited
    /\ read' = boot.msg
    /\ Boot("deals", 0, 0)
    /\ UNCHANGED <<sent, handler, jobs, runs, records, out, hour, restarts, faults>>

FetchOpenDeals ==
    /\ boot.pc = "deals"
    /\ \/ /\ IF last.dir = "in" THEN Boot("since", last.msg, 0) ELSE Boot("up", 0, 0)
          /\ UNCHANGED faults
       \/ Fault("refuse") /\ Boot("up", 0, 0)
    /\ UNCHANGED <<sent, read, handler, jobs, runs, records, out, hour, restarts>>

CatchUpSince ==
    /\ boot.pc = "since"
    /\ IF sent > boot.msg
       THEN handler' = Notify(sent) /\ Boot("resume", boot.msg, sent)
       ELSE Boot("resume", boot.msg, 0) /\ UNCHANGED handler
    /\ UNCHANGED <<sent, read, jobs, runs, records, out, hour, restarts, faults>>

ResumeDeal ==
    /\ boot.pc = "resume"
    /\ Awaited
    /\ Add(ResumeKey(boot.msg))
    /\ Boot("up", 0, 0)
    /\ UNCHANGED <<sent, read, handler, runs, records, out, hour, restarts, faults>>

(***************************************************************************)
(* The orchestrate worker: processOrchestrateJob.                          *)
(***************************************************************************)
Set(k, state) == jobs' = [jobs EXCEPT ![k].state = state]

\* An attempt that throws is retried until `attempts` are used up.
FailAttempt(k) ==
    jobs' = [jobs EXCEPT ![k].fails = @ + 1,
                         ![k].state = IF jobs[k].fails + 1 < Attempts
                                      THEN "waiting" ELSE "failed"]

Enqueue(p) ==
    out' = IF p \in DOMAIN out THEN out
           ELSE [q \in DOMAIN out \cup {p} |->
                   IF q = p THEN [state |-> "queued", fails |-> 0] ELSE out[q]]

StartJob(k) ==
    /\ Up
    /\ jobs[k].state = "waiting"
    /\ Cardinality({j \in Keys : jobs[j].state \in {"active", "replied"}}) < 4
    /\ Set(k, "active")
    /\ runs' = [runs EXCEPT ![k][Try(k)] = "get"]
    /\ UNCHANGED <<sent, gateway, records, out, hour, restarts, faults>>

RefuseJob(k) ==
    /\ Up
    /\ jobs[k].state = "waiting"
    /\ Fault("refuse")
    /\ FailAttempt(k)
    /\ UNCHANGED <<sent, gateway, runs, records, out, hour, restarts>>

\* An error without fallback_replies, before the orchestrator is asked: it is
\* logged, and the job completes.
TurnAway(k) ==
    /\ Up
    /\ jobs[k].state = "waiting"
    /\ Fault("deny")
    /\ Set(k, "done")
    /\ runs' = [runs EXCEPT ![k][Try(k)] = "denied"]
    /\ UNCHANGED <<sent, gateway, records, out, hour, restarts>>

\* The run goes on; nobody will read its result.
LoseResponse(k) ==
    /\ Up
    /\ jobs[k].state = "active"
    /\ Fault("lose")
    /\ FailAttempt(k)
    /\ UNCHANGED <<sent, gateway, runs, records, out, hour, restarts>>

\* 502 with fallback_replies, while the run goes on.
GiveUp(k) ==
    /\ Up
    /\ jobs[k].state = "active"
    /\ Fault("giveup")
    /\ Enqueue([key |-> k, run |-> 0])
    /\ Set(k, "replied")
    /\ UNCHANGED <<sent, gateway, runs, records, hour, restarts>>

\* "orchestrator cached, skip outbound"
SkipCached(k) ==
    /\ Up
    /\ jobs[k].state = "active"
    /\ runs[k][Try(k)] = "cached"
    /\ Set(k, "done")
    /\ UNCHANGED <<sent, gateway, runs, records, out, hour, restarts, faults>>

\* Mutant: an error response ends the job without its fallback replies.
Reply_ok_only(k) ==
    /\ Up
    /\ jobs[k].state = "active"
    /\ runs[k][Try(k)] \in {"ok", "fallback", "empty"}
    /\ IF runs[k][Try(k)] = "ok" THEN Enqueue([key |-> k, run |-> Try(k)]) ELSE UNCHANGED out
    /\ Set(k, "replied")
    /\ UNCHANGED <<sent, gateway, runs, records, hour, restarts, faults>>

\* `replies` or `fallback_replies`; an empty list sends nothing.
Reply(k) ==
    /\ Up
    /\ jobs[k].state = "active"
    /\ runs[k][Try(k)] \in {"ok", "fallback", "empty"}
    /\ IF runs[k][Try(k)] = "empty" THEN UNCHANGED out
       ELSE Enqueue([key |-> k, run |-> IF runs[k][Try(k)] = "ok" THEN Try(k) ELSE 0])
    /\ Set(k, "replied")
    /\ UNCHANGED <<sent, gateway, runs, records, hour, restarts, faults>>

CompleteJob(k) ==
    /\ Up
    /\ jobs[k].state = "replied"
    /\ Set(k, "done")
    /\ UNCHANGED <<sent, gateway, runs, records, out, hour, restarts, faults>>

\* BullMQ: a job whose worker died is run again, at most MaxStalls times.
RequeueStalled(k) ==
    /\ Up
    /\ jobs[k].state = "stalled"
    /\ jobs' = IF jobs[k].stalls < MaxStalls
               THEN [jobs EXCEPT ![k].stalls = @ + 1, ![k].state = "waiting"]
               ELSE [jobs EXCEPT ![k].state = "failed"]
    /\ UNCHANGED <<sent, gateway, runs, records, out, hour, restarts, faults>>

(***************************************************************************)
(* The orchestrator: _process_inner for key k, attempt n.                  *)
(***************************************************************************)
RunAt(k, n, pc) == runs[k][n] = pc
RunTo(k, n, pc) == runs' = [runs EXCEPT ![k][n] = pc]

RunGet(k, n) ==
    /\ RunAt(k, n, "get")
    /\ RunTo(k, n, IF k \in cached THEN "cached" ELSE "record")
    /\ UNCHANGED <<sent, gateway, jobs, records, out, hour, restarts, faults>>

RunRecord(k, n) ==
    /\ RunAt(k, n, "record")
    /\ recorded' = recorded \cup {k.msg}
    /\ last' = [dir |-> "in", msg |-> k.msg]
    /\ RunTo(k, n, "reply")
    /\ UNCHANGED <<sent, gateway, jobs, cached, answers, out, hour, restarts, faults>>

\* Mutant: the replies are returned without being written to `messages`.
RunReply_unrecorded(k, n) ==
    /\ RunAt(k, n, "reply")
    /\ RunTo(k, n, "cache")
    /\ UNCHANGED <<sent, gateway, jobs, records, out, hour, restarts, faults>>

RunReply(k, n) ==
    /\ RunAt(k, n, "reply")
    /\ answers' = answers \cup {<<k, n>>}
    /\ last' = [dir |-> "out", msg |-> 0]
    /\ RunTo(k, n, "cache")
    /\ UNCHANGED <<sent, gateway, jobs, cached, recorded, out, hour, restarts, faults>>

\* There is nothing to write: the client stays the last who spoke.
RunMute(k, n) ==
    /\ RunAt(k, n, "reply")
    /\ Fault("mute")
    /\ RunTo(k, n, "silent")
    /\ UNCHANGED <<sent, gateway, jobs, records, out, hour, restarts>>

RunCache(k, n) ==
    /\ runs[k][n] \in {"cache", "silent"}
    /\ cached' = cached \cup {k}
    /\ RunTo(k, n, IF RunAt(k, n, "cache") THEN "ok" ELSE "empty")
    /\ UNCHANGED <<sent, gateway, jobs, recorded, last, answers, out, hour, restarts, faults>>

\* An exception anywhere: "process_failed" with fallback_replies, uncached.
RunDie(k, n) ==
    /\ runs[k][n] \in {"get", "record", "reply", "cache", "silent"}
    /\ Fault("die")
    /\ RunTo(k, n, "fallback")
    /\ UNCHANGED <<sent, gateway, jobs, records, out, hour, restarts>>

(***************************************************************************)
(* The outbound worker: it starts with the process, before the client is   *)
(* connected, and retries without a delay.                                 *)
(***************************************************************************)
FailPost(p) ==
    out' = [out EXCEPT ![p].fails = @ + 1,
                       ![p].state = IF out[p].fails + 1 < Attempts
                                    THEN "queued" ELSE "failed"]

Deliver(p) ==
    /\ Up
    /\ out[p].state = "queued"
    /\ IF boot.pc = "connect" THEN FailPost(p)
       ELSE out' = [out EXCEPT ![p].state = "sent"]
    /\ UNCHANGED <<sent, gateway, jobs, runs, records, hour, restarts, faults>>

RefusePost(p) ==
    /\ Up
    /\ out[p].state = "queued"
    /\ Fault("send")
    /\ FailPost(p)
    /\ UNCHANGED <<sent, gateway, jobs, runs, records, hour, restarts>>

(***************************************************************************)
(* Crash and restart of the gateway.  The orchestrator's runs go on.       *)
(***************************************************************************)
Crash ==
    /\ Up
    /\ restarts < MaxRestarts
    /\ restarts' = restarts + 1
    /\ Boot("down", 0, 0)
    /\ handler' = [m \in Messages |-> "none"]
    /\ jobs' = [k \in Keys |-> IF jobs[k].state \in {"active", "replied"}
                               THEN [jobs[k] EXCEPT !.state = "stalled"] ELSE jobs[k]]
    /\ UNCHANGED <<sent, read, runs, records, out, hour, faults>>

\* An idempotency key lives for an hour.
Restart ==
    /\ ~Up
    /\ Boot("connect", 0, 0)
    /\ \/ UNCHANGED <<hour, cached>>
       \/ hour < MaxHour /\ hour' = hour + 1 /\ cached' \in {cached, {}}
    /\ UNCHANGED <<sent, read, handler, jobs, runs, recorded, last, answers, out, restarts, faults>>

-----------------------------------------------------------------------------
Handle(m) == HandlerCheck(m) \/ HandlerEnqueue(m)
StartUp == \/ Connect \/ CatchUpUnread \/ MarkRead \/ FetchOpenDeals
           \/ CatchUpSince \/ ResumeDeal
Work(k) == \/ StartJob(k) \/ SkipCached(k) \/ Reply(k) \/ CompleteJob(k)
           \/ RequeueStalled(k)
Run(k, n) == RunGet(k, n) \/ RunRecord(k, n) \/ RunReply(k, n) \/ RunCache(k, n)

Next ==
    \/ Send \/ StartUp \/ Crash \/ Restart
    \/ \E m \in Messages : Handle(m)
    \/ \E k \in Keys : \/ Work(k) \/ RefuseJob(k) \/ LoseResponse(k) \/ GiveUp(k)
                       \/ TurnAway(k)
                       \/ \E n \in Tries : Run(k, n) \/ RunMute(k, n) \/ RunDie(k, n)
    \/ \E p \in DOMAIN out : Deliver(p) \/ RefusePost(p)

\* What keeps running while its process does: event handlers, the startup
\* sequence, both workers and the orchestrator, each on whatever it has to do.
\* Nothing makes the client write, a fault happen, or an operator restart the
\* gateway.
Fairness ==
    /\ WF_vars(StartUp)
    /\ WF_vars(\E m \in Messages : Handle(m))
    /\ WF_vars(\E k \in Keys : Work(k))
    /\ WF_vars(\E k \in Keys, n \in Tries : Run(k, n))
    /\ WF_vars(\E p \in DOMAIN out : Deliver(p))

Spec == Init /\ [][Next]_vars /\ Fairness

-----------------------------------------------------------------------------
\* Every variable keeps its type; a job uses no more attempts than it has.
TypeOK ==
    /\ sent \in 0..MaxMsg /\ read \in 0..sent /\ hour \in 1..MaxHour
    /\ restarts \in 0..MaxRestarts /\ faults \in 0..MaxFaults
    /\ boot \in Boots
    /\ handler \in [Messages -> {"none", "event", "checked"}]
    /\ jobs \in [Keys -> [state: {"absent", "waiting", "active", "replied",
                                  "stalled", "done", "failed"},
                          fails: 0..Attempts, stalls: 0..MaxStalls]]
    /\ runs \in [Keys -> [Tries -> {"none", "get", "cached", "record", "reply",
                                    "cache", "ok", "fallback", "silent", "empty", "denied"}]]
    /\ cached \subseteq Keys /\ recorded \subseteq Messages
    /\ last \in [dir: {"none", "in", "out"}, msg: Messages \cup {0}]
    /\ answers \subseteq Keys \X Tries
    /\ DOMAIN out \subseteq Posts
    /\ \A p \in DOMAIN out : out[p] \in [state: {"queued", "sent", "failed"},
                                         fails: 0..Attempts]

Answers(m) == {p \in DOMAIN out : p.key.msg = m}
Heard(m) == \E p \in Answers(m) : out[p].state = "sent"

\* Whatever crashes or overlaps, the client never reads an answer that the
\* table `messages` (what staff, the next turn and the catch-up see) lacks.
AnswerIsOnRecord ==
    \A p \in DOMAIN out : p.run # 0 =>
        p.key.msg \in recorded /\ <<p.key, p.run>> \in answers

\* While the gateway stays up, every message that passes the rate limit gets an
\* answer or the fallback, through refused connections, failing runs and a proxy
\* that gives up.  The ways to get none, all of them: its job or its reply uses
\* up the attempts; a response is lost; the API itself turns the job's request
\* away (then the job counts as done and nobody retries it); the run succeeds
\* with no reply left to send.
ResponseLost(k) == \E n \in 1..jobs[k].fails : runs[k][n] # "none"
TurnedAway(k) == \E n \in Tries : runs[k][n] = "denied"
EndsMute(k) == \E n \in Tries : runs[k][n] = "empty"
MessageAnswered ==
    \A m \in Messages :
        handler[m] = "checked"
            ~> \/ Heard(m) \/ jobs[InKey(m)].state = "failed" \/ ResponseLost(InKey(m))
               \/ TurnedAway(InKey(m)) \/ EndsMute(InKey(m))
               \/ \E p \in Answers(m) : out[p].state = "failed"

\* A start of the gateway that is not cut short takes up the latest message,
\* wherever earlier crashes left it and as long as nothing but crashes goes
\* wrong: it gets into the records, or the client gets an answer, or its job
\* ran out of attempts.
LatestTakenUp ==
    \A m \in Messages :
        (boot.pc = "connect" /\ sent = m)
            ~> \/ m \in recorded \/ Answers(m) # {} \/ jobs[InKey(m)].state = "failed"
               \/ sent > m \/ boot.pc = "down"

-----------------------------------------------------------------------------
\* What the project's own words claim and the code does not keep.

\* docs/ARCHITECTURE.md: "Idempotency on `/process`" - one key is answered by
\* one run.
ProcessIdempotent == \A a, b \in answers : a[1] = b[1] => a[2] = b[2]

\* resumeOpenDeals.ts: "After restart: pull missed TG messages + re-process
\* deals where client spoke last" - a client who spoke last hears something.
ClientSpokeLastResumed ==
    \A m \in Messages :
        (restarts > 0 /\ boot.pc = "connect" /\ sent = m)
            ~> Heard(m) \/ sent > m \/ boot.pc = "down"
==============================================================================
