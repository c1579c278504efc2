---------------------------- MODULE Queues_proofs ---------------------------
(***************************************************************************)
(* What holds of the work that goes through queues: of the catalogue       *)
(* update for every number of open pages, runs, weekly jobs, failures and  *)
(* kills; of the clients' messages for every number of messages and of     *)
(* attempts, of lost answers, stalls and crashes; and of a deal's files for*)
(* every number of files, of attempts to read one, and of troubles; of the *)
(* notices to staff for every number of quotes and alerts; and of the      *)
(* calendar for every number of events, of rows in a list and of troubles. *)
(***************************************************************************)
EXTENDS ParserRuns, ChatDelivery, DealFiles, StaffNotices, CalendarSync, SequenceTheorems,
        FiniteSetTheorems, TLAPS

-----------------------------------------------------------------------------
(* The catalogue update.                                                    *)

\* Who can have run r in hand: a request, the queue, the worker, a process.
Clicked(r) == \E t \in ParserTabs : clicks[t].run = r
Waits(r) == \E i \in 1..Len(digest) : digest[i].run = r
Handed(r) == hand.run = r /\ hand.at = "spawn"
InParsing(r) == \E p \in procs : p.run = r /\ p.at # "over"

Job == [run: 0..ParserIds, stalled: BOOLEAN]
Click == [at: {"idle", "clear", "queueing"}, run: 0..ParserIds]
Held == [at: {"idle", "weekly", "insert", "spawn", "wait"}, job: Job, run: 0..ParserIds]
Process == [run: RunIds, at: {"start", "parse", "over"}, own: BOOLEAN]
RowStates == {"none", "queued", "running", "success", "failed"}

\* A request holds a run only between its insert and its enqueue, the worker the
\* run of its job or the one it made, and at most one process is the worker's own,
\* which waits for it.
ParserInv ==
    /\ ParserTypeOK
    /\ \A t \in ParserTabs : clicks[t].run = 0 <=> clicks[t].at # "queueing"
    /\ hand.at \in {"weekly", "insert"} => hand.job.run = 0
    /\ hand.at = "spawn" => hand.run # 0 /\ (hand.job.run # 0 => hand.run = hand.job.run)
    /\ \A p \in procs : p.own => hand.at = "wait"
    /\ \A p, q \in procs : p.own /\ q.own => p = q
    /\ ActiveIsCarried

LEMMA ParserTypes ==
    ASSUME ParserTypeOK
    PROVE  /\ runRow \in [RunIds -> RowStates]
           /\ clicks \in [ParserTabs -> Click] /\ digest \in Seq(Job) /\ hand \in Held
           /\ procs \subseteq Process
           /\ ParserIds \in Nat /\ 0 \notin RunIds
           /\ \A n \in 0..ParserIds : n # 0 => n \in RunIds
           /\ Len(digest) \in Nat
           /\ \A i \in 1..Len(digest) : digest[i] \in Job
<1>1. /\ runRow \in [RunIds -> RowStates]
      /\ clicks \in [ParserTabs -> Click] /\ digest \in Seq(Job) /\ hand \in Held
      /\ procs \subseteq Process
  BY DEF ParserTypeOK, Click, Job, Held, Process, RowStates
<1>2. ParserIds \in Nat /\ 0 \notin RunIds /\ \A n \in 0..ParserIds : n # 0 => n \in RunIds
  BY ParserAssumption DEF RunIds
<1>3. Len(digest) \in Nat /\ \A i \in 1..Len(digest) : digest[i] \in Job
  BY <1>1, LenProperties, ElementOfSeq
<1> QED
  BY <1>1, <1>2, <1>3

LEMMA CarriedBy ==
    ASSUME NEW r
    PROVE  Carried(r) <=> Clicked(r) \/ Waits(r) \/ Handed(r) \/ InParsing(r)
BY DEF Carried, Clicked, Waits, Handed, InParsing

\* The forms of what the API and the worker hold.
LEMMA Forms ==
    /\ Weekly \in Job /\ Weekly.run = 0
    /\ \A r \in RunIds : Manual(r) \in Job /\ Manual(r).run = r
    /\ AtRest \in Held /\ AtRest.at = "idle" /\ AtRest.run = 0
    /\ [at |-> "idle", run |-> 0] \in Click
    /\ \A r \in RunIds : [at |-> "queueing", run |-> r] \in Click
<1>1. Weekly \in Job /\ Weekly.run = 0
  BY ParserAssumption DEF Weekly, Job
<1>2. AtRest \in Held /\ AtRest.at = "idle" /\ AtRest.run = 0
  BY <1>1, ParserAssumption DEF AtRest, Held
<1> QED
  BY <1>1, <1>2, ParserAssumption DEF Manual, Job, Click, RunIds

LEMMA ParserInitInv == ParserInit => ParserInv
<1> SUFFICES ASSUME ParserInit
             PROVE  ParserInv
  OBVIOUS
<1>1. /\ clicks \in [ParserTabs -> Click]
      /\ \A t \in ParserTabs : clicks[t].run = 0 /\ clicks[t].at = "idle"
  BY Forms DEF ParserInit
<1>2. digest \in Seq(Job)
  BY DEF ParserInit
<1>3. runRow \in [RunIds -> RowStates] /\ Active = {}
  BY DEF ParserInit, RowStates, Active
<1>4. ParserTypeOK
  BY <1>1, <1>2, <1>3, Forms DEF ParserInit, ParserTypeOK, Click, Job, Held, RowStates
<1> QED
  BY <1>1, <1>3, <1>4, Forms DEF ParserInit, ParserInv, ActiveIsCarried

-----------------------------------------------------------------------------
(* Who has a run in hand after a step.                                      *)

\* The queue loses a run only to the worker.
LEMMA QueueGrows ==
    ASSUME digest \in Seq(Job), NEW j \in Job,
           digest' = Append(digest, j) \/ digest' = <<j>> \o digest
    PROVE  /\ digest' \in Seq(Job) /\ Waits(j.run)'
           /\ \A r : Waits(r) => Waits(r)'
<1>l. Len(digest) \in Nat
  BY LenProperties
<1>1. CASE digest' = Append(digest, j)
  <2>1. /\ digest' \in Seq(Job) /\ Len(digest') = Len(digest) + 1
        /\ digest'[Len(digest) + 1] = j
        /\ \A i \in 1..Len(digest) : digest'[i] = digest[i]
    BY <1>1, <1>l, AppendProperties
  <2>2. /\ Len(digest) + 1 \in 1..Len(digest')
        /\ \A i \in 1..Len(digest) : i \in 1..Len(digest')
    BY <1>l, <2>1
  <2> QED
    BY <2>1, <2>2 DEF Waits
<1>2. CASE digest' = <<j>> \o digest
  <2>1. <<j>> \in Seq(Job) /\ Len(<<j>>) = 1 /\ <<j>>[1] = j
    OBVIOUS
  <2>2. /\ digest' \in Seq(Job) /\ Len(digest') = 1 + Len(digest)
        /\ \A i \in 1..(1 + Len(digest)) :
             digest'[i] = IF i <= 1 THEN <<j>>[i] ELSE digest[i - 1]
    BY <1>2, <2>1, ConcatProperties
  <2>3. digest'[1] = j /\ 1 \in 1..Len(digest')
    BY <1>l, <2>1, <2>2
  <2>4. \A i \in 1..Len(digest) : i + 1 \in 1..Len(digest') /\ digest'[i + 1] = digest[i]
    BY <1>l, <2>2
  <2> QED
    BY <2>2, <2>3, <2>4 DEF Waits
<1> QED
  BY <1>1, <1>2

LEMMA QueueTaken ==
    ASSUME digest \in Seq(Job), digest # <<>>, digest' = Tail(digest)
    PROVE  /\ digest' \in Seq(Job) /\ Head(digest) \in Job
           /\ \A r : Waits(r) => Waits(r)' \/ r = Head(digest).run
<1>1. /\ Head(digest) \in Job /\ digest' \in Seq(Job) /\ Len(digest') = Len(digest) - 1
      /\ \A i \in 1..Len(digest') : digest'[i] = digest[i + 1]
  BY HeadTailProperties
<1>2. Len(digest) \in Nat /\ Head(digest) = digest[1]
  BY LenProperties
<1>3. ASSUME NEW r, NEW i \in 1..Len(digest), digest[i].run = r, r # Head(digest).run
      PROVE  i - 1 \in 1..Len(digest') /\ digest'[i - 1].run = r
  <2>1. i # 1
    BY <1>2, <1>3
  <2>2. i - 1 \in 1..Len(digest') /\ (i - 1) + 1 = i
    BY <1>1, <1>2, <2>1
  <2> QED
    BY <1>1, <1>3, <2>2
<1> QED
  BY <1>1, <1>3 DEF Waits

\* What a step owes an active row: that it is carried on, or stranded.
LEMMA StaysCarried ==
    ASSUME ActiveIsCarried, stranded \subseteq stranded',
           \A r \in Active' : \/ r \in Active /\ (Carried(r) => Carried(r)' \/ r \in stranded')
                              \/ Carried(r)' \/ r \in stranded'
    PROVE  ActiveIsCarried'
BY DEF ActiveIsCarried

\* A process that goes on: the others stay as they are.
LEMMA OneGoesOn ==
    ASSUME procs \subseteq Process, NEW p \in procs, NEW at \in {"parse", "over"}, Become(p, at)
    PROVE  /\ procs' \subseteq Process
           /\ at = "parse" => InParsing(p.run)'
           /\ \A r : InParsing(r) => InParsing(r)' \/ r = p.run
           /\ \A x \in procs' : x \in procs \/ (x.run = p.run /\ x.own = p.own)
           /\ \A x \in procs' : x \in procs \ {p} \/ x = [p EXCEPT !.at = at]
<1>1. /\ [p EXCEPT !.at = at] \in Process /\ [p EXCEPT !.at = at].run = p.run
      /\ [p EXCEPT !.at = at].at = at /\ [p EXCEPT !.at = at].own = p.own
  BY DEF Process
<1>2. procs' = (procs \ {p}) \cup {[p EXCEPT !.at = at]}
  BY DEF Become
<1> QED
  BY <1>1, <1>2 DEF InParsing

-----------------------------------------------------------------------------
LEMMA ParserStepInv == ParserInv /\ [ParserNext]_qvars => ParserInv'
<1> SUFFICES ASSUME ParserInv, [ParserNext]_qvars
             PROVE  ParserInv'
  OBVIOUS
<1> USE DEF ParserInv
<1>t. /\ runRow \in [RunIds -> RowStates]
      /\ clicks \in [ParserTabs -> Click] /\ digest \in Seq(Job) /\ hand \in Held
      /\ procs \subseteq Process /\ 0 \notin RunIds
      /\ \A n \in 0..ParserIds : n # 0 => n \in RunIds
      /\ scheduled \in BOOLEAN /\ stranded \subseteq RunIds
  BY ParserTypes DEF ParserTypeOK
<1>c. /\ \A r : Carried(r) <=> Clicked(r) \/ Waits(r) \/ Handed(r) \/ InParsing(r)
      /\ \A r : Carried(r)' <=> Clicked(r)' \/ Waits(r)' \/ Handed(r)' \/ InParsing(r)'
  BY DEF Carried, Clicked, Waits, Handed, InParsing
<1>1. ASSUME NEW t \in ParserTabs, RunCheck(t)
      PROVE  ParserInv'
  <2>1. /\ clicks' \in [ParserTabs -> Click] /\ clicks[t].run = 0
        /\ \A u \in ParserTabs : clicks'[u].run = clicks[u].run
        /\ \A u \in ParserTabs : u # t => clicks'[u] = clicks[u]
        /\ clicks'[t].at = "clear"
    BY <1>1, <1>t DEF RunCheck, Click
  <2>2. ActiveIsCarried'
    BY <1>1, <1>c, <2>1, StaysCarried
       DEF RunCheck, Clicked, Waits, Handed, InParsing, Active
  <2> QED
    BY <1>1, <1>t, <2>1, <2>2 DEF RunCheck, ParserTypeOK, Click, Job, Held, Process, RowStates
<1>2. ASSUME NEW t \in ParserTabs, NEW r \in RunIds, RunInsert(t, r)
      PROVE  ParserInv'
  <2>1. /\ clicks' \in [ParserTabs -> Click] /\ clicks[t].run = 0
        /\ clicks'[t].run = r /\ clicks'[t].at = "queueing"
        /\ \A u \in ParserTabs : u # t => clicks'[u] = clicks[u]
    BY <1>2, <1>t, Forms DEF RunInsert
  <2>2. /\ runRow' \in [RunIds -> RowStates]
        /\ \A q \in RunIds : q # r => runRow'[q] = runRow[q]
    BY <1>2, <1>t DEF RunInsert, RowStates
  <2>3. \A q \in Active' : q = r \/ (q \in Active /\ (Carried(q) => Carried(q)'))
    BY <1>2, <1>t, <1>c, <2>1, <2>2 DEF RunInsert, Clicked, Waits, Handed, InParsing, Active
  <2>4. Carried(r)'
    BY <1>c, <2>1 DEF Clicked
  <2>5. ActiveIsCarried'
    BY <1>2, <2>3, <2>4, StaysCarried DEF RunInsert
  <2> QED
    BY <1>2, <1>t, <2>1, <2>2, <2>5
       DEF RunInsert, ParserTypeOK, Click, Job, Held, Process, RowStates
<1>3. ASSUME NEW t \in ParserTabs, RunEnqueue(t)
      PROVE  ParserInv'
  <2>1. PICK r \in RunIds : r = clicks[t].run
    BY <1>3, <1>t DEF RunEnqueue, Click
  <2>2. /\ clicks' \in [ParserTabs -> Click] /\ clicks'[t].run = 0 /\ clicks'[t].at = "idle"
        /\ \A u \in ParserTabs : u # t => clicks'[u] = clicks[u]
    BY <1>3, <1>t, Forms DEF RunEnqueue
  <2>3. /\ digest' \in Seq(Job) /\ stranded \subseteq stranded' /\ stranded' \subseteq RunIds
        /\ \A q : Waits(q) => Waits(q)'
        /\ Waits(r)' \/ r \in stranded'
    <3>1. CASE digest' = Append(digest, Manual(r)) /\ UNCHANGED <<parserLuck, stranded>>
      <4>1. PICK j \in Job : j = Manual(r) /\ j.run = r
        BY Forms
      <4>2. digest' \in Seq(Job) /\ Waits(j.run)' /\ \A q : Waits(q) => Waits(q)'
        BY <1>t, <3>1, <4>1, QueueGrows
      <4> QED
        BY <1>t, <3>1, <4>1, <4>2
    <3>2. CASE ParserTrouble /\ Leaves({r}) /\ UNCHANGED digest
      BY <1>t, <2>1, <3>2 DEF Leaves, Waits
    <3> QED
      BY <1>3, <2>1, <3>1, <3>2 DEF RunEnqueue
  <2>4. \A q \in Active' : /\ q \in Active
                           /\ Carried(q) => Carried(q)' \/ q \in stranded'
    BY <1>3, <1>c, <2>1, <2>2, <2>3 DEF RunEnqueue, Clicked, Handed, InParsing, Active
  <2>5. ActiveIsCarried'
    BY <2>3, <2>4, StaysCarried
  <2> QED
    BY <1>3, <1>t, <2>2, <2>3, <2>5
       DEF RunEnqueue, ParserTypeOK, Click, Job, Held, Process, RowStates
<1>4. CASE Switch
  <2>1. ActiveIsCarried'
    BY <1>4, <1>c, StaysCarried DEF Switch, Clicked, Waits, Handed, InParsing, Active
  <2> QED
    BY <1>4, <1>t, <2>1 DEF Switch, ParserTypeOK
<1>5. CASE WeeklyDue
  <2>1. digest' \in Seq(Job) /\ \A q : Waits(q) => Waits(q)'
    BY <1>5, <1>t, Forms, QueueGrows DEF WeeklyDue
  <2>2. ActiveIsCarried'
    BY <1>5, <1>c, <2>1, StaysCarried DEF WeeklyDue, Clicked, Handed, InParsing, Active
  <2> QED
    BY <1>5, <2>1, <2>2 DEF WeeklyDue, ParserTypeOK, Job
<1>6. CASE TakeJob
  <2> DEFINE j == Head(digest)
  <2>1. /\ digest' \in Seq(Job) /\ j \in Job
        /\ \A r : Waits(r) => Waits(r)' \/ r = j.run
    BY <1>6, <1>t, QueueTaken DEF TakeJob
  <2>2. /\ hand.at = "idle"
        /\ hand' = [at |-> IF j.run = 0 THEN "weekly" ELSE "spawn", job |-> j, run |-> j.run]
    BY <1>6 DEF TakeJob
  <2> HIDE DEF j
  <2>3. /\ hand' \in Held /\ hand'.job = j /\ hand'.run = j.run
        /\ hand'.at = IF j.run = 0 THEN "weekly" ELSE "spawn"
    BY <2>1, <2>2 DEF Held, Job
  <2>4. \A p \in procs : ~p.own
    BY <2>2, <1>t DEF Process
  <2>5. \A q \in Active' : q \in Active /\ (Carried(q) => Carried(q)')
    BY <1>6, <1>t, <1>c, <2>1, <2>2, <2>3 DEF TakeJob, Clicked, Handed, InParsing, Active
  <2>6. ActiveIsCarried'
    BY <1>6, <2>5, StaysCarried DEF TakeJob
  <2> QED
    BY <1>6, <1>t, <2>1, <2>3, <2>4, <2>6
       DEF TakeJob, ParserTypeOK, Click, Job, Held, Process, RowStates
<1>7. CASE WeeklyAsks
  <2>1. /\ hand.at = "weekly" /\ hand' \in Held /\ hand'.at \in {"insert", "idle"}
        /\ hand'.at = "insert" => hand'.job = hand.job
    BY <1>7, <1>t, Forms DEF WeeklyAsks, Held
  <2>2. \A p \in procs : ~p.own
    BY <2>1, <1>t DEF Process
  <2>3. ActiveIsCarried'
    BY <1>7, <1>c, <2>1, StaysCarried DEF WeeklyAsks, Clicked, Waits, Handed, InParsing, Active
  <2> QED
    BY <1>7, <2>1, <2>2, <2>3 DEF WeeklyAsks, ParserTypeOK, Job, Held
<1>8. ASSUME NEW r \in RunIds, WeeklyInsert(r)
      PROVE  ParserInv'
  <2>0. r \in 0..ParserIds /\ r # 0
    BY <1>t, ParserAssumption DEF RunIds
  <2>1. /\ hand.at = "insert" /\ hand' \in Held /\ hand'.at = "spawn" /\ hand'.run = r
        /\ hand'.job = hand.job
    BY <1>8, <1>t, <2>0 DEF WeeklyInsert, Held
  <2>2. /\ runRow' \in [RunIds -> RowStates]
        /\ \A q \in RunIds : q # r => runRow'[q] = runRow[q]
    BY <1>8, <1>t DEF WeeklyInsert, RowStates
  <2>3. \A q \in Active' : q = r \/ (q \in Active /\ (Carried(q) => Carried(q)'))
    BY <1>8, <1>c, <2>1, <2>2 DEF WeeklyInsert, Clicked, Waits, Handed, InParsing, Active
  <2>4. Carried(r)'
    BY <1>c, <2>1 DEF Handed
  <2>5. ActiveIsCarried'
    BY <1>8, <2>3, <2>4, StaysCarried DEF WeeklyInsert
  <2>6. \A p \in procs : ~p.own
    BY <2>1, <1>t DEF Process
  <2>7. hand.job.run # 0 => r = hand.job.run
    BY <2>1
  <2> QED
    BY <1>8, <1>t, <2>1, <2>2, <2>5, <2>6, <2>7
       DEF WeeklyInsert, ParserTypeOK, Job, Held, RowStates
<1>9. CASE Spawn
  <2> DEFINE x == [run |-> hand.run, at |-> "start", own |-> TRUE]
  <2>1. hand.at = "spawn" /\ hand.run \in RunIds
    BY <1>9, <1>t DEF Spawn, Held
  <2>2. \A p \in procs : ~p.own
    BY <2>1, <1>t DEF Process
  <2>3. CASE /\ procs' = procs \cup {x}
             /\ hand' = [hand EXCEPT !.at = "wait"] /\ UNCHANGED <<parserLuck, stranded>>
    <3>1. x \in Process /\ x.run = hand.run /\ x.at = "start" /\ x.own
      BY <2>1 DEF Process
    <3>2. hand' \in Held /\ hand'.at = "wait"
      BY <1>t, <2>3 DEF Held
    <3> HIDE DEF x
    <3>3. \A q \in Active' : q \in Active /\ (Carried(q) => Carried(q)')
      BY <1>9, <1>c, <2>3, <3>1 DEF Spawn, Clicked, Waits, Handed, InParsing, Active
    <3>4. ActiveIsCarried'
      BY <2>3, <3>3, StaysCarried
    <3> QED
      BY <1>9, <1>t, <2>2, <2>3, <3>1, <3>2, <3>4
         DEF Spawn, ParserTypeOK, Job, Held, Process
  <2>4. CASE ParserTrouble /\ Leaves({hand.run}) /\ hand' = AtRest /\ UNCHANGED procs
    <3>1. \A q \in Active' : q \in Active /\ (Carried(q) => Carried(q)' \/ q \in stranded')
      BY <1>9, <1>c, <2>4 DEF Spawn, Clicked, Waits, Handed, InParsing, Active, Leaves
    <3>2. ActiveIsCarried'
      BY <2>4, <3>1, StaysCarried DEF Leaves
    <3> QED
      BY <1>9, <1>t, <2>1, <2>2, <2>4, <3>2, Forms
         DEF Spawn, ParserTypeOK, Job, Held, Leaves
  <2> QED
    BY <1>9, <2>3, <2>4 DEF Spawn
<1>10. ASSUME NEW p \in procs, NEW at \in {"parse", "over"}, Become(p, at),
              UNCHANGED <<scheduled, clicks, digest, hand>>,
              runRow' \in [RunIds -> RowStates],
              \A q \in RunIds : q # p.run => runRow'[q] = runRow[q],
              stranded \subseteq stranded', stranded' \subseteq RunIds,
              p.run \in Active' => at = "parse" \/ p.run \in stranded'
       PROVE  ParserInv'
  <2>1. /\ procs' \subseteq Process
        /\ at = "parse" => InParsing(p.run)'
        /\ \A r : InParsing(r) => InParsing(r)' \/ r = p.run
    BY <1>t, <1>10, OneGoesOn
  <2>2. \A q \in Active' : \/ q \in Active /\ (Carried(q) => Carried(q)')
                           \/ Carried(q)' \/ q \in stranded'
    BY <1>10, <1>c, <2>1 DEF Clicked, Waits, Handed, Active
  <2>3. ActiveIsCarried'
    BY <1>10, <2>2, StaysCarried
  <2>4. /\ \A x \in procs' : x \in procs \/ (x.run = p.run /\ x.own = p.own)
        /\ \A x \in procs' : x \in procs \ {p} \/ x = [p EXCEPT !.at = at]
        /\ [p EXCEPT !.at = at].own = p.own
    BY <1>t, <1>10, OneGoesOn DEF Process
  <2>5. \A x \in procs' : x.own => hand'.at = "wait"
    BY <1>10, <2>4
  <2>6. \A x, y \in procs' : x.own /\ y.own => x = y
    BY <2>4
  <2> QED
    BY <1>10, <2>1, <2>3, <2>5, <2>6 DEF ParserTypeOK, Process, RowStates
<1>11. ASSUME NEW p \in procs, MarkRunning(p)
       PROVE  ParserInv'
  <2>1. p.run \in RunIds
    BY <1>t DEF Process
  <2>2. CASE runRow' = [runRow EXCEPT ![p.run] = "running"] /\ Become(p, "parse")
             /\ UNCHANGED <<parserLuck, stranded>>
    BY <1>10, <1>11, <1>t, <2>1, <2>2 DEF MarkRunning, RowStates
  <2>3. CASE ParserTrouble /\ Leaves({p.run}) /\ Become(p, "over") /\ UNCHANGED runRow
    BY <1>10, <1>11, <1>t, <2>1, <2>3 DEF MarkRunning, Leaves
  <2> QED
    BY <1>11, <2>2, <2>3 DEF MarkRunning
<1>12. ASSUME NEW p \in procs, NEW status \in {"success", "failed"}, FinishRun(p, status)
       PROVE  ParserInv'
  <2>1. p.run \in RunIds /\ Become(p, "over") /\ UNCHANGED <<scheduled, clicks, digest, hand>>
    BY <1>12, <1>t DEF FinishRun, Process
  <2>2. CASE runRow' = [runRow EXCEPT ![p.run] = status] /\ UNCHANGED <<parserLuck, stranded>>
    <3>1. p.run \notin Active' /\ runRow' \in [RunIds -> RowStates]
      BY <1>t, <2>1, <2>2 DEF Active, RowStates
    <3> QED
      BY <1>10, <1>t, <2>1, <2>2, <3>1
  <2>3. CASE ParserTrouble /\ Leaves({p.run}) /\ UNCHANGED runRow
    BY <1>10, <1>t, <2>1, <2>3 DEF Leaves
  <2> QED
    BY <1>12, <2>2, <2>3 DEF FinishRun
<1>13. ASSUME NEW p \in procs, ProcessKilled(p)
       PROVE  ParserInv'
  <2>1. p.run \in RunIds
    BY <1>t DEF Process
  <2> QED
    BY <1>10, <1>13, <1>t, <2>1 DEF ProcessKilled, Leaves
<1>14. ASSUME NEW p \in procs, Close(p)
       PROVE  ParserInv'
  <2>1. hand' \in Held /\ (hand'.at = "idle" \/ hand' = hand) /\ (~p.own => hand' = hand)
    BY <1>14, <1>t, Forms DEF Close
  <2>2. p.own => hand.at = "wait"
    OBVIOUS
  <2>3. \A r : (InParsing(r) => InParsing(r)') /\ (Handed(r) => Handed(r)')
    BY <1>14, <2>1, <2>2 DEF Close, InParsing, Handed
  <2>4. \A q \in Active' : q \in Active /\ (Carried(q) => Carried(q)')
    BY <1>14, <1>c, <2>3 DEF Close, Clicked, Waits, Active
  <2>5. ActiveIsCarried'
    BY <1>14, <2>4, StaysCarried DEF Close
  <2>6. \A x \in procs' : x.own => hand'.at = "wait"
    BY <1>14, <2>1 DEF Close
  <2> QED
    BY <1>14, <1>t, <2>1, <2>5, <2>6 DEF Close, ParserTypeOK, Job, Held, Process
<1>15. CASE WorkerKilled
  <2> DEFINE lost == IF hand.at = "spawn" /\ (hand.job.run = 0 \/ hand.job.stalled)
                     THEN {hand.run} ELSE {}
  <2>1. /\ hand.job \in Job /\ hand.run \in 0..ParserIds
        /\ (hand.at = "spawn" => hand.run \in RunIds)
    BY <1>t DEF Held
  <2>2. PICK back \in Job : back = [hand.job EXCEPT !.stalled = TRUE] /\ back.run = hand.job.run
    <3>1. \A j \in Job : [j EXCEPT !.stalled = TRUE] \in Job
      BY DEF Job
    <3>2. \A j \in Job : [j EXCEPT !.stalled = TRUE].run = j.run
      BY DEF Job
    <3> QED
      BY <2>1, <3>1, <3>2
  <2>3. /\ digest' \in Seq(Job) /\ \A r : Waits(r) => Waits(r)'
        /\ ~hand.job.stalled => Waits(back.run)'
    <3>1. CASE hand.job.stalled /\ digest' = digest
      BY <1>t, <3>1 DEF Waits
    <3>2. CASE ~hand.job.stalled /\ digest' = <<back>> \o digest
      <4>1. digest' \in Seq(Job) /\ Waits(back.run)' /\ \A r : Waits(r) => Waits(r)'
        BY <1>t, <2>2, <3>2, QueueGrows
      <4> QED
        BY <4>1
    <3> QED
      BY <1>15, <2>2, <3>1, <3>2 DEF WorkerKilled
  <2>4. stranded' = stranded \cup lost /\ lost \subseteq RunIds
    BY <1>15, <2>1 DEF WorkerKilled, Leaves
  <2>5. \A r : Handed(r) => Waits(r)' \/ r \in stranded'
    <3> SUFFICES ASSUME NEW r, Handed(r), r \notin lost
                 PROVE  Waits(r)'
      BY <2>4
    <3>1. r = back.run /\ ~hand.job.stalled
      BY <2>1, <2>2 DEF Handed
    <3> QED
      BY <2>3, <3>1
  <2>6. procs' = {[p EXCEPT !.own = FALSE] : p \in procs}
    BY <1>15 DEF WorkerKilled
  <2>7. \A p \in procs : /\ [p EXCEPT !.own = FALSE] \in Process
                         /\ [p EXCEPT !.own = FALSE].run = p.run
                         /\ [p EXCEPT !.own = FALSE].at = p.at
                         /\ ~[p EXCEPT !.own = FALSE].own
    BY <1>t DEF Process
  <2>8. procs' \subseteq Process /\ \A x \in procs' : ~x.own
    BY <2>6, <2>7
  <2>9. \A r : InParsing(r) => InParsing(r)'
    <3> SUFFICES ASSUME NEW r, NEW p \in procs, p.run = r, p.at # "over"
                 PROVE  InParsing(r)'
      BY DEF InParsing
    <3>1. [p EXCEPT !.own = FALSE] \in procs'
      BY <2>6
    <3> DEFINE x == [p EXCEPT !.own = FALSE]
    <3>2. x \in procs' /\ x.run = r /\ x.at # "over"
      BY <2>7, <3>1
    <3> HIDE DEF x
    <3> QED
      BY <3>2 DEF InParsing
  <2>10. \A q \in Active' : q \in Active /\ (Carried(q) => Carried(q)' \/ q \in stranded')
    BY <1>15, <1>c, <2>3, <2>5, <2>9 DEF WorkerKilled, Clicked, Active
  <2>11. ActiveIsCarried'
    BY <2>4, <2>10, StaysCarried
  <2>12. hand' = AtRest /\ UNCHANGED <<runRow, scheduled, clicks>>
    BY <1>15 DEF WorkerKilled
  <2>13. ParserTypeOK'
    BY <1>t, <2>3, <2>4, <2>8, <2>12, Forms
       DEF ParserTypeOK, Click, Job, Held, Process, RowStates
  <2> QED
    BY <2>8, <2>11, <2>12, <2>13, Forms
<1>16. CASE UNCHANGED qvars
  <2>1. ActiveIsCarried'
    BY <1>16, <1>c, StaysCarried DEF qvars, Clicked, Waits, Handed, InParsing, Active
  <2> QED
    BY <1>16, <2>1 DEF qvars, ParserTypeOK
<1> QED
  BY <1>1, <1>2, <1>3, <1>4, <1>5, <1>6, <1>7, <1>8, <1>9, <1>11, <1>12, <1>13, <1>14,
     <1>15, <1>16 DEF ParserNext

\* However the director, the schedule, the worker and its process interleave, a
\* row that blocks the cabinet is carried on by somebody or was left by a failure.
THEOREM ActiveRunsAreCarried == ParserSpec => []ActiveIsCarried
<1>1. ParserInv => ActiveIsCarried
  BY DEF ParserInv
<1> QED
  BY ParserInitInv, ParserStepInv, <1>1, PTL DEF ParserSpec

-----------------------------------------------------------------------------
(* The clients' messages.                                                   *)

\* Forms of what the queue and the runs of /process hold.
ChatJob == [state: {"absent", "waiting", "active", "replied", "stalled", "done", "failed"},
            fails: 0..Attempts, stalls: 0..MaxStalls]
RunPcs == {"none", "get", "cached", "record", "reply", "cache", "ok", "fallback",
           "silent", "empty", "denied"}
Unfinished == {"waiting", "active", "replied", "stalled"}

\* A run past a step has done it: past "record" its message is on record, past
\* "reply" its replies are.
RunOK(k, n) ==
    /\ runs[k][n] \in {"reply", "cache", "ok", "silent", "empty"} => k.msg \in recorded
    /\ runs[k][n] \in {"cache", "ok"} => <<k, n>> \in answers

\* A job that is not done with has attempts left, so that its try has a number.
ChatInv ==
    /\ jobs \in [Keys -> ChatJob]
    /\ runs \in [Keys -> [Tries -> RunPcs]]
    /\ \A k \in Keys : jobs[k].state \in Unfinished \cup {"absent"} => jobs[k].fails < Attempts
    /\ \A k \in Keys, n \in Tries : RunOK(k, n)
    /\ AnswerIsOnRecord

LEMMA TryIsTry ==
    ASSUME ChatInv, NEW k \in Keys, jobs[k].state \in Unfinished
    PROVE  Try(k) \in Tries
<1>1. jobs[k] \in ChatJob /\ jobs[k].fails < Attempts
  BY DEF ChatInv
<1>2. /\ jobs[k].fails \in Nat /\ jobs[k].stalls \in Nat
      /\ jobs[k].stalls <= MaxStalls /\ Attempts \in Nat /\ MaxStalls \in Nat
  BY <1>1, ChatAssumption DEF ChatJob
<1> QED
  BY <1>1, <1>2 DEF Try, Tries

LEMMA ChatJobSet ==
    ASSUME NEW x \in ChatJob
    PROVE  /\ \A st \in Unfinished \cup {"done", "failed", "absent"} : [x EXCEPT !.state = st] \in ChatJob
           /\ \A n \in 0..Attempts : [x EXCEPT !.fails = n] \in ChatJob
           /\ \A n \in 0..MaxStalls : [x EXCEPT !.stalls = n] \in ChatJob
BY DEF ChatJob, Unfinished

\* A step that gives job k the form x.
LEMMA ChatJobStep ==
    ASSUME ChatInv, NEW k \in Keys, NEW x \in ChatJob, jobs' = [jobs EXCEPT ![k] = x],
           x.state \in Unfinished \cup {"absent"} => x.fails < Attempts
    PROVE  /\ jobs' \in [Keys -> ChatJob]
           /\ \A j \in Keys : jobs'[j].state \in Unfinished \cup {"absent"} => jobs'[j].fails < Attempts
BY DEF ChatInv

LEMMA JobSetStep ==
    ASSUME ChatInv, NEW k \in Keys, jobs[k].state \in Unfinished \cup {"absent"},
           NEW st \in Unfinished \cup {"done", "failed", "absent"}, Set(k, st)
    PROVE  /\ jobs' \in [Keys -> ChatJob]
           /\ \A j \in Keys : jobs'[j].state \in Unfinished \cup {"absent"} => jobs'[j].fails < Attempts
<1> DEFINE x == [jobs[k] EXCEPT !.state = st]
<1>1. jobs[k] \in ChatJob /\ jobs[k].fails < Attempts
  BY DEF ChatInv
<1>2. x \in ChatJob
  BY <1>1, ChatJobSet
<1>3. x.fails = jobs[k].fails
  BY <1>1 DEF ChatJob
<1>4. jobs' = [jobs EXCEPT ![k] = x]
  BY DEF Set
<1> HIDE DEF x
<1> QED
  BY <1>1, <1>2, <1>3, <1>4, ChatJobStep

\* Queue.add changes a job only if there is none.
LEMMA JobAdds ==
    ASSUME ChatInv, NEW k \in Keys, Add(k)
    PROVE  /\ jobs' \in [Keys -> ChatJob]
           /\ \A j \in Keys : jobs'[j].state \in Unfinished \cup {"absent"} => jobs'[j].fails < Attempts
<1> DEFINE st == IF jobs[k].state = "absent" THEN "waiting" ELSE jobs[k].state
           x == [jobs[k] EXCEPT !.state = st]
<1>1. jobs[k] \in ChatJob
  BY DEF ChatInv
<1>2. /\ st \in Unfinished \cup {"done", "failed", "absent"}
      /\ st \in Unfinished \cup {"absent"} => jobs[k].state \in Unfinished \cup {"absent"}
  BY <1>1 DEF ChatJob, Unfinished
<1>3. jobs' = [jobs EXCEPT ![k] = x]
  BY DEF Add
<1> HIDE DEF st
<1>4. x \in ChatJob
  BY <1>1, <1>2, ChatJobSet
<1>5. x.fails = jobs[k].fails /\ x.state = st
  BY <1>1 DEF ChatJob
<1> HIDE DEF x
<1> QED
  BY <1>2, <1>3, <1>4, <1>5, ChatJobStep DEF ChatInv

LEMMA JobFails ==
    ASSUME ChatInv, NEW k \in Keys, jobs[k].state \in Unfinished, FailAttempt(k)
    PROVE  /\ jobs' \in [Keys -> ChatJob]
           /\ \A j \in Keys : jobs'[j].state \in Unfinished \cup {"absent"} => jobs'[j].fails < Attempts
<1> DEFINE st == IF jobs[k].fails + 1 < Attempts THEN "waiting" ELSE "failed"
           y == [jobs[k] EXCEPT !.fails = jobs[k].fails + 1]
           x == [y EXCEPT !.state = st]
<1>1. jobs[k] \in ChatJob /\ jobs[k].fails < Attempts
  BY DEF ChatInv
<1>2. jobs[k].fails + 1 \in 0..Attempts
  BY <1>1, ChatAssumption DEF ChatJob
<1>3. /\ st \in Unfinished \cup {"done", "failed", "absent"}
      /\ st \in Unfinished \cup {"absent"} => jobs[k].fails + 1 < Attempts
  BY DEF Unfinished
<1>4. jobs' = [jobs EXCEPT ![k] = x]
  BY DEF FailAttempt
<1> HIDE DEF st
<1>5. y \in ChatJob
  BY <1>1, <1>2, ChatJobSet
<1>6. x.fails = jobs[k].fails + 1 /\ x.state = st
  BY <1>1 DEF ChatJob
<1> HIDE DEF y
<1>7. x \in ChatJob
  BY <1>3, <1>5, ChatJobSet
<1> HIDE DEF x
<1> QED
  BY <1>3, <1>4, <1>6, <1>7, ChatJobStep

\* A step that starts no run and posts no reply.
LEMMA ChatSame ==
    ASSUME ChatInv, jobs' \in [Keys -> ChatJob],
           \A j \in Keys : jobs'[j].state \in Unfinished \cup {"absent"} => jobs'[j].fails < Attempts,
           runs' = runs, recorded' = recorded, answers' = answers,
           DOMAIN out' = DOMAIN out
    PROVE  ChatInv'
<1>1. (\A k \in Keys, n \in Tries : RunOK(k, n))'
  BY DEF ChatInv, RunOK
<1>2. AnswerIsOnRecord'
  BY DEF ChatInv, AnswerIsOnRecord
<1> QED
  BY <1>1, <1>2 DEF ChatInv

\* A step of run n of key k.
LEMMA ChatRun ==
    ASSUME ChatInv, NEW k \in Keys, NEW n \in Tries, NEW pc \in RunPcs, RunTo(k, n, pc),
           jobs' = jobs, out' = out, recorded \subseteq recorded', answers \subseteq answers',
           pc \in {"reply", "cache", "ok", "silent", "empty"} => k.msg \in recorded',
           pc \in {"cache", "ok"} => <<k, n>> \in answers'
    PROVE  ChatInv'
<1>1. /\ runs' \in [Keys -> [Tries -> RunPcs]] /\ runs'[k][n] = pc
      /\ \A j \in Keys, i \in Tries : j # k \/ i # n => runs'[j][i] = runs[j][i]
  BY DEF ChatInv, RunTo
<1>2. (\A j \in Keys, i \in Tries : RunOK(j, i))'
  BY <1>1 DEF ChatInv, RunOK
<1>3. AnswerIsOnRecord'
  BY DEF ChatInv, AnswerIsOnRecord
<1>4. (\A j \in Keys : jobs[j].state \in Unfinished \cup {"absent"} => jobs[j].fails < Attempts)'
  BY DEF ChatInv
<1> QED
  BY <1>1, <1>2, <1>3, <1>4 DEF ChatInv

LEMMA ChatStart == Init => ChatInv
<1> SUFFICES ASSUME Init PROVE ChatInv
  OBVIOUS
<1>1. jobs \in [Keys -> ChatJob]
  BY ChatAssumption DEF Init, ChatJob
<1>2. \A k \in Keys : jobs[k].fails < Attempts
  BY ChatAssumption DEF Init
<1>3. runs \in [Keys -> [Tries -> RunPcs]] /\ \A k \in Keys, n \in Tries : runs[k][n] = "none"
  BY DEF Init, RunPcs
<1>4. DOMAIN out = {}
  BY DEF Init
<1> QED
  BY <1>1, <1>2, <1>3, <1>4 DEF ChatInv, RunOK, AnswerIsOnRecord

LEMMA KeysAre ==
    /\ \A m \in Messages : InKey(m) \in Keys
BY DEF InKey, Keys

\* The client, the handlers, the start of the gateway, and the outbound worker.
LEMMA OutsideKeeps ==
    ASSUME ChatInv,
           \/ Send \/ Connect \/ CatchUpUnread \/ MarkRead \/ FetchOpenDeals \/ CatchUpSince
           \/ Restart \/ \E m \in Messages : HandlerCheck(m)
    PROVE  ChatInv'
<1>1. jobs' = jobs /\ runs' = runs /\ recorded' = recorded /\ answers' = answers /\ out' = out
  BY DEF Send, Connect, CatchUpUnread, MarkRead, FetchOpenDeals, CatchUpSince, Restart,
         HandlerCheck, records
<1> QED
  BY <1>1, ChatSame DEF ChatInv

LEMMA PostsKeep ==
    ASSUME ChatInv, NEW p \in DOMAIN out, Deliver(p) \/ RefusePost(p)
    PROVE  ChatInv'
<1>1. /\ jobs' = jobs /\ runs' = runs /\ recorded' = recorded /\ answers' = answers
      /\ DOMAIN out' = DOMAIN out
  BY DEF Deliver, RefusePost, FailPost, records
<1> QED
  BY <1>1, ChatSame DEF ChatInv

LEMMA QueuesKeep ==
    ASSUME ChatInv, (\E m \in Messages : HandlerEnqueue(m)) \/ ResumeDeal
    PROVE  ChatInv'
<1>1. runs' = runs /\ recorded' = recorded /\ answers' = answers /\ out' = out
  BY DEF HandlerEnqueue, ResumeDeal, records
<1>2. PICK k : Add(k)
  BY DEF HandlerEnqueue, ResumeDeal
<1>3. CASE k \in Keys
  BY <1>1, <1>2, <1>3, JobAdds, ChatSame
<1>4. CASE k \notin Keys
  <2>1. jobs' = jobs
    BY <1>2, <1>4 DEF Add, ChatInv
  <2> QED
    BY <1>1, <2>1, ChatSame DEF ChatInv
<1> QED
  BY <1>3, <1>4

\* The worker's steps that post nothing.
LEMMA WorkKeeps ==
    ASSUME ChatInv, NEW k \in Keys,
           \/ RefuseJob(k) \/ LoseResponse(k) \/ SkipCached(k) \/ CompleteJob(k)
           \/ RequeueStalled(k)
    PROVE  ChatInv'
<1>1. runs' = runs /\ recorded' = recorded /\ answers' = answers /\ out' = out
  BY DEF RefuseJob, LoseResponse, SkipCached, CompleteJob, RequeueStalled, records
<1>2. CASE RefuseJob(k) \/ LoseResponse(k)
  BY <1>1, <1>2, JobFails, ChatSame DEF RefuseJob, LoseResponse, Unfinished
<1>3. CASE SkipCached(k) \/ CompleteJob(k)
  <2>1. jobs[k].state \in Unfinished \cup {"absent"} /\ Set(k, "done")
    BY <1>3 DEF SkipCached, CompleteJob, Unfinished
  <2> QED
    BY <1>1, <2>1, JobSetStep, ChatSame
<1>4. CASE RequeueStalled(k)
  <2>1. CASE jobs[k].stalls < MaxStalls
    <3> DEFINE y == [jobs[k] EXCEPT !.stalls = jobs[k].stalls + 1]
               x == [y EXCEPT !.state = "waiting"]
    <3>1. jobs[k] \in ChatJob /\ jobs[k].fails < Attempts
      BY <1>4 DEF ChatInv, RequeueStalled, Unfinished
    <3>2. jobs[k].stalls + 1 \in 0..MaxStalls
      BY <2>1, <3>1, ChatAssumption DEF ChatJob
    <3>3. y \in ChatJob
      BY <3>1, <3>2, ChatJobSet
    <3>4. x.fails = jobs[k].fails
      BY <3>1 DEF ChatJob
    <3>5. jobs' = [jobs EXCEPT ![k] = x]
      BY <1>4, <2>1 DEF RequeueStalled
    <3> HIDE DEF y
    <3>6. x \in ChatJob
      BY <3>3, ChatJobSet DEF Unfinished
    <3> HIDE DEF x
    <3> QED
      BY <1>1, <3>1, <3>4, <3>5, <3>6, ChatJobStep, ChatSame
  <2>2. CASE ~(jobs[k].stalls < MaxStalls)
    <3>1. Set(k, "failed") /\ jobs[k].state \in Unfinished \cup {"absent"}
      BY <1>4, <2>2 DEF RequeueStalled, Set, Unfinished
    <3> QED
      BY <1>1, <3>1, JobSetStep, ChatSame
  <2> QED
    BY <2>1, <2>2
<1> QED
  BY <1>2, <1>3, <1>4

\* A try's request is taken, or turned away.
LEMMA JobStarts ==
    ASSUME ChatInv, NEW k \in Keys, StartJob(k) \/ TurnAway(k)
    PROVE  ChatInv'
<1>1. PICK st \in {"active", "done"}, pc \in {"get", "denied"} :
        /\ recorded' = recorded /\ answers' = answers /\ out' = out
        /\ jobs[k].state \in Unfinished /\ Set(k, st)
        /\ runs' = [runs EXCEPT ![k][Try(k)] = pc]
  BY DEF StartJob, TurnAway, records, Unfinished
<1>2. Try(k) \in Tries
  BY <1>1, TryIsTry
<1>3. /\ jobs' \in [Keys -> ChatJob]
      /\ \A j \in Keys : jobs'[j].state \in Unfinished \cup {"absent"} => jobs'[j].fails < Attempts
  BY <1>1, JobSetStep DEF Unfinished
<1> DEFINE n == Try(k)
<1>4. runs' = [runs EXCEPT ![k][n] = pc]
  BY <1>1
<1>5. n \in Tries
  BY <1>2
<1> HIDE DEF n
<1>6. /\ runs' \in [Keys -> [Tries -> RunPcs]]
      /\ \A j \in Keys, i \in Tries : runs'[j][i] = runs[j][i] \/ runs'[j][i] = pc
  BY <1>4, <1>5 DEF ChatInv, RunPcs
<1>7. (\A j \in Keys, i \in Tries : RunOK(j, i))'
  BY <1>1, <1>6 DEF ChatInv, RunOK
<1>8. AnswerIsOnRecord'
  BY <1>1 DEF ChatInv, AnswerIsOnRecord
<1> QED
  BY <1>3, <1>6, <1>7, <1>8 DEF ChatInv

\* The run of job k's try left nothing to say.
Mute(k) == Reply(k) /\ runs[k][Try(k)] = "empty"

\* A reply is posted by the run that wrote it; the fallback by nobody's.
LEMMA RepliesKeep ==
    ASSUME ChatInv, NEW k \in Keys, Reply(k) \/ GiveUp(k)
    PROVE  ChatInv'
<1>1. /\ runs' = runs /\ recorded' = recorded /\ answers' = answers
      /\ jobs[k].state \in Unfinished /\ Set(k, "replied")
  BY DEF Reply, GiveUp, records, Unfinished
<1>2. /\ jobs' \in [Keys -> ChatJob]
      /\ \A j \in Keys : jobs'[j].state \in Unfinished \cup {"absent"} => jobs'[j].fails < Attempts
  BY <1>1, JobSetStep DEF Unfinished
<1>0. SUFFICES ASSUME ~Mute(k) PROVE ChatInv'
  <2>1. CASE Mute(k)
    <3>1. out' = out
      BY <2>1 DEF Mute, Reply
    <3> QED
      BY <1>1, <1>2, <3>1, ChatSame
  <2> QED
    BY <2>1
<1>3. PICK n \in Tries \cup {0} :
        /\ Enqueue([key |-> k, run |-> n])
        /\ n # 0 => k.msg \in recorded /\ <<k, n>> \in answers
  <2>1. CASE GiveUp(k)
    BY <2>1 DEF GiveUp
  <2>2. CASE Reply(k)
    <3>1. Try(k) \in Tries
      BY <1>1, TryIsTry
    <3>2. CASE runs[k][Try(k)] = "ok"
      <4>1. Enqueue([key |-> k, run |-> Try(k)])
        BY <2>2, <3>2 DEF Reply
      <4>2. k.msg \in recorded /\ <<k, Try(k)>> \in answers
        BY <3>1, <3>2 DEF ChatInv, RunOK
      <4> QED
        BY <3>1, <4>1, <4>2
    <3>3. CASE runs[k][Try(k)] # "ok"
      <4>1. Enqueue([key |-> k, run |-> 0])
        BY <1>0, <2>2, <3>3 DEF Mute, Reply
      <4> QED
        BY <4>1
    <3> QED
      BY <3>2, <3>3
  <2> QED
    BY <2>1, <2>2
<1>4. DOMAIN out' \subseteq DOMAIN out \cup {[key |-> k, run |-> n]}
  BY <1>3 DEF Enqueue
<1>5. AnswerIsOnRecord'
  <2> SUFFICES ASSUME NEW p \in DOMAIN out', p.run # 0
               PROVE  p.key.msg \in recorded /\ <<p.key, p.run>> \in answers
    BY <1>1 DEF AnswerIsOnRecord
  <2>1. CASE p \in DOMAIN out
    BY <2>1 DEF ChatInv, AnswerIsOnRecord
  <2>2. CASE p = [key |-> k, run |-> n]
    BY <1>3, <2>2
  <2> QED
    BY <1>4, <2>1, <2>2
<1>6. (\A j \in Keys, i \in Tries : RunOK(j, i))'
  BY <1>1 DEF ChatInv, RunOK
<1> QED
  BY <1>1, <1>2, <1>5, <1>6 DEF ChatInv

LEMMA RunsKeep ==
    ASSUME ChatInv, NEW k \in Keys, NEW n \in Tries,
           Run(k, n) \/ RunMute(k, n) \/ RunDie(k, n)
    PROVE  ChatInv'
<1>1. jobs' = jobs /\ out' = out
  BY DEF Run, RunGet, RunRecord, RunReply, RunMute, RunCache, RunDie
<1>2. RunOK(k, n)
  BY DEF ChatInv
<1>3. CASE RunGet(k, n)
  <2>1. PICK pc \in {"cached", "record"} : RunTo(k, n, pc)
    BY <1>3 DEF RunGet
  <2> QED
    BY <1>1, <1>3, <2>1, ChatRun DEF RunGet, records, RunPcs
<1>4. CASE RunRecord(k, n)
  BY <1>1, <1>4, ChatRun DEF RunRecord, RunPcs
<1>5. CASE RunReply(k, n)
  BY <1>1, <1>2, <1>5, ChatRun DEF RunReply, RunAt, RunOK, RunPcs
<1>6. CASE RunCache(k, n)
  <2>1. PICK pc \in {"ok", "empty"} :
          RunTo(k, n, pc) /\ runs[k][n] \in {"cache", "silent"}
          /\ (pc = "ok" => runs[k][n] = "cache")
    BY <1>6 DEF RunCache, RunAt
  <2> QED
    BY <1>1, <1>2, <1>6, <2>1, ChatRun DEF RunCache, RunOK, RunPcs
<1>7. CASE RunDie(k, n)
  BY <1>1, <1>7, ChatRun DEF RunDie, records, RunPcs
<1>8. CASE RunMute(k, n)
  BY <1>1, <1>2, <1>8, ChatRun DEF RunMute, RunAt, RunOK, records, RunPcs
<1> QED
  BY <1>3, <1>4, <1>5, <1>6, <1>7, <1>8 DEF Run

LEMMA CrashKeeps ==
    ASSUME ChatInv, Crash
    PROVE  ChatInv'
<1>1. runs' = runs /\ recorded' = recorded /\ answers' = answers /\ out' = out
      /\ jobs' = [k \in Keys |-> IF jobs[k].state \in {"active", "replied"}
                                 THEN [jobs[k] EXCEPT !.state = "stalled"] ELSE jobs[k]]
  BY DEF Crash, records
<1>2. ASSUME NEW k \in Keys
      PROVE  /\ jobs'[k] \in ChatJob
             /\ jobs'[k].state \in Unfinished \cup {"absent"} => jobs'[k].fails < Attempts
  <2>1. jobs[k] \in ChatJob
    BY DEF ChatInv
  <2>2. CASE jobs[k].state \in {"active", "replied"}
    <3>1. jobs'[k] = [jobs[k] EXCEPT !.state = "stalled"] /\ jobs[k].fails < Attempts
      BY <1>1, <2>2 DEF ChatInv, Unfinished
    <3> QED
      BY <2>1, <3>1 DEF ChatJob
  <2>3. CASE jobs[k].state \notin {"active", "replied"}
    BY <1>1, <2>1, <2>3 DEF ChatInv
  <2> QED
    BY <2>2, <2>3
<1>3. jobs' \in [Keys -> ChatJob]
  BY <1>1, <1>2
<1> QED
  BY <1>1, <1>2, <1>3, ChatSame

LEMMA ChatNext == ChatInv /\ [Next]_vars => ChatInv'
<1> SUFFICES ASSUME ChatInv, [Next]_vars PROVE ChatInv'
  OBVIOUS
<1>1. CASE UNCHANGED vars
  <2>1. jobs' = jobs /\ runs' = runs /\ recorded' = recorded /\ answers' = answers /\ out' = out
    BY <1>1 DEF vars
  <2> QED
    BY <2>1, ChatSame DEF ChatInv
<1>2. CASE Next
  BY <1>2, OutsideKeeps, PostsKeep, QueuesKeep, WorkKeeps, JobStarts, RepliesKeep, RunsKeep,
     CrashKeeps DEF Next, StartUp, Handle, Work
<1> QED
  BY <1>1, <1>2

\* Whatever crashes, is lost or overlaps, an answer the client reads is in the
\* table `messages` (_process_inner stores before it returns).
THEOREM AnswersAreOnRecord == Spec => []AnswerIsOnRecord
<1>1. ChatInv => AnswerIsOnRecord
  BY DEF ChatInv
<1> QED
  BY ChatStart, ChatNext, <1>1, PTL DEF Spec

-----------------------------------------------------------------------------
(* Nothing a client wrote is left lying: what MessageAnswered says will     *)
(* happen, said of the states where nothing can happen any more.            *)

PostedFor(k) == \E p \in DOMAIN out : p.key = k
ChatPost == [state: {"queued", "sent", "failed"}, fails: 0..Attempts]
PostOK(p) ==
    /\ out[p] \in ChatPost
    /\ out[p].state = "queued" => out[p].fails < Attempts
    /\ out[p].state = "failed" => out[p].fails = Attempts

\* What a job has come to: its run exists, its reply is in the queue `outbound`, or
\* there is a reason why not.
WhyNone(k) == \/ ResponseLost(k) \/ jobs[k].stalls > 0
              \/ TurnedAway(k) \/ EndsMute(k)
JobOwes(k) ==
    /\ jobs[k].state = "active" => runs[k][Try(k)] \notin {"none", "denied"}
    /\ jobs[k].state = "replied" => PostedFor(k) \/ EndsMute(k)
    /\ jobs[k].state = "failed" => jobs[k].fails = Attempts \/ jobs[k].stalls = MaxStalls
    /\ jobs[k].state = "done" => PostedFor(k) \/ WhyNone(k)

\* Runs that came to their end, and are in idempotency_keys.
Ended == {"ok", "empty"}

\* No run is ahead of its job, and a run that found the key cached is not the one
\* that cached it.
RunFits(k, n) ==
    /\ runs[k][n] # "none" =>
           n < Try(k) \/ (n = Try(k) /\ jobs[k].state \notin {"absent", "waiting"})
    /\ runs[k][n] = "cached" => \E i \in Tries : i # n /\ runs[k][i] \in Ended

CachedByRun == \A k \in cached : \E n \in Tries : runs[k][n] \in Ended

OwedInv ==
    /\ cached \subseteq Keys
    /\ \A k \in Keys : JobOwes(k)
    /\ \A k \in Keys, n \in Tries : RunFits(k, n)
    /\ CachedByRun
    /\ \A p \in DOMAIN out : PostOK(p)

\* Neither the workers nor the orchestrator have anything they can do.
ChatQuiet ==
    /\ Up
    /\ \A k \in Keys, n \in Tries : runs[k][n] \notin {"get", "record", "reply", "cache", "silent"}
    /\ \A k \in Keys :
        /\ jobs[k].state \notin {"replied", "stalled"}
        /\ jobs[k].state = "active" => runs[k][Try(k)] \notin {"cached", "ok", "fallback", "empty"}
        /\ jobs[k].state = "waiting" =>
               Cardinality({j \in Keys : jobs[j].state \in {"active", "replied"}}) >= 4
    /\ \A p \in DOMAIN out : out[p].state # "queued"

\* A reply or the fallback was sent or used up its attempts; or the job used up its
\* attempts or its stalls; or a response was lost, a crash came in between, the API
\* turned the request away, or the run had nothing left to say.
Settled(k) ==
    \/ \E p \in DOMAIN out :
        /\ p.key = k
        /\ out[p].state = "sent" \/ (out[p].state = "failed" /\ out[p].fails = Attempts)
    \/ jobs[k].state = "failed" /\ (jobs[k].fails = Attempts \/ jobs[k].stalls = MaxStalls)
    \/ jobs[k].state = "done" /\ WhyNone(k)

QuietIsSettled == ChatQuiet => \A k \in Keys : jobs[k].state # "absent" => Settled(k)

LEMMA PostsStay ==
    ASSUME NEW k, DOMAIN out \subseteq DOMAIN out', PostedFor(k)
    PROVE  PostedFor(k)'
BY DEF PostedFor

\* A step of job k alone, which goes back to waiting only for another try.
LEMMA OwedJob ==
    ASSUME ChatInv, OwedInv, NEW k \in Keys, NEW x \in ChatJob, jobs' = [jobs EXCEPT ![k] = x],
           runs' = runs, cached' = cached, DOMAIN out \subseteq DOMAIN out',
           \A p \in DOMAIN out' : PostOK(p)',
           x.fails >= jobs[k].fails, x.stalls >= jobs[k].stalls,
           x.state \in {"absent", "waiting"} =>
               \/ jobs[k].state \in {"absent", "waiting"}
               \/ x.fails + x.stalls > jobs[k].fails + jobs[k].stalls,
           JobOwes(k)'
    PROVE  OwedInv'
<1>1. jobs \in [Keys -> ChatJob] /\ jobs'[k] = x /\ \A j \in Keys : j # k => jobs'[j] = jobs[j]
  BY DEF ChatInv
<1>2. ASSUME NEW j \in Keys, j # k PROVE JobOwes(j)'
  <2>1. JobOwes(j) /\ jobs'[j] = jobs[j] /\ runs' = runs
    BY <1>1, <1>2 DEF OwedInv
  <2>2. PostedFor(j) => PostedFor(j)'
    BY PostsStay
  <2> QED
    BY <2>1, <2>2 DEF JobOwes, WhyNone, ResponseLost, TurnedAway, EndsMute, Try
<1>3. ASSUME NEW j \in Keys, NEW n \in Tries PROVE RunFits(j, n)'
  <2>1. RunFits(j, n) /\ runs' = runs
    BY DEF OwedInv
  <2>2. CASE j # k
    BY <1>1, <2>1, <2>2 DEF RunFits, Try
  <2>3. CASE j = k
    <3>1. /\ jobs[k].fails \in Nat /\ jobs[k].stalls \in Nat /\ x.fails \in Nat /\ x.stalls \in Nat
          /\ n \in Nat
      BY <1>1, ChatAssumption DEF ChatJob, Tries
    <3> QED
      BY <1>1, <2>1, <2>3, <3>1 DEF RunFits, Try
  <2> QED
    BY <2>2, <2>3
<1>4. CachedByRun'
  BY DEF OwedInv, CachedByRun
<1> QED
  BY <1>2, <1>3, <1>4 DEF OwedInv

\* A step of run n of key k.
LEMMA OwedRun ==
    ASSUME ChatInv, OwedInv, NEW k \in Keys, NEW n \in Tries, NEW pc \in RunPcs \ {"none", "denied"},
           RunTo(k, n, pc), jobs' = jobs, out' = out,
           runs[k][n] \in {"get", "record", "reply", "cache", "silent"},
           cached' = cached \/ (cached' = cached \cup {k} /\ pc \in Ended),
           pc = "cached" => k \in cached
    PROVE  OwedInv'
<1>1. /\ runs' \in [Keys -> [Tries -> RunPcs]] /\ runs'[k][n] = pc
      /\ \A j \in Keys, i \in Tries : j # k \/ i # n => runs'[j][i] = runs[j][i]
  BY DEF ChatInv, RunTo
<1>2. \A j \in Keys, i \in Tries : (runs[j][i] # "none" <=> runs'[j][i] # "none")
  BY <1>1
<1>3. \A j \in Keys, i \in Tries : runs[j][i] \in Ended => runs'[j][i] = runs[j][i]
  BY <1>1 DEF Ended
<1>8. \A j \in Keys, i \in Tries : runs[j][i] = "denied" <=> runs'[j][i] = "denied"
  BY <1>1
<1>4. ASSUME NEW j \in Keys PROVE JobOwes(j)'
  <2>1. JobOwes(j) /\ jobs[j] \in ChatJob
    BY DEF OwedInv, ChatInv
  <2>2. jobs[j].state = "active" => Try(j) \in Tries
    BY TryIsTry DEF Unfinished
  <2>3. ResponseLost(j) => ResponseLost(j)'
    <3>1. 1..jobs[j].fails \subseteq Tries
      BY <2>1, ChatAssumption DEF ChatJob, Tries
    <3> QED
      BY <1>2, <3>1 DEF ResponseLost
  <2>4. PostedFor(j)' <=> PostedFor(j)
    BY DEF PostedFor
  <2>5. (TurnedAway(j) => TurnedAway(j)') /\ (EndsMute(j) => EndsMute(j)')
    BY <1>3, <1>8 DEF TurnedAway, EndsMute, Ended
  <2> QED
    BY <1>2, <1>8, <2>1, <2>2, <2>3, <2>4, <2>5 DEF JobOwes, WhyNone, Try
<1>5. ASSUME NEW j \in Keys, NEW i \in Tries PROVE RunFits(j, i)'
  <2>1. RunFits(j, i)
    BY DEF OwedInv
  <2>2. runs'[j][i] = "cached" => \E h \in Tries : h # i /\ runs'[j][h] \in Ended
    <3>1. CASE j = k /\ i = n
      BY <1>1, <1>3, <3>1 DEF OwedInv, CachedByRun, Ended
    <3>2. CASE ~(j = k /\ i = n)
      BY <1>1, <1>3, <2>1, <3>2 DEF RunFits
    <3> QED
      BY <3>1, <3>2
  <2> QED
    BY <1>2, <2>1, <2>2 DEF RunFits, Try
<1>6. CachedByRun' /\ cached' \subseteq Keys
  BY <1>1, <1>3 DEF OwedInv, CachedByRun
<1>7. (\A p \in DOMAIN out : PostOK(p))'
  BY DEF OwedInv, PostOK
<1> QED
  BY <1>4, <1>5, <1>6, <1>7 DEF OwedInv

\* A step that leaves jobs and runs as they are, and forgets keys at most.
LEMMA OwedSame ==
    ASSUME OwedInv, jobs' = jobs, runs' = runs, cached' \subseteq cached,
           DOMAIN out' = DOMAIN out, \A p \in DOMAIN out' : PostOK(p)'
    PROVE  OwedInv'
<1>1. ASSUME NEW k \in Keys PROVE JobOwes(k)'
  BY DEF OwedInv, JobOwes, WhyNone, ResponseLost, TurnedAway, EndsMute, Try, PostedFor
<1>2. (\A k \in Keys, n \in Tries : RunFits(k, n))'
  BY DEF OwedInv, RunFits, Try
<1> QED
  BY <1>1, <1>2 DEF OwedInv, CachedByRun

\* A job's reply joins the queue, or is there already.
LEMMA OwedEnqueue ==
    ASSUME OwedInv, NEW p, Enqueue(p)
    PROVE  /\ DOMAIN out' = DOMAIN out \cup {p}
           /\ \A q \in DOMAIN out' : PostOK(q)'
<1>1. CASE p \in DOMAIN out
  BY <1>1 DEF Enqueue, OwedInv, PostOK
<1>2. CASE p \notin DOMAIN out
  <2>1. out' = [q \in DOMAIN out \cup {p} |->
                   IF q = p THEN [state |-> "queued", fails |-> 0] ELSE out[q]]
    BY <1>2 DEF Enqueue
  <2>2. [state |-> "queued", fails |-> 0] \in ChatPost /\ 0 < Attempts
    BY ChatAssumption DEF ChatPost
  <2>3. DOMAIN out' = DOMAIN out \cup {p}
    BY <2>1
  <2>4. ASSUME NEW q \in DOMAIN out' PROVE PostOK(q)'
    <3>1. CASE q = p
      <4>1. out'[q] = [state |-> "queued", fails |-> 0]
        BY <2>1, <3>1
      <4> QED
        BY <2>2, <4>1 DEF PostOK
    <3>2. CASE q # p
      <4>1. q \in DOMAIN out /\ out'[q] = out[q]
        BY <2>1, <2>3, <3>2
      <4> QED
        BY <4>1 DEF OwedInv, PostOK
    <3> QED
      BY <3>1, <3>2
  <2> QED
    BY <2>3, <2>4
<1> QED
  BY <1>1, <1>2

\* The outbound worker's step on reply p.
LEMMA OwedPost ==
    ASSUME OwedInv, NEW p \in DOMAIN out,
           out[p].state = "queued",
           FailPost(p) \/ out' = [out EXCEPT ![p].state = "sent"]
    PROVE  /\ DOMAIN out' = DOMAIN out
           /\ \A q \in DOMAIN out' : PostOK(q)'
<1>1. out[p] \in ChatPost /\ out[p].fails < Attempts /\ Attempts \in Nat
  BY ChatAssumption DEF OwedInv, PostOK
<1>2. PICK x \in ChatPost :
        /\ out' = [out EXCEPT ![p] = x]
        /\ x.state = "queued" => x.fails < Attempts
        /\ x.state = "failed" => x.fails = Attempts
  <2>1. CASE out' = [out EXCEPT ![p].state = "sent"]
    <3> DEFINE x == [out[p] EXCEPT !.state = "sent"]
    <3>1. x \in ChatPost /\ x.state = "sent"
      BY <1>1 DEF ChatPost
    <3>2. out' = [out EXCEPT ![p] = x]
      BY <2>1
    <3> HIDE DEF x
    <3> QED
      BY <3>1, <3>2
  <2>2. CASE FailPost(p)
    <3> DEFINE st == IF out[p].fails + 1 < Attempts THEN "queued" ELSE "failed"
               y == [out[p] EXCEPT !.fails = out[p].fails + 1]
               x == [y EXCEPT !.state = st]
    <3>1. out[p].fails + 1 \in 0..Attempts
      BY <1>1 DEF ChatPost
    <3>2. /\ st \in {"queued", "failed"}
          /\ st = "queued" => out[p].fails + 1 < Attempts
          /\ st = "failed" => out[p].fails + 1 = Attempts
      BY <1>1, <3>1
    <3>3. out' = [out EXCEPT ![p] = x]
      BY <2>2 DEF FailPost
    <3> HIDE DEF st
    <3>4. y \in ChatPost /\ y.fails = out[p].fails + 1
      BY <1>1, <3>1 DEF ChatPost
    <3> HIDE DEF y
    <3>5. x \in ChatPost /\ x.fails = y.fails /\ x.state = st
      BY <3>2, <3>4 DEF ChatPost
    <3> HIDE DEF x
    <3> QED
      BY <3>2, <3>3, <3>4, <3>5
  <2> QED
    BY <2>1, <2>2
<1>3. DOMAIN out' = DOMAIN out /\ out'[p] = x /\ \A q \in DOMAIN out : q # p => out'[q] = out[q]
  BY <1>2
<1> QED
  BY <1>2, <1>3 DEF OwedInv, PostOK

LEMMA OwedStart == Init => OwedInv
<1> SUFFICES ASSUME Init PROVE OwedInv
  OBVIOUS
<1>1. \A k \in Keys : jobs[k].state = "absent"
  BY DEF Init
<1>2. \A k \in Keys, n \in Tries : runs[k][n] = "none"
  BY DEF Init
<1>3. cached = {} /\ DOMAIN out = {}
  BY DEF Init
<1> QED
  BY <1>1, <1>2, <1>3 DEF OwedInv, JobOwes, RunFits, CachedByRun

LEMMA OwedOutside ==
    ASSUME OwedInv,
           \/ Send \/ Connect \/ CatchUpUnread \/ MarkRead \/ FetchOpenDeals \/ CatchUpSince
           \/ Restart \/ \E m \in Messages : HandlerCheck(m)
    PROVE  OwedInv'
<1>1. jobs' = jobs /\ runs' = runs /\ cached' \subseteq cached /\ out' = out
  BY DEF Send, Connect, CatchUpUnread, MarkRead, FetchOpenDeals, CatchUpSince, Restart,
         HandlerCheck, records
<1>2. \A p \in DOMAIN out' : PostOK(p)'
  BY <1>1 DEF OwedInv, PostOK
<1> QED
  BY <1>1, <1>2, OwedSame

LEMMA OwedPosts ==
    ASSUME OwedInv, NEW p \in DOMAIN out, Deliver(p) \/ RefusePost(p)
    PROVE  OwedInv'
<1>1. /\ jobs' = jobs /\ runs' = runs /\ cached' = cached /\ out[p].state = "queued"
      /\ FailPost(p) \/ out' = [out EXCEPT ![p].state = "sent"]
  BY DEF Deliver, RefusePost, records
<1> QED
  BY <1>1, OwedPost, OwedSame

LEMMA OwedQueues ==
    ASSUME ChatInv, OwedInv, (\E m \in Messages : HandlerEnqueue(m)) \/ ResumeDeal
    PROVE  OwedInv'
<1>1. runs' = runs /\ cached' = cached /\ out' = out
  BY DEF HandlerEnqueue, ResumeDeal, records
<1>2. \A p \in DOMAIN out' : PostOK(p)'
  BY <1>1 DEF OwedInv, PostOK
<1>3. PICK k : Add(k)
  BY DEF HandlerEnqueue, ResumeDeal
<1>4. CASE k \in Keys /\ jobs[k].state = "absent"
  <2> DEFINE x == [jobs[k] EXCEPT !.state = "waiting"]
  <2>1. jobs[k] \in ChatJob
    BY <1>4 DEF ChatInv
  <2>2. /\ x \in ChatJob /\ x.state = "waiting"
        /\ x.fails = jobs[k].fails /\ x.stalls = jobs[k].stalls
        /\ x.fails \in Nat /\ x.stalls \in Nat
    BY <2>1, ChatAssumption DEF ChatJob
  <2>3. jobs' = [jobs EXCEPT ![k] = x]
    BY <1>3, <1>4 DEF Add
  <2> HIDE DEF x
  <2>4. JobOwes(k)'
    BY <1>4, <2>2, <2>3 DEF JobOwes, ChatInv
  <2>5. x.fails >= jobs[k].fails /\ x.stalls >= jobs[k].stalls
    BY <2>2
  <2>6. DOMAIN out \subseteq DOMAIN out' /\ jobs[k].state \in {"absent", "waiting"}
    BY <1>1, <1>4
  <2> QED
    BY <1>1, <1>2, <1>4, <2>2, <2>3, <2>4, <2>5, <2>6, OwedJob
<1>5. CASE ~(k \in Keys /\ jobs[k].state = "absent")
  <2>1. jobs' = jobs
    <3>1. CASE k \in Keys
      <4>1. jobs[k] \in ChatJob /\ jobs' = [jobs EXCEPT ![k] = [jobs[k] EXCEPT !.state = jobs[k].state]]
        BY <1>3, <1>5, <3>1 DEF Add, ChatInv
      <4>2. [jobs[k] EXCEPT !.state = jobs[k].state] = jobs[k]
        BY <4>1 DEF ChatJob
      <4> QED
        BY <4>1, <4>2 DEF ChatInv
    <3>2. CASE k \notin Keys
      BY <1>3, <3>2 DEF Add, ChatInv
    <3> QED
      BY <3>1, <3>2
  <2> QED
    BY <1>1, <1>2, <2>1, OwedSame
<1> QED
  BY <1>4, <1>5

\* A failed attempt is waiting for the next, or the job has used up its attempts.
LEMMA OwedFails ==
    ASSUME ChatInv, OwedInv, NEW k \in Keys, RefuseJob(k) \/ LoseResponse(k)
    PROVE  OwedInv'
<1>1. /\ runs' = runs /\ cached' = cached /\ out' = out /\ FailAttempt(k)
      /\ jobs[k].state \in Unfinished
  BY DEF RefuseJob, LoseResponse, records, Unfinished
<1>2. \A p \in DOMAIN out' : PostOK(p)'
  BY <1>1 DEF OwedInv, PostOK
<1> DEFINE st == IF jobs[k].fails + 1 < Attempts THEN "waiting" ELSE "failed"
           y == [jobs[k] EXCEPT !.fails = jobs[k].fails + 1]
           x == [y EXCEPT !.state = st]
<1>3. /\ jobs[k] \in ChatJob /\ jobs[k].fails < Attempts
      /\ jobs[k].fails \in Nat /\ jobs[k].stalls \in Nat /\ Attempts \in Nat
  BY <1>1, ChatAssumption DEF ChatInv, ChatJob
<1>4. st \in {"waiting", "failed"} /\ (st = "failed" => jobs[k].fails + 1 = Attempts)
  BY <1>3
<1>5. jobs' = [jobs EXCEPT ![k] = x]
  BY <1>1 DEF FailAttempt
<1> HIDE DEF st
<1>6. y \in ChatJob /\ y.fails = jobs[k].fails + 1 /\ y.stalls = jobs[k].stalls
  BY <1>3 DEF ChatJob
<1> HIDE DEF y
<1>7. x \in ChatJob /\ x.fails = y.fails /\ x.stalls = y.stalls /\ x.state = st
  BY <1>4, <1>6 DEF ChatJob
<1> HIDE DEF x
<1>8. JobOwes(k)'
  BY <1>4, <1>5, <1>6, <1>7 DEF JobOwes, ChatInv
<1>9. /\ x.fails >= jobs[k].fails /\ x.stalls >= jobs[k].stalls
      /\ x.fails + x.stalls > jobs[k].fails + jobs[k].stalls
  BY <1>3, <1>6, <1>7
<1>10. DOMAIN out \subseteq DOMAIN out'
  BY <1>1
<1> QED
  BY <1>1, <1>2, <1>5, <1>7, <1>8, <1>9, <1>10, OwedJob

\* A step that only moves job k on, to an end or to its reply.
LEMMA OwedMoves ==
    ASSUME ChatInv, OwedInv, NEW k \in Keys, NEW st \in {"replied", "stalled", "done", "failed"},
           Set(k, st), runs' = runs, cached' = cached, DOMAIN out \subseteq DOMAIN out',
           \A p \in DOMAIN out' : PostOK(p)',
           st = "replied" => PostedFor(k)' \/ EndsMute(k),
           st = "done" => PostedFor(k)' \/ WhyNone(k),
           st = "failed" => jobs[k].stalls = MaxStalls
    PROVE  OwedInv'
<1> DEFINE x == [jobs[k] EXCEPT !.state = st]
<1>1. jobs[k] \in ChatJob
  BY DEF ChatInv
<1>2. /\ x \in ChatJob /\ x.state = st
      /\ x.fails = jobs[k].fails /\ x.stalls = jobs[k].stalls
      /\ x.fails \in Nat /\ x.stalls \in Nat
  BY <1>1, ChatAssumption DEF ChatJob
<1>3. jobs' = [jobs EXCEPT ![k] = x]
  BY DEF Set
<1> HIDE DEF x
<1>4. jobs'[k] = x
  BY <1>3 DEF ChatInv
<1>5. /\ ResponseLost(k)' <=> ResponseLost(k)
      /\ TurnedAway(k)' <=> TurnedAway(k)
      /\ EndsMute(k)' <=> EndsMute(k)
  BY <1>2, <1>4 DEF ResponseLost, TurnedAway, EndsMute
<1>6. JobOwes(k)'
  BY <1>2, <1>4, <1>5 DEF JobOwes, WhyNone
<1>7. x.fails >= jobs[k].fails /\ x.stalls >= jobs[k].stalls /\ x.state \notin {"absent", "waiting"}
  BY <1>2
<1> QED
  BY <1>2, <1>3, <1>6, <1>7, OwedJob

LEMMA OwedReplies ==
    ASSUME ChatInv, OwedInv, NEW k \in Keys, Reply(k) \/ GiveUp(k)
    PROVE  OwedInv'
<1>1. runs' = runs /\ cached' = cached /\ Set(k, "replied")
  BY DEF Reply, GiveUp, records
<1>0. SUFFICES ASSUME ~Mute(k) PROVE OwedInv'
  <2>1. CASE Mute(k)
    <3>1. out' = out /\ Try(k) \in Tries /\ runs[k][Try(k)] = "empty"
      BY <2>1, TryIsTry DEF Mute, Reply, Unfinished
    <3>2. EndsMute(k) /\ \A p \in DOMAIN out' : PostOK(p)'
      BY <3>1 DEF EndsMute, OwedInv, PostOK
    <3> QED
      BY <1>1, <3>1, <3>2, OwedMoves
  <2> QED
    BY <2>1
<1>2. PICK n : Enqueue([key |-> k, run |-> n])
  BY <1>0 DEF Mute, Reply, GiveUp
<1> DEFINE p == [key |-> k, run |-> n]
<1>3. p.key = k /\ Enqueue(p)
  BY <1>2
<1> HIDE DEF p
<1>4. DOMAIN out' = DOMAIN out \cup {p} /\ \A q \in DOMAIN out' : PostOK(q)'
  BY <1>3, OwedEnqueue
<1>5. PostedFor(k)'
  BY <1>3, <1>4 DEF PostedFor
<1> QED
  BY <1>1, <1>4, <1>5, OwedMoves

\* What a job that is skipped as cached was cached by: an earlier run, whose response
\* was lost or whose worker died.
LEMMA OwedEnds ==
    ASSUME ChatInv, OwedInv, NEW k \in Keys, SkipCached(k) \/ CompleteJob(k)
    PROVE  OwedInv'
<1>1. runs' = runs /\ cached' = cached /\ out' = out /\ Set(k, "done")
  BY DEF SkipCached, CompleteJob, records
<1>2. \A p \in DOMAIN out' : PostOK(p)'
  BY <1>1 DEF OwedInv, PostOK
<1>3. PostedFor(k)' <=> PostedFor(k)
  BY <1>1 DEF PostedFor
<1>4. PostedFor(k) \/ WhyNone(k)
  <2>1. CASE CompleteJob(k)
    BY <2>1 DEF CompleteJob, OwedInv, JobOwes, WhyNone
  <2>2. CASE SkipCached(k) /\ jobs[k].stalls = 0
    <3>1. jobs[k].fails \in Nat /\ Try(k) = jobs[k].fails + 1
      BY <2>2, ChatAssumption DEF ChatInv, ChatJob, Try
    <3>2. Try(k) \in Tries /\ runs[k][Try(k)] = "cached"
      BY <2>2, TryIsTry DEF SkipCached, Unfinished
    <3>3. PICK i \in Tries : i # Try(k) /\ runs[k][i] \in Ended
      BY <3>2 DEF OwedInv, RunFits
    <3>4. i < Try(k)
      BY <3>3 DEF OwedInv, RunFits, Ended
    <3>5. i \in 1..jobs[k].fails
      BY <3>1, <3>4, ChatAssumption DEF Tries
    <3> QED
      BY <3>3, <3>5 DEF ResponseLost, WhyNone, Ended
  <2>3. jobs[k].stalls \in Nat
    BY ChatAssumption DEF ChatInv, ChatJob
  <2> QED
    BY <2>1, <2>2, <2>3 DEF WhyNone
<1> QED
  BY <1>1, <1>2, <1>3, <1>4, OwedMoves

LEMMA OwedRequeue ==
    ASSUME ChatInv, OwedInv, NEW k \in Keys, RequeueStalled(k)
    PROVE  OwedInv'
<1>1. runs' = runs /\ cached' = cached /\ out' = out
  BY DEF RequeueStalled, records
<1>2. \A p \in DOMAIN out' : PostOK(p)'
  BY <1>1 DEF OwedInv, PostOK
<1>3. /\ jobs[k] \in ChatJob /\ jobs[k].fails \in Nat /\ jobs[k].stalls \in Nat
      /\ jobs[k].stalls <= MaxStalls /\ MaxStalls \in Nat
  BY ChatAssumption DEF ChatInv, ChatJob
<1>4. CASE jobs[k].stalls < MaxStalls
  <2> DEFINE y == [jobs[k] EXCEPT !.stalls = jobs[k].stalls + 1]
             x == [y EXCEPT !.state = "waiting"]
  <2>1. y \in ChatJob /\ y.stalls = jobs[k].stalls + 1 /\ y.fails = jobs[k].fails
    BY <1>3, <1>4 DEF ChatJob
  <2>2. jobs' = [jobs EXCEPT ![k] = x]
    BY <1>4 DEF RequeueStalled
  <2> HIDE DEF y
  <2>3. x \in ChatJob /\ x.state = "waiting" /\ x.stalls = y.stalls /\ x.fails = y.fails
    BY <2>1 DEF ChatJob
  <2> HIDE DEF x
  <2>4. JobOwes(k)'
    BY <2>2, <2>3 DEF JobOwes, ChatInv
  <2>5. /\ x.fails >= jobs[k].fails /\ x.stalls >= jobs[k].stalls
        /\ x.fails + x.stalls > jobs[k].fails + jobs[k].stalls
    BY <1>3, <2>1, <2>3
  <2>6. DOMAIN out \subseteq DOMAIN out'
    BY <1>1
  <2> QED
    BY <1>1, <1>2, <2>2, <2>3, <2>4, <2>5, <2>6, OwedJob
<1>5. CASE ~(jobs[k].stalls < MaxStalls)
  <2>1. Set(k, "failed") /\ jobs[k].stalls = MaxStalls
    BY <1>3, <1>5 DEF RequeueStalled, Set
  <2> QED
    BY <1>1, <1>2, <2>1, OwedMoves
<1> QED
  BY <1>4, <1>5

\* An attempt that starts is a new one: no run has its number.
LEMMA OwedStarts ==
    ASSUME ChatInv, OwedInv, NEW k \in Keys, StartJob(k) \/ TurnAway(k)
    PROVE  OwedInv'
<1>1. PICK st \in {"active", "done"}, pc \in {"get", "denied"} :
        /\ cached' = cached /\ out' = out /\ jobs[k].state = "waiting"
        /\ Set(k, st) /\ runs' = [runs EXCEPT ![k][Try(k)] = pc]
        /\ st = "active" <=> pc = "get"
  BY DEF StartJob, TurnAway, records
<1>2. Try(k) \in Tries /\ runs[k][Try(k)] = "none"
  BY <1>1, TryIsTry, ChatAssumption DEF Unfinished, OwedInv, RunFits, Tries
<1> DEFINE n == Try(k)
           x == [jobs[k] EXCEPT !.state = st]
<1>3. /\ x \in ChatJob /\ x.state = st
      /\ x.fails = jobs[k].fails /\ x.stalls = jobs[k].stalls
  BY DEF ChatInv, ChatJob
<1>4. jobs' = [jobs EXCEPT ![k] = x]
  BY <1>1 DEF Set
<1> HIDE DEF x
<1>5. jobs'[k] = x /\ \A j \in Keys : j # k => jobs'[j] = jobs[j]
  BY <1>4 DEF ChatInv
<1>6. \A j \in Keys : Try(j)' = Try(j)
  BY <1>3, <1>5 DEF Try
<1>7. n \in Tries /\ n = Try(k) /\ runs[k][n] = "none" /\ runs' = [runs EXCEPT ![k][n] = pc]
  BY <1>1, <1>2
<1> HIDE DEF n
<1>8. /\ runs'[k][n] = pc
      /\ \A j \in Keys, i \in Tries : j # k \/ i # n => runs'[j][i] = runs[j][i]
  BY <1>7 DEF ChatInv
<1>9. \A j \in Keys, i \in Tries : runs[j][i] # "none" => runs'[j][i] = runs[j][i]
  BY <1>7, <1>8
<1>14. ASSUME NEW j \in Keys PROVE (TurnedAway(j) => TurnedAway(j)') /\ (EndsMute(j) => EndsMute(j)')
  BY <1>9 DEF TurnedAway, EndsMute
<1>10. ASSUME NEW j \in Keys PROVE JobOwes(j)'
  <2>1. CASE j = k
    <3>1. jobs'[k].state = st /\ runs'[k][Try(k)'] = pc /\ n \in Tries
      BY <1>3, <1>5, <1>6, <1>7, <1>8
    <3>2. pc = "denied" => TurnedAway(k)'
      BY <1>7, <1>8 DEF TurnedAway
    <3> QED
      BY <1>1, <2>1, <3>1, <3>2 DEF JobOwes, WhyNone
  <2>2. CASE j # k
    <3>1. JobOwes(j) /\ jobs'[j] = jobs[j]
      BY <1>5, <2>2 DEF OwedInv
    <3>2. jobs[j].state = "active" => Try(j) \in Tries
      BY TryIsTry DEF Unfinished
    <3>3. \A i : runs'[j][i] = runs[j][i]
      BY <1>7, <2>2 DEF ChatInv
    <3>4. PostedFor(j)' <=> PostedFor(j)
      BY <1>1 DEF PostedFor
    <3> QED
      BY <1>6, <1>14, <3>1, <3>2, <3>3, <3>4 DEF JobOwes, WhyNone, ResponseLost
  <2> QED
    BY <2>1, <2>2
<1>11. ASSUME NEW j \in Keys, NEW i \in Tries PROVE RunFits(j, i)'
  <2>1. RunFits(j, i)
    BY DEF OwedInv
  <2>2. runs'[j][i] = "cached" => \E h \in Tries : h # i /\ runs'[j][h] \in Ended
    <3>1. CASE j = k /\ i = n
      BY <1>8, <3>1
    <3>2. CASE ~(j = k /\ i = n)
      BY <1>8, <1>9, <2>1, <3>2 DEF RunFits, Ended
    <3> QED
      BY <3>1, <3>2
  <2>3. CASE j = k
    <3>1. jobs'[j].state \in {"active", "done"}
      BY <1>3, <1>5, <2>3
    <3>2. i = n \/ (i # n /\ runs'[j][i] = runs[j][i])
      BY <1>8, <2>3
    <3> QED
      BY <1>1, <1>6, <1>7, <2>1, <2>2, <2>3, <3>1, <3>2 DEF RunFits
  <2>4. CASE j # k
    <3>1. jobs'[j] = jobs[j] /\ runs'[j][i] = runs[j][i]
      BY <1>5, <1>8, <2>4
    <3> QED
      BY <1>6, <2>1, <2>2, <3>1 DEF RunFits
  <2> QED
    BY <2>3, <2>4
<1>12. CachedByRun'
  BY <1>1, <1>9 DEF OwedInv, CachedByRun, Ended
<1>13. (\A p \in DOMAIN out : PostOK(p))'
  BY <1>1 DEF OwedInv, PostOK
<1> QED
  BY <1>1, <1>10, <1>11, <1>12, <1>13 DEF OwedInv

LEMMA OwedRuns ==
    ASSUME ChatInv, OwedInv, NEW k \in Keys, NEW n \in Tries,
           Run(k, n) \/ RunMute(k, n) \/ RunDie(k, n)
    PROVE  OwedInv'
<1>1. jobs' = jobs /\ out' = out
  BY DEF Run, RunGet, RunRecord, RunReply, RunMute, RunCache, RunDie
<1>2. CASE RunGet(k, n)
  <2>1. CASE k \in cached
    <3>1. RunTo(k, n, "cached")
      BY <1>2, <2>1 DEF RunGet
    <3> QED
      BY <1>1, <1>2, <2>1, <3>1, OwedRun DEF RunGet, RunAt, records, RunPcs
  <2>2. CASE k \notin cached
    <3>1. RunTo(k, n, "record")
      BY <1>2, <2>2 DEF RunGet
    <3> QED
      BY <1>1, <1>2, <3>1, OwedRun DEF RunGet, RunAt, records, RunPcs
  <2> QED
    BY <2>1, <2>2
<1>3. CASE RunRecord(k, n)
  BY <1>1, <1>3, OwedRun DEF RunRecord, RunAt, RunPcs
<1>4. CASE RunReply(k, n)
  BY <1>1, <1>4, OwedRun DEF RunReply, RunAt, RunPcs
<1>5. CASE RunCache(k, n)
  <2>1. PICK pc \in Ended : RunTo(k, n, pc) /\ runs[k][n] \in {"cache", "silent"}
    BY <1>5 DEF RunCache, Ended
  <2> QED
    BY <1>1, <1>5, <2>1, OwedRun DEF RunCache, RunPcs, Ended
<1>6. CASE RunDie(k, n)
  BY <1>1, <1>6, OwedRun DEF RunDie, records, RunPcs
<1>7. CASE RunMute(k, n)
  BY <1>1, <1>7, OwedRun DEF RunMute, RunAt, records, RunPcs
<1> QED
  BY <1>2, <1>3, <1>4, <1>5, <1>6, <1>7 DEF Run

LEMMA OwedCrash ==
    ASSUME ChatInv, OwedInv, Crash
    PROVE  OwedInv'
<1>1. runs' = runs /\ cached' = cached /\ out' = out
      /\ jobs' = [k \in Keys |-> IF jobs[k].state \in {"active", "replied"}
                                 THEN [jobs[k] EXCEPT !.state = "stalled"] ELSE jobs[k]]
  BY DEF Crash, records
<1>2. ASSUME NEW k \in Keys
      PROVE  \/ jobs'[k] = jobs[k]
             \/ /\ jobs[k].state \in {"active", "replied"} /\ jobs'[k].state = "stalled"
                /\ jobs'[k].fails = jobs[k].fails /\ jobs'[k].stalls = jobs[k].stalls
  <2>1. jobs[k] \in ChatJob
    BY DEF ChatInv
  <2>2. CASE jobs[k].state \in {"active", "replied"}
    <3>1. jobs'[k] = [jobs[k] EXCEPT !.state = "stalled"]
      BY <1>1, <2>2
    <3> QED
      BY <2>1, <2>2, <3>1 DEF ChatJob
  <2> QED
    BY <1>1, <2>2
<1>3. ASSUME NEW k \in Keys PROVE JobOwes(k)'
  <2>1. JobOwes(k) /\ (PostedFor(k)' <=> PostedFor(k))
    BY <1>1 DEF OwedInv, PostedFor
  <2> QED
    BY <1>1, <1>2, <2>1 DEF JobOwes, WhyNone, ResponseLost, TurnedAway, EndsMute, Try
<1>4. ASSUME NEW k \in Keys, NEW n \in Tries PROVE RunFits(k, n)'
  <2>1. RunFits(k, n)
    BY DEF OwedInv
  <2> QED
    BY <1>1, <1>2, <2>1 DEF RunFits, Try
<1>5. CachedByRun' /\ (\A p \in DOMAIN out : PostOK(p))'
  BY <1>1 DEF OwedInv, CachedByRun, PostOK
<1> QED
  BY <1>1, <1>3, <1>4, <1>5 DEF OwedInv

LEMMA OwedNext == ChatInv /\ OwedInv /\ [Next]_vars => OwedInv'
<1> SUFFICES ASSUME ChatInv, OwedInv, [Next]_vars PROVE OwedInv'
  OBVIOUS
<1>1. CASE UNCHANGED vars
  <2>1. jobs' = jobs /\ runs' = runs /\ cached' = cached /\ out' = out
    BY <1>1 DEF vars
  <2>2. \A p \in DOMAIN out' : PostOK(p)'
    BY <2>1 DEF OwedInv, PostOK
  <2> QED
    BY <2>1, <2>2, OwedSame
<1>2. CASE Next
  BY <1>2, OwedOutside, OwedPosts, OwedQueues, OwedFails, OwedReplies, OwedEnds, OwedRequeue,
     OwedStarts, OwedRuns, OwedCrash DEF Next, StartUp, Handle, Work
<1> QED
  BY <1>1, <1>2

\* At rest nobody holds a slot of the worker, so nobody waits for one.
LEMMA OwedQuiet == ChatInv /\ OwedInv => QuietIsSettled
<1> SUFFICES ASSUME ChatInv, OwedInv, ChatQuiet, NEW k \in Keys, jobs[k].state # "absent"
             PROVE  Settled(k)
  BY DEF QuietIsSettled
<1>1. \A j \in Keys : jobs[j].state \notin {"active", "replied", "stalled"}
  <2>1. ASSUME NEW j \in Keys, jobs[j].state = "active" PROVE FALSE
    <3>1. Try(j) \in Tries
      BY <2>1, TryIsTry DEF Unfinished
    <3>2. runs[j][Try(j)] \in RunPcs \ {"none", "denied"}
      BY <2>1, <3>1 DEF OwedInv, JobOwes, ChatInv
    <3> QED
      BY <2>1, <3>1, <3>2 DEF ChatQuiet, RunPcs
  <2> QED
    BY <2>1 DEF ChatQuiet
<1>2. {j \in Keys : jobs[j].state \in {"active", "replied"}} = {}
  BY <1>1
<1>3. jobs[k].state # "waiting"
  <2>1. Cardinality({}) = 0
    BY FS_EmptySet
  <2> QED
    BY <1>2, <2>1 DEF ChatQuiet
<1>4. jobs[k].state \in {"done", "failed"}
  BY <1>1, <1>3 DEF ChatInv, ChatJob
<1>5. JobOwes(k)
  BY DEF OwedInv
<1>6. CASE PostedFor(k)
  <2>1. PICK p \in DOMAIN out : p.key = k
    BY <1>6 DEF PostedFor
  <2>2. PostOK(p) /\ out[p].state # "queued"
    BY <2>1 DEF OwedInv, ChatQuiet
  <2> QED
    BY <2>1, <2>2 DEF Settled, PostOK, ChatPost
<1>7. CASE ~PostedFor(k)
  BY <1>4, <1>5, <1>7 DEF JobOwes, Settled
<1> QED
  BY <1>6, <1>7

\* When the gateway, its workers and the orchestrator have nothing left to do, no
\* message that was queued is forgotten, but in the ways named here: the client was
\* sent an answer or the fallback, or every attempt was used up, or a response was
\* lost, a crash came in between, the API itself turned the request away (429, 401,
\* 500: the job completes in silence), or the run succeeded with nothing left to say
\* (processOrchestrateJob, processOutboundJob, _process_inner).
THEOREM NothingIsLeftLying == Spec => []QuietIsSettled
<1>1. Spec => []ChatInv
  BY ChatStart, ChatNext, PTL DEF Spec
<1> QED
  BY <1>1, OwedStart, OwedNext, OwedQuiet, PTL DEF Spec

\* The catch-up: a message is in the records or was queued, is in a handler's hands,
\* or the rate limit dropped it.
TakenUp(m) == m \in recorded \/ jobs[InKey(m)].state # "absent"
InHand(m) == handler[m] \in {"event", "checked"}
Dropped == "drop" \in Faults /\ faults > 0

ReadIsQueued == read > 0 => TakenUp(read) \/ Dropped

\* What the client sees as read is on record or still being worked on, its answer or
\* the fallback is in the queue `outbound`, or one of the ways it came to nothing:
\* the rate limit, attempts or stalls used up, a lost response, a crash, or the API
\* turning the request away.
ReadIsTakenUp ==
    read > 0 =>
        LET k == InKey(read)
        IN  \/ read \in recorded \/ jobs[k].state \in Unfinished \/ PostedFor(k)
            \/ Dropped
            \/ jobs[k].state = "failed" /\ (jobs[k].fails = Attempts \/ jobs[k].stalls = MaxStalls)
            \/ ResponseLost(k) \/ jobs[k].stalls > 0 \/ TurnedAway(k)

TakeInv ==
    /\ sent \in 0..MaxMsg /\ read \in 0..MaxMsg /\ faults \in Nat
    /\ handler \in [Messages -> {"none", "event", "checked"}]
    /\ ReadIsQueued
    /\ boot.pc = "mark" =>
           /\ boot.msg \in Messages /\ boot.await = boot.msg
           /\ InHand(boot.msg) \/ TakenUp(boot.msg) \/ Dropped

LEMMA TakeStart == Init => TakeInv
BY ChatAssumption DEF Init, TakeInv, ReadIsQueued

\* The steps of the gateway, of a worker on a job, of a run of the orchestrator and of
\* the sender.
GatewayStep == \/ Send \/ StartUp \/ Crash \/ Restart
               \/ \E m \in Messages : Handle(m)
JobStep(k) == Work(k) \/ RefuseJob(k) \/ LoseResponse(k) \/ GiveUp(k) \/ TurnAway(k)
RunStep(k, n) == Run(k, n) \/ RunMute(k, n) \/ RunDie(k, n)

LEMMA StepsAre ==
    ASSUME [Next]_vars
    PROVE  \/ UNCHANGED vars
           \/ GatewayStep
           \/ \E k \in Keys : JobStep(k)
           \/ \E k \in Keys, n \in Tries : RunStep(k, n)
           \/ \E p \in DOMAIN out : Deliver(p) \/ RefusePost(p)
BY DEF Next, GatewayStep, JobStep, RunStep

\* What a gateway, a worker or a run leaves alone.
LEMMA GatewayLeaves ==
    ASSUME GatewayStep
    PROVE  recorded' = recorded /\ (faults' = faults \/ \E f : Fault(f))
BY DEF GatewayStep, Send, StartUp, Connect, CatchUpUnread, MarkRead, FetchOpenDeals, CatchUpSince,
       ResumeDeal, Crash, Restart, Handle, HandlerCheck, HandlerEnqueue, records

LEMMA JobLeaves ==
    ASSUME NEW k \in Keys, JobStep(k)
    PROVE  /\ UNCHANGED <<sent, read, boot, handler, recorded>>
           /\ faults' = faults \/ \E f : Fault(f)
<1>1. CASE Work(k)
  BY <1>1 DEF Work, StartJob, SkipCached, Reply, CompleteJob, RequeueStalled, gateway, records
<1>2. CASE RefuseJob(k) \/ LoseResponse(k) \/ GiveUp(k) \/ TurnAway(k)
  BY <1>2 DEF RefuseJob, LoseResponse, GiveUp, TurnAway, gateway, records
<1> QED
  BY <1>1, <1>2 DEF JobStep

LEMMA RunLeaves ==
    ASSUME NEW k \in Keys, NEW n \in Tries, RunStep(k, n)
    PROVE  /\ UNCHANGED <<sent, read, boot, handler, jobs>> /\ recorded \subseteq recorded'
           /\ faults' = faults \/ \E f : Fault(f)
<1>1. CASE Run(k, n)
  BY <1>1 DEF Run, RunGet, RunRecord, RunReply, RunCache, gateway, records
<1>2. CASE RunMute(k, n) \/ RunDie(k, n)
  BY <1>2 DEF RunMute, RunDie, gateway, records
<1> QED
  BY <1>1, <1>2 DEF RunStep

LEMMA PostLeaves ==
    ASSUME NEW p \in DOMAIN out, Deliver(p) \/ RefusePost(p)
    PROVE  /\ UNCHANGED <<sent, read, boot, handler, jobs, recorded>>
           /\ faults' = faults \/ \E f : Fault(f)
BY DEF Deliver, RefusePost, gateway, records

\* What is recorded or queued stays so.
LEMMA TakenStays ==
    ASSUME ChatInv, [Next]_vars, NEW m \in Messages, TakenUp(m)
    PROVE  TakenUp(m)'
<1>1. recorded \subseteq recorded'
  <2>1. CASE UNCHANGED vars
    BY <2>1 DEF vars, records
  <2> QED
    BY <2>1, StepsAre, GatewayLeaves, JobLeaves, RunLeaves, PostLeaves
<1>2. jobs \in [Keys -> ChatJob] /\ InKey(m) \in Keys
  BY KeysAre DEF ChatInv
<1>3. ASSUME NEW j \in Keys, jobs[j].state # "absent" PROVE jobs'[j].state # "absent"
  <2>1. jobs[j] \in ChatJob
    BY <1>2
  <2>2. ASSUME NEW k, Add(k) PROVE jobs'[j].state # "absent"
    BY <1>2, <1>3, <2>1, <2>2 DEF Add, ChatJob
  <2>3. ASSUME NEW k \in Keys, NEW st, st # "absent", Set(k, st)
        PROVE  jobs'[j].state # "absent"
    BY <1>2, <1>3, <2>1, <2>3 DEF Set, ChatJob
  <2>4. ASSUME NEW k \in Keys, FailAttempt(k) PROVE jobs'[j].state # "absent"
    <3> DEFINE st == IF jobs[k].fails + 1 < Attempts THEN "waiting" ELSE "failed"
               y == [jobs[k] EXCEPT !.fails = jobs[k].fails + 1]
               x == [y EXCEPT !.state = st]
    <3>1. jobs' = [jobs EXCEPT ![k] = x]
      BY <2>4 DEF FailAttempt
    <3>2. st # "absent"
      OBVIOUS
    <3> HIDE DEF st
    <3>3. x.state = st
      BY <1>2 DEF ChatJob
    <3> HIDE DEF x, y
    <3> QED
      BY <1>2, <1>3, <3>1, <3>2, <3>3
  <2>5. ASSUME NEW k \in Keys, RequeueStalled(k) PROVE jobs'[j].state # "absent"
    <3>1. CASE jobs[k].stalls < MaxStalls
      <4> DEFINE y == [jobs[k] EXCEPT !.stalls = jobs[k].stalls + 1]
                 x == [y EXCEPT !.state = "waiting"]
      <4>1. jobs' = [jobs EXCEPT ![k] = x]
        BY <2>5, <3>1 DEF RequeueStalled
      <4>2. x.state = "waiting"
        BY <1>2 DEF ChatJob
      <4> HIDE DEF x
      <4> QED
        BY <1>2, <1>3, <4>1, <4>2
    <3>2. CASE ~(jobs[k].stalls < MaxStalls)
      BY <1>2, <1>3, <2>1, <2>3, <2>5, <3>2 DEF RequeueStalled, Set
    <3> QED
      BY <3>1, <3>2
  <2>6. ASSUME Crash PROVE jobs'[j].state # "absent"
    <3>1. jobs' = [k \in Keys |-> IF jobs[k].state \in {"active", "replied"}
                                  THEN [jobs[k] EXCEPT !.state = "stalled"] ELSE jobs[k]]
      BY <2>6 DEF Crash
    <3> QED
      BY <1>3, <2>1, <3>1 DEF ChatJob
  <2>7. \/ jobs' = jobs
        \/ \E k : Add(k)
        \/ \E k \in Keys : \/ FailAttempt(k) \/ RequeueStalled(k)
                           \/ \E st \in {"active", "replied", "done"} : Set(k, st)
        \/ Crash
    <3>1. CASE UNCHANGED vars
      BY <3>1 DEF vars
    <3>2. CASE GatewayStep
      BY <3>2 DEF GatewayStep, Send, StartUp, Connect, CatchUpUnread, MarkRead, FetchOpenDeals,
             CatchUpSince, ResumeDeal, Restart, Handle, HandlerCheck, HandlerEnqueue
    <3>3. ASSUME NEW k \in Keys, JobStep(k)
          PROVE  \/ jobs' = jobs \/ FailAttempt(k) \/ RequeueStalled(k)
                 \/ \E st \in {"active", "replied", "done"} : Set(k, st)
      <4>1. CASE Work(k)
        BY <4>1 DEF Work, StartJob, SkipCached, Reply, CompleteJob
      <4>2. CASE RefuseJob(k) \/ LoseResponse(k) \/ GiveUp(k) \/ TurnAway(k)
        BY <4>2 DEF RefuseJob, LoseResponse, GiveUp, TurnAway
      <4> QED
        BY <3>3, <4>1, <4>2 DEF JobStep
    <3>4. (\E k \in Keys, n \in Tries : RunStep(k, n))
            \/ (\E p \in DOMAIN out : Deliver(p) \/ RefusePost(p)) => jobs' = jobs
      BY RunLeaves, PostLeaves
    <3> QED
      BY <3>1, <3>2, <3>3, <3>4, StepsAre
  <2> QED
    BY <1>3, <2>2, <2>3, <2>4, <2>5, <2>6, <2>7
<1> QED
  BY <1>1, <1>2, <1>3 DEF TakenUp

LEMMA FaultsGrow ==
    ASSUME TakeInv, [Next]_vars
    PROVE  faults' \in Nat /\ faults' >= faults
<1>1. faults' = faults \/ \E f : Fault(f)
  <2>1. CASE UNCHANGED vars
    BY <2>1 DEF vars
  <2> QED
    BY <2>1, StepsAre, GatewayLeaves, JobLeaves, RunLeaves, PostLeaves
<1> QED
  BY <1>1 DEF Fault, TakeInv

\* A step that marks nothing read, lets go of no message and leaves the place where
\* the catch-up awaits one as it is.
LEMMA TakeSame ==
    ASSUME ChatInv, TakeInv, [Next]_vars, sent' \in 0..MaxMsg, read' = read,
           handler' \in [Messages -> {"none", "event", "checked"}],
           boot'.pc = "mark" => boot' = boot,
           \A m \in Messages : InHand(m) => InHand(m)' \/ TakenUp(m)' \/ Dropped'
    PROVE  TakeInv'
<1>1. faults' \in Nat /\ (Dropped => Dropped')
  BY FaultsGrow DEF Dropped, TakeInv
<1>2. \A m \in Messages : TakenUp(m) => TakenUp(m)'
  BY TakenStays
<1>3. read > 0 => read \in Messages
  BY ChatAssumption DEF TakeInv, Messages
<1>4. ReadIsQueued'
  <2> SUFFICES ASSUME read > 0 PROVE TakenUp(read)' \/ Dropped'
    BY DEF ReadIsQueued, TakenUp, InKey
  <2> QED
    BY <1>1, <1>2, <1>3 DEF TakeInv, ReadIsQueued
<1>5. \A m \in Messages : InHand(m) \/ TakenUp(m) \/ Dropped => InHand(m)' \/ TakenUp(m)' \/ Dropped'
  BY <1>1, <1>2
<1>6. (boot.pc = "mark" => /\ boot.msg \in Messages /\ boot.await = boot.msg
                           /\ InHand(boot.msg) \/ TakenUp(boot.msg) \/ Dropped)'
  <2> SUFFICES ASSUME boot'.pc = "mark"
               PROVE  (/\ boot.msg \in Messages /\ boot.await = boot.msg
                       /\ InHand(boot.msg) \/ TakenUp(boot.msg) \/ Dropped)'
    OBVIOUS
  <2>1. boot' = boot /\ boot.pc = "mark"
    OBVIOUS
  <2>2. PICK m \in Messages : m = boot.msg /\ boot.await = m /\ (InHand(m) \/ TakenUp(m) \/ Dropped)
    BY <2>1 DEF TakeInv
  <2>3. m = boot'.msg /\ boot'.await = m /\ (InHand(m)' \/ TakenUp(m)' \/ Dropped')
    BY <1>5, <2>1, <2>2
  <2> QED
    BY <2>3 DEF InHand, TakenUp, InKey
<1> QED
  BY <1>1, <1>4, <1>6 DEF TakeInv

\* One more event of a message takes no other out of its handler's hands.
LEMMA NotifyKeeps ==
    ASSUME TakeInv, NEW e \in Messages, handler' = Notify(e)
    PROVE  /\ handler' \in [Messages -> {"none", "event", "checked"}]
           /\ InHand(e)'
           /\ \A m \in Messages : InHand(m) => InHand(m)'
BY DEF Notify, TakeInv, InHand

LEMMA TakeNext == ChatInv /\ TakeInv /\ [Next]_vars => TakeInv'
<1> SUFFICES ASSUME ChatInv, TakeInv, [Next]_vars PROVE TakeInv'
  OBVIOUS
<1>1. CASE Send
  <2>1. sent' = sent + 1 /\ sent + 1 \in Messages /\ read' = read /\ boot' = boot
    BY <1>1, ChatAssumption DEF Send, TakeInv, Messages
  <2>2. handler' = handler \/ handler' = Notify(sent + 1)
    BY <1>1 DEF Send
  <2>3. /\ handler' \in [Messages -> {"none", "event", "checked"}]
        /\ \A m \in Messages : InHand(m) => InHand(m)'
    BY <2>1, <2>2, NotifyKeeps DEF TakeInv, InHand
  <2>4. sent' \in 0..MaxMsg
    BY <2>1, ChatAssumption DEF Messages
  <2> QED
    BY <2>1, <2>3, <2>4, TakeSame
<1>2. CASE CatchUpUnread
  <2>1. CASE sent > read
    <3>1. /\ handler' = Notify(sent) /\ sent \in Messages /\ sent' = sent /\ read' = read
          /\ boot' = [pc |-> "mark", msg |-> sent, await |-> sent]
          /\ jobs' = jobs /\ recorded' = recorded /\ faults' = faults
      BY <1>2, <2>1, ChatAssumption DEF CatchUpUnread, Boot, TakeInv, Messages, records
    <3>2. /\ handler' \in [Messages -> {"none", "event", "checked"}]
          /\ InHand(sent)'
      BY <3>1, NotifyKeeps
    <3>3. boot'.msg = sent /\ boot'.await = sent
      BY <3>1
    <3>4. ReadIsQueued'
      BY <3>1 DEF TakeInv, ReadIsQueued, TakenUp, Dropped, InKey
    <3> QED
      BY <3>1, <3>2, <3>3, <3>4 DEF TakeInv, InHand
  <2>2. CASE ~(sent > read)
    <3>1. /\ handler' = handler /\ sent' = sent /\ read' = read /\ boot'.pc = "deals"
      BY <1>2, <2>2 DEF CatchUpUnread, Boot
    <3> QED
      BY <3>1, TakeSame DEF TakeInv, InHand
  <2> QED
    BY <2>1, <2>2
<1>3. CASE MarkRead
  <2>1. /\ read' = boot.msg /\ boot'.pc = "deals" /\ boot.pc = "mark" /\ Awaited
        /\ sent' = sent /\ handler' = handler /\ jobs' = jobs /\ recorded' = recorded
        /\ faults' = faults
    BY <1>3 DEF MarkRead, Boot, records
  <2>2. boot.msg \in Messages /\ handler[boot.msg] = "none"
    BY <2>1 DEF TakeInv, Awaited
  <2>3. TakenUp(boot.msg) \/ Dropped
    BY <2>1, <2>2 DEF TakeInv, InHand
  <2>4. ReadIsQueued'
    BY <2>1, <2>3 DEF ReadIsQueued, TakenUp, Dropped, InKey
  <2>5. read' \in 0..MaxMsg
    BY <2>1, <2>2, ChatAssumption DEF Messages
  <2> QED
    BY <2>1, <2>4, <2>5 DEF TakeInv
<1>4. CASE CatchUpSince
  <2>1. /\ sent' = sent /\ read' = read /\ boot'.pc = "resume"
        /\ handler' = handler \/ (sent > boot.msg /\ handler' = Notify(sent))
    BY <1>4 DEF CatchUpSince, Boot
  <2>2. /\ handler' \in [Messages -> {"none", "event", "checked"}]
        /\ \A m \in Messages : InHand(m) => InHand(m)'
    BY <2>1 DEF Notify, TakeInv, InHand
  <2> QED
    BY <2>1, <2>2, TakeSame DEF TakeInv
<1>5. CASE \E m \in Messages : Handle(m)
  <2>1. PICK m \in Messages : Handle(m)
    BY <1>5
  <2>2. sent' = sent /\ read' = read /\ boot' = boot
    BY <2>1 DEF Handle, HandlerCheck, HandlerEnqueue
  <2>3. PICK st \in {"none", "event", "checked"} : handler' = [handler EXCEPT ![m] = st]
    BY <2>1 DEF Handle, HandlerCheck, HandlerEnqueue
  <2>4. /\ handler' \in [Messages -> {"none", "event", "checked"}]
        /\ \A j \in Messages : j # m => handler'[j] = handler[j]
    BY <2>3 DEF TakeInv
  <2>5. InHand(m)' \/ TakenUp(m)' \/ Dropped'
    <3>1. CASE HandlerCheck(m)
      <4>1. m \in recorded \/ handler' = [handler EXCEPT ![m] = "checked"] \/ Fault("drop")
        BY <3>1 DEF HandlerCheck
      <4>2. m \in recorded => TakenUp(m)'
        BY TakenStays DEF TakenUp
      <4>3. Fault("drop") => Dropped'
        BY DEF Fault, Dropped, TakeInv
      <4> QED
        BY <4>1, <4>2, <4>3 DEF InHand, TakeInv
    <3>2. CASE HandlerEnqueue(m)
      <4>1. Add(InKey(m)) /\ InKey(m) \in Keys
        BY <3>2, KeysAre DEF HandlerEnqueue
      <4>2. jobs[InKey(m)] \in ChatJob
        BY <4>1 DEF ChatInv
      <4>3. jobs'[InKey(m)].state # "absent"
        BY <4>1, <4>2 DEF Add, ChatInv, ChatJob
      <4> QED
        BY <4>3 DEF TakenUp, InKey
    <3> QED
      BY <2>1, <3>1, <3>2 DEF Handle
  <2>6. \A j \in Messages : InHand(j) => InHand(j)' \/ TakenUp(j)' \/ Dropped'
    BY <2>4, <2>5 DEF InHand
  <2> QED
    BY <2>2, <2>4, <2>6, TakeSame DEF TakeInv
<1>6. CASE Crash
  <2>1. /\ sent' = sent /\ read' = read /\ boot'.pc = "down"
        /\ handler' = [m \in Messages |-> "none"]
    BY <1>6 DEF Crash, Boot
  <2>2. faults' \in Nat /\ (Dropped => Dropped')
    BY FaultsGrow DEF Dropped, TakeInv
  <2>3. read > 0 => read \in Messages
    BY ChatAssumption DEF TakeInv, Messages
  <2>4. \A m \in Messages : TakenUp(m) => TakenUp(m)'
    BY TakenStays
  <2>5. ReadIsQueued'
    <3> SUFFICES ASSUME read > 0 PROVE TakenUp(read)' \/ Dropped'
      BY <2>1 DEF ReadIsQueued, TakenUp, InKey
    <3>1. TakenUp(read) \/ Dropped
      BY DEF TakeInv, ReadIsQueued
    <3> QED
      BY <2>1, <2>2, <2>3, <2>4, <3>1 DEF TakenUp, InKey
  <2> QED
    BY <2>1, <2>2, <2>5 DEF TakeInv
<1>7. CASE \/ Connect \/ FetchOpenDeals \/ ResumeDeal \/ Restart \/ UNCHANGED vars
           \/ \E k \in Keys : JobStep(k) \/ \E n \in Tries : RunStep(k, n)
           \/ \E p \in DOMAIN out : Deliver(p) \/ RefusePost(p)
  <2>1. sent' = sent /\ read' = read /\ handler' = handler /\ (boot'.pc = "mark" => boot' = boot)
    <3>1. CASE Connect \/ FetchOpenDeals \/ ResumeDeal \/ Restart
      <4>1. boot'.pc # "mark"
        BY <3>1 DEF Boot, Connect, FetchOpenDeals, ResumeDeal, Restart
      <4> QED
        BY <3>1, <4>1 DEF Connect, FetchOpenDeals, ResumeDeal, Restart
    <3>2. CASE UNCHANGED vars
      BY <3>2 DEF vars
    <3>3. CASE \/ \E k \in Keys : JobStep(k) \/ \E n \in Tries : RunStep(k, n)
               \/ \E p \in DOMAIN out : Deliver(p) \/ RefusePost(p)
      BY <3>3, JobLeaves, RunLeaves, PostLeaves
    <3> QED
      BY <1>7, <3>1, <3>2, <3>3
  <2> QED
    BY <2>1, TakeSame DEF TakeInv, InHand
<1> QED
  BY <1>1, <1>2, <1>3, <1>4, <1>5, <1>6, <1>7 DEF Next, StartUp, JobStep, RunStep

\* A message that was queued is on record, or its job is not done with, or says why.
LEMMA QueuedIsTaken == ChatInv /\ OwedInv /\ TakeInv => ReadIsTakenUp
<1> SUFFICES ASSUME ChatInv, OwedInv, TakeInv, read > 0, read \notin recorded, ~Dropped
             PROVE  ReadIsTakenUp
  BY DEF ReadIsTakenUp
<1> DEFINE k == InKey(read)
<1>1. read \in Messages
  BY ChatAssumption DEF TakeInv, Messages
<1>2. k \in Keys /\ k.msg = read
  BY <1>1, KeysAre DEF InKey
<1>3. jobs[k].state # "absent"
  BY DEF TakeInv, ReadIsQueued, TakenUp
<1> HIDE DEF k
<1>4. JobOwes(k) /\ jobs[k] \in ChatJob
  BY <1>2 DEF OwedInv, ChatInv
<1>5. ~EndsMute(k)
  BY <1>2 DEF EndsMute, ChatInv, RunOK
<1>6. \/ jobs[k].state \in Unfinished \/ PostedFor(k)
      \/ jobs[k].state = "failed" /\ (jobs[k].fails = Attempts \/ jobs[k].stalls = MaxStalls)
      \/ ResponseLost(k) \/ jobs[k].stalls > 0 \/ TurnedAway(k)
  BY <1>3, <1>4, <1>5 DEF JobOwes, WhyNone, ChatJob, Unfinished
<1> QED
  BY <1>6 DEF ReadIsTakenUp, k

\* Wherever crashes cut the start of the gateway short, the chat is marked read only
\* up to a message that is on record, being worked on or answered, or came to nothing
\* in one of the ways ReadIsTakenUp lists: among them, that the API turned its request
\* away after handleInboundMessage had queued it (catchUpUnread marks after that).
THEOREM ReadOnlyWhatWasTaken == Spec => []ReadIsTakenUp
<1>1. Spec => []ChatInv
  BY ChatStart, ChatNext, PTL DEF Spec
<1>2. Spec => []OwedInv
  BY <1>1, OwedStart, OwedNext, PTL DEF Spec
<1> QED
  BY <1>1, <1>2, TakeStart, TakeNext, QueuedIsTaken, PTL DEF Spec

-----------------------------------------------------------------------------
(* The notices to staff.                                                    *)

NoticeJob == [state: {"absent", "waiting", "staff", "director", "done", "failed"},
              fails: Nat, stalls: Nat]

\* BullMQ ended the job: its attempts are used up, or it stalled twice.
GivenUp(n) == notice[n].fails = NoticeAttempts \/ notice[n].stalls > 1

\* A notice that is past the staff group was posted there, and one that is given
\* up was tried as often as it may be.
NoticesInv ==
    /\ notice \in [Notices -> NoticeJob] /\ told \subseteq Notices
    /\ \A n \in Notices :
         /\ notice[n].state \in {"director", "done"} => n \in told \cup Digests
         /\ NoticeIs(n, "failed") => GivenUp(n)
         /\ ~NoticeIs(n, "failed") => notice[n].fails < NoticeAttempts

\* Neither the worker of the queue nor the check of the quotes has anything to do.
NoticesAtRest ==
    /\ \A n \in Notices : notice[n].state \notin {"waiting", "staff", "director"}
    /\ \A q \in Due : ~NoticeIs(q, "absent")
ToldAtRest ==
    NoticesAtRest => \A n \in Notices \ Digests :
        n \in Due \/ ~NoticeIs(n, "absent") => n \in told \/ GivenUp(n)

LEMMA NoticeSet ==
    ASSUME NEW k \in NoticeJob, NEW l,
           \/ \E x \in {"absent", "waiting", "staff", "director", "done", "failed"} :
                  l = [k EXCEPT !.state = x]
           \/ \E x \in Nat : l = [k EXCEPT !.fails = x] \/ l = [k EXCEPT !.stalls = x]
    PROVE  l \in NoticeJob
BY DEF NoticeJob

LEMMA NoticeParts ==
    ASSUME NEW k \in NoticeJob, NEW x
    PROVE  /\ [k EXCEPT !.state = x].state = x
           /\ [k EXCEPT !.state = x].fails = k.fails
           /\ [k EXCEPT !.state = x].stalls = k.stalls
           /\ [k EXCEPT !.fails = x].state = k.state
           /\ [k EXCEPT !.fails = x].fails = x
           /\ [k EXCEPT !.stalls = x].fails = k.fails
           /\ [k EXCEPT !.stalls = x].stalls = x
BY DEF NoticeJob

\* A step of one notice, which may tell it.
LEMMA NoticeStep ==
    ASSUME NoticesInv, NEW n \in Notices, NEW k \in NoticeJob,
           notice' = [notice EXCEPT ![n] = k], told' = told \/ told' = told \cup {n},
           k.state \in {"director", "done"} => n \in told' \cup Digests,
           k.state = "failed" => k.fails = NoticeAttempts \/ k.stalls > 1,
           k.state # "failed" => k.fails < NoticeAttempts
    PROVE  NoticesInv'
<1>1. /\ notice' \in [Notices -> NoticeJob] /\ notice'[n] = k
      /\ \A m \in Notices : m # n => notice'[m] = notice[m]
  BY DEF NoticesInv
<1>2. told \subseteq told' /\ told' \subseteq Notices
  BY DEF NoticesInv
<1>3. ASSUME NEW m \in Notices
      PROVE  /\ notice'[m].state \in {"director", "done"} => m \in told' \cup Digests
             /\ notice'[m].state = "failed"
                    => notice'[m].fails = NoticeAttempts \/ notice'[m].stalls > 1
             /\ notice'[m].state # "failed" => notice'[m].fails < NoticeAttempts
  <2>1. CASE m = n
    BY <1>1, <2>1
  <2>2. CASE m # n
    BY <1>1, <1>2, <2>2 DEF NoticesInv, GivenUp, NoticeIs
  <2> QED
    BY <2>1, <2>2
<1> QED
  BY <1>1, <1>2, <1>3 DEF NoticesInv, GivenUp, NoticeIs

\* A notice that is asked for is new in the queue, or stays as it is.
LEMMA EnqueuedKeeps ==
    ASSUME NoticesInv, NEW new, notice' = Enqueued(new), told' = told
    PROVE  NoticesInv'
<1> DEFINE k == [NoNotice EXCEPT !.state = "waiting"]
<1>1. k \in NoticeJob /\ k.state = "waiting" /\ k.fails = 0
  BY DEF NoticeJob, NoNotice
<1>2. notice' = [n \in Notices |-> IF n \in new /\ NoticeIs(n, "absent") THEN k ELSE notice[n]]
  BY DEF Enqueued
<1> HIDE DEF k
<1>3. notice' \in [Notices -> NoticeJob]
  BY <1>1, <1>2 DEF NoticesInv
<1>4. ASSUME NEW n \in Notices
      PROVE  /\ notice'[n].state \in {"director", "done"} => n \in told' \cup Digests
             /\ notice'[n].state = "failed"
                    => notice'[n].fails = NoticeAttempts \/ notice'[n].stalls > 1
             /\ notice'[n].state # "failed" => notice'[n].fails < NoticeAttempts
  <2>1. notice'[n] = notice[n] \/ notice'[n] = k
    BY <1>2
  <2>2. 0 < NoticeAttempts
    BY NoticeAssumption
  <2> QED
    BY <1>1, <2>1, <2>2 DEF NoticesInv, GivenUp, NoticeIs
<1> QED
  BY <1>3, <1>4 DEF NoticesInv, GivenUp, NoticeIs

\* The worker posts a notice, or fails to.
LEMMA PostKeeps ==
    ASSUME NoticesInv, NEW n \in Notices, PostNotice(n) \/ PostFlat(n) \/ FailNotice(n)
    PROVE  NoticesInv'
<1> DEFINE k0 == notice[n]
<1>1. /\ k0 \in NoticeJob /\ k0.fails \in Nat
      /\ k0.state \in {"director", "done"} => n \in told \cup Digests
      /\ k0.state # "failed" => k0.fails < NoticeAttempts
  BY DEF NoticesInv, NoticeIs, NoticeJob
<1>2. CASE TakeNotice(n)
  <2> DEFINE st == IF n \in Digests THEN "director" ELSE "staff"
             k == [k0 EXCEPT !.state = st]
  <2>1. /\ st \in {"director", "staff"} /\ (st = "director" => n \in Digests)
        /\ notice' = [notice EXCEPT ![n] = k] /\ told' = told /\ k0.state = "waiting"
    BY <1>2 DEF TakeNotice, NoticeTo, NoticeIs
  <2> HIDE DEF st, k0
  <2>2. k \in NoticeJob /\ k.state = st /\ k.fails = k0.fails
    BY <1>1, <2>1, NoticeSet, NoticeParts
  <2> HIDE DEF k
  <2> QED
    BY <1>1, <2>1, <2>2, NoticeStep
<1>3. CASE PostToStaff(n) \/ PostFlat(n)
  <2> DEFINE st == AfterStaff(n)
             k == [k0 EXCEPT !.state = st]
  <2>1. /\ st \in {"director", "done"} /\ told' = told \cup {n}
        /\ notice' = [notice EXCEPT ![n] = k] /\ k0.state = "staff"
    BY <1>3 DEF PostToStaff, PostFlat, NoticeTo, NoticeIs, AfterStaff
  <2> HIDE DEF st, k0
  <2>2. k \in NoticeJob /\ k.state = st /\ k.fails = k0.fails
    BY <1>1, <2>1, NoticeSet, NoticeParts
  <2> HIDE DEF k
  <2> QED
    BY <1>1, <2>1, <2>2, NoticeStep
<1>4. CASE PostToDirector(n)
  <2> DEFINE k == [k0 EXCEPT !.state = "done"]
  <2>1. notice' = [notice EXCEPT ![n] = k] /\ told' = told /\ k0.state = "director"
    BY <1>4 DEF PostToDirector, NoticeTo, NoticeIs
  <2> HIDE DEF k0
  <2>2. k \in NoticeJob /\ k.state = "done" /\ k.fails = k0.fails
    BY <1>1, NoticeSet, NoticeParts
  <2> HIDE DEF k
  <2> QED
    BY <1>1, <2>1, <2>2, NoticeStep
<1>5. CASE FailNotice(n)
  <2> DEFINE st == IF notice[n].fails + 1 < NoticeAttempts THEN "waiting" ELSE "failed"
             f == k0.fails + 1
             g == [k0 EXCEPT !.fails = f]
             k == [g EXCEPT !.state = st]
  <2>1. notice' = [notice EXCEPT ![n] = k] /\ told' = told /\ k0.state \in {"staff", "director"}
    BY <1>5 DEF FailNotice
  <2>2. st \in {"waiting", "failed"} /\ (st = "waiting" <=> f < NoticeAttempts)
    OBVIOUS
  <2>3. f \in Nat /\ f <= NoticeAttempts
    BY <1>1, <2>1, NoticeAssumption
  <2> HIDE DEF st, k0, f
  <2>4. g \in NoticeJob /\ g.fails = f
    BY <1>1, <2>3, NoticeSet, NoticeParts
  <2> HIDE DEF g
  <2>5. k \in NoticeJob /\ k.state = st /\ k.fails = f
    BY <2>2, <2>4, NoticeSet, NoticeParts
  <2>6. k.state = "failed" => k.fails = NoticeAttempts
    BY <2>2, <2>3, <2>5, NoticeAssumption
  <2> HIDE DEF k
  <2> QED
    BY <2>1, <2>2, <2>5, <2>6, NoticeStep
<1> QED
  BY <1>2, <1>3, <1>4, <1>5 DEF PostNotice

\* The gateway dies: what it had in hand has stalled.
LEMMA DeathKeeps ==
    ASSUME NoticesInv, GatewayDies
    PROVE  NoticesInv'
<1> DEFINE st(n) == IF notice[n].stalls = 0 THEN "waiting" ELSE "failed"
           g(n) == [notice[n] EXCEPT !.stalls = notice[n].stalls + 1]
           k(n) == [g(n) EXCEPT !.state = st(n)]
<1>1. notice' = [n \in Notices |-> IF notice[n].state \notin {"staff", "director"} THEN notice[n]
                                   ELSE k(n)]
  BY DEF GatewayDies
<1>2. told' = told
  BY DEF GatewayDies
<1>3. ASSUME NEW n \in Notices
      PROVE  /\ k(n) \in NoticeJob /\ k(n).state = st(n) /\ k(n).fails = notice[n].fails
             /\ k(n).stalls = notice[n].stalls + 1
  <2>1. notice[n] \in NoticeJob /\ notice[n].stalls + 1 \in Nat
    BY DEF NoticesInv, NoticeJob
  <2>2. /\ g(n) \in NoticeJob /\ g(n).fails = notice[n].fails
        /\ g(n).stalls = notice[n].stalls + 1
    BY <2>1, NoticeSet, NoticeParts
  <2>3. st(n) \in {"waiting", "failed"}
    OBVIOUS
  <2> HIDE DEF g, st
  <2> QED
    BY <2>2, <2>3, NoticeSet, NoticeParts
<1>4. ASSUME NEW n \in Notices
      PROVE  /\ st(n) \in {"waiting", "failed"}
             /\ st(n) = "failed" => notice[n].stalls + 1 > 1
  <2>1. notice[n].stalls \in Nat
    BY DEF NoticesInv, NoticeJob
  <2> QED
    BY <2>1
<1> HIDE DEF k, g, st
<1>5. notice' \in [Notices -> NoticeJob]
  BY <1>1, <1>3 DEF NoticesInv
<1>6. ASSUME NEW n \in Notices
      PROVE  /\ notice'[n].state \in {"director", "done"} => n \in told' \cup Digests
             /\ notice'[n].state = "failed"
                    => notice'[n].fails = NoticeAttempts \/ notice'[n].stalls > 1
             /\ notice'[n].state # "failed" => notice'[n].fails < NoticeAttempts
  <2>1. CASE notice[n].state \notin {"staff", "director"}
    <3>1. notice'[n] = notice[n]
      BY <1>1, <2>1
    <3> QED
      BY <1>2, <3>1 DEF NoticesInv, GivenUp, NoticeIs
  <2>2. CASE notice[n].state \in {"staff", "director"}
    <3>1. notice'[n] = k(n)
      BY <1>1, <2>2
    <3>2. notice[n].fails < NoticeAttempts
      BY <2>2 DEF NoticesInv, NoticeIs
    <3> QED
      BY <1>3, <1>4, <3>1, <3>2
  <2> QED
    BY <2>1, <2>2
<1> QED
  BY <1>2, <1>5, <1>6 DEF NoticesInv, GivenUp, NoticeIs

LEMMA NoticesStart == NoticesInit => NoticesInv
<1> SUFFICES ASSUME NoticesInit PROVE NoticesInv
  OBVIOUS
<1>1. NoNotice \in NoticeJob /\ NoNotice.state = "absent" /\ NoNotice.fails = 0
  BY DEF NoNotice, NoticeJob
<1>2. notice \in [Notices -> NoticeJob] /\ \A n \in Notices : notice[n] = NoNotice
  BY <1>1 DEF NoticesInit
<1>3. told = {} /\ 0 < NoticeAttempts
  BY NoticeAssumption DEF NoticesInit
<1> QED
  BY <1>1, <1>2, <1>3 DEF NoticesInv, NoticeIs

LEMMA NoticesNextKeeps == NoticesInv /\ [NoticesNext]_nvars => NoticesInv'
<1> SUFFICES ASSUME NoticesInv, [NoticesNext]_nvars PROVE NoticesInv'
  OBVIOUS
<1>1. CASE notice' = notice /\ told' = told
  BY <1>1 DEF NoticesInv, GivenUp, NoticeIs
<1>2. CASE CheckTtl \/ CheckTtlFails \/ \E n \in Notices : Ask(n)
  <2>1. PICK new : notice' = Enqueued(new)
    BY <1>2 DEF CheckTtl, CheckTtlFails, Ask
  <2>2. told' = told
    BY <1>2 DEF CheckTtl, CheckTtlFails, Ask
  <2> QED
    BY <2>1, <2>2, EnqueuedKeeps
<1>3. CASE GatewayDies
  BY <1>3, DeathKeeps
<1>4. CASE \E n \in Notices : PostNotice(n) \/ PostFlat(n) \/ FailNotice(n)
  BY <1>4, PostKeeps
<1>5. CASE \E q \in Quotes : RunsOut(q) \/ DealMovesOn(q)
  BY <1>1, <1>5 DEF RunsOut, DealMovesOn
<1>6. CASE UNCHANGED nvars
  BY <1>1, <1>6 DEF nvars
<1> QED
  BY <1>2, <1>3, <1>4, <1>5, <1>6 DEF NoticesNext

\* What RunOutIsTold needs of every state: when neither check_quote_ttl nor the
\* worker of the queue `channel` has anything left to do, every quote that ran out
\* while its deal was being bargained over, and every alert, was posted to the staff
\* group - unless BullMQ gave its job up, after as many attempts as it has or two
\* stalls.
THEOREM NoticesAreNotForgotten == NoticesSpec => []ToldAtRest
<1>1. NoticesInv => ToldAtRest
  <2> SUFFICES ASSUME NoticesInv, NoticesAtRest, NEW n \in Notices \ Digests,
                      n \in Due \/ ~NoticeIs(n, "absent")
               PROVE  n \in told \/ GivenUp(n)
    BY DEF ToldAtRest
  <2>1. notice[n].state \in {"done", "failed"}
    BY DEF NoticesAtRest, NoticesInv, NoticeJob, NoticeIs, Due
  <2> QED
    BY <2>1 DEF NoticesInv, NoticeIs
<1> QED
  BY NoticesStart, NoticesNextKeeps, <1>1, PTL DEF NoticesSpec

-----------------------------------------------------------------------------
(* The files of a deal.                                                     *)

Jobs == [state: {"absent", "waiting", "active", "holding", "written", "done", "failed"},
         fails: 0..OcrAttempts, copy: Arrays]
Steps == {"away", "processed", "stored", "appended", "answered", "lost"}

\* What a copy of the array that a hand holds says of the files: what it lists is
\* stored; and of a file nobody raced for it lists what the row lists, and does not
\* take a text back.
SoundCopy(copy) ==
    \A f \in Files :
        /\ copy[f] # Unlisted => f \in stored
        /\ f \notin raced => (copy[f] # Unlisted <=> attachments[f] # Unlisted)
        /\ f \notin raced /\ JobIs(f, {"written", "done"}) => copy[f].ocr # "queued"

FilesInv ==
    /\ FilesTypeOK
    /\ \A f \in Files : ocr[f].state # "failed" => ocr[f].fails < OcrAttempts
    /\ \A f \in Files : ocr[f].state # "absent" => upload[f] = "answered"
    /\ \A f \in Files : upload[f] \in {"stored", "appended", "answered"} => f \in stored
    /\ \A f \in Files : upload[f] \in {"appended", "answered"} /\ f \notin raced
                          => attachments[f] # Unlisted
    /\ SoundCopy(attachments)
    /\ \A g \in Files : JobIs(g, {"holding"}) => SoundCopy(ocr[g].copy)
    /\ mover.on # {} => SoundCopy(mover.copy)
    /\ \A f \in Files : mover.on = {f} => mover.copy[f] # Unlisted
    /\ turn.on => SoundCopy(turn.copy)

\* A text that is written into a copy lists nothing and strikes nothing.
LEMMA ParsedKeeps ==
    ASSUME NEW c \in Arrays, NEW f \in Files, NEW text \in BOOLEAN
    PROVE  /\ Parsed(c, f, text) \in Arrays
           /\ \A g \in Files : Parsed(c, f, text)[g] # Unlisted <=> c[g] # Unlisted
           /\ \A g \in Files : g # f => Parsed(c, f, text)[g] = c[g]
           /\ Parsed(c, f, text)[f].ocr # "queued"
<1>1. CASE c[f] = Unlisted
  BY <1>1 DEF Parsed, Unlisted
<1>2. CASE c[f] # Unlisted
  <2>1. c[f] \in Entries
    BY <1>2 DEF Arrays
  <2>2. PICK o \in {"done", "empty"} : Parsed(c, f, text) = [c EXCEPT ![f].ocr = o]
    BY <1>2 DEF Parsed
  <2>3. [c[f] EXCEPT !.ocr = o] \in Entries /\ [c[f] EXCEPT !.ocr = o].ocr = o
    BY <2>1 DEF Entries
  <2>4. [c[f] EXCEPT !.ocr = o] # Unlisted
    BY <2>3 DEF Entries, Unlisted
  <2> QED BY <1>2, <2>2, <2>3, <2>4 DEF Arrays
<1> QED BY <1>1, <1>2

LEMMA MovedKeeps ==
    ASSUME NEW c \in Arrays, NEW f \in Files, c[f] # Unlisted,
           NEW m, m = [c EXCEPT ![f].folder = "moved"]
    PROVE  /\ m \in Arrays
           /\ \A g \in Files : (m[g] # Unlisted <=> c[g] # Unlisted) /\ m[g].ocr = c[g].ocr
<1>1. c[f] \in Entries
  BY DEF Arrays
<1>2. [c[f] EXCEPT !.folder = "moved"] \in Entries /\ [c[f] EXCEPT !.folder = "moved"].ocr = c[f].ocr
  BY <1>1 DEF Entries
<1>3. [c[f] EXCEPT !.folder = "moved"] # Unlisted
  BY <1>2 DEF Entries, Unlisted
<1> QED BY <1>2, <1>3 DEF Arrays

LEMMA FilesInitInv == FilesInit => FilesInv
<1>1. NoCopy \in Arrays /\ \A f \in Files : NoCopy[f] = Unlisted
  BY DEF NoCopy, Arrays
<1> QED
  BY FileAssumption, <1>1
     DEF FilesInit, FilesInv, FilesTypeOK, SoundCopy, JobIs, NoJob

\* A job that goes on, short of its write to the row, leaves every copy as sound as
\* it was.
LEMMA JobGoesOn ==
    ASSUME FilesInv, NEW f \in Files, ocr[f].state # "absent", NEW job \in Jobs,
           ocr' = [ocr EXCEPT ![f] = job], job.state # "failed" => job.fails < OcrAttempts,
           job.state \in {"written", "done"} => ocr[f].state \in {"written", "done"},
           job.state = "holding" => SoundCopy(job.copy),
           UNCHANGED <<upload, stored, attachments, mover, turn, raced>>,
           fileTroubles' \in 0..FileTroubles, fileHands' \in 0..FileHands
    PROVE  FilesInv'
<1>1. ocr \in [Files -> Jobs] /\ attachments \in Arrays /\ mover.copy \in Arrays /\ turn.copy \in Arrays
      /\ \A g \in Files : ocr[g].copy \in Arrays
  BY DEF FilesInv, FilesTypeOK, Jobs
<1>2. ocr' \in [Files -> Jobs] /\ ocr'[f] = job /\ \A g \in Files : g # f => ocr'[g] = ocr[g]
  BY <1>1
<1>3. \A c \in Arrays : SoundCopy(c) => SoundCopy(c)'
  BY <1>2 DEF SoundCopy, JobIs
<1>4. FilesTypeOK'
  BY <1>2 DEF FilesInv, FilesTypeOK, Jobs
<1>5. ASSUME NEW g \in Files, JobIs(g, {"holding"})'
      PROVE  SoundCopy(ocr[g].copy)'
  <2>1. CASE g = f
    <3>1. job.copy \in Arrays /\ SoundCopy(job.copy)
      BY <1>2, <1>5, <2>1 DEF Jobs, JobIs
    <3>2. SoundCopy(job.copy)'
      BY <1>3, <3>1
    <3>3. ocr'[g].copy = job.copy
      BY <1>2, <2>1
    <3> QED BY <3>2, <3>3 DEF SoundCopy
  <2>2. CASE g # f
    <3>1. ocr'[g] = ocr[g] /\ SoundCopy(ocr[g].copy) /\ ocr[g].copy \in Arrays
      BY <1>1, <1>2, <1>5, <2>2 DEF FilesInv, JobIs
    <3> QED BY <1>3, <3>1 DEF SoundCopy
  <2> QED BY <2>1, <2>2
<1>6. SoundCopy(attachments)' /\ (mover.on # {} => SoundCopy(mover.copy))'
      /\ (turn.on => SoundCopy(turn.copy))'
  BY <1>1, <1>3 DEF FilesInv
<1> QED
  BY <1>2, <1>4, <1>5, <1>6 DEF FilesInv

LEMMA FilesStepInv == FilesInv /\ [FilesNext]_fvars => FilesInv'
<1> SUFFICES ASSUME FilesInv, [FilesNext]_fvars
             PROVE  FilesInv'
  OBVIOUS
<1>a. /\ upload \in [Files -> Steps] /\ ocr \in [Files -> Jobs] /\ attachments \in Arrays
      /\ mover.copy \in Arrays /\ turn.copy \in Arrays /\ NoCopy \in Arrays
      /\ \A f \in Files : ocr[f].copy \in Arrays
  BY DEF FilesInv, FilesTypeOK, Jobs, Steps, NoCopy, Arrays
<1> USE FileAssumption DEF UploadIs, Uploaded
<1>1. ASSUME NEW f \in Files, ChatProcessed(f) \/ GatewayLosesFile(f)
      PROVE  FilesInv'
  <2>1. PICK at \in {"processed", "lost"} : upload' = [upload EXCEPT ![f] = at]
    BY <1>1 DEF ChatProcessed, GatewayLosesFile
  <2>2. /\ UNCHANGED <<stored, attachments, ocr, fhands, fileHands>>
        /\ \/ fileTroubles' = fileTroubles
           \/ fileTroubles < FileTroubles /\ fileTroubles' = fileTroubles + 1
        /\ upload[f] \in {"away", "processed"}
    BY <1>1 DEF ChatProcessed, GatewayLosesFile, FileTrouble, fbounds
  <2>3. /\ mover' = mover /\ turn' = turn /\ raced' = raced /\ stored' = stored
        /\ attachments' = attachments /\ ocr' = ocr
    BY <2>2 DEF fhands, fbounds
  <2>4. upload' \in [Files -> Steps] /\ upload'[f] = at /\ \A g \in Files : g # f => upload'[g] = upload[g]
    BY <1>a, <2>1 DEF Steps
  <2>5. FilesTypeOK'
    BY <1>a, <2>2, <2>3, <2>4 DEF FilesInv, FilesTypeOK, Steps
  <2>6. \A g \in Files : /\ ocr'[g].state # "absent" => upload'[g] = "answered"
                         /\ upload'[g] \in {"stored", "appended", "answered"} => g \in stored'
                         /\ upload'[g] \in {"appended", "answered"} /\ g \notin raced'
                              => attachments'[g] # Unlisted
    <3> SUFFICES ASSUME NEW g \in Files
                 PROVE  /\ ocr[g].state # "absent" => upload'[g] = "answered"
                        /\ upload'[g] \in {"stored", "appended", "answered"} => g \in stored
                        /\ upload'[g] \in {"appended", "answered"} /\ g \notin raced
                             => attachments[g] # Unlisted
      BY <2>3
    <3>1. CASE g = f
      BY <2>2, <2>4, <3>1 DEF FilesInv
    <3>2. CASE g # f
      BY <2>4, <3>2 DEF FilesInv
    <3> QED BY <3>1, <3>2
  <2>7. /\ SoundCopy(attachments)' /\ (mover.on # {} => SoundCopy(mover.copy))'
        /\ (turn.on => SoundCopy(turn.copy))'
        /\ \A g \in Files : JobIs(g, {"holding"})' => SoundCopy(ocr[g].copy)'
    BY <2>3 DEF FilesInv, SoundCopy, JobIs
  <2>8. /\ \A g \in Files : ocr'[g].state # "failed" => ocr'[g].fails < OcrAttempts
        /\ \A g \in Files : mover'.on = {g} => mover'.copy[g] # Unlisted
    BY <2>3 DEF FilesInv
  <2> QED
    BY <2>5, <2>6, <2>7, <2>8 DEF FilesInv
<1>2. ASSUME NEW f \in Files, StoreFile(f)
      PROVE  FilesInv'
  BY <1>a, <1>2 DEF StoreFile, FilesInv, FilesTypeOK, SoundCopy, JobIs, fhands, fbounds
<1>3. ASSUME NEW f \in Files, AppendFile(f)
      PROVE  FilesInv'
  <2>1. /\ upload' = [upload EXCEPT ![f] = "appended"] /\ upload[f] = "stored"
        /\ attachments' = [attachments EXCEPT ![f] = [folder |-> "first", ocr |-> "queued"]]
        /\ UNCHANGED <<stored, ocr, mover, turn, fbounds>>
        /\ raced' = IF OcrCopies # {} \/ mover.on # {} \/ turn.on THEN raced \cup {f} ELSE raced
    BY <1>3 DEF AppendFile, Race
  <2>2. FilesTypeOK'
    BY <1>a, <2>1 DEF FilesInv, FilesTypeOK, Arrays, Entries, fbounds
  <2>3. f \in stored /\ ocr[f].state = "absent" /\ attachments'[f] # Unlisted
        /\ \A g \in Files : g # f => attachments'[g] = attachments[g]
    BY <1>a, <2>1 DEF FilesInv, Unlisted, Arrays
  <2>4. SoundCopy(attachments)'
    BY <2>1, <2>3 DEF FilesInv, SoundCopy, JobIs
  <2>5. ASSUME NEW c \in Arrays, SoundCopy(c), f \in raced'
        PROVE  SoundCopy(c)'
    BY <2>1, <2>3, <2>5 DEF SoundCopy, JobIs
  <2>6. OcrCopies # {} \/ mover.on # {} \/ turn.on => f \in raced'
    BY <2>1
  <2>7. (\A g \in Files : JobIs(g, {"holding"}) => SoundCopy(ocr[g].copy))'
    BY <1>a, <2>1, <2>5, <2>6 DEF FilesInv, OcrCopies, JobIs
  <2>8. (mover.on # {} => SoundCopy(mover.copy))' /\ (turn.on => SoundCopy(turn.copy))'
    BY <1>a, <2>1, <2>5, <2>6 DEF FilesInv
  <2>9. upload' \in [Files -> Steps] /\ upload'[f] = "appended"
        /\ \A g \in Files : g # f => upload'[g] = upload[g]
    BY <1>a, <2>1 DEF Steps
  <2> QED
    BY <2>1, <2>2, <2>3, <2>4, <2>7, <2>8, <2>9 DEF FilesInv
<1>4. ASSUME NEW f \in Files, EnqueueOcr(f)
      PROVE  FilesInv'
  <2>1. /\ upload' = [upload EXCEPT ![f] = "answered"] /\ upload[f] = "appended"
        /\ ocr' = [ocr EXCEPT ![f] = [ocr[f] EXCEPT !.state = "waiting"]]
        /\ UNCHANGED <<stored, attachments, mover, turn, raced, fbounds>>
    BY <1>a, <1>4 DEF EnqueueOcr, fhands
  <2>2. ocr[f].state = "absent" /\ ocr[f].fails < OcrAttempts
    BY <2>1 DEF FilesInv
  <2>3. /\ ocr' \in [Files -> Jobs] /\ ocr'[f].state = "waiting" /\ ocr'[f].fails = ocr[f].fails
        /\ \A g \in Files : g # f => ocr'[g] = ocr[g]
    BY <1>a, <2>1 DEF Jobs
  <2>4. \A c \in Arrays : SoundCopy(c) => SoundCopy(c)'
    BY <2>1, <2>2, <2>3 DEF SoundCopy, JobIs
  <2>5. FilesTypeOK'
    BY <1>a, <2>1, <2>3 DEF FilesInv, FilesTypeOK, Jobs, fbounds
  <2>6. (\A g \in Files : JobIs(g, {"holding"}) => SoundCopy(ocr[g].copy))'
    BY <1>a, <2>1, <2>3, <2>4 DEF FilesInv, JobIs
  <2>7. SoundCopy(attachments)' /\ (mover.on # {} => SoundCopy(mover.copy))'
        /\ (turn.on => SoundCopy(turn.copy))'
    BY <1>a, <2>1, <2>4 DEF FilesInv
  <2> QED
    BY <1>a, <2>1, <2>2, <2>3, <2>5, <2>6, <2>7 DEF FilesInv, Steps
<1>5. ASSUME NEW f \in Files, EnqueueFails(f) \/ UploadDies(f)
      PROVE  FilesInv'
  BY <1>a, <1>5 DEF EnqueueFails, UploadDies, FileTrouble, FilesInv, FilesTypeOK, SoundCopy,
                    JobIs, fhands, fbounds
<1>6. ASSUME NEW f \in Files, TakeFile(f)
      PROVE  FilesInv'
  <2> DEFINE job == [ocr[f] EXCEPT !.state = "active"]
  <2>1. ocr[f].state = "waiting" /\ ocr' = [ocr EXCEPT ![f] = job]
        /\ UNCHANGED <<upload, stored, attachments, mover, turn, raced, fileTroubles, fileHands>>
    BY <1>6 DEF TakeFile, JobIs, fhands, fbounds
  <2>2. job \in Jobs /\ job.state = "active" /\ job.fails < OcrAttempts
    BY <1>a, <2>1 DEF Jobs, FilesInv
  <2> QED
    BY <2>1, <2>2, JobGoesOn DEF FilesInv, FilesTypeOK
<1>7. ASSUME NEW f \in Files, ReadForOcr(f)
      PROVE  FilesInv'
  <2> DEFINE job == [ocr[f] EXCEPT !.state = "holding", !.copy = attachments]
  <2>1. ocr[f].state = "active" /\ ocr' = [ocr EXCEPT ![f] = job]
        /\ UNCHANGED <<upload, stored, attachments, mover, turn, raced, fileTroubles, fileHands>>
    BY <1>a, <1>7 DEF ReadForOcr, JobIs, fhands, fbounds, Jobs
  <2>2. job \in Jobs /\ job.state = "holding" /\ job.fails < OcrAttempts /\ job.copy = attachments
    BY <1>a, <2>1 DEF Jobs, FilesInv
  <2>3. SoundCopy(job.copy)
    BY <2>2 DEF FilesInv
  <2> QED
    BY <2>1, <2>2, <2>3, JobGoesOn DEF FilesInv, FilesTypeOK
<1>8. ASSUME NEW f \in Files, FinishOcr(f)
      PROVE  FilesInv'
  <2> DEFINE job == [ocr[f] EXCEPT !.state = "done"]
  <2>1. ocr[f].state = "written" /\ ocr' = [ocr EXCEPT ![f] = job]
        /\ UNCHANGED <<upload, stored, attachments, mover, turn, raced, fileTroubles, fileHands>>
    BY <1>8 DEF FinishOcr, JobIs, fhands, fbounds
  <2>2. job \in Jobs /\ job.state = "done" /\ job.fails < OcrAttempts
    BY <1>a, <2>1 DEF Jobs, FilesInv
  <2> QED
    BY <2>1, <2>2, JobGoesOn DEF FilesInv, FilesTypeOK
<1>9. ASSUME NEW f \in Files, FailOcr(f)
      PROVE  FilesInv'
  <2> DEFINE job == [state |-> IF ocr[f].fails + 1 < OcrAttempts THEN "waiting" ELSE "failed",
                     fails |-> ocr[f].fails + 1, copy |-> NoCopy]
  <2>1. /\ ocr[f].state \in {"active", "holding", "written"} /\ ocr' = [ocr EXCEPT ![f] = job]
        /\ UNCHANGED <<upload, stored, attachments, mover, turn, raced, fileHands>>
        /\ fileTroubles < FileTroubles /\ fileTroubles' = fileTroubles + 1
    BY <1>9 DEF FailOcr, FileTrouble, JobIs, fhands
  <2>2. ocr[f].fails < OcrAttempts /\ ocr[f].fails \in 0..OcrAttempts
    BY <1>a, <2>1 DEF Jobs, FilesInv
  <2>3. job \in Jobs /\ job.state \in {"waiting", "failed"} /\ (job.state # "failed" => job.fails < OcrAttempts)
    BY <1>a, <2>2 DEF Jobs
  <2>4. fileTroubles' \in 0..FileTroubles /\ fileHands' \in 0..FileHands
    BY <2>1 DEF FilesInv, FilesTypeOK
  <2> HIDE DEF job
  <2> QED
    BY <2>1, <2>3, <2>4, JobGoesOn
<1>10. ASSUME NEW f \in Files, WriteFromOcr(f)
       PROVE  FilesInv'
  <2> DEFINE job == [ocr[f] EXCEPT !.state = "written", !.copy = NoCopy]
  <2>1. PICK text \in BOOLEAN : attachments' = Parsed(ocr[f].copy, f, text)
    BY <1>10 DEF WriteFromOcr
  <2>2. ocr[f].state = "holding" /\ ocr' = [ocr EXCEPT ![f] = job]
        /\ UNCHANGED <<upload, stored, mover, turn, fileTroubles, fileHands>>
        /\ raced' = IF OcrCopies # {f} \/ mover.on # {} \/ turn.on THEN raced \cup {f} ELSE raced
    BY <1>a, <1>10 DEF WriteFromOcr, Race, JobIs, fbounds, Jobs
  <2>3. /\ job \in Jobs /\ job.state = "written" /\ job.fails = ocr[f].fails
        /\ ocr[f].fails < OcrAttempts
    BY <1>a, <2>2 DEF Jobs, FilesInv
  <2>4. /\ ocr' \in [Files -> Jobs] /\ ocr'[f] = job /\ \A g \in Files : g # f => ocr'[g] = ocr[g]
    BY <1>a, <2>2, <2>3
  <2> HIDE DEF job
  <2>5. ocr[f].copy \in Arrays /\ SoundCopy(ocr[f].copy)
    BY <1>a, <2>2 DEF FilesInv, JobIs
  <2>6. /\ attachments' \in Arrays /\ attachments'[f].ocr # "queued"
        /\ \A g \in Files : attachments'[g] # Unlisted <=> ocr[f].copy[g] # Unlisted
        /\ \A g \in Files : g # f => attachments'[g] = ocr[f].copy[g]
    BY <2>1, <2>5, ParsedKeeps
  <2>7. raced \subseteq raced' /\ raced' \subseteq Files
    BY <2>2 DEF FilesInv, FilesTypeOK
  <2>8. \A g \in Files : g \notin raced' => (attachments'[g] # Unlisted <=> attachments[g] # Unlisted)
    BY <2>5, <2>6, <2>7 DEF SoundCopy
  <2>9. SoundCopy(attachments)'
    BY <2>2, <2>4, <2>5, <2>6, <2>7 DEF SoundCopy, JobIs
  <2>10. ASSUME NEW c \in Arrays, SoundCopy(c), f \in raced'
         PROVE  SoundCopy(c)'
    BY <2>2, <2>4, <2>7, <2>8, <2>10 DEF SoundCopy, JobIs
  <2>11. FilesTypeOK'
    BY <2>2, <2>4, <2>6, <2>7 DEF FilesInv, FilesTypeOK, Jobs
  <2>12. (\A g \in Files : JobIs(g, {"holding"}) => SoundCopy(ocr[g].copy))'
    <3> SUFFICES ASSUME NEW g \in Files, JobIs(g, {"holding"})'
                 PROVE  SoundCopy(ocr[g].copy)'
      OBVIOUS
    <3>1. g # f /\ ocr'[g] = ocr[g]
      BY <2>3, <2>4 DEF JobIs
    <3>2. g \in OcrCopies /\ SoundCopy(ocr[g].copy) /\ ocr[g].copy \in Arrays
      BY <1>a, <3>1 DEF OcrCopies, JobIs, FilesInv
    <3>3. f \in raced'
      BY <2>2, <3>1, <3>2
    <3> QED BY <2>10, <3>1, <3>2, <3>3 DEF SoundCopy
  <2>13. (mover.on # {} => SoundCopy(mover.copy))' /\ (turn.on => SoundCopy(turn.copy))'
    BY <1>a, <2>2, <2>10 DEF FilesInv
  <2>14. (\A g \in Files : upload[g] \in {"appended", "answered"} /\ g \notin raced
                             => attachments[g] # Unlisted)'
    BY <2>2, <2>7, <2>8 DEF FilesInv
  <2> QED
    BY <2>2, <2>3, <2>4, <2>9, <2>11, <2>12, <2>13, <2>14 DEF FilesInv
<1>11. ASSUME NEW f \in Files, ReadForMove(f)
       PROVE  FilesInv'
  <2>1. /\ attachments[f] # Unlisted /\ mover' = [on |-> {f}, copy |-> attachments]
        /\ UNCHANGED <<upload, stored, attachments, ocr, turn, raced, fileTroubles>>
        /\ fileHands < FileHands /\ fileHands' = fileHands + 1
    BY <1>11 DEF ReadForMove, AnotherHand
  <2>2. FilesTypeOK'
    BY <2>1 DEF FilesInv, FilesTypeOK
  <2>3. \A c \in Arrays : SoundCopy(c) => SoundCopy(c)'
    BY <2>1 DEF SoundCopy, JobIs
  <2>4. mover'.copy = attachments /\ mover'.on = {f} /\ SoundCopy(mover.copy)'
    BY <1>a, <2>1, <2>3 DEF FilesInv, SoundCopy, JobIs
  <2> QED
    BY <1>a, <2>1, <2>2, <2>3, <2>4 DEF FilesInv, JobIs
<1>12. ASSUME NEW f \in Files, WriteMove(f)
       PROVE  FilesInv'
  <2>1. /\ mover.on = {f} /\ attachments' = [mover.copy EXCEPT ![f].folder = "moved"]
        /\ mover' = [on |-> {}, copy |-> NoCopy]
        /\ UNCHANGED <<upload, stored, ocr, turn, fileTroubles, fileHands>>
        /\ raced' = IF OcrCopies # {} \/ turn.on THEN raced \cup {f} ELSE raced
    BY <1>12 DEF WriteMove, Race, fbounds
  <2>2. mover.copy[f] # Unlisted /\ SoundCopy(mover.copy)
    BY <2>1 DEF FilesInv
  <2>3. /\ attachments' \in Arrays
        /\ \A g \in Files : /\ attachments'[g] # Unlisted <=> mover.copy[g] # Unlisted
                            /\ attachments'[g].ocr = mover.copy[g].ocr
    BY <1>a, <2>1, <2>2, MovedKeeps
  <2>4. raced \subseteq raced' /\ raced' \subseteq Files
    BY <2>1 DEF FilesInv, FilesTypeOK
  <2>5. \A g \in Files : g \notin raced' => (attachments'[g] # Unlisted <=> attachments[g] # Unlisted)
    BY <2>2, <2>3, <2>4 DEF SoundCopy
  <2>6. SoundCopy(attachments)'
    BY <2>1, <2>2, <2>3, <2>4 DEF SoundCopy, JobIs
  <2>7. \A c \in Arrays : SoundCopy(c) => SoundCopy(c)'
    BY <2>1, <2>4, <2>5 DEF SoundCopy, JobIs
  <2>8. FilesTypeOK'
    BY <1>a, <2>1, <2>3, <2>4 DEF FilesInv, FilesTypeOK
  <2>9. (\A g \in Files : JobIs(g, {"holding"}) => SoundCopy(ocr[g].copy))'
        /\ (turn.on => SoundCopy(turn.copy))'
    BY <1>a, <2>1, <2>7 DEF FilesInv, JobIs
  <2>10. (\A g \in Files : upload[g] \in {"appended", "answered"} /\ g \notin raced
                             => attachments[g] # Unlisted)'
    BY <2>1, <2>4, <2>5 DEF FilesInv
  <2>11. mover'.on = {}
    BY <2>1
  <2> QED
    BY <2>1, <2>6, <2>8, <2>9, <2>10, <2>11 DEF FilesInv
<1>13. CASE ReadForTurn
  <2>1. /\ turn' = [on |-> TRUE, copy |-> attachments]
        /\ UNCHANGED <<upload, stored, attachments, ocr, mover, raced, fileTroubles>>
        /\ fileHands < FileHands /\ fileHands' = fileHands + 1
    BY <1>13 DEF ReadForTurn, AnotherHand
  <2>2. FilesTypeOK'
    BY <2>1 DEF FilesInv, FilesTypeOK
  <2>3. \A c \in Arrays : SoundCopy(c) => SoundCopy(c)'
    BY <2>1 DEF SoundCopy, JobIs
  <2>4. turn'.copy = attachments /\ SoundCopy(turn.copy)'
    BY <1>a, <2>1, <2>3 DEF FilesInv, SoundCopy, JobIs
  <2> QED
    BY <1>a, <2>1, <2>2, <2>3, <2>4 DEF FilesInv, JobIs
<1>14. CASE WriteFromTurn
  <2>1. /\ turn.on /\ attachments' = turn.copy /\ turn' = [on |-> FALSE, copy |-> NoCopy]
        /\ UNCHANGED <<upload, stored, ocr, mover, raced, fileTroubles, fileHands>>
    BY <1>14 DEF WriteFromTurn, fbounds
  <2>2. SoundCopy(turn.copy)
    BY <2>1 DEF FilesInv
  <2>3. \A g \in Files : g \notin raced => (attachments'[g] # Unlisted <=> attachments[g] # Unlisted)
    BY <2>1, <2>2 DEF SoundCopy
  <2>4. \A c \in Arrays : SoundCopy(c) => SoundCopy(c)'
    BY <2>1, <2>3 DEF SoundCopy, JobIs
  <2>5. FilesTypeOK'
    BY <1>a, <2>1 DEF FilesInv, FilesTypeOK
  <2>6. SoundCopy(attachments)'
    BY <2>1, <2>2 DEF SoundCopy, JobIs
  <2>7. (\A g \in Files : JobIs(g, {"holding"}) => SoundCopy(ocr[g].copy))'
        /\ (mover.on # {} => SoundCopy(mover.copy))'
    BY <1>a, <2>1, <2>4 DEF FilesInv, JobIs
  <2> QED
    BY <2>1, <2>3, <2>5, <2>6, <2>7 DEF FilesInv
<1>15. CASE UNCHANGED fvars
  BY <1>15 DEF fvars, fhands, fbounds, FilesInv, FilesTypeOK, SoundCopy, JobIs
<1> QED
  BY <1>1, <1>2, <1>3, <1>4, <1>5, <1>6, <1>7, <1>8, <1>9, <1>10, <1>11, <1>12, <1>13, <1>14, <1>15
     DEF FilesNext, FileStep

\* Whichever hands rewrite the array, however many files, jobs and deaths there are: an
\* accepted file is on the array with its bytes stored, and once it was read with
\* its text, unless its entry was written while another hand held a copy.
THEOREM OnlyRacesLose == FilesSpec => []OnlyRacesLoseFiles
<1>1. FilesInv => OnlyRacesLoseFiles
  BY DEF FilesInv, SoundCopy, OnlyRacesLoseFiles
<1> QED
  BY FilesInitInv, FilesStepInv, <1>1, PTL DEF FilesSpec

-----------------------------------------------------------------------------
(* The calendar.                                                            *)

EventRow == [made: BOOLEAN, done: BOOLEAN, old: BOOLEAN, gid: BOOLEAN, cancelled: BOOLEAN]
Entry == [known: BOOLEAN, strays: Nat]
ListedRow == [ev: Events, done: BOOLEAN, gid: BOOLEAN]
Syncing == [at: {"idle", "row", "store", "cancel"}, todo: Seq(ListedRow)]

\* An event's row and what Google has of it, after so many troubles: an entry whose
\* id is on the row is there until the event is done; a cancelled event's entry is
\* gone but for a trouble; and an entry nobody knows of costs a trouble, or is the
\* one whose id is being stored.
Follows(x, y, troubles, storing) ==
    /\ y.known => x.gid
    /\ x.gid /\ ~y.known => x.done
    /\ x.cancelled => x.done /\ x.gid /\ (y.known => troubles > 0)
    /\ y.strays <= troubles + (IF storing THEN 1 ELSE 0)
Storing(e) == sync.at = "store" /\ Row.ev = e

EntriesFollowRows == \A e \in Events : Follows(event[e], entries[e], calTroubles, Storing(e))

\* A row that waits in a sync is as it was read, unless it was marked done since, and
\* is listed once.
AsItWas(r, x) == r.gid = x.gid /\ (r.done => x.done) /\ (r.gid => r.done)
Fresh(todo, evs) ==
    \A i \in 1..Len(todo) :
        /\ AsItWas(todo[i], evs[todo[i].ev])
        /\ \A j \in 1..Len(todo) : todo[j].ev = todo[i].ev => i = j

CalendarInv ==
    /\ event \in [Events -> EventRow] /\ entries \in [Events -> Entry]
    /\ calTroubles \in Nat /\ sync \in Syncing
    /\ Fresh(sync.todo, event)
    /\ sync.at = "store" => sync.todo # << >> /\ ~Row.gid /\ entries[Row.ev].strays >= 1
    /\ sync.at = "cancel" => /\ sync.todo # << >> /\ Row.done /\ Row.gid
                             /\ entries[Row.ev].known => calTroubles > 0
    /\ EntriesFollowRows

LEMMA RowFirst ==
    ASSUME NEW todo \in Seq(ListedRow), todo # << >>
    PROVE  /\ Len(todo) \in Nat \ {0} /\ 1 \in 1..Len(todo) /\ Head(todo) = todo[1]
           /\ Head(todo) \in ListedRow /\ Head(todo).ev \in Events
           /\ Tail(todo) \in Seq(ListedRow) /\ Len(Tail(todo)) = Len(todo) - 1
           /\ \A i \in 1..(Len(todo) - 1) : Tail(todo)[i] = todo[i + 1]
<1>1. Len(todo) \in Nat \ {0} /\ Head(todo) = todo[1]
  BY EmptySeq, LenProperties
<1>2. Head(todo) \in ListedRow /\ Tail(todo) \in Seq(ListedRow) /\ Len(Tail(todo)) = Len(todo) - 1
      /\ \A i \in 1..Len(Tail(todo)) : Tail(todo)[i] = todo[i + 1]
  BY HeadTailProperties
<1>3. Head(todo).ev \in Events
  BY <1>2 DEF ListedRow
<1> QED
  BY <1>1, <1>2, <1>3

\* The next row: what was done to the row before it touches no other.
LEMMA RestFresh ==
    ASSUME NEW todo \in Seq(ListedRow), todo # << >>, NEW before, NEW after, Fresh(todo, before),
           \A e \in Events : e # Head(todo).ev => after[e] = before[e]
    PROVE  Tail(todo) \in Seq(ListedRow) /\ Fresh(Tail(todo), after)
<1> DEFINE rest == Tail(todo)
           l == Len(todo)
           n == l - 1
<1>1. /\ l \in Nat /\ n \in Nat /\ 1 \in 1..l /\ Head(todo) = todo[1] /\ rest \in Seq(ListedRow)
      /\ Len(rest) = n /\ \A i \in 1..n : rest[i] = todo[i + 1]
  BY RowFirst
<1>2. \A i \in 1..n : i + 1 \in 1..l /\ i + 1 # 1
  BY <1>1
<1>3. \A i \in 1..l : todo[i].ev \in Events
  <2>1. \A i \in 1..l : todo[i] \in ListedRow
    BY ElementOfSeq
  <2> QED
    BY <2>1 DEF ListedRow
<1> HIDE DEF rest, l
<1>4. ASSUME NEW i \in 1..n
      PROVE  AsItWas(rest[i], after[rest[i].ev])
  <2> DEFINE k == i + 1
  <2>1. k \in 1..l /\ k # 1 /\ rest[i] = todo[k]
    BY <1>1, <1>2
  <2> HIDE DEF k
  <2>2. AsItWas(todo[k], before[todo[k].ev]) /\ todo[k].ev # todo[1].ev /\ todo[k].ev \in Events
    BY <1>1, <1>3, <2>1 DEF Fresh, l
  <2>3. after[todo[k].ev] = before[todo[k].ev]
    BY <1>1, <2>2
  <2> QED
    BY <2>1, <2>2, <2>3
<1>5. ASSUME NEW i \in 1..n, NEW j \in 1..n, rest[j].ev = rest[i].ev
      PROVE  i = j
  <2> DEFINE k == i + 1
             m == j + 1
  <2>1. k \in 1..l /\ m \in 1..l /\ rest[i] = todo[k] /\ rest[j] = todo[m]
    BY <1>1, <1>2
  <2>3. k = m => i = j
    BY <1>1
  <2> HIDE DEF k, m
  <2>2. k = m
    BY <1>5, <2>1 DEF Fresh, l
  <2> QED
    BY <2>2, <2>3
<1>6. Fresh(rest, after)
  BY <1>1, <1>4, <1>5 DEF Fresh
<1> QED
  BY <1>1, <1>6 DEF rest

LEMMA CalendarStarts == CalendarInit => CalendarInv
<1> SUFFICES ASSUME CalendarInit PROVE CalendarInv
  OBVIOUS
<1>1. /\ event = [e \in Events |-> NoEvent] /\ entries = [e \in Events |-> [known |-> FALSE, strays |-> 0]]
      /\ sync = NoSync /\ calTroubles = 0
  BY DEF CalendarInit
<1>2. NoEvent \in EventRow /\ [known |-> FALSE, strays |-> 0] \in Entry
  BY DEF NoEvent, EventRow, Entry
<1>3. NoSync \in Syncing /\ NoSync.at = "idle" /\ NoSync.todo = << >> /\ Len(<< >>) = 0
  BY EmptySeq DEF NoSync, Syncing
<1>4. Fresh(<< >>, event)
  BY <1>3 DEF Fresh
<1>5. EntriesFollowRows
  BY <1>1, <1>3 DEF EntriesFollowRows, Follows, Storing, NoEvent
<1> QED
  BY <1>1, <1>2, <1>3, <1>4, <1>5 DEF CalendarInv

\* A row of calendar_events changes on its own.
LEMMA EventSet ==
    ASSUME CalendarInv, NEW e \in Events, NEW x \in EventRow, event' = [event EXCEPT ![e] = x],
           x.gid = event[e].gid, event[e].done => x.done, x.cancelled = event[e].cancelled,
           entries' = entries, sync' = sync, calTroubles' = calTroubles
    PROVE  CalendarInv'
<1>1. event' \in [Events -> EventRow] /\ event'[e] = x /\ \A f \in Events : f # e => event'[f] = event[f]
  BY DEF CalendarInv
<1>2. \A f \in Events : event'[f].gid = event[f].gid /\ (event[f].done => event'[f].done)
                        /\ event'[f].cancelled = event[f].cancelled
  BY <1>1
<1>3. Fresh(sync.todo, event')
  <2>1. \A i \in 1..Len(sync.todo) : sync.todo[i].ev \in Events
    <3>1. sync.todo \in Seq(ListedRow)
      BY DEF CalendarInv, Syncing
    <3>2. \A i \in 1..Len(sync.todo) : sync.todo[i] \in ListedRow
      BY <3>1, ElementOfSeq
    <3> QED
      BY <3>2 DEF ListedRow
  <2>2. Fresh(sync.todo, event)
    BY DEF CalendarInv
  <2> QED
    BY <1>2, <2>1, <2>2 DEF Fresh, AsItWas
<1>4. \A f \in Events : Follows(event'[f], entries[f], calTroubles, Storing(f))
  BY <1>2 DEF CalendarInv, EntriesFollowRows, Follows
<1>5. EntriesFollowRows'
  BY <1>4 DEF EntriesFollowRows, Storing, Row
<1>6. Fresh(sync.todo, event)'
  BY <1>3 DEF Fresh
<1> QED
  BY <1>1, <1>5, <1>6 DEF CalendarInv, Row

LEMMA CalendarPeople ==
    ASSUME CalendarInv, NEW e \in Events, CreateEvent(e) \/ EventAges(e) \/ EventIsDone(e)
    PROVE  CalendarInv'
<1>0. event \in [Events -> EventRow] /\ event[e] \in EventRow
  BY DEF CalendarInv
<1>1. CASE CreateEvent(e)
  <2> DEFINE x == [event[e] EXCEPT !.made = TRUE]
  <2>1. event' = [event EXCEPT ![e] = x] /\ entries' = entries /\ sync' = sync /\ calTroubles' = calTroubles
    BY <1>1 DEF CreateEvent
  <2>2. x \in EventRow /\ x.gid = event[e].gid /\ x.done = event[e].done /\ x.cancelled = event[e].cancelled
    BY <1>0 DEF EventRow
  <2> HIDE DEF x
  <2> QED
    BY <2>1, <2>2, EventSet
<1>2. CASE EventAges(e)
  <2> DEFINE x == [event[e] EXCEPT !.old = TRUE]
  <2>1. event' = [event EXCEPT ![e] = x] /\ entries' = entries /\ sync' = sync /\ calTroubles' = calTroubles
    BY <1>2 DEF EventAges
  <2>2. x \in EventRow /\ x.gid = event[e].gid /\ x.done = event[e].done /\ x.cancelled = event[e].cancelled
    BY <1>0 DEF EventRow
  <2> HIDE DEF x
  <2> QED
    BY <2>1, <2>2, EventSet
<1>3. CASE EventIsDone(e)
  <2> DEFINE x == [event[e] EXCEPT !.done = TRUE]
  <2>1. event' = [event EXCEPT ![e] = x] /\ entries' = entries /\ sync' = sync /\ calTroubles' = calTroubles
    BY <1>3 DEF EventIsDone
  <2>2. x \in EventRow /\ x.gid = event[e].gid /\ x.done /\ x.cancelled = event[e].cancelled
    BY <1>0 DEF EventRow
  <2> HIDE DEF x
  <2> QED
    BY <2>1, <2>2, EventSet
<1> QED
  BY <1>1, <1>2, <1>3

\* A new list: as read, each event once.
LEMMA CalendarLists == CalendarInv /\ StartSync => CalendarInv'
<1> SUFFICES ASSUME CalendarInv, StartSync PROVE CalendarInv'
  OBVIOUS
<1>1. event' = event /\ entries' = entries /\ calTroubles' = calTroubles /\ sync.at = "idle"
  BY DEF StartSync
<1>2. PICK page \in Pages :
        Listed(page) /\ sync' = [at |-> "row", todo |-> [i \in DOMAIN page |-> AsRead(page[i])]]
  BY DEF StartSync
<1>3. PICK n \in 0..CalEvents : page \in [1..n -> Events]
  BY DEF Pages
<1>n. n \in Nat /\ DOMAIN page = 1..n
  BY <1>3, CalendarAssumption
<1> DEFINE todo == [i \in 1..n |-> AsRead(page[i])]
<1>4. sync' = [at |-> "row", todo |-> todo]
  BY <1>2, <1>n
<1>5. \A i \in 1..n : /\ page[i] \in Events /\ event[page[i]] \in EventRow /\ AsRead(page[i]) \in ListedRow
                      /\ AsRead(page[i]).ev = page[i] /\ AsRead(page[i]).gid = event[page[i]].gid
                      /\ AsRead(page[i]).done = event[page[i]].done
  BY <1>3 DEF CalendarInv, EventRow, ListedRow, AsRead
<1>6. todo \in Seq(ListedRow) /\ Len(todo) = n
  BY <1>5, <1>n
<1>7. \A i \in 1..n : todo[i] = AsRead(page[i])
  OBVIOUS
<1>8. \A i \in 1..n : ToSync(event[page[i]])
  BY <1>2, <1>n DEF Listed
<1>9. \A i, j \in 1..n : page[j] = page[i] => i = j
  <2> TAKE i, j \in 1..n
  <2>1. (i < j => page[i] < page[j]) /\ (j < i => page[j] < page[i])
    BY <1>2, <1>n DEF Listed
  <2>2. page[i] \in Nat /\ page[j] \in Nat /\ i \in Nat /\ j \in Nat
    BY <1>5, <1>n DEF Events
  <2> QED
    BY <2>1, <2>2
<1> HIDE DEF todo
<1>10. Fresh(todo, event)
  <2>1. ASSUME NEW i \in 1..n PROVE AsItWas(todo[i], event[todo[i].ev])
    BY <1>5, <1>7, <1>8 DEF AsItWas, ToSync
  <2>2. ASSUME NEW i \in 1..n, NEW j \in 1..n, todo[j].ev = todo[i].ev PROVE i = j
    BY <1>5, <1>7, <1>9, <2>2
  <2> QED
    BY <1>6, <2>1, <2>2 DEF Fresh
<1>11. sync' \in Syncing /\ sync'.at = "row" /\ sync'.todo = todo
  BY <1>4, <1>6 DEF Syncing
<1>12. EntriesFollowRows'
  BY <1>1, <1>11 DEF CalendarInv, EntriesFollowRows, Follows, Storing
<1>13. Fresh(sync.todo, event)'
  BY <1>1, <1>10, <1>11 DEF Fresh
<1> QED
  BY <1>1, <1>11, <1>12, <1>13 DEF CalendarInv

\* The sync goes on to its next row: what was done to the one before is in order.
LEMMA OnToNext ==
    ASSUME CalendarInv, sync.todo # << >>, NextRow,
           event' \in [Events -> EventRow], entries' \in [Events -> Entry], calTroubles' \in Nat,
           \A e \in Events : e # Row.ev => event'[e] = event[e] /\ entries'[e] = entries[e],
           calTroubles' >= calTroubles,
           Follows(event'[Row.ev], entries'[Row.ev], calTroubles', FALSE)
    PROVE  CalendarInv'
<1>1. sync.todo \in Seq(ListedRow) /\ Fresh(sync.todo, event) /\ Row = Head(sync.todo)
  BY DEF CalendarInv, Syncing, Row
<1>2. sync' = [at |-> "row", todo |-> Tail(sync.todo)]
  BY DEF NextRow
<1>3. Tail(sync.todo) \in Seq(ListedRow) /\ Fresh(Tail(sync.todo), event')
  BY <1>1, RestFresh
<1>4. sync' \in Syncing /\ sync'.at = "row" /\ sync'.todo = Tail(sync.todo)
  BY <1>2, <1>3 DEF Syncing
<1>5. Fresh(sync.todo, event)'
  BY <1>3, <1>4 DEF Fresh
<1>6. ASSUME NEW e \in Events PROVE Follows(event'[e], entries'[e], calTroubles', FALSE)
  <2>1. CASE e = Row.ev
    BY <2>1
  <2>2. CASE e # Row.ev
    <3>1. Follows(event[e], entries[e], calTroubles, Storing(e)) /\ entries[e].strays \in Nat /\ calTroubles \in Nat
      BY DEF CalendarInv, EntriesFollowRows, Entry
    <3>2. ~Storing(e)
      BY <2>2 DEF Storing
    <3>3. event'[e] = event[e] /\ entries'[e] = entries[e]
      BY <2>2
    <3> QED
      BY <3>1, <3>2, <3>3 DEF Follows
  <2> QED
    BY <2>1, <2>2
<1>7. EntriesFollowRows'
  <2>1. \A e \in Events : ~Storing(e)'
    BY <1>4 DEF Storing
  <2>2. \A e \in Events : Follows(event[e], entries[e], calTroubles, FALSE)'
    BY <1>6 DEF Follows
  <2> QED
    BY <2>1, <2>2 DEF EntriesFollowRows, Follows
<1> QED
  BY <1>4, <1>5, <1>7 DEF CalendarInv

\* The row a sync is at, and what holds of its event.
LEMMA AtTheRow ==
    ASSUME CalendarInv, sync.todo # << >>
    PROVE  /\ Row \in ListedRow /\ Row.ev \in Events /\ event[Row.ev] \in EventRow
           /\ entries[Row.ev] \in Entry /\ calTroubles \in Nat
           /\ AsItWas(Row, event[Row.ev])
           /\ Follows(event[Row.ev], entries[Row.ev], calTroubles, sync.at = "store")
<1>1. sync.todo \in Seq(ListedRow) /\ Fresh(sync.todo, event)
  BY DEF CalendarInv, Syncing
<1>2. Row \in ListedRow /\ Row.ev \in Events /\ Row = sync.todo[1] /\ 1 \in 1..Len(sync.todo)
  BY <1>1, RowFirst DEF Row
<1>3. AsItWas(Row, event[Row.ev])
  BY <1>1, <1>2 DEF Fresh
<1>4. Follows(event[Row.ev], entries[Row.ev], calTroubles, sync.at = "store")
  BY <1>2 DEF CalendarInv, EntriesFollowRows, Storing, Follows
<1> QED
  BY <1>2, <1>3, <1>4 DEF CalendarInv

\* A trouble excuses as much as none.
LEMMA MoreExcuse ==
    ASSUME NEW x, NEW y \in Entry, NEW n \in Nat, NEW m \in Nat, m >= n, NEW s, ~s, Follows(x, y, n, s)
    PROVE  Follows(x, y, m, FALSE)
BY DEF Follows, Entry

LEMMA CalendarLeaves == CalendarInv /\ SkipEvent => CalendarInv'
<1> SUFFICES ASSUME CalendarInv, SkipEvent PROVE CalendarInv'
  OBVIOUS
<1>1. sync.todo # << >> /\ sync.at = "row" /\ NextRow
      /\ event' = event /\ entries' = entries /\ calTroubles' = calTroubles
  BY DEF SkipEvent, AtRow
<1>2. Follows(event[Row.ev], entries[Row.ev], calTroubles, FALSE)
  BY <1>1, AtTheRow DEF Follows
<1>3. event \in [Events -> EventRow] /\ entries \in [Events -> Entry] /\ calTroubles \in Nat
  BY DEF CalendarInv
<1> QED
  BY <1>1, <1>2, <1>3, OnToNext

LEMMA CalendarPosts == CalendarInv /\ PostEvent => CalendarInv'
<1> SUFFICES ASSUME CalendarInv, PostEvent PROVE CalendarInv'
  OBVIOUS
<1>0. event \in [Events -> EventRow] /\ entries \in [Events -> Entry] /\ calTroubles \in Nat
      /\ sync \in Syncing /\ Fresh(sync.todo, event)
  BY DEF CalendarInv
<1>1. sync.todo # << >> /\ sync.at = "row" /\ ~Row.done /\ event' = event
  BY DEF PostEvent, AtRow
<1> DEFINE e == Row.ev
<1>2. /\ Row \in ListedRow /\ e \in Events /\ event[e] \in EventRow /\ entries[e] \in Entry
      /\ AsItWas(Row, event[e]) /\ Follows(event[e], entries[e], calTroubles, FALSE)
  BY <1>1, AtTheRow DEF Follows
<1>3. CASE entries' = [entries EXCEPT ![e].strays = @ + 1] /\ sync' = [sync EXCEPT !.at = "store"]
           /\ calTroubles' = calTroubles
  <2> DEFINE y == [entries[e] EXCEPT !.strays = entries[e].strays + 1]
  <2>1. y \in Entry /\ y.known = entries[e].known /\ y.strays = entries[e].strays + 1
    BY <1>2 DEF Entry
  <2>2. entries' = [entries EXCEPT ![e] = y]
    BY <1>3
  <2>3. entries[e].strays \in Nat
    BY <1>2 DEF Entry
  <2> HIDE DEF y
  <2>4. entries' \in [Events -> Entry] /\ entries'[e] = y /\ \A f \in Events : f # e => entries'[f] = entries[f]
    BY <1>0, <1>2, <2>1, <2>2
  <2>5. sync' \in Syncing /\ sync'.at = "store" /\ sync'.todo = sync.todo
    BY <1>0, <1>3 DEF Syncing
  <2>6. Row' = Row
    BY <2>5 DEF Row
  <2>7. Follows(event[e], y, calTroubles, TRUE) /\ y.strays >= 1
    BY <1>0, <1>2, <2>1, <2>3 DEF Follows
  <2>8. ASSUME NEW f \in Events PROVE Follows(event'[f], entries'[f], calTroubles', Storing(f)')
    <3>1. CASE f = e
      BY <1>1, <1>3, <2>4, <2>5, <2>6, <2>7, <3>1 DEF Storing, Follows
    <3>2. CASE f # e
      <4>1. ~Storing(f) /\ ~Storing(f)'
        BY <1>1, <2>6, <3>2 DEF Storing
      <4>2. Follows(event[f], entries[f], calTroubles, Storing(f))
        BY DEF CalendarInv, EntriesFollowRows
      <4> QED
        BY <1>1, <1>3, <2>4, <3>2, <4>1, <4>2 DEF Follows
    <3> QED
      BY <3>1, <3>2
  <2>9. EntriesFollowRows'
    BY <2>8 DEF EntriesFollowRows, Follows
  <2>10. Fresh(sync.todo, event)'
    BY <1>0, <1>1, <2>5 DEF Fresh
  <2>11. sync'.todo # << >> /\ ~Row'.gid /\ entries'[Row'.ev].strays >= 1
    BY <1>1, <1>2, <2>4, <2>5, <2>6, <2>7 DEF AsItWas
  <2> QED
    BY <1>0, <1>1, <1>3, <2>4, <2>5, <2>9, <2>10, <2>11 DEF CalendarInv
<1>4. CASE NextRow /\ entries' = entries /\ (Row.ev \in refused \/ CalTrouble)
           /\ (Row.ev \in refused => UNCHANGED calTroubles)
  <2>1. calTroubles' \in Nat /\ calTroubles' >= calTroubles
    BY <1>0, <1>4 DEF CalTrouble
  <2>2. Follows(event'[e], entries'[e], calTroubles', FALSE)
    <3>1. Follows(event[e], entries[e], calTroubles', FALSE)
      BY <1>0, <1>2, <2>1, MoreExcuse
    <3> QED
      BY <1>1, <1>4, <3>1
  <2> HIDE DEF e
  <2>3. Follows(event'[Row.ev], entries'[Row.ev], calTroubles', FALSE)
    BY <2>2 DEF e
  <2> QED
    BY <1>0, <1>1, <1>4, <2>1, <2>3, OnToNext
<1> QED
  BY <1>3, <1>4 DEF PostEvent

LEMMA CalendarStores == CalendarInv /\ StoreId => CalendarInv'
<1> SUFFICES ASSUME CalendarInv, StoreId PROVE CalendarInv'
  OBVIOUS
<1>0. event \in [Events -> EventRow] /\ entries \in [Events -> Entry] /\ calTroubles \in Nat
  BY DEF CalendarInv
<1>1. /\ sync.at = "store" /\ NextRow /\ calTroubles' = calTroubles
      /\ event' = [event EXCEPT ![Row.ev].gid = TRUE]
      /\ entries' = [entries EXCEPT ![Row.ev].known = TRUE, ![Row.ev].strays = @ - 1]
  BY DEF StoreId
<1>2. sync.todo # << >> /\ ~Row.gid /\ entries[Row.ev].strays >= 1
  BY <1>1 DEF CalendarInv
<1>3. /\ Row.ev \in Events /\ event[Row.ev] \in EventRow /\ entries[Row.ev] \in Entry
      /\ AsItWas(Row, event[Row.ev]) /\ Follows(event[Row.ev], entries[Row.ev], calTroubles, TRUE)
  BY <1>1, <1>2, AtTheRow DEF Follows
<1> DEFINE e == Row.ev
           x == [event[e] EXCEPT !.gid = TRUE]
           y == [entries[e] EXCEPT !.known = TRUE, !.strays = entries[e].strays - 1]
<1>4. x \in EventRow /\ x.gid /\ x.done = event[e].done /\ x.cancelled = event[e].cancelled
  BY <1>3 DEF EventRow
<1>5. y \in Entry /\ y.known /\ y.strays = entries[e].strays - 1 /\ entries[e].strays \in Nat
  <2> DEFINE n == entries[e].strays - 1
  <2>1. entries[e].strays \in Nat /\ n \in Nat
    BY <1>2, <1>3 DEF Entry
  <2>2. y = [entries[e] EXCEPT !.known = TRUE, !.strays = n]
    OBVIOUS
  <2> HIDE DEF n, y
  <2>3. y \in Entry /\ y.known /\ y.strays = n
    BY <1>3, <2>1, <2>2 DEF Entry
  <2> QED
    BY <2>1, <2>3 DEF n
<1>6. event' = [event EXCEPT ![e] = x] /\ entries' = [entries EXCEPT ![e] = y]
  BY <1>1, <1>3
<1> HIDE DEF x, y
<1>7. /\ event' \in [Events -> EventRow] /\ event'[e] = x /\ \A f \in Events : f # e => event'[f] = event[f]
      /\ entries' \in [Events -> Entry] /\ entries'[e] = y
      /\ \A f \in Events : f # e => entries'[f] = entries[f]
  BY <1>0, <1>3, <1>4, <1>5, <1>6
<1>8. Follows(x, y, calTroubles, FALSE)
  <2>1. ~event[e].cancelled
    BY <1>2, <1>3 DEF Follows, AsItWas
  <2> QED
    BY <1>0, <1>3, <1>4, <1>5, <2>1 DEF Follows
<1>9. Follows(event'[Row.ev], entries'[Row.ev], calTroubles', FALSE)
  BY <1>1, <1>7, <1>8
<1>10. calTroubles' \in Nat /\ calTroubles' >= calTroubles
  BY <1>0, <1>1
<1> QED
  BY <1>1, <1>2, <1>7, <1>9, <1>10, OnToNext

LEMMA CalendarDeletes == CalendarInv /\ DeleteEntry => CalendarInv'
<1> SUFFICES ASSUME CalendarInv, DeleteEntry PROVE CalendarInv'
  OBVIOUS
<1>0. event \in [Events -> EventRow] /\ entries \in [Events -> Entry] /\ calTroubles \in Nat
      /\ sync \in Syncing /\ Fresh(sync.todo, event)
  BY DEF CalendarInv
<1>1. /\ sync.at = "row" /\ sync.todo # << >> /\ Row.done /\ Row.gid /\ event' = event
      /\ sync' = [sync EXCEPT !.at = "cancel"]
  BY DEF DeleteEntry, AtRow
<1> DEFINE e == Row.ev
<1>2. /\ e \in Events /\ event[e] \in EventRow /\ entries[e] \in Entry
      /\ AsItWas(Row, event[e]) /\ Follows(event[e], entries[e], calTroubles, FALSE)
  BY <1>1, AtTheRow DEF Follows
<1>3. sync' \in Syncing /\ sync'.at = "cancel" /\ sync'.todo = sync.todo
  BY <1>0, <1>1 DEF Syncing
<1>4. Row' = Row
  BY <1>3 DEF Row
<1>5. Fresh(sync.todo, event)'
  BY <1>0, <1>1, <1>3 DEF Fresh
<1>6. /\ entries' \in [Events -> Entry] /\ calTroubles' \in Nat /\ calTroubles' >= calTroubles
      /\ \A f \in Events : f # e => entries'[f] = entries[f]
      /\ entries'[e].known => calTroubles' > 0
      /\ Follows(event[e], entries'[e], calTroubles', FALSE)
  <2>1. CASE entries' = [entries EXCEPT ![e].known = FALSE] /\ calTroubles' = calTroubles
    <3> DEFINE y == [entries[e] EXCEPT !.known = FALSE]
    <3>1. y \in Entry /\ ~y.known /\ y.strays = entries[e].strays
      BY <1>2 DEF Entry
    <3>2. entries' = [entries EXCEPT ![e] = y]
      BY <1>2, <2>1
    <3> HIDE DEF y
    <3>3. entries' \in [Events -> Entry] /\ entries'[e] = y /\ \A f \in Events : f # e => entries'[f] = entries[f]
      BY <1>0, <1>2, <3>1, <3>2
    <3>4. Follows(event[e], y, calTroubles, FALSE)
      BY <1>1, <1>2, <3>1 DEF Follows, AsItWas
    <3>5. calTroubles' = calTroubles /\ calTroubles \in Nat
      BY <1>0, <2>1
    <3>6. Follows(event[e], entries'[e], calTroubles', FALSE)
      BY <3>3, <3>4, <3>5
    <3>7. entries'[e].known => calTroubles' > 0
      BY <3>1, <3>3
    <3>8. calTroubles' \in Nat /\ calTroubles' >= calTroubles
      BY <3>5
    <3> HIDE DEF e
    <3> QED
      BY <3>3, <3>6, <3>7, <3>8
  <2>2. CASE CalTrouble /\ entries' = entries
    <3>1. calTroubles' = calTroubles + 1
      BY <2>2 DEF CalTrouble
    <3>2. calTroubles' \in Nat /\ calTroubles' >= calTroubles /\ calTroubles' > 0
      BY <1>0, <3>1
    <3>3. Follows(event[e], entries[e], calTroubles', FALSE)
      BY <1>0, <1>2, <3>2, MoreExcuse
    <3> QED
      BY <1>0, <2>2, <3>2, <3>3
  <2> QED
    BY <2>1, <2>2 DEF DeleteEntry
<1>7. ASSUME NEW f \in Events PROVE Follows(event'[f], entries'[f], calTroubles', Storing(f)')
  <2>1. ~Storing(f) /\ ~Storing(f)'
    BY <1>1, <1>3 DEF Storing
  <2>2. CASE f = e
    BY <1>1, <1>6, <2>1, <2>2 DEF Follows
  <2>3. CASE f # e
    <3>1. Follows(event[f], entries[f], calTroubles, FALSE) /\ entries[f] \in Entry
      BY <1>0, <2>1 DEF CalendarInv, EntriesFollowRows, Follows
    <3>2. Follows(event[f], entries[f], calTroubles', FALSE)
      BY <1>0, <1>6, <3>1, MoreExcuse
    <3> QED
      BY <1>1, <1>6, <2>1, <2>3, <3>2 DEF Follows
  <2> QED
    BY <2>2, <2>3
<1>8. EntriesFollowRows'
  BY <1>7 DEF EntriesFollowRows, Follows
<1>9. sync'.todo # << >> /\ Row'.done /\ Row'.gid /\ (entries'[Row'.ev].known => calTroubles' > 0)
  BY <1>1, <1>3, <1>4, <1>6
<1> QED
  BY <1>0, <1>1, <1>3, <1>5, <1>6, <1>8, <1>9 DEF CalendarInv

LEMMA CalendarCancels == CalendarInv /\ MarkCancelled => CalendarInv'
<1> SUFFICES ASSUME CalendarInv, MarkCancelled PROVE CalendarInv'
  OBVIOUS
<1>0. event \in [Events -> EventRow] /\ entries \in [Events -> Entry] /\ calTroubles \in Nat
  BY DEF CalendarInv
<1>1. /\ sync.at = "cancel" /\ NextRow /\ calTroubles' = calTroubles /\ entries' = entries
      /\ event' = [event EXCEPT ![Row.ev].cancelled = TRUE]
  BY DEF MarkCancelled
<1>2. sync.todo # << >> /\ Row.done /\ Row.gid /\ (entries[Row.ev].known => calTroubles > 0)
  BY <1>1 DEF CalendarInv
<1>3. /\ Row.ev \in Events /\ event[Row.ev] \in EventRow /\ entries[Row.ev] \in Entry
      /\ AsItWas(Row, event[Row.ev]) /\ Follows(event[Row.ev], entries[Row.ev], calTroubles, FALSE)
  BY <1>1, <1>2, AtTheRow DEF Follows
<1> DEFINE e == Row.ev
           x == [event[e] EXCEPT !.cancelled = TRUE]
<1>4. x \in EventRow /\ x.gid = event[e].gid /\ x.done = event[e].done /\ x.cancelled
  BY <1>3 DEF EventRow
<1>5. event' = [event EXCEPT ![e] = x]
  BY <1>1, <1>3
<1> HIDE DEF x
<1>6. /\ event' \in [Events -> EventRow] /\ event'[e] = x /\ \A f \in Events : f # e => event'[f] = event[f]
  BY <1>0, <1>3, <1>4, <1>5
<1>7. Follows(x, entries[e], calTroubles, FALSE)
  BY <1>2, <1>3, <1>4 DEF Follows, AsItWas
<1>8. Follows(event'[Row.ev], entries'[Row.ev], calTroubles', FALSE)
  BY <1>1, <1>6, <1>7
<1>9. calTroubles' \in Nat /\ calTroubles' >= calTroubles
  BY <1>0, <1>1
<1>10. entries' \in [Events -> Entry] /\ \A f \in Events : entries'[f] = entries[f]
  BY <1>0, <1>1
<1> QED
  BY <1>1, <1>2, <1>6, <1>8, <1>9, <1>10, OnToNext

\* A sync that is over leaves every event in order: an entry that was being stored,
\* or may have been made by the request that broke, is the trouble's.
LEMMA CalendarStops == CalendarInv /\ (EndSync \/ SyncBreaks) => CalendarInv'
<1> SUFFICES ASSUME CalendarInv, EndSync \/ SyncBreaks PROVE CalendarInv'
  OBVIOUS
<1>0. event \in [Events -> EventRow] /\ entries \in [Events -> Entry] /\ calTroubles \in Nat
  BY DEF CalendarInv
<1>1. event' = event /\ sync' = NoSync
  BY DEF EndSync, SyncBreaks
<1>2. NoSync \in Syncing /\ NoSync.at = "idle" /\ NoSync.todo = << >> /\ Len(<< >>) = 0
  BY EmptySeq DEF NoSync, Syncing
<1>3. Fresh(sync.todo, event)'
  BY <1>1, <1>2 DEF Fresh
<1>4. ASSUME NEW f \in Events PROVE Follows(event[f], entries[f], calTroubles, Storing(f))
  BY DEF CalendarInv, EntriesFollowRows
<1>5. /\ entries' \in [Events -> Entry] /\ calTroubles' \in Nat
      /\ \A f \in Events : Follows(event[f], entries'[f], calTroubles', FALSE)
  <2>1. CASE EndSync
    <3>1. sync.at = "row" /\ entries' = entries /\ calTroubles' = calTroubles
      BY <2>1 DEF EndSync
    <3> QED
      BY <1>0, <1>4, <3>1 DEF Storing, Follows
  <2>2. CASE SyncBreaks /\ entries' = entries
    <3>1. calTroubles' = calTroubles + 1
      BY <2>2 DEF SyncBreaks, CalTrouble
    <3>2. ASSUME NEW f \in Events PROVE Follows(event[f], entries[f], calTroubles', FALSE)
      <4>1. entries[f].strays \in Nat
        BY <1>0 DEF Entry
      <4> QED
        BY <1>0, <1>4, <3>1, <4>1 DEF Follows
    <3>3. entries' = entries /\ calTroubles' \in Nat
      BY <1>0, <2>2, <3>1
    <3>4. \A f \in Events : Follows(event[f], entries'[f], calTroubles', FALSE)
      BY <3>2, <3>3
    <3> QED
      BY <1>0, <3>3, <3>4
  <2>3. CASE SyncBreaks /\ AtRow /\ entries' = [entries EXCEPT ![Row.ev].strays = @ + 1]
    <3> DEFINE e == Row.ev
               y == [entries[e] EXCEPT !.strays = entries[e].strays + 1]
    <3>1. calTroubles' = calTroubles + 1 /\ sync.at = "row" /\ sync.todo # << >>
      BY <2>3 DEF SyncBreaks, CalTrouble, AtRow
    <3>2. e \in Events /\ entries[e] \in Entry
      BY <3>1, AtTheRow
    <3>3. y \in Entry /\ y.known = entries[e].known /\ y.strays = entries[e].strays + 1 /\ entries[e].strays \in Nat
      BY <3>2 DEF Entry
    <3>4. entries' = [entries EXCEPT ![e] = y]
      BY <2>3, <3>2
    <3> HIDE DEF y
    <3>5. entries' \in [Events -> Entry] /\ entries'[e] = y /\ \A f \in Events : f # e => entries'[f] = entries[f]
      BY <1>0, <3>2, <3>3, <3>4
    <3>6. \A f \in Events : Follows(event[f], entries[f], calTroubles, FALSE) /\ entries[f].strays \in Nat
      BY <1>0, <1>4, <3>1 DEF Storing, Follows, Entry
    <3>7. Follows(event[e], y, calTroubles', FALSE)
      BY <1>0, <3>1, <3>2, <3>3, <3>6 DEF Follows
    <3> HIDE DEF e
    <3>8. ASSUME NEW f \in Events PROVE Follows(event[f], entries'[f], calTroubles', FALSE)
      <4>1. CASE f = e
        BY <3>5, <3>7, <4>1
      <4>2. CASE f # e
        <5>1. entries'[f] = entries[f]
          BY <3>5, <4>2
        <5> QED
          BY <1>0, <3>1, <3>6, <5>1 DEF Follows
      <4> QED
        BY <4>1, <4>2
    <3>9. calTroubles' \in Nat
      BY <1>0, <3>1
    <3> QED
      BY <3>5, <3>8, <3>9
  <2> QED
    BY <2>1, <2>2, <2>3 DEF SyncBreaks
<1>6. EntriesFollowRows'
  <2>1. \A f \in Events : ~Storing(f)'
    BY <1>1, <1>2 DEF Storing
  <2>2. \A f \in Events : Follows(event[f], entries[f], calTroubles, FALSE)'
    BY <1>1, <1>5 DEF Follows
  <2> QED
    BY <2>1, <2>2 DEF EntriesFollowRows, Follows
<1> QED
  BY <1>0, <1>1, <1>2, <1>3, <1>5, <1>6 DEF CalendarInv

LEMMA CalendarStutters == CalendarInv /\ UNCHANGED kvars => CalendarInv'
<1> SUFFICES ASSUME CalendarInv, UNCHANGED kvars PROVE CalendarInv'
  OBVIOUS
<1>1. event' = event /\ entries' = entries /\ sync' = sync /\ calTroubles' = calTroubles
  BY DEF kvars
<1> QED
  BY <1>1 DEF CalendarInv, Fresh, EntriesFollowRows, Follows, Storing, Row

\* However syncs, quotes and people meet, Google's calendar follows the rows: an entry
\* whose id is known has its id on its event's row, the id on a row is of an entry that
\* is there until the event is done, the entry of a cancelled event is gone unless a
\* request failed, and there are no more entries nobody knows of than there were
\* failures (one more while an id is on its way to its row).  syncCalendarEvents posts
\* what has no id, deletes what is done and never asks Google what it has: a second
\* post of a row, or an id lost to another row, would stay for ever.
THEOREM CalendarFollowsRows == CalendarSpec => []EntriesFollowRows
<1>1. CalendarInit => CalendarInv
  BY CalendarStarts
<1>2. CalendarInv /\ [CalendarNext]_kvars => CalendarInv'
  <2> SUFFICES ASSUME CalendarInv, [CalendarNext]_kvars PROVE CalendarInv'
    OBVIOUS
  <2>1. CASE SyncCalendar
    BY <2>1, CalendarLists, CalendarLeaves, CalendarPosts, CalendarStores, CalendarDeletes,
       CalendarCancels, CalendarStops DEF SyncCalendar
  <2>2. CASE SyncBreaks
    BY <2>2, CalendarStops
  <2>3. CASE \E e \in Events : CreateEvent(e) \/ EventAges(e) \/ EventIsDone(e)
    BY <2>3, CalendarPeople
  <2>4. CASE UNCHANGED kvars
    BY <2>4, CalendarStutters
  <2> QED
    BY <2>1, <2>2, <2>3, <2>4 DEF CalendarNext
<1>3. CalendarInv => EntriesFollowRows
  BY DEF CalendarInv
<1> QED
  BY <1>1, <1>2, <1>3, PTL DEF CalendarSpec
=============================================================================
