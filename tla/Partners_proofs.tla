--------------------------- MODULE Partners_proofs ---------------------------
(***************************************************************************)
(* What holds of the carriers' cabinets for every set of cabinets, every   *)
(* number of attempts and every number of failures; and of a supplier's    *)
(* count of unanswered letters for any number of letters, attempts,        *)
(* failures and clicks.                                                    *)
(***************************************************************************)
EXTENDS CarrierCabinets, SupplierDesk, FiniteSetTheorems, TLAPS

CabJob == [at: {"queued", "task", "login", "probe", "ask", "await", "done", "failed"},
           tries: 0..CabinetTries, url: Urls, missed: 0..2]

\* What is known of job j: before the requests it has missed none, at the second
\* address one, and past the task its task is there.
JobOK(j) ==
    /\ cabJobs[j].at \notin {"done", "failed"} => cabJobs[j].tries < CabinetTries
    /\ cabJobs[j].at \in {"queued", "task", "login", "probe"}
         => cabJobs[j].url = 1 /\ cabJobs[j].missed = 0
    /\ cabJobs[j].at \in {"ask", "await"} => \/ cabJobs[j].url = 1 /\ cabJobs[j].missed = 0
                                             \/ cabJobs[j].url = 2 /\ cabJobs[j].missed = 1
    /\ cabJobs[j].at \in {"task", "login", "probe"} => j \in Cabinets
    /\ j \in Cabinets /\ mode # "off" /\ cabJobs[j].at \in {"login", "probe", "ask", "await", "done"}
         => j \in cabTasks
    /\ j \in Cabinets /\ cabJobs[j].at = "done"
         => quoted \/ cabJobs[j].missed = 2

\* A price, a live quote, a mark and a run that is over, or has only its mark to
\* write, are of a deal that was quoted.
CabinetsInv ==
    /\ CabinetsTypeOK
    /\ \A j \in CabJobs : JobOK(j)
    /\ rate \/ apiQuotes \/ marked # "never" => quoted
    /\ \A r \in CabJobs \X Urls : apiRuns[r] \in {"mark", "over"} => quoted

LEMMA JobTypes ==
    ASSUME CabinetsTypeOK
    PROVE  /\ cabJobs \in [CabJobs -> CabJob]
           /\ apiRuns \in [CabJobs \X Urls -> {"no", "read", "quote", "mark", "over", "died"}]
           /\ Cabinets \subseteq CabJobs /\ Delayed \in CabJobs /\ Delayed \notin Cabinets
           /\ \A j \in CabJobs : j # Delayed => j \in Cabinets
           /\ CabinetTries \in Nat \ {0} /\ CabinetTroubles \in Nat /\ cabTroubles \in Nat
BY CabinetAssumption DEF CabinetsTypeOK, CabJob, CabJobs

\* A job keeps its form when a part of it is set.
LEMMA JobSet ==
    ASSUME NEW x \in CabJob
    PROVE  /\ \A at \in {"queued", "task", "login", "probe", "ask", "await", "done", "failed"} :
                [x EXCEPT !.at = at] \in CabJob
           /\ \A n \in 0..CabinetTries : [x EXCEPT !.tries = n] \in CabJob
           /\ \A u \in Urls : [x EXCEPT !.url = u] \in CabJob
           /\ \A n \in 0..2 : [x EXCEPT !.missed = n] \in CabJob
BY DEF CabJob

LEMMA NewJobType ==
    /\ NewCabJob \in CabJob
    /\ \A at \in {"queued", "failed"}, n \in 0..CabinetTries :
         [NewCabJob EXCEPT !.at = at, !.tries = n] \in CabJob
<1>1. NewCabJob \in CabJob
  BY CabinetAssumption DEF CabJob, NewCabJob, Urls
<1>2. ASSUME NEW at \in {"queued", "failed"}, NEW n \in 0..CabinetTries
      PROVE  [NewCabJob EXCEPT !.at = at, !.tries = n] \in CabJob
  <2>1. [NewCabJob EXCEPT !.at = at] \in CabJob
    BY <1>1, JobSet
  <2> QED
    BY <2>1, JobSet
<1> QED
  BY <1>1, <1>2

LEMMA CabinetsInitInv == CabinetsInit => CabinetsInv
<1> SUFFICES ASSUME CabinetsInit
             PROVE  CabinetsInv
  OBVIOUS
<1>1. cabJobs \in [CabJobs -> CabJob] /\ \A j \in CabJobs : cabJobs[j] = NewCabJob
  BY NewJobType DEF CabinetsInit
<1>2. \A j \in CabJobs : JobOK(j)
  BY <1>1, CabinetAssumption DEF JobOK, NewCabJob
<1>3. /\ apiRuns \in [CabJobs \X Urls -> {"no", "read", "quote", "mark", "over", "died"}]
      /\ \A r \in CabJobs \X Urls : apiRuns[r] = "no"
  BY DEF CabinetsInit
<1>4. cabTroubles \in 0..CabinetTroubles
  BY CabinetAssumption DEF CabinetsInit
<1>5. CabinetsTypeOK
  BY <1>1, <1>3, <1>4 DEF CabinetsInit, CabinetsTypeOK, CabJob
<1> QED
  BY <1>2, <1>3, <1>5 DEF CabinetsInv, CabinetsInit

\* A step that moves one job and takes no task back.
LEMMA JobMoves ==
    ASSUME CabinetsInv, NEW j \in CabJobs, NEW x \in CabJob,
           cabJobs' = [cabJobs EXCEPT ![j] = x],
           JobOK(j)',
           UNCHANGED <<mode, found>>,
           cabTasks \subseteq cabTasks', cabTasks' \subseteq Cabinets,
           apiRuns' \in [CabJobs \X Urls -> {"no", "read", "quote", "mark", "over", "died"}],
           \A r \in CabJobs \X Urls : apiRuns'[r] \in {"mark", "over"} => apiRuns[r] \in {"mark", "over"},
           cabTroubles' \in 0..CabinetTroubles
    PROVE  CabinetsInv'
<1>1. cabJobs' \in [CabJobs -> CabJob] /\ \A k \in CabJobs : k # j => cabJobs'[k] = cabJobs[k]
  BY JobTypes DEF CabinetsInv
<1>2. ASSUME NEW k \in CabJobs
      PROVE  JobOK(k)'
  <2>1. JobOK(k)
    BY DEF CabinetsInv
  <2>2. CASE k = j
    BY <2>2
  <2>3. CASE k # j
    BY <1>1, <2>1, <2>3 DEF JobOK, found
  <2> QED
    BY <2>2, <2>3
<1>3. CabinetsTypeOK'
  BY <1>1 DEF CabinetsInv, CabinetsTypeOK, CabJob, found
<1> QED
  BY <1>2, <1>3 DEF CabinetsInv, found

\* An attempt that failed: the job waits again, or is given up.
LEMMA JobFails ==
    ASSUME CabinetsInv, NEW j \in CabJobs, CabFails(j),
           cabJobs[j].at \notin {"done", "failed"},
           UNCHANGED <<mode, cabTasks, apiRuns, found>>,
           cabTroubles' \in 0..CabinetTroubles
    PROVE  CabinetsInv'
<1> DEFINE n == cabJobs[j].tries + 1
           at == IF n < CabinetTries THEN "queued" ELSE "failed"
           x == [NewCabJob EXCEPT !.at = at, !.tries = n]
<1>1. cabJobs' = [cabJobs EXCEPT ![j] = x]
  BY DEF CabFails
<1>2. n \in 0..CabinetTries
  BY JobTypes DEF CabinetsInv, JobOK, CabJob
<1>3. at \in {"queued", "failed"} /\ (at = "queued" => n < CabinetTries)
  OBVIOUS
<1> HIDE DEF n, at
<1>4. x \in CabJob
  BY <1>2, <1>3, NewJobType
<1>5. cabJobs'[j] = x
  BY <1>1, JobTypes DEF CabinetsInv
<1>6. x.at = at /\ x.tries = n /\ x.url = 1 /\ x.missed = 0
  BY DEF NewCabJob
<1> HIDE DEF x
<1>7. JobOK(j)'
  BY <1>3, <1>5, <1>6 DEF JobOK
<1> QED
  BY <1>1, <1>4, <1>7, JobMoves DEF CabinetsInv, CabinetsTypeOK

\* A step of the quote runs and of their mark: what was quoted stays so.
LEMMA RunMoves ==
    ASSUME CabinetsInv, UNCHANGED <<mode, cabJobs, cabTasks>>,
           rate' \in BOOLEAN, apiQuotes' \in BOOLEAN, quoted' \in BOOLEAN, quoted => quoted',
           marked' \in {"never", "fresh", "old"},
           rate' \/ apiQuotes' \/ marked' # "never" => quoted',
           apiRuns' \in [CabJobs \X Urls -> {"no", "read", "quote", "mark", "over", "died"}],
           \A r \in CabJobs \X Urls : apiRuns'[r] \in {"mark", "over"} => quoted',
           cabTroubles' \in 0..CabinetTroubles
    PROVE  CabinetsInv'
<1>1. CabinetsTypeOK'
  BY DEF CabinetsInv, CabinetsTypeOK
<1>2. ASSUME NEW j \in CabJobs
      PROVE  JobOK(j)'
  <2>1. JobOK(j)
    BY DEF CabinetsInv
  <2> QED
    BY <2>1 DEF JobOK
<1> QED
  BY <1>1, <1>2 DEF CabinetsInv

LEMMA TroubleType ==
    ASSUME CabinetsTypeOK, CabTrouble \/ UNCHANGED cabTroubles
    PROVE  cabTroubles' \in 0..CabinetTroubles
BY JobTypes DEF CabTrouble, CabinetsTypeOK

\* A request that failed: the other address is asked, or the job ends.
LEMMA JobMisses ==
    ASSUME CabinetsInv, NEW j \in CabJobs, Missed(j),
           cabJobs[j].at \in {"ask", "await"},
           UNCHANGED <<mode, cabTasks, apiRuns, found>>,
           cabTroubles' \in 0..CabinetTroubles
    PROVE  CabinetsInv'
<1>t. /\ cabJobs \in [CabJobs -> CabJob] /\ cabJobs[j] \in CabJob /\ JobOK(j)
      /\ j # Delayed => j \in Cabinets
  BY JobTypes DEF CabinetsInv
<1>k. /\ cabTasks \subseteq Cabinets
      /\ apiRuns' \in [CabJobs \X Urls -> {"no", "read", "quote", "mark", "over", "died"}]
  BY DEF CabinetsInv, CabinetsTypeOK
<1>1. CASE cabJobs[j].url = 1
  <2> DEFINE x == [cabJobs[j] EXCEPT !.at = "ask", !.url = 2, !.missed = cabJobs[j].missed + 1]
  <2>1. cabJobs' = [cabJobs EXCEPT ![j] = x]
    BY <1>1, <1>t DEF Missed
  <2>2. cabJobs[j].missed = 0
    BY <1>1, <1>t DEF JobOK
  <2>3. x \in CabJob
    <3>1. [cabJobs[j] EXCEPT !.at = "ask"] \in CabJob
      BY <1>t, JobSet
    <3>2. [cabJobs[j] EXCEPT !.at = "ask", !.url = 2] \in CabJob
      BY <3>1, JobSet DEF Urls
    <3>3. cabJobs[j].missed + 1 \in 0..2
      BY <2>2
    <3> QED
      BY <3>2, <3>3, JobSet
  <2>4. x.at = "ask" /\ x.url = 2 /\ x.missed = 1 /\ x.tries = cabJobs[j].tries
    BY <1>t, <2>2 DEF CabJob
  <2>5. cabJobs'[j] = x
    BY <1>t, <2>1
  <2> HIDE DEF x
  <2>6. JobOK(j)'
    BY <1>t, <2>4, <2>5 DEF JobOK
  <2> QED
    BY <1>k, <2>1, <2>3, <2>6, JobMoves
<1>2. CASE cabJobs[j].url # 1 /\ j = Delayed
  BY <1>2, JobFails DEF Missed
<1>3. CASE cabJobs[j].url # 1 /\ j # Delayed
  <2> DEFINE x == [cabJobs[j] EXCEPT !.at = "done", !.missed = cabJobs[j].missed + 1]
  <2>1. cabJobs' = [cabJobs EXCEPT ![j] = x]
    BY <1>3, <1>t DEF Missed
  <2>2. cabJobs[j].missed = 1
    BY <1>3, <1>t DEF JobOK
  <2>3. x \in CabJob
    <3>1. [cabJobs[j] EXCEPT !.at = "done"] \in CabJob
      BY <1>t, JobSet
    <3>3. cabJobs[j].missed + 1 \in 0..2
      BY <2>2
    <3> QED
      BY <3>1, <3>3, JobSet
  <2>4. x.at = "done" /\ x.missed = 2 /\ x.tries = cabJobs[j].tries
    BY <1>t, <2>2 DEF CabJob
  <2>5. cabJobs'[j] = x
    BY <1>t, <2>1
  <2> HIDE DEF x
  <2>6. JobOK(j)'
    BY <1>t, <2>4, <2>5 DEF JobOK
  <2> QED
    BY <1>k, <2>1, <2>3, <2>6, JobMoves
<1> QED
  BY <1>1, <1>2, <1>3

\* CabMoves: a job that only goes on to another place.
LEMMA JobGoes ==
    ASSUME CabinetsInv, NEW j \in CabJobs,
           NEW at \in {"queued", "task", "login", "probe", "ask", "await", "done", "failed"},
           CabMoves(j, at)
    PROVE  \E x \in CabJob : /\ cabJobs' = [cabJobs EXCEPT ![j] = x]
                             /\ cabJobs'[j] = x /\ x.at = at /\ x.tries = cabJobs[j].tries
                             /\ x.url = cabJobs[j].url /\ x.missed = cabJobs[j].missed
<1>1. cabJobs \in [CabJobs -> CabJob] /\ cabJobs[j] \in CabJob
  BY JobTypes DEF CabinetsInv
<1> DEFINE x == [cabJobs[j] EXCEPT !.at = at]
<1>2. cabJobs' = [cabJobs EXCEPT ![j] = x]
  BY <1>1 DEF CabMoves
<1>3. x \in CabJob
  BY <1>1 DEF CabJob
<1>4. x.at = at /\ x.tries = cabJobs[j].tries /\ x.url = cabJobs[j].url /\ x.missed = cabJobs[j].missed
  BY <1>1 DEF CabJob
<1> HIDE DEF x
<1>5. cabJobs'[j] = x
  BY <1>1, <1>2
<1> QED
  BY <1>2, <1>3, <1>4, <1>5

LEMMA CabinetsStepInv == CabinetsInv /\ [CabinetsNext]_uvars => CabinetsInv'
<1> SUFFICES ASSUME CabinetsInv, [CabinetsNext]_uvars
             PROVE  CabinetsInv'
  OBVIOUS
<1>t. /\ CabinetsTypeOK /\ \A j \in CabJobs : JobOK(j)
      /\ rate \/ apiQuotes \/ marked # "never" => quoted
      /\ \A r \in CabJobs \X Urls : apiRuns[r] \in {"mark", "over"} => quoted
      /\ rate \in BOOLEAN /\ apiQuotes \in BOOLEAN /\ quoted \in BOOLEAN
      /\ marked \in {"never", "fresh", "old"}
      /\ cabJobs \in [CabJobs -> CabJob] /\ cabTasks \subseteq Cabinets
      /\ apiRuns \in [CabJobs \X Urls -> {"no", "read", "quote", "mark", "over", "died"}]
      /\ cabTroubles \in 0..CabinetTroubles
      /\ Delayed \notin Cabinets /\ \A j \in CabJobs : j # Delayed => j \in Cabinets
  BY JobTypes DEF CabinetsInv, CabinetsTypeOK
<1>1. CASE MarkAges
  BY <1>1, <1>t, RunMoves DEF MarkAges
<1>2. CASE CabinetWorkerDies
  <2>1. cabTroubles' \in 0..CabinetTroubles
    BY <1>2, <1>t, TroubleType DEF CabinetWorkerDies
  <2>2. ASSUME NEW j \in CabJobs
        PROVE  cabJobs'[j] \in CabJob /\ JobOK(j)'
    <3>1. JobOK(j) /\ cabJobs[j] \in CabJob
      BY <1>t
    <3>2. CASE j \in Busy
      <4> DEFINE n == cabJobs[j].tries
      <4>1. n \in 0..CabinetTries /\ n < CabinetTries
        BY <3>1, <3>2 DEF JobOK, Busy, CabJob
      <4>2. cabJobs'[j] = [NewCabJob EXCEPT !.tries = n]
        BY <1>2, <3>2 DEF CabinetWorkerDies
      <4> HIDE DEF n
      <4>3. cabJobs'[j] = [at |-> "queued", tries |-> n, url |-> 1, missed |-> 0]
        BY <4>2 DEF NewCabJob
      <4> QED
        BY <4>1, <4>3 DEF JobOK, CabJob, Urls, found
    <3>3. CASE j \notin Busy
      <4>1. cabJobs'[j] = cabJobs[j]
        BY <1>2, <3>3 DEF CabinetWorkerDies
      <4> QED
        BY <1>2, <3>1, <4>1 DEF CabinetWorkerDies, JobOK, found
    <3> QED
      BY <3>2, <3>3
  <2>3. cabJobs' \in [CabJobs -> CabJob]
    <3>1. cabJobs' = [j \in CabJobs |-> cabJobs'[j]]
      BY <1>2 DEF CabinetWorkerDies
    <3> QED
      BY <2>2, <3>1
  <2> QED
    BY <1>2, <1>t, <2>1, <2>2, <2>3 DEF CabinetWorkerDies, CabinetsInv, CabinetsTypeOK, CabJob, found
<1>3. ASSUME NEW j \in CabJobs, TakeCabinet(j)
      PROVE  CabinetsInv'
  <2> DEFINE at == IF mode = "off" \/ j = Delayed THEN "ask" ELSE "task"
  <2>1. /\ CabMoves(j, at) /\ cabJobs[j].at = "queued" /\ JobOK(j)
        /\ UNCHANGED <<mode, cabTasks, apiRuns, found, cabTroubles>>
    BY <1>3, <1>t DEF TakeCabinet
  <2>2. PICK x \in CabJob : /\ cabJobs' = [cabJobs EXCEPT ![j] = x]
                            /\ cabJobs'[j] = x /\ x.at = at /\ x.tries = cabJobs[j].tries
                            /\ x.url = cabJobs[j].url /\ x.missed = cabJobs[j].missed
    BY <2>1, JobGoes
  <2>3. JobOK(j)'
    BY <1>t, <2>1, <2>2 DEF JobOK
  <2> QED
    BY <1>t, <2>1, <2>2, <2>3, JobMoves
<1>4. ASSUME NEW j \in CabJobs, WriteTask(j)
      PROVE  CabinetsInv'
  <2>1. cabJobs[j].at = "task" /\ JobOK(j) /\ UNCHANGED <<mode, apiRuns, found>>
    BY <1>4, <1>t DEF WriteTask
  <2>2. CASE CabTrouble /\ CabFails(j) /\ UNCHANGED cabTasks
    BY <1>t, <2>1, <2>2, TroubleType, JobFails
  <2>3. CASE /\ cabTasks' = cabTasks \cup {j}
             /\ CabMoves(j, IF mode = "browser" THEN "login" ELSE "probe")
             /\ UNCHANGED cabTroubles
    <3> DEFINE at == IF mode = "browser" THEN "login" ELSE "probe"
    <3>1. PICK x \in CabJob : /\ cabJobs' = [cabJobs EXCEPT ![j] = x]
                              /\ cabJobs'[j] = x /\ x.at = at /\ x.tries = cabJobs[j].tries
                              /\ x.url = cabJobs[j].url /\ x.missed = cabJobs[j].missed
      BY <2>3, JobGoes
    <3>2. JobOK(j)'
      BY <1>t, <2>1, <2>3, <3>1 DEF JobOK
    <3>3. j \in Cabinets
      BY <2>1 DEF JobOK
    <3> QED
      BY <1>t, <2>1, <2>3, <3>1, <3>2, <3>3, JobMoves
  <2> QED
    BY <1>4, <2>2, <2>3 DEF WriteTask
<1>5. ASSUME NEW j \in CabJobs, Login(j)
      PROVE  CabinetsInv'
  <2>1. PICK x \in CabJob : /\ cabJobs' = [cabJobs EXCEPT ![j] = x]
                            /\ cabJobs'[j] = x /\ x.at = "ask" /\ x.tries = cabJobs[j].tries
                            /\ x.url = cabJobs[j].url /\ x.missed = cabJobs[j].missed
    BY <1>5, JobGoes DEF Login
  <2>2. JobOK(j)'
    BY <1>5, <1>t, <2>1 DEF Login, JobOK
  <2> QED
    BY <1>5, <1>t, <2>1, <2>2, JobMoves DEF Login
<1>6. ASSUME NEW j \in CabJobs, Probe(j)
      PROVE  CabinetsInv'
  <2>1. cabJobs[j].at = "probe" /\ JobOK(j) /\ UNCHANGED <<mode, cabTasks, apiRuns, found>>
    BY <1>6, <1>t DEF Probe
  <2>2. CASE CabTrouble /\ CabFails(j)
    BY <1>t, <2>1, <2>2, TroubleType, JobFails
  <2>3. CASE CabMoves(j, "ask") /\ UNCHANGED cabTroubles
    <3>1. PICK x \in CabJob : /\ cabJobs' = [cabJobs EXCEPT ![j] = x]
                              /\ cabJobs'[j] = x /\ x.at = "ask" /\ x.tries = cabJobs[j].tries
                              /\ x.url = cabJobs[j].url /\ x.missed = cabJobs[j].missed
      BY <2>3, JobGoes
    <3>2. JobOK(j)'
      BY <1>t, <2>1, <3>1 DEF JobOK
    <3> QED
      BY <1>t, <2>1, <2>3, <3>1, <3>2, JobMoves
  <2> QED
    BY <1>6, <2>2, <2>3 DEF Probe
<1>7. ASSUME NEW j \in CabJobs, AskQuotes(j)
      PROVE  CabinetsInv'
  <2>1. cabJobs[j].at = "ask" /\ JobOK(j) /\ UNCHANGED <<mode, cabTasks, found>>
    BY <1>7, <1>t DEF AskQuotes
  <2>2. CASE CabTrouble /\ Missed(j) /\ UNCHANGED apiRuns
    BY <1>t, <2>1, <2>2, TroubleType, JobMisses
  <2>3. CASE /\ apiRuns' = [apiRuns EXCEPT ![Slot(j)] = "read"]
             /\ CabMoves(j, "await")
             /\ UNCHANGED cabTroubles
    <3>1. PICK x \in CabJob : /\ cabJobs' = [cabJobs EXCEPT ![j] = x]
                              /\ cabJobs'[j] = x /\ x.at = "await" /\ x.tries = cabJobs[j].tries
                              /\ x.url = cabJobs[j].url /\ x.missed = cabJobs[j].missed
      BY <2>3, JobGoes
    <3>2. JobOK(j)'
      BY <2>1, <3>1 DEF JobOK
    <3>3. /\ apiRuns' \in [CabJobs \X Urls -> {"no", "read", "quote", "mark", "over", "died"}]
          /\ \A r \in CabJobs \X Urls :
               apiRuns'[r] \in {"mark", "over"} => apiRuns[r] \in {"mark", "over"}
      BY <1>t, <2>3
    <3> QED
      BY <1>t, <2>1, <2>3, <3>1, <3>2, <3>3, JobMoves
  <2> QED
    BY <1>7, <2>2, <2>3 DEF AskQuotes
<1>8. ASSUME NEW j \in CabJobs, Told(j)
      PROVE  CabinetsInv'
  <2>1. Slot(j) \in CabJobs \X Urls
    BY <1>t DEF Slot, CabJob
  <2>2. quoted
    BY <1>8, <1>t, <2>1 DEF Told
  <2>3. PICK x \in CabJob : /\ cabJobs' = [cabJobs EXCEPT ![j] = x]
                            /\ cabJobs'[j] = x /\ x.at = "done" /\ x.tries = cabJobs[j].tries
                            /\ x.url = cabJobs[j].url /\ x.missed = cabJobs[j].missed
    BY <1>8, JobGoes DEF Told
  <2>4. JobOK(j)'
    BY <1>8, <1>t, <2>2, <2>3 DEF Told, JobOK, found
  <2> QED
    BY <1>8, <1>t, <2>3, <2>4, JobMoves DEF Told
<1>9. ASSUME NEW j \in CabJobs, NotTold(j)
      PROVE  CabinetsInv'
  BY <1>9, <1>t, TroubleType, JobMisses DEF NotTold
<1>10. ASSUME NEW r \in CabJobs \X Urls, ReadDebounce(r)
       PROVE  CabinetsInv'
  <2>1. PICK at \in {"died", "over", "quote"} :
           /\ apiRuns' = [apiRuns EXCEPT ![r] = at]
           /\ at = "over" => apiQuotes \/ rate \/ marked = "fresh"
    BY <1>10 DEF ReadDebounce
  <2>2. cabTroubles' \in 0..CabinetTroubles /\ UNCHANGED <<mode, cabJobs, cabTasks, found>>
    BY <1>10, <1>t, TroubleType DEF ReadDebounce
  <2>3. /\ apiRuns' \in [CabJobs \X Urls -> {"no", "read", "quote", "mark", "over", "died"}]
        /\ \A q \in CabJobs \X Urls : apiRuns'[q] \in {"mark", "over"} => quoted
    BY <1>t, <2>1
  <2> QED
    BY <1>t, <2>2, <2>3, RunMoves DEF found
<1>11. ASSUME NEW r \in CabJobs \X Urls, QuoteApis(r)
       PROVE  CabinetsInv'
  <2>1. PICK at \in {"mark", "died"} :
           /\ apiRuns' = [apiRuns EXCEPT ![r] = at]
           /\ at = "mark" => quoted'
    BY <1>11 DEF QuoteApis
  <2>2. cabTroubles' \in 0..CabinetTroubles /\ UNCHANGED <<mode, cabJobs, cabTasks, marked>>
    BY <1>11, <1>t, TroubleType DEF QuoteApis
  <2>3. /\ rate' \in BOOLEAN /\ apiQuotes' \in BOOLEAN /\ quoted' \in BOOLEAN
        /\ quoted => quoted'
        /\ rate' \/ apiQuotes' \/ marked' # "never" => quoted'
    BY <1>11, <1>t DEF QuoteApis
  <2>4. /\ apiRuns' \in [CabJobs \X Urls -> {"no", "read", "quote", "mark", "over", "died"}]
        /\ \A q \in CabJobs \X Urls : apiRuns'[q] \in {"mark", "over"} => quoted'
    BY <1>t, <2>1, <2>3
  <2> QED
    BY <1>t, <2>2, <2>3, <2>4, RunMoves
<1>12. ASSUME NEW r \in CabJobs \X Urls, MarkRun(r)
       PROVE  CabinetsInv'
  <2>1. quoted
    BY <1>12, <1>t DEF MarkRun
  <2>2. cabTroubles' \in 0..CabinetTroubles /\ marked' \in {marked, "fresh"}
    BY <1>12, <1>t, TroubleType DEF MarkRun
  <2>3. apiRuns' \in [CabJobs \X Urls -> {"no", "read", "quote", "mark", "over", "died"}]
    BY <1>12, <1>t DEF MarkRun
  <2>4. UNCHANGED <<mode, cabJobs, cabTasks, rate, apiQuotes, quoted>>
    BY <1>12 DEF MarkRun
  <2> QED
    BY <1>t, <2>1, <2>2, <2>3, <2>4, RunMoves
<1>13. CASE UNCHANGED uvars
  BY <1>13, <1>t DEF uvars, found, CabinetsInv, CabinetsTypeOK, JobOK
<1> QED
  BY <1>1, <1>2, <1>3, <1>4, <1>5, <1>6, <1>7, <1>8, <1>9, <1>10, <1>11, <1>12, <1>13
     DEF CabinetsNext, CabinetStep

\* Whatever fails, and however often, a carrier's cabinet whose job has ended was
\* followed up: the operator has a task, unless cabinets are off, and the deal had
\* a price or a live quote of a partner's API, or a run over the APIs came to its end,
\* unless both requests of the job failed.  triggerApiQuoteFallback asks two addresses
\* and does not throw for a cabinet.
THEOREM CabinetsAreFollowedUp == CabinetsSpec => []CabinetIsFollowedUp
<1>1. CabinetsInv => CabinetIsFollowedUp
  BY DEF CabinetsInv, JobOK, CabinetIsFollowedUp, CabJobs
<1> QED
  BY CabinetsInitInv, CabinetsStepInv, <1>1, PTL DEF CabinetsSpec

-----------------------------------------------------------------------------
\* Suppliers.  A row of an unknown supplier is empty: nothing of it is set.
SupplierTypes ==
    /\ supplier \in Supplier
    /\ letter \in [Rfqs -> Letter]
    /\ owed \in Nat
    /\ ~supplier.known => ~supplier.silent /\ ~supplier.active
    /\ supplierClicks \in Nat

\* What is known of the supplier's count in every state.
StreakInv == SupplierTypes /\ StreakIsOwed

\* A row keeps its type when a column of it is set.
LEMMA SupplierSet ==
    ASSUME NEW x \in Supplier
    PROVE  /\ \A b \in BOOLEAN : /\ [x EXCEPT !.listed = b] \in Supplier
                                 /\ [x EXCEPT !.active = b] \in Supplier
                                 /\ [x EXCEPT !.left = b] \in Supplier
                                 /\ [x EXCEPT !.silent = b] \in Supplier
                                 /\ [x EXCEPT !.answered = b] \in Supplier
           /\ \A n \in {"none", "auto", "staff"} : [x EXCEPT !.note = n] \in Supplier
           /\ \A l \in {"never", "recent", "old"} : [x EXCEPT !.lastRfq = l] \in Supplier
           /\ \A k \in Nat : [x EXCEPT !.streak = k] \in Supplier
BY DEF Supplier

LEMMA UncountedCard ==
    /\ IsFiniteSet(Uncounted) /\ Cardinality(Uncounted) \in Nat
    /\ \A s \in SUBSET Uncounted : Cardinality(s) \in Nat /\ Cardinality(s) <= Cardinality(Uncounted)
<1>1. IsFiniteSet(Uncounted)
  BY SupplierAssumption, FS_Subset DEF Uncounted
<1>2. Cardinality(Uncounted) \in Nat
  BY <1>1, FS_CardinalityType
<1>3. ASSUME NEW s \in SUBSET Uncounted
      PROVE  Cardinality(s) \in Nat /\ Cardinality(s) <= Cardinality(Uncounted)
  <2>1. IsFiniteSet(s) /\ Cardinality(s) <= Cardinality(Uncounted)
    BY <1>1, FS_Subset
  <2> QED
    BY <2>1, FS_CardinalityType
<1> QED
  BY <1>1, <1>2, <1>3

\* A job keeps its form when a part of it is set.
LEMMA LetterSet ==
    ASSUME NEW x \in Letter
    PROVE  /\ \A st \in {"absent", "waiting", "active", "sent", "marked", "stalled",
                         "done", "failed"} : [x EXCEPT !.state = st] \in Letter
           /\ [x EXCEPT !.fails = @ + 1] \in Letter
           /\ [x EXCEPT !.stalls = @ + 1] \in Letter
BY DEF Letter

LEMMA NewLetterType ==
    \A f \in BOOLEAN : /\ [NoLetter EXCEPT !.state = "waiting", !.found = f] \in Letter
                       /\ [NoLetter EXCEPT !.state = "waiting", !.found = f].state = "waiting"
BY DEF NoLetter, Letter

\* A step that moves letter r to a state keeps the type, and r alone enters or
\* leaves the letters that are sent and not counted.
LEMMA MoveLetterKeeps ==
    ASSUME SupplierTypes, NEW r \in Rfqs,
           NEW st \in {"absent", "waiting", "active", "sent", "marked", "stalled", "done", "failed"},
           MoveLetter(r, st)
    PROVE  /\ letter' \in [Rfqs -> Letter]
           /\ Uncounted' = IF st = "sent" THEN Uncounted \cup {r} ELSE Uncounted \ {r}
<1>1. letter[r] \in Letter
  BY DEF SupplierTypes
<1>2. /\ letter' = [letter EXCEPT ![r] = [letter[r] EXCEPT !.state = st]]
      /\ [letter[r] EXCEPT !.state = st] \in Letter
      /\ [letter[r] EXCEPT !.state = st].state = st
  <2>1. letter' = [letter EXCEPT ![r] = [letter[r] EXCEPT !.state = st]]
    BY DEF MoveLetter
  <2>2. [letter[r] EXCEPT !.state = st] \in Letter
    BY <1>1, LetterSet
  <2>3. [letter[r] EXCEPT !.state = st].state = st
    BY <1>1 DEF Letter
  <2> QED
    BY <2>1, <2>2, <2>3
<1>3. letter'[r].state = st /\ \A q \in Rfqs : q # r => letter'[q] = letter[q]
  BY <1>2 DEF SupplierTypes
<1>4. letter' \in [Rfqs -> Letter]
  BY <1>2 DEF SupplierTypes
<1>5. \A q \in Rfqs : LetterIs(q, {"sent"})' <=> IF q = r THEN st = "sent" ELSE LetterIs(q, {"sent"})
  BY <1>3 DEF LetterIs
<1> QED
  BY <1>4, <1>5 DEF Uncounted

\* A step that counts no letter, sends none and answers none.
LEMMA StreakShrinks ==
    ASSUME StreakInv, SupplierTypes', Uncounted' \subseteq Uncounted, owed' = owed,
           supplier'.streak <= supplier.streak
    PROVE  StreakInv'
<1>1. Cardinality(Uncounted') \in Nat /\ Cardinality(Uncounted') <= Cardinality(Uncounted)
      /\ Cardinality(Uncounted) \in Nat
  BY UncountedCard
<1>2. supplier.streak \in Nat /\ supplier'.streak \in Nat
  BY DEF StreakInv, SupplierTypes, Supplier
<1> QED
  BY <1>1, <1>2 DEF StreakInv, StreakIsOwed, SupplierTypes

LEMMA CountedType ==
    ASSUME NEW s \in Supplier
    PROVE  /\ Counted(s) \in Supplier
           /\ Counted(s).streak \in {s.streak, s.streak + 1}
           /\ Counted(s).known = s.known /\ Counted(s).silent = s.silent
           /\ Counted(s).active = s.active /\ Counted(s).note = s.note
<1>1. CASE s.active /\ ~s.left
  <2>1. Counted(s) = [s EXCEPT !.streak = s.streak + 1, !.lastRfq = "recent", !.answered = FALSE]
    BY <1>1 DEF Counted
  <2>2. s.streak \in Nat /\ s.streak + 1 \in Nat
    BY DEF Supplier
  <2>3. [s EXCEPT !.streak = s.streak + 1] \in Supplier
    BY <2>2, SupplierSet
  <2>4. [s EXCEPT !.streak = s.streak + 1, !.lastRfq = "recent"] \in Supplier
    BY <2>3, SupplierSet
  <2>5. Counted(s) \in Supplier
    BY <2>1, <2>4, SupplierSet
  <2> QED
    BY <2>1, <2>5 DEF Supplier
<1>2. CASE ~(s.active /\ ~s.left)
  BY <1>2 DEF Counted
<1> QED
  BY <1>1, <1>2

LEMMA AnsweredType ==
    ASSUME NEW s \in Supplier
    PROVE  /\ Answered(s) \in Supplier
           /\ Answered(s).streak = 0 /\ Answered(s).known = s.known
<1> DEFINE silent == s.silent /\ s.note # "auto"
           note == IF s.silent /\ s.note = "auto" THEN "none" ELSE s.note
<1>1. silent \in BOOLEAN /\ note \in {"none", "auto", "staff"}
  BY DEF Supplier
<1> HIDE DEF silent, note
<1>2. [s EXCEPT !.answered = TRUE] \in Supplier
  BY SupplierSet
<1>3. [s EXCEPT !.answered = TRUE, !.streak = 0] \in Supplier
  BY <1>2, SupplierSet
<1>4. [s EXCEPT !.answered = TRUE, !.streak = 0, !.silent = silent] \in Supplier
  BY <1>1, <1>3, SupplierSet
<1>5. [s EXCEPT !.answered = TRUE, !.streak = 0, !.silent = silent, !.note = note] \in Supplier
  BY <1>1, <1>4, SupplierSet
<1>6. Answered(s) = [s EXCEPT !.answered = TRUE, !.streak = 0, !.silent = silent, !.note = note]
  BY DEF Answered, silent, note
<1> QED
  BY <1>5, <1>6 DEF Supplier

LEMMA ClicksCount ==
    ASSUME SupplierTypes, SupplierNext
    PROVE  supplierClicks' \in Nat
<1>1. supplierClicks \in Nat
  BY DEF SupplierTypes
<1>2. CASE Silence \/ Reactivate \/ LeaveMarket \/ PauseSupplier
  BY <1>1, <1>2 DEF Silence, Reactivate, LeaveMarket, PauseSupplier, Press
<1>3. CASE AddSupplier \/ SupplierReplies \/ HoursPass \/ AutoSilence \/ LetterWorkerDies
  BY <1>1, <1>3 DEF AddSupplier, SupplierReplies, HoursPass, AutoSilence, LetterWorkerDies,
                    SupplierTrouble
<1>4. ASSUME NEW r \in Rfqs, AskSupplier(r) \/ WorkLetter(r) \/ FailLetter(r)
      PROVE  supplierClicks' \in Nat
  BY <1>1, <1>4 DEF AskSupplier, WorkLetter, FailLetter, TakeLetter, AskFirst, SendLetter,
                    MarkSent, CompleteLetter, Unstall, SupplierTrouble
<1> QED
  BY <1>2, <1>3, <1>4 DEF SupplierNext

LEMMA StreakStart == SupplierInit => StreakInv
<1> SUFFICES ASSUME SupplierInit PROVE StreakInv
  OBVIOUS
<1>1. SupplierTypes
  BY DEF SupplierInit, SupplierTypes, NoSupplier, NoLetter, Supplier, Letter
<1>2. Uncounted = {}
  BY DEF SupplierInit, Uncounted, LetterIs, NoLetter
<1>3. Cardinality(Uncounted) = 0
  BY <1>2, FS_EmptySet
<1> QED
  BY <1>1, <1>3 DEF SupplierInit, StreakInv, StreakIsOwed, NoSupplier

\* The director's buttons, the clock and the automatic mark leave the count.
LEMMA StreakClicks ==
    ASSUME StreakInv, supplierClicks' \in Nat,
           AddSupplier \/ Silence \/ Reactivate \/ LeaveMarket \/ PauseSupplier
             \/ HoursPass \/ AutoSilence
    PROVE  StreakInv'
<1>1. letter' = letter /\ owed' = owed
  BY DEF AddSupplier, Silence, Reactivate, LeaveMarket, PauseSupplier, HoursPass, AutoSilence,
         Press, sjobs
<1>2. supplier \in Supplier
  BY DEF StreakInv, SupplierTypes
<1>3. /\ supplier' \in Supplier /\ supplier'.streak <= supplier.streak
      /\ ~supplier'.known => ~supplier'.silent /\ ~supplier'.active
  <2>0. supplier.streak \in Nat /\ 0 <= supplier.streak
    BY <1>2 DEF Supplier
  <2>1. CASE AddSupplier
    <3>1. supplier' = [known |-> TRUE, listed |-> TRUE, active |-> TRUE, left |-> FALSE,
                       silent |-> FALSE, note |-> "none", streak |-> 0, lastRfq |-> "never",
                       answered |-> FALSE, approved |-> TRUE]
      BY <2>1 DEF AddSupplier, NoSupplier
    <3> QED
      BY <2>0, <3>1 DEF Supplier
  <2>2. CASE Silence
    <3>1. PICK note \in {"staff", supplier.note} :
            supplier' = [supplier EXCEPT !.silent = TRUE, !.note = note]
      BY <2>2 DEF Silence
    <3>2. note \in {"none", "auto", "staff"}
      BY <1>2 DEF Supplier
    <3>3. [supplier EXCEPT !.silent = TRUE] \in Supplier
      BY <1>2, SupplierSet
    <3>4. supplier' \in Supplier
      BY <3>1, <3>2, <3>3, SupplierSet
    <3> QED
      BY <2>0, <2>2, <3>1, <3>4, <1>2 DEF Supplier, Silence, Press
  <2>3. CASE Reactivate
    <3>1. [supplier EXCEPT !.listed = TRUE] \in Supplier
      BY <1>2, SupplierSet
    <3>2. [supplier EXCEPT !.listed = TRUE, !.active = TRUE] \in Supplier
      BY <3>1, SupplierSet
    <3>3. [supplier EXCEPT !.listed = TRUE, !.active = TRUE, !.left = FALSE] \in Supplier
      BY <3>2, SupplierSet
    <3>4. [supplier EXCEPT !.listed = TRUE, !.active = TRUE, !.left = FALSE,
                           !.silent = FALSE] \in Supplier
      BY <3>3, SupplierSet
    <3>5. supplier' \in Supplier
      BY <2>3, <3>4, SupplierSet DEF Reactivate
    <3> QED
      BY <2>0, <2>3, <3>5, <1>2 DEF Supplier, Reactivate, Press
  <2>4. CASE LeaveMarket
    <3>1. PICK note \in {"staff", supplier.note} :
            supplier' = [supplier EXCEPT !.left = TRUE, !.silent = FALSE, !.note = note]
      BY <2>4 DEF LeaveMarket
    <3>2. note \in {"none", "auto", "staff"}
      BY <1>2 DEF Supplier
    <3>3. [supplier EXCEPT !.left = TRUE] \in Supplier
      BY <1>2, SupplierSet
    <3>4. [supplier EXCEPT !.left = TRUE, !.silent = FALSE] \in Supplier
      BY <3>3, SupplierSet
    <3>5. supplier' \in Supplier
      BY <3>1, <3>2, <3>4, SupplierSet
    <3> QED
      BY <2>0, <2>4, <3>1, <3>5, <1>2 DEF Supplier, LeaveMarket, Press
  <2>5. CASE PauseSupplier
    <3>1. [supplier EXCEPT !.listed = FALSE] \in Supplier
      BY <1>2, SupplierSet
    <3>2. supplier' \in Supplier
      BY <2>5, <3>1, SupplierSet DEF PauseSupplier
    <3> QED
      BY <2>0, <2>5, <3>2, <1>2 DEF Supplier, PauseSupplier, Press
  <2>6. CASE HoursPass
    <3>1. supplier' \in Supplier
      BY <2>6, <1>2, SupplierSet DEF HoursPass
    <3> QED
      BY <2>0, <2>6, <3>1, <1>2 DEF Supplier, HoursPass, StreakInv, SupplierTypes
  <2>7. CASE AutoSilence
    <3>1. [supplier EXCEPT !.silent = TRUE] \in Supplier
      BY <1>2, SupplierSet
    <3>2. supplier' \in Supplier
      BY <2>7, <3>1, SupplierSet DEF AutoSilence
    <3> QED
      BY <2>0, <2>7, <3>2, <1>2 DEF Supplier, AutoSilence, Overdue, StreakInv, SupplierTypes
  <2> QED
    BY <2>1, <2>2, <2>3, <2>4, <2>5, <2>6, <2>7
<1>4. SupplierTypes' /\ Uncounted' = Uncounted
  BY <1>1, <1>3 DEF StreakInv, SupplierTypes, Uncounted, LetterIs
<1> QED
  BY <1>1, <1>3, <1>4, StreakShrinks

\* A job that is taken, ends or is taken up again sends and counts nothing.
LEMMA StreakJobs ==
    ASSUME StreakInv, supplierClicks' \in Nat, NEW r \in Rfqs,
           TakeLetter(r) \/ AskFirst(r) \/ CompleteLetter(r) \/ Unstall(r)
             \/ AskSupplier(r) \/ FailLetter(r)
    PROVE  StreakInv'
<1>1. supplier' = supplier /\ owed' = owed
  BY DEF TakeLetter, AskFirst, CompleteLetter, Unstall, AskSupplier, FailLetter, SupplierTrouble
<1>2. PICK l \in Letter : letter' = [letter EXCEPT ![r] = l] /\ l.state # "sent"
  <2>0. letter[r] \in Letter
    BY DEF StreakInv, SupplierTypes
  <2>1. ASSUME NEW st \in {"active", "done"}, MoveLetter(r, st)
        PROVE  \E l \in Letter : letter' = [letter EXCEPT ![r] = l] /\ l.state # "sent"
    <3>1. letter' = [letter EXCEPT ![r] = [letter[r] EXCEPT !.state = st]]
      BY <2>1 DEF MoveLetter
    <3>2. [letter[r] EXCEPT !.state = st] \in Letter
      BY <2>0, LetterSet
    <3>3. [letter[r] EXCEPT !.state = st].state = st
      BY <2>0 DEF Letter
    <3> QED
      BY <3>1, <3>2, <3>3
  <2>2. CASE TakeLetter(r) \/ AskFirst(r) \/ CompleteLetter(r)
    BY <2>1, <2>2 DEF TakeLetter, AskFirst, CompleteLetter
  <2>3. CASE Unstall(r)
    <3> DEFINE st == IF letter[r].stalls < LetterStalls THEN "waiting" ELSE "failed"
               l == [letter[r] EXCEPT !.stalls = letter[r].stalls + 1, !.state = st]
    <3>1. letter' = [letter EXCEPT ![r] = l]
      BY <2>3 DEF Unstall, SupplierTypes
    <3>2. [letter[r] EXCEPT !.stalls = letter[r].stalls + 1] \in Letter
      BY <2>0, LetterSet
    <3>3. st \in {"waiting", "failed"}
      OBVIOUS
    <3> HIDE DEF st
    <3>4. l \in Letter
      BY <3>2, <3>3, LetterSet
    <3>5. l.state # "sent"
      BY <2>0, <3>3 DEF Letter
    <3> QED
      BY <3>1, <3>4, <3>5
  <2>4. CASE AskSupplier(r)
    BY <2>4, NewLetterType DEF AskSupplier
  <2>5. CASE FailLetter(r)
    <3> DEFINE st == IF letter[r].fails + 1 < LetterAttempts THEN "waiting" ELSE "failed"
               l == [letter[r] EXCEPT !.fails = letter[r].fails + 1, !.state = st]
    <3>1. letter' = [letter EXCEPT ![r] = l]
      BY <2>5 DEF FailLetter, Retried
    <3>2. [letter[r] EXCEPT !.fails = letter[r].fails + 1] \in Letter
      BY <2>0, LetterSet
    <3>3. st \in {"waiting", "failed"}
      OBVIOUS
    <3> HIDE DEF st
    <3>4. l \in Letter
      BY <3>2, <3>3, LetterSet
    <3>5. l.state # "sent"
      BY <2>0, <3>3 DEF Letter
    <3> QED
      BY <3>1, <3>4, <3>5
  <2> QED
    BY <2>2, <2>3, <2>4, <2>5
<1>3. SupplierTypes'
  BY <1>1, <1>2 DEF StreakInv, SupplierTypes
<1>4. Uncounted' \subseteq Uncounted
  <2>1. letter'[r].state # "sent" /\ \A q \in Rfqs : q # r => letter'[q] = letter[q]
    BY <1>2 DEF StreakInv, SupplierTypes
  <2> QED
    BY <2>1 DEF Uncounted, LetterIs
<1>5. supplier'.streak <= supplier.streak
  BY <1>1 DEF StreakInv, SupplierTypes, Supplier
<1> QED
  BY <1>1, <1>3, <1>4, <1>5, StreakShrinks

LEMMA StreakDies ==
    ASSUME StreakInv, supplierClicks' \in Nat, LetterWorkerDies
    PROVE  StreakInv'
<1>1. supplier' = supplier /\ owed' = owed
  BY DEF LetterWorkerDies, SupplierTrouble
<1>2. \A r \in Rfqs : letter[r] \in Letter /\ [letter[r] EXCEPT !.state = "stalled"] \in Letter
                      /\ [letter[r] EXCEPT !.state = "stalled"].state = "stalled"
  <2>1. \A r \in Rfqs : letter[r] \in Letter
    BY DEF StreakInv, SupplierTypes
  <2> QED
    BY <2>1 DEF Letter
<1>3. /\ letter' \in [Rfqs -> Letter]
      /\ \A r \in Rfqs : letter'[r].state # "sent" \/ letter'[r] = letter[r]
  BY <1>2 DEF LetterWorkerDies
<1>4. SupplierTypes' /\ Uncounted' \subseteq Uncounted
  BY <1>1, <1>3 DEF StreakInv, SupplierTypes, Uncounted, LetterIs
<1>5. supplier'.streak <= supplier.streak
  BY <1>1 DEF StreakInv, SupplierTypes, Supplier
<1> QED
  BY <1>1, <1>4, <1>5, StreakShrinks

\* A letter that leaves is owed before it is counted.
LEMMA StreakSends ==
    ASSUME StreakInv, supplierClicks' \in Nat, NEW r \in Rfqs, SendLetter(r)
    PROVE  StreakInv'
<1>1. supplier' = supplier /\ owed' = owed + 1 /\ MoveLetter(r, "sent")
  BY DEF SendLetter
<1>2. letter' \in [Rfqs -> Letter] /\ Uncounted' = Uncounted \cup {r}
  BY <1>1, MoveLetterKeeps DEF StreakInv
<1>3. /\ Cardinality(Uncounted) \in Nat
      /\ Cardinality(Uncounted \cup {r}) \in {Cardinality(Uncounted), Cardinality(Uncounted) + 1}
  BY UncountedCard, FS_AddElement
<1>4. SupplierTypes'
  BY <1>1, <1>2 DEF StreakInv, SupplierTypes
<1>5. /\ owed \in Nat /\ supplier.streak \in Nat
      /\ supplier.streak + Cardinality(Uncounted) <= owed
  BY DEF StreakInv, StreakIsOwed, SupplierTypes, Supplier
<1>6. supplier'.streak + Cardinality(Uncounted') <= owed'
  BY <1>1, <1>2, <1>3, <1>5
<1> QED
  BY <1>4, <1>6 DEF StreakInv, StreakIsOwed

\* Counting a letter takes it from the letters that wait to be counted.
LEMMA StreakMarks ==
    ASSUME StreakInv, supplierClicks' \in Nat, NEW r \in Rfqs, MarkSent(r)
    PROVE  StreakInv'
<1>1. supplier' = Counted(supplier) /\ owed' = owed /\ MoveLetter(r, "marked")
  BY DEF MarkSent
<1>2. letter' \in [Rfqs -> Letter] /\ Uncounted' = Uncounted \ {r}
  BY <1>1, MoveLetterKeeps DEF StreakInv
<1>3. r \in Uncounted
  BY DEF MarkSent, Uncounted
<1>4. /\ Cardinality(Uncounted) \in Nat
      /\ Cardinality(Uncounted \ {r}) = Cardinality(Uncounted) - 1
  BY <1>3, UncountedCard, FS_RemoveElement
<1>5. /\ supplier' \in Supplier
      /\ supplier'.streak \in {supplier.streak, supplier.streak + 1}
      /\ ~supplier'.known => ~supplier'.silent /\ ~supplier'.active
  BY <1>1, CountedType DEF StreakInv, SupplierTypes
<1>6. supplier.streak \in Nat
  BY DEF StreakInv, SupplierTypes, Supplier
<1>7. SupplierTypes'
  BY <1>1, <1>2, <1>5 DEF StreakInv, SupplierTypes
<1>8. /\ owed \in Nat
      /\ supplier.streak + Cardinality(Uncounted) <= owed
  BY DEF StreakInv, StreakIsOwed, SupplierTypes
<1>9. supplier'.streak + Cardinality(Uncounted') <= owed'
  BY <1>1, <1>2, <1>4, <1>5, <1>6, <1>8
<1> QED
  BY <1>7, <1>9 DEF StreakInv, StreakIsOwed

\* A reply answers the letters that were counted.
LEMMA StreakReplies ==
    ASSUME StreakInv, supplierClicks' \in Nat, SupplierReplies
    PROVE  StreakInv'
<1>1. supplier' = Answered(supplier) /\ letter' = letter /\ owed' = Cardinality(Uncounted)
  BY DEF SupplierReplies, sjobs
<1>2. supplier' \in Supplier /\ supplier'.streak = 0 /\ supplier'.known
  BY <1>1, AnsweredType DEF StreakInv, SupplierTypes, SupplierReplies
<1>3. Uncounted' = Uncounted
  BY <1>1 DEF Uncounted, LetterIs
<1>4. Cardinality(Uncounted) \in Nat
  BY UncountedCard
<1> QED
  BY <1>1, <1>2, <1>3, <1>4 DEF StreakInv, StreakIsOwed, SupplierTypes

LEMMA StreaksTyped == SupplierSpec => []StreakInv
<1>1. StreakInv /\ [SupplierNext]_svars => StreakInv'
  <2> SUFFICES ASSUME StreakInv, [SupplierNext]_svars PROVE StreakInv'
    OBVIOUS
  <2>0. SupplierNext => supplierClicks' \in Nat
    BY ClicksCount DEF StreakInv
  <2>1. CASE \E r \in Rfqs : AskSupplier(r) \/ WorkLetter(r) \/ FailLetter(r)
    <3>1. PICK r \in Rfqs : AskSupplier(r) \/ WorkLetter(r) \/ FailLetter(r)
      BY <2>1
    <3>2. supplierClicks' \in Nat
      BY <2>0, <2>1 DEF SupplierNext
    <3> QED
      BY <3>1, <3>2, StreakJobs, StreakSends, StreakMarks DEF WorkLetter
  <2>2. CASE UNCHANGED svars
    BY <2>2 DEF svars, sjobs, StreakInv, SupplierTypes, StreakIsOwed, Uncounted, LetterIs
  <2> QED
    BY <2>0, <2>1, <2>2, StreakClicks, StreakReplies, StreakDies DEF SupplierNext
<1> QED
  BY StreakStart, <1>1, PTL DEF SupplierSpec

\* no_reply_streak never counts a letter the supplier did not get or has
\* answered (markSupplierRfqSent, markSupplierReplied in workers-ts).
THEOREM StreaksAreOwed == SupplierSpec => []StreakIsOwed
<1>1. StreakInv => StreakIsOwed
  BY DEF StreakInv
<1> QED
  BY <1>1, StreaksTyped, PTL

\* A silence the director gave a reason for is lifted by the director alone
\* (routes/partners.ts), not by a reply and not by an automatic mark.
THEOREM StaffSilenceIsKept == SupplierSpec => StaffSilenceKept
<1>1. ASSUME SupplierTypes, SupplierNext, supplier.silent, supplier.note = "staff",
             supplierClicks' = supplierClicks
      PROVE  supplier'.silent /\ supplier'.note = "staff"
  <2>0. supplier \in Supplier
    BY <1>1 DEF SupplierTypes
  <2>1. CASE AddSupplier
    BY <1>1, <2>1 DEF AddSupplier, SupplierTypes
  <2>2. CASE Silence \/ Reactivate \/ LeaveMarket \/ PauseSupplier
    <3>1. supplierClicks' = supplierClicks + 1 /\ supplierClicks \in Nat
      BY <2>2, <1>1 DEF Silence, Reactivate, LeaveMarket, PauseSupplier, Press, SupplierTypes
    <3> QED
      BY <1>1, <3>1
  <2>3. CASE SupplierReplies
    BY <1>1, <2>3, <2>0 DEF SupplierReplies, Answered, Supplier
  <2>4. CASE HoursPass
    BY <1>1, <2>4, <2>0 DEF HoursPass, Supplier
  <2>5. CASE AutoSilence
    BY <1>1, <2>5 DEF AutoSilence, Overdue
  <2>6. CASE LetterWorkerDies
    BY <1>1, <2>6 DEF LetterWorkerDies, SupplierTrouble
  <2>7. ASSUME NEW r \in Rfqs, AskSupplier(r) \/ WorkLetter(r) \/ FailLetter(r)
        PROVE  supplier'.silent /\ supplier'.note = "staff"
    <3>1. CASE MarkSent(r)
      BY <1>1, <3>1, <2>0, CountedType DEF MarkSent
    <3>2. CASE ~MarkSent(r)
      BY <1>1, <2>7, <3>2 DEF AskSupplier, WorkLetter, FailLetter, TakeLetter, AskFirst, SendLetter,
                        CompleteLetter, Unstall, SupplierTrouble
    <3> QED
      BY <3>1, <3>2
  <2> QED
    BY <1>1, <2>1, <2>2, <2>3, <2>4, <2>5, <2>6, <2>7 DEF SupplierNext
<1>2. SupplierTypes /\ [SupplierNext]_svars
        => [supplier.silent /\ supplier.note = "staff" /\ supplierClicks' = supplierClicks
              => supplier'.silent /\ supplier'.note = "staff"]_svars
  BY <1>1
<1>3. StreakInv => SupplierTypes
  BY DEF StreakInv
<1> QED
  BY <1>2, <1>3, StreaksTyped, PTL DEF SupplierSpec, StaffSilenceKept
=============================================================================
