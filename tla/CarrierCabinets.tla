--------------------------- MODULE CarrierCabinets ---------------------------
(***************************************************************************)
(* Asking carriers that have a cabinet and no mailbox for a rate.  A job   *)
(* per cabinet leaves a task for the operator, perhaps with the browser's  *)
(* help; no cabinet tells a price, so each job then asks the orchestrator  *)
(* to quote over the partners' APIs, and so does a job that was delayed    *)
(* for when the cabinets stay silent.  The worker takes two jobs at a time.*)
(***************************************************************************)
EXTENDS Naturals, FiniteSets

CONSTANTS
    Cabinets,
    Delayed,            \* the delayed job of the same deal
    CabinetTries,       \* attempts of a job (the API gives 3)
    CabinetTroubles     \* bound: requests, runs, file writes and workers that fail

ASSUME CabinetAssumption ==
    /\ Delayed \notin Cabinets /\ IsFiniteSet(Cabinets)
    /\ CabinetTries \in Nat \ {0} /\ CabinetTroubles \in Nat

VARIABLES
    mode,               \* CABINET_RFQ_ENABLED, CABINET_PLAYWRIGHT: off, queue or browser
    cabJobs,            \* per job: where it is, attempts, url asked, requests that failed
    cabTasks,           \* cabinets the operator has a task for, in logs/cabinets
    apiRuns,            \* API quote runs: per job and url, where the last one is
    rate,               \* the deal's price: none, or one with nothing pending
    apiQuotes,          \* there is a live quote of a partner's API among the deal's
    marked,             \* metadata.api_quote_fallback_at: never, fresh (45 s) or old
    quoted,             \* what happened: a price, a live quote or a run that ended
    cabTroubles

found == <<rate, apiQuotes, marked, quoted>>
uvars == <<mode, cabJobs, cabTasks, apiRuns, found, cabTroubles>>

CabJobs == Cabinets \cup {Delayed}
Urls == {1, 2}          \* the orchestrator itself, then the API's proxy to it
NewCabJob == [at |-> "queued", tries |-> 0, url |-> 1, missed |-> 0]

CabinetsInit ==
    /\ mode \in {"off", "queue", "browser"}
    /\ cabJobs = [j \in CabJobs |-> NewCabJob]
    /\ cabTasks = {}
    /\ apiRuns = [r \in CabJobs \X Urls |-> "no"]
    /\ rate = FALSE /\ marked = "never" /\ cabTroubles = 0
    /\ apiQuotes \in BOOLEAN /\ quoted = apiQuotes

CabTrouble == cabTroubles < CabinetTroubles /\ cabTroubles' = cabTroubles + 1
CabMoves(j, at) == cabJobs' = [cabJobs EXCEPT ![j].at = at]
Busy == {j \in CabJobs : cabJobs[j].at \notin {"queued", "done", "failed"}}

\* The attempt failed: moveToDlq, and BullMQ tries again.
CabFails(j) ==
    LET n == cabJobs[j].tries + 1 IN
    cabJobs' = [cabJobs EXCEPT
                  ![j] = [NewCabJob EXCEPT !.at = IF n < CabinetTries THEN "queued" ELSE "failed",
                                           !.tries = n]]

-----------------------------------------------------------------------------
\* Mutant: a cabinet that is switched off needs no quote over the APIs.
TakeCabinet_if_on(j) ==
    /\ cabJobs[j].at = "queued" /\ Cardinality(Busy) < 2
    /\ CabMoves(j, IF mode # "off" /\ j # Delayed THEN "task"
                   ELSE IF j = Delayed THEN "ask" ELSE "done")
    /\ UNCHANGED <<mode, cabTasks, apiRuns, found, cabTroubles>>

\* submitCabinetRfq up to its first write ("Disabled is not a successful send").
TakeCabinet(j) ==
    /\ cabJobs[j].at = "queued" /\ Cardinality(Busy) < 2
    /\ CabMoves(j, IF mode = "off" \/ j = Delayed THEN "ask" ELSE "task")
    /\ UNCHANGED <<mode, cabTasks, apiRuns, found, cabTroubles>>

\* writeOperatorTask, mode operator_queue.
WriteTask(j) ==
    /\ cabJobs[j].at = "task"
    /\ \/ /\ cabTasks' = cabTasks \cup {j}
          /\ CabMoves(j, IF mode = "browser" THEN "login" ELSE "probe")
          /\ UNCHANGED cabTroubles
       \/ CabTrouble /\ CabFails(j) /\ UNCHANGED cabTasks
    /\ UNCHANGED <<mode, apiRuns, found>>

\* The browser logs in, fills the form and leaves a second task with the picture;
\* whatever goes wrong there is caught.
Login(j) ==
    /\ cabJobs[j].at = "login"
    /\ CabMoves(j, "ask")
    /\ UNCHANGED <<mode, cabTasks, apiRuns, found, cabTroubles>>

\* Without the browser the cabinet's address is probed, and the task written
\* again with the result; a cabinet without an address is not.
Probe(j) ==
    /\ cabJobs[j].at = "probe"
    /\ \/ CabMoves(j, "ask") /\ UNCHANGED cabTroubles
       \/ CabTrouble /\ CabFails(j)
    /\ UNCHANGED <<mode, cabTasks, apiRuns, found>>
\* triggerApiQuoteFallback: a request failed.  After both, the job of a cabinet
\* ends all the same, the delayed one throws.
Missed(j) ==
    IF cabJobs[j].url = 1
    THEN cabJobs' = [cabJobs EXCEPT ![j].at = "ask", ![j].url = 2, ![j].missed = @ + 1]
    ELSE IF j = Delayed THEN CabFails(j)
    ELSE cabJobs' = [cabJobs EXCEPT ![j].at = "done", ![j].missed = @ + 1]

Slot(j) == <<j, cabJobs[j].url>>

\* The request reaches the orchestrator, or fails before.  (Bound: a job that is
\* tried again asks an address when its earlier run there is over.)
AskQuotes(j) ==
    /\ cabJobs[j].at = "ask" /\ apiRuns[Slot(j)] \in {"no", "over", "died"}
    /\ \/ /\ apiRuns' = [apiRuns EXCEPT ![Slot(j)] = "read"]
          /\ CabMoves(j, "await")
          /\ UNCHANGED cabTroubles
       \/ CabTrouble /\ Missed(j) /\ UNCHANGED apiRuns
    /\ UNCHANGED <<mode, cabTasks, found>>

\* The answer: res.ok, with a price or without.
Told(j) ==
    /\ cabJobs[j].at = "await" /\ apiRuns[Slot(j)] = "over"
    /\ CabMoves(j, "done")
    /\ UNCHANGED <<mode, cabTasks, apiRuns, found, cabTroubles>>

\* The run died (500), or its answer is lost while it goes on.
NotTold(j) ==
    /\ cabJobs[j].at = "await"
    /\ \/ apiRuns[Slot(j)] = "died" /\ UNCHANGED cabTroubles
       \/ apiRuns[Slot(j)] # "died" /\ CabTrouble
    /\ Missed(j)
    /\ UNCHANGED <<mode, cabTasks, apiRuns, found>>

\* run_api_quote_fallback goes on when there is no price, no live quote of an API and
\* no run that was marked less than 45 s ago.  The deal may not be read, and the run
\* dies; its quotes may not be read, and they pass for none.
ReadDebounce(r) ==
    /\ apiRuns[r] = "read"
    /\ LET next(skip) == IF skip \/ rate \/ marked = "fresh" THEN "over" ELSE "quote" IN
       \/ apiRuns' = [apiRuns EXCEPT ![r] = next(apiQuotes)] /\ UNCHANGED cabTroubles
       \/ CabTrouble /\ \E at \in {"died", next(FALSE)} : apiRuns' = [apiRuns EXCEPT ![r] = at]
    /\ UNCHANGED <<mode, cabJobs, cabTasks, found>>

\* run_freight_quote without letters; it may raise, early or late.  A run that read
\* no quotes takes back the price of one that did.
QuoteApis(r) ==
    /\ apiRuns[r] = "quote"
    /\ rate' \in BOOLEAN /\ apiQuotes' \in {apiQuotes, TRUE}
    /\ \/ /\ apiRuns' = [apiRuns EXCEPT ![r] = "mark"]
          /\ quoted' = TRUE
          /\ UNCHANGED cabTroubles
       \/ /\ CabTrouble
          /\ apiRuns' = [apiRuns EXCEPT ![r] = "died"]
          /\ quoted' = (quoted \/ rate' \/ apiQuotes')
    /\ UNCHANGED <<mode, cabJobs, cabTasks, marked>>

\* The mark is written after the run; a write that fails is passed over.
MarkRun(r) ==
    /\ apiRuns[r] = "mark"
    /\ \/ marked' = "fresh" /\ UNCHANGED cabTroubles
       \/ CabTrouble /\ UNCHANGED marked
    /\ apiRuns' = [apiRuns EXCEPT ![r] = "over"]
    /\ UNCHANGED <<mode, cabJobs, cabTasks, rate, apiQuotes, quoted>>

MarkAges ==
    /\ marked = "fresh" /\ marked' = "old"
    /\ UNCHANGED <<mode, cabJobs, cabTasks, apiRuns, rate, apiQuotes, quoted, cabTroubles>>

\* The worker stops; BullMQ gives what it held to the next one.
CabinetWorkerDies ==
    /\ Busy # {} /\ CabTrouble
    /\ cabJobs' = [j \in CabJobs |-> IF j \in Busy
                                     THEN [NewCabJob EXCEPT !.tries = cabJobs[j].tries]
                                     ELSE cabJobs[j]]
    /\ UNCHANGED <<mode, cabTasks, apiRuns, found>>

CabinetStep(j) ==
    TakeCabinet(j) \/ WriteTask(j) \/ Login(j) \/ Probe(j) \/ AskQuotes(j) \/ Told(j) \/ NotTold(j)
CabinetsNext ==
    \/ MarkAges \/ CabinetWorkerDies
    \/ \E j \in CabJobs : CabinetStep(j)
    \/ \E r \in CabJobs \X Urls : ReadDebounce(r) \/ QuoteApis(r) \/ MarkRun(r)
CabinetsSpec == CabinetsInit /\ [][CabinetsNext]_uvars

-----------------------------------------------------------------------------
\* Every variable keeps its type.
CabinetsTypeOK ==
    /\ mode \in {"off", "queue", "browser"}
    /\ cabJobs \in [CabJobs -> [at: {"queued", "task", "login", "probe", "ask", "await",
                                     "done", "failed"},
                                tries: 0..CabinetTries, url: Urls, missed: 0..2]]
    /\ cabTasks \subseteq Cabinets
    /\ apiRuns \in [CabJobs \X Urls -> {"no", "read", "quote", "mark", "over", "died"}]
    /\ rate \in BOOLEAN /\ apiQuotes \in BOOLEAN /\ quoted \in BOOLEAN
    /\ marked \in {"never", "fresh", "old"}
    /\ cabTroubles \in 0..CabinetTroubles

\* A cabinet's job that ended has left the operator a task, unless cabinets are
\* switched off; and nobody waits for the cabinet alone: by then the deal has had a
\* price or a live quote of a partner's API, or a run over the APIs came to its end,
\* whoever asked for it, unless both requests of this job failed.
CabinetIsFollowedUp ==
    \A j \in Cabinets : cabJobs[j].at = "done" =>
        /\ mode # "off" => j \in cabTasks
        /\ quoted \/ cabJobs[j].missed = 2
=============================================================================
