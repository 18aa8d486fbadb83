------------------------------ MODULE JobQueue ------------------------------
(***************************************************************************)
(* The job table of the RiseSun Backend and everyone who writes to it.     *)
(*                                                                         *)
(* A job is a row with a status.  It is enqueued by the REST API or, in    *)
(* one commit with its run, by the scheduler.  Two kinds of executors take *)
(* it: a worker of the Backend (job_worker.worker_loop), and the Gateway,  *)
(* which asks for the jobs of a meter the moment that meter calls home and *)
(* reports over HTTP when it is done.  Three housekeepers write to the     *)
(* same rows: the stale-claim reaper, the day-rollover sweep and the       *)
(* start-up reap.  Whoever finishes a job of a scheduled run then reads    *)
(* the siblings and, when it finds none unfinished, closes the run.        *)
(*                                                                         *)
(* A step is one database transaction, or the part of a handler between    *)
(* two awaits: the handlers read, await, and later write without looking   *)
(* again, and every interleaving of that is here.                          *)
(***************************************************************************)
EXTENDS Naturals, FiniteSets

CONSTANTS
    Jobs,         \* rows the system may create
    Runs,         \* launches of scheduled jobs
    NoRun,        \* scheduled_job_run_id IS NULL
    Meters,
    CallHome,     \* the meters with is_call_home
    TypeOf,       \* job_type of a job
    RunOf,        \* scheduled_job_run_id of a job
    MeterOf,      \* meter_id of a job
    Workers,      \* the worker_loop tasks of the Backend
    Handlers,     \* concurrent executions of the Gateway's report requests
    Expirer,      \* the day-rollover task
    Calls,        \* Gateway threads that serve an identified connection
    ClaimMax,     \* gateway_internal_claim_batch_max
    StaleAfter,   \* stale_running_job_reap_after_s
    MaxFaults,    \* bound: database errors and Backend restarts in a behaviour
    MaxReadings,  \* bound: rows of meter_readings one job may store
    NoVerdict

PRIORITY_JOB_TYPES == {"disconnect", "reconnect", "read_relay_state"}
CALL_HOME_INCOMPATIBLE == {"disconnect", "reconnect"}
ROUTINE_JOB_TYPES == {"read_current", "read_load_profile", "read_rated_current"}
JobTypes == PRIORITY_JOB_TYPES \cup ROUTINE_JOB_TYPES \cup
                {"write_datetime", "write_parameter"}

\* What claim-jobs asks for: the Gateway always relies on the default.
EventTypes == PRIORITY_JOB_TYPES \cup ROUTINE_JOB_TYPES

\* A NO_CONNECTION_YET answer returns these to the queue and fails the others.
RequeuedTypes == ROUTINE_JOB_TYPES \cup {"read_relay_state"}

\* A success of these is stored as a row of meter_readings.
ReadingTypes == {"read_current", "read_relay_state"}

\* Mutant: call timeouts longer than the reaper's threshold.
HandlerBudget_BeyondStale(type) == StaleAfter + 1

\* Seconds a worker may spend in the gRPC calls of one handler: the sum of
\* their call_timeout_s.
HandlerBudget(type) ==
    CASE type = "read_load_profile" -> 220
      [] type = "write_datetime"    -> 240
      [] type = "write_parameter"   -> 120
      [] OTHER                      -> 160

Terminal == {"SUCCEEDED", "FAILED"}
Unfinished == {"QUEUED", "RUNNING"}
JobStatus == {"absent"} \cup Unfinished \cup Terminal
RunStatus == {"absent", "RUNNING", "SUCCEEDED", "FAILED", "PARTIAL_FAILURE"}

Actors == Workers \cup Handlers \cup {Expirer}

ASSUME NoRunAssumption == NoRun \notin Runs
ASSUME JobsAssumption == /\ TypeOf \in [Jobs -> JobTypes]
                         /\ RunOf \in [Jobs -> Runs \cup {NoRun}]
                         /\ MeterOf \in [Jobs -> Meters]
                         /\ CallHome \subseteq Meters
ASSUME RunsAssumption ==
    \A j, k \in Jobs : RunOf[j] # NoRun =>
        /\ TypeOf[j] \in ROUTINE_JOB_TYPES
        /\ RunOf[j] = RunOf[k] => TypeOf[j] = TypeOf[k]
ASSUME ActorsAssumption == /\ Workers \cap Handlers = {}
                           /\ Expirer \notin Workers \cup Handlers
ASSUME StaleAfterAssumption == StaleAfter \in Nat /\ StaleAfter > 240
ASSUME BoundsAssumption == MaxFaults \in Nat /\ MaxReadings \in Nat /\ ClaimMax \in Nat \ {0}
ASSUME NoVerdictAssumption == NoVerdict \notin [job : Jobs, status : RunStatus]

VARIABLES
    status,       \* jobs.status, "absent" before the row exists
    readings,     \* number of meter_readings rows a job has stored
    run,          \* scheduled_job_runs.status
    noticed,      \* runs with a SCHEDULED_JOB_FAILED notification
    pc,           \* where a task of the Backend is
    held,         \* the Job objects in that task's session
    saw,          \* the status those objects have in memory
    todo,         \* finished jobs whose run it has yet to look at
    verdict,      \* the summary it is about to commit
    hand,         \* jobs a Gateway thread has claimed and not reported
    inbox,        \* reports on their way to the Backend
    aged,         \* RUNNING jobs with started_at older than StaleAfter
    staleSel,     \* rows the stale-claim reaper has selected
    faults,
    restaled,     \* history: jobs the reaper has put back in the queue
    interrupted   \* history: runs that lost a task between a job and its run

jobVars == <<status, readings>>
runVars == <<run, noticed>>
taskVars == <<pc, held, saw, todo, verdict>>
gatewayVars == <<hand, inbox>>
ageVars == <<aged, staleSel>>
historyVars == <<restaled, interrupted>>
vars == <<jobVars, runVars, taskVars, gatewayVars, ageVars, faults, historyVars>>

TypeOK ==
    /\ status \in [Jobs -> JobStatus]
    /\ readings \in [Jobs -> Nat]
    /\ run \in [Runs -> RunStatus]
    /\ noticed \subseteq Runs
    /\ pc \in [Actors -> {"idle", "busy", "tally", "write", "dead"}]
    /\ held \in [Actors -> SUBSET Jobs]
    /\ saw \in [Actors -> JobStatus]
    /\ todo \in [Actors -> SUBSET Jobs]
    /\ verdict \in [Actors -> [job : Jobs, status : RunStatus] \cup {NoVerdict}]
    /\ hand \in [Calls -> SUBSET Jobs]
    /\ inbox \subseteq [job : Jobs, ok : BOOLEAN]
    /\ aged \subseteq Jobs
    /\ staleSel \subseteq Jobs
    /\ faults \in 0..MaxFaults
    /\ restaled \subseteq Jobs
    /\ interrupted \subseteq Runs

Init ==
    /\ status = [j \in Jobs |-> "absent"]
    /\ readings = [j \in Jobs |-> 0]
    /\ run = [r \in Runs |-> "absent"]
    /\ noticed = {}
    /\ pc = [a \in Actors |-> "idle"]
    /\ held = [a \in Actors |-> {}]
    /\ saw = [a \in Actors |-> "absent"]
    /\ todo = [a \in Actors |-> {}]
    /\ verdict = [a \in Actors |-> NoVerdict]
    /\ hand = [c \in Calls |-> {}]
    /\ inbox = {}
    /\ aged = {}
    /\ staleSel = {}
    /\ faults = 0
    /\ restaled = {}
    /\ interrupted = {}

JobsOf(r) == {j \in Jobs : RunOf[j] = r}
Created(r) == {j \in JobsOf(r) : status[j] # "absent"}
RunsOf(S) == {RunOf[j] : j \in S} \cap Runs
WithRun(S) == {j \in S : RunOf[j] # NoRun}
Queued == {j \in Jobs : status[j] = "QUEUED"}
Running == {j \in Jobs : status[j] = "RUNNING"}

\* The two levels of ORDER BY: priority commands, then manual before scheduled
\* (created_at within a level is left open: rows of one commit share it, and
\* SKIP LOCKED passes over rows another transaction holds).
Rank(j) == IF TypeOf[j] \in PRIORITY_JOB_TYPES THEN 0
           ELSE IF RunOf[j] = NoRun THEN 1 ELSE 2

-----------------------------------------------------------------------------
(* Enqueueing *)

\* A button of the meter card, a parameter scheme or a billing batch: the rows of
\* one commit, without a run.
EnqueueManual(S) ==
    /\ S # {}
    /\ \A j \in S : status[j] = "absent" /\ RunOf[j] = NoRun
    /\ status' = [j \in Jobs |-> IF j \in S THEN "QUEUED" ELSE status[j]]
    /\ UNCHANGED <<readings, runVars, taskVars, gatewayVars, ageVars, faults, historyVars>>

\* The scheduler creates the run and a job for each (meter, payload) it did not
\* skip, in one commit.
TriggerRun(r, S) ==
    /\ run[r] = "absent"
    /\ S # {}
    /\ S \subseteq JobsOf(r)
    /\ run' = [run EXCEPT ![r] = "RUNNING"]
    /\ status' = [j \in Jobs |-> IF j \in S THEN "QUEUED" ELSE status[j]]
    /\ UNCHANGED <<readings, noticed, taskVars, gatewayVars, ageVars, faults, historyVars>>

-----------------------------------------------------------------------------
(* The worker path *)

ForWorker(j) ==
    /\ status[j] = "QUEUED"
    /\ ~ (TypeOf[j] \in CALL_HOME_INCOMPATIBLE /\ MeterOf[j] \in CallHome)

\* _claim_next_job: one row under FOR UPDATE SKIP LOCKED becomes RUNNING.
ClaimNext(w, j) ==
    /\ pc[w] = "idle"
    /\ ForWorker(j)
    /\ \A k \in Jobs : ForWorker(k) => Rank(j) <= Rank(k)
    /\ status' = [status EXCEPT ![j] = "RUNNING"]
    /\ aged' = aged \ {j}
    /\ pc' = [pc EXCEPT ![w] = "busy"]
    /\ held' = [held EXCEPT ![w] = {j}]
    /\ saw' = [saw EXCEPT ![w] = "RUNNING"]
    /\ UNCHANGED <<readings, runVars, todo, verdict, gatewayVars, staleSel,
                   faults, historyVars>>

\* What a handler may write once the Gateway has answered (a raised exception
\* is WORKER_ERROR, one more way to FAIL).
WorkerOutcomes(j) ==
    {"SUCCEEDED", "FAILED"} \cup
        IF TypeOf[j] \in RequeuedTypes /\ MeterOf[j] \in CallHome THEN {"QUEUED"} ELSE {}

\* Task a has committed status new for the jobs of S; those of a run send it on to
\* that run, otherwise its session ends.
GoTally(a, S, new) ==
    /\ todo' = [todo EXCEPT ![a] = WithRun(S)]
    /\ IF WithRun(S) = {}
       THEN /\ pc' = [pc EXCEPT ![a] = "idle"]
            /\ held' = [held EXCEPT ![a] = {}]
            /\ saw' = [saw EXCEPT ![a] = "absent"]
       ELSE /\ pc' = [pc EXCEPT ![a] = "tally"]
            /\ saw' = [saw EXCEPT ![a] = new]
            /\ UNCHANGED held

\* The commit of actor a for job j: the row takes the new status whatever it is
\* by now, a successful reading is stored, and the run is looked at next.
Settle(a, j, new) ==
    /\ status' = [status EXCEPT ![j] = new]
    /\ IF new = "SUCCEEDED" /\ TypeOf[j] \in ReadingTypes
       THEN /\ readings[j] < MaxReadings
            /\ readings' = [readings EXCEPT ![j] = @ + 1]
       ELSE UNCHANGED readings
    /\ aged' = aged \ {j}
    /\ GoTally(a, {j}, new)
    /\ UNCHANGED <<runVars, verdict, gatewayVars, staleSel, faults, historyVars>>

FinishJob(w) ==
    /\ pc[w] = "busy"
    /\ \E j \in held[w] : \E new \in WorkerOutcomes(j) : Settle(w, j, new)

-----------------------------------------------------------------------------
(* The event path: the meter calls, the Gateway claims, reads and reports *)

\* Mutant: the claim forgets to ask for QUEUED rows.
DueOf_AnyUnfinished(m) ==
    {j \in Queued \cup Running : MeterOf[j] = m /\ TypeOf[j] \in EventTypes}

\* claim_due_jobs_for_meter offers priority commands alone when there are any.
DueOf(m) ==
    LET due == {j \in Queued : MeterOf[j] = m /\ TypeOf[j] \in EventTypes}
        urgent == {j \in due : Rank(j) = 0}
    IN  IF urgent # {} THEN urgent ELSE due

\* The rows a claim takes, all in one commit: up to the limit, best rank first.
GatewayClaim(c, m, S) ==
    /\ hand[c] = {}
    /\ m \in CallHome
    /\ S # {}
    /\ S \subseteq DueOf(m)
    /\ S = DueOf(m) \/ Cardinality(S) = ClaimMax
    /\ Cardinality(S) <= ClaimMax
    /\ \A j \in S, k \in DueOf(m) \ S : Rank(j) <= Rank(k)
    /\ status' = [j \in Jobs |-> IF j \in S THEN "RUNNING" ELSE status[j]]
    /\ aged' = aged \ S
    /\ hand' = [hand EXCEPT ![c] = S]
    /\ UNCHANGED <<readings, runVars, taskVars, inbox, staleSel, faults, historyVars>>

\* A result is sent.  The Gateway waits at most 10 s for the reply and never
\* sends it again, so the report may still be on its way when c moves on.
SendReport(c, j, ok) ==
    /\ j \in hand[c]
    /\ hand' = [hand EXCEPT ![c] = @ \ {j}]
    /\ inbox' = inbox \cup {[job |-> j, ok |-> ok]}
    /\ UNCHANGED <<jobVars, runVars, taskVars, ageVars, faults, historyVars>>

\* Jobs the Gateway lets go of without a report: the claim's reply timed out, the
\* connection was gone from the pool, no exchange succeeded in time, the answer
\* was cut short, the process died, or the report never reached the Backend.
GatewayDrop(c, S) ==
    /\ S # {}
    /\ S \subseteq hand[c]
    /\ hand' = [hand EXCEPT ![c] = @ \ S]
    /\ UNCHANGED <<jobVars, runVars, taskVars, inbox, ageVars, faults, historyVars>>

\* report_job_results, up to the check of the row: a job no longer RUNNING is
\* skipped, for any other the finalizer goes on with the object it loaded.
ReceiveReport(h, msg) ==
    /\ pc[h] = "idle"
    /\ msg \in inbox
    /\ inbox' = inbox \ {msg}
    /\ IF status[msg.job] = "RUNNING"
       THEN /\ pc' = [pc EXCEPT ![h] = "busy"]
            /\ held' = [held EXCEPT ![h] = {msg.job}]
            /\ saw' = [saw EXCEPT ![h] = IF msg.ok THEN "SUCCEEDED" ELSE "FAILED"]
       ELSE UNCHANGED <<pc, held, saw>>
    /\ UNCHANGED <<jobVars, runVars, todo, verdict, hand, ageVars, faults, historyVars>>

FinishReport(h) ==
    /\ pc[h] = "busy"
    /\ \E j \in held[h] : Settle(h, j, saw[h])

-----------------------------------------------------------------------------
(* Closing a run: _maybe_finalize_scheduled_job_run *)

\* The status of k in a's session: a SELECT does not refresh an object that the
\* session already holds (expire_on_commit=False).
Seen(a, k) == IF k \in held[a] THEN saw[a] ELSE status[k]

\* Mutant: one success is enough.
Summary_AnySuccess(a, r) ==
    IF \E k \in Created(r) : Seen(a, k) = "SUCCEEDED" THEN "SUCCEEDED" ELSE "FAILED"

Summary(a, r) ==
    IF \A k \in Created(r) : Seen(a, k) = "SUCCEEDED" THEN "SUCCEEDED"
    ELSE IF \A k \in Created(r) : Seen(a, k) = "FAILED" THEN "FAILED"
    ELSE "PARTIAL_FAILURE"

\* Mutant: a failed sibling counts as unfinished.
AllSeen_Succeeded(a, r) == \A k \in Created(r) : Seen(a, k) = "SUCCEEDED"

AllSeenTerminal(a, r) == \A k \in Created(r) : Seen(a, k) \in Terminal

\* After the last job of its list the task drops its session and is idle.
NextTodo(a, j) ==
    /\ todo' = [todo EXCEPT ![a] = @ \ {j}]
    /\ IF todo[a] = {j}
       THEN /\ pc' = [pc EXCEPT ![a] = "idle"]
            /\ held' = [held EXCEPT ![a] = {}]
            /\ saw' = [saw EXCEPT ![a] = "absent"]
       ELSE pc' = [pc EXCEPT ![a] = "tally"] /\ UNCHANGED <<held, saw>>
    /\ UNCHANGED <<status, readings, gatewayVars, ageVars, faults, historyVars>>

\* Siblings and run are read: an unfinished sibling or a closed run ends it.
TallyNothing(a, j) ==
    /\ pc[a] = "tally"
    /\ j \in todo[a]
    /\ ~ AllSeenTerminal(a, RunOf[j]) \/ run[RunOf[j]] # "RUNNING"
    /\ NextTodo(a, j)
    /\ UNCHANGED <<runVars, verdict>>

TallyComplete(a, j) ==
    /\ pc[a] = "tally"
    /\ j \in todo[a]
    /\ AllSeenTerminal(a, RunOf[j])
    /\ run[RunOf[j]] = "RUNNING"
    /\ pc' = [pc EXCEPT ![a] = "write"]
    /\ verdict' = [verdict EXCEPT ![a] = [job |-> j, status |-> Summary(a, RunOf[j])]]
    /\ UNCHANGED <<jobVars, runVars, held, saw, todo, gatewayVars, ageVars, faults, historyVars>>

\* Status and notification in one commit, without a second look at the run.
WriteRun(a) ==
    /\ pc[a] = "write"
    /\ LET j == verdict[a].job
           r == RunOf[j]
       IN  /\ run' = [run EXCEPT ![r] = verdict[a].status]
           /\ noticed' = IF verdict[a].status = "SUCCEEDED" THEN noticed
                         ELSE noticed \cup {r}
           /\ NextTodo(a, j)
    /\ verdict' = [verdict EXCEPT ![a] = NoVerdict]

-----------------------------------------------------------------------------
(* Housekeeping *)

\* A claim gets old.  A worker inside its handler is given up by its own call
\* timeouts first, as long as they add up to less than the threshold.
Age(j) ==
    /\ status[j] = "RUNNING"
    /\ j \notin aged
    /\ \/ HandlerBudget(TypeOf[j]) >= StaleAfter
       \/ \A w \in Workers : pc[w] = "busy" => j \notin held[w]
    /\ aged' = aged \cup {j}
    /\ UNCHANGED <<jobVars, runVars, taskVars, gatewayVars, staleSel, faults, historyVars>>

\* Mutant: the reaper looks after polling jobs only.
SelectStale_RoutineOnly ==
    LET old == {j \in Running \cap aged : TypeOf[j] \in ROUTINE_JOB_TYPES}
    IN  /\ staleSel = {}
        /\ old # {}
        /\ staleSel' = old
        /\ UNCHANGED <<jobVars, runVars, taskVars, gatewayVars, aged, faults, historyVars>>

\* requeue_stale_running_jobs selects old RUNNING rows ...
SelectStale ==
    /\ staleSel = {}
    /\ Running \cap aged # {}
    /\ staleSel' = Running \cap aged
    /\ UNCHANGED <<jobVars, runVars, taskVars, gatewayVars, aged, faults, historyVars>>

\* ... and then writes QUEUED to each of them by primary key.
RequeueStale ==
    /\ staleSel # {}
    /\ status' = [j \in Jobs |-> IF j \in staleSel THEN "QUEUED" ELSE status[j]]
    /\ aged' = aged \ staleSel
    /\ staleSel' = {}
    /\ restaled' = restaled \cup staleSel
    /\ UNCHANGED <<readings, runVars, taskVars, gatewayVars, faults, interrupted>>

\* expire_stale_queued_jobs_for_new_day selects the routine rows still QUEUED
\* from before midnight in Bishkek.  Midnight may fall between any two commits
\* that enqueue, and the rows of one run share their commit.
SelectExpired(S) ==
    /\ pc[Expirer] = "idle"
    /\ S # {}
    /\ S \subseteq {j \in Queued : TypeOf[j] \in ROUTINE_JOB_TYPES}
    /\ \A j \in S, k \in Queued : RunOf[j] = RunOf[k] /\ RunOf[j] # NoRun => k \in S
    /\ pc' = [pc EXCEPT ![Expirer] = "busy"]
    /\ held' = [held EXCEPT ![Expirer] = S]
    /\ saw' = [saw EXCEPT ![Expirer] = "FAILED"]
    /\ UNCHANGED <<jobVars, runVars, todo, verdict, gatewayVars, ageVars, faults, historyVars>>

\* Mutant: the sweep does not look at the runs of what it expired.
ExpireCommit_NoTally ==
    /\ pc[Expirer] = "busy"
    /\ status' = [j \in Jobs |-> IF j \in held[Expirer] THEN "FAILED" ELSE status[j]]
    /\ aged' = aged \ held[Expirer]
    /\ GoTally(Expirer, {}, "FAILED")
    /\ UNCHANGED <<readings, runVars, verdict, gatewayVars, staleSel, faults, historyVars>>

\* ... the UPDATE by primary key, and the list of runs to look at.
ExpireCommit ==
    /\ pc[Expirer] = "busy"
    /\ status' = [j \in Jobs |-> IF j \in held[Expirer] THEN "FAILED" ELSE status[j]]
    /\ aged' = aged \ held[Expirer]
    /\ GoTally(Expirer, held[Expirer], "FAILED")
    /\ UNCHANGED <<readings, runVars, verdict, gatewayVars, staleSel, faults,
                   historyVars>>

-----------------------------------------------------------------------------
(* Faults *)

\* The database fails a statement of task a.  Only a worker has no handler for
\* it: its loop ends for good, and the claimed row stays RUNNING.
DatabaseError(a) ==
    /\ faults < MaxFaults
    /\ faults' = faults + 1
    /\ pc[a] # "dead"
    /\ pc' = [pc EXCEPT ![a] = IF a \in Workers THEN "dead" ELSE "idle"]
    /\ held' = [held EXCEPT ![a] = {}]
    /\ saw' = [saw EXCEPT ![a] = "absent"]
    /\ todo' = [todo EXCEPT ![a] = {}]
    /\ verdict' = [verdict EXCEPT ![a] = NoVerdict]
    /\ interrupted' = interrupted \cup RunsOf(todo[a])
    /\ UNCHANGED <<jobVars, runVars, gatewayVars, ageVars, restaled>>

\* The Backend process is replaced: its tasks and open requests vanish, and
\* before anything else reap_stale_running_jobs fails every RUNNING row.  The
\* Gateway is another process and keeps what it holds.
Restart ==
    /\ faults < MaxFaults
    /\ faults' = faults + 1
    /\ status' = [j \in Jobs |-> IF j \in Running THEN "FAILED" ELSE status[j]]
    /\ aged' = {}
    /\ staleSel' = {}
    /\ pc' = [a \in Actors |-> "idle"]
    /\ held' = [a \in Actors |-> {}]
    /\ saw' = [a \in Actors |-> "absent"]
    /\ todo' = [a \in Actors |-> {}]
    /\ verdict' = [a \in Actors |-> NoVerdict]
    /\ inbox' = {}
    /\ interrupted' = interrupted \cup RunsOf(Running \cup UNION {todo[a] : a \in Actors})
    /\ UNCHANGED <<readings, runVars, hand, restaled>>

-----------------------------------------------------------------------------
Next ==
    \/ \E S \in SUBSET {j \in Jobs : status[j] = "absent"} : EnqueueManual(S)
    \/ \E j \in Jobs : Age(j)
    \/ \E r \in Runs : \E S \in SUBSET JobsOf(r) : TriggerRun(r, S)
    \/ \E w \in Workers : FinishJob(w) \/ \E j \in Jobs : ClaimNext(w, j)
    \/ \E c \in Calls : \E m \in Meters : \E S \in SUBSET DueOf(m) : GatewayClaim(c, m, S)
    \/ \E c \in Calls : \E j \in hand[c], ok \in BOOLEAN : SendReport(c, j, ok)
    \/ \E c \in Calls : \E S \in SUBSET hand[c] : GatewayDrop(c, S)
    \/ \E h \in Handlers : FinishReport(h) \/ \E msg \in inbox : ReceiveReport(h, msg)
    \/ \E a \in Actors : \E j \in todo[a] : TallyNothing(a, j) \/ TallyComplete(a, j)
    \/ \E a \in Actors : WriteRun(a) \/ DatabaseError(a)
    \/ SelectStale \/ RequeueStale
    \/ \E S \in SUBSET Queued : SelectExpired(S)
    \/ ExpireCommit
    \/ Restart

Spec == Init /\ [][Next]_vars

\* Every loop of the Backend polls for ever and every handler has a timeout.
\* Nothing is promised of meters, of the Gateway's reports, of the operators, of
\* midnight, or of the claims of workers (they may all be dead).
Fairness ==
    /\ \A w \in Workers : WF_vars(FinishJob(w))
    /\ \A h \in Handlers : WF_vars(FinishReport(h))
    /\ \A a \in Actors : WF_vars(WriteRun(a))
    /\ \A a \in Actors, j \in Jobs : WF_vars(TallyNothing(a, j) \/ TallyComplete(a, j))
    /\ \A j \in Jobs : WF_vars(Age(j))
    /\ WF_vars(SelectStale)
    /\ WF_vars(RequeueStale)
    /\ WF_vars(ExpireCommit)

FairSpec == Spec /\ Fairness

-----------------------------------------------------------------------------
(* Properties *)

\* No two workers run the same job at once: a relay or a clock is never driven
\* by two handlers.  SKIP LOCKED alone does not give it; it also needs that no
\* requeue, by the reaper or by NO_CONNECTION_YET, reaches a row still in work.
WorkerExclusion ==
    \A v, w \in Workers :
        v # w /\ pc[v] = "busy" /\ pc[w] = "busy" => held[v] \cap held[w] = {}

\* A task that will look at run r and believes its own job finished.
WillClose(r) ==
    \E a \in Actors : \E j \in todo[a] : RunOf[j] = r /\ saw[a] \in Terminal

\* When the last job of a run is finished, somebody is on the way to close the
\* run: of several tasks finishing at once at least one sees all the others.
\* Only a fault between the two commits (or the start-up reap, which closes
\* nothing) leaves a finished run open.
NoLostFinalisation ==
    \A r \in Runs \ interrupted :
        run[r] = "RUNNING" /\ (\A j \in Created(r) : status[j] \in Terminal) => WillClose(r)

\* A run recorded as SUCCEEDED has a stored reading for every reading job of it,
\* even when tasks tally from session objects that are out of date.
VerdictBacked ==
    \A r \in Runs : run[r] = "SUCCEEDED" =>
        \A j \in Created(r) : TypeOf[j] \in ReadingTypes => readings[j] > 0

\* A job is executed twice, and its reading stored twice, only if the stale-claim
\* reaper has returned it to the queue: lost replies, late reports, the
\* day-rollover sweep and the two paths racing for one row never do it.
DoubleReadingOnlyAfterRequeue == \A j \in Jobs \ restaled : readings[j] <= 1

\* No job stays RUNNING for ever, whoever claimed it and however that claim ended.
NoJobStuckRunning == \A j \in Jobs : status[j] = "RUNNING" ~> status[j] # "RUNNING"

\* A finished run nobody was interrupted on is closed, unless a job of it is
\* reopened by the reaper first.
FinishedRunCloses ==
    \A r \in Runs :
        (run[r] = "RUNNING" /\ \A j \in Created(r) : status[j] \in Terminal)
            ~> (run[r] # "RUNNING" \/ r \in interrupted
                  \/ \E j \in Created(r) : status[j] \in Unfinished)
=============================================================================
