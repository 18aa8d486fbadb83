------------------------------ MODULE Scheduler ------------------------------
(***************************************************************************)
(* Polling by schedule: services/scheduler.py.                             *)
(*                                                                         *)
(* A tick finds the schedules that are due and triggers them one after     *)
(* another.  A trigger takes the time, and then asks the database three    *)
(* times, each time about what has happened by then: who the meters of the *)
(* group are, which have a job in work, which have been read today.  Jobs  *)
(* begin, end, are put back and swept away between the questions.  They    *)
(* are those of JobQueue, reduced to what the questions ask about and to   *)
(* who may still write to them: a worker and a report write the row under  *)
(* its key whatever it says by then, and so do the sweep and the reaper.   *)
(* Several triggers, and the days, are what JobQueue!TriggerRun leaves out.*)
(*                                                                         *)
(* Time is counted in slots, no longer than the distance of two cron       *)
(* moments; last_run_at and the moment of a trigger lie somewhere in       *)
(* their slot, a cron moment at its beginning.                             *)
(***************************************************************************)
EXTENDS Naturals

CONSTANTS
    Meters,       \* with is_active
    Schedules,    \* with is_enabled
    JobTypesAtStart, \* job_type of the schedules: the possible choices
    ObisOf,       \* the OBIS codes of a schedule's payloads
    Group,        \* meter_ids of a schedule
    Fires,        \* the slots of a day its cron expression names
    AllActiveMeters, SkipIfReadToday,   \* schedules with these operation_params
    ByHand,       \* the types ordered by hand too
    SlotsPerDay,
    MaxSlot, MaxExtras, \* bounds: time, orders by hand and faults together
    NoSchedule

READ == "read_current"
PROFILE == "read_load_profile"
RATED == "read_rated_current"
JobTypes == {READ, PROFILE, RATED}

Slots == 0 .. MaxSlot
Obis == UNION {ObisOf[s] : s \in Schedules}
Unfinished == {"QUEUED", "RUNNING"}

\* Who may have a job in hands: a worker, a thread of the Gateway that has claimed it,
\* a request that has found it RUNNING and is about to store the thread's report.
Writers == {"worker", "report"}
Holders == Writers \cup {"call"}

ASSUME SchedulesAssumption ==
    /\ JobTypesAtStart \subseteq [Schedules -> JobTypes]
    /\ Group \in [Schedules -> SUBSET Meters]
    /\ AllActiveMeters \subseteq Schedules /\ SkipIfReadToday \subseteq Schedules
    /\ ByHand \subseteq JobTypes
    /\ NoSchedule \notin Schedules
ASSUME TimeAssumption ==
    /\ SlotsPerDay \in Nat \ {0} /\ MaxSlot \in Nat
    /\ MaxExtras \in Nat
    /\ Fires \in [Schedules -> SUBSET (0 .. SlotsPerDay - 1)]

VARIABLES
    now,
    jobType,   \* job_type of a schedule, for good
    last,      \* last_run_at of a schedule, at first its created_at
    due,       \* the rest of the tick's list
    task,      \* the trigger in work
    orders,    \* how many triggers and orders by hand there were
    manual,    \* ... by hand
    jobs,
    swept,     \* keys of the jobs the day-rollover sweep has selected
    readings,  \* meter_readings
    rated,     \* meters whose rated_current_amps is known
    faults,
    learnt     \* history: meters whose rated current came in during the trigger

jobVars == <<orders, manual, jobs, swept, readings, rated, learnt>>
tickVars == <<jobType, last, due, task>>
vars == <<now, tickVars, jobVars, faults>>

Job == [order : Nat, byHand : BOOLEAN, type : JobTypes, meter : Meters, obis : Obis,
        created : Slots, ended : Slots,
        status : Unfinished \cup {"SUCCEEDED", "FAILED"},
        hands : [Holders -> Nat], began : [Writers -> Slots], overrun : BOOLEAN]
\* overrun is history: the sweep or the reaper wrote over the row while somebody had
\* the job in hands, or the reaper put it back after its end.

\* The primary key.
Key(j) == <<j.order, j.meter, j.obis>>
NoTask == [step |-> "idle", schedule |-> NoSchedule, moment |-> 0, order |-> 0,
           all |-> {}, meters |-> {}, fresh |-> {}, pairs |-> {}]

TypeOK ==
    /\ now \in Slots
    /\ orders \in Nat /\ manual \in Nat /\ faults \in Nat /\ manual + faults <= MaxExtras
    /\ jobType \in JobTypesAtStart /\ last \in [Schedules -> Slots] /\ due \subseteq Schedules
    /\ task \in [step : {"idle", "selected", "looked", "asked"},
                 schedule : Schedules \cup {NoSchedule}, moment : Slots, order : Nat,
                 all : SUBSET Meters, meters : SUBSET Meters, fresh : SUBSET Meters,
                 pairs : SUBSET [meter : Meters, obis : Obis]]
    /\ task.step # "idle" => task.schedule \in Schedules
    /\ jobs \subseteq Job /\ swept \subseteq Nat \X Meters \X Obis
    /\ readings \subseteq [order : Nat, meter : Meters, obis : Obis, at : Slots]
    /\ rated \subseteq Meters /\ learnt \subseteq Meters

Init ==
    /\ now = 0 /\ faults = 0 /\ orders = 0 /\ manual = 0
    /\ jobType \in JobTypesAtStart /\ last = [s \in Schedules |-> 0]
    /\ due = {} /\ task = NoTask
    /\ jobs = {} /\ swept = {} /\ readings = {} /\ rated = {} /\ learnt = {}

Day(t) == t \div SlotsPerDay

-----------------------------------------------------------------------------
(* The tick *)

\* _is_due: the first moment of the cron expression after the base is not ahead.
IsDue(s) == \E t \in (last[s] + 1) .. now : t % SlotsPerDay \in Fires[s]

\* Mutant: the handler of the exception stands outside the loop.
Tick_UntilError ==
    /\ faults = 0
    /\ task = NoTask /\ due = {}
    /\ \E s \in Schedules : IsDue(s)
    /\ due' = {s \in Schedules : IsDue(s)}
    /\ UNCHANGED <<now, jobType, last, task, jobVars, faults>>

Tick ==
    /\ task = NoTask /\ due = {}
    /\ \E s \in Schedules : IsDue(s)
    /\ due' = {s \in Schedules : IsDue(s)}
    /\ UNCHANGED <<now, jobType, last, task, jobVars, faults>>

\* _trigger_one takes the time and selects the meters of the group.
Select(s) ==
    LET members == IF s \in AllActiveMeters THEN Meters ELSE Group[s]
    IN  /\ task = NoTask /\ s \in due
        /\ due' = due \ {s}
        /\ orders' = orders + 1
        /\ task' = [step |-> "selected", schedule |-> s, moment |-> now, order |-> orders + 1,
                    all |-> members, meters |-> members, fresh |-> members \ rated, pairs |-> {}]
        /\ UNCHANGED <<now, jobType, last, manual, jobs, swept, readings, rated, learnt, faults>>

\* Mutant: a job that has begun is not in the way.
Outstanding_Queued(type) == {j.meter : j \in {k \in jobs : k.type = type /\ k.status = "QUEUED"}}

\* _outstanding_job_meter_ids: of this type, whoever ordered it and whatever its OBIS.
Outstanding(type) == {j.meter : j \in {k \in jobs : k.type = type /\ k.status \in Unfinished}}

Look ==
    /\ task.step = "selected"
    /\ task' = [task EXCEPT !.step = "looked",
                            !.meters = @ \ Outstanding(jobType[task.schedule])]
    /\ UNCHANGED <<now, jobType, last, due, jobVars, faults>>

\* Mutant: the day of UTC, which begins a slot later.
Today_Utc(t, moment) == Day(t + 1) = Day(moment + 1)

\* Mutant: the last 24 hours.
Today_Sliding(t, moment) == t + SlotsPerDay > moment

\* _bishkek_day_bounds_utc: the day is that of the trigger's moment.
Today(t, moment) == Day(t) = Day(moment)

\* Mutant: the meters are asked whether or not the value is known.
Settled_NotRated(s, m, o) ==
    /\ s \in SkipIfReadToday
    /\ \E r \in readings : r.meter = m /\ r.obis = o /\ Today(r.at, task.moment)

\* What keeps a meter out of this trigger for good reason.
Settled(s, m, o) ==
    \/ /\ s \in SkipIfReadToday /\ jobType[s] = READ
       /\ \E r \in readings : r.meter = m /\ r.obis = o /\ Today(r.at, task.moment)
    \/ /\ s \in SkipIfReadToday /\ jobType[s] = PROFILE
       /\ \E j \in jobs : /\ j.meter = m /\ j.type = PROFILE /\ j.status = "SUCCEEDED"
                          /\ Today(j.ended, task.moment)
    \/ jobType[s] = RATED /\ m \notin task.fresh

Ask ==
    LET s == task.schedule
    IN  /\ task.step = "looked"
        /\ task' = [task EXCEPT !.step = "asked",
              !.pairs = {p \in [meter : task.meters, obis : ObisOf[s]] : ~Settled(s, p.meter, p.obis)}]
        /\ UNCHANGED <<now, jobType, last, due, jobVars, faults>>

NewJob(order, byHand, type, m, o, t) ==
    [order |-> order, byHand |-> byHand, type |-> type, meter |-> m, obis |-> o, created |-> t,
     ended |-> 0, status |-> "QUEUED", hands |-> [w \in Holders |-> 0],
     began |-> [w \in Writers |-> 0], overrun |-> FALSE]

\* last_run_at, the run and its jobs in one commit; no run without jobs.
Commit ==
    /\ task.step = "asked"
    /\ last' = [last EXCEPT ![task.schedule] = task.moment]
    /\ jobs' = jobs \cup {NewJob(task.order, FALSE, jobType[task.schedule],
                                 p.meter, p.obis, task.moment) : p \in task.pairs}
    /\ task' = NoTask
    /\ learnt' = {}
    /\ UNCHANGED <<now, jobType, due, orders, manual, swept, readings, rated, faults>>

\* An exception: the transaction is rolled back, and the schedules after this one
\* have to wait for the next tick.
Break ==
    /\ task # NoTask /\ manual + faults < MaxExtras
    /\ faults' = faults + 1
    /\ task' = NoTask /\ due' = {} /\ learnt' = {}
    /\ UNCHANGED <<now, jobType, last, orders, manual, jobs, swept, readings, rated>>

-----------------------------------------------------------------------------
(* What happens to jobs meanwhile *)

Become(j, k) == jobs' = (jobs \ {j}) \cup {k}
NothingElse == UNCHANGED <<now, tickVars, orders, manual>>
Held(j) == \E w \in Holders : j.hands[w] > 0

\* An order by hand.  One of a type that no schedule has is in nobody's way.
Press(type, m, o) ==
    /\ manual + faults < MaxExtras /\ \E s \in Schedules : jobType[s] = type
    /\ manual' = manual + 1 /\ orders' = orders + 1
    /\ jobs' = jobs \cup {NewJob(orders + 1, TRUE, type, m, o, now)}
    /\ UNCHANGED <<now, tickVars, swept, readings, rated, learnt, faults>>

\* The time a transaction of w that may store a reading begins.
Since(j, w) == IF j.type = READ THEN [j.began EXCEPT ![w] = now] ELSE j.began

\* A worker takes the job, or a thread of the Gateway whose meter has called.
Begin(j, w) ==
    /\ j.status = "QUEUED"
    /\ Become(j, [j EXCEPT !.status = "RUNNING", !.hands[w] = @ + 1,
                           !.began = IF w = "worker" THEN Since(j, w) ELSE @])
    /\ NothingElse /\ UNCHANGED <<swept, readings, rated, learnt, faults>>

\* The thread reports: the job is looked at, and passed over unless it is RUNNING.
Arrive(j) ==
    /\ j.hands["call"] > 0
    /\ Become(j, IF j.status = "RUNNING"
                 THEN [j EXCEPT !.hands["call"] = @ - 1, !.hands["report"] = @ + 1,
                                  !.began = Since(j, "report")]
                 ELSE [j EXCEPT !.hands["call"] = @ - 1])
    /\ NothingElse /\ UNCHANGED <<swept, readings, rated, learnt, faults>>

\* A database error ends the worker or the request; the row stays as it is.
Lose(j, w) ==
    /\ j.hands[w] > 0 /\ manual + faults < MaxExtras
    /\ faults' = faults + 1
    /\ Become(j, [j EXCEPT !.hands[w] = @ - 1, !.began[w] = 0])
    /\ NothingElse /\ UNCHANGED <<swept, readings, rated, learnt>>

\* The end of a worker's or a request's work: j as it leaves it, whatever the row says
\* by now.
Left(j, w, status) ==
    [j EXCEPT !.status = status, !.hands[w] = @ - 1, !.began[w] = 0, !.ended = now]

\* A reading bears the time its transaction began.
Succeed(j, w) ==
    /\ j.hands[w] > 0
    /\ Become(j, Left(j, w, "SUCCEEDED"))
    /\ readings' = IF j.type = READ
                   THEN readings \cup {[order |-> j.order, meter |-> j.meter, obis |-> j.obis,
                                        at |-> j.began[w]]}
                   ELSE readings
    /\ rated' = IF j.type = RATED THEN rated \cup {j.meter} ELSE rated
    /\ learnt' = IF j.type = RATED /\ task # NoTask THEN learnt \cup {j.meter} ELSE learnt
    /\ NothingElse /\ UNCHANGED <<swept, faults>>

Fail(j, w) ==
    /\ j.hands[w] > 0
    /\ Become(j, Left(j, w, "FAILED"))
    /\ NothingElse /\ UNCHANGED <<swept, readings, rated, learnt, faults>>

\* The meter has not called while the worker waited.
PutBack(j) ==
    /\ j.hands["worker"] > 0
    /\ Become(j, [j EXCEPT !.status = "QUEUED", !.hands["worker"] = @ - 1,
                           !.began["worker"] = 0, !.ended = 0])
    /\ NothingElse /\ UNCHANGED <<swept, readings, rated, learnt, faults>>

\* requeue_stale_running_jobs: a job whose claim or report was lost.  It costs a fault
\* that the thread is only slow, or that the job has ended since the reaper saw it
\* RUNNING.  The calls of a worker are over before its claim is stale.
Reap(j) ==
    /\ j.status # "QUEUED" /\ j.hands["worker"] = 0
    /\ \E calls \in 0 .. j.hands["call"] :
         LET k == [j EXCEPT !.hands["call"] = calls]
             lost == j.status = "RUNNING" /\ ~Held(k)
         IN  /\ faults' = IF lost THEN faults ELSE faults + 1
             /\ manual + faults' <= MaxExtras
             /\ Become(j, [k EXCEPT !.status = "QUEUED", !.ended = 0, !.overrun = @ \/ ~lost])
    /\ NothingElse /\ UNCHANGED <<swept, readings, rated, learnt>>

\* expire_stale_queued_jobs_for_new_day selects what is QUEUED from another day (all
\* three types are routine) ...
SelectExpired ==
    LET old == {j \in jobs : j.status = "QUEUED" /\ Day(j.created) < Day(now)}
    IN  /\ swept = {} /\ old # {}
        /\ swept' = {Key(j) : j \in old}
        /\ NothingElse /\ UNCHANGED <<jobs, readings, rated, learnt, faults>>

\* ... and writes FAILED to each by its key, whoever has taken it or ended it since; an
\* error in between leaves all as it is.
Sweep ==
    /\ swept # {}
    /\ jobs' = {IF Key(j) \in swept
                THEN [j EXCEPT !.status = "FAILED", !.ended = now, !.overrun = @ \/ Held(j)]
                ELSE j : j \in jobs}
    /\ swept' = {}
    /\ NothingElse /\ UNCHANGED <<readings, rated, learnt, faults>>

-----------------------------------------------------------------------------
Advance ==
    /\ now < MaxSlot
    /\ now' = now + 1
    /\ UNCHANGED <<tickVars, jobVars, faults>>

\* The process ends: so do the trigger, the sweep, the workers and requests and, by the
\* reaper at start-up, the jobs in work; the Gateway knows nothing of it.
Restart ==
    /\ manual + faults < MaxExtras
    /\ faults' = faults + 1
    /\ task' = NoTask /\ due' = {} /\ learnt' = {}
    /\ swept' = {}
    /\ jobs' = {LET k == [j EXCEPT !.hands["worker"] = 0, !.hands["report"] = 0,
                                !.began = [w \in Writers |-> 0]]
                IN  IF j.status = "RUNNING"
                    THEN [k EXCEPT !.status = "FAILED", !.ended = now] ELSE k : j \in jobs}
    /\ UNCHANGED <<now, jobType, last, orders, manual, readings, rated>>

Scheduling == Tick \/ (\E s \in Schedules : Select(s)) \/ Look \/ Ask \/ Commit

Next ==
    \/ Scheduling \/ Break
    \/ \E type \in ByHand, m \in Meters, o \in Obis : Press(type, m, o)
    \/ \E j \in jobs, w \in {"worker", "call"} : Begin(j, w)
    \/ \E j \in jobs, w \in Writers : Succeed(j, w) \/ Fail(j, w) \/ Lose(j, w)
    \/ \E j \in jobs : Arrive(j) \/ PutBack(j) \/ Reap(j)
    \/ SelectExpired \/ Sweep
    \/ Advance \/ Restart

Spec == Init /\ [][Next]_vars

\* The loop comes back every 30 s whatever happened; nothing is asked of the meters.
FairSpec == Spec /\ WF_vars(Scheduling)

-----------------------------------------------------------------------------
(* Properties *)

\* However often a schedule fires, a meter has the unfinished jobs of one order of a
\* type, and what is ordered by hand on top of them.  A job that has ended never comes
\* to life under a newer one, unless the sweep or the reaper wrote over it while
\* somebody had it in hands, or the reaper put it back after its end.
NoPileUp ==
    \A j, k \in jobs :
        /\ j.type = k.type /\ j.meter = k.meter /\ j.order < k.order
        /\ j.status \in Unfinished /\ k.status \in Unfinished
        => k.byHand \/ j.overrun

\* A trigger does not ask for what has been read on its day, even by a job that ended
\* while it was asking; except for what comes of a job that the sweep or the reaper
\* wrote over while somebody had it in hands, or that the reaper put back after its end.
OnceADay ==
    \A r \in readings, k \in jobs :
        /\ k.type = READ /\ ~k.byHand /\ r.order < k.order
        /\ r.meter = k.meter /\ r.obis = k.obis /\ Day(r.at) = Day(k.created)
        => \E j \in jobs : j.order = r.order /\ j.meter = r.meter /\ j.obis = r.obis /\ j.overrun

\* Job j was in work at some time of the trigger.
InTheWay(j) == j.status \in Unfinished \/ j.ended >= task.moment

\* A trigger leaves no meter of its group out for the sake of another day's reading:
\* who is not asked has been read on the trigger's day, or a job of the type was in
\* work, be it for another OBIS.
NobodyWithheld ==
    [][last' # last /\ jobType[task.schedule] = READ =>
         \A m \in task.all, o \in ObisOf[task.schedule] :
            \/ \E j \in jobs' : j.type = READ /\ j.meter = m /\ InTheWay(j)
            \/ \E r \in readings : r.meter = m /\ r.obis = o /\ Day(r.at) = Day(task.moment)]_vars

\* A rated current, once known, is not asked for by a schedule again, unless it came in
\* while the trigger was at work.
KnownForGood ==
    [][\A j \in jobs' \ jobs :
          j.type = RATED /\ task.step = "asked" /\ j.order = task.order
          => j.meter \notin rated \/ j.meter \in learnt]_vars

\* A schedule that is due is triggered: a trigger that fails takes the others of its
\* tick with it, but not for good.
DueIsTriggered == \A s \in Schedules : IsDue(s) ~> ~IsDue(s)
=============================================================================
