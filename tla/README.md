# RiseSun: a TLA+ model of the meter-reading system

RiseSun (MMWS) reads, commands and configures electricity meters. A FastAPI
**Backend** keeps everything in PostgreSQL: meters, schedules, a persistent job
queue, billing batches. A **Gateway** process speaks DLMS over HDLC with the
meters. Most meters have no address of their own: they *call home*, that is,
they open a TCP connection to the Gateway, announce their serial number and
wait to be asked.

This directory models the part of the system where several actors work on the
same state. Source paths below are relative to `src/`; `PROJECT.json` maps each
definition to its lines.

## Inventory

| component | source | state | operations | hard because |
|---|---|---|---|---|
| job queue | `backend/app/services/job_worker.py` | `jobs`, `meter_readings`, `scheduled_job_runs` | claim, finish, requeue, reap, expire, close a run | many writers to one row, none of them looks again before it writes |
| event path | `backend/app/api/gateway_internal.py`, `gateway/.../backend_client.py` | rows claimed by the Gateway | claim for a meter, report results | HTTP calls that are lost or late, claims that outlive their threshold |
| call-home pool | `gateway/.../callhome.py` | the pool, one thread per connection | admit, identify, evict, claim, wait for a sibling, stop | threads that release the lock, call the Backend and then act on what they had seen |
| billing batches | `backend/app/api/billing.py`, `services/disconnect_batches.py` | `disconnect_batches`, `disconnect_batch_items` | accept, follow a job, close | idempotent retries, read-then-decide in concurrent transactions |
| relay commands | `job_worker.py`, `gateway/.../grpc_server.py`, `callhome.py` | the relay of a meter | disconnect, reconnect | old commands that are executed late or twice |
| scheduler | `backend/app/services/scheduler.py` | `scheduled_jobs` | find what is due, trigger | three questions to the database, and jobs that begin and end between them; days of Bishkek, moments of UTC |
| HDLC/DLMS | `gateway/.../protocols/*.py`, `transport.py`, `session.py` | sequence numbers, reassembly | associate, get, set, action, block transfer | resends and late answers on one stream |
| EUDB export | `backend/app/services/eudb_export.py` | export runs and items, a foreign database | daily run, button | two databases, no common transaction |
| discovery and activation | `backend/app/services/meter_discovery.py`, `api/meters.py`, `api/scheduled_jobs.py` | `meters`, the lists of schedules | register newcomers, put them on the lists; create, activate, rename, switch, delete; save lists | one long transaction that writes whole lists back, beside people who save them |
| gateways | `services/heartbeat.py`, `api/gateways.py`, `gateway/.../grpc_server.py` | `gateways`; a process with ports and the serial numbers heard | approve, disable, change a port, ask for health | an answer that is older than what is in the table; a process that forgets |
| detector and notifications | `services/offline_detector.py`, `services/notifications.py`, `api/notifications.py`, `job_worker.py` | stamps of life, `notifications`, the stream of a browser | stamp, judge, notify, poll by number | stamps and numbers become visible in another order than they were made in |
| the rest | users, audit, dashboards, catalogues, low consumption, frontend | rows | CRUD | nothing interleaves that a decision depends on |

How they meet: the scheduler, the REST API and billing insert jobs. Workers
(asyncio tasks of the Backend) claim them with `FOR UPDATE SKIP LOCKED` and call
the Gateway over gRPC; for a call-home meter that call takes a connection out
of the pool. Independently, a meter that has just announced itself makes its
Gateway thread ask `claim-jobs`, which marks rows RUNNING, and report over HTTP
later. Whoever ends a job of a schedule or a batch closes the schedule's run or
the batch when it sees no other job unfinished.

Around that, loops of the Backend: discovery asks each Gateway whom it has heard and
registers the newcomers; the heartbeat notes the Gateways' ports; the detector looks for
meters that have fallen silent and writes notifications, which a browser's stream polls.
What a meter's worker stamps when it ends a job is what the detector judges by.

What makes each part correct:

- queue: one executor per claim; a run is closed once its jobs are over and its
  verdict agrees with the readings; no job stays RUNNING for ever;
- batches: one batch per Idempotency-Key; a batch is closed once its items are
  over, with the verdict they add up to; DONE means the relay moved;
- relays: a command never follows a newer one unless both were being executed;
- pool: one user per connection, no forgotten socket, limits kept, every thread
  ends;
- DLMS: a value is reported for the register that was asked for, rows come whole
  and once, a command reported as done was done;
- export: what our books say of a run is what EUDB has got from it; nothing is sent
  twice a day without a reason; each day has its one scheduled run;
- scheduler: no jobs pile up, nothing is read twice a day by schedule, no meter is
  left out without a reason, and what is due is triggered;
- registry: who calls is registered, once, and from then on polled for both kinds of
  readings unless somebody answers for it; discovery takes nobody out of a list; the ports
  shown are, in the end, the ports listened on;
- monitor: a silence is told of, and once; an open stream sends what is notified.

## Modules

| module | models |
|---|---|
| `JobQueue` | the job table and everybody who writes to it |
| `DisconnectBatch` | EXTENDS `JobQueue` with batches, items and relays; every action of it conjoins one of the queue or leaves the queue alone |
| `CallHomePool` | the pool of the Gateway, its threads and the callers of the worker path |
| `ConnectionLease` | what the pool promises, in twenty lines: a connection waits, is leased to one user, is closed |
| `DlmsSession` | one operation on one meter: association, then a batch, a load profile or a command |
| `EudbExport` | the daily export and the button, over two databases |
| `Scheduler` | the tick and the triggers of the polling schedules, over the jobs reduced to what they ask about |
| `MeterRegistry` | gateways, meters and the lists of schedules: discovery, heartbeat and the people at the API |
| `Monitor` | EXTENDS `MeterRegistry` with signs of life, the detector, notifications and a stream; each action is one of the registry or leaves it alone but for the bounds |
| `JobQueue_proofs`, `DisconnectBatch_proofs`, `CallHomePool_proofs`, `DlmsSession_proofs`, `EudbExport_proofs`, `Scheduler_proofs`, `MeterRegistry_proofs`, `Monitor_proofs` | theorems and their proofs |
| `MC...` | instances for TLC |

### JobQueue and the code

An actor is an asyncio task or a request: `Workers` are `worker_loop`s,
`Handlers` executions of `report_job_results` and
`report_load_profile_results`, `Expirer` is `stale_queued_reaper_loop`. `Calls`
are Gateway threads. A step is a transaction, or what a handler does between
two awaits that matter.

| action | code |
|---|---|
| `EnqueueManual`, `TriggerRun` | the buttons in `api/meters.py`, `scheduler._trigger_one` |
| `ClaimNext` | `_claim_next_job`: best rank, RUNNING, commit |
| `FinishJob` | a handler's end: SUCCEEDED, FAILED, or back to QUEUED on NO_CONNECTION_YET |
| `GatewayClaim` | `claim_due_jobs`: priority commands alone when there are any, up to the limit |
| `SendReport`, `GatewayDrop` | a report posted, or a claim the Gateway lets go of in any of a dozen ways |
| `ReceiveReport`, `FinishReport` | the check of RUNNING, and the finalizer's commit on the object loaded before |
| `TallyNothing`, `TallyComplete`, `WriteRun` | `_maybe_finalize_scheduled_job_run`: read the siblings and the run; later, commit what was computed |
| `Age`, `SelectStale`, `RequeueStale` | the stale-claim reaper: select, then UPDATE by primary key |
| `SelectExpired`, `ExpireCommit` | the day-rollover sweep, likewise, then one look at the run of each row |
| `DatabaseError`, `Restart` | a failed statement (a worker's loop ends for good); a new process with its start-up reap |

`Seen` is where SQLAlchemy shows through: the sessions keep their objects
(`expire_on_commit=False`), so a task tallies its own jobs with the status it
gave them, not with the row's. `Age` carries the timeouts: a job inside a worker's handler gets
older than `StaleAfter` only if the handler's own call timeouts
(`HandlerBudget`, up to 240 s) allow it.

Abstractions: `created_at` within a rank is left open here (any row of the best
rank may be claimed, which includes the code's choice) and appears
in `DisconnectBatch`; a reading is a count of rows;
midnight may fall anywhere; the data of a job is its type, meter and run.

### DisconnectBatch and the code

`CheckKey` and `CreateBatch` are the two halves of `billing._create_batch`; the
unique constraint is in the second. `FlushItem` and `CommitItem` are the two
halves of `_maybe_finalize_disconnect_batch_item`: after the flush the task reads
the items, seeing its own change and what others have committed. `Switch...`
is the ACTION reaching the meter: for a waiting worker, for a Gateway thread, or
for a gRPC call whose caller has given up (`stray`), which is why a command can
move a relay after its job is over. `overlapped`, `crossed` and `halted` record
history, so that properties can name their exceptions exactly.

`ORDER BY created_at` goes by `func.now()`, which in PostgreSQL is the time the
transaction *began*: `stamp` is the turn of that beginning (`CheckKey` for a batch,
`BeginManual` for a command by hand), and a command committed after one that began
later is `belated`, one more exception of `ObeysInOrder`.

### CallHomePool and the code

A thread is named by its connection, a connection by its `conn_no`. `at` is the
place in `_identify` / `_maybe_trigger_immediate_read`: `reading` (the
announcement), `announced`, `asking` and `told` (around `claim_due_jobs`), then
the stages `control`, `reads`, `profile`. `TakeOver` is the critical section
that looks whether its own connection is still pooled; `Sibling` is
`_wait_for_sibling_connection`; `GiveUp` the 150 s deadlines; `CallerClaim` and
`CallerDone` a `read_via_call_home` of the worker path. Each `with self._lock`
block is one step, together with the close of what it evicted (the thread does
that right after, and nobody else can reach the evicted connection).
An exchange on a connection succeeds, fails or
answers with an error in any order.

`Start` begins an exchange with SNRM. Until UA comes (`linking`) each byte of a heartbeat that is
read away begins the timeout of `recv` anew (`Heartbeat`, `WaitOn`); `Link` is UA and the
`set_deadline` after it. The Backend's side is what the threads can tell of it: a job is queued, running or
final. `Reap` is the stale-claim reaper, which asks how long a job is RUNNING and not whether a
thread still has it, so the next connection of the meter may claim it beside that thread; `lapsed`
remembers from whom. `Report` is taken for the jobs that are RUNNING, whoever claimed them
last, and may be lost; `Drop` leaves them to the reaper.

### DlmsSession and the code

The Gateway's side is the control of `read_batch_via_fresh_connection`,
`read_load_profile_via_fresh_connection` and `run_with_retries` down to
`hdlc_dlms.py`: `phase` is the wait it is in, `tries` counts SNRMs or AARQs, `ns`,
`invoke`, `pending` and `growing` are the local variables of those names
(`send_seq`, `invoke_id`, `pending_block_number`, `use_incrementing_invoke_id`).
`UaArrives`, `AareArrives`, `ScalerArrives`, `ValueArrives`, `BlockArrives` and
`CommandAnswered` take the head of the stream and do what the code does up to its
next wait; `UaTimesOut`, `AareTimesOut`, `AnswerTimesOut`, `ReadTorn`, `ConnectionLost`
and `SkipSupervisory` are the other ways a wait goes.

The line is TCP, so frames come in order and once; they may come late, and a timeout
in the middle of a frame leaves its rest at the head of the stream. `_drain_stale_bytes`
takes only what has arrived. The meter is outside the repository: it answers, keeps
silent, or puts a supervisory frame first; it may take a repeated invoke-id for a repeated
request (`strict`), as the comments of the code report of some. What a frame is
*about* is part of the model and not of the frame's header: nothing in the code
compares the answer with the question, and so the model can say when they differ.

Meters also send heartbeats, zero bytes and DL/T645 announcements, between frames. The
socket of a call-home connection reads them away, but each byte of them begins a timeout of
`recv` anew until `set_deadline` is called, which is after UA. So `Heartbeat` may come while
the timeout runs, and `WaitsOn` is the timeout that is then not over: a wait ends by time only
when nothing has come since it began (`TimeIsUp`). From AARQ on the deadline holds.

A load profile is a `Table` of rows in the meter, and each `Layout` a way to cut its bytes into
blocks. What a row is (`IsRow`) is what the comment above `LOAD_PROFILE_ROW_MARKER` says of the
DTZY217: two bytes of marker, a timestamp, columns of BCD in which the marker does not occur,
although the byte that gives a column's length may be like one of its two.

Left out: encodings and checksums (a torn frame is an error), the diagnostic read of
capture_objects, and a meter that wants a DISC before a second AARQ.

### EudbExport and the code

`Pass`, `Skip`, `Refuse`, `Take`, `Insert`, `Sent`, `SendFails`, `SentUnheard` are the steps
of `execute_export_run` on a meter; each is committed in EUDB alone, and `Finish` is the
one commit of our own. `LookAtClock`, `CreateScheduled`, `NothingToCreate`, `CreateFails` are
the loop: the day is `decided` from the clock, and the run belongs to the day its
transaction began in (`started`), which need not be the same. The loop looks every 300 s and the set
time is 600 s before midnight, so an idle loop looks once before `Midnight`; not twice, for an error
of the database (`CreateFails`) is only logged, and the loop may sleep beyond midnight. A loop that is at the
set time still in yesterday's run (`Behind`) need not look at all. `missed` collects these days and
those of a restart, the excuses of `DayServed`. The repository disagrees
with itself on whether EUDB has a unique constraint (the docstring of
`_already_exported_today` against `tests/test_eudb_export.py` and `DECISIONS.md`), so
the model has both (`unique`). Time is days, a set time within the day, and nothing finer.

### Scheduler and the code

`Tick` is `_run_once` up to its list; `Select`, `Look`, `Ask`, `Commit` are
`_trigger_one`: take the time and the meters, subtract those with an outstanding
job, subtract those already read, write `last_run_at`, the run and the jobs. Between
any two of them jobs begin, succeed, fail, are put back, swept or reaped, as in
`JobQueue`, whose jobs these are, reduced to type, meter, OBIS, status, a few times and `hands`: how many
workers, Gateway threads and requests with their reports still have the job, and will write its
row by its key whatever it says by then. `SelectExpired` and `Sweep` are the two halves
of the day-rollover sweep, which writes FAILED also over a job claimed in between; its worker then puts it
back or stores its reading all the same (`PutBack`, `Succeed`). `Arrive` is the report's look at RUNNING,
`Lose` a database error that ends a worker or a request and leaves the job to `Reap`, which comes
without a fault to lost jobs only: that it takes a job from a slow thread, or writes over one that has ended since
it looked, is counted as a fault.

`overrun` marks the jobs that the sweep or the reaper wrote over while somebody had them in hands, or
that the reaper put back after their end. Without this exception `NoPileUp` and `OnceADay` are false:
the sweep selects a QUEUED job of yesterday, a worker claims it, the sweep writes FAILED, a trigger
finds nothing outstanding and orders anew, and the worker puts its job back or stores its reading. The
exception is about that job alone, and both properties deny that anything else leads there.

`Break` is an exception, which ends the tick with the rest of its list. Time is counted
in slots; a day has `SlotsPerDay` of them, a cron expression is the set of its slots. A
deleted poll profile is a schedule without OBIS codes. A reading bears the time its
transaction began: for a worker that is when it took the job up.

### MeterRegistry and the code

| action | code |
|---|---|
| `TickBegins`, `AskGateway` | `_run_once` of discovery: the approved gateways, `list_call_home_serials`, the look at the table |
| `InsertMeters` | `db.flush()`: ids from the sequence, or an IntegrityError that ends the tick |
| `ChooseList`, `WriteList` | `_add_to_catchall_schedules`: the longest list of a kind is read; later, when the session flushes, it is written back whole |
| `CommitMeters` | the commit: rows and lists become visible together |
| `BeatBegins`, `CheckHealth`, `BeatCommits` | the heartbeat: all gateways asked side by side, what they answered written at the end |
| `ChangePort`, `NotePort`, `LoseAnswer` | `SetCallHomePort` in the Gateway, and the API's note of it when the answer comes |
| `CreateMeter`, `ActivateMeter`, `RenameMeter`, `SwitchMeter`, `DeleteMeter` | `api/meters.py` |
| `CreateSchedule`, `SaveList`, `ToggleSchedule`, `DeleteSchedule` | `api/scheduled_jobs.py` |
| `Trigger`, `OrderJob` | what makes a meter or a schedule referred to, so that it cannot be deleted |
| `Hear`, `RestartGateway` | a call on one of the ports; a process that starts with its configured ports and has heard nobody |
| `Unreachable`, `NoHealth`, `BreakDiscovery`, `RestartBackend` | what may fail |

A transaction of discovery reads what is committed and writes rows that are locked until it
commits: who wants the same list or the same serial number waits, which is the same as coming
later (`Free`, `s \notin task.locked`). Between the select of a list and the flush that writes it
nothing is locked: a list saved then is written over. `overtaken` names these lists,
and `excused` the meters somebody has taken out by hand, whose list was switched off or deleted, or for
whom there was no list in use; both are history, for the properties' exceptions.

`shown` has `call_home_port` as `main` and what else is in `call_home_ports` as `extra`: after a change of the port the code leaves the old one in
the list until the next heartbeat, and the model does not; `PortsCatchUp` is about what the heartbeat leaves. Editing the `operation_params` of a schedule is left out; they decide nothing in this module, and in
`Scheduler` a schedule has the same ones for good.

Two comments of the repository do not agree with the code, and the model follows the code: a
meter that discovery finds is ACTIVE from the start (the docstring of `MeterStatus` says
INSTALLED), and the scheduler asks active meters only (the docstring of
`_add_to_catchall_schedules` says that it does not filter).

### Monitor and the code

`TakeTime` and `CommitLife` are the halves of a worker's finalisation: the time is taken in Python and is
visible with the commit, which may be late; `LoseLife` is a transaction rolled back.
`DetectorBegins` is the one select of a tick, `Judge` what it does with a row of it (`IsOnline` and
`AlreadyNotified` are `Meter.is_online` and `_already_notified`), `DetectorCommits` the
commit. A notification bears the time its transaction began (`func.now()`), gets its number when it
is flushed, and becomes visible later. `RunFails` and `CommitRun` are the
notification of a failed run, made by a worker; `OpenStream`, `Poll`, `CloseStream` are
`stream_notifications`, which asks for numbers above the last one it has sent.

`blinded` names the meters whose last stamp was committed so late that a notification of
the silence before has a later time, and `passed` the numbers a stream has gone past while they were
given but not committed. Both are flaws of the design that the properties have as exceptions: the
silence after such a stamp is not told of, because the notification before it seems to be about it;
and such a notification is never sent to that stream (a page that is loaded anew shows it).

## Runs

| run | question | bounds | result |
|---|---|---|---|
| `queue` | safety of the queue | 2 jobs of one run, 2 meters (one calls home), 2 workers, 1 handler, 1 Gateway thread, at most 2 readings of a job | 1.9 M states |
| `queue_live` | does everything end | 2 jobs (a scheduled profile, a command), one fault | 69 k states |
| `batches` | batches under retries and faults | a batch of 3 meters sent twice, one manual command, 2 workers, one fault | 2.8 M states |
| `relay` | the event path on one relay | one batch command, one manual command, 1 handler | 2.4 M states |
| `batch_lost` | does the last item close its batch | as `batches`, no fault | refuted |
| `pool` | safety of the pool | 3 connections, 2 meters, 1 reading, window 2, 1 per meter, 1 caller | 1.4 M states |
| `pool_live` | do threads end | 2 connections, 3 jobs of different kinds | 220 k states |
| `session` | truth and order of what is read, and its end | a batch of 3 objects, a profile of 3 rows cut in 3 ways, a command; 3 SNRMs, 3 AARQs, 2 connections, 3 supervisory frames, numbers modulo 4, invoke-ids up to 3 | 779 k states |
| `session_order` | are answers told apart | two registers, 3 AARQs, the code's own modulus and invoke-ids | refuted |
| `export` | two databases, one day, one run | 2 meters, 2 days, one run by hand, one new row a meter, one fault, EUDB with and without the constraint | 3.5 M states |
| `polling` | schedules and days | 2 schedules (a reading beside a profile, or beside the rated current) over 1 meter, 3 slots of 2 days, one order by hand or one fault | 927 k states |
| `fleet` | is who calls registered and polled, is a silence told of | 2 gateways, 2 meters, 3 schedules, 3 ports, from nine situations with at most 3 acts by hand and one fault; 6 ids, 4 notifications, 6 slots of time | 121 k states |

Why these bounds are enough to be interesting: two jobs of one run are the
smallest instance in which each task may be the last and may see the other as
unfinished; one of them on a call-home meter lets the two paths race for the
same row; the reaper and the sweep add two more writers to it. A batch needs two
registered meters (to be closed by either) and an unknown one (an item that is
FAILED from the start). Three connections with a window of two and a limit of
one reach both evictions, and a sibling taken from a thread that is asking the
Backend. `MaxReadings` only cuts off behaviours after the reaper has requeued a
job for the second time. Beyond these bounds there are the theorems.
In `batches` the workers are interchangeable, and so are the two requests together with
their items: the symmetry set is the product of both.

For a session three AARQs are enough that two late answers are in line before the first
question of a batch, a modulus of 4 and invoke-ids up to 3 begin again within one batch, three rows cut in three ways put a cut
at a row, in a marker and inside a row. For the export, two days and two meters let a run
end half-way and another take over on the same or the next day. For the polling, one
meter is enough because triggers never compare meters; three slots hold two triggers on one
day and one on the next, and two orders of a type can meet only through the meter. `MaxExtras` bounds
orders by hand and faults together; the sweep is neither, and comes at every change of the day.

`fleet` begins in one of nine situations (`MCOrigins`), each of which says what is there and which
kinds of acts people may do: newcomers while schedules change or something breaks; a known meter tended
or renamed; gateways approved and disabled; ports changed, once with a fault and once
twice; a watched meter in quiet, with acts and a fault, and with a stream. Everything at once would be out of
reach, and what can go wrong takes two or three of these acts beside the loops. Two meters heard by one
gateway come in one tick with four entries; with three schedules there are two lists of one kind, one of
them with `all_active_meters`; `OfflineTimeout` of two slots in a day of four holds
a silence, a stamp and a second silence.

Deadlock checking is off in all runs: the bounds on jobs, connections and faults
end every behaviour, and a system without work to do rests.

### Fairness

`queue_live` assumes weak fairness of what the Backend itself drives: a handler
returns (each call has a timeout), a task between commits goes on, the reaper
polls. Nothing is assumed of meters, operators, the Gateway's reports, midnight
or even of claims, since a database error ends a worker's loop for good.
`pool_live` assumes that threads go on: every wait in them has a timeout or a deadline. The
timeout of `recv` before UA is no bound, since heartbeats begin it anew as often as they come: an
exchange ends only when no heartbeat has just come (`Over`), weak fairness of `Carry` is
then that of `WaitOn`, and `ThreadsEnd` has the thread that is beaten for ever as its exception. The
run assumes nothing of meters, callers or the Backend. Starvation is not excluded and not
claimed: a job of a meter that never answers is requeued again and again.
`session` assumes that the Gateway goes on, because each of its waits has a timeout or a
deadline, and nothing of the meter. `polling` assumes that the scheduler's loop comes back,
as it does after every exception, and nothing of the jobs. `fleet` assumes the same of the loops
of discovery, heartbeat and detector and of the poll of an open stream, and nothing of
meters, workers, people or the clock. `export` has no liveness: neither
the connection to EUDB nor its statements have a timeout.

## What the runs refute

- **batch_lost**. Two tasks that end the last two items at once each see the
  other's item QUEUED, because items are only flushed, not committed, when the
  batch is looked at. The batch stays QUEUED. Scheduled runs do not have the
  problem: there the job is committed first, and that is the heart of the proof
  of `NoLostFinalisation`.
- **session_order**. Three AARQs, three late answers: the second AARE is taken for the
  scaler of the first register, the third for its value, which is an error, so the batch goes
  on; then the second register is reported with the first one's value and scaler. Answers are
  told apart by their order alone. `FalseOnlyAfterSecondAare` says that nothing
  else, of all that a slow line does, has this effect.

More things the properties have as exceptions, and a reader should know:

- `report_job_results` accepts any report of a RUNNING job, so a late report may be taken for
  a second execution the reaper has started (`DoubleReadingOnlyAfterRequeue`: nothing but that
  requeue stores a reading twice);
- the start-up reap fails jobs and closes no run, though
  the docstring of `_maybe_finalize_scheduled_job_run` says that the last job to end does
  (`NoLostFinalisation`: only this, and a fault between two commits, leave a finished run open);
- a reading of the relay's state is a priority job and so comes with relay commands of the same
  meter, although a comment of `_maybe_trigger_immediate_read` says that a claim with commands has
  nothing else. The thread ends after the commands, and the reading waits for the reaper.
  `EndStage` does what the code does, and no property of the pool denies it; `NoJobStuckRunning` says
  that a claim lost in this way, as in any other, does not stay RUNNING for good;
- a refusal of the first GET of a load profile with result 16 finds `pending_block_number`
  unbound: the operation ends in an UnboundLocalError (`crashed`), with no rows lost that were there;
- heartbeats that come more often than the timeout hold the wait for UA for as long as they come
  (`SessionEnds`: and no other wait; `ThreadsEnd`: and with it the thread);
- the sweep and the reaper write over jobs that somebody has in hands, and a trigger may then order them
  again (`NoPileUp`, `OnceADay`, `overrun`);
- an error of the database at the one look of the loop that falls between the set time and midnight costs the day its export
  (`DayServed`, `missed`);
- a list saved by hand between discovery's look at it and its flush is written over
  (`OnlyPeopleTakeOut`, `overtaken`); `blinded` and `passed` are described with `Monitor`.

## Theorems

All proofs are checked by tlapm with the SMT, Zenon and PTL backends. They hold
for every number of jobs, runs, workers, handlers, connections and faults.
They rest on the named assumptions of the modules: what the constants are; that
`StaleAfter` exceeds 240 s, the largest sum of call timeouts (the setting is
300); that a schedule has one type of routine jobs; that names do not clash
(`NoChoreAssumption` and the like: what stands for nothing is none of the things); that a meter's load
profile is made of rows and its blocks are the bytes of the profile (`ProfileAssumption`).

**JobQueue.** `TypeCorrect`, then one inductive invariant. Its parts:

- *claims*: a busy worker's job is RUNNING unless the reaper or a report ended
  it, and is not old, because its budget is below the threshold. Hence
  neither the reaper nor a NO_CONNECTION_YET of somebody else can return it
  to the queue, and no second worker can claim it: `WorkersExclude`.
- *tallies*: a task on its way to a run has committed its jobs. If all jobs of
  an open run are over, take the one that was committed last: its
  task is still on its way, and it sees all the others. Hence `NoRunLost`.
- *readings*: a SUCCEEDED row of a reading type has a reading, and so does every
  job a task sees as SUCCEEDED in its session; a verdict is
  SUCCEEDED only if every sibling is seen so. Hence `SuccessBacked`. The sessions'
  memory makes the stronger form necessary: `VerdictBacked` alone says nothing
  about what a task is about to write.
- *executions* (`ExecutionInv`): a job the reaper has not sent back is with one executor at
  most: a task in its handler, a thread of the Gateway, or a report on its way
  (`ExecutedByOne`). The execution passes from the one to the next and is never copied; as
  long as there is one, nothing is stored; a row that waits to be claimed has neither an execution nor
  a reading. Hence `ReadOnce`. That readings are at most one is not inductive by itself: it takes
  the uniqueness of who may still store one, and the claim of the *claims* part to know that
  nobody but the reaper puts a row back while its thread is at work.

**DisconnectBatch.** `BatchImplementsQueue` maps each action to a step of
`JobQueue!Next` or a stutter (the refinement mapping is the identity on the queue's
variables), so `CommandsExclude` is a corollary of `WorkersExclude`.
`IdempotentKeys` needs the strengthening that an answered request names an
existing batch of its own key. `BatchTypeCorrect`: a task only ever writes an item; and a largest
`created_at` exists because all of them are bounded, also when a restart takes some back.
The inductive invariant of the rest, `BatchInv`, adds to those of the queue:

- *items* (`ItemInv`): an item waits as long as its job does, as somebody executes the job and
  as a task has the outcome to write, and one task has it. It follows the executions of `JobQueue` one
  step further, from the commit of the job to the commit of the item.
- *obeyed* (`DrivenInv`): whoever says that a command went through, or will say so (a report, a
  handler, a task with the item to write, the item), speaks of a relay that has obeyed. Hence `DoneIsObeyed`.
- *verdicts* (`VerdictInv`): an item that is written is not written again, so a verdict taken from the
  items of a batch none of which waits stays right. Hence `VerdictIsRight`.
- *the last item* (`WatchInv`): in a batch whose items were never written by two tasks at once, the
  task that has flushed and found no verdict has seen another item that waits, and so that item's
  task is still to come. Hence `BatchesAreClosed`. Two at once do lose the batch
  (`LastItemClosesBatch` is refuted above), so the exception is not an easy way out.
- *order* (`OrderInv`): what waits and is not late is not older than anything of its meter that began;
  a meter not `crossed` has one executor; what he executes is not older than what the relay
  last obeyed. The last part is what the action property `RelaysObeyInOrder` needs: claims go
  by `created_at`, but the relay moves some time after the claim, when other commands have come.

**CallHomePool.** One inductive invariant for ownership: what threads have taken is
open, unpooled and disjoint; pooled connections are open and accepted; a
thread that is done has nothing; open ones are pooled or taken.
`ConnectionsHaveOneUser` and `NoSocketForgotten` follow. `PoolWithinLimits` counts:
an action adds at most one connection of a serial to the pool's view, and only
`Announce` does, which makes its thread one of `Unchecked`.
`ClaimsHaveOneThread`: what a thread has and the reaper has not put back under it is RUNNING or
final, and so not on offer; hence whoever else has it was overtaken. It takes that a thread lets
go of its jobs on every way in which it ends, and that no two claims hold a job that neither
has lost to the reaper (`JobsInv`).
`PoolImplementsLease` shows that each step maps every connection to one of
`Accepted`, `Granted`, `Closed` or to no change.

**DlmsSession.** `StepKinds` sorts every step into twelve kinds, so that a timeout, a torn frame,
a supervisory frame and a heartbeat are one case (`Quiet`), and all that ends the exchange with an error is
another (`Exception`). What a timeout or a drain leaves of the line is the line shifted, torn frames
aside (`Shifted`): no frame comes twice and none changes places. `SessionTypeCorrect`, then one invariant for
each property:

- *numbers*: along the requests under way, each bears the number that the one before it leaves
  expected, and `send_seq` is the number after them all (`InStep`); the same of invoke-ids (`FreshIds`).
  Hence `NumberingStays`.
- *the handshake*: before the association nothing but its frames is on the line, and two AAREs there were counted
  as two (`Handshake`).
- *batches*: with one AARE, one GET is under way, or its answer, or neither, and it is about the awaited
  datum (`Single`). Hence `ReadingsTrue`; a second AARE is what puts an answer before its question.
- *commands*: a command under way is the last request, and the meter has obeyed fewer times than there were connections
  (`Commands`). Hence `CommandsTold`.
- *profiles*: one question or one answer is under way, and once the ids grow, the question has
  another id than the meter remembers (`OnePart`). Hence `RefusalsEnd`.
- *rows*: what is under way is about the block the transfer waits for (`ThisPart`), and the bytes
  kept begin where the rows handed out end and reach to that block (`Kept`). With the lemmas on bytes
  below, hence `RowsAsStored`.

The lemmas on bytes say what `FlattenSeq`, which is recursive, and `split_load_profile_rows` give for
sequences of any length. tlapm cannot use an induction rule that takes an operator, so `NatSet`
states induction for a set of numbers, from the well-foundedness of `<`, and each lemma puts its
hypothesis into such a set: pieces put together lie one after the other (`PieceFacts`,
`FlattenSplit`); the markers found are listed from left to right (`MarkersListed`); two marker bytes
in a row begin a row of the table, and nothing else does (`RowsBeginWithMarks`); hence bytes that begin with
a row are split into its rows but the last, and what is left begins with that one (`SplitFacts`), which
is whole when no block is left (`LastRow`).

**EudbExport.** `ExportTypeCorrect`, then two inductive invariants.

- *the books* (`Books`): a run that has connected keeps its creation, its day and the
  list of runs before it, and one that is over keeps its verdict (`Lifecycle`,
  `Traces`); what a running session holds, uncommitted, agrees with EUDB up to
  answers not heard, and the commit at the end moves it into the books
  (`Ledger`). Hence `ExportBooksAgree`. For `ExportRepeatsExplained` the look into the
  books has to survive until the insert: every row of a run before this one is
  explained from the moment a meter is taken (`Guarded`), because runs before are over and
  their items do not change any more. For `ExportSuccessCovers` each meter behind a run has an
  outcome or is already exported (`Coverage`).
- *the calendar* (`Calendar`): once the loop has looked at the clock of a day, or need not look any more, that
  day has its scheduled run, is excused, or is the day the loop has decided on; a day whose set time found the loop
  in an older run is excused (`CalendarBehind`); no run is of a day to come. Hence `ExportOneADay` and `ExportDayServed`.

**Scheduler.** `SchedulerTypeCorrect`. `HandsInv`: a job that was not written over is in one pair of hands
at most, in none while it is QUEUED, and in no writer's once it has ended. Then one inductive invariant about what a trigger has behind it. Each question leaves something true that lasts until the commit, whatever jobs do meanwhile:

- after the look for outstanding jobs, no meter that is left has an unfinished job of an earlier order, unless
  it was written over, because a job that is over and that nobody may still write begins anew in no other way
  (`LookedWell`); what was ordered since the trigger began was ordered by hand (`Numbered`), since there is one
  scheduler. With the same of the table as a whole (`OldOnesAlone`): `NoPileUp`.
- after the question what was read today, a pair that is left out has been read on the
  trigger's day (`AskedWell`), and a meter left out by the look had a job: `NobodyWithheld`. A rated
  current known before the trigger began is not asked for again: `KnownForGood`.
- `ReadOnceADay` has a second invariant, `DailyInv`: a reading that comes in after the question and is
  of the trigger's day is that of a job written over while in hands or put back after its end. It has one
  hypothesis, `DailyReads`: every schedule of readings has `skip_if_read_today`.

**MeterRegistry.** `RegistryTypeCorrect`, then the invariant `RegistryInv` in two parts, for every
number of gateways, meters, schedules, acts and faults:

- *rows* (`RowsApart`): rows are apart in the table and with those a tick has flushed, and no id is
  above the last one given. Hence `MetersUnique`.
- *lists*: a meter that discovery has registered has a `Home` for each kind or is excused (`HomesKept`). A
  home has to survive a tick that holds the list in its hands: it has the meter in what was read and
  in what is written, too. Newcomers that are not committed are still to be entered, or are in a list that
  is locked, and so cannot be deleted (`Entering`); a list in hand has lost nobody but to a
  hand (`Kept`). Hence `NewcomersPolled` and `DiscoveryOnlyAdds`.

**Monitor.** The step lemmas of the registry are about `Step`, the registry's own steps and those elsewhere
that leave its tables alone and use up acts and faults at most. `MonitorStep` shows that each
action of `Monitor` is one of these, and so the theorems hold in the whole that the run checks:
`FleetPolled`, `FleetOnlyAdds`. `MonitorTypeCorrect`. `NoSecondNotice`
needs that notifications of a tick are taken together with those of the table, since the detector is
alone and looks at both, and that a stamp it has selected was a sign of life (`NoticesInv`).

The type invariants are proved for every module and not run.

Every safety and action property that a passing run checks is proved. Only model-checked is
liveness (`NoJobStuckRunning`, `FinishedRunCloses`, `ThreadsEnd`, `SessionEnds`, `DueIsTriggered`,
`Registered`, `PortsCatchUp`, `OutageTold`, `Delivered`): with fairness and ENABLED, it is out of
the prover's reach.

## Not modelled

Users, authentication, permissions, audit, dashboards, catalogues and frontend:
request-response over single rows. Generated gRPC code, emulators, migrations.
IEC modes C and E: one exchange each. Of the manual operations: the card's other fields,
filters, imports and parameter schemes, which nobody else writes. Of notifications: marking them as
read, and lists. `low_consumption.py` computes one row from others and decides nothing.

## Plan

1. (done) `JobQueue`, `DisconnectBatch`, `CallHomePool`, `ConnectionLease`, `DlmsSession`,
   `EudbExport`, `Scheduler`, `MeterRegistry`, `Monitor`, their runs and their theorems.
2. (done) Proofs of every safety and action property of the runs.
3. Refinements: `CallHomePool`'s jobs implement the Gateway's part of `JobQueue`; a trigger of
   `Scheduler` implements `JobQueue!TriggerRun`.
