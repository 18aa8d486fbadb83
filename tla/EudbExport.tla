----------------------------- MODULE EudbExport -----------------------------
(***************************************************************************)
(* The daily export of load profiles into EUDB: services/eudb_export.py    *)
(* and api/eudb_export.py.                                                 *)
(*                                                                         *)
(* A run goes through the active meters and sends the latest profile row   *)
(* of each.  The rows are committed in EUDB meter by meter; what the run   *)
(* remembers of them (EudbExportItem, the counters, the verdict) is        *)
(* committed in the Backend's own database once, at its end.  Runs are     *)
(* started by the loop, once a day when a set time is reached, and by a    *)
(* button, and may go on side by side.                                     *)
(*                                                                         *)
(* The source speaks of a unique constraint in EUDB on the meter and the   *)
(* date in two ways: the docstring of _already_exported_today denies it,   *)
(* tests/test_eudb_export.py and DECISIONS.md assert it.  EUDB is not part *)
(* of the repository, so it may be either way here (unique).               *)
(***************************************************************************)
EXTENDS Naturals, FiniteSets

CONSTANTS
    Meters,      \* the active ones
    MaxPresses,  \* bound: runs by the button
    MaxDay,      \* bound: midnights
    MaxStamp,    \* bound: profile rows of a meter
    MaxFaults,   \* bound: restarts, errors of the own database, lost answers
    NoMeter,
    Idle, Decided  \* where the loop is when it is not in a run

\* At most one scheduled run a day comes to it.
MaxRuns == MaxPresses + MaxDay + 1
Runs == 1 .. MaxRuns
Days == 0 .. MaxDay
Stamps == 1 .. MaxStamp
Verdicts == {"SUCCEEDED", "PARTIAL_FAILURE", "FAILED"}

ASSUME MetersAssumption == NoMeter \notin Meters
ASSUME LoopAssumption == Idle # Decided /\ Idle \notin Runs /\ Decided \notin Runs
ASSUME BoundsAssumption ==
    /\ MaxPresses \in Nat /\ MaxDay \in Nat
    /\ MaxStamp \in Nat /\ MaxFaults \in Nat

VARIABLES
    day,       \* midnights so far, Asia/Bishkek
    late,      \* the set time of the day is reached
    latest,    \* the newest row of load_profile_data of a meter; 0: none
    odd,       \* meters whose newest row has too few values
    unique,    \* EUDB has the unique constraint
    sent,      \* rows in EUDB, with the run that inserted them
    runs,      \* eudb_export_runs: how many there are
    status, manual, started,   \* their columns; started is the day
    items,     \* eudb_export_items, committed
    at,        \* where the execution of a run is
    since,     \* its day_start_utc
    todo,      \* meters it has still to look at
    doing,     \* the row it is sending
    flushed,   \* its items, not committed yet
    loop,      \* eudb_export_loop: idle, decided, or in a run
    decided,   \* the day of the loop's last look at the clock
    polled,    \* the loop owes this day no look at the clock any more
    faults,
    prior,     \* history: runs that were over when a run began
    unheard,   \* history: rows committed in EUDB although the run got an error
    missed     \* history: days with a restart, days on which a look of the loop failed,
               \* days whose set time found it in an older run, days whose run was created
               \* after midnight

clock == <<day, late, polled>>
table == <<runs, status, manual, started, items>>
task == <<since, todo, doing, flushed, prior>>
history == <<unheard, missed>>
vars == <<clock, latest, odd, unique, sent, table, at, task, loop, decided, faults, history>>

Rows == [meter : Meters, stamp : Stamps]
NoRow == [meter |-> NoMeter, stamp |-> 0]

TypeOK ==
    /\ day \in Days /\ late \in BOOLEAN /\ polled \in BOOLEAN /\ unique \in BOOLEAN
    /\ latest \in [Meters -> 0 .. MaxStamp] /\ odd \subseteq Meters
    /\ sent \subseteq [run : Runs, meter : Meters, stamp : Stamps]
    /\ runs \in 0 .. MaxRuns
    /\ status \in [Runs -> Verdicts \cup {"absent", "RUNNING"}]
    /\ manual \in [Runs -> BOOLEAN] /\ started \in [Runs -> Days] /\ since \in [Runs -> Days]
    /\ items \subseteq [run : Runs, meter : Meters, ok : BOOLEAN]
    /\ at \in [Runs -> {"absent", "waiting", "connected", "over"}]
    /\ todo \in [Runs -> SUBSET Meters]
    /\ doing \in [Runs -> Rows \cup {NoRow}]
    /\ flushed \in [Runs -> SUBSET [meter : Meters, ok : BOOLEAN]]
    /\ loop \in {Idle, Decided} \cup Runs /\ decided \in Days
    /\ faults \in 0 .. MaxFaults
    /\ prior \in [Runs -> SUBSET Runs]
    /\ unheard \subseteq [run : Runs, meter : Meters] /\ missed \subseteq Days

Init ==
    /\ day = 0 /\ late = FALSE /\ polled = FALSE /\ unique \in BOOLEAN
    /\ latest = [m \in Meters |-> 0] /\ odd = {}
    /\ sent = {} /\ items = {} /\ runs = 0
    /\ status = [r \in Runs |-> "absent"] /\ at = [r \in Runs |-> "absent"]
    /\ manual = [r \in Runs |-> FALSE]
    /\ started = [r \in Runs |-> 0] /\ since = [r \in Runs |-> 0]
    /\ todo = [r \in Runs |-> {}] /\ flushed = [r \in Runs |-> {}] /\ prior = [r \in Runs |-> {}]
    /\ doing = [r \in Runs |-> NoRow]
    /\ loop = Idle /\ decided = 0 /\ faults = 0 /\ unheard = {} /\ missed = {}

-----------------------------------------------------------------------------
(* Time and profile rows *)

\* The loop is in a run of an earlier day.
Behind == loop \in Runs /\ started[loop] < day

\* A look takes less than a day.  A loop that is behind sleeps 300 s after its run, perhaps
\* beyond midnight.
ReachTarget ==
    /\ ~late /\ loop # Decided
    /\ late' = TRUE
    /\ polled' = (polled \/ Behind)
    /\ missed' = IF Behind THEN missed \cup {day} ELSE missed
    /\ UNCHANGED <<day, latest, odd, unique, sent, table, at, task, loop, decided, faults, unheard>>

\* The loop looks at the clock every 300 s and the set time, 23:50, is 600 s before
\* midnight: an idle loop has looked once, whatever has come of it.
Midnight ==
    /\ late /\ day < MaxDay
    /\ loop = Idle => polled
    /\ day' = day + 1 /\ late' = FALSE /\ polled' = FALSE
    /\ missed' = IF loop = Decided THEN missed \cup {day} ELSE missed
    /\ UNCHANGED <<latest, odd, unique, sent, table, at, task, loop, decided, faults, unheard>>

\* A load-profile job stores a row, of the expected shape or of another.
StoreRow(m) ==
    /\ latest[m] < MaxStamp
    /\ latest' = [latest EXCEPT ![m] = @ + 1]
    /\ odd' \in {odd \cup {m}, odd \ {m}}
    /\ UNCHANGED <<clock, unique, sent, table, at, task, loop, decided, faults, history>>

-----------------------------------------------------------------------------
(* How runs come about *)

CreateRun(byHand) ==
    /\ runs < MaxRuns
    /\ runs' = runs + 1
    /\ status' = [status EXCEPT ![runs + 1] = "RUNNING"]
    /\ manual' = [manual EXCEPT ![runs + 1] = byHand]
    /\ started' = [started EXCEPT ![runs + 1] = day]
    /\ at' = [at EXCEPT ![runs + 1] = "waiting"]
    /\ UNCHANGED <<clock, latest, odd, unique, sent, items, task, decided, faults, unheard>>

PressButton ==
    /\ Cardinality({r \in 1 .. runs : manual[r]}) < MaxPresses
    /\ CreateRun(TRUE)
    /\ UNCHANGED <<loop, missed>>

\* Mutant: a run that failed, or has not ended, does not count.
TodaysScheduledRunExists_Succeeded ==
    \E r \in 1 .. runs : ~manual[r] /\ started[r] >= decided /\ status[r] = "SUCCEEDED"

\* Mutant: the button's runs count.
TodaysScheduledRunExists_AnyKind == \E r \in 1 .. runs : started[r] >= decided

\* _todays_scheduled_run_exists, whatever has become of that run.
TodaysScheduledRunExists == \E r \in 1 .. runs : ~manual[r] /\ started[r] >= decided

\* The clock is read before the database is asked,
LookAtClock ==
    /\ loop = Idle /\ late
    /\ loop' = Decided /\ decided' = day /\ polled' = TRUE
    /\ UNCHANGED <<day, late, latest, odd, unique, sent, table, at, task, faults, history>>

\* which may be after midnight: started_at is the beginning of the transaction that
\* looks for a run of the day decided on and inserts one.
CreateScheduled ==
    /\ loop = Decided /\ ~TodaysScheduledRunExists
    /\ CreateRun(FALSE)
    /\ loop' = runs + 1
    /\ UNCHANGED missed

NothingToCreate ==
    /\ loop = Decided /\ TodaysScheduledRunExists
    /\ loop' = Idle
    /\ UNCHANGED <<clock, latest, odd, unique, sent, table, at, task, decided, faults, history>>

\* An error of the database is logged, and the loop sleeps: it may be past midnight when
\* it looks again.
CreateFails ==
    /\ loop = Decided /\ faults < MaxFaults
    /\ loop' = Idle /\ faults' = faults + 1
    /\ missed' = missed \cup {decided}
    /\ UNCHANGED <<clock, latest, odd, unique, sent, table, at, task, decided, unheard>>

-----------------------------------------------------------------------------
(* The execution of a run *)

\* The loop waits for its own run and for no other.
Leave(r) == loop' = IF loop = r THEN Idle ELSE loop

Connect(r) ==
    /\ at[r] = "waiting"
    /\ at' = [at EXCEPT ![r] = "connected"]
    /\ since' = [since EXCEPT ![r] = day]
    /\ todo' = [todo EXCEPT ![r] = Meters]
    /\ prior' = [prior EXCEPT ![r] = {q \in Runs : at[q] = "over"}]
    /\ UNCHANGED <<clock, latest, odd, unique, sent, table, doing, flushed, loop, decided, faults, history>>

\* No connection, or none configured.
ConnectFails(r) ==
    /\ at[r] = "waiting"
    /\ at' = [at EXCEPT ![r] = "over"]
    /\ status' = [status EXCEPT ![r] = "FAILED"]
    /\ Leave(r)
    /\ UNCHANGED <<clock, latest, odd, unique, sent, runs, manual, started, items, task, decided, faults, history>>

\* Mutant: only runs without a failure are trusted.
AlreadyExportedToday_BySuccess(r, m) ==
    \E i \in items :
        i.meter = m /\ i.ok /\ started[i.run] >= since[r] /\ status[i.run] = "SUCCEEDED"

\* Mutant: the attempt is enough.
AlreadyExportedToday_Attempted(r, m) ==
    \E i \in items : i.meter = m /\ started[i.run] >= since[r]

\* _already_exported_today, in the session of run r; its own items are of other
\* meters, so the committed ones decide.
AlreadyExportedToday(r, m) ==
    \E i \in items : i.meter = m /\ i.ok /\ started[i.run] >= since[r]

Pass(r, m, outcome) ==
    /\ todo' = [todo EXCEPT ![r] = @ \ {m}]
    /\ flushed' = [flushed EXCEPT ![r] = @ \cup outcome]
    /\ UNCHANGED <<clock, latest, odd, unique, table, at, since, prior, loop, decided>>

Free(r) == at[r] = "connected" /\ doing[r] = NoRow

Skip(r, m) ==
    /\ Free(r) /\ m \in todo[r]
    /\ AlreadyExportedToday(r, m)
    /\ Pass(r, m, {})
    /\ UNCHANGED <<sent, doing, faults, history>>

\* Nothing to send: no row of the meter, or one of another shape.
Refuse(r, m) ==
    /\ Free(r) /\ m \in todo[r]
    /\ ~AlreadyExportedToday(r, m)
    /\ latest[m] = 0 \/ m \in odd
    /\ Pass(r, m, {[meter |-> m, ok |-> FALSE]})
    /\ UNCHANGED <<sent, doing, faults, history>>

Take(r, m) ==
    /\ Free(r) /\ m \in todo[r]
    /\ ~AlreadyExportedToday(r, m)
    /\ latest[m] # 0 /\ m \notin odd
    /\ doing' = [doing EXCEPT ![r] = [meter |-> m, stamp |-> latest[m]]]
    /\ UNCHANGED <<clock, latest, odd, unique, sent, table, at, since, todo, flushed, prior, loop, decided, faults, history>>

Busy(r) == at[r] = "connected" /\ doing[r] # NoRow

InEudb(row) == \E s \in sent : s.meter = row.meter /\ s.stamp = row.stamp

\* The ten inserts, one transaction of EUDB.
Insert(r) ==
    /\ unique => ~InEudb(doing[r])
    /\ sent' = sent \cup {[run |-> r, meter |-> doing[r].meter, stamp |-> doing[r].stamp]}

Sent(r) ==
    /\ Busy(r)
    /\ Insert(r)
    /\ Pass(r, doing[r].meter, {[meter |-> doing[r].meter, ok |-> TRUE]})
    /\ doing' = [doing EXCEPT ![r] = NoRow]
    /\ UNCHANGED <<faults, history>>

\* Mutant: the error is swallowed.
SendFails_Swallowed(r) ==
    /\ Busy(r)
    /\ Pass(r, doing[r].meter, {[meter |-> doing[r].meter, ok |-> TRUE]})
    /\ doing' = [doing EXCEPT ![r] = NoRow]
    /\ UNCHANGED <<sent, faults, history>>

\* EUDB does not list the meter, the row is there already, or EUDB has another reason.
SendFails(r) ==
    /\ Busy(r)
    /\ Pass(r, doing[r].meter, {[meter |-> doing[r].meter, ok |-> FALSE]})
    /\ doing' = [doing EXCEPT ![r] = NoRow]
    /\ UNCHANGED <<sent, faults, history>>

\* EUDB commits, and the connection breaks before it says so.
SentUnheard(r) ==
    /\ Busy(r) /\ faults < MaxFaults
    /\ Insert(r)
    /\ Pass(r, doing[r].meter, {[meter |-> doing[r].meter, ok |-> FALSE]})
    /\ doing' = [doing EXCEPT ![r] = NoRow]
    /\ faults' = faults + 1
    /\ unheard' = unheard \cup {[run |-> r, meter |-> doing[r].meter]}
    /\ UNCHANGED missed

Verdict(outcome) ==
    IF \A i \in outcome : i.ok THEN "SUCCEEDED"
    ELSE IF \E i \in outcome : i.ok THEN "PARTIAL_FAILURE"
    ELSE "FAILED"

\* Items, counters and verdict in one commit.
Finish(r) ==
    /\ Free(r) /\ todo[r] = {}
    /\ items' = items \cup {[run |-> r, meter |-> i.meter, ok |-> i.ok] : i \in flushed[r]}
    /\ status' = [status EXCEPT ![r] = Verdict(flushed[r])]
    /\ at' = [at EXCEPT ![r] = "over"]
    /\ Leave(r)
    /\ UNCHANGED <<clock, latest, odd, unique, sent, runs, manual, started, task, decided, faults, history>>

\* An exception of the Backend's own database: the session is rolled back, the run
\* keeps the status it was created with.
Abort(r) ==
    /\ at[r] \in {"waiting", "connected"} /\ faults < MaxFaults
    /\ at' = [at EXCEPT ![r] = "over"]
    /\ faults' = faults + 1
    /\ Leave(r)
    /\ UNCHANGED <<clock, latest, odd, unique, sent, table, task, decided, history>>

\* The process ends and comes back: so do its loop and its background tasks.  It may be
\* away until after midnight.
Restart ==
    /\ faults < MaxFaults
    /\ faults' = faults + 1
    /\ at' = [r \in Runs |-> IF at[r] = "absent" THEN "absent" ELSE "over"]
    /\ loop' = Idle
    /\ polled' \in BOOLEAN
    /\ missed' = missed \cup {day}
    /\ UNCHANGED <<day, late, latest, odd, unique, sent, table, task, decided, unheard>>

Execute(r) ==
    \/ Connect(r) \/ ConnectFails(r)
    \/ \E m \in Meters : Skip(r, m) \/ Refuse(r, m) \/ Take(r, m)
    \/ Sent(r) \/ SendFails(r) \/ SentUnheard(r)
    \/ Finish(r) \/ Abort(r)

Next ==
    \/ ReachTarget \/ Midnight \/ \E m \in Meters : StoreRow(m)
    \/ PressButton \/ LookAtClock \/ CreateScheduled \/ NothingToCreate \/ CreateFails
    \/ \E r \in Runs : Execute(r)
    \/ Restart

Spec == Init /\ [][Next]_vars

-----------------------------------------------------------------------------
(* Properties *)

\* A run has not come to its end: what it sent is not in the books.
CutShort(r) == status[r] = "RUNNING"

\* The guard against sending twice (_already_exported_today): a run sends nothing of a
\* meter that a run before it has sent, unless that one was cut short, did not hear that
\* EUDB had committed, or counts as a run of an earlier day.  Runs that overlap are not
\* guarded.  EUDB's constraint, if there is one, has no part in it.
RepeatsExplained ==
    \A a, b \in sent :
        a.meter = b.meter /\ a.run \in prior[b.run] =>
            \/ CutShort(a.run)
            \/ [run |-> a.run, meter |-> a.meter] \in unheard
            \/ started[a.run] < since[b.run]

\* Two databases without a common transaction: what a finished run has recorded as
\* exported is in EUDB, and what it has put there is recorded, lost answers aside.
BooksAgree ==
    \A r \in Runs : at[r] = "over" /\ ~CutShort(r) =>
        LET booked == {i.meter : i \in {j \in items : j.run = r /\ j.ok}}
            there == {s.meter : s \in {t \in sent : t.run = r}}
        IN /\ booked \subseteq there
           /\ \A m \in there \ booked : [run |-> r, meter |-> m] \in unheard

\* A run that ends as SUCCEEDED leaves no active meter out: each was exported by itself
\* or by a run of its day, though it may have skipped all of them.
SuccessCovers ==
    \A r \in Runs : status[r] = "SUCCEEDED" =>
        \A m \in Meters : \E i \in items :
            i.meter = m /\ i.ok /\ (i.run = r \/ started[i.run] >= since[r])

\* The loop starts one run a day, restarts or not.
OneScheduledADay ==
    \A r, q \in 1 .. runs :
        ~manual[r] /\ ~manual[q] /\ started[r] = started[q] => r = q

\* No day passes without a scheduled run, unless the Backend was restarted on it, a look of
\* the loop at it failed with an error of the database, the loop was at the set time still in
\* a run of an earlier day, or the run was created after midnight.  A run by hand does not
\* replace it.
DayServed ==
    \A d \in Days : d < day =>
        d \in missed \/ \E r \in 1 .. runs : ~manual[r] /\ started[r] = d
=============================================================================
