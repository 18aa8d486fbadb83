------------------------------- MODULE Monitor -------------------------------
(***************************************************************************)
(* Who is told that a meter has fallen silent: the workers that note the   *)
(* signs of life (services/job_worker.py), the detector that looks for     *)
(* meters without any (services/offline_detector.py), the notifications of *)
(* both, and the stream a browser listens to (api/notifications.py), over  *)
(* the meters of MeterRegistry.                                            *)
(*                                                                         *)
(* Each of them reads first and writes later.  A worker takes the time,    *)
(* then commits it.  The detector judges the rows it has selected at its   *)
(* beginning, numbers its notifications one by one and commits them        *)
(* together, with the time of its beginning.  So stamps, notifications and *)
(* numbers become visible in another order than they were made in.         *)
(*                                                                         *)
(* Time is counted in slots from 1 on; 0 stands for NULL.                  *)
(***************************************************************************)
EXTENDS MeterRegistry

CONSTANTS
    OfflineTimeout,   \* settings.meter_offline_timeout_s, in slots
    SlotsPerDay,      \* of Asia/Bishkek
    MaxNotices,       \* bound: numbers given to notifications
    NoMeter           \* meter_id of a notification about a run

Notice == [id : 1 .. MaxNotices, meter : Ids \cup {NoMeter}, at : Nat, judged : Nat]
Snapshot == [meter : Ids, seen : Nat, lastRead : Nat]

ASSUME MonitorAssumption ==
    /\ OfflineTimeout \in Nat \ {0} /\ SlotsPerDay \in Nat \ {0}
    /\ MaxNotices \in Nat /\ NoMeter \notin Ids

VARIABLES
    now, until,  \* until: bound of time
    seen,        \* last_seen_at
    lastRead,    \* last_read_at
    finishing,   \* finalisations that have taken the time and not committed
    lives,       \* history: signs of life that were committed
    blinded,     \* history: meters whose stamp is older than a notification
    notices,     \* table
    lastNotice,  \* its sequence
    tick,        \* the tick of the detector
    failing,     \* notifications of failed runs, not committed
    stream,      \* a browser's stream
    passed       \* history: numbers the stream went past while they were not committed

lifeVars == <<seen, lastRead, finishing, lives, blinded>>
noticeVars == <<notices, lastNotice, tick, failing>>
streamVars == <<stream, passed>>
mvars == <<now, until, lifeVars, noticeVars, streamVars>>
vars == <<rvars, mvars>>

NoTick == [on |-> FALSE, began |-> 0, rows |-> {}, made |-> {}]
NoStream == [on |-> FALSE, last |-> 0, base |-> {}, got |-> {}]

MonitorInit ==
    /\ \E o \in Origins : InitFrom(o) /\ until = o.until
    /\ now = 1
    /\ seen = [m \in Ids |-> 0] /\ lastRead = [m \in Ids |-> 0]
    /\ finishing = {} /\ lives = {} /\ blinded = {}
    /\ notices = {} /\ lastNotice = 0 /\ tick = NoTick /\ failing = {}
    /\ stream = NoStream /\ passed = {}

Day(t) == t \div SlotsPerDay

\* Meter.is_online: seen lately, or read on the same day.
IsOnline(row, t) ==
    \/ t < row.seen + OfflineTimeout
    \/ row.lastRead # 0 /\ Day(row.lastRead) = Day(t)

-----------------------------------------------------------------------------
(* Signs of life *)

\* A finalize_... function takes the time; read_current alone stamps last_read_at too.
TakeTime(m, read) ==
    /\ ByHand("lives")
    /\ m \in used /\ m \in IdsOf(meters)
    /\ finishing' = finishing \cup {[meter |-> m, at |-> now, read |-> read]}
    /\ UNCHANGED <<gatewayVars, tableVars, task, beat, faults, excused, now, until, seen, lastRead,
                   lives, blinded, noticeVars, streamVars>>

\* The stamp was late: a notification, made or about to be made, bears a later time.
Late(f) ==
    \/ \E n \in notices \cup tick.made : n.meter = f.meter /\ n.at > f.at
    \/ tick.began > f.at /\ \E r \in tick.rows : r.meter = f.meter

CommitLife(f) ==
    /\ f \in finishing
    /\ finishing' = finishing \ {f}
    /\ seen' = [seen EXCEPT ![f.meter] = f.at]
    /\ lastRead' = IF f.read THEN [lastRead EXCEPT ![f.meter] = f.at] ELSE lastRead
    /\ lives' = lives \cup {[meter |-> f.meter, at |-> f.at]}
    /\ blinded' = IF Late(f) THEN blinded \cup {f.meter} ELSE blinded \ {f.meter}
    /\ UNCHANGED <<rvars, now, until, noticeVars, streamVars>>

\* The transaction is rolled back.
LoseLife(f) ==
    /\ faults > 0 /\ faults' = faults - 1
    /\ f \in finishing
    /\ finishing' = finishing \ {f}
    /\ UNCHANGED <<gatewayVars, tableVars, task, beat, hands, excused, now, until, seen, lastRead,
                   lives, blinded, noticeVars, streamVars>>

-----------------------------------------------------------------------------
(* The detector *)

\* One select; meters that were never seen are not among them.  The transaction begins
\* here, and func.now() is its beginning.
DetectorBegins ==
    LET rows == {[meter |-> m, seen |-> seen[m], lastRead |-> lastRead[m]] :
                   m \in {i \in Ids : seen[i] # 0 /\ \E r \in meters : r.id = i /\ r.active}}
    IN  /\ ~tick.on /\ rows # {}
        /\ tick' = [on |-> TRUE, began |-> now, rows |-> rows, made |-> {}]
        /\ UNCHANGED <<rvars, now, until, lifeVars, notices, lastNotice, failing, streamVars>>

\* Mutant: a meter is told of once.
AlreadyNotified_Ever(r) == \E n \in notices \cup tick.made : n.meter = r.meter

\* Mutant: only a notification of this silence's overdue time counts.
AlreadyNotified_Overdue(r) ==
    \E n \in notices \cup tick.made : n.meter = r.meter /\ n.at >= r.seen + OfflineTimeout

AlreadyNotified(r) == \E n \in notices \cup tick.made : n.meter = r.meter /\ n.at > r.seen

\* create_notification: flushed, so it has its number.
NewNotice(m, at) == [id |-> lastNotice + 1, meter |-> m, at |-> at, judged |-> now]

\* A row as it was selected, the time and the notifications as they are.  A meter that was
\* seen has jobs, and is not deleted meanwhile.
Judge(r) ==
    /\ r \in tick.rows
    /\ \/ /\ IsOnline(r, now) \/ AlreadyNotified(r)
          /\ tick' = [tick EXCEPT !.rows = @ \ {r}] /\ UNCHANGED lastNotice
       \/ /\ ~IsOnline(r, now) /\ ~AlreadyNotified(r)
          /\ lastNotice < MaxNotices /\ lastNotice' = lastNotice + 1
          /\ tick' = [tick EXCEPT !.rows = @ \ {r},
                                  !.made = @ \cup {NewNotice(r.meter, tick.began)}]
    /\ UNCHANGED <<rvars, now, until, lifeVars, notices, failing, streamVars>>

DetectorCommits ==
    /\ tick.on /\ tick.rows = {}
    /\ notices' = notices \cup tick.made
    /\ tick' = NoTick
    /\ UNCHANGED <<rvars, now, until, lifeVars, lastNotice, failing, streamVars>>

BreakDetector ==
    /\ faults > 0 /\ faults' = faults - 1
    /\ tick.on /\ tick' = NoTick
    /\ UNCHANGED <<gatewayVars, tableVars, task, beat, hands, excused, now, until, lifeVars,
                   notices, lastNotice, failing, streamVars>>

Detecting == DetectorBegins \/ (\E r \in tick.rows : Judge(r)) \/ DetectorCommits

-----------------------------------------------------------------------------
(* Failed runs: _maybe_finalize_scheduled_job_run *)

RunFails ==
    /\ ByHand("runs") /\ ran # {}
    /\ lastNotice < MaxNotices /\ lastNotice' = lastNotice + 1
    /\ failing' = failing \cup {NewNotice(NoMeter, now)}
    /\ UNCHANGED <<gatewayVars, tableVars, task, beat, faults, excused, now, until, lifeVars,
                   notices, tick, streamVars>>

CommitRun(n) ==
    /\ n \in failing
    /\ failing' = failing \ {n}
    /\ notices' = notices \cup {n}
    /\ UNCHANGED <<rvars, now, until, lifeVars, lastNotice, tick, streamVars>>

-----------------------------------------------------------------------------
(* The stream: stream_notifications *)

NumbersOf(set) == {n.id : n \in set}
Newest(numbers) == CHOOSE i \in numbers \cup {0} : \A j \in numbers : j <= i
\* Given, but not committed.
Open == NumbersOf(failing \cup tick.made)

\* What is there when it opens the page gets from GET /api/notifications.
OpenStream ==
    LET last == Newest(NumbersOf(notices))
    IN  /\ ByHand("streams") /\ ~stream.on
        /\ stream' = [on |-> TRUE, last |-> last, base |-> NumbersOf(notices), got |-> {}]
        /\ passed' = {i \in Open : i < last}
        /\ UNCHANGED <<gatewayVars, tableVars, task, beat, faults, excused, now, until, lifeVars,
                       noticeVars>>

\* Mutant: the poll asks for what was created since the last one.
Poll_ByTime ==
    LET new == NumbersOf({n \in notices : n.at > stream.last})
    IN  /\ stream.on /\ (new # {} \/ stream.last # now)
        /\ stream' = [stream EXCEPT !.got = @ \cup new, !.last = now]
        /\ UNCHANGED <<passed, rvars, now, until, lifeVars, noticeVars>>

Poll ==
    LET new == {i \in NumbersOf(notices) : i > stream.last}
    IN  /\ stream.on /\ new # {}
        /\ stream' = [stream EXCEPT !.got = @ \cup new, !.last = Newest(new)]
        /\ passed' = passed \cup {i \in Open : stream.last < i /\ i < Newest(new)}
        /\ UNCHANGED <<rvars, now, until, lifeVars, noticeVars>>

CloseStream ==
    /\ stream.on /\ stream' = NoStream /\ passed' = {}
    /\ UNCHANGED <<rvars, now, until, lifeVars, noticeVars>>

-----------------------------------------------------------------------------
Advance ==
    /\ now < until
    /\ now' = now + 1
    /\ UNCHANGED <<rvars, until, lifeVars, noticeVars, streamVars>>

\* The process ends: nothing that was not committed is.
Restart ==
    /\ RestartBackend
    /\ finishing' = {} /\ tick' = NoTick /\ failing' = {}
    /\ stream' = NoStream /\ passed' = {}
    /\ UNCHANGED <<now, until, seen, lastRead, lives, blinded, notices, lastNotice>>

MonitorNext ==
    \/ Registering /\ UNCHANGED mvars
    \/ \E m \in Ids, read \in BOOLEAN : TakeTime(m, read)
    \/ \E f \in finishing : CommitLife(f) \/ LoseLife(f)
    \/ Detecting \/ BreakDetector
    \/ RunFails \/ \E n \in failing : CommitRun(n)
    \/ OpenStream \/ Poll \/ CloseStream
    \/ Advance \/ Restart

MonitorSpec == MonitorInit /\ [][MonitorNext]_vars

\* The loops of the Backend come back whatever happened, and so does the poll of an open
\* stream.  Nothing is asked of the meters, the workers or the clock.
FairMonitorSpec ==
    MonitorSpec /\ WF_vars(Discovery /\ UNCHANGED mvars) /\ WF_vars(Heartbeat /\ UNCHANGED mvars)
                /\ WF_vars(Detecting) /\ WF_vars(Poll)

-----------------------------------------------------------------------------
(* Properties *)

\* Each table holds rows of its kind, and what refers to a meter refers to an id there is.
MonitorTypeOK ==
    /\ now \in Nat /\ until \in Nat
    /\ seen \in [Ids -> Nat] /\ lastRead \in [Ids -> Nat]
    /\ finishing \subseteq [meter : Ids, at : Nat, read : BOOLEAN]
    /\ lives \subseteq [meter : Ids, at : Nat] /\ blinded \subseteq Ids
    /\ notices \subseteq Notice /\ lastNotice \in 0 .. MaxNotices
    /\ tick \in [on : BOOLEAN, began : Nat, rows : SUBSET Snapshot, made : SUBSET Notice]
    /\ failing \subseteq Notice
    /\ stream \in [on : BOOLEAN, last : Nat, base : SUBSET Nat, got : SUBSET Nat]
    /\ passed \subseteq Nat

\* Between two notifications about a meter it gave a sign of life: restarts, errors and
\* stamps that come late do not repeat one.
OneNoticePerOutage ==
    \A n, k \in notices :
        n.meter = k.meter /\ n.meter # NoMeter /\ n.id < k.id
        => \E l \in lives : l.meter = n.meter /\ n.at <= l.at /\ l.at <= k.judged

\* In the table, active, seen once, and not for too long.
Offline(m) ==
    /\ \E r \in meters : r.id = m /\ r.active
    /\ seen[m] # 0
    /\ ~IsOnline([seen |-> seen[m], lastRead |-> lastRead[m]], now)

\* A meter that stays silent is told of, in a notification made when the silence was long
\* enough; except when its last stamp was committed so late that a notification of the
\* silence before bears a later time.
OutageTold ==
    \A m \in Ids :
        Offline(m) ~> \/ ~Offline(m) \/ m \in blinded
                      \/ \E n \in notices : n.meter = m /\ n.judged >= seen[m] + OfflineTimeout

\* An open stream sends every notification that was not there when it began, except one
\* whose number was given but not committed when the stream went past it.
Delivered ==
    \A i \in 1 .. MaxNotices :
        stream.on /\ i \in NumbersOf(notices)
        ~> ~stream.on \/ i \in stream.base \cup stream.got \cup passed
=============================================================================
