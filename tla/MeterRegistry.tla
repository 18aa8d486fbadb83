---------------------------- MODULE MeterRegistry ----------------------------
(***************************************************************************)
(* How a meter comes to be polled: the registry of gateways and of meters, *)
(* the lists of the schedules, and the three who write to them.            *)
(*                                                                         *)
(*   - services/meter_discovery.py asks every approved gateway whom it has *)
(*     heard, registers the newcomers and adds them to the longest list of *)
(*     each kind, all in one transaction whose reads are older than its    *)
(*     writes;                                                             *)
(*   - services/heartbeat.py notes the ports a gateway listens on;         *)
(*   - people change gateways, meters and schedules through the API.       *)
(*                                                                         *)
(* A transaction is visible when it commits.  A row it has written is      *)
(* locked until then, and so is a serial number it has inserted: who wants *)
(* to write the same waits, which is the same as coming later.             *)
(***************************************************************************)
EXTENDS Naturals, Sequences, FiniteSets, Functions

CONSTANTS
    Gateways, Serials, Ports,
    Boot,       \* the ports a gateway process opens when it starts
    Dials,      \* where a meter calls: a set of <<gateway, port>>
    Schedules,
    TypeOf,     \* job_type of a schedule
    AllActive,  \* schedules with operation_params.all_active_meters
    Origins,    \* the situations to begin with
    MaxId,      \* bound: rows of the table of meters
    NoGateway, NoSchedule, NoPorts

\* _add_to_catchall_schedules: in this order.
CatchallTypes == <<"read_current", "read_rated_current">>
Types == {"read_current", "read_rated_current", "read_load_profile"}
Ids == 1 .. MaxId
Listening == [main : Ports, extra : SUBSET Ports]
Row == [id : Ids, serial : Serials, status : {"INSTALLED", "ACTIVE"}, active : BOOLEAN,
        gateway : Gateways, found : BOOLEAN]
Schedule == [row : {"none", "there", "deleted"}, enabled : BOOLEAN, list : SUBSET Ids]
\* Bound: how many acts, and of which kinds.
Kinds == {"gateways", "ports", "meters", "schedules", "jobs", "lives", "runs", "streams"}
Hands == [left : Nat, kinds : SUBSET Kinds]
Origin == [rows : SUBSET Row, last : 0 .. MaxId, schedules : [Schedules -> Schedule],
           approved : SUBSET Gateways, used : SUBSET Ids, ran : SUBSET Schedules,
           hands : Hands, faults : Nat, until : Nat]

ASSUME RegistryAssumption ==
    /\ Boot \in [Gateways -> Listening]
    /\ Dials \in [Serials -> SUBSET (Gateways \X Ports)]
    /\ TypeOf \in [Schedules -> Types] /\ AllActive \subseteq Schedules
    /\ MaxId \in Nat /\ IsFiniteSet(Serials)
    /\ NoGateway \notin Gateways /\ NoSchedule \notin Schedules /\ NoPorts \notin Listening

\* At first nobody was found by discovery, serial numbers are unique, and so are ids, which
\* a sequence has given.
ASSUME OriginsAssumption ==
    /\ Origins \subseteq Origin
    /\ \A o \in Origins : \A r, q \in o.rows :
         /\ ~r.found /\ r.id <= o.last
         /\ r.id = q.id \/ r.serial = q.serial => r = q

VARIABLES
    gateways,   \* table: status and the ports last noted
    process,    \* a gateway's process: the ports it listens on, whom it has heard
    meters,     \* table
    lastId,     \* its sequence
    schedules,  \* table
    used,       \* meters that jobs or readings refer to
    ran,        \* schedules that runs refer to
    task,       \* the tick of discovery
    beat,       \* the tick of the heartbeat
    confirmed,  \* changes of port a gateway has carried out, the API not yet
    hands,      \* bound: acts of people left, and their kinds
    faults,     \* bound: faults left
    excused     \* history: meters a schedule's type need not know, by somebody's hand

gatewayVars == <<gateways, process, confirmed>>
tableVars == <<meters, lastId, schedules, used, ran>>
rvars == <<gatewayVars, tableVars, task, beat, hands, faults, excused>>

Task == [step : {"idle", "asking", "looked", "listing"}, queue : SUBSET Gateways,
         gateway : Gateways \cup {NoGateway}, new : SUBSET Serials, rows : SUBSET Row,
         todo : Seq(Ids \X Types), chosen : Schedules \cup {NoSchedule}, read : SUBSET Ids,
         locked : SUBSET Schedules, written : [Schedules -> SUBSET Ids],
         entered : SUBSET ((Ids \X Types) \X (Schedules \cup {NoSchedule})),
         overtaken : SUBSET Schedules]
NoTask == [step |-> "idle", queue |-> {}, gateway |-> NoGateway, new |-> {}, rows |-> {},
           todo |-> <<>>, chosen |-> NoSchedule, read |-> {}, locked |-> {},
           written |-> [s \in Schedules |-> {}], entered |-> {}, overtaken |-> {}]
NoBeat == [on |-> FALSE, queue |-> {}, answers |-> {}]

SerialsOf(rows) == {r.serial : r \in rows}
IdsOf(rows) == {r.id : r \in rows}
Heard(g) == process[g].heard

InitFrom(o) ==
    /\ gateways = [g \in Gateways |->
         IF g \in o.approved THEN [status |-> "APPROVED", shown |-> Boot[g]]
                           ELSE [status |-> "none", shown |-> NoPorts]]
    /\ process = [g \in Gateways |-> [ports |-> Boot[g], heard |-> {}]]
    /\ confirmed = {}
    /\ meters = o.rows /\ schedules = o.schedules
    /\ lastId = o.last
    /\ used = o.used /\ ran = o.ran
    /\ task = NoTask /\ beat = NoBeat
    /\ hands = o.hands /\ faults = o.faults /\ excused = {}

Init == \E o \in Origins : InitFrom(o)

-----------------------------------------------------------------------------
(* Discovery: services/meter_discovery.py *)

Approved == {g \in Gateways : gateways[g].status = "APPROVED"}

\* The next gateway of the tick, in a session of its own.
Onward(queue) ==
    IF queue = {} THEN NoTask ELSE [NoTask EXCEPT !.step = "asking", !.queue = queue]

TickBegins ==
    /\ task = NoTask /\ Approved # {}
    /\ task' = Onward(Approved)
    /\ UNCHANGED <<gatewayVars, tableVars, beat, hands, faults, excused>>

\* Mutant: a gateway that has heard nobody ends the tick.
AskGateway_Return(g) ==
    /\ task.step = "asking" /\ g \in task.queue
    /\ LET new == Heard(g) \ SerialsOf(meters)
           rest == task.queue \ {g}
       IN task' = IF new = {} THEN NoTask
                  ELSE [task EXCEPT !.step = "looked", !.queue = rest, !.gateway = g, !.new = new]
    /\ UNCHANGED <<gatewayVars, tableVars, beat, hands, faults, excused>>

\* list_call_home_serials, and the look at the table that follows the answer.
AskGateway(g) ==
    /\ task.step = "asking" /\ g \in task.queue
    /\ LET new == Heard(g) \ SerialsOf(meters)
           rest == task.queue \ {g}
       IN task' = IF new = {} THEN Onward(rest)
                  ELSE [task EXCEPT !.step = "looked", !.queue = rest, !.gateway = g, !.new = new]
    /\ UNCHANGED <<gatewayVars, tableVars, beat, hands, faults, excused>>

\* A gateway that does not answer is left for the next tick.
Unreachable(g) ==
    /\ faults > 0 /\ faults' = faults - 1
    /\ task.step = "asking" /\ g \in task.queue
    /\ task' = Onward(task.queue \ {g})
    /\ UNCHANGED <<gatewayVars, tableVars, beat, hands, excused>>

\* For every newcomer the two kinds of lists, one after the other.
Entries(from, n) ==
    [i \in 1 .. 2 * n |-> <<from + ((i - 1) \div 2), CatchallTypes[((i - 1) % 2) + 1]>>]

\* db.flush: the newcomers get their ids, or a number has been taken meanwhile, and the
\* IntegrityError ends the whole tick.
InsertMeters ==
    LET n == Cardinality(task.new)
        fresh == (lastId + 1) .. (lastId + n)
    IN  /\ task.step = "looked"
        /\ \/ /\ task.new \cap SerialsOf(meters) # {}
              /\ task' = NoTask /\ UNCHANGED lastId
           \/ /\ task.new \cap SerialsOf(meters) = {}
              /\ lastId + n <= MaxId
              /\ \E id \in Injection(task.new, fresh) :
                   task' = [task EXCEPT !.step = "listing", !.todo = Entries(lastId + 1, n),
                     !.rows = {[id |-> id[s], serial |-> s, status |-> "ACTIVE", active |-> TRUE,
                                gateway |-> task.gateway, found |-> TRUE] : s \in task.new}]
              /\ lastId' = lastId + n
        /\ UNCHANGED <<gatewayVars, meters, schedules, used, ran, beat, hands, faults, excused>>

\* Mutant: the session does not see what it has written itself.
View_Committed(s) == schedules[s].list

\* A list as the session of the tick sees it.
View(s) == IF s \in task.locked THEN task.written[s] ELSE schedules[s].list

Exists(s) == schedules[s].row = "there"
OfType(t) == {s \in Schedules : Exists(s) /\ TypeOf[s] = t}

\* max(schedules, key=len(meter_ids)), enabled or not; ids of deleted meters count.
Longest(t) ==
    {s \in OfType(t) : \A r \in OfType(t) : Cardinality(View(s)) >= Cardinality(View(r))}

\* The select of _add_to_catchall_schedules.
ChooseList ==
    LET t == Head(task.todo)[2]
    IN  /\ task.step = "listing" /\ task.todo # <<>> /\ task.chosen = NoSchedule
        /\ \/ /\ OfType(t) = {}
              /\ task' = [task EXCEPT !.todo = Tail(@),
                                      !.entered = @ \cup {<<Head(task.todo), NoSchedule>>}]
           \/ \E s \in Longest(t) : task' = [task EXCEPT !.chosen = s, !.read = View(s)]
        /\ UNCHANGED <<gatewayVars, tableVars, beat, hands, faults, excused>>

\* Mutant: the list is tidied of meters that are not active.
WriteList_Tidied ==
    LET s == task.chosen
        list == (task.read \cap {r.id : r \in {q \in meters : q.active}}) \cup {Head(task.todo)[1]}
    IN  /\ s # NoSchedule
        /\ task' = [task EXCEPT !.todo = Tail(@), !.chosen = NoSchedule, !.read = {},
                 !.locked = @ \cup {s}, !.written[s] = list,
                 !.entered = @ \cup {<<Head(task.todo), s>>}]
        /\ UNCHANGED <<gatewayVars, tableVars, beat, hands, faults, excused>>

\* The list read is written back with the newcomer, as a whole, when the session flushes.
\* A schedule deleted in between makes the flush fail, and the tick with it.
WriteList ==
    LET s == task.chosen
    IN  /\ s # NoSchedule
        /\ task' =
             IF ~Exists(s) THEN NoTask
             ELSE [task EXCEPT !.todo = Tail(@), !.chosen = NoSchedule, !.read = {},
                    !.locked = @ \cup {s}, !.written[s] = task.read \cup {Head(task.todo)[1]},
                    !.entered = @ \cup {<<Head(task.todo), s>>}]
        /\ UNCHANGED <<gatewayVars, tableVars, beat, hands, faults, excused>>

\* Newcomers and lists become visible together.
CommitMeters ==
    /\ task.step = "listing" /\ task.todo = <<>>
    /\ meters' = meters \cup task.rows
    /\ schedules' = [s \in Schedules |->
         IF s \in task.locked THEN [schedules[s] EXCEPT !.list = task.written[s]] ELSE schedules[s]]
    /\ excused' = excused \cup
         {e[1] : e \in {f \in task.entered : f[2] = NoSchedule \/ ~schedules[f[2]].enabled}}
    /\ task' = Onward(task.queue)
    /\ UNCHANGED <<gatewayVars, lastId, used, ran, beat, hands, faults>>

Discovery ==
    \/ TickBegins \/ (\E g \in Gateways : AskGateway(g))
    \/ InsertMeters \/ ChooseList \/ WriteList \/ CommitMeters

-----------------------------------------------------------------------------
(* Heartbeat: services/heartbeat.py *)

BeatBegins ==
    /\ ~beat.on /\ Approved # {}
    /\ beat' = [on |-> TRUE, queue |-> Approved, answers |-> {}]
    /\ UNCHANGED <<gatewayVars, tableVars, task, hands, faults, excused>>

\* _check_one, for all gateways side by side.
CheckHealth(g) ==
    /\ g \in beat.queue
    /\ beat' = [beat EXCEPT !.queue = @ \ {g}, !.answers = @ \cup {<<g, process[g].ports>>}]
    /\ UNCHANGED <<gatewayVars, tableVars, task, hands, faults, excused>>

NoHealth(g) ==
    /\ faults > 0 /\ faults' = faults - 1
    /\ g \in beat.queue
    /\ beat' = [beat EXCEPT !.queue = @ \ {g}]
    /\ UNCHANGED <<gatewayVars, tableVars, task, hands, excused>>

\* Mutant: only call_home_port is written.
BeatCommits_MainOnly ==
    /\ beat.on /\ beat.queue = {}
    /\ gateways' = [g \in Gateways |->
         IF \E a \in beat.answers : a[1] = g
         THEN [gateways[g] EXCEPT !.shown =
                [main |-> (CHOOSE a \in beat.answers : a[1] = g)[2].main,
                 extra |-> IF @ = NoPorts THEN {} ELSE @.extra]]
         ELSE gateways[g]]
    /\ beat' = NoBeat
    /\ UNCHANGED <<process, confirmed, tableVars, task, hands, faults, excused>>

\* What the gateways answered is written, whatever has become of it and of them.
BeatCommits ==
    /\ beat.on /\ beat.queue = {}
    /\ gateways' = [g \in Gateways |->
         IF \E a \in beat.answers : a[1] = g
         THEN [gateways[g] EXCEPT !.shown = (CHOOSE a \in beat.answers : a[1] = g)[2]]
         ELSE gateways[g]]
    /\ beat' = NoBeat
    /\ UNCHANGED <<process, confirmed, tableVars, task, hands, faults, excused>>

Heartbeat == BeatBegins \/ (\E g \in Gateways : CheckHealth(g)) \/ BeatCommits

-----------------------------------------------------------------------------
(* The API *)

ByHand(kind) ==
    /\ hands.left > 0 /\ kind \in hands.kinds
    /\ hands' = [hands EXCEPT !.left = @ - 1]

SetStatus(g, status) ==
    /\ ByHand("gateways")
    /\ gateways' = [gateways EXCEPT ![g].status = status]
    /\ UNCHANGED <<process, confirmed, tableVars, task, beat, faults, excused>>

RegisterGateway(g) == gateways[g].status = "none" /\ SetStatus(g, "PENDING")
ApproveGateway(g) == gateways[g].status \in {"PENDING", "DISABLED"} /\ SetStatus(g, "APPROVED")
DisableGateway(g) == gateways[g].status \in {"PENDING", "APPROVED"} /\ SetStatus(g, "DISABLED")

\* SetCallHomePort of the gateway: the new pool is made with the one port, and has heard
\* nobody; a port that is already open is refused.
ChangePort(g, p) ==
    /\ ByHand("ports")
    /\ gateways[g].status # "none"
    /\ p # process[g].ports.main /\ p \notin process[g].ports.extra
    /\ process' = [process EXCEPT ![g] = [ports |-> [main |-> p, extra |-> {}], heard |-> {}]]
    /\ confirmed' = confirmed \cup {<<g, p>>}
    /\ UNCHANGED <<gateways, tableVars, task, beat, faults, excused>>

\* set_gateway_call_home_port writes the one column when the gateway has said yes.
NotePort(g, p) ==
    /\ <<g, p>> \in confirmed
    /\ confirmed' = confirmed \ {<<g, p>>}
    /\ gateways' = [gateways EXCEPT ![g].shown =
         IF @ = NoPorts THEN [main |-> p, extra |-> {}] ELSE [@ EXCEPT !.main = p]]
    /\ UNCHANGED <<process, tableVars, task, beat, hands, faults, excused>>

\* The answer is lost: the caller gets 502, and nothing is written.
LoseAnswer(g, p) ==
    /\ faults > 0 /\ faults' = faults - 1
    /\ <<g, p>> \in confirmed
    /\ confirmed' = confirmed \ {<<g, p>>}
    /\ UNCHANGED <<gateways, process, tableVars, task, beat, hands, excused>>

\* A number that is in the table is refused, by UNIQUE.
Free(serial) == serial \notin SerialsOf(meters) \cup SerialsOf(task.rows)

\* create_meter: no list is touched.
CreateMeter(g, serial) ==
    /\ ByHand("meters")
    /\ g \in Approved /\ Free(serial) /\ lastId < MaxId
    /\ lastId' = lastId + 1
    /\ meters' = meters \cup {[id |-> lastId + 1, serial |-> serial, status |-> "ACTIVE",
                               active |-> TRUE, gateway |-> g, found |-> FALSE]}
    /\ UNCHANGED <<gatewayVars, schedules, used, ran, task, beat, faults, excused>>

ReplaceMeter(r, q) ==
    /\ ByHand("meters")
    /\ meters' = (meters \ {r}) \cup {q}
    /\ UNCHANGED <<gatewayVars, lastId, schedules, used, ran, task, beat, faults, excused>>

\* activate_meter, update_meter.
ActivateMeter(r) == r.status = "INSTALLED"
                    /\ ReplaceMeter(r, [r EXCEPT !.status = "ACTIVE", !.active = TRUE])
RenameMeter(r, serial) == Free(serial) /\ ReplaceMeter(r, [r EXCEPT !.serial = serial])
SwitchMeter(r) == ReplaceMeter(r, [r EXCEPT !.active = ~@])

\* delete_meter: refused once jobs or readings refer to the meter.  The lists keep its id.
DeleteMeter(r) ==
    /\ ByHand("meters")
    /\ r.id \notin used
    /\ meters' = meters \ {r}
    /\ UNCHANGED <<gatewayVars, lastId, schedules, used, ran, task, beat, faults, excused>>

\* _validate_meter_ids: meters there are, at least one.
ValidLists == SUBSET IdsOf(meters) \ {{}}

\* Whoever takes ids from the list of s, or s from use, answers for it.
AnswerFor(s, ids) == excused' = excused \cup {<<m, TypeOf[s]>> : m \in ids}

WriteSchedule(s, row) ==
    /\ ByHand("schedules")
    /\ s \notin task.locked
    /\ schedules' = [schedules EXCEPT ![s] = row]
    /\ UNCHANGED <<gatewayVars, meters, lastId, used, ran, beat, faults>>

CreateSchedule(s, list, enabled) ==
    /\ schedules[s].row = "none"
    /\ WriteSchedule(s, [row |-> "there", enabled |-> enabled, list |-> list])
    /\ UNCHANGED <<task, excused>>

\* update_scheduled_job with meter_ids: the list as a whole.
SaveList(s, list) ==
    /\ Exists(s)
    /\ WriteSchedule(s, [schedules[s] EXCEPT !.list = list])
    /\ AnswerFor(s, schedules[s].list \ list)
    /\ task' = IF task.chosen = s THEN [task EXCEPT !.overtaken = @ \cup {s}] ELSE task

\* update_scheduled_job with is_enabled only.
ToggleSchedule(s) ==
    /\ Exists(s)
    /\ WriteSchedule(s, [schedules[s] EXCEPT !.enabled = ~@])
    /\ AnswerFor(s, IF schedules[s].enabled THEN schedules[s].list ELSE {})
    /\ UNCHANGED task

\* delete_scheduled_job: refused once runs refer to the schedule.
DeleteSchedule(s) ==
    /\ Exists(s) /\ s \notin ran
    /\ WriteSchedule(s, [row |-> "deleted", enabled |-> FALSE, list |-> {}])
    /\ AnswerFor(s, schedules[s].list)
    /\ UNCHANGED task

\* scheduler._trigger_one selects the meters of the group, by is_active and not by status.
GroupOf(s) ==
    {r.id : r \in {q \in meters : q.active /\ (s \in AllActive \/ q.id \in schedules[s].list)}}

Refer(ids, schedule) ==
    /\ ids # {} /\ ~(ids \subseteq used /\ schedule \subseteq ran)
    /\ used' = used \cup ids /\ ran' = ran \cup schedule
    /\ UNCHANGED <<gatewayVars, meters, lastId, schedules, task, beat, faults, excused>>

Trigger(s) ==
    /\ "jobs" \in hands.kinds
    /\ Exists(s) /\ schedules[s].enabled
    /\ Refer(GroupOf(s), {s}) /\ UNCHANGED hands

\* _get_active_meter_or_error: by status and not by is_active.
OrderJob(r) == r.status = "ACTIVE" /\ Refer({r.id}, {}) /\ ByHand("jobs")

-----------------------------------------------------------------------------
(* Around the Backend *)

\* _identify: a meter calls on one of the ports it knows.  Nobody asks a gateway before it
\* is registered.
Hear(g, serial) ==
    /\ gateways[g].status # "none"
    /\ serial \notin Heard(g)
    /\ \E p \in {process[g].ports.main} \cup process[g].ports.extra : <<g, p>> \in Dials[serial]
    /\ process' = [process EXCEPT ![g].heard = @ \cup {serial}]
    /\ UNCHANGED <<gateways, confirmed, tableVars, task, beat, hands, faults, excused>>

RestartGateway(g) ==
    /\ faults > 0 /\ faults' = faults - 1
    /\ gateways[g].status # "none"
    /\ process' = [process EXCEPT ![g] = [ports |-> Boot[g], heard |-> {}]]
    /\ UNCHANGED <<gateways, confirmed, tableVars, task, beat, hands, excused>>

\* An error of the database ends the tick of discovery and nothing else.
BreakDiscovery ==
    /\ faults > 0 /\ faults' = faults - 1
    /\ task # NoTask /\ task' = NoTask
    /\ UNCHANGED <<gatewayVars, tableVars, beat, hands, excused>>

RestartBackend ==
    /\ faults > 0 /\ faults' = faults - 1
    /\ task' = NoTask /\ beat' = NoBeat /\ confirmed' = {}
    /\ UNCHANGED <<gateways, process, tableVars, hands, excused>>

People ==
    \/ \E g \in Gateways : RegisterGateway(g) \/ ApproveGateway(g) \/ DisableGateway(g)
    \/ \E g \in Gateways, p \in Ports : ChangePort(g, p) \/ NotePort(g, p)
    \/ \E g \in Gateways, serial \in Serials : CreateMeter(g, serial)
    \/ \E r \in meters : ActivateMeter(r) \/ SwitchMeter(r) \/ DeleteMeter(r)
                        \/ OrderJob(r) \/ \E serial \in Serials : RenameMeter(r, serial)
    \/ \E s \in Schedules : ToggleSchedule(s) \/ DeleteSchedule(s)
    \/ \E s \in Schedules, list \in ValidLists :
          SaveList(s, list) \/ \E enabled \in BOOLEAN : CreateSchedule(s, list, enabled)

Mishap ==
    \/ \E g \in Gateways : Unreachable(g) \/ NoHealth(g) \/ RestartGateway(g)
    \/ \E g \in Gateways, p \in Ports : LoseAnswer(g, p)
    \/ BreakDiscovery

Registering ==
    \/ Discovery \/ Heartbeat \/ People \/ Mishap
    \/ \E s \in Schedules : Trigger(s)
    \/ \E g \in Gateways, serial \in Serials : Hear(g, serial)

Next == Registering \/ RestartBackend

Spec == Init /\ [][Next]_rvars

\* Both loops come back every 30 s whatever happened in the last tick.
Fairness == WF_rvars(Discovery) /\ WF_rvars(Heartbeat)

-----------------------------------------------------------------------------
(* Properties *)

RegistryTypeOK ==
    /\ gateways \in [Gateways -> [status : {"none", "PENDING", "APPROVED", "DISABLED"},
                                  shown : Listening \cup {NoPorts}]]
    /\ process \in [Gateways -> [ports : Listening, heard : SUBSET Serials]]
    /\ confirmed \subseteq Gateways \X Ports
    /\ meters \subseteq Row /\ lastId \in 0 .. MaxId
    /\ schedules \in [Schedules -> Schedule]
    /\ used \subseteq Ids /\ ran \subseteq Schedules
    /\ task \in Task
    /\ task.step = "looked" => task.gateway \in Gateways
    /\ task.chosen # NoSchedule => task.step = "listing" /\ task.todo # <<>>
    /\ beat \in [on : BOOLEAN, queue : SUBSET Gateways, answers : SUBSET (Gateways \X Listening)]
    /\ hands \in Hands /\ faults \in Nat /\ excused \subseteq Ids \X Types

\* However discovery, people and renamed meters cross each other, a serial number has one
\* row, and an id belongs to one meter.
OneRowPerSerial ==
    \A r, q \in meters : r.id = q.id \/ r.serial = q.serial => r = q

\* A schedule that is on asks the meter, if the meter is active.
Polled(m, t) ==
    \E s \in Schedules : /\ Exists(s) /\ schedules[s].enabled /\ TypeOf[s] = t
                         /\ m \in schedules[s].list \/ s \in AllActive

\* A meter that discovery has registered is polled for both kinds, or somebody took it
\* out, switched off or deleted its list, or there was no list, or the longest one was
\* switched off: what discovery leaves undone it never does later.
NobodyOverlooked ==
    \A r \in meters, i \in DOMAIN CatchallTypes :
        r.found => Polled(r.id, CatchallTypes[i]) \/ <<r.id, CatchallTypes[i]>> \in excused

\* Discovery takes nobody out of a list: only the people who save or delete it do, and
\* discovery only when it writes over a list saved after it had read it.
OnlyPeopleTakeOut ==
    [][\A s \in Schedules :
          \/ schedules[s].list \subseteq schedules'[s].list
          \/ hands' # hands
          \/ s \in task.overtaken]_rvars

\* Who calls an approved gateway gets into the table, unless the gateway forgets the call
\* first: it is restarted, its port is changed, or it is not approved any more.
Registered ==
    \A g \in Gateways, serial \in Serials :
        g \in Approved /\ serial \in Heard(g)
        ~> serial \in SerialsOf(meters) \/ serial \notin Heard(g) \/ g \notin Approved

\* The registry shows the ports an approved gateway listens on: what a late heartbeat, a
\* lost answer or a change of port leaves wrong is put right.
PortsCatchUp ==
    \A g \in Gateways :
        g \in Approved ~> g \notin Approved \/ gateways[g].shown = process[g].ports
=============================================================================
