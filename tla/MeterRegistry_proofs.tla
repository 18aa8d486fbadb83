------------------------ MODULE MeterRegistry_proofs ------------------------
(***************************************************************************)
(* Proofs about MeterRegistry: rows stay unique, discovery leaves nobody   *)
(* out of the lists and takes nobody out of them; for any number of        *)
(* gateways, meters, schedules, people and faults.                         *)
(***************************************************************************)
EXTENDS MeterRegistry, FiniteSetTheorems, TLAPS

\* What the rest of the Backend does to the registry: it uses up acts and faults.
Elsewhere ==
    /\ UNCHANGED <<gatewayVars, tableVars, task, beat, excused>>
    /\ hands' \in Hands /\ faults' \in Nat

Step == Next \/ Elsewhere

-----------------------------------------------------------------------------
(* Types *)

\* An idle task, and one that asks, are tasks.
LEMMA OnwardTypes ==
  /\ NoTask \in Task
  /\ \A queue \in SUBSET Gateways : Onward(queue) \in Task
  <1>1. NoTask \in Task
    BY DEF NoTask, Task
  <1>2. \A queue \in SUBSET Gateways : [NoTask EXCEPT !.step = "asking", !.queue = queue] \in Task
    BY <1>1 DEF Task
  <1>3. QED
    BY <1>1, <1>2 DEF Onward

\* A task that is idle or asks has nothing in hand.
LEMMA OnwardRests ==
  \A q : /\ Onward(q).step \in {"idle", "asking"} /\ Onward(q).rows = {} /\ Onward(q).todo = <<>>
         /\ Onward(q).chosen = NoSchedule /\ Onward(q).locked = {} /\ Onward(q).entered = {}
  BY DEF Onward, NoTask

LEMMA NoTaskRests ==
  /\ NoTask.step = "idle" /\ NoTask.rows = {} /\ NoTask.todo = <<>>
  /\ NoTask.chosen = NoSchedule /\ NoTask.locked = {} /\ NoTask.entered = {}
  BY DEF NoTask

\* The entries of newcomers that have ids are ids with a kind.
LEMMA EntriesTypes ==
  ASSUME NEW from \in Nat \ {0}, NEW n \in Nat, from + n <= MaxId + 1
  PROVE  /\ Entries(from, n) \in Seq(Ids \X Types)
         /\ \A m \in from .. (from + n - 1), t \in {CatchallTypes[i] : i \in DOMAIN CatchallTypes} :
               \E j \in 1 .. Len(Entries(from, n)) : Entries(from, n)[j] = <<m, t>>
  <1> USE RegistryAssumption
  <1>1. ASSUME NEW i \in 1 .. 2 * n
        PROVE  /\ from + ((i - 1) \div 2) \in Ids
               /\ CatchallTypes[((i - 1) % 2) + 1] \in Types
    <2>1. (i - 1) \div 2 >= 0 /\ (i - 1) \div 2 <= n - 1 /\ (i - 1) \div 2 \in Int
      OBVIOUS
    <2>2. ((i - 1) % 2) + 1 \in {1, 2}
      OBVIOUS
    <2>3. QED
      BY <2>1, <2>2 DEF Ids, CatchallTypes, Types
  <1>2. Entries(from, n) \in [1 .. 2 * n -> Ids \X Types]
    BY <1>1 DEF Entries
  <1>3. Entries(from, n) \in Seq(Ids \X Types) /\ Len(Entries(from, n)) = 2 * n
    BY <1>2
  <1>4. ASSUME NEW m \in from .. (from + n - 1), NEW k \in {1, 2}
        PROVE  \E j \in 1 .. 2 * n : Entries(from, n)[j] = <<m, CatchallTypes[k]>>
    <2> DEFINE j == 2 * (m - from) + k
    <2>1. j \in 1 .. 2 * n
      OBVIOUS
    <2>2. (j - 1) \div 2 = m - from /\ ((j - 1) % 2) + 1 = k
      OBVIOUS
    <2>3. Entries(from, n)[j] = <<from + ((j - 1) \div 2), CatchallTypes[((j - 1) % 2) + 1]>>
      BY <2>1 DEF Entries
    <2>4. QED
      BY <2>1, <2>2, <2>3
  <1>5. DOMAIN CatchallTypes = {1, 2}
    BY DEF CatchallTypes
  <1>6. QED
    BY <1>3, <1>4, <1>5

\* The row of a newcomer, and a schedule with another list or another switch.
LEMMA RowTypes ==
  /\ \A i \in Ids, s \in Serials, g \in Gateways, status \in {"INSTALLED", "ACTIVE"}, on, found \in BOOLEAN :
       [id |-> i, serial |-> s, status |-> status, active |-> on, gateway |-> g, found |-> found] \in Row
  /\ \A s \in Schedule, list \in SUBSET Ids : [s EXCEPT !.list = list] \in Schedule
  /\ \A s \in Schedule : [s EXCEPT !.enabled = ~@] \in Schedule
  <1>1. \A i \in Ids, s \in Serials, g \in Gateways, status \in {"INSTALLED", "ACTIVE"}, on, found \in BOOLEAN :
       [id |-> i, serial |-> s, status |-> status, active |-> on, gateway |-> g, found |-> found] \in Row
    BY DEF Row
  <1>2. \A s \in Schedule, list \in SUBSET Ids : [s EXCEPT !.list = list] \in Schedule
    BY DEF Schedule
  <1>3. \A s \in Schedule : [s EXCEPT !.enabled = ~@] \in Schedule
    BY DEF Schedule
  <1>4. QED
    BY <1>1, <1>2, <1>3

\* A task that has written a list.
LEMMA WrittenTypes ==
  ASSUME NEW t \in Task, NEW todo \in Seq(Ids \X Types), NEW locked \in SUBSET Schedules,
         NEW written \in [Schedules -> SUBSET Ids],
         NEW entered \in SUBSET ((Ids \X Types) \X (Schedules \cup {NoSchedule}))
  PROVE  [t EXCEPT !.todo = todo, !.chosen = NoSchedule, !.read = {}, !.locked = locked,
                   !.written = written, !.entered = entered] \in Task
  BY DEF Task

\* Each step of discovery leaves its task a task.
LEMMA DiscoveryTypes == RegistryTypeOK /\ Discovery => RegistryTypeOK'
  <1> SUFFICES ASSUME RegistryTypeOK, Discovery PROVE RegistryTypeOK'
    OBVIOUS
  <1> USE RegistryAssumption, OnwardTypes, OnwardRests, NoTaskRests DEF rvars, gatewayVars, tableVars
  <1>0. task \in Task
    BY DEF RegistryTypeOK
  <1>1. CASE TickBegins
    <2>1. task' \in Task
      BY <1>1 DEF TickBegins, Approved
    <2>2. QED
      BY <1>1, <2>1 DEF TickBegins, RegistryTypeOK
  <1>2. ASSUME NEW g \in Gateways, AskGateway(g) PROVE RegistryTypeOK'
    <2>1. Heard(g) \ SerialsOf(meters) \subseteq Serials
      BY DEF RegistryTypeOK, Heard
    <2>2. task.queue \ {g} \subseteq Gateways
      BY <1>0 DEF Task
    <2>3. task' \in Task
      BY ZenonT(90), <1>0, <1>2, <2>1, <2>2 DEF AskGateway, Task
    <2>4. /\ task'.step = "looked" => task'.gateway \in Gateways
          /\ task'.chosen = NoSchedule \/ (task'.chosen = task.chosen /\ task.step = "asking")
      BY <1>0, <1>2 DEF AskGateway, Task
    <2>5. QED
      BY <1>2, <2>3, <2>4 DEF AskGateway, RegistryTypeOK
  <1>3. CASE InsertMeters
    <2> DEFINE n == Cardinality(task.new)
    <2>1. n \in Nat /\ lastId \in 0 .. MaxId
      BY <1>0, FS_Subset, FS_CardinalityType DEF Task, RegistryTypeOK
    <2>2. CASE task.new \cap SerialsOf(meters) # {}
      BY <1>3, <2>2 DEF InsertMeters, RegistryTypeOK
    <2>3. ASSUME task.new \cap SerialsOf(meters) = {}, lastId + n <= MaxId, lastId' = lastId + n,
                 NEW id \in Injection(task.new, (lastId + 1) .. (lastId + n)),
                 task' = [task EXCEPT !.step = "listing", !.todo = Entries(lastId + 1, n),
                     !.rows = {[id |-> id[s], serial |-> s, status |-> "ACTIVE", active |-> TRUE,
                                gateway |-> task.gateway, found |-> TRUE] : s \in task.new}]
          PROVE  RegistryTypeOK'
      <3>1. lastId' \in 0 .. MaxId
        BY <2>1, <2>3
      <3>2. Entries(lastId + 1, n) \in Seq(Ids \X Types)
        <4>1. lastId + 1 \in Nat \ {0} /\ (lastId + 1) + n <= MaxId + 1
          BY <2>1, <2>3
        <4>2. QED
          BY <2>1, <4>1, EntriesTypes
      <3>3. id \in [task.new -> Ids]
        BY <2>1, <2>3 DEF Injection, Ids
      <3>4. task.new \subseteq Serials /\ task.gateway \in Gateways
        BY <1>0, <1>3 DEF Task, InsertMeters, RegistryTypeOK
      <3>5. {[id |-> id[s], serial |-> s, status |-> "ACTIVE", active |-> TRUE,
              gateway |-> task.gateway, found |-> TRUE] : s \in task.new} \subseteq Row
        <4> SUFFICES ASSUME NEW s \in task.new
                     PROVE  [id |-> id[s], serial |-> s, status |-> "ACTIVE", active |-> TRUE,
                             gateway |-> task.gateway, found |-> TRUE] \in Row
          OBVIOUS
        <4>1. id[s] \in Ids /\ s \in Serials /\ task.gateway \in Gateways
          BY <3>3, <3>4
        <4>2. QED
          BY <4>1 DEF Row
      <3>6. task' \in Task
        BY ZenonT(90), <1>0, <2>3, <3>2, <3>5 DEF Task
      <3>7. task'.step = "listing" /\ task'.chosen = task.chosen /\ task.step = "looked"
        BY <1>0, <1>3, <2>3 DEF Task, InsertMeters
      <3>8. QED
        BY <1>3, <3>1, <3>6, <3>7 DEF InsertMeters, RegistryTypeOK
    <2>4. QED
      BY <1>3, <2>2, <2>3 DEF InsertMeters
  <1>4. CASE ChooseList
    <2>1. task.todo # <<>> /\ task.todo \in Seq(Ids \X Types)
      BY <1>0, <1>4 DEF Task, ChooseList
    <2>2. Head(task.todo) \in Ids \X Types /\ Tail(task.todo) \in Seq(Ids \X Types)
      BY <2>1
    <2>3. \A s \in Schedules : View(s) \subseteq Ids
      BY <1>0 DEF View, Task, RegistryTypeOK, Schedule
    <2>4. \A t : Longest(t) \subseteq Schedules
      BY DEF Longest, OfType
    <2>5. task' \in Task
      <3> DEFINE t == Head(task.todo)[2]
      <3>1. CASE task' = [task EXCEPT !.todo = Tail(@),
                            !.entered = @ \cup {<<Head(task.todo), NoSchedule>>}]
        <4>1. <<Head(task.todo), NoSchedule>> \in (Ids \X Types) \X (Schedules \cup {NoSchedule})
          BY <2>2
        <4>2. QED
          BY ZenonT(90), <1>0, <2>2, <3>1, <4>1 DEF Task
      <3>2. ASSUME NEW s \in Longest(t), task' = [task EXCEPT !.chosen = s, !.read = View(s)]
            PROVE  task' \in Task
        BY ZenonT(90), <1>0, <2>3, <2>4, <3>2 DEF Task
      <3>3. QED
        BY <1>4, <3>1, <3>2 DEF ChooseList
    <2>6. /\ task'.step = "listing"
          /\ task'.chosen = NoSchedule \/ task'.todo = task.todo
      BY ZenonT(90), <1>0, <1>4 DEF ChooseList, Task
    <2>7. QED
      BY <1>4, <2>1, <2>5, <2>6 DEF ChooseList, RegistryTypeOK
  <1>5. CASE WriteList
    <2>1. task.chosen \in Schedules /\ task.todo # <<>>
      BY <1>0, <1>5 DEF Task, WriteList, RegistryTypeOK
    <2>2. Head(task.todo) \in Ids \X Types /\ Tail(task.todo) \in Seq(Ids \X Types)
      BY <1>0, <2>1 DEF Task
    <2>3. Head(task.todo)[1] \in Ids
          /\ <<Head(task.todo), task.chosen>> \in (Ids \X Types) \X (Schedules \cup {NoSchedule})
      BY <2>1, <2>2
    <2>4. task' \in Task
      <3>1. [task.written EXCEPT ![task.chosen] = task.read \cup {Head(task.todo)[1]}]
              \in [Schedules -> SUBSET Ids]
        BY ZenonT(90), <1>0, <2>3 DEF Task
      <3>2. task.entered \cup {<<Head(task.todo), task.chosen>>}
              \subseteq (Ids \X Types) \X (Schedules \cup {NoSchedule})
        BY <1>0, <2>3 DEF Task
      <3>3. ASSUME Exists(task.chosen) PROVE task' \in Task
        <4>1. task' = [task EXCEPT !.todo = Tail(task.todo), !.chosen = NoSchedule, !.read = {},
                         !.locked = task.locked \cup {task.chosen},
                         !.written = [task.written EXCEPT
                                        ![task.chosen] = task.read \cup {Head(task.todo)[1]}],
                         !.entered = task.entered \cup {<<Head(task.todo), task.chosen>>}]
          BY <1>0, <1>5, <3>3 DEF WriteList, Task
        <4>2. task.locked \cup {task.chosen} \subseteq Schedules
          BY <1>0, <2>1 DEF Task
        <4>3. QED
          BY <1>0, <2>2, <3>1, <3>2, <4>1, <4>2, WrittenTypes
      <3>4. QED
        BY <1>5, <3>3 DEF WriteList
    <2>5. task'.step # "looked" /\ task'.chosen = NoSchedule
      BY <1>0, <1>5 DEF WriteList, Task, RegistryTypeOK
    <2>6. QED
      BY <1>5, <2>4, <2>5 DEF WriteList, RegistryTypeOK
  <1>6. CASE CommitMeters
    <2>1. task' \in Task
      BY <1>0, <1>6 DEF CommitMeters, Task
    <2>2. meters' \subseteq Row
      BY <1>0, <1>6 DEF CommitMeters, Task, RegistryTypeOK
    <2>3. schedules' \in [Schedules -> Schedule]
      BY <1>0, <1>6, RowTypes DEF CommitMeters, Task, RegistryTypeOK
    <2>4. excused' \subseteq Ids \X Types
      BY <1>0, <1>6 DEF CommitMeters, Task, RegistryTypeOK
    <2>5. QED
      BY <1>6, <2>1, <2>2, <2>3, <2>4 DEF CommitMeters, RegistryTypeOK
  <1>7. QED
    BY <1>1, <1>2, <1>3, <1>4, <1>5, <1>6 DEF Discovery

\* The heartbeat writes what it was answered.
LEMMA HeartbeatTypes == RegistryTypeOK /\ Heartbeat => RegistryTypeOK'
  <1> SUFFICES ASSUME RegistryTypeOK, Heartbeat PROVE RegistryTypeOK'
    OBVIOUS
  <1> USE DEF rvars, gatewayVars, tableVars
  <1>1. CASE BeatBegins
    BY <1>1 DEF BeatBegins, Approved, RegistryTypeOK
  <1>2. ASSUME NEW g \in Gateways, CheckHealth(g) PROVE RegistryTypeOK'
    <2>1. <<g, process[g].ports>> \in Gateways \X Listening
      BY DEF RegistryTypeOK
    <2>2. beat' \in [on : BOOLEAN, queue : SUBSET Gateways,
                     answers : SUBSET (Gateways \X Listening)]
      BY <1>2, <2>1 DEF CheckHealth, RegistryTypeOK
    <2>3. QED
      BY <1>2, <2>2 DEF CheckHealth, RegistryTypeOK
  <1>3. CASE BeatCommits
    <2>1. ASSUME NEW g \in Gateways, \E a \in beat.answers : a[1] = g
          PROVE  (CHOOSE a \in beat.answers : a[1] = g)[2] \in Listening
      <3>1. (CHOOSE a \in beat.answers : a[1] = g) \in beat.answers
        BY <2>1
      <3>2. beat.answers \subseteq Gateways \X Listening
        BY DEF RegistryTypeOK
      <3>3. QED
        BY <3>1, <3>2
    <2>2. ASSUME NEW g \in Gateways, NEW shown \in Listening \cup {NoPorts}
          PROVE  [gateways[g] EXCEPT !.shown = shown] \in
                   [status : {"none", "PENDING", "APPROVED", "DISABLED"},
                    shown : Listening \cup {NoPorts}]
      BY DEF RegistryTypeOK
    <2>3. gateways' \in [Gateways -> [status : {"none", "PENDING", "APPROVED", "DISABLED"},
                                      shown : Listening \cup {NoPorts}]]
      BY <1>3, <2>1, <2>2 DEF BeatCommits, RegistryTypeOK
    <2>4. beat' \in [on : BOOLEAN, queue : SUBSET Gateways,
                     answers : SUBSET (Gateways \X Listening)]
      BY <1>3 DEF BeatCommits, NoBeat
    <2>5. QED
      BY <1>3, <2>3, <2>4 DEF BeatCommits, RegistryTypeOK
  <1>4. QED
    BY <1>1, <1>2, <1>3 DEF Heartbeat

\* An act of a person is taken from those that are left.
LEMMA HandsTypes ==
  ASSUME RegistryTypeOK, NEW kind, ByHand(kind)
  PROVE  hands' \in Hands /\ hands' # hands
  <1>1. hands.left \in Nat /\ hands.left > 0 /\ hands' = [hands EXCEPT !.left = hands.left - 1]
    BY DEF RegistryTypeOK, Hands, ByHand
  <1>2. hands.left - 1 \in Nat /\ hands'.left = hands.left - 1
    BY <1>1 DEF RegistryTypeOK, Hands
  <1>3. QED
    BY <1>1, <1>2 DEF RegistryTypeOK, Hands

\* What people do to gateways, meters and schedules.
LEMMA PeopleTypes == RegistryTypeOK /\ People => RegistryTypeOK'
  <1> SUFFICES ASSUME RegistryTypeOK, People PROVE RegistryTypeOK'
    OBVIOUS
  <1> USE RegistryAssumption DEF rvars, gatewayVars, tableVars
  <1>0. \A kind : ByHand(kind) => hands' \in Hands
    BY HandsTypes
  <1>1. ASSUME NEW g \in Gateways, NEW status \in {"PENDING", "APPROVED", "DISABLED"},
               SetStatus(g, status)
        PROVE  RegistryTypeOK'
    <2>1. gateways' \in [Gateways -> [status : {"none", "PENDING", "APPROVED", "DISABLED"},
                                      shown : Listening \cup {NoPorts}]]
      BY <1>1 DEF SetStatus, RegistryTypeOK
    <2>2. QED
      BY <1>0, <1>1, <2>1 DEF SetStatus, RegistryTypeOK
  <1>2. ASSUME NEW g \in Gateways, NEW p \in Ports, ChangePort(g, p) PROVE RegistryTypeOK'
    <2>1. [ports |-> [main |-> p, extra |-> {}], heard |-> {}]
            \in [ports : Listening, heard : SUBSET Serials]
      BY DEF Listening
    <2>2. QED
      BY <1>0, <1>2, <2>1 DEF ChangePort, RegistryTypeOK
  <1>3. ASSUME NEW g \in Gateways, NEW p \in Ports, NotePort(g, p) PROVE RegistryTypeOK'
    <2>1. (IF gateways[g].shown = NoPorts THEN [main |-> p, extra |-> {}]
           ELSE [gateways[g].shown EXCEPT !.main = p]) \in Listening
      <3>1. gateways[g].shown \in Listening \cup {NoPorts}
        BY DEF RegistryTypeOK
      <3>2. \A l \in Listening : [l EXCEPT !.main = p] \in Listening
        BY DEF Listening
      <3>3. [main |-> p, extra |-> {}] \in Listening
        BY DEF Listening
      <3>4. QED
        BY <3>1, <3>2, <3>3
    <2>2. ASSUME NEW shown \in Listening
          PROVE  [gateways[g] EXCEPT !.shown = shown] \in
                   [status : {"none", "PENDING", "APPROVED", "DISABLED"},
                    shown : Listening \cup {NoPorts}]
      BY DEF RegistryTypeOK
    <2>3. gateways' \in [Gateways -> [status : {"none", "PENDING", "APPROVED", "DISABLED"},
                                      shown : Listening \cup {NoPorts}]]
      BY <1>3, <2>1, <2>2 DEF NotePort, RegistryTypeOK
    <2>4. QED
      BY <1>3, <2>3 DEF NotePort, RegistryTypeOK
  <1>4. ASSUME NEW g \in Gateways, NEW serial \in Serials, CreateMeter(g, serial)
        PROVE  RegistryTypeOK'
    <2>1. lastId + 1 \in Ids /\ lastId' \in 0 .. MaxId
      BY <1>4 DEF CreateMeter, RegistryTypeOK, Ids
    <2>2. [id |-> lastId + 1, serial |-> serial, status |-> "ACTIVE", active |-> TRUE,
           gateway |-> g, found |-> FALSE] \in Row
      BY <2>1, RowTypes
    <2>3. QED
      BY <1>0, <1>4, <2>1, <2>2 DEF CreateMeter, RegistryTypeOK
  <1>5. ASSUME NEW r \in meters, NEW q \in Row, ReplaceMeter(r, q) PROVE RegistryTypeOK'
    BY <1>0, <1>5 DEF ReplaceMeter, RegistryTypeOK
  <1>6. ASSUME NEW r \in meters, ActivateMeter(r) \/ SwitchMeter(r) PROVE RegistryTypeOK'
    <2>1. r \in Row
      BY DEF RegistryTypeOK
    <2>2. [r EXCEPT !.status = "ACTIVE", !.active = TRUE] \in Row /\ [r EXCEPT !.active = ~@] \in Row
      BY <2>1 DEF Row
    <2>3. QED
      BY <1>5, <1>6, <2>2 DEF ActivateMeter, SwitchMeter
  <1>7. ASSUME NEW r \in meters, NEW serial \in Serials, RenameMeter(r, serial)
        PROVE  RegistryTypeOK'
    <2>1. [r EXCEPT !.serial = serial] \in Row
      BY ZenonT(90) DEF RegistryTypeOK, Row
    <2>2. QED
      BY <1>5, <1>7, <2>1 DEF RenameMeter
  <1>8. ASSUME NEW r \in meters, DeleteMeter(r) PROVE RegistryTypeOK'
    BY <1>0, <1>8 DEF DeleteMeter, RegistryTypeOK
  <1>9. ASSUME NEW r \in meters, OrderJob(r) PROVE RegistryTypeOK'
    <2>1. r.id \in Ids
      BY DEF RegistryTypeOK, Row
    <2>2. QED
      BY <1>0, <1>9, <2>1 DEF OrderJob, Refer, RegistryTypeOK
  <1>10. ASSUME NEW s \in Schedules, NEW row \in Schedule, WriteSchedule(s, row),
                task' \in Task, task'.step = task.step, task'.gateway = task.gateway,
                task'.chosen = task.chosen, task'.todo = task.todo,
                excused' \subseteq Ids \X Types
         PROVE  RegistryTypeOK'
    BY <1>0, <1>10 DEF WriteSchedule, RegistryTypeOK
  <1>11. \A s \in Schedules, ids \in SUBSET Ids :
            AnswerFor(s, ids) => excused' \subseteq Ids \X Types
    BY DEF AnswerFor, RegistryTypeOK
  <1>12. ASSUME NEW s \in Schedules PROVE schedules[s] \in Schedule /\ schedules[s].list \subseteq Ids
    BY DEF RegistryTypeOK, Schedule
  <1>13. ASSUME NEW s \in Schedules, ToggleSchedule(s) PROVE RegistryTypeOK'
    <2>1. [schedules[s] EXCEPT !.enabled = ~@] \in Schedule
      BY <1>12, RowTypes
    <2>2. excused' \subseteq Ids \X Types
      BY <1>11, <1>12, <1>13 DEF ToggleSchedule
    <2>3. QED
      BY <1>10, <1>13, <2>1, <2>2 DEF ToggleSchedule, RegistryTypeOK
  <1>14. ASSUME NEW s \in Schedules, DeleteSchedule(s) PROVE RegistryTypeOK'
    <2>1. [row |-> "deleted", enabled |-> FALSE, list |-> {}] \in Schedule
      BY DEF Schedule
    <2>2. excused' \subseteq Ids \X Types
      BY <1>11, <1>12, <1>14 DEF DeleteSchedule
    <2>3. QED
      BY <1>10, <1>14, <2>1, <2>2 DEF DeleteSchedule, RegistryTypeOK
  <1>15. ASSUME NEW s \in Schedules, NEW list \in ValidLists PROVE list \subseteq Ids
    BY DEF ValidLists, IdsOf, RegistryTypeOK, Row
  <1>16. ASSUME NEW s \in Schedules, NEW list \in ValidLists, SaveList(s, list)
         PROVE  RegistryTypeOK'
    <2>1. [schedules[s] EXCEPT !.list = list] \in Schedule
      BY <1>12, <1>15, RowTypes
    <2>2. excused' \subseteq Ids \X Types
      BY <1>11, <1>12, <1>16 DEF SaveList
    <2>3. /\ task' \in Task /\ task'.step = task.step /\ task'.gateway = task.gateway
          /\ task'.chosen = task.chosen /\ task'.todo = task.todo
      BY <1>16 DEF SaveList, RegistryTypeOK, Task
    <2>4. QED
      BY <1>10, <1>16, <2>1, <2>2, <2>3 DEF SaveList
  <1>17. ASSUME NEW s \in Schedules, NEW list \in ValidLists, NEW enabled \in BOOLEAN,
                CreateSchedule(s, list, enabled)
         PROVE  RegistryTypeOK'
    <2>1. [row |-> "there", enabled |-> enabled, list |-> list] \in Schedule
      BY <1>15 DEF Schedule
    <2>2. QED
      BY <1>10, <1>17, <2>1 DEF CreateSchedule, RegistryTypeOK
  <1>18. QED
    BY <1>1, <1>2, <1>3, <1>4, <1>6, <1>7, <1>8, <1>9, <1>13, <1>14, <1>16, <1>17
       DEF People, RegisterGateway, ApproveGateway, DisableGateway

\* Mishaps, calls and triggers, and what goes on elsewhere.
LEMMA OtherTypes ==
  ASSUME RegistryTypeOK,
         \/ Mishap \/ RestartBackend \/ Elsewhere
         \/ \E s \in Schedules : Trigger(s)
         \/ \E g \in Gateways, serial \in Serials : Hear(g, serial)
  PROVE  RegistryTypeOK'
  <1> USE RegistryAssumption, OnwardTypes, OnwardRests, NoTaskRests DEF rvars, gatewayVars, tableVars
  <1>0. ASSUME faults > 0, faults' = faults - 1 PROVE faults' \in Nat
    BY <1>0 DEF RegistryTypeOK
  <1>1. ASSUME NEW g \in Gateways, Unreachable(g) PROVE RegistryTypeOK'
    <2>1. task' \in Task
      BY <1>1 DEF Unreachable, RegistryTypeOK, Task
    <2>2. QED
      BY <1>0, <1>1, <2>1 DEF Unreachable, RegistryTypeOK
  <1>2. ASSUME NEW g \in Gateways, NoHealth(g) PROVE RegistryTypeOK'
    BY <1>0, <1>2 DEF NoHealth, RegistryTypeOK
  <1>3. ASSUME NEW g \in Gateways, RestartGateway(g) PROVE RegistryTypeOK'
    <2>1. [ports |-> Boot[g], heard |-> {}] \in [ports : Listening, heard : SUBSET Serials]
      OBVIOUS
    <2>2. QED
      BY <1>0, <1>3, <2>1 DEF RestartGateway, RegistryTypeOK
  <1>4. ASSUME NEW g \in Gateways, NEW p \in Ports, LoseAnswer(g, p) PROVE RegistryTypeOK'
    BY <1>0, <1>4 DEF LoseAnswer, RegistryTypeOK
  <1>5. CASE BreakDiscovery
    BY <1>0, <1>5 DEF BreakDiscovery, RegistryTypeOK
  <1>6. CASE RestartBackend
    <2>1. NoBeat \in [on : BOOLEAN, queue : SUBSET Gateways, answers : SUBSET (Gateways \X Listening)]
      BY DEF NoBeat
    <2>2. QED
      BY <1>0, <1>6, <2>1 DEF RestartBackend, RegistryTypeOK
  <1>7. CASE Elsewhere
    BY <1>7 DEF Elsewhere, RegistryTypeOK
  <1>8. ASSUME NEW s \in Schedules, Trigger(s) PROVE RegistryTypeOK'
    <2>1. GroupOf(s) \subseteq Ids
      BY DEF GroupOf, RegistryTypeOK, Row
    <2>2. QED
      BY <1>8, <2>1 DEF Trigger, Refer, RegistryTypeOK
  <1>9. ASSUME NEW g \in Gateways, NEW serial \in Serials, Hear(g, serial) PROVE RegistryTypeOK'
    <2>1. [process[g] EXCEPT !.heard = @ \cup {serial}] \in [ports : Listening, heard : SUBSET Serials]
      BY DEF RegistryTypeOK
    <2>2. QED
      BY <1>9, <2>1 DEF Hear, RegistryTypeOK
  <1>10. QED
    BY <1>1, <1>2, <1>3, <1>4, <1>5, <1>6, <1>7, <1>8, <1>9 DEF Mishap

\* The type invariant is kept by every step of the registry.
LEMMA TypeStep == RegistryTypeOK /\ [Step]_rvars => RegistryTypeOK'
  <1> SUFFICES ASSUME RegistryTypeOK, [Step]_rvars PROVE RegistryTypeOK'
    OBVIOUS
  <1>1. CASE UNCHANGED rvars
    BY <1>1 DEF rvars, gatewayVars, tableVars, RegistryTypeOK
  <1>2. CASE Step
    BY <1>2, DiscoveryTypes, HeartbeatTypes, PeopleTypes, OtherTypes DEF Step, Next, Registering
  <1>3. QED
    BY <1>1, <1>2

\* The registry begins well-typed.
LEMMA TypeInit == ASSUME NEW o \in Origins, InitFrom(o) PROVE RegistryTypeOK
  <1> USE RegistryAssumption, OnwardTypes, NoTaskRests
  <1>1. o \in Origin
    BY OriginsAssumption
  <1>2. [g \in Gateways |-> IF g \in o.approved THEN [status |-> "APPROVED", shown |-> Boot[g]]
                                               ELSE [status |-> "none", shown |-> NoPorts]]
          \in [Gateways -> [status : {"none", "PENDING", "APPROVED", "DISABLED"},
                            shown : Listening \cup {NoPorts}]]
    OBVIOUS
  <1>3. [g \in Gateways |-> [ports |-> Boot[g], heard |-> {}]]
          \in [Gateways -> [ports : Listening, heard : SUBSET Serials]]
    OBVIOUS
  <1>4. NoBeat \in [on : BOOLEAN, queue : SUBSET Gateways, answers : SUBSET (Gateways \X Listening)]
    BY DEF NoBeat
  <1>5. QED
    BY <1>1, <1>2, <1>3, <1>4 DEF InitFrom, Origin, RegistryTypeOK

\* Whatever discovery, heartbeat and people do, every table holds rows of its kind,
\* and ids stay below the bound of their sequence.
THEOREM RegistryTypeCorrect == Spec => []RegistryTypeOK
  <1>1. Init => RegistryTypeOK
    BY TypeInit DEF Init
  <1>2. RegistryTypeOK /\ [Next]_rvars => RegistryTypeOK'
    BY TypeStep DEF Step
  <1>3. QED
    BY <1>1, <1>2, PTL DEF Spec

-----------------------------------------------------------------------------
(* Rows *)

\* Rows are apart, in the table and with those discovery is about to add; no id is above
\* the last one given.
RowsApart ==
    /\ OneRowPerSerial
    /\ \A r, q \in task.rows : r.id = q.id \/ r.serial = q.serial => r = q
    /\ \A r \in task.rows, q \in meters : r.id # q.id /\ r.serial # q.serial
    /\ \A r \in meters \cup task.rows : r.id <= lastId

-----------------------------------------------------------------------------
(* Lists *)

Catchall == {CatchallTypes[i] : i \in DOMAIN CatchallTypes}

\* A list of the kind has the meter, and keeps it when the tick that has read or written
\* the list commits.
Home(m, t) ==
    \E s \in Schedules :
        /\ Exists(s) /\ schedules[s].enabled /\ TypeOf[s] = t /\ m \in schedules[s].list
        /\ s \in task.locked => m \in task.written[s]
        /\ task.chosen = s => m \in task.read

HomesKept ==
    \A r \in meters, t \in Catchall : r.found => Home(r.id, t) \/ <<r.id, t>> \in excused

\* What a tick holds: newcomers that are entered or still to be entered, and the lists it
\* has written, which nobody else can write meanwhile.
Entering ==
    /\ \A r \in task.rows, t \in Catchall :
          \/ \E j \in 1 .. Len(task.todo) : task.todo[j] = <<r.id, t>>
          \/ \E e \in task.entered : e[1] = <<r.id, t>>
    /\ \A e \in task.entered : e[2] # NoSchedule =>
          e[2] \in task.locked /\ e[1][1] \in task.written[e[2]] /\ TypeOf[e[2]] = e[1][2]
    /\ \A s \in task.locked : Exists(s)
    /\ task.chosen # NoSchedule =>
          /\ TypeOf[task.chosen] = Head(task.todo)[2]
          /\ schedules[task.chosen].row # "none"
          /\ task.chosen \in task.locked => task.written[task.chosen] \subseteq task.read
    /\ task.step # "listing" =>
          task.rows = {} /\ task.todo = <<>> /\ task.locked = {} /\ task.entered = {}

\* A list that discovery holds has lost nobody, unless somebody saved it meanwhile.
Kept ==
    /\ \A s \in task.locked \ task.overtaken : schedules[s].list \subseteq task.written[s]
    /\ task.chosen # NoSchedule /\ task.chosen \notin task.locked \cup task.overtaken
       => schedules[task.chosen].list \subseteq task.read

\* What discovery and the API share.
Shared == <<meters, lastId, task, schedules, excused>>

\* A task with nothing in hand.
Resting(t) ==
    t.rows = {} /\ t.todo = <<>> /\ t.chosen = NoSchedule /\ t.locked = {} /\ t.entered = {}

\* Most steps leave what is shared alone, or let go of a task, or take a meter's row as it
\* is for that of the meter it was; the others are named.
LEMMA StepKinds ==
  ASSUME RegistryTypeOK, Entering, Step
  PROVE  \/ UNCHANGED Shared
         \/ UNCHANGED <<meters, lastId, schedules, excused>> /\ Resting(task')
         \/ InsertMeters /\ task.new \cap SerialsOf(meters) = {}
         \/ ChooseList
         \/ WriteList /\ Exists(task.chosen)
         \/ CommitMeters
         \/ \E g \in Gateways, serial \in Serials : CreateMeter(g, serial)
         \/ \E r \in meters : ActivateMeter(r) \/ SwitchMeter(r) \/ DeleteMeter(r)
         \/ \E r \in meters, serial \in Serials : RenameMeter(r, serial)
         \/ \E s \in Schedules : ToggleSchedule(s) \/ DeleteSchedule(s)
         \/ \E s \in Schedules, list \in ValidLists : SaveList(s, list)
         \/ \E s \in Schedules, list \in ValidLists, on \in BOOLEAN : CreateSchedule(s, list, on)
  <1> USE OnwardRests, NoTaskRests DEF Shared, rvars, gatewayVars, tableVars
  <1>0. task \in Task
    BY DEF RegistryTypeOK
  <1>1. CASE TickBegins
    BY <1>1 DEF TickBegins, Resting
  <1>2. ASSUME NEW g \in Gateways, AskGateway(g)
        PROVE  UNCHANGED <<meters, lastId, schedules, excused>> /\ Resting(task')
    <2>1. task.step # "listing" /\ Resting(task)
      BY <1>2 DEF AskGateway, Entering, Resting, RegistryTypeOK
    <2>2. QED
      BY <1>0, <1>2, <2>1 DEF AskGateway, Resting, Task
  <1>3. ASSUME InsertMeters
        PROVE  \/ UNCHANGED <<meters, lastId, schedules, excused>> /\ Resting(task')
               \/ InsertMeters /\ task.new \cap SerialsOf(meters) = {}
    BY <1>3 DEF InsertMeters, Resting
  <1>4. CASE WriteList
    BY <1>4 DEF WriteList, Resting
  <1>5. CASE Heartbeat
    BY <1>5 DEF Heartbeat, BeatBegins, CheckHealth, BeatCommits
  <1>6. ASSUME NEW g \in Gateways, RegisterGateway(g) \/ ApproveGateway(g) \/ DisableGateway(g)
        PROVE  UNCHANGED Shared
    BY <1>6 DEF RegisterGateway, ApproveGateway, DisableGateway, SetStatus
  <1>7. ASSUME NEW g \in Gateways, NEW p \in Ports, ChangePort(g, p) \/ NotePort(g, p)
        PROVE  UNCHANGED Shared
    BY <1>7 DEF ChangePort, NotePort
  <1>8. ASSUME NEW r \in meters, OrderJob(r) PROVE UNCHANGED Shared
    BY <1>8 DEF OrderJob, Refer
  <1>9. CASE Mishap
    BY <1>9 DEF Mishap, Unreachable, NoHealth, RestartGateway, LoseAnswer, BreakDiscovery, Resting
  <1>10. ASSUME NEW s \in Schedules, Trigger(s) PROVE UNCHANGED Shared
    BY <1>10 DEF Trigger, Refer
  <1>11. ASSUME NEW g \in Gateways, NEW serial \in Serials, Hear(g, serial) PROVE UNCHANGED Shared
    BY <1>11 DEF Hear
  <1>12. CASE RestartBackend
    BY <1>12 DEF RestartBackend, Resting
  <1>13. CASE Elsewhere
    BY <1>13 DEF Elsewhere
  <1>14. CASE Discovery
    BY <1>1, <1>2, <1>3, <1>4, <1>14 DEF Discovery
  <1>15. CASE People
    BY <1>6, <1>7, <1>8, <1>15 DEF People
  <1>16. QED
    BY <1>5, <1>9, <1>10, <1>11, <1>12, <1>13, <1>14, <1>15 DEF Step, Next, Registering

-----------------------------------------------------------------------------
(* Rows, continued *)

\* Rows stay apart when none is added.
LEMMA RowsShrink ==
  ASSUME RowsApart, meters' \subseteq meters, lastId' = lastId, task'.rows \subseteq task.rows
  PROVE  RowsApart'
  BY DEF RowsApart, OneRowPerSerial

\* Rows stay apart when one gives way to another that has its id, and its serial number or
\* a free one.
LEMMA RowsReplaced ==
  ASSUME RowsApart, NEW r \in meters, NEW q, q.id = r.id, q.serial = r.serial \/ Free(q.serial),
         meters' = (meters \ {r}) \cup {q}, lastId' = lastId, task' = task
  PROVE  RowsApart'
  <1>1. \A k \in meters \ {r} : k.id # q.id /\ k.serial # q.serial
    BY DEF RowsApart, OneRowPerSerial, Free, SerialsOf
  <1>2. \A k \in task.rows : k.id # q.id /\ k.serial # q.serial
    BY DEF RowsApart, Free, SerialsOf
  <1>3. q.id <= lastId
    BY DEF RowsApart
  <1>4. QED
    BY <1>1, <1>2, <1>3 DEF RowsApart, OneRowPerSerial

\* Every step keeps rows apart.
LEMMA RowsStep ==
  ASSUME RegistryTypeOK, Entering, RowsApart, [Step]_rvars
  PROVE  RowsApart'
  <1> USE DEF rvars, gatewayVars, tableVars
  <1>0. task \in Task /\ meters \subseteq Row /\ lastId \in 0 .. MaxId
    BY DEF RegistryTypeOK
  <1>1. CASE UNCHANGED Shared \/ UNCHANGED rvars
    BY <1>1, RowsShrink DEF Shared
  <1>2. CASE UNCHANGED <<meters, lastId, schedules, excused>> /\ Resting(task')
    BY <1>2, RowsShrink DEF Resting
  <1>3. CASE InsertMeters /\ task.new \cap SerialsOf(meters) = {}
    <2> DEFINE n == Cardinality(task.new)
    <2>1. n \in Nat
      BY <1>0, RegistryAssumption, FS_Subset, FS_CardinalityType DEF Task
    <2>2. PICK id \in Injection(task.new, (lastId + 1) .. (lastId + n)) :
             task' = [task EXCEPT !.step = "listing", !.todo = Entries(lastId + 1, n),
                !.rows = {[id |-> id[s], serial |-> s, status |-> "ACTIVE", active |-> TRUE,
                           gateway |-> task.gateway, found |-> TRUE] : s \in task.new}]
      BY <1>3 DEF InsertMeters
    <2> DEFINE RowOf(s) == [id |-> id[s], serial |-> s, status |-> "ACTIVE", active |-> TRUE,
                            gateway |-> task.gateway, found |-> TRUE]
    <2>a. task'.rows = {RowOf(s) : s \in task.new}
      BY <1>0, <2>2 DEF Task
    <2>b. \A s \in task.new : RowOf(s).serial = s /\ RowOf(s).id = id[s]
      OBVIOUS
    <2> HIDE DEF RowOf
    <2>3. \A r \in task'.rows : r.serial \in task.new /\ r.id = id[r.serial] /\ r = RowOf(r.serial)
      BY <2>a, <2>b
    <2>4. \A r, q \in task'.rows : r.id = q.id \/ r.serial = q.serial => r = q
      <3>1. \A s, t \in task.new : id[s] = id[t] => s = t
        BY <2>2 DEF Injection, IsInjective
      <3>2. ASSUME NEW r \in task'.rows, NEW q \in task'.rows, r.serial = q.serial PROVE r = q
        BY <2>3, <3>2
      <3>3. QED
        BY <2>3, <3>1, <3>2
    <2>5. \A s \in task.new : lastId < id[s] /\ id[s] <= lastId + n
      BY <1>0, <2>1, <2>2 DEF Injection
    <2>6. \A r \in meters : r.id \in Int /\ r.id <= lastId /\ r.serial \notin task.new
      BY <1>0, <1>3 DEF RowsApart, SerialsOf, Row, Ids
    <2>7. meters' = meters /\ lastId' = lastId + n
      BY <1>3 DEF InsertMeters
    <2>8. \A r \in task'.rows, q \in meters : r.id # q.id /\ r.serial # q.serial
      BY <1>0, <2>3, <2>5, <2>6
    <2>9. \A r \in meters \cup task'.rows : r.id <= lastId'
      BY <1>0, <2>1, <2>3, <2>5, <2>6, <2>7
    <2>10. QED
      BY <2>4, <2>7, <2>8, <2>9 DEF RowsApart, OneRowPerSerial
  <1>4. CASE ChooseList
    <2>1. meters' = meters /\ lastId' = lastId /\ task'.rows = task.rows
      BY <1>0, <1>4 DEF ChooseList, Task
    <2>2. QED
      BY <2>1, RowsShrink
  <1>5. CASE WriteList /\ Exists(task.chosen)
    <2>1. meters' = meters /\ lastId' = lastId /\ task'.rows = task.rows
      BY <1>0, <1>5 DEF WriteList, Task
    <2>2. QED
      BY <2>1, RowsShrink
  <1>6. CASE CommitMeters
    <2>1. meters' = meters \cup task.rows /\ lastId' = lastId /\ task'.rows = {}
      BY <1>6, OnwardRests DEF CommitMeters
    <2>2. QED
      BY <2>1 DEF RowsApart, OneRowPerSerial
  <1>7. ASSUME NEW g \in Gateways, NEW serial \in Serials, CreateMeter(g, serial) PROVE RowsApart'
    <2>1. PICK q \in Row : q.id = lastId + 1 /\ q.serial = serial /\ meters' = meters \cup {q}
      <3>1. lastId + 1 \in Ids
        BY <1>0, <1>7, RegistryAssumption DEF CreateMeter, Ids
      <3>2. [id |-> lastId + 1, serial |-> serial, status |-> "ACTIVE", active |-> TRUE,
             gateway |-> g, found |-> FALSE] \in Row
        BY <3>1, RowTypes
      <3>3. QED
        BY <1>7, <3>2 DEF CreateMeter
    <2>2. \A r \in meters \cup task.rows : r.id \in Int /\ r.id <= lastId /\ r.serial # serial
      BY <1>0, <1>7 DEF CreateMeter, Free, SerialsOf, RowsApart, Row, Ids, Task
    <2>3. lastId' = lastId + 1 /\ task' = task
      BY <1>7 DEF CreateMeter
    <2>4. QED
      BY <1>0, <2>1, <2>2, <2>3 DEF RowsApart, OneRowPerSerial
  <1>8. ASSUME NEW r \in meters, NEW q, q.id = r.id, q.serial = r.serial \/ Free(q.serial),
               ReplaceMeter(r, q)
        PROVE  RowsApart'
    BY <1>8, RowsReplaced DEF ReplaceMeter
  <1>9. ASSUME NEW r \in meters, ActivateMeter(r) \/ SwitchMeter(r) \/ DeleteMeter(r)
        PROVE  RowsApart'
    <2>1. r \in Row
      BY <1>0
    <2>2. /\ [r EXCEPT !.status = "ACTIVE", !.active = TRUE].id = r.id
          /\ [r EXCEPT !.status = "ACTIVE", !.active = TRUE].serial = r.serial
          /\ [r EXCEPT !.active = ~@].id = r.id /\ [r EXCEPT !.active = ~@].serial = r.serial
      BY <2>1 DEF Row
    <2>3. CASE DeleteMeter(r)
      BY <2>3, RowsShrink DEF DeleteMeter
    <2>4. QED
      BY <1>8, <1>9, <2>2, <2>3 DEF ActivateMeter, SwitchMeter
  <1>10. ASSUME NEW r \in meters, NEW serial \in Serials, RenameMeter(r, serial) PROVE RowsApart'
    <2>1. [r EXCEPT !.serial = serial].id = r.id /\ [r EXCEPT !.serial = serial].serial = serial
      BY <1>0 DEF Row
    <2>2. QED
      BY <1>8, <1>10, <2>1 DEF RenameMeter
  <1>11. ASSUME NEW s \in Schedules, ToggleSchedule(s) \/ DeleteSchedule(s) PROVE RowsApart'
    BY <1>11, RowsShrink DEF ToggleSchedule, DeleteSchedule, WriteSchedule
  <1>12. ASSUME NEW s \in Schedules, NEW list \in ValidLists, SaveList(s, list) PROVE RowsApart'
    <2>1. task'.rows = task.rows
      BY <1>0, <1>12 DEF SaveList, Task
    <2>2. QED
      BY <1>12, <2>1, RowsShrink DEF SaveList, WriteSchedule
  <1>13. ASSUME NEW s \in Schedules, NEW list \in ValidLists, NEW on \in BOOLEAN,
                CreateSchedule(s, list, on)
         PROVE  RowsApart'
    BY <1>13, RowsShrink DEF CreateSchedule, WriteSchedule
  <1>14. QED
    BY <1>1, <1>2, <1>3, <1>4, <1>5, <1>6, <1>7, <1>9, <1>10, <1>11, <1>12, <1>13, StepKinds

-----------------------------------------------------------------------------
(* Lists, continued *)

Lists == HomesKept /\ Entering /\ Kept

\* A task that rests holds nothing, and every home stays one.
LEMMA ListsResting ==
  ASSUME RegistryTypeOK, Lists, UNCHANGED <<meters, lastId, schedules, excused>>, Resting(task')
  PROVE  Lists'
  <1>1. ASSUME NEW m, NEW t, Home(m, t) PROVE Home(m, t)'
    BY <1>1, RegistryAssumption DEF Home, Exists, Resting
  <1>2. HomesKept'
    BY <1>1 DEF Lists, HomesKept
  <1>3. Entering' /\ Kept'
    BY DEF Resting, Entering, Kept
  <1>4. QED
    BY <1>2, <1>3 DEF Lists

\* Newcomers that get their ids are still to be entered.
LEMMA ListsInsert ==
  ASSUME RegistryTypeOK, Lists, InsertMeters, task.new \cap SerialsOf(meters) = {}
  PROVE  Lists'
  <1> DEFINE n == Cardinality(task.new)
  <1>1. task \in Task /\ lastId \in Nat /\ task.chosen = NoSchedule /\ task.locked = {}
        /\ task.entered = {}
    <2>1. lastId \in 0 .. MaxId /\ task \in Task
      BY DEF RegistryTypeOK
    <2>2. lastId \in Nat
      BY <2>1, RegistryAssumption
    <2>3. task.step # "listing"
      BY DEF InsertMeters
    <2>4. task.chosen = NoSchedule
      BY <2>3 DEF RegistryTypeOK
    <2>5. QED
      BY <2>1, <2>2, <2>3, <2>4 DEF Lists, Entering
  <1>2. n \in Nat
    BY <1>1, RegistryAssumption, FS_Subset, FS_CardinalityType DEF Task
  <1>3. lastId + n <= MaxId /\ UNCHANGED <<meters, schedules, excused>>
    BY DEF InsertMeters, tableVars
  <1>4. PICK id \in Injection(task.new, (lastId + 1) .. (lastId + n)) :
           task' = [task EXCEPT !.step = "listing", !.todo = Entries(lastId + 1, n),
              !.rows = {[id |-> id[s], serial |-> s, status |-> "ACTIVE", active |-> TRUE,
                         gateway |-> task.gateway, found |-> TRUE] : s \in task.new}]
    BY DEF InsertMeters
  <1>5. /\ task'.step = "listing" /\ task'.todo = Entries(lastId + 1, n)
        /\ task'.chosen = NoSchedule /\ task'.locked = {} /\ task'.entered = {}
        /\ task'.read = task.read /\ task'.written = task.written
    BY <1>1, <1>4 DEF Task
  <1>6. \A r \in task'.rows : r.id \in (lastId + 1) .. (lastId + n)
    <2> DEFINE RowOf(s) == [id |-> id[s], serial |-> s, status |-> "ACTIVE", active |-> TRUE,
                            gateway |-> task.gateway, found |-> TRUE]
    <2>1. task'.rows = {RowOf(s) : s \in task.new}
      BY <1>1, <1>4 DEF Task
    <2>2. \A s \in task.new : RowOf(s).id = id[s]
      OBVIOUS
    <2>3. \A s \in task.new : id[s] \in (lastId + 1) .. (lastId + n)
      BY <1>4 DEF Injection
    <2> HIDE DEF RowOf
    <2>4. QED
      BY <2>1, <2>2, <2>3
  <1>7. \A m \in (lastId + 1) .. (lastId + n), t \in Catchall :
           \E j \in 1 .. Len(Entries(lastId + 1, n)) : Entries(lastId + 1, n)[j] = <<m, t>>
    <2>1. lastId + 1 \in Nat \ {0} /\ (lastId + 1) + n <= MaxId + 1
          /\ (lastId + 1) + n - 1 = lastId + n
      BY <1>1, <1>2, <1>3, RegistryAssumption
    <2>2. \A m \in (lastId + 1) .. ((lastId + 1) + n - 1),
             t \in {CatchallTypes[i] : i \in DOMAIN CatchallTypes} :
             \E j \in 1 .. Len(Entries(lastId + 1, n)) : Entries(lastId + 1, n)[j] = <<m, t>>
      <3> HIDE DEF n
      <3>1. QED
        BY <1>2, <2>1, EntriesTypes
    <2>3. QED
      BY <2>1, <2>2 DEF Catchall
  <1>8. HomesKept'
    <2>1. ASSUME NEW m, NEW t, Home(m, t) PROVE Home(m, t)'
      BY <1>3, <1>5, <2>1, RegistryAssumption DEF Home, Exists
    <2>2. QED
      BY <1>3, <2>1 DEF Lists, HomesKept
  <1>9. Entering'
    BY ZenonT(90), <1>5, <1>6, <1>7 DEF Entering, Catchall
  <1>10. Kept'
    BY <1>5 DEF Kept
  <1>11. QED
    BY <1>8, <1>9, <1>10 DEF Lists

\* What is taken from the list of things to enter is entered.
LEMMA Covered ==
  ASSUME NEW todo \in Seq(Ids \X Types), todo # <<>>, NEW x,
         \E j \in 1 .. Len(todo) : todo[j] = x
  PROVE  x = Head(todo) \/ \E j \in 1 .. Len(Tail(todo)) : Tail(todo)[j] = x
  <1>1. PICK j \in 1 .. Len(todo) : todo[j] = x
    OBVIOUS
  <1>2. CASE j = 1
    BY <1>1, <1>2
  <1>3. CASE j # 1
    <2>1. Len(Tail(todo)) = Len(todo) - 1 /\ Len(todo) \in Nat
      OBVIOUS
    <2>2. j - 1 \in 1 .. Len(Tail(todo))
      BY <1>3, <2>1
    <2>3. Tail(todo)[j - 1] = todo[(j - 1) + 1]
      BY <2>1, <2>2
    <2>4. QED
      BY <1>1, <2>2, <2>3
  <1>4. QED
    BY <1>2, <1>3

\* A list that is chosen is read as the session sees it; without one there is nothing to do.
LEMMA ListsChoose ==
  ASSUME RegistryTypeOK, Lists, ChooseList
  PROVE  Lists'
  <1> DEFINE t == Head(task.todo)[2]
  <1>1. /\ task \in Task /\ task.chosen = NoSchedule /\ task.todo # <<>> /\ task.step = "listing"
        /\ UNCHANGED <<meters, schedules, excused>>
    BY DEF ChooseList, RegistryTypeOK, tableVars
  <1>2. ASSUME task' = [task EXCEPT !.todo = Tail(@),
                                    !.entered = @ \cup {<<Head(task.todo), NoSchedule>>}]
        PROVE  Lists'
    <2>1. /\ task'.step = "listing" /\ task'.todo = Tail(task.todo) /\ task'.chosen = NoSchedule
          /\ task'.entered = task.entered \cup {<<Head(task.todo), NoSchedule>>}
          /\ task'.rows = task.rows /\ task'.locked = task.locked /\ task'.read = task.read
          /\ task'.written = task.written /\ task'.overtaken = task.overtaken
      BY <1>1, <1>2 DEF Task
    <2>2. ASSUME NEW m, NEW k, Home(m, k) PROVE Home(m, k)'
      BY <1>1, <2>1, <2>2 DEF Home, Exists
    <2>3. HomesKept'
      BY <1>1, <2>2 DEF Lists, HomesKept
    <2>4. ASSUME NEW r \in task.rows, NEW k \in Catchall
          PROVE  \/ \E j \in 1 .. Len(Tail(task.todo)) : Tail(task.todo)[j] = <<r.id, k>>
                 \/ \E e \in task'.entered : e[1] = <<r.id, k>>
      <3>1. CASE \E e \in task.entered : e[1] = <<r.id, k>>
        BY <2>1, <3>1
      <3>2. CASE <<r.id, k>> = Head(task.todo)
        <4>1. <<Head(task.todo), NoSchedule>> \in task'.entered
          BY <2>1
        <4>2. QED
          BY <3>2, <4>1
      <3>3. QED
        BY <1>1, <3>1, <3>2, Covered DEF Lists, Entering, Task
    <2>5. Entering'
      <3>1. \A e \in task'.entered : e[2] # NoSchedule => e \in task.entered
        BY <2>1
      <3>2. \A e \in task'.entered : e[2] # NoSchedule =>
              e[2] \in task'.locked /\ e[1][1] \in task'.written[e[2]] /\ TypeOf[e[2]] = e[1][2]
        BY <2>1, <3>1 DEF Lists, Entering
      <3>3. \A r \in task.locked : Exists(r)'
        BY <1>1 DEF Lists, Entering, Exists
      <3>4. task'.chosen = NoSchedule /\ task'.step = "listing" /\ task'.rows = task.rows
            /\ task'.locked = task.locked
        BY <2>1
      <3>5. \A r \in task'.rows, k \in Catchall :
               \/ \E j \in 1 .. Len(task'.todo) : task'.todo[j] = <<r.id, k>>
               \/ \E e \in task'.entered : e[1] = <<r.id, k>>
        BY ZenonT(90), <2>1, <2>4
      <3>6. QED
        BY <3>2, <3>3, <3>4, <3>5 DEF Entering, Catchall, Exists
    <2>6. Kept'
      BY <1>1, <2>1 DEF Lists, Kept
    <2>7. QED
      BY <2>3, <2>5, <2>6 DEF Lists
  <1>3. ASSUME NEW s \in Longest(t), task' = [task EXCEPT !.chosen = s, !.read = View(s)]
        PROVE  Lists'
    <2>1. s \in Schedules /\ Exists(s) /\ TypeOf[s] = t
      BY DEF Longest, OfType
    <2>2. /\ task'.chosen = s /\ task'.read = View(s) /\ task'.todo = task.todo
          /\ task'.step = "listing" /\ task'.entered = task.entered /\ task'.rows = task.rows
          /\ task'.locked = task.locked /\ task'.written = task.written
          /\ task'.overtaken = task.overtaken
      BY <1>1, <1>3 DEF Task
    <2>3. ASSUME NEW m, NEW k, Home(m, k) PROVE Home(m, k)'
      BY <1>1, <2>2, <2>3 DEF Home, Exists, View
    <2>4. HomesKept'
      BY <1>1, <2>3 DEF Lists, HomesKept
    <2>5. Entering'
      <3>1. \A r \in task.locked : Exists(r)'
        BY <1>1 DEF Lists, Entering, Exists
      <3>2. /\ TypeOf[s] = Head(task'.todo)[2] /\ schedules'[s].row # "none"
            /\ s \in task'.locked => task'.written[s] \subseteq task'.read
        BY <1>1, <2>1, <2>2 DEF Exists, View
      <3>3. QED
        BY <2>2, <3>1, <3>2 DEF Lists, Entering
    <2>6. Kept'
      BY <1>1, <2>2 DEF Lists, Kept, View
    <2>7. QED
      BY <2>4, <2>5, <2>6 DEF Lists
  <1>4. QED
    BY <1>2, <1>3 DEF ChooseList

\* A list that is written has what was read and the newcomer, and so all it had.
LEMMA ListsWrite ==
  ASSUME RegistryTypeOK, Lists, WriteList, Exists(task.chosen)
  PROVE  Lists'
  <1> DEFINE s == task.chosen
             x == Head(task.todo)
  <1>1. /\ task \in Task /\ s \in Schedules /\ task.todo # <<>> /\ task.step = "listing"
        /\ UNCHANGED <<meters, schedules, excused>>
    BY DEF WriteList, RegistryTypeOK, tableVars, Task
  <1>2. task' = [task EXCEPT !.todo = Tail(task.todo), !.chosen = NoSchedule, !.read = {},
                   !.locked = task.locked \cup {s},
                   !.written = [task.written EXCEPT ![s] = task.read \cup {x[1]}],
                   !.entered = task.entered \cup {<<x, s>>}]
    BY <1>1 DEF WriteList, Task
  <1>3. /\ task'.step = "listing" /\ task'.todo = Tail(task.todo) /\ task'.chosen = NoSchedule
        /\ task'.entered = task.entered \cup {<<x, s>>} /\ task'.rows = task.rows
        /\ task'.locked = task.locked \cup {s} /\ task'.overtaken = task.overtaken
        /\ task'.written = [task.written EXCEPT ![s] = task.read \cup {x[1]}]
    BY <1>1, <1>2 DEF Task
  <1>4. /\ task'.written[s] = task.read \cup {x[1]}
        /\ \A r \in Schedules : r # s => task'.written[r] = task.written[r]
    BY <1>1, <1>3 DEF Task
  <1>5. TypeOf[s] = x[2] /\ (s \in task.locked => task.written[s] \subseteq task.read)
        /\ s # NoSchedule
    BY <1>1, RegistryAssumption DEF Lists, Entering
  <1>6. task.locked \subseteq Schedules
    BY <1>1 DEF Task
  <1> HIDE DEF s, x
  <1>7. HomesKept'
    <2>1. ASSUME NEW m, NEW k, Home(m, k) PROVE Home(m, k)'
      <3>1. PICK h \in Schedules :
               /\ Exists(h) /\ schedules[h].enabled /\ TypeOf[h] = k /\ m \in schedules[h].list
               /\ h \in task.locked => m \in task.written[h]
               /\ s = h => m \in task.read
        BY <2>1 DEF Home, s
      <3>2. m \in task'.written[h] \/ h \notin task'.locked
        BY <1>3, <1>4, <3>1
      <3>3. QED
        BY <1>1, <1>3, <3>1, <3>2, RegistryAssumption DEF Home, Exists
    <2>2. QED
      BY <1>1, <2>1 DEF Lists, HomesKept
  <1>8. Entering'
    <2>1. ASSUME NEW r \in task.rows, NEW k \in Catchall
          PROVE  \/ \E j \in 1 .. Len(Tail(task.todo)) : Tail(task.todo)[j] = <<r.id, k>>
                 \/ \E e \in task'.entered : e[1] = <<r.id, k>>
      <3>1. CASE \E e \in task.entered : e[1] = <<r.id, k>>
        BY <1>3, <3>1
      <3>2. CASE <<r.id, k>> = x
        <4>1. <<x, s>> \in task'.entered
          BY <1>3
        <4>2. QED
          BY <3>2, <4>1
      <3>3. QED
        BY <1>1, <3>1, <3>2, Covered DEF Lists, Entering, Task, x
    <2>2. ASSUME NEW e \in task'.entered, e[2] # NoSchedule
          PROVE  e[2] \in task'.locked /\ e[1][1] \in task'.written[e[2]] /\ TypeOf[e[2]] = e[1][2]
      <3>1. CASE e = <<x, s>>
        BY <1>3, <1>4, <1>5, <3>1
      <3>2. CASE e \in task.entered
        <4>1. e[2] \in task.locked /\ e[1][1] \in task.written[e[2]] /\ TypeOf[e[2]] = e[1][2]
          BY <2>2, <3>2 DEF Lists, Entering
        <4>2. QED
          BY <1>3, <1>4, <1>5, <1>6, <4>1
      <3>3. QED
        BY <1>3, <3>1, <3>2
    <2>3. \A r \in task'.locked : Exists(r)'
      BY <1>1, <1>3 DEF Lists, Entering, Exists, s
    <2>4. \A r \in task'.rows, k \in Catchall :
             \/ \E j \in 1 .. Len(task'.todo) : task'.todo[j] = <<r.id, k>>
             \/ \E e \in task'.entered : e[1] = <<r.id, k>>
      <3>1. task'.rows = task.rows /\ task'.todo = Tail(task.todo)
        BY <1>3
      <3>2. QED
        BY <2>1, <3>1
    <2>5. QED
      BY <1>3, <2>2, <2>3, <2>4 DEF Entering, Exists, Catchall
  <1>9. Kept'
    <2>1. ASSUME NEW r \in task'.locked, r \notin task'.overtaken
          PROVE  schedules'[r].list \subseteq task'.written[r]
      <3>1. CASE r = s
        <4>1. schedules[s].list \subseteq task.read
          BY <1>3, <1>5, <2>1, <3>1 DEF Lists, Kept, s
        <4>2. QED
          BY <1>1, <1>4, <3>1, <4>1
      <3>2. CASE r # s
        BY <1>1, <1>3, <1>4, <1>6, <2>1, <3>2 DEF Lists, Kept
      <3>3. QED
        BY <3>1, <3>2
    <2>2. QED
      BY <1>3, <2>1 DEF Kept
  <1>10. QED
    BY <1>7, <1>8, <1>9 DEF Lists

\* When a tick commits, the newcomers have their homes, and everybody else keeps theirs.
LEMMA ListsCommit ==
  ASSUME RegistryTypeOK, Lists, CommitMeters
  PROVE  Lists'
  <1>1. /\ task \in Task /\ Resting(task') /\ meters' = meters \cup task.rows
        /\ task.todo = <<>> /\ schedules \in [Schedules -> Schedule]
    BY OnwardRests DEF CommitMeters, RegistryTypeOK, Resting
  <1>2. schedules' = [s \in Schedules |->
           IF s \in task.locked THEN [schedules[s] EXCEPT !.list = task.written[s]] ELSE schedules[s]]
    BY DEF CommitMeters
  <1>3. ASSUME NEW s \in Schedules
        PROVE  /\ schedules'[s].row = schedules[s].row
               /\ schedules'[s].enabled = schedules[s].enabled
               /\ schedules'[s].list = IF s \in task.locked THEN task.written[s] ELSE schedules[s].list
    <2>1. schedules[s] \in Schedule
      BY <1>1
    <2>2. QED
      BY <1>2, <2>1 DEF Schedule
  <1>4. excused \subseteq excused'
    BY DEF CommitMeters
  <1>5. ASSUME NEW m, NEW t, Home(m, t) PROVE Home(m, t)'
    <2>1. PICK h \in Schedules :
             /\ Exists(h) /\ schedules[h].enabled /\ TypeOf[h] = t /\ m \in schedules[h].list
             /\ h \in task.locked => m \in task.written[h]
      BY <1>5 DEF Home
    <2>2. m \in schedules'[h].list /\ Exists(h)' /\ schedules'[h].enabled
      BY <1>3, <2>1 DEF Exists
    <2>3. QED
      BY <1>1, <2>1, <2>2, RegistryAssumption DEF Home, Resting
  <1>6. ASSUME NEW r \in task.rows, NEW t \in Catchall
        PROVE  Home(r.id, t)' \/ <<r.id, t>> \in excused'
    <2>1. PICK e \in task.entered : e[1] = <<r.id, t>>
      <3>1. 1 .. Len(task.todo) = {}
        BY <1>1
      <3>2. QED
        BY <3>1 DEF Lists, Entering
    <2>2. CASE e[2] = NoSchedule \/ ~schedules[e[2]].enabled
      BY <2>1, <2>2 DEF CommitMeters
    <2>3. CASE e[2] # NoSchedule /\ schedules[e[2]].enabled
      <3> DEFINE h == e[2]
      <3>1. h \in task.locked /\ r.id \in task.written[h] /\ TypeOf[h] = t /\ Exists(h)
            /\ h \in Schedules
        BY <1>1, <2>1, <2>3 DEF Lists, Entering, Task
      <3>2. Exists(h)' /\ schedules'[h].enabled /\ r.id \in schedules'[h].list
        BY <1>3, <2>3, <3>1 DEF Exists
      <3>3. QED
        BY <1>1, <3>1, <3>2, RegistryAssumption DEF Home, Resting
    <2>4. QED
      BY <2>2, <2>3
  <1>7. HomesKept'
    BY <1>1, <1>4, <1>5, <1>6 DEF Lists, HomesKept
  <1>8. Entering' /\ Kept'
    BY <1>1 DEF Resting, Entering, Kept
  <1>9. QED
    BY <1>7, <1>8 DEF Lists

\* What becomes of a meter's row does not touch the lists.
LEMMA ListsMeters ==
  ASSUME RegistryTypeOK, Lists, UNCHANGED <<task, schedules, excused>>,
         \A q \in meters' : q.found => \E r \in meters : r.found /\ r.id = q.id
  PROVE  Lists'
  <1>1. \A m, t : Home(m, t)' <=> Home(m, t)
    BY DEF Home, Exists
  <1>2. HomesKept'
    BY <1>1 DEF Lists, HomesKept
  <1>3. Entering' /\ Kept'
    BY DEF Lists, Entering, Kept, Exists
  <1>4. QED
    BY <1>2, <1>3 DEF Lists

\* Whoever takes a meter out of a list, or the list from use, answers for it; a list that
\* discovery has written cannot be saved before the commit.
LEMMA ListsSchedules ==
  ASSUME RegistryTypeOK, Lists, NEW s \in Schedules, NEW row \in Schedule, WriteSchedule(s, row),
         /\ task'.overtaken \in {task.overtaken, task.overtaken \cup {s}}
         /\ task'.step = task.step /\ task'.rows = task.rows /\ task'.todo = task.todo
         /\ task'.chosen = task.chosen /\ task'.read = task.read /\ task'.locked = task.locked
         /\ task'.written = task.written /\ task'.entered = task.entered,
         task.chosen = s => \/ row.list \subseteq schedules[s].list
                            \/ s \in task'.overtaken
                            \/ schedules[s].row = "none",
         schedules[s].row # "none" => row.row # "none",
         excused \subseteq excused',
         Exists(s) /\ schedules[s].enabled =>
           \A m \in schedules[s].list :
              \/ row.row = "there" /\ row.enabled /\ m \in row.list
              \/ <<m, TypeOf[s]>> \in excused'
  PROVE  Lists'
  <1>1. /\ s \notin task.locked /\ meters' = meters
        /\ schedules' = [schedules EXCEPT ![s] = row] /\ task \in Task
        /\ schedules \in [Schedules -> Schedule]
    BY DEF WriteSchedule, RegistryTypeOK
  <1>2. schedules'[s] = row /\ \A r \in Schedules : r # s => schedules'[r] = schedules[r]
    BY <1>1
  <1>3. ASSUME NEW m, NEW t, Home(m, t) PROVE Home(m, t)' \/ <<m, t>> \in excused'
    <2>1. PICK h \in Schedules :
             /\ Exists(h) /\ schedules[h].enabled /\ TypeOf[h] = t /\ m \in schedules[h].list
             /\ h \in task.locked => m \in task.written[h]
             /\ task.chosen = h => m \in task.read
      BY <1>3 DEF Home
    <2>2. CASE h # s
      BY <1>2, <2>1, <2>2 DEF Home, Exists
    <2>3. CASE h = s /\ <<m, TypeOf[s]>> \notin excused'
      <3>1. row.row = "there" /\ row.enabled /\ m \in row.list
        BY <2>1, <2>3
      <3>2. QED
        BY <1>2, <2>1, <2>3, <3>1 DEF Home, Exists
    <2>4. QED
      BY <2>1, <2>2, <2>3
  <1>4. HomesKept'
    BY <1>1, <1>3 DEF Lists, HomesKept
  <1>5. Entering'
    <2>1. \A r \in task.locked : Exists(r)'
      BY <1>1, <1>2 DEF Lists, Entering, Exists, Task
    <2>2. task.chosen # NoSchedule => schedules'[task.chosen].row # "none"
      BY <1>1, <1>2 DEF Lists, Entering, Task
    <2>3. QED
      BY ZenonT(90), <2>1, <2>2 DEF Lists, Entering
  <1>6. Kept'
    <2>1. \A r \in task.locked \ task'.overtaken : schedules'[r].list \subseteq task.written[r]
      BY <1>1, <1>2 DEF Lists, Kept, Task
    <2>2. task.chosen # NoSchedule /\ task.chosen \notin task.locked \cup task'.overtaken
          => schedules'[task.chosen].list \subseteq task.read
      BY <1>1, <1>2 DEF Lists, Kept, Entering, Task
    <2>3. QED
      BY <2>1, <2>2 DEF Kept
  <1>7. QED
    BY <1>4, <1>5, <1>6 DEF Lists

\* Every step keeps the lists.
LEMMA ListsStep ==
  ASSUME RegistryTypeOK, Lists, [Step]_rvars
  PROVE  Lists'
  <1> USE DEF rvars, gatewayVars, tableVars
  <1>0. task \in Task /\ meters \subseteq Row /\ schedules \in [Schedules -> Schedule] /\ Entering
    BY DEF RegistryTypeOK, Lists
  <1>1. CASE UNCHANGED Shared \/ UNCHANGED rvars
    <2>1. UNCHANGED <<meters, task, schedules, excused>>
      BY <1>1 DEF Shared
    <2>2. QED
      BY <2>1, ListsMeters
  <1>2. CASE UNCHANGED <<meters, lastId, schedules, excused>> /\ Resting(task')
    BY <1>2, ListsResting
  <1>3. CASE InsertMeters /\ task.new \cap SerialsOf(meters) = {}
    BY <1>3, ListsInsert
  <1>4. CASE ChooseList
    BY <1>4, ListsChoose
  <1>5. CASE WriteList /\ Exists(task.chosen)
    BY <1>5, ListsWrite
  <1>6. CASE CommitMeters
    BY <1>6, ListsCommit
  <1>7. ASSUME NEW g \in Gateways, NEW serial \in Serials, CreateMeter(g, serial) PROVE Lists'
    <2>1. UNCHANGED <<task, schedules, excused>>
      BY <1>7 DEF CreateMeter
    <2>2. \A q \in meters' : q \in meters \/ ~q.found
      BY <1>7 DEF CreateMeter
    <2>3. QED
      BY <2>1, <2>2, ListsMeters
  <1>8. ASSUME NEW r \in meters, NEW q, q.id = r.id, q.found = r.found, ReplaceMeter(r, q)
        PROVE  Lists'
    BY <1>8, ListsMeters DEF ReplaceMeter
  <1>9. ASSUME NEW r \in meters, ActivateMeter(r) \/ SwitchMeter(r) \/ DeleteMeter(r)
        PROVE  Lists'
    <2>1. r \in Row
      BY <1>0
    <2>2. /\ [r EXCEPT !.status = "ACTIVE", !.active = TRUE].id = r.id
          /\ [r EXCEPT !.status = "ACTIVE", !.active = TRUE].found = r.found
          /\ [r EXCEPT !.active = ~@].id = r.id /\ [r EXCEPT !.active = ~@].found = r.found
      BY <2>1 DEF Row
    <2>3. CASE DeleteMeter(r)
      BY <2>3, ListsMeters DEF DeleteMeter
    <2>4. QED
      BY <1>8, <1>9, <2>2, <2>3 DEF ActivateMeter, SwitchMeter
  <1>10. ASSUME NEW r \in meters, NEW serial \in Serials, RenameMeter(r, serial) PROVE Lists'
    <2>1. [r EXCEPT !.serial = serial].id = r.id /\ [r EXCEPT !.serial = serial].found = r.found
      BY <1>0 DEF Row
    <2>2. QED
      BY <1>8, <1>10, <2>1 DEF RenameMeter
  <1>11. ASSUME NEW s \in Schedules PROVE schedules[s] \in Schedule
    BY <1>0
  <1>12. ASSUME NEW s \in Schedules, ToggleSchedule(s) PROVE Lists'
    <2> DEFINE row == [schedules[s] EXCEPT !.enabled = ~@]
    <2>1. /\ row \in Schedule /\ row.row = schedules[s].row /\ row.list = schedules[s].list
          /\ row.enabled = ~schedules[s].enabled
      BY <1>11 DEF Schedule
    <2>2. WriteSchedule(s, row) /\ task' = task
      BY <1>12 DEF ToggleSchedule
    <2>3. excused \subseteq excused'
      BY <1>12 DEF ToggleSchedule, AnswerFor
    <2>4. schedules[s].enabled => \A m \in schedules[s].list : <<m, TypeOf[s]>> \in excused'
      BY <1>12 DEF ToggleSchedule, AnswerFor
    <2> HIDE DEF row
    <2>5. QED
      BY <2>1, <2>2, <2>3, <2>4, ListsSchedules
  <1>13. ASSUME NEW s \in Schedules, DeleteSchedule(s) PROVE Lists'
    <2> DEFINE row == [row |-> "deleted", enabled |-> FALSE, list |-> {}]
    <2>1. row \in Schedule /\ row.row # "none" /\ row.list = {}
      BY DEF Schedule
    <2>2. WriteSchedule(s, row) /\ task' = task
      BY <1>13 DEF DeleteSchedule
    <2>3. excused \subseteq excused' /\ \A m \in schedules[s].list : <<m, TypeOf[s]>> \in excused'
      BY <1>13 DEF DeleteSchedule, AnswerFor
    <2> HIDE DEF row
    <2>4. QED
      BY <2>1, <2>2, <2>3, ListsSchedules
  <1>14. ASSUME NEW list \in ValidLists PROVE list \subseteq Ids
    BY <1>0 DEF ValidLists, IdsOf, Row
  <1>15. ASSUME NEW s \in Schedules, NEW list \in ValidLists, SaveList(s, list) PROVE Lists'
    <2> DEFINE row == [schedules[s] EXCEPT !.list = list]
    <2>1. /\ row \in Schedule /\ row.row = schedules[s].row /\ row.list = list
          /\ row.enabled = schedules[s].enabled /\ schedules[s].row = "there"
      BY <1>11, <1>14, <1>15 DEF Schedule, SaveList, Exists
    <2>2. WriteSchedule(s, row)
      BY <1>15 DEF SaveList
    <2>3. /\ task'.overtaken \in {task.overtaken, task.overtaken \cup {s}}
          /\ task'.step = task.step /\ task'.rows = task.rows /\ task'.todo = task.todo
          /\ task'.chosen = task.chosen /\ task'.read = task.read /\ task'.locked = task.locked
          /\ task'.written = task.written /\ task'.entered = task.entered
          /\ task.chosen = s => s \in task'.overtaken
      BY <1>0, <1>15 DEF SaveList, Task
    <2>4. /\ excused \subseteq excused'
          /\ \A m \in schedules[s].list \ list : <<m, TypeOf[s]>> \in excused'
      BY <1>15 DEF SaveList, AnswerFor
    <2> HIDE DEF row
    <2>5. QED
      BY <2>1, <2>2, <2>3, <2>4, ListsSchedules
  <1>16. ASSUME NEW s \in Schedules, NEW list \in ValidLists, NEW on \in BOOLEAN,
                CreateSchedule(s, list, on)
         PROVE  Lists'
    <2> DEFINE row == [row |-> "there", enabled |-> on, list |-> list]
    <2>1. row \in Schedule /\ row.row # "none" /\ schedules[s].row = "none"
      BY <1>14, <1>16 DEF Schedule, CreateSchedule
    <2>2. WriteSchedule(s, row) /\ task' = task /\ excused' = excused /\ ~Exists(s)
      BY <1>16, <2>1 DEF CreateSchedule, Exists
    <2> HIDE DEF row
    <2>3. QED
      BY <2>1, <2>2, ListsSchedules
  <1>17. QED
    BY <1>0, <1>1, <1>2, <1>3, <1>4, <1>5, <1>6, <1>7, <1>9, <1>10, <1>12, <1>13, <1>15, <1>16,
       StepKinds

-----------------------------------------------------------------------------
(* The theorems *)

RegistryInv == RegistryTypeOK /\ RowsApart /\ Lists

\* At first nobody was found, and discovery has nothing in hand.
LEMMA InvInit == ASSUME NEW o \in Origins, InitFrom(o) PROVE RegistryInv
  <1>1. RegistryTypeOK
    BY TypeInit
  <1>2. /\ task = NoTask /\ meters = o.rows /\ lastId = o.last
        /\ \A r, q \in o.rows : ~r.found /\ r.id <= o.last
                                /\ (r.id = q.id \/ r.serial = q.serial => r = q)
    BY OriginsAssumption DEF InitFrom
  <1>3. RowsApart
    BY <1>2, NoTaskRests DEF RowsApart, OneRowPerSerial
  <1>4. Lists
    BY <1>2, NoTaskRests DEF Lists, HomesKept, Entering, Kept
  <1>5. QED
    BY <1>1, <1>3, <1>4 DEF RegistryInv

\* The invariant is inductive, whatever goes on elsewhere.
LEMMA InvStep == RegistryInv /\ [Step]_rvars => RegistryInv'
  BY TypeStep, RowsStep, ListsStep DEF RegistryInv, Lists

\* Homes are lists that ask the meter.
LEMMA InvImplies == RegistryInv => OneRowPerSerial /\ NobodyOverlooked
  BY DEF RegistryInv, RowsApart, Lists, HomesKept, Home, NobodyOverlooked, Polled, Catchall

\* Discovery takes somebody out only by a list that was saved behind its back.
LEMMA TakeOutStep ==
  ASSUME RegistryInv, [Step]_rvars, NEW s \in Schedules
  PROVE  \/ schedules[s].list \subseteq schedules'[s].list
         \/ hands' # hands
         \/ s \in task.overtaken
  <1> USE DEF rvars, gatewayVars, tableVars
  <1>1. RegistryTypeOK /\ Entering /\ Kept /\ schedules \in [Schedules -> Schedule]
    BY DEF RegistryInv, Lists, RegistryTypeOK
  <1>2. CASE schedules' = schedules
    BY <1>2
  <1>3. CASE CommitMeters
    <2>1. schedules'[s].list = IF s \in task.locked THEN task.written[s] ELSE schedules[s].list
      <3>1. schedules[s] \in Schedule
        BY <1>1
      <3>2. schedules'[s] = IF s \in task.locked THEN [schedules[s] EXCEPT !.list = task.written[s]]
                                                 ELSE schedules[s]
        BY <1>3 DEF CommitMeters
      <3>3. QED
        BY <3>1, <3>2 DEF Schedule
    <2>2. QED
      BY <1>1, <2>1 DEF Kept
  <1>4. ASSUME NEW r \in Schedules, NEW row, WriteSchedule(r, row) PROVE hands' # hands
    BY <1>1, <1>4, HandsTypes DEF WriteSchedule
  <1>5. CASE \/ \E r \in Schedules : ToggleSchedule(r) \/ DeleteSchedule(r)
             \/ \E r \in Schedules, list \in ValidLists : SaveList(r, list)
             \/ \E r \in Schedules, list \in ValidLists, on \in BOOLEAN : CreateSchedule(r, list, on)
    BY <1>4, <1>5 DEF ToggleSchedule, DeleteSchedule, SaveList, CreateSchedule
  <1>6. CASE \/ InsertMeters \/ ChooseList \/ WriteList
             \/ \E g \in Gateways, serial \in Serials : CreateMeter(g, serial)
             \/ \E r \in meters : ActivateMeter(r) \/ SwitchMeter(r) \/ DeleteMeter(r)
             \/ \E r \in meters, serial \in Serials : RenameMeter(r, serial)
    BY <1>2, <1>6 DEF InsertMeters, ChooseList, WriteList, CreateMeter, ActivateMeter, SwitchMeter,
                      DeleteMeter, RenameMeter, ReplaceMeter
  <1>7. QED
    BY <1>1, <1>2, <1>3, <1>5, <1>6, StepKinds DEF Shared

\* However discovery, people and renamed meters cross each other, a serial number
\* has one row and an id one meter.
THEOREM MetersUnique == Spec => []OneRowPerSerial
  <1>1. Init => RegistryInv
    BY InvInit DEF Init
  <1>2. RegistryInv /\ [Next]_rvars => RegistryInv'
    BY InvStep DEF Step
  <1>3. RegistryInv => OneRowPerSerial
    BY InvImplies
  <1>4. QED
    BY <1>1, <1>2, <1>3, PTL DEF Spec

\* A meter that discovery has registered is polled, or somebody answers for it.
THEOREM NewcomersPolled == Spec => []NobodyOverlooked
  <1>1. Init => RegistryInv
    BY InvInit DEF Init
  <1>2. RegistryInv /\ [Next]_rvars => RegistryInv'
    BY InvStep DEF Step
  <1>3. RegistryInv => NobodyOverlooked
    BY InvImplies
  <1>4. QED
    BY <1>1, <1>2, <1>3, PTL DEF Spec

\* Discovery takes nobody out of a list, but by writing over one saved after it was
\* read.
THEOREM DiscoveryOnlyAdds == Spec => OnlyPeopleTakeOut
  <1> DEFINE A == \A s \in Schedules :
                    \/ schedules[s].list \subseteq schedules'[s].list
                    \/ hands' # hands
                    \/ s \in task.overtaken
  <1>1. Init => RegistryInv
    BY InvInit DEF Init
  <1>2. RegistryInv /\ [Next]_rvars => RegistryInv'
    BY InvStep DEF Step
  <1>3. RegistryInv /\ [Next]_rvars => [A]_rvars
    BY TakeOutStep DEF Step
  <1>4. QED
    BY <1>1, <1>2, <1>3, PTL DEF Spec, OnlyPeopleTakeOut
=============================================================================
