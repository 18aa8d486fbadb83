-------------------------- MODULE EudbExport_proofs --------------------------
(***************************************************************************)
(* Proofs about EudbExport: our books agree with EUDB, nothing is sent     *)
(* again without one of the reasons named, and each day has one scheduled  *)
(* run; for any number of meters, presses, days, rows and faults.          *)
(***************************************************************************)
EXTENDS EudbExport, TLAPS

\* There is room for a run.
LEMMA Bounds == MaxRuns \in Nat /\ MaxRuns >= 1
  BY BoundsAssumption DEF MaxRuns

-----------------------------------------------------------------------------
(* Types *)

\* A run that is created takes a number of its own and is about today.
LEMMA CreateRunTypes ==
  ASSUME TypeOK, NEW byHand \in BOOLEAN, CreateRun(byHand)
  PROVE  /\ runs + 1 \in Runs /\ runs' = runs + 1 /\ runs' \in 0 .. MaxRuns
         /\ status' \in [Runs -> Verdicts \cup {"absent", "RUNNING"}]
         /\ manual' \in [Runs -> BOOLEAN] /\ started' \in [Runs -> Days]
         /\ at' \in [Runs -> {"absent", "waiting", "connected", "over"}]
  BY Bounds DEF TypeOK, CreateRun, Runs

\* A run that is created waits to be executed.
LEMMA CreatedWaits ==
  ASSUME TypeOK, NEW byHand \in BOOLEAN, CreateRun(byHand)
  PROVE  runs + 1 \in Runs /\ at'[runs + 1] = "waiting"
  <1>1. runs + 1 \in Runs
    BY CreateRunTypes
  <1>2. at' = [at EXCEPT ![runs + 1] = "waiting"]
    BY DEF CreateRun
  <1>3. QED
    BY <1>1, <1>2 DEF TypeOK

\* A meter that is passed leaves an outcome of its own.
LEMMA PassTypes ==
  ASSUME TypeOK, NEW r \in Runs, NEW m \in Meters,
         NEW outcome \in SUBSET [meter : Meters, ok : BOOLEAN], Pass(r, m, outcome)
  PROVE  /\ todo' \in [Runs -> SUBSET Meters]
         /\ flushed' \in [Runs -> SUBSET [meter : Meters, ok : BOOLEAN]]
         /\ UNCHANGED <<clock, latest, odd, unique, table, at, since, prior, loop, decided>>
  <1>1. todo' \in [Runs -> SUBSET Meters]
    BY DEF TypeOK, Pass
  <1>2. flushed' \in [Runs -> SUBSET [meter : Meters, ok : BOOLEAN]]
    BY DEF TypeOK, Pass
  <1>3. QED
    BY <1>1, <1>2 DEF Pass

\* What a busy run sends is a row.
LEMMA BusyRow ==
  ASSUME TypeOK, NEW r \in Runs, Busy(r)
  PROVE  doing[r].meter \in Meters /\ doing[r].stamp \in Stamps
  BY DEF TypeOK, Busy, Rows

\* The type invariant is kept by every step.
LEMMA TypeStep == TypeOK /\ [Next]_vars => TypeOK'
  <1> SUFFICES ASSUME TypeOK, [Next]_vars PROVE TypeOK'
    OBVIOUS
  <1> USE DEF clock, table, task, history
  <1>1. CASE ReachTarget
    BY <1>1 DEF TypeOK, ReachTarget
  <1>2. CASE Midnight
    <2>1. day' \in Days /\ missed' \subseteq Days
      BY <1>2, BoundsAssumption DEF TypeOK, Midnight, Days
    <2>2. QED
      BY <1>2, <2>1 DEF TypeOK, Midnight
  <1>3. ASSUME NEW m \in Meters, StoreRow(m) PROVE TypeOK'
    <2>1. latest' \in [Meters -> 0 .. MaxStamp] /\ odd' \subseteq Meters
      BY <1>3, BoundsAssumption DEF TypeOK, StoreRow
    <2>2. QED
      BY <1>3, <2>1 DEF TypeOK, StoreRow
  <1>4. CASE PressButton
    <2>1. CreateRun(TRUE) /\ UNCHANGED <<loop, missed>>
      BY <1>4 DEF PressButton
    <2>2. QED
      BY <2>1, CreateRunTypes DEF TypeOK, CreateRun
  <1>5. CASE LookAtClock
    BY <1>5 DEF TypeOK, LookAtClock
  <1>6. CASE CreateScheduled
    <2>1. CreateRun(FALSE) /\ loop' = runs + 1 /\ missed' = missed
      BY <1>6 DEF CreateScheduled
    <2>2. QED
      BY <2>1, CreateRunTypes DEF TypeOK, CreateRun
  <1>7. CASE NothingToCreate
    BY <1>7 DEF TypeOK, NothingToCreate
  <1>8. CASE CreateFails
    <2>1. faults' \in 0 .. MaxFaults
      BY <1>8, BoundsAssumption DEF TypeOK, CreateFails
    <2>2. QED
      BY <1>8, <2>1 DEF TypeOK, CreateFails
  <1>9. ASSUME NEW r \in Runs, Execute(r) PROVE TypeOK'
    <2>1. CASE Connect(r)
      BY <2>1 DEF TypeOK, Connect
    <2>2. CASE ConnectFails(r)
      BY <2>2 DEF TypeOK, ConnectFails, Leave, Verdicts
    <2>3. ASSUME NEW m \in Meters, Skip(r, m) PROVE TypeOK'
      BY <2>3, PassTypes DEF TypeOK, Skip
    <2>4. ASSUME NEW m \in Meters, Refuse(r, m) PROVE TypeOK'
      <3>1. {[meter |-> m, ok |-> FALSE]} \in SUBSET [meter : Meters, ok : BOOLEAN]
        OBVIOUS
      <3>2. QED
        BY <2>4, <3>1, PassTypes DEF TypeOK, Refuse
    <2>5. ASSUME NEW m \in Meters, Take(r, m) PROVE TypeOK'
      <3>1. [meter |-> m, stamp |-> latest[m]] \in Rows
        BY <2>5, BoundsAssumption DEF TypeOK, Take, Rows, Stamps
      <3>2. QED
        BY <2>5, <3>1 DEF TypeOK, Take
    <2>6. ASSUME Busy(r), NEW ok \in BOOLEAN,
                 Pass(r, doing[r].meter, {[meter |-> doing[r].meter, ok |-> ok]}),
                 doing' = [doing EXCEPT ![r] = NoRow],
                 sent' = sent \/ Insert(r),
                 missed' = missed,
                 \/ UNCHANGED <<faults, unheard>>
                 \/ /\ faults < MaxFaults /\ faults' = faults + 1
                    /\ unheard' = unheard \cup {[run |-> r, meter |-> doing[r].meter]}
          PROVE  TypeOK'
      <3>1. doing[r].meter \in Meters /\ doing[r].stamp \in Stamps
        BY <2>6, BusyRow
      <3>2. {[meter |-> doing[r].meter, ok |-> ok]} \in SUBSET [meter : Meters, ok : BOOLEAN]
        BY <2>6, <3>1
      <3>3. sent' \subseteq [run : Runs, meter : Meters, stamp : Stamps]
        BY <2>6, <3>1 DEF TypeOK, Insert
      <3>4. doing' \in [Runs -> Rows \cup {NoRow}]
        BY <2>6 DEF TypeOK
      <3>5. unheard' \subseteq [run : Runs, meter : Meters] /\ faults' \in 0 .. MaxFaults
        BY <2>6, <3>1, BoundsAssumption DEF TypeOK
      <3>6. QED
        BY <2>6, <3>1, <3>2, <3>3, <3>4, <3>5, PassTypes DEF TypeOK
    <2>7. CASE Sent(r)
      BY <2>7, <2>6 DEF Sent
    <2>8. CASE SendFails(r)
      BY <2>8, <2>6 DEF SendFails
    <2>9. CASE SentUnheard(r)
      BY <2>9, <2>6 DEF SentUnheard
    <2>10. CASE Finish(r)
      <3>1. items' \subseteq [run : Runs, meter : Meters, ok : BOOLEAN]
        BY <2>10 DEF TypeOK, Finish
      <3>2. Verdict(flushed[r]) \in Verdicts
        BY DEF Verdict, Verdicts
      <3>3. QED
        BY <2>10, <3>1, <3>2 DEF TypeOK, Finish, Leave
    <2>11. CASE Abort(r)
      BY <2>11, BoundsAssumption DEF TypeOK, Abort, Leave
    <2>12. QED
      BY <1>9, <2>1, <2>2, <2>3, <2>4, <2>5, <2>7, <2>8, <2>9, <2>10, <2>11 DEF Execute
  <1>10. CASE Restart
    <2>1. faults' \in 0 .. MaxFaults
      BY <1>10, BoundsAssumption DEF TypeOK, Restart
    <2>2. at' \in [Runs -> {"absent", "waiting", "connected", "over"}]
      BY <1>10 DEF TypeOK, Restart
    <2>3. polled' \in BOOLEAN /\ missed' \subseteq Days
      BY <1>10 DEF TypeOK, Restart
    <2>4. QED
      BY <1>10, <2>1, <2>2, <2>3 DEF TypeOK, Restart
  <1>11. CASE UNCHANGED vars
    BY <1>11 DEF TypeOK, vars
  <1>12. QED
    BY <1>1, <1>2, <1>3, <1>4, <1>5, <1>6, <1>7, <1>8, <1>9, <1>10, <1>11 DEF Next

\* The program starts with every variable in its type.
LEMMA TypeInit == Init => TypeOK
  <1> SUFFICES ASSUME Init PROVE TypeOK
    OBVIOUS
  <1>1. 0 \in Days /\ 0 \in 0 .. MaxRuns /\ 0 \in 0 .. MaxFaults /\ 0 \in 0 .. MaxStamp
    BY Bounds, BoundsAssumption DEF Days
  <1>2. QED
    BY <1>1 DEF Init, TypeOK

\* The type invariant of the export.
THEOREM ExportTypeCorrect == Spec => []TypeOK
  BY TypeInit, TypeStep, PTL DEF Spec

-----------------------------------------------------------------------------
(* What a step may do to the books *)

\* Steps of the clock, of the loop's decision and of the profile rows.
Quiet == UNCHANGED <<sent, runs, status, manual, started, items, at,
                     since, todo, doing, flushed, prior, unheard>>

Row(r) == [run |-> r, meter |-> doing[r].meter, stamp |-> doing[r].stamp]

\* Run r passes its meter with the outcome ok, and EUDB may have got the row.
Passing(r, ok) ==
    /\ Busy(r)
    /\ Pass(r, doing[r].meter, {[meter |-> doing[r].meter, ok |-> ok]})
    /\ doing' = [doing EXCEPT ![r] = NoRow]
    /\ \/ ok /\ sent' = sent \cup {Row(r)} /\ unheard' = unheard
       \/ ~ok /\ sent' = sent /\ unheard' = unheard
       \/ /\ ~ok /\ sent' = sent \cup {Row(r)}
          /\ unheard' = unheard \cup {[run |-> r, meter |-> doing[r].meter]}

\* A step is quiet, creates a run, executes one, or is a restart.
LEMMA StepKinds ==
  ASSUME [Next]_vars
  PROVE  \/ Quiet
         \/ \E byHand \in BOOLEAN : CreateRun(byHand)
         \/ \E r \in Runs : Execute(r)
         \/ Restart
  <1> USE DEF clock, table, task, history, Quiet
  <1>1. CASE ReachTarget
    BY <1>1 DEF ReachTarget
  <1>2. CASE Midnight
    BY <1>2 DEF Midnight
  <1>3. ASSUME NEW m \in Meters, StoreRow(m) PROVE Quiet
    BY <1>3 DEF StoreRow
  <1>4. CASE PressButton
    BY <1>4 DEF PressButton
  <1>5. CASE LookAtClock
    BY <1>5 DEF LookAtClock
  <1>6. CASE CreateScheduled
    BY <1>6 DEF CreateScheduled
  <1>7. CASE NothingToCreate
    BY <1>7 DEF NothingToCreate
  <1>8. CASE CreateFails
    BY <1>8 DEF CreateFails
  <1>9. CASE UNCHANGED vars
    BY <1>9 DEF vars
  <1>10. QED
    BY <1>1, <1>2, <1>3, <1>4, <1>5, <1>6, <1>7, <1>8, <1>9 DEF Next

\* Sending, successful, failed or unheard, is one way or another of passing a meter.
LEMMA PassingKinds ==
  ASSUME NEW r \in Runs, Sent(r) \/ SendFails(r) \/ SentUnheard(r)
  PROVE  \E ok \in BOOLEAN : Passing(r, ok)
  <1>1. CASE Sent(r)
    BY <1>1 DEF Sent, Passing, Insert, Row, history
  <1>2. CASE SendFails(r)
    BY <1>2 DEF SendFails, Passing, history
  <1>3. CASE SentUnheard(r)
    BY <1>3 DEF SentUnheard, Passing, Insert, Row
  <1>4. QED
    BY <1>1, <1>2, <1>3

-----------------------------------------------------------------------------
(* The life of a run *)

Lifecycle == \A r \in Runs :
    /\ at[r] = "absent" <=> r > runs
    /\ at[r] = "absent" => status[r] = "absent"
    /\ at[r] \in {"waiting", "connected"} => status[r] = "RUNNING"
    /\ at[r] \in {"absent", "waiting"} => flushed[r] = {} /\ doing[r] = NoRow
    /\ \A q \in prior[r] : at[q] = "over"

\* Only a run that has connected has sent anything, and only one that has come to
\* its end has items.
Traces ==
    /\ \A s \in sent : at[s.run] \in {"connected", "over"}
    /\ \A i \in items : at[i.run] = "over" /\ status[i.run] # "RUNNING"

\* A run is created, connects or fails to, and ends: every step keeps that order.
LEMMA LifecycleStep ==
  ASSUME TypeOK, Lifecycle, [Next]_vars
  PROVE  Lifecycle'
  <1> USE DEF clock, table, task, history
  <1>1. CASE Quiet
    BY <1>1 DEF Quiet, Lifecycle
  <1>2. ASSUME NEW byHand \in BOOLEAN, CreateRun(byHand) PROVE Lifecycle'
    <2>1. runs + 1 \in Runs /\ runs \in Nat /\ at[runs + 1] = "absent"
      BY <1>2, CreateRunTypes, Bounds DEF TypeOK, Lifecycle
    <2>2. \A r \in Runs : r # runs + 1 => at'[r] = at[r] /\ status'[r] = status[r]
      BY <1>2 DEF CreateRun, TypeOK
    <2>3. at'[runs + 1] = "waiting" /\ status'[runs + 1] = "RUNNING" /\ runs' = runs + 1
      BY <1>2, <2>1 DEF CreateRun, TypeOK
    <2>4. flushed' = flushed /\ doing' = doing /\ prior' = prior
      BY <1>2 DEF CreateRun
    <2>5. \A r \in Runs : r \in Nat /\ prior[r] \subseteq Runs
      BY Bounds DEF Runs, TypeOK
    <2>6. QED
      BY <2>1, <2>2, <2>3, <2>4, <2>5 DEF Lifecycle
  <1>3. ASSUME NEW r \in Runs, Execute(r) PROVE Lifecycle'
    <2>1. CASE Connect(r)
      BY <2>1 DEF Connect, Lifecycle, TypeOK
    <2>2. CASE ConnectFails(r)
      BY <2>2 DEF ConnectFails, Lifecycle, TypeOK
    <2>3. ASSUME NEW m \in Meters, Skip(r, m) \/ Refuse(r, m) \/ Take(r, m) PROVE Lifecycle'
      BY <2>3 DEF Skip, Refuse, Take, Pass, Free, Lifecycle, TypeOK
    <2>4. ASSUME NEW ok \in BOOLEAN, Passing(r, ok) PROVE Lifecycle'
      BY <2>4 DEF Passing, Pass, Busy, Lifecycle, TypeOK
    <2>5. CASE Finish(r)
      <3>1. Verdict(flushed[r]) # "absent"
        BY DEF Verdict
      <3>2. QED
        BY <2>5, <3>1 DEF Finish, Free, Lifecycle, TypeOK
    <2>6. CASE Abort(r)
      BY <2>6 DEF Abort, Lifecycle, TypeOK
    <2>7. QED
      BY <1>3, <2>1, <2>2, <2>3, <2>4, <2>5, <2>6, PassingKinds DEF Execute
  <1>4. CASE Restart
    BY <1>4 DEF Restart, Lifecycle, TypeOK
  <1>5. QED
    BY <1>1, <1>2, <1>3, <1>4, StepKinds

\* No step leaves a trace of a run that has not come so far.
LEMMA TracesStep ==
  ASSUME TypeOK, Lifecycle, Traces, [Next]_vars
  PROVE  Traces'
  <1> USE DEF clock, table, task, history
  <1>1. CASE Quiet
    BY <1>1 DEF Quiet, Traces
  <1>2. ASSUME NEW byHand \in BOOLEAN, CreateRun(byHand) PROVE Traces'
    <2>1. runs + 1 \in Runs /\ at[runs + 1] = "absent"
      BY <1>2, CreateRunTypes, Bounds DEF TypeOK, Lifecycle
    <2>2. QED
      BY <1>2, <2>1 DEF CreateRun, Traces, TypeOK
  <1>3. ASSUME NEW r \in Runs, Execute(r) PROVE Traces'
    <2>1. CASE Connect(r)
      BY <2>1 DEF Connect, Traces, TypeOK
    <2>2. CASE ConnectFails(r)
      BY <2>2 DEF ConnectFails, Traces, TypeOK
    <2>3. ASSUME NEW m \in Meters, Skip(r, m) \/ Refuse(r, m) \/ Take(r, m) PROVE Traces'
      BY <2>3 DEF Skip, Refuse, Take, Pass, Traces
    <2>4. ASSUME NEW ok \in BOOLEAN, Passing(r, ok) PROVE Traces'
      BY <2>4 DEF Passing, Pass, Busy, Row, Traces, TypeOK
    <2>5. CASE Finish(r)
      <3>1. Verdict(flushed[r]) # "RUNNING"
        BY DEF Verdict
      <3>2. QED
        BY <2>5, <3>1 DEF Finish, Free, Traces, TypeOK
    <2>6. CASE Abort(r)
      BY <2>6 DEF Abort, Traces, TypeOK
    <2>7. QED
      BY <1>3, <2>1, <2>2, <2>3, <2>4, <2>5, <2>6, PassingKinds DEF Execute
  <1>4. CASE Restart
    BY <1>4 DEF Restart, Traces, TypeOK
  <1>5. QED
    BY <1>1, <1>2, <1>3, <1>4, StepKinds

-----------------------------------------------------------------------------
(* Our books and EUDB *)

InEudbOf(r, m) == \E s \in sent : s.run = r /\ s.meter = m
Booked(r, m) == \E i \in items : i.run = r /\ i.ok /\ i.meter = m
Unheard(r, m) == [run |-> r, meter |-> m] \in unheard

\* What a run has kept for its commit agrees with EUDB, and then what it has committed.
LedgerOf(r) ==
    /\ at[r] = "connected" =>
         /\ \A i \in flushed[r] : i.ok => InEudbOf(r, i.meter)
         /\ \A s \in sent : s.run = r =>
              [meter |-> s.meter, ok |-> TRUE] \in flushed[r] \/ Unheard(r, s.meter)
    /\ at[r] = "over" /\ ~CutShort(r) =>
         /\ \A i \in items : i.run = r /\ i.ok => InEudbOf(r, i.meter)
         /\ \A s \in sent : s.run = r => Booked(r, s.meter) \/ Unheard(r, s.meter)
Ledger == \A r \in Runs : LedgerOf(r)

\* A step that touches neither EUDB nor an outcome keeps the ledger.
LEMMA LedgerKept ==
  ASSUME Ledger, NEW r \in Runs, sent' = sent, items' = items, unheard' = unheard,
         flushed'[r] = flushed[r],
         at'[r] = "connected" => at[r] = "connected",
         at'[r] = "over" /\ ~CutShort(r)' => at[r] = "over" /\ ~CutShort(r)
  PROVE  LedgerOf(r)'
  BY DEF Ledger, LedgerOf, InEudbOf, Booked, Unheard

\* The ledger of a run is kept by the passing of a meter, its own or another's.
LEMMA LedgerPass ==
  ASSUME TypeOK, Lifecycle, Ledger, NEW q \in Runs, NEW ok \in BOOLEAN, Passing(q, ok),
         NEW r \in Runs
  PROVE  LedgerOf(r)'
  <1>1. /\ at' = at /\ items' = items /\ status' = status
        /\ sent \subseteq sent' /\ unheard \subseteq unheard'
        /\ \A s \in sent' : s \in sent \/ s = Row(q)
    BY DEF Passing, Pass, table
  <1>2. at[q] = "connected" /\ status[q] = "RUNNING"
    BY DEF Passing, Busy, Lifecycle
  <1>3. CASE r # q
    <2>1. flushed'[r] = flushed[r] /\ \A s \in sent' : s.run = r => s \in sent
      BY <1>1, <1>3 DEF Passing, Pass, Row, TypeOK
    <2>2. QED
      BY <1>1, <2>1 DEF Ledger, LedgerOf, CutShort, InEudbOf, Booked, Unheard
  <1>4. CASE r = q
    <2> DEFINE d == doing[q].meter
    <2>1. flushed'[q] = flushed[q] \cup {[meter |-> d, ok |-> ok]}
      BY DEF Passing, Pass, TypeOK
    <2>2. \A i \in flushed'[q] : i.ok => InEudbOf(q, i.meter)'
      <3> SUFFICES ASSUME NEW i \in flushed'[q], i.ok PROVE InEudbOf(q, i.meter)'
        OBVIOUS
      <3>1. CASE i \in flushed[q]
        BY <1>1, <1>2, <3>1 DEF Ledger, LedgerOf, InEudbOf
      <3>2. CASE i = [meter |-> d, ok |-> ok]
        <4>1. ok /\ Row(q) \in sent'
          BY <3>2 DEF Passing
        <4>2. QED
          BY <3>2, <4>1 DEF InEudbOf, Row
      <3>3. QED
        BY <2>1, <3>1, <3>2
    <2>3. \A s \in sent' : s.run = q =>
            [meter |-> s.meter, ok |-> TRUE] \in flushed'[q] \/ Unheard(q, s.meter)'
      <3> SUFFICES ASSUME NEW s \in sent', s.run = q
                   PROVE  [meter |-> s.meter, ok |-> TRUE] \in flushed'[q] \/ Unheard(q, s.meter)'
        OBVIOUS
      <3>1. CASE s \in sent
        BY <1>1, <1>2, <2>1, <3>1 DEF Ledger, LedgerOf, Unheard
      <3>2. CASE s = Row(q) /\ s \notin sent
        <4>1. s.meter = d
          BY <3>2 DEF Row
        <4>2. CASE ok
          BY <2>1, <4>1, <4>2
        <4>3. CASE ~ok
          BY <3>2, <4>1, <4>3 DEF Passing, Unheard
        <4>4. QED
          BY <4>2, <4>3
      <3>3. QED
        BY <1>1, <3>1, <3>2
    <2>4. QED
      BY <1>1, <1>2, <1>4, <2>2, <2>3 DEF LedgerOf, CutShort
  <1>5. QED
    BY <1>3, <1>4

\* The commit at the end moves what was kept into the books.
LEMMA LedgerFinish ==
  ASSUME TypeOK, Traces, Ledger, NEW q \in Runs, Finish(q), NEW r \in Runs
  PROVE  LedgerOf(r)'
  <1> DEFINE New == {[run |-> q, meter |-> i.meter, ok |-> i.ok] : i \in flushed[q]}
  <1>1. /\ sent' = sent /\ unheard' = unheard /\ flushed' = flushed
        /\ items' = items \cup New /\ at[q] = "connected"
    BY DEF Finish, Free, task, history
  <1>2. CASE r # q
    <2>1. at'[r] = at[r] /\ status'[r] = status[r]
      BY <1>2 DEF Finish, TypeOK
    <2>2. \A i \in items' : i.run = r => i \in items
      BY <1>1, <1>2
    <2>3. QED
      BY <1>1, <2>1, <2>2 DEF Ledger, LedgerOf, CutShort, InEudbOf, Booked, Unheard
  <1>3. CASE r = q
    <2>1. at'[q] = "over"
      BY DEF Finish, TypeOK
    <2>2. \A i \in items' : i.run = q => i \in New
      BY <1>1 DEF Traces
    <2>3. \A i \in items' : i.run = q /\ i.ok => InEudbOf(q, i.meter)'
      <3> SUFFICES ASSUME NEW i \in items', i.run = q, i.ok PROVE InEudbOf(q, i.meter)'
        OBVIOUS
      <3>1. PICK j \in flushed[q] : i = [run |-> q, meter |-> j.meter, ok |-> j.ok]
        BY <2>2
      <3>2. QED
        BY <1>1, <3>1 DEF Ledger, LedgerOf, InEudbOf
    <2>4. \A s \in sent : s.run = q => Booked(q, s.meter)' \/ Unheard(q, s.meter)'
      <3> SUFFICES ASSUME NEW s \in sent, s.run = q, ~Unheard(q, s.meter)
                   PROVE  Booked(q, s.meter)'
        BY <1>1 DEF Unheard
      <3>1. [meter |-> s.meter, ok |-> TRUE] \in flushed[q]
        BY <1>1 DEF Ledger, LedgerOf
      <3> DEFINE mine == [meter |-> s.meter, ok |-> TRUE]
      <3>2. [run |-> q, meter |-> mine.meter, ok |-> mine.ok] \in New
        BY <3>1
      <3>3. [run |-> q, meter |-> s.meter, ok |-> TRUE] \in items'
        BY <1>1, <3>2
      <3>4. QED
        BY <3>3 DEF Booked
    <2>5. QED
      BY <1>1, <1>3, <2>1, <2>3, <2>4 DEF LedgerOf
  <1>4. QED
    BY <1>2, <1>3

\* The ledger is kept by every step.
LEMMA LedgerStep ==
  ASSUME TypeOK, Lifecycle, Traces, Ledger, [Next]_vars
  PROVE  Ledger'
  <1> USE DEF clock, table, task, history
  <1> SUFFICES ASSUME NEW r \in Runs PROVE LedgerOf(r)'
    BY DEF Ledger
  <1>1. CASE Quiet
    BY <1>1, LedgerKept DEF Quiet, CutShort
  <1>2. ASSUME NEW byHand \in BOOLEAN, CreateRun(byHand) PROVE LedgerOf(r)'
    <2>1. runs + 1 \in Runs /\ at'[runs + 1] = "waiting"
      BY <1>2, CreatedWaits
    <2>2. r # runs + 1 => at'[r] = at[r] /\ status'[r] = status[r]
      BY <1>2 DEF CreateRun, TypeOK
    <2>3. sent' = sent /\ items' = items /\ unheard' = unheard /\ flushed' = flushed
      BY <1>2 DEF CreateRun
    <2>4. QED
      BY <2>1, <2>2, <2>3, LedgerKept DEF CutShort
  <1>3. ASSUME NEW q \in Runs, Execute(q) PROVE LedgerOf(r)'
    <2>1. CASE Connect(q)
      <3>1. /\ sent' = sent /\ items' = items /\ unheard' = unheard /\ flushed' = flushed
            /\ status' = status /\ at[q] = "waiting" /\ at'[q] = "connected"
        BY <2>1 DEF Connect, TypeOK
      <3>2. CASE r # q
        BY <2>1, <3>1, <3>2, LedgerKept DEF Connect, CutShort, TypeOK
      <3>3. CASE r = q
        BY <3>1, <3>3 DEF Lifecycle, Traces, LedgerOf
      <3>4. QED
        BY <3>2, <3>3
    <2>2. CASE ConnectFails(q)
      <3>1. /\ sent' = sent /\ items' = items /\ unheard' = unheard /\ flushed' = flushed
            /\ at[q] = "waiting" /\ at'[q] = "over"
        BY <2>2 DEF ConnectFails, TypeOK
      <3>2. CASE r # q
        BY <2>2, <3>1, <3>2, LedgerKept DEF ConnectFails, CutShort, TypeOK
      <3>3. CASE r = q
        BY <3>1, <3>3 DEF Traces, LedgerOf
      <3>4. QED
        BY <3>2, <3>3
    <2>3. ASSUME NEW m \in Meters, Skip(q, m) \/ Take(q, m) PROVE LedgerOf(r)'
      <3>1. /\ sent' = sent /\ items' = items /\ unheard' = unheard
            /\ status' = status /\ at' = at /\ flushed'[r] = flushed[r]
        BY <2>3 DEF Skip, Take, Pass, TypeOK
      <3>2. QED
        BY <3>1, LedgerKept DEF CutShort
    <2>4. ASSUME NEW m \in Meters, Refuse(q, m) PROVE LedgerOf(r)'
      <3>1. /\ sent' = sent /\ items' = items /\ unheard' = unheard
            /\ status' = status /\ at' = at /\ flushed[r] \subseteq flushed'[r]
        BY <2>4 DEF Refuse, Pass, TypeOK
      <3>2. \A i \in flushed'[r] : i.ok => i \in flushed[r]
        BY <2>4 DEF Refuse, Pass, TypeOK
      <3>3. QED
        BY <3>1, <3>2 DEF Ledger, LedgerOf, CutShort, InEudbOf, Booked, Unheard
    <2>5. ASSUME NEW ok \in BOOLEAN, Passing(q, ok) PROVE LedgerOf(r)'
      BY <2>5, LedgerPass
    <2>6. CASE Finish(q)
      BY <2>6, LedgerFinish
    <2>7. CASE Abort(q)
      <3>1. /\ sent' = sent /\ items' = items /\ unheard' = unheard /\ flushed' = flushed
            /\ status' = status /\ status[q] = "RUNNING" /\ at'[q] = "over"
            /\ r # q => at'[r] = at[r]
        BY <2>7 DEF Abort, TypeOK, Lifecycle
      <3>2. QED
        BY <3>1, LedgerKept DEF CutShort
    <2>8. QED
      BY <1>3, <2>1, <2>2, <2>3, <2>4, <2>5, <2>6, <2>7, PassingKinds DEF Execute
  <1>4. CASE Restart
    <2>1. /\ sent' = sent /\ items' = items /\ unheard' = unheard /\ flushed' = flushed
          /\ status' = status /\ at'[r] # "connected"
      BY <1>4 DEF Restart, TypeOK
    <2>2. at'[r] = "over" /\ status[r] # "RUNNING" => at[r] = "over"
      BY <1>4 DEF Restart, TypeOK, Lifecycle
    <2>3. QED
      BY <2>1, <2>2, LedgerKept DEF CutShort
  <1>5. QED
    BY <1>1, <1>2, <1>3, <1>4, StepKinds

\* The invariant of the books: types, the life of the runs, and the ledger.
Books == TypeOK /\ Lifecycle /\ Traces /\ Ledger

\* It holds of the program as it starts.
LEMMA BooksInit == Init => Books
  <1> SUFFICES ASSUME Init PROVE Books
    OBVIOUS
  <1>1. TypeOK
    BY TypeInit
  <1>2. \A r \in Runs : r > runs
    BY DEF Init, Runs
  <1>3. Lifecycle /\ Traces /\ Ledger
    BY <1>2 DEF Init, Lifecycle, Traces, Ledger, LedgerOf
  <1>4. QED
    BY <1>1, <1>3 DEF Books

\* It is kept by every step.
LEMMA BooksStep == Books /\ [Next]_vars => Books'
  BY TypeStep, LifecycleStep, TracesStep, LedgerStep DEF Books

\* The invariant of the books holds throughout.
LEMMA BooksHold == Spec => []Books
  BY BooksInit, BooksStep, PTL DEF Spec

\* Two databases without a common transaction: what a finished run has recorded as
\* exported is in EUDB, and what it has put there is recorded, lost answers aside.
THEOREM ExportBooksAgree == Spec => []BooksAgree
  <1>1. Books => BooksAgree
    <2> SUFFICES ASSUME Books, NEW r \in Runs, at[r] = "over", ~CutShort(r)
                 PROVE  BooksAgree!(r)!2
      BY DEF BooksAgree
    <2> DEFINE booked == {i.meter : i \in {j \in items : j.run = r /\ j.ok}}
               there == {s.meter : s \in {t \in sent : t.run = r}}
    <2>1. booked \subseteq there
      BY DEF Books, Ledger, LedgerOf, InEudbOf
    <2>2. \A m \in there \ booked : [run |-> r, meter |-> m] \in unheard
      BY DEF Books, Ledger, LedgerOf, Booked, Unheard
    <2>3. QED
      BY <2>1, <2>2
  <1>2. QED
    BY <1>1, BooksHold, PTL

-----------------------------------------------------------------------------
(* The guard against sending twice *)

\* Once a run has connected, its day, its creation and the runs before it are settled;
\* once it is over, so is its verdict.
LEMMA SettledStays ==
  ASSUME TypeOK, Lifecycle, [Next]_vars, NEW r \in Runs, at[r] \in {"connected", "over"}
  PROVE  /\ at'[r] \in {"connected", "over"}
         /\ since'[r] = since[r] /\ prior'[r] = prior[r] /\ started'[r] = started[r]
         /\ at[r] = "over" => at'[r] = "over" /\ status'[r] = status[r]
  <1> USE DEF clock, table, task, history
  <1>1. CASE Quiet
    BY <1>1 DEF Quiet
  <1>2. ASSUME NEW byHand \in BOOLEAN, CreateRun(byHand)
        PROVE  /\ at'[r] = at[r] /\ status'[r] = status[r] /\ started'[r] = started[r]
               /\ UNCHANGED <<since, prior>>
    <2>1. runs + 1 \in Runs /\ r # runs + 1
      BY <1>2, CreateRunTypes, Bounds DEF TypeOK, Lifecycle
    <2>2. QED
      BY <1>2, <2>1 DEF CreateRun, TypeOK
  <1>3. ASSUME NEW q \in Runs, Execute(q)
        PROVE  /\ at'[r] \in {"connected", "over"}
               /\ since'[r] = since[r] /\ prior'[r] = prior[r] /\ started' = started
               /\ at[r] = "over" => at'[r] = "over" /\ status'[r] = status[r]
    <2>1. CASE Connect(q)
      BY <2>1 DEF Connect, TypeOK
    <2>2. CASE ConnectFails(q)
      BY <2>2 DEF ConnectFails, TypeOK
    <2>3. ASSUME NEW m \in Meters, Skip(q, m) \/ Refuse(q, m) \/ Take(q, m)
          PROVE  UNCHANGED <<at, since, prior, started, status>>
      BY <2>3 DEF Skip, Refuse, Take, Pass
    <2>4. ASSUME NEW ok \in BOOLEAN, Passing(q, ok)
          PROVE  UNCHANGED <<at, since, prior, started, status>>
      BY <2>4 DEF Passing, Pass
    <2>5. CASE Finish(q)
      BY <2>5 DEF Finish, Free, TypeOK
    <2>6. CASE Abort(q)
      BY <2>6 DEF Abort, TypeOK
    <2>7. QED
      BY <1>3, <2>1, <2>2, <2>3, <2>4, <2>5, <2>6, PassingKinds DEF Execute
  <1>4. CASE Restart
    BY <1>4 DEF Restart, TypeOK
  <1>5. QED
    BY <1>1, <1>2, <1>3, <1>4, StepKinds

\* The reasons for which run r may send the meter of row a again.
Explained(a, r) == CutShort(a.run) \/ Unheard(a.run, a.meter) \/ started[a.run] < since[r]

\* The row a run is about to send has been looked up in the books.
Guarded == \A r \in Runs : Busy(r) =>
    \A a \in sent : a.meter = doing[r].meter /\ a.run \in prior[r] => Explained(a, r)

\* A reason stays one.
LEMMA ExplainedStays ==
  ASSUME TypeOK, Lifecycle, [Next]_vars, unheard \subseteq unheard',
         NEW a \in sent, NEW r \in Runs, at[r] \in {"connected", "over"}, a.run \in prior[r],
         Explained(a, r)
  PROVE  Explained(a, r)'
  <1>1. a.run \in Runs /\ at[a.run] = "over"
    BY DEF TypeOK, Lifecycle
  <1>2. status'[a.run] = status[a.run] /\ started'[a.run] = started[a.run]
    BY <1>1, SettledStays
  <1>3. since'[r] = since[r]
    BY SettledStays
  <1>4. QED
    BY <1>2, <1>3 DEF Explained, CutShort, Unheard

\* EUDB grows by the row of one busy run at a time.
LEMMA SentGrows ==
  ASSUME [Next]_vars
  PROVE  /\ unheard \subseteq unheard'
         /\ sent' = sent \/ \E q \in Runs : Busy(q) /\ sent' = sent \cup {Row(q)}
  <1> USE DEF clock, table, task, history
  <1>1. CASE Quiet
    BY <1>1 DEF Quiet
  <1>2. ASSUME NEW byHand \in BOOLEAN, CreateRun(byHand) PROVE UNCHANGED <<sent, unheard>>
    BY <1>2 DEF CreateRun
  <1>3. ASSUME NEW q \in Runs, Execute(q)
        PROVE  /\ unheard \subseteq unheard'
               /\ sent' = sent \/ (Busy(q) /\ sent' = sent \cup {Row(q)})
    <2>1. CASE Connect(q) \/ ConnectFails(q) \/ Finish(q) \/ Abort(q)
      BY <2>1 DEF Connect, ConnectFails, Finish, Abort
    <2>2. ASSUME NEW m \in Meters, Skip(q, m) \/ Refuse(q, m) \/ Take(q, m)
          PROVE  UNCHANGED <<sent, unheard>>
      BY <2>2 DEF Skip, Refuse, Take
    <2>3. ASSUME NEW ok \in BOOLEAN, Passing(q, ok)
          PROVE  /\ unheard \subseteq unheard'
                 /\ sent' = sent \/ (Busy(q) /\ sent' = sent \cup {Row(q)})
      BY <2>3 DEF Passing
    <2>4. QED
      BY <1>3, <2>1, <2>2, <2>3, PassingKinds DEF Execute
  <1>4. CASE Restart
    BY <1>4 DEF Restart
  <1>5. QED
    BY <1>1, <1>2, <1>3, <1>4, StepKinds

\* A run is busy with a row it was busy with before, or with one it has just taken.
LEMMA BusyBefore ==
  ASSUME TypeOK, Lifecycle, [Next]_vars, NEW r \in Runs, Busy(r)'
  PROVE  \/ Busy(r) /\ doing'[r] = doing[r]
         \/ \E m \in Meters : Take(r, m)
  <1> USE DEF clock, table, task, history, Busy
  <1>1. CASE Quiet
    BY <1>1 DEF Quiet
  <1>2. ASSUME NEW byHand \in BOOLEAN, CreateRun(byHand)
        PROVE  Busy(r) /\ doing'[r] = doing[r]
    <2>1. runs + 1 \in Runs /\ at'[runs + 1] = "waiting"
      BY <1>2, CreatedWaits
    <2>2. QED
      BY <1>2, <2>1 DEF CreateRun, TypeOK
  <1>3. ASSUME NEW q \in Runs, Execute(q)
        PROVE  \/ Busy(r) /\ doing'[r] = doing[r]
               \/ \E m \in Meters : Take(r, m)
    <2>1. CASE Connect(q)
      BY <2>1 DEF Connect, TypeOK, Lifecycle
    <2>2. CASE ConnectFails(q) \/ Finish(q) \/ Abort(q)
      BY <2>2 DEF ConnectFails, Finish, Abort, TypeOK
    <2>3. ASSUME NEW m \in Meters, Skip(q, m) \/ Refuse(q, m) PROVE Busy(r) /\ doing'[r] = doing[r]
      BY <2>3 DEF Skip, Refuse, Pass
    <2>4. ASSUME NEW m \in Meters, Take(q, m), r # q PROVE Busy(r) /\ doing'[r] = doing[r]
      BY <2>4 DEF Take, TypeOK
    <2>5. ASSUME NEW ok \in BOOLEAN, Passing(q, ok) PROVE Busy(r) /\ doing'[r] = doing[r]
      BY <2>5 DEF Passing, Pass, TypeOK
    <2>6. QED
      BY <1>3, <2>1, <2>2, <2>3, <2>4, <2>5, PassingKinds DEF Execute
  <1>4. CASE Restart
    BY <1>4 DEF Restart, TypeOK
  <1>5. QED
    BY <1>1, <1>2, <1>3, <1>4, StepKinds

\* A busy run is among no run's predecessors, so a row it sends is not one of theirs.
LEMMA EarlierRowIsOld ==
  ASSUME TypeOK, Lifecycle, NEW q \in Runs, Busy(q), sent' = sent \/ sent' = sent \cup {Row(q)},
         NEW a \in sent', NEW r \in Runs, a.run \in prior[r]
  PROVE  a \in sent
  BY DEF Row, Busy, Lifecycle

\* What is taken has been looked up.
LEMMA GuardedTake ==
  ASSUME Books, NEW r \in Runs, NEW m \in Meters, Take(r, m),
         NEW a \in sent, a.meter = m, a.run \in prior[r]
  PROVE  Explained(a, r)
  <1> SUFFICES ASSUME ~CutShort(a.run), ~Unheard(a.run, a.meter)
               PROVE  started[a.run] < since[r]
    BY DEF Explained
  <1>1. a.run \in Runs /\ at[a.run] = "over"
    BY DEF Books, TypeOK, Lifecycle
  <1>2. Booked(a.run, m)
    BY <1>1 DEF Books, Ledger, LedgerOf
  <1>3. ~(started[a.run] >= since[r])
    BY <1>2 DEF Take, AlreadyExportedToday, Booked
  <1>4. started[a.run] \in Nat /\ since[r] \in Nat
    BY <1>1 DEF Books, TypeOK, Days
  <1>5. QED
    BY <1>3, <1>4

\* The row a run is about to send stays looked up.
LEMMA GuardedStep ==
  ASSUME Books, Guarded, [Next]_vars
  PROVE  Guarded'
  <1> SUFFICES ASSUME NEW r \in Runs, Busy(r)', NEW a \in sent',
                      a.meter = doing'[r].meter, a.run \in prior'[r]
               PROVE  Explained(a, r)'
    BY DEF Guarded
  <1> USE DEF Books
  <1>1. at[r] = "connected" /\ prior'[r] = prior[r]
    BY BusyBefore, SettledStays DEF Busy, Take, Free
  <1>2. a \in sent
    BY <1>1, SentGrows, EarlierRowIsOld
  <1>3. Explained(a, r)
    <2>1. CASE Busy(r) /\ doing'[r] = doing[r]
      BY <1>1, <1>2, <2>1 DEF Guarded
    <2>2. ASSUME NEW m \in Meters, Take(r, m) PROVE Explained(a, r)
      <3>1. a.meter = m
        BY <2>2 DEF Take, TypeOK
      <3>2. QED
        BY <1>1, <1>2, <2>2, <3>1, GuardedTake
    <2>3. QED
      BY <2>1, <2>2, BusyBefore
  <1>4. QED
    BY <1>1, <1>2, <1>3, SentGrows, ExplainedStays

\* What a run sends is, by then, explained.
LEMMA RepeatsStep ==
  ASSUME Books, Guarded, RepeatsExplained, [Next]_vars
  PROVE  RepeatsExplained'
  <1> SUFFICES ASSUME NEW a \in sent', NEW b \in sent',
                      a.meter = b.meter, a.run \in prior'[b.run]
               PROVE  Explained(a, b.run)'
    BY DEF RepeatsExplained, Explained, Unheard
  <1> USE DEF Books
  <1>1. b.run \in Runs /\ at[b.run] \in {"connected", "over"}
    BY SentGrows DEF TypeOK, Traces, Row, Busy
  <1>2. prior'[b.run] = prior[b.run]
    BY <1>1, SettledStays
  <1>3. a \in sent
    BY <1>1, <1>2, SentGrows, EarlierRowIsOld
  <1>4. Explained(a, b.run)
    <2>1. CASE b \in sent
      BY <1>2, <1>3, <2>1 DEF RepeatsExplained, Explained, Unheard
    <2>2. CASE b \notin sent
      <3>1. PICK q \in Runs : Busy(q) /\ b = Row(q)
        BY <2>2, SentGrows
      <3>2. b.run = q /\ b.meter = doing[q].meter
        BY <3>1 DEF Row
      <3>3. QED
        BY <1>2, <1>3, <3>1, <3>2 DEF Guarded
    <2>3. QED
      BY <2>1, <2>2
  <1>5. QED
    BY <1>1, <1>2, <1>3, <1>4, SentGrows, ExplainedStays

\* The guard against sending twice: a run sends nothing of a meter that a run before it
\* has sent, unless that one was cut short, did not hear that EUDB had committed, or
\* counts as a run of an earlier day.
THEOREM ExportRepeatsExplained == Spec => []RepeatsExplained
  <1>1. Init => Guarded /\ RepeatsExplained
    BY DEF Init, Guarded, RepeatsExplained
  <1>2. Books /\ Guarded /\ RepeatsExplained /\ [Next]_vars => Guarded' /\ RepeatsExplained'
    BY GuardedStep, RepeatsStep
  <1>3. QED
    BY <1>1, <1>2, BooksInit, BooksStep, PTL DEF Spec

-----------------------------------------------------------------------------
(* What a success covers *)

\* A connected run has, of every meter behind it, an outcome of its own or the one it
\* skipped the meter for.
Coverage == \A r \in Runs : at[r] = "connected" =>
    \A m \in Meters \ todo[r] :
        AlreadyExportedToday(r, m) \/ \E i \in flushed[r] : i.meter = m

\* Items stay, and the runs they belong to are not created again.
LEMMA ItemsStay ==
  ASSUME TypeOK, Lifecycle, Traces, [Next]_vars
  PROVE  \A i \in items : i \in items' /\ i.run \in Runs /\ started'[i.run] = started[i.run]
  <1> USE DEF clock, table, task, history
  <1>1. \A i \in items : i.run \in Runs /\ started'[i.run] = started[i.run]
    BY SettledStays DEF TypeOK, Traces
  <1>2. CASE Quiet
    BY <1>1, <1>2 DEF Quiet
  <1>3. ASSUME NEW byHand \in BOOLEAN, CreateRun(byHand) PROVE items' = items
    BY <1>3 DEF CreateRun
  <1>4. ASSUME NEW q \in Runs, Execute(q) PROVE items \subseteq items'
    <2>1. CASE Connect(q) \/ ConnectFails(q) \/ Finish(q) \/ Abort(q)
      BY <2>1 DEF Connect, ConnectFails, Finish, Abort
    <2>2. ASSUME NEW m \in Meters, Skip(q, m) \/ Refuse(q, m) \/ Take(q, m)
          PROVE  items' = items
      BY <2>2 DEF Skip, Refuse, Take, Pass
    <2>3. ASSUME NEW ok \in BOOLEAN, Passing(q, ok) PROVE items' = items
      BY <2>3 DEF Passing, Pass
    <2>4. QED
      BY <1>4, <2>1, <2>2, <2>3, PassingKinds DEF Execute
  <1>5. CASE Restart
    BY <1>1, <1>5 DEF Restart
  <1>6. QED
    BY <1>1, <1>2, <1>3, <1>4, <1>5, StepKinds

\* What has been exported on the day of a run stays exported.
LEMMA ExportedStays ==
  ASSUME TypeOK, Lifecycle, Traces, [Next]_vars, NEW r \in Runs, since'[r] = since[r],
         NEW m \in Meters, AlreadyExportedToday(r, m)
  PROVE  AlreadyExportedToday(r, m)'
  BY ItemsStay DEF AlreadyExportedToday

\* A meter is behind a connected run because it was before, or because this step has
\* skipped it or left an outcome of it.
LEMMA CoverageStep ==
  ASSUME TypeOK, Lifecycle, Traces, Coverage, [Next]_vars
  PROVE  Coverage'
  <1> USE DEF clock, table, task, history
  <1> SUFFICES ASSUME NEW r \in Runs, at'[r] = "connected", NEW m \in Meters \ todo'[r]
               PROVE  AlreadyExportedToday(r, m)' \/ \E i \in flushed'[r] : i.meter = m
    BY DEF Coverage
  <1> DEFINE Same == at[r] = "connected" /\ todo'[r] = todo[r] /\ flushed'[r] = flushed[r]
  <1>1. ASSUME Same PROVE AlreadyExportedToday(r, m)' \/ \E i \in flushed'[r] : i.meter = m
    <2>1. since'[r] = since[r]
      BY <1>1, SettledStays
    <2>2. QED
      BY <1>1, <2>1, ExportedStays DEF Coverage
  <1>2. CASE Quiet
    BY <1>1, <1>2 DEF Quiet
  <1>3. ASSUME NEW byHand \in BOOLEAN, CreateRun(byHand) PROVE Same
    <2>1. runs + 1 \in Runs /\ at'[runs + 1] = "waiting"
      BY <1>3, CreatedWaits
    <2>2. QED
      BY <1>3, <2>1 DEF CreateRun, TypeOK
  <1>4. ASSUME NEW q \in Runs, Execute(q)
        PROVE  AlreadyExportedToday(r, m)' \/ \E i \in flushed'[r] : i.meter = m
    <2>1. CASE Connect(q)
      <3>1. r # q
        BY <2>1 DEF Connect, TypeOK
      <3>2. QED
        BY <1>1, <2>1, <3>1 DEF Connect, TypeOK
    <2>2. CASE ConnectFails(q) \/ Finish(q) \/ Abort(q)
      BY <1>1, <2>2 DEF ConnectFails, Finish, Abort, TypeOK
    <2>3. ASSUME NEW n \in Meters, Skip(q, n)
          PROVE  AlreadyExportedToday(r, m)' \/ \E i \in flushed'[r] : i.meter = m
      <3>1. CASE r = q /\ m = n
        <4>1. AlreadyExportedToday(q, n) /\ since' = since
          BY <2>3 DEF Skip, Pass
        <4>2. QED
          BY <3>1, <4>1, ExportedStays
      <3>2. CASE r # q \/ m # n
        <4>1. /\ at' = at /\ since' = since /\ flushed'[r] = flushed[r]
              /\ m \in Meters \ todo[r]
          BY <2>3, <3>2 DEF Skip, Pass, TypeOK
        <4>2. QED
          BY <4>1, ExportedStays DEF Coverage
      <3>3. QED
        BY <3>1, <3>2
    <2>4. ASSUME NEW n \in Meters, NEW ok \in BOOLEAN, Pass(q, n, {[meter |-> n, ok |-> ok]})
          PROVE  AlreadyExportedToday(r, m)' \/ \E i \in flushed'[r] : i.meter = m
      <3>1. CASE r = q /\ m = n
        <4>1. [meter |-> n, ok |-> ok] \in flushed'[q]
          BY <2>4 DEF Pass, TypeOK
        <4>2. QED
          BY <3>1, <4>1
      <3>2. CASE r # q \/ m # n
        <4>1. /\ at' = at /\ since' = since /\ flushed[r] \subseteq flushed'[r]
              /\ m \in Meters \ todo[r]
          BY <2>4, <3>2 DEF Pass, TypeOK
        <4>2. QED
          BY <4>1, ExportedStays DEF Coverage
      <3>3. QED
        BY <3>1, <3>2
    <2>5. ASSUME NEW n \in Meters, Refuse(q, n)
          PROVE  AlreadyExportedToday(r, m)' \/ \E i \in flushed'[r] : i.meter = m
      BY <2>4, <2>5 DEF Refuse
    <2>6. ASSUME NEW n \in Meters, Take(q, n) PROVE Same
      BY <2>6 DEF Take
    <2>7. ASSUME NEW ok \in BOOLEAN, Passing(q, ok)
          PROVE  AlreadyExportedToday(r, m)' \/ \E i \in flushed'[r] : i.meter = m
      BY <2>4, <2>7, BusyRow DEF Passing
    <2>8. QED
      BY <1>1, <1>4, <2>1, <2>2, <2>3, <2>5, <2>6, <2>7, PassingKinds DEF Execute
  <1>5. CASE Restart
    BY <1>5 DEF Restart, TypeOK
  <1>6. QED
    BY <1>1, <1>2, <1>3, <1>4, <1>5, StepKinds

\* A run that ends as SUCCEEDED has an item of every meter it has not skipped.
LEMMA SuccessOfFinish ==
  ASSUME TypeOK, Coverage, NEW q \in Runs, Finish(q), status'[q] = "SUCCEEDED",
         NEW m \in Meters
  PROVE  \E i \in items' : i.meter = m /\ i.ok /\ (i.run = q \/ started'[i.run] >= since'[q])
  <1>1. /\ at[q] = "connected" /\ todo[q] = {} /\ items \subseteq items'
        /\ started' = started /\ since' = since
    BY DEF Finish, Free, task
  <1>2. \A i \in flushed[q] : i.ok
    BY DEF Finish, Verdict, TypeOK
  <1>3. CASE AlreadyExportedToday(q, m)
    BY <1>1, <1>3 DEF AlreadyExportedToday
  <1>4. ASSUME NEW i \in flushed[q], i.meter = m
        PROVE  \E j \in items' : j.meter = m /\ j.ok /\ j.run = q
    <2>1. [run |-> q, meter |-> i.meter, ok |-> i.ok] \in items'
      BY DEF Finish
    <2>2. QED
      BY <1>2, <1>4, <2>1
  <1>5. QED
    BY <1>1, <1>3, <1>4 DEF Coverage

\* The verdict SUCCEEDED is given at the end of a run and not taken back.
LEMMA SuccessIsGiven ==
  ASSUME TypeOK, Lifecycle, [Next]_vars, NEW r \in Runs, status'[r] = "SUCCEEDED"
  PROVE  Finish(r) \/ (status[r] = "SUCCEEDED" /\ at[r] = "over")
  <1> USE DEF clock, table, task, history
  <1>1. ASSUME status[r] = "SUCCEEDED" PROVE at[r] = "over"
    BY <1>1 DEF Lifecycle, TypeOK
  <1>2. CASE Quiet
    BY <1>1, <1>2 DEF Quiet
  <1>3. ASSUME NEW byHand \in BOOLEAN, CreateRun(byHand) PROVE status[r] = "SUCCEEDED"
    BY <1>3 DEF CreateRun, TypeOK
  <1>4. ASSUME NEW q \in Runs, Execute(q) PROVE Finish(r) \/ status[r] = "SUCCEEDED"
    <2>1. CASE Connect(q) \/ ConnectFails(q) \/ Abort(q)
      BY <2>1 DEF Connect, ConnectFails, Abort, TypeOK
    <2>2. ASSUME NEW m \in Meters, Skip(q, m) \/ Refuse(q, m) \/ Take(q, m)
          PROVE  status' = status
      BY <2>2 DEF Skip, Refuse, Take, Pass
    <2>3. ASSUME NEW ok \in BOOLEAN, Passing(q, ok) PROVE status' = status
      BY <2>3 DEF Passing, Pass
    <2>4. CASE Finish(q)
      <3>1. CASE r # q
        <4>1. status' = [status EXCEPT ![q] = Verdict(flushed[q])]
          BY <2>4 DEF Finish
        <4>2. QED
          BY <3>1, <4>1 DEF TypeOK
      <3>2. CASE r = q
        BY <2>4, <3>2
      <3>3. QED
        BY <3>1, <3>2
    <2>5. QED
      BY <1>4, <2>1, <2>2, <2>3, <2>4, PassingKinds DEF Execute
  <1>5. CASE Restart
    BY <1>1, <1>5 DEF Restart
  <1>6. QED
    BY <1>1, <1>2, <1>3, <1>4, <1>5, StepKinds

\* A run that ends as SUCCEEDED leaves no active meter out: each was exported by itself
\* or by a run of its day.
THEOREM ExportSuccessCovers == Spec => []SuccessCovers
  <1>1. Init => Coverage /\ SuccessCovers
    BY DEF Init, Coverage, SuccessCovers
  <1>2. ASSUME Books, Coverage, SuccessCovers, [Next]_vars PROVE SuccessCovers'
    <2> SUFFICES ASSUME NEW r \in Runs, status'[r] = "SUCCEEDED", NEW m \in Meters
                 PROVE  \E i \in items' : /\ i.meter = m /\ i.ok
                                          /\ i.run = r \/ started'[i.run] >= since'[r]
      BY DEF SuccessCovers
    <2> USE DEF Books
    <2>1. CASE Finish(r)
      BY <1>2, <2>1, SuccessOfFinish
    <2>2. CASE status[r] = "SUCCEEDED" /\ at[r] = "over"
      <3>1. PICK i \in items : i.meter = m /\ i.ok /\ (i.run = r \/ started[i.run] >= since[r])
        BY <1>2, <2>2 DEF SuccessCovers
      <3>2. since'[r] = since[r]
        BY <1>2, <2>2, SettledStays
      <3>3. i \in items' /\ started'[i.run] = started[i.run]
        BY <1>2, ItemsStay
      <3>4. QED
        BY <3>1, <3>2, <3>3
    <2>3. QED
      BY <1>2, <2>1, <2>2, SuccessIsGiven
  <1>3. Books /\ Coverage /\ [Next]_vars => Coverage'
    BY CoverageStep DEF Books
  <1>4. QED
    BY <1>1, <1>2, <1>3, BooksInit, BooksStep, PTL DEF Spec

-----------------------------------------------------------------------------
(* One scheduled run a day *)

Served(d) == \E r \in 1 .. runs : ~manual[r] /\ started[r] = d

\* No run is of a day to come; the loop is in a scheduled run; and when it owes a day no
\* look any more, the day is served, excused, or the one it has decided on.  A day whose set
\* time has found it in an older run is excused.
CalendarRuns ==
    /\ \A r \in 1 .. runs : started[r] <= day
    /\ decided <= day
    /\ loop \in Runs => loop <= runs /\ ~manual[loop]
CalendarLook ==
    polled => day \in missed \/ IF loop = Decided THEN decided = day ELSE Served(day)
CalendarBehind == late /\ Behind => day \in missed
Calendar == CalendarRuns /\ CalendarLook /\ CalendarBehind /\ OneScheduledADay /\ DayServed

\* The execution of a run leaves the calendar alone; at its end the loop may be idle.
LEMMA ExecuteIsNotOfTheCalendar ==
  ASSUME NEW q \in Runs, Execute(q)
  PROVE  /\ UNCHANGED <<day, late, runs, manual, started, decided, polled, missed>>
         /\ loop' = loop \/ (loop = q /\ loop' = Idle)
  <1> USE DEF clock, table, task, history
  <1>1. CASE Connect(q) \/ ConnectFails(q) \/ Finish(q) \/ Abort(q)
    BY <1>1 DEF Connect, ConnectFails, Finish, Abort, Leave
  <1>2. ASSUME NEW m \in Meters, Skip(q, m) \/ Refuse(q, m) \/ Take(q, m)
        PROVE  UNCHANGED <<day, late, runs, manual, started, decided, polled, missed, loop>>
    BY <1>2 DEF Skip, Refuse, Take, Pass
  <1>3. CASE Sent(q) \/ SendFails(q) \/ SentUnheard(q)
    BY <1>3 DEF Sent, SendFails, SentUnheard, Pass
  <1>4. QED
    BY <1>1, <1>2, <1>3 DEF Execute

\* A run is created today, and the ones before it stay as they are.
LEMMA CreatedToday ==
  ASSUME TypeOK, NEW byHand \in BOOLEAN, CreateRun(byHand)
  PROVE  /\ runs \in Nat /\ runs' = runs + 1 /\ runs + 1 \in Runs
         /\ started'[runs + 1] = day /\ manual'[runs + 1] = byHand
         /\ \A r \in 1 .. runs : started'[r] = started[r] /\ manual'[r] = manual[r]
         /\ UNCHANGED <<day, late, polled, decided>>
  <1>1. runs + 1 \in Runs /\ runs \in Nat /\ runs' = runs + 1
    BY CreateRunTypes, Bounds DEF TypeOK
  <1>2. \A r \in 1 .. runs : r \in Runs /\ r # runs + 1
    BY <1>1, Bounds DEF Runs
  <1>3. QED
    BY <1>1, <1>2 DEF CreateRun, TypeOK, clock

\* The calendar is kept by every step.
LEMMA CalendarStep ==
  ASSUME TypeOK, Calendar, [Next]_vars
  PROVE  Calendar'
  <1> USE DEF clock, table, task, history
  <1>0. /\ day \in Nat /\ decided \in Nat /\ runs \in Nat
        /\ \A r \in 1 .. runs : r \in Runs /\ started[r] \in Nat
    BY Bounds DEF TypeOK, Days, Runs
  <1>1. CASE UNCHANGED <<day, late, runs, manual, started, decided, polled, missed, loop>>
    BY <1>1 DEF Calendar, CalendarRuns, CalendarLook, CalendarBehind, Behind, OneScheduledADay, DayServed, Served
  <1>2. ASSUME (\E m \in Meters : StoreRow(m)) \/ UNCHANGED vars
        PROVE  Calendar'
    BY <1>1, <1>2 DEF StoreRow, vars
  <1>12. CASE ReachTarget
    <2>1. /\ polled' = (polled \/ Behind) /\ (Behind => day \in missed') /\ missed \subseteq missed'
          /\ UNCHANGED <<day, runs, manual, started, decided, loop>>
      BY <1>12 DEF ReachTarget
    <2>2. CalendarRuns' /\ OneScheduledADay' /\ DayServed'
      BY <2>1 DEF Calendar, CalendarRuns, OneScheduledADay, DayServed
    <2>3. CalendarLook' /\ CalendarBehind'
      BY <2>1 DEF Calendar, CalendarLook, CalendarBehind, Behind, Served
    <2>4. QED
      BY <2>2, <2>3 DEF Calendar
  <1>3. CASE Midnight
    <2>1. /\ day' = day + 1 /\ ~polled' /\ ~late' /\ missed \subseteq missed'
          /\ UNCHANGED <<runs, manual, started, decided, loop>>
      BY <1>3 DEF Midnight
    <2>2. CalendarRuns' /\ CalendarLook' /\ CalendarBehind' /\ OneScheduledADay'
      BY <1>0, <2>1 DEF Calendar, CalendarRuns, CalendarLook, CalendarBehind, OneScheduledADay
    <2>3. day \in missed' \/ Served(day)
      <3>1. CASE loop = Idle
        BY <1>3, <2>1, <3>1, LoopAssumption DEF Midnight, Calendar, CalendarLook
      <3>2. CASE loop = Decided
        BY <1>3, <3>2 DEF Midnight
      <3>3. CASE loop \in Runs /\ started[loop] < day
        BY <1>3, <2>1, <3>3 DEF Midnight, Calendar, CalendarBehind, Behind
      <3>4. CASE loop \in Runs /\ ~(started[loop] < day)
        <4>1. loop \in 1 .. runs /\ ~manual[loop] /\ started[loop] <= day
          BY <3>4, <1>0, Bounds DEF Calendar, CalendarRuns, Runs
        <4>2. QED
          BY <1>0, <3>4, <4>1 DEF Served
      <3>5. QED
        BY <3>1, <3>2, <3>3, <3>4 DEF TypeOK
    <2>4. DayServed'
      <3> SUFFICES ASSUME NEW d \in Days, d < day' PROVE d \in missed' \/ Served(d)
        BY <2>1 DEF DayServed, Served
      <3>1. d < day \/ d = day
        BY <1>0, <2>1 DEF Days
      <3>2. QED
        BY <2>1, <2>3, <3>1 DEF Calendar, DayServed, Served
    <2>5. QED
      BY <2>2, <2>4 DEF Calendar
  <1>4. CASE PressButton
    <2>1. CreateRun(TRUE) /\ UNCHANGED <<loop, missed>>
      BY <1>4 DEF PressButton
    <2>2. /\ runs' = runs + 1 /\ runs + 1 \in Runs /\ started'[runs + 1] = day
          /\ manual'[runs + 1]
          /\ \A r \in 1 .. runs : started'[r] = started[r] /\ manual'[r] = manual[r]
          /\ UNCHANGED <<day, late, polled, decided>>
      BY <2>1, CreatedToday
    <2>3. \A r \in 1 .. runs' : r \in 1 .. runs \/ r = runs + 1
      BY <1>0, <2>2
    <2>4. CalendarRuns'
      BY <1>0, <2>1, <2>2, <2>3, Bounds DEF Calendar, CalendarRuns, Runs
    <2>5. \A d : Served(d) => Served(d)'
      BY <1>0, <2>2 DEF Served
    <2>6. CalendarLook' /\ DayServed'
      BY <2>1, <2>2, <2>5 DEF Calendar, CalendarLook, DayServed, Served
    <2>7. OneScheduledADay'
      BY <2>2, <2>3 DEF Calendar, OneScheduledADay
    <2>8. CalendarBehind'
      <3>1. loop \in Runs => loop \in 1 .. runs
        BY <1>0, Bounds DEF Calendar, CalendarRuns, Runs
      <3>2. QED
        BY <2>1, <2>2, <3>1 DEF Calendar, CalendarBehind, Behind
    <2>9. QED
      BY <2>4, <2>6, <2>7, <2>8 DEF Calendar
  <1>5. CASE LookAtClock
    BY <1>0, <1>5, LoopAssumption
       DEF LookAtClock, Calendar, CalendarRuns, CalendarLook, CalendarBehind, Behind, OneScheduledADay, DayServed
  <1>6. CASE CreateScheduled
    <2>1. CreateRun(FALSE) /\ loop' = runs + 1 /\ missed' = missed
      BY <1>6 DEF CreateScheduled
    <2>2. /\ runs' = runs + 1 /\ runs + 1 \in Runs /\ started'[runs + 1] = day
          /\ ~manual'[runs + 1]
          /\ \A r \in 1 .. runs : started'[r] = started[r] /\ manual'[r] = manual[r]
          /\ UNCHANGED <<day, late, polled, decided>>
      BY <2>1, CreatedToday
    <2>3. \A r \in 1 .. runs' : r \in 1 .. runs \/ r = runs + 1
      BY <1>0, <2>2
    <2>4. CalendarRuns'
      BY <1>0, <2>1, <2>2, <2>3 DEF Calendar, CalendarRuns
    <2>5. \A d : Served(d) => Served(d)'
      BY <1>0, <2>2 DEF Served
    <2>6. Served(day)'
      BY <1>0, <2>2 DEF Served
    <2>7. CalendarLook'
      BY <2>1, <2>2, <2>6, LoopAssumption DEF CalendarLook, Served
    <2>8. DayServed'
      BY <2>1, <2>2, <2>5 DEF Calendar, DayServed, Served
    <2>9. \A r \in 1 .. runs : ~manual[r] => started[r] # day
      BY <1>0, <1>6 DEF CreateScheduled, TodaysScheduledRunExists, Calendar, CalendarRuns
    <2>10. OneScheduledADay'
      BY <2>2, <2>3, <2>9 DEF Calendar, OneScheduledADay
    <2>11. CalendarBehind'
      BY <1>0, <2>1, <2>2 DEF CalendarBehind, Behind
    <2>12. QED
      BY <2>4, <2>7, <2>8, <2>10, <2>11 DEF Calendar
  <1>7. CASE NothingToCreate
    <2>1. /\ loop = Decided /\ loop' = Idle
          /\ UNCHANGED <<day, late, runs, manual, started, decided, polled, missed>>
      BY <1>7 DEF NothingToCreate
    <2>2. decided = day => Served(day)
      BY <1>0, <1>7
         DEF NothingToCreate, TodaysScheduledRunExists, Calendar, CalendarRuns, Served
    <2>3. QED
      BY <2>1, <2>2, LoopAssumption
         DEF Calendar, CalendarRuns, CalendarLook, CalendarBehind, Behind, OneScheduledADay, DayServed, Served
  <1>8. CASE CreateFails
    BY <1>8, LoopAssumption
       DEF CreateFails, Calendar, CalendarRuns, CalendarLook, CalendarBehind, Behind, OneScheduledADay, DayServed
  <1>9. ASSUME NEW q \in Runs, Execute(q) PROVE Calendar'
    <2>1. CASE loop' = loop
      BY <1>1, <1>9, <2>1, ExecuteIsNotOfTheCalendar
    <2>2. CASE loop = q /\ loop' = Idle
      <3>1. UNCHANGED <<day, late, runs, manual, started, decided, polled, missed>>
        BY <1>9, ExecuteIsNotOfTheCalendar
      <3>2. QED
        BY <2>2, <3>1, LoopAssumption
           DEF Calendar, CalendarRuns, CalendarLook, CalendarBehind, Behind, OneScheduledADay, DayServed, Served
    <2>3. QED
      BY <1>9, <2>1, <2>2, ExecuteIsNotOfTheCalendar
  <1>10. CASE Restart
    BY <1>10, LoopAssumption
       DEF Restart, Calendar, CalendarRuns, CalendarLook, CalendarBehind, Behind, OneScheduledADay, DayServed
  <1>13. QED
    BY <1>2, <1>3, <1>4, <1>5, <1>6, <1>7, <1>8, <1>9, <1>10, <1>12 DEF Next

\* It holds when the program starts: no day is over.
LEMMA CalendarInit == Init => Calendar
  <1> SUFFICES ASSUME Init PROVE Calendar
    OBVIOUS
  <1>1. \A d \in Days : ~(d < 0)
    BY BoundsAssumption DEF Days
  <1>2. QED
    BY <1>1, LoopAssumption
       DEF Init, Calendar, CalendarRuns, CalendarLook, CalendarBehind, OneScheduledADay, DayServed

\* The calendar holds throughout.
LEMMA CalendarHolds == Spec => []Calendar
  <1>1. Init => TypeOK /\ Calendar
    BY TypeInit, CalendarInit
  <1>2. TypeOK /\ Calendar /\ [Next]_vars => TypeOK' /\ Calendar'
    BY TypeStep, CalendarStep
  <1>3. QED
    BY <1>1, <1>2, PTL DEF Spec

\* The loop starts one run a day, restarts or not.
THEOREM ExportOneADay == Spec => []OneScheduledADay
  <1>1. Calendar => OneScheduledADay
    BY DEF Calendar
  <1>2. QED
    BY <1>1, CalendarHolds, PTL

\* No day passes without a scheduled run, unless the Backend was restarted on it, a look of
\* the loop at it failed with an error of the database, the loop was at the set time still in
\* a run of an earlier day, or the run was created after midnight.
THEOREM ExportDayServed == Spec => []DayServed
  <1>1. Calendar => DayServed
    BY DEF Calendar
  <1>2. QED
    BY <1>1, CalendarHolds, PTL
=============================================================================
