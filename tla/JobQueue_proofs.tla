--------------------------- MODULE JobQueue_proofs ---------------------------
(***************************************************************************)
(* What JobQueue promises for every set of jobs, runs, meters, workers and *)
(* report handlers.  TaskInv carries the type invariant; WorkerInv carries *)
(* WorkerExclusion; with TaskInv and the history variable interrupted,     *)
(* NoLostFinalisation is inductive; BackedInv carries VerdictBacked; and   *)
(* ExecutionInv, which follows a job from hand to hand, carries            *)
(* DoubleReadingOnlyAfterRequeue.                                          *)
(***************************************************************************)
EXTENDS JobQueue, TLAPS

Verdicts == [job : Jobs, status : {"SUCCEEDED", "FAILED", "PARTIAL_FAILURE"}]

\* Only a task past its own commit has runs to look at; one about to write has
\* its summary ready; a report handler goes on with a final status only.
TaskInv ==
    \A a \in Actors :
        /\ pc[a] \notin {"tally", "write"} => todo[a] = {}
        /\ \A j \in todo[a] : RunOf[j] \in Runs
        /\ pc[a] = "write" => verdict[a] \in Verdicts /\ verdict[a].job \in todo[a]
        /\ a \in Handlers /\ pc[a] = "busy" => saw[a] \in Terminal

\* A row in the hands of a task, and every row of a run, was committed before.
RowsInv ==
    /\ \A a \in Actors : \A j \in held[a] : status[j] # "absent"
    /\ \A j \in staleSel : status[j] # "absent"
    /\ \A j \in Jobs : RunOf[j] \in Runs /\ run[RunOf[j]] = "absent" => status[j] = "absent"

\* A row in the hands of a worker cannot be claimed again: it is not QUEUED, and
\* nothing that could requeue it has selected it or may.
WorkerInv ==
    /\ \A w \in Workers : pc[w] = "busy" =>
         \A j \in held[w] : status[j] # "QUEUED" /\ j \notin aged /\ j \notin staleSel
    /\ \A j \in staleSel : status[j] # "QUEUED"

TypeInv == TypeOK /\ TaskInv

-----------------------------------------------------------------------------
(* Types *)

\* The initial state is typed.
LEMMA InitType == Init => TypeInv
  BY NoRunAssumption, BoundsAssumption
     DEF Init, TypeInv, TypeOK, TaskInv, JobStatus, RunStatus, Verdicts

\* A commit keeps the types whatever status it writes, and leaves the task with
\* runs to look at only if it goes on to them.
LEMMA SettleType ==
  ASSUME TypeInv, NEW a \in Actors, NEW j \in Jobs, NEW new \in JobStatus, Settle(a, j, new)
  PROVE  TypeInv'
  <1> USE JobsAssumption DEF TypeInv, TypeOK, TaskInv
  <1>1. /\ status' \in [Jobs -> JobStatus]
        /\ readings' \in [Jobs -> Nat]
    BY DEF Settle
  <1>2. /\ pc' \in [Actors -> {"idle", "busy", "tally", "write", "dead"}]
        /\ held' \in [Actors -> SUBSET Jobs]
        /\ saw' \in [Actors -> JobStatus]
        /\ todo' \in [Actors -> SUBSET Jobs]
    BY DEF Settle, GoTally, WithRun, JobStatus
  <1>3. UNCHANGED <<run, noticed, verdict, hand, inbox, staleSel, faults, restaled, interrupted>>
    BY DEF Settle, runVars, gatewayVars, historyVars
  <1>4. aged' \subseteq Jobs
    BY DEF Settle
  <1>5. TaskInv'
    BY <1>2, <1>3, ZenonT(60) DEF Settle, GoTally, WithRun
  <1>6. QED
    BY <1>1, <1>2, <1>3, <1>4, <1>5

\* So does leaving one run behind.
LEMMA NextTodoType ==
  ASSUME TypeInv, NEW a \in Actors, NEW j \in todo[a], NextTodo(a, j),
         run' \in [Runs -> RunStatus], noticed' \subseteq Runs,
         verdict' \in [Actors -> [job : Jobs, status : RunStatus] \cup {NoVerdict}],
         \A b \in Actors : b # a => verdict'[b] = verdict[b]
  PROVE  TypeInv'
  <1> USE DEF TypeInv, TypeOK, TaskInv
  <1>1. /\ pc' \in [Actors -> {"idle", "busy", "tally", "write", "dead"}]
        /\ held' \in [Actors -> SUBSET Jobs]
        /\ saw' \in [Actors -> JobStatus]
        /\ todo' \in [Actors -> SUBSET Jobs]
    BY DEF NextTodo, JobStatus
  <1>2. UNCHANGED <<status, readings, hand, inbox, aged, staleSel, faults, restaled, interrupted>>
    BY DEF NextTodo, gatewayVars, ageVars, historyVars
  <1>3. TaskInv'
    BY <1>1, <1>2 DEF NextTodo
  <1>4. QED
    BY <1>1, <1>2, <1>3

\* Every action of JobQueue keeps the types and TaskInv.
LEMMA TypeStep == TypeInv /\ [Next]_vars => TypeInv'
  <1> SUFFICES ASSUME TypeOK, TaskInv, [Next]_vars PROVE TypeOK' /\ TaskInv'
    BY DEF TypeInv
  <1> USE DEF TypeOK, TaskInv, JobStatus, Unfinished, Terminal
  <1>1. ASSUME NEW S \in SUBSET Jobs, EnqueueManual(S) PROVE TypeOK' /\ TaskInv'
    BY <1>1 DEF EnqueueManual, runVars, taskVars, gatewayVars, ageVars, historyVars
  <1>2. ASSUME NEW j \in Jobs, Age(j) PROVE TypeOK' /\ TaskInv'
    BY <1>2 DEF Age, jobVars, runVars, taskVars, gatewayVars, historyVars
  <1>3. ASSUME NEW r \in Runs, NEW S \in SUBSET JobsOf(r), TriggerRun(r, S)
        PROVE TypeOK' /\ TaskInv'
    BY <1>3 DEF TriggerRun, RunStatus, taskVars, gatewayVars, ageVars, historyVars
  <1>4. ASSUME NEW w \in Workers, FinishJob(w) PROVE TypeOK' /\ TaskInv'
    <2>1. w \in Actors
      BY DEF Actors
    <2>2. PICK j \in held[w] : \E new \in WorkerOutcomes(j) : Settle(w, j, new)
      BY <1>4 DEF FinishJob
    <2>3. PICK new \in WorkerOutcomes(j) : Settle(w, j, new)
      BY <2>2
    <2>4. j \in Jobs /\ new \in JobStatus
      BY <2>1 DEF WorkerOutcomes
    <2>5. QED
      BY <2>1, <2>3, <2>4, SettleType DEF TypeInv
  <1>5. ASSUME NEW w \in Workers, NEW j \in Jobs, ClaimNext(w, j)
        PROVE TypeOK' /\ TaskInv'
    BY <1>5, ActorsAssumption DEF ClaimNext, Actors, runVars, gatewayVars, historyVars
  <1>6. ASSUME NEW c \in Calls, NEW m \in Meters, NEW S \in SUBSET DueOf(m),
               GatewayClaim(c, m, S)
        PROVE TypeOK' /\ TaskInv'
    BY <1>6 DEF GatewayClaim, DueOf, Queued, runVars, taskVars, historyVars
  <1>7. ASSUME NEW c \in Calls, NEW j \in hand[c], NEW ok \in BOOLEAN, SendReport(c, j, ok)
        PROVE TypeOK' /\ TaskInv'
    BY <1>7 DEF SendReport, jobVars, runVars, taskVars, ageVars, historyVars
  <1>8. ASSUME NEW c \in Calls, NEW S \in SUBSET hand[c], GatewayDrop(c, S)
        PROVE TypeOK' /\ TaskInv'
    BY <1>8 DEF GatewayDrop, jobVars, runVars, taskVars, ageVars, historyVars
  <1>9. ASSUME NEW h \in Handlers, FinishReport(h) PROVE TypeOK' /\ TaskInv'
    <2>1. h \in Actors
      BY DEF Actors
    <2>2. PICK j \in held[h] : Settle(h, j, saw[h])
      BY <1>9 DEF FinishReport
    <2>3. j \in Jobs /\ saw[h] \in JobStatus
      BY <2>1
    <2>4. QED
      BY <2>1, <2>2, <2>3, SettleType DEF TypeInv
  <1>10. ASSUME NEW h \in Handlers, NEW msg \in inbox, ReceiveReport(h, msg)
         PROVE TypeOK' /\ TaskInv'
    BY <1>10 DEF ReceiveReport, Actors, jobVars, runVars, ageVars, historyVars
  <1>11. ASSUME NEW a \in Actors, NEW j \in todo[a], TallyNothing(a, j)
         PROVE TypeOK' /\ TaskInv'
    <2>1. NextTodo(a, j) /\ UNCHANGED <<run, noticed, verdict>>
      BY <1>11 DEF TallyNothing, runVars
    <2>2. QED
      BY <2>1, NextTodoType DEF TypeInv
  <1>12. ASSUME NEW a \in Actors, NEW j \in todo[a], TallyComplete(a, j)
         PROVE TypeOK' /\ TaskInv'
    <2>1. j \in Jobs
      OBVIOUS
    <2>2. Summary(a, RunOf[j]) \in {"SUCCEEDED", "FAILED", "PARTIAL_FAILURE"}
      BY DEF Summary
    <2>3. [job |-> j, status |-> Summary(a, RunOf[j])] \in Verdicts
      BY <2>1, <2>2 DEF Verdicts
    <2>4. /\ verdict' = [verdict EXCEPT ![a] = [job |-> j, status |-> Summary(a, RunOf[j])]]
          /\ pc' = [pc EXCEPT ![a] = "write"]
          /\ UNCHANGED <<status, readings, run, noticed, held, saw, todo, hand, inbox, aged,
                         staleSel, faults, restaled, interrupted>>
      BY <1>12 DEF TallyComplete, jobVars, runVars, gatewayVars, ageVars, historyVars
    <2>5. Verdicts \subseteq [job : Jobs, status : RunStatus]
      BY DEF Verdicts, RunStatus
    <2>6. TypeOK'
      BY <2>3, <2>4, <2>5
    <2>7. TaskInv'
      BY <2>3, <2>4
    <2>8. QED
      BY <2>6, <2>7
  <1>13. ASSUME NEW a \in Actors, WriteRun(a) PROVE TypeOK' /\ TaskInv'
    <2> DEFINE j == verdict[a].job
    <2>1. /\ verdict[a] \in Verdicts
          /\ j \in todo[a]
      BY <1>13 DEF WriteRun
    <2>2. j \in Jobs /\ RunOf[j] \in Runs /\ verdict[a].status \in RunStatus
      BY <2>1 DEF Verdicts, RunStatus
    <2>3. /\ run' = [run EXCEPT ![RunOf[j]] = verdict[a].status]
          /\ noticed' = IF verdict[a].status = "SUCCEEDED" THEN noticed
                        ELSE noticed \cup {RunOf[j]}
          /\ NextTodo(a, j)
          /\ verdict' = [verdict EXCEPT ![a] = NoVerdict]
      BY <1>13 DEF WriteRun
    <2>4. QED
      BY <2>1, <2>2, <2>3, NextTodoType DEF TypeInv
  <1>14. ASSUME NEW a \in Actors, DatabaseError(a) PROVE TypeOK' /\ TaskInv'
    BY <1>14, BoundsAssumption
       DEF DatabaseError, RunsOf, jobVars, runVars, gatewayVars, ageVars
  <1>15. CASE SelectStale
    BY <1>15 DEF SelectStale, Running, jobVars, runVars, taskVars, gatewayVars, historyVars
  <1>16. CASE RequeueStale
    BY <1>16 DEF RequeueStale, runVars, taskVars, gatewayVars
  <1>17. ASSUME NEW S \in SUBSET Queued, SelectExpired(S) PROVE TypeOK' /\ TaskInv'
    BY <1>17, ActorsAssumption
       DEF SelectExpired, Queued, Actors, jobVars, runVars, gatewayVars, ageVars, historyVars
  <1>18. CASE ExpireCommit
    <2>1. Expirer \in Actors
      BY DEF Actors
    <2>2. /\ pc[Expirer] = "busy"
          /\ status' = [j \in Jobs |-> IF j \in held[Expirer] THEN "FAILED" ELSE status[j]]
          /\ aged' = aged \ held[Expirer]
          /\ GoTally(Expirer, held[Expirer], "FAILED")
          /\ UNCHANGED <<readings, run, noticed, verdict, hand, inbox, staleSel, faults,
                         restaled, interrupted>>
      BY <1>18 DEF ExpireCommit, runVars, gatewayVars, historyVars
    <2>3. /\ pc' \in [Actors -> {"idle", "busy", "tally", "write", "dead"}]
          /\ held' \in [Actors -> SUBSET Jobs]
          /\ saw' \in [Actors -> JobStatus]
          /\ todo' \in [Actors -> SUBSET Jobs]
      BY <2>1, <2>2 DEF GoTally, WithRun
    <2>4. TaskInv'
      BY <2>1, <2>2, <2>3, ActorsAssumption, JobsAssumption DEF GoTally, WithRun
    <2>5. QED
      BY <2>2, <2>3, <2>4
  <1>19. CASE Restart
    BY <1>19, BoundsAssumption DEF Restart, RunsOf, Running, runVars
  <1>20. CASE UNCHANGED vars
    BY <1>20 DEF vars, jobVars, runVars, taskVars, gatewayVars, ageVars, historyVars
  <1>21. QED
    BY <1>1, <1>2, <1>3, <1>4, <1>5, <1>6, <1>7, <1>8, <1>9, <1>10, <1>11, <1>12,
       <1>13, <1>14, <1>15, <1>16, <1>17, <1>18, <1>19, <1>20 DEF Next

\* Theorem: in every reachable state of every instance the variables have their
\* types, so no handler writes a status the row or the run cannot hold.
THEOREM TypeCorrect == Spec => []TypeOK
  <1>1. Init => TypeInv
    BY InitType
  <1>2. TypeInv /\ [Next]_vars => TypeInv'
    BY TypeStep
  <1>3. TypeInv => TypeOK
    BY DEF TypeInv
  <1>4. QED
    BY <1>1, <1>2, <1>3, PTL DEF Spec

-----------------------------------------------------------------------------
(* Worker exclusion *)

ClaimInv == TypeInv /\ RowsInv /\ WorkerInv /\ WorkerExclusion

\* Nobody holds a row at the start.
LEMMA InitClaim == Init => ClaimInv
  BY InitType, ActorsAssumption DEF Init, ClaimInv, RowsInv, WorkerInv, WorkerExclusion, Actors

\* The timeouts of every handler add up to less than the reaper's threshold.
LEMMA BudgetBelowStale == \A type : HandlerBudget(type) < StaleAfter
  BY StaleAfterAssumption DEF HandlerBudget

\* A commit for a row in hand, with a status its task may write, cannot put
\* another worker's row back in the queue.
LEMMA SettleClaim ==
  ASSUME ClaimInv, NEW a \in Actors, NEW j \in held[a], NEW new \in JobStatus,
         Settle(a, j, new), pc[a] = "busy", new # "absent", new = "QUEUED" => a \in Workers
  PROVE  RowsInv' /\ WorkerInv' /\ WorkerExclusion'
  <1> USE DEF ClaimInv, TypeInv, TypeOK
  <1>1. /\ status' = [status EXCEPT ![j] = new]
        /\ aged' = aged \ {j}
        /\ UNCHANGED <<run, staleSel>>
        /\ j \in Jobs
    BY DEF Settle, runVars
  <1>2. /\ pc' \in [Actors -> {"idle", "tally"} \cup {pc[b] : b \in Actors}]
        /\ pc'[a] # "busy"
        /\ \A b \in Actors : b # a => pc'[b] = pc[b] /\ held'[b] = held[b]
        /\ held'[a] \subseteq held[a]
    BY DEF Settle, GoTally
  <1>3. RowsInv'
    BY <1>1, <1>2 DEF RowsInv
  <1>4. WorkerInv'
    BY <1>1, <1>2 DEF WorkerInv, WorkerExclusion, Actors
  <1>5. WorkerExclusion'
    BY <1>1, <1>2 DEF WorkerExclusion, Actors
  <1>6. QED
    BY <1>3, <1>4, <1>5

\* Going on to the next run of a task claims nothing.
LEMMA NextTodoClaim ==
  ASSUME ClaimInv, NEW a \in Actors, NEW j \in todo[a], NextTodo(a, j),
         \A r \in Runs : run'[r] = "absent" => run[r] = "absent"
  PROVE  RowsInv' /\ WorkerInv' /\ WorkerExclusion'
  <1>1. UNCHANGED <<status, aged, staleSel>>
    BY DEF NextTodo, ageVars
  <1>2. /\ pc'[a] # "busy"
        /\ \A b \in Actors : b # a => pc'[b] = pc[b] /\ held'[b] = held[b]
        /\ held'[a] \subseteq held[a]
    BY DEF NextTodo, ClaimInv, TypeInv, TypeOK
  <1>3. QED
    BY <1>1, <1>2 DEF ClaimInv, RowsInv, WorkerInv, WorkerExclusion, Actors

\* Every step keeps the claims exclusive.
LEMMA ClaimStep == ClaimInv /\ [Next]_vars => ClaimInv'
  <1> SUFFICES ASSUME ClaimInv, [Next]_vars PROVE RowsInv' /\ WorkerInv' /\ WorkerExclusion'
    BY TypeStep DEF ClaimInv
  <1> DEFINE Goal == RowsInv' /\ WorkerInv' /\ WorkerExclusion'
  <1> USE DEF ClaimInv, TypeInv, TypeOK, RowsInv, WorkerInv, WorkerExclusion
  <1>1. ASSUME NEW S \in SUBSET Jobs, EnqueueManual(S) PROVE Goal
    BY <1>1, NoRunAssumption DEF EnqueueManual, Actors, runVars, taskVars, ageVars
  <1>2. ASSUME NEW j \in Jobs, Age(j) PROVE Goal
    <2>1. \A w \in Workers : pc[w] = "busy" => j \notin held[w]
      BY <1>2, BudgetBelowStale, StaleAfterAssumption DEF Age, HandlerBudget
    <2>2. QED
      BY <1>2, <2>1 DEF Age, jobVars, runVars, taskVars
  <1>3. ASSUME NEW r \in Runs, NEW S \in SUBSET JobsOf(r), TriggerRun(r, S) PROVE Goal
    <2>1. \A j \in S : j \in Jobs /\ RunOf[j] = r /\ status[j] = "absent"
      BY <1>3 DEF TriggerRun, JobsOf
    <2>2. QED
      BY <1>3, <2>1 DEF TriggerRun, Actors, taskVars, ageVars
  <1>4. ASSUME NEW w \in Workers, FinishJob(w) PROVE Goal
    <2>1. w \in Actors /\ pc[w] = "busy"
      BY <1>4 DEF Actors, FinishJob
    <2>2. PICK j \in held[w] : \E new \in WorkerOutcomes(j) : Settle(w, j, new)
      BY <1>4 DEF FinishJob
    <2>3. PICK new \in WorkerOutcomes(j) : Settle(w, j, new)
      BY <2>2
    <2>4. new \in JobStatus /\ new # "absent"
      BY <2>1 DEF WorkerOutcomes, JobStatus, Unfinished, Terminal
    <2>5. QED
      BY <2>1, <2>3, <2>4, SettleClaim
  <1>5. ASSUME NEW w \in Workers, NEW j \in Jobs, ClaimNext(w, j) PROVE Goal
    <2>1. status[j] = "QUEUED"
      BY <1>5 DEF ClaimNext, ForWorker
    <2>2. /\ status' = [status EXCEPT ![j] = "RUNNING"]
          /\ aged' = aged \ {j}
          /\ pc' = [pc EXCEPT ![w] = "busy"]
          /\ held' = [held EXCEPT ![w] = {j}]
          /\ UNCHANGED <<run, staleSel>>
      BY <1>5 DEF ClaimNext, runVars
    <2>3. w \in Actors
      BY DEF Actors
    <2>4. QED
      BY <2>1, <2>2, <2>3 DEF Actors
  <1>6. ASSUME NEW c \in Calls, NEW m \in Meters, NEW S \in SUBSET DueOf(m),
               GatewayClaim(c, m, S)
        PROVE Goal
    <2>1. \A j \in S : j \in Jobs /\ status[j] = "QUEUED"
      BY DEF DueOf, Queued
    <2>2. QED
      BY <1>6, <2>1 DEF GatewayClaim, Actors, runVars, taskVars
  <1>7. ASSUME NEW c \in Calls, NEW j \in hand[c], NEW ok \in BOOLEAN, SendReport(c, j, ok)
        PROVE Goal
    BY <1>7 DEF SendReport, jobVars, runVars, taskVars, ageVars
  <1>8. ASSUME NEW c \in Calls, NEW S \in SUBSET hand[c], GatewayDrop(c, S) PROVE Goal
    BY <1>8 DEF GatewayDrop, jobVars, runVars, taskVars, ageVars
  <1>9. ASSUME NEW h \in Handlers, FinishReport(h) PROVE Goal
    <2>1. h \in Actors /\ pc[h] = "busy"
      BY <1>9 DEF Actors, FinishReport
    <2>2. PICK j \in held[h] : Settle(h, j, saw[h])
      BY <1>9 DEF FinishReport
    <2>3. saw[h] \in Terminal
      BY <2>1 DEF TaskInv
    <2>4. saw[h] \in JobStatus /\ saw[h] # "absent" /\ saw[h] # "QUEUED"
      BY <2>3 DEF Terminal, JobStatus
    <2>5. QED
      BY <2>1, <2>2, <2>4, SettleClaim
  <1>10. ASSUME NEW h \in Handlers, NEW msg \in inbox, ReceiveReport(h, msg) PROVE Goal
    <2>1. h \in Actors /\ h \notin Workers
      BY ActorsAssumption DEF Actors
    <2>2. QED
      BY <1>10, <2>1 DEF ReceiveReport, Actors, jobVars, runVars, ageVars
  <1>11. ASSUME NEW a \in Actors, NEW j \in todo[a], TallyNothing(a, j) PROVE Goal
    <2>1. NextTodo(a, j) /\ UNCHANGED run
      BY <1>11 DEF TallyNothing, runVars
    <2>2. QED
      BY <2>1, NextTodoClaim
  <1>12. ASSUME NEW a \in Actors, NEW j \in todo[a], TallyComplete(a, j) PROVE Goal
    BY <1>12 DEF TallyComplete, Actors, jobVars, runVars, ageVars
  <1>13. ASSUME NEW a \in Actors, WriteRun(a) PROVE Goal
    <2> DEFINE j == verdict[a].job
    <2>1. /\ verdict[a] \in Verdicts
          /\ j \in todo[a]
      BY <1>13 DEF WriteRun, TaskInv
    <2>2. /\ run' = [run EXCEPT ![RunOf[j]] = verdict[a].status]
          /\ NextTodo(a, j)
      BY <1>13 DEF WriteRun
    <2>3. \A r \in Runs : run'[r] = "absent" => run[r] = "absent"
      BY <2>1, <2>2 DEF Verdicts
    <2>4. QED
      BY <2>1, <2>2, <2>3, NextTodoClaim
  <1>14. ASSUME NEW a \in Actors, DatabaseError(a) PROVE Goal
    BY <1>14 DEF DatabaseError, Actors, jobVars, runVars, ageVars
  <1>15. CASE SelectStale
    BY <1>15 DEF SelectStale, Running, jobVars, runVars, taskVars
  <1>16. CASE RequeueStale
    BY <1>16 DEF RequeueStale, Actors, runVars, taskVars
  <1>17. ASSUME NEW S \in SUBSET Queued, SelectExpired(S) PROVE Goal
    BY <1>17, ActorsAssumption
       DEF SelectExpired, Queued, Actors, jobVars, runVars, ageVars
  <1>18. CASE ExpireCommit
    <2>1. Expirer \in Actors /\ Expirer \notin Workers
      BY ActorsAssumption DEF Actors
    <2>2. /\ status' = [j \in Jobs |-> IF j \in held[Expirer] THEN "FAILED" ELSE status[j]]
          /\ aged' = aged \ held[Expirer]
          /\ GoTally(Expirer, held[Expirer], "FAILED")
          /\ UNCHANGED <<run, staleSel>>
      BY <1>18 DEF ExpireCommit, runVars
    <2>3. /\ \A b \in Actors : b # Expirer => pc'[b] = pc[b] /\ held'[b] = held[b]
          /\ held'[Expirer] \subseteq held[Expirer]
      BY <2>1, <2>2 DEF GoTally
    <2>4. QED
      BY <2>1, <2>2, <2>3 DEF Actors
  <1>19. CASE Restart
    BY <1>19 DEF Restart, Running, Actors, runVars
  <1>20. CASE UNCHANGED vars
    BY <1>20 DEF vars, jobVars, runVars, taskVars, ageVars
  <1>21. QED
    BY <1>1, <1>2, <1>3, <1>4, <1>5, <1>6, <1>7, <1>8, <1>9, <1>10, <1>11, <1>12,
       <1>13, <1>14, <1>15, <1>16, <1>17, <1>18, <1>19, <1>20 DEF Next

\* Theorem: no job is ever in the hands of two workers, whatever their number, the
\* meters' answers, the reports of the Gateway and the housekeepers do.
THEOREM WorkersExclude == Spec => []WorkerExclusion
  <1>1. Init => ClaimInv
    BY InitClaim
  <1>2. ClaimInv /\ [Next]_vars => ClaimInv'
    BY ClaimStep
  <1>3. ClaimInv => WorkerExclusion
    BY DEF ClaimInv
  <1>4. QED
    BY <1>1, <1>2, <1>3, PTL DEF Spec

-----------------------------------------------------------------------------
(* No run is lost between two finishing tasks *)

Finished(r) == run[r] = "RUNNING" /\ \A j \in Created(r) : status[j] \in Terminal

CloseInv == TypeInv /\ NoLostFinalisation

\* A step that only creates or reopens rows finishes no run.
LEMMA ReopenFinishes ==
  ASSUME NEW r \in Runs, run'[r] = run[r],
         \A j \in JobsOf(r) : status'[j] = status[j] \/ status'[j] \in Unfinished,
         Finished(r)'
  PROVE  Finished(r)
  BY DEF Finished, Created, JobsOf, Unfinished, Terminal

\* A task whose list and belief do not change goes on to close what it would have.
LEMMA WillCloseKept ==
  ASSUME NEW r \in Runs, WillClose(r),
         \A a \in Actors : \A j \in todo[a] :
            RunOf[j] = r => todo'[a] = todo[a] /\ saw'[a] = saw[a]
  PROVE  WillClose(r)'
  BY DEF WillClose

\* The commit of a task for one row: if that row finished its run, the task itself
\* is on the way to close it.
LEMMA SettleClose ==
  ASSUME CloseInv, NEW a \in Actors, NEW j \in Jobs, NEW new \in JobStatus, pc[a] = "busy",
         new # "absent", Settle(a, j, new), NEW r \in Runs \ interrupted, Finished(r)'
  PROVE  WillClose(r)'
  <1> USE DEF CloseInv, TypeInv, TypeOK
  <1>1. /\ status' = [status EXCEPT ![j] = new]
        /\ UNCHANGED run
        /\ GoTally(a, {j}, new)
    BY DEF Settle, runVars
  <1>2. CASE RunOf[j] = r /\ new \in Terminal
    <2>1. WithRun({j}) = {j}
      BY <1>2, NoRunAssumption DEF WithRun
    <2>2. todo'[a] = {j} /\ saw'[a] = new
      BY <1>1, <2>1 DEF GoTally
    <2>3. QED
      BY <1>2, <2>2 DEF WillClose
  <1>3. CASE ~ (RunOf[j] = r /\ new \in Terminal)
    <2>1. \A k \in JobsOf(r) : status'[k] = status[k] \/ status'[k] \in Unfinished
      BY <1>1, <1>3 DEF JobsOf, JobStatus, Unfinished, Terminal
    <2>2. WillClose(r)
      BY <1>1, <2>1, ReopenFinishes DEF NoLostFinalisation, Finished
    <2>3. \A b \in Actors : todo[b] # {} => todo'[b] = todo[b] /\ saw'[b] = saw[b]
      BY <1>1 DEF TaskInv, GoTally
    <2>4. QED
      BY <2>2, <2>3, WillCloseKept
  <1>4. QED
    BY <1>2, <1>3

\* A task that leaves run s behind still looks at every other run of its list.
LEMMA NextTodoClose ==
  ASSUME TypeInv, NEW a \in Actors, NEW j \in todo[a], NextTodo(a, j),
         NEW r \in Runs, NEW b \in Actors, NEW k \in todo[b],
         RunOf[k] = r, saw[b] \in Terminal, b = a => k # j
  PROVE  WillClose(r)'
  <1>1. k \in todo'[b] /\ saw'[b] = saw[b]
    BY DEF NextTodo, TypeInv, TypeOK
  <1>2. QED
    BY <1>1 DEF WillClose

\* Every step keeps some task responsible for a run whose jobs have all ended.
LEMMA CloseStep == CloseInv /\ [Next]_vars => CloseInv'
  <1> SUFFICES ASSUME CloseInv, [Next]_vars, NEW r \in Runs \ interrupted', Finished(r)'
               PROVE  WillClose(r)'
    BY TypeStep DEF CloseInv, NoLostFinalisation, Finished
  <1> USE DEF CloseInv, TypeInv, TypeOK
  <1>a. ASSUME r \notin interrupted, Finished(r) PROVE WillClose(r)
    BY <1>a DEF NoLostFinalisation, Finished
  <1>1. ASSUME NEW S \in SUBSET Jobs, EnqueueManual(S) PROVE WillClose(r)'
    <2>1. Finished(r)
      BY <1>1, ReopenFinishes DEF EnqueueManual, JobsOf, Unfinished, runVars
    <2>2. QED
      BY <1>1, <1>a, <2>1, WillCloseKept DEF EnqueueManual, taskVars, historyVars
  <1>2. ASSUME NEW j \in Jobs, Age(j) PROVE WillClose(r)'
    <2>1. Finished(r)
      BY <1>2, ReopenFinishes DEF Age, JobsOf, runVars, jobVars
    <2>2. QED
      BY <1>2, <1>a, <2>1, WillCloseKept DEF Age, taskVars, historyVars
  <1>3. ASSUME NEW s \in Runs, NEW S \in SUBSET JobsOf(s), TriggerRun(s, S)
        PROVE WillClose(r)'
    <2>1. /\ status' = [j \in Jobs |-> IF j \in S THEN "QUEUED" ELSE status[j]]
          /\ run' = [run EXCEPT ![s] = "RUNNING"]
          /\ S # {}
          /\ UNCHANGED <<todo, saw, interrupted>>
      BY <1>3 DEF TriggerRun, taskVars, historyVars
    <2>2. r # s
      BY <2>1 DEF Finished, Created, JobsOf, Terminal
    <2>3. Finished(r)
      BY <2>1, <2>2, ReopenFinishes DEF JobsOf, Unfinished
    <2>4. QED
      BY <1>a, <2>1, <2>3, WillCloseKept
  <1>4. ASSUME NEW w \in Workers, FinishJob(w) PROVE WillClose(r)'
    <2>1. w \in Actors /\ pc[w] = "busy"
      BY <1>4 DEF Actors, FinishJob
    <2>2. PICK j \in held[w] : \E new \in WorkerOutcomes(j) : Settle(w, j, new)
      BY <1>4 DEF FinishJob
    <2>3. PICK new \in WorkerOutcomes(j) : Settle(w, j, new)
      BY <2>2
    <2>4. j \in Jobs /\ new \in JobStatus /\ new # "absent"
      BY <2>1 DEF WorkerOutcomes, JobStatus, Unfinished, Terminal
    <2>5. UNCHANGED interrupted
      BY <2>3 DEF Settle, historyVars
    <2>6. QED
      BY <2>1, <2>3, <2>4, <2>5, SettleClose
  <1>5. ASSUME NEW w \in Workers, NEW j \in Jobs, ClaimNext(w, j) PROVE WillClose(r)'
    <2>1. Finished(r)
      BY <1>5, ReopenFinishes DEF ClaimNext, JobsOf, Unfinished, runVars
    <2>2. \A b \in Actors : todo[b] # {} => todo'[b] = todo[b] /\ saw'[b] = saw[b]
      BY <1>5 DEF ClaimNext, TaskInv
    <2>3. QED
      BY <1>5, <1>a, <2>1, <2>2, WillCloseKept DEF ClaimNext, historyVars
  <1>6. ASSUME NEW c \in Calls, NEW m \in Meters, NEW S \in SUBSET DueOf(m),
               GatewayClaim(c, m, S)
        PROVE WillClose(r)'
    <2>1. Finished(r)
      BY <1>6, ReopenFinishes DEF GatewayClaim, JobsOf, Unfinished, runVars
    <2>2. QED
      BY <1>6, <1>a, <2>1, WillCloseKept DEF GatewayClaim, taskVars, historyVars
  <1>7. ASSUME NEW c \in Calls, NEW j \in hand[c], NEW ok \in BOOLEAN, SendReport(c, j, ok)
        PROVE WillClose(r)'
    <2>1. Finished(r)
      BY <1>7, ReopenFinishes DEF SendReport, JobsOf, runVars, jobVars
    <2>2. QED
      BY <1>7, <1>a, <2>1, WillCloseKept DEF SendReport, taskVars, historyVars
  <1>8. ASSUME NEW c \in Calls, NEW S \in SUBSET hand[c], GatewayDrop(c, S)
        PROVE WillClose(r)'
    <2>1. Finished(r)
      BY <1>8, ReopenFinishes DEF GatewayDrop, JobsOf, runVars, jobVars
    <2>2. QED
      BY <1>8, <1>a, <2>1, WillCloseKept DEF GatewayDrop, taskVars, historyVars
  <1>9. ASSUME NEW h \in Handlers, FinishReport(h) PROVE WillClose(r)'
    <2>1. h \in Actors /\ pc[h] = "busy"
      BY <1>9 DEF Actors, FinishReport
    <2>2. PICK j \in held[h] : Settle(h, j, saw[h])
      BY <1>9 DEF FinishReport
    <2>3. saw[h] \in JobStatus /\ saw[h] # "absent"
      BY <2>1 DEF TaskInv, Terminal, JobStatus
    <2>4. UNCHANGED interrupted
      BY <2>2 DEF Settle, historyVars
    <2>5. QED
      BY <2>1, <2>2, <2>3, <2>4, SettleClose
  <1>10. ASSUME NEW h \in Handlers, NEW msg \in inbox, ReceiveReport(h, msg)
         PROVE WillClose(r)'
    <2>1. Finished(r)
      BY <1>10, ReopenFinishes DEF ReceiveReport, JobsOf, runVars, jobVars
    <2>2. \A b \in Actors : todo[b] # {} => todo'[b] = todo[b] /\ saw'[b] = saw[b]
      BY <1>10 DEF ReceiveReport, TaskInv
    <2>3. QED
      BY <1>10, <1>a, <2>1, <2>2, WillCloseKept DEF ReceiveReport, historyVars
  <1>11. ASSUME NEW a \in Actors, NEW j \in todo[a], TallyNothing(a, j)
         PROVE WillClose(r)'
    <2>1. /\ NextTodo(a, j)
          /\ UNCHANGED <<status, run, interrupted>>
          /\ ~ AllSeenTerminal(a, RunOf[j]) \/ run[RunOf[j]] # "RUNNING"
      BY <1>11 DEF TallyNothing, NextTodo, runVars, historyVars
    <2>2. Finished(r)
      BY <2>1, ReopenFinishes DEF JobsOf
    <2>3. PICK b \in Actors : \E k \in todo[b] : RunOf[k] = r /\ saw[b] \in Terminal
      BY <1>a, <2>1, <2>2 DEF WillClose
    <2>4. PICK k \in todo[b] : RunOf[k] = r /\ saw[b] \in Terminal
      BY <2>3
    <2>5. b = a => k # j
      <3>1. SUFFICES ASSUME b = a, k = j PROVE FALSE
        OBVIOUS
      <3>2. AllSeenTerminal(a, r)
        BY <2>2, <2>4, <3>1 DEF AllSeenTerminal, Seen, Finished
      <3>3. QED
        BY <2>1, <2>2, <2>4, <3>1, <3>2 DEF Finished
    <2>6. QED
      BY <2>1, <2>4, <2>5, NextTodoClose
  <1>12. ASSUME NEW a \in Actors, NEW j \in todo[a], TallyComplete(a, j)
         PROVE WillClose(r)'
    <2>1. Finished(r)
      BY <1>12, ReopenFinishes DEF TallyComplete, JobsOf, runVars, jobVars
    <2>2. QED
      BY <1>12, <1>a, <2>1, WillCloseKept DEF TallyComplete, historyVars
  <1>13. ASSUME NEW a \in Actors, WriteRun(a) PROVE WillClose(r)'
    <2> DEFINE j == verdict[a].job
    <2>1. /\ verdict[a] \in Verdicts
          /\ j \in todo[a]
      BY <1>13 DEF WriteRun, TaskInv
    <2>2. /\ run' = [run EXCEPT ![RunOf[j]] = verdict[a].status]
          /\ NextTodo(a, j)
      BY <1>13 DEF WriteRun
    <2>3. UNCHANGED <<status, interrupted>>
      BY <2>2 DEF NextTodo, historyVars
    <2>4. RunOf[j] # r
      BY <2>1, <2>2 DEF Verdicts, Finished
    <2>5. Finished(r)
      BY <2>2, <2>3, <2>4, ReopenFinishes DEF JobsOf
    <2>6. PICK b \in Actors : \E k \in todo[b] : RunOf[k] = r /\ saw[b] \in Terminal
      BY <1>a, <2>3, <2>5 DEF WillClose
    <2>7. PICK k \in todo[b] : RunOf[k] = r /\ saw[b] \in Terminal
      BY <2>6
    <2>8. QED
      BY <2>1, <2>2, <2>4, <2>7, NextTodoClose
  <1>14. ASSUME NEW a \in Actors, DatabaseError(a) PROVE WillClose(r)'
    <2>1. /\ UNCHANGED <<status, run>>
          /\ interrupted' = interrupted \cup RunsOf(todo[a])
          /\ \A b \in Actors : b # a => todo'[b] = todo[b] /\ saw'[b] = saw[b]
      BY <1>14 DEF DatabaseError, jobVars, runVars
    <2>2. Finished(r)
      BY <2>1, ReopenFinishes DEF JobsOf
    <2>3. \A k \in todo[a] : RunOf[k] # r
      BY <2>1 DEF RunsOf
    <2>4. QED
      BY <1>a, <2>1, <2>2, <2>3, WillCloseKept
  <1>15. CASE SelectStale
    <2>1. Finished(r)
      BY <1>15, ReopenFinishes DEF SelectStale, JobsOf, runVars, jobVars
    <2>2. QED
      BY <1>15, <1>a, <2>1, WillCloseKept DEF SelectStale, taskVars, historyVars
  <1>16. CASE RequeueStale
    <2>1. Finished(r)
      BY <1>16, ReopenFinishes DEF RequeueStale, JobsOf, Unfinished, runVars
    <2>2. QED
      BY <1>16, <1>a, <2>1, WillCloseKept DEF RequeueStale, taskVars
  <1>17. ASSUME NEW S \in SUBSET Queued, SelectExpired(S) PROVE WillClose(r)'
    <2>1. Finished(r)
      BY <1>17, ReopenFinishes DEF SelectExpired, JobsOf, runVars, jobVars
    <2>2. \A b \in Actors : todo[b] # {} => todo'[b] = todo[b] /\ saw'[b] = saw[b]
      BY <1>17 DEF SelectExpired, TaskInv
    <2>3. QED
      BY <1>17, <1>a, <2>1, <2>2, WillCloseKept DEF SelectExpired, historyVars
  <1>18. CASE ExpireCommit
    <2>1. Expirer \in Actors
      BY DEF Actors
    <2>2. /\ pc[Expirer] = "busy"
          /\ status' = [j \in Jobs |-> IF j \in held[Expirer] THEN "FAILED" ELSE status[j]]
          /\ GoTally(Expirer, held[Expirer], "FAILED")
          /\ UNCHANGED <<run, interrupted>>
      BY <1>18 DEF ExpireCommit, runVars, historyVars
    <2>3. CASE \E k \in held[Expirer] : RunOf[k] = r
      <3>1. PICK k \in held[Expirer] : RunOf[k] = r
        BY <2>3
      <3>2. k \in WithRun(held[Expirer])
        BY <3>1, NoRunAssumption DEF WithRun
      <3>3. k \in todo'[Expirer] /\ saw'[Expirer] = "FAILED"
        BY <2>1, <2>2, <3>2 DEF GoTally
      <3>4. QED
        BY <2>1, <3>1, <3>3 DEF WillClose, Terminal
    <2>4. CASE \A k \in held[Expirer] : RunOf[k] # r
      <3>1. Finished(r)
        BY <2>2, <2>4, ReopenFinishes DEF JobsOf
      <3>2. \A b \in Actors : todo[b] # {} => todo'[b] = todo[b] /\ saw'[b] = saw[b]
        BY <2>1, <2>2 DEF TaskInv, GoTally
      <3>3. QED
        BY <1>a, <2>2, <3>1, <3>2, WillCloseKept
    <2>5. QED
      BY <2>3, <2>4
  <1>19. CASE Restart
    <2>1. /\ status' = [j \in Jobs |-> IF j \in Running THEN "FAILED" ELSE status[j]]
          /\ UNCHANGED run
          /\ interrupted' = interrupted
                \cup RunsOf(Running \cup UNION {todo[a] : a \in Actors})
      BY <1>19 DEF Restart, runVars
    <2>2. \A j \in Running : RunOf[j] # r
      BY <2>1 DEF RunsOf
    <2>3. \A a \in Actors : \A j \in todo[a] : RunOf[j] # r
      BY <2>1 DEF RunsOf
    <2>4. Finished(r)
      BY <2>1, <2>2, ReopenFinishes DEF JobsOf
    <2>5. QED
      BY <1>a, <2>1, <2>3, <2>4 DEF WillClose
  <1>20. CASE UNCHANGED vars
    <2>1. UNCHANGED <<status, run, todo, saw, interrupted>>
      BY <1>20 DEF vars, jobVars, runVars, taskVars, historyVars
    <2>2. QED
      BY <1>a, <2>1, WillCloseKept DEF Finished, Created, JobsOf
  <1>21. QED
    BY <1>1, <1>2, <1>3, <1>4, <1>5, <1>6, <1>7, <1>8, <1>9, <1>10, <1>11, <1>12,
       <1>13, <1>14, <1>15, <1>16, <1>17, <1>18, <1>19, <1>20 DEF Next

\* Theorem: however many tasks finish the last jobs of a run at once, and whatever
\* stale objects they look at, one of them is on the way to close the run, unless a
\* fault interrupted one between its job and its run.
THEOREM NoRunLost == Spec => []NoLostFinalisation
  <1>1. Init => CloseInv
    BY InitType DEF Init, CloseInv, NoLostFinalisation
  <1>2. CloseInv /\ [Next]_vars => CloseInv'
    BY CloseStep
  <1>3. CloseInv => NoLostFinalisation
    BY DEF CloseInv
  <1>4. QED
    BY <1>1, <1>2, <1>3, PTL DEF Spec

-----------------------------------------------------------------------------
(* A SUCCEEDED run has its readings *)

Backed(j) == TypeOf[j] \in ReadingTypes => readings[j] > 0

\* Every success anybody can see or remember has its reading: in the table, in the
\* memory of a task, in a summary not yet committed, in a run.
BackedInv ==
    /\ \A j \in Jobs : status[j] = "SUCCEEDED" => Backed(j)
    /\ \A a \in Actors : pc[a] \in {"tally", "write"} /\ saw[a] = "SUCCEEDED" =>
         \A j \in held[a] : Backed(j)
    /\ \A a \in Workers \cup Handlers : \A j, k \in held[a] : j = k
    /\ \A a \in Actors : pc[a] = "write" =>
         /\ run[RunOf[verdict[a].job]] # "absent"
         /\ verdict[a].status = "SUCCEEDED" =>
              \A k \in Created(RunOf[verdict[a].job]) : Backed(k)
    /\ \A r \in Runs : run[r] = "SUCCEEDED" => \A j \in Created(r) : Backed(j)

BackInv == TypeInv /\ BackedInv

\* Steps that touch no task past its commit and no run keep BackedInv, when they
\* write no success and lose no reading.
LEMMA QuietBacked ==
  ASSUME BackInv,
         \A j \in Jobs : /\ status'[j] # "absent" => status[j] # "absent"
                         /\ status'[j] = "SUCCEEDED" => status[j] = "SUCCEEDED",
         UNCHANGED <<readings, run, verdict>>,
         \A a \in Actors : \/ pc'[a] = pc[a] /\ saw'[a] = saw[a] /\ held'[a] = held[a]
                           \/ pc'[a] \notin {"tally", "write"} /\ held'[a] = {}
                           \/ pc'[a] = "busy" /\ (a # Expirer => \E j \in Jobs : held'[a] = {j})
  PROVE  BackedInv'
  <1> USE DEF BackInv, BackedInv, Backed
  <1>1. \A r : Created(r)' \subseteq Created(r)
    BY DEF Created, JobsOf
  <1>2. \A a \in Workers \cup Handlers : a \in Actors /\ a # Expirer
    BY ActorsAssumption DEF Actors
  <1>3. (\A a \in Workers \cup Handlers : \A j, k \in held[a] : j = k)'
    BY <1>2
  <1>4. (\A a \in Actors : pc[a] \in {"tally", "write"} /\ saw[a] = "SUCCEEDED" =>
            \A j \in held[a] : Backed(j))'
    OBVIOUS
  <1>5. (\A a \in Actors : pc[a] = "write" =>
            /\ run[RunOf[verdict[a].job]] # "absent"
            /\ verdict[a].status = "SUCCEEDED" =>
                 \A k \in Created(RunOf[verdict[a].job]) : Backed(k))'
    BY <1>1
  <1>6. QED
    BY <1>1, <1>3, <1>4, <1>5

\* A success is committed together with its reading.
LEMMA SettleBacked ==
  ASSUME BackInv, NEW a \in Workers \cup Handlers, NEW j \in held[a], NEW new \in JobStatus,
         pc[a] = "busy", status[j] # "absent", Settle(a, j, new)
  PROVE  BackedInv'
  <1> USE DEF BackInv, TypeInv, TypeOK
  <1>0. a \in Actors /\ j \in Jobs /\ held[a] = {j}
    BY DEF Actors, BackedInv
  <1>1. /\ status' = [status EXCEPT ![j] = new]
        /\ \A k \in Jobs : readings'[k] \in Nat /\ readings'[k] >= readings[k]
        /\ new = "SUCCEEDED" /\ TypeOf[j] \in ReadingTypes => readings'[j] > 0
        /\ UNCHANGED <<run, verdict>>
        /\ GoTally(a, {j}, new)
    BY <1>0 DEF Settle, runVars
  <1>2. \A k \in Jobs : Backed(k) => Backed(k)'
    BY <1>1 DEF Backed
  <1>3. new = "SUCCEEDED" => Backed(j)'
    BY <1>1 DEF Backed
  <1>4. \A r : Created(r)' \subseteq Created(r) /\ Created(r) \subseteq Jobs
    BY <1>0, <1>1 DEF Created, JobsOf
  <1>5. /\ \A b \in Actors : b # a => pc'[b] = pc[b] /\ saw'[b] = saw[b] /\ held'[b] = held[b]
        /\ held'[a] \subseteq {j}
        /\ \/ pc'[a] = "tally" /\ saw'[a] = new
           \/ pc'[a] = "idle"
    BY <1>0, <1>1 DEF GoTally
  <1>6. (\A k \in Jobs : status[k] = "SUCCEEDED" => Backed(k))'
    BY <1>0, <1>1, <1>2, <1>3 DEF BackedInv
  <1>7. (\A b \in Actors : pc[b] \in {"tally", "write"} /\ saw[b] = "SUCCEEDED" =>
            \A k \in held[b] : Backed(k))'
    BY <1>0, <1>2, <1>3, <1>5 DEF BackedInv
  <1>8. (\A b \in Workers \cup Handlers : \A i, k \in held[b] : i = k)'
    BY <1>5 DEF BackedInv, Actors
  <1>9. (\A b \in Actors : pc[b] = "write" =>
            /\ run[RunOf[verdict[b].job]] # "absent"
            /\ verdict[b].status = "SUCCEEDED" =>
                 \A k \in Created(RunOf[verdict[b].job]) : Backed(k))'
    BY <1>0, <1>1, <1>2, <1>4, <1>5 DEF BackedInv
  <1>10. (\A r \in Runs : run[r] = "SUCCEEDED" => \A k \in Created(r) : Backed(k))'
    BY <1>1, <1>2, <1>4 DEF BackedInv
  <1>11. QED
    BY <1>6, <1>7, <1>8, <1>9, <1>10 DEF BackedInv

\* Leaving a run behind changes at most that run, and to a summary that is backed.
LEMMA NextTodoBacked ==
  ASSUME BackInv, NEW a \in Actors, NEW j \in todo[a], NextTodo(a, j),
         \A b \in Actors : b # a => verdict'[b] = verdict[b],
         run' \in [Runs -> RunStatus],
         \A r \in Runs : run[r] # "absent" => run'[r] # "absent",
         \A r \in Runs : run'[r] = "SUCCEEDED" => \A k \in Created(r) : Backed(k)
  PROVE  BackedInv'
  <1> USE DEF BackInv, TypeInv, TypeOK
  <1>1. /\ UNCHANGED <<status, readings>>
        /\ \A b \in Actors : b # a => pc'[b] = pc[b] /\ saw'[b] = saw[b] /\ held'[b] = held[b]
        /\ \/ pc'[a] = "idle" /\ held'[a] = {}
           \/ pc'[a] = "tally" /\ saw'[a] = saw[a] /\ held'[a] = held[a]
    BY DEF NextTodo
  <1>2. pc[a] \in {"tally", "write"}
    BY DEF TaskInv
  <1>3. /\ \A k : Backed(k)' = Backed(k)
        /\ \A r : Created(r)' = Created(r)
    BY <1>1 DEF Backed, Created, JobsOf
  <1>4. \A b \in Actors : pc[b] = "write" => RunOf[verdict[b].job] \in Runs
    BY DEF TaskInv
  <1>5. QED
    BY <1>1, <1>2, <1>3, <1>4 DEF BackedInv, Actors

\* Every action keeps BackedInv.
LEMMA BackedStep == BackInv /\ RowsInv /\ [Next]_vars => BackedInv'
  <1> SUFFICES ASSUME BackInv, RowsInv, [Next]_vars PROVE BackedInv'
    OBVIOUS
  <1> USE DEF BackInv, TypeInv, TypeOK
  <1>1. ASSUME NEW S \in SUBSET Jobs, EnqueueManual(S) PROVE BackedInv'
    <2>1. /\ status' = [j \in Jobs |-> IF j \in S THEN "QUEUED" ELSE status[j]]
          /\ UNCHANGED <<readings, run, pc, saw, held, verdict>>
          /\ \A j \in S : RunOf[j] = NoRun
      BY <1>1 DEF EnqueueManual, runVars, taskVars
    <2>2. \A r \in Runs : Created(r)' = Created(r)
      BY <2>1, NoRunAssumption DEF Created, JobsOf
    <2>3. \A a \in Actors : pc[a] = "write" => RunOf[verdict[a].job] \in Runs
      BY DEF TaskInv
    <2>4. QED
      BY <2>1, <2>2, <2>3 DEF BackedInv, Backed
  <1>2. ASSUME NEW j \in Jobs, Age(j) PROVE BackedInv'
    BY <1>2, QuietBacked DEF Age, jobVars, runVars, taskVars
  <1>3. ASSUME NEW r \in Runs, NEW S \in SUBSET JobsOf(r), TriggerRun(r, S)
        PROVE BackedInv'
    <2>1. /\ status' = [j \in Jobs |-> IF j \in S THEN "QUEUED" ELSE status[j]]
          /\ run' = [run EXCEPT ![r] = "RUNNING"]
          /\ run[r] = "absent"
          /\ UNCHANGED <<readings, pc, saw, held, verdict>>
      BY <1>3 DEF TriggerRun, taskVars
    <2>2. \A s : s # r => Created(s)' = Created(s)
      BY <2>1 DEF Created, JobsOf
    <2>3. \A a \in Actors : pc[a] = "write" => RunOf[verdict[a].job] \in Runs \ {r}
      BY <2>1 DEF TaskInv, BackedInv
    <2>4. QED
      BY <2>1, <2>2, <2>3 DEF BackedInv, Backed
  <1>4. ASSUME NEW w \in Workers, FinishJob(w) PROVE BackedInv'
    <2>1. w \in Actors /\ pc[w] = "busy"
      BY <1>4 DEF Actors, FinishJob
    <2>2. PICK j \in held[w] : \E new \in WorkerOutcomes(j) : Settle(w, j, new)
      BY <1>4 DEF FinishJob
    <2>3. PICK new \in WorkerOutcomes(j) : Settle(w, j, new)
      BY <2>2
    <2>4. new \in JobStatus /\ status[j] # "absent"
      BY <2>1 DEF WorkerOutcomes, JobStatus, Unfinished, Terminal, RowsInv
    <2>5. QED
      BY <2>1, <2>3, <2>4, SettleBacked
  <1>5. ASSUME NEW w \in Workers, NEW j \in Jobs, ClaimNext(w, j) PROVE BackedInv'
    BY <1>5, QuietBacked DEF ClaimNext, ForWorker, Actors, runVars
  <1>6. ASSUME NEW c \in Calls, NEW m \in Meters, NEW S \in SUBSET DueOf(m),
               GatewayClaim(c, m, S)
        PROVE BackedInv'
    <2>1. \A j \in S : status[j] = "QUEUED"
      BY DEF DueOf, Queued
    <2>2. QED
      BY <1>6, <2>1, QuietBacked DEF GatewayClaim, runVars, taskVars
  <1>7. ASSUME NEW c \in Calls, NEW j \in hand[c], NEW ok \in BOOLEAN, SendReport(c, j, ok)
        PROVE BackedInv'
    BY <1>7, QuietBacked DEF SendReport, jobVars, runVars, taskVars
  <1>8. ASSUME NEW c \in Calls, NEW S \in SUBSET hand[c], GatewayDrop(c, S)
        PROVE BackedInv'
    BY <1>8, QuietBacked DEF GatewayDrop, jobVars, runVars, taskVars
  <1>9. ASSUME NEW h \in Handlers, FinishReport(h) PROVE BackedInv'
    <2>1. h \in Actors /\ pc[h] = "busy"
      BY <1>9 DEF Actors, FinishReport
    <2>2. PICK j \in held[h] : Settle(h, j, saw[h])
      BY <1>9 DEF FinishReport
    <2>3. saw[h] \in JobStatus /\ status[j] # "absent"
      BY <2>1 DEF RowsInv
    <2>4. QED
      BY <2>1, <2>2, <2>3, SettleBacked
  <1>10. ASSUME NEW h \in Handlers, NEW msg \in inbox, ReceiveReport(h, msg)
         PROVE BackedInv'
    BY <1>10, QuietBacked DEF ReceiveReport, Actors, jobVars, runVars
  <1>11. ASSUME NEW a \in Actors, NEW j \in todo[a], TallyNothing(a, j) PROVE BackedInv'
    <2>1. NextTodo(a, j) /\ UNCHANGED <<run, verdict>>
      BY <1>11 DEF TallyNothing, runVars
    <2>2. QED
      BY <2>1, NextTodoBacked DEF BackedInv
  <1>12. ASSUME NEW a \in Actors, NEW j \in todo[a], TallyComplete(a, j) PROVE BackedInv'
    <2>1. /\ pc[a] = "tally"
          /\ run[RunOf[j]] = "RUNNING"
          /\ pc' = [pc EXCEPT ![a] = "write"]
          /\ verdict' = [verdict EXCEPT ![a] =
                           [job |-> j, status |-> Summary(a, RunOf[j])]]
          /\ UNCHANGED <<status, readings, run, held, saw>>
      BY <1>12 DEF TallyComplete, jobVars, runVars
    <2>2. /\ \A k : Backed(k)' = Backed(k)
          /\ \A r : Created(r)' = Created(r)
      BY <2>1 DEF Backed, Created, JobsOf
    <2>3. ASSUME Summary(a, RunOf[j]) = "SUCCEEDED", NEW k \in Created(RunOf[j])
          PROVE Backed(k)
      <3>1. Seen(a, k) = "SUCCEEDED" /\ k \in Jobs
        BY <2>3 DEF Summary, Created, JobsOf
      <3>2. CASE k \in held[a]
        BY <2>1, <3>1, <3>2 DEF Seen, BackedInv
      <3>3. CASE k \notin held[a]
        BY <3>1, <3>3 DEF Seen, BackedInv
      <3>4. QED
        BY <3>2, <3>3
    <2>4. verdict'[a].job = j /\ verdict'[a].status = Summary(a, RunOf[j])
      BY <2>1
    <2>5. \A b \in Actors : b # a => pc'[b] = pc[b] /\ verdict'[b] = verdict[b]
      BY <2>1
    <2>6. (\A b \in Actors : pc[b] = "write" =>
              /\ run[RunOf[verdict[b].job]] # "absent"
              /\ verdict[b].status = "SUCCEEDED" =>
                   \A k \in Created(RunOf[verdict[b].job]) : Backed(k))'
      BY <2>1, <2>2, <2>3, <2>4, <2>5 DEF BackedInv
    <2>7. QED
      BY <2>1, <2>2, <2>5, <2>6 DEF BackedInv
  <1>13. ASSUME NEW a \in Actors, WriteRun(a) PROVE BackedInv'
    <2> DEFINE j == verdict[a].job
    <2>1. /\ verdict[a] \in Verdicts
          /\ j \in todo[a]
      BY <1>13 DEF WriteRun, TaskInv
    <2>2. /\ pc[a] = "write"
          /\ run' = [run EXCEPT ![RunOf[j]] = verdict[a].status]
          /\ NextTodo(a, j)
          /\ verdict' = [verdict EXCEPT ![a] = NoVerdict]
      BY <1>13 DEF WriteRun
    <2>3. verdict[a].status \in RunStatus \ {"absent"} /\ RunOf[j] \in Runs
      BY <2>1 DEF Verdicts, RunStatus, TaskInv
    <2>4. /\ run' \in [Runs -> RunStatus]
          /\ \A r \in Runs : run[r] # "absent" => run'[r] # "absent"
      BY <2>2, <2>3
    <2>5. \A r \in Runs : run'[r] = "SUCCEEDED" => \A k \in Created(r) : Backed(k)
      BY <2>2, <2>3 DEF BackedInv
    <2>6. QED
      BY <2>1, <2>2, <2>4, <2>5, NextTodoBacked
  <1>14. ASSUME NEW a \in Actors, DatabaseError(a) PROVE BackedInv'
    <2>1. /\ UNCHANGED <<status, readings, run>>
          /\ pc'[a] \in {"dead", "idle"} /\ held'[a] = {}
          /\ \A b \in Actors : b # a => /\ pc'[b] = pc[b]
                                        /\ saw'[b] = saw[b]
                                        /\ held'[b] = held[b]
                                        /\ verdict'[b] = verdict[b]
      BY <1>14 DEF DatabaseError, jobVars, runVars
    <2>2. /\ \A k : Backed(k)' = Backed(k)
          /\ \A r : Created(r)' = Created(r)
      BY <2>1 DEF Backed, Created, JobsOf
    <2>3. QED
      BY <2>1, <2>2 DEF BackedInv, Actors
  <1>15. CASE SelectStale
    BY <1>15, QuietBacked DEF SelectStale, jobVars, runVars, taskVars
  <1>16. CASE RequeueStale
    BY <1>16, QuietBacked DEF RequeueStale, RowsInv, runVars, taskVars
  <1>17. ASSUME NEW S \in SUBSET Queued, SelectExpired(S) PROVE BackedInv'
    BY <1>17, QuietBacked DEF SelectExpired, Queued, jobVars, runVars
  <1>18. CASE ExpireCommit
    <2>1. /\ Expirer \in Actors
          /\ Expirer \notin Workers \cup Handlers
          /\ \A a \in Workers \cup Handlers : a \in Actors
      BY ActorsAssumption DEF Actors
    <2>2. /\ status' = [j \in Jobs |-> IF j \in held[Expirer] THEN "FAILED" ELSE status[j]]
          /\ UNCHANGED <<readings, run, verdict>>
          /\ GoTally(Expirer, held[Expirer], "FAILED")
      BY <1>18 DEF ExpireCommit, runVars
    <2>3. /\ \A k : Backed(k)' = Backed(k)
          /\ \A r : Created(r)' = Created(r)
      BY <2>1, <2>2 DEF Backed, Created, JobsOf, RowsInv
    <2>4. /\ \A b \in Actors : b # Expirer => /\ pc'[b] = pc[b]
                                             /\ saw'[b] = saw[b]
                                             /\ held'[b] = held[b]
          /\ \/ pc'[Expirer] = "tally" /\ saw'[Expirer] = "FAILED"
             \/ pc'[Expirer] = "idle"
      BY <2>1, <2>2 DEF GoTally
    <2>5. \A j \in Jobs : status'[j] = "SUCCEEDED" => status[j] = "SUCCEEDED"
      BY <2>2
    <2>6. (\A a \in Actors : pc[a] \in {"tally", "write"} /\ saw[a] = "SUCCEEDED" =>
              \A j \in held[a] : Backed(j))'
      BY <2>3, <2>4 DEF BackedInv
    <2>7. (\A a \in Actors : pc[a] = "write" =>
              /\ run[RunOf[verdict[a].job]] # "absent"
              /\ verdict[a].status = "SUCCEEDED" =>
                   \A k \in Created(RunOf[verdict[a].job]) : Backed(k))'
      BY <2>2, <2>3, <2>4 DEF BackedInv
    <2>8. QED
      BY <2>1, <2>2, <2>3, <2>4, <2>5, <2>6, <2>7 DEF BackedInv
  <1>19. CASE Restart
    <2>1. /\ status' = [j \in Jobs |-> IF j \in Running THEN "FAILED" ELSE status[j]]
          /\ pc' = [a \in Actors |-> "idle"]
          /\ held' = [a \in Actors |-> {}]
          /\ UNCHANGED <<readings, run>>
      BY <1>19 DEF Restart, runVars
    <2>2. /\ \A k : Backed(k)' = Backed(k)
          /\ \A r : Created(r)' = Created(r)
      BY <2>1 DEF Backed, Created, JobsOf, Running
    <2>3. QED
      BY <2>1, <2>2 DEF BackedInv, Actors
  <1>20. CASE UNCHANGED vars
    <2>1. UNCHANGED <<status, readings, run, pc, saw, held, verdict>>
      BY <1>20 DEF vars, jobVars, runVars, taskVars
    <2>2. QED
      BY <2>1 DEF BackedInv, Backed, Created, JobsOf
  <1>21. QED
    BY <1>1, <1>2, <1>3, <1>4, <1>5, <1>6, <1>7, <1>8, <1>9, <1>10, <1>11, <1>12,
       <1>13, <1>14, <1>15, <1>16, <1>17, <1>18, <1>19, <1>20 DEF Next

\* Theorem: a run recorded as SUCCEEDED never lacks the reading of one of its jobs,
\* though its summary is drawn from objects in memory and written later.
THEOREM SuccessBacked == Spec => []VerdictBacked
  <1> DEFINE Inv == ClaimInv /\ BackInv
  <1>1. Init => Inv
    BY InitClaim, InitType, ActorsAssumption
       DEF Init, ClaimInv, BackInv, BackedInv, Created, Actors
  <1>2. Inv /\ [Next]_vars => Inv'
    BY ClaimStep, BackedStep, TypeStep DEF ClaimInv, BackInv
  <1>3. Inv => VerdictBacked
    BY DEF BackInv, BackedInv, Backed, VerdictBacked
  <1>4. QED
    BY <1>1, <1>2, <1>3, PTL DEF Spec

-----------------------------------------------------------------------------
(* Nothing but the reaper sends a job out twice *)

\* Who may still store a reading of j: a task in its handler, a thread of the Gateway,
\* a report on its way.
Executions(j) ==
    {<<"task", a>> : a \in {b \in Workers \cup Handlers : pc[b] = "busy" /\ j \in held[b]}} \cup
    {<<"call", c>> : c \in {d \in Calls : j \in hand[d]}} \cup
    {<<"report", m>> : m \in {n \in inbox : n.job = j}}

Unclaimed == {"absent", "QUEUED"}

\* One execution at a time, which has stored nothing yet; a row nobody has claimed
\* has no execution and no reading.
OneExecution(j) ==
    /\ \A x, y \in Executions(j) : x = y
    /\ Executions(j) # {} => status[j] \notin Unclaimed /\ readings[j] = 0
    /\ status[j] \in Unclaimed => readings[j] = 0
    /\ readings[j] <= 1

ExecutionInv == \A j \in Jobs \ restaled : OneExecution(j)

\* Nobody takes part in j who did not before, and the row does not go back.
LEMMA ExecutionKept ==
  ASSUME NEW j, OneExecution(j), Executions(j)' \subseteq Executions(j),
         readings'[j] = readings[j], status'[j] \in Unclaimed => status[j] \in Unclaimed
  PROVE  OneExecution(j)'
  BY DEF OneExecution

\* A claim of a QUEUED row.
LEMMA ExecutionBegins ==
  ASSUME NEW j, OneExecution(j), NEW x, status[j] \in Unclaimed, status'[j] \notin Unclaimed,
         Executions(j)' \subseteq Executions(j) \cup {x}, readings'[j] = readings[j]
  PROVE  OneExecution(j)'
  BY DEF OneExecution

\* The execution goes from one hand to another.
LEMMA ExecutionPassed ==
  ASSUME NEW j, OneExecution(j), NEW x \in Executions(j), NEW y,
         Executions(j)' \subseteq (Executions(j) \ {x}) \cup {y},
         readings'[j] = readings[j], status'[j] = status[j]
  PROVE  OneExecution(j)'
  BY DEF OneExecution

\* The execution ends, with at most one reading.
LEMMA ExecutionEnds ==
  ASSUME NEW j \in Jobs, OneExecution(j), NEW x \in Executions(j),
         Executions(j)' \subseteq Executions(j) \ {x},
         readings'[j] \in {0, 1}, status'[j] \in Unclaimed => readings'[j] = 0
  PROVE  OneExecution(j)'
  <1>1. Executions(j)' = {}
    BY DEF OneExecution
  <1>2. QED
    BY <1>1 DEF OneExecution

\* The commit of a handler for the job it works on.
LEMMA SettleExecution ==
  ASSUME TypeInv, ExecutionInv, NEW a \in Workers \cup Handlers, pc[a] = "busy",
         NEW i \in held[a], NEW new \in JobStatus \ {"absent"}, Settle(a, i, new)
  PROVE  ExecutionInv'
  <1>1. /\ a \in Actors /\ i \in Jobs
        /\ status' = [status EXCEPT ![i] = new]
        /\ pc'[a] # "busy"
        /\ \A b \in Actors : b # a => pc'[b] = pc[b] /\ held'[b] = held[b]
        /\ UNCHANGED <<hand, inbox, restaled>>
    BY DEF Settle, GoTally, TypeInv, TypeOK, Actors, gatewayVars, historyVars
  <1>2. \A j : Executions(j)' \subseteq Executions(j) \ {<<"task", a>>}
    BY <1>1 DEF Executions, Actors
  <1>3. <<"task", a>> \in Executions(i)
    BY DEF Executions
  <1>4. ASSUME NEW j \in Jobs \ restaled PROVE OneExecution(j)'
    <2>1. OneExecution(j)
      BY DEF ExecutionInv
    <2>2. CASE j # i
      <3>1. readings'[j] = readings[j] /\ status'[j] = status[j]
        BY <1>1, <2>2 DEF Settle, TypeInv, TypeOK
      <3>2. QED
        BY <1>2, <2>1, <3>1, ExecutionKept
    <2>3. CASE j = i
      <3>1. readings[j] = 0
        BY <1>3, <2>1, <2>3 DEF OneExecution
      <3>2. readings'[j] \in {0, 1} /\ (readings'[j] = 1 => new = "SUCCEEDED")
        BY <1>1, <2>3, <3>1 DEF Settle, TypeInv, TypeOK
      <3>3. status'[j] = new
        BY <1>1, <2>3 DEF TypeInv, TypeOK
      <3>4. status'[j] \in Unclaimed => readings'[j] = 0
        BY <3>2, <3>3 DEF Unclaimed
      <3>5. QED
        BY <1>2, <1>3, <2>1, <2>3, <3>2, <3>4, ExecutionEnds
    <2>4. QED
      BY <2>2, <2>3
  <1>5. QED
    BY <1>1, <1>4 DEF ExecutionInv

\* Steps that give no job a new executor, no row back and no reading.
LEMMA QuietExecution ==
  ASSUME ExecutionInv, restaled \subseteq restaled',
         \A a \in Workers \cup Handlers :
            pc'[a] = "busy" => pc[a] = "busy" /\ held'[a] = held[a],
         \A c \in Calls : hand'[c] \subseteq hand[c],
         inbox' \subseteq inbox, UNCHANGED readings,
         \A j \in Jobs \ restaled' : status'[j] \in Unclaimed => status[j] \in Unclaimed
  PROVE  ExecutionInv'
  <1>1. \A j : Executions(j)' \subseteq Executions(j)
    BY DEF Executions
  <1>2. ASSUME NEW j \in Jobs \ restaled' PROVE OneExecution(j)'
    BY <1>1, ExecutionKept DEF ExecutionInv
  <1>3. QED
    BY <1>2 DEF ExecutionInv

\* Every step keeps the executions of a job apart.
LEMMA ExecutionStep == ClaimInv /\ ExecutionInv /\ [Next]_vars => ExecutionInv'
  <1> SUFFICES ASSUME ClaimInv, TypeInv, RowsInv, ExecutionInv, [Next]_vars PROVE ExecutionInv'
    BY DEF ClaimInv
  <1>0. /\ \A c \in Calls : hand[c] \subseteq Jobs
        /\ status \in [Jobs -> JobStatus] /\ inbox \subseteq [job : Jobs, ok : BOOLEAN]
        /\ readings \in [Jobs -> Nat] /\ hand \in [Calls -> SUBSET Jobs]
        /\ DOMAIN pc = Actors /\ DOMAIN held = Actors /\ \A a \in Actors : held[a] \subseteq Jobs
        /\ Workers \subseteq Actors /\ Handlers \subseteq Actors
    BY DEF TypeInv, TypeOK, Actors
  <1>1. ASSUME NEW S \in SUBSET Jobs, EnqueueManual(S) PROVE ExecutionInv'
    BY <1>1, QuietExecution DEF EnqueueManual, Unclaimed, taskVars, gatewayVars, historyVars
  <1>2. ASSUME NEW j \in Jobs, Age(j) PROVE ExecutionInv'
    BY <1>2, QuietExecution DEF Age, jobVars, taskVars, gatewayVars, historyVars
  <1>3. ASSUME NEW r \in Runs, NEW S \in SUBSET JobsOf(r), TriggerRun(r, S) PROVE ExecutionInv'
    <2>1. \A j \in S : status[j] = "absent"
      BY <1>3 DEF TriggerRun, JobsOf, RowsInv
    <2>2. QED
      BY <1>3, <2>1, QuietExecution DEF TriggerRun, Unclaimed, taskVars, gatewayVars, historyVars
  <1>4. ASSUME NEW w \in Workers, FinishJob(w) PROVE ExecutionInv'
    <2>1. PICK j \in held[w] : \E new \in WorkerOutcomes(j) : Settle(w, j, new)
      BY <1>4 DEF FinishJob
    <2>2. PICK new \in WorkerOutcomes(j) : Settle(w, j, new)
      BY <2>1
    <2>3. pc[w] = "busy" /\ new \in JobStatus \ {"absent"}
      BY <1>4 DEF FinishJob, WorkerOutcomes, JobStatus, Unfinished, Terminal
    <2>4. QED
      BY <2>2, <2>3, SettleExecution
  <1>5. ASSUME NEW w \in Workers, NEW i \in Jobs, ClaimNext(w, i) PROVE ExecutionInv'
    <2>1. /\ status[i] = "QUEUED" /\ status' = [status EXCEPT ![i] = "RUNNING"]
          /\ pc' = [pc EXCEPT ![w] = "busy"] /\ held' = [held EXCEPT ![w] = {i}]
          /\ UNCHANGED <<readings, hand, inbox, restaled>>
      BY <1>5 DEF ClaimNext, ForWorker, gatewayVars, historyVars
    <2>2. /\ \A j : j # i => Executions(j)' \subseteq Executions(j)
          /\ Executions(i)' \subseteq Executions(i) \cup {<<"task", w>>}
      BY <1>0, <2>1 DEF Executions
    <2>3. ASSUME NEW j \in Jobs \ restaled PROVE OneExecution(j)'
      <3>1. CASE j = i
        BY <1>0, <2>1, <2>2, <3>1, ExecutionBegins DEF ExecutionInv, Unclaimed
      <3>2. CASE j # i
        BY <1>0, <2>1, <2>2, <3>2, ExecutionKept DEF ExecutionInv
      <3>3. QED
        BY <3>1, <3>2
    <2>4. QED
      BY <2>1, <2>3 DEF ExecutionInv
  <1>6. ASSUME NEW c \in Calls, NEW m \in Meters, NEW S \in SUBSET DueOf(m), GatewayClaim(c, m, S)
        PROVE ExecutionInv'
    <2>1. /\ \A j \in S : status[j] = "QUEUED"
          /\ status' = [j \in Jobs |-> IF j \in S THEN "RUNNING" ELSE status[j]]
          /\ hand[c] = {} /\ hand' = [hand EXCEPT ![c] = S]
          /\ UNCHANGED <<readings, pc, held, inbox, restaled>>
      BY <1>6 DEF GatewayClaim, DueOf, Queued, taskVars, historyVars
    <2>2. \A j : /\ j \notin S => Executions(j)' \subseteq Executions(j)
                 /\ Executions(j)' \subseteq Executions(j) \cup {<<"call", c>>}
      BY <1>0, <2>1 DEF Executions
    <2>3. ASSUME NEW j \in Jobs \ restaled PROVE OneExecution(j)'
      <3>1. CASE j \in S
        BY <2>1, <2>2, <3>1, ExecutionBegins DEF ExecutionInv, Unclaimed
      <3>2. CASE j \notin S
        BY <2>1, <2>2, <3>2, ExecutionKept DEF ExecutionInv
      <3>3. QED
        BY <3>1, <3>2
    <2>4. QED
      BY <2>1, <2>3 DEF ExecutionInv
  <1>7. ASSUME NEW c \in Calls, NEW i \in hand[c], NEW ok \in BOOLEAN, SendReport(c, i, ok)
        PROVE ExecutionInv'
    <2> DEFINE msg == [job |-> i, ok |-> ok]
    <2>1. /\ hand' = [hand EXCEPT ![c] = @ \ {i}] /\ inbox' = inbox \cup {msg}
          /\ UNCHANGED <<status, readings, pc, held, restaled>>
      BY <1>7 DEF SendReport, jobVars, taskVars, historyVars
    <2>2. msg.job = i
      OBVIOUS
    <2> HIDE DEF msg
    <2>3. /\ \A j : j # i => Executions(j)' \subseteq Executions(j)
          /\ Executions(i)' \subseteq (Executions(i) \ {<<"call", c>>}) \cup {<<"report", msg>>}
          /\ <<"call", c>> \in Executions(i)
      BY <1>0, <2>1, <2>2 DEF Executions
    <2>4. ASSUME NEW j \in Jobs \ restaled PROVE OneExecution(j)'
      <3>1. CASE j = i
        BY <2>1, <2>3, <3>1, ExecutionPassed DEF ExecutionInv
      <3>2. CASE j # i
        BY <2>1, <2>3, <3>2, ExecutionKept DEF ExecutionInv
      <3>3. QED
        BY <3>1, <3>2
    <2>5. QED
      BY <2>1, <2>4 DEF ExecutionInv
  <1>8. ASSUME NEW c \in Calls, NEW S \in SUBSET hand[c], GatewayDrop(c, S) PROVE ExecutionInv'
    <2>1. \A d \in Calls : hand'[d] \subseteq hand[d]
      BY <1>0, <1>8 DEF GatewayDrop
    <2>2. QED
      BY <1>8, <2>1, QuietExecution DEF GatewayDrop, jobVars, taskVars, historyVars
  <1>9. ASSUME NEW h \in Handlers, FinishReport(h) PROVE ExecutionInv'
    <2>1. PICK j \in held[h] : Settle(h, j, saw[h])
      BY <1>9 DEF FinishReport
    <2>2. pc[h] = "busy" /\ saw[h] \in JobStatus \ {"absent"}
      BY <1>0, <1>9 DEF FinishReport, TypeInv, TaskInv, JobStatus, Terminal
    <2>3. QED
      BY <2>1, <2>2, SettleExecution
  <1>10. ASSUME NEW h \in Handlers, NEW msg \in inbox, ReceiveReport(h, msg) PROVE ExecutionInv'
    <2>1. /\ inbox' = inbox \ {msg} /\ pc[h] = "idle"
          /\ UNCHANGED <<status, readings, hand, restaled>>
      BY <1>10 DEF ReceiveReport, jobVars, historyVars
    <2>2. CASE UNCHANGED <<pc, held, saw>>
      BY <2>1, <2>2, QuietExecution
    <2>3. CASE pc' = [pc EXCEPT ![h] = "busy"] /\ held' = [held EXCEPT ![h] = {msg.job}]
      <3>1. /\ \A j : j # msg.job => Executions(j)' \subseteq Executions(j)
            /\ Executions(msg.job)' \subseteq
                  (Executions(msg.job) \ {<<"report", msg>>}) \cup {<<"task", h>>}
            /\ <<"report", msg>> \in Executions(msg.job)
        BY <1>0, <2>1, <2>3 DEF Executions
      <3>2. ASSUME NEW j \in Jobs \ restaled PROVE OneExecution(j)'
        <4>1. CASE j = msg.job
          BY <2>1, <3>1, <4>1, ExecutionPassed DEF ExecutionInv
        <4>2. CASE j # msg.job
          BY <2>1, <3>1, <4>2, ExecutionKept DEF ExecutionInv
        <4>3. QED
          BY <4>1, <4>2
      <3>3. QED
        BY <2>1, <3>2 DEF ExecutionInv
    <2>4. QED
      BY <1>10, <2>2, <2>3 DEF ReceiveReport
  <1>11. ASSUME NEW a \in Actors, NEW j \in todo[a], NextTodo(a, j) PROVE ExecutionInv'
    <2>1. /\ pc'[a] # "busy" /\ \A b \in Actors : b # a => pc'[b] = pc[b] /\ held'[b] = held[b]
          /\ UNCHANGED <<status, readings, hand, inbox, restaled>>
      BY <1>0, <1>11 DEF NextTodo, gatewayVars, historyVars
    <2>2. QED
      BY <1>0, <2>1, QuietExecution
  <1>12. ASSUME NEW a \in Actors, NEW j \in todo[a], TallyComplete(a, j) PROVE ExecutionInv'
    BY <1>0, <1>12, QuietExecution DEF TallyComplete, jobVars, gatewayVars, historyVars
  <1>13. ASSUME NEW a \in Actors, WriteRun(a) PROVE ExecutionInv'
    BY <1>11, <1>13 DEF WriteRun, TypeInv, TaskInv
  <1>14. ASSUME NEW a \in Actors, DatabaseError(a) PROVE ExecutionInv'
    BY <1>0, <1>14, QuietExecution DEF DatabaseError, jobVars, gatewayVars
  <1>15. CASE SelectStale
    BY <1>15, QuietExecution DEF SelectStale, jobVars, taskVars, gatewayVars, historyVars
  <1>16. CASE RequeueStale
    BY <1>16, QuietExecution DEF RequeueStale, taskVars, gatewayVars
  <1>17. ASSUME NEW S \in SUBSET Queued, SelectExpired(S) PROVE ExecutionInv'
    <2>1. Expirer \notin Workers \cup Handlers
      BY ActorsAssumption
    <2>2. QED
      BY <1>0, <1>17, <2>1, QuietExecution
         DEF SelectExpired, jobVars, gatewayVars, historyVars
  <1>18. CASE ExpireCommit
    <2>1. Expirer \in Actors /\ Expirer \notin Workers \cup Handlers
      BY ActorsAssumption DEF Actors
    <2>2. /\ \A a \in Workers \cup Handlers : pc'[a] = pc[a] /\ held'[a] = held[a]
          /\ UNCHANGED <<readings, hand, inbox, restaled>>
      BY <1>0, <1>18, <2>1 DEF ExpireCommit, GoTally, gatewayVars, historyVars
    <2>3. \A j \in Jobs : status'[j] \in Unclaimed => status[j] \in Unclaimed
      BY <1>18 DEF ExpireCommit, Unclaimed
    <2>4. QED
      BY <2>2, <2>3, QuietExecution
  <1>19. CASE Restart
    BY <1>0, <1>19, QuietExecution DEF Restart, Unclaimed
  <1>20. CASE UNCHANGED vars
    BY <1>20, QuietExecution DEF vars, jobVars, taskVars, gatewayVars, historyVars
  <1>21. QED
    BY <1>1, <1>2, <1>3, <1>4, <1>5, <1>6, <1>7, <1>8, <1>9, <1>10, <1>11, <1>12, <1>13,
       <1>14, <1>15, <1>16, <1>17, <1>18, <1>19, <1>20 DEF Next, TallyNothing

\* What holds of claims and executions together is inductive.
QueueInv == ClaimInv /\ BackInv /\ ExecutionInv

\* It holds at the start.
LEMMA InitQueue == Init => QueueInv
  BY InitClaim, InitType, ActorsAssumption
     DEF Init, QueueInv, BackInv, BackedInv, ExecutionInv, OneExecution, Executions, Unclaimed,
         Created, Actors

\* Every step keeps it.
LEMMA QueueStep == QueueInv /\ [Next]_vars => QueueInv'
  BY ClaimStep, BackedStep, TypeStep, ExecutionStep DEF QueueInv, ClaimInv, BackInv

\* Theorem: a job the reaper has not returned to the queue is in at most one pair of hands
\* at any time, be it a worker, a Gateway thread, a report on its way or its handler: the
\* two paths never execute one command together.
THEOREM ExecutedByOne ==
  Spec => [](\A j \in Jobs \ restaled : \A x, y \in Executions(j) : x = y)
  <1>1. QueueInv => \A j \in Jobs \ restaled : \A x, y \in Executions(j) : x = y
    BY DEF QueueInv, ExecutionInv, OneExecution
  <1>2. QED
    BY <1>1, InitQueue, QueueStep, PTL DEF Spec

\* Theorem: whatever is lost, late or raced for, a job the reaper has not returned to the
\* queue stores at most one reading.
THEOREM ReadOnce == Spec => []DoubleReadingOnlyAfterRequeue
  <1>1. QueueInv => DoubleReadingOnlyAfterRequeue
    BY DEF QueueInv, ExecutionInv, OneExecution, DoubleReadingOnlyAfterRequeue
  <1>2. QED
    BY <1>1, InitQueue, QueueStep, PTL DEF Spec

=============================================================================
