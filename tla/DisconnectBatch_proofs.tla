----------------------- MODULE DisconnectBatch_proofs -----------------------
(***************************************************************************)
(* The batches ride on the job table without disturbing it: projected on   *)
(* the variables of JobQueue, every behaviour of BatchSpec is one of Spec. *)
(* So what is proved of Spec holds of relay commands.  Then, of batches:   *)
(* the idempotency of acceptance; that an item says what became of its     *)
(* command, a verdict what became of the items, and that no batch is left  *)
(* open; and of relays, the order in which they obey.                      *)
(***************************************************************************)
EXTENDS DisconnectBatch, JobQueue_proofs, WellFoundedInduction

-----------------------------------------------------------------------------
(* DisconnectBatch implements JobQueue *)

\* Every step of the batches is a step of the job table, or leaves it alone.
LEMMA BatchStepIsQueueStep ==
  ASSUME TypeOK, [BatchNext]_batchesVars
  PROVE  [Next]_vars
  <1>1. ASSUME NEW j \in Jobs, BeginManual(j) \/ AcceptManual(j) PROVE [Next]_vars
    <2>0. BeginManual(j) => UNCHANGED vars
      BY DEF BeginManual
    <2>1. AcceptManual(j) => EnqueueManual({j})
      BY DEF AcceptManual
    <2>2. EnqueueManual({j}) => {j} \in SUBSET {k \in Jobs : status[k] = "absent"}
      BY DEF EnqueueManual
    <2>3. QED
      BY <1>1, <2>0, <2>1, <2>2 DEF Next
  <1>2. ASSUME NEW j \in Jobs, SwitchLate(j) \/ StrayEnds(j) PROVE [Next]_vars
    BY <1>2 DEF SwitchLate, StrayEnds, Switch
  <1>3. ASSUME NEW q \in Requests, CheckKey(q) PROVE [Next]_vars
    BY <1>3 DEF CheckKey
  <1>4. ASSUME NEW q \in Requests, CreateBatch(q) PROVE [Next]_vars
    <2> DEFINE known == Known(q)
    <2>1. UNCHANGED vars \/ EnqueueManual(known)
      BY <1>4 DEF CreateBatch
    <2>2. EnqueueManual(known) => known \in SUBSET {k \in Jobs : status[k] = "absent"}
      BY DEF EnqueueManual, ItemsOf, Known
    <2>3. QED
      BY <2>1, <2>2 DEF Next
  <1>5. ASSUME NEW w \in Workers, SwitchForWorker(w) PROVE [Next]_vars
    BY <1>5 DEF SwitchForWorker, Switch
  <1>6. ASSUME NEW w \in Workers, Finish(w) PROVE [Next]_vars
    BY <1>6 DEF Finish, Next
  <1>7. ASSUME NEW w \in Workers, NEW j \in Jobs, Claim(w, j) PROVE [Next]_vars
    BY <1>7 DEF Claim, Next
  <1>8. ASSUME NEW c \in Calls, SwitchOnCall(c) PROVE [Next]_vars
    BY <1>8 DEF SwitchOnCall, Switch
  <1>9. ASSUME NEW c \in Calls, NEW m \in Meters, NEW S \in SUBSET DueOf(m), Take(c, m, S)
        PROVE [Next]_vars
    BY <1>9 DEF Take, Next
  <1>10. ASSUME NEW c \in Calls, NEW j \in hand[c], NEW ok \in BOOLEAN, Report(c, j, ok)
         PROVE [Next]_vars
    BY <1>10 DEF Report, Next
  <1>11. ASSUME NEW h \in Handlers, Accept(h) PROVE [Next]_vars
    BY <1>11 DEF Accept, Next
  <1>12. ASSUME NEW h \in Handlers, NEW msg \in inbox, Receive(h, msg) PROVE [Next]_vars
    BY <1>12 DEF Receive, Next
  <1>13. ASSUME NEW a \in Actors, FlushItem(a) \/ CommitItem(a) PROVE [Next]_vars
    BY <1>13 DEF FlushItem, CommitItem
  <1>14. ASSUME NEW a \in Actors, TaskError(a) PROVE [Next]_vars
    BY <1>14 DEF TaskError, Next
  <1>15. CASE Housekeeping
    BY <1>15 DEF Housekeeping, Next
  <1>16. CASE BackendRestart
    BY <1>16 DEF BackendRestart, Next
  <1>17. CASE UNCHANGED batchesVars
    BY <1>17 DEF batchesVars
  <1>18. QED
    BY <1>1, <1>2, <1>3, <1>4, <1>5, <1>6, <1>7, <1>8, <1>9, <1>10, <1>11, <1>12,
       <1>13, <1>14, <1>15, <1>16, <1>17 DEF BatchNext

\* Theorem: acceptance, items, batches and relays added, the job table still
\* behaves as JobQueue says.
THEOREM BatchImplementsQueue == BatchSpec => Spec
  <1>1. BatchInit => TypeInv /\ Init
    BY InitType DEF BatchInit
  <1>2. TypeInv /\ [BatchNext]_batchesVars => [Next]_vars
    BY BatchStepIsQueueStep DEF TypeInv
  <1>3. TypeInv /\ [BatchNext]_batchesVars => TypeInv'
    BY <1>2, TypeStep
  <1>4. QED
    BY <1>1, <1>2, <1>3, PTL DEF BatchSpec, Spec

\* Theorem: so no relay command is ever in the hands of two workers.
THEOREM CommandsExclude == BatchSpec => []WorkerExclusion
  BY BatchImplementsQueue, WorkersExclude, PTL

-----------------------------------------------------------------------------
(* Types *)

\* An item is what a task writes after its job.
Tasks == [step : {"item"}, job : Items, ok : BOOLEAN] \cup
         [step : {"flushed"}, job : Items, ok : BOOLEAN, final : Final \cup {"none"}]

\* The table is as JobQueue says, tasks write items, and there is a last created_at.
BatchTypeInv ==
    /\ TypeInv /\ BatchTypeOK
    /\ chore \in [Actors -> Tasks \cup {NoChore}]
    /\ \E n \in Nat : \A j \in Jobs : stamp[j] <= n

\* Where there is a bound there is a largest value.
LEMMA MaxExists ==
  ASSUME NEW f \in [Jobs -> Nat], NEW n \in Nat, \A j \in Jobs : f[j] <= n, Jobs # {}
  PROVE  \E j \in Jobs : \A k \in Jobs : f[k] <= f[j]
  <1> DEFINE T == {n - f[j] : j \in Jobs}
             R == OpToRel(<, Nat)
  <1>1. T \subseteq Nat /\ T # {}
    <2>1. ASSUME NEW j \in Jobs PROVE n - f[j] \in Nat
      BY <2>1
    <2>2. QED
      BY <2>1
  <1>2. IsWellFoundedOn(R, Nat)
    BY NatLessThanWellFounded
  <1> HIDE DEF T, R
  <1>3. PICK x \in T : \A y \in T : ~ (<<y, x>> \in R)
    BY <1>1, <1>2, WFMin
  <1>4. \A a, b \in Nat : a < b => <<a, b>> \in R
    BY DEF R, OpToRel
  <1>5. PICK j \in Jobs : x = n - f[j]
    BY <1>3 DEF T
  <1>6. ASSUME NEW k \in Jobs PROVE f[k] <= f[j]
    <2>1. n - f[k] \in T
      BY DEF T
    <2>2. ~(n - f[k] < n - f[j])
      BY <1>1, <1>3, <1>4, <1>5, <2>1
    <2>3. QED
      BY <2>2
  <1>7. QED
    BY <1>6

\* The transactions that begin now have a number, and so has the last of all.
LEMMA StampedTypes ==
  ASSUME BatchTypeInv, NEW S, Stamped(S)
  PROVE  stamp' \in [Jobs -> Nat] /\ \E n \in Nat : \A j \in Jobs : stamp'[j] <= n
  <1>1. stamp \in [Jobs -> Nat]
    BY DEF BatchTypeInv, BatchTypeOK
  <1>2. PICK n \in Nat : \A j \in Jobs : stamp[j] <= n
    BY DEF BatchTypeInv
  <1>3. CASE Jobs = {}
    BY <1>3 DEF Stamped
  <1>4. CASE Jobs # {}
    <2>1. Latest \in Jobs
      BY <1>1, <1>2, <1>4, MaxExists DEF Latest
    <2>2. stamp[Latest] \in Nat /\ stamp[Latest] <= n
      BY <1>1, <1>2, <2>1
    <2>3. \A j \in Jobs : stamp'[j] \in {stamp[j], stamp[Latest] + 1}
      BY DEF Stamped
    <2>4. \A j \in Jobs : stamp'[j] \in Nat /\ stamp'[j] <= n + 1
      BY <1>1, <1>2, <2>2, <2>3
    <2>5. stamp' \in [Jobs -> Nat]
      BY <2>4 DEF Stamped
    <2>6. QED
      BY <2>4, <2>5
  <1>5. QED
    BY <1>3, <1>4

\* Every step keeps the types.
LEMMA BatchTypeStep == BatchTypeInv /\ [BatchNext]_batchesVars => BatchTypeInv'
  <1> SUFFICES ASSUME BatchTypeInv, [BatchNext]_batchesVars PROVE BatchTypeInv'
    OBVIOUS
  <1>t. TypeInv' /\ TypeOK
    BY BatchStepIsQueueStep, TypeStep DEF BatchTypeInv, TypeInv
  <1>0. /\ batch \in [Requests -> BatchStatus] /\ item \in [Jobs -> ItemStatus]
        /\ answer \in [Requests -> Requests \cup {"none", "creating", "refused", "error"}]
        /\ chore \in [Actors -> Tasks \cup {NoChore}]
        /\ stamp \in [Jobs -> Nat] /\ obeyed \in [Meters -> Jobs \cup {NoJob}]
        /\ driven \subseteq Jobs /\ stray \subseteq Jobs /\ overlapped \subseteq Requests
        /\ crossed \subseteq Meters /\ halted \subseteq Requests /\ belated \subseteq Jobs
        /\ \E n \in Nat : \A j \in Jobs : stamp[j] <= n
    BY DEF BatchTypeInv, BatchTypeOK
  <1>a. ASSUME /\ batch' \in [Requests -> BatchStatus] /\ item' \in [Jobs -> ItemStatus]
               /\ answer' \in [Requests -> Requests \cup {"none", "creating", "refused", "error"}]
               /\ chore' \in [Actors -> Tasks \cup {NoChore}]
               /\ stamp' \in [Jobs -> Nat] /\ obeyed' \in [Meters -> Jobs \cup {NoJob}]
               /\ driven' \subseteq Jobs /\ stray' \subseteq Jobs /\ overlapped' \subseteq Requests
               /\ crossed' \subseteq Meters /\ halted' \subseteq Requests /\ belated' \subseteq Jobs
               /\ \E n \in Nat : \A j \in Jobs : stamp'[j] <= n
        PROVE  BatchTypeInv'
    <2>1. Tasks \subseteq Chores
      BY DEF Tasks, Chores, Items
    <2>2. chore' \in [Actors -> Chores \cup {NoChore}]
      BY <1>a, <2>1
    <2>3. BatchTypeOK'
      BY <1>a, <2>2 DEF BatchTypeOK
    <2>4. QED
      BY <1>a, <1>t, <2>3 DEF BatchTypeInv
  <1>b. /\ \A c \in Calls : hand[c] \subseteq Jobs
        /\ \A a \in Actors : held[a] \subseteq Jobs
        /\ \A j \in Jobs : MeterOf[j] \in Meters
        /\ \A j \in Items : j \in Jobs /\ RequestOf[j] \in Requests
        /\ Workers \subseteq Actors /\ Handlers \subseteq Actors
    BY <1>t, JobsAssumption, RequestsAssumption DEF TypeOK, Items, Actors
  <1>c. \A a \in Actors : chore[a] # NoChore =>
            chore[a].job \in Items /\ chore[a].ok \in BOOLEAN
            /\ (chore[a].step = "flushed" => chore[a].final \in Final \cup {"none"})
    BY <1>0 DEF Tasks
  <1>d. \A j \in Jobs : \A ok \in BOOLEAN : ChoreFor(j, ok) \in Tasks \cup {NoChore}
    BY DEF ChoreFor, Tasks
  <1> USE DEF batchVars, relayVars, pastVars
  <1>1. ASSUME NEW j \in Jobs, BeginManual(j) PROVE BatchTypeInv'
    <2>1. stamp' \in [Jobs -> Nat] /\ \E n \in Nat : \A k \in Jobs : stamp'[k] <= n
      BY <1>1, StampedTypes DEF BeginManual
    <2>2. QED
      BY <1>0, <1>1, <1>a, <2>1 DEF BeginManual
  <1>2. ASSUME NEW j \in Jobs, AcceptManual(j) PROVE BatchTypeInv'
    BY <1>0, <1>2, <1>a DEF AcceptManual, Committed
  <1>3. ASSUME NEW j \in Jobs, SwitchLate(j) \/ StrayEnds(j) PROVE BatchTypeInv'
    BY <1>0, <1>3, <1>a, <1>b DEF SwitchLate, Switch, StrayEnds
  <1>4. ASSUME NEW q \in Requests, CheckKey(q) PROVE BatchTypeInv'
    <2>1. stamp' \in [Jobs -> Nat] /\ \E n \in Nat : \A k \in Jobs : stamp'[k] <= n
      <3>1. PICK S : Stamped(S)
        BY <1>4 DEF CheckKey
      <3>2. QED
        BY <3>1, StampedTypes
    <2>2. answer' \in [Requests -> Requests \cup {"none", "creating", "refused", "error"}]
      <3>1. CASE SameKey(q) = {}
        BY <1>0, <1>4, <3>1 DEF CheckKey
      <3>2. CASE SameKey(q) # {}
        <4> DEFINE p == CHOOSE p \in SameKey(q) : TRUE
        <4>1. p \in Requests
          BY <3>2 DEF SameKey
        <4>2. \/ answer' = [answer EXCEPT ![q] = p]
              \/ answer' = [answer EXCEPT ![q] = "refused"]
          BY <1>4, <3>2 DEF CheckKey
        <4> HIDE DEF p
        <4>3. QED
          BY <1>0, <4>1, <4>2
      <3>3. QED
        BY <3>1, <3>2
    <2>3. QED
      BY <1>0, <1>4, <1>a, <2>1, <2>2 DEF CheckKey
  <1>5. ASSUME NEW q \in Requests, CreateBatch(q) PROVE BatchTypeInv'
    <2> DEFINE known == Known(q)
               rows == [j \in ItemsOf(q) |-> IF j \in known THEN "QUEUED" ELSE "FAILED"]
               final == SummaryOf({rows[j] : j \in ItemsOf(q)})
    <2>1. final \in Final \cup {"none"}
      BY DEF SummaryOf, Final
    <2>2. \A j \in ItemsOf(q) : rows[j] \in ItemStatus
      BY DEF ItemStatus
    <2>3. \/ answer' = [answer EXCEPT ![q] = "error"] /\ UNCHANGED <<batch, item, belated>>
          \/ /\ answer' = [answer EXCEPT ![q] = q]
             /\ batch' = [batch EXCEPT ![q] = IF final = "none" THEN "QUEUED" ELSE final]
             /\ item' = [j \in Jobs |-> IF j \in ItemsOf(q) THEN rows[j] ELSE item[j]]
             /\ Committed(known)
      BY <1>5 DEF CreateBatch
    <2>4. UNCHANGED <<chore, stamp, obeyed, driven, stray, overlapped, crossed, halted>>
      BY <1>5 DEF CreateBatch
    <2>5. known \subseteq Jobs
      BY DEF Known, ItemsOf
    <2> HIDE DEF rows, final, known
    <2>6. batch' \in [Requests -> BatchStatus]
      BY <1>0, <2>1, <2>3 DEF BatchStatus, Final
    <2>7. item' \in [Jobs -> ItemStatus]
      BY <1>0, <2>2, <2>3
    <2>8. belated' \subseteq Jobs
      BY <1>0, <2>3, <2>5 DEF Committed
    <2>9. answer' \in [Requests -> Requests \cup {"none", "creating", "refused", "error"}]
      BY <1>0, <2>3
    <2>10. QED
      BY <1>0, <1>a, <2>4, <2>6, <2>7, <2>8, <2>9
  <1>6. ASSUME NEW w \in Workers, SwitchForWorker(w) PROVE BatchTypeInv'
    <2>1. PICK j \in held[w] : Switch(j) /\ driven' = driven \cup {j} /\ stray' = stray
      BY <1>6 DEF SwitchForWorker
    <2>2. j \in Jobs
      BY <1>b, <2>1
    <2>3. QED
      BY <1>0, <1>a, <2>1, <2>2 DEF Switch
  <1>7. ASSUME NEW c \in Calls, SwitchOnCall(c) PROVE BatchTypeInv'
    <2>1. PICK j \in hand[c] : Switch(j) /\ driven' = driven \cup {j} /\ stray' = stray
      BY <1>7 DEF SwitchOnCall
    <2>2. j \in Jobs
      BY <1>b, <2>1
    <2>3. QED
      BY <1>0, <1>a, <2>1, <2>2 DEF Switch
  <1>8. ASSUME NEW w \in Workers, Finish(w) PROVE BatchTypeInv'
    <2>1. PICK j \in held[w] :
             /\ chore' = [chore EXCEPT ![w] = ChoreFor(j, status'[j] = "SUCCEEDED")]
             /\ stray' \in {stray, stray \cup {j}}
      BY <1>8 DEF Finish
    <2>2. j \in Jobs /\ (status'[j] = "SUCCEEDED") \in BOOLEAN /\ w \in Actors
      BY <1>b, <2>1
    <2>3. ChoreFor(j, status'[j] = "SUCCEEDED") \in Tasks \cup {NoChore}
      BY <1>d, <2>2
    <2>4. chore' \in [Actors -> Tasks \cup {NoChore}]
      BY <1>0, <2>1, <2>2, <2>3
    <2>5. QED
      BY <1>0, <1>8, <1>a, <2>1, <2>2, <2>4 DEF Finish
  <1>9. ASSUME NEW w \in Workers, NEW j \in Jobs, Claim(w, j) PROVE BatchTypeInv'
    BY <1>0, <1>9, <1>a, <1>b DEF Claim, Crossing
  <1>10. ASSUME NEW c \in Calls, NEW m \in Meters, NEW S \in SUBSET DueOf(m), Take(c, m, S)
         PROVE BatchTypeInv'
    <2>1. S \subseteq Jobs
      BY DEF DueOf, Queued
    <2>2. Crossing(S) \subseteq Meters
      BY <1>b, <2>1 DEF Crossing
    <2>3. QED
      BY <1>0, <1>10, <1>a, <2>2 DEF Take
  <1>11. ASSUME NEW c \in Calls, NEW j \in hand[c], NEW ok \in BOOLEAN, Report(c, j, ok)
         PROVE BatchTypeInv'
    BY <1>0, <1>11, <1>a DEF Report
  <1>12. ASSUME NEW h \in Handlers, Accept(h) PROVE BatchTypeInv'
    <2>1. PICK j \in held[h] : chore' = [chore EXCEPT ![h] = ChoreFor(j, status'[j] = "SUCCEEDED")]
      BY <1>12 DEF Accept
    <2>2. j \in Jobs /\ (status'[j] = "SUCCEEDED") \in BOOLEAN /\ h \in Actors
      BY <1>b, <2>1
    <2>3. ChoreFor(j, status'[j] = "SUCCEEDED") \in Tasks \cup {NoChore}
      BY <1>d, <2>2
    <2>4. chore' \in [Actors -> Tasks \cup {NoChore}]
      BY <1>0, <2>1, <2>2, <2>3
    <2>5. QED
      BY <1>0, <1>12, <1>a, <2>4 DEF Accept
  <1>13. ASSUME NEW h \in Handlers, NEW msg \in inbox, Receive(h, msg) PROVE BatchTypeInv'
    BY <1>0, <1>13, <1>a DEF Receive
  <1>14. ASSUME NEW a \in Actors, FlushItem(a) PROVE BatchTypeInv'
    <2> DEFINE j == chore[a].job
               q == RequestOf[j]
    <2>1. PICK f \in Final \cup {"none"} :
             chore' = [chore EXCEPT ![a] = [step |-> "flushed", job |-> j, ok |-> chore[a].ok, final |-> f]]
      BY <1>14 DEF FlushItem, SummaryOf, Final
    <2>2. j \in Items /\ chore[a].ok \in BOOLEAN /\ q \in Requests
      BY <1>14, <1>b, <1>c DEF FlushItem
    <2>3. overlapped' \in {overlapped, overlapped \cup {q}}
      BY <1>14 DEF FlushItem
    <2> HIDE DEF j, q
    <2>4. [step |-> "flushed", job |-> j, ok |-> chore[a].ok, final |-> f] \in Tasks
      BY <2>2 DEF Tasks
    <2>5. chore' \in [Actors -> Tasks \cup {NoChore}]
      BY <1>0, <2>1, <2>4
    <2>6. QED
      BY <1>0, <1>14, <1>a, <2>2, <2>3, <2>5 DEF FlushItem
  <1>15. ASSUME NEW a \in Actors, CommitItem(a) PROVE BatchTypeInv'
    <2> DEFINE j == chore[a].job
               q == RequestOf[j]
    <2>1. j \in Jobs /\ q \in Requests /\ chore[a].final \in Final \cup {"none"}
      BY <1>15, <1>b, <1>c DEF CommitItem
    <2>2. /\ item' = [item EXCEPT ![j] = Written(chore[a].ok)]
          /\ batch' \in {batch} \cup {[batch EXCEPT ![q] = f] : f \in Final}
      BY <1>15, <2>1 DEF CommitItem
    <2> HIDE DEF j, q
    <2>3. item' \in [Jobs -> ItemStatus]
      BY <1>0, <2>1, <2>2 DEF Written, ItemStatus
    <2>4. batch' \in [Requests -> BatchStatus]
      BY <1>0, <2>1, <2>2 DEF BatchStatus
    <2>5. chore' \in [Actors -> Tasks \cup {NoChore}]
      BY <1>0, <1>15 DEF CommitItem
    <2>6. QED
      BY <1>0, <1>15, <1>a, <2>3, <2>4, <2>5 DEF CommitItem
  <1>e. \A S \in SUBSET Actors : Interrupted(S) \subseteq Requests /\ Abandoned(S) \subseteq Jobs
    BY <1>b, <1>c DEF Interrupted, Abandoned
  <1>16. ASSUME NEW a \in Actors, TaskError(a) PROVE BatchTypeInv'
    <2>1. Interrupted({a}) \subseteq Requests /\ Abandoned({a}) \subseteq Jobs
      BY <1>e
    <2>2. chore' \in [Actors -> Tasks \cup {NoChore}]
      BY <1>0, <1>16 DEF TaskError
    <2>3. QED
      BY <1>0, <1>16, <1>a, <2>1, <2>2 DEF TaskError
  <1>17. CASE Housekeeping
    BY <1>0, <1>17, <1>a DEF Housekeeping
  <1>18. CASE BackendRestart
    <2>1. Interrupted(Actors) \subseteq Requests /\ Abandoned(Actors) \subseteq Jobs
      BY <1>e
    <2>2. {RequestOf[j] : j \in Running \cap Items} \subseteq Requests
      BY <1>b
    <2>3. chore' \in [Actors -> Tasks \cup {NoChore}]
      BY <1>18 DEF BackendRestart
    <2>4. answer' \in [Requests -> Requests \cup {"none", "creating", "refused", "error"}]
      BY <1>0, <1>18 DEF BackendRestart
    <2>5. stamp' \in [Jobs -> Nat] /\ \E n \in Nat : \A j \in Jobs : stamp'[j] <= n
      <3>1. PICK n \in Nat : \A j \in Jobs : stamp[j] <= n
        BY <1>0
      <3>2. stamp' \in [Jobs -> Nat] /\ \A j \in Jobs : stamp'[j] <= n
        BY <1>0, <1>18, <3>1 DEF BackendRestart
      <3>3. QED
        BY <3>1, <3>2
    <2>6. QED
      BY <1>0, <1>18, <1>a, <2>1, <2>2, <2>3, <2>4, <2>5 DEF BackendRestart
  <1>19. CASE UNCHANGED batchesVars
    BY <1>0, <1>19, <1>a DEF batchesVars
  <1>20. QED
    BY <1>1, <1>2, <1>3, <1>4, <1>5, <1>6, <1>7, <1>8, <1>9, <1>10, <1>11, <1>12, <1>13,
       <1>14, <1>15, <1>16, <1>17, <1>18, <1>19 DEF BatchNext

\* No row, no task and no created_at at the start.
LEMMA InitBatchType == BatchInit => BatchTypeInv
  <1> SUFFICES ASSUME BatchInit PROVE BatchTypeInv
    OBVIOUS
  <1>1. TypeInv
    BY InitType DEF BatchInit
  <1>2. BatchTypeOK /\ chore \in [Actors -> Tasks \cup {NoChore}]
    BY DEF BatchInit, BatchTypeOK, BatchStatus, ItemStatus
  <1>3. 0 \in Nat /\ \A j \in Jobs : stamp[j] <= 0
    BY DEF BatchInit
  <1>4. QED
    BY <1>1, <1>2, <1>3 DEF BatchTypeInv

\* Theorem: rows, tasks and the histories keep to their types; a task only ever writes
\* an item, and the largest created_at exists.
THEOREM BatchTypeCorrect == BatchSpec => []BatchTypeOK
  <1>1. BatchInit => BatchTypeInv
    BY InitBatchType
  <1>2. BatchTypeInv /\ [BatchNext]_batchesVars => BatchTypeInv'
    BY BatchTypeStep
  <1>3. BatchTypeInv => BatchTypeOK
    BY DEF BatchTypeInv
  <1>4. QED
    BY <1>1, <1>2, <1>3, PTL DEF BatchSpec

-----------------------------------------------------------------------------
(* Idempotency *)

\* A task about to close a batch knows that it exists.
Closing(a) == chore[a] # NoChore /\ chore[a].step = "flushed" /\ chore[a].final # "none"

\* A created batch is the only one of its key, an accepted request was told a
\* created batch of its own key, and no task brings a batch into being.
KeyInv ==
    /\ batch \in [Requests -> BatchStatus]
    /\ DOMAIN answer = Requests
    /\ DOMAIN chore = Actors
    /\ \A a \in Actors : Closing(a) =>
         /\ chore[a].final \in Final
         /\ RequestOf[chore[a].job] \in Requests => batch[RequestOf[chore[a].job]] # "absent"
    /\ \A p, q \in Requests :
         KeyOf[p] = KeyOf[q] /\ batch[p] # "absent" /\ batch[q] # "absent" => p = q
    /\ \A q \in Requests : answer[q] \in Requests =>
         batch[answer[q]] # "absent" /\ KeyOf[answer[q]] = KeyOf[q]

\* Every step keeps the keys apart.
LEMMA KeyStep == KeyInv /\ [BatchNext]_batchesVars => KeyInv'
  <1> SUFFICES ASSUME KeyInv, [BatchNext]_batchesVars PROVE KeyInv'
    OBVIOUS
  <1> USE DEF KeyInv, Closing
  <1>0. UNCHANGED <<batch, answer, chore>> => KeyInv'
    OBVIOUS
  <1>1. ASSUME NEW q \in Requests, CheckKey(q) PROVE KeyInv'
    <2>1. UNCHANGED <<batch, chore>>
      BY <1>1 DEF CheckKey
    <2>2. PICK v \in {"creating", "refused"} \cup SameKey(q) : answer' = [answer EXCEPT ![q] = v]
      <3>1. CASE SameKey(q) = {}
        BY <1>1, <3>1 DEF CheckKey
      <3>2. CASE SameKey(q) # {}
        <4> DEFINE p == CHOOSE p \in SameKey(q) : TRUE
        <4>1. p \in SameKey(q)
          BY <3>2
        <4>2. \/ answer' = [answer EXCEPT ![q] = p]
              \/ answer' = [answer EXCEPT ![q] = "refused"]
          BY <1>1, <3>2 DEF CheckKey
        <4>3. QED
          BY <4>1, <4>2
      <3>3. QED
        BY <3>1, <3>2
    <2>3. v \in Requests => batch[v] # "absent" /\ KeyOf[v] = KeyOf[q]
      BY <2>2, RequestsAssumption DEF SameKey
    <2>4. QED
      BY <2>1, <2>2, <2>3
  <1>2. ASSUME NEW q \in Requests, CreateBatch(q) PROVE KeyInv'
    <2> DEFINE known == Known(q)
               rows == [j \in ItemsOf(q) |-> IF j \in known THEN "QUEUED" ELSE "FAILED"]
               final == SummaryOf({rows[j] : j \in ItemsOf(q)})
               new == IF final = "none" THEN "QUEUED" ELSE final
    <2>0. UNCHANGED chore
      BY <1>2 DEF CreateBatch
    <2>1. CASE answer' = [answer EXCEPT ![q] = "error"] /\ UNCHANGED batch
      BY <2>0, <2>1, RequestsAssumption
    <2>2. CASE /\ SameKey(q) = {}
               /\ answer' = [answer EXCEPT ![q] = q]
               /\ batch' = [batch EXCEPT ![q] = new]
      <3>1. new \in BatchStatus /\ new # "absent"
        BY DEF SummaryOf, BatchStatus, Final
      <3>2. \A p \in Requests : KeyOf[p] = KeyOf[q] => batch[p] = "absent"
        BY <2>2 DEF SameKey
      <3> HIDE DEF new
      <3>3. QED
        BY <2>0, <2>2, <3>1, <3>2
    <2>3. QED
      BY <1>2, <2>1, <2>2 DEF CreateBatch
  <1>3. CASE BackendRestart
    BY <1>3, RequestsAssumption DEF BackendRestart
  <1>4. ASSUME NEW a \in Actors, CommitItem(a) PROVE KeyInv'
    <2> DEFINE q == RequestOf[chore[a].job]
    <2>1. /\ batch' = IF chore[a].final = "none" THEN batch ELSE [batch EXCEPT ![q] = chore[a].final]
          /\ chore' = [chore EXCEPT ![a] = NoChore]
          /\ UNCHANGED answer
          /\ chore[a].final # "none" => Closing(a)
      BY <1>4 DEF CommitItem
    <2>2. \A p \in Requests : batch'[p] \in BatchStatus
      BY <2>1 DEF BatchStatus, Final
    <2>3. \A p \in Requests : batch'[p] = "absent" <=> batch[p] = "absent"
      BY <2>1 DEF Final
    <2>4. batch' \in [Requests -> BatchStatus]
      BY <2>1, <2>2
    <2>5. \A b \in Actors : Closing(b)' => Closing(b) /\ chore'[b] = chore[b]
      BY <2>1
    <2>6. QED
      BY <2>1, <2>3, <2>4, <2>5
  <1>5. ASSUME NEW a \in Actors, FlushItem(a) PROVE KeyInv'
    <2> DEFINE j == chore[a].job
               q == RequestOf[j]
               rows == {item[k] : k \in ItemsOf(q) \ {j}} \cup {Written(chore[a].ok)}
    <2>1. /\ chore' = [chore EXCEPT ![a] =
                 [step |-> "flushed", job |-> j, ok |-> chore[a].ok,
                  final |-> IF batch[q] = "QUEUED" THEN SummaryOf(rows) ELSE "none"]]
          /\ UNCHANGED <<batch, answer>>
      BY <1>5 DEF FlushItem
    <2> DEFINE f == IF batch[q] = "QUEUED" THEN SummaryOf(rows) ELSE "none"
    <2>2. f \in Final \cup {"none"} /\ (f # "none" => batch[q] = "QUEUED")
      BY DEF SummaryOf, Final
    <2> HIDE DEF rows, f
    <2>3. chore'[a].final = f /\ chore'[a].job = j
      BY <2>1 DEF f, rows
    <2>4. \A b \in Actors \ {a} : chore'[b] = chore[b]
      BY <2>1
    <2>5. DOMAIN chore' = Actors
      BY <2>1
    <2>6. ASSUME NEW b \in Actors, Closing(b)'
          PROVE  /\ chore'[b].final \in Final
                 /\ RequestOf[chore'[b].job] \in Requests
                       => batch'[RequestOf[chore'[b].job]] # "absent"
      <3>1. CASE b = a
        BY <2>1, <2>2, <2>3, <2>6, <3>1
      <3>2. CASE b # a
        BY <2>1, <2>4, <2>6, <3>2
      <3>3. QED
        BY <3>1, <3>2
    <2>7. QED
      BY <2>1, <2>5, <2>6
  <1>6. ASSUME NEW a \in Actors, UNCHANGED <<batch, answer>>, DOMAIN chore' = Actors,
               \A b \in Actors \ {a} : chore'[b] = chore[b],
               chore'[a] = NoChore \/ chore'[a].step = "item"
        PROVE KeyInv'
    <2>1. \A b \in Actors : Closing(b)' => Closing(b) /\ chore'[b] = chore[b]
      BY <1>6
    <2>2. QED
      BY <1>6, <2>1
  <1>7. ASSUME NEW w \in Workers, Finish(w) PROVE KeyInv'
    <2>1. PICK j \in held[w] :
               chore' = [chore EXCEPT ![w] = ChoreFor(j, status'[j] = "SUCCEEDED")]
      BY <1>7 DEF Finish
    <2>2. w \in Actors /\ UNCHANGED <<batch, answer>>
      BY <1>7 DEF Finish, Actors
    <2>3. chore'[w] = NoChore \/ chore'[w].step = "item"
      BY <2>1, <2>2 DEF ChoreFor
    <2>4. QED
      BY <1>6, <2>1, <2>2, <2>3
  <1>8. ASSUME NEW h \in Handlers, Accept(h) PROVE KeyInv'
    <2>1. PICK j \in held[h] :
               chore' = [chore EXCEPT ![h] = ChoreFor(j, status'[j] = "SUCCEEDED")]
      BY <1>8 DEF Accept
    <2>2. h \in Actors /\ UNCHANGED <<batch, answer>>
      BY <1>8 DEF Accept, Actors
    <2>3. chore'[h] = NoChore \/ chore'[h].step = "item"
      BY <2>1, <2>2 DEF ChoreFor
    <2>4. QED
      BY <1>6, <2>1, <2>2, <2>3
  <1>9. ASSUME NEW a \in Actors, TaskError(a) PROVE KeyInv'
    BY <1>9 DEF TaskError
  <1>10. CASE UNCHANGED batchesVars
    BY <1>0, <1>10 DEF batchesVars, batchVars
  <1>11. QED
    BY <1>0, <1>1, <1>2, <1>3, <1>4, <1>5, <1>7, <1>8, <1>9, <1>10
       DEF BatchNext, BeginManual, AcceptManual, SwitchLate, StrayEnds, Switch, SwitchForWorker, Claim,
           SwitchOnCall, Take, Report, Receive, Housekeeping, batchVars

\* Theorem: for any number of requests in any interleaving, with any faults, a key
\* has one batch and everybody accepted under that key was told of it.
THEOREM IdempotentKeys == BatchSpec => []OneBatchPerKey
  <1>1. BatchInit => KeyInv
    BY RequestsAssumption DEF BatchInit, KeyInv, Closing, BatchStatus
  <1>2. KeyInv /\ [BatchNext]_batchesVars => KeyInv'
    BY KeyStep
  <1>3. KeyInv => OneBatchPerKey
    <2>1. SUFFICES ASSUME KeyInv, NEW p \in Requests, NEW q \in Requests, KeyOf[p] = KeyOf[q]
                   PROVE  /\ batch[p] # "absent" /\ batch[q] # "absent" => p = q
                          /\ answer[p] \in Requests /\ answer[q] \in Requests
                                => answer[p] = answer[q]
      BY DEF OneBatchPerKey
    <2>2. QED
      BY <2>1 DEF KeyInv
  <1>4. QED
    BY <1>1, <1>2, <1>3, PTL DEF BatchSpec

-----------------------------------------------------------------------------
(* What the rows and tasks around the job table have in common *)

\* What holds of the job table holds of it here: all claims, readings and executions.
BatchQueueInv == BatchTypeInv /\ QueueInv

\* A job exists only with its batch and its meter, a task writes an item only after its
\* job and before it takes another, nothing here sweeps or tallies, and a created_at is
\* given before the row.
TableInv ==
    /\ \A j \in Items : status[j] # "absent" => batch[RequestOf[j]] # "absent"
    /\ \A j \in Items : MeterOf[j] \in Unregistered => status[j] = "absent"
    /\ \A j \in restaled : status[j] # "absent"
    /\ \A a \in Actors : chore[a] # NoChore => status[chore[a].job] # "absent"
    /\ \A a \in Actors : pc[a] = "busy" => chore[a] = NoChore
    /\ \A a \in Actors : pc[a] # "busy" => held[a] = {}
    /\ pc[Expirer] # "busy"
    /\ \A q \in Requests : answer[q] \in {"none", "creating"} => batch[q] = "absent"
    /\ \A j \in Jobs : RequestOf[j] = NoRequest /\ status[j] # "absent" => stamp[j] > 0

\* Every step keeps what holds of the job table.
LEMMA BatchQueueStep == BatchQueueInv /\ [BatchNext]_batchesVars => BatchQueueInv'
  BY BatchTypeStep, BatchStepIsQueueStep, QueueStep
     DEF BatchQueueInv, BatchTypeInv, TypeInv

\* Task a has committed status new for j, its only job, and is idle.
Settled(a, j, new) ==
    /\ pc[a] = "busy" /\ held[a] = {j} /\ j \in Jobs /\ new \in Terminal
    /\ status[j] \in JobStatus \ {"absent"}
    /\ status' = [status EXCEPT ![j] = new]
    /\ pc' = [pc EXCEPT ![a] = "idle"]
    /\ held' = [held EXCEPT ![a] = {}]
    /\ saw' = [saw EXCEPT ![a] = "absent"]
    /\ chore' = [chore EXCEPT ![a] = ChoreFor(j, new = "SUCCEEDED")]
    /\ UNCHANGED <<hand, inbox, staleSel, restaled, batch, item, answer, stamp, obeyed, driven>>
    /\ UNCHANGED pastVars

\* No command belongs to a run, so the commit for it is the end of the task's session.
LEMMA SettleCommand ==
  ASSUME TypeInv, NEW a \in Actors, NEW j \in Jobs, NEW new, Settle(a, j, new)
  PROVE  /\ status' = [status EXCEPT ![j] = new]
         /\ pc' = [pc EXCEPT ![a] = "idle"]
         /\ held' = [held EXCEPT ![a] = {}]
         /\ saw' = [saw EXCEPT ![a] = "absent"]
         /\ UNCHANGED <<hand, inbox, staleSel, restaled>>
  <1>1. WithRun({j}) = {}
    BY CommandsAssumption DEF WithRun
  <1>2. QED
    BY <1>1 DEF Settle, GoTally, gatewayVars, historyVars

\* A worker ends with success only for a command that switched the relay.
LEMMA FinishSettles ==
  ASSUME BatchQueueInv, NEW w \in Workers, Finish(w)
  PROVE  \E j \in Jobs, new \in Terminal :
            /\ Settled(w, j, new) /\ stray' \in {stray, stray \cup {j}}
            /\ new = "SUCCEEDED" => j \in driven
  <1> USE DEF BatchQueueInv, QueueInv
  <1>1. TypeInv /\ w \in Actors /\ held[w] \subseteq Jobs /\ status \in [Jobs -> JobStatus]
    BY DEF ClaimInv, TypeInv, TypeOK, Actors
  <1>2. PICK j \in held[w] : \E new \in WorkerOutcomes(j) : Settle(w, j, new)
    BY DEF Finish, FinishJob
  <1>3. PICK new \in WorkerOutcomes(j) : Settle(w, j, new)
    BY <1>2
  <1>4. j \in Jobs /\ held[w] = {j}
    BY <1>1 DEF BackInv, BackedInv
  <1>5. new \in Terminal
    BY <1>4, CommandsAssumption
       DEF WorkerOutcomes, COMMANDS, RequeuedTypes, ROUTINE_JOB_TYPES, Terminal
  <1>6. status'[j] = new
    BY <1>1, <1>3, <1>4, SettleCommand
  <1>7. status[j] # "absent"
    BY <1>1, <1>4 DEF ClaimInv, RowsInv
  <1>8. Settled(w, j, new)
    <2>1. chore' = [chore EXCEPT ![w] = ChoreFor(j, new = "SUCCEEDED")]
      BY <1>4, <1>6 DEF Finish
    <2>2. /\ UNCHANGED <<batch, item, answer, stamp, obeyed, driven, pastVars>>
          /\ pc[w] = "busy"
      BY DEF Finish, FinishJob
    <2>3. /\ status' = [status EXCEPT ![j] = new] /\ pc' = [pc EXCEPT ![w] = "idle"]
          /\ held' = [held EXCEPT ![w] = {}] /\ saw' = [saw EXCEPT ![w] = "absent"]
          /\ UNCHANGED <<hand, inbox, staleSel, restaled>>
      BY <1>1, <1>3, <1>4, SettleCommand
    <2>4. QED
      BY <1>1, <1>4, <1>5, <1>7, <2>1, <2>2, <2>3 DEF Settled
  <1>9. stray' \in {stray, stray \cup {j}} /\ (new = "SUCCEEDED" => j \in driven)
    BY <1>4, <1>6 DEF Finish
  <1>10. QED
    BY <1>4, <1>5, <1>8, <1>9

\* A report handler ends as the report says.
LEMMA AcceptSettles ==
  ASSUME BatchQueueInv, NEW h \in Handlers, Accept(h)
  PROVE  \E j \in Jobs : saw[h] \in Terminal /\ Settled(h, j, saw[h]) /\ stray' = stray
  <1> USE DEF BatchQueueInv, QueueInv
  <1>1. TypeInv /\ h \in Actors /\ held[h] \subseteq Jobs /\ status \in [Jobs -> JobStatus]
    BY DEF ClaimInv, TypeInv, TypeOK, Actors
  <1>2. pc[h] = "busy" /\ saw[h] \in Terminal
    BY <1>1 DEF Accept, FinishReport, TypeInv, TaskInv
  <1>3. PICK j \in held[h] : Settle(h, j, saw[h])
    BY DEF Accept, FinishReport
  <1>4. j \in Jobs /\ held[h] = {j}
    BY <1>1 DEF BackInv, BackedInv
  <1>5. /\ status' = [status EXCEPT ![j] = saw[h]] /\ pc' = [pc EXCEPT ![h] = "idle"]
        /\ held' = [held EXCEPT ![h] = {}] /\ saw' = [saw EXCEPT ![h] = "absent"]
        /\ UNCHANGED <<hand, inbox, staleSel, restaled>>
    BY <1>1, <1>3, <1>4, SettleCommand
  <1>6. status[j] # "absent" /\ status'[j] = saw[h]
    BY <1>1, <1>4, <1>5 DEF ClaimInv, RowsInv
  <1>7. chore' = [chore EXCEPT ![h] = ChoreFor(j, saw[h] = "SUCCEEDED")]
    BY <1>4, <1>6 DEF Accept
  <1>8. UNCHANGED <<batch, item, answer, relayVars, pastVars>>
    BY DEF Accept
  <1>9. QED
    BY <1>1, <1>2, <1>4, <1>5, <1>6, <1>7, <1>8 DEF Settled, relayVars

\* Steps that create no row, give no task a job or an item, and close nothing.
LEMMA QuietTable ==
  ASSUME TableInv, BatchTypeInv,
         \A j \in Jobs : status'[j] # "absent" <=> status[j] # "absent",
         \A q \in Requests : batch'[q] = "absent" <=> batch[q] = "absent",
         \A j \in restaled' : j \in restaled \/ status'[j] # "absent",
         restaled' \subseteq Jobs,
         \A a \in Actors : /\ \/ chore'[a] = NoChore
                              \/ chore'[a].job = chore[a].job /\ chore[a] # NoChore
                           /\ pc'[a] = "busy" => pc[a] = "busy" /\ chore'[a] = chore[a]
                           /\ pc'[a] # "busy" => (held'[a] = {} \/ (held'[a] = held[a] /\ pc'[a] = pc[a])),
         \A q \in Requests : answer'[q] \in {"none", "creating"} => answer[q] \in {"none", "creating"},
         \A j \in Jobs : stamp'[j] = stamp[j] \/ status[j] = "absent"
  PROVE  TableInv'
  <1>1. /\ \A a \in Actors : chore[a] # NoChore => chore[a].job \in Jobs
        /\ \A j \in Items : j \in Jobs /\ RequestOf[j] \in Requests
        /\ Expirer \in Actors /\ restaled \subseteq Jobs
    BY RequestsAssumption
       DEF BatchTypeInv, BatchTypeOK, TypeInv, TypeOK, Tasks, Items, Actors
  <1>2. QED
    BY <1>1 DEF TableInv

\* A task that has ended writes the item of its job next.
LEMMA SettledTable ==
  ASSUME TableInv, BatchTypeInv, NEW a \in Workers \cup Handlers, NEW j, NEW new, Settled(a, j, new)
  PROVE  TableInv'
  <1>1. /\ \A b \in Actors : chore[b] # NoChore => chore[b].job \in Jobs
        /\ \A k \in Items : k \in Jobs /\ RequestOf[k] \in Requests
        /\ Expirer \in Actors /\ restaled \subseteq Jobs /\ a \in Actors /\ a # Expirer
        /\ status \in [Jobs -> JobStatus] /\ pc \in [Actors -> {"idle", "busy", "tally", "write", "dead"}]
        /\ held \in [Actors -> SUBSET Jobs] /\ DOMAIN chore = Actors
    BY RequestsAssumption, ActorsAssumption
       DEF BatchTypeInv, BatchTypeOK, TypeInv, TypeOK, Tasks, Items, Actors
  <1>2. /\ j \in Jobs /\ new # "absent" /\ status[j] # "absent"
        /\ status' = [status EXCEPT ![j] = new] /\ pc' = [pc EXCEPT ![a] = "idle"]
        /\ held' = [held EXCEPT ![a] = {}]
        /\ chore' = [chore EXCEPT ![a] = ChoreFor(j, new = "SUCCEEDED")]
        /\ UNCHANGED <<restaled, batch, answer, stamp>>
    BY DEF Settled, Terminal
  <1>3. ChoreFor(j, new = "SUCCEEDED") = NoChore \/ ChoreFor(j, new = "SUCCEEDED").job = j
    BY DEF ChoreFor
  <1>4. \A k \in Jobs : status'[k] = "absent" <=> status[k] = "absent"
    BY <1>1, <1>2
  <1>5. \A b \in Actors : chore'[b] # NoChore => status'[chore'[b].job] # "absent"
    <2>1. CASE ChoreFor(j, new = "SUCCEEDED") = NoChore
      BY <1>1, <1>2, <1>4, <2>1 DEF TableInv
    <2>2. CASE ChoreFor(j, new = "SUCCEEDED").job = j
      BY <1>1, <1>2, <1>4, <2>2 DEF TableInv
    <2>3. QED
      BY <1>3, <2>1, <2>2
  <1>6. \A b \in Actors : /\ pc'[b] = "busy" => chore'[b] = NoChore
                          /\ pc'[b] # "busy" => held'[b] = {}
    BY <1>1, <1>2 DEF TableInv
  <1>7. QED
    BY <1>1, <1>2, <1>4, <1>5, <1>6 DEF TableInv

\* Every step keeps them.
LEMMA TableStep == TableInv /\ BatchQueueInv /\ [BatchNext]_batchesVars => TableInv'
  <1> SUFFICES ASSUME TableInv, BatchQueueInv, BatchTypeInv, [BatchNext]_batchesVars PROVE TableInv'
    BY DEF BatchQueueInv
  <1>0. /\ \A a \in Actors : chore[a] # NoChore => chore[a].job \in Items
        /\ \A j \in Items : j \in Jobs /\ RequestOf[j] \in Requests
        /\ Expirer \in Actors /\ restaled \subseteq Jobs
        /\ Workers \subseteq Actors /\ Handlers \subseteq Actors
        /\ Expirer \notin Workers \cup Handlers
        /\ status \in [Jobs -> JobStatus] /\ stamp \in [Jobs -> Nat]
        /\ answer \in [Requests -> Requests \cup {"none", "creating", "refused", "error"}]
        /\ batch \in [Requests -> BatchStatus]
        /\ DOMAIN pc = Actors /\ DOMAIN held = Actors /\ DOMAIN chore = Actors
        /\ staleSel \subseteq Jobs /\ \A j \in staleSel : status[j] # "absent"
    BY RequestsAssumption, ActorsAssumption
       DEF BatchTypeInv, BatchTypeOK, TypeInv, TypeOK, Tasks, Items, Actors, BatchQueueInv,
           QueueInv, ClaimInv, RowsInv
  <1> USE DEF batchVars, relayVars, pastVars
  <1>1. ASSUME NEW j \in Jobs, BeginManual(j) PROVE TableInv'
    <2>1. status[j] = "absent"
      BY <1>0, <1>1 DEF BeginManual, TableInv
    <2>2. \A k \in Jobs : stamp'[k] = stamp[k] \/ status[k] = "absent"
      BY <1>1, <2>1 DEF BeginManual, Stamped
    <2>3. QED
      BY <1>0, <1>1, <2>2, QuietTable DEF BeginManual, vars, jobVars, taskVars, historyVars
  <1>2. ASSUME NEW j \in Jobs, AcceptManual(j) PROVE TableInv'
    <2>1. /\ RequestOf[j] = NoRequest /\ stamp[j] > 0
          /\ status' = [k \in Jobs |-> IF k = j THEN "QUEUED" ELSE status[k]]
          /\ UNCHANGED <<pc, held, restaled, batch, answer, chore, stamp>>
      BY <1>2 DEF AcceptManual, EnqueueManual, taskVars, historyVars
    <2>2. j \notin Items
      BY <2>1 DEF Items
    <2>3. QED
      BY <1>0, <2>1, <2>2 DEF TableInv
  <1>3. ASSUME NEW j \in Jobs, SwitchLate(j) \/ StrayEnds(j) PROVE TableInv'
    BY <1>0, <1>3, QuietTable
       DEF SwitchLate, Switch, StrayEnds, vars, jobVars, taskVars, historyVars
  <1>4. ASSUME NEW q \in Requests, CheckKey(q) PROVE TableInv'
    <2>1. answer[q] = "none" /\ batch[q] = "absent"
      BY <1>4 DEF CheckKey, TableInv
    <2>2. \A j \in Known(q) : status[j] = "absent"
      BY <1>0, <2>1, RequestsAssumption DEF Known, ItemsOf, Items, TableInv
    <2>3. \A k \in Jobs : stamp'[k] = stamp[k] \/ status[k] = "absent"
      BY <1>4, <2>2 DEF CheckKey, Stamped
    <2>4. \A p \in Requests : p # q => answer'[p] = answer[p]
      BY <1>0, <1>4 DEF CheckKey
    <2>5. QED
      BY <1>0, <1>4, <2>1, <2>3, <2>4, QuietTable DEF CheckKey, vars, jobVars, taskVars, historyVars
  <1>5. ASSUME NEW q \in Requests, CreateBatch(q) PROVE TableInv'
    <2>1. CASE answer' = [answer EXCEPT ![q] = "error"] /\ UNCHANGED <<vars, batch, item, belated>>
      <3>1. UNCHANGED <<chore, stamp>>
        BY <1>5 DEF CreateBatch
      <3>2. QED
        BY <1>0, <2>1, <3>1, QuietTable DEF vars, jobVars, taskVars, historyVars
    <2>2. CASE ~ (answer' = [answer EXCEPT ![q] = "error"] /\ UNCHANGED <<vars, batch, item, belated>>)
      <3> DEFINE rows == [j \in ItemsOf(q) |-> IF j \in Known(q) THEN "QUEUED" ELSE "FAILED"]
                 final == SummaryOf({rows[j] : j \in ItemsOf(q)})
                 new == IF final = "none" THEN "QUEUED" ELSE final
      <3>1. /\ answer' = [answer EXCEPT ![q] = q] /\ batch' = [batch EXCEPT ![q] = new]
            /\ UNCHANGED vars \/ EnqueueManual(Known(q))
            /\ UNCHANGED <<chore, stamp>>
        BY <1>5, <2>2 DEF CreateBatch
      <3>2. new # "absent"
        BY DEF SummaryOf
      <3> HIDE DEF new
      <3>3. /\ UNCHANGED <<pc, held, restaled>>
            /\ \A j \in Jobs : status'[j] = status[j] \/ (j \in Known(q) /\ status'[j] # "absent")
        BY <3>1 DEF EnqueueManual, vars, jobVars, taskVars, historyVars
      <3>4. \A j \in Known(q) : j \in Items /\ RequestOf[j] = q /\ MeterOf[j] \notin Unregistered
                                /\ RequestOf[j] # NoRequest
        BY RequestsAssumption DEF Known, ItemsOf, Items
      <3>5. q \notin {"none", "creating"}
        BY RequestsAssumption
      <3>6. QED
        BY <1>0, <3>1, <3>2, <3>3, <3>4, <3>5 DEF TableInv
    <2>3. QED
      BY <2>1, <2>2
  <1>6. ASSUME NEW w \in Workers, SwitchForWorker(w) PROVE TableInv'
    BY <1>0, <1>6, QuietTable DEF SwitchForWorker, Switch, vars, jobVars, taskVars, historyVars
  <1>7. ASSUME NEW c \in Calls, SwitchOnCall(c) PROVE TableInv'
    BY <1>0, <1>7, QuietTable DEF SwitchOnCall, Switch, vars, jobVars, taskVars, historyVars
  <1>8. ASSUME NEW w \in Workers, Finish(w) PROVE TableInv'
    BY <1>8, FinishSettles, SettledTable
  <1>9. ASSUME NEW h \in Handlers, Accept(h) PROVE TableInv'
    BY <1>9, AcceptSettles, SettledTable
  <1>10. ASSUME NEW w \in Workers, NEW j \in Jobs, Claim(w, j) PROVE TableInv'
    <2>1. /\ chore[w] = NoChore /\ status[j] = "QUEUED" /\ status' = [status EXCEPT ![j] = "RUNNING"]
          /\ pc' = [pc EXCEPT ![w] = "busy"] /\ held' = [held EXCEPT ![w] = {j}]
          /\ UNCHANGED <<restaled, batch, answer, chore, stamp>>
      BY <1>10 DEF Claim, ClaimNext, ForWorker, historyVars
    <2>2. \A k \in Jobs : status'[k] = "absent" <=> status[k] = "absent"
      BY <1>0, <2>1
    <2>3. QED
      BY <1>0, <2>1, <2>2 DEF TableInv
  <1>11. ASSUME NEW c \in Calls, NEW m \in Meters, NEW S \in SUBSET DueOf(m), Take(c, m, S)
         PROVE TableInv'
    <2>1. /\ \A j \in S : status[j] = "QUEUED"
          /\ status' = [j \in Jobs |-> IF j \in S THEN "RUNNING" ELSE status[j]]
          /\ UNCHANGED <<restaled, batch, answer, chore, stamp, pc, held>>
      BY <1>11 DEF Take, GatewayClaim, DueOf, Queued, taskVars, historyVars
    <2>2. \A k \in Jobs : status'[k] # "absent" <=> status[k] # "absent"
      BY <2>1
    <2>3. QED
      BY <1>0, <2>1, <2>2, QuietTable
  <1>12. ASSUME NEW c \in Calls, NEW j \in hand[c], NEW ok \in BOOLEAN, Report(c, j, ok)
         PROVE TableInv'
    BY <1>0, <1>12, QuietTable DEF Report, SendReport, jobVars, taskVars, historyVars
  <1>13. ASSUME NEW h \in Handlers, NEW msg \in inbox, Receive(h, msg) PROVE TableInv'
    <2>1. /\ chore[h] = NoChore /\ UNCHANGED <<status, restaled, batch, answer, chore, stamp>>
          /\ \/ UNCHANGED <<pc, held>>
             \/ pc' = [pc EXCEPT ![h] = "busy"] /\ held' = [held EXCEPT ![h] = {msg.job}]
      BY <1>13 DEF Receive, ReceiveReport, jobVars, historyVars
    <2>2. QED
      BY <1>0, <2>1 DEF TableInv
  <1>14. ASSUME NEW a \in Actors, FlushItem(a) PROVE TableInv'
    <2>1. /\ chore[a] # NoChore /\ chore'[a].job = chore[a].job
          /\ \A b \in Actors : b # a => chore'[b] = chore[b]
          /\ UNCHANGED <<vars, batch, answer, stamp>>
      BY <1>0, <1>14 DEF FlushItem
    <2>2. pc[a] # "busy"
      BY <2>1 DEF TableInv
    <2>3. QED
      BY <1>0, <2>1, <2>2, QuietTable DEF vars, jobVars, taskVars, historyVars
  <1>15. ASSUME NEW a \in Actors, CommitItem(a) PROVE TableInv'
    <2> DEFINE j == chore[a].job
               q == RequestOf[j]
    <2>1. /\ chore[a] # NoChore /\ chore[a].step = "flushed" /\ chore' = [chore EXCEPT ![a] = NoChore]
          /\ batch' = IF chore[a].final = "none" THEN batch ELSE [batch EXCEPT ![q] = chore[a].final]
          /\ UNCHANGED <<vars, answer, stamp>>
      BY <1>15 DEF CommitItem
    <2>2. pc[a] # "busy" /\ j \in Items /\ status[j] # "absent" /\ batch[q] # "absent"
      BY <1>0, <2>1 DEF TableInv
    <2>3. chore[a].final \in Final \cup {"none"}
      BY <2>1 DEF BatchTypeInv, Tasks
    <2> HIDE DEF j, q
    <2>4. \A p \in Requests : batch'[p] = "absent" <=> batch[p] = "absent"
      BY <1>0, <2>1, <2>2, <2>3 DEF Final
    <2>5. QED
      BY <1>0, <2>1, <2>2, <2>4, QuietTable DEF vars, jobVars, taskVars, historyVars
  <1>16. ASSUME NEW a \in Actors, TaskError(a) PROVE TableInv'
    <2>1. /\ chore' = [chore EXCEPT ![a] = NoChore] /\ held' = [held EXCEPT ![a] = {}]
          /\ pc' = [pc EXCEPT ![a] = IF a \in Workers THEN "dead" ELSE "idle"]
          /\ UNCHANGED <<status, restaled, batch, answer, stamp>>
      BY <1>16 DEF TaskError, DatabaseError, jobVars
    <2>2. QED
      BY <1>0, <2>1, QuietTable
  <1>17. CASE Housekeeping
    <2>1. UNCHANGED <<batch, answer, chore, stamp, pc, held>>
      BY <1>17 DEF Housekeeping, Age, SelectStale, RequeueStale, GatewayDrop, taskVars
    <2>2. /\ \A j \in Jobs : status'[j] # "absent" <=> status[j] # "absent"
          /\ restaled' \in {restaled, restaled \cup staleSel}
      BY <1>0, <1>17
         DEF Housekeeping, Age, SelectStale, RequeueStale, GatewayDrop, jobVars, historyVars
    <2>3. QED
      BY <1>0, <2>1, <2>2, QuietTable
  <1>18. CASE BackendRestart
    <2>1. /\ chore' = [a \in Actors |-> NoChore] /\ held' = [a \in Actors |-> {}]
          /\ pc' = [a \in Actors |-> "idle"]
          /\ status' = [j \in Jobs |-> IF j \in Running THEN "FAILED" ELSE status[j]]
          /\ stamp' = [j \in Jobs |-> IF status[j] = "absent" THEN 0 ELSE stamp[j]]
          /\ answer' = [q \in Requests |-> IF answer[q] = "creating" THEN "error" ELSE answer[q]]
          /\ UNCHANGED <<restaled, batch>>
      BY <1>18 DEF BackendRestart, Restart
    <2>2. \A j \in Jobs : status'[j] # "absent" <=> status[j] # "absent"
      BY <2>1 DEF Running
    <2>3. QED
      BY <1>0, <2>1, <2>2, QuietTable
  <1>19. CASE UNCHANGED batchesVars
    BY <1>0, <1>19, QuietTable DEF batchesVars, vars, jobVars, taskVars, historyVars
  <1>20. QED
    BY <1>1, <1>2, <1>3, <1>4, <1>5, <1>6, <1>7, <1>8, <1>9, <1>10, <1>11, <1>12, <1>13,
       <1>14, <1>15, <1>16, <1>17, <1>18, <1>19 DEF BatchNext

-----------------------------------------------------------------------------
(* An item is written once, after the only execution of its job *)

\* Task a has item j to write.
Writes(a, j) == chore[a] # NoChore /\ chore[a].job = j

\* The item waits while its job does, while somebody executes it and while a task has
\* it to write; only one task ever has.
ItemWritten(j) ==
    /\ \A a, b \in Actors : Writes(a, j) /\ Writes(b, j) => a = b
    /\ \A a \in Actors : Writes(a, j) =>
          Executions(j) = {} /\ status[j] \notin Unclaimed /\ item[j] = "QUEUED"
    /\ Executions(j) # {} => item[j] = "QUEUED"
    /\ status[j] = "QUEUED" => item[j] = "QUEUED"
    /\ status[j] = "absent" => item[j] \in {"absent", "FAILED"}

ItemInv == \A j \in Items \ restaled : ItemWritten(j)

\* Who says, or will say, that j went through.
Succeeding(j) ==
    \/ \E m \in inbox : m.job = j /\ m.ok
    \/ \E h \in Handlers : pc[h] = "busy" /\ j \in held[h] /\ saw[h] = "SUCCEEDED"
    \/ \E a \in Actors : Writes(a, j) /\ chore[a].ok
    \/ item[j] = "DONE"

DrivenInv == \A j \in Items \ restaled : Succeeding(j) => j \in driven

\* What is known of every job here.
LEMMA BatchFacts ==
  ASSUME BatchQueueInv
  PROVE  /\ TypeInv /\ BatchTypeInv /\ ExecutionInv
         /\ Workers \subseteq Actors /\ Handlers \subseteq Actors /\ Workers \cap Handlers = {}
         /\ Items \subseteq Jobs /\ \A j \in Items : RequestOf[j] \in Requests
         /\ \A a \in Actors : chore[a] # NoChore =>
               chore[a].job \in Items /\ chore[a].ok \in BOOLEAN /\ chore[a].step \in {"item", "flushed"}
         /\ \A a \in Actors : chore[a] # NoChore /\ chore[a].step = "flushed" =>
               chore[a].final \in Final \cup {"none"}
         /\ status \in [Jobs -> JobStatus] /\ item \in [Jobs -> ItemStatus]
         /\ batch \in [Requests -> BatchStatus] /\ stamp \in [Jobs -> Nat]
         /\ hand \in [Calls -> SUBSET Jobs] /\ held \in [Actors -> SUBSET Jobs]
         /\ DOMAIN pc = Actors /\ DOMAIN saw = Actors /\ DOMAIN chore = Actors
         /\ inbox \subseteq [job : Jobs, ok : BOOLEAN]
         /\ obeyed \in [Meters -> Jobs \cup {NoJob}] /\ driven \subseteq Jobs /\ stray \subseteq Jobs
         /\ \A j \in Jobs \ restaled : status[j] \in Unclaimed => Executions(j) = {}
  <1>1. TypeInv /\ BatchTypeInv /\ ExecutionInv
    BY DEF BatchQueueInv, QueueInv, BatchTypeInv
  <1>2. \A j \in Jobs \ restaled : status[j] \in Unclaimed => Executions(j) = {}
    BY <1>1 DEF ExecutionInv, OneExecution
  <1>3. Workers \cap Handlers = {}
    BY ActorsAssumption
  <1>4. QED
    BY <1>1, <1>2, <1>3, RequestsAssumption
       DEF BatchTypeInv, BatchTypeOK, TypeInv, TypeOK, Tasks, Items, Actors

\* Nobody joins in, nothing is written, and the row does not change its phase.
LEMMA ItemKept ==
  ASSUME NEW j, ItemWritten(j), Executions(j)' \subseteq Executions(j),
         \A a \in Actors : Writes(a, j)' => Writes(a, j), item'[j] = item[j],
         \/ status'[j] = status[j]
         \/ status'[j] \notin Unclaimed
  PROVE  ItemWritten(j)'
  BY DEF ItemWritten, Unclaimed

\* Nobody vouches for j who did not before.
LEMMA DrivenKept ==
  ASSUME NEW j, Succeeding(j) => j \in driven, j \in driven => j \in driven',
         inbox' \subseteq inbox, item'[j] = item[j],
         \A h \in Handlers : pc'[h] = "busy" =>
             pc[h] = "busy" /\ held'[h] = held[h] /\ saw'[h] = saw[h],
         \A a \in Actors : chore'[a] = NoChore
             \/ (chore[a] # NoChore /\ chore'[a].job = chore[a].job /\ chore'[a].ok = chore[a].ok)
  PROVE  Succeeding(j)' => j \in driven'
  BY DEF Succeeding, Writes

\* A job nobody has claimed has nobody to vouch for it.
LEMMA UnclaimedSilent ==
  ASSUME BatchQueueInv, TableInv, ItemInv, NEW j \in Items \ restaled, status[j] \in Unclaimed
  PROVE  ~ Succeeding(j) /\ Executions(j) = {} /\ \A a \in Actors : ~ Writes(a, j)
  <1>1. ItemWritten(j) /\ Executions(j) = {} /\ Handlers \subseteq Actors
    BY BatchFacts DEF ItemInv
  <1>2. \A a \in Actors : ~ Writes(a, j)
    BY <1>1 DEF ItemWritten
  <1>3. item[j] # "DONE"
    BY <1>1 DEF ItemWritten, Unclaimed
  <1>4. \A m \in inbox : m.job # j
    BY <1>1 DEF Executions
  <1>5. \A h \in Handlers : ~ (pc[h] = "busy" /\ j \in held[h])
    BY <1>1 DEF Executions
  <1>6. QED
    BY <1>1, <1>2, <1>3, <1>4, <1>5 DEF Succeeding

\* The task that ended the only execution of a job is the only one to write its item.
LEMMA SettledItem ==
  ASSUME BatchQueueInv, TableInv, ItemInv, DrivenInv, NEW a \in Workers \cup Handlers,
         NEW i, NEW new, Settled(a, i, new),
         new = "SUCCEEDED" => i \in driven \/ (a \in Handlers /\ saw[a] = "SUCCEEDED")
  PROVE  ItemInv' /\ DrivenInv'
  <1> USE BatchFacts
  <1>1. /\ a \in Actors /\ i \in Jobs /\ pc[a] = "busy" /\ held[a] = {i}
        /\ new \notin Unclaimed /\ status' = [status EXCEPT ![i] = new]
        /\ pc' = [pc EXCEPT ![a] = "idle"] /\ held' = [held EXCEPT ![a] = {}]
        /\ saw' = [saw EXCEPT ![a] = "absent"]
        /\ chore' = [chore EXCEPT ![a] = ChoreFor(i, new = "SUCCEEDED")]
        /\ UNCHANGED <<hand, inbox, restaled, item, driven>>
    BY DEF Settled, Terminal, Unclaimed
  <1>2. /\ \A j : Executions(j)' \subseteq Executions(j) \ {<<"task", a>>}
        /\ <<"task", a>> \in Executions(i)
    BY <1>1 DEF Executions
  <1>3. ChoreFor(i, new = "SUCCEEDED") = NoChore
        \/ (ChoreFor(i, new = "SUCCEEDED").job = i
            /\ (ChoreFor(i, new = "SUCCEEDED").ok => new = "SUCCEEDED"))
    BY DEF ChoreFor
  <1>4. \A b \in Actors, j \in Jobs : Writes(b, j)' => Writes(b, j) \/ (b = a /\ j = i)
    BY <1>1, <1>3 DEF Writes
  <1>5. ASSUME NEW j \in Items \ restaled PROVE ItemWritten(j)'
    <2>0. ItemWritten(j) /\ j \in Jobs
      BY DEF ItemInv
    <2>1. CASE j # i
      <3>1. status'[j] = status[j]
        BY <1>1, <2>1
      <3>2. QED
        BY <1>1, <1>2, <1>4, <2>0, <2>1, <3>1, ItemKept
    <2>2. CASE j = i
      <3>1. \A b \in Actors : ~ Writes(b, j)
        BY <1>2, <2>0, <2>2 DEF ItemWritten
      <3>2. Executions(j)' = {} /\ item[j] = "QUEUED"
        BY <1>2, <2>0, <2>2 DEF ItemWritten, ExecutionInv, OneExecution
      <3>3. status'[j] \notin Unclaimed
        BY <1>1, <2>2
      <3>4. QED
        BY <1>1, <1>4, <2>0, <3>1, <3>2, <3>3 DEF ItemWritten, Unclaimed
    <2>3. QED
      BY <2>1, <2>2
  <1>6. ASSUME NEW j \in Items \ restaled, Succeeding(j)' PROVE j \in driven
    <2>0. j \in Jobs
      OBVIOUS
    <2>1. CASE \E b \in Actors : Writes(b, j)' /\ chore'[b].ok /\ ~ (Writes(b, j) /\ chore[b].ok)
      <3>1. PICK b \in Actors : Writes(b, j)' /\ chore'[b].ok /\ ~ (Writes(b, j) /\ chore[b].ok)
        BY <2>1
      <3>2. b = a
        BY <1>1, <3>1 DEF Writes
      <3>3. j = i /\ new = "SUCCEEDED"
        BY <1>1, <1>3, <3>1, <3>2 DEF Writes
      <3>4. a \in Handlers /\ saw[a] = "SUCCEEDED" => Succeeding(j)
        BY <1>1, <3>3 DEF Succeeding
      <3>5. QED
        BY <3>3, <3>4 DEF DrivenInv
    <2>2. CASE ~ \E b \in Actors : Writes(b, j)' /\ chore'[b].ok /\ ~ (Writes(b, j) /\ chore[b].ok)
      <3>1. \A h \in Handlers : pc'[h] = "busy" => pc[h] = "busy" /\ held'[h] = held[h] /\ saw'[h] = saw[h]
        BY <1>1
      <3>2. Succeeding(j)
        BY <1>1, <1>6, <2>2, <3>1 DEF Succeeding
      <3>3. QED
        BY <3>2 DEF DrivenInv
    <2>3. QED
      BY <2>1, <2>2
  <1>7. QED
    BY <1>1, <1>5, <1>6 DEF ItemInv, DrivenInv

\* Steps that end no execution, write no item and start nobody.
LEMMA QuietItems ==
  ASSUME BatchQueueInv, ItemInv, DrivenInv, restaled \subseteq restaled',
         \A j \in Items \ restaled' : status'[j] = status[j] \/ status'[j] \notin Unclaimed,
         \A a \in Workers \cup Handlers :
            pc'[a] = "busy" => pc[a] = "busy" /\ held'[a] = held[a] /\ saw'[a] = saw[a],
         \A c \in Calls : hand'[c] \subseteq hand[c], inbox' \subseteq inbox,
         \A a \in Actors : chore'[a] = NoChore
             \/ (chore[a] # NoChore /\ chore'[a].job = chore[a].job /\ chore'[a].ok = chore[a].ok),
         \A j \in Items : item'[j] = item[j] /\ (j \in driven => j \in driven')
  PROVE  ItemInv' /\ DrivenInv'
  <1>1. \A j : Executions(j)' \subseteq Executions(j)
    BY DEF Executions
  <1>2. \A j : \A a \in Actors : Writes(a, j)' => Writes(a, j)
    BY DEF Writes
  <1>3. ItemInv'
    BY <1>1, <1>2, ItemKept DEF ItemInv
  <1>4. \A h \in Handlers : pc'[h] = "busy" => pc[h] = "busy" /\ held'[h] = held[h] /\ saw'[h] = saw[h]
    OBVIOUS
  <1>5. ASSUME NEW j \in Items \ restaled', Succeeding(j)' PROVE j \in driven'
    BY <1>4, <1>5, DrivenKept DEF DrivenInv
  <1>6. QED
    BY <1>3, <1>5 DEF DrivenInv

\* A claim: from here on the relay counts as not yet switched for the jobs of S.
LEMMA ClaimItems ==
  ASSUME BatchQueueInv, TableInv, ItemInv, DrivenInv, NEW S \in SUBSET Jobs, NEW x,
         \A j \in S : status[j] = "QUEUED",
         \A j \in Jobs : j \notin S => status'[j] = status[j] /\ Executions(j)' \subseteq Executions(j),
         \A j \in S : status'[j] \notin Unclaimed /\ Executions(j)' \subseteq Executions(j) \cup {x},
         \A h \in Handlers : pc'[h] = pc[h] /\ held'[h] = held[h] /\ saw'[h] = saw[h],
         UNCHANGED <<inbox, item, chore, restaled>>, driven' = driven \ S
  PROVE  ItemInv' /\ DrivenInv'
  <1>1. ASSUME NEW j \in Items \ restaled PROVE ItemWritten(j)' /\ (Succeeding(j)' => j \in driven')
    <2>0. ItemWritten(j) /\ j \in Jobs /\ (Succeeding(j) => j \in driven)
      BY BatchFacts DEF ItemInv, DrivenInv
    <2>1. \A a \in Actors : Writes(a, j)' = Writes(a, j)
      BY DEF Writes
    <2>2. Succeeding(j)' => Succeeding(j)
      BY <2>1 DEF Succeeding
    <2>3. CASE j \in S
      <3>1. \A a \in Actors : ~ Writes(a, j)
        BY <2>3, UnclaimedSilent DEF Unclaimed
      <3>2. ~ Succeeding(j)
        BY <2>3, UnclaimedSilent DEF Unclaimed
      <3>3. item[j] = "QUEUED"
        BY <2>0, <2>3 DEF ItemWritten
      <3>4. status'[j] \notin Unclaimed
        BY <2>3
      <3>5. QED
        BY <2>1, <2>2, <3>1, <3>2, <3>3, <3>4 DEF ItemWritten, Unclaimed
    <2>4. CASE j \notin S
      BY <2>0, <2>1, <2>2, <2>4, ItemKept
    <2>5. QED
      BY <2>3, <2>4
  <1>2. QED
    BY <1>1 DEF ItemInv, DrivenInv

\* Every step keeps both.
LEMMA ItemStep ==
  BatchQueueInv /\ TableInv /\ ItemInv /\ DrivenInv /\ [BatchNext]_batchesVars => ItemInv' /\ DrivenInv'
  <1> SUFFICES ASSUME BatchQueueInv, TableInv, ItemInv, DrivenInv, [BatchNext]_batchesVars
               PROVE  ItemInv' /\ DrivenInv'
    OBVIOUS
  <1> DEFINE Goal == ItemInv' /\ DrivenInv'
  <1> USE BatchFacts DEF batchVars, relayVars, pastVars
  <1>0. UNCHANGED <<vars, item, chore>> /\ driven \subseteq driven' => Goal
    BY QuietItems DEF vars, jobVars, taskVars, gatewayVars, historyVars
  <1>1. ASSUME NEW j \in Jobs, BeginManual(j) PROVE Goal
    BY <1>0, <1>1 DEF BeginManual
  <1>2. ASSUME NEW j \in Jobs, AcceptManual(j) PROVE Goal
    <2>1. /\ j \notin Items /\ \A k \in Jobs : k # j => status'[k] = status[k]
          /\ UNCHANGED <<item, chore, driven, pc, held, saw, hand, inbox, restaled>>
      BY <1>2 DEF AcceptManual, EnqueueManual, Items, taskVars, gatewayVars, historyVars
    <2>2. QED
      BY <2>1, QuietItems
  <1>3. ASSUME NEW j \in Jobs, SwitchLate(j) \/ StrayEnds(j) PROVE Goal
    BY <1>0, <1>3 DEF SwitchLate, Switch, StrayEnds
  <1>4. ASSUME NEW q \in Requests, CheckKey(q) PROVE Goal
    <2>1. UNCHANGED <<vars, item, chore, driven>>
      BY <1>4 DEF CheckKey
    <2>2. QED
      BY <2>1, QuietItems DEF vars, jobVars, taskVars, gatewayVars, historyVars
  <1>5. ASSUME NEW q \in Requests, CreateBatch(q) PROVE Goal
    <2>1. CASE UNCHANGED <<vars, item>>
      <3>1. UNCHANGED <<vars, item, chore, driven>>
        BY <1>5, <2>1 DEF CreateBatch
      <3>2. QED
        BY <3>1, QuietItems DEF vars, jobVars, taskVars, gatewayVars, historyVars
    <2>2. CASE ~ UNCHANGED <<vars, item>>
      <3> DEFINE rows == [j \in ItemsOf(q) |-> IF j \in Known(q) THEN "QUEUED" ELSE "FAILED"]
      <3>1. /\ batch[q] = "absent"
            /\ item' = [j \in Jobs |-> IF j \in ItemsOf(q) THEN rows[j] ELSE item[j]]
            /\ IF Known(q) = {} THEN UNCHANGED vars ELSE EnqueueManual(Known(q))
            /\ UNCHANGED <<chore, driven>>
        BY <1>5, <2>2 DEF CreateBatch, SameKey
      <3>2. \A j \in ItemsOf(q) : /\ j \in Items /\ RequestOf[j] = q
                                  /\ status[j] = "absent"
        BY <3>1, RequestsAssumption DEF ItemsOf, Items, TableInv
      <3>3. /\ UNCHANGED <<pc, held, saw, hand, inbox, restaled>>
            /\ \A j \in Jobs : status'[j] = IF j \in Known(q) THEN "QUEUED" ELSE status[j]
        BY <3>1 DEF EnqueueManual, vars, jobVars, taskVars, gatewayVars, historyVars
      <3>4. ASSUME NEW j \in Items \ restaled PROVE ItemWritten(j)' /\ (Succeeding(j)' => j \in driven)
        <4>0. ItemWritten(j) /\ j \in Jobs /\ (Succeeding(j) => j \in driven)
          BY DEF ItemInv, DrivenInv
        <4>1. Executions(j)' = Executions(j) /\ \A a \in Actors : Writes(a, j)' = Writes(a, j)
          BY <3>1, <3>3 DEF Executions, Writes
        <4>2. CASE j \in ItemsOf(q)
          <5>1. ~ Succeeding(j) /\ Executions(j) = {} /\ \A a \in Actors : ~ Writes(a, j)
            BY <3>2, <4>2, UnclaimedSilent DEF Unclaimed
          <5>2. item'[j] = (IF j \in Known(q) THEN "QUEUED" ELSE "FAILED")
            BY <3>1, <4>0, <4>2
          <5>3. status'[j] = (IF j \in Known(q) THEN "QUEUED" ELSE "absent")
            BY <3>2, <3>3, <4>0, <4>2
          <5>4. ItemWritten(j)'
            BY <4>1, <5>1, <5>2, <5>3 DEF ItemWritten, Unclaimed
          <5>5. ~ Succeeding(j)'
            BY <3>1, <3>3, <4>1, <5>1, <5>2 DEF Succeeding
          <5>6. QED
            BY <5>4, <5>5
        <4>3. CASE j \notin ItemsOf(q)
          <5>1. item'[j] = item[j] /\ status'[j] = status[j]
            BY <3>1, <3>3, <4>0, <4>3 DEF Known
          <5>2. ItemWritten(j)'
            BY <4>0, <4>1, <5>1, ItemKept
          <5>3. Succeeding(j)' => Succeeding(j)
            BY <3>1, <3>3, <4>1, <5>1 DEF Succeeding
          <5>4. QED
            BY <4>0, <5>2, <5>3
        <4>4. QED
          BY <4>2, <4>3
      <3>5. QED
        BY <3>1, <3>3, <3>4 DEF ItemInv, DrivenInv
    <2>3. QED
      BY <2>1, <2>2
  <1>6. ASSUME NEW w \in Workers, SwitchForWorker(w) PROVE Goal
    <2>1. UNCHANGED <<vars, item, chore>> /\ driven \subseteq driven'
      BY <1>6 DEF SwitchForWorker, Switch
    <2>2. QED
      BY <2>1, QuietItems DEF vars, jobVars, taskVars, gatewayVars, historyVars
  <1>7. ASSUME NEW c \in Calls, SwitchOnCall(c) PROVE Goal
    <2>1. UNCHANGED <<vars, item, chore>> /\ driven \subseteq driven'
      BY <1>7 DEF SwitchOnCall, Switch
    <2>2. QED
      BY <2>1, QuietItems DEF vars, jobVars, taskVars, gatewayVars, historyVars
  <1>8. ASSUME NEW w \in Workers, Finish(w) PROVE Goal
    BY <1>8, FinishSettles, SettledItem
  <1>9. ASSUME NEW h \in Handlers, Accept(h) PROVE Goal
    BY <1>9, AcceptSettles, SettledItem
  <1>10. ASSUME NEW w \in Workers, NEW i \in Jobs, Claim(w, i) PROVE Goal
    <2>1. /\ status[i] = "QUEUED" /\ status' = [status EXCEPT ![i] = "RUNNING"]
          /\ pc' = [pc EXCEPT ![w] = "busy"] /\ held' = [held EXCEPT ![w] = {i}]
          /\ saw' = [saw EXCEPT ![w] = "RUNNING"] /\ driven' = driven \ {i}
          /\ UNCHANGED <<hand, inbox, item, chore, restaled>>
      BY <1>10 DEF Claim, ClaimNext, ForWorker, gatewayVars, historyVars
    <2>2. /\ \A j \in Jobs : j \notin {i} =>
                status'[j] = status[j] /\ Executions(j)' \subseteq Executions(j)
          /\ status'[i] \notin Unclaimed /\ Executions(i)' \subseteq Executions(i) \cup {<<"task", w>>}
      BY <2>1 DEF Executions, Unclaimed
    <2>3. \A h \in Handlers : pc'[h] = pc[h] /\ held'[h] = held[h] /\ saw'[h] = saw[h]
      BY <2>1
    <2>4. \A j \in {i} : status[j] = "QUEUED" /\ status'[j] \notin Unclaimed
                         /\ Executions(j)' \subseteq Executions(j) \cup {<<"task", w>>}
      BY <2>1, <2>2
    <2>5. {i} \in SUBSET Jobs
      OBVIOUS
    <2> DEFINE S == {i}
    <2> HIDE DEF S
    <2>6. /\ S \in SUBSET Jobs /\ driven' = driven \ S
          /\ \A j \in S : status[j] = "QUEUED"
          /\ \A j \in Jobs : j \notin S => status'[j] = status[j] /\ Executions(j)' \subseteq Executions(j)
          /\ \A j \in S : status'[j] \notin Unclaimed
                          /\ Executions(j)' \subseteq Executions(j) \cup {<<"task", w>>}
      BY <2>1, <2>2, <2>4, <2>5 DEF S
    <2>7. QED
      BY <2>1, <2>3, <2>6, ClaimItems
  <1>11. ASSUME NEW c \in Calls, NEW m \in Meters, NEW S \in SUBSET DueOf(m), Take(c, m, S) PROVE Goal
    <2>1. /\ S \in SUBSET Jobs /\ \A j \in S : status[j] = "QUEUED"
          /\ status' = [j \in Jobs |-> IF j \in S THEN "RUNNING" ELSE status[j]]
          /\ hand' = [hand EXCEPT ![c] = S] /\ hand[c] = {} /\ driven' = driven \ S
          /\ UNCHANGED <<pc, held, saw, inbox, item, chore, restaled>>
      BY <1>11 DEF Take, GatewayClaim, DueOf, Queued, taskVars, historyVars
    <2>2. /\ \A j \in Jobs : j \notin S => status'[j] = status[j] /\ Executions(j)' \subseteq Executions(j)
          /\ \A j \in S : status'[j] \notin Unclaimed
                          /\ Executions(j)' \subseteq Executions(j) \cup {<<"call", c>>}
      BY <2>1 DEF Executions, Unclaimed
    <2>3. QED
      BY <2>1, <2>2, ClaimItems
  <1>12. ASSUME NEW c \in Calls, NEW i \in hand[c], NEW ok \in BOOLEAN, Report(c, i, ok) PROVE Goal
    <2> DEFINE msg == [job |-> i, ok |-> ok]
    <2>1. /\ hand' = [hand EXCEPT ![c] = @ \ {i}] /\ inbox' = inbox \cup {msg}
          /\ ok => i \in driven
          /\ UNCHANGED <<status, pc, held, saw, item, chore, driven, restaled>>
      BY <1>12 DEF Report, SendReport, jobVars, taskVars, historyVars
    <2>2. msg.job = i /\ msg.ok = ok
      OBVIOUS
    <2> HIDE DEF msg
    <2>3. ASSUME NEW j \in Items \ restaled PROVE ItemWritten(j)' /\ (Succeeding(j)' => j \in driven)
      <3>1. ItemWritten(j) /\ (Succeeding(j) => j \in driven)
        BY DEF ItemInv, DrivenInv
      <3>2. \A a \in Actors : Writes(a, j)' = Writes(a, j)
        BY <2>1 DEF Writes
      <3>3. Executions(j)' # {} => Executions(j) # {}
        <4>1. <<"call", c>> \in Executions(i)
          BY DEF Executions
        <4>2. j # i => Executions(j)' \subseteq Executions(j)
          BY <2>1, <2>2 DEF Executions
        <4>3. QED
          BY <4>1, <4>2
      <3>4. Succeeding(j)' => Succeeding(j) \/ (j = i /\ ok)
        BY <2>1, <2>2, <3>2 DEF Succeeding
      <3>5. QED
        BY <2>1, <3>1, <3>2, <3>3, <3>4 DEF ItemWritten
    <2>4. QED
      BY <2>1, <2>3 DEF ItemInv, DrivenInv
  <1>13. ASSUME NEW h \in Handlers, NEW msg \in inbox, Receive(h, msg) PROVE Goal
    <2>1. /\ inbox' = inbox \ {msg}
          /\ UNCHANGED <<status, hand, item, chore, driven, restaled>>
          /\ \/ UNCHANGED <<pc, held, saw>>
             \/ /\ pc' = [pc EXCEPT ![h] = "busy"] /\ held' = [held EXCEPT ![h] = {msg.job}]
                /\ saw' = [saw EXCEPT ![h] = IF msg.ok THEN "SUCCEEDED" ELSE "FAILED"]
      BY <1>13 DEF Receive, ReceiveReport, jobVars, historyVars
    <2>2. ASSUME NEW j \in Items \ restaled PROVE ItemWritten(j)' /\ (Succeeding(j)' => j \in driven)
      <3>1. ItemWritten(j) /\ (Succeeding(j) => j \in driven)
        BY DEF ItemInv, DrivenInv
      <3>2. \A a \in Actors : Writes(a, j)' = Writes(a, j)
        BY <2>1 DEF Writes
      <3>3. Executions(j)' # {} => Executions(j) # {}
        <4>1. <<"report", msg>> \in Executions(msg.job)
          BY DEF Executions
        <4>2. j # msg.job => Executions(j)' \subseteq Executions(j)
          BY <2>1 DEF Executions
        <4>3. QED
          BY <4>1, <4>2
      <3>4. Succeeding(j)' => Succeeding(j)
        BY <2>1, <3>2 DEF Succeeding
      <3>5. QED
        BY <2>1, <3>1, <3>2, <3>3, <3>4 DEF ItemWritten
    <2>3. QED
      BY <2>1, <2>2 DEF ItemInv, DrivenInv
  <1>14. ASSUME NEW a \in Actors, FlushItem(a) PROVE Goal
    <2>1. /\ UNCHANGED <<vars, item, driven>> /\ chore[a] # NoChore
          /\ chore'[a].job = chore[a].job /\ chore'[a].ok = chore[a].ok
          /\ \A b \in Actors : b # a => chore'[b] = chore[b]
      BY <1>14 DEF FlushItem
    <2>2. QED
      BY <2>1, QuietItems DEF vars, jobVars, taskVars, gatewayVars, historyVars
  <1>15. ASSUME NEW a \in Actors, CommitItem(a) PROVE Goal
    <2> DEFINE i == chore[a].job
    <2>1. /\ chore[a] # NoChore /\ chore' = [chore EXCEPT ![a] = NoChore]
          /\ item' = [item EXCEPT ![i] = Written(chore[a].ok)]
          /\ UNCHANGED <<status, pc, held, saw, hand, inbox, restaled, driven>>
      BY <1>15 DEF CommitItem, vars, jobVars, taskVars, gatewayVars, historyVars
    <2>2. Writes(a, i) /\ i \in Items /\ i \in Jobs
      BY <2>1 DEF Writes
    <2>3. ASSUME NEW j \in Items \ restaled PROVE ItemWritten(j)' /\ (Succeeding(j)' => j \in driven)
      <3>1. ItemWritten(j) /\ (Succeeding(j) => j \in driven)
        BY DEF ItemInv, DrivenInv
      <3>2. \A b \in Actors : Writes(b, j)' => b # a /\ Writes(b, j) /\ chore'[b] = chore[b]
        BY <2>1 DEF Writes
      <3>3. Executions(j)' = Executions(j)
        BY <2>1 DEF Executions
      <3>4. CASE j = i
        <4>1. /\ \A b \in Actors : ~ Writes(b, j)'
              /\ Executions(j) = {} /\ status[j] \notin Unclaimed
          BY <2>2, <3>1, <3>2, <3>4 DEF ItemWritten
        <4>2. item'[j] = "DONE" => chore[a].ok
          BY <2>1, <2>2, <3>4 DEF Written
        <4>3. Succeeding(j)' => Succeeding(j)
          BY <2>1, <2>2, <3>2, <3>4, <4>2 DEF Succeeding
        <4>4. ItemWritten(j)'
          BY <2>1, <3>3, <4>1 DEF ItemWritten, Unclaimed
        <4>5. QED
          BY <3>1, <4>3, <4>4
      <3>5. CASE j # i
        <4>1. item'[j] = item[j]
          BY <2>1, <3>5
        <4>2. Succeeding(j)' => Succeeding(j)
          BY <2>1, <3>2, <4>1 DEF Succeeding
        <4>3. ItemWritten(j)'
          BY <2>1, <3>1, <3>2, <3>3, <4>1, ItemKept
        <4>4. QED
          BY <3>1, <4>2, <4>3
      <3>6. QED
        BY <3>4, <3>5
    <2>4. QED
      BY <2>1, <2>3 DEF ItemInv, DrivenInv
  <1>16. ASSUME NEW a \in Actors, TaskError(a) PROVE Goal
    <2>1. /\ chore' = [chore EXCEPT ![a] = NoChore] /\ held' = [held EXCEPT ![a] = {}]
          /\ pc' = [pc EXCEPT ![a] = IF a \in Workers THEN "dead" ELSE "idle"]
          /\ saw' = [saw EXCEPT ![a] = "absent"]
          /\ UNCHANGED <<status, hand, inbox, restaled, item, driven>>
      BY <1>16 DEF TaskError, DatabaseError, jobVars, gatewayVars
    <2>2. QED
      BY <2>1, QuietItems
  <1>17. CASE Housekeeping
    <2>1. UNCHANGED <<item, chore, pc, held, saw, inbox, driven>>
      BY <1>17 DEF Housekeeping, Age, SelectStale, RequeueStale, GatewayDrop, taskVars, gatewayVars
    <2>2. restaled \subseteq restaled' /\ \A j \in Jobs \ restaled' : status'[j] = status[j]
      BY <1>17
         DEF Housekeeping, Age, SelectStale, RequeueStale, GatewayDrop, jobVars, historyVars
    <2>3. \A c \in Calls : hand'[c] \subseteq hand[c]
      BY <1>17 DEF Housekeeping, Age, SelectStale, RequeueStale, GatewayDrop, gatewayVars
    <2>4. QED
      BY <2>1, <2>2, <2>3, QuietItems
  <1>18. CASE BackendRestart
    <2>1. /\ chore' = [a \in Actors |-> NoChore] /\ held' = [a \in Actors |-> {}]
          /\ pc' = [a \in Actors |-> "idle"] /\ inbox' = {}
          /\ status' = [j \in Jobs |-> IF j \in Running THEN "FAILED" ELSE status[j]]
          /\ UNCHANGED <<restaled, hand, item, driven>>
      BY <1>18 DEF BackendRestart, Restart
    <2>2. \A j \in Items : status'[j] = status[j] \/ status'[j] \notin Unclaimed
      BY <2>1 DEF Unclaimed
    <2>3. QED
      BY <2>1, <2>2, QuietItems
  <1>19. CASE UNCHANGED batchesVars
    <2>1. UNCHANGED <<vars, item, chore, driven>>
      BY <1>19 DEF batchesVars
    <2>2. QED
      BY <2>1, QuietItems DEF vars, jobVars, taskVars, gatewayVars, historyVars
  <1>20. QED
    BY <1>1, <1>2, <1>3, <1>4, <1>5, <1>6, <1>7, <1>8, <1>9, <1>10, <1>11, <1>12, <1>13,
       <1>14, <1>15, <1>16, <1>17, <1>18, <1>19 DEF BatchNext

\* What holds of the rows and of the items together is inductive.
BatchInv == BatchQueueInv /\ TableInv /\ ItemInv /\ DrivenInv

\* It holds at the start.
LEMMA InitBatch == BatchInit => BatchInv
  <1> SUFFICES ASSUME BatchInit PROVE BatchInv
    OBVIOUS
  <1>1. QueueInv
    BY InitQueue DEF BatchInit
  <1>2. BatchTypeInv
    BY InitBatchType
  <1>3. \A a \in Actors : chore[a] = NoChore /\ held[a] = {} /\ pc[a] = "idle"
    BY DEF BatchInit, Init
  <1>4. inbox = {} /\ \A j \in Jobs : status[j] = "absent" /\ item[j] = "absent"
    BY DEF BatchInit, Init
  <1>5. TableInv
    BY <1>3, <1>4 DEF BatchInit, Init, TableInv, Items, Actors
  <1>6. ItemInv
    <2>1. \A j \in Jobs : Executions(j) = {}
      BY <1>3, <1>4 DEF Executions, BatchInit, Init, Actors
    <2>2. QED
      BY <1>3, <1>4, <2>1 DEF ItemInv, ItemWritten, Writes, Items
  <1>7. DrivenInv
    BY <1>3, <1>4 DEF DrivenInv, Succeeding, Writes, Items, Actors
  <1>8. QED
    BY <1>1, <1>2, <1>5, <1>6, <1>7 DEF BatchInv, BatchQueueInv

\* Every step keeps it.
LEMMA BatchStep == BatchInv /\ [BatchNext]_batchesVars => BatchInv'
  BY BatchQueueStep, TableStep, ItemStep DEF BatchInv

\* Theorem: an item told to billing as DONE was obeyed by its relay in the execution that
\* was told of, whoever executed it and however late its report was.
THEOREM DoneIsObeyed == BatchSpec => []DoneWasObeyed
  <1>1. BatchInv => DoneWasObeyed
    BY DEF BatchInv, DrivenInv, Succeeding, DoneWasObeyed
  <1>2. QED
    BY <1>1, InitBatch, BatchStep, PTL DEF BatchSpec

-----------------------------------------------------------------------------
(* The verdict of a batch *)

\* Task a is between the flush and the commit of an item of batch q.
Flushed(a, q) ==
    chore[a] # NoChore /\ chore[a].step = "flushed" /\ RequestOf[chore[a].job] = q

\* The items of batch q as task a sees them after its flush.
SeenBy(a, q) ==
    {item[k] : k \in ItemsOf(q) \ {chore[a].job}} \cup {Written(chore[a].ok)}

\* A verdict that is, or is about to be, written agrees with the items.
VerdictOf(q) ==
    /\ batch[q] \in Final => batch[q] = SummaryOf({item[j] : j \in ItemsOf(q)})
    /\ \A a \in Actors : Flushed(a, q) /\ chore[a].final # "none" =>
          chore[a].final = SummaryOf(SeenBy(a, q))

VerdictInv == \A q \in Requests : ItemsOf(q) \cap restaled = {} => VerdictOf(q)

\* One item of batch q is written at a time; the task that leaves the batch open has seen
\* another item to wait for; and the batch is closed with its last item.
Watched(q) ==
    /\ \A a, b \in Actors : Flushed(a, q) /\ Flushed(b, q) => a = b
    /\ \A a \in Actors : Flushed(a, q) /\ chore[a].final = "none" /\ batch[q] = "QUEUED" =>
          \E k \in ItemsOf(q) \ {chore[a].job} : item[k] = "QUEUED"
    /\ batch[q] = "QUEUED" /\ (\A j \in ItemsOf(q) : item[j] # "QUEUED") => ClosesSoon(q)

WatchInv == \A q \in Requests \ (overlapped \cup halted) : Watched(q)

\* There is no verdict as long as an item is QUEUED, and only then.
LEMMA SummaryFacts ==
  ASSUME NEW rows
  PROVE  /\ SummaryOf(rows) \in Final \cup {"none"}
         /\ SummaryOf(rows) = "none" <=> "QUEUED" \in rows
  BY DEF SummaryOf, Final

\* Batch q, its items and those about to close it are as before.
LEMMA BatchAsBefore ==
  ASSUME NEW q, batch'[q] = batch[q], \A j \in ItemsOf(q) : item'[j] = item[j],
         \A a \in Actors : \/ chore'[a] = chore[a]
                           \/ /\ chore[a] = NoChore \/ RequestOf[chore[a].job] # q
                              /\ \/ chore'[a] = NoChore
                                 \/ chore'[a].step = "item"
                                 \/ RequestOf[chore'[a].job] # q
  PROVE  (VerdictOf(q) => VerdictOf(q)') /\ (Watched(q) => Watched(q)')
  <1>1. \A a \in Actors : Flushed(a, q)' => Flushed(a, q) /\ chore'[a] = chore[a]
    BY DEF Flushed
  <1>2. ClosesSoon(q) => ClosesSoon(q)'
    BY DEF ClosesSoon
  <1>3. {item'[j] : j \in ItemsOf(q)} = {item[j] : j \in ItemsOf(q)}
    OBVIOUS
  <1>4. \A a \in Actors : Flushed(a, q)' => SeenBy(a, q)' = SeenBy(a, q)
    BY <1>1 DEF SeenBy
  <1>5. VerdictOf(q) => VerdictOf(q)'
    BY <1>1, <1>3, <1>4 DEF VerdictOf
  <1>6. Watched(q) => Watched(q)'
    BY <1>1, <1>2 DEF Watched
  <1>7. QED
    BY <1>5, <1>6

\* So are all batches.
LEMMA BatchesAsBefore ==
  ASSUME VerdictInv, WatchInv, UNCHANGED <<batch, item>>, restaled \subseteq restaled',
         overlapped \cup halted \subseteq overlapped' \cup halted',
         \A a \in Actors : chore'[a] = chore[a] \/ (chore[a] = NoChore /\ chore'[a].step = "item")
  PROVE  VerdictInv' /\ WatchInv'
  <1>1. \A q \in Requests : (VerdictOf(q) => VerdictOf(q)') /\ (Watched(q) => Watched(q)')
    BY BatchAsBefore
  <1>2. QED
    BY <1>1 DEF VerdictInv, WatchInv

\* The flush: the task sees the items and keeps what they add up to.
LEMMA FlushVerdict ==
  ASSUME BatchInv, VerdictInv, WatchInv, NEW a \in Actors, FlushItem(a)
  PROVE  VerdictInv' /\ WatchInv'
  <1> USE BatchFacts DEF BatchInv
  <1>0. chore[a] # NoChore /\ chore[a].step = "item"
    BY DEF FlushItem
  <1>2. PICK i \in Items, p \in Requests : chore[a].job = i /\ RequestOf[i] = p
    BY <1>0
  <1> DEFINE open == {b \in Actors \ {a} : Flushed(b, p)}
             final == IF batch[p] = "QUEUED" THEN SummaryOf(SeenBy(a, p)) ELSE "none"
             new == [step |-> "flushed", job |-> i, ok |-> chore[a].ok, final |-> final]
  <1>1. /\ chore[a] # NoChore /\ chore[a].step = "item"
        /\ chore' = [chore EXCEPT ![a] = new]
        /\ overlapped' = IF open = {} THEN overlapped ELSE overlapped \cup {p}
        /\ UNCHANGED <<batch, item, restaled, halted>>
    BY <1>2 DEF FlushItem, Flushed, SeenBy, vars, historyVars
  <1>3. final \in Final \cup {"none"}
    BY SummaryFacts
  <1>4. /\ new.step = "flushed" /\ new.job = i /\ new.ok = chore[a].ok /\ new.final = final
        /\ new # NoChore
    BY <1>1, <1>2, <1>3, NoChoreAssumption DEF Chores
  <1> HIDE DEF new, final
  <1>5. chore'[a] = new /\ \A b \in Actors : b # a => chore'[b] = chore[b]
    BY <1>1
  <1>6. SeenBy(a, p)' = SeenBy(a, p)
    BY <1>1, <1>2, <1>4, <1>5 DEF SeenBy
  <1>7. \A q \in Requests : q # p => (VerdictOf(q) => VerdictOf(q)') /\ (Watched(q) => Watched(q)')
    BY <1>1, <1>2, <1>4, <1>5, BatchAsBefore
  <1>8. final # "none" => final = SummaryOf(SeenBy(a, p)) /\ batch[p] = "QUEUED"
    BY DEF final
  <1>9. VerdictOf(p) => VerdictOf(p)'
    <2> SUFFICES ASSUME VerdictOf(p) PROVE VerdictOf(p)'
      OBVIOUS
    <2>1. ASSUME NEW b \in Actors, Flushed(b, p)', chore'[b].final # "none"
          PROVE  chore'[b].final = SummaryOf(SeenBy(b, p)')
      <3>1. CASE b = a
        BY <1>4, <1>5, <1>6, <1>8, <2>1, <3>1
      <3>2. CASE b # a
        <4>1. Flushed(b, p) /\ chore'[b] = chore[b] /\ SeenBy(b, p)' = SeenBy(b, p)
          BY <1>1, <1>5, <2>1, <3>2 DEF Flushed, SeenBy
        <4>2. QED
          BY <2>1, <4>1 DEF VerdictOf
      <3>3. QED
        BY <3>1, <3>2
    <2>2. QED
      BY <1>1, <2>1 DEF VerdictOf
  <1>10. p \notin overlapped' \cup halted' /\ Watched(p) => Watched(p)'
    <2> SUFFICES ASSUME p \notin overlapped' \cup halted', Watched(p) PROVE Watched(p)'
      OBVIOUS
    <2>1. \A b \in Actors : Flushed(b, p)' => b = a
      BY <1>1, <1>2, <1>5 DEF Flushed
    <2>2. ASSUME final = "none", batch[p] = "QUEUED"
          PROVE \E k \in ItemsOf(p) \ {i} : item[k] = "QUEUED"
      <3>1. "QUEUED" \in SeenBy(a, p)
        BY <2>2, SummaryFacts DEF final
      <3>2. QED
        BY <1>2, <3>1 DEF SeenBy, Written
    <2>3. ASSUME batch[p] = "QUEUED", \A j \in ItemsOf(p) : item[j] # "QUEUED" PROVE ClosesSoon(p)'
      <3>1. final # "none"
        BY <2>2, <2>3
      <3>2. QED
        BY <1>2, <1>4, <1>5, <3>1 DEF ClosesSoon
    <2>4. QED
      BY <1>1, <1>2, <1>4, <1>5, <2>1, <2>2, <2>3 DEF Watched
  <1>11. /\ \A q \in Requests : VerdictOf(q) => VerdictOf(q)'
         /\ \A q \in Requests \ (overlapped' \cup halted') : Watched(q) => Watched(q)'
    BY <1>7, <1>9, <1>10
  <1>12. overlapped \cup halted \subseteq overlapped' \cup halted'
    BY <1>1
  <1>13. QED
    BY <1>1, <1>11, <1>12 DEF VerdictInv, WatchInv

\* The commit: nobody else has decided on the batch since, as nobody could without this item.
LEMMA CommitVerdict ==
  ASSUME BatchInv, VerdictInv, WatchInv, NEW a \in Actors, CommitItem(a)
  PROVE  VerdictInv' /\ WatchInv'
  <1> USE BatchFacts DEF BatchInv
  <1>0. chore[a] # NoChore /\ chore[a].step = "flushed"
    BY DEF CommitItem
  <1>2. PICK i \in Items, p \in Requests : chore[a].job = i /\ RequestOf[i] = p
    BY <1>0
  <1>3. /\ i \in ItemsOf(p) /\ i \in Jobs /\ chore[a].final \in Final \cup {"none"}
        /\ Writes(a, i)
    BY <1>0, <1>2 DEF ItemsOf, Writes, Items
  <1>1. /\ Flushed(a, p) /\ chore' = [chore EXCEPT ![a] = NoChore]
        /\ item' = [item EXCEPT ![i] = Written(chore[a].ok)]
        /\ batch' = IF chore[a].final = "none" THEN batch ELSE [batch EXCEPT ![p] = chore[a].final]
        /\ UNCHANGED <<restaled, overlapped, halted>>
    <2>1. /\ chore' = [chore EXCEPT ![a] = NoChore]
          /\ item' = [item EXCEPT ![i] = Written(chore[a].ok)]
          /\ UNCHANGED <<vars, relayVars, pastVars>>
      BY <1>0, <1>2 DEF CommitItem
    <2>2. batch' = IF chore[a].final = "none" THEN batch ELSE [batch EXCEPT ![p] = chore[a].final]
      BY <1>0, <1>2 DEF CommitItem
    <2>3. QED
      BY <1>0, <1>2, <2>1, <2>2 DEF Flushed, vars, historyVars, pastVars
  <1>4. /\ \A b \in Actors : b # a => chore'[b] = chore[b]
        /\ chore'[a] = NoChore /\ \A j \in Jobs : j # i => item'[j] = item[j]
        /\ \A q \in Requests : q # p => batch'[q] = batch[q]
        /\ item'[i] = Written(chore[a].ok)
        /\ batch'[p] = IF chore[a].final = "none" THEN batch[p] ELSE chore[a].final
    BY <1>1, <1>3
  <1>5. \A q \in Requests : q # p => (VerdictOf(q) => VerdictOf(q)') /\ (Watched(q) => Watched(q)')
    <2>1. \A q \in Requests : q # p => \A j \in ItemsOf(q) : item'[j] = item[j]
      BY <1>2, <1>3, <1>4 DEF ItemsOf
    <2>2. QED
      BY <1>2, <1>4, <2>1, BatchAsBefore
  <1>6. ItemsOf(p) \cap restaled = {} /\ VerdictOf(p) => VerdictOf(p)'
    <2> SUFFICES ASSUME ItemsOf(p) \cap restaled = {}, VerdictOf(p) PROVE VerdictOf(p)'
      OBVIOUS
    <2>1. ItemWritten(i)
      <3>1. i \notin restaled
        BY <1>3
      <3>2. QED
        BY <1>2, <3>1 DEF ItemInv
    <2>2. item[i] = "QUEUED" /\ \A b \in Actors : b # a => ~ Writes(b, i)
      BY <1>3, <2>1 DEF ItemWritten
    <2>3. batch[p] \notin Final
      <3>1. "QUEUED" \in {item[j] : j \in ItemsOf(p)}
        BY <1>3, <2>2
      <3>2. SummaryOf({item[j] : j \in ItemsOf(p)}) = "none"
        BY <3>1, SummaryFacts
      <3>3. QED
        BY <3>2 DEF VerdictOf, Final
    <2>4. ASSUME NEW b \in Actors, b # a, Flushed(b, p) PROVE chore[b].final = "none"
      <3>1. chore[b].job # i
        BY <2>2, <2>4 DEF Writes, Flushed
      <3>2. "QUEUED" \in SeenBy(b, p)
        BY <1>3, <2>2, <3>1 DEF SeenBy
      <3>3. SummaryOf(SeenBy(b, p)) = "none"
        BY <3>2, SummaryFacts
      <3>4. QED
        BY <2>4, <3>3 DEF VerdictOf
    <2>5. SeenBy(a, p) = {item'[j] : j \in ItemsOf(p)}
      BY <1>2, <1>3, <1>4 DEF SeenBy, ItemsOf
    <2>6. batch'[p] \in Final => batch'[p] = SummaryOf({item'[j] : j \in ItemsOf(p)})
      BY <1>1, <1>4, <2>3, <2>5 DEF VerdictOf
    <2>7. \A b \in Actors : Flushed(b, p)' => b # a /\ Flushed(b, p) /\ chore'[b] = chore[b]
      BY <1>4 DEF Flushed
    <2>8. QED
      BY <2>4, <2>6, <2>7 DEF VerdictOf
  <1>7. Watched(p) => Watched(p)'
    <2> SUFFICES ASSUME Watched(p) PROVE Watched(p)'
      OBVIOUS
    <2>1. \A b \in Actors : ~ Flushed(b, p)'
      BY <1>1, <1>4 DEF Flushed, Watched
    <2>2. ASSUME batch'[p] = "QUEUED" PROVE \E k \in ItemsOf(p) : item'[k] = "QUEUED"
      <3>1. chore[a].final = "none" /\ batch[p] = "QUEUED"
        BY <1>3, <1>4, <2>2 DEF Final
      <3>2. PICK k \in ItemsOf(p) \ {i} : item[k] = "QUEUED"
        BY <1>1, <1>2, <3>1 DEF Watched
      <3>3. QED
        BY <1>4, <3>2 DEF ItemsOf
    <2>3. QED
      BY <2>1, <2>2 DEF Watched
  <1>8. /\ \A q \in Requests : ItemsOf(q) \cap restaled = {} /\ VerdictOf(q) => VerdictOf(q)'
        /\ \A q \in Requests : Watched(q) => Watched(q)'
    BY <1>5, <1>6, <1>7
  <1>9. QED
    BY <1>1, <1>8 DEF VerdictInv, WatchInv

\* A batch that is created is open exactly when one of its items is.
LEMMA CreateVerdict ==
  ASSUME BatchInv, VerdictInv, WatchInv, NEW q \in Requests, CreateBatch(q)
  PROVE  VerdictInv' /\ WatchInv'
  <1> USE BatchFacts DEF BatchInv
  <1> DEFINE rows == [j \in ItemsOf(q) |-> IF j \in Known(q) THEN "QUEUED" ELSE "FAILED"]
             final == SummaryOf({rows[j] : j \in ItemsOf(q)})
  <1>1. CASE UNCHANGED <<batch, item, restaled>>
    <2>1. UNCHANGED <<chore, overlapped, halted>>
      BY DEF CreateBatch
    <2>2. QED
      BY <1>1, <2>1, BatchesAsBefore
  <1>2. CASE ~ UNCHANGED <<batch, item, restaled>>
    <2>1. /\ SameKey(q) = {}
          /\ batch' = [batch EXCEPT ![q] = IF final = "none" THEN "QUEUED" ELSE final]
          /\ item' = [j \in Jobs |-> IF j \in ItemsOf(q) THEN rows[j] ELSE item[j]]
          /\ UNCHANGED <<chore, restaled, overlapped, halted>>
      <3>1. UNCHANGED vars \/ EnqueueManual(Known(q))
        BY <1>2 DEF CreateBatch, vars, historyVars
      <3>2. UNCHANGED restaled
        BY <3>1 DEF EnqueueManual, vars, historyVars
      <3>3. QED
        BY <1>2, <3>2 DEF CreateBatch, vars, historyVars
    <2>2. \A a \in Actors : ~ (chore[a] # NoChore /\ RequestOf[chore[a].job] = q)
      <3>1. batch[q] = "absent"
        BY <2>1 DEF SameKey
      <3>2. QED
        BY <3>1 DEF TableInv
    <2>3. \A a \in Actors : ~ Flushed(a, q)'
      BY <2>1, <2>2 DEF Flushed
    <2>4. {item'[j] : j \in ItemsOf(q)} = {rows[j] : j \in ItemsOf(q)}
      <3>1. \A j \in ItemsOf(q) : item'[j] = rows[j]
        BY <2>1 DEF ItemsOf
      <3> HIDE DEF rows
      <3>2. QED
        BY <3>1
    <2>5. batch'[q] = IF final = "none" THEN "QUEUED" ELSE final
      BY <2>1
    <2> HIDE DEF rows
    <2>6. VerdictOf(q)'
      <3>1. final = SummaryOf({item'[j] : j \in ItemsOf(q)})
        BY <2>4
      <3> HIDE DEF final
      <3>2. QED
        BY <2>3, <2>5, <3>1 DEF VerdictOf, Final
    <2>7. Watched(q)'
      <3>1. batch'[q] = "QUEUED" => "QUEUED" \in {item'[j] : j \in ItemsOf(q)}
        BY <2>4, <2>5, SummaryFacts DEF Final
      <3>2. QED
        BY <2>3, <3>1 DEF Watched
    <2>8. \A p \in Requests : p # q => (VerdictOf(p) => VerdictOf(p)') /\ (Watched(p) => Watched(p)')
      <3>1. ASSUME NEW p \in Requests, p # q
            PROVE  batch'[p] = batch[p] /\ \A j \in ItemsOf(p) : item'[j] = item[j]
        BY <2>1, <3>1 DEF ItemsOf
      <3>2. QED
        BY <2>1, <3>1, BatchAsBefore
    <2>9. QED
      BY <2>1, <2>6, <2>7, <2>8 DEF VerdictInv, WatchInv
  <1>3. QED
    BY <1>1, <1>2

\* A task that ends without its commit leaves the rows as they are; its batch is halted.
LEMMA HaltVerdict ==
  ASSUME VerdictInv, WatchInv, NEW S \in SUBSET Actors, UNCHANGED <<batch, item, restaled, overlapped>>,
         halted \cup Interrupted(S) \subseteq halted',
         \A a \in Actors : chore'[a] = IF a \in S THEN NoChore ELSE chore[a]
  PROVE  VerdictInv' /\ WatchInv'
  <1>1. \A q \in Requests : \A a \in Actors :
           Flushed(a, q)' => Flushed(a, q) /\ chore'[a] = chore[a] /\ SeenBy(a, q)' = SeenBy(a, q)
    BY DEF Flushed, SeenBy
  <1>2. VerdictInv'
    BY <1>1 DEF VerdictInv, VerdictOf
  <1>3. ASSUME NEW q \in Requests, q \notin halted' PROVE Watched(q) => Watched(q)'
    <2>1. \A a \in S : chore[a] = NoChore \/ RequestOf[chore[a].job] # q
      BY <1>3 DEF Interrupted
    <2>2. QED
      BY <2>1, BatchAsBefore
  <1>4. WatchInv'
    BY <1>3 DEF WatchInv
  <1>5. QED
    BY <1>2, <1>4

\* Every step keeps what is said of the verdicts.
LEMMA VerdictStep ==
  ASSUME BatchInv, VerdictInv, WatchInv, [BatchNext]_batchesVars
  PROVE  VerdictInv' /\ WatchInv'
  <1> USE BatchFacts DEF BatchInv
  <1> DEFINE Goal == VerdictInv' /\ WatchInv'
  <1> DEFINE Quiet == /\ UNCHANGED <<batch, item, chore>> /\ restaled \subseteq restaled'
                      /\ overlapped \cup halted \subseteq overlapped' \cup halted'
  <1>1. Quiet => Goal
    BY BatchesAsBefore
  <1>2. ASSUME NEW a \in Actors, NEW j, NEW new, Settled(a, j, new) PROVE Goal
    <2>1. chore[a] = NoChore /\ \A b \in Actors : b # a => chore'[b] = chore[b]
      BY <1>2 DEF Settled, TableInv
    <2>2. chore'[a] = NoChore \/ chore'[a].step = "item"
      BY <1>2 DEF Settled, ChoreFor
    <2>3. UNCHANGED <<batch, item, restaled, overlapped, halted>>
      BY <1>2 DEF Settled, pastVars
    <2>4. QED
      BY <2>1, <2>2, <2>3, BatchesAsBefore
  <1>3. ASSUME NEW j \in Jobs, BeginManual(j) \/ AcceptManual(j) \/ SwitchLate(j) \/ StrayEnds(j)
        PROVE  Goal
    <2>1. Quiet
      BY <1>3 DEF BeginManual, AcceptManual, SwitchLate, Switch, StrayEnds, EnqueueManual,
                  vars, historyVars, batchVars, pastVars
    <2>2. QED
      BY <1>1, <2>1
  <1>4. ASSUME NEW q \in Requests, CheckKey(q) PROVE Goal
    <2>1. Quiet
      BY <1>4 DEF CheckKey, vars, historyVars, pastVars
    <2>2. QED
      BY <1>1, <2>1
  <1>5. ASSUME NEW q \in Requests, CreateBatch(q) PROVE Goal
    BY <1>5, CreateVerdict
  <1>6. ASSUME NEW w \in Workers, NEW j \in Jobs, Claim(w, j) PROVE Goal
    <2>1. Quiet
      BY <1>6 DEF Claim, ClaimNext, historyVars, batchVars
    <2>2. QED
      BY <1>1, <2>1
  <1>7. ASSUME NEW w \in Workers, SwitchForWorker(w) PROVE Goal
    <2>1. Quiet
      BY <1>7 DEF SwitchForWorker, Switch, vars, historyVars, batchVars, pastVars
    <2>2. QED
      BY <1>1, <2>1
  <1>8. ASSUME NEW w \in Workers, Finish(w) PROVE Goal
    BY <1>2, <1>8, FinishSettles
  <1>9. ASSUME NEW c \in Calls, SwitchOnCall(c) PROVE Goal
    <2>1. Quiet
      BY <1>9 DEF SwitchOnCall, Switch, vars, historyVars, batchVars, pastVars
    <2>2. QED
      BY <1>1, <2>1
  <1>10. ASSUME NEW c \in Calls, NEW m \in Meters, NEW S \in SUBSET DueOf(m), Take(c, m, S) PROVE Goal
    <2>1. Quiet
      BY <1>10 DEF Take, GatewayClaim, historyVars, batchVars
    <2>2. QED
      BY <1>1, <2>1
  <1>11. ASSUME NEW c \in Calls, NEW j \in hand[c], NEW ok \in BOOLEAN, Report(c, j, ok) PROVE Goal
    <2>1. Quiet
      BY <1>11 DEF Report, SendReport, historyVars, batchVars, pastVars
    <2>2. QED
      BY <1>1, <2>1
  <1>12. ASSUME NEW h \in Handlers, NEW msg \in inbox, Receive(h, msg) PROVE Goal
    <2>1. Quiet
      BY <1>12 DEF Receive, ReceiveReport, historyVars, batchVars, pastVars
    <2>2. QED
      BY <1>1, <2>1
  <1>13. ASSUME NEW h \in Handlers, Accept(h) PROVE Goal
    BY <1>2, <1>13, AcceptSettles
  <1>14. ASSUME NEW a \in Actors, FlushItem(a) PROVE Goal
    BY <1>14, FlushVerdict
  <1>15. ASSUME NEW a \in Actors, CommitItem(a) PROVE Goal
    BY <1>15, CommitVerdict
  <1>16. ASSUME NEW a \in Actors, TaskError(a) PROVE Goal
    <2>1. /\ UNCHANGED <<batch, item, restaled, overlapped>>
          /\ halted \cup Interrupted({a}) \subseteq halted'
          /\ \A b \in Actors : chore'[b] = IF b \in {a} THEN NoChore ELSE chore[b]
      BY <1>16 DEF TaskError, DatabaseError
    <2> DEFINE S == {a}
    <2>2. S \in SUBSET Actors /\ halted \cup Interrupted(S) \subseteq halted'
          /\ \A b \in Actors : chore'[b] = IF b \in S THEN NoChore ELSE chore[b]
      BY <2>1
    <2> HIDE DEF S
    <2>3. QED
      BY <2>1, <2>2, HaltVerdict
  <1>17. CASE Housekeeping
    <2>1. Quiet
      BY <1>17 DEF Housekeeping, Age, SelectStale, RequeueStale, GatewayDrop, historyVars, batchVars, pastVars
    <2>2. QED
      BY <1>1, <2>1
  <1>18. CASE BackendRestart
    <2>1. /\ UNCHANGED <<batch, item, restaled, overlapped>>
          /\ halted \cup Interrupted(Actors) \subseteq halted'
          /\ \A b \in Actors : chore'[b] = IF b \in Actors THEN NoChore ELSE chore[b]
      BY <1>18 DEF BackendRestart, Restart
    <2>2. QED
      BY <2>1, HaltVerdict
  <1>19. CASE UNCHANGED batchesVars
    <2>1. Quiet
      BY <1>19 DEF batchesVars, vars, historyVars, batchVars, pastVars
    <2>2. QED
      BY <1>1, <2>1
  <1>20. QED
    BY <1>3, <1>4, <1>5, <1>6, <1>7, <1>8, <1>9, <1>10, <1>11, <1>12, <1>13,
       <1>14, <1>15, <1>16, <1>17, <1>18, <1>19 DEF BatchNext

\* Nothing is decided at the start.
LEMMA InitVerdict == BatchInit => VerdictInv /\ WatchInv
  BY DEF BatchInit, VerdictInv, WatchInv, VerdictOf, Watched, Flushed, Final

\* The rows, the items and the verdicts together.
SumsInv == BatchInv /\ VerdictInv /\ WatchInv

\* It holds in every reachable state.
LEMMA SumsAlways == BatchSpec => []SumsInv
  <1>1. BatchInit => SumsInv
    BY InitBatch, InitVerdict DEF SumsInv
  <1>2. SumsInv /\ [BatchNext]_batchesVars => SumsInv'
    BY BatchStep, VerdictStep DEF SumsInv
  <1>3. QED
    BY <1>1, <1>2, PTL DEF BatchSpec

\* Theorem: the verdict billing is told agrees with the items it is told, unless the
\* reaper returned one of the commands to the queue.
THEOREM VerdictIsRight == BatchSpec => []VerdictAgrees
  <1>1. SumsInv => VerdictAgrees
    BY DEF SumsInv, VerdictInv, VerdictOf, VerdictAgrees
  <1>2. QED
    BY <1>1, SumsAlways, PTL

\* Theorem: a batch with no item left to wait for is closed or about to be, unless two of
\* its items were written at once or a fault cut a task short.
THEOREM BatchesAreClosed == BatchSpec => []NoBatchLost
  <1>1. SumsInv => NoBatchLost
    BY DEF SumsInv, WatchInv, Watched, NoBatchLost
  <1>2. QED
    BY <1>1, SumsAlways, PTL

-----------------------------------------------------------------------------
(* The order in which the relays obey *)

\* Somebody has executed job j, or is executing it.
Begun(j) == status[j] \notin Unclaimed \/ j \in restaled

\* Who is executing commands of meter m: workers, Gateway calls, and calls nobody waits for.
Holders(m) ==
    {<<"worker", w>> : w \in {v \in Workers : \E j \in held[v] : MeterOf[j] = m}} \cup
    {<<"call", c>> : c \in {d \in Calls : \E j \in hand[d] : MeterOf[j] = m}} \cup
    {<<"stray", j>> : j \in {i \in stray : MeterOf[i] = m}}

Exclusive(m) == \A x, y \in Holders(m) : x = y

\* Command k, committed in time, is not older than any command of its meter that began.
InTurn(k) == \A o \in Jobs : MeterOf[o] = MeterOf[k] /\ Begun(o) => stamp[o] <= stamp[k]

\* What is executed, or was obeyed, has begun; meters are held by one; what waits and what
\* is executed comes after what began, and after what its relay obeyed.
OrderInv ==
    /\ \A j \in Executing : Begun(j)
    /\ \A m \in Meters, o \in Jobs : obeyed[m] = o => Begun(o) /\ MeterOf[o] = m
    /\ \A m \in Meters \ crossed : Exclusive(m)
    /\ \A k \in Jobs \ (restaled \cup belated) : status[k] = "QUEUED" => InTurn(k)
    /\ \A n \in Executing \ (restaled \cup belated), o \in Jobs :
          MeterOf[n] \notin crossed /\ obeyed[MeterOf[n]] = o => stamp[o] <= stamp[n]

\* Executing, one executor at a time.
LEMMA ExecutingMeans ==
  ASSUME NEW j
  PROVE  /\ j \in Executing <=> \/ \E w \in Workers : j \in held[w]
                                \/ \E c \in Calls : j \in hand[c]
                                \/ j \in stray
         /\ j \in Executing' <=> \/ \E w \in Workers : j \in held'[w]
                                 \/ \E c \in Calls : j \in hand'[c]
                                 \/ j \in stray'
  BY DEF Executing

\* What is known of the executors.
LEMMA ExecutorFacts ==
  ASSUME BatchInv
  PROVE  /\ Executing \subseteq Jobs /\ Workers \subseteq Actors /\ DOMAIN hand = Calls
         /\ DOMAIN held = Actors
         /\ \A j \in Jobs : MeterOf[j] \in Meters /\ Rank(j) = 0
         /\ \A j \in Jobs : Begun(j) => status[j] # "absent"
         /\ \A w \in Workers : \A j, k \in held[w] : j = k
         /\ \A w \in Workers : pc[w] # "busy" => held[w] = {}
         /\ stamp \in [Jobs -> Nat] /\ status \in [Jobs -> JobStatus]
         /\ obeyed \in [Meters -> Jobs \cup {NoJob}]
  <1> USE BatchFacts DEF BatchInv
  <1>1. Executing \subseteq Jobs
    BY ExecutingMeans
  <1>2. \A j \in Jobs : MeterOf[j] \in Meters /\ Rank(j) = 0
    BY JobsAssumption, CommandsAssumption DEF Rank, COMMANDS, PRIORITY_JOB_TYPES
  <1>3. \A j \in Jobs : Begun(j) => status[j] # "absent"
    BY DEF TableInv, Begun, Unclaimed
  <1>4. \A w \in Workers : \A j, k \in held[w] : j = k
    BY DEF BatchQueueInv, QueueInv, BackInv, BackedInv
  <1>5. \A w \in Workers : pc[w] # "busy" => held[w] = {}
    BY DEF TableInv
  <1>6. QED
    BY <1>1, <1>2, <1>3, <1>4, <1>5

\* Whoever executes a command of meter m holds it.
LEMMA ExecutorHolds ==
  ASSUME NEW j \in Executing
  PROVE  \/ \E w \in Workers : j \in held[w] /\ <<"worker", w>> \in Holders(MeterOf[j])
         \/ \E c \in Calls : j \in hand[c] /\ <<"call", c>> \in Holders(MeterOf[j])
         \/ j \in stray /\ <<"stray", j>> \in Holders(MeterOf[j])
  <1>1. ASSUME NEW w \in Workers, j \in held[w] PROVE <<"worker", w>> \in Holders(MeterOf[j])
    BY <1>1 DEF Holders
  <1>2. ASSUME NEW c \in Calls, j \in hand[c] PROVE <<"call", c>> \in Holders(MeterOf[j])
    BY <1>2 DEF Holders
  <1>3. j \in stray => <<"stray", j>> \in Holders(MeterOf[j])
    BY DEF Holders
  <1>4. QED
    BY <1>1, <1>2, <1>3, ExecutingMeans

\* A call that a worker leaves behind takes the place of the worker.
LEMMA HoldersReleased ==
  ASSUME BatchInv, NEW m, Exclusive(m),
         \A w \in Workers : held'[w] = held[w] \/ held'[w] = {},
         \A c \in Calls : hand'[c] \subseteq hand[c],
         \A j \in stray' : j \in stray \/ \E w \in Workers : j \in held[w] /\ held'[w] = {}
  PROVE  Exclusive(m)'
  <1> DEFINE Left(j, w) == w \in Workers /\ j \in held[w] /\ held'[w] = {}
  <1>1. ASSUME NEW x \in Holders(m)'
        PROVE  \/ x \in Holders(m) /\ \A j, w : Left(j, w) => x # <<"worker", w>>
               \/ \E j, w : Left(j, w) /\ x = <<"stray", j>> /\ <<"worker", w>> \in Holders(m)
    BY DEF Holders
  <1>2. \A j, k, w : Left(j, w) /\ Left(k, w) => j = k
    BY ExecutorFacts
  <1>3. \A v, w : <<"worker", v>> = <<"worker", w>> => v = w
    OBVIOUS
  <1> HIDE DEF Left
  <1>4. ASSUME NEW x \in Holders(m)', NEW y \in Holders(m)' PROVE x = y
    <2>1. CASE x \in Holders(m) /\ y \in Holders(m)
      BY <2>1 DEF Exclusive
    <2>2. ASSUME NEW j, NEW v, Left(j, v), x = <<"stray", j>>, <<"worker", v>> \in Holders(m) PROVE x = y
      <3>1. CASE y \in Holders(m) /\ \A k, w : Left(k, w) => y # <<"worker", w>>
        BY <2>2, <3>1 DEF Exclusive
      <3>2. ASSUME NEW k, NEW w, Left(k, w), y = <<"stray", k>>, <<"worker", w>> \in Holders(m) PROVE x = y
        BY <1>2, <1>3, <2>2, <3>2 DEF Exclusive
      <3>3. QED
        BY <1>1, <3>1, <3>2
    <2>3. ASSUME NEW j, NEW v, Left(j, v), y = <<"stray", j>>, <<"worker", v>> \in Holders(m),
                 x \in Holders(m), \A k, w : Left(k, w) => x # <<"worker", w>>
          PROVE x = y
      BY <2>3 DEF Exclusive
    <2>4. QED
      BY <1>1, <2>1, <2>2, <2>3
  <1>5. QED
    BY <1>4 DEF Exclusive

\* Nobody begins a command and no relay switches; the created_at of no row changes; a row
\* that starts to wait was returned by the reaper, came late, or is in its turn.
LEMMA OrderQuiet ==
  ASSUME BatchInv, OrderInv, obeyed' = obeyed,
         crossed \subseteq crossed', restaled \subseteq restaled', belated \subseteq belated',
         \A w \in Workers : held'[w] = held[w] \/ held'[w] = {},
         \A c \in Calls : hand'[c] \subseteq hand[c],
         \A j \in stray' : j \in stray \/ \E w \in Workers : j \in held[w] /\ held'[w] = {},
         \A j \in Jobs : Begun(j)' = Begun(j),
         \A j \in Jobs : status[j] # "absent" => stamp'[j] = stamp[j],
         \A j \in Jobs : status'[j] = "QUEUED" =>
            status[j] = "QUEUED" \/ j \in restaled' \cup belated' \/ InTurn(j)'
  PROVE  OrderInv'
  <1> USE ExecutorFacts
  <1>1. Executing' \subseteq Executing
    BY ExecutingMeans
  <1>2. \A j \in Jobs : Begun(j) => stamp'[j] = stamp[j]
    OBVIOUS
  <1>3. \A j \in Executing' : Begun(j)'
    BY <1>1 DEF OrderInv
  <1>4. \A m \in Meters, o \in Jobs : obeyed'[m] = o => Begun(o)' /\ MeterOf[o] = m
    BY DEF OrderInv
  <1>5. \A m \in Meters \ crossed' : Exclusive(m)'
    BY HoldersReleased DEF OrderInv
  <1>6. ASSUME NEW k \in Jobs \ (restaled' \cup belated'), status'[k] = "QUEUED" PROVE InTurn(k)'
    <2>1. CASE InTurn(k)'
      BY <2>1
    <2>2. CASE status[k] = "QUEUED"
      <3>1. InTurn(k) /\ stamp'[k] = stamp[k]
        BY <1>6, <2>2 DEF OrderInv
      <3>2. QED
        BY <1>2, <3>1 DEF InTurn
    <2>3. QED
      BY <1>6, <2>1, <2>2
  <1>7. ASSUME NEW n \in Executing' \ (restaled' \cup belated'), NEW o \in Jobs,
               MeterOf[n] \notin crossed', obeyed'[MeterOf[n]] = o
        PROVE  stamp'[o] <= stamp'[n]
    <2>1. n \in Executing \ (restaled \cup belated) /\ n \in Jobs /\ Begun(n)
      BY <1>1, <1>7 DEF OrderInv
    <2>2. Begun(o)
      BY <1>7, <2>1 DEF OrderInv
    <2>3. stamp[o] <= stamp[n]
      BY <1>7, <2>1 DEF OrderInv
    <2>4. QED
      BY <1>2, <2>1, <2>2, <2>3
  <1>8. QED
    BY <1>3, <1>4, <1>5, <1>6, <1>7 DEF OrderInv

\* A claim of S for the meters of S: the oldest that wait, by one new holder.
LEMMA OrderClaimed ==
  ASSUME BatchInv, OrderInv, NEW S \in SUBSET Jobs, NEW x,
         UNCHANGED <<obeyed, restaled, belated, stamp>>,
         crossed' = crossed \cup Crossing(S),
         \A j \in S : status[j] = "QUEUED" /\ status'[j] = "RUNNING",
         \A j \in Jobs \ S : status'[j] = status[j],
         Executing' \subseteq Executing \cup S,
         \A m \in Meters : Holders(m)' \subseteq Holders(m) \cup
            (IF m \in {MeterOf[j] : j \in S} THEN {x} ELSE {}),
         \A j \in S, k \in Jobs \ S :
            status[k] = "QUEUED" /\ MeterOf[k] = MeterOf[j] => stamp[j] <= stamp[k]
  PROVE  OrderInv'
  <1> USE ExecutorFacts
  <1>1. \A j \in Jobs : /\ j \in S => Begun(j)'
                        /\ j \notin S => Begun(j)' = Begun(j)
    BY DEF Begun, Unclaimed
  <1>2. \A j \in Executing' : Begun(j)'
    BY <1>1 DEF OrderInv
  <1>3. \A m \in Meters, o \in Jobs : obeyed'[m] = o => Begun(o)' /\ MeterOf[o] = m
    BY <1>1 DEF OrderInv
  <1>4. ASSUME NEW m \in Meters \ crossed' PROVE Exclusive(m)'
    <2>1. CASE m \in {MeterOf[j] : j \in S}
      <3>1. \A k \in Executing : MeterOf[k] # m
        BY <1>4, <2>1 DEF Crossing
      <3>2. Holders(m) = {}
        BY <3>1, ExecutingMeans DEF Holders
      <3>3. QED
        BY <3>2 DEF Exclusive
    <2>2. CASE m \notin {MeterOf[j] : j \in S}
      BY <2>2 DEF Exclusive, OrderInv
    <2>3. QED
      BY <2>1, <2>2
  <1>5. ASSUME NEW k \in Jobs \ (restaled \cup belated), status'[k] = "QUEUED" PROVE InTurn(k)'
    <2>1. k \notin S /\ status[k] = "QUEUED" /\ InTurn(k)
      BY <1>5 DEF OrderInv
    <2>2. QED
      BY <1>1, <2>1 DEF InTurn
  <1>6. ASSUME NEW n \in Executing' \ (restaled \cup belated), NEW o \in Jobs,
               MeterOf[n] \notin crossed', obeyed[MeterOf[n]] = o
        PROVE  stamp[o] <= stamp[n]
    <2>1. CASE n \in S
      <3>1. InTurn(n) /\ n \in Jobs
        BY <1>6, <2>1 DEF OrderInv
      <3>2. Begun(o) /\ MeterOf[o] = MeterOf[n]
        BY <1>6, <3>1 DEF OrderInv
      <3>3. QED
        BY <3>1, <3>2 DEF InTurn
    <2>2. CASE n \in Executing
      BY <1>6, <2>2 DEF OrderInv
    <2>3. QED
      BY <1>6, <2>1, <2>2
  <1>7. QED
    BY <1>2, <1>3, <1>4, <1>5, <1>6 DEF OrderInv

\* The relay obeys j, the oldest that the holder of its meter has.
LEMMA OrderSwitched ==
  ASSUME BatchInv, OrderInv, NEW j \in Executing, Switch(j), stray' = stray,
         \A n \in Executing : MeterOf[n] = MeterOf[j] /\ MeterOf[j] \notin crossed => stamp[j] <= stamp[n]
  PROVE  OrderInv'
  <1> USE ExecutorFacts
  <1>1. /\ obeyed' = [obeyed EXCEPT ![MeterOf[j]] = j]
        /\ UNCHANGED <<status, held, hand, stray, stamp, restaled, belated, crossed>>
    BY DEF Switch, vars, jobVars, taskVars, gatewayVars, historyVars, pastVars
  <1>2. Executing' = Executing
    BY <1>1 DEF Executing
  <1>3. \A i : Begun(i)' = Begun(i)
    BY <1>1 DEF Begun
  <1>4. \A m : Exclusive(m)' = Exclusive(m)
    BY <1>1 DEF Exclusive, Holders
  <1>5. \A k : InTurn(k)' = InTurn(k)
    BY <1>1, <1>3 DEF InTurn
  <1>6. \A m \in Meters, o \in Jobs : obeyed'[m] = o => Begun(o)' /\ MeterOf[o] = m
    BY <1>1, <1>3 DEF OrderInv
  <1>7. ASSUME NEW n \in Executing \ (restaled \cup belated), NEW o \in Jobs,
               MeterOf[n] \notin crossed, obeyed'[MeterOf[n]] = o
        PROVE  stamp[o] <= stamp[n]
    <2>1. CASE MeterOf[n] = MeterOf[j]
      BY <1>1, <1>7, <2>1
    <2>2. CASE MeterOf[n] # MeterOf[j]
      <3>1. obeyed'[MeterOf[n]] = obeyed[MeterOf[n]]
        BY <1>1, <2>2
      <3>2. QED
        BY <1>7, <3>1 DEF OrderInv
    <2>3. QED
      BY <2>1, <2>2
  <1>8. QED
    BY <1>1, <1>2, <1>3, <1>4, <1>5, <1>6, <1>7 DEF OrderInv

\* A command that is committed begins nothing, and is in its turn or belated.
LEMMA CommittedInTurn ==
  ASSUME BatchInv, NEW S \in SUBSET Jobs, EnqueueManual(S), Committed(S), stamp' = stamp
  PROVE  /\ \A j \in Jobs : Begun(j)' = Begun(j)
         /\ \A j \in Jobs : status'[j] = "QUEUED" =>
               status[j] = "QUEUED" \/ j \in belated' \/ InTurn(j)'
  <1> USE ExecutorFacts
  <1>1. /\ \A j \in S : status[j] = "absent"
        /\ status' = [j \in Jobs |-> IF j \in S THEN "QUEUED" ELSE status[j]]
        /\ restaled' = restaled
    BY DEF EnqueueManual, historyVars
  <1>2. \A j \in Jobs : Begun(j)' = Begun(j)
    BY <1>1 DEF Begun, Unclaimed
  <1>3. ASSUME NEW j \in S, j \notin belated' PROVE InTurn(j)'
    <2>1. \A k \in Jobs : Begun(k) /\ MeterOf[k] = MeterOf[j] => ~ (stamp[k] > stamp[j])
      BY <1>3 DEF Committed
    <2>2. \A k \in Jobs : ~ (stamp[k] > stamp[j]) => stamp[k] <= stamp[j]
      OBVIOUS
    <2>3. QED
      BY <1>2, <2>1, <2>2 DEF InTurn
  <1>4. QED
    BY <1>1, <1>2, <1>3

\* Whoever holds a meter alone holds all of its commands that are executed.
LEMMA SameHolder ==
  ASSUME NEW j, NEW n \in Executing, MeterOf[n] = MeterOf[j], Exclusive(MeterOf[j])
  PROVE  /\ \A w \in Workers : j \in held[w] => n \in held[w]
         /\ \A c \in Calls : j \in hand[c] => n \in hand[c]
         /\ j \in stray => n = j
  <1>1. /\ \A w \in Workers : j \in held[w] => <<"worker", w>> \in Holders(MeterOf[j])
        /\ \A c \in Calls : j \in hand[c] => <<"call", c>> \in Holders(MeterOf[j])
        /\ j \in stray => <<"stray", j>> \in Holders(MeterOf[j])
    BY DEF Holders
  <1>2. \A x \in Holders(MeterOf[j]), y \in Holders(MeterOf[j]) : x = y
    BY DEF Exclusive
  <1>3. CASE \E w \in Workers : n \in held[w] /\ <<"worker", w>> \in Holders(MeterOf[j])
    BY <1>1, <1>2, <1>3
  <1>4. CASE \E c \in Calls : n \in hand[c] /\ <<"call", c>> \in Holders(MeterOf[j])
    BY <1>1, <1>2, <1>4
  <1>5. CASE n \in stray /\ <<"stray", n>> \in Holders(MeterOf[j])
    BY <1>1, <1>2, <1>5
  <1>6. QED
    BY <1>3, <1>4, <1>5, ExecutorHolds

\* A claim takes the oldest command that waits for the meter.
LEMMA ClaimsOldest ==
  ASSUME BatchInv
  PROVE  /\ \A w \in Workers, j, k \in Jobs :
               Claim(w, j) /\ k # j /\ status[k] = "QUEUED" /\ MeterOf[k] = MeterOf[j] => stamp[j] <= stamp[k]
         /\ \A c \in Calls, m \in Meters : \A S \in SUBSET DueOf(m) : Take(c, m, S) =>
               /\ \A j \in S : j \in Jobs /\ status[j] = "QUEUED" /\ MeterOf[j] = m
               /\ \A j \in S, k \in Jobs \ S :
                     status[k] = "QUEUED" /\ MeterOf[k] = m => stamp[j] <= stamp[k]
  <1> USE ExecutorFacts
  <1>1. ASSUME NEW w \in Workers, NEW j \in Jobs, NEW k \in Jobs, Claim(w, j), k # j,
               status[k] = "QUEUED", MeterOf[k] = MeterOf[j]
        PROVE  stamp[j] <= stamp[k]
    <2>1. TypeOf[j] \in CALL_HOME_INCOMPATIBLE
      BY CommandsAssumption DEF COMMANDS, CALL_HOME_INCOMPATIBLE
    <2>2. ForWorker(k)
      BY <1>1, <2>1 DEF Claim, ClaimNext, ForWorker
    <2>3. QED
      BY <1>1, <2>2 DEF Claim, OldestFirst
  <1>2. ASSUME NEW c \in Calls, NEW m \in Meters, NEW S \in SUBSET DueOf(m), Take(c, m, S)
        PROVE  /\ \A j \in S : j \in Jobs /\ status[j] = "QUEUED" /\ MeterOf[j] = m
               /\ \A j \in S, k \in Jobs \ S :
                     status[k] = "QUEUED" /\ MeterOf[k] = m => stamp[j] <= stamp[k]
    <2>1. \A k \in Jobs : TypeOf[k] \in EventTypes
      BY CommandsAssumption DEF COMMANDS, EventTypes, PRIORITY_JOB_TYPES
    <2>2. \A k : k \in DueOf(m) <=> k \in Jobs /\ status[k] = "QUEUED" /\ MeterOf[k] = m
      BY <2>1 DEF DueOf, Queued
    <2>3. QED
      BY <1>2, <2>2 DEF Take, OldestFirst
  <1>3. QED
    BY <1>1, <1>2

\* Every step keeps the order.
LEMMA OrderStep == BatchInv /\ OrderInv /\ [BatchNext]_batchesVars => OrderInv'
  <1> SUFFICES ASSUME BatchInv, OrderInv, [BatchNext]_batchesVars PROVE OrderInv'
    OBVIOUS
  <1> USE BatchFacts, ExecutorFacts
  <1> DEFINE Quiet ==
        /\ obeyed' = obeyed
        /\ crossed \subseteq crossed' /\ restaled \subseteq restaled' /\ belated \subseteq belated'
        /\ \A w \in Workers : held'[w] = held[w] \/ held'[w] = {}
        /\ \A c \in Calls : hand'[c] \subseteq hand[c]
        /\ \A j \in stray' : j \in stray \/ \E w \in Workers : j \in held[w] /\ held'[w] = {}
        /\ \A j \in Jobs : Begun(j)' = Begun(j)
        /\ \A j \in Jobs : status[j] # "absent" => stamp'[j] = stamp[j]
        /\ \A j \in Jobs : status'[j] = "QUEUED" =>
              status[j] = "QUEUED" \/ j \in restaled' \cup belated' \/ InTurn(j)'
  <1>q. Quiet => OrderInv'
    BY OrderQuiet
  <1>b. UNCHANGED <<status, restaled>> => \A j \in Jobs : Begun(j)' = Begun(j)
    BY DEF Begun
  <1> USE DEF BatchInv
  <1>s. ASSUME NEW a \in Workers \cup Handlers, NEW j, NEW new, Settled(a, j, new),
               stray' = stray \/ (stray' = stray \cup {j} /\ a \in Workers)
        PROVE  OrderInv'
    <2>1. Begun(j)
      <3>1. a \in Workers => j \in Executing
        BY <1>s, ExecutingMeans DEF Settled
      <3>2. <<"task", a>> \in Executions(j)
        BY <1>s DEF Settled, Executions
      <3>3. j \notin restaled => status[j] \notin Unclaimed
        BY <1>s, <3>2 DEF Settled
      <3>4. QED
        BY <3>3 DEF Begun
    <2>2. \A i \in Jobs : Begun(i)' = Begun(i)
      BY <1>s, <2>1 DEF Settled, Begun, Unclaimed, Terminal
    <2>3. \A i \in Jobs : status'[i] = "QUEUED" => status[i] = "QUEUED"
      BY <1>s DEF Settled, Terminal
    <2>4. \A i \in stray' : i \in stray \/ \E w \in Workers : i \in held[w] /\ held'[w] = {}
      BY <1>s DEF Settled
    <2>5. Quiet
      BY <1>s, <2>2, <2>3, <2>4 DEF Settled, pastVars
    <2>6. QED
      BY <1>q, <2>5
  <1>1. ASSUME NEW j \in Jobs, BeginManual(j) PROVE OrderInv'
    <2>1. status[j] = "absent" /\ \A k \in Jobs : k # j => stamp'[k] = stamp[k]
      BY <1>1 DEF BeginManual, TableInv, Stamped
    <2>2. Quiet
      BY <1>1, <1>b, <2>1
         DEF BeginManual, vars, jobVars, taskVars, gatewayVars, historyVars, pastVars
    <2>3. QED
      BY <1>q, <2>2
  <1>2. ASSUME NEW j \in Jobs, AcceptManual(j) PROVE OrderInv'
    <2> DEFINE S == {j}
    <2>1. S \in SUBSET Jobs /\ EnqueueManual(S) /\ Committed(S) /\ stamp' = stamp
      BY <1>2 DEF AcceptManual, relayVars
    <2>2. UNCHANGED <<obeyed, crossed, restaled, held, hand, stray>> /\ belated \subseteq belated'
      BY <1>2 DEF AcceptManual, EnqueueManual, Committed, taskVars, gatewayVars, historyVars, relayVars
    <2> HIDE DEF S
    <2>3. /\ \A k \in Jobs : Begun(k)' = Begun(k)
          /\ \A k \in Jobs : status'[k] = "QUEUED" =>
                status[k] = "QUEUED" \/ k \in belated' \/ InTurn(k)'
      BY <2>1, CommittedInTurn
    <2>4. Quiet
      BY <2>1, <2>2, <2>3
    <2>5. QED
      BY <1>q, <2>4
  <1>3. ASSUME NEW j \in Jobs, SwitchLate(j) PROVE OrderInv'
    <2>1. j \in Executing /\ Switch(j) /\ stray' = stray /\ j \in stray
      BY <1>3, ExecutingMeans DEF SwitchLate
    <2>2. ASSUME NEW n \in Executing, MeterOf[n] = MeterOf[j], MeterOf[j] \notin crossed
          PROVE  stamp[j] <= stamp[n]
      <3>1. Exclusive(MeterOf[j])
        BY <2>2 DEF OrderInv
      <3>2. n = j
        BY <2>1, <2>2, <3>1, SameHolder
      <3>3. QED
        BY <3>2
    <2>3. QED
      BY <2>1, <2>2, OrderSwitched
  <1>4. ASSUME NEW j \in Jobs, StrayEnds(j) PROVE OrderInv'
    <2>1. Quiet
      BY <1>4, <1>b
         DEF StrayEnds, vars, jobVars, taskVars, gatewayVars, historyVars, pastVars
    <2>2. QED
      BY <1>q, <2>1
  <1>5. ASSUME NEW q \in Requests, CheckKey(q) PROVE OrderInv'
    <2>1. \A k \in Jobs : status[k] # "absent" => stamp'[k] = stamp[k]
      <3>1. \A k \in Known(q) : k \in Items /\ RequestOf[k] = q
        BY RequestsAssumption DEF Known, ItemsOf, Items
      <3>2. \A k \in Known(q) : status[k] = "absent"
        BY <1>5, <3>1 DEF CheckKey, TableInv
      <3>3. QED
        BY <1>5, <3>2 DEF CheckKey, Stamped
    <2>2. Quiet
      BY <1>5, <1>b, <2>1
         DEF CheckKey, vars, jobVars, taskVars, gatewayVars, historyVars, pastVars
    <2>3. QED
      BY <1>q, <2>2
  <1>6. ASSUME NEW q \in Requests, CreateBatch(q) PROVE OrderInv'
    <2>1. /\ UNCHANGED <<chore, relayVars, overlapped, crossed, halted>>
          /\ \/ UNCHANGED <<vars, belated>>
             \/ EnqueueManual(Known(q)) /\ Committed(Known(q))
      <3>1. Committed({}) => belated' = belated
        BY DEF Committed
      <3>2. QED
        BY <1>6, <3>1 DEF CreateBatch
    <2>2. Known(q) \in SUBSET Jobs
      BY DEF Known, ItemsOf
    <2>3. CASE UNCHANGED <<vars, belated>>
      <3>1. Quiet
        BY <1>b, <2>1, <2>3 DEF vars, jobVars, taskVars, gatewayVars, historyVars, relayVars
      <3>2. QED
        BY <1>q, <3>1
    <2>4. CASE EnqueueManual(Known(q)) /\ Committed(Known(q))
      <3>1. /\ \A k \in Jobs : Begun(k)' = Begun(k)
            /\ \A k \in Jobs : status'[k] = "QUEUED" =>
                  status[k] = "QUEUED" \/ k \in belated' \/ InTurn(k)'
        BY <2>1, <2>2, <2>4, CommittedInTurn DEF relayVars
      <3>2. UNCHANGED <<obeyed, crossed, restaled, held, hand, stray, stamp>> /\ belated \subseteq belated'
        BY <2>1, <2>4 DEF EnqueueManual, Committed, taskVars, gatewayVars, historyVars, relayVars
      <3>3. Quiet
        BY <3>1, <3>2
      <3>4. QED
        BY <1>q, <3>3
    <2>5. QED
      BY <2>1, <2>3, <2>4
  <1>7. ASSUME NEW w \in Workers, NEW j \in Jobs, Claim(w, j) PROVE OrderInv'
    <2> DEFINE S == {j}
               x == <<"worker", w>>
    <2>1. /\ UNCHANGED <<obeyed, restaled, belated, stamp, hand, stray>>
          /\ crossed' = crossed \cup Crossing(S) /\ status[j] = "QUEUED"
          /\ status' = [status EXCEPT ![j] = "RUNNING"] /\ held' = [held EXCEPT ![w] = {j}]
      BY <1>7 DEF Claim, ClaimNext, ForWorker, gatewayVars, historyVars
    <2>2. \A k \in Jobs \ S : status[k] = "QUEUED" /\ MeterOf[k] = MeterOf[j] => stamp[j] <= stamp[k]
      BY <1>7, ClaimsOldest
    <2>3. S \in SUBSET Jobs /\ (\A i : i \in S <=> i = j) /\ held'[w] = {j}
          /\ \A v \in Workers : v # w => held'[v] = held[v]
      BY <2>1
    <2>4. \A m \in Meters : Holders(m)' \subseteq Holders(m) \cup
              (IF m \in {MeterOf[i] : i \in S} THEN {x} ELSE {})
      BY <2>1, <2>3 DEF Holders
    <2> HIDE DEF S, x
    <2>5. Executing' \subseteq Executing \cup S
      BY <2>1, <2>3, ExecutingMeans
    <2>6. \A i \in S : status[i] = "QUEUED" /\ status'[i] = "RUNNING"
      BY <2>1, <2>3
    <2>7. \A i \in Jobs \ S : status'[i] = status[i]
      BY <2>1, <2>3
    <2>8. \A i \in S, k \in Jobs \ S :
              status[k] = "QUEUED" /\ MeterOf[k] = MeterOf[i] => stamp[i] <= stamp[k]
      BY <2>2, <2>3
    <2>9. /\ UNCHANGED <<obeyed, restaled, belated, stamp>>
          /\ crossed' = crossed \cup Crossing(S) /\ S \in SUBSET Jobs
      BY <2>1, <2>3
    <2>10. QED
      BY <2>4, <2>5, <2>6, <2>7, <2>8, <2>9, OrderClaimed
  <1>8. ASSUME NEW w \in Workers, SwitchForWorker(w) PROVE OrderInv'
    <2>1. PICK j \in held[w] : Switch(j)
      BY <1>8 DEF SwitchForWorker
    <2>2. j \in Executing /\ stray' = stray
      BY <1>8, ExecutingMeans DEF SwitchForWorker
    <2>3. ASSUME NEW n \in Executing, MeterOf[n] = MeterOf[j], MeterOf[j] \notin crossed
          PROVE  stamp[j] <= stamp[n]
      <3>1. Exclusive(MeterOf[j])
        BY <2>2, <2>3 DEF OrderInv
      <3>2. n \in held[w]
        BY <2>3, <3>1, SameHolder
      <3>3. n = j
        BY <3>2
      <3>4. QED
        BY <2>2, <3>3
    <2>4. QED
      BY <2>1, <2>2, <2>3, OrderSwitched
  <1>9. ASSUME NEW w \in Workers, Finish(w) PROVE OrderInv'
    BY <1>9, <1>s, FinishSettles
  <1>10. ASSUME NEW c \in Calls, SwitchOnCall(c) PROVE OrderInv'
    <2>1. PICK j \in hand[c] : OldestFirst({j}, hand[c] \ {j}) /\ Switch(j)
      BY <1>10 DEF SwitchOnCall
    <2>2. j \in Executing /\ stray' = stray
      BY <1>10, ExecutingMeans DEF SwitchOnCall
    <2>3. ASSUME NEW n \in Executing, MeterOf[n] = MeterOf[j], MeterOf[j] \notin crossed
          PROVE  stamp[j] <= stamp[n]
      <3>1. Exclusive(MeterOf[j])
        BY <2>2, <2>3 DEF OrderInv
      <3>2. n \in hand[c]
        BY <2>3, <3>1, SameHolder
      <3>3. n # j => stamp[j] <= stamp[n]
        BY <2>1, <2>2, <3>2 DEF OldestFirst
      <3>4. QED
        BY <2>2, <3>3
    <2>4. QED
      BY <2>1, <2>2, <2>3, OrderSwitched
  <1>11. ASSUME NEW c \in Calls, NEW m \in Meters, NEW S \in SUBSET DueOf(m), Take(c, m, S)
         PROVE  OrderInv'
    <2> DEFINE x == <<"call", c>>
    <2>1. /\ UNCHANGED <<obeyed, restaled, belated, stamp, held, stray>>
          /\ crossed' = crossed \cup Crossing(S) /\ hand' = [hand EXCEPT ![c] = S]
          /\ status' = [j \in Jobs |-> IF j \in S THEN "RUNNING" ELSE status[j]]
      BY <1>11 DEF Take, GatewayClaim, taskVars, historyVars
    <2>2. /\ \A j \in S : j \in Jobs /\ status[j] = "QUEUED" /\ MeterOf[j] = m
          /\ \A j \in S, k \in Jobs \ S :
                status[k] = "QUEUED" /\ MeterOf[k] = MeterOf[j] => stamp[j] <= stamp[k]
      BY <1>11, ClaimsOldest
    <2>3. hand'[c] = S /\ \A d \in Calls : d # c => hand'[d] = hand[d]
      BY <2>1
    <2>4. \A l \in Meters : Holders(l)' \subseteq Holders(l) \cup
              (IF l \in {MeterOf[i] : i \in S} THEN {x} ELSE {})
      BY <2>1, <2>3 DEF Holders
    <2> HIDE DEF x
    <2>5. Executing' \subseteq Executing \cup S
      BY <2>1, <2>3, ExecutingMeans
    <2>6. /\ \A i \in S : status[i] = "QUEUED" /\ status'[i] = "RUNNING"
          /\ \A i \in Jobs \ S : status'[i] = status[i]
      BY <2>1, <2>2
    <2>7. S \in SUBSET Jobs
      BY <2>2
    <2>8. /\ UNCHANGED <<obeyed, restaled, belated, stamp>>
          /\ crossed' = crossed \cup Crossing(S)
      BY <2>1
    <2>9. \A j \in S, k \in Jobs \ S :
              status[k] = "QUEUED" /\ MeterOf[k] = MeterOf[j] => stamp[j] <= stamp[k]
      BY <2>2
    <2>10. QED
      BY <2>4, <2>5, <2>6, <2>7, <2>8, <2>9, OrderClaimed
  <1>12. ASSUME NEW c \in Calls, NEW j \in hand[c], NEW ok \in BOOLEAN, Report(c, j, ok) PROVE OrderInv'
    <2>1. Quiet
      BY <1>12, <1>b DEF Report, SendReport, jobVars, taskVars, historyVars, relayVars, pastVars
    <2>2. QED
      BY <1>q, <2>1
  <1>13. ASSUME NEW h \in Handlers, NEW msg \in inbox, Receive(h, msg) PROVE OrderInv'
    <2>1. \A w \in Workers : held'[w] = held[w]
      BY <1>13 DEF Receive, ReceiveReport
    <2>2. Quiet
      BY <1>13, <1>b, <2>1 DEF Receive, ReceiveReport, jobVars, historyVars, relayVars, pastVars
    <2>3. QED
      BY <1>q, <2>2
  <1>14. ASSUME NEW h \in Handlers, Accept(h) PROVE OrderInv'
    BY <1>14, <1>s, AcceptSettles
  <1>15. ASSUME NEW a \in Actors, FlushItem(a) \/ CommitItem(a) PROVE OrderInv'
    <2>1. Quiet
      BY <1>15, <1>b DEF FlushItem, CommitItem, vars, jobVars, taskVars, gatewayVars, historyVars,
                         relayVars, pastVars
    <2>2. QED
      BY <1>q, <2>1
  <1>16. ASSUME NEW a \in Actors, TaskError(a) PROVE OrderInv'
    <2>1. /\ UNCHANGED <<status, restaled, obeyed, crossed, belated, stamp, hand>>
          /\ held' = [held EXCEPT ![a] = {}] /\ stray' = stray \cup Abandoned({a})
      BY <1>16 DEF TaskError, DatabaseError, jobVars, gatewayVars
    <2>2. \A j \in Abandoned({a}) : \E w \in Workers : j \in held[w] /\ held'[w] = {}
      BY <2>1 DEF Abandoned
    <2>3. Quiet
      BY <1>b, <2>1, <2>2
    <2>4. QED
      BY <1>q, <2>3
  <1>17. CASE Housekeeping
    <2>1. /\ UNCHANGED <<obeyed, crossed, belated, stamp, held, stray>> /\ restaled \subseteq restaled'
          /\ \A c \in Calls : hand'[c] \subseteq hand[c]
      BY <1>17 DEF Housekeeping, Age, SelectStale, RequeueStale, GatewayDrop,
                   taskVars, gatewayVars, historyVars, relayVars, pastVars
    <2>2. UNCHANGED <<status, restaled>> \/ RequeueStale
      BY <1>17 DEF Housekeeping, Age, SelectStale, GatewayDrop, jobVars, historyVars
    <2>3. CASE UNCHANGED <<status, restaled>>
      <3>1. Quiet
        BY <1>b, <2>1, <2>3
      <3>2. QED
        BY <1>q, <3>1
    <2>4. CASE RequeueStale
      <3>1. /\ restaled' = restaled \cup staleSel
            /\ status' = [j \in Jobs |-> IF j \in staleSel THEN "QUEUED" ELSE status[j]]
        BY <2>4 DEF RequeueStale
      <3>2. \A j \in staleSel : status[j] \notin Unclaimed
        BY DEF BatchQueueInv, QueueInv, ClaimInv, RowsInv, WorkerInv, Unclaimed
      <3>3. \A j \in Jobs : Begun(j)' = Begun(j)
        BY <3>1, <3>2 DEF Begun
      <3>4. Quiet
        BY <2>1, <3>1, <3>3
      <3>5. QED
        BY <1>q, <3>4
    <2>5. QED
      BY <2>2, <2>3, <2>4
  <1>18. CASE BackendRestart
    <2>1. /\ UNCHANGED <<restaled, obeyed, crossed, belated, hand>>
          /\ held' = [a \in Actors |-> {}] /\ stray' = stray \cup Abandoned(Actors)
          /\ status' = [j \in Jobs |-> IF j \in Running THEN "FAILED" ELSE status[j]]
          /\ \A j \in Jobs : status[j] # "absent" => stamp'[j] = stamp[j]
      BY <1>18 DEF BackendRestart, Restart
    <2>2. \A j \in Abandoned(Actors) : \E w \in Workers : j \in held[w] /\ held'[w] = {}
      BY <2>1 DEF Abandoned
    <2>3. \A j \in Jobs : Begun(j)' = Begun(j)
      BY <2>1 DEF Begun, Unclaimed, Running
    <2>4. Quiet
      BY <2>1, <2>2, <2>3
    <2>5. QED
      BY <1>q, <2>4
  <1>19. CASE UNCHANGED batchesVars
    <2>1. Quiet
      BY <1>19, <1>b
         DEF batchesVars, vars, jobVars, taskVars, gatewayVars, historyVars, relayVars, pastVars
    <2>2. QED
      BY <1>q, <2>1
  <1>20. QED
    BY <1>1, <1>2, <1>3, <1>4, <1>5, <1>6, <1>7, <1>8, <1>9, <1>10, <1>11, <1>12, <1>13,
       <1>14, <1>15, <1>16, <1>17, <1>18, <1>19 DEF BatchNext

\* Nothing has begun at the start.
LEMMA InitOrder == BatchInit => OrderInv
  <1> SUFFICES ASSUME BatchInit PROVE OrderInv
    OBVIOUS
  <1>1. /\ \A a \in Actors : held[a] = {} /\ \A c \in Calls : hand[c] = {}
        /\ stray = {} /\ \A m \in Meters : obeyed[m] = NoJob
    BY DEF BatchInit, Init
  <1>2. Executing = {} /\ \A m : Holders(m) = {}
    BY <1>1, ExecutingMeans DEF Holders, Actors
  <1>3. \A o \in Jobs : o # NoJob /\ ~ Begun(o)
    BY RequestsAssumption DEF BatchInit, Init, Begun, Unclaimed
  <1>4. QED
    BY <1>1, <1>2, <1>3 DEF OrderInv, Exclusive, InTurn

\* Theorem: a relay obeys the commands of its meter in the order of created_at, which the
\* claims go by, unless two were in execution at once, the reaper sent an old one out
\* again, or an old one was committed after a newer one.
THEOREM RelaysObeyInOrder == BatchSpec => ObeysInOrder
  <1>1. ASSUME BatchInv, OrderInv, [BatchNext]_batchesVars, NEW m \in Meters,
               obeyed'[m] # obeyed[m], obeyed[m] # NoJob
        PROVE  \/ stamp[obeyed[m]] <= stamp[obeyed'[m]]
               \/ m \in crossed
               \/ obeyed'[m] \in restaled \cup belated
    <2> USE ExecutorFacts
    <2>1. \A h \in Handlers : ~ Accept(h) \/ obeyed' = obeyed
      BY DEF Accept, relayVars
    <2>2. PICK j \in Executing : Switch(j)
      <3>1. \/ \E j \in Jobs : SwitchLate(j)
            \/ \E w \in Workers : SwitchForWorker(w)
            \/ \E c \in Calls : SwitchOnCall(c)
        BY <1>1, <2>1
           DEF BatchNext, BeginManual, AcceptManual, StrayEnds, CheckKey, CreateBatch, Finish,
               Claim, Take, Report, Receive, FlushItem, CommitItem, TaskError, Housekeeping,
               BackendRestart, relayVars, batchesVars
      <3>2. QED
        BY <3>1, ExecutingMeans DEF SwitchLate, SwitchForWorker, SwitchOnCall
    <2>3. m = MeterOf[j] /\ obeyed'[m] = j
      BY <1>1, <2>2 DEF Switch
    <2>4. obeyed[m] \in Jobs
      BY <1>1
    <2>5. j \notin restaled \cup belated /\ m \notin crossed => stamp[obeyed[m]] <= stamp[j]
      BY <1>1, <2>3, <2>4 DEF OrderInv
    <2>6. QED
      BY <2>3, <2>5
  <1>2. BatchInit => BatchInv /\ OrderInv
    BY InitBatch, InitOrder
  <1>3. BatchInv /\ OrderInv /\ [BatchNext]_batchesVars => BatchInv' /\ OrderInv'
    BY BatchStep, OrderStep
  <1> DEFINE InOrder == \A m \in Meters :
                obeyed'[m] # obeyed[m] /\ obeyed[m] # NoJob =>
                    \/ stamp[obeyed[m]] <= stamp[obeyed'[m]]
                    \/ m \in crossed
                    \/ obeyed'[m] \in restaled \cup belated
  <1>4. BatchInv /\ OrderInv /\ [BatchNext]_batchesVars => [InOrder]_batchesVars
    BY <1>1
  <1>5. QED
    BY <1>2, <1>3, <1>4, PTL DEF BatchSpec, ObeysInOrder
=============================================================================
