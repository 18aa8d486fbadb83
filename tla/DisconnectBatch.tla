--------------------------- MODULE DisconnectBatch ---------------------------
(***************************************************************************)
(* Relay commands, and the batches of them that billing orders.            *)
(*                                                                         *)
(* Every command is a job of JobQueue, claimed, reported, requeued and     *)
(* reaped there.  This module adds what lies around that table: the        *)
(* idempotent acceptance of a batch (billing._create_batch), the item and  *)
(* batch rows that follow a finished job, and the relay of each meter.     *)
(*                                                                         *)
(* An item is written in two steps because its transaction has two: the    *)
(* flush, after which the task reads the items of the batch (its own       *)
(* change included, those of other open transactions not), and the commit. *)
(***************************************************************************)
EXTENDS JobQueue

CONSTANTS
    Requests,      \* POST requests of billing; an accepted one names its batch
    NoRequest,     \* origin of a command of the web interface
    KeyOf,         \* (API key, Idempotency-Key) of a request
    RequestOf,     \* the request a job or item belongs to
    Unregistered,  \* serial numbers that are not in the meter table
    NoChore, NoJob

COMMANDS == {"disconnect", "reconnect"}
Final == {"COMPLETED", "FAILED", "COMPLETED_WITH_ERRORS"}
BatchStatus == {"absent", "QUEUED"} \cup Final
ItemStatus == {"absent", "QUEUED", "DONE", "FAILED"}

Items == {j \in Jobs : RequestOf[j] # NoRequest}
ItemsOf(q) == {j \in Jobs : RequestOf[j] = q}

ASSUME RequestsAssumption ==
    /\ RequestOf \in [Jobs -> Requests \cup {NoRequest}]
    /\ NoRequest \notin Requests
    /\ {"none", "creating", "refused", "error"} \cap Requests = {}
    /\ Unregistered \subseteq Meters
    /\ NoJob \notin Jobs
    /\ \A q \in Requests : ItemsOf(q) # {}
ASSUME CommandsAssumption ==
    \A j \in Jobs : TypeOf[j] \in COMMANDS /\ RunOf[j] = NoRun
ASSUME OneOperationAssumption ==
    \A j, k \in Items : RequestOf[j] = RequestOf[k] => TypeOf[j] = TypeOf[k]

VARIABLES
    batch,       \* disconnect_batches.status of the batch a request created
    item,        \* disconnect_batch_items.status
    answer,      \* what a request has been told, or where it is
    chore,       \* the item a task has still to write after its job
    stamp,       \* created_at of a job: the turn its transaction began in; 0: not begun
    obeyed,      \* the command each relay obeyed last
    driven,      \* commands that have switched the relay since they were claimed
    stray,       \* commands whose gRPC call nobody waits for any more
    overlapped,  \* history: batches with two open item transactions at once
    crossed,     \* history: meters with two commands in execution at once
    halted,      \* history: batches that lost a task between a job and its item
    belated      \* history: commands committed after a command that began later

batchVars == <<batch, item, answer, chore>>
relayVars == <<stamp, obeyed, driven, stray>>
pastVars == <<overlapped, crossed, halted, belated>>
batchesVars == <<vars, batchVars, relayVars, pastVars>>

Chores == [step : {"item"}, job : Jobs, ok : BOOLEAN] \cup
          [step : {"flushed"}, job : Jobs, ok : BOOLEAN, final : Final \cup {"none"}]
ASSUME NoChoreAssumption == NoChore \notin Chores

BatchTypeOK ==
    /\ batch \in [Requests -> BatchStatus]
    /\ item \in [Jobs -> ItemStatus]
    /\ answer \in [Requests -> Requests \cup {"none", "creating", "refused", "error"}]
    /\ chore \in [Actors -> Chores \cup {NoChore}]
    /\ stamp \in [Jobs -> Nat]
    /\ obeyed \in [Meters -> Jobs \cup {NoJob}]
    /\ driven \subseteq Jobs
    /\ stray \subseteq Jobs
    /\ overlapped \subseteq Requests
    /\ crossed \subseteq Meters
    /\ halted \subseteq Requests
    /\ belated \subseteq Jobs

BatchInit ==
    /\ Init
    /\ batch = [q \in Requests |-> "absent"]
    /\ item = [j \in Jobs |-> "absent"]
    /\ answer = [q \in Requests |-> "none"]
    /\ chore = [a \in Actors |-> NoChore]
    /\ stamp = [j \in Jobs |-> 0]
    /\ obeyed = [m \in Meters |-> NoJob]
    /\ driven = {}
    /\ stray = {}
    /\ overlapped = {}
    /\ crossed = {}
    /\ halted = {}
    /\ belated = {}

\* Commands somebody is executing: a worker and the Gateway call it waits for, a
\* Gateway thread of the event path, or a Gateway call that was given up.
Executing == (UNION {held[w] : w \in Workers}) \cup (UNION {hand[c] : c \in Calls}) \cup stray

\* The meters for which a claim of S starts a second execution.
Crossing(S) == {MeterOf[j] : j \in S} \cap {MeterOf[k] : k \in Executing}

Latest == CHOOSE j \in Jobs : \A k \in Jobs : stamp[k] <= stamp[j]
Stamped(S) == stamp' = [j \in Jobs |-> IF j \in S THEN stamp[Latest] + 1 ELSE stamp[j]]

\* The transaction of the commands of S commits.
Committed(S) ==
    belated' = belated \cup
        {j \in S : \E k \in Jobs : /\ status[k] # "absent" /\ MeterOf[k] = MeterOf[j]
                                   /\ stamp[k] > stamp[j]}

-----------------------------------------------------------------------------
(* Accepting commands *)

\* Two requests carry the same operation and the same set of serial numbers.
Content(q) == {<<TypeOf[j], MeterOf[j]>> : j \in ItemsOf(q)}

SameKey(q) == {p \in Requests : KeyOf[p] = KeyOf[q] /\ batch[p] # "absent"}

Known(q) == {j \in ItemsOf(q) : MeterOf[j] \notin Unregistered}

\* A disconnect or reconnect button of the meter card.  created_at is now() of the
\* database, the time the request's transaction began, not that of its commit.
BeginManual(j) ==
    /\ RequestOf[j] = NoRequest /\ stamp[j] = 0
    /\ Stamped({j})
    /\ UNCHANGED <<vars, batchVars, obeyed, driven, stray, pastVars>>

AcceptManual(j) ==
    /\ RequestOf[j] = NoRequest /\ stamp[j] > 0
    /\ EnqueueManual({j})
    /\ Committed({j})
    /\ UNCHANGED <<batchVars, relayVars, overlapped, crossed, halted>>

\* A repeated key gets the batch it created, or a refusal when the body differs.  The
\* transaction of a new batch begins with this look at the keys.
CheckKey(q) ==
    /\ answer[q] = "none"
    /\ answer' = [answer EXCEPT ![q] =
                    IF SameKey(q) = {} THEN "creating"
                    ELSE LET p == CHOOSE p \in SameKey(q) : TRUE
                         IN  IF Content(p) = Content(q) THEN p ELSE "refused"]
    /\ Stamped(IF SameKey(q) = {} THEN Known(q) ELSE {})
    /\ UNCHANGED <<vars, batch, item, chore, obeyed, driven, stray, pastVars>>

\* The items as they stand in somebody's transaction, summed up; "none" while one
\* of them is QUEUED.
SummaryOf(rows) ==
    IF "QUEUED" \in rows THEN "none"
    ELSE IF "FAILED" \notin rows THEN "COMPLETED"
    ELSE IF "DONE" \notin rows THEN "FAILED"
    ELSE "COMPLETED_WITH_ERRORS"

\* Mutant: no unique constraint on (api_key_id, idempotency_key).
CreateBatch_NoConstraint(q) ==
    /\ answer[q] = "creating"
    /\ EnqueueManual(ItemsOf(q))
    /\ answer' = [answer EXCEPT ![q] = q]
    /\ batch' = [batch EXCEPT ![q] = "QUEUED"]
    /\ item' = [j \in Jobs |-> IF j \in ItemsOf(q) THEN "QUEUED" ELSE item[j]]
    /\ UNCHANGED <<chore, relayVars, pastVars>>

\* Batch, items and jobs in one commit.  The unique constraint on the key stops
\* the request that checked before another one committed.
CreateBatch(q) ==
    LET known == Known(q)
        rows == [j \in ItemsOf(q) |-> IF j \in known THEN "QUEUED" ELSE "FAILED"]
        final == SummaryOf({rows[j] : j \in ItemsOf(q)})
    IN  /\ answer[q] = "creating"
        /\ \/ /\ SameKey(q) # {}
              /\ answer' = [answer EXCEPT ![q] = "error"]
              /\ UNCHANGED <<vars, batch, item, belated>>
           \/ /\ SameKey(q) = {}
              /\ answer' = [answer EXCEPT ![q] = q]
              /\ batch' = [batch EXCEPT ![q] = IF final = "none" THEN "QUEUED" ELSE final]
              /\ item' = [j \in Jobs |-> IF j \in ItemsOf(q) THEN rows[j] ELSE item[j]]
              /\ IF known = {} THEN UNCHANGED vars ELSE EnqueueManual(known)
              /\ Committed(known)
        /\ UNCHANGED <<chore, relayVars, overlapped, crossed, halted>>

-----------------------------------------------------------------------------
(* Executing commands *)

\* Mutant: ORDER BY created_at DESC.
OldestFirst_Reversed(S, rest) ==
    \A j \in S, k \in rest : Rank(j) = Rank(k) => stamp[j] >= stamp[k]

\* Within a rank the claims order by created_at.
OldestFirst(S, rest) ==
    \A j \in S, k \in rest : Rank(j) = Rank(k) => stamp[j] <= stamp[k]

Claim(w, j) ==
    /\ chore[w] = NoChore
    /\ ClaimNext(w, j)
    /\ OldestFirst({j}, {k \in Jobs : ForWorker(k)} \ {j})
    /\ driven' = driven \ {j}
    /\ crossed' = crossed \cup Crossing({j})
    /\ UNCHANGED <<batchVars, stamp, obeyed, stray, overlapped, halted, belated>>

\* The meter executes the ACTION of command j (retries may repeat it).
Switch(j) ==
    /\ obeyed' = [obeyed EXCEPT ![MeterOf[j]] = j]
    /\ UNCHANGED <<vars, batchVars, stamp, pastVars>>

\* ... for a worker that waits for the answer,
SwitchForWorker(w) ==
    /\ pc[w] = "busy"
    /\ \E j \in held[w] : Switch(j) /\ driven' = driven \cup {j}
    /\ UNCHANGED stray

\* ... for a Gateway thread, which takes the commands of its claim in order,
SwitchOnCall(c) ==
    /\ \E j \in hand[c] : /\ OldestFirst({j}, hand[c] \ {j})
                          /\ Switch(j)
                          /\ driven' = driven \cup {j}
    /\ UNCHANGED stray

\* ... or for nobody: the call outlives the deadline of its caller, or the caller.
SwitchLate(j) ==
    /\ j \in stray
    /\ Switch(j)
    /\ UNCHANGED <<driven, stray>>

StrayEnds(j) ==
    /\ j \in stray
    /\ stray' = stray \ {j}
    /\ UNCHANGED <<vars, batchVars, stamp, obeyed, driven, pastVars>>

\* What task a has to do for job j's item once the job is committed.
ChoreFor(j, ok) ==
    IF j \in Items THEN [step |-> "item", job |-> j, ok |-> ok] ELSE NoChore

\* The worker commits the outcome; when its own timeout made it FAIL the Gateway
\* may still be at it.
Finish(w) ==
    /\ FinishJob(w)
    /\ \E j \in held[w] :
         /\ status'[j] = "SUCCEEDED" => j \in driven
         /\ chore' = [chore EXCEPT ![w] = ChoreFor(j, status'[j] = "SUCCEEDED")]
         /\ stray' \in IF status'[j] = "FAILED" THEN {stray, stray \cup {j}} ELSE {stray}
    /\ UNCHANGED <<batch, item, answer, stamp, obeyed, driven, pastVars>>

Take(c, m, S) ==
    /\ GatewayClaim(c, m, S)
    /\ OldestFirst(S, DueOf(m) \ S)
    /\ driven' = driven \ S
    /\ crossed' = crossed \cup Crossing(S)
    /\ UNCHANGED <<batchVars, stamp, obeyed, stray, overlapped, halted, belated>>

\* A success is reported of a command that went through; every command is
\* reported by itself, in order.
Report(c, j, ok) ==
    /\ SendReport(c, j, ok)
    /\ OldestFirst({j}, hand[c] \ {j})
    /\ ok => j \in driven
    /\ UNCHANGED <<batchVars, relayVars, pastVars>>

Receive(h, msg) ==
    /\ chore[h] = NoChore
    /\ ReceiveReport(h, msg)
    /\ UNCHANGED <<batchVars, relayVars, pastVars>>

Accept(h) ==
    /\ FinishReport(h)
    /\ \E j \in held[h] :
         chore' = [chore EXCEPT ![h] = ChoreFor(j, status'[j] = "SUCCEEDED")]
    /\ UNCHANGED <<batch, item, answer, relayVars, pastVars>>

-----------------------------------------------------------------------------
(* _maybe_finalize_disconnect_batch_item *)

\* Mutant: whatever the job became.
Written_Always(ok) == "DONE"

Written(ok) == IF ok THEN "DONE" ELSE "FAILED"

\* Mutant: the batch is summed up as soon as one item is done.
FlushItem_Eager(a) ==
    /\ chore[a] # NoChore
    /\ chore[a].step = "item"
    /\ LET j == chore[a].job
           q == RequestOf[j]
           rows == {item[k] : k \in ItemsOf(q) \ {j}} \cup {Written(chore[a].ok)}
       IN  /\ chore' = [chore EXCEPT ![a] =
                 [step |-> "flushed", job |-> j, ok |-> chore[a].ok,
                  final |-> SummaryOf(rows \ {"QUEUED"})]]
    /\ UNCHANGED <<vars, batch, item, answer, relayVars, pastVars>>

\* Mutant: the items are read without the task's own change.
FlushItem_Unflushed(a) ==
    /\ chore[a] # NoChore
    /\ chore[a].step = "item"
    /\ LET j == chore[a].job
           q == RequestOf[j]
       IN  chore' = [chore EXCEPT ![a] =
                 [step |-> "flushed", job |-> j, ok |-> chore[a].ok,
                  final |-> SummaryOf({item[k] : k \in ItemsOf(q)})]]
    /\ UNCHANGED <<vars, batch, item, answer, relayVars, pastVars>>

\* The item row is locked, the others are read, and the batch is decided on if it
\* is still open.
FlushItem(a) ==
    /\ chore[a] # NoChore
    /\ chore[a].step = "item"
    /\ LET j == chore[a].job
           q == RequestOf[j]
           open == {b \in Actors \ {a} : /\ chore[b] # NoChore
                                         /\ chore[b].step = "flushed"
                                         /\ RequestOf[chore[b].job] = q}
           rows == {item[k] : k \in ItemsOf(q) \ {j}} \cup {Written(chore[a].ok)}
       IN  /\ \A b \in open : chore[b].job # j
           /\ chore' = [chore EXCEPT ![a] =
                 [step |-> "flushed", job |-> j, ok |-> chore[a].ok,
                  final |-> IF batch[q] = "QUEUED" THEN SummaryOf(rows) ELSE "none"]]
           /\ overlapped' = IF open = {} THEN overlapped ELSE overlapped \cup {q}
    /\ UNCHANGED <<vars, batch, item, answer, relayVars, crossed, halted, belated>>

CommitItem(a) ==
    /\ chore[a] # NoChore
    /\ chore[a].step = "flushed"
    /\ LET j == chore[a].job
           q == RequestOf[j]
       IN  /\ item' = [item EXCEPT ![j] = Written(chore[a].ok)]
           /\ batch' = IF chore[a].final = "none" THEN batch
                       ELSE [batch EXCEPT ![q] = chore[a].final]
    /\ chore' = [chore EXCEPT ![a] = NoChore]
    /\ UNCHANGED <<vars, answer, relayVars, pastVars>>

-----------------------------------------------------------------------------
(* Faults *)

Interrupted(S) == {RequestOf[chore[a].job] : a \in {b \in S : chore[b] # NoChore}}

\* The calls of the tasks of S go on in the Gateway without them.
Abandoned(S) == {j \in UNION {held[w] : w \in S \cap Workers} : status[j] = "RUNNING"}

TaskError(a) ==
    /\ DatabaseError(a)
    /\ chore' = [chore EXCEPT ![a] = NoChore]
    /\ halted' = halted \cup Interrupted({a})
    /\ stray' = stray \cup Abandoned({a})
    /\ UNCHANGED <<batch, item, answer, stamp, obeyed, driven, overlapped, crossed, belated>>

BackendRestart ==
    /\ Restart
    /\ chore' = [a \in Actors |-> NoChore]
    /\ answer' = [q \in Requests |-> IF answer[q] = "creating" THEN "error" ELSE answer[q]]
    /\ halted' = halted \cup Interrupted(Actors)
                   \cup {RequestOf[j] : j \in Running \cap Items}
    /\ stray' = stray \cup Abandoned(Actors)
    /\ stamp' = [j \in Jobs |-> IF status[j] = "absent" THEN 0 ELSE stamp[j]]
    /\ UNCHANGED <<batch, item, obeyed, driven, overlapped, crossed, belated>>

\* The housekeeping of JobQueue: none of it looks at items or batches.
Housekeeping ==
    /\ \/ \E j \in Jobs : Age(j)
       \/ SelectStale
       \/ RequeueStale
       \/ \E c \in Calls : \E S \in SUBSET hand[c] : GatewayDrop(c, S)
    /\ UNCHANGED <<batchVars, relayVars, pastVars>>

-----------------------------------------------------------------------------
BatchNext ==
    \/ \E j \in Jobs : BeginManual(j) \/ AcceptManual(j) \/ SwitchLate(j) \/ StrayEnds(j)
    \/ \E q \in Requests : CheckKey(q) \/ CreateBatch(q)
    \/ \E w \in Workers : SwitchForWorker(w) \/ Finish(w) \/ \E j \in Jobs : Claim(w, j)
    \/ \E c \in Calls : SwitchOnCall(c)
    \/ \E c \in Calls : \E m \in Meters : \E S \in SUBSET DueOf(m) : Take(c, m, S)
    \/ \E c \in Calls : \E j \in hand[c], ok \in BOOLEAN : Report(c, j, ok)
    \/ \E h \in Handlers : Accept(h) \/ \E msg \in inbox : Receive(h, msg)
    \/ \E a \in Actors : FlushItem(a) \/ CommitItem(a) \/ TaskError(a)
    \/ Housekeeping
    \/ BackendRestart

BatchSpec == BatchInit /\ [][BatchNext]_batchesVars

-----------------------------------------------------------------------------
(* Properties *)

\* A key stands for one batch, however its requests interleave, and every accepted
\* request with that key is told the same one.
OneBatchPerKey ==
    \A p, q \in Requests : KeyOf[p] = KeyOf[q] =>
        /\ batch[p] # "absent" /\ batch[q] # "absent" => p = q
        /\ answer[p] \in Requests /\ answer[q] \in Requests => answer[p] = answer[q]

\* The verdict of a closed batch agrees with its items, unless the reaper returned
\* one of them to the queue.
VerdictAgrees ==
    \A q \in Requests : batch[q] \in Final /\ ItemsOf(q) \cap restaled = {} =>
        batch[q] = SummaryOf({item[j] : j \in ItemsOf(q)})

\* Somebody is about to close batch q, or to look at it again.
ClosesSoon(q) ==
    \E a \in Actors : /\ chore[a] # NoChore
                      /\ RequestOf[chore[a].job] = q
                      /\ chore[a].step = "item" \/ chore[a].final # "none"

\* A batch with no item left to wait for is closed, or about to be, unless two of
\* its items were written at once or a fault cut a task short.
NoBatchLost ==
    \A q \in Requests \ (overlapped \cup halted) :
        batch[q] = "QUEUED" /\ (\A j \in ItemsOf(q) : item[j] # "QUEUED") => ClosesSoon(q)

\* An item reported to billing as DONE was obeyed by its relay, in the execution
\* that is reported.
DoneWasObeyed == \A j \in Items \ restaled : item[j] = "DONE" => j \in driven

\* The relay obeys commands in the order of created_at, which the claims go by, unless
\* two of them were in execution at once, the reaper sent an old one out again, or the
\* transaction of the older one took longer than that of the newer.
ObeysInOrder ==
    [][\A m \in Meters :
          obeyed'[m] # obeyed[m] /\ obeyed[m] # NoJob =>
              \/ stamp[obeyed[m]] <= stamp[obeyed'[m]]
              \/ m \in crossed
              \/ obeyed'[m] \in restaled \cup belated]_batchesVars

\* What job_worker.py says of an item: if it was the last unfinished one of the
\* batch, the batch is closed with it.
LastItemClosesBatch ==
    \A q \in Requests :
        batch[q] = "QUEUED" /\ (\A j \in ItemsOf(q) : item[j] # "QUEUED") => ClosesSoon(q)
=============================================================================
