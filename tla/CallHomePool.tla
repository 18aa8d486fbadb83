---------------------------- MODULE CallHomePool ----------------------------
(***************************************************************************)
(* The pool of call-home connections of the Gateway: callhome.py.          *)
(*                                                                         *)
(* Meters dial in.  Every accepted connection has a thread that waits for  *)
(* the meter to announce its serial number, asks the Backend which jobs    *)
(* are due, takes the connection (and its siblings) out of the pool and    *)
(* carries the jobs out.  The calls of the worker path take connections    *)
(* out of the same pool.  A thread is named by its connection, and a       *)
(* connection by its conn_no, so that the order of the dict is <.          *)
(*                                                                         *)
(* What the Backend does with a report is in JobQueue; here a job is       *)
(* followed from its claim to the report that is taken, or to the reaper   *)
(* of the Backend, which puts it back whether or not a thread still has    *)
(* it to do.  An exchange with a meter is its wait for UA and what comes   *)
(* after it (see DlmsSession): only the latter has a deadline.             *)
(***************************************************************************)
EXTENDS Naturals, FiniteSets, FiniteSetsExt

CONSTANTS
    MaxConns,      \* bound: connections accepted
    Callers,       \* gRPC calls of the worker path: read_via_call_home
    Serials,
    NoSerial, NoConn,
    Window,        \* window_size
    MaxPerSerial,  \* max_per_serial
    Jobs,
    SerialOf,      \* the meter of a job
    KindOf         \* what a job asks of it

Conns == 1 .. MaxConns

Kinds == {"read", "relay_state", "control", "profile"}
Stages == {"control", "reads", "profile"}
Phases == {"new", "reading", "announced", "asking", "told", "done"} \cup Stages

ASSUME ConnsAssumption == MaxConns \in Nat /\ NoConn \notin Conns
ASSUME NamesAssumption == Callers \cap Conns = {} /\ NoSerial \notin Serials
ASSUME LimitsAssumption == Window \in Nat \ {0} /\ MaxPerSerial \in Nat \ {0}
ASSUME PoolJobsAssumption == SerialOf \in [Jobs -> Serials] /\ KindOf \in [Jobs -> Kinds]

Fates == {"absent", "queued", "running", "final"}

Threads == Conns \cup Callers

VARIABLES
    listening,  \* the listeners are open
    pool,       \* _pool
    serial,     \* pc.serial
    open,       \* connections whose raw_sock is not closed
    old,        \* connections accepted more than max_claim_age_s ago
    at,         \* where the thread of a connection is
    taken,      \* connections a thread has taken out of the pool and still needs
    using,      \* the one of them it exchanges frames on
    linking,    \* threads whose exchange has no UA yet, and so no deadline
    beaten,     \* those of them that a heartbeat has just made wait anew
    stuck,      \* threads whose last exchange brought an error for every reading
    todo,       \* jobs a thread has claimed and not yet reported or let go of
    lapsed,     \* those of them that the reaper has put back meanwhile (history)
    fate        \* the status of a job in the Backend: "final" once a report was taken

poolVars == <<listening, pool, serial, open, old>>
linkVars == <<linking, beaten>>
workVars == <<taken, using, linkVars, stuck>>
jobVars == <<todo, lapsed, fate>>
vars == <<poolVars, at, workVars, jobVars>>

TypeOK ==
    /\ listening \in BOOLEAN
    /\ pool \subseteq Conns
    /\ serial \in [Conns -> Serials \cup {NoSerial}]
    /\ open \subseteq Conns
    /\ old \subseteq Conns
    /\ at \in [Conns -> Phases]
    /\ taken \in [Threads -> SUBSET Conns]
    /\ using \in [Threads -> Conns \cup {NoConn}]
    /\ linking \subseteq Conns
    /\ beaten \subseteq Conns
    /\ stuck \subseteq Conns
    /\ todo \in [Conns -> SUBSET Jobs]
    /\ lapsed \in [Conns -> SUBSET Jobs]
    /\ fate \in [Jobs -> Fates]

Init ==
    /\ listening = TRUE
    /\ pool = {}
    /\ serial = [c \in Conns |-> NoSerial]
    /\ open = {}
    /\ old = {}
    /\ at = [c \in Conns |-> "new"]
    /\ taken = [t \in Threads |-> {}]
    /\ using = [t \in Threads |-> NoConn]
    /\ linking = {}
    /\ beaten = {}
    /\ stuck = {}
    /\ todo = [c \in Conns |-> {}]
    /\ lapsed = [c \in Conns |-> {}]
    /\ fate = [j \in Jobs |-> "absent"]

Accepted == {c \in Conns : at[c] # "new"}
Pooled(s) == {p \in pool : serial[p] = s}

\* The jobs of S leave the hands of thread c.
LetGo(c, S) ==
    /\ todo' = [todo EXCEPT ![c] = @ \ S]
    /\ lapsed' = [lapsed EXCEPT ![c] = @ \ S]

\* They stay RUNNING in the Backend until the reaper comes.
Drop(c, S) == LetGo(c, S) /\ UNCHANGED fate

\* A report of them is taken for the jobs that are RUNNING, whoever claimed them last.
\* It may be lost.
Report(c, S) ==
    /\ LetGo(c, S)
    /\ \/ fate' = [j \in Jobs |-> IF j \in S /\ fate[j] = "running" THEN "final" ELSE fate[j]]
       \/ UNCHANGED fate

-----------------------------------------------------------------------------
(* Accepting and identifying *)

\* The connection that a full window gives up for a new one.
Overflow(P) == IF Cardinality(P) >= Window THEN {Min(P)} ELSE {}

Admit(c) ==
    /\ listening
    /\ at[c] = "new"
    /\ \A d \in Accepted : d < c
    /\ pool' = (pool \ Overflow(pool)) \cup {c}
    /\ open' = (open \ Overflow(pool)) \cup {c}
    /\ at' = [at EXCEPT ![c] = "reading"]
    /\ UNCHANGED <<listening, serial, old, workVars, jobVars>>

\* The announcement frame arrived; pc.serial is set without the lock.
Announce(c, s) ==
    /\ at[c] = "reading"
    /\ serial' = [serial EXCEPT ![c] = s]
    /\ at' = [at EXCEPT ![c] = "announced"]
    /\ UNCHANGED <<listening, pool, open, old, workVars, jobVars>>

\* A serial number that is not all digits is turned away.
AnnounceDamaged(c) ==
    /\ at[c] = "reading"
    /\ pool' = pool \ {c}
    /\ open' = open \ {c}
    /\ at' = [at EXCEPT ![c] = "done"]
    /\ UNCHANGED <<listening, serial, old, workVars, jobVars>>

\* Silence for 5 s, other bytes, or a closed socket: the connection stays pooled
\* without a serial number.
StayUnknown(c) ==
    /\ at[c] = "reading"
    /\ at' = [at EXCEPT ![c] = "done"]
    /\ UNCHANGED <<poolVars, workVars, jobVars>>

\* Mutant: the limit is compared one too late.
Surplus_OneLate(c) ==
    LET others == Pooled(serial[c]) \ {c}
    IN  IF Cardinality(others) > MaxPerSerial THEN {Min(others)} ELSE {}

\* The oldest other connection of the meter, if the others alone fill its limit.
\* Nobody asks whether c itself is still pooled.
Surplus(c) ==
    LET others == Pooled(serial[c]) \ {c}
    IN  IF Cardinality(others) >= MaxPerSerial THEN {Min(others)} ELSE {}

CheckLimit(c) ==
    /\ at[c] = "announced"
    /\ pool' = pool \ Surplus(c)
    /\ open' = open \ Surplus(c)
    /\ at' = [at EXCEPT ![c] = "asking"]
    /\ UNCHANGED <<listening, serial, old, workVars, jobVars>>

-----------------------------------------------------------------------------
(* Asking the Backend *)

\* claim_due_jobs_for_meter: the priority commands alone when there are any.
Offer(s) ==
    LET due == {j \in Jobs : fate[j] = "queued" /\ SerialOf[j] = s}
        urgent == {j \in due : KindOf[j] \in {"control", "relay_state"}}
    IN  IF urgent # {} THEN urgent ELSE due

\* The Backend commits the claim and the reply is on its way.
Ask(c) ==
    /\ at[c] = "asking"
    /\ Offer(serial[c]) # {}
    /\ todo' = [todo EXCEPT ![c] = Offer(serial[c])]
    /\ fate' = [j \in Jobs |-> IF j \in Offer(serial[c]) THEN "running" ELSE fate[j]]
    /\ at' = [at EXCEPT ![c] = "told"]
    /\ UNCHANGED <<poolVars, workVars, lapsed>>

\* Nothing is due, or the Backend cannot be reached: the connection stays pooled.
LeavePooled(c) ==
    /\ at[c] = "asking"
    /\ at' = [at EXCEPT ![c] = "done"]
    /\ UNCHANGED <<poolVars, workVars, jobVars>>

\* The claim was committed but its reply was lost, or came after 3 s.
LoseReply(c) ==
    /\ at[c] = "told"
    /\ Drop(c, todo[c])
    /\ at' = [at EXCEPT ![c] = "done"]
    /\ UNCHANGED <<poolVars, workVars>>

-----------------------------------------------------------------------------
(* Carrying the jobs out *)

OfKind(S, K) == {j \in S : KindOf[j] \in K}
Reads(S) == OfKind(S, {"read", "relay_state"})

\* The jobs that the stage of thread c deals with.
Left(c) ==
    CASE at[c] = "control" -> OfKind(todo[c], {"control"})
      [] at[c] = "reads" -> Reads(todo[c])
      [] OTHER -> OfKind(todo[c], {"profile"})

FirstStage(S) ==
    IF OfKind(S, {"control"}) # {} THEN "control"
    ELSE IF Reads(S) # {} THEN "reads" ELSE "profile"

\* Mutant: the thread does not look whether its connection is still pooled.
TakeOver_Unchecked(c) ==
    LET mine == {c} \cup Pooled(serial[c])
    IN  /\ at[c] = "told"
        /\ pool' = pool \ mine
        /\ at' = [at EXCEPT ![c] = FirstStage(todo[c])]
        /\ IF FirstStage(todo[c]) = "profile"
           THEN open' = open \ mine /\ UNCHANGED taken
           ELSE taken' = [taken EXCEPT ![c] = mine] /\ UNCHANGED open
        /\ UNCHANGED <<listening, serial, old, using, linkVars, stuck, jobVars>>

\* _maybe_trigger_immediate_read goes on: its own connection and every other one
\* of the meter, unless somebody else got hold of it meanwhile.  Load profiles
\* wait for later connections: these are closed when there is nothing else to do.
TakeOver(c) ==
    LET mine == {c} \cup Pooled(serial[c])
    IN  /\ at[c] = "told"
        /\ \/ /\ c \notin pool
              /\ Drop(c, todo[c])
              /\ at' = [at EXCEPT ![c] = "done"]
              /\ UNCHANGED <<pool, open, taken>>
           \/ /\ c \in pool
              /\ pool' = pool \ mine
              /\ at' = [at EXCEPT ![c] = FirstStage(todo[c])]
              /\ IF FirstStage(todo[c]) = "profile"
                 THEN open' = open \ mine /\ UNCHANGED taken
                 ELSE taken' = [taken EXCEPT ![c] = mine] /\ UNCHANGED open
              /\ UNCHANGED jobVars
        /\ UNCHANGED <<listening, serial, old, using, linkVars, stuck>>

\* Its own connection first, then from the newest to the oldest.
Candidate(c) == IF c \in taken[c] THEN c ELSE Max(taken[c])

Start(c) ==
    /\ at[c] \in Stages
    /\ Left(c) # {}
    /\ using[c] = NoConn
    /\ taken[c] # {}
    /\ using' = [using EXCEPT ![c] = Candidate(c)]
    /\ linking' = linking \cup {c}
    /\ UNCHANGED <<poolVars, at, taken, beaten, stuck, jobVars>>

\* UA has come: set_deadline bounds the rest of the exchange.
Link(c) ==
    /\ c \in linking \ beaten
    /\ linking' = linking \ {c}
    /\ UNCHANGED <<poolVars, at, taken, using, beaten, stuck, jobVars>>

\* Before UA every byte that is read away begins the timeout of recv anew.
Heartbeat(c) ==
    /\ c \in linking \ beaten
    /\ beaten' = beaten \cup {c}
    /\ UNCHANGED <<poolVars, at, taken, using, linking, stuck, jobVars>>

\* The timeout would be over, but it began later.
WaitOn(c) ==
    /\ c \in beaten
    /\ beaten' = beaten \ {c}
    /\ UNCHANGED <<poolVars, at, taken, using, linking, stuck, jobVars>>

\* An exchange that may end: with UA, or without it when the timeout is over.
Over(c) == using[c] # NoConn /\ c \notin beaten

\* Mutant: the connection is returned without being taken out of the pool.
Sibling_LeavePooled(c) ==
    /\ at[c] \in Stages
    /\ Left(c) # {}
    /\ using[c] = NoConn
    /\ taken[c] = {}
    /\ Pooled(serial[c]) # {}
    /\ taken' = [taken EXCEPT ![c] = {Min(Pooled(serial[c]))}]
    /\ UNCHANGED <<poolVars, at, using, linkVars, stuck, jobVars>>

\* _wait_for_sibling_connection: the first pooled connection of the meter, be its
\* own thread asking the Backend at this moment.
Sibling(c) ==
    /\ at[c] \in Stages
    /\ Left(c) # {}
    /\ using[c] = NoConn
    /\ taken[c] = {}
    /\ Pooled(serial[c]) # {}
    /\ pool' = pool \ {Min(Pooled(serial[c]))}
    /\ taken' = [taken EXCEPT ![c] = {Min(Pooled(serial[c]))}]
    /\ UNCHANGED <<listening, serial, open, old, at, using, linkVars, stuck, jobVars>>

\* Thread c closes the connections of P, and with them its exchange.
Close(c, P) ==
    /\ open' = open \ P
    /\ taken' = [taken EXCEPT ![c] = @ \ P]
    /\ using' = [using EXCEPT ![c] = NoConn]
    /\ linking' = linking \ {c}
    /\ beaten' = beaten \ {c}

\* A command or a load profile, for better or worse: one exchange, one report.
FinishOne(c) ==
    /\ at[c] \in {"control", "profile"}
    /\ Over(c)
    /\ Close(c, {using[c]})
    /\ \E j \in Left(c) : Report(c, {j})
    /\ UNCHANGED <<listening, pool, serial, old, at, stuck>>

\* Mutant: the candidates left over are forgotten.
FinishReads_LeaveRest(c) ==
    /\ at[c] = "reads"
    /\ Over(c) /\ c \notin linking
    /\ taken' = [taken EXCEPT ![c] = {}]
    /\ using' = [using EXCEPT ![c] = NoConn]
    /\ open' = open \ {using[c]}
    /\ Report(c, Left(c))
    /\ UNCHANGED <<listening, pool, serial, old, at, linkVars, stuck>>

\* One association read something: the other candidates are closed, all readings
\* are reported.
FinishReads(c) ==
    /\ at[c] = "reads"
    /\ Over(c) /\ c \notin linking
    /\ Close(c, taken[c])
    /\ Report(c, Left(c))
    /\ UNCHANGED <<listening, pool, serial, old, at, stuck>>

\* No association, or one that answers every reading with an error: on to the next
\* connection.  Only the errors of the latter are kept.
RetryReads(c) ==
    /\ at[c] = "reads"
    /\ Over(c)
    /\ Close(c, {using[c]})
    /\ \/ stuck' = stuck \ {c}
       \/ c \notin linking /\ stuck' = stuck \cup {c}
    /\ UNCHANGED <<listening, pool, serial, old, at, jobVars>>

\* Mutant: the deadline of the readings is looked at only with a candidate in hand.
GiveUp_NotWaiting(c) ==
    /\ at[c] \in Stages
    /\ Left(c) # {}
    /\ using[c] = NoConn
    /\ \/ /\ at[c] = "reads"
          /\ taken[c] # {}
          /\ IF c \in stuck THEN Report(c, Left(c)) ELSE Drop(c, Left(c))
       \/ /\ at[c] # "reads"
          /\ taken[c] = {}
          /\ \E j \in Left(c) : Drop(c, {j})
    /\ Close(c, taken[c])
    /\ UNCHANGED <<listening, pool, serial, old, at, stuck>>

\* 150 s are over.  Readings: the candidates are closed, and the errors of a stuck
\* association are reported for want of better.  A command or a load profile has
\* a deadline of its own, and only for the wait.
GiveUp(c) ==
    /\ at[c] \in Stages
    /\ Left(c) # {}
    /\ using[c] = NoConn
    /\ \/ /\ at[c] = "reads"
          /\ IF c \in stuck THEN Report(c, Left(c)) ELSE Drop(c, Left(c))
       \/ /\ at[c] # "reads"
          /\ taken[c] = {}
          /\ \E j \in Left(c) : Drop(c, {j})
    /\ Close(c, taken[c])
    /\ UNCHANGED <<listening, pool, serial, old, at, stuck>>

\* Nothing left of this stage.  Control jobs end the thread, whatever else the
\* claim brought; load profiles follow readings.
EndStage(c) ==
    /\ at[c] \in Stages
    /\ using[c] = NoConn
    /\ Left(c) = {}
    /\ Close(c, taken[c])
    /\ IF at[c] = "reads"
       THEN at' = [at EXCEPT ![c] = "profile"] /\ UNCHANGED jobVars
       ELSE at' = [at EXCEPT ![c] = "done"] /\ Drop(c, todo[c])
    /\ UNCHANGED <<listening, pool, serial, old, stuck>>

\* An exception nobody expected: the thread ends, and the sockets that only it
\* referred to are closed with it.
Fail(c) ==
    /\ at[c] \in Stages
    /\ Close(c, taken[c])
    /\ Drop(c, todo[c])
    /\ at' = [at EXCEPT ![c] = "done"]
    /\ UNCHANGED <<listening, pool, serial, old, stuck>>

-----------------------------------------------------------------------------
(* The worker path, and the rest of the world *)

\* claim: the newest connection of the meter that is not too old.
CallerClaim(w, s) ==
    LET fresh == Pooled(s) \ old
    IN  /\ using[w] = NoConn
        /\ fresh # {}
        /\ pool' = pool \ {Max(fresh)}
        /\ taken' = [taken EXCEPT ![w] = {Max(fresh)}]
        /\ using' = [using EXCEPT ![w] = Max(fresh)]
        /\ UNCHANGED <<listening, serial, open, old, at, linkVars, stuck, jobVars>>

\* The exchange is over, well or badly (after a success the socket is closed when
\* the last reference to it goes).
CallerDone(w) ==
    /\ using[w] # NoConn
    /\ Close(w, taken[w])
    /\ UNCHANGED <<listening, pool, serial, old, at, stuck, jobVars>>

\* max_claim_age_s pass.  Nobody asks for the age of a connection outside the pool.
GrowOld(c) ==
    /\ c \in pool \ old
    /\ old' = old \cup {c}
    /\ UNCHANGED <<listening, pool, serial, open, at, workVars, jobVars>>

\* A job is enqueued in the Backend.
Enqueue(j) ==
    /\ fate[j] = "absent"
    /\ fate' = [fate EXCEPT ![j] = "queued"]
    /\ UNCHANGED <<poolVars, at, workVars, todo, lapsed>>

\* The reaper asks how long the job is RUNNING, not whether a thread still has it: 300 s
\* may be over when readings, an exchange and a load profile take their time.
Reap(j) ==
    /\ fate[j] = "running"
    /\ fate' = [fate EXCEPT ![j] = "queued"]
    /\ lapsed' = [c \in Conns |-> lapsed[c] \cup (todo[c] \cap {j})]
    /\ UNCHANGED <<poolVars, at, workVars, todo>>

\* stop, on shutdown or when SetCallHomePort replaces the pool: threads that have
\* connections of their own go on.
Stop ==
    /\ listening
    /\ listening' = FALSE
    /\ open' = open \ pool
    /\ pool' = {}
    /\ UNCHANGED <<serial, old, at, workVars, jobVars>>

Identify(c) ==
    \/ \E s \in Serials : Announce(c, s)
    \/ AnnounceDamaged(c) \/ StayUnknown(c) \/ CheckLimit(c)
    \/ Ask(c) \/ LeavePooled(c) \/ LoseReply(c)

Carry(c) ==
    \/ TakeOver(c) \/ Start(c) \/ Link(c) \/ WaitOn(c) \/ Sibling(c) \/ FinishOne(c) \/ FinishReads(c)
    \/ RetryReads(c) \/ GiveUp(c) \/ EndStage(c)

Next ==
    \/ \E c \in Conns : Admit(c) \/ Identify(c) \/ Carry(c) \/ Heartbeat(c) \/ Fail(c) \/ GrowOld(c)
    \/ \E w \in Callers : CallerDone(w) \/ \E s \in Serials : CallerClaim(w, s)
    \/ \E j \in Jobs : Enqueue(j) \/ Reap(j)
    \/ Stop

Spec == Init /\ [][Next]_vars

\* Every wait of a thread has a timeout: 5 s for each byte of the announcement, 3 s for
\* the Backend, 150 s for a connection, the timeout of recv for UA, a deadline after it.
\* Heartbeats make the wait for UA begin anew as often as they like.  Nothing is assumed
\* of meters, callers or the Backend.
FairSpec == Spec /\ \A c \in Conns : WF_vars(Identify(c)) /\ WF_vars(Carry(c))

-----------------------------------------------------------------------------
(* Properties *)

\* A connection outside the pool has one user at most: nobody else has it, nobody
\* finds it in the pool, and nobody has closed it under its user.
SoleUser ==
    /\ \A t \in Threads : taken[t] \subseteq open \ pool
    /\ \A t, u \in Threads : t # u => taken[t] \cap taken[u] = {}

\* Threads between the announcement and the check of the limit.
Unchecked(s) == {c \in Conns : at[c] = "announced" /\ serial[c] = s}

\* The window holds at all times.  The limit of a meter holds up to the threads
\* that have still to check it, however they interleave.
WithinLimits ==
    /\ Cardinality(pool) <= Window
    /\ \A s \in Serials : Cardinality(Pooled(s)) <= MaxPerSerial + Cardinality(Unchecked(s))

\* No socket is forgotten: an open one is pooled or has a user, and a thread that
\* is done has none.
NoneForgotten ==
    /\ open \subseteq pool \cup UNION {taken[t] : t \in Threads}
    /\ \A c \in Conns : at[c] = "done" => taken[c] = {}

\* What the pool promises, whoever the threads are: see ConnectionLease.
UsersOf(c) == {t \in Threads : c \in taken[t]}

LeaseState(c) ==
    IF at[c] = "new" THEN "new"
    ELSE IF c \in pool THEN "waiting"
    ELSE IF UsersOf(c) # {} THEN "leased"
    ELSE IF c \in open THEN "forgotten" ELSE "closed"

Lease == INSTANCE ConnectionLease
    WITH Users <- Threads,
         NoUser <- NoConn,
         state <- [c \in Conns |-> LeaseState(c)],
         user <- [c \in Conns |-> IF UsersOf(c) = {} THEN NoConn
                                  ELSE CHOOSE t \in UsersOf(c) : TRUE]

\* The pool implements the lease of connections.
LeaseSpec == Lease!Spec

\* Every thread ends, though its meter never calls again: unless heartbeats make it wait
\* for UA for ever.
ThreadsEnd ==
    \A c \in Conns : (at[c] = "reading" ~> at[c] = "done") \/ []<>(c \in beaten)
=============================================================================
