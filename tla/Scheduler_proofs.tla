-------------------------- MODULE Scheduler_proofs --------------------------
(***************************************************************************)
(* Proofs about Scheduler: what a trigger finds out by three questions is  *)
(* still good enough when it commits, for any number of meters, schedules, *)
(* slots, orders by hand and faults.                                       *)
(***************************************************************************)
EXTENDS Scheduler, TLAPS

-----------------------------------------------------------------------------
(* The invariant *)

Busy == task.step # "idle"
Type == jobType[task.schedule]
IsOpen(j) == j.status \in Unfinished

\* A job of that order was written over while somebody had it, or came back after its end.
Again(order, m, o) ==
    \E j \in jobs : j.order = order /\ j.meter = m /\ j.obis = o /\ j.overrun

\* Who has a job in hands, unless it was written over: nobody while it is QUEUED, nobody
\* of the Backend once it has ended, and otherwise one at most.
InHand(j) ==
    \/ j.overrun
    \/ /\ j.status = "QUEUED" => ~Held(j)
       /\ ~IsOpen(j) => \A w \in Writers : j.hands[w] = 0
       /\ \A v, w \in Holders : j.hands[v] > 0 /\ j.hands[w] > 0 => v = w /\ j.hands[v] = 1

HandsInv == \A j \in jobs : InHand(j)

ReadToday(m, o) ==
    \E r \in readings : r.meter = m /\ r.obis = o /\ Day(r.at) = Day(task.moment)

\* An unfinished job keeps the schedules from its meter, even when the job that would
\* lie on top has ended.
OldOnesAlone ==
    \A j, k \in jobs :
        j.type = k.type /\ j.meter = k.meter /\ j.order < k.order /\ IsOpen(j)
        => k.byHand \/ j.overrun

\* Orders are numbered as they are given.  What was ordered since the trigger began was
\* ordered by hand.
Numbered ==
    /\ \A j \in jobs : j.order <= orders
    /\ Busy =>
         /\ task.order <= orders /\ task.moment <= now
         /\ \A j \in jobs : j.order # task.order /\ (task.order < j.order => j.byHand)
         /\ \A m \in task.fresh : m \in rated => m \in learnt
         /\ task.step = "selected" => task.meters = task.all

\* The meters that are left have no unfinished job of an earlier order, for none begins
\* anew but one written over; the others had one in work at some time of the trigger.
LookedWell ==
    task.step \in {"looked", "asked"} =>
        /\ \A j \in jobs :
              j.type = Type /\ j.meter \in task.meters /\ j.order < task.order /\ IsOpen(j)
              => j.overrun
        /\ \A m \in task.all \ task.meters :
              \E j \in jobs : j.type = Type /\ j.meter = m /\ InTheWay(j)

\* A pair left out has been read on the day of the trigger.
AskedWell ==
    task.step = "asked" =>
        /\ \A p \in task.pairs : p.meter \in task.meters /\ (Type = RATED => p.meter \in task.fresh)
        /\ Type = READ =>
              \A m \in task.meters, o \in ObisOf[task.schedule] :
                  [meter |-> m, obis |-> o] \in task.pairs \/ ReadToday(m, o)

SchedulerInv == TypeOK /\ HandsInv /\ OldOnesAlone /\ Numbered /\ LookedWell /\ AskedWell

\* A reading that comes in after the question is that of a job written over.
DailyInv ==
    /\ OnceADay
    /\ task.step = "asked" /\ Type = READ =>
         \A p \in task.pairs, r \in readings :
            /\ r.meter = p.meter /\ r.obis = p.obis
            /\ r.order < task.order /\ Day(r.at) = Day(task.moment)
            => Again(r.order, r.meter, r.obis)

-----------------------------------------------------------------------------
(* Types *)

LEMMA TaskTypes ==
  ASSUME TypeOK
  PROVE  /\ task.step \in {"idle", "selected", "looked", "asked"}
         /\ task.schedule \in Schedules \cup {NoSchedule}
         /\ task.moment \in Slots /\ task.order \in Nat
         /\ task.all \in SUBSET Meters /\ task.meters \in SUBSET Meters /\ task.fresh \in SUBSET Meters
         /\ task.pairs \in SUBSET [meter : Meters, obis : Obis]
         /\ task.step # "idle" => task.schedule \in Schedules
         /\ now \in Slots /\ now \in Nat /\ orders \in Nat
         /\ manual \in Nat /\ faults \in Nat /\ manual + faults <= MaxExtras
  BY TimeAssumption DEF TypeOK, Slots

LEMMA JobTypesOf ==
  ASSUME NEW j \in Job
  PROVE  /\ j.order \in Nat /\ j.byHand \in BOOLEAN /\ j.type \in JobTypes /\ j.meter \in Meters
         /\ j.obis \in Obis /\ j.created \in Slots /\ j.ended \in Slots
         /\ j.hands \in [Holders -> Nat] /\ j.began \in [Writers -> Slots]
         /\ j.status \in Unfinished \cup {"SUCCEEDED", "FAILED"} /\ j.overrun \in BOOLEAN
  BY DEF Job

LEMMA NewJobTypes ==
  ASSUME NEW n \in Nat, NEW byHand \in BOOLEAN, NEW type \in JobTypes, NEW m \in Meters,
         NEW o \in Obis, NEW t \in Slots
  PROVE  LET j == NewJob(n, byHand, type, m, o, t)
         IN  /\ j \in Job /\ j.order = n /\ j.byHand = byHand /\ j.type = type /\ j.meter = m
             /\ j.obis = o /\ j.created = t /\ j.status = "QUEUED" /\ InHand(j)
  BY TimeAssumption DEF NewJob, Job, Slots, Unfinished, InHand, IsOpen, Held

\* A job that stands for the same order later.
Stays(j, k) ==
    /\ k.order = j.order /\ k.byHand = j.byHand /\ k.type = j.type
    /\ k.meter = j.meter /\ k.obis = j.obis /\ k.created = j.created
    /\ j.overrun => k.overrun
    /\ IsOpen(k) => IsOpen(j) \/ k.overrun
    /\ ~IsOpen(k) => k.ended = now \/ (~IsOpen(j) /\ k.ended = j.ended)

\* Jobs go on: none comes and none goes.
JobsGoOn ==
    /\ jobs' \subseteq Job /\ HandsInv'
    /\ \A k \in jobs' : \E j \in jobs : Stays(j, k)
    /\ \A j \in jobs : \E k \in jobs' : Stays(j, k)

LEMMA BecomeGoesOn ==
  ASSUME TypeOK, HandsInv, NEW j \in jobs, NEW k \in Job, Stays(j, k), InHand(k), Become(j, k)
  PROVE  JobsGoOn
  <1>1. \A i \in jobs : Stays(i, i)
    BY DEF Stays
  <1>2. HandsInv'
    BY DEF HandsInv, Become, InHand, IsOpen, Held
  <1>3. QED
    BY <1>1, <1>2 DEF JobsGoOn, Become, TypeOK

\* What a job may do by itself.
JobStep(j) ==
    \/ \E w \in {"worker", "call"} : Begin(j, w)
    \/ \E w \in Writers : Succeed(j, w) \/ Fail(j, w) \/ Lose(j, w)
    \/ Arrive(j) \/ PutBack(j) \/ Reap(j)

\* A worker or a request ends its work: it had the job, which was unfinished, or written
\* over.
LEMMA LeftTypes ==
  ASSUME NEW j \in Job, NEW w \in Writers, NEW status \in {"SUCCEEDED", "FAILED"}, now \in Slots,
         InHand(j), j.hands[w] > 0
  PROVE  /\ Left(j, w, status) \in Job /\ Stays(j, Left(j, w, status)) /\ InHand(Left(j, w, status))
         /\ IsOpen(j) \/ j.overrun
  <1> DEFINE k == Left(j, w, status)
  <1>1. /\ j.hands \in [Holders -> Nat] /\ j.began \in [Writers -> Slots] /\ j.overrun \in BOOLEAN
        /\ w \in Holders /\ 0 \in Slots
    BY TimeAssumption DEF Job, Holders, Slots
  <1>2. j.hands[w] \in Nat /\ j.hands[w] - 1 \in Nat
    BY <1>1
  <1>3. k \in Job
    BY <1>1, <1>2 DEF Left, Job
  <1>4. /\ k.order = j.order /\ k.byHand = j.byHand /\ k.type = j.type /\ k.meter = j.meter
        /\ k.obis = j.obis /\ k.created = j.created /\ k.overrun = j.overrun
        /\ k.status = status /\ k.ended = now /\ k.hands = [j.hands EXCEPT ![w] = @ - 1]
    BY DEF Left, Job
  <1> HIDE DEF k
  <1>5. Stays(j, k)
    BY <1>4 DEF Stays, IsOpen, Unfinished
  <1>6. IsOpen(j) \/ j.overrun
    BY DEF InHand
  <1>7. InHand(k)
    <2>1. SUFFICES ASSUME ~j.overrun
                   PROVE  /\ \A v \in Writers : k.hands[v] = 0
                          /\ \A u, v \in Holders : k.hands[u] > 0 /\ k.hands[v] > 0
                                => u = v /\ k.hands[u] = 1
      BY <1>4 DEF InHand, IsOpen, Unfinished
    <2>2. \A u \in Holders : k.hands[u] = 0
      <3>1. TAKE u \in Holders
      <3>2. CASE u = w
        BY <1>1, <1>2, <1>4, <2>1, <3>2 DEF InHand
      <3>3. CASE u # w
        BY <1>1, <1>4, <2>1, <3>3 DEF InHand
      <3>4. QED
        BY <3>2, <3>3
    <2>3. QED
      BY <2>2 DEF Holders
  <1>8. QED
    BY <1>3, <1>5, <1>6, <1>7 DEF k

LEMMA JobSteps ==
  ASSUME TypeOK, HandsInv, NEW j \in jobs, JobStep(j)
  PROVE  JobsGoOn
  <1>1. /\ j \in Job /\ now \in Slots /\ 0 \in Slots /\ InHand(j)
        /\ j.hands \in [Holders -> Nat] /\ j.began \in [Writers -> Slots] /\ j.overrun \in BOOLEAN
    BY TimeAssumption DEF TypeOK, Slots, HandsInv, Job
  <1>2. ASSUME NEW w \in {"worker", "call"}, Begin(j, w) PROVE JobsGoOn
    <2> DEFINE began == IF w = "worker" THEN Since(j, w) ELSE j.began
               k == [j EXCEPT !.status = "RUNNING", !.hands[w] = @ + 1, !.began = began]
    <2>1. w \in Holders /\ began \in [Writers -> Slots]
      BY <1>1 DEF Since, Holders, Writers
    <2> HIDE DEF began
    <2>2. k \in Job
      <3>1. [j.hands EXCEPT ![w] = @ + 1] \in [Holders -> Nat]
        BY <1>1, <2>1
      <3>2. QED
        BY <1>1, <2>1, <3>1 DEF Job, Unfinished
    <2>3. /\ k.order = j.order /\ k.byHand = j.byHand /\ k.type = j.type /\ k.meter = j.meter
          /\ k.obis = j.obis /\ k.created = j.created /\ k.overrun = j.overrun
          /\ k.status = "RUNNING" /\ k.hands = [j.hands EXCEPT ![w] = @ + 1]
      BY <1>1 DEF Job
    <2>4. Become(j, k) /\ j.status = "QUEUED"
      BY <1>1, <1>2 DEF Begin, began
    <2> HIDE DEF k
    <2>5. Stays(j, k)
      BY <2>3, <2>4 DEF Stays, IsOpen, Unfinished
    <2>6. InHand(k)
      BY <1>1, <2>1, <2>3, <2>4 DEF InHand, IsOpen, Unfinished, Held
    <2>7. QED
      BY <2>2, <2>4, <2>5, <2>6, BecomeGoesOn
  <1>3. ASSUME NEW w \in Writers, Succeed(j, w) \/ Fail(j, w) PROVE JobsGoOn
    <2>1. /\ j.hands[w] > 0
          /\ \E status \in {"SUCCEEDED", "FAILED"} : Become(j, Left(j, w, status))
      BY <1>3 DEF Succeed, Fail
    <2>2. QED
      BY <1>1, <2>1, LeftTypes, BecomeGoesOn
  <1>4. ASSUME NEW w \in Writers, Lose(j, w) PROVE JobsGoOn
    <2> DEFINE k == [j EXCEPT !.hands[w] = @ - 1, !.began[w] = 0]
    <2>1. /\ w \in Holders /\ j.hands[w] \in Nat /\ j.hands[w] - 1 \in Nat /\ Become(j, k)
          /\ j.hands[w] > 0
      BY <1>1, <1>4 DEF Lose, Holders
    <2>2. k \in Job
      BY <1>1, <2>1 DEF Job
    <2>3. /\ k.order = j.order /\ k.byHand = j.byHand /\ k.type = j.type /\ k.meter = j.meter
          /\ k.obis = j.obis /\ k.created = j.created /\ k.overrun = j.overrun
          /\ k.status = j.status /\ k.ended = j.ended /\ k.hands = [j.hands EXCEPT ![w] = @ - 1]
      BY <1>1 DEF Job
    <2> HIDE DEF k
    <2>4. Stays(j, k)
      BY <2>3 DEF Stays, IsOpen
    <2>5. \A v \in Holders : k.hands[v] \in Nat /\ k.hands[v] <= j.hands[v]
      BY <1>1, <2>1, <2>3
    <2>6. InHand(k)
      BY <1>1, <2>3, <2>5 DEF InHand, IsOpen, Held, Holders
    <2>7. QED
      BY <2>1, <2>2, <2>4, <2>6, BecomeGoesOn
  <1>5. CASE Arrive(j)
    <2>1. /\ "call" \in Holders /\ "report" \in Holders /\ "report" \in Writers
          /\ j.hands["call"] \in Nat /\ j.hands["call"] - 1 \in Nat /\ j.hands["report"] \in Nat
          /\ j.hands["call"] > 0
      BY <1>1, <1>5 DEF Arrive, Holders, Writers
    <2>2. CASE j.status = "RUNNING"
      <3> DEFINE k == [j EXCEPT !.hands["call"] = @ - 1, !.hands["report"] = @ + 1,
                                !.began = Since(j, "report")]
      <3>1. Become(j, k)
        BY <1>5, <2>2 DEF Arrive
      <3>2. Since(j, "report") \in [Writers -> Slots]
        BY <1>1, <2>1 DEF Since
      <3>3. k \in Job
        <4>1. [j.hands EXCEPT !["call"] = @ - 1, !["report"] = @ + 1] \in [Holders -> Nat]
          BY <1>1, <2>1
        <4>2. QED
          BY <1>1, <2>1, <3>2, <4>1 DEF Job
      <3>4. /\ k.order = j.order /\ k.byHand = j.byHand /\ k.type = j.type /\ k.meter = j.meter
            /\ k.obis = j.obis /\ k.created = j.created /\ k.overrun = j.overrun
            /\ k.status = j.status /\ k.ended = j.ended
            /\ k.hands = [j.hands EXCEPT !["call"] = @ - 1, !["report"] = @ + 1]
        BY <1>1 DEF Job
      <3> HIDE DEF k
      <3>5. Stays(j, k)
        BY <3>4 DEF Stays, IsOpen
      <3>6. ASSUME ~j.overrun
            PROVE  /\ k.hands["report"] = 1
                   /\ \A v \in Holders : v # "report" => k.hands[v] = 0
        <4>1. /\ j.hands["call"] = 1 /\ \A v \in Holders : v # "call" => ~ (j.hands[v] > 0)
          BY <1>1, <2>1, <3>6 DEF InHand
        <4>2. \A v \in Holders : v # "call" => j.hands[v] = 0
          BY <1>1, <4>1
        <4>3. QED
          BY <1>1, <2>1, <3>4, <4>1, <4>2
      <3>7. InHand(k)
        BY <2>1, <2>2, <3>4, <3>6 DEF InHand, IsOpen, Unfinished
      <3>8. QED
        BY <3>1, <3>3, <3>5, <3>7, BecomeGoesOn
    <2>3. CASE j.status # "RUNNING"
      <3> DEFINE k == [j EXCEPT !.hands["call"] = @ - 1]
      <3>1. Become(j, k)
        BY <1>5, <2>3 DEF Arrive
      <3>2. k \in Job
        BY <1>1, <2>1 DEF Job
      <3>3. /\ k.order = j.order /\ k.byHand = j.byHand /\ k.type = j.type /\ k.meter = j.meter
            /\ k.obis = j.obis /\ k.created = j.created /\ k.overrun = j.overrun
            /\ k.status = j.status /\ k.ended = j.ended
            /\ k.hands = [j.hands EXCEPT !["call"] = @ - 1]
        BY <1>1 DEF Job
      <3> HIDE DEF k
      <3>4. Stays(j, k)
        BY <3>3 DEF Stays, IsOpen
      <3>5. \A v \in Holders : k.hands[v] \in Nat /\ k.hands[v] <= j.hands[v]
        BY <1>1, <2>1, <3>3
      <3>6. InHand(k)
        BY <1>1, <3>3, <3>5 DEF InHand, IsOpen, Held, Holders
      <3>7. QED
        BY <3>1, <3>2, <3>4, <3>6, BecomeGoesOn
    <2>4. QED
      BY <2>2, <2>3
  <1>6. CASE PutBack(j)
    <2> DEFINE k == [j EXCEPT !.status = "QUEUED", !.hands["worker"] = @ - 1,
                              !.began["worker"] = 0, !.ended = 0]
    <2>1. /\ "worker" \in Holders /\ "worker" \in Writers /\ j.hands["worker"] \in Nat
          /\ j.hands["worker"] - 1 \in Nat /\ j.hands["worker"] > 0 /\ Become(j, k)
      BY <1>1, <1>6 DEF PutBack, Holders, Writers
    <2>2. k \in Job
      BY <1>1, <2>1 DEF Job, Unfinished
    <2>3. /\ k.order = j.order /\ k.byHand = j.byHand /\ k.type = j.type /\ k.meter = j.meter
          /\ k.obis = j.obis /\ k.created = j.created /\ k.overrun = j.overrun
          /\ k.status = "QUEUED" /\ k.hands = [j.hands EXCEPT !["worker"] = @ - 1]
      BY <1>1 DEF Job
    <2> HIDE DEF k
    <2>4. IsOpen(j) \/ j.overrun
      BY <1>1, <2>1 DEF InHand
    <2>5. Stays(j, k)
      BY <2>3, <2>4 DEF Stays, IsOpen, Unfinished
    <2>6. ASSUME ~j.overrun PROVE \A v \in Holders : k.hands[v] = 0
      <3>1. TAKE v \in Holders
      <3>2. j.hands["worker"] = 1 /\ (v # "worker" => ~ (j.hands[v] > 0))
        BY <1>1, <2>1, <2>6 DEF InHand
      <3>3. QED
        BY <1>1, <2>1, <2>3, <3>2
    <2>7. InHand(k)
      BY <2>3, <2>6 DEF InHand, IsOpen, Unfinished, Held
    <2>8. QED
      BY <2>1, <2>2, <2>5, <2>7, BecomeGoesOn
  <1>7. CASE Reap(j)
    <2>1. PICK calls \in 0 .. j.hands["call"] :
             LET i == [j EXCEPT !.hands["call"] = calls]
                 lost == j.status = "RUNNING" /\ ~Held(i)
             IN  Become(j, [i EXCEPT !.status = "QUEUED", !.ended = 0, !.overrun = @ \/ ~lost])
      BY <1>7 DEF Reap
    <2> DEFINE i == [j EXCEPT !.hands["call"] = calls]
               lost == j.status = "RUNNING" /\ ~Held(i)
               k == [i EXCEPT !.status = "QUEUED", !.ended = 0, !.overrun = @ \/ ~lost]
    <2>2. i \in Job /\ i.hands = [j.hands EXCEPT !["call"] = calls] /\ i.overrun = j.overrun
      BY <1>1 DEF Job, Holders
    <2>3. Become(j, k)
      BY <2>1
    <2>4. /\ i.order = j.order /\ i.byHand = j.byHand /\ i.type = j.type /\ i.meter = j.meter
          /\ i.obis = j.obis /\ i.created = j.created
      BY <1>1 DEF Job
    <2> HIDE DEF i
    <2>5. k \in Job
      BY <1>1, <2>2 DEF Job, Unfinished
    <2>6. /\ k.order = i.order /\ k.byHand = i.byHand /\ k.type = i.type /\ k.meter = i.meter
          /\ k.obis = i.obis /\ k.created = i.created /\ k.status = "QUEUED"
          /\ k.hands = i.hands /\ k.overrun = (i.overrun \/ ~lost)
      BY <2>2 DEF Job
    <2> HIDE DEF k
    <2>7. lost => IsOpen(j) /\ ~Held(k)
      BY <2>6 DEF IsOpen, Unfinished, Held
    <2> HIDE DEF lost
    <2>8. Stays(j, k)
      BY <1>1, <2>2, <2>4, <2>6, <2>7 DEF Stays, IsOpen, Unfinished
    <2>9. k.overrun \/ ~Held(k)
      BY <1>1, <2>2, <2>6, <2>7
    <2>10. InHand(k)
      BY <2>6, <2>9 DEF InHand, IsOpen, Unfinished, Held
    <2>11. QED
      BY <2>3, <2>5, <2>8, <2>10, BecomeGoesOn
  <1>8. QED
    BY <1>2, <1>3, <1>4, <1>5, <1>6, <1>7 DEF JobStep

\* The sweep and a restart end jobs.
LEMMA EndingSteps ==
  ASSUME TypeOK, HandsInv, Sweep \/ Restart
  PROVE  JobsGoOn
  <1>1. jobs \subseteq Job /\ now \in Slots /\ 0 \in Slots
    BY TimeAssumption DEF TypeOK, Slots
  <1>2. CASE Sweep
    <2> DEFINE K(j) == IF Key(j) \in swept
                       THEN [j EXCEPT !.status = "FAILED", !.ended = now, !.overrun = @ \/ Held(j)]
                       ELSE j
    <2>1. jobs' = {K(j) : j \in jobs}
      BY <1>2 DEF Sweep
    <2>2. ASSUME NEW j \in jobs PROVE K(j) \in Job /\ Stays(j, K(j)) /\ InHand(K(j))
      <3> DEFINE k == [j EXCEPT !.status = "FAILED", !.ended = now, !.overrun = @ \/ Held(j)]
      <3>1. /\ j \in Job /\ InHand(j) /\ j.overrun \in BOOLEAN /\ j.hands \in [Holders -> Nat]
        BY <1>1 DEF HandsInv, Job
      <3>2. Held(j) \in BOOLEAN
        BY DEF Held
      <3>3. /\ k \in Job
            /\ k.order = j.order /\ k.byHand = j.byHand /\ k.type = j.type /\ k.meter = j.meter
            /\ k.obis = j.obis /\ k.created = j.created /\ k.overrun = (j.overrun \/ Held(j))
            /\ k.status = "FAILED" /\ k.ended = now /\ k.hands = j.hands
        BY <1>1, <3>1, <3>2 DEF Job
      <3> HIDE DEF k
      <3>4. Stays(j, k)
        BY <3>3 DEF Stays, IsOpen, Unfinished
      <3>5. InHand(k)
        <4>1. SUFFICES ASSUME ~Held(j) PROVE InHand(k)
          BY <3>3 DEF InHand
        <4>2. \A w \in Holders : k.hands[w] = 0
          BY <3>1, <3>3, <4>1 DEF Held
        <4>3. QED
          BY <3>3, <4>2 DEF InHand, IsOpen, Unfinished, Holders
      <3>6. Stays(j, j)
        BY DEF Stays
      <3>7. QED
        BY <3>1, <3>3, <3>4, <3>5, <3>6 DEF k
    <2> HIDE DEF K
    <2>3. HandsInv'
      BY <2>1, <2>2 DEF HandsInv, InHand, IsOpen, Held
    <2>4. QED
      BY <2>1, <2>2, <2>3 DEF JobsGoOn
  <1>3. CASE Restart
    <2> DEFINE K(j) == LET k == [j EXCEPT !.hands["worker"] = 0, !.hands["report"] = 0,
                                          !.began = [w \in Writers |-> 0]]
                       IN  IF j.status = "RUNNING"
                           THEN [k EXCEPT !.status = "FAILED", !.ended = now] ELSE k
    <2>1. jobs' = {K(j) : j \in jobs}
      BY <1>3 DEF Restart
    <2>2. ASSUME NEW j \in jobs PROVE K(j) \in Job /\ Stays(j, K(j)) /\ InHand(K(j))
      <3> DEFINE i == [j EXCEPT !.hands["worker"] = 0, !.hands["report"] = 0,
                                !.began = [w \in Writers |-> 0]]
                 k == K(j)
      <3>1. /\ j \in Job /\ InHand(j) /\ j.hands \in [Holders -> Nat] /\ j.status \in Unfinished \cup {"SUCCEEDED", "FAILED"}
        BY <1>1 DEF HandsInv, Job
      <3>2. /\ i \in Job
            /\ i.order = j.order /\ i.byHand = j.byHand /\ i.type = j.type /\ i.meter = j.meter
            /\ i.obis = j.obis /\ i.created = j.created /\ i.overrun = j.overrun
            /\ i.status = j.status /\ i.ended = j.ended
            /\ i.hands = [j.hands EXCEPT !["worker"] = 0, !["report"] = 0]
        BY <1>1, <3>1 DEF Job, Holders, Writers
      <3>3. k = IF j.status = "RUNNING" THEN [i EXCEPT !.status = "FAILED", !.ended = now] ELSE i
        OBVIOUS
      <3> HIDE DEF i, k
      <3>4. /\ k \in Job
            /\ k.order = j.order /\ k.byHand = j.byHand /\ k.type = j.type /\ k.meter = j.meter
            /\ k.obis = j.obis /\ k.created = j.created /\ k.overrun = j.overrun
            /\ k.hands = [j.hands EXCEPT !["worker"] = 0, !["report"] = 0]
            /\ \/ j.status = "RUNNING" /\ k.status = "FAILED" /\ k.ended = now
               \/ j.status # "RUNNING" /\ k.status = j.status /\ k.ended = j.ended
        BY <1>1, <3>2, <3>3 DEF Job
      <3>5. Stays(j, k)
        BY <3>4 DEF Stays, IsOpen, Unfinished
      <3>6. /\ \A w \in Writers : k.hands[w] = 0
            /\ \A w \in Holders : k.hands[w] \in Nat /\ k.hands[w] <= j.hands[w]
        BY <3>1, <3>4 DEF Holders, Writers
      <3>7. InHand(k)
        BY <3>1, <3>4, <3>6 DEF InHand, IsOpen, Unfinished, Held
      <3>8. QED
        BY <3>4, <3>5, <3>7 DEF k
    <2> HIDE DEF K
    <2>3. HandsInv'
      BY <2>1, <2>2 DEF HandsInv, InHand, IsOpen, Held
    <2>4. QED
      BY <2>1, <2>2, <2>3 DEF JobsGoOn
  <1>4. QED
    BY <1>2, <1>3

\* Every step keeps the types and who has which job in hands.
LEMMA TypeStep == TypeOK /\ HandsInv /\ [Next]_vars => TypeOK'
  <1> SUFFICES ASSUME TypeOK, HandsInv, [Next]_vars PROVE TypeOK'
    OBVIOUS
  <1>0. /\ NoTask \in [step : {"idle", "selected", "looked", "asked"},
                       schedule : Schedules \cup {NoSchedule}, moment : Slots, order : Nat,
                       all : SUBSET Meters, meters : SUBSET Meters, fresh : SUBSET Meters,
                       pairs : SUBSET [meter : Meters, obis : Obis]]
        /\ NoTask.step = "idle" /\ now \in Slots /\ jobs \subseteq Job /\ jobType \in [Schedules -> JobTypes]
    BY SchedulesAssumption, TimeAssumption DEF NoTask, TypeOK, Slots
  <1> USE DEF tickVars, jobVars
  <1>1. CASE Tick
    BY <1>1 DEF Tick, TypeOK
  <1>2. ASSUME NEW s \in Schedules, Select(s) PROVE TypeOK'
    <2> DEFINE members == IF s \in AllActiveMeters THEN Meters ELSE Group[s]
    <2>1. members \subseteq Meters
      BY SchedulesAssumption
    <2>2. task' \in [step : {"idle", "selected", "looked", "asked"},
                     schedule : Schedules \cup {NoSchedule}, moment : Slots, order : Nat,
                     all : SUBSET Meters, meters : SUBSET Meters, fresh : SUBSET Meters,
                     pairs : SUBSET [meter : Meters, obis : Obis]]
      BY <1>2, <2>1 DEF Select, TypeOK
    <2>3. QED
      BY <1>2, <2>2 DEF Select, TypeOK
  <1>3. CASE Look
    BY <1>3 DEF Look, TypeOK
  <1>4. CASE Ask
    <2> DEFINE pairs == {p \in [meter : task.meters, obis : ObisOf[task.schedule]] :
                            ~Settled(task.schedule, p.meter, p.obis)}
    <2>1. pairs \subseteq [meter : Meters, obis : Obis]
      <3>1. task.schedule \in Schedules
        BY <1>4, TaskTypes DEF Ask
      <3>2. ObisOf[task.schedule] \subseteq Obis
        BY <3>1 DEF Obis
      <3>3. QED
        BY <3>2, TaskTypes
    <2>2. task' = [task EXCEPT !.step = "asked", !.pairs = pairs]
      BY <1>4 DEF Ask
    <2> HIDE DEF pairs
    <2>3. QED
      BY <1>4, <2>1, <2>2 DEF Ask, TypeOK
  <1>5. CASE Commit
    <2>1. {NewJob(task.order, FALSE, jobType[task.schedule], p.meter, p.obis, task.moment) :
              p \in task.pairs} \subseteq Job
      <3>1. jobType[task.schedule] \in JobTypes
        BY <1>0, <1>5, TaskTypes DEF Commit
      <3>2. \A p \in task.pairs : p.meter \in Meters /\ p.obis \in Obis
        BY TaskTypes
      <3>3. QED
        <4>1. ASSUME NEW p \in task.pairs
              PROVE  NewJob(task.order, FALSE, jobType[task.schedule], p.meter, p.obis,
                            task.moment) \in Job
          BY <3>1, <3>2, TaskTypes, TimeAssumption DEF NewJob, Job, Slots, Unfinished
        <4>2. QED
          BY <4>1
    <2>2. last' \in [Schedules -> Slots]
      BY <1>5, TaskTypes DEF Commit, TypeOK
    <2>3. jobs' \subseteq Job
      BY <1>0, <1>5, <2>1 DEF Commit
    <2>4. task' = NoTask /\ learnt' = {}
          /\ UNCHANGED <<now, jobType, due, orders, manual, swept, readings, rated, faults>>
      BY <1>5 DEF Commit
    <2>5. QED
      BY <1>0, <2>2, <2>3, <2>4 DEF TypeOK
  <1>6. CASE Break
    <2>1. faults' \in Nat /\ manual + faults' <= MaxExtras
      BY <1>6, TaskTypes, TimeAssumption DEF Break
    <2>2. QED
      BY <1>0, <1>6, <2>1 DEF Break, TypeOK
  <1>7. ASSUME NEW type \in ByHand, NEW m \in Meters, NEW o \in Obis, Press(type, m, o)
        PROVE  TypeOK'
    <2>1. NewJob(orders + 1, TRUE, type, m, o, now) \in Job
      BY <1>0, TaskTypes, TimeAssumption, SchedulesAssumption
         DEF NewJob, Job, Slots, Unfinished
    <2>2. jobs' \subseteq Job
      BY <1>0, <1>7, <2>1 DEF Press
    <2>3. manual' \in Nat /\ manual' + faults <= MaxExtras /\ orders' \in Nat
      BY <1>7, TaskTypes, TimeAssumption DEF Press
    <2>4. QED
      BY <1>7, <2>2, <2>3 DEF Press, TypeOK
  <1>8. ASSUME NEW j \in jobs, JobStep(j) PROVE TypeOK'
    <2>1. j \in Job /\ jobs' \subseteq Job
      BY <1>8, JobSteps DEF JobsGoOn, TypeOK
    <2>2. ASSUME NEW w \in Writers, Succeed(j, w) PROVE TypeOK'
      <3>1. j.order \in Nat /\ j.meter \in Meters /\ j.obis \in Obis /\ j.began[w] \in Slots
        BY <2>1, JobTypesOf
      <3>2. readings' \subseteq [order : Nat, meter : Meters, obis : Obis, at : Slots]
        BY <2>2, <3>1 DEF Succeed, TypeOK
      <3>3. rated' \subseteq Meters /\ learnt' \subseteq Meters
        BY <2>2, <3>1 DEF Succeed, TypeOK
      <3>4. QED
        BY <2>1, <2>2, <3>2, <3>3 DEF Succeed, NothingElse, TypeOK
    <2>3. CASE \/ \E w \in {"worker", "call"} : Begin(j, w)
               \/ \E w \in Writers : Fail(j, w)
               \/ Arrive(j) \/ PutBack(j)
      BY <2>1, <2>3 DEF Begin, Fail, Arrive, PutBack, NothingElse, TypeOK
    <2>4. CASE Reap(j) \/ \E w \in Writers : Lose(j, w)
      <3>1. faults' \in Nat /\ manual + faults' <= MaxExtras
        <4>1. faults \in Nat /\ manual \in Nat /\ MaxExtras \in Nat
          BY TaskTypes, TimeAssumption
        <4>2. CASE Reap(j)
          <5>1. (faults' = faults \/ faults' = faults + 1) /\ manual + faults' <= MaxExtras
            BY <4>2 DEF Reap
          <5>2. QED
            BY <4>1, <5>1
        <4>3. ASSUME NEW w \in Writers, Lose(j, w)
              PROVE  faults' \in Nat /\ manual + faults' <= MaxExtras
          <5>1. faults' = faults + 1 /\ manual + faults < MaxExtras
            BY <4>3 DEF Lose
          <5>2. QED
            BY <4>1, <5>1
        <4>4. QED
          BY <2>4, <4>2, <4>3
      <3>2. UNCHANGED <<now, tickVars, orders, manual, swept, readings, rated, learnt>>
        BY <2>4 DEF Reap, Lose, NothingElse
      <3>3. QED
        BY <2>1, <3>1, <3>2 DEF TypeOK
    <2>5. QED
      BY <1>8, <2>2, <2>3, <2>4 DEF JobStep
  <1>9. CASE SelectExpired \/ Sweep
    <2>1. CASE SelectExpired
      <3>1. \A j \in jobs : Key(j) \in Nat \X Meters \X Obis
        BY <1>0, JobTypesOf DEF Key
      <3>2. QED
        BY <2>1, <3>1 DEF SelectExpired, NothingElse, TypeOK
    <2>2. CASE Sweep
      BY <2>2, EndingSteps DEF Sweep, NothingElse, JobsGoOn, TypeOK
    <2>3. QED
      BY <1>9, <2>1, <2>2
  <1>10. CASE Restart
    <2>1. jobs' \subseteq Job
      BY <1>10, EndingSteps DEF JobsGoOn
    <2>2. faults' \in Nat /\ manual + faults' <= MaxExtras
      <3>1. faults' = faults + 1 /\ manual + faults < MaxExtras
        BY <1>10 DEF Restart
      <3>2. QED
        BY <3>1, TaskTypes, TimeAssumption
    <2>3. QED
      <3>1. task' = NoTask /\ due' = {} /\ learnt' = {} /\ swept' = {}
            /\ UNCHANGED <<now, jobType, last, orders, manual, readings, rated>>
        BY <1>10 DEF Restart
      <3>2. QED
        BY <1>0, <2>1, <2>2, <3>1 DEF TypeOK
  <1>11. CASE Advance
    BY <1>11, TimeAssumption DEF Advance, Slots, TypeOK
  <1>12. CASE UNCHANGED vars
    BY <1>12 DEF vars, TypeOK
  <1>13. QED
    BY <1>1, <1>2, <1>3, <1>4, <1>5, <1>6, <1>7, <1>8, <1>9, <1>10, <1>11, <1>12
       DEF Next, Scheduling, JobStep

LEMMA TypeInit == Init => TypeOK /\ HandsInv
  BY SchedulesAssumption, TimeAssumption DEF Init, TypeOK, NoTask, Slots, HandsInv

LEMMA HandsStep == TypeOK /\ HandsInv /\ [Next]_vars => HandsInv'
  <1> SUFFICES ASSUME TypeOK, HandsInv, [Next]_vars PROVE HandsInv'
    OBVIOUS
  <1> USE DEF tickVars, jobVars
  <1>1. ASSUME NEW N, jobs' = jobs \cup N, \A k \in N : InHand(k) PROVE HandsInv'
    BY <1>1 DEF HandsInv, InHand, IsOpen, Held
  <1>2. CASE UNCHANGED jobs
    BY <1>2 DEF HandsInv, InHand, IsOpen, Held
  <1>3. CASE Commit
    <2> DEFINE New(p) == NewJob(task.order, FALSE, jobType[task.schedule], p.meter, p.obis, task.moment)
    <2>1. jobs' = jobs \cup {New(p) : p \in task.pairs}
      BY <1>3 DEF Commit
    <2>2. \A p \in task.pairs : InHand(New(p))
      BY DEF NewJob, InHand, IsOpen, Unfinished, Held
    <2> DEFINE N == {New(p) : p \in task.pairs}
    <2> HIDE DEF New
    <2>3. \A k \in N : InHand(k)
      BY <2>2
    <2>4. jobs' = jobs \cup N
      BY <2>1
    <2> HIDE DEF N
    <2>5. QED
      BY <1>1, <2>3, <2>4
  <1>4. ASSUME NEW type \in ByHand, NEW m \in Meters, NEW o \in Obis, Press(type, m, o)
        PROVE  HandsInv'
    <2>1. InHand(NewJob(orders + 1, TRUE, type, m, o, now))
      BY DEF NewJob, InHand, IsOpen, Unfinished, Held
    <2> DEFINE N == {NewJob(orders + 1, TRUE, type, m, o, now)}
    <2>2. jobs' = jobs \cup N /\ \A k \in N : InHand(k)
      BY <1>4, <2>1 DEF Press
    <2> HIDE DEF N
    <2>3. QED
      BY <1>1, <2>2
  <1>5. ASSUME NEW j \in jobs, JobStep(j) PROVE HandsInv'
    BY <1>5, JobSteps DEF JobsGoOn
  <1>6. CASE Sweep \/ Restart
    BY <1>6, EndingSteps DEF JobsGoOn
  <1>7. QED
    BY <1>2, <1>3, <1>4, <1>5, <1>6
       DEF Next, Scheduling, Tick, Select, Look, Ask, Break, SelectExpired, Advance, vars, JobStep

\* The type invariant of the scheduler.
THEOREM SchedulerTypeCorrect == Spec => []TypeOK
  <1>1. TypeOK /\ HandsInv /\ [Next]_vars => (TypeOK /\ HandsInv)'
    BY TypeStep, HandsStep
  <1>2. QED
    BY <1>1, TypeInit, PTL DEF Spec

-----------------------------------------------------------------------------
(* Nothing lies on top of an unfinished job *)

\* When jobs go on and the trigger stands still, what it has found out stays true.
LEMMA GoingOn ==
  ASSUME SchedulerInv, TypeOK', JobsGoOn,
         UNCHANGED <<now, jobType, last, due, task, orders>>,
         readings \subseteq readings', rated \subseteq rated', learnt \subseteq learnt',
         Busy => rated' \ rated \subseteq learnt'
  PROVE  SchedulerInv'
  <1>1. /\ \A j \in jobs : j.order \in Nat /\ j.ended \in Nat
        /\ \A k \in jobs' : k.order \in Nat /\ k.ended \in Nat
        /\ task.moment \in Nat /\ now \in Nat /\ task.order \in Nat
    <2>1. TypeOK /\ jobs \subseteq Job /\ jobs' \subseteq Job /\ Slots \subseteq Nat
      BY TimeAssumption DEF SchedulerInv, JobsGoOn, TypeOK, Slots
    <2>2. QED
      BY <2>1, TaskTypes, JobTypesOf
  <1>2. \A k \in jobs' : \E j \in jobs : Stays(j, k)
    BY DEF JobsGoOn
  <1>3. OldOnesAlone'
    <2>1. SUFFICES ASSUME NEW j \in jobs', NEW k \in jobs', j.type = k.type, j.meter = k.meter,
                          j.order < k.order, IsOpen(j)
                   PROVE  k.byHand \/ j.overrun
      BY DEF OldOnesAlone, IsOpen
    <2>2. PICK i \in jobs : Stays(i, j)
      BY <1>2
    <2>3. PICK l \in jobs : Stays(l, k)
      BY <1>2
    <2>4. IsOpen(i) \/ j.overrun
      BY <2>1, <2>2 DEF Stays
    <2>5. i.type = l.type /\ i.meter = l.meter /\ i.order < l.order
      BY <2>1, <2>2, <2>3 DEF Stays
    <2>6. IsOpen(i) => l.byHand \/ i.overrun
      BY <2>5 DEF SchedulerInv, OldOnesAlone
    <2>7. QED
      BY <2>2, <2>3, <2>4, <2>6 DEF Stays
  <1>4. Numbered'
    <2>1. \A k \in jobs' : k.order <= orders
      BY <1>2 DEF SchedulerInv, Numbered, Stays
    <2>2. Busy => \A k \in jobs' : k.order # task.order /\ (task.order < k.order => k.byHand)
      BY <1>2 DEF SchedulerInv, Numbered, Stays
    <2>3. Busy => \A m \in task.fresh : m \in rated' => m \in learnt'
      BY DEF SchedulerInv, Numbered
    <2>4. QED
      BY <2>1, <2>2, <2>3 DEF SchedulerInv, Numbered, Busy
  <1>5. LookedWell'
    <2>1. SUFFICES ASSUME task.step \in {"looked", "asked"}
                   PROVE  /\ \A k \in jobs' :
                               k.type = Type /\ k.meter \in task.meters /\ k.order < task.order
                               /\ IsOpen(k) => k.overrun
                          /\ \A m \in task.all \ task.meters :
                               \E k \in jobs' : k.type = Type /\ k.meter = m /\ InTheWay(k)
      BY DEF LookedWell, IsOpen, Type, InTheWay
    <2>2. ASSUME NEW k \in jobs', k.type = Type, k.meter \in task.meters, k.order < task.order,
                 IsOpen(k)
          PROVE  k.overrun
      <3>1. PICK j \in jobs : Stays(j, k)
        BY <1>2
      <3>2. QED
        BY <2>1, <2>2, <3>1 DEF SchedulerInv, LookedWell, Stays
    <2>3. ASSUME NEW m \in task.all \ task.meters
          PROVE  \E k \in jobs' : k.type = Type /\ k.meter = m /\ InTheWay(k)
      <3>1. PICK j \in jobs : j.type = Type /\ j.meter = m /\ InTheWay(j)
        BY <2>1 DEF SchedulerInv, LookedWell
      <3>2. PICK k \in jobs' : Stays(j, k)
        BY DEF JobsGoOn
      <3>3. task.moment <= now
        BY <2>1 DEF SchedulerInv, Numbered, Busy
      <3>4. InTheWay(k)
        BY <1>1, <3>1, <3>2, <3>3 DEF InTheWay, Stays, IsOpen
      <3>5. QED
        BY <3>1, <3>2, <3>4 DEF Stays
    <2>4. QED
      BY <2>2, <2>3
  <1>6. AskedWell'
    BY DEF SchedulerInv, AskedWell, ReadToday, Type
  <1>7. QED
    BY <1>3, <1>4, <1>5, <1>6 DEF SchedulerInv, JobsGoOn

\* Without a trigger there is less to know.
LEMMA Idle ==
  ASSUME TypeOK', HandsInv', task' = NoTask, OldOnesAlone', \A j \in jobs' : j.order <= orders'
  PROVE  SchedulerInv'
  <1>1. task'.step = "idle"
    BY DEF NoTask
  <1>2. QED
    BY <1>1 DEF SchedulerInv, Numbered, LookedWell, AskedWell, Busy

\* The orders by hand lie on top of whatever there is.
LEMMA PressStep ==
  ASSUME SchedulerInv, TypeOK', HandsInv',
         NEW type \in ByHand, NEW m \in Meters, NEW o \in Obis, Press(type, m, o)
  PROVE  SchedulerInv'
  <1> DEFINE new == NewJob(orders + 1, TRUE, type, m, o, now)
  <1>1. /\ jobs' = jobs \cup {new} /\ orders' = orders + 1
        /\ UNCHANGED <<now, jobType, last, due, task, readings, rated, learnt>>
    BY DEF Press, tickVars
  <1>2. new.order = orders + 1 /\ new.byHand = TRUE
    BY DEF NewJob
  <1>3. /\ \A j \in jobs : j.order \in Nat /\ j.order <= orders
        /\ orders \in Nat /\ task.order \in Nat
    <2>1. TypeOK /\ jobs \subseteq Job
      BY DEF SchedulerInv, TypeOK
    <2>2. QED
      BY <2>1, TaskTypes, JobTypesOf DEF SchedulerInv, Numbered
  <1> HIDE DEF new
  <1>4. OldOnesAlone'
    BY <1>1, <1>2, <1>3 DEF SchedulerInv, OldOnesAlone, IsOpen
  <1>5. Numbered'
    BY <1>1, <1>2, <1>3 DEF SchedulerInv, Numbered, Busy
  <1>6. LookedWell'
    <2>1. SUFFICES ASSUME task.step \in {"looked", "asked"}
                   PROVE  /\ \A k \in jobs' :
                               k.type = Type /\ k.meter \in task.meters /\ k.order < task.order
                               /\ IsOpen(k) => k.overrun
                          /\ \A i \in task.all \ task.meters :
                               \E k \in jobs' : k.type = Type /\ k.meter = i /\ InTheWay(k)
      BY <1>1 DEF LookedWell, IsOpen, Type, InTheWay
    <2>2. task.order <= orders
      BY <2>1 DEF SchedulerInv, Numbered, Busy
    <2>3. QED
      BY <1>1, <1>2, <1>3, <2>1, <2>2 DEF SchedulerInv, LookedWell
  <1>7. AskedWell'
    BY <1>1 DEF SchedulerInv, AskedWell, ReadToday, Type
  <1>8. QED
    BY <1>4, <1>5, <1>6, <1>7 DEF SchedulerInv

\* The first question finds every meter with an unfinished job.
LEMMA LookStep == ASSUME SchedulerInv, TypeOK', HandsInv', Look PROVE SchedulerInv'
  <1>1. TypeOK /\ task.step = "selected"
    BY DEF SchedulerInv, Look
  <1>2. /\ task'.step = "looked" /\ task'.meters = task.meters \ Outstanding(Type)
        /\ task'.schedule = task.schedule /\ task'.moment = task.moment
        /\ task'.order = task.order /\ task'.all = task.all /\ task'.fresh = task.fresh
        /\ UNCHANGED <<now, jobType, orders, jobs, readings, rated, learnt>>
    BY <1>1 DEF Look, TypeOK, Type, jobVars
  <1>3. LookedWell'
    <2>1. \A j \in jobs : j.type = Type /\ IsOpen(j) => j.meter \in Outstanding(Type)
      BY DEF Outstanding, IsOpen
    <2>2. \A m \in Outstanding(Type) : \E j \in jobs : j.type = Type /\ j.meter = m /\ InTheWay(j)
      BY DEF Outstanding, InTheWay
    <2>3. task.all \ (task.meters \ Outstanding(Type)) \subseteq Outstanding(Type)
      BY <1>1 DEF SchedulerInv, Numbered, Busy
    <2>4. QED
      BY <1>2, <2>1, <2>2, <2>3 DEF LookedWell, Type, IsOpen, InTheWay
  <1>4. QED
    BY <1>1, <1>2, <1>3 DEF SchedulerInv, OldOnesAlone, IsOpen, Numbered, Busy, AskedWell

\* What is left out by the second question has been read.
LEMMA AskStep == ASSUME SchedulerInv, TypeOK', HandsInv', Ask PROVE SchedulerInv'
  <1> DEFINE s == task.schedule
             pairs == {p \in [meter : task.meters, obis : ObisOf[s]] : ~Settled(s, p.meter, p.obis)}
  <1>1. TypeOK /\ task.step = "looked"
    BY DEF SchedulerInv, Ask
  <1>2. /\ task'.step = "asked" /\ task'.pairs = pairs
        /\ task'.meters = task.meters /\ task'.schedule = task.schedule
        /\ task'.moment = task.moment /\ task'.order = task.order
        /\ task'.all = task.all /\ task'.fresh = task.fresh
        /\ UNCHANGED <<now, jobType, orders, jobs, readings, rated, learnt>>
    BY <1>1 DEF Ask, TypeOK, jobVars
  <1>3. LookedWell'
    BY <1>1, <1>2 DEF SchedulerInv, LookedWell, Type, IsOpen, InTheWay
  <1>4. \A p \in pairs : p.meter \in task.meters /\ (Type = RATED => p.meter \in task.fresh)
    BY DEF Settled, Type
  <1>5. ASSUME Type = READ, NEW m \in task.meters, NEW o \in ObisOf[s], ~ReadToday(m, o)
        PROVE  [meter |-> m, obis |-> o] \in pairs
    BY <1>5 DEF Settled, Today, ReadToday, Type, READ, PROFILE, RATED
  <1> HIDE DEF pairs
  <1>6. AskedWell'
    BY <1>2, <1>4, <1>5 DEF AskedWell, Type, ReadToday
  <1>7. QED
    BY <1>1, <1>2, <1>3, <1>6 DEF SchedulerInv, OldOnesAlone, IsOpen, Numbered, Busy

\* What is ordered has nothing of its type below it that is not finished.
LEMMA CommitStep == ASSUME SchedulerInv, TypeOK', HandsInv', Commit PROVE SchedulerInv'
  <1> DEFINE New(p) == NewJob(task.order, FALSE, Type, p.meter, p.obis, task.moment)
  <1>1. /\ TypeOK /\ task.step = "asked" /\ Busy
        /\ jobs' = jobs \cup {New(p) : p \in task.pairs}
        /\ task' = NoTask /\ orders' = orders
    BY DEF SchedulerInv, Commit, Type, Busy
  <1>2. \A p \in task.pairs : /\ New(p).order = task.order /\ New(p).type = Type
                              /\ New(p).meter = p.meter
    BY DEF NewJob
  <1> HIDE DEF New
  <1>3. /\ \A j \in jobs : j.order \in Nat /\ j.order <= orders /\ j.order # task.order
                          /\ (task.order < j.order => j.byHand)
        /\ orders \in Nat /\ task.order \in Nat /\ task.order <= orders
    <2>1. jobs \subseteq Job
      BY <1>1 DEF TypeOK
    <2>2. QED
      BY <1>1, <2>1, TaskTypes, JobTypesOf DEF SchedulerInv, Numbered
  <1>4. \A j \in jobs' : j \in jobs \/ \E p \in task.pairs : j = New(p)
    BY <1>1
  <1>5. OldOnesAlone'
    <2>1. SUFFICES ASSUME NEW j \in jobs', NEW k \in jobs', j.type = k.type, j.meter = k.meter,
                          j.order < k.order, IsOpen(j)
                   PROVE  k.byHand \/ j.overrun
      BY DEF OldOnesAlone, IsOpen
    <2>2. CASE j \in jobs /\ k \in jobs
      BY <2>1, <2>2 DEF SchedulerInv, OldOnesAlone
    <2>3. ASSUME j \in jobs, NEW p \in task.pairs, k = New(p) PROVE j.overrun
      <3>1. p.meter \in task.meters
        BY <1>1, <2>3 DEF SchedulerInv, AskedWell
      <3>2. QED
        BY <1>1, <1>2, <2>1, <2>3, <3>1 DEF SchedulerInv, LookedWell
    <2>4. ASSUME NEW p \in task.pairs, j = New(p), k \in jobs PROVE k.byHand
      BY <1>2, <1>3, <2>1, <2>4
    <2>5. ASSUME NEW p \in task.pairs, NEW q \in task.pairs, j = New(p), k = New(q) PROVE FALSE
      BY <1>2, <1>3, <2>1, <2>5
    <2>6. QED
      BY <1>4, <2>2, <2>3, <2>4, <2>5
  <1>6. \A j \in jobs' : j.order <= orders'
    BY <1>1, <1>2, <1>3, <1>4
  <1>7. QED
    BY <1>1, <1>5, <1>6, Idle

\* A trigger has the newest number.
LEMMA SelectStep ==
  ASSUME SchedulerInv, TypeOK', HandsInv', NEW s \in Schedules, Select(s)
  PROVE  SchedulerInv'
  <1>1. /\ task'.step = "selected" /\ task'.meters = task'.all /\ task'.order = orders + 1
        /\ task'.moment = now /\ task'.fresh = task'.all \ rated
        /\ orders' = orders + 1
        /\ UNCHANGED <<now, jobs, readings, rated, learnt>>
    BY DEF Select
  <1>2. /\ \A j \in jobs : j.order \in Nat /\ j.order <= orders
        /\ orders \in Nat /\ now \in Nat
    <2>1. TypeOK /\ jobs \subseteq Job
      BY DEF SchedulerInv, TypeOK
    <2>2. QED
      BY <2>1, TaskTypes, JobTypesOf DEF SchedulerInv, Numbered
  <1>3. Numbered'
    BY <1>1, <1>2 DEF Numbered, Busy
  <1>4. QED
    BY <1>1, <1>3 DEF SchedulerInv, OldOnesAlone, IsOpen, LookedWell, AskedWell

\* The invariant is inductive.
LEMMA SchedulerStep == SchedulerInv /\ [Next]_vars => SchedulerInv'
  <1> SUFFICES ASSUME SchedulerInv, [Next]_vars PROVE SchedulerInv'
    OBVIOUS
  <1>0. TypeOK /\ TypeOK' /\ HandsInv /\ HandsInv'
    BY TypeStep, HandsStep DEF SchedulerInv
  <1>a. orders' = orders /\ (\A j \in jobs : j.order <= orders)
        => (JobsGoOn => \A j \in jobs' : j.order <= orders')
    BY DEF JobsGoOn, Stays
  <1> USE DEF tickVars, jobVars
  <1>1. ASSUME UNCHANGED <<jobType, task, jobVars>>, now' >= now PROVE SchedulerInv'
    <2>1. Busy => task.moment \in Nat /\ now \in Nat /\ now' \in Nat
      BY <1>0, TaskTypes, TimeAssumption DEF TypeOK, Slots
    <2>2. Numbered'
      BY <1>1, <2>1 DEF SchedulerInv, Numbered, Busy
    <2>3. QED
      BY <1>0, <1>1, <2>2
         DEF SchedulerInv, OldOnesAlone, IsOpen, LookedWell, AskedWell, Type, InTheWay, ReadToday
  <1>2. CASE Tick
    BY <1>0, <1>1, <1>2, TaskTypes DEF Tick
  <1>3. ASSUME NEW s \in Schedules, Select(s) PROVE SchedulerInv'
    BY <1>0, <1>3, SelectStep
  <1>4. CASE Look
    BY <1>0, <1>4, LookStep
  <1>5. CASE Ask
    BY <1>0, <1>5, AskStep
  <1>6. CASE Commit
    BY <1>0, <1>6, CommitStep
  <1>7. CASE Break
    BY <1>0, <1>7, Idle DEF Break, SchedulerInv, OldOnesAlone, IsOpen, Numbered
  <1>8. ASSUME NEW type \in ByHand, NEW m \in Meters, NEW o \in Obis, Press(type, m, o)
        PROVE  SchedulerInv'
    BY <1>0, <1>8, PressStep
  <1>9. ASSUME NEW j \in jobs, JobStep(j) PROVE SchedulerInv'
    <2>1. JobsGoOn
      BY <1>0, <1>9, JobSteps
    <2> USE DEF JobStep, Begin, Arrive, Lose, Succeed, Fail, PutBack, Reap
    <2>2. UNCHANGED <<now, jobType, last, due, task, orders>>
      BY <1>9 DEF NothingElse
    <2>3. readings \subseteq readings' /\ rated \subseteq rated' /\ learnt \subseteq learnt'
      BY <1>9
    <2>4. Busy => rated' \ rated \subseteq learnt'
      <3>1. Busy => task # NoTask
        BY DEF Busy, NoTask
      <3>2. QED
        BY <1>9, <3>1
    <2>5. QED
      BY <1>0, <2>1, <2>2, <2>3, <2>4, GoingOn
  <1>10. CASE SelectExpired \/ Sweep
    <2>1. CASE SelectExpired
      BY <1>0, <2>1 DEF SelectExpired, NothingElse, SchedulerInv, OldOnesAlone, IsOpen, Numbered,
                        Busy, LookedWell, AskedWell, Type, InTheWay, ReadToday
    <2>2. CASE Sweep
      BY <1>0, <2>2, EndingSteps, GoingOn DEF Sweep, NothingElse
    <2>3. QED
      BY <1>10, <2>1, <2>2
  <1>11. CASE Restart
    <2>1. JobsGoOn /\ task' = NoTask /\ orders' = orders
      BY <1>0, <1>11, EndingSteps DEF Restart
    <2>2. OldOnesAlone'
      <3>1. SUFFICES ASSUME NEW j \in jobs', NEW k \in jobs', j.type = k.type, j.meter = k.meter,
                            j.order < k.order, IsOpen(j)
                     PROVE  k.byHand \/ j.overrun
        BY DEF OldOnesAlone, IsOpen
      <3>2. PICK i \in jobs : Stays(i, j)
        BY <2>1 DEF JobsGoOn
      <3>3. PICK l \in jobs : Stays(l, k)
        BY <2>1 DEF JobsGoOn
      <3>4. i.type = l.type /\ i.meter = l.meter /\ i.order < l.order
        BY <3>1, <3>2, <3>3 DEF Stays
      <3>5. QED
        BY <3>1, <3>2, <3>3, <3>4 DEF Stays, SchedulerInv, OldOnesAlone
    <2>3. \A j \in jobs' : j.order <= orders'
      BY <1>a, <2>1 DEF SchedulerInv, Numbered
    <2>4. QED
      BY <1>0, <2>1, <2>2, <2>3, Idle
  <1>12. CASE Advance
    BY <1>0, <1>1, <1>12, TaskTypes DEF Advance
  <1>13. CASE UNCHANGED vars
    BY <1>0, <1>1, <1>13, TaskTypes DEF vars
  <1>14. QED
    BY <1>2, <1>3, <1>4, <1>5, <1>6, <1>7, <1>8, <1>9, <1>10, <1>11, <1>12, <1>13
       DEF Next, Scheduling, JobStep

LEMMA SchedulerInit == Init => SchedulerInv
  BY TypeInit DEF Init, NoTask, SchedulerInv, OldOnesAlone, Numbered, LookedWell, AskedWell, Busy

LEMMA SchedulerInvariant == Spec => []SchedulerInv
  BY SchedulerInit, SchedulerStep, PTL DEF Spec

\* A meter has the unfinished jobs of one order of a type and orders by hand on top,
\* although the trigger looks for unfinished jobs before it commits its own: only a job
\* that was written over in somebody's hands, or put back after its end, can come back.
THEOREM NoJobsPileUp == Spec => []NoPileUp
  <1>1. SchedulerInv => NoPileUp
    BY DEF SchedulerInv, OldOnesAlone, IsOpen, NoPileUp
  <1>2. QED
    BY <1>1, SchedulerInvariant, PTL

\* New jobs come by a commit or by hand.
LEMMA JobsChange ==
  ASSUME TypeOK, HandsInv, Next
  PROVE  \/ Commit
         \/ JobsGoOn /\ last' = last
         \/ jobs' = jobs /\ last' = last
         \/ /\ last' = last
            /\ \E type \in ByHand, m \in Meters, o \in Obis :
                  jobs' = jobs \cup {NewJob(orders + 1, TRUE, type, m, o, now)}
  <1> USE DEF tickVars, jobVars
  <1>1. CASE Scheduling \/ Break \/ Advance \/ SelectExpired
    BY <1>1 DEF Scheduling, Tick, Select, Look, Ask, Break, Advance, SelectExpired, NothingElse
  <1>2. ASSUME NEW type \in ByHand, NEW m \in Meters, NEW o \in Obis, Press(type, m, o)
        PROVE  /\ last' = last
               /\ jobs' = jobs \cup {NewJob(orders + 1, TRUE, type, m, o, now)}
    BY <1>2 DEF Press
  <1>3. ASSUME NEW j \in jobs, JobStep(j) PROVE JobsGoOn /\ last' = last
    BY <1>3, JobSteps
       DEF JobStep, Begin, Arrive, Lose, Succeed, Fail, PutBack, Reap, NothingElse
  <1>4. CASE Sweep \/ Restart
    BY <1>4, EndingSteps DEF Sweep, Restart, NothingElse
  <1>5. QED
    BY <1>1, <1>2, <1>3, <1>4 DEF Next, JobStep

\* Who is not asked has been read on the trigger's day, or a job of the type was in work.
THEOREM NobodyIsWithheld == Spec => NobodyWithheld
  <1>1. ASSUME SchedulerInv, [Next]_vars, last' # last, jobType[task.schedule] = READ,
               NEW m \in task.all, NEW o \in ObisOf[task.schedule]
        PROVE  \/ \E j \in jobs' : j.type = READ /\ j.meter = m /\ InTheWay(j)
               \/ \E r \in readings : r.meter = m /\ r.obis = o /\ Day(r.at) = Day(task.moment)
    <2>1. Commit
      BY <1>1, JobsChange DEF SchedulerInv, vars, tickVars
    <2>2. task.step = "asked" /\ jobs \subseteq jobs' /\ Type = READ
      BY <1>1, <2>1 DEF Commit, Type
    <2>3. CASE m \notin task.meters
      BY <1>1, <2>2, <2>3 DEF SchedulerInv, LookedWell
    <2>4. CASE m \in task.meters /\ [meter |-> m, obis |-> o] \in task.pairs
      <3> DEFINE new == NewJob(task.order, FALSE, jobType[task.schedule], m, o, task.moment)
      <3>1. new \in jobs'
        <4> DEFINE New(p) == NewJob(task.order, FALSE, jobType[task.schedule], p.meter, p.obis,
                                    task.moment)
                   pair == [meter |-> m, obis |-> o]
        <4>1. jobs' = jobs \cup {New(p) : p \in task.pairs}
          BY <2>1 DEF Commit
        <4>2. New(pair) = new
          OBVIOUS
        <4> HIDE DEF New, new, pair
        <4>3. pair \in task.pairs
          BY <2>4 DEF pair
        <4>4. QED
          BY <4>1, <4>2, <4>3
      <3>2. new.type = READ /\ new.meter = m /\ InTheWay(new)
        BY <1>1 DEF NewJob, InTheWay, Unfinished
      <3>3. QED
        BY <3>1, <3>2
    <2>5. CASE m \in task.meters /\ [meter |-> m, obis |-> o] \notin task.pairs
      BY <1>1, <2>2, <2>5 DEF SchedulerInv, AskedWell, ReadToday
    <2>6. QED
      BY <2>3, <2>4, <2>5
  <1>2. SchedulerInv /\ [Next]_vars
        => [last' # last /\ jobType[task.schedule] = READ =>
              \A m \in task.all, o \in ObisOf[task.schedule] :
                 \/ \E j \in jobs' : j.type = READ /\ j.meter = m /\ InTheWay(j)
                 \/ \E r \in readings : r.meter = m /\ r.obis = o /\ Day(r.at) = Day(task.moment)]_vars
    BY <1>1
  <1>3. QED
    BY <1>2, SchedulerInvariant, PTL DEF Spec, NobodyWithheld

\* A rated current that is known is not asked for, unless it came in during the trigger.
THEOREM RatedOnce == Spec => KnownForGood
  <1>1. ASSUME SchedulerInv, [Next]_vars, NEW j \in jobs' \ jobs,
               j.type = RATED, task.step = "asked", j.order = task.order
        PROVE  j.meter \notin rated \/ j.meter \in learnt
    <2>1. /\ TypeOK /\ HandsInv /\ Busy
          /\ \A i \in jobs : i.order # task.order
          /\ task.order <= orders /\ task.order \in Nat /\ orders \in Nat
      BY <1>1, TaskTypes DEF SchedulerInv, Numbered, Busy
    <2>2. CASE Commit
      <3>1. PICK p \in task.pairs :
               j = NewJob(task.order, FALSE, jobType[task.schedule], p.meter, p.obis, task.moment)
        BY <1>1, <2>2 DEF Commit
      <3>2. j.meter = p.meter /\ Type = RATED
        <4>1. j.type = Type /\ j.meter = p.meter
          BY <3>1 DEF NewJob, Type
        <4>2. QED
          BY <1>1, <4>1
      <3>3. p.meter \in task.fresh
        BY <1>1, <3>2 DEF SchedulerInv, AskedWell
      <3>4. QED
        BY <2>1, <3>2, <3>3, <1>1 DEF SchedulerInv, Numbered, Busy
    <2>3. CASE JobsGoOn
      BY <1>1, <2>1, <2>3 DEF JobsGoOn, Stays
    <2>4. ASSUME NEW type \in ByHand, NEW m \in Meters, NEW o \in Obis,
                 jobs' = jobs \cup {NewJob(orders + 1, TRUE, type, m, o, now)}
          PROVE  FALSE
      <3>1. j.order = orders + 1
        BY <1>1, <2>4 DEF NewJob
      <3>2. QED
        BY <1>1, <2>1, <3>1
    <2>5. QED
      BY <1>1, <2>1, <2>2, <2>3, <2>4, JobsChange DEF vars, jobVars
  <1>2. SchedulerInv /\ [Next]_vars
        => [\A j \in jobs' \ jobs :
              j.type = RATED /\ task.step = "asked" /\ j.order = task.order
              => j.meter \notin rated \/ j.meter \in learnt]_vars
    BY <1>1
  <1>3. QED
    BY <1>2, SchedulerInvariant, PTL DEF Spec, KnownForGood

-----------------------------------------------------------------------------
(* Once a day *)

\* Every schedule of readings has skip_if_read_today.
DailyReads ==
    \A types \in JobTypesAtStart, s \in Schedules : types[s] = READ => s \in SkipIfReadToday

\* The orders that were given again are not forgotten.
LEMMA AgainStays ==
  ASSUME JobsGoOn \/ jobs \subseteq jobs'
  PROVE  \A n, m, o : Again(n, m, o) => Again(n, m, o)'
  <1> SUFFICES ASSUME NEW n, NEW m, NEW o, Again(n, m, o)
               PROVE  \E j \in jobs' : j.order = n /\ j.meter = m /\ j.obis = o /\ j.overrun
    BY DEF Again
  <1>1. PICK j \in jobs : j.order = n /\ j.meter = m /\ j.obis = o /\ j.overrun
    BY DEF Again
  <1>2. CASE JobsGoOn
    <2>1. PICK k \in jobs' : Stays(j, k)
      BY <1>2 DEF JobsGoOn
    <2>2. QED
      BY <1>1, <2>1 DEF Stays
  <1>3. QED
    BY <1>1, <1>2

\* A reading that comes in is that of an unfinished job, or of one written over.
LEMMA ReadingsCome ==
  ASSUME SchedulerInv, DailyInv, JobsGoOn,
         UNCHANGED <<task, jobType>> \/ task' = NoTask,
         \A r \in readings' : \/ r \in readings
                              \/ \E j \in jobs : /\ j.type = READ /\ (IsOpen(j) \/ j.overrun)
                                                 /\ j.order = r.order /\ j.meter = r.meter
                                                 /\ j.obis = r.obis
  PROVE  DailyInv'
  <1>1. \A n, m, o : Again(n, m, o) => Again(n, m, o)'
    BY AgainStays
  <1>2. ASSUME NEW r \in readings', NEW j \in jobs, j.overrun,
               j.order = r.order, j.meter = r.meter, j.obis = r.obis
        PROVE  Again(r.order, r.meter, r.obis)'
    BY <1>1, <1>2 DEF Again
  <1>3. OnceADay'
    <2>1. SUFFICES ASSUME NEW r \in readings', NEW k \in jobs', k.type = READ, ~k.byHand,
                          r.order < k.order, r.meter = k.meter, r.obis = k.obis,
                          Day(r.at) = Day(k.created)
                   PROVE  Again(r.order, r.meter, r.obis)'
      BY DEF OnceADay, Again
    <2>2. PICK i \in jobs : Stays(i, k)
      BY DEF JobsGoOn
    <2>3. /\ i.type = READ /\ ~i.byHand /\ r.order < i.order /\ r.meter = i.meter
          /\ r.obis = i.obis /\ Day(r.at) = Day(i.created)
      BY <2>1, <2>2 DEF Stays
    <2>4. CASE r \in readings
      <3>1. Again(r.order, r.meter, r.obis)
        BY <2>3, <2>4 DEF DailyInv, OnceADay, Again
      <3>2. QED
        BY <1>1, <3>1
    <2>5. ASSUME NEW j \in jobs, j.type = READ, IsOpen(j) \/ j.overrun, j.order = r.order,
                 j.meter = r.meter, j.obis = r.obis
          PROVE  Again(r.order, r.meter, r.obis)'
      <3>1. j.overrun
        BY <2>3, <2>5 DEF SchedulerInv, OldOnesAlone
      <3>2. QED
        BY <1>2, <2>5, <3>1
    <2>6. QED
      BY <2>4, <2>5
  <1>4. ASSUME UNCHANGED <<task, jobType>>, task.step = "asked", Type = READ,
               NEW p \in task.pairs, NEW r \in readings', r.meter = p.meter, r.obis = p.obis,
               r.order < task.order, Day(r.at) = Day(task.moment)
        PROVE  Again(r.order, r.meter, r.obis)'
    <2>1. CASE r \in readings
      <3>1. Again(r.order, r.meter, r.obis)
        BY <1>4, <2>1 DEF DailyInv
      <3>2. QED
        BY <1>1, <3>1
    <2>2. ASSUME NEW j \in jobs, j.type = READ, IsOpen(j) \/ j.overrun, j.order = r.order,
                 j.meter = r.meter, j.obis = r.obis
          PROVE  Again(r.order, r.meter, r.obis)'
      <3>1. j.overrun
        BY <1>4, <2>2 DEF SchedulerInv, LookedWell, AskedWell
      <3>2. QED
        BY <1>2, <2>2, <3>1
    <2>3. QED
      BY <2>1, <2>2
  <1>5. task' = NoTask => task'.step # "asked"
    BY DEF NoTask
  <1>6. QED
    BY <1>3, <1>4, <1>5 DEF DailyInv, Type

LEMMA DailyStep ==
  ASSUME DailyReads, SchedulerInv, DailyInv, [Next]_vars
  PROVE  DailyInv'
  <1>0. TypeOK /\ TypeOK' /\ HandsInv
    BY TypeStep DEF SchedulerInv
  <1> USE DEF tickVars, jobVars
  <1>1. ASSUME UNCHANGED <<jobs, readings>>,
               UNCHANGED <<task, jobType>> \/ task'.step # "asked"
        PROVE  DailyInv'
    BY <1>1 DEF DailyInv, OnceADay, Again, Type
  <1>2. CASE Tick \/ Advance \/ SelectExpired \/ UNCHANGED vars
    BY <1>1, <1>2 DEF Tick, Advance, SelectExpired, NothingElse, vars
  <1>3. ASSUME NEW s \in Schedules, Select(s) PROVE DailyInv'
    BY <1>1, <1>3 DEF Select
  <1>4. CASE Look
    BY <1>0, <1>1, <1>4, TaskTypes DEF Look, TypeOK
  <1>5. CASE Ask
    <2> DEFINE s == task.schedule
               pairs == {p \in [meter : task.meters, obis : ObisOf[s]] :
                            ~Settled(s, p.meter, p.obis)}
    <2>1. /\ task'.step = "asked" /\ task'.pairs = pairs /\ task'.moment = task.moment
          /\ task'.schedule = s /\ UNCHANGED <<jobType, jobs, readings>>
          /\ s \in Schedules /\ jobType \in JobTypesAtStart
      BY <1>0, <1>5, TaskTypes DEF Ask, TypeOK
    <2>2. ASSUME Type = READ, NEW p \in pairs, NEW r \in readings,
                 r.meter = p.meter, r.obis = p.obis, Day(r.at) = Day(task.moment)
          PROVE  FALSE
      <3>1. s \in SkipIfReadToday
        BY <2>1, <2>2 DEF DailyReads, Type
      <3>2. QED
        BY <2>2, <3>1 DEF Settled, Today, Type
    <2> HIDE DEF pairs
    <2>3. QED
      BY <2>1, <2>2 DEF DailyInv, OnceADay, Again, Type
  <1>6. CASE Commit
    <2> DEFINE New(p) == NewJob(task.order, FALSE, Type, p.meter, p.obis, task.moment)
    <2>1. /\ task.step = "asked" /\ task'.step # "asked"
          /\ jobs' = jobs \cup {New(p) : p \in task.pairs} /\ readings' = readings
      BY <1>6 DEF Commit, Type, NoTask
    <2>2. \A n, m, o : Again(n, m, o) => Again(n, m, o)'
      BY <2>1, AgainStays
    <2>3. \A p \in task.pairs : /\ New(p).order = task.order /\ New(p).type = Type
                                /\ New(p).meter = p.meter /\ New(p).obis = p.obis
                                /\ New(p).created = task.moment
      BY DEF NewJob
    <2> HIDE DEF New
    <2>4. SUFFICES ASSUME NEW r \in readings, NEW k \in jobs', k.type = READ, ~k.byHand,
                          r.order < k.order, r.meter = k.meter, r.obis = k.obis,
                          Day(r.at) = Day(k.created)
                   PROVE  Again(r.order, r.meter, r.obis)
      BY <2>1, <2>2 DEF DailyInv, OnceADay, Again
    <2>5. CASE k \in jobs
      BY <2>4, <2>5 DEF DailyInv, OnceADay, Again
    <2>6. ASSUME NEW p \in task.pairs, k = New(p) PROVE Again(r.order, r.meter, r.obis)
      BY <2>1, <2>3, <2>4, <2>6 DEF DailyInv
    <2>7. QED
      BY <2>1, <2>5, <2>6
  <1>7. CASE Break
    BY <1>1, <1>7 DEF Break, NoTask
  <1>8. ASSUME NEW type \in ByHand, NEW m \in Meters, NEW o \in Obis, Press(type, m, o)
        PROVE  DailyInv'
    <2> DEFINE new == NewJob(orders + 1, TRUE, type, m, o, now)
    <2>1. /\ jobs' = jobs \cup {new} /\ UNCHANGED <<task, jobType, readings>>
      BY <1>8 DEF Press
    <2>2. new.byHand
      BY DEF NewJob
    <2>3. \A n, i, x : Again(n, i, x) => Again(n, i, x)'
      BY <2>1, AgainStays
    <2> HIDE DEF new
    <2>4. OnceADay'
      <3>1. SUFFICES ASSUME NEW r \in readings, NEW k \in jobs', k.type = READ, ~k.byHand,
                            r.order < k.order, r.meter = k.meter, r.obis = k.obis,
                            Day(r.at) = Day(k.created)
                     PROVE  Again(r.order, r.meter, r.obis)'
        BY <2>1 DEF OnceADay, Again
      <3>2. Again(r.order, r.meter, r.obis)
        BY <2>1, <2>2, <3>1 DEF DailyInv, OnceADay, Again
      <3>3. QED
        BY <2>3, <3>2
    <2>5. QED
      BY <2>1, <2>3, <2>4 DEF DailyInv, Type
  <1>9. ASSUME NEW j \in jobs, JobStep(j) PROVE DailyInv'
    <2>1. JobsGoOn /\ UNCHANGED <<task, jobType>>
      BY <1>0, <1>9, JobSteps
         DEF JobStep, Begin, Arrive, Lose, Succeed, Fail, PutBack, Reap, NothingElse
    <2>2. \A r \in readings' : \/ r \in readings
                               \/ /\ j.type = READ /\ (IsOpen(j) \/ j.overrun)
                                  /\ j.order = r.order /\ j.meter = r.meter /\ j.obis = r.obis
      <3>1. \A w \in Writers : Succeed(j, w) => IsOpen(j) \/ j.overrun
        BY <1>0 DEF Succeed, HandsInv, InHand
      <3>2. ASSUME NEW w \in Writers, Succeed(j, w), NEW r \in readings'
            PROVE  \/ r \in readings
                   \/ /\ j.type = READ /\ j.order = r.order
                      /\ j.meter = r.meter /\ j.obis = r.obis
        BY <3>2 DEF Succeed
      <3>3. CASE readings' = readings
        BY <3>3
      <3>4. readings' = readings \/ \E w \in Writers : Succeed(j, w)
        BY <1>9 DEF JobStep, Begin, Arrive, Lose, Fail, PutBack, Reap
      <3>5. QED
        BY <3>1, <3>2, <3>3, <3>4
    <2>3. QED
      BY <2>1, <2>2, ReadingsCome
  <1>10. CASE Sweep \/ Restart
    <2>1. JobsGoOn /\ readings' = readings /\ (UNCHANGED <<task, jobType>> \/ task' = NoTask)
      BY <1>0, <1>10, EndingSteps DEF Sweep, Restart, NothingElse
    <2>2. QED
      BY <2>1, ReadingsCome
  <1>11. QED
    BY <1>2, <1>3, <1>4, <1>5, <1>6, <1>7, <1>8, <1>9, <1>10 DEF Next, Scheduling, JobStep

\* When every schedule of readings skips what was read on the day, none asks for it again,
\* even if the reading came in between the question and the commit; except for the
\* reading of a job that was written over in somebody's hands or put back after its end.
THEOREM ReadOnceADay == ASSUME DailyReads PROVE Spec => []OnceADay
  <1>1. Init => DailyInv
    BY DEF Init, DailyInv, OnceADay, NoTask
  <1>2. SchedulerInv /\ DailyInv /\ [Next]_vars => DailyInv'
    BY DailyStep
  <1>3. DailyInv => OnceADay
    BY DEF DailyInv
  <1>4. QED
    BY <1>1, <1>2, <1>3, SchedulerInvariant, PTL DEF Spec
=============================================================================
