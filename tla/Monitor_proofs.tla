--------------------------- MODULE Monitor_proofs ---------------------------
(***************************************************************************)
(* Proofs about Monitor: what is proved of MeterRegistry holds beside the  *)
(* workers, the detector and the streams, and no silence is told of twice; *)
(* for any number of meters, acts, faults and slots of time.               *)
(***************************************************************************)
EXTENDS Monitor, MeterRegistry_proofs, WellFoundedInduction

-----------------------------------------------------------------------------
(* The registry beside the monitor *)

\* A step of the monitor is one of the registry, or uses up acts and faults.
LEMMA MonitorStep ==
  ASSUME RegistryTypeOK, [MonitorNext]_vars
  PROVE  [Step]_rvars
  <1> USE DEF Step, Next
  <1>1. CASE UNCHANGED rvars
    BY <1>1
  <1>2. CASE Registering
    BY <1>2
  <1>3. ASSUME UNCHANGED <<gatewayVars, tableVars, task, beat, faults, excused>>, NEW kind, ByHand(kind)
        PROVE  Elsewhere
    BY <1>3, HandsTypes DEF Elsewhere, RegistryTypeOK
  <1>4. ASSUME UNCHANGED <<gatewayVars, tableVars, task, beat, hands, excused>>,
               faults > 0, faults' = faults - 1
        PROVE  Elsewhere
    BY <1>4 DEF Elsewhere, RegistryTypeOK
  <1>5. ASSUME NEW m \in Ids, NEW read \in BOOLEAN, TakeTime(m, read) PROVE Elsewhere
    BY <1>3, <1>5 DEF TakeTime
  <1>6. ASSUME NEW f \in finishing, LoseLife(f) PROVE Elsewhere
    BY <1>4, <1>6 DEF LoseLife
  <1>7. CASE BreakDetector
    BY <1>4, <1>7 DEF BreakDetector
  <1>8. CASE RunFails
    BY <1>3, <1>8 DEF RunFails
  <1>9. CASE OpenStream
    BY <1>3, <1>9 DEF OpenStream
  <1>10. CASE Restart
    BY <1>10 DEF Restart
  <1>11. ASSUME NEW f \in finishing, CommitLife(f) PROVE UNCHANGED rvars
    BY <1>11 DEF CommitLife
  <1>12. CASE Detecting
    BY <1>1, <1>12 DEF Detecting, DetectorBegins, Judge, DetectorCommits
  <1>13. ASSUME NEW n \in failing, CommitRun(n) PROVE UNCHANGED rvars
    BY <1>13 DEF CommitRun
  <1>14. CASE Poll \/ CloseStream \/ Advance
    BY <1>1, <1>14 DEF Poll, CloseStream, Advance
  <1>15. QED
    BY <1>1, <1>2, <1>5, <1>6, <1>7, <1>8, <1>9, <1>10, <1>11, <1>12, <1>13, <1>14
       DEF MonitorNext, vars

\* The invariant of the registry holds beside the monitor.
LEMMA RegistryHolds == MonitorSpec => []RegistryInv
  <1>1. MonitorInit => RegistryInv
    BY InvInit DEF MonitorInit
  <1>2. RegistryInv /\ [MonitorNext]_vars => RegistryInv'
    BY MonitorStep, InvStep DEF RegistryInv
  <1>3. QED
    BY <1>1, <1>2, PTL DEF MonitorSpec

\* A meter that discovery has registered is polled, or somebody answers for it, in the
\* whole that the run checks.
THEOREM FleetPolled == MonitorSpec => []NobodyOverlooked
  <1>1. RegistryInv => NobodyOverlooked
    BY InvImplies
  <1>2. QED
    BY <1>1, RegistryHolds, PTL

\* Discovery takes nobody out of a list in the whole either.
THEOREM FleetOnlyAdds == MonitorSpec => OnlyPeopleTakeOut
  <1> DEFINE A == \A s \in Schedules :
                    \/ schedules[s].list \subseteq schedules'[s].list
                    \/ hands' # hands
                    \/ s \in task.overtaken
  <1>1. RegistryInv /\ [MonitorNext]_vars => [A]_rvars
    BY MonitorStep, TakeOutStep DEF RegistryInv
  <1>2. QED
    BY <1>1, RegistryHolds, PTL DEF MonitorSpec, OnlyPeopleTakeOut

-----------------------------------------------------------------------------
(* Types *)

\* The smallest of some numbers.
LEMMA Smallest ==
  ASSUME NEW S \in SUBSET Nat, S # {}
  PROVE  \E x \in S : \A y \in S : x <= y
  <1>1. PICK x \in S : \A y \in S : ~ (<<y, x>> \in OpToRel(<, Nat))
    BY WFMin, NatLessThanWellFounded, Zenon
  <1>2. \A y \in S : ~ (y < x)
    <2>1. SUFFICES ASSUME NEW y \in S, y < x PROVE <<y, x>> \in OpToRel(<, Nat)
      BY <1>1
    <2>2. <<y, x>> \in Nat \X Nat
      OBVIOUS
    <2>3. QED
      BY <2>1, <2>2, Zenon DEF OpToRel
  <1>3. QED
    BY <1>2

\* The newest of the numbers that were given is one of them, or none.
LEMMA NewestIsNumber ==
  ASSUME NEW numbers \in SUBSET (1 .. MaxNotices)
  PROVE  Newest(numbers) \in Nat
  <1> DEFINE S == {MaxNotices - i : i \in numbers \cup {0}}
  <1>1. MaxNotices \in Nat /\ numbers \cup {0} \subseteq Nat
    BY MonitorAssumption
  <1>2. S \in SUBSET Nat /\ S # {}
    BY <1>1
  <1>3. PICK s \in S : \A t \in S : s <= t
    <2> HIDE DEF S
    <2>1. QED
      BY <1>2, Smallest
  <1>4. PICK i \in numbers \cup {0} : s = MaxNotices - i
    OBVIOUS
  <1>5. \A j \in numbers : MaxNotices - i <= MaxNotices - j
    BY <1>3, <1>4
  <1>6. \A j \in numbers : j <= i
    BY <1>1, <1>4, <1>5
  <1>7. Newest(numbers) \in numbers \cup {0}
    BY <1>4, <1>6 DEF Newest
  <1>8. QED
    BY <1>1, <1>7

\* A notification that is made has a number within the bound.
LEMMA NoticeTypes ==
  ASSUME MonitorTypeOK, NEW m \in Ids \cup {NoMeter}, NEW at \in Nat,
         lastNotice < MaxNotices, lastNotice' = lastNotice + 1
  PROVE  NewNotice(m, at) \in Notice /\ lastNotice' \in 0 .. MaxNotices
         /\ NewNotice(m, at).id = lastNotice + 1 /\ NewNotice(m, at).meter = m
         /\ NewNotice(m, at).at = at /\ NewNotice(m, at).judged = now
  <1>1. lastNotice \in 0 .. MaxNotices /\ MaxNotices \in Nat /\ now \in Nat
    BY MonitorAssumption DEF MonitorTypeOK
  <1>2. lastNotice + 1 \in 1 .. MaxNotices /\ lastNotice' \in 0 .. MaxNotices
    BY <1>1
  <1>3. QED
    BY <1>1, <1>2 DEF NewNotice, Notice

\* The types of the monitor's tables and tasks.
LEMMA MonitorTypeStep == RegistryTypeOK /\ MonitorTypeOK /\ [MonitorNext]_vars => MonitorTypeOK'
  <1> SUFFICES ASSUME RegistryTypeOK, MonitorTypeOK, [MonitorNext]_vars PROVE MonitorTypeOK'
    OBVIOUS
  <1> USE DEF mvars, lifeVars, noticeVars, streamVars
  <1>0. /\ now \in Nat /\ lastNotice \in 0 .. MaxNotices
        /\ tick \in [on : BOOLEAN, began : Nat, rows : SUBSET Snapshot, made : SUBSET Notice]
        /\ NoTick \in [on : BOOLEAN, began : Nat, rows : SUBSET Snapshot, made : SUBSET Notice]
        /\ NoStream \in [on : BOOLEAN, last : Nat, base : SUBSET Nat, got : SUBSET Nat]
    BY DEF MonitorTypeOK, NoTick, NoStream
  <1>1. CASE UNCHANGED mvars
    BY <1>1 DEF MonitorTypeOK
  <1>2. ASSUME NEW m \in Ids, NEW read \in BOOLEAN, TakeTime(m, read) PROVE MonitorTypeOK'
    <2>1. [meter |-> m, at |-> now, read |-> read] \in [meter : Ids, at : Nat, read : BOOLEAN]
      BY <1>0
    <2>2. QED
      BY <1>2, <2>1 DEF TakeTime, MonitorTypeOK
  <1>3. ASSUME NEW f \in finishing, CommitLife(f) PROVE MonitorTypeOK'
    <2>1. f \in [meter : Ids, at : Nat, read : BOOLEAN]
      BY DEF MonitorTypeOK
    <2>2. f.meter \in Ids /\ f.at \in Nat
      BY <2>1
    <2>3. /\ seen' \in [Ids -> Nat] /\ lastRead' \in [Ids -> Nat]
          /\ finishing' \subseteq [meter : Ids, at : Nat, read : BOOLEAN]
          /\ lives' \subseteq [meter : Ids, at : Nat] /\ blinded' \subseteq Ids
      BY <1>3, <2>2 DEF CommitLife, MonitorTypeOK
    <2>4. QED
      BY <1>3, <2>3 DEF CommitLife, MonitorTypeOK
  <1>4. ASSUME NEW f \in finishing, LoseLife(f) PROVE MonitorTypeOK'
    BY <1>4 DEF LoseLife, MonitorTypeOK
  <1>5. CASE DetectorBegins
    <2>1. {[meter |-> m, seen |-> seen[m], lastRead |-> lastRead[m]] :
              m \in {i \in Ids : seen[i] # 0 /\ \E r \in meters : r.id = i /\ r.active}} \subseteq Snapshot
      BY DEF Snapshot, MonitorTypeOK
    <2>2. tick' \in [on : BOOLEAN, began : Nat, rows : SUBSET Snapshot, made : SUBSET Notice]
      BY <1>0, <1>5, <2>1 DEF DetectorBegins
    <2>3. QED
      BY <1>5, <2>2 DEF DetectorBegins, MonitorTypeOK
  <1>6. ASSUME NEW r \in tick.rows, Judge(r) PROVE MonitorTypeOK'
    <2>1. r.meter \in Ids /\ tick.began \in Nat /\ r \in Snapshot
      BY <1>0 DEF Snapshot
    <2>2. CASE tick' = [tick EXCEPT !.rows = @ \ {r}] /\ UNCHANGED lastNotice
      BY <1>0, <1>6, <2>2 DEF Judge, MonitorTypeOK
    <2>3. CASE /\ lastNotice < MaxNotices /\ lastNotice' = lastNotice + 1
               /\ tick' = [tick EXCEPT !.rows = @ \ {r},
                                       !.made = @ \cup {NewNotice(r.meter, tick.began)}]
      <3>1. NewNotice(r.meter, tick.began) \in Notice /\ lastNotice' \in 0 .. MaxNotices
        BY <2>1, <2>3, NoticeTypes
      <3>2. tick' \in [on : BOOLEAN, began : Nat, rows : SUBSET Snapshot, made : SUBSET Notice]
        BY <1>0, <2>3, <3>1
      <3>3. QED
        BY <1>6, <3>1, <3>2 DEF Judge, MonitorTypeOK
    <2>4. QED
      BY <1>6, <2>2, <2>3 DEF Judge
  <1>7. CASE DetectorCommits
    BY <1>0, <1>7 DEF DetectorCommits, MonitorTypeOK
  <1>8. CASE BreakDetector
    BY <1>0, <1>8 DEF BreakDetector, MonitorTypeOK
  <1>9. CASE RunFails
    <2>1. NewNotice(NoMeter, now) \in Notice /\ lastNotice' \in 0 .. MaxNotices
      BY <1>0, <1>9, NoticeTypes DEF RunFails
    <2>2. QED
      BY <1>9, <2>1 DEF RunFails, MonitorTypeOK
  <1>10. ASSUME NEW n \in failing, CommitRun(n) PROVE MonitorTypeOK'
    BY <1>10 DEF CommitRun, MonitorTypeOK
  <1>11. ASSUME NEW set \in SUBSET Notice PROVE NumbersOf(set) \subseteq 1 .. MaxNotices
    BY DEF NumbersOf, Notice
  <1>12. NumbersOf(notices) \subseteq 1 .. MaxNotices /\ Open \subseteq 1 .. MaxNotices
         /\ 1 .. MaxNotices \subseteq Nat
    BY <1>0, <1>11 DEF MonitorTypeOK, Open
  <1>13. CASE OpenStream
    <2>1. Newest(NumbersOf(notices)) \in Nat
      BY <1>12, NewestIsNumber
    <2>2. stream' \in [on : BOOLEAN, last : Nat, base : SUBSET Nat, got : SUBSET Nat]
      BY <1>12, <1>13, <2>1 DEF OpenStream
    <2>3. passed' \subseteq Nat
      BY <1>12, <1>13 DEF OpenStream
    <2>4. QED
      BY <1>13, <2>2, <2>3 DEF OpenStream, MonitorTypeOK
  <1>14. CASE Poll
    <2> DEFINE new == {i \in NumbersOf(notices) : i > stream.last}
    <2>1. new \subseteq 1 .. MaxNotices /\ Newest(new) \in Nat
      BY <1>12, NewestIsNumber
    <2>2. stream' = [stream EXCEPT !.got = @ \cup new, !.last = Newest(new)]
      BY <1>14 DEF Poll
    <2>3. passed' \subseteq passed \cup Open
      BY <1>14 DEF Poll
    <2> HIDE DEF new
    <2>4. stream' \in [on : BOOLEAN, last : Nat, base : SUBSET Nat, got : SUBSET Nat]
      BY <1>12, <2>1, <2>2 DEF MonitorTypeOK
    <2>5. QED
      BY <1>12, <1>14, <2>3, <2>4 DEF Poll, MonitorTypeOK
  <1>15. CASE CloseStream
    BY <1>0, <1>15 DEF CloseStream, MonitorTypeOK
  <1>16. CASE Advance
    BY <1>0, <1>16 DEF Advance, MonitorTypeOK
  <1>17. CASE Restart
    BY <1>0, <1>17 DEF Restart, MonitorTypeOK
  <1>18. QED
    BY <1>1, <1>2, <1>3, <1>4, <1>5, <1>6, <1>7, <1>8, <1>9, <1>10, <1>13, <1>14, <1>15, <1>16,
       <1>17 DEF MonitorNext, Detecting, vars

\* Everything is empty at first.
LEMMA MonitorTypeInit == MonitorInit => MonitorTypeOK
  <1> SUFFICES ASSUME MonitorInit PROVE MonitorTypeOK
    OBVIOUS
  <1>1. until \in Nat
    BY OriginsAssumption DEF MonitorInit, Origin
  <1>2. QED
    BY <1>1, MonitorAssumption DEF MonitorInit, MonitorTypeOK, NoTick, NoStream

\* The type invariant of the monitor.
THEOREM MonitorTypeCorrect == MonitorSpec => []MonitorTypeOK
  <1>1. RegistryInv /\ MonitorTypeOK /\ [MonitorNext]_vars => MonitorTypeOK'
    BY MonitorTypeStep DEF RegistryInv
  <1>2. QED
    BY <1>1, MonitorTypeInit, RegistryHolds, PTL DEF MonitorSpec

-----------------------------------------------------------------------------
(* One notification for one silence *)

Lived(m, t) == \E l \in lives : l.meter = m /\ l.at = t

\* Between two of these notifications their meter gave a sign of life.
Told(set) ==
    \A n, k \in set :
        n.meter = k.meter /\ n.meter # NoMeter /\ n.id < k.id
        => \E l \in lives : l.meter = n.meter /\ n.at <= l.at /\ l.at <= k.judged

\* The notifications that a tick has made are taken together with those of the table: the
\* detector is alone, so nothing is made that it does not see.  What it judges by, the stamp
\* it has selected, was a sign of life.
NoticesInv ==
    /\ \A n \in notices \cup tick.made \cup failing : n.id <= lastNotice
    /\ \A n \in failing : n.meter = NoMeter
    /\ \A m \in Ids : seen[m] # 0 => Lived(m, seen[m])
    /\ \A r \in tick.rows : Lived(r.meter, r.seen)
    /\ Told(notices \cup tick.made)

\* Nothing is lost when notifications are left out and signs of life are added.
LEMMA NoticesFewer ==
  ASSUME NoticesInv, lives \subseteq lives', lastNotice' = lastNotice,
         seen' = seen, notices' \cup tick'.made \subseteq notices \cup tick.made,
         failing' \subseteq failing, tick'.rows \subseteq tick.rows
  PROVE  NoticesInv'
  <1>1. \A m, t : Lived(m, t) => Lived(m, t)'
    BY DEF Lived
  <1>2. Told(notices \cup tick.made)'
    BY DEF NoticesInv, Told
  <1>3. QED
    BY <1>1, <1>2 DEF NoticesInv

\* A notification of a failed run is about no meter.
LEMMA NoticesOfRun ==
  ASSUME NoticesInv, NEW n, n.meter = NoMeter, n.id <= lastNotice', lastNotice <= lastNotice',
         lastNotice \in Nat, lastNotice' \in Nat,
         \A k \in notices \cup tick.made \cup failing : k.id \in Nat,
         UNCHANGED <<seen, lives, tick>>,
         \/ failing' = failing \cup {n} /\ notices' = notices
         \/ failing' = failing \ {n} /\ notices' = notices \cup {n}
  PROVE  NoticesInv'
  <1>1. \A m, t : Lived(m, t) => Lived(m, t)'
    BY DEF Lived
  <1>2. \A k \in notices' \cup tick'.made \cup failing' : k.id <= lastNotice'
    <2>1. \A k \in notices \cup tick.made \cup failing : k.id <= lastNotice
      BY DEF NoticesInv
    <2>2. \A k \in notices' \cup tick'.made \cup failing' :
             k = n \/ k \in notices \cup tick.made \cup failing
      OBVIOUS
    <2>3. QED
      BY <2>1, <2>2
  <1>3. Told(notices \cup tick.made)'
    BY DEF NoticesInv, Told
  <1>4. QED
    BY <1>1, <1>2, <1>3 DEF NoticesInv

\* The detector adds a notification only when the last one of the meter is older than the
\* stamp it has selected.
LEMMA NoticesJudge ==
  ASSUME MonitorTypeOK, NoticesInv, NEW r \in tick.rows, Judge(r)
  PROVE  NoticesInv'
  <1> DEFINE new == NewNotice(r.meter, tick.began)
             old == notices \cup tick.made
  <1>1. /\ tick \in [on : BOOLEAN, began : Nat, rows : SUBSET Snapshot, made : SUBSET Notice]
        /\ r \in Snapshot /\ now \in Nat /\ lastNotice \in Nat
        /\ r.meter \in Ids /\ r.seen \in Nat
    BY MonitorAssumption DEF MonitorTypeOK, Snapshot
  <1>2. UNCHANGED <<lives, seen, notices, failing, now>>
    BY DEF Judge, lifeVars, vars
  <1>3. CASE tick' = [tick EXCEPT !.rows = @ \ {r}] /\ UNCHANGED lastNotice
    <2>1. tick'.rows \subseteq tick.rows /\ tick'.made = tick.made
      BY <1>1, <1>3
    <2>2. QED
      BY <1>2, <1>3, <2>1, NoticesFewer
  <1>4. CASE /\ ~IsOnline(r, now) /\ ~AlreadyNotified(r)
             /\ lastNotice < MaxNotices /\ lastNotice' = lastNotice + 1
             /\ tick' = [tick EXCEPT !.rows = @ \ {r}, !.made = @ \cup {new}]
    <2>1. tick'.rows = tick.rows \ {r} /\ tick'.made = tick.made \cup {new}
      BY <1>1, <1>4
    <2>2. /\ new.id = lastNotice + 1 /\ new.meter = r.meter /\ new.judged = now
      BY <1>1, <1>4, NoticeTypes
    <2>3. \A n \in old : n.id \in Nat /\ n.at \in Nat /\ n.id <= lastNotice
      BY <1>1 DEF NoticesInv, MonitorTypeOK, Notice
    <2>4. \A n \in old : n.meter = r.meter => n.at <= r.seen
      BY <1>1, <1>4, <2>3 DEF AlreadyNotified
    <2>5. r.seen <= now
      BY <1>1, <1>4, MonitorAssumption DEF IsOnline
    <2>6. PICK l \in lives : l.meter = r.meter /\ l.at = r.seen
      BY DEF NoticesInv, Lived
    <2> HIDE DEF new
    <2>7. Told(old \cup {new})
      <3>1. SUFFICES ASSUME NEW n \in old \cup {new}, NEW k \in old \cup {new},
                            n.meter = k.meter, n.meter # NoMeter, n.id < k.id
                     PROVE  \E x \in lives : x.meter = n.meter /\ n.at <= x.at /\ x.at <= k.judged
        BY DEF Told
      <3>2. CASE n \in old /\ k \in old
        BY <3>1, <3>2 DEF NoticesInv, Told
      <3>3. CASE n \in old /\ k = new
        BY <2>2, <2>4, <2>5, <2>6, <3>1, <3>3
      <3>4. n # new
        BY <1>1, <2>2, <2>3, <3>1
      <3>5. QED
        BY <3>2, <3>3, <3>4
    <2>8. (notices \cup tick.made \cup failing \cup {new})
             = notices' \cup tick'.made \cup failing'
      BY <1>2, <2>1
    <2>9. \A n \in notices \cup tick.made \cup failing \cup {new} : n.id <= lastNotice'
      <3>1. \A n \in notices \cup tick.made \cup failing : n.id \in Nat /\ n.id <= lastNotice
        BY <1>1 DEF NoticesInv, MonitorTypeOK, Notice
      <3>2. QED
        BY <1>1, <1>4, <2>2, <3>1
    <2>10. Told(notices \cup tick.made)'
      <3>1. notices' \cup tick'.made = old \cup {new}
        BY <1>2, <2>1
      <3>2. QED
        BY <1>2, <2>7, <3>1 DEF Told
    <2>11. QED
      BY <1>2, <2>1, <2>8, <2>9, <2>10 DEF NoticesInv, Lived
  <1>5. QED
    BY <1>3, <1>4 DEF Judge

\* Every step keeps the notifications apart.
LEMMA NoticesStep == MonitorTypeOK /\ NoticesInv /\ [MonitorNext]_vars => NoticesInv'
  <1> SUFFICES ASSUME MonitorTypeOK, NoticesInv, [MonitorNext]_vars PROVE NoticesInv'
    OBVIOUS
  <1> USE DEF mvars, lifeVars, noticeVars
  <1>0. /\ tick \in [on : BOOLEAN, began : Nat, rows : SUBSET Snapshot, made : SUBSET Notice]
        /\ NoTick.rows = {} /\ NoTick.made = {} /\ lastNotice \in Nat
        /\ \A k \in notices \cup tick.made \cup failing : k.id \in Nat
    BY MonitorAssumption DEF MonitorTypeOK, NoTick, Notice
  <1>1. ASSUME UNCHANGED <<seen, lives, noticeVars>> PROVE NoticesInv'
    BY <1>1, NoticesFewer
  <1>2. ASSUME NEW m \in Ids, NEW read \in BOOLEAN, TakeTime(m, read) PROVE NoticesInv'
    BY <1>1, <1>2 DEF TakeTime
  <1>3. ASSUME NEW f \in finishing, CommitLife(f) PROVE NoticesInv'
    <2>1. /\ seen' = [seen EXCEPT ![f.meter] = f.at]
          /\ lives' = lives \cup {[meter |-> f.meter, at |-> f.at]}
          /\ UNCHANGED <<notices, lastNotice, tick, failing>>
      BY <1>3 DEF CommitLife
    <2>2. \A m, t : Lived(m, t) => Lived(m, t)'
      BY <2>1 DEF Lived
    <2>3. Lived(f.meter, f.at)'
      <3>1. [meter |-> f.meter, at |-> f.at] \in lives'
        BY <2>1
      <3>2. QED
        BY <3>1, Zenon DEF Lived
    <2>4. \A m \in Ids : seen'[m] # 0 => Lived(m, seen[m])'
      <3>1. SUFFICES ASSUME NEW m \in Ids, seen'[m] # 0 PROVE Lived(m, seen[m])'
        OBVIOUS
      <3>2. CASE m = f.meter
        BY <2>1, <2>3, <3>2 DEF MonitorTypeOK
      <3>3. CASE m # f.meter
        BY <2>1, <2>2, <3>1, <3>3 DEF MonitorTypeOK, NoticesInv
      <3>4. QED
        BY <3>2, <3>3
    <2>5. Told(notices \cup tick.made)'
      BY <2>1 DEF NoticesInv, Told
    <2>6. QED
      BY <2>1, <2>2, <2>4, <2>5 DEF NoticesInv
  <1>4. ASSUME NEW f \in finishing, LoseLife(f) PROVE NoticesInv'
    BY <1>1, <1>4 DEF LoseLife
  <1>5. CASE DetectorBegins
    <2>1. /\ tick'.rows = {[meter |-> m, seen |-> seen[m], lastRead |-> lastRead[m]] :
                 m \in {i \in Ids : seen[i] # 0 /\ \E r \in meters : r.id = i /\ r.active}}
          /\ tick'.made = {} /\ UNCHANGED <<seen, lives, notices, lastNotice, failing>>
      BY <1>5 DEF DetectorBegins
    <2>2. \A r \in tick'.rows : Lived(r.meter, r.seen)'
      BY <2>1 DEF NoticesInv, Lived
    <2>3. Told(notices \cup tick.made)'
      BY <2>1 DEF NoticesInv, Told
    <2>4. QED
      BY <2>1, <2>2, <2>3 DEF NoticesInv, Lived
  <1>6. ASSUME NEW r \in tick.rows, Judge(r) PROVE NoticesInv'
    BY <1>6, NoticesJudge
  <1>7. CASE DetectorCommits
    BY <1>0, <1>7, NoticesFewer DEF DetectorCommits
  <1>8. CASE BreakDetector
    BY <1>0, <1>8, NoticesFewer DEF BreakDetector
  <1>9. CASE RunFails
    <2>1. NewNotice(NoMeter, now).meter = NoMeter /\ NewNotice(NoMeter, now).id = lastNotice + 1
      BY DEF NewNotice
    <2>2. lastNotice' = lastNotice + 1 /\ failing' = failing \cup {NewNotice(NoMeter, now)}
          /\ UNCHANGED <<seen, lives, tick, notices>>
      BY <1>9 DEF RunFails
    <2>3. QED
      BY <1>0, <2>1, <2>2, NoticesOfRun
  <1>10. ASSUME NEW n \in failing, CommitRun(n) PROVE NoticesInv'
    <2>1. n.meter = NoMeter /\ n.id <= lastNotice
      BY DEF NoticesInv
    <2>2. failing' = failing \ {n} /\ notices' = notices \cup {n}
          /\ UNCHANGED <<seen, lives, tick, lastNotice>>
      BY <1>10 DEF CommitRun
    <2>3. QED
      BY <1>0, <2>1, <2>2, NoticesOfRun
  <1>11. CASE UNCHANGED mvars \/ OpenStream \/ Poll \/ CloseStream \/ Advance
    BY <1>1, <1>11 DEF OpenStream, Poll, CloseStream, Advance
  <1>12. CASE Restart
    BY <1>0, <1>12, NoticesFewer DEF Restart
  <1>13. QED
    BY <1>2, <1>3, <1>4, <1>5, <1>6, <1>7, <1>8, <1>9, <1>10, <1>11, <1>12
       DEF MonitorNext, Detecting, vars

\* Two notifications about a meter have a sign of life between them, however late stamps
\* and notifications are committed, and whatever is cut short.
THEOREM NoSecondNotice == MonitorSpec => []OneNoticePerOutage
  <1>1. MonitorInit => NoticesInv
    BY DEF MonitorInit, NoticesInv, Told, NoTick
  <1>2. MonitorTypeOK /\ NoticesInv /\ [MonitorNext]_vars => NoticesInv'
    BY NoticesStep
  <1>3. NoticesInv => OneNoticePerOutage
    BY DEF NoticesInv, Told, OneNoticePerOutage
  <1>4. QED
    BY <1>1, <1>2, <1>3, MonitorTypeCorrect, PTL DEF MonitorSpec
=============================================================================
