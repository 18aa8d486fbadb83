------------------------ MODULE CallHomePool_proofs ------------------------
(***************************************************************************)
(* Proofs about CallHomePool: a connection never has two users, no socket  *)
(* is forgotten, the pool implements ConnectionLease and keeps its limits, *)
(* and of the threads that have one job, all but one were overtaken by the *)
(* reaper of the Backend.                                                  *)
(***************************************************************************)
EXTENDS CallHomePool, FiniteSetTheorems, WellFoundedInduction, TLAPS

-----------------------------------------------------------------------------
(* The oldest and the newest of a set of connections *)

\* A set of connections that is not empty has an oldest member.
LEMMA MinMember ==
  ASSUME NEW P, P \subseteq Conns, P # {}
  PROVE  Min(P) \in P
  <1>1. P \subseteq Nat
    BY ConnsAssumption DEF Conns
  <1>2. PICK x \in P : \A y \in P : ~ (<<y, x>> \in OpToRel(<, Nat))
    BY <1>1, WFMin, NatLessThanWellFounded, Zenon
  <1>3. \A y \in P : ~ (y < x)
    <2>1. SUFFICES ASSUME NEW y \in P, y < x PROVE <<y, x>> \in OpToRel(<, Nat)
      BY <1>2
    <2>2. <<y, x>> \in Nat \X Nat
      BY <1>1, <2>1
    <2>3. QED
      BY <2>1, <2>2, Zenon DEF OpToRel
  <1>4. \A y \in P : x <= y
    BY <1>1, <1>3
  <1>5. QED
    BY <1>4, Zenon DEF Min

\* ... and a newest one.
LEMMA MaxMember ==
  ASSUME NEW P, P \subseteq Conns, P # {}
  PROVE  Max(P) \in P
  <1> DEFINE Q == {MaxConns - p : p \in P}
  <1>1. Q \subseteq Nat /\ Q # {}
    <2>1. \A p \in P : MaxConns - p \in Nat
      BY ConnsAssumption DEF Conns
    <2>2. QED
      BY <2>1
  <1>2. PICK x \in Q : \A y \in Q : ~ (<<y, x>> \in OpToRel(<, Nat))
    BY <1>1, WFMin, NatLessThanWellFounded, Zenon
  <1>3. \A y \in Q : ~ (y < x)
    <2>1. SUFFICES ASSUME NEW y \in Q, y < x PROVE <<y, x>> \in OpToRel(<, Nat)
      BY <1>2
    <2>2. <<y, x>> \in Nat \X Nat
      BY <1>1, <2>1
    <2>3. QED
      BY <2>1, <2>2, Zenon DEF OpToRel
  <1>4. PICK p \in P : x = MaxConns - p
    BY <1>2
  <1>5. \A y \in P : p >= y
    <2>1. SUFFICES ASSUME NEW y \in P PROVE p >= y
      OBVIOUS
    <2>2. ~ (MaxConns - y < MaxConns - p)
      BY <1>3, <1>4
    <2>3. QED
      BY <2>2, ConnsAssumption DEF Conns
  <1>6. QED
    BY <1>5, Zenon DEF Max

-----------------------------------------------------------------------------
(* Types *)

\* What a full window and a full meter give up was pooled.
LEMMA EvictedWasPooled ==
  ASSUME TypeOK
  PROVE  /\ Overflow(pool) \subseteq pool
         /\ \A c \in Conns : Surplus(c) \subseteq pool \ {c}
  <1>1. Overflow(pool) \subseteq pool
    <2>1. CASE pool = {}
      <3>1. ~ (Cardinality(pool) >= Window)
        BY <2>1, FS_EmptySet, LimitsAssumption
      <3>2. QED
        BY <3>1 DEF Overflow
    <2>2. CASE pool # {}
      BY <2>2, MinMember DEF TypeOK, Overflow
    <2>3. QED
      BY <2>1, <2>2
  <1>2. ASSUME NEW c \in Conns PROVE Surplus(c) \subseteq pool \ {c}
    <2> DEFINE others == Pooled(serial[c]) \ {c}
    <2>0. others \subseteq pool \ {c} /\ others \subseteq Conns
      BY DEF TypeOK, Pooled
    <2>1. CASE others = {}
      <3>1. ~ (Cardinality(others) >= MaxPerSerial)
        BY <2>1, FS_EmptySet, LimitsAssumption
      <3>2. QED
        BY <3>1 DEF Surplus
    <2>2. CASE others # {}
      <3>1. Min(others) \in others
        BY <2>0, <2>2, MinMember
      <3>2. QED
        BY <2>0, <3>1 DEF Surplus
    <2>3. QED
      BY <2>1, <2>2
  <1>3. QED
    BY <1>1, <1>2

\* A thread tries one of the connections it has taken out.
LEMMA CandidateIsTaken ==
  ASSUME TypeOK, NEW c \in Conns, taken[c] # {}
  PROVE  Candidate(c) \in taken[c]
  <1>1. taken[c] \subseteq Conns
    BY DEF TypeOK, Threads
  <1>2. Max(taken[c]) \in taken[c]
    BY <1>1, MaxMember
  <1>3. QED
    BY <1>2 DEF Candidate

\* A connection that waits for a meter, or for a caller, was pooled under its number.
LEMMA PooledMembers ==
  ASSUME TypeOK, NEW s
  PROVE  /\ Pooled(s) \subseteq pool
         /\ Pooled(s) # {} => Min(Pooled(s)) \in Pooled(s)
         /\ Pooled(s) \ old # {} => Max(Pooled(s) \ old) \in Pooled(s) \ old
  <1>1. Pooled(s) \subseteq pool /\ Pooled(s) \subseteq Conns
    BY DEF Pooled, TypeOK
  <1>2. QED
    BY <1>1, MinMember, MaxMember

\* Every step keeps the types.
LEMMA TypeStep == TypeOK /\ [Next]_vars => TypeOK'
  <1> SUFFICES ASSUME TypeOK, [Next]_vars PROVE TypeOK'
    OBVIOUS
  <1> USE DEF TypeOK, Threads, Fates, poolVars, linkVars, workVars, jobVars
  <1>0. ASSUME NEW S, NEW c \in Conns, Drop(c, S) \/ Report(c, S)
        PROVE  /\ todo' \in [Conns -> SUBSET Jobs]
               /\ lapsed' \in [Conns -> SUBSET Jobs]
               /\ fate' \in [Jobs -> Fates]
    <2>1. todo' \in [Conns -> SUBSET Jobs] /\ lapsed' \in [Conns -> SUBSET Jobs]
      BY <1>0 DEF Drop, Report, LetGo
    <2>2. fate' \in [Jobs -> Fates]
      BY <1>0 DEF Drop, Report
    <2>3. QED
      BY <2>1, <2>2
  <1>c. ASSUME NEW t \in Threads, NEW P, Close(t, P)
        PROVE  /\ open' \subseteq Conns
               /\ taken' \in [Threads -> SUBSET Conns]
               /\ using' \in [Threads -> Conns \cup {NoConn}]
               /\ linking' \subseteq Conns
               /\ beaten' \subseteq Conns
    BY <1>c DEF Close
  <1>1. ASSUME NEW c \in Conns, Admit(c) PROVE TypeOK'
    BY <1>1, EvictedWasPooled DEF Admit, Phases
  <1>2. ASSUME NEW c \in Conns, NEW s \in Serials, Announce(c, s) PROVE TypeOK'
    BY <1>2 DEF Announce, Phases
  <1>3. ASSUME NEW c \in Conns, AnnounceDamaged(c) PROVE TypeOK'
    BY <1>3 DEF AnnounceDamaged, Phases
  <1>4. ASSUME NEW c \in Conns, StayUnknown(c) \/ CheckLimit(c) PROVE TypeOK'
    BY <1>4 DEF StayUnknown, CheckLimit, Phases
  <1>5. ASSUME NEW c \in Conns, Ask(c) PROVE TypeOK'
    <2>1. Offer(serial[c]) \subseteq Jobs
      BY DEF Offer
    <2>2. QED
      BY <1>5, <2>1 DEF Ask, Phases
  <1>6. ASSUME NEW c \in Conns, LeavePooled(c) PROVE TypeOK'
    BY <1>6 DEF LeavePooled, Phases
  <1>7. ASSUME NEW c \in Conns, LoseReply(c) PROVE TypeOK'
    BY <1>0, <1>7 DEF LoseReply, Phases
  <1>8. ASSUME NEW c \in Conns, TakeOver(c) PROVE TypeOK'
    <2>1. CASE c \notin pool
      BY <1>0, <1>8, <2>1 DEF TakeOver, Phases
    <2>2. CASE c \in pool
      <3>1. FirstStage(todo[c]) \in Phases
        BY DEF FirstStage, Phases, Stages
      <3>2. {c} \cup Pooled(serial[c]) \subseteq Conns
        BY DEF Pooled
      <3>3. QED
        BY <1>8, <2>2, <3>1, <3>2 DEF TakeOver
    <2>3. QED
      BY <2>1, <2>2
  <1>9. ASSUME NEW c \in Conns, Start(c) PROVE TypeOK'
    BY <1>9, CandidateIsTaken DEF Start
  <1>10. ASSUME NEW c \in Conns, Sibling(c) PROVE TypeOK'
    BY <1>10, PooledMembers DEF Sibling
  <1>11. ASSUME NEW c \in Conns, FinishOne(c) PROVE TypeOK'
    BY <1>0, <1>c, <1>11 DEF FinishOne
  <1>12. ASSUME NEW c \in Conns, FinishReads(c) PROVE TypeOK'
    BY <1>0, <1>c, <1>12 DEF FinishReads
  <1>13. ASSUME NEW c \in Conns, RetryReads(c) PROVE TypeOK'
    BY <1>c, <1>13 DEF RetryReads
  <1>14. ASSUME NEW c \in Conns, GiveUp(c) PROVE TypeOK'
    BY <1>0, <1>c, <1>14 DEF GiveUp
  <1>15. ASSUME NEW c \in Conns, EndStage(c) PROVE TypeOK'
    BY <1>0, <1>c, <1>15 DEF EndStage, Phases, Stages
  <1>16. ASSUME NEW c \in Conns, Fail(c) PROVE TypeOK'
    BY <1>0, <1>c, <1>16 DEF Fail, Phases
  <1>17. ASSUME NEW c \in Conns, GrowOld(c) PROVE TypeOK'
    BY <1>17 DEF GrowOld
  <1>18. ASSUME NEW w \in Callers, CallerDone(w) PROVE TypeOK'
    BY <1>c, <1>18 DEF CallerDone
  <1>19. ASSUME NEW w \in Callers, NEW s \in Serials, CallerClaim(w, s) PROVE TypeOK'
    BY <1>19, PooledMembers DEF CallerClaim
  <1>20. ASSUME NEW j \in Jobs, Enqueue(j) \/ Reap(j) PROVE TypeOK'
    BY <1>20 DEF Enqueue, Reap
  <1>21. CASE Stop
    BY <1>21 DEF Stop
  <1>22. CASE UNCHANGED vars
    BY <1>22 DEF vars
  <1>23. ASSUME NEW c \in Conns, Link(c) \/ Heartbeat(c) \/ WaitOn(c) PROVE TypeOK'
    BY <1>23 DEF Link, Heartbeat, WaitOn
  <1>24. QED
    BY <1>1, <1>2, <1>3, <1>4, <1>5, <1>6, <1>7, <1>8, <1>9, <1>10, <1>11, <1>12, <1>13,
       <1>14, <1>15, <1>16, <1>17, <1>18, <1>19, <1>20, <1>21, <1>22, <1>23
       DEF Next, Identify, Carry

\* Theorem: the types hold for any number of connections, callers, meters and jobs.
THEOREM PoolTypeCorrect == Spec => []TypeOK
  <1>1. Init => TypeOK
    BY DEF Init, TypeOK, Phases, Fates
  <1>2. QED
    BY <1>1, TypeStep, PTL DEF Spec

-----------------------------------------------------------------------------
(* One user *)

\* SoleUser and NoneForgotten, and what makes them inductive: what is pooled is
\* open, what is to come is not, a thread uses what it has taken out, and has taken
\* out nothing before or after its stages.
PoolInv ==
    /\ SoleUser
    /\ pool \subseteq open
    /\ open \subseteq pool \cup UNION {taken[t] : t \in Threads}
    /\ \A t \in Threads : using[t] = NoConn \/ using[t] \in taken[t]
    /\ \A c \in Conns : at[c] = "new" => c \notin open
    /\ \A c \in Conns : at[c] \notin Stages => taken[c] = {}
    /\ \A w \in Callers : using[w] = NoConn => taken[w] = {}
    /\ \A c \in Conns : at[c] \in {"new", "reading"} => \A t \in Threads : c \notin taken[t]

\* A connection has a serial number from the announcement on, and none before.
SerialInv ==
    \A c \in Conns :
        /\ at[c] \in {"new", "reading"} => serial[c] = NoSerial
        /\ at[c] \in {"announced", "asking", "told"} \cup Stages => serial[c] \in Serials

\* A thread that closes some of the connections it has taken out disturbs nobody.
LEMMA CloseKeepsPool ==
  ASSUME TypeOK, PoolInv, NEW t \in Threads, NEW P, P \subseteq taken[t], Close(t, P),
         UNCHANGED pool,
         \A c \in Conns : at'[c] \in {"new", "reading"} => at[c] = at'[c],
         \A c \in Conns : at'[c] \notin Stages => (c = t /\ P = taken[t]) \/ at[c] \notin Stages,
         t \in Callers => P = taken[t]
  PROVE  PoolInv'
  <1> USE DEF TypeOK, PoolInv, SoleUser
  <1>1. /\ open' = open \ P
        /\ taken' = [taken EXCEPT ![t] = @ \ P]
        /\ using' = [using EXCEPT ![t] = NoConn]
    BY DEF Close
  <1>2. \A u \in Threads : taken'[u] = IF u = t THEN taken[t] \ P ELSE taken[u]
    BY <1>1
  <1>3. \A u \in Threads \ {t} : taken[u] \cap P = {}
    OBVIOUS
  <1>4. SoleUser'
    BY <1>1, <1>2, <1>3
  <1>5. (pool \subseteq open)'
    BY <1>1
  <1>6. (open \subseteq pool \cup UNION {taken[u] : u \in Threads})'
    <2>1. SUFFICES ASSUME NEW d \in open \ P, d \notin pool
                   PROVE  \E u \in Threads : d \in taken'[u]
      BY <1>1
    <2>2. PICK u \in Threads : d \in taken[u]
      BY <2>1
    <2>3. QED
      BY <1>2, <2>1, <2>2
  <1>7. \A u \in Threads : (using[u] = NoConn \/ using[u] \in taken[u])'
    BY <1>1, <1>2
  <1>8. \A c \in Conns : (at[c] = "new" => c \notin open)'
    BY <1>1
  <1>9. \A c \in Conns : (at[c] \notin Stages => taken[c] = {})'
    BY <1>2 DEF Threads
  <1>10. \A w \in Callers : (using[w] = NoConn => taken[w] = {})'
    BY <1>1, <1>2 DEF Threads
  <1>11. \A c \in Conns : (at[c] \in {"new", "reading"} => \A u \in Threads : c \notin taken[u])'
    BY <1>2
  <1>12. QED
    BY <1>4, <1>5, <1>6, <1>7, <1>8, <1>9, <1>10, <1>11

\* A thread without connections that takes some out of the pool disturbs nobody.
LEMMA TakeKeepsPool ==
  ASSUME TypeOK, PoolInv, NEW t \in Threads, NEW P, P \subseteq pool, taken[t] = {},
         \A p \in P : at[p] \notin {"new", "reading"},
         pool' = pool \ P, taken' = [taken EXCEPT ![t] = P], UNCHANGED open,
         \A u \in Threads \ {t} : using'[u] = using[u],
         using'[t] = NoConn \/ using'[t] \in P,
         \A c \in Conns : at'[c] \in {"new", "reading"} => at[c] = at'[c],
         \A c \in Conns : at'[c] \notin Stages => c # t /\ at[c] \notin Stages,
         t \in Callers => using'[t] # NoConn
  PROVE  PoolInv'
  <1> USE DEF TypeOK, PoolInv, SoleUser
  <1>1. \A u \in Threads : taken'[u] = IF u = t THEN P ELSE taken[u]
    OBVIOUS
  <1>2. SoleUser'
    BY <1>1
  <1>3. (open \subseteq pool \cup UNION {taken[u] : u \in Threads})'
    <2>1. SUFFICES ASSUME NEW d \in open, d \notin pool \ P
                   PROVE  \E u \in Threads : d \in taken'[u]
      OBVIOUS
    <2>2. CASE d \in P
      BY <1>1, <2>2
    <2>3. CASE d \notin P
      <3>1. PICK u \in Threads : d \in taken[u]
        BY <2>1, <2>3
      <3>2. QED
        BY <1>1, <3>1
    <2>4. QED
      BY <2>2, <2>3
  <1>4. \A u \in Threads : (using[u] = NoConn \/ using[u] \in taken[u])'
    BY <1>1
  <1>5. \A c \in Conns : (at[c] = "new" => c \notin open)'
    OBVIOUS
  <1>6. \A c \in Conns : (at[c] \notin Stages => taken[c] = {})'
    BY <1>1 DEF Threads
  <1>7. \A w \in Callers : (using[w] = NoConn => taken[w] = {})'
    BY <1>1 DEF Threads
  <1>8. \A c \in Conns : (at[c] \in {"new", "reading"} => \A u \in Threads : c \notin taken[u])'
    BY <1>1
  <1>9. QED
    BY <1>2, <1>3, <1>4, <1>5, <1>6, <1>7, <1>8

\* Connections of the pool that are closed as they leave it disturb nobody.
LEMMA EvictKeepsPool ==
  ASSUME TypeOK, PoolInv, NEW P, P \subseteq pool,
         pool' = pool \ P, open' = open \ P, UNCHANGED <<taken, using>>,
         \A c \in Conns : at'[c] \in {"new", "reading"} => at[c] = at'[c],
         \A c \in Conns : at'[c] \notin Stages => at[c] \notin Stages
  PROVE  PoolInv'
  BY DEF TypeOK, PoolInv, SoleUser

\* A step that leaves the pool alone, and no thread with connections at its end.
LEMMA OtherKeepsPool ==
  ASSUME TypeOK, PoolInv, UNCHANGED <<pool, open, taken, using>>,
         \A c \in Conns : at'[c] \in {"new", "reading"} => at[c] = at'[c],
         \A c \in Conns : at'[c] \notin Stages => at[c] \notin Stages
  PROVE  PoolInv'
  BY DEF PoolInv, SoleUser

\* A thread finds only connections that have announced themselves.
LEMMA PooledHaveSerial ==
  ASSUME TypeOK, SerialInv, NEW s \in Serials
  PROVE  \A p \in Pooled(s) : at[p] \notin {"new", "reading"}
  BY NamesAssumption DEF Pooled, SerialInv, TypeOK

\* Every step keeps the serial numbers where they belong.
LEMMA SerialStep == TypeOK /\ SerialInv /\ [Next]_vars => SerialInv'
  <1> SUFFICES ASSUME TypeOK, SerialInv, [Next]_vars PROVE SerialInv'
    OBVIOUS
  <1> USE DEF TypeOK, SerialInv, Stages, poolVars, linkVars, workVars, jobVars
  <1>1. ASSUME NEW c \in Conns, NEW s \in Serials, Announce(c, s) PROVE SerialInv'
    BY <1>1 DEF Announce
  <1>2. ASSUME NEW c \in Conns, Admit(c) \/ AnnounceDamaged(c) \/ StayUnknown(c) \/ CheckLimit(c)
        PROVE  SerialInv'
    BY <1>2 DEF Admit, AnnounceDamaged, StayUnknown, CheckLimit
  <1>3. ASSUME NEW c \in Conns, Ask(c) \/ LeavePooled(c) \/ LoseReply(c) PROVE SerialInv'
    BY <1>3 DEF Ask, LeavePooled, LoseReply
  <1>4. ASSUME NEW c \in Conns, TakeOver(c) PROVE SerialInv'
    BY <1>4 DEF TakeOver, FirstStage
  <1>5. ASSUME NEW c \in Conns, EndStage(c) \/ Fail(c) PROVE SerialInv'
    BY <1>5 DEF EndStage, Fail
  <1>6. ASSUME UNCHANGED <<serial, at>> PROVE SerialInv'
    BY <1>6
  <1>7. QED
    BY <1>1, <1>2, <1>3, <1>4, <1>5, <1>6
       DEF Next, Identify, Carry, vars, Start, Link, Heartbeat, WaitOn, Sibling, FinishOne,
           FinishReads, RetryReads, GiveUp, GrowOld, CallerDone, CallerClaim, Enqueue, Reap,
           Stop

\* Every step keeps the users apart.
LEMMA PoolStep == TypeOK /\ SerialInv /\ PoolInv /\ [Next]_vars => PoolInv'
  <1> SUFFICES ASSUME TypeOK, SerialInv, PoolInv, [Next]_vars PROVE PoolInv'
    OBVIOUS
  <1> USE DEF poolVars, linkVars, workVars, jobVars
  <1>1. ASSUME NEW c \in Conns, Admit(c) PROVE PoolInv'
    <2>1. Overflow(pool) \subseteq pool
      BY EvictedWasPooled
    <2>2. c \notin open
      BY <1>1 DEF Admit, PoolInv
    <2>3. \A t \in Threads : c \notin taken[t]
      BY <2>2 DEF PoolInv, SoleUser
    <2>4. QED
      BY <1>1, <2>1, <2>2, <2>3 DEF Admit, PoolInv, SoleUser, TypeOK, Stages
  <1>2. ASSUME NEW c \in Conns, NEW s \in Serials, Announce(c, s) PROVE PoolInv'
    BY <1>2, OtherKeepsPool DEF Announce, TypeOK, Stages
  <1>3. ASSUME NEW c \in Conns, AnnounceDamaged(c) PROVE PoolInv'
    <2>1. CASE c \in pool
      <3>1. /\ at[c] = "reading" /\ at' = [at EXCEPT ![c] = "done"]
            /\ pool' = pool \ {c} /\ open' = open \ {c} /\ UNCHANGED <<taken, using>>
        BY <1>3 DEF AnnounceDamaged
      <3>2. /\ \A d \in Conns : at'[d] \in {"new", "reading"} => at[d] = at'[d]
            /\ \A d \in Conns : at'[d] \notin Stages => at[d] \notin Stages
        BY <3>1 DEF TypeOK, Stages
      <3>3. QED
        BY <2>1, <3>1, <3>2, EvictKeepsPool
    <2>2. CASE c \notin pool
      <3>1. taken[c] = {} /\ \A t \in Threads : c \notin taken[t]
        BY <1>3 DEF AnnounceDamaged, PoolInv, Stages
      <3>2. c \notin open
        BY <2>2, <3>1 DEF PoolInv
      <3>3. QED
        BY <1>3, <2>2, <3>2, OtherKeepsPool DEF AnnounceDamaged, TypeOK, Stages
    <2>3. QED
      BY <2>1, <2>2
  <1>4. ASSUME NEW c \in Conns, StayUnknown(c) PROVE PoolInv'
    BY <1>4, OtherKeepsPool DEF StayUnknown, TypeOK, Stages
  <1>5. ASSUME NEW c \in Conns, CheckLimit(c) PROVE PoolInv'
    <2>1. Surplus(c) \subseteq pool
      BY EvictedWasPooled
    <2>2. QED
      BY <1>5, <2>1, EvictKeepsPool DEF CheckLimit, TypeOK, Stages
  <1>6. ASSUME NEW c \in Conns, Ask(c) PROVE PoolInv'
    BY <1>6, OtherKeepsPool DEF Ask, TypeOK, Stages
  <1>7. ASSUME NEW c \in Conns, LeavePooled(c) PROVE PoolInv'
    BY <1>7, OtherKeepsPool DEF LeavePooled, TypeOK, Stages
  <1>8. ASSUME NEW c \in Conns, LoseReply(c) PROVE PoolInv'
    BY <1>8, OtherKeepsPool DEF LoseReply, TypeOK, Stages
  <1>9. ASSUME NEW c \in Conns, TakeOver(c) PROVE PoolInv'
    <2> DEFINE mine == {c} \cup Pooled(serial[c])
               first == FirstStage(todo[c])
    <2>1. CASE c \notin pool
      BY <1>9, <2>1, OtherKeepsPool DEF TakeOver, TypeOK, Stages
    <2>2. CASE c \in pool
      <3>1. /\ pool' = pool \ mine
            /\ at' = [at EXCEPT ![c] = first]
            /\ IF first = "profile" THEN open' = open \ mine /\ UNCHANGED taken
               ELSE taken' = [taken EXCEPT ![c] = mine] /\ UNCHANGED open
            /\ UNCHANGED using
            /\ at[c] = "told"
        BY <1>9, <2>2 DEF TakeOver
      <3>2. first \in Stages
        BY DEF FirstStage, Stages
      <3>3. mine \subseteq pool
        BY <2>2, PooledMembers
      <3>4. c \in Threads /\ c \notin Callers /\ taken[c] = {} /\ using'[c] = NoConn
        BY <3>1, NamesAssumption DEF PoolInv, Stages, Threads
      <3>a. \A p \in mine : at[p] \notin {"new", "reading"}
        <4>1. serial[c] \in Serials
          BY <3>1 DEF SerialInv
        <4>2. QED
          BY <3>1, <4>1, PooledHaveSerial
      <3>5. /\ \A d \in Conns : at'[d] \in {"new", "reading"} => at[d] = at'[d]
            /\ \A d \in Conns : at'[d] \notin Stages => d # c /\ at[d] \notin Stages
        BY <3>1, <3>2 DEF TypeOK, Stages
      <3> HIDE DEF mine, first
      <3>6. CASE first = "profile"
        BY <3>1, <3>3, <3>5, <3>6, EvictKeepsPool
      <3>7. CASE first # "profile"
        BY <3>1, <3>3, <3>4, <3>a, <3>5, <3>7, TakeKeepsPool
      <3>8. QED
        BY <3>6, <3>7
    <2>3. QED
      BY <2>1, <2>2
  <1>10. ASSUME NEW c \in Conns, Start(c) PROVE PoolInv'
    BY <1>10, CandidateIsTaken DEF Start, TypeOK, PoolInv, SoleUser, Threads
  <1>11. ASSUME NEW c \in Conns, Sibling(c) PROVE PoolInv'
    <2> DEFINE p == Min(Pooled(serial[c]))
    <2>1. p \in Pooled(serial[c]) /\ {p} \subseteq pool
      BY <1>11, PooledMembers DEF Sibling
    <2>2. c \in Threads /\ c \notin Callers /\ at[c] \in Stages /\ serial[c] \in Serials
      BY <1>11, NamesAssumption DEF Sibling, Threads, SerialInv
    <2>3. \A q \in {p} : at[q] \notin {"new", "reading"}
      BY <2>1, <2>2, PooledHaveSerial
    <2> HIDE DEF p
    <2>4. /\ pool' = pool \ {p}
          /\ taken' = [taken EXCEPT ![c] = {p}]
          /\ taken[c] = {}
          /\ using[c] = NoConn
          /\ UNCHANGED <<open, at, using>>
      BY <1>11 DEF Sibling, p
    <2>5. \A d \in Conns : at'[d] \notin Stages => d # c /\ at[d] \notin Stages
      BY <2>2, <2>4
    <2>6. using'[c] = NoConn /\ \A u \in Threads \ {c} : using'[u] = using[u]
      BY <2>4
    <2>7. \A d \in Conns : at'[d] \in {"new", "reading"} => at[d] = at'[d]
      BY <2>4
    <2>8. pool' = pool \ {p} /\ taken' = [taken EXCEPT ![c] = {p}] /\ UNCHANGED open
      BY <2>4
    <2>9. QED
      BY <2>1, <2>2, <2>3, <2>4, <2>5, <2>6, <2>7, <2>8, TakeKeepsPool
  <1>12. ASSUME NEW c \in Conns, FinishOne(c) \/ RetryReads(c) PROVE PoolInv'
    <2>1. c \in Threads /\ c \notin Callers /\ {using[c]} \subseteq taken[c]
      BY <1>12, NamesAssumption DEF FinishOne, RetryReads, Over, PoolInv, Threads
    <2>2. Close(c, {using[c]}) /\ UNCHANGED <<pool, at>>
      BY <1>12 DEF FinishOne, RetryReads
    <2>3. QED
      BY <2>1, <2>2, CloseKeepsPool
  <1>13. ASSUME NEW c \in Conns, FinishReads(c) \/ GiveUp(c) PROVE PoolInv'
    BY <1>13, CloseKeepsPool DEF FinishReads, GiveUp, Threads
  <1>14. ASSUME NEW c \in Conns, EndStage(c) \/ Fail(c) PROVE PoolInv'
    <2>1. /\ Close(c, taken[c])
          /\ UNCHANGED pool
          /\ \A d \in Conns : at'[d] \in {"new", "reading"} => at[d] = at'[d]
          /\ \A d \in Conns : at'[d] \notin Stages => d = c \/ at[d] \notin Stages
      BY <1>14 DEF EndStage, Fail, TypeOK
    <2>2. QED
      BY <2>1, CloseKeepsPool DEF Threads
  <1>15. ASSUME NEW c \in Conns, GrowOld(c) PROVE PoolInv'
    BY <1>15, OtherKeepsPool DEF GrowOld
  <1>16. ASSUME NEW w \in Callers, CallerDone(w) PROVE PoolInv'
    BY <1>16, CloseKeepsPool DEF CallerDone, Threads
  <1>17. ASSUME NEW w \in Callers, NEW s \in Serials, CallerClaim(w, s) PROVE PoolInv'
    <2> DEFINE p == Max(Pooled(s) \ old)
    <2>1. p \in Pooled(s) /\ {p} \subseteq pool
      BY <1>17, PooledMembers DEF CallerClaim
    <2>2. w \in Threads /\ w \notin Conns /\ taken[w] = {}
      BY <1>17, NamesAssumption DEF CallerClaim, PoolInv, Threads
    <2>3. p # NoConn /\ \A q \in {p} : at[q] \notin {"new", "reading"}
      BY <2>1, ConnsAssumption, PooledHaveSerial DEF TypeOK
    <2> HIDE DEF p
    <2>4. /\ pool' = pool \ {p}
          /\ taken' = [taken EXCEPT ![w] = {p}]
          /\ using' = [using EXCEPT ![w] = p]
          /\ UNCHANGED <<open, at>>
      BY <1>17 DEF CallerClaim, p
    <2>5. using'[w] = p /\ \A u \in Threads \ {w} : using'[u] = using[u]
      BY <2>2, <2>4 DEF TypeOK
    <2>6. \A d \in Conns : at'[d] \notin Stages => d # w /\ at[d] \notin Stages
      BY <2>2, <2>4
    <2>7. QED
      BY <2>1, <2>2, <2>3, <2>4, <2>5, <2>6, TakeKeepsPool, ZenonT(60)
  <1>18. ASSUME NEW j \in Jobs, Enqueue(j) \/ Reap(j) PROVE PoolInv'
    BY <1>18, OtherKeepsPool DEF Enqueue, Reap
  <1>19. CASE Stop
    BY <1>19, EvictKeepsPool DEF Stop
  <1>20. CASE UNCHANGED vars
    BY <1>20, OtherKeepsPool DEF vars
  <1>21. ASSUME NEW c \in Conns, Link(c) \/ Heartbeat(c) \/ WaitOn(c) PROVE PoolInv'
    BY <1>21, OtherKeepsPool DEF Link, Heartbeat, WaitOn
  <1>22. QED
    BY <1>1, <1>2, <1>3, <1>4, <1>5, <1>6, <1>7, <1>8, <1>9, <1>10, <1>11, <1>12, <1>13,
       <1>14, <1>15, <1>16, <1>17, <1>18, <1>19, <1>20, <1>21
       DEF Next, Identify, Carry

\* The inductive invariant of the pool.
PoolIInv == TypeOK /\ SerialInv /\ PoolInv

\* Nothing is pooled or taken at the start.
LEMMA PoolInit == Init => PoolIInv
  <1>1. Init => TypeOK
    BY DEF Init, TypeOK, Phases, Fates
  <1>2. Init => SerialInv
    BY DEF Init, SerialInv, Stages
  <1>3. Init => PoolInv
    BY DEF Init, PoolInv, SoleUser, Stages, Threads
  <1>4. QED
    BY <1>1, <1>2, <1>3 DEF PoolIInv

\* The invariant holds for ever.
THEOREM PoolInvariant == Spec => []PoolIInv
  <1>1. PoolIInv /\ [Next]_vars => PoolIInv'
    BY TypeStep, SerialStep, PoolStep DEF PoolIInv
  <1>2. QED
    BY <1>1, PoolInit, PTL DEF Spec

\* Theorem: however many threads, callers and meters, a connection outside the pool
\* has one user at most, and stays open for it.
THEOREM ConnectionsHaveOneUser == Spec => []SoleUser
  <1>1. PoolIInv => SoleUser
    BY DEF PoolIInv, PoolInv
  <1>2. QED
    BY <1>1, PoolInvariant, PTL

\* Theorem: an open socket is always pooled or somebody's.
THEOREM NoSocketForgotten == Spec => []NoneForgotten
  <1>1. PoolIInv => NoneForgotten
    BY DEF PoolIInv, PoolInv, NoneForgotten, Stages
  <1>2. QED
    BY <1>1, PoolInvariant, PTL

-----------------------------------------------------------------------------
(* The pool implements ConnectionLease *)

\* What a step may do to one connection: it stays accepted, is pooled when it is
\* accepted and never again, stays closed, and is taken from the pool alone.
Edges(c) ==
    /\ at[c] # "new" => at'[c] # "new"
    /\ at[c] = "new" /\ at'[c] # "new" => c \in pool'
    /\ at[c] # "new" /\ c \notin pool => c \notin pool'
    /\ at[c] # "new" /\ c \notin open => c \notin open'
    /\ c \notin pool => \A t \in Threads : c \in taken'[t] => c \in taken[t]

\* Every step does that to every connection.
LEMMA EdgesStep == TypeOK /\ [Next]_vars => \A c \in Conns : Edges(c)
  <1> SUFFICES ASSUME TypeOK, [Next]_vars, NEW c \in Conns PROVE Edges(c)
    OBVIOUS
  <1> USE DEF TypeOK, Edges, poolVars, linkVars, workVars, jobVars
  <1>1. ASSUME NEW d \in Conns, Admit(d) PROVE Edges(c)
    BY <1>1 DEF Admit
  <1>2. ASSUME NEW d \in Conns, Identify(d) PROVE Edges(c)
    BY <1>2 DEF Identify, Announce, AnnounceDamaged, StayUnknown, CheckLimit, Ask,
                LeavePooled, LoseReply
  <1>3. ASSUME NEW d \in Conns, TakeOver(d) PROVE Edges(c)
    <2> DEFINE mine == {d} \cup Pooled(serial[d])
               first == FirstStage(todo[d])
    <2>1. CASE d \notin pool
      BY <1>3, <2>1 DEF TakeOver
    <2>2. CASE d \in pool
      <3>1. mine \subseteq pool
        BY <2>2, PooledMembers
      <3>2. first # "new" /\ at[d] # "new"
        BY <1>3 DEF FirstStage, TakeOver
      <3>3. /\ pool' = pool \ mine
            /\ at' = [at EXCEPT ![d] = first]
            /\ open' = open \ mine \/ open' = open
            /\ taken' = taken \/ taken' = [taken EXCEPT ![d] = mine]
        BY <1>3, <2>2 DEF TakeOver
      <3> HIDE DEF mine, first
      <3>4. QED
        BY <3>1, <3>2, <3>3
    <2>3. QED
      BY <2>1, <2>2
  <1>4. ASSUME NEW d \in Conns, Sibling(d) PROVE Edges(c)
    <2> DEFINE p == Min(Pooled(serial[d]))
    <2>1. p \in pool
      BY <1>4, PooledMembers DEF Sibling
    <2> HIDE DEF p
    <2>2. /\ pool' = pool \ {p}
          /\ taken' = [taken EXCEPT ![d] = {p}]
          /\ UNCHANGED <<open, at>>
      BY <1>4 DEF Sibling, p
    <2>3. QED
      BY <2>1, <2>2
  <1>5. ASSUME NEW t \in Threads, NEW P, Close(t, P), UNCHANGED pool,
               at[c] # "new" => at'[c] # "new", at[c] = "new" => at'[c] = "new"
        PROVE  Edges(c)
    BY <1>5 DEF Close
  <1>6. ASSUME NEW d \in Conns,
               Start(d) \/ FinishOne(d) \/ FinishReads(d) \/ RetryReads(d) \/ GiveUp(d)
        PROVE  Edges(c)
    BY <1>5, <1>6 DEF Start, FinishOne, FinishReads, RetryReads, GiveUp, Threads
  <1>7. ASSUME NEW d \in Conns, EndStage(d) \/ Fail(d) PROVE Edges(c)
    <2>1. at[d] # "new" /\ Close(d, taken[d]) /\ UNCHANGED pool
      BY <1>7 DEF EndStage, Fail, Stages
    <2>2. at' = [at EXCEPT ![d] = "done"] \/ at' = [at EXCEPT ![d] = "profile"]
      BY <1>7 DEF EndStage, Fail
    <2>3. QED
      BY <1>5, <2>1, <2>2 DEF Threads
  <1>8. ASSUME NEW d \in Conns, GrowOld(d) \/ Link(d) \/ Heartbeat(d) \/ WaitOn(d)
        PROVE  Edges(c)
    BY <1>8 DEF GrowOld, Link, Heartbeat, WaitOn
  <1>9. ASSUME NEW w \in Callers, CallerDone(w) PROVE Edges(c)
    BY <1>5, <1>9 DEF CallerDone, Threads
  <1>10. ASSUME NEW w \in Callers, NEW s \in Serials, CallerClaim(w, s) PROVE Edges(c)
    <2> DEFINE p == Max(Pooled(s) \ old)
    <2>1. p \in pool
      BY <1>10, PooledMembers DEF CallerClaim
    <2> HIDE DEF p
    <2>2. /\ pool' = pool \ {p}
          /\ taken' = [taken EXCEPT ![w] = {p}]
          /\ UNCHANGED <<open, at>>
      BY <1>10 DEF CallerClaim, p
    <2>3. QED
      BY <2>1, <2>2
  <1>11. ASSUME NEW j \in Jobs, Enqueue(j) \/ Reap(j) PROVE Edges(c)
    BY <1>11 DEF Enqueue, Reap
  <1>12. CASE Stop
    BY <1>12 DEF Stop
  <1>13. CASE UNCHANGED vars
    BY <1>13 DEF vars
  <1>14. QED
    BY <1>1, <1>2, <1>3, <1>4, <1>6, <1>7, <1>8, <1>9, <1>10, <1>11, <1>12, <1>13
       DEF Next, Carry

\* The user of a leased connection.
UserOf(c) == IF UsersOf(c) = {} THEN NoConn ELSE CHOOSE t \in UsersOf(c) : TRUE

\* What the invariant says of the lease of a connection: a thread that has taken it
\* out is its only user; otherwise it is to come, waits or is closed.
LeaseFacts ==
    \A c \in Conns :
        /\ \A t \in Threads : c \in taken[t] =>
             LeaseState(c) = "leased" /\ UserOf(c) = t /\ c \notin pool /\ at[c] # "new"
        /\ (\A t \in Threads : c \notin taken[t]) =>
             /\ UserOf(c) = NoConn
             /\ at[c] = "new" => LeaseState(c) = "new"
             /\ at[c] # "new" /\ c \in pool => LeaseState(c) = "waiting"
             /\ at[c] # "new" /\ c \notin pool => LeaseState(c) = "closed" /\ c \notin open

\* They follow from the invariant.
LEMMA LeaseFactsHold == PoolInv => LeaseFacts
  <1> SUFFICES ASSUME PoolInv, NEW c \in Conns
               PROVE  /\ \A t \in Threads : c \in taken[t] =>
                           /\ LeaseState(c) = "leased"
                           /\ UserOf(c) = t
                           /\ c \notin pool
                           /\ at[c] # "new"
                      /\ (\A t \in Threads : c \notin taken[t]) =>
                           /\ UserOf(c) = NoConn
                           /\ at[c] = "new" => LeaseState(c) = "new"
                           /\ at[c] # "new" /\ c \in pool => LeaseState(c) = "waiting"
                           /\ at[c] # "new" /\ c \notin pool
                                => LeaseState(c) = "closed" /\ c \notin open
    BY DEF LeaseFacts
  <1>1. ASSUME NEW t \in Threads, c \in taken[t]
        PROVE  LeaseState(c) = "leased" /\ UserOf(c) = t /\ c \notin pool /\ at[c] # "new"
    <2>1. UsersOf(c) = {t}
      BY <1>1 DEF UsersOf, PoolInv, SoleUser
    <2>2. c \notin pool /\ at[c] # "new"
      BY <1>1 DEF PoolInv, SoleUser
    <2>3. QED
      BY <2>1, <2>2 DEF LeaseState, UserOf
  <1>2. ASSUME \A t \in Threads : c \notin taken[t]
        PROVE  /\ UserOf(c) = NoConn
               /\ at[c] = "new" => LeaseState(c) = "new"
               /\ at[c] # "new" /\ c \in pool => LeaseState(c) = "waiting"
               /\ at[c] # "new" /\ c \notin pool => LeaseState(c) = "closed" /\ c \notin open
    <2>1. UsersOf(c) = {}
      BY <1>2 DEF UsersOf
    <2>2. at[c] # "new" /\ c \notin pool => c \notin open
      BY <1>2 DEF PoolInv
    <2>3. QED
      BY <2>1, <2>2 DEF LeaseState, UserOf
  <1>3. QED
    BY <1>1, <1>2

\* One connection: along the edges of the lease, or nowhere.
LEMMA LeaseEdge ==
  ASSUME NEW c \in Conns, LeaseFacts, LeaseFacts', Edges(c)
  PROVE  \/ LeaseState(c) = "new" /\ LeaseState(c)' = "waiting" /\ UserOf(c)' = NoConn
         \/ /\ LeaseState(c) = "waiting"
            /\ LeaseState(c)' = "leased"
            /\ UserOf(c)' \in Threads
         \/ /\ LeaseState(c) \in {"waiting", "leased"}
            /\ LeaseState(c)' = "closed"
            /\ UserOf(c)' = NoConn
         \/ LeaseState(c)' = LeaseState(c) /\ UserOf(c)' = UserOf(c)
  <1> USE DEF LeaseFacts, Edges
  <1>1. CASE \E t \in Threads : c \in taken[t]
    <2>1. PICK t \in Threads : c \in taken[t]
      BY <1>1
    <2>2. LeaseState(c) = "leased" /\ UserOf(c) = t /\ c \notin pool /\ at[c] # "new"
      BY <2>1
    <2>3. at'[c] # "new" /\ c \notin pool'
      BY <2>2
    <2>4. CASE \E u \in Threads : c \in taken'[u]
      <3>1. PICK u \in Threads : c \in taken'[u]
        BY <2>4
      <3>2. u = t
        BY <2>2, <3>1
      <3>3. LeaseState(c)' = "leased" /\ UserOf(c)' = t
        BY <3>1, <3>2
      <3>4. QED
        BY <2>2, <3>3
    <2>5. CASE \A u \in Threads : c \notin taken'[u]
      <3>1. LeaseState(c)' = "closed" /\ UserOf(c)' = NoConn
        BY <2>3, <2>5
      <3>2. QED
        BY <2>2, <3>1
    <2>6. QED
      BY <2>4, <2>5
  <1>2. CASE \A t \in Threads : c \notin taken[t]
    <2>1. CASE at[c] = "new"
      BY <1>2, <2>1
    <2>2. CASE at[c] # "new" /\ c \in pool
      BY <1>2, <2>2
    <2>3. CASE at[c] # "new" /\ c \notin pool
      BY <1>2, <2>3
    <2>4. QED
      BY <2>1, <2>2, <2>3
  <1>3. QED
    BY <1>1, <1>2

\* Every step of the pool is a step of the lease, or leaves it alone.
LEMMA LeaseStep == PoolIInv /\ PoolIInv' /\ [Next]_vars => Lease!Next
  <1> SUFFICES ASSUME PoolIInv, PoolIInv', [Next]_vars PROVE Lease!Next
    OBVIOUS
  <1>1. LeaseFacts
    BY LeaseFactsHold DEF PoolIInv
  <1>2. LeaseFacts'
    BY LeaseFactsHold, PTL DEF PoolIInv
  <1>3. \A c \in Conns : Edges(c)
    BY EdgesStep DEF PoolIInv
  <1>4. QED
    BY <1>1, <1>2, <1>3, LeaseEdge
       DEF Lease!Next, Lease!Accepted, Lease!Granted, Lease!Closed, Lease!Untouched, UserOf

\* Theorem: CallHomePool implements ConnectionLease.
THEOREM PoolImplementsLease == Spec => LeaseSpec
  <1>1. Init => Lease!Init
    <2>1. SUFFICES ASSUME Init, NEW c \in Conns
                   PROVE  LeaseState(c) = "new" /\ UsersOf(c) = {}
      BY DEF Lease!Init
    <2>2. QED
      BY <2>1 DEF Init, LeaseState, UsersOf
  <1>2. PoolIInv /\ PoolIInv' /\ [Next]_vars => Lease!Next
    BY LeaseStep
  <1>3. QED
    BY <1>1, <1>2, PoolInvariant, PTL DEF Spec, LeaseSpec, Lease!Spec

-----------------------------------------------------------------------------
(* The limits *)

\* Sets of connections are finite, and smaller sets have fewer members.
LEMMA ConnsFinite ==
  /\ \A P : P \subseteq Conns => IsFiniteSet(P) /\ Cardinality(P) \in Nat
  /\ \A P, Q : P \subseteq Q /\ Q \subseteq Conns => Cardinality(P) <= Cardinality(Q)
  <1>1. IsFiniteSet(Conns)
    BY ConnsAssumption, FS_Interval DEF Conns
  <1>2. \A P : P \subseteq Conns => IsFiniteSet(P) /\ Cardinality(P) \in Nat
    BY <1>1, FS_Subset, FS_CardinalityType
  <1>3. QED
    BY <1>2, FS_Subset

\* A step that pools nothing, names nobody and checks no limit keeps the limits.
LEMMA ShrinkKeepsLimits ==
  ASSUME TypeOK, TypeOK', WithinLimits, pool' \subseteq pool,
         \A s \in Serials : Pooled(s)' \subseteq Pooled(s) /\ Unchecked(s) \subseteq Unchecked(s)'
  PROVE  WithinLimits'
  <1>1. Cardinality(pool') <= Cardinality(pool)
    BY ConnsFinite DEF TypeOK
  <1>2. Cardinality(pool) \in Nat /\ Cardinality(pool') \in Nat
    BY ConnsFinite DEF TypeOK
  <1>3. (Cardinality(pool) <= Window)'
    BY <1>1, <1>2, LimitsAssumption DEF WithinLimits
  <1>4. ASSUME NEW s \in Serials
        PROVE  (Cardinality(Pooled(s)) <= MaxPerSerial + Cardinality(Unchecked(s)))'
    <2>1. /\ Pooled(s) \subseteq Conns /\ Pooled(s)' \subseteq Conns
          /\ Unchecked(s) \subseteq Conns /\ Unchecked(s)' \subseteq Conns
      BY DEF TypeOK, Pooled, Unchecked
    <2>2. /\ Cardinality(Pooled(s)') <= Cardinality(Pooled(s))
          /\ Cardinality(Unchecked(s)) <= Cardinality(Unchecked(s)')
          /\ Cardinality(Pooled(s)) \in Nat /\ Cardinality(Pooled(s)') \in Nat
          /\ Cardinality(Unchecked(s)) \in Nat /\ Cardinality(Unchecked(s)') \in Nat
      BY <2>1, ConnsFinite
    <2>3. Cardinality(Pooled(s)) <= MaxPerSerial + Cardinality(Unchecked(s))
      BY DEF WithinLimits
    <2>4. QED
      BY <2>2, <2>3, LimitsAssumption
  <1>5. QED
    BY <1>3, <1>4 DEF WithinLimits

\* Admission keeps the window: a full one gives up a connection first.
LEMMA AdmitKeepsLimits ==
  ASSUME TypeOK, TypeOK', SerialInv, WithinLimits, NEW c \in Conns, Admit(c)
  PROVE  WithinLimits'
  <1>1. pool' = (pool \ Overflow(pool)) \cup {c}
    BY DEF Admit
  <1>2. IsFiniteSet(pool) /\ Cardinality(pool) \in Nat
    BY ConnsFinite DEF TypeOK
  <1>3. Cardinality(pool') <= Cardinality(pool \ Overflow(pool)) + 1
    <2> DEFINE rest == pool \ Overflow(pool)
    <2>1. IsFiniteSet(rest) /\ Cardinality(rest) \in Nat
      BY ConnsFinite DEF TypeOK
    <2> HIDE DEF rest
    <2>2. Cardinality(rest \cup {c}) \in {Cardinality(rest), Cardinality(rest) + 1}
      BY <2>1, FS_AddElement
    <2>3. Cardinality(rest \cup {c}) <= Cardinality(rest) + 1
      BY <2>1, <2>2
    <2>4. QED
      BY <1>1, <2>3 DEF rest
  <1>4. Cardinality(pool \ Overflow(pool)) < Window
    <2>1. CASE Cardinality(pool) >= Window
      <3>1. Overflow(pool) = {Min(pool)} /\ Min(pool) \in pool
        BY <2>1, EvictedWasPooled DEF Overflow
      <3>2. Cardinality(pool \ Overflow(pool)) = Cardinality(pool) - 1
        BY <1>2, <3>1, FS_RemoveElement
      <3>3. QED
        BY <1>2, <3>2, LimitsAssumption DEF WithinLimits
    <2>2. CASE Cardinality(pool) < Window
      <3>1. Overflow(pool) = {}
        BY <1>2, <2>2, LimitsAssumption DEF Overflow
      <3>2. pool \ Overflow(pool) = pool
        BY <3>1
      <3>3. QED
        BY <2>2, <3>2
    <2>3. QED
      BY <1>2, <2>1, <2>2, LimitsAssumption
  <1>5. Cardinality(pool \ Overflow(pool)) \in Nat /\ Cardinality(pool') \in Nat
    BY ConnsFinite DEF TypeOK
  <1>6. (Cardinality(pool) <= Window)'
    BY <1>3, <1>4, <1>5, LimitsAssumption
  <1>7. ASSUME NEW s \in Serials PROVE Pooled(s)' \subseteq Pooled(s) /\ Unchecked(s)' = Unchecked(s)
    <2>1. serial[c] # s
      BY NamesAssumption DEF Admit, SerialInv
    <2>2. UNCHANGED serial /\ at[c] = "new" /\ at' = [at EXCEPT ![c] = "reading"]
      BY DEF Admit
    <2>3. QED
      BY <1>1, <2>1, <2>2 DEF Pooled, Unchecked, TypeOK
  <1>8. ASSUME NEW s \in Serials
        PROVE  (Cardinality(Pooled(s)) <= MaxPerSerial + Cardinality(Unchecked(s)))'
    <2>1. Pooled(s) \subseteq Conns /\ Unchecked(s) \subseteq Conns
      BY DEF TypeOK, Pooled, Unchecked
    <2>2. /\ Cardinality(Pooled(s)') <= Cardinality(Pooled(s))
          /\ Cardinality(Pooled(s)) \in Nat /\ Cardinality(Pooled(s)') \in Nat
          /\ Cardinality(Unchecked(s)) \in Nat
      BY <1>7, <2>1, ConnsFinite
    <2>3. Cardinality(Pooled(s)) <= MaxPerSerial + Cardinality(Unchecked(s))
      BY DEF WithinLimits
    <2>4. QED
      BY <1>7, <2>2, <2>3, LimitsAssumption
  <1>9. QED
    BY <1>6, <1>8 DEF WithinLimits

\* An announcement adds one to the pooled connections of its meter at most, and one
\* thread that has still to check the limit.
LEMMA AnnounceKeepsLimits ==
  ASSUME TypeOK, TypeOK', SerialInv, WithinLimits, NEW c \in Conns, NEW r \in Serials,
         Announce(c, r)
  PROVE  WithinLimits'
  <1>1. /\ at[c] = "reading" /\ at' = [at EXCEPT ![c] = "announced"]
        /\ serial' = [serial EXCEPT ![c] = r]
        /\ UNCHANGED pool
    BY DEF Announce
  <1>2. ASSUME NEW s \in Serials
        PROVE  (Cardinality(Pooled(s)) <= MaxPerSerial + Cardinality(Unchecked(s)))'
    <2>1. Pooled(s) \subseteq Conns /\ Unchecked(s) \subseteq Conns /\ Pooled(s)' \subseteq Conns
      BY DEF TypeOK, Pooled, Unchecked
    <2>2. /\ IsFiniteSet(Pooled(s)) /\ IsFiniteSet(Unchecked(s))
          /\ Cardinality(Pooled(s)) \in Nat /\ Cardinality(Pooled(s)') \in Nat
          /\ Cardinality(Unchecked(s)) \in Nat
      BY <2>1, ConnsFinite
    <2>3. Cardinality(Pooled(s)) <= MaxPerSerial + Cardinality(Unchecked(s))
      BY DEF WithinLimits
    <2>4. CASE s = r
      <3>1. Pooled(s)' \subseteq Pooled(s) \cup {c}
        BY <1>1 DEF Pooled, TypeOK
      <3>2. Unchecked(s)' = Unchecked(s) \cup {c} /\ c \notin Unchecked(s)
        BY <1>1, <2>4 DEF Unchecked, TypeOK
      <3>3. Cardinality(Unchecked(s)') = Cardinality(Unchecked(s)) + 1
        BY <2>2, <3>2, FS_AddElement
      <3>4. Cardinality(Pooled(s)') <= Cardinality(Pooled(s) \cup {c})
        BY <2>1, <3>1, ConnsFinite
      <3>5. Cardinality(Pooled(s) \cup {c}) \in {Cardinality(Pooled(s)), Cardinality(Pooled(s)) + 1}
        BY <2>2, FS_AddElement
      <3>6. QED
        BY <2>2, <2>3, <3>3, <3>4, <3>5, LimitsAssumption
    <2>5. CASE s # r
      <3>1. Pooled(s)' \subseteq Pooled(s) /\ Unchecked(s)' = Unchecked(s)
        BY <1>1, <2>5 DEF Pooled, Unchecked, TypeOK
      <3>2. Cardinality(Pooled(s)') <= Cardinality(Pooled(s))
        BY <2>1, <3>1, ConnsFinite
      <3>3. QED
        BY <2>2, <2>3, <3>1, <3>2, LimitsAssumption
    <2>6. QED
      BY <2>4, <2>5
  <1>3. QED
    BY <1>1, <1>2 DEF WithinLimits

\* The check of a thread evicts one connection, or finds room for its own.
LEMMA CheckKeepsLimits ==
  ASSUME TypeOK, TypeOK', WithinLimits, NEW c \in Conns, CheckLimit(c)
  PROVE  WithinLimits'
  <1>1. /\ at[c] = "announced" /\ at' = [at EXCEPT ![c] = "asking"]
        /\ pool' = pool \ Surplus(c)
        /\ UNCHANGED serial
    BY DEF CheckLimit
  <1>2. (Cardinality(pool) <= Window)'
    <2>1. Cardinality(pool') <= Cardinality(pool) /\ Cardinality(pool) \in Nat /\ Cardinality(pool') \in Nat
      BY <1>1, ConnsFinite DEF TypeOK
    <2>2. QED
      BY <2>1, LimitsAssumption DEF WithinLimits
  <1>3. ASSUME NEW s \in Serials
        PROVE  (Cardinality(Pooled(s)) <= MaxPerSerial + Cardinality(Unchecked(s)))'
    <2> DEFINE others == Pooled(s) \ {c}
    <2>1. /\ Pooled(s) \subseteq Conns /\ Unchecked(s) \subseteq Conns
          /\ Pooled(s)' \subseteq Conns /\ others \subseteq Conns
      BY DEF TypeOK, Pooled, Unchecked
    <2>2. /\ IsFiniteSet(Pooled(s)) /\ IsFiniteSet(Unchecked(s)) /\ IsFiniteSet(others)
          /\ Cardinality(Pooled(s)) \in Nat /\ Cardinality(Pooled(s)') \in Nat
          /\ Cardinality(Unchecked(s)) \in Nat /\ Cardinality(others) \in Nat
      BY <2>1, ConnsFinite
    <2>3. Cardinality(Pooled(s)) <= MaxPerSerial + Cardinality(Unchecked(s))
      BY DEF WithinLimits
    <2>4. Pooled(s)' = Pooled(s) \ Surplus(c)
      BY <1>1 DEF Pooled
    <2>5. CASE serial[c] # s
      <3>1. Unchecked(s)' = Unchecked(s)
        BY <1>1, <2>5 DEF Unchecked, TypeOK
      <3>2. Cardinality(Pooled(s)') <= Cardinality(Pooled(s))
        BY <2>1, <2>4, ConnsFinite
      <3>3. QED
        BY <2>2, <2>3, <3>1, <3>2, LimitsAssumption
    <2>6. CASE serial[c] = s
      <3>1. Unchecked(s)' = Unchecked(s) \ {c} /\ c \in Unchecked(s)
        BY <1>1, <2>6 DEF Unchecked, TypeOK
      <3>2. /\ Cardinality(Unchecked(s)') = Cardinality(Unchecked(s)) - 1
            /\ Cardinality(Unchecked(s)') \in Nat
        BY <2>1, <2>2, <3>1, FS_RemoveElement, ConnsFinite
      <3>3. CASE Cardinality(others) >= MaxPerSerial
        <4>1. others # {}
          BY <3>3, FS_EmptySet, LimitsAssumption
        <4>2. Surplus(c) = {Min(others)} /\ Min(others) \in others
          BY <2>1, <2>6, <3>3, <4>1, MinMember DEF Surplus
        <4>3. PICK m \in Pooled(s) : Surplus(c) = {m}
          BY <4>2
        <4>4. Pooled(s)' = Pooled(s) \ {m}
          BY <2>4, <4>3
        <4>5. Cardinality(Pooled(s) \ {m}) = Cardinality(Pooled(s)) - 1
          BY <2>2, <4>3, FS_RemoveElement
        <4>6. QED
          BY <2>2, <2>3, <3>2, <4>4, <4>5, LimitsAssumption
      <3>4. CASE ~ (Cardinality(others) >= MaxPerSerial)
        <4>1. Pooled(s)' \subseteq others \cup {c}
          BY <2>4
        <4>2. Cardinality(Pooled(s)') <= Cardinality(others \cup {c})
          BY <2>1, <4>1, ConnsFinite
        <4>3. Cardinality(others \cup {c}) \in {Cardinality(others), Cardinality(others) + 1}
          BY <2>2, FS_AddElement
        <4>4. QED
          BY <2>2, <3>2, <3>4, <4>2, <4>3, LimitsAssumption
      <3>5. QED
        BY <3>3, <3>4
    <2>7. QED
      BY <2>5, <2>6
  <1>4. QED
    BY <1>2, <1>3 DEF WithinLimits

\* Every step keeps the limits.
LEMMA LimitsStep ==
  TypeOK /\ TypeOK' /\ SerialInv /\ WithinLimits /\ [Next]_vars => WithinLimits'
  <1> SUFFICES ASSUME TypeOK, TypeOK', SerialInv, WithinLimits, [Next]_vars PROVE WithinLimits'
    OBVIOUS
  <1> USE DEF poolVars, linkVars, workVars, jobVars
  <1>1. ASSUME NEW c \in Conns, Admit(c) PROVE WithinLimits'
    BY <1>1, AdmitKeepsLimits
  <1>2. ASSUME NEW c \in Conns, NEW r \in Serials, Announce(c, r) PROVE WithinLimits'
    BY <1>2, AnnounceKeepsLimits
  <1>3. ASSUME NEW c \in Conns, CheckLimit(c) PROVE WithinLimits'
    BY <1>3, CheckKeepsLimits
  <1>4. ASSUME pool' \subseteq pool, UNCHANGED serial,
               \A d \in Conns : at[d] = "announced" => at'[d] = "announced"
        PROVE  WithinLimits'
    <2>1. ASSUME NEW s \in Serials
          PROVE  Pooled(s)' \subseteq Pooled(s) /\ Unchecked(s) \subseteq Unchecked(s)'
      BY <1>4 DEF Pooled, Unchecked
    <2>2. QED
      BY <1>4, <2>1, ShrinkKeepsLimits
  <1>5. ASSUME NEW c \in Conns,
               AnnounceDamaged(c) \/ StayUnknown(c) \/ Ask(c) \/ LeavePooled(c) \/ LoseReply(c)
        PROVE  WithinLimits'
    BY <1>4, <1>5 DEF AnnounceDamaged, StayUnknown, Ask, LeavePooled, LoseReply, TypeOK
  <1>6. ASSUME NEW c \in Conns, TakeOver(c) \/ EndStage(c) \/ Fail(c) PROVE WithinLimits'
    BY <1>4, <1>6 DEF TakeOver, EndStage, Fail, Stages, TypeOK
  <1>7. QED
    BY <1>1, <1>2, <1>3, <1>4, <1>5, <1>6
       DEF Next, Identify, Carry, vars, Start, Link, Heartbeat, WaitOn, Sibling, FinishOne,
           FinishReads, RetryReads, GiveUp, GrowOld, CallerDone, CallerClaim, Enqueue, Reap,
           Stop

\* Theorem: the window is never exceeded, and the limit of a meter only by threads
\* that are about to check it, whatever the order of their critical sections.
THEOREM PoolWithinLimits == Spec => []WithinLimits
  <1>1. Init => WithinLimits
    <2>1. SUFFICES ASSUME Init PROVE WithinLimits
      OBVIOUS
    <2>2. pool = {} /\ \A s \in Serials : Pooled(s) = {} /\ Unchecked(s) = {}
      BY <2>1 DEF Init, Pooled, Unchecked
    <2>3. QED
      BY <2>2, FS_EmptySet, LimitsAssumption DEF WithinLimits
  <1>2. PoolIInv /\ PoolIInv' /\ WithinLimits /\ [Next]_vars => WithinLimits'
    BY LimitsStep DEF PoolIInv
  <1>3. QED
    BY <1>1, <1>2, PoolInvariant, PTL DEF Spec

-----------------------------------------------------------------------------
(* What becomes of the jobs *)

\* The jobs of a thread that the reaper has not put back.
Held(c) == todo[c] \ lapsed[c]

\* Those are RUNNING, or a report of them was taken, and no other thread has them so.
JobsInv ==
    /\ \A c \in Conns : todo[c] # {} => at[c] \in {"told"} \cup Stages
    /\ \A c, d \in Conns : c # d => Held(c) \cap Held(d) = {}
    /\ \A c \in Conns : \A j \in Held(c) : fate[j] \in {"running", "final"}

ClaimsInv == TypeOK /\ JobsInv

\* The jobs stay where they are, and a thread that has some stays in its stages.
LEMMA JobsStay ==
  ASSUME JobsInv, UNCHANGED <<todo, lapsed, fate>>,
         \A c \in Conns : \/ at'[c] = at[c]
                          \/ at[c] \notin {"told"} \cup Stages
                          \/ at'[c] \in Stages
  PROVE  JobsInv'
  BY DEF JobsInv, Held

\* Thread c lets go of the jobs of S, of all of them when it ends.
LEMMA JobsLetGo ==
  ASSUME ClaimsInv, NEW c \in Conns, NEW S, Drop(c, S) \/ Report(c, S),
         at' = at \/ (at' = [at EXCEPT ![c] = "done"] /\ S = todo[c])
  PROVE  JobsInv'
  <1> USE DEF ClaimsInv
  <1>a. /\ todo' = [todo EXCEPT ![c] = todo[c] \ S]
        /\ lapsed' = [lapsed EXCEPT ![c] = lapsed[c] \ S]
    BY DEF Drop, Report, LetGo
  <1>b. \A d \in Conns : /\ todo'[d] = IF d = c THEN todo[c] \ S ELSE todo[d]
                         /\ lapsed'[d] = IF d = c THEN lapsed[c] \ S ELSE lapsed[d]
    BY <1>a DEF TypeOK
  <1>1. /\ \A d \in Conns : todo'[d] = IF d = c THEN todo[c] \ S ELSE todo[d]
        /\ \A d \in Conns : Held(d)' \subseteq Held(d)
    BY <1>b DEF Held
  <1>2. \A j \in Jobs : fate'[j] = fate[j] \/ fate'[j] = "final"
    BY DEF Drop, Report, TypeOK
  <1>3. \A d \in Conns : todo'[d] # {} => at'[d] = at[d] /\ todo[d] # {}
    BY <1>1 DEF TypeOK
  <1>4. \A d \in Conns : Held(d) \subseteq Jobs
    BY DEF TypeOK, Held
  <1>5. QED
    BY <1>1, <1>2, <1>3, <1>4 DEF JobsInv

\* The claim takes jobs that are QUEUED, which nobody holds.
LEMMA JobsClaimed ==
  ASSUME ClaimsInv, NEW c \in Conns, Ask(c)
  PROVE  JobsInv'
  <1> USE DEF ClaimsInv
  <1> DEFINE S == Offer(serial[c])
  <1>1. /\ todo' = [todo EXCEPT ![c] = S] /\ UNCHANGED lapsed
        /\ fate' = [j \in Jobs |-> IF j \in S THEN "running" ELSE fate[j]]
        /\ at' = [at EXCEPT ![c] = "told"]
    BY DEF Ask
  <1>2. \A j \in S : j \in Jobs /\ fate[j] = "queued"
    BY DEF Offer
  <1> HIDE DEF S
  <1>3. \A d \in Conns : S \cap Held(d) = {}
    BY <1>2 DEF JobsInv
  <1>4. /\ at'[c] = "told" /\ todo'[c] = S /\ Held(c)' \subseteq S
        /\ \A d \in Conns : d # c => todo'[d] = todo[d] /\ at'[d] = at[d] /\ Held(d)' = Held(d)
    BY <1>1 DEF TypeOK, Held
  <1>5. ASSUME NEW d \in Conns, NEW j \in Held(d)' PROVE fate'[j] \in {"running", "final"}
    <2>1. j \in Jobs
      BY <1>2, <1>4 DEF TypeOK, Held
    <2>2. j \notin S => fate[j] \in {"running", "final"}
      BY <1>4 DEF JobsInv
    <2>3. QED
      BY <1>1, <2>1, <2>2
  <1>6. QED
    BY <1>3, <1>4, <1>5 DEF JobsInv

\* Every step keeps what holds of the claims.
LEMMA ClaimsStep == ClaimsInv /\ [Next]_vars => ClaimsInv'
  <1> SUFFICES ASSUME ClaimsInv, [Next]_vars PROVE JobsInv'
    BY TypeStep DEF ClaimsInv
  <1>t. TypeOK /\ JobsInv
    BY DEF ClaimsInv
  <1>1. ASSUME NEW c \in Conns,
               \/ Admit(c) \/ AnnounceDamaged(c) \/ StayUnknown(c) \/ CheckLimit(c) \/ LeavePooled(c)
               \/ \E s \in Serials : Announce(c, s)
        PROVE  JobsInv'
    <2>1. /\ at[c] \notin {"told"} \cup Stages /\ UNCHANGED <<todo, lapsed, fate>>
          /\ \A d \in Conns : d # c => at'[d] = at[d]
      BY <1>t, <1>1 DEF Admit, Announce, AnnounceDamaged, StayUnknown, CheckLimit, LeavePooled,
                        Stages, jobVars, TypeOK
    <2>2. QED
      BY <1>t, <2>1, JobsStay
  <1>2. ASSUME NEW c \in Conns, Ask(c) PROVE JobsInv'
    BY <1>2, JobsClaimed
  <1>3. ASSUME NEW c \in Conns, LoseReply(c) \/ Fail(c) PROVE JobsInv'
    BY <1>3, JobsLetGo DEF LoseReply, Fail
  <1>4. ASSUME NEW c \in Conns, TakeOver(c) PROVE JobsInv'
    <2>1. CASE Drop(c, todo[c]) /\ at' = [at EXCEPT ![c] = "done"]
      BY <2>1, JobsLetGo
    <2>2. CASE UNCHANGED jobVars /\ at' = [at EXCEPT ![c] = FirstStage(todo[c])]
      <3>1. FirstStage(todo[c]) \in Stages
        BY DEF FirstStage, Stages
      <3>2. at'[c] = FirstStage(todo[c]) /\ \A d \in Conns : d # c => at'[d] = at[d]
        BY <1>t, <2>2 DEF TypeOK
      <3>3. QED
        BY <1>t, <2>2, <3>1, <3>2, JobsStay DEF jobVars
    <2>3. QED
      BY <1>4, <2>1, <2>2 DEF TakeOver
  <1>5. ASSUME NEW c \in Conns,
               \/ Start(c) \/ Link(c) \/ Heartbeat(c) \/ WaitOn(c) \/ Sibling(c) \/ RetryReads(c)
               \/ GrowOld(c)
        PROVE  JobsInv'
    BY <1>t, <1>5, JobsStay
       DEF Start, Link, Heartbeat, WaitOn, Sibling, RetryReads, GrowOld, jobVars
  <1>6. ASSUME NEW c \in Conns, FinishOne(c) \/ FinishReads(c) \/ GiveUp(c) PROVE JobsInv'
    <2>1. at' = at /\ \E S : Drop(c, S) \/ Report(c, S)
      BY <1>6 DEF FinishOne, FinishReads, GiveUp
    <2>2. QED
      BY <2>1, JobsLetGo
  <1>7. ASSUME NEW c \in Conns, EndStage(c) PROVE JobsInv'
    <2>1. CASE Drop(c, todo[c]) /\ at' = [at EXCEPT ![c] = "done"]
      BY <2>1, JobsLetGo
    <2>2. CASE UNCHANGED jobVars /\ at' = [at EXCEPT ![c] = "profile"]
      <3>1. at'[c] = "profile" /\ \A d \in Conns : d # c => at'[d] = at[d]
        BY <1>t, <2>2 DEF TypeOK
      <3>2. QED
        BY <1>t, <2>2, <3>1, JobsStay DEF jobVars, Stages
    <2>3. QED
      BY <1>7, <2>1, <2>2 DEF EndStage
  <1>8. ASSUME NEW w \in Callers, CallerDone(w) \/ \E s \in Serials : CallerClaim(w, s) PROVE JobsInv'
    BY <1>t, <1>8, JobsStay DEF CallerDone, CallerClaim, jobVars
  <1>9. ASSUME NEW j \in Jobs, Enqueue(j) PROVE JobsInv'
    <2>1. UNCHANGED <<todo, lapsed, at>> /\ fate[j] = "absent" /\ fate' = [fate EXCEPT ![j] = "queued"]
      BY <1>9 DEF Enqueue, workVars
    <2>2. \A c \in Conns : Held(c) \subseteq Jobs /\ Held(c)' = Held(c) /\ j \notin Held(c)
      BY <1>t, <2>1 DEF TypeOK, Held, JobsInv
    <2>3. \A k \in Jobs : k # j => fate'[k] = fate[k]
      BY <1>t, <2>1 DEF TypeOK
    <2>4. QED
      BY <1>t, <2>1, <2>2, <2>3 DEF JobsInv
  <1>10. ASSUME NEW j \in Jobs, Reap(j) PROVE JobsInv'
    <2>1. /\ UNCHANGED <<todo, at>> /\ fate' = [fate EXCEPT ![j] = "queued"]
          /\ lapsed' = [c \in Conns |-> lapsed[c] \cup (todo[c] \cap {j})]
      BY <1>10 DEF Reap, workVars
    <2>2. \A c \in Conns : Held(c) \subseteq Jobs /\ Held(c)' = Held(c) \ {j}
      BY <1>t, <2>1 DEF TypeOK, Held
    <2>3. \A k \in Jobs : k # j => fate'[k] = fate[k]
      BY <1>t, <2>1 DEF TypeOK
    <2>4. QED
      BY <1>t, <2>1, <2>2, <2>3 DEF JobsInv
  <1>11. CASE Stop
    BY <1>t, <1>11, JobsStay DEF Stop, jobVars
  <1>12. CASE UNCHANGED vars
    BY <1>t, <1>12, JobsStay DEF vars, jobVars
  <1>13. QED
    BY <1>1, <1>2, <1>3, <1>4, <1>5, <1>6, <1>7, <1>8, <1>9, <1>10, <1>11, <1>12
       DEF Next, Identify, Carry

\* Theorem: however many connections of a meter ask at once, two threads have the same job
\* only if the reaper has put it back under one of them, whose claim had become too old; and
\* what it has not put back under a thread is not on offer, though the report of a thread
\* that was overtaken may have been taken for it.
THEOREM ClaimsHaveOneThread ==
  Spec => [](\A j \in Jobs : \A c, d \in Conns :
                j \in todo[c] /\ j \notin lapsed[c] =>
                   /\ fate[j] \in {"running", "final"}
                   /\ j \in todo[d] /\ d # c => j \in lapsed[d])
  <1>1. Init => ClaimsInv
    BY PoolInit DEF Init, ClaimsInv, PoolIInv, JobsInv, Held
  <1>2. ClaimsInv => \A j \in Jobs : \A c, d \in Conns :
                j \in todo[c] /\ j \notin lapsed[c] =>
                   /\ fate[j] \in {"running", "final"}
                   /\ j \in todo[d] /\ d # c => j \in lapsed[d]
    BY DEF ClaimsInv, JobsInv, Held
  <1>3. QED
    BY <1>1, <1>2, ClaimsStep, PTL DEF Spec
=============================================================================
