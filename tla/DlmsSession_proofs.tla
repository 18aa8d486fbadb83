------------------------- MODULE DlmsSession_proofs -------------------------
(***************************************************************************)
(* Proofs about DlmsSession: frames stay in step, answers are taken for    *)
(* what they are, and commands are reported as they went; for any batch,   *)
(* any number of repetitions of SNRM, AARQ and the command, any modulus,   *)
(* and any way in which a line is late or torn.  The rows of a profile are *)
(* handed out as the meter stores them, for any table and any way to cut   *)
(* it into blocks.                                                         *)
(***************************************************************************)
EXTENDS DlmsSession, SequenceTheorems, WellFoundedInduction, TLAPS

-----------------------------------------------------------------------------
(* What is on the line *)

\* How a request, or a frame, may look.
Request ==
    [kind : {"SNRM", "DISC", "AARQ", "RANGE", "COMMAND"}, about : {<<>>},
     ns : 0 .. Modulus - 1, invoke : 0 .. 15]
    \cup [kind : {"GET"}, about : Datum, ns : 0 .. Modulus - 1, invoke : 0 .. 15]
    \cup [kind : {"NEXT"}, about : {<<n>> : n \in Nat}, ns : 0 .. Modulus - 1, invoke : 0 .. 15]

AnyFrame ==
    [kind : {"UA", "RR", "TORN", "AARE", "REJECTED", "OK", "NOK", "WHOLE"}, about : {<<>>}]
    \cup [kind : {"DATA", "NULL", "ERROR"}, about : Datum]
    \cup [kind : {"BLOCK", "REFUSED"}, about : {<<n>> : n \in Nat}]

LEMMA SuccTypes == \A n \in Nat : Succ(n) \in 0 .. Modulus - 1
  BY SessionAssumption DEF Succ

LEMMA DatumTypes ==
  /\ NoDatum \in Datum
  /\ \A k \in 1 .. Len(Items) : ScalerOf(Items[k]) \in Datum /\ ValueOf(Items[k]) \in Datum
  BY SessionAssumption DEF Datum

LEMMA RequestTypes ==
  ASSUME NEW n \in 0 .. Modulus - 1, NEW i \in 0 .. 15
  PROVE  /\ \A k \in {"SNRM", "DISC", "AARQ"} : Plain(k) \in Request
         /\ \A k \in {"RANGE", "COMMAND"} : Req(k, <<>>, n, i) \in Request
         /\ \A d \in Datum : Req("GET", d, n, i) \in Request
         /\ \A b \in Nat : Req("NEXT", <<b>>, n, i) \in Request
  BY SessionAssumption DEF Request, Req, Plain

LEMMA FrameTypes ==
  /\ Torn \in AnyFrame /\ Frame("RR", <<>>) \in AnyFrame
  /\ \A f \in AnyFrame : /\ f.kind = "BLOCK" => f.about[1] \in Nat
                         /\ f.kind \in {"DATA", "NULL", "ERROR"} => f.about \in Datum
  BY DEF AnyFrame, Torn, Frame

Control == {"SNRM", "DISC", "AARQ"}
Shakes == {"AARE", "REJECTED"}
Reads == {"DATA", "NULL", "ERROR"}
Parts == {"BLOCK", "WHOLE", "REFUSED"}
Blockwise == {"RANGE", "NEXT"}

\* Which answers a request may have.
LEMMA AnswerKinds ==
  ASSUME NEW r \in Request, NEW f \in Answers(r)
  PROVE  /\ f \in AnyFrame /\ f.kind # "TORN"
         /\ f.kind = "OK" => r.kind = "COMMAND"
         /\ f.kind \in Shakes => r.kind = "AARQ"
         /\ r.kind \in Control => f.kind \in Supervisory \cup Shakes
         /\ f.kind \in {"DATA", "NULL"} => r.kind = "GET"
         /\ r.kind = "GET" => f.kind \in Reads /\ f.about = r.about
         /\ f.kind \in Parts => r.kind \in Blockwise
         /\ f.kind = "REFUSED" /\ r.kind = "NEXT" => r.invoke = lastId
  <1> USE DEF Frame, Control, Shakes, Reads, Parts, Blockwise, Supervisory
  <1>1. r.kind \in {"SNRM", "DISC", "AARQ", "RANGE", "COMMAND", "GET", "NEXT"}
    BY DEF Request
  <1>2. CASE r.kind = "SNRM"
    BY <1>2 DEF Answers, AnyFrame
  <1>3. CASE r.kind = "DISC"
    BY <1>3 DEF Answers, AnyFrame
  <1>4. CASE r.kind = "AARQ"
    BY <1>4 DEF Answers, AnyFrame
  <1>5. CASE r.kind = "COMMAND"
    BY <1>5 DEF Answers, AnyFrame
  <1>6. CASE r.kind = "RANGE"
    <2>1. f \in {Frame("BLOCK", <<1>>), Frame("WHOLE", <<>>), Frame("REFUSED", <<1>>), Frame("ERROR", <<>>)}
      BY <1>6 DEF Answers
    <2>2. <<1>> \in {<<n>> : n \in Nat} /\ <<>> \in Datum
      BY DEF Datum, NoDatum
    <2>3. f \in AnyFrame
      BY <2>1, <2>2 DEF AnyFrame
    <2>4. QED
      BY <1>6, <2>1, <2>3
  <1>7. CASE r.kind = "GET"
    <2>1. r.about \in Datum
      BY <1>7 DEF Request
    <2>2. \E k \in Reads : f = Frame(k, r.about)
      BY <1>7 DEF Answers
    <2>3. f \in AnyFrame
      BY <2>1, <2>2 DEF AnyFrame
    <2>4. QED
      BY <1>7, <2>2, <2>3
  <1>8. CASE r.kind = "NEXT"
    <2>1. r.about \in {<<n>> : n \in Nat}
      BY <1>8 DEF Request
    <2>2. f = Frame(IF Repeats(r) THEN "REFUSED" ELSE "BLOCK", r.about)
      BY <1>8 DEF Answers
    <2>3. f \in AnyFrame
      BY <2>1, <2>2 DEF AnyFrame
    <2>4. f.kind = "REFUSED" => r.invoke = lastId
      BY <2>2 DEF Repeats
    <2>5. QED
      BY <1>8, <2>2, <2>3, <2>4
  <1>9. QED
    BY <1>1, <1>2, <1>3, <1>4, <1>5, <1>6, <1>7, <1>8

\* What is left of a line: frames as they stood, or torn ones.
Shifted(r, s) ==
    /\ r \in Seq(AnyFrame)
    /\ \E d \in Nat : \A k \in 1 .. Len(r) :
          r[k] = Torn \/ (k + d <= Len(s) /\ r[k] = s[k + d])

LEMMA TailFacts ==
  ASSUME NEW S, NEW s \in Seq(S), s # <<>>
  PROVE  /\ Len(s) \in Nat \ {0} /\ Head(s) = s[1] /\ s[1] \in S /\ s[Len(s)] \in S
         /\ Tail(s) \in Seq(S) /\ Len(Tail(s)) = Len(s) - 1
         /\ \A k \in 1 .. Len(s) - 1 : Tail(s)[k] = s[k + 1]
         /\ Len(s) = 1 => Tail(s) = <<>>
  <1>1. Len(s) \in Nat \ {0} /\ s[Len(s)] \in S /\ s[1] \in S
    OBVIOUS
  <1>2. Head(s) = s[1] /\ Tail(s) \in Seq(S) /\ Len(Tail(s)) = Len(s) - 1
    OBVIOUS
  <1>3. \A k \in 1 .. Len(s) - 1 : Tail(s)[k] = s[k + 1]
    OBVIOUS
  <1>4. Len(s) = 1 => Tail(s) = <<>>
    <2>1. \A t \in Seq(S) : t # <<>> => Len(t) # 0
      OBVIOUS
    <2>2. Len(s) = 1 => Len(Tail(s)) = 0
      BY <1>2
    <2>3. QED
      BY <1>2, <2>1, <2>2, Zenon
  <1>5. QED
    BY <1>1, <1>2, <1>3, <1>4

LEMMA ShiftedSelf ==
  ASSUME NEW s \in Seq(AnyFrame)
  PROVE  Shifted(s, s) /\ (s # <<>> => Shifted(Tail(s), s))
  <1>1. Shifted(s, s)
    <2>1. \A k \in 1 .. Len(s) : k + 0 <= Len(s) /\ s[k] = s[k + 0]
      OBVIOUS
    <2>2. QED
      BY <2>1 DEF Shifted
  <1>2. ASSUME s # <<>> PROVE Shifted(Tail(s), s)
    <2>1. /\ Len(s) \in Nat /\ Tail(s) \in Seq(AnyFrame) /\ Len(Tail(s)) = Len(s) - 1
          /\ \A k \in 1 .. Len(s) - 1 : Tail(s)[k] = s[k + 1]
      BY <1>2, TailFacts
    <2>2. \A k \in 1 .. Len(Tail(s)) : k + 1 <= Len(s) /\ Tail(s)[k] = s[k + 1]
      BY <2>1
    <2>3. QED
      BY <2>1, <2>2 DEF Shifted
  <1>3. QED
    BY <1>1, <1>2

LEMMA ShiftedTwice ==
  ASSUME NEW q, NEW r, NEW s \in Seq(AnyFrame), Shifted(q, r), Shifted(r, s)
  PROVE  Shifted(q, s)
  <1>1. PICK d \in Nat : \A k \in 1 .. Len(q) : q[k] = Torn \/ (k + d <= Len(r) /\ q[k] = r[k + d])
    BY DEF Shifted
  <1>2. PICK e \in Nat : \A k \in 1 .. Len(r) : r[k] = Torn \/ (k + e <= Len(s) /\ r[k] = s[k + e])
    BY DEF Shifted
  <1>3. q \in Seq(AnyFrame) /\ Len(q) \in Nat
    BY DEF Shifted
  <1>4. ASSUME NEW k \in 1 .. Len(q)
        PROVE  q[k] = Torn \/ (k + (d + e) <= Len(s) /\ q[k] = s[k + (d + e)])
    <2>1. CASE k + d <= Len(r) /\ q[k] = r[k + d]
      <3>1. k + d \in 1 .. Len(r)
        BY <1>3, <2>1 DEF Shifted
      <3>2. k + (d + e) = (k + d) + e
        BY <1>3
      <3>3. QED
        BY <1>2, <2>1, <3>1, <3>2
    <2>2. QED
      BY <1>1, <2>1
  <1>5. d + e \in Nat
    OBVIOUS
  <1>6. QED
    BY <1>3, <1>4, <1>5 DEF Shifted

\* The bytes that are read away, and what a timeout leaves.
LEMMA ShiftedSwallowed ==
  ASSUME NEW s \in Seq(AnyFrame), NEW r \in Swallowed(s)
  PROVE  Shifted(r, s)
  <1> USE FrameTypes
  <1>1. ASSUME NEW n \in 0 .. Len(s)
        PROVE  /\ Drop(s, n) \in Seq(AnyFrame) /\ Len(Drop(s, n)) = Len(s) - n
               /\ \A k \in 1 .. Len(s) - n : Drop(s, n)[k] = s[k + n]
    BY <1>1 DEF Drop
  <1>2. ASSUME NEW n \in 0 .. Len(s), r = Drop(s, n) PROVE Shifted(r, s)
    <2>1. n \in Nat /\ Len(s) \in Nat
      OBVIOUS
    <2>4. r \in Seq(AnyFrame) /\ Len(r) = Len(s) - n /\ \A k \in 1 .. Len(s) - n : r[k] = s[k + n]
      BY <1>1, <1>2
    <2>2. \A k \in 1 .. Len(r) : k + n <= Len(s) /\ r[k] = s[k + n]
      BY <2>1, <2>4
    <2>3. QED
      BY <2>1, <2>2, <2>4 DEF Shifted
  <1>3. ASSUME NEW n \in 1 .. Len(s), r = <<Torn>> \o Drop(s, n) PROVE Shifted(r, s)
    <2>1. n \in 0 .. Len(s) /\ n - 1 \in Nat
      OBVIOUS
    <2>2. r \in Seq(AnyFrame) /\ Len(r) = Len(s) - n + 1 /\ r[1] = Torn
      BY <1>1, <1>3, <2>1
    <2>3. ASSUME NEW k \in 1 .. Len(r), k # 1 PROVE k + (n - 1) <= Len(s) /\ r[k] = s[k + (n - 1)]
      <3>1. k - 1 \in 1 .. Len(s) - n /\ r[k] = Drop(s, n)[k - 1]
        BY <1>1, <1>3, <2>1, <2>2, <2>3
      <3>2. (k - 1) + n = k + (n - 1)
        BY <2>2
      <3>3. QED
        BY <1>1, <2>1, <3>1, <3>2
    <2>4. QED
      BY <2>1, <2>2, <2>3 DEF Shifted
  <1>4. QED
    BY <1>2, <1>3 DEF Swallowed

LEMMA ShiftedTimeout ==
  ASSUME NEW s \in Seq(AnyFrame), NEW r \in AfterTimeout(s)
  PROVE  Shifted(r, s)
  <1>1. CASE r = s
    BY <1>1, ShiftedSelf
  <1>2. CASE r \in Swallowed(s)
    BY <1>2, ShiftedSwallowed
  <1>3. CASE s # <<>> /\ r = <<Torn>> \o Tail(s)
    <2>1. s # <<>> /\ 1 \in 1 .. Len(s) /\ Tail(s) = Drop(s, 1)
      BY <1>3 DEF Drop
    <2>2. r \in Swallowed(s)
      BY <1>3, <2>1 DEF Swallowed
    <2>3. QED
      BY <2>2, ShiftedSwallowed
  <1>4. QED
    BY <1>1, <1>2, <1>3 DEF AfterTimeout

-----------------------------------------------------------------------------
(* Types *)

\* Where an operation can be, and with which numbers it is there.
Placed ==
    /\ phase \in {"ua", "aare"} => ns = 1 /\ invoke = 1 /\ results = <<>> /\ ~growing
    /\ op = "registers" => invoke \in 1 .. LastInvoke
    /\ op # "registers" => results = <<>>
    /\ op # "profile" => ~growing
    /\ phase \in GetWaits => op = "registers"
    /\ phase = "scaler" => Items[idx] \in Registers
    /\ phase = "block" => op = "profile"
    /\ phase = "answer" => op = "command"

Typed ==
    /\ SessionTypeOK /\ Placed
    /\ toMeter \in Seq(Request) /\ line \in Seq(AnyFrame)

Phases == {"ua"} \cup Waits \cup Ends

\* The variables that matter here, as they are when an operation is in a phase.
LEMMA PhaseKinds ==
  /\ Phases = {"ua", "aare", "scaler", "value", "block", "answer", "done", "partial", "failed", "crashed"}
  /\ Waits = {"aare", "scaler", "value", "block", "answer"}
  BY DEF Phases, Waits, GetWaits, Ends

\* The operation is over; what it has handed out may have changed before.
Over ==
    /\ phase' \in Ends
    /\ UNCHANGED <<op, strict, layout, calls, ns, invoke, idx, scaler, toMeter, meter>>
    /\ Shifted(line', line)

\* An exception: the command is repeated over a new connection, or the operation is over.
Failed(why) ==
    \/ op = "command" /\ calls < MaxCalls /\ Repeat /\ UNCHANGED <<setting, batch, transfer>>
    \/ /\ Over /\ UNCHANGED <<batch, transfer, counters>>
       /\ cause' = why /\ phase' \in {"partial", "failed"}

LEMMA FailKinds ==
  ASSUME Typed, NEW rest, Shifted(rest, line), NEW why, Fail(rest, why)
  PROVE  Failed(why)
  BY DEF Fail, Failed, Over, End, Ends, setting, batch, transfer, counters, meter

LEMMA BrokenKinds ==
  ASSUME Typed, NEW rest, Shifted(rest, line), NEW why, Broken(rest, why)
  PROVE  Failed(why)
  BY FailKinds DEF Broken, Failed, Over, End, Ends, setting, batch, transfer, counters, meter

\* A frame is passed over, a heartbeat comes or a timeout is put off.
Quiet ==
    /\ UNCHANGED <<setting, phase, cause, calls, tries, ns, invoke, batch, transfer, toMeter, meter>>
    /\ Shifted(line', line) /\ skipped' \in 0 .. MaxSkipped - 1 /\ beaten' \in BOOLEAN

\* SNRM is sent again.
SnrmAgain ==
    /\ phase = "ua" /\ Shifted(line', line) /\ Send(Plain("SNRM")) /\ tries' = tries + 1
    /\ UNCHANGED <<setting, phase, cause, calls, skipped, ns, invoke, batch, transfer, meter>>

\* AARQ is sent again.
AarqAgain ==
    /\ phase = "aare" /\ Shifted(line', line)
    /\ toMeter' = toMeter \o <<Plain("DISC"), Plain("AARQ")>>
    /\ tries' = tries + 1 /\ skipped' = 0
    /\ UNCHANGED <<setting, phase, cause, calls, ns, invoke, batch, transfer, meter>>

\* The meter has accepted, and the first question is asked.
Accepted ==
    /\ phase = "aare" /\ line # <<>> /\ Head(line).kind = "AARE"
    /\ \/ op = "registers" /\ AskItem(1, 1)
       \/ /\ op # "registers"
          /\ Send(Req(IF op = "profile" THEN "RANGE" ELSE "COMMAND", <<>>, ns, 1))
          /\ phase' = IF op = "profile" THEN "block" ELSE "answer"
          /\ ns' = Succ(ns) /\ UNCHANGED <<invoke, idx, scaler>>
    /\ line' = Tail(line) /\ skipped' = 0
    /\ UNCHANGED <<setting, cause, tries, calls, results, transfer, meter>>

\* A part of the profile has come, or its refusal, and the next one is asked for.
NextPart ==
    /\ BlockArrives \/ BlockRefused
    /\ phase = "block" /\ line # <<>> /\ Head(line).kind \in Parts
    /\ \E b \in Nat, i \in {invoke, Increased} : Ask(b, i)
    /\ growing' \in BOOLEAN /\ (growing' => invoke' = Increased)
    /\ line' = Tail(line) /\ UNCHANGED <<setting, batch, meter>>

\* The profile ends.
LastPart ==
    /\ BlockArrives \/ WholeArrives \/ BlockRefused
    /\ phase = "block" /\ Over /\ cause' # "refused"
    /\ growing' \in BOOLEAN /\ pending' = pending /\ UNCHANGED <<batch, counters>>

\* The command was carried out.
Confirmed ==
    /\ phase = "answer" /\ line # <<>> /\ Head(line).kind = "OK"
    /\ Over /\ cause' = "none" /\ UNCHANGED <<batch, transfer, counters>>

\* An exception, for which the meter's refusal is a reason only when it was asked anew.
Exception ==
    \E why : /\ Failed(why)
             /\ why = "refused" => /\ phase = "block" /\ growing
                                   /\ line # <<>> /\ Head(line).kind = "REFUSED"

MeterStep == MeterAnswers \/ MeterIsSilent

LEMMA LinkKinds ==
  ASSUME Typed, phase = "ua", NEW rest, Shifted(rest, line), NEW why, why # "refused",
         LinkFails(rest, why)
  PROVE  SnrmAgain \/ Exception
  <1>1. ASSUME NEW s \in Swallowed(rest), line' = s PROVE Shifted(line', line)
    <2>1. rest \in Seq(AnyFrame) /\ line \in Seq(AnyFrame)
      BY DEF Shifted, Typed
    <2>2. Shifted(s, rest)
      BY <1>1, <2>1, ShiftedSwallowed
    <2>3. QED
      BY <1>1, <2>1, <2>2, ShiftedTwice
  <1>2. CASE Fail(rest, why)
    BY <1>2, FailKinds DEF Exception
  <1>3. QED
    BY <1>1, <1>2 DEF LinkFails, SnrmAgain

LEMMA PartKinds ==
  ASSUME Typed, BlockArrives \/ WholeArrives \/ BlockRefused
  PROVE  NextPart \/ LastPart \/ Exception
  <1> USE DEF setting, batch, counters, meter
  <1>0. phase = "block" /\ line # <<>> /\ Head(line).kind \in Parts
    BY DEF BlockArrives, WholeArrives, BlockRefused, Parts
  <1>1. Shifted(Tail(line), line)
    BY <1>0, ShiftedSelf DEF Typed
  <1>2. growing \in BOOLEAN /\ pending \in Nat
    BY DEF Typed, SessionTypeOK
  <1>3. ASSUME NEW why, why # "refused", NEW how \in Ends, End(how, why), pending' = pending,
               UNCHANGED <<setting, batch, meter>>, growing' \in BOOLEAN, line' = Tail(line)
        PROVE  LastPart
    BY <1>0, <1>1, <1>3 DEF LastPart, Over, End
  <1>4. CASE BlockArrives
    <2>1. Head(line) \in AnyFrame /\ Head(line).kind = "BLOCK"
      BY <1>4, TailFacts DEF BlockArrives, Typed
    <2>2. Head(line).about[1] \in Nat
      BY <2>1, FrameTypes
    <2>3. \/ End("done", "none") /\ pending' = pending
          \/ End("partial", "garbled") /\ pending' = pending
          \/ Ask(Head(line).about[1] + 1, IF growing THEN Increased ELSE invoke)
      BY <1>4 DEF BlockArrives, TakeRows
    <2>4. UNCHANGED <<setting, batch, growing, meter>> /\ line' = Tail(line)
      BY <1>4 DEF BlockArrives
    <2>5. CASE Ask(Head(line).about[1] + 1, IF growing THEN Increased ELSE invoke)
      <3>1. Head(line).about[1] + 1 \in Nat
        BY <2>2
      <3>2. invoke' = IF growing THEN Increased ELSE invoke
        BY <2>5 DEF Ask
      <3>3. QED
        BY <1>0, <1>2, <1>4, <2>4, <2>5, <3>1, <3>2 DEF NextPart
    <2>6. QED
      BY <1>2, <1>3, <2>3, <2>4, <2>5 DEF Ends
  <1>5. CASE WholeArrives
    <2>1. \/ End("done", "none") /\ pending' = pending
          \/ End("partial", "garbled") /\ pending' = pending
      BY <1>5 DEF WholeArrives, TakeRows
    <2>2. UNCHANGED <<setting, batch, growing, meter>> /\ line' = Tail(line)
      BY <1>5 DEF WholeArrives
    <2>3. QED
      BY <1>2, <1>3, <2>1, <2>2 DEF Ends
  <1>6. CASE BlockRefused /\ growing
    BY <1>0, <1>1, <1>6, FailKinds DEF BlockRefused, Exception
  <1>7. CASE BlockRefused /\ ~growing
    <2>1. /\ UNCHANGED <<setting, batch, meter>> /\ line' = Tail(line) /\ growing' = TRUE
          /\ (End("crashed", "unbound") /\ pending' = pending) \/ Ask(pending, Increased)
      BY <1>7 DEF BlockRefused
    <2>2. CASE Ask(pending, Increased)
      BY <1>0, <1>2, <1>7, <2>1, <2>2 DEF NextPart, Ask
    <2>3. QED
      BY <1>3, <2>1, <2>2 DEF Ends
  <1>8. QED
    BY <1>4, <1>5, <1>6, <1>7

\* What a step may be.
LEMMA StepKinds ==
  ASSUME Typed, [Next]_vars
  PROVE  /\ beaten' \in BOOLEAN
         /\ \/ Quiet \/ Exception \/ SnrmAgain \/ UaArrives \/ AarqAgain \/ Accepted
            \/ ScalerArrives \/ ValueArrives \/ NextPart \/ LastPart \/ Confirmed \/ MeterStep
  <1>0. beaten \in BOOLEAN /\ skipped \in 0 .. MaxSkipped - 1 /\ Shifted(line, line)
        /\ (line # <<>> => Shifted(Tail(line), line) /\ Head(line) \in AnyFrame)
    BY ShiftedSelf, TailFacts DEF Typed, SessionTypeOK
  <1>1. beaten' \in BOOLEAN
    BY <1>0 DEF Next, Gateway, Heartbeat, WaitsOn, vars
  <1> SUFFICES \/ Quiet \/ Exception \/ SnrmAgain \/ UaArrives \/ AarqAgain \/ Accepted
              \/ ScalerArrives \/ ValueArrives \/ NextPart \/ LastPart \/ Confirmed \/ MeterStep
    BY <1>1
  <1>2. CASE UNCHANGED vars \/ Heartbeat \/ WaitsOn
    BY <1>0, <1>2 DEF Quiet, vars, Heartbeat, WaitsOn, setting, batch, transfer, counters, meter
  <1>3. CASE NotUa
    <2>1. phase = "ua" /\ line # <<>> /\ \E why \in {"crc", "garbled", "protocol"} : LinkFails(Tail(line), why)
      BY <1>3 DEF NotUa
    <2>2. QED
      BY <1>0, <2>1, LinkKinds
  <1>4. CASE UaTimesOut
    <2>1. \A rest \in AfterTimeout(line) : Shifted(rest, line)
      BY ShiftedTimeout DEF Typed
    <2>2. QED
      BY <1>4, <2>1, LinkKinds DEF UaTimesOut
  <1>5. CASE SkipSupervisory
    <2>1. CASE Fail(Tail(line), "protocol")
      BY <1>0, <1>5, <2>1, FailKinds DEF SkipSupervisory, Exception
    <2>2. CASE ~Fail(Tail(line), "protocol")
      <3>1. skipped + 1 < MaxSkipped /\ skipped' = skipped + 1 /\ line' = Tail(line) /\ line # <<>>
            /\ UNCHANGED <<setting, phase, cause, tries, calls, ns, invoke, batch,
                           transfer, toMeter, meter>>
        BY <1>5, <2>2 DEF SkipSupervisory
      <3>2. skipped' \in 0 .. MaxSkipped - 1
        BY <1>0, <3>1, SessionAssumption
      <3>3. QED
        BY <1>0, <1>1, <3>1, <3>2 DEF Quiet
    <2>3. QED
      BY <2>1, <2>2
  <1>6. CASE ReadTorn
    <2>1. line # <<>> /\ \E why \in {"crc", "garbled"} : Fail(Tail(line), why)
      BY <1>6 DEF ReadTorn
    <2>2. QED
      BY <1>0, <2>1, FailKinds DEF Exception
  <1>7. CASE AnswerTimesOut
    <2>1. \E rest \in AfterTimeout(line) : Broken(rest, "timeout")
      BY <1>7 DEF AnswerTimesOut
    <2>2. QED
      BY <2>1, ShiftedTimeout, BrokenKinds DEF Exception, Typed
  <1>8. CASE AareTimesOut
    <2>1. PICK rest \in AfterTimeout(line) :
            \/ Fail(rest, "timeout")
            \/ /\ toMeter' = toMeter \o <<Plain("DISC"), Plain("AARQ")>>
               /\ tries' = tries + 1 /\ skipped' = 0 /\ line' = rest
               /\ UNCHANGED <<setting, phase, cause, calls, ns, invoke, batch, transfer, meter>>
      BY <1>8 DEF AareTimesOut
    <2>2. Shifted(rest, line)
      BY ShiftedTimeout DEF Typed
    <2>3. CASE Fail(rest, "timeout")
      BY <2>2, <2>3, FailKinds DEF Exception
    <2>4. QED
      BY <1>8, <2>1, <2>2, <2>3 DEF AarqAgain, AareTimesOut
  <1>9. CASE AareArrives
    <2>1. CASE Head(line).kind = "AARE"
      BY <1>9, <2>1 DEF AareArrives, Accepted
    <2>2. CASE Head(line).kind # "AARE"
      <3>1. line # <<>> /\ \E why \in {"auth", "protocol"} : Fail(Tail(line), why)
        BY <1>9, <2>2 DEF AareArrives
      <3>2. QED
        BY <1>0, <3>1, FailKinds DEF Exception
    <2>3. QED
      BY <2>1, <2>2
  <1>10. CASE BlockArrives \/ WholeArrives \/ BlockRefused
    BY <1>10, PartKinds
  <1>11. CASE ProfileRejected
    BY <1>0, <1>11, FailKinds DEF ProfileRejected, Exception
  <1>12. CASE CommandAnswered
    <2>1. CASE Head(line).kind = "OK"
      BY <1>0, <1>12, <2>1
         DEF CommandAnswered, Confirmed, Over, End, Ends, setting, batch, transfer, counters, meter
    <2>2. CASE Head(line).kind # "OK"
      BY <1>0, <1>12, <2>2, FailKinds DEF CommandAnswered, Exception
    <2>3. QED
      BY <2>1, <2>2
  <1>13. CASE ConnectionLost
    BY <1>0, <1>13, BrokenKinds DEF ConnectionLost, Exception
  <1>14. QED
    BY <1>1, <1>2, <1>3, <1>4, <1>5, <1>6, <1>7, <1>8, <1>9, <1>10, <1>11, <1>12, <1>13
       DEF Next, Gateway, Exchange, MeterStep

LEMMA ConcatFacts ==
  ASSUME NEW S, NEW s \in Seq(S), NEW t \in Seq(S)
  PROVE  /\ s \o t \in Seq(S) /\ Len(s) \in Nat /\ Len(t) \in Nat /\ Len(s \o t) = Len(s) + Len(t)
         /\ \A k \in 1 .. Len(s) : (s \o t)[k] = s[k]
         /\ \A k \in 1 .. Len(t) : (s \o t)[Len(s) + k] = t[k]
  OBVIOUS

\* The line when an answer, or none, is put to its end.
LEMMA LineGrows ==
  ASSUME NEW s \in Seq(AnyFrame), NEW f \in AnyFrame,
         NEW a, a = <<>> \/ a = <<f>> \/ a = <<Frame("RR", <<>>), f>>
  PROVE  /\ s \o a \in Seq(AnyFrame) /\ Len(s) \in Nat /\ Len(s \o a) \in Nat
         /\ Len(s) <= Len(s \o a)
         /\ \A k \in 1 .. Len(s) : (s \o a)[k] = s[k]
         /\ \A k \in 1 .. Len(s \o a) : k > Len(s)
              => (s \o a)[k].kind = "RR" \/ (k = Len(s \o a) /\ (s \o a)[k] = f /\ a # <<>>)
         /\ (\E k \in DOMAIN a : a[k].kind \in Shakes) <=> (a # <<>> /\ f.kind \in Shakes)
         /\ (a # <<>> => \E k \in DOMAIN a : a[k] = f)
  <1> DEFINE rr == Frame("RR", <<>>)
  <1>0. rr \in AnyFrame /\ rr.kind = "RR" /\ rr.kind \notin Shakes
    BY FrameTypes DEF Frame, Shakes
  <1> HIDE DEF rr
  <1>1. CASE a = <<>>
    BY <1>1
  <1>2. CASE a = <<f>>
    BY <1>2
  <1>3. CASE a = <<rr, f>>
    <2>1. /\ a \in Seq(AnyFrame) /\ Len(a) = 2 /\ a[1] = rr /\ a[2] = f /\ DOMAIN a = 1 .. 2
      BY <1>0, <1>3
    <2>2. /\ s \o a \in Seq(AnyFrame) /\ Len(s \o a) = Len(s) + 2
          /\ \A k \in 1 .. Len(s) : (s \o a)[k] = s[k]
          /\ (s \o a)[Len(s) + 1] = rr /\ (s \o a)[Len(s) + 2] = f
      BY <2>1, ConcatFacts
    <2>3. \A k \in 1 .. Len(s \o a) : k > Len(s) => k = Len(s) + 1 \/ k = Len(s) + 2
      BY <2>2
    <2>4. QED
      BY <1>0, <2>1, <2>2, <2>3
  <1>4. QED
    BY <1>1, <1>2, <1>3 DEF rr

\* A request is taken, and perhaps answered.
Taken ==
    LET r == Head(toMeter)
        n == Len(line')
    IN  /\ phase \notin Ends /\ toMeter # <<>> /\ toMeter' = Tail(toMeter)
        /\ UNCHANGED <<setting, phase, cause, counters, ns, invoke, batch, transfer>>
        /\ heard' = (IF r.kind \in {"SNRM", "DISC"} THEN 0
                     ELSE IF r.kind = "AARQ" THEN 1 ELSE Succ(heard))
        /\ lastId' = IF r.kind = "AARQ" THEN 0 ELSE IF IsGet(r) THEN r.invoke ELSE lastId
        /\ line' \in Seq(AnyFrame) /\ Len(line) <= n
        /\ \A k \in 1 .. Len(line) : line'[k] = line[k]
        /\ \A k \in 1 .. n : k > Len(line) =>
              \/ line'[k].kind = "RR"
              \/ /\ k = n /\ line'[k] \in Answers(r)
                 /\ line'[k].kind \in Shakes => aares' = aares + 1
                 /\ line'[k].kind = "OK" => obeyed' = obeyed + 1
        /\ aares' \in {aares, aares + 1}
        /\ obeyed' \in {obeyed, obeyed + 1} /\ (obeyed' # obeyed => r.kind = "COMMAND")

LEMMA MeterKinds ==
  ASSUME Typed, MeterStep
  PROVE  Taken
  <1> DEFINE r == Head(toMeter)
  <1>0. r \in Request /\ line \in Seq(AnyFrame) /\ toMeter # <<>>
    BY TailFacts DEF Typed, MeterStep, MeterAnswers, MeterIsSilent
  <1> HIDE DEF r
  <1>1. ASSUME NEW f \in AnyFrame, NEW a, a = <<>> \/ a = <<f>> \/ a = <<Frame("RR", <<>>), f>>,
               MeterTakes(a), phase \notin Ends,
               a # <<>> => f \in Answers(r) /\ obeyed' = (IF f.kind = "OK" THEN obeyed + 1 ELSE obeyed),
               obeyed' \in {obeyed, obeyed + 1}, obeyed' # obeyed => r.kind = "COMMAND"
        PROVE  Taken
    <2>1. line' = line \o a
      BY <1>1 DEF MeterTakes
    <2>2. /\ line' \in Seq(AnyFrame) /\ Len(line) <= Len(line')
          /\ \A k \in 1 .. Len(line) : line'[k] = line[k]
          /\ \A k \in 1 .. Len(line') : k > Len(line)
               => line'[k].kind = "RR" \/ (k = Len(line') /\ line'[k] = f /\ a # <<>>)
          /\ (\E k \in DOMAIN a : a[k].kind \in Shakes) <=> (a # <<>> /\ f.kind \in Shakes)
      BY <1>0, <1>1, <2>1, LineGrows
    <2>3. aares' = IF a # <<>> /\ f.kind \in Shakes THEN aares + 1 ELSE aares
      BY <1>1, <2>2 DEF MeterTakes, Shakes
    <2>4. /\ toMeter' = Tail(toMeter)
          /\ UNCHANGED <<setting, phase, cause, counters, ns, invoke, batch, transfer>>
          /\ heard' = (IF r.kind \in {"SNRM", "DISC"} THEN 0
                       ELSE IF r.kind = "AARQ" THEN 1 ELSE Succ(heard))
          /\ lastId' = IF r.kind = "AARQ" THEN 0 ELSE IF IsGet(r) THEN r.invoke ELSE lastId
      BY <1>1 DEF MeterTakes, r
    <2>5. \A k \in 1 .. Len(line') : k > Len(line) =>
              \/ line'[k].kind = "RR"
              \/ /\ k = Len(line') /\ line'[k] \in Answers(r)
                 /\ line'[k].kind \in Shakes => aares' = aares + 1
                 /\ line'[k].kind = "OK" => obeyed' = obeyed + 1
      BY <1>1, <2>2, <2>3
    <2>6. QED
      BY <1>0, <1>1, <2>2, <2>3, <2>4, <2>5 DEF Taken, r
  <1>2. CASE MeterAnswers
    <2>1. PICK f \in Answers(r) :
             /\ \/ MeterTakes(<<f>>)
                \/ MeterTakes(<<Frame("RR", <<>>), f>>)
             /\ obeyed' = IF f.kind = "OK" THEN obeyed + 1 ELSE obeyed
      BY <1>2 DEF MeterAnswers, r
    <2>2. f \in AnyFrame /\ (f.kind = "OK" => r.kind = "COMMAND")
      BY <1>0, AnswerKinds
    <2>3. obeyed' \in {obeyed, obeyed + 1} /\ (obeyed' # obeyed => r.kind = "COMMAND")
      BY <2>1, <2>2
    <2>4. phase \notin Ends
      BY <1>2 DEF MeterAnswers
    <2>5. QED
      BY <1>1, <2>1, <2>2, <2>3, <2>4
  <1>3. CASE MeterIsSilent
    <2>1. /\ MeterTakes(<<>>) /\ phase \notin Ends
          /\ obeyed' \in {obeyed, obeyed + 1} /\ (obeyed' # obeyed => r.kind = "COMMAND")
      BY <1>3 DEF MeterIsSilent, r
    <2>2. QED
      BY <1>1, <2>1, FrameTypes
  <1>4. QED
    BY <1>2, <1>3 DEF MeterStep

\* The numbers a step may count with.
LEMMA CountTypes ==
  ASSUME Typed
  PROVE  /\ Succ(ns) \in 0 .. Modulus - 1 /\ Succ(heard) \in 0 .. Modulus - 1
         /\ 0 \in 0 .. Modulus - 1 /\ 1 \in 0 .. Modulus - 1 /\ 0 \in 0 .. MaxSkipped - 1
         /\ LastInvoke \in 2 .. 14 /\ MaxCalls \in Nat /\ 1 \in 1 .. MaxCalls
         /\ Increased \in 0 .. 15 /\ Increased # invoke
         /\ idx \in 1 .. Len(Items) /\ 1 \in 1 .. Len(Items) /\ Len(Items) \in Nat
         /\ \A k \in 1 .. Len(Items) : Items[k] \in Obis
         /\ invoke \in 0 .. 15 /\ ns \in 0 .. Modulus - 1
  <1>1. /\ ns \in 0 .. Modulus - 1 /\ heard \in 0 .. Modulus - 1 /\ invoke \in 0 .. 15
        /\ idx \in 1 .. Len(Items)
    BY DEF Typed, SessionTypeOK
  <1>2. Modulus \in Nat \ {0, 1} /\ MaxSkipped \in Nat \ {0} /\ MaxCalls \in Nat \ {0}
        /\ LastInvoke \in 2 .. 14
    BY SessionAssumption
  <1>3. Succ(ns) \in 0 .. Modulus - 1 /\ Succ(heard) \in 0 .. Modulus - 1
    BY <1>1, <1>2, SuccTypes
  <1>4. Increased \in 0 .. 15 /\ Increased # invoke
    BY <1>1 DEF Increased
  <1>5. Len(Items) \in Nat /\ \A k \in 1 .. Len(Items) : Items[k] \in Obis
    BY SessionAssumption
  <1>6. QED
    BY <1>1, <1>2, <1>3, <1>4, <1>5

\* A request is put to the others.
LEMMA SendTypes ==
  ASSUME Typed, NEW r \in Request, Send(r)
  PROVE  toMeter' \in Seq(Request)
  BY DEF Typed, Send

LEMMA AskTypes ==
  ASSUME Typed, NEW k \in 1 .. Len(Items), NEW i \in 1 .. LastInvoke, AskItem(k, i)
  PROVE  /\ toMeter' \in Seq(Request) /\ phase' \in GetWaits /\ ns' \in 0 .. Modulus - 1
         /\ invoke' = i /\ idx' = k /\ scaler' = NoDatum
         /\ phase' = "scaler" <=> Items[k] \in Registers
         /\ Send(Req("GET", IF Items[k] \in Registers THEN ScalerOf(Items[k]) ELSE ValueOf(Items[k]), ns, i))
  <1>1. i \in 0 .. 15 /\ ns \in 0 .. Modulus - 1
    BY CountTypes
  <1>2. /\ Req("GET", ScalerOf(Items[k]), ns, i) \in Request
        /\ Req("GET", ValueOf(Items[k]), ns, i) \in Request
    BY <1>1, DatumTypes, RequestTypes
  <1>3. /\ phase' \in GetWaits /\ ns' = Succ(ns) /\ invoke' = i /\ idx' = k /\ scaler' = NoDatum
        /\ phase' = "scaler" <=> Items[k] \in Registers
        /\ Send(Req("GET", IF Items[k] \in Registers THEN ScalerOf(Items[k]) ELSE ValueOf(Items[k]), ns, i))
    BY DEF AskItem, GetWaits
  <1>4. QED
    BY <1>2, <1>3, SendTypes, CountTypes

\* A question of the batch gets one of the ids there are.
LEMMA NextInvokeTypes ==
  ASSUME Typed, phase = "value"
  PROVE  /\ NextInvoke \in 1 .. LastInvoke
         /\ NextInvoke # invoke + (IF Items[idx] \in Registers THEN 1 ELSE 0)
  BY SessionAssumption DEF Typed, Placed, NextInvoke, GetWaits

LEMMA OutcomeTypes ==
  ASSUME Typed, NEW f \in AnyFrame
  PROVE  Outcome(Items[idx], f) \in [obis : Obis, ok : BOOLEAN, value : Datum, scaler : Datum]
  <1>1. Items[idx] \in Obis /\ scaler \in Datum /\ NoDatum \in Datum
    BY CountTypes, DatumTypes DEF Typed, SessionTypeOK
  <1>2. f.kind \in {"DATA", "NULL"} => f.about \in Datum
    BY FrameTypes
  <1>3. QED
    BY <1>1, <1>2 DEF Outcome, Read, Refused

LEMMA TypeStep == Typed /\ [Next]_vars => Typed'
  <1> SUFFICES ASSUME Typed, [Next]_vars PROVE Typed'
    OBVIOUS
  <1> USE DEF setting, batch, transfer, counters, meter
  <1>0. /\ SessionTypeOK /\ Placed /\ beaten' \in BOOLEAN
        /\ toMeter \in Seq(Request) /\ line \in Seq(AnyFrame)
        /\ \A r : Shifted(r, line) => r \in Seq(AnyFrame)
    BY StepKinds DEF Typed, Shifted
  <1>a. line # <<>> => Head(line) \in AnyFrame /\ Tail(line) \in Seq(AnyFrame)
    BY <1>0, TailFacts
  <1>1. CASE Quiet
    BY <1>0, <1>1 DEF Quiet, Typed, SessionTypeOK, Placed
  <1>2. CASE Exception
    <2>1. PICK why : Failed(why)
      BY <1>2 DEF Exception
    <2>2. CASE op = "command" /\ calls < MaxCalls /\ Repeat /\ UNCHANGED <<setting, batch, transfer>>
      <3>1. toMeter' \in Seq(Request) /\ line' \in Seq(AnyFrame)
        BY <2>2, CountTypes, RequestTypes DEF Repeat
      <3>2. SessionTypeOK'
        BY <1>0, <2>2, CountTypes DEF Repeat, SessionTypeOK
      <3>3. Placed'
        BY <1>0, <2>2 DEF Repeat, Placed, GetWaits
      <3>4. QED
        BY <3>1, <3>2, <3>3 DEF Typed
    <2>3. CASE Over /\ UNCHANGED <<batch, transfer, counters>>
      BY <1>0, <2>3 DEF Over, Typed, SessionTypeOK, Placed, Ends, Waits, GetWaits
    <2>4. QED
      BY <2>1, <2>2, <2>3 DEF Failed
  <1>3. CASE SnrmAgain
    <2>1. toMeter' \in Seq(Request)
      BY <1>3, CountTypes, RequestTypes, SendTypes DEF SnrmAgain
    <2>2. tries' \in Nat \ {0}
      BY <1>0, <1>3 DEF SnrmAgain, SessionTypeOK
    <2>3. QED
      BY <1>0, <1>3, <2>1, <2>2 DEF SnrmAgain, Typed, SessionTypeOK, Placed
  <1>4. CASE UaArrives
    <2>1. toMeter' \in Seq(Request)
      BY <1>4, CountTypes, RequestTypes, SendTypes DEF UaArrives
    <2>2. SessionTypeOK'
      BY <1>0, <1>4, CountTypes DEF UaArrives, SessionTypeOK, Waits
    <2>3. QED
      BY <1>0, <1>a, <1>4, <2>1, <2>2 DEF UaArrives, Typed, Placed, GetWaits
  <1>5. CASE AarqAgain
    <2>1. toMeter' \in Seq(Request)
      BY <1>0, <1>5, CountTypes, RequestTypes DEF AarqAgain
    <2>2. SessionTypeOK'
      BY <1>0, <1>5, CountTypes DEF AarqAgain, SessionTypeOK
    <2>3. QED
      BY <1>0, <1>5, <2>1, <2>2 DEF AarqAgain, Typed, Placed
  <1>6. CASE Accepted
    <2>1. CASE op = "registers"
      <3>1. AskItem(1, 1) /\ 1 \in 1 .. LastInvoke
        BY <1>6, <2>1, CountTypes DEF Accepted
      <3>2. /\ toMeter' \in Seq(Request) /\ phase' \in GetWaits /\ ns' \in 0 .. Modulus - 1
            /\ invoke' = 1 /\ idx' = 1 /\ scaler' = NoDatum
            /\ phase' = "scaler" <=> Items[1] \in Registers
        BY <3>1, AskTypes, CountTypes
      <3>3. SessionTypeOK'
        BY <1>0, <1>6, <3>2, CountTypes, DatumTypes DEF Accepted, SessionTypeOK, Waits
      <3>4. QED
        BY <1>0, <1>a, <1>6, <2>1, <3>1, <3>2, <3>3 DEF Accepted, Typed, Placed, GetWaits
    <2>2. CASE op # "registers"
      <3>1. /\ Send(Req(IF op = "profile" THEN "RANGE" ELSE "COMMAND", <<>>, ns, 1))
            /\ phase' = IF op = "profile" THEN "block" ELSE "answer"
            /\ ns' = Succ(ns) /\ UNCHANGED <<invoke, idx, scaler>>
        BY <1>6, <2>2 DEF Accepted
      <3>2. toMeter' \in Seq(Request)
        BY <3>1, CountTypes, RequestTypes, SendTypes
      <3>3. SessionTypeOK'
        BY <1>0, <1>6, <3>1, CountTypes DEF Accepted, SessionTypeOK, Waits
      <3>4. op \in {"profile", "command"} /\ op' = op
        BY <1>0, <1>6, <2>2, SessionAssumption DEF Accepted, SessionTypeOK
      <3>5. QED
        BY <1>0, <1>a, <1>6, <3>1, <3>2, <3>3, <3>4 DEF Accepted, Typed, Placed, GetWaits
    <2>3. QED
      BY <2>1, <2>2
  <1>7. CASE ScalerArrives
    <2>0. op = "registers" /\ invoke \in 1 .. LastInvoke
      BY <1>0, <1>7 DEF ScalerArrives, Placed, GetWaits
    <2>1. invoke + 1 \in 0 .. 15 /\ op = "registers"
      BY <2>0, CountTypes
    <2>2. toMeter' \in Seq(Request)
      BY <1>7, <2>1, CountTypes, DatumTypes, RequestTypes, SendTypes DEF ScalerArrives
    <2>3. scaler' \in Datum
      BY <1>a, <1>7, FrameTypes, DatumTypes DEF ScalerArrives
    <2>4. SessionTypeOK'
      BY <1>0, <1>7, <2>3, CountTypes DEF ScalerArrives, SessionTypeOK, Waits, GetWaits
    <2>5. QED
      BY <1>0, <1>a, <1>7, <2>1, <2>2, <2>4 DEF ScalerArrives, Typed, Placed, GetWaits
  <1>8. CASE ValueArrives
    <2>1. /\ results' \in Seq([obis : Obis, ok : BOOLEAN, value : Datum, scaler : Datum])
          /\ op = "registers" /\ op' = op /\ line' \in Seq(AnyFrame) /\ growing' = growing
      BY <1>0, <1>a, <1>8, OutcomeTypes DEF ValueArrives, SessionTypeOK, Placed, GetWaits
    <2>2. CASE idx < Len(Items)
      <3>1. /\ AskItem(idx + 1, NextInvoke) /\ idx + 1 \in 1 .. Len(Items)
            /\ NextInvoke \in 1 .. LastInvoke
        BY <1>8, <2>2, CountTypes, NextInvokeTypes DEF ValueArrives
      <3>2. /\ toMeter' \in Seq(Request) /\ phase' \in GetWaits /\ ns' \in 0 .. Modulus - 1
            /\ invoke' \in 1 .. LastInvoke /\ idx' \in 1 .. Len(Items) /\ scaler' = NoDatum
            /\ phase' = "scaler" <=> Items[idx'] \in Registers
        BY <3>1, AskTypes
      <3>5. invoke' \in 0 .. 15 /\ scaler' \in Datum /\ phase' \in Waits
            /\ skipped' \in 0 .. MaxSkipped - 1 /\ cause' = cause
            /\ UNCHANGED <<setting, tries, calls, transfer, meter>>
        <4>1. invoke' \in 0 .. 15
          BY <3>2, CountTypes
        <4>2. scaler' \in Datum /\ phase' \in Waits
          BY <3>2, DatumTypes DEF Waits
        <4>3. /\ skipped' = 0 /\ cause' = cause /\ UNCHANGED <<setting, tries, calls, transfer, meter>>
          BY <1>8, <2>2 DEF ValueArrives
        <4>4. QED
          BY <4>1, <4>2, <4>3, CountTypes
      <3>3. SessionTypeOK'
        BY <1>0, <2>1, <3>2, <3>5 DEF SessionTypeOK
      <3>4. QED
        BY <1>0, <1>8, <2>1, <3>2, <3>3 DEF ValueArrives, Typed, Placed, GetWaits
    <2>3. CASE ~(idx < Len(Items))
      <3>1. phase' = "done" /\ UNCHANGED <<ns, invoke, idx, scaler, toMeter>>
        BY <1>8, <2>3 DEF ValueArrives
      <3>2. SessionTypeOK'
        BY <1>0, <1>8, <2>1, <3>1, CountTypes DEF ValueArrives, SessionTypeOK, Ends
      <3>3. QED
        BY <1>0, <1>8, <2>1, <3>1, <3>2 DEF ValueArrives, Typed, Placed, GetWaits
    <2>4. QED
      BY <2>2, <2>3
  <1>9. CASE NextPart
    <2>1. PICK b \in Nat, i \in {invoke, Increased} : Ask(b, i)
      BY <1>9 DEF NextPart
    <2>2. i \in 0 .. 15 /\ op = "profile" /\ op' = op
      BY <1>0, <1>9, CountTypes DEF NextPart, Placed
    <2>3. toMeter' \in Seq(Request)
      BY <2>1, <2>2, CountTypes, RequestTypes, SendTypes DEF Ask
    <2>4. SessionTypeOK'
      BY <1>0, <1>9, <2>1, <2>2, CountTypes DEF NextPart, Ask, SessionTypeOK
    <2>5. QED
      BY <1>0, <1>a, <1>9, <2>1, <2>2, <2>3, <2>4 DEF NextPart, Ask, Typed, Placed, GetWaits
  <1>10. CASE LastPart
    BY <1>0, <1>10 DEF LastPart, Over, Typed, SessionTypeOK, Placed, Ends, GetWaits
  <1>11. CASE Confirmed
    BY <1>0, <1>11 DEF Confirmed, Over, Typed, SessionTypeOK, Placed, Ends, GetWaits
  <1>12. CASE MeterStep
    <2>1. Taken
      BY <1>12, MeterKinds
    <2>2. toMeter' \in Seq(Request) /\ Head(toMeter) \in Request /\ line' \in Seq(AnyFrame)
      BY <1>0, <2>1, TailFacts DEF Taken
    <2>3. Head(toMeter).invoke \in 0 .. 15
      BY <2>2 DEF Request
    <2>4. heard' \in 0 .. Modulus - 1 /\ lastId' \in 0 .. 15 /\ aares' \in Nat /\ obeyed' \in Nat
      <3>1. /\ aares \in Nat /\ obeyed \in Nat /\ lastId \in 0 .. 15
        BY <1>0 DEF SessionTypeOK
      <3>2. aares' \in Nat /\ obeyed' \in Nat
        BY <2>1, <3>1 DEF Taken
      <3>3. lastId' \in 0 .. 15
        BY <2>1, <2>3, <3>1 DEF Taken
      <3>4. heard' \in 0 .. Modulus - 1
        BY <2>1, CountTypes DEF Taken
      <3>5. QED
        BY <3>2, <3>3, <3>4
    <2>5. UNCHANGED <<setting, phase, cause, counters, ns, invoke, batch, transfer>>
      BY <2>1 DEF Taken
    <2>6. SessionTypeOK'
      BY <1>0, <2>4, <2>5 DEF SessionTypeOK
    <2>7. Placed'
      BY <1>0, <2>5 DEF Placed
    <2>8. QED
      BY <2>2, <2>6, <2>7 DEF Typed
  <1>13. QED
    BY <1>1, <1>2, <1>3, <1>4, <1>5, <1>6, <1>7, <1>8, <1>9, <1>10, <1>11, <1>12, StepKinds

LEMMA TypeInit == Init => Typed
  <1> SUFFICES ASSUME Init PROVE Typed
    OBVIOUS
  <1>1. toMeter \in Seq(Request) /\ line \in Seq(AnyFrame)
    BY RequestTypes, SessionAssumption DEF Init
  <1>2. SessionTypeOK
    <2>1. /\ 1 \in 1 .. MaxCalls /\ 0 \in 0 .. MaxSkipped - 1 /\ 1 \in 1 .. Len(Items)
          /\ 1 \in 0 .. Modulus - 1 /\ 0 \in 0 .. Modulus - 1
      BY SessionAssumption
    <2>2. results \in Seq([obis : Obis, ok : BOOLEAN, value : Datum, scaler : Datum])
      BY DEF Init
    <2>3. scaler \in Datum /\ phase \in {"ua"} \cup Waits \cup Ends
      BY DatumTypes DEF Init
    <2>4. op \in Operations /\ layout \in Layouts /\ strict \in BOOLEAN /\ beaten \in BOOLEAN
          /\ growing \in BOOLEAN
      BY DEF Init
    <2>5. /\ tries \in Nat \ {0} /\ calls \in 1 .. MaxCalls /\ skipped \in 0 .. MaxSkipped - 1
          /\ ns \in 0 .. Modulus - 1 /\ invoke \in 0 .. 15 /\ idx \in 1 .. Len(Items)
          /\ pending \in Nat /\ heard \in 0 .. Modulus - 1 /\ lastId \in 0 .. 15
          /\ aares \in Nat /\ obeyed \in Nat
      BY <2>1 DEF Init
    <2>6. QED
      BY <2>2, <2>3, <2>4, <2>5 DEF SessionTypeOK
  <1>3. Placed
    BY SessionAssumption DEF Init, Placed, GetWaits
  <1>4. QED
    BY <1>1, <1>2, <1>3 DEF Typed

\* Numbers stay within their bits, ids within those a batch may use, and data are those of
\* objects, whatever comes late or torn.
THEOREM SessionTypeCorrect == Spec => []SessionTypeOK
  <1>1. Typed => SessionTypeOK
    BY DEF Typed
  <1>2. QED
    BY <1>1, TypeInit, TypeStep, PTL DEF Spec

-----------------------------------------------------------------------------
(* Handshake *)

\* While the association is made, nothing but its frames is under way.  An AARE on the
\* line was sent on this connection.
Handshake ==
    phase \in {"ua", "aare"} =>
        /\ \A k \in 1 .. Len(toMeter) : toMeter[k].kind \in Control
        /\ \A k \in 1 .. Len(line) : line[k].kind \in Supervisory \cup {"TORN"} \cup Shakes
        /\ \A k \in 1 .. Len(line) : line[k].kind \in Shakes =>
              /\ aares >= 1
              /\ \A j \in 1 .. Len(line) : line[j].kind \in Shakes /\ j # k => aares >= 2

LEMMA SentFacts ==
  ASSUME NEW S, NEW s \in Seq(S), NEW r \in S, NEW t, t = Append(s, r)
  PROVE  /\ t \in Seq(S) /\ t # <<>> /\ Len(s) \in Nat /\ Len(t) = Len(s) + 1 /\ t[Len(t)] = r
         /\ \A k \in 1 .. Len(s) : t[k] = s[k]
         /\ s = <<>> <=> Len(s) = 0
         /\ s # <<>> => Len(s) \in 1 .. Len(s)
  OBVIOUS

LEMMA SentTwice ==
  ASSUME NEW S, NEW s \in Seq(S), NEW a \in S, NEW b \in S, NEW t, t = s \o <<a, b>>
  PROVE  /\ t \in Seq(S) /\ Len(s) \in Nat /\ Len(t) = Len(s) + 2 /\ t # <<>>
         /\ \A k \in 1 .. Len(s) : t[k] = s[k]
         /\ t[Len(s) + 1] = a /\ t[Len(s) + 2] = b
  <1>1. <<a, b>> \in Seq(S) /\ Len(<<a, b>>) = 2 /\ <<a, b>>[1] = a /\ <<a, b>>[2] = b
    OBVIOUS
  <1>2. /\ t \in Seq(S) /\ Len(s) \in Nat /\ Len(t) = Len(s) + 2
        /\ \A k \in 1 .. Len(s) : t[k] = s[k]
        /\ t[Len(s) + 1] = a /\ t[Len(s) + 2] = b
    BY <1>1
  <1>3. t # <<>>
    BY <1>2
  <1>4. QED
    BY <1>2, <1>3

LEMMA ShiftedFacts ==
  ASSUME NEW s \in Seq(AnyFrame), NEW r, Shifted(r, s)
  PROVE  \E d \in Nat : \A k \in 1 .. Len(r) :
             r[k].kind = "TORN" \/ (k + d \in 1 .. Len(s) /\ r[k] = s[k + d])
  <1>1. PICK d \in Nat : \A k \in 1 .. Len(r) : r[k] = Torn \/ (k + d <= Len(s) /\ r[k] = s[k + d])
    BY DEF Shifted
  <1>2. ASSUME NEW k \in 1 .. Len(r), k + d <= Len(s) PROVE k + d \in 1 .. Len(s)
    BY <1>2 DEF Shifted
  <1>3. \A k \in 1 .. Len(r) : r[k] = Torn => r[k].kind = "TORN"
    BY DEF Torn, Frame
  <1>4. QED
    BY <1>1, <1>2, <1>3

\* What is true of a line stays true of what is left of it.
LEMMA HandshakeLine ==
  ASSUME Typed, Handshake, phase \in {"ua", "aare"}, Shifted(line', line), aares' = aares
  PROVE  /\ \A k \in 1 .. Len(line') : line'[k].kind \in Supervisory \cup {"TORN"} \cup Shakes
         /\ \A k \in 1 .. Len(line') : line'[k].kind \in Shakes =>
              /\ aares' >= 1
              /\ \A j \in 1 .. Len(line') : line'[j].kind \in Shakes /\ j # k => aares' >= 2
  <1>1. PICK d \in Nat : \A k \in 1 .. Len(line') :
             line'[k].kind = "TORN" \/ (k + d \in 1 .. Len(line) /\ line'[k] = line[k + d])
    BY ShiftedFacts, ZenonT(90) DEF Typed
  <1>2. \A k \in 1 .. Len(line') : line'[k].kind \in Shakes =>
            k + d \in 1 .. Len(line) /\ line'[k] = line[k + d]
    BY <1>1 DEF Shakes
  <1>3. \A k \in 1 .. Len(line') : line'[k].kind \in Supervisory \cup {"TORN"} \cup Shakes
    BY <1>1 DEF Handshake
  <1>4. ASSUME NEW k \in 1 .. Len(line'), line'[k].kind \in Shakes
        PROVE  /\ aares' >= 1
               /\ \A j \in 1 .. Len(line') : line'[j].kind \in Shakes /\ j # k => aares' >= 2
    <2>1. aares >= 1
      BY <1>2, <1>4 DEF Handshake
    <2>2. ASSUME NEW j \in 1 .. Len(line'), line'[j].kind \in Shakes, j # k PROVE aares >= 2
      <3>1. k + d # j + d
        BY <2>2
      <3>2. QED
        BY <1>2, <1>4, <2>2, <3>1 DEF Handshake
    <2>3. QED
      BY <2>1, <2>2
  <1>5. QED
    BY <1>3, <1>4

LEMMA HandshakeStep ==
  ASSUME Typed, Handshake, [Next]_vars
  PROVE  Handshake'
  <1> USE DEF setting, batch, transfer, counters, meter
  <1>1. CASE Quiet
    BY <1>1, HandshakeLine DEF Quiet, Handshake
  <1>2. CASE Exception
    <2>1. \/ Repeat
          \/ phase' \in Ends
      BY <1>2 DEF Exception, Failed, Over
    <2>2. CASE Repeat
      BY <2>2 DEF Repeat, Handshake, Plain, Req, Control
    <2>3. QED
      BY <2>1, <2>2 DEF Handshake, Ends
  <1>3. CASE SnrmAgain
    <2>1. Plain("SNRM") \in Request /\ toMeter \in Seq(Request) /\ toMeter' = Append(toMeter, Plain("SNRM"))
      BY <1>3, CountTypes, RequestTypes DEF SnrmAgain, Send, Typed
    <2>2. /\ toMeter'[Len(toMeter')] = Plain("SNRM") /\ Len(toMeter') = Len(toMeter) + 1
          /\ \A k \in 1 .. Len(toMeter) : toMeter'[k] = toMeter[k] /\ toMeter[k].kind \in Control
      BY <1>3, <2>1, SentFacts DEF SnrmAgain, Handshake
    <2>3. \A k \in 1 .. Len(toMeter') : toMeter'[k].kind \in Control
      BY <2>1, <2>2 DEF Plain, Req, Control
    <2>4. QED
      BY <1>3, <2>3, HandshakeLine DEF SnrmAgain, Handshake
  <1>4. CASE UaArrives
    <2>1. Plain("AARQ") \in Request /\ toMeter \in Seq(Request) /\ toMeter' = Append(toMeter, Plain("AARQ"))
      BY <1>4, CountTypes, RequestTypes DEF UaArrives, Send, Typed
    <2>2. /\ toMeter'[Len(toMeter')] = Plain("AARQ") /\ Len(toMeter') = Len(toMeter) + 1
          /\ \A k \in 1 .. Len(toMeter) : toMeter'[k] = toMeter[k] /\ toMeter[k].kind \in Control
      BY <1>4, <2>1, SentFacts DEF UaArrives, Handshake
    <2>3. \A k \in 1 .. Len(toMeter') : toMeter'[k].kind \in Control
      BY <2>1, <2>2 DEF Plain, Req, Control
    <2>4. Shifted(line', line)
      BY <1>4, ShiftedSelf DEF UaArrives, Typed
    <2>5. QED
      BY <1>4, <2>3, <2>4, HandshakeLine DEF UaArrives, Handshake
  <1>5. CASE AarqAgain
    <2>1. <<Plain("DISC"), Plain("AARQ")>> \in Seq(Request) /\ toMeter \in Seq(Request)
      BY CountTypes, RequestTypes DEF Typed
    <2>2. /\ Len(toMeter') = Len(toMeter) + 2 /\ Len(toMeter) \in Nat
          /\ \A k \in 1 .. Len(toMeter) : toMeter'[k] = toMeter[k] /\ toMeter[k].kind \in Control
          /\ toMeter'[Len(toMeter) + 1] = Plain("DISC") /\ toMeter'[Len(toMeter) + 2] = Plain("AARQ")
      BY <1>5, <2>1, ConcatFacts DEF AarqAgain, Handshake
    <2>3. \A k \in 1 .. Len(toMeter') : toMeter'[k].kind \in Control
      <3>1. \A k \in 1 .. Len(toMeter') : k \in 1 .. Len(toMeter) \/ k = Len(toMeter) + 1 \/ k = Len(toMeter) + 2
        BY <2>2
      <3>2. QED
        BY <2>2, <3>1 DEF Plain, Req, Control
    <2>4. QED
      BY <1>5, <2>3, HandshakeLine DEF AarqAgain, Handshake
  <1>6. CASE Accepted
    BY <1>6 DEF Accepted, AskItem, Handshake
  <1>7. CASE ScalerArrives
    BY <1>7 DEF ScalerArrives, Handshake
  <1>8. CASE ValueArrives
    BY <1>8 DEF ValueArrives, AskItem, Handshake
  <1>9. CASE NextPart
    BY <1>9 DEF NextPart, Ask, Handshake
  <1>10. CASE LastPart
    BY <1>10 DEF LastPart, Over, Ends, Handshake
  <1>11. CASE Confirmed
    BY <1>11 DEF Confirmed, Over, Ends, Handshake
  <1>12. CASE MeterStep /\ phase \in {"ua", "aare"}
    <2> DEFINE r == Head(toMeter)
    <2>1. Taken
      BY <1>12, MeterKinds
    <2>2. /\ toMeter # <<>> /\ toMeter \in Seq(Request) /\ line \in Seq(AnyFrame)
          /\ Len(line') \in Nat /\ aares \in Nat
      BY <2>1 DEF Taken, Typed, SessionTypeOK
    <2>3. r \in Request /\ r.kind \in Control /\ \A k \in 1 .. Len(toMeter') : toMeter'[k].kind \in Control
      <3>1. /\ Len(toMeter) \in Nat \ {0} /\ r = toMeter[1] /\ toMeter[1] \in Request
            /\ Len(toMeter') = Len(toMeter) - 1
            /\ \A k \in 1 .. Len(toMeter) - 1 : toMeter'[k] = toMeter[k + 1]
        BY <2>1, <2>2, TailFacts DEF Taken
      <3>2. \A k \in 1 .. Len(toMeter) : toMeter[k].kind \in Control
        BY <1>12 DEF Handshake
      <3>3. QED
        BY <3>1, <3>2
    <2> HIDE DEF r
    <2>4. /\ \A k \in 1 .. Len(line) : line'[k] = line[k]
          /\ Len(line) <= Len(line')
          /\ \A k \in 1 .. Len(line') : k > Len(line) =>
              \/ line'[k].kind = "RR"
              \/ /\ k = Len(line') /\ line'[k].kind \in Supervisory \cup Shakes
                 /\ line'[k].kind \in Shakes => aares' = aares + 1
      BY <2>1, <2>3, AnswerKinds DEF Taken, r
    <2>5. \A k \in 1 .. Len(line') : line'[k].kind \in Supervisory \cup {"TORN"} \cup Shakes
      <3>1. \A k \in 1 .. Len(line') : k > Len(line) \/ k \in 1 .. Len(line)
        BY <2>2
      <3>2. QED
        BY <1>12, <2>4, <3>1 DEF Handshake, Supervisory
    <2>6. aares' \in {aares, aares + 1}
      BY <2>1 DEF Taken
    <2>7. ASSUME NEW k \in 1 .. Len(line'), line'[k].kind \in Shakes
          PROVE  /\ aares' >= 1
                 /\ \A j \in 1 .. Len(line') : line'[j].kind \in Shakes /\ j # k => aares' >= 2
      <3>1. \A i \in 1 .. Len(line') : line'[i].kind \in Shakes =>
               \/ i \in 1 .. Len(line) /\ line[i].kind \in Shakes
               \/ i = Len(line') /\ i > Len(line) /\ aares' = aares + 1
        BY <2>2, <2>4 DEF Shakes
      <3>2. \A i \in 1 .. Len(line) : line[i].kind \in Shakes =>
               /\ aares >= 1
               /\ \A j \in 1 .. Len(line) : line[j].kind \in Shakes /\ j # i => aares >= 2
        BY <1>12 DEF Handshake
      <3>3. QED
        BY <2>2, <2>6, <2>7, <3>1, <3>2
    <2>8. QED
      BY <2>3, <2>5, <2>7 DEF Handshake
  <1>13. CASE MeterStep /\ phase \notin {"ua", "aare"}
    BY <1>13, MeterKinds DEF Taken, Handshake
  <1>14. QED
    BY <1>1, <1>2, <1>3, <1>4, <1>5, <1>6, <1>7, <1>8, <1>9, <1>10, <1>11, <1>12, <1>13, StepKinds

-----------------------------------------------------------------------------
(* Numbers *)

\* What the meter expects once it has taken a request that bears the number it expected.
Expected(r) ==
    IF r.kind \in {"SNRM", "DISC"} THEN 0 ELSE IF r.kind = "AARQ" THEN 1 ELSE Succ(r.ns)
\* The invoke-id it remembers then.
Remembered(r) == IF r.kind = "AARQ" THEN 0 ELSE r.invoke

\* Each I-frame bears the number the meter expects when it comes to it, and send_seq is
\* the one after them all.
InStep ==
    /\ \A k \in 1 .. Len(toMeter) :
          toMeter[k].kind \notin Control =>
              toMeter[k].ns = IF k = 1 THEN heard ELSE Expected(toMeter[k - 1])
    /\ phase \in Waits =>
          ns = IF toMeter = <<>> THEN heard ELSE Expected(toMeter[Len(toMeter)])

\* The invoke-id of the last GET sent, 0 before the first.
LastSent ==
    CASE phase = "aare" -> 0
      [] phase = "scaler" -> invoke
      [] phase = "value" -> invoke + (IF Items[idx] \in Registers THEN 1 ELSE 0)

\* No GET has the invoke-id of the one before it, nor has the next one.
FreshIds ==
    /\ \A k \in 1 .. Len(toMeter) :
          toMeter[k].kind = "GET" =>
              /\ toMeter[k].invoke # IF k = 1 THEN lastId ELSE Remembered(toMeter[k - 1])
              /\ k # 1 => toMeter[k - 1].kind \in {"AARQ", "GET"}
    /\ phase \in {"aare"} \cup GetWaits =>
          IF toMeter = <<>> THEN lastId = LastSent
          ELSE /\ toMeter[Len(toMeter)].kind \in {"AARQ", "GET"}
               /\ Remembered(toMeter[Len(toMeter)]) = LastSent

LEMMA InStepSend ==
  ASSUME Typed, InStep, NEW r \in Request, Send(r), heard' = heard,
         r.kind \notin Control => phase \in Waits /\ r.ns = ns,
         phase' \in Waits => ns' = Expected(r)
  PROVE  InStep'
  <1>1. /\ toMeter' # <<>> /\ Len(toMeter) \in Nat /\ Len(toMeter') = Len(toMeter) + 1
        /\ toMeter'[Len(toMeter')] = r
        /\ \A k \in 1 .. Len(toMeter) : toMeter'[k] = toMeter[k]
        /\ toMeter = <<>> <=> Len(toMeter) = 0
    BY SentFacts DEF Typed, Send
  <1>2. ASSUME NEW k \in 1 .. Len(toMeter'), toMeter'[k].kind \notin Control
        PROVE  toMeter'[k].ns = IF k = 1 THEN heard ELSE Expected(toMeter'[k - 1])
    <2>1. CASE k \in 1 .. Len(toMeter)
      <3>1. k # 1 => k - 1 \in 1 .. Len(toMeter)
        BY <2>1
      <3>2. QED
        BY <1>1, <1>2, <2>1, <3>1 DEF InStep
    <2>2. CASE k = Len(toMeter) + 1
      <3>1. ns = IF toMeter = <<>> THEN heard ELSE Expected(toMeter[Len(toMeter)])
        BY <1>1, <1>2, <2>2 DEF InStep
      <3>2. k # 1 => k - 1 \in 1 .. Len(toMeter) /\ k - 1 = Len(toMeter) /\ toMeter # <<>>
        BY <1>1, <2>2
      <3>3. toMeter'[k] = r /\ r.ns = ns
        BY <1>1, <1>2, <2>2
      <3>4. CASE k = 1
        BY <1>1, <2>2, <3>1, <3>3, <3>4
      <3>5. CASE k # 1
        BY <1>1, <3>1, <3>2, <3>3, <3>5
      <3>6. QED
        BY <3>4, <3>5
    <2>3. QED
      BY <1>1, <2>1, <2>2
  <1>3. QED
    BY <1>1, <1>2 DEF InStep

LEMMA FreshSend ==
  ASSUME Typed, FreshIds, NEW r \in Request, Send(r), lastId' = lastId,
         r.kind = "GET" => phase \in {"aare"} \cup GetWaits /\ r.invoke # LastSent,
         phase' \in {"aare"} \cup GetWaits => r.kind \in {"AARQ", "GET"} /\ Remembered(r) = LastSent'
  PROVE  FreshIds'
  <1>1. /\ toMeter' # <<>> /\ Len(toMeter) \in Nat /\ Len(toMeter') = Len(toMeter) + 1
        /\ toMeter'[Len(toMeter')] = r
        /\ \A k \in 1 .. Len(toMeter) : toMeter'[k] = toMeter[k]
        /\ toMeter = <<>> <=> Len(toMeter) = 0
    BY SentFacts DEF Typed, Send
  <1>2. ASSUME NEW k \in 1 .. Len(toMeter'), toMeter'[k].kind = "GET"
        PROVE  /\ toMeter'[k].invoke # IF k = 1 THEN lastId ELSE Remembered(toMeter'[k - 1])
               /\ k # 1 => toMeter'[k - 1].kind \in {"AARQ", "GET"}
    <2>1. CASE k \in 1 .. Len(toMeter)
      <3>1. k # 1 => k - 1 \in 1 .. Len(toMeter)
        BY <2>1
      <3>2. QED
        BY <1>1, <1>2, <2>1, <3>1 DEF FreshIds
    <2>2. CASE k = Len(toMeter) + 1
      <3>1. IF toMeter = <<>> THEN lastId = LastSent
            ELSE /\ toMeter[Len(toMeter)].kind \in {"AARQ", "GET"}
                 /\ Remembered(toMeter[Len(toMeter)]) = LastSent
        BY <1>1, <1>2, <2>2 DEF FreshIds
      <3>2. k # 1 => k - 1 \in 1 .. Len(toMeter) /\ k - 1 = Len(toMeter) /\ toMeter # <<>>
        BY <1>1, <2>2
      <3>3. toMeter'[k] = r /\ r.invoke # LastSent
        BY <1>1, <1>2, <2>2
      <3>4. CASE k = 1
        BY <1>1, <2>2, <3>1, <3>3, <3>4
      <3>5. CASE k # 1
        BY <1>1, <3>1, <3>2, <3>3, <3>5
      <3>6. QED
        BY <3>4, <3>5
    <2>3. QED
      BY <1>1, <2>1, <2>2
  <1>3. QED
    BY <1>1, <1>2 DEF FreshIds

\* The meter takes the request at the head.
LEMMA TakeStep ==
  ASSUME Typed, InStep, FreshIds, Taken
  PROVE  InStep' /\ FreshIds'
  <1>1. /\ Len(toMeter) \in Nat \ {0} /\ Head(toMeter) = toMeter[1]
        /\ Len(toMeter') = Len(toMeter) - 1
        /\ \A k \in 1 .. Len(toMeter) - 1 : toMeter'[k] = toMeter[k + 1]
        /\ Len(toMeter) = 1 => toMeter' = <<>>
    BY TailFacts DEF Taken, Typed
  <1>2. toMeter' = <<>> => Len(toMeter) = 1
    BY <1>1
  <1>3. heard' = Expected(toMeter[1])
    BY <1>1 DEF Taken, InStep, Expected, Control
  <1>4. toMeter[1].kind \in {"AARQ", "GET"} => lastId' = Remembered(toMeter[1])
    BY <1>1 DEF Taken, Remembered, IsGet
  <1>5. phase' = phase /\ ns' = ns /\ invoke' = invoke /\ idx' = idx
    BY DEF Taken, batch
  <1>6. ASSUME NEW k \in 1 .. Len(toMeter')
        PROVE  /\ k + 1 \in 1 .. Len(toMeter) /\ toMeter'[k] = toMeter[k + 1] /\ (k + 1) - 1 = k /\ k + 1 # 1
               /\ k # 1 => k - 1 \in 1 .. Len(toMeter') /\ toMeter'[k - 1] = toMeter[k]
    <2>1. k + 1 \in 1 .. Len(toMeter) /\ toMeter'[k] = toMeter[k + 1] /\ (k + 1) - 1 = k /\ k + 1 # 1
      BY <1>1
    <2>2. ASSUME k # 1 PROVE k - 1 \in 1 .. Len(toMeter) - 1 /\ (k - 1) + 1 = k
      BY <1>1, <2>2
    <2>3. QED
      BY <1>1, <2>1, <2>2
  <1>7. ASSUME toMeter' # <<>>
        PROVE  Len(toMeter') \in 1 .. Len(toMeter') /\ Len(toMeter') + 1 = Len(toMeter)
    <2>1. Len(toMeter) # 1
      BY <1>1, <1>7
    <2>2. QED
      BY <1>1, <2>1
  <1>8. InStep'
    <2>1. ASSUME NEW k \in 1 .. Len(toMeter'), toMeter'[k].kind \notin Control
          PROVE  toMeter'[k].ns = IF k = 1 THEN heard' ELSE Expected(toMeter'[k - 1])
      <3>1. toMeter[k + 1].ns = Expected(toMeter[k])
        BY <1>6, <2>1 DEF InStep
      <3>2. QED
        BY <1>3, <1>6, <3>1
    <2>2. ASSUME phase \in Waits
          PROVE  ns = IF toMeter' = <<>> THEN heard' ELSE Expected(toMeter'[Len(toMeter')])
      <3>1. ns = Expected(toMeter[Len(toMeter)])
        BY <2>2 DEF InStep, Taken
      <3>2. QED
        BY <1>2, <1>3, <1>6, <1>7, <3>1
    <2>3. QED
      BY <1>5, <2>1, <2>2 DEF InStep
  <1>9. FreshIds'
    <2>1. ASSUME NEW k \in 1 .. Len(toMeter'), toMeter'[k].kind = "GET"
          PROVE  /\ toMeter'[k].invoke # IF k = 1 THEN lastId' ELSE Remembered(toMeter'[k - 1])
                 /\ k # 1 => toMeter'[k - 1].kind \in {"AARQ", "GET"}
      <3>1. toMeter[k + 1].invoke # Remembered(toMeter[k]) /\ toMeter[k].kind \in {"AARQ", "GET"}
        BY <1>6, <2>1 DEF FreshIds
      <3>2. QED
        BY <1>4, <1>6, <3>1
    <2>2. ASSUME phase \in {"aare"} \cup GetWaits
          PROVE  IF toMeter' = <<>> THEN lastId' = LastSent
                 ELSE /\ toMeter'[Len(toMeter')].kind \in {"AARQ", "GET"}
                      /\ Remembered(toMeter'[Len(toMeter')]) = LastSent
      <3>1. /\ toMeter[Len(toMeter)].kind \in {"AARQ", "GET"}
            /\ Remembered(toMeter[Len(toMeter)]) = LastSent
        BY <2>2 DEF FreshIds, Taken
      <3>2. QED
        BY <1>2, <1>4, <1>6, <1>7, <3>1
    <2>3. LastSent' = LastSent
      BY <1>5 DEF LastSent
    <2>4. QED
      BY <1>5, <2>1, <2>2, <2>3 DEF FreshIds
  <1>10. QED
    BY <1>8, <1>9
\* Nothing is sent or taken.
LEMMA NumbersRest ==
  ASSUME InStep, FreshIds, UNCHANGED <<toMeter, heard, lastId, ns, invoke, idx>>,
         phase' = phase \/ phase' \notin Waits
  PROVE  InStep' /\ FreshIds'
  <1>1. phase' = phase => LastSent' = LastSent
    BY DEF LastSent
  <1>2. InStep'
    BY DEF InStep
  <1>3. FreshIds'
    BY <1>1, PhaseKinds DEF FreshIds, GetWaits
  <1>4. QED
    BY <1>2, <1>3

\* A GET of the first datum of an item is sent.
LEMMA AskStep ==
  ASSUME Typed, InStep, FreshIds, NEW k \in 1 .. Len(Items), NEW i \in 1 .. LastInvoke,
         AskItem(k, i), phase \in {"aare"} \cup GetWaits, i # LastSent,
         heard' = heard, lastId' = lastId
  PROVE  InStep' /\ FreshIds'
  <1> DEFINE r == Req("GET", IF Items[k] \in Registers THEN ScalerOf(Items[k]) ELSE ValueOf(Items[k]), ns, i)
  <1>1. /\ Send(r) /\ phase' \in GetWaits /\ ns' = Succ(ns) /\ invoke' = i /\ idx' = k
        /\ phase' = "scaler" <=> Items[k] \in Registers
    BY AskTypes DEF AskItem
  <1>2. r.kind = "GET" /\ r.ns = ns /\ r.invoke = i
    BY DEF Req
  <1>3. r \in Request
    <2>1. i \in 0 .. 15 /\ ns \in 0 .. Modulus - 1
      BY CountTypes
    <2>2. /\ Req("GET", ScalerOf(Items[k]), ns, i) \in Request
          /\ Req("GET", ValueOf(Items[k]), ns, i) \in Request
      BY <2>1, DatumTypes, RequestTypes
    <2>3. QED
      BY <2>2
  <1>4. LastSent' = i
    <2>1. CASE phase' = "scaler"
      BY <1>1, <2>1 DEF LastSent
    <2>2. CASE phase' = "value"
      BY <1>1, <2>2 DEF LastSent
    <2>3. QED
      BY <1>1, <2>1, <2>2 DEF GetWaits
  <1> HIDE DEF r
  <1>5. InStep'
    BY <1>1, <1>2, <1>3, InStepSend, PhaseKinds DEF GetWaits, Expected
  <1>6. FreshIds'
    BY <1>1, <1>2, <1>3, <1>4, FreshSend DEF GetWaits, Remembered
  <1>7. QED
    BY <1>5, <1>6

LEMMA NumbersStep ==
  ASSUME Typed, InStep, FreshIds, [Next]_vars
  PROVE  InStep' /\ FreshIds'
  <1> USE DEF setting, batch, transfer, counters, meter
  <1>0. ns \in 0 .. Modulus - 1 /\ invoke \in 0 .. 15 /\ toMeter \in Seq(Request) /\ Placed
    BY DEF Typed, SessionTypeOK
  <1>1. CASE Quiet
    BY <1>1, NumbersRest DEF Quiet
  <1>2. CASE Exception
    <2>1. CASE Repeat
      <3>1. toMeter' = <<Plain("SNRM")>> /\ phase' = "ua"
        BY <2>1 DEF Repeat
      <3>2. Plain("SNRM").kind = "SNRM" /\ Len(toMeter') = 1 /\ toMeter'[1] = Plain("SNRM")
        BY <3>1 DEF Plain, Req
      <3>3. QED
        BY <3>1, <3>2, PhaseKinds DEF InStep, FreshIds, GetWaits, Control
    <2>2. CASE Over
      BY <2>2, NumbersRest, PhaseKinds DEF Over, Ends
    <2>3. QED
      BY <1>2, <2>1, <2>2 DEF Exception, Failed
  <1>3. CASE SnrmAgain
    <2>1. /\ Plain("SNRM") \in Request /\ Send(Plain("SNRM")) /\ Plain("SNRM").kind = "SNRM"
          /\ phase' = "ua" /\ heard' = heard /\ lastId' = lastId
      BY <1>3, CountTypes, RequestTypes DEF SnrmAgain, Plain, Req
    <2>2. InStep'
      BY <2>1, InStepSend, PhaseKinds DEF Control
    <2>3. FreshIds'
      BY <2>1, FreshSend DEF GetWaits
    <2>4. QED
      BY <2>2, <2>3
  <1>4. CASE UaArrives
    <2>1. /\ Plain("AARQ") \in Request /\ Send(Plain("AARQ")) /\ Plain("AARQ").kind = "AARQ"
          /\ phase' = "aare" /\ heard' = heard /\ lastId' = lastId /\ ns' = 1
      BY <1>0, <1>4, CountTypes, RequestTypes DEF UaArrives, Plain, Req, Placed
    <2>2. InStep'
      BY <2>1, InStepSend DEF Control, Expected
    <2>3. FreshIds'
      BY <2>1, FreshSend DEF LastSent, Remembered
    <2>4. QED
      BY <2>2, <2>3
  <1>5. CASE AarqAgain
    <2> DEFINE n == Len(toMeter)
    <2>1. /\ Plain("DISC") \in Request /\ Plain("AARQ") \in Request
          /\ Plain("DISC").kind = "DISC" /\ Plain("AARQ").kind = "AARQ"
      BY CountTypes, RequestTypes DEF Plain, Req
    <2>2. /\ toMeter' = toMeter \o <<Plain("DISC"), Plain("AARQ")>> /\ phase' = "aare"
          /\ phase = "aare" /\ heard' = heard /\ lastId' = lastId /\ ns' = 1
      BY <1>0, <1>5 DEF AarqAgain, Placed
    <2>3. /\ n \in Nat /\ Len(toMeter') = n + 2 /\ toMeter' # <<>>
          /\ \A k \in 1 .. n : toMeter'[k] = toMeter[k]
          /\ toMeter'[n + 1].kind = "DISC" /\ toMeter'[n + 2].kind = "AARQ"
      BY <1>0, <2>1, <2>2, SentTwice
    <2>4. \A k \in 1 .. Len(toMeter') : k \in 1 .. n \/ k = n + 1 \/ k = n + 2
      BY <2>3
    <2>5. \A k \in 1 .. n : k # 1 => k - 1 \in 1 .. n
      BY <2>3
    <2> HIDE DEF n
    <2>6. \A k \in 1 .. Len(toMeter') : toMeter'[k].kind \notin Control =>
              toMeter'[k].ns = IF k = 1 THEN heard ELSE Expected(toMeter'[k - 1])
      <3>1. ASSUME NEW k \in 1 .. Len(toMeter'), toMeter'[k].kind \notin Control PROVE k \in 1 .. n
        BY <2>3, <2>4, <3>1 DEF Control
      <3>2. QED
        BY <2>3, <2>5, <3>1 DEF InStep, n
    <2>7. \A k \in 1 .. Len(toMeter') : toMeter'[k].kind = "GET" =>
              /\ toMeter'[k].invoke # IF k = 1 THEN lastId ELSE Remembered(toMeter'[k - 1])
              /\ k # 1 => toMeter'[k - 1].kind \in {"AARQ", "GET"}
      <3>1. ASSUME NEW k \in 1 .. Len(toMeter'), toMeter'[k].kind = "GET" PROVE k \in 1 .. n
        BY <2>3, <2>4, <3>1
      <3>2. QED
        BY <2>3, <2>5, <3>1 DEF FreshIds, n
    <2>8. LastSent' = 0
      BY <2>2 DEF LastSent
    <2>9. InStep'
      BY <2>2, <2>3, <2>6 DEF InStep, Expected
    <2>10. FreshIds'
      BY <2>2, <2>3, <2>7, <2>8 DEF FreshIds, Remembered
    <2>11. QED
      BY <2>9, <2>10
  <1>6. CASE Accepted
    <2>1. phase = "aare" /\ invoke = 1 /\ LastSent = 0 /\ heard' = heard /\ lastId' = lastId
      BY <1>0, <1>6 DEF Accepted, Placed, LastSent
    <2>2. CASE op = "registers"
      <3>1. AskItem(1, 1) /\ 1 \in 1 .. LastInvoke /\ 1 \in 1 .. Len(Items)
        BY <1>6, <2>2, CountTypes DEF Accepted
      <3>2. QED
        BY <2>1, <3>1, AskStep
    <2>3. CASE op # "registers"
      <3> DEFINE r == Req(IF op = "profile" THEN "RANGE" ELSE "COMMAND", <<>>, ns, 1)
      <3>1. /\ Send(r) /\ phase' \in {"block", "answer"} /\ ns' = Succ(ns)
            /\ r.ns = ns /\ r.kind \in {"RANGE", "COMMAND"} /\ r \in Request
        BY <1>6, <2>1, <2>3, CountTypes, RequestTypes DEF Accepted, Req
      <3> HIDE DEF r
      <3>2. InStep'
        BY <2>1, <3>1, InStepSend, PhaseKinds DEF Expected
      <3>3. FreshIds'
        BY <2>1, <3>1, FreshSend DEF GetWaits
      <3>4. QED
        BY <3>2, <3>3
    <2>4. QED
      BY <2>2, <2>3
  <1>7. CASE ScalerArrives
    <2> DEFINE r == Req("GET", ValueOf(Items[idx]), ns, invoke + 1)
    <2>1. /\ phase = "scaler" /\ phase' = "value" /\ Items[idx] \in Registers
          /\ Send(r) /\ ns' = Succ(ns) /\ UNCHANGED <<invoke, idx, heard, lastId>>
          /\ invoke \in 1 .. LastInvoke
      BY <1>0, <1>7 DEF ScalerArrives, Placed, GetWaits
    <2>2. r.kind = "GET" /\ r.ns = ns /\ r.invoke = invoke + 1
      BY DEF Req
    <2>3. r \in Request
      <3>1. invoke + 1 \in 0 .. 15
        BY <2>1, CountTypes
      <3>2. QED
        BY <3>1, CountTypes, DatumTypes, RequestTypes
    <2>4. LastSent = invoke /\ LastSent' = invoke + 1
      BY <2>1 DEF LastSent
    <2>5. r.invoke # LastSent
      BY <2>1, <2>2, <2>4
    <2> HIDE DEF r
    <2>6. InStep'
      BY <2>1, <2>2, <2>3, InStepSend, PhaseKinds DEF Expected, Control
    <2>7. FreshIds'
      BY <2>1, <2>2, <2>3, <2>4, <2>5, FreshSend DEF GetWaits, Remembered
    <2>8. QED
      BY <2>6, <2>7
  <1>8. CASE ValueArrives
    <2>1. phase = "value" /\ heard' = heard /\ lastId' = lastId
      BY <1>8 DEF ValueArrives
    <2>2. CASE idx < Len(Items)
      <3>1. AskItem(idx + 1, NextInvoke) /\ idx + 1 \in 1 .. Len(Items)
        BY <1>8, <2>2, CountTypes DEF ValueArrives
      <3>2. NextInvoke \in 1 .. LastInvoke /\ NextInvoke # LastSent
        BY <2>1, NextInvokeTypes DEF LastSent
      <3>3. QED
        BY <2>1, <3>1, <3>2, AskStep DEF GetWaits
    <2>3. CASE ~(idx < Len(Items))
      BY <1>8, <2>1, <2>3, NumbersRest, PhaseKinds DEF ValueArrives
    <2>4. QED
      BY <2>2, <2>3
  <1>9. CASE NextPart
    <2>1. PICK b \in Nat, i \in {invoke, Increased} : Ask(b, i)
      BY <1>9 DEF NextPart
    <2> DEFINE r == Req("NEXT", <<b>>, ns, i)
    <2>2. /\ phase = "block" /\ phase' = "block" /\ Send(r) /\ ns' = Succ(ns)
          /\ heard' = heard /\ lastId' = lastId
      BY <1>9, <2>1 DEF NextPart, Ask
    <2>3. r.kind = "NEXT" /\ r.ns = ns
      BY DEF Req
    <2>4. r \in Request
      BY CountTypes, RequestTypes
    <2> HIDE DEF r
    <2>5. InStep'
      BY <2>2, <2>3, <2>4, InStepSend, PhaseKinds DEF Expected
    <2>6. FreshIds'
      BY <2>2, <2>3, <2>4, FreshSend DEF GetWaits
    <2>7. QED
      BY <2>5, <2>6
  <1>10. CASE LastPart \/ Confirmed
    BY <1>10, NumbersRest, PhaseKinds DEF LastPart, Confirmed, Over, Ends
  <1>11. CASE MeterStep
    BY <1>11, MeterKinds, TakeStep
  <1>12. QED
    BY <1>1, <1>2, <1>3, <1>4, <1>5, <1>6, <1>7, <1>8, <1>9, <1>10, <1>11, StepKinds

\* Whatever was late, torn, refused or sent again: the next I-frame bears the number the
\* meter expects, and the next GET an id of four bits that is not the last one's.
THEOREM NumberingStays == Spec => []NumberingInSync
  <1>1. Init => Typed /\ InStep /\ FreshIds
    <2> SUFFICES ASSUME Init PROVE Typed /\ InStep /\ FreshIds
      OBVIOUS
    <2>1. toMeter = <<Plain("SNRM")>> /\ phase = "ua"
      BY DEF Init
    <2>2. Len(toMeter) = 1 /\ toMeter[1].kind = "SNRM"
      BY <2>1 DEF Plain, Req
    <2>3. InStep /\ FreshIds
      BY <2>1, <2>2, PhaseKinds DEF InStep, FreshIds, Control, GetWaits
    <2>4. QED
      BY <2>3, TypeInit
  <1>2. Typed /\ InStep /\ FreshIds /\ [Next]_vars => (Typed /\ InStep /\ FreshIds)'
    BY TypeStep, NumbersStep
  <1>3. Typed /\ InStep /\ FreshIds => NumberingInSync
    <2> SUFFICES ASSUME Typed, InStep, FreshIds, toMeter # <<>>,
                        Head(toMeter).kind \notin {"SNRM", "DISC", "AARQ"}
                 PROVE  /\ Head(toMeter).ns = heard
                        /\ Head(toMeter).kind = "GET" => Head(toMeter).invoke \in (0 .. 15) \ {lastId}
      BY DEF NumberingInSync
    <2>1. toMeter[1] = Head(toMeter) /\ 1 \in 1 .. Len(toMeter) /\ toMeter[1] \in Request
      BY TailFacts DEF Typed
    <2>2. toMeter[1].invoke \in 0 .. 15
      BY <2>1 DEF Request
    <2>3. QED
      BY <2>1, <2>2 DEF InStep, FreshIds, Control
  <1>4. QED
    BY <1>1, <1>2, <1>3, PTL DEF Spec

-----------------------------------------------------------------------------
(* Commands *)

\* A command under way is the last request and was not carried out on this connection.
Commands ==
    /\ obeyed <= calls
    /\ phase \in {"ua", "aare"} => obeyed < calls
    /\ \A k \in 1 .. Len(toMeter) :
          toMeter[k].kind = "COMMAND" => k = Len(toMeter) /\ obeyed < calls /\ op = "command"
    /\ \A k \in 1 .. Len(line) : line[k].kind = "OK" => obeyed >= 1
    /\ op = "command" /\ phase = "done" => obeyed >= 1

LEMMA ShiftedLine ==
  ASSUME Typed, Shifted(line', line), NEW k \in 1 .. Len(line')
  PROVE  line'[k].kind = "TORN" \/ \E j \in 1 .. Len(line) : line'[k] = line[j]
  <1>1. PICK d \in Nat : \A i \in 1 .. Len(line') :
             line'[i].kind = "TORN" \/ (i + d \in 1 .. Len(line) /\ line'[i] = line[i + d])
    BY ShiftedFacts, ZenonT(90) DEF Typed
  <1>2. QED
    BY <1>1

\* Requests are sent, and no command was under way.
LEMMA CommandsSend ==
  ASSUME Typed, Commands, UNCHANGED <<op, calls, obeyed>>, Shifted(line', line),
         \A k \in 1 .. Len(toMeter') :
            toMeter'[k].kind = "COMMAND" => k = Len(toMeter') /\ obeyed < calls /\ op = "command",
         phase' \in {"ua", "aare"} => phase \in {"ua", "aare"},
         op = "command" /\ phase' = "done" => obeyed >= 1
  PROVE  Commands'
  <1>1. \A k \in 1 .. Len(line') : line'[k].kind = "OK" => obeyed >= 1
    <2> SUFFICES ASSUME NEW k \in 1 .. Len(line'), line'[k].kind = "OK" PROVE obeyed >= 1
      OBVIOUS
    <2>1. \E j \in 1 .. Len(line) : line'[k] = line[j]
      BY ShiftedLine
    <2>2. QED
      BY <2>1 DEF Commands
  <1>2. QED
    BY <1>1 DEF Commands

\* What is sent while the association is made, and by an operation that is no command.
LEMMA NoCommandSent ==
  ASSUME Typed, Commands, Handshake, phase \in {"ua", "aare"} \/ op # "command",
         NEW r \in Request, Send(r), r.kind # "COMMAND"
  PROVE  \A k \in 1 .. Len(toMeter') : toMeter'[k].kind # "COMMAND"
  <1>1. \A k \in 1 .. Len(toMeter) : toMeter[k].kind # "COMMAND"
    BY DEF Commands, Handshake, Control
  <1>2. /\ Len(toMeter) \in Nat /\ Len(toMeter') = Len(toMeter) + 1 /\ toMeter'[Len(toMeter')] = r
        /\ \A k \in 1 .. Len(toMeter) : toMeter'[k] = toMeter[k]
    BY SentFacts DEF Typed, Send
  <1>3. \A k \in 1 .. Len(toMeter') : k \in 1 .. Len(toMeter) \/ k = Len(toMeter')
    BY <1>2
  <1>4. QED
    BY <1>1, <1>2, <1>3

LEMMA CommandsStep ==
  ASSUME Typed, Handshake, Commands, [Next]_vars
  PROVE  Commands'
  <1> USE DEF setting, batch, transfer, counters, meter
  <1>0. /\ obeyed \in Nat /\ calls \in Nat /\ toMeter \in Seq(Request) /\ Placed
        /\ line # <<>> => Shifted(Tail(line), line)
    BY ShiftedSelf DEF Typed, SessionTypeOK
  <1>1. CASE Quiet
    BY <1>1, CommandsSend DEF Quiet, Commands
  <1>2. CASE Exception
    <2>1. CASE Repeat /\ op' = op
      <3>1. /\ toMeter' = <<Plain("SNRM")>> /\ line' = <<>> /\ phase' = "ua" /\ calls' = calls + 1
            /\ obeyed' = obeyed
        BY <2>1 DEF Repeat
      <3>2. Len(toMeter') = 1 /\ toMeter'[1].kind = "SNRM"
        BY <3>1 DEF Plain, Req
      <3>3. obeyed < calls + 1 /\ obeyed <= calls + 1
        BY <1>0 DEF Commands
      <3>4. QED
        BY <3>1, <3>2, <3>3 DEF Commands
    <2>2. CASE Over /\ phase' \in {"partial", "failed"}
      BY <2>2, CommandsSend DEF Over, Commands
    <2>3. QED
      BY <1>2, <2>1, <2>2 DEF Exception, Failed
  <1>3. CASE SnrmAgain \/ UaArrives
    <2>1. PICK r \in Request : Send(r) /\ r.kind \in Control
      BY <1>3, CountTypes, RequestTypes DEF SnrmAgain, UaArrives, Plain, Req, Control
    <2>2. \A k \in 1 .. Len(toMeter') : toMeter'[k].kind # "COMMAND"
      BY <1>3, <2>1, NoCommandSent DEF SnrmAgain, UaArrives, Control
    <2>3. QED
      BY <1>0, <1>3, <2>2, CommandsSend DEF SnrmAgain, UaArrives
  <1>4. CASE AarqAgain
    <2>1. /\ Plain("DISC") \in Request /\ Plain("AARQ") \in Request
          /\ Plain("DISC").kind = "DISC" /\ Plain("AARQ").kind = "AARQ"
      BY CountTypes, RequestTypes DEF Plain, Req
    <2>2. /\ Len(toMeter) \in Nat /\ Len(toMeter') = Len(toMeter) + 2
          /\ \A k \in 1 .. Len(toMeter) : toMeter'[k] = toMeter[k]
          /\ toMeter'[Len(toMeter) + 1].kind = "DISC" /\ toMeter'[Len(toMeter) + 2].kind = "AARQ"
      BY <1>0, <1>4, <2>1, SentTwice DEF AarqAgain
    <2>3. \A k \in 1 .. Len(toMeter') :
             k \in 1 .. Len(toMeter) \/ k = Len(toMeter) + 1 \/ k = Len(toMeter) + 2
      BY <2>2
    <2>4. \A k \in 1 .. Len(toMeter') : toMeter'[k].kind # "COMMAND"
      BY <1>4, <2>2, <2>3 DEF AarqAgain, Handshake, Control
    <2>5. QED
      BY <1>4, <2>4, CommandsSend DEF AarqAgain
  <1>5. CASE Accepted
    <2>1. /\ phase = "aare" /\ obeyed < calls /\ UNCHANGED <<op, calls, obeyed>> /\ Shifted(line', line)
          /\ \A k \in 1 .. Len(toMeter) : toMeter[k].kind # "COMMAND"
      BY <1>0, <1>5 DEF Accepted, Commands, Handshake, Control
    <2>2. CASE op = "registers"
      <3>1. AskItem(1, 1) /\ 1 \in 1 .. LastInvoke
        BY <1>5, <2>2, CountTypes DEF Accepted
      <3>2. PICK r : Send(r) /\ r.kind = "GET" /\ phase' \in GetWaits
        BY <3>1 DEF AskItem, Req, GetWaits
      <3>3. toMeter' = Append(toMeter, r) /\ toMeter' \in Seq(Request)
        BY <3>1, <3>2, CountTypes, AskTypes DEF Send
      <3>4. /\ Len(toMeter) \in Nat /\ Len(toMeter') = Len(toMeter) + 1 /\ toMeter'[Len(toMeter')] = r
            /\ \A k \in 1 .. Len(toMeter) : toMeter'[k] = toMeter[k]
        BY <1>0, <3>3
      <3>5. \A k \in 1 .. Len(toMeter') : k \in 1 .. Len(toMeter) \/ k = Len(toMeter')
        BY <3>4
      <3>6. \A k \in 1 .. Len(toMeter') : toMeter'[k].kind # "COMMAND"
        BY <2>1, <3>2, <3>4, <3>5
      <3>7. QED
        BY <2>1, <3>2, <3>6, CommandsSend DEF GetWaits
    <2>3. CASE op # "registers"
      <3> DEFINE r == Req(IF op = "profile" THEN "RANGE" ELSE "COMMAND", <<>>, ns, 1)
      <3>1. Send(r) /\ phase' \in {"block", "answer"}
        BY <1>5, <2>3 DEF Accepted
      <3>a. r \in Request
        BY CountTypes, RequestTypes
      <3>2. r.kind = "COMMAND" => op = "command"
        <4>1. op = "profile" => r.kind = "RANGE"
          BY DEF Req
        <4>2. QED
          BY <2>3, <4>1, SessionAssumption DEF Typed, SessionTypeOK
      <3> HIDE DEF r
      <3>3. /\ Len(toMeter) \in Nat /\ Len(toMeter') = Len(toMeter) + 1 /\ toMeter'[Len(toMeter')] = r
            /\ \A k \in 1 .. Len(toMeter) : toMeter'[k] = toMeter[k]
        BY <1>0, <3>1, <3>a, SentFacts DEF Send
      <3>4. \A k \in 1 .. Len(toMeter') : k \in 1 .. Len(toMeter) \/ k = Len(toMeter')
        BY <3>3
      <3>5. \A k \in 1 .. Len(toMeter') :
                toMeter'[k].kind = "COMMAND" => k = Len(toMeter') /\ obeyed < calls /\ op = "command"
        BY <2>1, <3>2, <3>3, <3>4
      <3>6. QED
        BY <2>1, <3>1, <3>5, CommandsSend
    <2>4. QED
      BY <2>2, <2>3
  <1>6. CASE ScalerArrives
    <2>1. op = "registers" /\ Shifted(line', line) /\ invoke \in 1 .. LastInvoke
      BY <1>0, <1>6 DEF ScalerArrives, Placed, GetWaits
    <2>2. invoke + 1 \in 0 .. 15
      BY <2>1, CountTypes
    <2>3. Req("GET", ValueOf(Items[idx]), ns, invoke + 1) \in Request
      BY <2>2, CountTypes, DatumTypes, RequestTypes
    <2>4. \A k \in 1 .. Len(toMeter') : toMeter'[k].kind # "COMMAND"
      BY <1>6, <2>1, <2>3, NoCommandSent DEF ScalerArrives, Req
    <2>5. QED
      BY <1>6, <2>1, <2>4, CommandsSend DEF ScalerArrives
  <1>7. CASE ValueArrives
    <2>1. op = "registers" /\ Shifted(line', line) /\ UNCHANGED <<op, calls, obeyed>>
      BY <1>0, <1>7 DEF ValueArrives, Placed, GetWaits
    <2>2. CASE idx < Len(Items)
      <3>1. AskItem(idx + 1, NextInvoke) /\ idx + 1 \in 1 .. Len(Items) /\ NextInvoke \in 1 .. LastInvoke
        BY <1>7, <2>2, CountTypes, NextInvokeTypes DEF ValueArrives
      <3>2. NextInvoke \in 0 .. 15
        BY <3>1, CountTypes
      <3>3. \A d \in Datum : Req("GET", d, ns, NextInvoke) \in Request
        BY <3>2, CountTypes, RequestTypes
      <3>4. \E d \in Datum : Send(Req("GET", d, ns, NextInvoke))
        BY <3>1, DatumTypes DEF AskItem
      <3>5. PICK r \in Request : Send(r) /\ r.kind # "COMMAND"
        BY <3>3, <3>4 DEF Req
      <3>6. \A k \in 1 .. Len(toMeter') : toMeter'[k].kind # "COMMAND"
        BY <2>1, <3>5, NoCommandSent
      <3>7. phase' \in GetWaits
        BY <3>1, AskTypes
      <3>8. QED
        BY <2>1, <3>6, <3>7, CommandsSend DEF GetWaits
    <2>3. CASE ~(idx < Len(Items))
      BY <1>7, <2>1, <2>3, CommandsSend DEF ValueArrives, Commands
    <2>4. QED
      BY <2>2, <2>3
  <1>8. CASE NextPart
    <2>1. PICK b \in Nat, i \in {invoke, Increased} : Ask(b, i)
      BY <1>8 DEF NextPart
    <2>2. op = "profile" /\ phase' = "block" /\ UNCHANGED <<op, calls, obeyed>> /\ Shifted(line', line)
      BY <1>0, <1>8, <2>1 DEF NextPart, Ask, Placed
    <2>3. Req("NEXT", <<b>>, ns, i) \in Request
      BY CountTypes, RequestTypes
    <2>4. \A k \in 1 .. Len(toMeter') : toMeter'[k].kind # "COMMAND"
      BY <2>1, <2>2, <2>3, NoCommandSent DEF Ask, Req
    <2>5. QED
      BY <2>2, <2>4, CommandsSend
  <1>9. CASE LastPart
    <2>1. op = "profile"
      BY <1>0, <1>9 DEF LastPart, Placed
    <2>2. QED
      BY <1>9, <2>1, CommandsSend DEF LastPart, Over, Ends, Commands
  <1>10. CASE Confirmed
    <2>1. line[1].kind = "OK" /\ 1 \in 1 .. Len(line)
      BY <1>10, TailFacts DEF Confirmed, Typed
    <2>2. obeyed >= 1
      BY <2>1 DEF Commands
    <2>3. QED
      BY <1>10, <2>2, CommandsSend DEF Confirmed, Over, Ends, Commands
  <1>11. CASE MeterStep
    <2>1. Taken
      BY <1>11, MeterKinds
    <2>2. /\ Len(toMeter) \in Nat \ {0} /\ Head(toMeter) = toMeter[1]
          /\ Len(toMeter') = Len(toMeter) - 1
          /\ \A k \in 1 .. Len(toMeter) - 1 : toMeter'[k] = toMeter[k + 1]
      BY <1>0, <2>1, TailFacts DEF Taken
    <2>3. /\ UNCHANGED <<op, calls, phase>> /\ phase # "done"
          /\ obeyed' \in {obeyed, obeyed + 1} /\ (obeyed' # obeyed => toMeter[1].kind = "COMMAND")
      BY <2>1, <2>2 DEF Taken, Ends
    <2>4. toMeter[1].kind = "COMMAND" => Len(toMeter) = 1 /\ obeyed < calls /\ phase \notin {"ua", "aare"}
      BY <2>2 DEF Commands, Handshake, Control
    <2>5. obeyed' <= calls /\ (phase \in {"ua", "aare"} => obeyed' < calls)
      BY <1>0, <2>3, <2>4 DEF Commands
    <2>6. ASSUME NEW k \in 1 .. Len(toMeter'), toMeter'[k].kind = "COMMAND"
          PROVE  k = Len(toMeter') /\ obeyed' < calls /\ op = "command"
      <3>1. k + 1 \in 1 .. Len(toMeter) /\ toMeter'[k] = toMeter[k + 1] /\ Len(toMeter) # 1
        BY <2>2
      <3>2. k + 1 = Len(toMeter) /\ obeyed < calls /\ op = "command"
        BY <2>6, <3>1 DEF Commands
      <3>3. QED
        BY <2>2, <2>3, <2>4, <3>1, <3>2
    <2>7. ASSUME NEW k \in 1 .. Len(line'), line'[k].kind = "OK" PROVE obeyed' >= 1
      <3>1. CASE k > Len(line)
        BY <1>0, <2>1, <2>7, <3>1 DEF Taken
      <3>2. CASE ~(k > Len(line))
        <4>1. k \in 1 .. Len(line) /\ line'[k] = line[k]
          BY <2>1, <3>2 DEF Taken, Typed
        <4>2. obeyed >= 1
          BY <2>7, <4>1 DEF Commands
        <4>3. QED
          BY <1>0, <2>3, <4>2
      <3>3. QED
        BY <3>1, <3>2
    <2>8. QED
      BY <2>3, <2>5, <2>6, <2>7 DEF Commands
  <1>12. QED
    BY <1>1, <1>2, <1>3, <1>4, <1>5, <1>6, <1>7, <1>8, <1>9, <1>10, <1>11, StepKinds

LEMMA HandshakeInit == Init => Handshake
  <1> SUFFICES ASSUME Init PROVE Handshake
    OBVIOUS
  <1>1. toMeter = <<Plain("SNRM")>> /\ line = <<>>
    BY DEF Init
  <1>2. Len(toMeter) = 1 /\ toMeter[1].kind = "SNRM"
    BY <1>1 DEF Plain, Req
  <1>3. QED
    BY <1>1, <1>2 DEF Handshake, Control

\* A command reported as carried out was carried out, on whichever connection, and never
\* more often than run_with_retries connected.
THEOREM CommandsTold == Spec => []CommandTruth
  <1>1. Init => Typed /\ Handshake /\ Commands
    <2> SUFFICES ASSUME Init PROVE Commands
      BY TypeInit, HandshakeInit
    <2>1. toMeter = <<Plain("SNRM")>> /\ line = <<>> /\ phase = "ua" /\ obeyed = 0 /\ calls = 1
      BY DEF Init
    <2>2. Len(toMeter) = 1 /\ toMeter[1].kind = "SNRM"
      BY <2>1 DEF Plain, Req
    <2>3. QED
      BY <2>1, <2>2 DEF Commands
  <1>2. Typed /\ Handshake /\ Commands /\ [Next]_vars => (Typed /\ Handshake /\ Commands)'
    BY TypeStep, HandshakeStep, CommandsStep
  <1>3. Commands => CommandTruth
    BY DEF Commands, CommandTruth
  <1>4. QED
    BY <1>1, <1>2, <1>3, PTL DEF Spec

-----------------------------------------------------------------------------
(* Load profiles *)

\* One question of the transfer is under way, or its answer, or neither; and once the ids
\* grow, the question has another id than the meter remembers.
OnePart ==
    phase = "block" =>
        /\ \A k \in 1 .. Len(toMeter) :
              /\ toMeter[k].kind \in Control \cup Blockwise
              /\ toMeter[k].kind \in Blockwise =>
                    /\ k = Len(toMeter) /\ toMeter[k].invoke = invoke
                    /\ \A j \in 1 .. Len(line) : line[j].kind \notin Parts
              /\ growing => toMeter[k].kind = "NEXT" /\ k = 1 /\ toMeter[k].invoke # lastId
        /\ \A k \in 1 .. Len(line) :
              line[k].kind \in Parts =>
                  /\ toMeter = <<>> /\ lastId = invoke
                  /\ \A j \in 1 .. Len(line) : line[j].kind \in Parts => j = k
                  /\ growing => line[k].kind # "REFUSED"

LEMMA OnePartStep ==
  ASSUME Typed, Handshake, OnePart, [Next]_vars
  PROVE  OnePart'
  <1> USE DEF setting, batch, transfer, counters, meter
  <1>0. toMeter \in Seq(Request) /\ line \in Seq(AnyFrame) /\ Placed /\ Len(toMeter) \in Nat /\ Len(line) \in Nat
    BY DEF Typed
  <1>1. CASE Quiet
    <2>1. UNCHANGED <<phase, invoke, toMeter, lastId, growing>>
      BY <1>1 DEF Quiet
    <2>2. PICK d \in Nat : \A k \in 1 .. Len(line') :
             line'[k].kind = "TORN" \/ (k + d \in 1 .. Len(line) /\ line'[k] = line[k + d])
      BY <1>1, ShiftedFacts, ZenonT(90) DEF Quiet, Typed
    <2>3. \A k \in 1 .. Len(line') : line'[k].kind \in Parts =>
              k + d \in 1 .. Len(line) /\ line'[k] = line[k + d]
      BY <2>2 DEF Parts
    <2>4. ASSUME phase = "block", NEW k \in 1 .. Len(line'), line'[k].kind \in Parts
          PROVE  /\ toMeter = <<>> /\ lastId = invoke
                 /\ \A j \in 1 .. Len(line') : line'[j].kind \in Parts => j = k
                 /\ growing => line'[k].kind # "REFUSED"
      <3>1. /\ toMeter = <<>> /\ lastId = invoke /\ (growing => line'[k].kind # "REFUSED")
            /\ \A j \in 1 .. Len(line) : line[j].kind \in Parts => j = k + d
        BY <2>3, <2>4 DEF OnePart
      <3>2. ASSUME NEW j \in 1 .. Len(line'), line'[j].kind \in Parts PROVE j = k
        <4>1. j + d = k + d
          BY <2>3, <3>1, <3>2
        <4>2. QED
          BY <4>1
      <3>3. QED
        BY <3>1, <3>2
    <2>5. ASSUME phase = "block", NEW k \in 1 .. Len(toMeter)
          PROVE  /\ toMeter[k].kind \in Control \cup Blockwise
                 /\ toMeter[k].kind \in Blockwise =>
                      /\ k = Len(toMeter) /\ toMeter[k].invoke = invoke
                      /\ \A j \in 1 .. Len(line') : line'[j].kind \notin Parts
                 /\ growing => toMeter[k].kind = "NEXT" /\ k = 1 /\ toMeter[k].invoke # lastId
      BY <2>3, <2>5 DEF OnePart
    <2>6. QED
      BY <2>1, <2>4, <2>5 DEF OnePart
  <1>2. CASE Exception
    BY <1>2 DEF Exception, Failed, Repeat, Over, Ends, OnePart
  <1>3. CASE SnrmAgain \/ UaArrives \/ AarqAgain
    BY <1>3 DEF SnrmAgain, UaArrives, AarqAgain, OnePart
  <1>4. CASE Accepted /\ phase' = "block"
    <2>1. /\ phase = "aare" /\ op = "profile" /\ line # <<>> /\ line' = Tail(line)
          /\ UNCHANGED <<growing, invoke, lastId>> /\ ~growing /\ invoke = 1
          /\ Send(Req("RANGE", <<>>, ns, 1))
      BY <1>0, <1>4 DEF Accepted, AskItem, Placed
    <2>2. /\ \A k \in 1 .. Len(toMeter) : toMeter[k].kind \in Control
          /\ \A k \in 1 .. Len(line) : line[k].kind \notin Parts
      BY <2>1 DEF Handshake, Supervisory, Shakes, Parts
    <2>3. \A k \in 1 .. Len(line') : line'[k].kind \notin Parts
      <3>1. \A k \in 1 .. Len(line') : k + 1 \in 1 .. Len(line) /\ line'[k] = line[k + 1]
        BY <1>0, <2>1, TailFacts
      <3>2. QED
        BY <2>2, <3>1
    <2> DEFINE r == Req("RANGE", <<>>, ns, 1)
    <2>4. r \in Request /\ r.kind = "RANGE" /\ r.invoke = 1 /\ toMeter' = Append(toMeter, r)
      BY <2>1, CountTypes, RequestTypes DEF Req, Send
    <2> HIDE DEF r
    <2>5. /\ Len(toMeter') = Len(toMeter) + 1 /\ toMeter'[Len(toMeter')] = r
          /\ \A k \in 1 .. Len(toMeter) : toMeter'[k] = toMeter[k]
      BY <1>0, <2>4, SentFacts
    <2>6. \A k \in 1 .. Len(toMeter') : k \in 1 .. Len(toMeter) \/ k = Len(toMeter')
      BY <1>0, <2>5
    <2>7. \A k \in 1 .. Len(toMeter') :
             /\ toMeter'[k].kind \in Control \cup Blockwise
             /\ toMeter'[k].kind \in Blockwise => k = Len(toMeter') /\ toMeter'[k].invoke = 1
      BY <2>2, <2>4, <2>5, <2>6 DEF Control, Blockwise
    <2>8. QED
      BY <2>1, <2>3, <2>7 DEF OnePart
  <1>5. CASE Accepted /\ phase' # "block"
    BY <1>5 DEF OnePart
  <1>6. CASE ScalerArrives
    BY <1>6 DEF ScalerArrives, OnePart
  <1>7. CASE ValueArrives
    BY <1>7 DEF ValueArrives, AskItem, OnePart
  <1>8. CASE NextPart
    <2>1. PICK b \in Nat, i \in {invoke, Increased} : Ask(b, i)
      BY <1>8 DEF NextPart
    <2>2. /\ phase = "block" /\ line # <<>> /\ Head(line).kind \in Parts /\ line' = Tail(line)
          /\ Send(Req("NEXT", <<b>>, ns, i)) /\ invoke' = i /\ lastId' = lastId
          /\ growing' => i = Increased
      BY <1>8, <2>1 DEF NextPart, Ask
    <2>3. /\ Head(line) = line[1] /\ 1 \in 1 .. Len(line)
          /\ \A k \in 1 .. Len(line') : k + 1 \in 1 .. Len(line) /\ line'[k] = line[k + 1] /\ k + 1 # 1
      BY <1>0, <2>2, TailFacts
    <2>4. /\ toMeter = <<>> /\ lastId = invoke
          /\ \A j \in 1 .. Len(line) : line[j].kind \in Parts => j = 1
      BY <2>2, <2>3 DEF OnePart
    <2>5. \A k \in 1 .. Len(line') : line'[k].kind \notin Parts
      BY <2>3, <2>4
    <2>6. Increased # lastId
      BY <2>4, CountTypes
    <2> DEFINE r == Req("NEXT", <<b>>, ns, i)
    <2>7. r.kind = "NEXT" /\ r.invoke = i /\ toMeter' = Append(<<>>, r)
      BY <2>2, <2>4 DEF Req, Send
    <2> HIDE DEF r
    <2>8. Len(toMeter') = 1 /\ toMeter'[1] = r
      BY <2>7
    <2>9. QED
      BY <2>2, <2>5, <2>6, <2>7, <2>8 DEF OnePart, Blockwise
  <1>9. CASE LastPart \/ Confirmed
    BY <1>9 DEF LastPart, Confirmed, Over, Ends, OnePart
  <1>10. CASE MeterStep /\ phase = "block"
    <2>1. Taken
      BY <1>10, MeterKinds
    <2> DEFINE q == toMeter[1]
    <2>2. /\ Len(toMeter) \in Nat \ {0} /\ Head(toMeter) = q /\ q \in Request /\ toMeter # <<>>
          /\ Len(toMeter') = Len(toMeter) - 1 /\ (Len(toMeter) = 1 => toMeter' = <<>>)
          /\ \A k \in 1 .. Len(toMeter') : k + 1 \in 1 .. Len(toMeter) /\ toMeter'[k] = toMeter[k + 1]
      BY <1>0, <2>1, TailFacts DEF Taken
    <2>3. /\ q.kind \in Control \cup Blockwise
          /\ q.kind \in Blockwise => Len(toMeter) = 1 /\ q.invoke = invoke
          /\ growing => q.kind = "NEXT" /\ q.invoke # lastId
          /\ \A k \in 1 .. Len(line) : line[k].kind \notin Parts
      <3>1. 1 \in 1 .. Len(toMeter)
        BY <2>2
      <3>2. QED
        BY <1>10, <2>2, <3>1 DEF OnePart
    <2> HIDE DEF q
    <2>4. /\ Len(line') \in Nat
          /\ \A k \in 1 .. Len(line) : line'[k] = line[k]
          /\ \A k \in 1 .. Len(line') : k > Len(line) =>
               line'[k].kind = "RR" \/ (k = Len(line') /\ line'[k] \in Answers(q))
      BY <2>1, <2>2 DEF Taken
    <2>5. \A k \in 1 .. Len(line') : line'[k].kind \in Parts => k = Len(line') /\ line'[k] \in Answers(q)
      <3>1. \A k \in 1 .. Len(line') : k > Len(line) \/ k \in 1 .. Len(line)
        BY <1>0, <2>4
      <3>2. QED
        BY <2>3, <2>4, <3>1 DEF Parts
    <2>6. UNCHANGED <<phase, invoke, growing>> /\ (q.kind \in Blockwise => lastId' = q.invoke)
      BY <2>1, <2>2 DEF Taken, IsGet, Blockwise
    <2>7. CASE q.kind \in Control
      <3>1. \A k \in 1 .. Len(line') : line'[k].kind \notin Parts
        BY <2>2, <2>5, <2>7, AnswerKinds DEF Supervisory, Shakes, Parts
      <3>2. ~growing
        BY <2>3, <2>7 DEF Control
      <3>3. \A k \in 1 .. Len(toMeter') :
              /\ toMeter'[k].kind \in Control \cup Blockwise
              /\ toMeter'[k].kind \in Blockwise => k = Len(toMeter') /\ toMeter'[k].invoke = invoke
        BY <1>10, <2>2 DEF OnePart
      <3>4. QED
        BY <2>6, <3>1, <3>2, <3>3 DEF OnePart
    <2>8. CASE q.kind \in Blockwise
      <3>1. toMeter' = <<>> /\ lastId' = invoke
        BY <2>2, <2>3, <2>6, <2>8
      <3>2. \A k \in 1 .. Len(line') : line'[k].kind \in Parts /\ growing => line'[k].kind # "REFUSED"
        BY <2>2, <2>3, <2>5, AnswerKinds
      <3>3. QED
        BY <2>5, <2>6, <3>1, <3>2 DEF OnePart
    <2>9. QED
      BY <2>3, <2>7, <2>8
  <1>11. CASE MeterStep /\ phase # "block"
    BY <1>11, MeterKinds DEF Taken, OnePart
  <1>12. QED
    BY <1>1, <1>2, <1>3, <1>4, <1>5, <1>6, <1>7, <1>8, <1>9, <1>10, <1>11, StepKinds

\* No step gives up a load profile because of a refusal.
LEMMA CauseStep ==
  ASSUME Typed, OnePart, RefusalOvercome, [Next]_vars
  PROVE  RefusalOvercome'
  <1> USE DEF setting, batch, transfer, counters, meter, RefusalOvercome
  <1>1. CASE Exception
    <2>1. PICK why : /\ Failed(why)
                     /\ why = "refused" => /\ phase = "block" /\ growing
                                           /\ line # <<>> /\ Head(line).kind = "REFUSED"
      BY <1>1 DEF Exception
    <2>2. why # "refused"
      <3> SUFFICES ASSUME why = "refused" PROVE FALSE
        OBVIOUS
      <3>1. line[1].kind = "REFUSED" /\ 1 \in 1 .. Len(line)
        BY <2>1, TailFacts DEF Typed
      <3>2. QED
        BY <2>1, <3>1 DEF OnePart, Parts
    <2>3. QED
      BY <2>1, <2>2 DEF Failed, Repeat
  <1>2. CASE MeterStep
    BY <1>2, MeterKinds DEF Taken
  <1>3. CASE Quiet \/ SnrmAgain \/ AarqAgain
    BY <1>3 DEF Quiet, SnrmAgain, AarqAgain
  <1>4. CASE UaArrives \/ Accepted \/ ScalerArrives
    BY <1>4 DEF UaArrives, Accepted, ScalerArrives
  <1>5. CASE ValueArrives
    BY <1>5 DEF ValueArrives
  <1>6. CASE NextPart
    BY <1>6 DEF NextPart, Ask
  <1>7. CASE LastPart \/ Confirmed
    BY <1>7 DEF LastPart, Confirmed
  <1>8. QED
    BY <1>1, <1>2, <1>3, <1>4, <1>5, <1>6, <1>7, StepKinds

\* A meter that asks for fresh invoke-ids does not refuse one.
THEOREM RefusalsEnd == Spec => []RefusalOvercome
  <1>1. Init => Typed /\ Handshake /\ OnePart /\ RefusalOvercome
    BY TypeInit, HandshakeInit DEF Init, OnePart, RefusalOvercome
  <1>2. Typed /\ Handshake /\ OnePart /\ RefusalOvercome /\ [Next]_vars
            => (Typed /\ Handshake /\ OnePart /\ RefusalOvercome)'
    BY TypeStep, HandshakeStep, OnePartStep, CauseStep
  <1>3. QED
    BY <1>1, <1>2, PTL DEF Spec

-----------------------------------------------------------------------------
(* Batches *)

Awaited == IF phase = "scaler" THEN ScalerOf(Items[idx]) ELSE ValueOf(Items[idx])

\* One GET is under way, or its answer, or neither, and it is about the datum awaited.
Single ==
    /\ \A k \in 1 .. Len(toMeter) :
          /\ toMeter[k].kind \in Control \cup {"GET"}
          /\ toMeter[k].kind = "GET" =>
                /\ k = Len(toMeter) /\ toMeter[k].about = Awaited
                /\ \A j \in 1 .. Len(line) : line[j].kind \notin Reads
    /\ \A k \in 1 .. Len(line) :
          /\ line[k].kind \in Supervisory \cup {"TORN"} \cup Reads
          /\ line[k].kind \in Reads =>
                /\ line[k].about = Awaited
                /\ \A j \in 1 .. Len(line) : line[j].kind \in Reads => j = k
    /\ phase = "value" => scaler \in {NoDatum, ScalerOf(Items[idx])}

\* So it is unless the meter has accepted twice.
OneAnswer ==
    /\ aares <= 1 => TrueReadings
    /\ phase \in GetWaits => aares >= 1 /\ (aares = 1 => Single)

\* The answer that is awaited has come, and no other is under way.
LEMMA HeadAwaited ==
  ASSUME Typed, Single, line # <<>>, IsAnswer(Head(line)), line' = Tail(line)
  PROVE  /\ Head(line) \in AnyFrame /\ Head(line).kind \in Reads /\ Head(line).about = Awaited
         /\ \A k \in 1 .. Len(toMeter) : toMeter[k].kind \in Control
         /\ \A k \in 1 .. Len(line') : line'[k].kind \in Supervisory \cup {"TORN"}
  <1>1. /\ Head(line) = line[1] /\ 1 \in 1 .. Len(line) /\ line[1] \in AnyFrame
        /\ \A k \in 1 .. Len(line') : k + 1 \in 1 .. Len(line) /\ line'[k] = line[k + 1] /\ k + 1 # 1
    BY TailFacts DEF Typed
  <1>2. line[1].kind # "TORN"
    <2>1. line[1].kind = "TORN" => line[1] = Torn
      BY <1>1 DEF AnyFrame, Torn, Frame
    <2>2. QED
      BY <1>1, <2>1 DEF IsAnswer
  <1>3. line[1].kind \in Reads /\ line[1].about = Awaited
    BY <1>1, <1>2 DEF Single, IsAnswer
  <1>4. QED
    BY <1>1, <1>3 DEF Single

\* A GET is sent when nothing but handshakes is under way.
LEMMA SingleAsked ==
  ASSUME Typed, NEW r \in Request, Send(r), r.kind = "GET", r.about = Awaited',
         \A k \in 1 .. Len(toMeter) : toMeter[k].kind \in Control,
         \A k \in 1 .. Len(line') : line'[k].kind \in Supervisory \cup {"TORN"},
         phase' = "value" => scaler' \in {NoDatum, ScalerOf(Items[idx'])}
  PROVE  Single'
  <1>1. /\ Len(toMeter) \in Nat /\ Len(toMeter') = Len(toMeter) + 1 /\ toMeter'[Len(toMeter')] = r
        /\ \A k \in 1 .. Len(toMeter) : toMeter'[k] = toMeter[k]
    BY SentFacts DEF Typed, Send
  <1>2. \A k \in 1 .. Len(toMeter') : k \in 1 .. Len(toMeter) \/ k = Len(toMeter')
    BY <1>1
  <1>3. \A k \in 1 .. Len(line') : line'[k].kind \notin Reads
    BY DEF Supervisory, Reads
  <1>4. \A k \in 1 .. Len(toMeter') :
            /\ toMeter'[k].kind \in Control \cup {"GET"}
            /\ toMeter'[k].kind = "GET" => k = Len(toMeter') /\ toMeter'[k].about = Awaited'
    BY <1>1, <1>2 DEF Control
  <1>5. QED
    BY <1>3, <1>4 DEF Single

LEMMA SingleItem ==
  ASSUME Typed, NEW k \in 1 .. Len(Items), NEW i \in 1 .. LastInvoke, AskItem(k, i),
         \A n \in 1 .. Len(toMeter) : toMeter[n].kind \in Control,
         \A n \in 1 .. Len(line') : line'[n].kind \in Supervisory \cup {"TORN"}
  PROVE  Single'
  <1> DEFINE d == IF Items[k] \in Registers THEN ScalerOf(Items[k]) ELSE ValueOf(Items[k])
  <1>1. /\ Send(Req("GET", d, ns, i)) /\ phase' \in GetWaits /\ idx' = k /\ scaler' = NoDatum
        /\ phase' = "scaler" <=> Items[k] \in Registers
    BY AskTypes
  <1>2. d = Awaited'
    BY <1>1 DEF Awaited
  <1>3. d \in Datum /\ i \in 0 .. 15
    <2>1. LastInvoke \in 2 .. 14
      BY CountTypes
    <2>2. ScalerOf(Items[k]) \in Datum /\ ValueOf(Items[k]) \in Datum
      BY DatumTypes
    <2>3. QED
      BY <2>1, <2>2
  <1> HIDE DEF d
  <1>4. Req("GET", d, ns, i) \in Request
    BY <1>3, CountTypes, RequestTypes
  <1>5. QED
    BY <1>1, <1>2, <1>4, SingleAsked DEF Req

\* The answer to the GET of the value gives a true reading.
LEMMA OutcomeTrue ==
  ASSUME Typed, NEW f, f.about = ValueOf(Items[idx]), scaler \in {NoDatum, ScalerOf(Items[idx])}
  PROVE  IsTrue(Outcome(Items[idx], f))
  <1> DEFINE o == Items[idx]
  <1>1. o \in Registers => IsNumber(ValueOf(o))
    BY SessionAssumption DEF IsNumber, ValueOf, NoDatum
  <1>2. IsScaler(scaler) => scaler = ScalerOf(o)
    BY DEF IsScaler
  <1> HIDE DEF o
  <1>3. CASE Outcome(o, f) = Refused(o)
    BY <1>3 DEF Refused, IsTrue, o
  <1>4. CASE /\ Outcome(o, f) = Read(o, f)
             /\ o \in Registers => ~(IsNumber(f.about) /\ ~IsScaler(scaler))
    <2>1. /\ Outcome(o, f).value = f.about /\ Outcome(o, f).obis = o
          /\ Outcome(o, f).scaler = IF IsNumber(f.about) /\ o \in Registers THEN scaler ELSE NoDatum
      BY <1>4 DEF Read
    <2>2. QED
      BY <1>1, <1>2, <1>4, <2>1 DEF IsTrue, o
  <1>5. QED
    <2>1. f.kind \notin {"DATA", "NULL"} \/ f.kind = "NULL" \/ f.kind = "DATA"
      OBVIOUS
    <2>2. QED
      BY <1>3, <1>4, <2>1 DEF Outcome

LEMMA OneAnswerStep ==
  ASSUME Typed, Handshake, OneAnswer, [Next]_vars
  PROVE  OneAnswer'
  <1> USE DEF setting, batch, transfer, counters, meter
  <1>0. /\ toMeter \in Seq(Request) /\ line \in Seq(AnyFrame) /\ Placed /\ aares \in Nat
        /\ Len(toMeter) \in Nat /\ Len(line) \in Nat
        /\ results \in Seq([obis : Obis, ok : BOOLEAN, value : Datum, scaler : Datum])
    BY DEF Typed, SessionTypeOK
  <1>a. ASSUME phase' \notin GetWaits, results' = results, aares' = aares
        PROVE  OneAnswer'
    BY <1>a DEF OneAnswer, TrueReadings, IsTrue
  <1>1. CASE Quiet
    <2>1. UNCHANGED <<phase, idx, scaler, results, toMeter, aares>>
      BY <1>1 DEF Quiet
    <2>2. PICK d \in Nat : \A k \in 1 .. Len(line') :
             line'[k].kind = "TORN" \/ (k + d \in 1 .. Len(line) /\ line'[k] = line[k + d])
      BY <1>1, ShiftedFacts, ZenonT(90) DEF Quiet, Typed
    <2>3. ASSUME Single PROVE Single'
      <3>1. Awaited' = Awaited
        BY <2>1 DEF Awaited
      <3>2. \A k \in 1 .. Len(line') : line'[k].kind \in Reads =>
                k + d \in 1 .. Len(line) /\ line'[k] = line[k + d]
        BY <2>2 DEF Reads
      <3>3. \A k \in 1 .. Len(line') : line'[k].kind \in Supervisory \cup {"TORN"} \cup Reads
        BY <2>2, <2>3 DEF Single
      <3>4. ASSUME NEW k \in 1 .. Len(line'), line'[k].kind \in Reads
            PROVE  /\ line'[k].about = Awaited
                   /\ \A j \in 1 .. Len(line') : line'[j].kind \in Reads => j = k
        <4>1. line'[k].about = Awaited /\ \A j \in 1 .. Len(line) : line[j].kind \in Reads => j = k + d
          BY <2>3, <3>2, <3>4 DEF Single
        <4>2. ASSUME NEW j \in 1 .. Len(line'), line'[j].kind \in Reads PROVE j = k
          <5>1. j + d = k + d
            BY <3>2, <4>1, <4>2
          <5>2. QED
            BY <5>1
        <4>3. QED
          BY <4>1, <4>2
      <3>5. \A k \in 1 .. Len(toMeter) :
              /\ toMeter[k].kind \in Control \cup {"GET"}
              /\ toMeter[k].kind = "GET" =>
                    /\ k = Len(toMeter) /\ toMeter[k].about = Awaited
                    /\ \A j \in 1 .. Len(line') : line'[j].kind \notin Reads
        BY <2>3, <3>2 DEF Single
      <3>6. phase' = "value" => scaler' \in {NoDatum, ScalerOf(Items[idx'])}
        BY <2>1, <2>3 DEF Single
      <3>7. QED
        BY <2>1, <3>1, <3>3, <3>4, <3>5, <3>6 DEF Single
    <2>4. QED
      BY <2>1, <2>3 DEF OneAnswer, TrueReadings, IsTrue
  <1>2. CASE Exception
    <2>1. CASE Repeat /\ op = "command" /\ results' = results
      <3>1. results' = <<>> /\ phase' = "ua"
        BY <1>0, <2>1 DEF Repeat, Placed
      <3>2. QED
        BY <3>1 DEF OneAnswer, TrueReadings, GetWaits
    <2>2. CASE Over /\ results' = results
      BY <1>a, <2>2, PhaseKinds DEF Over, Ends, GetWaits
    <2>3. QED
      BY <1>2, <2>1, <2>2 DEF Exception, Failed
  <1>3. CASE SnrmAgain \/ UaArrives \/ AarqAgain
    BY <1>a, <1>3 DEF SnrmAgain, UaArrives, AarqAgain, GetWaits
  <1>4. CASE Accepted /\ op = "registers"
    <2>1. /\ phase = "aare" /\ line # <<>> /\ Head(line).kind = "AARE" /\ line' = Tail(line)
          /\ aares' = aares /\ results' = results /\ AskItem(1, 1) /\ 1 \in 1 .. LastInvoke
      BY <1>4, CountTypes DEF Accepted
    <2>2. /\ Head(line) = line[1] /\ 1 \in 1 .. Len(line)
          /\ \A k \in 1 .. Len(line') : k + 1 \in 1 .. Len(line) /\ line'[k] = line[k + 1] /\ k + 1 # 1
      BY <1>0, <2>1, TailFacts
    <2>3. /\ aares >= 1
          /\ \A j \in 1 .. Len(line) : line[j].kind \in Shakes /\ j # 1 => aares >= 2
          /\ \A k \in 1 .. Len(line) : line[k].kind \in Supervisory \cup {"TORN"} \cup Shakes
          /\ \A k \in 1 .. Len(toMeter) : toMeter[k].kind \in Control
      BY <2>1, <2>2 DEF Handshake, Shakes
    <2>4. ASSUME aares = 1 PROVE Single'
      <3>1. \A k \in 1 .. Len(line') : line'[k].kind \in Supervisory \cup {"TORN"}
        BY <2>2, <2>3, <2>4
      <3>2. QED
        BY <2>1, <2>3, <3>1, CountTypes, SingleItem
    <2>5. QED
      BY <2>1, <2>3, <2>4 DEF OneAnswer, TrueReadings, IsTrue
  <1>5. CASE Accepted /\ op # "registers"
    BY <1>a, <1>5 DEF Accepted, GetWaits
  <1>6. CASE ScalerArrives
    <2> DEFINE r == Req("GET", ValueOf(Items[idx]), ns, invoke + 1)
    <2>1. /\ phase = "scaler" /\ phase' = "value" /\ line # <<>> /\ IsAnswer(Head(line))
          /\ line' = Tail(line) /\ UNCHANGED <<aares, idx, results>> /\ Send(r)
          /\ scaler' = IF Head(line).kind = "DATA" THEN Head(line).about ELSE NoDatum
      BY <1>6 DEF ScalerArrives
    <2>2. r \in Request
      <3>1. invoke \in 1 .. LastInvoke
        BY <1>0, <2>1 DEF Placed, GetWaits
      <3>2. invoke + 1 \in 0 .. 15
        BY <3>1, CountTypes
      <3>3. QED
        BY <3>2, CountTypes, DatumTypes, RequestTypes
    <2>3. r.kind = "GET" /\ r.about = Awaited'
      BY <2>1 DEF Req, Awaited
    <2> HIDE DEF r
    <2>4. ASSUME aares = 1 PROVE Single'
      <3>1. Single
        BY <2>1, <2>4 DEF OneAnswer, GetWaits
      <3>2. /\ Head(line).about = ScalerOf(Items[idx])
            /\ \A k \in 1 .. Len(toMeter) : toMeter[k].kind \in Control
            /\ \A k \in 1 .. Len(line') : line'[k].kind \in Supervisory \cup {"TORN"}
        BY <2>1, <3>1, HeadAwaited DEF Awaited
      <3>3. QED
        BY <2>1, <2>2, <2>3, <3>2, SingleAsked
    <2>5. QED
      BY <2>1, <2>4 DEF OneAnswer, GetWaits, TrueReadings, IsTrue
  <1>7. CASE ValueArrives
    <2>1. /\ phase = "value" /\ line # <<>> /\ IsAnswer(Head(line)) /\ line' = Tail(line)
          /\ results' = Append(results, Outcome(Items[idx], Head(line))) /\ aares' = aares
      BY <1>7 DEF ValueArrives
    <2>2. ASSUME aares = 1
          PROVE  /\ \A k \in 1 .. Len(toMeter) : toMeter[k].kind \in Control
                 /\ \A k \in 1 .. Len(line') : line'[k].kind \in Supervisory \cup {"TORN"}
                 /\ IsTrue(Outcome(Items[idx], Head(line)))
      <3>1. Single
        BY <2>1, <2>2 DEF OneAnswer, GetWaits
      <3>2. /\ Head(line).about = ValueOf(Items[idx])
            /\ \A k \in 1 .. Len(toMeter) : toMeter[k].kind \in Control
            /\ \A k \in 1 .. Len(line') : line'[k].kind \in Supervisory \cup {"TORN"}
        BY <2>1, <3>1, HeadAwaited DEF Awaited
      <3>3. scaler \in {NoDatum, ScalerOf(Items[idx])}
        BY <2>1, <3>1 DEF Single
      <3>4. QED
        BY <3>2, <3>3, OutcomeTrue
    <2>3. aares >= 1
      BY <2>1 DEF OneAnswer, GetWaits
    <2>4. ASSUME aares <= 1 PROVE TrueReadings'
      <3> DEFINE u == Outcome(Items[idx], Head(line))
      <3>1. aares = 1 /\ TrueReadings
        BY <1>0, <2>3, <2>4 DEF OneAnswer
      <3>2. IsTrue(u) /\ u \in [obis : Obis, ok : BOOLEAN, value : Datum, scaler : Datum]
        BY <1>0, <2>1, <2>2, <3>1, OutcomeTypes, TailFacts
      <3> HIDE DEF u
      <3>3. results' = Append(results, u)
        BY <2>1 DEF u
      <3>4. /\ Len(results') = Len(results) + 1 /\ results'[Len(results')] = u /\ Len(results) \in Nat
            /\ \A k \in 1 .. Len(results) : results'[k] = results[k]
        BY <1>0, <3>2, <3>3, SentFacts
      <3>5. \A k \in 1 .. Len(results') : k \in 1 .. Len(results) \/ k = Len(results')
        BY <3>4
      <3>6. \A k \in 1 .. Len(results') : IsTrue(results'[k])
        BY <3>1, <3>2, <3>4, <3>5 DEF TrueReadings
      <3>7. QED
        BY <3>6 DEF TrueReadings, IsTrue
    <2>5. CASE idx < Len(Items)
      <3>1. AskItem(idx + 1, NextInvoke) /\ idx + 1 \in 1 .. Len(Items) /\ NextInvoke \in 1 .. LastInvoke
        BY <1>7, <2>1, <2>5, CountTypes, NextInvokeTypes DEF ValueArrives
      <3>2. aares = 1 => Single'
        BY <2>2, <3>1, SingleItem
      <3>3. QED
        BY <2>1, <2>3, <2>4, <3>2 DEF OneAnswer
    <2>6. CASE ~(idx < Len(Items))
      BY <1>7, <2>1, <2>4, <2>6 DEF ValueArrives, OneAnswer, GetWaits
    <2>7. QED
      BY <2>5, <2>6
  <1>8. CASE NextPart
    BY <1>a, <1>8 DEF NextPart, Ask, GetWaits
  <1>9. CASE LastPart \/ Confirmed
    BY <1>a, <1>9, PhaseKinds DEF LastPart, Confirmed, Over, Ends, GetWaits
  <1>10. CASE MeterStep
    <2> DEFINE q == toMeter[1]
    <2>1. Taken
      BY <1>10, MeterKinds
    <2>2. /\ Len(toMeter) \in Nat \ {0} /\ Head(toMeter) = q /\ q \in Request /\ 1 \in 1 .. Len(toMeter)
          /\ Len(toMeter') = Len(toMeter) - 1 /\ (Len(toMeter) = 1 => toMeter' = <<>>)
          /\ \A k \in 1 .. Len(toMeter') : k + 1 \in 1 .. Len(toMeter) /\ toMeter'[k] = toMeter[k + 1]
      BY <1>0, <2>1, TailFacts DEF Taken
    <2>3. /\ UNCHANGED <<phase, idx, scaler, results>> /\ aares' \in {aares, aares + 1}
          /\ Len(line') \in Nat
          /\ \A k \in 1 .. Len(line) : line'[k] = line[k]
          /\ \A k \in 1 .. Len(line') : k > Len(line) =>
               \/ line'[k].kind = "RR"
               \/ /\ k = Len(line') /\ line'[k] \in Answers(q)
                  /\ line'[k].kind \in Shakes => aares' = aares + 1
      BY <2>1, <2>2 DEF Taken
    <2>4. Awaited' = Awaited
      BY <2>3 DEF Awaited
    <2>5. ASSUME Single, aares = 1, aares' = 1 PROVE Single'
      <3>1. /\ q.kind \in Control \cup {"GET"}
            /\ q.kind = "GET" =>
                  /\ Len(toMeter) = 1 /\ q.about = Awaited
                  /\ \A j \in 1 .. Len(line) : line[j].kind \notin Reads
        BY <2>2, <2>5 DEF Single
      <3> HIDE DEF q
      <3>2. \A k \in 1 .. Len(line') : k > Len(line) =>
               \/ line'[k].kind \in Supervisory
               \/ /\ q.kind = "GET" /\ k = Len(line')
                  /\ line'[k].kind \in Reads /\ line'[k].about = q.about
        <4>1. ASSUME NEW f \in Answers(q)
              PROVE  \/ q.kind = "GET" /\ f.kind \in Reads /\ f.about = q.about
                     \/ f.kind \in Supervisory \cup Shakes
          BY <2>2, <3>1, AnswerKinds
        <4>2. \A k \in 1 .. Len(line') : k > Len(line) =>
                 line'[k].kind = "RR" \/ (k = Len(line') /\ line'[k] \in Answers(q) /\ line'[k].kind \notin Shakes)
          BY <2>3, <2>5
        <4>3. QED
          BY <4>1, <4>2 DEF Supervisory
      <3>3. \A k \in 1 .. Len(line') : k > Len(line) \/ k \in 1 .. Len(line)
        BY <1>0, <2>3
      <3>4. \A k \in 1 .. Len(line') : line'[k].kind \in Supervisory \cup {"TORN"} \cup Reads
        BY <2>3, <2>5, <3>2, <3>3 DEF Single
      <3>5. phase' = "value" => scaler' \in {NoDatum, ScalerOf(Items[idx'])}
        BY <2>3, <2>5 DEF Single
      <3>6. CASE q.kind = "GET"
        <4>1. toMeter' = <<>>
          BY <2>2, <3>1, <3>6
        <4>2. \A k \in 1 .. Len(line') : line'[k].kind \in Reads =>
                 k = Len(line') /\ line'[k].about = Awaited
          BY <2>3, <3>1, <3>2, <3>3, <3>6 DEF Supervisory, Reads
        <4>3. QED
          BY <2>4, <3>4, <3>5, <4>1, <4>2 DEF Single
      <3>7. CASE q.kind # "GET"
        <4>1. \A k \in 1 .. Len(line') : line'[k].kind \in Reads => k \in 1 .. Len(line) /\ line'[k] = line[k]
          BY <2>3, <3>2, <3>3, <3>7 DEF Supervisory, Reads
        <4>2. \A k \in 1 .. Len(line') : line'[k].kind \in Reads =>
                 /\ line'[k].about = Awaited
                 /\ \A j \in 1 .. Len(line') : line'[j].kind \in Reads => j = k
          BY <2>5, <4>1 DEF Single
        <4>3. ASSUME NEW k \in 1 .. Len(toMeter')
              PROVE  /\ toMeter'[k].kind \in Control \cup {"GET"}
                     /\ toMeter'[k].kind = "GET" =>
                           /\ k = Len(toMeter') /\ toMeter'[k].about = Awaited
                           /\ \A j \in 1 .. Len(line') : line'[j].kind \notin Reads
          <5>1. k + 1 \in 1 .. Len(toMeter) /\ toMeter'[k] = toMeter[k + 1]
            BY <2>2
          <5>2. toMeter[k + 1].kind = "GET" =>
                   /\ k + 1 = Len(toMeter) /\ toMeter[k + 1].about = Awaited
                   /\ \A j \in 1 .. Len(line) : line[j].kind \notin Reads
            BY <2>5, <5>1 DEF Single
          <5>3. toMeter[k + 1].kind \in Control \cup {"GET"}
            BY <2>5, <5>1 DEF Single
          <5>4. k + 1 = Len(toMeter) => k = Len(toMeter')
            BY <2>2
          <5>5. QED
            BY <4>1, <5>1, <5>2, <5>3, <5>4
        <4>4. QED
          BY <2>4, <3>4, <3>5, <4>2, <4>3 DEF Single
      <3>8. QED
        BY <3>6, <3>7
    <2>6. aares' <= 1 => aares <= 1
      BY <1>0, <2>3
    <2>7. phase \in GetWaits => aares' >= 1 /\ (aares' = 1 => aares = 1)
      BY <1>0, <2>3 DEF OneAnswer
    <2>8. QED
      BY <2>3, <2>5, <2>6, <2>7 DEF OneAnswer, TrueReadings, IsTrue
  <1>11. QED
    BY <1>1, <1>2, <1>3, <1>4, <1>5, <1>6, <1>7, <1>8, <1>9, <1>10, StepKinds

\* Answers are told apart by their order alone, and it slips only with a second AARE:
\* until then a reading reported as a success is the value of its register, under its scaler.
THEOREM ReadingsTrue == Spec => []FalseOnlyAfterSecondAare
  <1>1. Init => Typed /\ Handshake /\ OneAnswer
    <2>1. Init => OneAnswer
      BY DEF Init, OneAnswer, TrueReadings, GetWaits
    <2>2. QED
      BY <2>1, TypeInit, HandshakeInit
  <1>2. Typed /\ Handshake /\ OneAnswer /\ [Next]_vars => (Typed /\ Handshake /\ OneAnswer)'
    BY TypeStep, HandshakeStep, OneAnswerStep
  <1>3. OneAnswer => FalseOnlyAfterSecondAare
    BY DEF OneAnswer, FalseOnlyAfterSecondAare
  <1>4. QED
    BY <1>1, <1>2, <1>3, PTL DEF Spec

-----------------------------------------------------------------------------
(* Sequences of bytes *)

\* Induction over the natural numbers, for a set of them.
LEMMA NatSet ==
  ASSUME NEW S, 0 \in S, \A n \in Nat : n \in S => n + 1 \in S
  PROVE  \A n \in Nat : n \in S
  <1> SUFFICES ASSUME NEW x \in Nat, x \notin S PROVE FALSE
    OBVIOUS
  <1> DEFINE T == {n \in Nat : n \notin S}
             R == OpToRel(<, Nat)
  <1>1. T # {} /\ T \subseteq Nat
    OBVIOUS
  <1>2. \A a, b \in Nat : a < b => <<a, b>> \in R
    BY DEF OpToRel
  <1>3. IsWellFoundedOn(R, Nat)
    BY NatLessThanWellFounded
  <1> HIDE DEF R
  <1>4. PICK n \in T : \A m \in T : ~ (<<m, n>> \in R)
    <2> HIDE DEF T
    <2>1. QED
      BY <1>1, <1>3, WFMin
  <1>5. n \in Nat /\ n # 0
    BY <1>4
  <1>6. n - 1 \in T /\ <<n - 1, n>> \in R
    <2>1. n - 1 \in Nat /\ n - 1 < n /\ n \notin S
      BY <1>4, <1>5
    <2>2. n - 1 \notin S
      <3>1. n - 1 \in S => (n - 1) + 1 \in S
        BY <2>1
      <3>2. (n - 1) + 1 = n
        BY <1>5
      <3>3. QED
        BY <2>1, <3>1, <3>2
    <2>3. QED
      BY <1>2, <1>5, <2>1, <2>2
  <1>7. QED
    BY <1>4, <1>6

\* The function behind FlattenSeq.
LEMMA FlattenFunction ==
  ASSUME NEW s
  PROVE  \A n \in Nat : \E f : f = [i \in 1 .. n |-> IF i = 1 THEN s[i] ELSE f[i - 1] \o s[i]]
  <1> DEFINE S == {n \in Nat : \E f : f = [i \in 1 .. n |-> IF i = 1 THEN s[i] ELSE f[i - 1] \o s[i]]}
  <1>1. 0 \in S
    <2> DEFINE f == [i \in 1 .. 0 |-> s[i]]
    <2>1. f = [i \in 1 .. 0 |-> IF i = 1 THEN s[i] ELSE f[i - 1] \o s[i]]
      OBVIOUS
    <2>2. QED
      BY <2>1
  <1>2. ASSUME NEW n \in Nat, n \in S PROVE n + 1 \in S
    <2>1. PICK f : f = [i \in 1 .. n |-> IF i = 1 THEN s[i] ELSE f[i - 1] \o s[i]]
      BY <1>2
    <2> DEFINE g == [i \in 1 .. n + 1 |->
                       IF i <= n THEN f[i] ELSE IF i = 1 THEN s[i] ELSE f[n] \o s[i]]
    <2>2. \A i \in 1 .. n : f[i] = IF i = 1 THEN s[i] ELSE f[i - 1] \o s[i]
      BY <2>1
    <2>3. ASSUME NEW i \in 1 .. n + 1
          PROVE  g[i] = IF i = 1 THEN s[i] ELSE g[i - 1] \o s[i]
      <3>1. CASE i <= n
        <4>1. i # 1 => g[i - 1] = f[i - 1]
          BY <3>1
        <4>2. g[i] = f[i] /\ i \in 1 .. n
          BY <3>1
        <4> HIDE DEF g
        <4>3. QED
          BY <2>2, <4>1, <4>2
      <3>2. CASE i = n + 1
        <4>1. i # 1 => g[i - 1] = f[n]
          BY <3>2
        <4>2. g[i] = IF i = 1 THEN s[i] ELSE f[n] \o s[i]
          BY <3>2
        <4> HIDE DEF g
        <4>3. QED
          BY <4>1, <4>2
      <3>3. QED
        BY <3>1, <3>2
    <2>4. g = [i \in 1 .. n + 1 |-> IF i = 1 THEN s[i] ELSE g[i - 1] \o s[i]]
      <3>1. g = [i \in 1 .. n + 1 |-> g[i]]
        OBVIOUS
      <3> HIDE DEF g
      <3>2. QED
        BY <2>3, <3>1
    <2> HIDE DEF g
    <2>5. \E h : h = [i \in 1 .. n + 1 |-> IF i = 1 THEN s[i] ELSE h[i - 1] \o s[i]]
      BY <2>4
    <2>6. n + 1 \in Nat
      OBVIOUS
    <2>7. QED
      BY <2>5, <2>6
  <1> HIDE DEF S
  <1>3. \A n \in Nat : n \in S
    BY <1>1, <1>2, NatSet
  <1>4. QED
    BY <1>3 DEF S

LEMMA FlattenIs ==
  ASSUME NEW s, Len(s) \in Nat \ {0}
  PROVE  \E f : /\ f = [i \in 1 .. Len(s) |-> IF i = 1 THEN s[i] ELSE f[i - 1] \o s[i]]
                /\ FlattenSeq(s) = f[Len(s)]
  <1>1. \E f : f = [i \in 1 .. Len(s) |-> IF i = 1 THEN s[i] ELSE f[i - 1] \o s[i]]
    BY FlattenFunction
  <1>2. QED
    BY <1>1 DEF FlattenSeq

\* The first n pieces, put together.
Upto(s, n) == FlattenSeq(SubSeq(s, 1, n))

\* What is put together of s begins alike for each of its beginnings.
LEMMA UptoIs ==
  ASSUME NEW X, NEW s \in Seq(X), s # <<>>
  PROVE  \E f : /\ f = [i \in 1 .. Len(s) |-> IF i = 1 THEN s[i] ELSE f[i - 1] \o s[i]]
                /\ \A n \in 1 .. Len(s) : Upto(s, n) = f[n]
  <1>0. Len(s) \in Nat \ {0}
    OBVIOUS
  <1>1. PICK f : f = [i \in 1 .. Len(s) |-> IF i = 1 THEN s[i] ELSE f[i - 1] \o s[i]]
    BY <1>0, FlattenFunction
  <1>2. \A i \in 1 .. Len(s) : f[i] = IF i = 1 THEN s[i] ELSE f[i - 1] \o s[i]
    BY <1>1
  <1>3. ASSUME NEW n \in 1 .. Len(s) PROVE Upto(s, n) = f[n]
    <2> DEFINE t == SubSeq(s, 1, n)
    <2>1. Len(t) = n /\ \A i \in 1 .. n : t[i] = s[i]
      BY <1>0
    <2>2. PICK g : /\ g = [i \in 1 .. Len(t) |-> IF i = 1 THEN t[i] ELSE g[i - 1] \o t[i]]
                   /\ FlattenSeq(t) = g[Len(t)]
      <3> HIDE DEF t
      <3>1. Len(t) \in Nat \ {0}
        BY <1>0, <2>1
      <3>2. QED
        BY <3>1, FlattenIs
    <2> HIDE DEF t
    <2>3. \A i \in 1 .. n : g[i] = IF i = 1 THEN s[i] ELSE g[i - 1] \o s[i]
      BY <2>1, <2>2
    <2> DEFINE S == {i \in Nat : i \in 1 .. n => g[i] = f[i]}
    <2>4. 0 \in S
      OBVIOUS
    <2>5. ASSUME NEW i \in Nat, i \in S PROVE i + 1 \in S
      <3> SUFFICES ASSUME i + 1 \in 1 .. n PROVE g[i + 1] = f[i + 1]
        OBVIOUS
      <3>1. i + 1 \in 1 .. Len(s) /\ (i + 1) - 1 = i /\ (i + 1 # 1 => g[i] = f[i])
        BY <1>0, <2>5
      <3>2. QED
        BY <1>2, <2>3, <3>1
    <2> HIDE DEF S
    <2>6. n \in S
      BY <2>4, <2>5, NatSet
    <2>7. g[n] = f[n]
      BY <2>6 DEF S
    <2>8. QED
      BY <2>1, <2>2, <2>7 DEF Upto, t
  <1>4. QED
    BY <1>1, <1>3

\* Piece by piece.
LEMMA UptoFacts ==
  ASSUME NEW X, NEW s \in Seq(Seq(X))
  PROVE  /\ Upto(s, 0) = <<>>
         /\ Upto(s, Len(s)) = FlattenSeq(s)
         /\ \A n \in 1 .. Len(s) : Upto(s, n) = Upto(s, n - 1) \o s[n]
         /\ \A n \in 0 .. Len(s) : Upto(s, n) \in Seq(X)
  <1>1. Upto(s, 0) = <<>>
    <2>1. SubSeq(s, 1, 0) = <<>>
      OBVIOUS
    <2>2. FlattenSeq(<<>>) = <<>>
      BY DEF FlattenSeq
    <2>3. QED
      BY <2>1, <2>2 DEF Upto
  <1>2. Upto(s, Len(s)) = FlattenSeq(s)
    BY SubSeqFull DEF Upto
  <1>3. \A n \in 1 .. Len(s) : Upto(s, n) = Upto(s, n - 1) \o s[n]
    <2> SUFFICES ASSUME NEW n \in 1 .. Len(s) PROVE Upto(s, n) = Upto(s, n - 1) \o s[n]
      OBVIOUS
    <2>1. PICK f : /\ f = [i \in 1 .. Len(s) |-> IF i = 1 THEN s[i] ELSE f[i - 1] \o s[i]]
                   /\ \A i \in 1 .. Len(s) : Upto(s, i) = f[i]
      <3>1. s # <<>>
        OBVIOUS
      <3>2. QED
        BY <3>1, UptoIs
    <2>2. f[n] = IF n = 1 THEN s[n] ELSE f[n - 1] \o s[n]
      BY <2>1
    <2>3. CASE n = 1
      <3>1. s[n] \in Seq(X) /\ Upto(s, n) = s[n]
        <4>1. Upto(s, n) = f[n] /\ f[n] = s[n]
          BY <2>1, <2>2, <2>3, Zenon
        <4>2. QED
          BY <4>1
      <3>2. n - 1 = 0
        BY <2>3
      <3>3. QED
        BY <1>1, <3>1, <3>2, ConcatEmptySeq
    <2>4. CASE n # 1
      <3>1. n - 1 \in 1 .. Len(s)
        BY <2>4
      <3>2. QED
        BY <2>1, <2>2, <2>4, <3>1
    <2>5. QED
      BY <2>3, <2>4
  <1>4. \A n \in 0 .. Len(s) : Upto(s, n) \in Seq(X)
    <2> DEFINE S == {n \in Nat : n \in 0 .. Len(s) => Upto(s, n) \in Seq(X)}
    <2>1. 0 \in S
      <3>1. <<>> \in Seq(X)
        OBVIOUS
      <3>2. QED
        BY <1>1, <3>1
    <2>2. ASSUME NEW n \in Nat, n \in S PROVE n + 1 \in S
      <3> SUFFICES ASSUME n + 1 \in 0 .. Len(s) PROVE Upto(s, n + 1) \in Seq(X)
        OBVIOUS
      <3>1. n + 1 \in 1 .. Len(s) /\ (n + 1) - 1 = n /\ n \in 0 .. Len(s)
        OBVIOUS
      <3>2. Upto(s, n + 1) = Upto(s, n) \o s[n + 1]
        BY <1>3, <3>1
      <3>3. Upto(s, n) \in Seq(X) /\ s[n + 1] \in Seq(X)
        BY <2>2, <3>1
      <3>4. QED
        BY <3>2, <3>3, ConcatProperties
    <2> HIDE DEF S
    <2>3. \A n \in Nat : n \in S
      BY <2>1, <2>2, NatSet
    <2>4. QED
      BY <2>3 DEF S
  <1>5. QED
    BY <1>1, <1>2, <1>3, <1>4

\* How far the first n pieces reach.
Off(s, n) == Len(Upto(s, n))

\* Every piece lies where those before it end.
LEMMA PieceFacts ==
  ASSUME NEW X, NEW s \in Seq(Seq(X))
  PROVE  /\ Off(s, 0) = 0 /\ Off(s, Len(s)) = Len(FlattenSeq(s))
         /\ \A n \in 0 .. Len(s) : Off(s, n) \in Nat
         /\ \A n \in 1 .. Len(s) : Off(s, n) = Off(s, n - 1) + Len(s[n])
         /\ \A m, n \in 0 .. Len(s) : m <= n =>
               /\ Off(s, m) <= Off(s, n)
               /\ \A i \in 1 .. Off(s, m) : Upto(s, n)[i] = Upto(s, m)[i]
         /\ \A n \in 1 .. Len(s) : \A i \in 1 .. Len(s[n]) :
               FlattenSeq(s)[Off(s, n - 1) + i] = s[n][i]
  <1>0. Len(s) \in Nat
    OBVIOUS
  <1>1. Off(s, 0) = 0 /\ Off(s, Len(s)) = Len(FlattenSeq(s))
    <2>1. Len(Upto(s, 0)) = 0
      <3>1. Upto(s, 0) = <<>>
        BY UptoFacts
      <3>2. QED
        BY <3>1
    <2>2. QED
      BY <2>1, UptoFacts DEF Off
  <1>2. \A n \in 0 .. Len(s) : Off(s, n) \in Nat
    BY UptoFacts DEF Off
  <1>3. ASSUME NEW n \in 1 .. Len(s)
        PROVE  /\ n - 1 \in 0 .. Len(s) /\ s[n] \in Seq(X) /\ Upto(s, n - 1) \in Seq(X)
               /\ Upto(s, n) = Upto(s, n - 1) \o s[n]
               /\ Off(s, n) = Off(s, n - 1) + Len(s[n])
               /\ \A i \in 1 .. Off(s, n - 1) : Upto(s, n)[i] = Upto(s, n - 1)[i]
               /\ \A i \in 1 .. Len(s[n]) : Upto(s, n)[Off(s, n - 1) + i] = s[n][i]
    <2>1. n - 1 \in 0 .. Len(s) /\ s[n] \in Seq(X)
      BY <1>0
    <2>2. Upto(s, n - 1) \in Seq(X) /\ Upto(s, n) = Upto(s, n - 1) \o s[n]
      BY <2>1, UptoFacts
    <2>3. ASSUME NEW a \in Seq(X), NEW b \in Seq(X)
          PROVE  /\ Len(a \o b) = Len(a) + Len(b)
                 /\ \A i \in 1 .. Len(a) : (a \o b)[i] = a[i]
                 /\ \A i \in 1 .. Len(b) : (a \o b)[Len(a) + i] = b[i]
      OBVIOUS
    <2>4. QED
      BY <2>1, <2>2, <2>3 DEF Off
  <1>4. ASSUME NEW m \in 0 .. Len(s), NEW n \in 0 .. Len(s), m <= n
        PROVE  /\ Off(s, m) <= Off(s, n)
               /\ \A i \in 1 .. Off(s, m) : Upto(s, n)[i] = Upto(s, m)[i]
    <2> DEFINE Good(k) == /\ Off(s, m) <= Off(s, k)
                          /\ \A i \in 1 .. Off(s, m) : Upto(s, k)[i] = Upto(s, m)[i]
               S == {k \in Nat : k \in m .. Len(s) => Good(k)}
    <2>1. 0 \in S
      BY <1>2
    <2>2. ASSUME NEW k \in Nat, k \in S PROVE k + 1 \in S
      <3> SUFFICES ASSUME k + 1 \in m .. Len(s) PROVE Good(k + 1)
        OBVIOUS
      <3>1. CASE k + 1 = m
        BY <1>2, <3>1
      <3>2. CASE k >= m
        <4>1. Good(k)
          BY <1>0, <2>2, <3>2
        <4>2. k + 1 \in 1 .. Len(s) /\ (k + 1) - 1 = k /\ k \in 0 .. Len(s)
          BY <1>0
        <4>3. /\ Off(s, k + 1) = Off(s, k) + Len(s[k + 1]) /\ s[k + 1] \in Seq(X)
              /\ \A i \in 1 .. Off(s, k) : Upto(s, k + 1)[i] = Upto(s, k)[i]
          <5>1. PICK l \in 1 .. Len(s) : l = k + 1 /\ l - 1 = k
            BY <4>2
          <5>2. /\ Off(s, l) = Off(s, l - 1) + Len(s[l]) /\ s[l] \in Seq(X)
                /\ \A i \in 1 .. Off(s, l - 1) : Upto(s, l)[i] = Upto(s, l - 1)[i]
            BY <1>3, Zenon
          <5>3. QED
            BY <5>1, <5>2
        <4>4. Off(s, m) \in Nat /\ Off(s, k) \in Nat /\ Len(s[k + 1]) \in Nat
          BY <1>2, <4>2, <4>3
        <4>5. QED
          BY <4>1, <4>3, <4>4
      <3>3. QED
        BY <1>0, <3>1, <3>2
    <2> HIDE DEF S, Good
    <2>3. n \in S
      <3>1. \A k \in Nat : k \in S
        BY <2>1, <2>2, NatSet
      <3>2. QED
        BY <1>0, <3>1
    <2>4. Good(n)
      BY <1>0, <1>4, <2>3 DEF S
    <2>5. QED
      BY <2>4 DEF Good
  <1>5. ASSUME NEW n \in 1 .. Len(s), NEW i \in 1 .. Len(s[n])
        PROVE  FlattenSeq(s)[Off(s, n - 1) + i] = s[n][i]
    <2>1. /\ Upto(s, n)[Off(s, n - 1) + i] = s[n][i] /\ Off(s, n) = Off(s, n - 1) + Len(s[n])
          /\ Off(s, n - 1) \in Nat /\ Len(s[n]) \in Nat
      <3>1. n - 1 \in 0 .. Len(s) /\ s[n] \in Seq(X)
        BY <1>3
      <3>2. Off(s, n - 1) \in Nat /\ Len(s[n]) \in Nat
        BY <1>2, <3>1
      <3>3. QED
        BY <1>3, <3>2
    <2>2. Off(s, n - 1) + i \in 1 .. Off(s, n)
      BY <2>1
    <2>3. Upto(s, Len(s))[Off(s, n - 1) + i] = Upto(s, n)[Off(s, n - 1) + i]
      BY <1>0, <1>4, <2>2
    <2>4. QED
      BY <2>1, <2>3, UptoFacts
  <1>6. QED
    BY <1>1, <1>2, <1>3, <1>4, <1>5

\* A beginning and the rest are put together as the whole is.
LEMMA FlattenSplit ==
  ASSUME NEW X, NEW s \in Seq(Seq(X)), NEW k \in 0 .. Len(s), NEW n \in k .. Len(s)
  PROVE  Upto(s, n) = Upto(s, k) \o FlattenSeq(SubSeq(s, k + 1, n))
  <1>0. Len(s) \in Nat
    OBVIOUS
  <1> DEFINE Good(j) == Upto(s, j) = Upto(s, k) \o FlattenSeq(SubSeq(s, k + 1, j))
             S == {j \in Nat : j \in k .. Len(s) => Good(j)}
  <1>1. Good(k)
    <2>1. SubSeq(s, k + 1, k) = <<>> /\ FlattenSeq(<<>>) = <<>>
      BY DEF FlattenSeq
    <2>2. Upto(s, k) \in Seq(X)
      BY UptoFacts
    <2>3. QED
      BY <2>1, <2>2, ConcatEmptySeq
  <1>2. 0 \in S
    BY <1>1
  <1>3. ASSUME NEW j \in Nat, j \in S PROVE j + 1 \in S
    <2> SUFFICES ASSUME j + 1 \in k .. Len(s) PROVE Good(j + 1)
      OBVIOUS
    <2>1. CASE j + 1 = k
      BY <1>1, <2>1
    <2>2. CASE j >= k
      <3>1. PICK l \in 1 .. Len(s) : l = j + 1 /\ l - 1 = j
        BY <1>0
      <3>2. Upto(s, l) = Upto(s, l - 1) \o s[l]
        BY UptoFacts, Zenon
      <3>3. Upto(s, l - 1) = Upto(s, k) \o FlattenSeq(SubSeq(s, k + 1, l - 1))
        BY <1>3, <2>2, <3>1, <1>0
      <3> DEFINE t == SubSeq(s, k + 1, l)
      <3>4. /\ t \in Seq(Seq(X)) /\ Len(t) = l - k /\ Len(t) \in 1 .. Len(t) /\ t[Len(t)] = s[l]
            /\ SubSeq(t, 1, Len(t) - 1) = SubSeq(s, k + 1, l - 1)
        <4>1. t \in Seq(Seq(X)) /\ Len(t) = l - k /\ \A i \in 1 .. l - k : t[i] = s[k + i]
          BY <1>0, <2>2, <3>1
        <4> DEFINE u == SubSeq(t, 1, Len(t) - 1)
                   v == SubSeq(s, k + 1, l - 1)
        <4>2. u \in Seq(Seq(X)) /\ Len(u) = l - 1 - k /\ \A i \in 1 .. l - 1 - k : u[i] = t[i]
          <5> HIDE DEF t
          <5>1. QED
            BY <1>0, <2>2, <3>1, <4>1
        <4>3. v \in Seq(Seq(X)) /\ Len(v) = l - 1 - k /\ \A i \in 1 .. l - 1 - k : v[i] = s[k + i]
          BY <1>0, <2>2, <3>1
        <4>4. u = v
          <5> HIDE DEF u, v, t
          <5>1. \A i \in 1 .. Len(u) : u[i] = v[i]
            BY <1>0, <2>2, <3>1, <4>1, <4>2, <4>3
          <5>2. Len(u) = Len(v)
            BY <4>2, <4>3
          <5>3. QED
            BY <4>2, <4>3, <5>1, <5>2, SeqEqual
        <4>5. l - k \in 1 .. l - k /\ k + (l - k) = l
          BY <1>0, <2>2, <3>1
        <4> HIDE DEF t
        <4>6. t[l - k] = s[l]
          <5>1. t[l - k] = s[k + (l - k)]
            BY <4>1, <4>5
          <5>2. QED
            BY <4>5, <5>1
        <4>7. QED
          BY <4>1, <4>4, <4>5, <4>6
      <3> HIDE DEF t
      <3>5. /\ FlattenSeq(t) = FlattenSeq(SubSeq(s, k + 1, l - 1)) \o s[l]
            /\ FlattenSeq(SubSeq(s, k + 1, l - 1)) \in Seq(X)
        <4>1. FlattenSeq(t) = Upto(t, Len(t) - 1) \o t[Len(t)] /\ Upto(t, Len(t) - 1) \in Seq(X)
          <5>1. Upto(t, Len(t)) = FlattenSeq(t) /\ Upto(t, Len(t)) = Upto(t, Len(t) - 1) \o t[Len(t)]
            BY <3>4, UptoFacts, Zenon
          <5>2. Len(t) - 1 \in 0 .. Len(t)
            <6>1. \A x \in Int : x \in 1 .. x => x - 1 \in 0 .. x
              OBVIOUS
            <6>2. l - k \in Int
              BY <1>0, <3>1
            <6>3. QED
              BY <3>4, <6>1, <6>2
          <5>3. Upto(t, Len(t) - 1) \in Seq(X)
            BY <3>4, <5>2, UptoFacts, Zenon
          <5>4. QED
            BY <5>1, <5>3
        <4>2. QED
          BY <3>4, <4>1 DEF Upto
      <3>6. Upto(s, k) \in Seq(X) /\ s[l] \in Seq(X)
        <4>1. Upto(s, k) \in Seq(X)
          BY UptoFacts, Zenon
        <4>2. QED
          BY <4>1
      <3>7. Upto(s, l) = Upto(s, k) \o FlattenSeq(t)
        <4>1. (Upto(s, k) \o FlattenSeq(SubSeq(s, k + 1, l - 1))) \o s[l]
                  = Upto(s, k) \o (FlattenSeq(SubSeq(s, k + 1, l - 1)) \o s[l])
          <5>1. ASSUME NEW a \in Seq(X), NEW b \in Seq(X), NEW c \in Seq(X)
                PROVE  (a \o b) \o c = a \o (b \o c)
            OBVIOUS
          <5>2. QED
            BY <3>5, <3>6, <5>1, Zenon
        <4>2. QED
          BY <3>2, <3>3, <3>5, <4>1
      <3>8. QED
        BY <3>1, <3>7 DEF t
    <2>3. QED
      BY <1>0, <2>1, <2>2
  <1> HIDE DEF S, Good
  <1>4. \A j \in Nat : j \in S
    BY <1>2, <1>3, NatSet
  <1>5. Good(n)
    BY <1>0, <1>4 DEF S
  <1>6. QED
    BY <1>5 DEF Good

-----------------------------------------------------------------------------
(* Rows of the profile *)

\* Markers found are listed from left to right: the only list of them that rises.
LEMMA MarkersListed ==
  ASSUME NEW s, Len(s) \in Nat, NEW n \in Nat, NEW e \in Seq(Nat), Len(e) = n,
         \A i, j \in 1 .. n : i < j => e[i] < e[j],
         \A i \in 1 .. n : e[i] \in 1 .. Len(s),
         \A p \in 1 .. Len(s) : p \in Marks(s) <=> \E i \in 1 .. n : e[i] = p
  PROVE  MarkSeq(s) = e
  <1> DEFINE g == [p \in 1 .. Len(s) |-> IF p \in Marks(s) THEN <<p>> ELSE <<>>]
  <1>1. g \in Seq(Seq(Nat)) /\ Len(g) = Len(s)
    <2>1. \A p \in 1 .. Len(s) : (IF p \in Marks(s) THEN <<p>> ELSE <<>>) \in Seq(Nat)
      OBVIOUS
    <2>2. QED
      BY <2>1
  <1>2. \A p \in 1 .. Len(s) : g[p] = IF p \in Marks(s) THEN <<p>> ELSE <<>>
    OBVIOUS
  <1>3. MarkSeq(s) = FlattenSeq(g)
    BY DEF MarkSeq
  <1> HIDE DEF g
  <1>4. \A i \in 1 .. n : e[i] \in Nat
    OBVIOUS
  <1> DEFINE Reaches(L, c) == /\ \A i \in 1 .. c : e[i] <= L
                              /\ \A i \in c + 1 .. n : e[i] > L
             S == {L \in Nat : L <= Len(s) => \A c \in 0 .. n :
                     Reaches(L, c) => Upto(g, L) = SubSeq(e, 1, c)}
  <1> HIDE DEF Reaches
  <1>5. 0 \in S
    <2> SUFFICES ASSUME NEW c \in 0 .. n, Reaches(0, c) PROVE Upto(g, 0) = SubSeq(e, 1, c)
      OBVIOUS
    <2>1. c = 0
      <3> SUFFICES ASSUME c # 0 PROVE FALSE
        OBVIOUS
      <3>1. 1 \in 1 .. c /\ 1 \in 1 .. n
        OBVIOUS
      <3>2. e[1] \in 1 .. Len(s) /\ e[1] <= 0
        BY <3>1 DEF Reaches
      <3>3. QED
        BY <3>2
    <2>2. SubSeq(e, 1, 0) = <<>>
      OBVIOUS
    <2>3. Upto(g, 0) = <<>>
      BY <1>1, UptoFacts, Zenon
    <2>4. QED
      BY <2>1, <2>2, <2>3
  <1>6. ASSUME NEW L \in Nat, L \in S PROVE L + 1 \in S
    <2> SUFFICES ASSUME L + 1 <= Len(s), NEW c \in 0 .. n, Reaches(L + 1, c)
                 PROVE  Upto(g, L + 1) = SubSeq(e, 1, c)
      OBVIOUS
    <2>1. Upto(g, L + 1) = Upto(g, L) \o g[L + 1] /\ Upto(g, L) \in Seq(Nat)
      <3>1. PICK l \in 1 .. Len(g) : l = L + 1 /\ l - 1 = L /\ L \in 0 .. Len(g)
        BY <1>1
      <3>2. Upto(g, l) = Upto(g, l - 1) \o g[l] /\ Upto(g, L) \in Seq(Nat)
        BY <1>1, <3>1, UptoFacts, Zenon
      <3>3. QED
        BY <3>1, <3>2
    <2>2. CASE L + 1 \in Marks(s)
      <3>1. PICK i \in 1 .. n : e[i] = L + 1
        BY <2>2
      <3>2. c = i
        <4>1. i <= c
          BY <3>1, <1>4 DEF Reaches
        <4>2. ~ (i < c)
          <5>1. i < c => e[i] < e[c] /\ e[c] <= L + 1
            BY <4>1 DEF Reaches
          <5>2. QED
            BY <3>1, <5>1, <1>4
        <4>3. QED
          BY <4>1, <4>2
      <3>3. Reaches(L, c - 1)
        <4>1. \A j \in 1 .. c - 1 : e[j] < L + 1
          BY <3>1, <3>2
        <4>2. \A j \in c .. n : e[j] > L
          <5>1. \A j \in c .. n : j = c \/ j \in c + 1 .. n
            OBVIOUS
          <5>2. QED
            BY <3>1, <3>2, <5>1, <1>4 DEF Reaches
        <4>3. QED
          BY <1>4, <4>1, <4>2 DEF Reaches
      <3>4. Upto(g, L) = SubSeq(e, 1, c - 1)
        <4>1. c - 1 \in 0 .. n
          BY <3>2
        <4>2. QED
          BY <1>6, <3>3, <4>1
      <3>5. g[L + 1] = <<e[c]>>
        BY <1>2, <2>2, <3>1, <3>2
      <3>6. SubSeq(e, 1, c) = SubSeq(e, 1, c - 1) \o <<e[c]>>
        BY <3>2, SubSeqRecursiveSecond
      <3>7. QED
        BY <2>1, <3>4, <3>5, <3>6
    <2>3. CASE L + 1 \notin Marks(s)
      <3>1. \A i \in 1 .. n : e[i] # L + 1
        BY <2>3
      <3>2. Reaches(L, c)
        <4>1. \A i \in 1 .. c : i \in 1 .. n /\ e[i] <= L + 1 /\ e[i] # L + 1
          BY <3>1 DEF Reaches
        <4>2. QED
          BY <1>4, <4>1 DEF Reaches
      <3>3. g[L + 1] = <<>>
        <4>1. L + 1 \in 1 .. Len(s)
          OBVIOUS
        <4>2. QED
          BY <1>2, <2>3, <4>1
      <3>4. Upto(g, L) = SubSeq(e, 1, c)
        BY <1>6, <3>2
      <3>5. QED
        BY <2>1, <3>3, <3>4, ConcatEmptySeq
    <2>4. QED
      BY <2>2, <2>3
  <1> HIDE DEF S
  <1>7. \A L \in Nat : L \in S
    BY <1>5, <1>6, NatSet
  <1>8. Upto(g, Len(s)) = SubSeq(e, 1, n)
    <2>1. Reaches(Len(s), n)
      BY DEF Reaches
    <2>2. QED
      BY <1>7, <2>1 DEF S
  <1>9. QED
    <2>1. Upto(g, Len(g)) = FlattenSeq(g)
      BY <1>1, UptoFacts, Zenon
    <2>2. SubSeq(e, 1, n) = e
      BY SubSeqFull
    <2>3. QED
      BY <1>1, <1>3, <1>8, <2>1, <2>2

\* The bytes of the whole table, and how far its first n rows reach.
Profile == FlattenSeq(Table)
Reach(n) == Off(Table, n)

LEMMA TableFacts ==
  /\ Len(Table) \in Nat /\ Profile \in Seq(Nat) /\ Reach(0) = 0 /\ Reach(Len(Table)) = Len(Profile)
  /\ \A n \in 0 .. Len(Table) : Reach(n) \in Nat /\ Reach(n) <= Len(Profile)
  /\ \A m, n \in 0 .. Len(Table) : m < n => Reach(m) + 3 <= Reach(n)
  /\ \A n \in 1 .. Len(Table) :
        /\ Table[n] \in Seq(Nat) /\ IsRow(Table[n]) /\ Len(Table[n]) = Reach(n) - Reach(n - 1)
        /\ \A i \in 1 .. Len(Table[n]) : Profile[Reach(n - 1) + i] = Table[n][i]
  <1>0. Table \in Seq(Seq(Nat)) /\ Len(Table) \in Nat
    BY ProfileAssumption
  <1>1. Profile \in Seq(Nat) /\ Reach(0) = 0 /\ Reach(Len(Table)) = Len(Profile)
    <2>1. Upto(Table, Len(Table)) \in Seq(Nat) /\ Upto(Table, Len(Table)) = Profile
      <3>1. Len(Table) \in 0 .. Len(Table)
        BY <1>0
      <3>2. QED
        BY <1>0, <3>1, UptoFacts, Zenon DEF Profile
    <2>2. QED
      BY <1>0, <2>1, PieceFacts, Zenon DEF Reach, Profile
  <1>2. \A n \in 0 .. Len(Table) : Reach(n) \in Nat
    BY <1>0, PieceFacts, Zenon DEF Reach
  <1>3. ASSUME NEW n \in 1 .. Len(Table)
        PROVE  /\ n - 1 \in 0 .. Len(Table) /\ Table[n] \in Seq(Nat) /\ Len(Table[n]) >= 3
               /\ Reach(n) = Reach(n - 1) + Len(Table[n])
               /\ Reach(n - 1) \in Nat /\ Reach(n) \in Nat
    <2>1. n - 1 \in 0 .. Len(Table) /\ Table[n] \in Seq(Nat)
      BY <1>0
    <2>2. Len(Table[n]) >= 3
      BY ProfileAssumption DEF IsRow
    <2>3. Reach(n) = Reach(n - 1) + Len(Table[n])
      BY <1>0, PieceFacts, Zenon DEF Reach
    <2>4. QED
      BY <1>2, <2>1, <2>2, <2>3
  <1>4. \A m, n \in 0 .. Len(Table) : m <= n => Reach(m) <= Reach(n)
    BY <1>0, PieceFacts, Zenon DEF Reach
  <1>5. ASSUME NEW m \in 0 .. Len(Table), NEW n \in 0 .. Len(Table), m < n
        PROVE  Reach(m) + 3 <= Reach(n)
    <2>1. PICK l \in 1 .. Len(Table) : l = m + 1 /\ l - 1 = m
      BY <1>0, <1>5
    <2>2. /\ Reach(l) = Reach(l - 1) + Len(Table[l]) /\ Len(Table[l]) >= 3
          /\ Table[l] \in Seq(Nat) /\ Reach(l) \in Nat
      BY <1>3, Zenon
    <2>3. Reach(l) <= Reach(n)
      BY <1>0, <1>4, <1>5, <2>1
    <2>4. Len(Table[l]) \in Nat
      BY <2>2
    <2>5. QED
      BY <1>2, <2>1, <2>2, <2>3, <2>4
  <1>6. \A n \in 0 .. Len(Table) : Reach(n) <= Len(Profile)
    BY <1>0, <1>1, <1>4
  <1>7. ASSUME NEW n \in 1 .. Len(Table)
        PROVE  /\ Table[n] \in Seq(Nat) /\ IsRow(Table[n]) /\ Len(Table[n]) = Reach(n) - Reach(n - 1)
               /\ \A i \in 1 .. Len(Table[n]) : Profile[Reach(n - 1) + i] = Table[n][i]
    <2>1. \A i \in 1 .. Len(Table[n]) : Profile[Reach(n - 1) + i] = Table[n][i]
      BY <1>0, PieceFacts, Zenon DEF Reach, Profile
    <2>2. Len(Table[n]) = Reach(n) - Reach(n - 1)
      <3>1. Len(Table[n]) \in Nat
        BY <1>3
      <3>2. QED
        BY <1>3, <3>1
    <2>3. QED
      BY <1>3, <2>1, <2>2, ProfileAssumption
  <1>8. QED
    BY <1>0, <1>1, <1>2, <1>5, <1>6, <1>7

\* Every byte is one of some row.
LEMMA RowOf ==
  ASSUME NEW p \in 1 .. Len(Profile)
  PROVE  \E k \in 1 .. Len(Table) : Reach(k - 1) < p /\ p <= Reach(k)
  <1> DEFINE S == {n \in Nat : n <= Len(Table) /\ p <= Reach(n) =>
                     \E k \in 1 .. n : Reach(k - 1) < p /\ p <= Reach(k)}
  <1>1. 0 \in S
    BY TableFacts
  <1>2. ASSUME NEW n \in Nat, n \in S PROVE n + 1 \in S
    <2> SUFFICES ASSUME n + 1 <= Len(Table), p <= Reach(n + 1)
                 PROVE  \E k \in 1 .. n + 1 : Reach(k - 1) < p /\ p <= Reach(k)
      OBVIOUS
    <2>1. CASE p <= Reach(n)
      <3>1. n <= Len(Table)
        BY TableFacts
      <3>2. PICK k \in 1 .. n : Reach(k - 1) < p /\ p <= Reach(k)
        BY <1>2, <2>1, <3>1
      <3>3. k \in 1 .. n + 1
        OBVIOUS
      <3>4. QED
        BY <3>2, <3>3
    <2>2. CASE ~ (p <= Reach(n))
      <3>1. PICK k \in 1 .. n + 1 : k = n + 1 /\ k - 1 = n
        OBVIOUS
      <3>2. Reach(n) < p
        <4>1. n \in 0 .. Len(Table) /\ p \in Nat
          BY TableFacts
        <4>2. Reach(n) \in Nat
          BY <4>1, TableFacts
        <4>3. QED
          BY <2>2, <4>1, <4>2
      <3>3. QED
        BY <3>1, <3>2
    <2>3. QED
      BY <2>1, <2>2
  <1> HIDE DEF S
  <1>3. Len(Table) \in S
    BY <1>1, <1>2, NatSet, TableFacts
  <1>4. p <= Reach(Len(Table)) /\ Len(Table) <= Len(Table)
    BY TableFacts
  <1>5. QED
    BY <1>3, <1>4 DEF S

\* Two marks in a row are the beginning of a row, and nothing else is.
LEMMA RowsBeginWithMarks ==
  ASSUME NEW p \in 1 .. Len(Profile) - 1
  PROVE  (Profile[p] = Mark /\ Profile[p + 1] = Mark) <=> \E k \in 1 .. Len(Table) : p = Reach(k - 1) + 1
  <1>0. Len(Profile) \in Nat
    BY TableFacts
  <1>1. ASSUME NEW k \in 1 .. Len(Table), p = Reach(k - 1) + 1
        PROVE  Profile[p] = Mark /\ Profile[p + 1] = Mark
    <2>1. /\ Table[k] \in Seq(Nat) /\ Len(Table[k]) >= 3 /\ Table[k][1] = Mark /\ Table[k][2] = Mark
          /\ \A i \in 1 .. Len(Table[k]) : Profile[Reach(k - 1) + i] = Table[k][i]
      BY TableFacts DEF IsRow
    <2>2. 1 \in 1 .. Len(Table[k]) /\ 2 \in 1 .. Len(Table[k])
      BY <2>1
    <2>3. p + 1 = Reach(k - 1) + 2
      <3>1. k - 1 \in 0 .. Len(Table)
        BY TableFacts
      <3>2. Reach(k - 1) \in Nat
        BY <3>1, TableFacts
      <3>3. QED
        BY <1>1, <3>2
    <2>4. QED
      BY <1>1, <2>1, <2>2, <2>3
  <1>2. ASSUME Profile[p] = Mark, Profile[p + 1] = Mark
        PROVE  \E k \in 1 .. Len(Table) : p = Reach(k - 1) + 1
    <2>0. p \in 1 .. Len(Profile)
      BY <1>0
    <2>1. PICK k \in 1 .. Len(Table) : Reach(k - 1) < p /\ p <= Reach(k)
      BY <2>0, RowOf
    <2>2. /\ Table[k] \in Seq(Nat) /\ Len(Table[k]) \in Nat /\ Len(Table[k]) = Reach(k) - Reach(k - 1)
          /\ IsRow(Table[k])
          /\ \A i \in 1 .. Len(Table[k]) : Profile[Reach(k - 1) + i] = Table[k][i]
      <3>1. /\ Table[k] \in Seq(Nat) /\ Len(Table[k]) = Reach(k) - Reach(k - 1) /\ IsRow(Table[k])
            /\ \A i \in 1 .. Len(Table[k]) : Profile[Reach(k - 1) + i] = Table[k][i]
        BY TableFacts, Zenon
      <3>2. Len(Table[k]) \in Nat
        BY <3>1
      <3>3. QED
        BY <3>1, <3>2
    <2>3. k - 1 \in 0 .. Len(Table) /\ k \in 0 .. Len(Table)
      BY TableFacts
    <2>4. Reach(k - 1) \in Nat /\ Reach(k) \in Nat
      BY <2>3, TableFacts
    <2>5. PICK i \in 1 .. Len(Table[k]) : p = Reach(k - 1) + i
      <3>1. p - Reach(k - 1) \in 1 .. Len(Table[k]) /\ p = Reach(k - 1) + (p - Reach(k - 1))
        BY <2>1, <2>2, <2>4
      <3>2. QED
        BY <3>1
    <2>6. Table[k][i] = Mark
      BY <1>2, <2>2, <2>5
    <2>7. i # Len(Table[k])
      BY <2>2, <2>6 DEF IsRow
    <2>8. i + 1 \in 1 .. Len(Table[k]) /\ p + 1 = Reach(k - 1) + (i + 1)
      BY <2>2, <2>4, <2>5, <2>7
    <2>9. Table[k][i + 1] = Mark
      BY <1>2, <2>2, <2>8
    <2>10. i = 1
      <3> SUFFICES ASSUME i # 1 PROVE FALSE
        OBVIOUS
      <3>1. i \in 2 .. Len(Table[k]) - 1
        BY <2>2, <2>8
      <3>2. QED
        BY <2>2, <2>6, <2>9, <3>1 DEF IsRow
    <2>11. QED
      BY <2>5, <2>10
  <1>3. QED
    BY <1>1, <1>2

Depth == Len(Table)

LEMMA ReachFacts ==
  /\ Depth \in Nat /\ Reach(Depth) = Len(Profile) /\ Profile \in Seq(Nat) /\ Len(Profile) \in Nat
  /\ \A i \in 0 .. Depth : Reach(i) \in Nat
  /\ \A i, j \in 0 .. Depth : i < j => Reach(i) + 3 <= Reach(j)
  /\ \A i, j \in 0 .. Depth : i <= j => Reach(i) <= Reach(j)
  <1>1. /\ Depth \in Nat /\ Reach(Depth) = Len(Profile) /\ Profile \in Seq(Nat)
        /\ \A i \in 0 .. Depth : Reach(i) \in Nat
        /\ \A i, j \in 0 .. Depth : i < j => Reach(i) + 3 <= Reach(j)
    BY TableFacts, Zenon DEF Depth
  <1>2. ASSUME NEW i \in 0 .. Depth, NEW j \in 0 .. Depth, i <= j PROVE Reach(i) <= Reach(j)
    <2>1. i = j \/ i < j
      BY <1>1, <1>2
    <2>2. Reach(i) \in Nat /\ Reach(j) \in Nat
      BY <1>1
    <2>3. i < j => Reach(i) + 3 <= Reach(j)
      BY <1>1
    <2>4. QED
      BY <2>1, <2>2, <2>3
  <1>3. QED
    BY <1>1, <1>2

\* The last row that bytes up to L have begun, among those after k, when row m begins
\* after Reach(m) bytes.
LEMMA RowsBegun ==
  ASSUME NEW k \in 0 .. Depth, NEW L \in Nat
  PROVE  \E m \in k .. Depth : /\ m > k => Reach(m - 1) + 2 <= L
                               /\ m < Depth => Reach(m) + 2 > L
  <1> SUFFICES ASSUME \A m \in k .. Depth : (m > k => Reach(m - 1) + 2 <= L) => m < Depth /\ Reach(m) + 2 <= L
               PROVE  FALSE
    <2>1. ASSUME NEW m \in k .. Depth, ~ (m < Depth => Reach(m) + 2 > L)
          PROVE  m < Depth /\ Reach(m) + 2 <= L
      <3>1. m < Depth /\ ~ (Reach(m) + 2 > L)
        BY <2>1
      <3>2. m \in 0 .. Depth
        BY ReachFacts
      <3>3. Reach(m) \in Nat
        BY <3>2, ReachFacts
      <3>4. QED
        BY <3>1, <3>3
    <2>2. QED
      BY <2>1
  <1> DEFINE S == {m \in Nat : m \in k .. Depth => (m > k => Reach(m - 1) + 2 <= L)}
  <1>1. 0 \in S
    OBVIOUS
  <1>2. ASSUME NEW m \in Nat, m \in S PROVE m + 1 \in S
    <2> SUFFICES ASSUME m + 1 \in k .. Depth, m + 1 > k PROVE Reach((m + 1) - 1) + 2 <= L
      OBVIOUS
    <2>1. m \in k .. Depth /\ (m + 1) - 1 = m
      BY ReachFacts
    <2>2. Reach(m) + 2 <= L
      BY <1>2, <2>1
    <2>3. QED
      BY <2>1, <2>2
  <1> HIDE DEF S
  <1>3. Depth \in S
    BY <1>1, <1>2, NatSet, ReachFacts
  <1>4. QED
    BY <1>3, ReachFacts DEF S

\* What SubSeq gives, for bytes.
LEMMA BytesFrom ==
  ASSUME NEW P \in Seq(Nat), NEW a \in Nat, NEW b \in Nat, a <= b, b <= Len(P)
  PROVE  /\ SubSeq(P, a + 1, b) \in Seq(Nat) /\ Len(SubSeq(P, a + 1, b)) = b - a
         /\ \A i \in 1 .. b - a : SubSeq(P, a + 1, b)[i] = P[a + i]
  OBVIOUS

\* A part of a part.
LEMMA PartOfPart ==
  ASSUME NEW P \in Seq(Nat), NEW z \in Nat, NEW x \in Nat, NEW y \in Nat, NEW L \in Nat,
         z <= x, x <= y, y <= L, L <= Len(P)
  PROVE  SubSeq(SubSeq(P, z + 1, L), (x - z) + 1, y - z) = SubSeq(P, x + 1, y)
  <1> DEFINE d == SubSeq(P, z + 1, L)
             u == SubSeq(d, (x - z) + 1, y - z)
             v == SubSeq(P, x + 1, y)
  <1>1. d \in Seq(Nat) /\ Len(d) = L - z /\ \A i \in 1 .. L - z : d[i] = P[z + i]
    BY BytesFrom
  <1> HIDE DEF d
  <1>2. x - z \in Nat /\ y - z \in Nat /\ x - z <= y - z /\ y - z <= Len(d) /\ (y - z) - (x - z) = y - x
    BY <1>1
  <1>3. u \in Seq(Nat) /\ Len(u) = y - x /\ \A i \in 1 .. y - x : u[i] = d[(x - z) + i]
    BY <1>1, <1>2, BytesFrom
  <1>4. v \in Seq(Nat) /\ Len(v) = y - x /\ \A i \in 1 .. y - x : v[i] = P[x + i]
    BY BytesFrom
  <1> HIDE DEF u, v
  <1>5. ASSUME NEW i \in 1 .. Len(u) PROVE u[i] = v[i]
    <2>1. i \in 1 .. y - x /\ (x - z) + i \in 1 .. L - z /\ z + ((x - z) + i) = x + i
      BY <1>3
    <2>2. QED
      BY <1>1, <1>3, <1>4, <2>1
  <1>6. u = v
    BY <1>3, <1>4, <1>5, SeqEqual
  <1>7. QED
    BY <1>6 DEF u, v, d

\* A byte of the profile begins a row.
RowStarts(p) == \E r \in 0 .. Depth - 1 : p = Reach(r) + 1

LEMMA MarksOfProfile ==
  ASSUME NEW p \in 1 .. Len(Profile) - 1
  PROVE  (Profile[p] = Mark /\ Profile[p + 1] = Mark) <=> RowStarts(p)
  <1>1. (\E r \in 1 .. Len(Table) : p = Reach(r - 1) + 1) <=> RowStarts(p)
    <2>1. ASSUME NEW r \in 1 .. Len(Table), p = Reach(r - 1) + 1 PROVE RowStarts(p)
      <3>1. r - 1 \in 0 .. Depth - 1
        BY ReachFacts DEF Depth
      <3>2. QED
        BY <2>1, <3>1 DEF RowStarts
    <2>2. ASSUME NEW r \in 0 .. Depth - 1, p = Reach(r) + 1
          PROVE  \E t \in 1 .. Len(Table) : p = Reach(t - 1) + 1
      <3>1. PICK t \in 1 .. Len(Table) : t = r + 1 /\ t - 1 = r
        BY ReachFacts DEF Depth
      <3>2. QED
        BY <2>2, <3>1
    <2>3. QED
      BY <2>1, <2>2 DEF RowStarts
  <1>2. QED
    BY <1>1, RowsBeginWithMarks

\* Bytes that begin with a row have their marks where rows b and before begin.
LEMMA MarksOfPart ==
  ASSUME NEW k \in 0 .. Depth, NEW L \in Nat, Reach(k) <= L, L <= Len(Profile),
         NEW b \in k .. Depth, b > k => Reach(b - 1) + 2 <= L, b < Depth => Reach(b) + 2 > L
  PROVE  LET e == [i \in 1 .. b - k |-> Reach(k + i - 1) - Reach(k) + 1]
         IN  /\ MarkSeq(SubSeq(Profile, Reach(k) + 1, L)) = e
             /\ e \in Seq(Nat) /\ Len(e) = b - k
  <1> DEFINE data == SubSeq(Profile, Reach(k) + 1, L)
             e == [i \in 1 .. b - k |-> Reach(k + i - 1) - Reach(k) + 1]
  <1>1. /\ Depth \in Nat /\ Profile \in Seq(Nat) /\ Len(Profile) \in Nat
        /\ \A i \in 0 .. Depth : Reach(i) \in Nat
        /\ \A i, j \in 0 .. Depth : i < j => Reach(i) + 3 <= Reach(j)
        /\ \A i, j \in 0 .. Depth : i <= j => Reach(i) <= Reach(j)
    BY ReachFacts
  <1>2. PICK z \in Nat : z = Reach(k) /\ z <= L
    BY <1>1
  <1>3. /\ data \in Seq(Nat) /\ Len(data) = L - z /\ L - z \in Nat
        /\ \A i \in 1 .. L - z : data[i] = Profile[z + i]
    <2>1. /\ SubSeq(Profile, z + 1, L) \in Seq(Nat) /\ Len(SubSeq(Profile, z + 1, L)) = L - z
          /\ \A i \in 1 .. L - z : SubSeq(Profile, z + 1, L)[i] = Profile[z + i]
      BY <1>1, <1>2, BytesFrom
    <2>2. L - z \in Nat
      BY <1>2
    <2>3. QED
      BY <1>2, <2>1, <2>2
  <1>4. b - k \in Nat /\ DOMAIN e = 1 .. b - k
    BY <1>1
  <1>5. ASSUME NEW i \in 1 .. b - k
        PROVE  \E r \in k .. b - 1 : \E x \in Nat :
                  /\ r = k + i - 1 /\ r \in 0 .. Depth - 1 /\ r \in 0 .. Depth /\ x = Reach(r)
                  /\ e[i] = x - z + 1 /\ z <= x /\ x + 2 <= L
    <2>1. PICK r \in k .. b - 1 : r = k + i - 1 /\ r \in 0 .. Depth - 1 /\ r \in 0 .. Depth
      BY <1>1
    <2>2. PICK x \in Nat : x = Reach(r)
      BY <1>1, <2>1
    <2>3. e[i] = x - z + 1
      BY <1>2, <2>1, <2>2
    <2>4. z <= x
      BY <1>1, <1>2, <2>1, <2>2
    <2>5. x + 2 <= L
      <3>1. PICK a \in 0 .. Depth : a = b - 1 /\ r <= a /\ b > k
        BY <1>1, <2>1
      <3>2. PICK y \in Nat : y = Reach(a)
        BY <1>1, <3>1
      <3>3. x <= y
        BY <1>1, <2>1, <2>2, <3>1, <3>2
      <3>4. y + 2 <= L
        BY <3>1, <3>2
      <3>5. QED
        BY <3>3, <3>4
    <2>6. QED
      BY <2>1, <2>2, <2>3, <2>4, <2>5
  <1> HIDE DEF data
  <1>6. \A i \in 1 .. b - k : e[i] \in Nat /\ e[i] \in 1 .. Len(data) - 1 /\ e[i] \in 1 .. Len(data)
    <2> HIDE DEF e
    <2>1. ASSUME NEW i \in 1 .. b - k
          PROVE  e[i] \in Nat /\ e[i] \in 1 .. Len(data) - 1 /\ e[i] \in 1 .. Len(data)
      <3>1. PICK x \in Nat : e[i] = x - z + 1 /\ z <= x /\ x + 2 <= L
        BY <1>5
      <3>2. QED
        BY <1>3, <3>1
    <2>2. QED
      BY <2>1
  <1>7. e \in Seq(Nat) /\ Len(e) = b - k
    <2>1. e \in [1 .. b - k -> Nat]
      BY <1>6
    <2> HIDE DEF e
    <2>2. QED
      BY <1>4, <2>1
  <1> HIDE DEF e
  <1>8. ASSUME NEW i \in 1 .. b - k, NEW j \in 1 .. b - k, i < j PROVE e[i] < e[j]
    <2>1. PICK r \in k .. b - 1, x \in Nat : r = k + i - 1 /\ r \in 0 .. Depth /\ x = Reach(r) /\ e[i] = x - z + 1
      BY <1>5
    <2>2. PICK t \in k .. b - 1, y \in Nat : t = k + j - 1 /\ t \in 0 .. Depth /\ y = Reach(t) /\ e[j] = y - z + 1
      BY <1>5
    <2>3. r < t
      BY <1>1, <1>8, <2>1, <2>2
    <2>4. x + 3 <= y
      BY <1>1, <2>1, <2>2, <2>3
    <2>5. QED
      BY <2>1, <2>2, <2>4
  <1>9. ASSUME NEW p \in 1 .. Len(data)
        PROVE  p \in Marks(data) <=> p \in 1 .. L - z - 1 /\ RowStarts(z + p)
    <2>1. p \in Marks(data) <=> p \in 1 .. L - z - 1 /\ data[p] = Mark /\ data[p + 1] = Mark
      BY <1>3 DEF Marks
    <2>2. ASSUME p \in 1 .. L - z - 1
          PROVE  (data[p] = Mark /\ data[p + 1] = Mark) <=> RowStarts(z + p)
      <3>1. /\ p \in 1 .. L - z /\ p + 1 \in 1 .. L - z /\ z + (p + 1) = (z + p) + 1
            /\ z + p \in 1 .. Len(Profile) - 1
        BY <1>1, <2>2
      <3>2. data[p] = Profile[z + p] /\ data[p + 1] = Profile[(z + p) + 1]
        BY <1>3, <3>1
      <3>3. QED
        BY <3>1, <3>2, MarksOfProfile
    <2>3. QED
      BY <2>1, <2>2
  <1>10. ASSUME NEW p \in 1 .. Len(data), p \in Marks(data) PROVE \E i \in 1 .. b - k : e[i] = p
    <2>1. p \in 1 .. L - z - 1
      BY <1>9, <1>10
    <2>2. PICK r \in 0 .. Depth - 1 : z + p = Reach(r) + 1
      BY <1>9, <1>10 DEF RowStarts
    <2>3. r \in 0 .. Depth /\ r < Depth
      BY <1>1
    <2>4. PICK x \in Nat : x = Reach(r)
      BY <1>1, <2>3
    <2>5. z + p = x + 1
      BY <2>2, <2>4
    <2>6. r >= k
      <3> SUFFICES ASSUME r < k PROVE FALSE
        BY <1>1
      <3>1. x + 3 <= z
        BY <1>1, <1>2, <2>3, <2>4
      <3>2. QED
        BY <2>1, <2>5, <3>1
    <2>7. r < b
      <3> SUFFICES ASSUME b <= r PROVE FALSE
        BY <1>1
      <3>1. b < Depth /\ b \in 0 .. Depth
        BY <1>1
      <3>2. PICK y \in Nat : y = Reach(b)
        BY <1>1, <3>1
      <3>3. y <= x
        BY <1>1, <2>3, <2>4, <3>1, <3>2
      <3>4. y + 2 > L
        BY <3>1, <3>2
      <3>5. QED
        BY <2>1, <2>5, <3>3, <3>4
    <2>8. PICK i \in 1 .. b - k : k + i - 1 = r
      <3>1. r - k + 1 \in 1 .. b - k /\ k + (r - k + 1) - 1 = r
        BY <1>1, <2>3, <2>6, <2>7
      <3>2. QED
        BY <3>1
    <2>9. e[i] = x - z + 1
      BY <1>5, <2>4, <2>8
    <2>10. e[i] = p
      BY <2>1, <2>5, <2>9
    <2>11. QED
      BY <2>10
  <1>11. ASSUME NEW p \in 1 .. Len(data), NEW i \in 1 .. b - k, e[i] = p PROVE p \in Marks(data)
    <2>1. PICK r \in 0 .. Depth - 1, x \in Nat : x = Reach(r) /\ e[i] = x - z + 1 /\ z <= x /\ x + 2 <= L
      BY <1>5
    <2>2. p \in 1 .. L - z - 1 /\ z + p = x + 1
      <3>1. p = x - z + 1 /\ z <= x /\ x + 2 <= L
        BY <1>11, <2>1
      <3>2. QED
        BY <3>1
    <2>3. RowStarts(z + p)
      BY <2>1, <2>2 DEF RowStarts
    <2>4. QED
      BY <1>9, <2>2, <2>3
  <1>12. Len(data) \in Nat
    BY <1>3
  <1>13. MarkSeq(data) = e
    BY <1>4, <1>6, <1>7, <1>8, <1>10, <1>11, <1>12, MarkersListed
  <1>14. QED
    BY <1>7, <1>13 DEF data, e

\* Bytes that begin with a row are split into the rows they hold but the last, which may
\* go on in the next block.
SplitAt(k, L, m) ==
    /\ SplitRows(SubSeq(Profile, Reach(k) + 1, L)) = SubSeq(Table, k + 1, m)
    /\ Remainder(SubSeq(Profile, Reach(k) + 1, L)) = SubSeq(Profile, Reach(m) + 1, L)
    /\ Reach(m) <= L
    /\ L = Len(Profile) /\ k < Depth => m = Depth - 1

\* A row is the bytes between two reaches.
LEMMA RowBytes ==
  ASSUME NEW n \in 1 .. Depth
  PROVE  SubSeq(Profile, Reach(n - 1) + 1, Reach(n)) = Table[n]
  <1>1. /\ Table[n] \in Seq(Nat) /\ Len(Table[n]) = Reach(n) - Reach(n - 1)
        /\ \A i \in 1 .. Len(Table[n]) : Profile[Reach(n - 1) + i] = Table[n][i]
    BY TableFacts, Zenon DEF Depth
  <1>2. n - 1 \in 0 .. Depth /\ n \in 0 .. Depth /\ n - 1 <= n
    BY ReachFacts
  <1>3. PICK x \in Nat, y \in Nat : x = Reach(n - 1) /\ y = Reach(n) /\ x <= y /\ y <= Len(Profile)
    <2>1. /\ Reach(n - 1) \in Nat /\ Reach(n) \in Nat /\ Reach(n - 1) <= Reach(n)
          /\ Reach(n) <= Len(Profile)
      BY <1>2, ReachFacts
    <2>2. QED
      BY <2>1
  <1> DEFINE u == SubSeq(Profile, x + 1, y)
  <1>4. u \in Seq(Nat) /\ Len(u) = y - x /\ \A i \in 1 .. y - x : u[i] = Profile[x + i]
    BY <1>3, ReachFacts, BytesFrom
  <1> HIDE DEF u
  <1>5. u = Table[n]
    <2>1. Len(Table[n]) = y - x /\ \A i \in 1 .. y - x : Profile[x + i] = Table[n][i]
      BY <1>1, <1>3
    <2>2. \A i \in 1 .. Len(u) : u[i] = Table[n][i]
      BY <1>4, <2>1
    <2>3. QED
      BY <1>1, <1>4, <2>1, <2>2, SeqEqual
  <1>6. QED
    BY <1>3, <1>5 DEF u

LEMMA SplitFacts ==
  ASSUME NEW k \in 0 .. Depth, NEW L \in Nat, Reach(k) <= L, L <= Len(Profile)
  PROVE  \E m \in k .. Depth : SplitAt(k, L, m)
  <1>1. PICK b \in k .. Depth : /\ b > k => Reach(b - 1) + 2 <= L
                                /\ b < Depth => Reach(b) + 2 > L
    <2>1. \E m \in k .. Depth : /\ m > k => Reach(m - 1) + 2 <= L
                                /\ m < Depth => Reach(m) + 2 > L
      BY RowsBegun, Zenon
    <2>2. QED
      BY <2>1, Zenon
  <1> DEFINE data == SubSeq(Profile, Reach(k) + 1, L)
             e == [i \in 1 .. b - k |-> Reach(k + i - 1) - Reach(k) + 1]
  <1>2. MarkSeq(data) = e /\ e \in Seq(Nat) /\ Len(e) = b - k
    BY <1>1, MarksOfPart
  <1>3. /\ Depth \in Nat /\ Profile \in Seq(Nat) /\ Len(Profile) \in Nat /\ Reach(Depth) = Len(Profile)
        /\ \A i \in 0 .. Depth : Reach(i) \in Nat
        /\ \A i, j \in 0 .. Depth : i < j => Reach(i) + 3 <= Reach(j)
        /\ \A i, j \in 0 .. Depth : i <= j => Reach(i) <= Reach(j)
    BY ReachFacts
  <1>4. Table \in Seq(Seq(Nat)) /\ Len(Table) = Depth
    BY ProfileAssumption DEF Depth
  <1>5. L = Len(Profile) /\ k < Depth => b = Depth
    <2> SUFFICES ASSUME b < Depth, L = Len(Profile) PROVE FALSE
      BY <1>3
    <2>1. b \in 0 .. Depth /\ Depth \in 0 .. Depth
      BY <1>3
    <2>2. PICK y \in Nat : y = Reach(b)
      BY <1>3, <2>1
    <2>3. y + 3 <= L
      BY <1>3, <2>1, <2>2
    <2>4. y + 2 > L
      BY <1>1, <2>2
    <2>5. QED
      BY <2>3, <2>4
  <1>6. PICK z \in Nat : z = Reach(k) /\ z <= L
    BY <1>3
  <1>7. Len(data) = L - z
    <2>1. Len(SubSeq(Profile, z + 1, L)) = L - z
      BY <1>3, <1>6, BytesFrom
    <2>2. QED
      BY <1>6, <2>1
  <1> HIDE DEF data
  <1>8. CASE b - k < 2
    <2> HIDE DEF e
    <2>1. SplitRows(data) = <<>>
      <3>1. SplitRows(data) = [i \in 1 .. Len(e) - 1 |-> SubSeq(data, e[i], e[i + 1] - 1)]
        BY <1>2 DEF SplitRows
      <3>2. 1 .. Len(e) - 1 = {}
        BY <1>2, <1>3, <1>8
      <3>3. SplitRows(data) = [i \in {} |-> SubSeq(data, e[i], e[i + 1] - 1)]
        BY <3>1, <3>2, Zenon
      <3>4. \A f : f = [i \in {} |-> SubSeq(data, e[i], e[i + 1] - 1)] => f = <<>>
        OBVIOUS
      <3>5. QED
        BY <3>3, <3>4, Zenon
    <2>2. Remainder(data) = data
      BY <1>2, <1>8 DEF Remainder
    <2>3. SubSeq(Table, k + 1, k) = <<>>
      BY <1>3, <1>4
    <2>4. L = Len(Profile) /\ k < Depth => k = Depth - 1
      BY <1>3, <1>5, <1>8
    <2>5. k \in k .. Depth
      BY <1>3
    <2>6. SplitAt(k, L, k)
      BY <2>1, <2>2, <2>3, <2>4 DEF SplitAt, data
    <2>7. QED
      BY <2>5, <2>6
  <1>9. CASE b - k >= 2
    <2>1. PICK m \in k .. Depth : /\ m = b - 1 /\ m - k = b - k - 1 /\ m < Depth /\ m \in 0 .. Depth
                                  /\ m >= k
      BY <1>3, <1>9
    <2>2. ASSUME NEW i \in 1 .. m - k
          PROVE  SubSeq(data, e[i], e[i + 1] - 1) = Table[k + i]
      <3>1. PICK r \in 0 .. Depth, n \in 1 .. Depth :
              /\ r = k + i - 1 /\ n = k + i /\ n - 1 = r /\ r < n /\ n <= m /\ n \in 0 .. Depth
              /\ r >= k
        BY <1>3, <2>1
      <3>2. PICK x \in Nat, y \in Nat : x = Reach(r) /\ y = Reach(n)
        BY <1>3, <3>1
      <3>3. z <= x /\ x + 3 <= y
        BY <1>3, <1>6, <3>1, <3>2
      <3>4. y <= L
        <4>1. PICK a \in Nat : a = Reach(m) /\ y <= a
          BY <1>3, <2>1, <3>1, <3>2
        <4>2. a + 2 <= L
          BY <1>1, <1>3, <1>9, <2>1, <4>1
        <4>3. QED
          BY <4>1, <4>2
      <3>5. e[i] = x - z + 1 /\ e[i + 1] = y - z + 1
        <4>1. i \in 1 .. b - k /\ i + 1 \in 1 .. b - k /\ k + (i + 1) - 1 = n
          BY <1>3, <2>1, <3>1
        <4>2. e[i] = Reach(k + i - 1) - Reach(k) + 1 /\ e[i + 1] = Reach(k + (i + 1) - 1) - Reach(k) + 1
          BY <4>1
        <4> HIDE DEF e
        <4>3. QED
          BY <1>6, <3>1, <3>2, <4>1, <4>2
      <3> HIDE DEF e
      <3>6. e[i] = (x - z) + 1 /\ e[i + 1] - 1 = y - z /\ x <= y
        BY <3>3, <3>5
      <3>7. SubSeq(data, (x - z) + 1, y - z) = SubSeq(Profile, x + 1, y)
        <4>1. SubSeq(SubSeq(Profile, z + 1, L), (x - z) + 1, y - z) = SubSeq(Profile, x + 1, y)
          BY <1>3, <3>3, <3>4, <3>6, PartOfPart
        <4>2. QED
          BY <1>6, <4>1 DEF data
      <3>8. SubSeq(Profile, x + 1, y) = Table[n]
        BY <3>1, <3>2, RowBytes
      <3>9. QED
        BY <3>1, <3>6, <3>7, <3>8
    <2>3. SplitRows(data) = SubSeq(Table, k + 1, m)
      <3>1. SplitRows(data) = [i \in 1 .. m - k |-> SubSeq(data, e[i], e[i + 1] - 1)]
        <4> HIDE DEF e
        <4>1. Len(e) - 1 = m - k
          BY <1>2, <1>3, <2>1
        <4>2. QED
          BY <1>2, <4>1 DEF SplitRows
      <3> HIDE DEF e
      <3>2. SplitRows(data) = [i \in 1 .. m - k |-> Table[k + i]]
        BY <2>2, <3>1
      <3>3. SubSeq(Table, k + 1, m) = [i \in 1 .. m - k |-> Table[k + i]]
        BY <1>3, <1>4, <2>1
      <3>4. QED
        BY <3>2, <3>3
    <2>4. PICK x \in Nat : x = Reach(m)
      BY <1>3, <2>1
    <2>5. z <= x /\ x + 2 <= L
      BY <1>1, <1>3, <1>6, <1>9, <2>1, <2>4
    <2>6. Remainder(data) = SubSeq(Profile, Reach(m) + 1, L)
      <3>1. e[b - k] = x - z + 1
        <4>1. b - k \in 1 .. b - k /\ k + (b - k) - 1 = m
          BY <1>3, <1>9, <2>1
        <4>2. e[b - k] = Reach(k + (b - k) - 1) - Reach(k) + 1
          BY <4>1
        <4> HIDE DEF e
        <4>3. QED
          BY <1>6, <2>4, <4>1, <4>2
      <3> HIDE DEF e
      <3>2. Remainder(data) = SubSeq(data, e[b - k], L - z)
        <4>1. ~ (Len(e) < 2) /\ Len(e) = b - k
          BY <1>2, <1>9
        <4>2. Remainder(data) = IF Len(e) < 2 THEN data ELSE SubSeq(data, e[Len(e)], Len(data))
          BY <1>2 DEF Remainder
        <4>3. QED
          BY <1>7, <4>1, <4>2, Zenon
      <3>3. SubSeq(SubSeq(Profile, z + 1, L), (x - z) + 1, L - z) = SubSeq(Profile, x + 1, L)
        BY <1>3, <2>5, PartOfPart
      <3>4. QED
        BY <1>6, <2>4, <3>1, <3>2, <3>3 DEF data
    <2>7. Reach(m) <= L
      BY <2>4, <2>5
    <2>8. L = Len(Profile) /\ k < Depth => m = Depth - 1
      BY <1>5, <2>1
    <2>9. SplitAt(k, L, m)
      BY <2>3, <2>6, <2>7, <2>8 DEF SplitAt, data
    <2>10. QED
      BY <2>9
  <1>10. b - k < 2 \/ b - k >= 2
    BY <1>3
  <1>11. QED
    BY <1>8, <1>9, <1>10

-----------------------------------------------------------------------------
(* Blocks and the rows handed out *)

\* The blocks received so far are the beginning of the profile.
LEMMA CutFacts ==
  ASSUME NEW l \in Layouts
  PROVE  /\ Len(l) \in Nat \ {0} /\ l \in Seq(Seq(Nat)) /\ FlattenSeq(l) = Profile
         /\ Off(l, 0) = 0 /\ Off(l, Len(l)) = Len(Profile)
         /\ \A n \in 0 .. Len(l) : Off(l, n) \in Nat /\ Off(l, n) <= Len(Profile)
         /\ \A n \in 1 .. Len(l) :
               /\ l[n] \in Seq(Nat) /\ Off(l, n) = Off(l, n - 1) + Len(l[n])
               /\ \A i \in 1 .. Len(l[n]) : Profile[Off(l, n - 1) + i] = l[n][i]
  <1>1. l \in Seq(Seq(Nat)) /\ l # <<>> /\ FlattenSeq(l) = Profile
    BY ProfileAssumption DEF Profile
  <1>2. Len(l) \in Nat \ {0}
    BY <1>1
  <1>3. /\ Off(l, 0) = 0 /\ Off(l, Len(l)) = Len(Profile)
        /\ \A n \in 0 .. Len(l) : Off(l, n) \in Nat
        /\ \A n \in 1 .. Len(l) : Off(l, n) = Off(l, n - 1) + Len(l[n])
        /\ \A m, n \in 0 .. Len(l) : m <= n => Off(l, m) <= Off(l, n)
        /\ \A n \in 1 .. Len(l) : \A i \in 1 .. Len(l[n]) : Profile[Off(l, n - 1) + i] = l[n][i]
    <2>1. l \in Seq(Seq(Nat)) /\ FlattenSeq(l) = Profile
      BY <1>1
    <2>2. QED
      BY <2>1, PieceFacts, Zenon
  <1>4. \A n \in 0 .. Len(l) : Off(l, n) <= Len(Profile)
    <2>1. ASSUME NEW n \in 0 .. Len(l) PROVE n <= Len(l) /\ Len(l) \in 0 .. Len(l)
      BY <1>2
    <2>2. QED
      BY <1>3, <2>1
  <1>5. \A n \in 1 .. Len(l) : l[n] \in Seq(Nat)
    BY <1>1
  <1>6. QED
    BY <1>1, <1>2, <1>3, <1>4, <1>5

\* The next block goes on where the bytes kept so far end.
LEMMA NextCut ==
  ASSUME NEW l \in Layouts, NEW n \in 1 .. Len(l), NEW z \in Nat, z <= Off(l, n - 1)
  PROVE  SubSeq(Profile, z + 1, Off(l, n - 1)) \o l[n] = SubSeq(Profile, z + 1, Off(l, n))
  <1>1. n - 1 \in 0 .. Len(l) /\ n \in 0 .. Len(l)
    BY CutFacts
  <1>2. PICK x \in Nat, y \in Nat : x = Off(l, n - 1) /\ y = Off(l, n) /\ y <= Len(Profile)
    BY <1>1, CutFacts
  <1>3. l[n] \in Seq(Nat) /\ Len(l[n]) \in Nat /\ y = x + Len(l[n]) /\ \A i \in 1 .. Len(l[n]) : Profile[x + i] = l[n][i]
    <2>1. l[n] \in Seq(Nat) /\ y = x + Len(l[n]) /\ \A i \in 1 .. Len(l[n]) : Profile[x + i] = l[n][i]
      BY <1>2, CutFacts
    <2>2. Len(l[n]) \in Nat
      BY <2>1
    <2>3. QED
      BY <2>1, <2>2
  <1>4. Profile \in Seq(Nat) /\ Len(Profile) \in Nat /\ z <= x /\ x <= y /\ x <= Len(Profile) /\ z <= y
    BY <1>2, <1>3, ReachFacts
  <1> DEFINE u == SubSeq(Profile, z + 1, x)
             v == SubSeq(Profile, z + 1, y)
  <1>5. u \in Seq(Nat) /\ Len(u) = x - z /\ \A i \in 1 .. x - z : u[i] = Profile[z + i]
    BY <1>4, BytesFrom
  <1>6. v \in Seq(Nat) /\ Len(v) = y - z /\ \A i \in 1 .. y - z : v[i] = Profile[z + i]
    BY <1>4, <1>2, BytesFrom
  <1> HIDE DEF u, v
  <1>7. PICK b \in Seq(Nat), c \in Nat : b = l[n] /\ c = Len(b)
    BY <1>3
  <1> DEFINE w == u \o b
  <1>8. /\ w \in Seq(Nat) /\ Len(w) = (x - z) + c
        /\ \A i \in 1 .. x - z : w[i] = u[i]
        /\ \A i \in x - z + 1 .. x - z + c : w[i] = b[i - (x - z)]
    <2>1. ASSUME NEW p \in Seq(Nat), NEW q \in Seq(Nat)
          PROVE  /\ p \o q \in Seq(Nat) /\ Len(p \o q) = Len(p) + Len(q)
                 /\ \A i \in 1 .. Len(p) : (p \o q)[i] = p[i]
                 /\ \A i \in Len(p) + 1 .. Len(p) + Len(q) : (p \o q)[i] = q[i - Len(p)]
      OBVIOUS
    <2> HIDE DEF w
    <2>2. /\ w \in Seq(Nat) /\ Len(w) = Len(u) + Len(b)
          /\ \A i \in 1 .. Len(u) : w[i] = u[i]
          /\ \A i \in Len(u) + 1 .. Len(u) + Len(b) : w[i] = b[i - Len(u)]
      BY <1>5, <1>7, <2>1 DEF w
    <2>3. Len(u) = x - z /\ Len(b) = c
      BY <1>5, <1>7
    <2>4. QED
      BY <2>2, <2>3, Zenon
  <1> HIDE DEF w
  <1>9. ASSUME NEW i \in 1 .. Len(w) PROVE w[i] = v[i]
    <2>1. i \in 1 .. y - z
      BY <1>3, <1>4, <1>7, <1>8
    <2>2. CASE i <= x - z
      <3>1. i \in 1 .. x - z
        BY <2>1, <2>2
      <3>2. QED
        BY <1>5, <1>6, <1>8, <2>1, <3>1
    <2>3. CASE i > x - z
      <3>1. i \in x - z + 1 .. x - z + c /\ i - (x - z) \in 1 .. c /\ x + (i - (x - z)) = z + i
        BY <1>3, <1>4, <1>7, <2>1, <2>3
      <3>2. Profile[x + (i - (x - z))] = b[i - (x - z)]
        BY <1>3, <1>7, <3>1
      <3>3. QED
        BY <1>6, <1>8, <2>1, <3>1, <3>2
    <2>4. QED
      BY <2>1, <2>2, <2>3
  <1>10. Len(w) = Len(v)
    BY <1>3, <1>4, <1>6, <1>7, <1>8
  <1>11. w = v
    BY <1>6, <1>8, <1>9, <1>10, SeqEqual
  <1>12. QED
    BY <1>2, <1>7, <1>11 DEF u, v, w

\* All the rows of the table decode, so a part of them is handed out but for the rows
\* outside the range.
LEMMA HandedPart ==
  ASSUME NEW k \in 0 .. Depth, NEW m \in k .. Depth
  PROVE  /\ AllDecode(SubSeq(Table, k + 1, m))
         /\ Handed(SubSeq(Table, k + 1, m)) = Selected(SubSeq(Table, k + 1, m))
  <1> DEFINE s == SubSeq(Table, k + 1, m)
  <1>1. Table \in Seq(Seq(Nat)) /\ Len(Table) = Depth /\ Depth \in Nat
    BY ProfileAssumption DEF Depth
  <1>2. s \in Seq(Seq(Nat)) /\ Len(s) = m - k /\ \A i \in 1 .. m - k : s[i] = Table[k + i]
    BY <1>1
  <1> HIDE DEF s
  <1>3. ASSUME NEW i \in 1 .. Len(s) PROVE Decodes(s[i])
    <2>1. k + i \in 1 .. Len(Table) /\ i \in 1 .. m - k
      BY <1>1, <1>2
    <2>2. IsRow(Table[k + i])
      BY <2>1, ProfileAssumption
    <2>3. QED
      BY <1>2, <2>1, <2>2 DEF IsRow, Decodes
  <1>4. {i \in 1 .. Len(s) : ~ Decodes(s[i])} = {}
    BY <1>3
  <1>5. Handed(s) = Selected(s)
    BY <1>4 DEF Handed
  <1>6. QED
    BY <1>3, <1>5 DEF AllDecode, s

\* The rows of the range among the first k.
Chosen(k) == Selected(SubSeq(Table, 1, k))

LEMMA ChosenFacts ==
  /\ Chosen(0) = <<>> /\ Chosen(Depth) = Selected(Table)
  /\ \A k \in 0 .. Depth : Chosen(k) \in Seq(Seq(Nat))
  /\ \A k \in 0 .. Depth : \A m \in k .. Depth :
        /\ Chosen(m) = Chosen(k) \o Selected(SubSeq(Table, k + 1, m))
        /\ Selected(SubSeq(Table, k + 1, m)) \in Seq(Seq(Nat))
  <1> DEFINE h == [i \in 1 .. Len(Table) |-> IF InWindow(Table[i]) THEN <<Table[i]>> ELSE <<>>]
  <1>1. Table \in Seq(Seq(Nat)) /\ Len(Table) = Depth /\ Depth \in Nat
    BY ProfileAssumption DEF Depth
  <1>2. h \in Seq(Seq(Seq(Nat))) /\ Len(h) = Depth
    <2>1. \A i \in 1 .. Len(Table) : (IF InWindow(Table[i]) THEN <<Table[i]>> ELSE <<>>) \in Seq(Seq(Nat))
      BY <1>1
    <2>2. QED
      BY <1>1, <2>1
  <1>3. ASSUME NEW k \in 0 .. Depth, NEW m \in k .. Depth
        PROVE  Selected(SubSeq(Table, k + 1, m)) = FlattenSeq(SubSeq(h, k + 1, m))
    <2> DEFINE s == SubSeq(Table, k + 1, m)
    <2>1. Len(s) = m - k /\ \A i \in 1 .. m - k : s[i] = Table[k + i]
      BY <1>1
    <2>2. \A i \in 1 .. m - k : h[k + i] = IF InWindow(Table[k + i]) THEN <<Table[k + i]>> ELSE <<>>
      <3>1. \A i \in 1 .. m - k : k + i \in 1 .. Len(Table)
        BY <1>1
      <3>2. QED
        BY <3>1
    <2>3. Selected(s) = FlattenSeq([i \in 1 .. Len(s) |-> IF InWindow(s[i]) THEN <<s[i]>> ELSE <<>>])
      BY DEF Selected
    <2> HIDE DEF s, h
    <2>4. [i \in 1 .. Len(s) |-> IF InWindow(s[i]) THEN <<s[i]>> ELSE <<>>] = [i \in 1 .. m - k |-> h[k + i]]
      BY <2>1, <2>2
    <2>5. SubSeq(h, k + 1, m) = [i \in 1 .. m - k |-> h[k + i]]
      BY <1>1, <1>2
    <2>6. QED
      BY <2>3, <2>4, <2>5 DEF s
  <1> HIDE DEF h
  <1>4. ASSUME NEW k \in 0 .. Depth PROVE Chosen(k) = Upto(h, k)
    <2>1. 0 \in 0 .. Depth /\ k \in 0 .. Depth /\ 0 + 1 = 1
      BY <1>1
    <2>2. QED
      BY <1>3, <2>1 DEF Chosen, Upto
  <1>5. /\ Upto(h, 0) = <<>> /\ \A k \in 0 .. Depth : Upto(h, k) \in Seq(Seq(Nat))
    BY <1>2, UptoFacts, Zenon
  <1>6. SubSeq(Table, 1, Depth) = Table
    BY <1>1, SubSeqFull
  <1>7. \A k \in 0 .. Depth : \A m \in k .. Depth : Upto(h, m) = Upto(h, k) \o FlattenSeq(SubSeq(h, k + 1, m))
    BY <1>2, FlattenSplit, Zenon
  <1>8. ASSUME NEW k \in 0 .. Depth, NEW m \in k .. Depth
        PROVE  /\ Chosen(m) = Chosen(k) \o Selected(SubSeq(Table, k + 1, m))
               /\ Selected(SubSeq(Table, k + 1, m)) \in Seq(Seq(Nat))
    <2>1. m \in 0 .. Depth
      BY <1>1
    <2>2. Chosen(m) = Chosen(k) \o Selected(SubSeq(Table, k + 1, m))
      BY <1>3, <1>4, <1>7, <2>1
    <2>3. PICK t : t = SubSeq(h, k + 1, m) /\ t \in Seq(Seq(Seq(Nat))) /\ Len(t) \in 0 .. Len(t)
      <3> DEFINE t == SubSeq(h, k + 1, m)
      <3>1. t \in Seq(Seq(Seq(Nat))) /\ Len(t) \in 0 .. Len(t)
        BY <1>1, <1>2
      <3>2. QED
        BY <3>1
    <2>4. FlattenSeq(t) \in Seq(Seq(Nat))
      BY <2>3, UptoFacts, Zenon
    <2>5. QED
      BY <1>3, <2>2, <2>3, <2>4
  <1>9. Chosen(0) = <<>> /\ Chosen(Depth) = Selected(Table)
    <2>1. 0 \in 0 .. Depth
      BY <1>1
    <2>2. QED
      BY <1>4, <1>5, <1>6, <2>1 DEF Chosen
  <1>10. QED
    BY <1>4, <1>5, <1>8, <1>9

-----------------------------------------------------------------------------
(* The transfer of a profile *)

\* The block the transfer waits for.
Wanted == IF pending = 0 THEN 1 ELSE pending

\* Before the transfer and without one, nothing is kept or handed out.
Fresh == op # "profile" \/ phase \in {"ua", "aare"} => buf = <<>> /\ rows = <<>> /\ pending = 0

\* A question under way asks for the block the transfer waits for, and an answer is that
\* block; the whole profile comes in answer to the first question alone.
ThisPart ==
    phase = "block" =>
        /\ Wanted \in 1 .. Len(layout)
        /\ \A k \in 1 .. Len(toMeter) :
              /\ toMeter[k].kind = "RANGE" => pending = 0
              /\ toMeter[k].kind = "NEXT" => pending # 0 /\ toMeter[k].about = <<pending>>
        /\ \A k \in 1 .. Len(line) :
              /\ line[k].kind = "WHOLE" => pending = 0
              /\ line[k].kind = "BLOCK" => line[k].about = <<Wanted>>

LEMMA ThisPartStep ==
  ASSUME Typed, Handshake, OnePart, Fresh, ThisPart, [Next]_vars
  PROVE  ThisPart'
  <1> USE DEF setting, batch, transfer, counters, meter
  <1>0. /\ toMeter \in Seq(Request) /\ line \in Seq(AnyFrame) /\ Placed /\ Len(toMeter) \in Nat
        /\ Len(line) \in Nat /\ layout \in Layouts /\ pending \in Nat
    BY DEF Typed, SessionTypeOK
  <1>a. Len(layout) \in Nat \ {0}
    BY <1>0, CutFacts
  <1>1. CASE Quiet
    <2>1. UNCHANGED <<phase, pending, toMeter, layout>>
      BY <1>1 DEF Quiet
    <2>2. PICK d \in Nat : \A k \in 1 .. Len(line') :
             line'[k].kind = "TORN" \/ (k + d \in 1 .. Len(line) /\ line'[k] = line[k + d])
      BY <1>1, ShiftedFacts, ZenonT(90) DEF Quiet, Typed
    <2>3. \A k \in 1 .. Len(line') : line'[k].kind \in {"WHOLE", "BLOCK"} =>
              k + d \in 1 .. Len(line) /\ line'[k] = line[k + d]
      BY <2>2
    <2>4. QED
      BY <2>1, <2>3 DEF ThisPart, Wanted
  <1>2. CASE Exception
    BY <1>2 DEF Exception, Failed, Repeat, Over, Ends, ThisPart
  <1>3. CASE SnrmAgain \/ UaArrives \/ AarqAgain
    BY <1>3 DEF SnrmAgain, UaArrives, AarqAgain, ThisPart
  <1>4. CASE Accepted /\ phase' = "block"
    <2>1. /\ phase = "aare" /\ op = "profile" /\ line # <<>> /\ line' = Tail(line)
          /\ UNCHANGED <<pending, layout>>
          /\ Send(Req("RANGE", <<>>, ns, 1))
      BY <1>0, <1>4 DEF Accepted, AskItem, Placed
    <2>2. /\ \A k \in 1 .. Len(toMeter) : toMeter[k].kind \in Control
          /\ \A k \in 1 .. Len(line) : line[k].kind \notin Parts
      BY <2>1 DEF Handshake, Supervisory, Shakes, Parts
    <2>3. \A k \in 1 .. Len(line') : line'[k].kind \notin Parts
      <3>1. \A k \in 1 .. Len(line') : k + 1 \in 1 .. Len(line) /\ line'[k] = line[k + 1]
        BY <1>0, <2>1, TailFacts
      <3>2. QED
        BY <2>2, <3>1
    <2> DEFINE r == Req("RANGE", <<>>, ns, 1)
    <2>4. r \in Request /\ r.kind = "RANGE" /\ toMeter' = Append(toMeter, r)
      <3>1. r \in Request
        BY CountTypes, RequestTypes
      <3>2. QED
        BY <2>1, <3>1 DEF Req, Send
    <2> HIDE DEF r
    <2>5. /\ Len(toMeter') = Len(toMeter) + 1 /\ toMeter'[Len(toMeter')] = r
          /\ \A k \in 1 .. Len(toMeter) : toMeter'[k] = toMeter[k]
      BY <1>0, <2>4, SentFacts
    <2>6. \A k \in 1 .. Len(toMeter') : k \in 1 .. Len(toMeter) \/ k = Len(toMeter')
      BY <1>0, <2>5
    <2>7. \A k \in 1 .. Len(toMeter') : toMeter'[k].kind # "NEXT"
      BY <2>2, <2>4, <2>5, <2>6 DEF Control
    <2>8. pending' = 0 /\ layout' = layout
      BY <2>1 DEF Fresh
    <2>9. QED
      BY <1>a, <2>3, <2>7, <2>8 DEF ThisPart, Wanted, Parts
  <1>5. CASE Accepted /\ phase' # "block"
    BY <1>5 DEF ThisPart
  <1>6. CASE ScalerArrives
    BY <1>6 DEF ScalerArrives, ThisPart
  <1>7. CASE ValueArrives
    BY <1>7 DEF ValueArrives, AskItem, ThisPart
  <1>8. CASE NextPart
    <2>1. /\ phase = "block" /\ line # <<>> /\ Head(line).kind \in Parts /\ line' = Tail(line)
          /\ layout' = layout
      BY <1>8 DEF NextPart
    <2>2. /\ Head(line) = line[1] /\ 1 \in 1 .. Len(line)
          /\ \A k \in 1 .. Len(line') : k + 1 \in 1 .. Len(line) /\ line'[k] = line[k + 1] /\ k + 1 # 1
      BY <1>0, <2>1, TailFacts
    <2>3. toMeter = <<>> /\ \A j \in 1 .. Len(line) : line[j].kind \in Parts => j = 1
      BY <2>1, <2>2 DEF OnePart
    <2>4. \A k \in 1 .. Len(line') : line'[k].kind \notin Parts
      BY <2>2, <2>3
    <2>5. PICK b \in 1 .. Len(layout) : \E i : Ask(b, i)
      <3>1. CASE BlockArrives
        <4> DEFINE n == Head(line).about[1]
        <4>1. Head(line).kind = "BLOCK"
          BY <3>1 DEF BlockArrives
        <4>2. n = Wanted /\ Wanted \in 1 .. Len(layout)
          BY <2>1, <2>2, <4>1 DEF ThisPart
        <4>3. n = Len(layout) \/ \E i : Ask(n + 1, i) \/ End("partial", "garbled")
          BY <3>1 DEF BlockArrives, TakeRows
        <4>4. n # Len(layout) \/ End("done", "none") \/ End("partial", "garbled")
          BY <3>1 DEF BlockArrives, TakeRows
        <4>5. ~ End("done", "none") /\ ~ End("partial", "garbled")
          BY <1>8 DEF NextPart, Ask, End
        <4> HIDE DEF n
        <4>6. n + 1 \in 1 .. Len(layout)
          BY <1>a, <4>2, <4>4, <4>5
        <4>7. QED
          BY <4>3, <4>4, <4>5, <4>6
      <3>2. CASE BlockRefused
        <4>1. CASE pending = 0
          <5>1. Fail(Tail(line), "refused") \/ End("crashed", "unbound")
            BY <3>2, <4>1 DEF BlockRefused
          <5>2. ~ End("crashed", "unbound")
            BY <1>8 DEF NextPart, Ask, End
          <5>3. ~ Fail(Tail(line), "refused")
            BY <1>0, <1>8 DEF NextPart, Ask, Fail, End, Repeat, Placed
          <5>4. QED
            BY <5>1, <5>2, <5>3
        <4>2. CASE pending # 0
          <5>1. pending \in 1 .. Len(layout)
            BY <2>1, <4>2 DEF ThisPart, Wanted
          <5>2. Fail(Tail(line), "refused") \/ Ask(pending, Increased)
            BY <3>2, <4>2 DEF BlockRefused
          <5>3. ~ Fail(Tail(line), "refused")
            BY <1>0, <1>8 DEF NextPart, Ask, Fail, End, Repeat, Placed
          <5>4. QED
            BY <5>1, <5>2, <5>3
        <4>3. QED
          BY <4>1, <4>2
      <3>3. QED
        BY <1>8, <3>1, <3>2 DEF NextPart
    <2>6. PICK i : Send(Req("NEXT", <<b>>, ns, i)) /\ pending' = b
      BY <2>5 DEF Ask
    <2> DEFINE r == Req("NEXT", <<b>>, ns, i)
    <2>7. r.kind = "NEXT" /\ r.about = <<b>> /\ toMeter' = Append(<<>>, r)
      BY <2>3, <2>6 DEF Req, Send
    <2> HIDE DEF r
    <2>8. Len(toMeter') = 1 /\ toMeter'[1] = r
      BY <2>7
    <2>9. QED
      BY <1>a, <2>1, <2>4, <2>6, <2>7, <2>8 DEF ThisPart, Wanted, Parts
  <1>9. CASE LastPart \/ Confirmed
    BY <1>9 DEF LastPart, Confirmed, Over, Ends, ThisPart
  <1>10. CASE MeterStep /\ phase = "block"
    <2>1. Taken
      BY <1>10, MeterKinds
    <2> DEFINE q == toMeter[1]
    <2>2. /\ Len(toMeter) \in Nat \ {0} /\ Head(toMeter) = q /\ q \in Request /\ toMeter # <<>>
          /\ \A k \in 1 .. Len(toMeter') : k + 1 \in 1 .. Len(toMeter) /\ toMeter'[k] = toMeter[k + 1]
      BY <1>0, <2>1, TailFacts DEF Taken
    <2>3. /\ q.kind \in Control \cup Blockwise
          /\ q.kind = "RANGE" => pending = 0
          /\ q.kind = "NEXT" => pending # 0 /\ q.about = <<pending>>
      <3>1. 1 \in 1 .. Len(toMeter)
        BY <2>2
      <3>2. QED
        BY <1>10, <3>1 DEF OnePart, ThisPart
    <2> HIDE DEF q
    <2>4. /\ Len(line') \in Nat
          /\ \A k \in 1 .. Len(line) : line'[k] = line[k]
          /\ \A k \in 1 .. Len(line') : k > Len(line) =>
               line'[k].kind = "RR" \/ (k = Len(line') /\ line'[k] \in Answers(q))
      BY <2>1, <2>2 DEF Taken
    <2>5. \A k \in 1 .. Len(line') : k > Len(line) \/ k \in 1 .. Len(line)
      BY <1>0, <2>4
    <2>6. UNCHANGED <<phase, pending, layout>>
      BY <2>1 DEF Taken
    <2>7. ASSUME NEW f \in Answers(q)
          PROVE  /\ f.kind = "WHOLE" => pending = 0
                 /\ f.kind = "BLOCK" => f.about = <<Wanted>>
      BY <2>3, <2>7 DEF Answers, Frame, Control, Blockwise, Wanted
    <2>8. \A k \in 1 .. Len(line') :
             /\ line'[k].kind = "WHOLE" => pending = 0
             /\ line'[k].kind = "BLOCK" => line'[k].about = <<Wanted>>
      <3>1. \A k \in 1 .. Len(line) :
               /\ line[k].kind = "WHOLE" => pending = 0
               /\ line[k].kind = "BLOCK" => line[k].about = <<Wanted>>
        BY <1>10 DEF ThisPart
      <3>2. QED
        BY <2>4, <2>5, <2>7, <3>1
    <2>9. \A k \in 1 .. Len(toMeter') :
              /\ toMeter'[k].kind = "RANGE" => pending = 0
              /\ toMeter'[k].kind = "NEXT" => pending # 0 /\ toMeter'[k].about = <<pending>>
      BY <1>10, <2>2 DEF ThisPart
    <2>10. QED
      BY <1>10, <2>6, <2>8, <2>9 DEF ThisPart, Wanted
  <1>11. CASE MeterStep /\ phase # "block"
    BY <1>11, MeterKinds DEF Taken, ThisPart
  <1>12. QED
    BY <1>1, <1>2, <1>3, <1>4, <1>5, <1>6, <1>7, <1>8, <1>9, <1>10, <1>11, StepKinds

\* The last row has nothing after it that could show where it ends: what is left is it.
LEMMA LastRow ==
  ASSUME NEW k \in 0 .. Depth
  PROVE  LET d == SubSeq(Profile, Reach(k) + 1, Len(Profile))
             rest == Remainder(d)
         IN  SplitRows(d) \o (IF rest = <<>> THEN <<>> ELSE <<rest>>) = SubSeq(Table, k + 1, Depth)
  <1> DEFINE d == SubSeq(Profile, Reach(k) + 1, Len(Profile))
             rest == Remainder(d)
  <1>1. /\ Depth \in Nat /\ Len(Profile) \in Nat /\ Reach(Depth) = Len(Profile) /\ Profile \in Seq(Nat)
        /\ Reach(k) \in Nat /\ Reach(k) <= Len(Profile)
    <2>1. Depth \in 0 .. Depth /\ k \in 0 .. Depth /\ k <= Depth
      BY ReachFacts
    <2>2. QED
      BY <2>1, ReachFacts
  <1>2. Table \in Seq(Seq(Nat)) /\ Len(Table) = Depth
    BY ProfileAssumption DEF Depth
  <1>3. PICK m \in k .. Depth : SplitAt(k, Len(Profile), m)
    BY <1>1, SplitFacts
  <1>4. /\ SplitRows(d) = SubSeq(Table, k + 1, m)
        /\ rest = SubSeq(Profile, Reach(m) + 1, Len(Profile))
        /\ k < Depth => m = Depth - 1
    BY <1>3 DEF SplitAt
  <1> HIDE DEF d, rest
  <1>5. CASE k < Depth
    <2>1. m = Depth - 1 /\ Depth \in 1 .. Depth
      BY <1>1, <1>4, <1>5
    <2>2. rest = Table[Depth]
      BY <1>1, <1>4, <2>1, RowBytes
    <2>3. rest # <<>>
      <3>1. IsRow(Table[Depth])
        BY <1>2, <2>1, ProfileAssumption
      <3>2. QED
        BY <2>2, <3>1 DEF IsRow
    <2>4. SubSeq(Table, k + 1, Depth - 1) \o <<Table[Depth]>> = SubSeq(Table, k + 1, Depth)
      BY <1>1, <1>2, <1>5, SubSeqRecursiveSecond
    <2>5. QED
      BY <1>4, <2>1, <2>2, <2>3, <2>4 DEF d, rest
  <1>6. CASE k = Depth
    <2>1. m = Depth
      BY <1>1, <1>6
    <2>2. SubSeq(Table, Depth + 1, Depth) = <<>>
      BY <1>1, <1>2
    <2>3. rest = <<>>
      BY <1>1, <1>4, <2>1
    <2>4. SplitRows(d) \o <<>> = SubSeq(Table, k + 1, Depth)
      BY <1>4, <1>6, <2>1, <2>2, ConcatEmptySeq
    <2>5. QED
      BY <2>3, <2>4 DEF d, rest
  <1>7. k < Depth \/ k = Depth
    BY <1>1
  <1>8. QED
    BY <1>5, <1>6, <1>7

\* What has been received but not handed out begins where the rows handed out end.
Kept ==
    \E k \in 0 .. Depth :
        /\ rows = Chosen(k)
        /\ phase = "block" =>
              /\ Reach(k) <= Off(layout, Wanted - 1)
              /\ buf = SubSeq(Profile, Reach(k) + 1, Off(layout, Wanted - 1))

\* Nothing is handed out before the first block; everything is when the read is done.
Told ==
    /\ phase = "block" /\ pending = 0 => buf = <<>> /\ rows = <<>>
    /\ phase = "crashed" => rows = <<>>
    /\ op = "profile" /\ phase = "done" => rows = Chosen(Depth)

LEMMA CutTypes ==
  ASSUME Typed, ThisPart, phase = "block"
  PROVE  /\ layout \in Layouts /\ Wanted \in 1 .. Len(layout) /\ Wanted - 1 \in 0 .. Len(layout)
         /\ Len(layout) \in Nat /\ Wanted \in 0 .. Len(layout)
         /\ Off(layout, Wanted - 1) \in Nat /\ Off(layout, Wanted - 1) <= Len(Profile)
         /\ Off(layout, Wanted) \in Nat /\ Off(layout, Wanted) <= Len(Profile)
         /\ Off(layout, Len(layout)) = Len(Profile) /\ Off(layout, 0) = 0
         /\ Off(layout, Wanted - 1) <= Off(layout, Wanted)
  <1>1. layout \in Layouts /\ Wanted \in 1 .. Len(layout)
    BY DEF Typed, SessionTypeOK, ThisPart
  <1>2. Len(layout) \in Nat
    BY <1>1, CutFacts
  <1>3. PICK n \in 1 .. Len(layout) : n = Wanted /\ n - 1 \in 0 .. Len(layout) /\ n \in 0 .. Len(layout)
    BY <1>1, <1>2
  <1>4. /\ Off(layout, n - 1) \in Nat /\ Off(layout, n - 1) <= Len(Profile)
        /\ Off(layout, n) \in Nat /\ Off(layout, n) <= Len(Profile)
        /\ Off(layout, Len(layout)) = Len(Profile) /\ Off(layout, 0) = 0
        /\ layout[n] \in Seq(Nat) /\ Off(layout, n) = Off(layout, n - 1) + Len(layout[n])
    BY <1>1, <1>3, CutFacts
  <1>5. Len(layout[n]) \in Nat
    BY <1>4
  <1>6. Off(layout, n - 1) <= Off(layout, n)
    BY <1>4, <1>5
  <1>7. QED
    BY <1>1, <1>2, <1>3, <1>4, <1>6

\* A block that comes is the next piece of the profile: its whole rows are handed out.
LEMMA BlockTaken ==
  ASSUME Typed, OnePart, ThisPart, Kept, BlockArrives
  PROVE  \/ phase' = "done" /\ rows' = Chosen(Depth)
         \/ /\ phase' = "block" /\ pending' # 0 /\ layout' = layout
            /\ \E m \in 0 .. Depth :
                  /\ rows' = Chosen(m) /\ Reach(m) <= Off(layout, pending' - 1)
                  /\ buf' = SubSeq(Profile, Reach(m) + 1, Off(layout, pending' - 1))
  <1>1. /\ phase = "block" /\ line # <<>> /\ Head(line).kind = "BLOCK" /\ line \in Seq(AnyFrame)
        /\ layout' = layout
    BY DEF BlockArrives, Typed, setting
  <1>2. Head(line) = line[1] /\ 1 \in 1 .. Len(line)
    BY <1>1, TailFacts
  <1> DEFINE n == Head(line).about[1]
             data == buf \o layout[n]
             rest == Remainder(data)
  <1>3. n = Wanted
    BY <1>1, <1>2 DEF ThisPart
  <1>4. /\ layout \in Layouts /\ n \in 1 .. Len(layout) /\ n - 1 \in 0 .. Len(layout)
        /\ Len(layout) \in Nat
        /\ Off(layout, n - 1) \in Nat /\ Off(layout, n - 1) <= Off(layout, n)
        /\ Off(layout, n) \in Nat /\ Off(layout, n) <= Len(Profile)
        /\ Off(layout, Len(layout)) = Len(Profile)
    BY <1>1, <1>3, CutTypes
  <1>5. /\ IF n = Len(layout)
           THEN TakeRows(SplitRows(data) \o (IF rest = <<>> THEN <<>> ELSE <<rest>>),
                         End("done", "none") /\ pending' = pending)
           ELSE TakeRows(SplitRows(data), Ask(n + 1, IF growing THEN Increased ELSE invoke))
        /\ buf' = rest
    BY DEF BlockArrives
  <1> HIDE DEF n, data, rest
  <1>6. PICK k \in 0 .. Depth : /\ rows = Chosen(k) /\ Reach(k) <= Off(layout, n - 1)
                                /\ buf = SubSeq(Profile, Reach(k) + 1, Off(layout, n - 1))
    BY <1>1, <1>3 DEF Kept
  <1>7. Reach(k) \in Nat /\ Depth \in Nat /\ Depth \in k .. Depth
    <2>1. Reach(k) \in Nat /\ Depth \in Nat
      BY ReachFacts
    <2>2. QED
      BY <2>1
  <1>8. data = SubSeq(Profile, Reach(k) + 1, Off(layout, n)) /\ Reach(k) <= Off(layout, n)
    <2>1. SubSeq(Profile, Reach(k) + 1, Off(layout, n - 1)) \o layout[n]
            = SubSeq(Profile, Reach(k) + 1, Off(layout, n))
      BY <1>4, <1>6, <1>7, NextCut
    <2>2. data = buf \o layout[n]
      BY DEF data
    <2>3. Reach(k) <= Off(layout, n)
      BY <1>4, <1>6, <1>7
    <2>4. QED
      BY <1>6, <2>1, <2>2, <2>3
  <1>9. CASE n = Len(layout)
    <2> DEFINE c == SplitRows(data) \o (IF rest = <<>> THEN <<>> ELSE <<rest>>)
    <2>1. c = SubSeq(Table, k + 1, Depth)
      BY <1>4, <1>8, <1>9, LastRow DEF rest
    <2>2. TakeRows(c, End("done", "none") /\ pending' = pending)
      BY <1>5, <1>9
    <2> HIDE DEF c
    <2>3. AllDecode(c) /\ Handed(c) = Selected(SubSeq(Table, k + 1, Depth))
      BY <1>7, <2>1, HandedPart
    <2>4. phase' = "done" /\ rows' = rows \o Selected(SubSeq(Table, k + 1, Depth))
      BY <2>2, <2>3 DEF TakeRows, End
    <2>5. QED
      BY <1>6, <1>7, <2>4, ChosenFacts
  <1>10. CASE n # Len(layout)
    <2> DEFINE c == SplitRows(data)
    <2>1. PICK m \in k .. Depth : SplitAt(k, Off(layout, n), m)
      BY <1>4, <1>8, SplitFacts
    <2>2. /\ c = SubSeq(Table, k + 1, m) /\ rest = SubSeq(Profile, Reach(m) + 1, Off(layout, n))
          /\ Reach(m) <= Off(layout, n)
      BY <1>8, <2>1 DEF SplitAt, rest
    <2>3. TakeRows(c, Ask(n + 1, IF growing THEN Increased ELSE invoke))
      BY <1>5, <1>10
    <2> HIDE DEF c
    <2>4. AllDecode(c) /\ Handed(c) = Selected(SubSeq(Table, k + 1, m))
      BY <2>2, HandedPart
    <2>5. phase' = "block" /\ pending' = n + 1 /\ rows' = rows \o Selected(SubSeq(Table, k + 1, m))
      BY <1>1, <2>3, <2>4 DEF TakeRows, Ask
    <2>6. m \in 0 .. Depth
      BY <1>7
    <2>7. rows' = Chosen(m)
      BY <1>6, <2>5, ChosenFacts
    <2>8. pending' # 0 /\ pending' - 1 = n
      BY <1>4, <2>5
    <2>9. buf' = SubSeq(Profile, Reach(m) + 1, Off(layout, n))
      BY <1>5, <2>2
    <2>10. QED
      BY <1>1, <2>2, <2>5, <2>6, <2>7, <2>8, <2>9
  <1>11. QED
    BY <1>9, <1>10

\* The whole profile in one answer is split like the last of its blocks.
LEMMA WholeTaken ==
  ASSUME Typed, OnePart, ThisPart, Told, WholeArrives
  PROVE  phase' = "done" /\ rows' = Chosen(Depth)
  <1>1. /\ phase = "block" /\ line # <<>> /\ Head(line).kind = "WHOLE" /\ line \in Seq(AnyFrame)
        /\ layout \in Layouts
    BY DEF WholeArrives, Typed, SessionTypeOK
  <1>2. Head(line) = line[1] /\ 1 \in 1 .. Len(line)
    BY <1>1, TailFacts
  <1>3. buf = <<>> /\ rows = <<>>
    BY <1>1, <1>2 DEF ThisPart, Told
  <1> DEFINE data == buf \o FlattenSeq(layout)
             rest == Remainder(data)
             c == SplitRows(data) \o (IF rest = <<>> THEN <<>> ELSE <<rest>>)
  <1>4. TakeRows(c, End("done", "none") /\ pending' = pending)
    BY DEF WholeArrives
  <1>5. 0 \in 0 .. Depth /\ Depth \in 0 .. Depth /\ Reach(0) = 0 /\ Profile \in Seq(Nat)
    BY ReachFacts, TableFacts
  <1>6. data = SubSeq(Profile, Reach(0) + 1, Len(Profile))
    <2>1. FlattenSeq(layout) = Profile
      BY <1>1, CutFacts
    <2>2. <<>> \o Profile = Profile
      BY <1>5, ConcatEmptySeq
    <2>3. SubSeq(Profile, 1, Len(Profile)) = Profile
      BY <1>5, SubSeqFull
    <2>4. QED
      BY <1>3, <1>5, <2>1, <2>2, <2>3
  <1>7. c = SubSeq(Table, 0 + 1, Depth)
    BY <1>5, <1>6, LastRow
  <1> HIDE DEF c
  <1>8. AllDecode(c) /\ Handed(c) = Selected(SubSeq(Table, 0 + 1, Depth))
    BY <1>5, <1>7, HandedPart
  <1>9. phase' = "done" /\ rows' = rows \o Selected(SubSeq(Table, 0 + 1, Depth))
    BY <1>4, <1>8 DEF TakeRows, End
  <1>10. Chosen(Depth) = Chosen(0) \o Selected(SubSeq(Table, 0 + 1, Depth)) /\ Chosen(0) = <<>>
    BY <1>5, ChosenFacts
  <1>11. QED
    BY <1>3, <1>9, <1>10

\* A refusal leaves the rows alone; the first one of all comes before any of them.
LEMMA RefusalTaken ==
  ASSUME Typed, ThisPart, Told, BlockRefused
  PROVE  /\ phase = "block" /\ UNCHANGED <<op, layout, buf, rows>>
         /\ \/ phase' = "crashed" /\ rows = <<>>
            \/ phase' = "block" /\ pending' = pending /\ pending # 0
            \/ phase' \in {"partial", "failed"}
  <1>1. phase = "block" /\ op = "profile"
    BY DEF BlockRefused, Typed, Placed
  <1>2. CASE growing
    <2>1. Fail(Tail(line), "refused")
      BY <1>2 DEF BlockRefused
    <2>2. QED
      BY <1>1, <2>1 DEF Fail, End, setting, transfer
  <1>3. CASE ~ growing
    <2>1. /\ UNCHANGED <<op, layout, buf, rows>>
          /\ pending = 0 => End("crashed", "unbound")
          /\ pending # 0 => Ask(pending, Increased)
      BY <1>3 DEF BlockRefused, setting
    <2>2. QED
      BY <1>1, <2>1 DEF Told, End, Ask
  <1>4. QED
    BY <1>2, <1>3

Carried == Fresh /\ Kept /\ Told

\* Steps that leave the rows alone, and neither begin a transfer nor end one.
LEMMA CarriedStill ==
  ASSUME Typed, Carried, UNCHANGED <<op, layout, buf, rows, pending>>,
         \/ phase' = phase
         \/ phase' \in {"partial", "failed"}
         \/ op # "profile" /\ phase' # "block"
         \/ phase = "ua" /\ phase' = "aare"
  PROVE  Carried'
  <1>1. Fresh'
    BY DEF Carried, Fresh
  <1>2. Kept'
    BY DEF Carried, Kept, Wanted
  <1>3. Told'
    BY DEF Carried, Told, Fresh
  <1>4. QED
    BY <1>1, <1>2, <1>3 DEF Carried

LEMMA CarriedStep ==
  ASSUME Typed, Handshake, OnePart, ThisPart, Carried, [Next]_vars
  PROVE  Carried'
  <1> USE DEF setting, batch, transfer, counters, meter
  <1>0. Placed /\ layout \in Layouts /\ pending \in Nat
    BY DEF Typed, SessionTypeOK
  <1>1. CASE Quiet \/ SnrmAgain \/ AarqAgain \/ UaArrives
    BY <1>1, CarriedStill DEF Quiet, SnrmAgain, AarqAgain, UaArrives
  <1>2. CASE Exception
    <2>1. /\ UNCHANGED <<op, layout, buf, rows, pending>>
          /\ phase' \in {"partial", "failed"} \/ (op = "command" /\ phase' = "ua")
      BY <1>2 DEF Exception, Failed, Over, Repeat
    <2>2. QED
      BY <2>1, CarriedStill
  <1>3. CASE ScalerArrives
    <2>1. UNCHANGED <<op, layout, buf, rows, pending>> /\ phase' = "value" /\ op = "registers"
      BY <1>0, <1>3 DEF ScalerArrives, Placed, GetWaits
    <2>2. QED
      BY <2>1, CarriedStill
  <1>4. CASE ValueArrives
    <2>1. /\ UNCHANGED <<op, layout, buf, rows, pending>> /\ phase' \in {"scaler", "value", "done"}
          /\ op = "registers"
      BY <1>0, <1>4 DEF ValueArrives, AskItem, Placed, GetWaits
    <2>2. QED
      BY <2>1, CarriedStill
  <1>5. CASE Confirmed
    <2>1. UNCHANGED <<op, layout, buf, rows, pending>> /\ phase' \in Ends /\ op = "command"
      BY <1>0, <1>5 DEF Confirmed, Over, Placed
    <2>2. QED
      BY <2>1, CarriedStill DEF Ends
  <1>6. CASE MeterStep
    BY <1>6, MeterKinds, CarriedStill DEF Taken
  <1>7. CASE Accepted /\ phase' # "block"
    <2>1. UNCHANGED <<op, layout, buf, rows, pending>> /\ op # "profile"
      BY <1>7 DEF Accepted
    <2>2. QED
      BY <1>7, <2>1, CarriedStill
  <1>8. CASE Accepted /\ phase' = "block"
    <2>1. /\ UNCHANGED <<op, layout, buf, rows, pending>> /\ op = "profile" /\ phase = "aare"
      BY <1>0, <1>8 DEF Accepted, AskItem, Placed
    <2>2. buf = <<>> /\ rows = <<>> /\ pending = 0
      BY <2>1 DEF Carried, Fresh
    <2>3. /\ 0 \in 0 .. Depth /\ Reach(0) = 0 /\ Off(layout, 0) = 0 /\ Chosen(0) = <<>>
          /\ Profile \in Seq(Nat)
      BY <1>0, ReachFacts, TableFacts, CutFacts, ChosenFacts
    <2>4. SubSeq(Profile, 0 + 1, 0) = <<>>
      BY <2>3
    <2>5. Kept'
      BY <2>1, <2>2, <2>3, <2>4 DEF Kept, Wanted
    <2>6. QED
      BY <1>8, <2>1, <2>2, <2>5 DEF Carried, Fresh, Told
  <1>9. CASE BlockArrives
    <2>1. op' = op /\ op = "profile" /\ phase = "block" /\ layout' = layout
      BY <1>0, <1>9 DEF BlockArrives, Placed
    <2>2. CASE phase' = "done" /\ rows' = Chosen(Depth)
      <3>1. Depth \in 0 .. Depth
        BY ReachFacts
      <3>2. QED
        BY <2>1, <2>2, <3>1 DEF Carried, Fresh, Kept, Told
    <2>3. CASE /\ phase' = "block" /\ pending' # 0 /\ layout' = layout
               /\ \E m \in 0 .. Depth :
                     /\ rows' = Chosen(m) /\ Reach(m) <= Off(layout, pending' - 1)
                     /\ buf' = SubSeq(Profile, Reach(m) + 1, Off(layout, pending' - 1))
      BY <2>1, <2>3 DEF Carried, Fresh, Kept, Told, Wanted
    <2>4. QED
      BY <1>9, <2>2, <2>3, BlockTaken DEF Carried
  <1>10. CASE WholeArrives
    <2>1. op' = op /\ op = "profile" /\ phase' = "done" /\ rows' = Chosen(Depth)
      BY <1>0, <1>10, WholeTaken DEF WholeArrives, Placed, Carried
    <2>2. Depth \in 0 .. Depth
      BY ReachFacts
    <2>3. QED
      BY <2>1, <2>2 DEF Carried, Fresh, Kept, Told
  <1>11. CASE BlockRefused
    <2>1. op = "profile"
      BY <1>0, <1>11 DEF BlockRefused, Placed
    <2>2. /\ phase = "block" /\ UNCHANGED <<op, layout, buf, rows>>
          /\ \/ phase' = "crashed" /\ rows = <<>>
             \/ phase' = "block" /\ pending' = pending /\ pending # 0
             \/ phase' \in {"partial", "failed"}
      BY <1>11, RefusalTaken DEF Carried
    <2>3. QED
      BY <2>1, <2>2 DEF Carried, Fresh, Kept, Told, Wanted
  <1>12. CASE NextPart \/ LastPart
    BY <1>9, <1>10, <1>11, <1>12 DEF NextPart, LastPart
  <1>13. QED
    BY <1>1, <1>2, <1>3, <1>4, <1>5, <1>6, <1>7, <1>8, <1>12, StepKinds

\* The rows handed out are the meter's own of the requested range, in order, each once,
\* wherever the blocks cut them and wherever the exchange breaks off; all of them when
\* the read is done (read_load_profile_via_established_link, split_load_profile_rows).
THEOREM RowsAsStored == Spec => []RowsInOrder
  <1>1. Init => Typed /\ Handshake /\ OnePart /\ ThisPart /\ Carried
    <2> SUFFICES ASSUME Init PROVE Typed /\ Handshake /\ OnePart /\ ThisPart /\ Carried
      OBVIOUS
    <2>1. 0 \in 0 .. Depth /\ Chosen(0) = <<>>
      BY ReachFacts, ChosenFacts
    <2>2. phase = "ua" /\ rows = <<>> /\ buf = <<>> /\ pending = 0
      BY DEF Init
    <2>3. Kept
      BY <2>1, <2>2 DEF Kept
    <2>4. QED
      BY <2>2, <2>3, TypeInit, HandshakeInit DEF OnePart, ThisPart, Carried, Fresh, Told
  <1>2. Typed /\ Handshake /\ OnePart /\ ThisPart /\ Carried /\ [Next]_vars
            => (Typed /\ Handshake /\ OnePart /\ ThisPart /\ Carried)'
    BY TypeStep, HandshakeStep, OnePartStep, ThisPartStep, CarriedStep DEF Carried
  <1>3. Carried => RowsInOrder
    <2> SUFFICES ASSUME Carried PROVE RowsInOrder
      OBVIOUS
    <2>1. PICK k \in 0 .. Depth : rows = Chosen(k)
      BY DEF Carried, Kept
    <2>2. Depth \in k .. Depth /\ Depth \in 0 .. Depth
      BY ReachFacts
    <2>3. PICK u \in Seq(Seq(Nat)) : Selected(Table) = rows \o u /\ rows \in Seq(Seq(Nat))
      BY <2>1, <2>2, ChosenFacts
    <2>4. IsPrefix(rows, Selected(Table))
      BY <2>3 DEF IsPrefix
    <2>5. QED
      BY <2>4, ChosenFacts DEF RowsInOrder, Carried, Told
  <1>4. QED
    BY <1>1, <1>2, <1>3, PTL DEF Spec
==============================================================================
