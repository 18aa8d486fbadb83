----------------------------- MODULE DlmsSession -----------------------------
(***************************************************************************)
(* One operation of the Gateway on one meter over HDLC/DLMS: SNRM and UA,  *)
(* AARQ (sent again when the answer is late) and AARE, then one of         *)
(*   "registers"  GETs of the items of a batch in one association          *)
(*                (read_batch_via_fresh_connection);                       *)
(*   "profile"    a load profile in blocks                                 *)
(*                (read_load_profile_via_fresh_connection);                *)
(*   "command"    one SET or ACTION over a connection of our own, repeated *)
(*                as a whole by run_with_retries.                          *)
(*                                                                         *)
(* The line is TCP: frames arrive in the order they were sent, none twice. *)
(* A wait may time out with frames still on their way, or in the middle of *)
(* one: what is left of that frame is then the head of the stream.  The    *)
(* meter is external: it answers a request, says nothing, or puts a        *)
(* supervisory frame first.  A frame is its kind and what it is about;     *)
(* addresses, checksums and encodings are left out.                        *)
(***************************************************************************)
EXTENDS Integers, SequencesExt, FiniteSetsExt

CONSTANTS
    Operations,  \* the operations looked at
    Obis,        \* identifiers of the meter's objects
    Registers,   \* those of class Register: their value needs a scaler_unit
    Numeric,     \* those whose value decodes to a number
    Items,       \* the batch: a sequence of Obis
    Table,       \* the rows of the meter's load profile, in their order
    Layouts,     \* the ways the meter may cut them into blocks
    InRange,     \* the rows of the profile that lie in the requested range
    MaxSnrm,     \* DEFAULT_MAX_ATTEMPTS_PER_CONNECTION, 5
    MaxAarq,     \* DEFAULT_AARQ_MAX_ATTEMPTS, 20
    MaxSkipped,  \* _MAX_SUPERVISORY_FRAMES_SKIPPED, 20
    MaxCalls,    \* max_retries of run_with_retries, 3
    Modulus,     \* N(S) and N(R) are counted modulo 8
    LastInvoke   \* the last invoke-id a register may start with, 14

ASSUME SessionAssumption ==
    /\ Operations \subseteq {"registers", "profile", "command"}
    /\ Registers \subseteq Obis /\ Registers \subseteq Numeric
    /\ Items \in Seq(Obis) /\ Items # <<>>
    /\ MaxSnrm \in Nat \ {0} /\ MaxAarq \in Nat \ {0}
    /\ MaxSkipped \in Nat \ {0} /\ MaxCalls \in Nat \ {0}
    /\ Modulus \in Nat \ {0, 1} /\ LastInvoke \in 2 .. 14

\* A row is two bytes of marker, here 0, its timestamp, and its columns.  A length may
\* look like one of the two, but the BCD digits that follow it do not.
Mark == 0
IsRow(r) ==
    /\ Len(r) >= 3 /\ r[1] = Mark /\ r[2] = Mark /\ r[Len(r)] # Mark
    /\ \A p \in 2 .. Len(r) - 1 : r[p] # Mark \/ r[p + 1] # Mark

\* The blocks are the bytes of the rows, cut anywhere.
ASSUME ProfileAssumption ==
    /\ Table \in Seq(Seq(Nat)) /\ \A k \in 1 .. Len(Table) : IsRow(Table[k])
    /\ \A l \in Layouts : l \in Seq(Seq(Nat)) /\ l # <<>> /\ FlattenSeq(l) = FlattenSeq(Table)

VARIABLES
    op,        \* the operation
    phase,     \* what the Gateway waits for, or how the operation ended
    tries,     \* SNRMs or AARQs sent in this phase
    calls,     \* connections run_with_retries has made
    skipped,   \* supervisory frames skipped in this wait
    beaten,    \* a heartbeat has come since the timeout began
    ns,        \* send_seq: the number of the next I-frame
    invoke,    \* invoke_id
    idx,       \* the item of the batch being read
    scaler,    \* what the scaler_unit GET of this item brought
    results,   \* RegisterReadOutcome of the items read so far
    buf,       \* bytes of the profile not yet split into rows
    rows,      \* rows handed to the caller
    pending,   \* pending_block_number, 0 while it is unbound
    growing,   \* use_incrementing_invoke_id
    toMeter,   \* requests on their way to the meter
    line,      \* frames on their way to the Gateway
    layout,    \* how this meter cuts its profile
    strict,    \* whether this meter takes a repeated invoke-id for a repeat
    heard,     \* V(R): the number of the I-frame the meter expects next
    lastId,    \* invoke-id of the last GET the meter received, 0 at first
    aares,     \* AAREs, accepting or not, sent on this connection
    obeyed,    \* how many times the meter carried the command out
    cause      \* why the operation ended as it did

setting == <<op, layout, strict>>          \* chosen at the start
batch == <<idx, scaler, results>>
transfer == <<buf, rows, pending, growing>>
counters == <<tries, calls, skipped>>
meter == <<heard, lastId, aares, obeyed>>
vars == <<setting, phase, cause, counters, beaten, ns, invoke, batch, transfer,
          toMeter, line, meter>>

Ends == {"done", "partial", "failed", "crashed"}
\* Where _recv_i_frame waits for an answer of the application.
GetWaits == {"scaler", "value"}
Waits == {"aare", "block", "answer"} \cup GetWaits

Req(k, a, n, i) == [kind |-> k, about |-> a, ns |-> n, invoke |-> i]
Plain(k) == Req(k, <<>>, 0, 0)
Frame(k, a) == [kind |-> k, about |-> a]
Torn == Frame("TORN", <<>>)
Supervisory == {"UA", "RR"}
IsAnswer(f) == f.kind \notin Supervisory /\ f # Torn

NoDatum == <<>>
ScalerOf(o) == <<o, "scaler">>
ValueOf(o) == <<o, "value">>
IsScaler(d) == d # NoDatum /\ d[2] = "scaler"
IsNumber(d) == d # NoDatum /\ d[2] = "value" /\ d[1] \in Numeric

Drop(s, n) == SubSeq(s, n + 1, Len(s))
\* Bytes read away without regard to where frames begin.
Swallowed(s) == {Drop(s, n) : n \in 0 .. Len(s)}
                    \cup {<<Torn>> \o Drop(s, n) : n \in 1 .. Len(s)}
\* What a timeout leaves of the stream: the awaited frame is still on its way,
\* or half of it was read; a torn one was mistaken for the start of a long one.
AfterTimeout(s) ==
    IF s = <<>> THEN {s}
    ELSE IF Head(s) = Torn THEN Swallowed(s) ELSE {s, <<Torn>> \o Tail(s)}

-----------------------------------------------------------------------------
(* The start of an operation, and how it ends.                             *)

Init ==
    /\ op \in Operations /\ layout \in Layouts /\ strict \in BOOLEAN
    /\ phase = "ua" /\ cause = "none"
    /\ tries = 1 /\ calls = 1 /\ skipped = 0 /\ beaten = FALSE
    /\ ns = 1 /\ invoke = 1
    /\ idx = 1 /\ scaler = NoDatum /\ results = <<>>
    /\ buf = <<>> /\ rows = <<>> /\ pending = 0 /\ growing = FALSE
    /\ toMeter = <<Plain("SNRM")>> /\ line = <<>>
    /\ heard = 0 /\ lastId = 0 /\ aares = 0 /\ obeyed = 0

Send(r) == toMeter' = Append(toMeter, r)
\* control_information_frame masks the number.
Succ(n) == (n + 1) % Modulus

End(how, why) ==
    /\ phase' = how /\ cause' = why
    /\ UNCHANGED <<counters, ns, invoke, toMeter>>

Retryable == {"timeout", "crc", "lost"}

\* run_with_retries: the whole command again over a new connection.
Repeat ==
    /\ calls' = calls + 1 /\ phase' = "ua" /\ cause' = cause
    /\ tries' = 1 /\ skipped' = 0 /\ ns' = 1 /\ invoke' = 1
    /\ toMeter' = <<Plain("SNRM")>> /\ line' = <<>>
    /\ heard' = 0 /\ lastId' = 0 /\ aares' = 0 /\ obeyed' = obeyed

\* An exception leaves the exchange: a command may be repeated, a load profile
\* keeps the rows it has once it is associated, a batch of registers has none.
Fail(rest, why) ==
    /\ UNCHANGED <<setting, batch, transfer>>
    /\ IF op = "command" /\ why \in Retryable /\ calls < MaxCalls
       THEN Repeat
       ELSE /\ End(IF op = "profile" /\ phase \in Waits /\ why # "auth"
                   THEN "partial" ELSE "failed", why)
            /\ line' = rest
            /\ UNCHANGED meter

-----------------------------------------------------------------------------
(* Heartbeats: zero bytes and DL/T645 announcements between the frames.     *)

\* As if the deadline were a timeout of every recv, as it once was.
Undated_All == {"ua"} \cup Waits
\* Where each byte begins the timeout anew: set_deadline comes after UA.
Undated == {"ua"}

\* DlT645FilteringSocket reads them away, with an echo the meter does not answer.
\* A socket of our own does not filter, and no meter is known to send them there.
Heartbeat ==
    /\ phase \in Undated /\ op # "command" /\ ~beaten
    /\ beaten' = TRUE
    /\ UNCHANGED <<setting, phase, cause, counters, ns, invoke, batch, transfer,
                   toMeter, line, meter>>

\* The timeout would be over, but it began later.
WaitsOn ==
    /\ beaten /\ beaten' = FALSE
    /\ UNCHANGED <<setting, phase, cause, counters, ns, invoke, batch, transfer,
                   toMeter, line, meter>>

TimeIsUp == ~beaten

-----------------------------------------------------------------------------
(* SNRM and UA.                                                            *)

UaArrives ==
    /\ phase = "ua" /\ line # <<>> /\ Head(line).kind = "UA"
    /\ line' = Tail(line)
    /\ Send(Plain("AARQ"))
    /\ phase' = "aare" /\ tries' = 1 /\ skipped' = 0
    /\ UNCHANGED <<setting, cause, calls, ns, invoke, batch, transfer, meter>>

\* Event path: SNRM again, after _drain_stale_bytes has read what is there.
LinkFails(rest, why) ==
    IF op # "command" /\ tries < MaxSnrm
    THEN /\ \E s \in Swallowed(rest) : line' = s
         /\ Send(Plain("SNRM"))
         /\ tries' = tries + 1
         /\ UNCHANGED <<setting, phase, cause, calls, skipped, ns, invoke, batch,
                        transfer, meter>>
    ELSE Fail(rest, why)

NotUa ==
    /\ phase = "ua" /\ line # <<>> /\ Head(line).kind # "UA"
    /\ \E why \in IF Head(line) = Torn THEN {"crc", "garbled"} ELSE {"protocol"} :
           LinkFails(Tail(line), why)

UaTimesOut ==
    /\ phase = "ua" /\ TimeIsUp
    /\ \E rest \in AfterTimeout(line) : LinkFails(rest, "timeout")

-----------------------------------------------------------------------------
(* What may happen in any wait for an answer.                              *)

SkipSupervisory ==
    /\ phase \in Waits /\ line # <<>> /\ Head(line).kind \in Supervisory
    /\ IF skipped + 1 < MaxSkipped
       THEN /\ skipped' = skipped + 1 /\ line' = Tail(line)
            /\ UNCHANGED <<setting, phase, cause, tries, calls, ns, invoke, batch,
                           transfer, toMeter, meter>>
       ELSE Fail(Tail(line), "protocol")

ReadTorn ==
    /\ phase \in Waits /\ line # <<>> /\ Head(line) = Torn
    /\ \E why \in {"crc", "garbled"} : Fail(Tail(line), why)

\* A batch that gets no answer to a GET keeps the results it has.
Broken(rest, why) ==
    IF phase \in GetWaits
    THEN /\ End("partial", why) /\ line' = rest
         /\ UNCHANGED <<setting, batch, transfer, meter>>
    ELSE Fail(rest, why)

\* As if a GET of scaler_unit without an answer were a refusal like another.
AnswerTimesOut_GoesOn ==
    /\ phase \in Waits \ {"aare"}
    /\ \E rest \in AfterTimeout(line) :
           IF phase = "scaler"
           THEN /\ Send(Req("GET", ValueOf(Items[idx]), ns, invoke + 1))
                /\ ns' = Succ(ns) /\ phase' = "value" /\ line' = rest
                /\ UNCHANGED <<setting, cause, counters, invoke, batch, transfer, meter>>
           ELSE Broken(rest, "timeout")

AnswerTimesOut ==
    /\ phase \in Waits \ {"aare"} /\ TimeIsUp
    /\ \E rest \in AfterTimeout(line) : Broken(rest, "timeout")

ConnectionLost ==
    /\ phase \in Waits \cup {"ua"}
    /\ Broken(line, "lost")

-----------------------------------------------------------------------------
(* AARQ and AARE.                                                          *)

\* A batch ends its wait early when its own deadline passes.
AareTimesOut ==
    /\ phase = "aare" /\ TimeIsUp
    /\ \E rest \in AfterTimeout(line) :
           \/ /\ tries < MaxAarq
              /\ toMeter' = toMeter \o <<Plain("DISC"), Plain("AARQ")>>
              /\ tries' = tries + 1 /\ skipped' = 0
              /\ line' = rest
              /\ UNCHANGED <<setting, phase, cause, calls, ns, invoke, batch,
                             transfer, meter>>
           \/ /\ tries = MaxAarq \/ op # "command"
              /\ Fail(rest, "timeout")

\* As if frames were numbered anew for each item.
AskItem_Anew(k, i) ==
    /\ IF Items[k] \in Registers
       THEN /\ Send(Req("GET", ScalerOf(Items[k]), 1, i)) /\ phase' = "scaler"
       ELSE /\ Send(Req("GET", ValueOf(Items[k]), 1, i)) /\ phase' = "value"
    /\ ns' = Succ(1) /\ invoke' = i /\ idx' = k /\ scaler' = NoDatum

\* The first GET of an item: scaler_unit of a Register, else the value itself.
AskItem(k, i) ==
    /\ IF Items[k] \in Registers
       THEN /\ Send(Req("GET", ScalerOf(Items[k]), ns, i)) /\ phase' = "scaler"
       ELSE /\ Send(Req("GET", ValueOf(Items[k]), ns, i)) /\ phase' = "value"
    /\ ns' = Succ(ns) /\ invoke' = i /\ idx' = k /\ scaler' = NoDatum

AareArrives ==
    /\ phase = "aare" /\ line # <<>> /\ IsAnswer(Head(line))
    /\ CASE Head(line).kind = "AARE" ->
              /\ \/ op = "registers" /\ AskItem(1, 1)
                 \/ /\ op # "registers"
                    /\ Send(Req(IF op = "profile" THEN "RANGE" ELSE "COMMAND", <<>>, ns, 1))
                    /\ phase' = IF op = "profile" THEN "block" ELSE "answer"
                    /\ ns' = Succ(ns)
                    /\ UNCHANGED <<invoke, idx, scaler>>
              /\ line' = Tail(line) /\ skipped' = 0
              /\ UNCHANGED <<setting, cause, tries, calls, results, transfer, meter>>
         [] Head(line).kind = "REJECTED" -> Fail(Tail(line), "auth")
         [] OTHER -> Fail(Tail(line), "protocol")

-----------------------------------------------------------------------------
(* Registers: _read_one_register_via_established_link for each item.       *)

\* Any answer ends the wait for scaler_unit; one that cannot be parsed as a
\* GET.response leaves no scaler, and the value is asked for all the same.
ScalerArrives ==
    /\ phase = "scaler" /\ line # <<>> /\ IsAnswer(Head(line))
    /\ scaler' = IF Head(line).kind = "DATA" THEN Head(line).about ELSE NoDatum
    /\ Send(Req("GET", ValueOf(Items[idx]), ns, invoke + 1))
    /\ ns' = Succ(ns) /\ phase' = "value" /\ skipped' = 0 /\ line' = Tail(line)
    /\ UNCHANGED <<setting, cause, tries, calls, invoke, idx, results, transfer, meter>>

Read(o, f) == [obis |-> o, ok |-> TRUE, value |-> f.about,
               scaler |-> IF IsNumber(f.about) /\ o \in Registers THEN scaler ELSE NoDatum]
Refused(o) == [obis |-> o, ok |-> FALSE, value |-> NoDatum, scaler |-> NoDatum]

\* A number of a Register needs a scaler; what is no number is passed as it is.
Outcome(o, f) ==
    IF \/ f.kind \notin {"DATA", "NULL"}
       \/ f.kind = "NULL" /\ o \in Registers
       \/ f.kind = "DATA" /\ o \in Registers /\ IsNumber(f.about) /\ ~IsScaler(scaler)
    THEN Refused(o) ELSE Read(o, f)

NextInvoke ==
    LET i == invoke + (IF Items[idx] \in Registers THEN 2 ELSE 1)
    IN IF i > LastInvoke THEN 1 ELSE i

ValueArrives ==
    /\ phase = "value" /\ line # <<>> /\ IsAnswer(Head(line))
    /\ results' = Append(results, Outcome(Items[idx], Head(line)))
    /\ IF idx < Len(Items)
       THEN AskItem(idx + 1, NextInvoke) /\ cause' = cause
       ELSE /\ phase' = "done" /\ cause' = "none"
            /\ UNCHANGED <<ns, invoke, idx, scaler, toMeter>>
    /\ skipped' = 0 /\ line' = Tail(line)
    /\ UNCHANGED <<setting, tries, calls, transfer, meter>>

-----------------------------------------------------------------------------
(* A load profile: read_load_profile_via_established_link.                 *)

\* Where s has a marker, from left to right.
Marks(s) == {p \in 1 .. Len(s) - 1 : s[p] = Mark /\ s[p + 1] = Mark}
MarkSeq(s) == FlattenSeq([p \in 1 .. Len(s) |-> IF p \in Marks(s) THEN <<p>> ELSE <<>>])

\* split_load_profile_rows: whole rows end where the next one begins.
SplitRows(s) ==
    LET m == MarkSeq(s)
    IN [k \in 1 .. Len(m) - 1 |-> SubSeq(s, m[k], m[k + 1] - 1)]
\* As if bytes without a whole row were not kept.
Remainder_Lost(s) ==
    LET m == MarkSeq(s) IN IF Len(m) < 2 THEN <<>> ELSE SubSeq(s, m[Len(m)], Len(s))
Remainder(s) ==
    LET m == MarkSeq(s) IN IF Len(m) < 2 THEN s ELSE SubSeq(s, m[Len(m)], Len(s))

\* decode_load_profile_row: a row without its timestamp is an error.
Decodes(r) == Len(r) >= 3 /\ r[1] = Mark /\ r[2] = Mark
InWindow(r) == r[3] \in InRange
\* _decode_row_if_in_range: the others are dropped.
Selected(s) == FlattenSeq([k \in 1 .. Len(s) |-> IF InWindow(s[k]) THEN <<s[k]>> ELSE <<>>])

AllDecode(s) == \A k \in 1 .. Len(s) : Decodes(s[k])
\* The rows handed to the caller before the first that cannot be decoded.
Handed(s) ==
    LET bad == {k \in 1 .. Len(s) : ~Decodes(s[k])}
        good == IF bad = {} THEN s ELSE SubSeq(s, 1, Min(bad) - 1)
    IN Selected(good)

Ask(block, i) ==
    /\ Send(Req("NEXT", <<block>>, ns, i))
    /\ ns' = Succ(ns) /\ invoke' = i /\ pending' = block /\ skipped' = 0
    /\ UNCHANGED <<phase, cause, tries, calls>>

\* As if a refused GET.request-next were repeated as it was.
Increased_Not == invoke
Increased == (invoke + 1) % 16

\* Rows are handed out; then the transfer ends, breaks off, or goes on.
TakeRows(candidates, goesOn) ==
    /\ rows' = rows \o Handed(candidates)
    /\ IF AllDecode(candidates) THEN goesOn
       ELSE End("partial", "garbled") /\ pending' = pending

BlockArrives ==
    /\ phase = "block" /\ line # <<>> /\ Head(line).kind = "BLOCK"
    /\ LET n == Head(line).about[1]
           data == buf \o layout[n]
           rest == Remainder(data)
       IN IF n = Len(layout)
          THEN /\ TakeRows(SplitRows(data) \o (IF rest = <<>> THEN <<>> ELSE <<rest>>),
                           End("done", "none") /\ pending' = pending)
               /\ buf' = rest
          ELSE /\ TakeRows(SplitRows(data),
                           Ask(n + 1, IF growing THEN Increased ELSE invoke))
               /\ buf' = rest
    /\ line' = Tail(line)
    /\ UNCHANGED <<setting, batch, growing, meter>>

\* The whole profile in one GET.response-normal.
WholeArrives ==
    /\ phase = "block" /\ line # <<>> /\ Head(line).kind = "WHOLE"
    /\ LET data == buf \o FlattenSeq(layout)
           rest == Remainder(data)
       IN /\ TakeRows(SplitRows(data) \o (IF rest = <<>> THEN <<>> ELSE <<rest>>),
                      End("done", "none") /\ pending' = pending)
          /\ buf' = data
    /\ line' = Tail(line)
    /\ UNCHANGED <<setting, batch, growing, meter>>

\* data-access-result 16: from now on every GET.request-next has an invoke-id
\* of its own.  Refused before any block came, pending_block_number is unbound.
BlockRefused ==
    /\ phase = "block" /\ line # <<>> /\ Head(line).kind = "REFUSED"
    /\ IF growing THEN Fail(Tail(line), "refused")
       ELSE /\ growing' = TRUE
            /\ IF pending = 0 THEN End("crashed", "unbound") /\ pending' = pending
               ELSE Ask(pending, Increased)
            /\ line' = Tail(line)
            /\ UNCHANGED <<setting, batch, buf, rows, meter>>

ProfileRejected ==
    /\ phase = "block" /\ line # <<>> /\ IsAnswer(Head(line))
    /\ Head(line).kind \notin {"BLOCK", "WHOLE", "REFUSED"}
    /\ Fail(Tail(line), "protocol")

-----------------------------------------------------------------------------
(* A command: SET or ACTION, and run_with_retries around it.               *)

\* As if the result in the answer were not looked at.
CommandAnswered_Anyhow ==
    /\ phase = "answer" /\ line # <<>> /\ IsAnswer(Head(line))
    /\ End("done", "none") /\ line' = Tail(line)
    /\ UNCHANGED <<setting, batch, transfer, meter>>

CommandAnswered ==
    /\ phase = "answer" /\ line # <<>> /\ IsAnswer(Head(line))
    /\ IF Head(line).kind = "OK"
       THEN /\ End("done", "none") /\ line' = Tail(line)
            /\ UNCHANGED <<setting, batch, transfer, meter>>
       ELSE Fail(Tail(line), "protocol")

-----------------------------------------------------------------------------
(* The meter (external).  It answers in order, or not at all; a strict one *)
(* takes a GET with the invoke-id of the one before for its repetition.    *)

IsGet(r) == r.kind \in {"GET", "RANGE", "NEXT"}
Repeats(r) == strict /\ IsGet(r) /\ r.invoke = lastId

Answers(r) ==
    CASE r.kind = "SNRM" -> {Frame("UA", <<>>), Frame("RR", <<>>)}
      [] r.kind = "DISC" -> {Frame("UA", <<>>)}
      [] r.kind = "AARQ" -> {Frame("AARE", <<>>), Frame("REJECTED", <<>>)}
      [] r.kind = "COMMAND" -> {Frame("OK", <<>>), Frame("NOK", <<>>)}
      [] r.kind = "GET" -> IF Repeats(r) THEN {Frame("ERROR", r.about)}
                           ELSE {Frame(k, r.about) : k \in {"DATA", "NULL", "ERROR"}}
      [] r.kind = "RANGE" -> {Frame("BLOCK", <<1>>), Frame("WHOLE", <<>>),
                              Frame("REFUSED", <<1>>), Frame("ERROR", <<>>)}
      [] r.kind = "NEXT" -> {Frame(IF Repeats(r) THEN "REFUSED" ELSE "BLOCK", r.about)}

MeterTakes(answer) ==
    LET r == Head(toMeter)
    IN /\ toMeter' = Tail(toMeter)
       /\ line' = line \o answer
       /\ heard' = IF r.kind \in {"SNRM", "DISC"} THEN 0
                   ELSE IF r.kind = "AARQ" THEN 1 ELSE Succ(heard)
       /\ lastId' = IF r.kind = "AARQ" THEN 0 ELSE IF IsGet(r) THEN r.invoke ELSE lastId
       /\ aares' = IF \E k \in DOMAIN answer : answer[k].kind \in {"AARE", "REJECTED"}
                   THEN aares + 1 ELSE aares
       /\ UNCHANGED <<setting, phase, cause, counters, ns, invoke, batch, transfer>>

MeterAnswers ==
    /\ phase \notin Ends /\ toMeter # <<>>
    /\ \E f \in Answers(Head(toMeter)) :
           /\ \/ MeterTakes(<<f>>)
              \/ f.kind \notin Supervisory /\ MeterTakes(<<Frame("RR", <<>>), f>>)
           /\ obeyed' = IF f.kind = "OK" THEN obeyed + 1 ELSE obeyed

MeterIsSilent ==
    /\ phase \notin Ends /\ toMeter # <<>>
    /\ MeterTakes(<<>>)
    /\ obeyed' \in {obeyed, IF Head(toMeter).kind = "COMMAND" THEN obeyed + 1 ELSE obeyed}

-----------------------------------------------------------------------------
Exchange ==
    \/ UaArrives \/ NotUa \/ UaTimesOut
    \/ SkipSupervisory \/ ReadTorn \/ AnswerTimesOut
    \/ AareTimesOut \/ AareArrives \/ ScalerArrives \/ ValueArrives
    \/ BlockArrives \/ WholeArrives \/ BlockRefused \/ ProfileRejected
    \/ CommandAnswered

Gateway == (Exchange /\ beaten' = FALSE) \/ WaitsOn

Next ==
    \/ Gateway \/ Heartbeat
    \/ ConnectionLost /\ beaten' = FALSE
    \/ (MeterAnswers \/ MeterIsSilent) /\ UNCHANGED beaten

Spec == Init /\ [][Next]_vars

\* Every wait of the Gateway has a timeout; the meter owes nothing.
FairSpec == Spec /\ WF_vars(Gateway)

-----------------------------------------------------------------------------
(* Properties.                                                             *)

Datum == {NoDatum} \cup {ScalerOf(o) : o \in Obis} \cup {ValueOf(o) : o \in Obis}

\* Types of everything but the two directions of the line.
SessionTypeOK ==
    /\ op \in Operations /\ layout \in Layouts /\ strict \in BOOLEAN
    /\ phase \in {"ua"} \cup Waits \cup Ends
    /\ beaten \in BOOLEAN /\ tries \in Nat \ {0} /\ calls \in 1 .. MaxCalls /\ skipped \in 0 .. MaxSkipped - 1
    /\ ns \in 0 .. Modulus - 1 /\ invoke \in 0 .. 15
    /\ idx \in 1 .. Len(Items) /\ scaler \in Datum
    /\ results \in Seq([obis : Obis, ok : BOOLEAN, value : Datum, scaler : Datum])
    /\ pending \in Nat /\ growing \in BOOLEAN
    /\ heard \in 0 .. Modulus - 1 /\ lastId \in 0 .. 15 /\ aares \in Nat /\ obeyed \in Nat

IsTrue(r) ==
    r.ok => /\ r.value = ValueOf(r.obis)
            /\ r.obis \in Registers => r.scaler = ScalerOf(r.obis)

\* read_registers_via_established_link promises that it is safe to go on with
\* the next OBIS after an error the meter answered with, because the numbering
\* of frames has stayed in step.  So a reading that is reported as a success is
\* the value of the very register it is reported for, under its own scaler.
TrueReadings == \A k \in 1 .. Len(results) : IsTrue(results[k])

\* The same of the readings that are numbers.
OwnNumbers ==
    \A k \in 1 .. Len(results) : IsNumber(results[k].value) => IsTrue(results[k])

\* What does hold: answers are told apart by their order alone, and that order
\* slips only if the meter answers more than one of the AARQs sent to it.  No
\* late UA, supervisory frame, torn frame, refusal or timeout of a GET can make
\* a batch report the value of one register as that of another.
FalseOnlyAfterSecondAare == aares <= 1 => TrueReadings

\* The I-frame the meter takes next bears the number the meter expects, across
\* errors, refusals and resent AARQs (send_seq returned even with an error).  And
\* two GETs of a batch in a row never bear the same invoke-id, which fits its four
\* bits, however the batch mixes classes and wherever the ids begin again, so that
\* no firmware takes a GET for the repetition of the one before.
NumberingInSync ==
    (toMeter # <<>> /\ Head(toMeter).kind \notin {"SNRM", "DISC", "AARQ"})
        => /\ Head(toMeter).ns = heard
           /\ Head(toMeter).kind = "GET" => Head(toMeter).invoke \in (0 .. 15) \ {lastId}

\* However the blocks cut the rows, and wherever the exchange breaks off, the
\* rows handed out are the meter's own of the requested range, in order, each once;
\* all of them when the read ends without an error.  None was handed out yet when
\* the first refusal finds pending_block_number unbound and ends the thread.
RowsInOrder ==
    /\ IsPrefix(rows, Selected(Table))
    /\ phase = "crashed" => rows = <<>>
    /\ op = "profile" /\ phase = "done" => rows = Selected(Table)

\* A meter that asks for fresh invoke-ids refuses one GET.request-next of a
\* transfer at most: the load profile is never given up because of it.
RefusalOvercome == cause # "refused"

\* A command reported as carried out was carried out by the meter, whatever
\* connection the answer came on, and never more often than it was sent.
CommandTruth ==
    /\ op = "command" /\ phase = "done" => obeyed >= 1
    /\ obeyed <= calls

\* The operation ends, whatever the meter keeps silent about and however it dribbles,
\* unless the waiting for UA meets heartbeats for ever: they hold the thread and the
\* connection.
SessionEnds == <>(phase \in Ends) \/ []<>(phase = "ua" /\ beaten)
=============================================================================
