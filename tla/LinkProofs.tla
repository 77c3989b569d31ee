----------------------------- MODULE LinkProofs -----------------------------
(***************************************************************************)
(* The inverter's link.  RegisterLink for any registers, values, retries   *)
(* and faults, at sites where the function codes tell the frames of other  *)
(* services from ours and where none share a dongle whose serial must be   *)
(* asked for (CodesTell).  Nothing but the frames that carry data could be *)
(* mistaken for a reply, and of those there is one at the most: a request  *)
(* is given up when it was answered, when the dongle has said that it will *)
(* not be, when nothing is under way any more, or with its connection      *)
(* (Awaiting, Quiet).                                                      *)
(*                                                                         *)
(* FrameReception for any payloads, reads and buffers of which one half    *)
(* has room for a frame.  Bytes give their frames whatever comes after     *)
(* them, when they are frames and the beginning of one (Known); what is    *)
(* read without a gap is that (Sound).                                     *)
(***************************************************************************)
EXTENDS RegisterLink, FrameReception, FiniteSetTheorems, SequenceTheorems, Induction

\* Function codes tell the frames of other services from ours, and there are none where
\* the serial must be asked for.
CodesTell == \A s \in Sites : s.foreign \subseteq {"other"} /\ (s.foreign # {} => s.configured)

Ours(f)    == f.kind \in {"reply", "refusal"} /\ f.to \notin Theirs
Foreign(f) == f.kind = "reply" /\ f.to \in Theirs

Live   == \E i \in 1 .. Len(line) : line[i].live
Answer == \E i \in 1 .. Len(stream) : Ours(stream[i])

\* Nothing is under way that a request could be given.
Quiet == ~Live /\ \A i \in 1 .. Len(stream) : Foreign(stream[i])

NoEmpty  == \A i \in 1 .. Len(stream) : stream[i] # Empty
OneEmpty == \A i, j \in 1 .. Len(stream) : stream[i] = Empty /\ stream[j] = Empty => i = j
TwoEmpty == \A i, j, k \in 1 .. Len(stream) :
              stream[i] = Empty /\ stream[j] = Empty /\ stream[k] = Empty => i = j \/ j = k \/ i = k

\* The request is the last in the line, or it was the last to be served; the second
\* empty frame comes when it will have no answer.
Awaiting ==
  /\ \A i \in 1 .. Len(line) : line[i].live => i = Len(line) /\ line[i].req = Request
  /\ \A i \in 1 .. Len(stream) : Ours(stream[i]) =>
       /\ line = <<>> /\ stream[i].to = Request
       /\ stream[i].kind = "reply" /\ part = "read" => stream[i].val = regs[call.addr]
       /\ \A j \in 1 .. Len(stream) : i < j => Foreign(stream[j])
  /\ Live \/ Answer => IF empties = 0 THEN OneEmpty ELSE NoEmpty
  /\ IF empties = 0 THEN TwoEmpty ELSE OneEmpty

\* A read comes after all that was sent before it.
Settled == (call = Idle /\ last # Nothing /\ last.ok /\ last.call.kind # "write") => line = <<>>

PartOK ==
  call # Idle => /\ call.kind = "read" => part = "read"
                 /\ call.kind = "write" => part = "write"

LinkInv ==
  /\ CodesTell
  /\ TypeOK /\ PartOK
  /\ \A i \in 1 .. Len(stream) : Foreign(stream[i]) => site.foreign # {}
  /\ site.configured => serial
  /\ pc \in {"idle", "enter"} /\ conn = "up" => Quiet
  /\ pc = "probe" => ~serial /\ stream = <<Empty>> /\ (conn = "up" => ~Live)
  /\ pc = "await" => Awaiting
  /\ ReplyMatchesRequest /\ SuccessIsTrue /\ Settled

-----------------------------------------------------------------------------
LEMMA KindsOfFrame ==
  ASSUME NEW f \in Frames
  PROVE  /\ f = Empty \/ Foreign(f) \/ Ours(f)
         /\ Ours(f) => f # Empty /\ ~Foreign(f) /\ f.to \in Requests
                       /\ (f.kind = "reply" => f.val \in Values)
         /\ Foreign(f) => f # Empty
  BY DEF Frames, Ours, Foreign, Empty, Requests, Theirs

LEMMA TheirsAre == CodesTell => \A r \in Theirs : r.func = "other" /\ r \notin Requests
<1> SUFFICES ASSUME CodesTell, NEW r \in Theirs PROVE r.func = "other" /\ r \notin Requests
  OBVIOUS
<1>1. PICK s \in Sites : r.func \in s.foreign
  BY DEF Theirs
<1>2. r.func = "other"
  BY <1>1 DEF CodesTell
<1> QED
  BY <1>2 DEF Requests

LEMMA EmptyIs == Empty \in Frames /\ ~Ours(Empty) /\ ~Foreign(Empty)
  BY DEF Frames, Ours, Foreign, Empty

LEMMA IdleIsNoCall == Idle \notin Calls
  BY DEF Idle, Calls

LEMMA RequestTyped ==
  ASSUME call \in Calls, part \in {"read", "write"}, PartOK
  PROVE  /\ Request \in Requests /\ Request.func = part /\ Request.addr = call.addr
         /\ call.addr \in Addrs
         /\ part = "write" => Request.val \in Values
<1>1. call # Idle
  BY IdleIsNoCall
<1>2. CASE part = "read"
  BY <1>2 DEF Request, Requests, Calls
<1>3. CASE part = "write"
  <2>1. call.kind # "read"
    BY <1>1, <1>3 DEF PartOK
  <2>2. call.addr \in Addrs /\ call.val \in Values
    BY <2>1 DEF Calls
  <2> QED
    BY <1>3, <2>2 DEF Request, Requests
<1> QED
  BY <1>2, <1>3

\* Where the loops are when a request has ended.
Ended ==
  /\ call' \in Calls \cup {Idle} /\ part' \in {"read", "write"}
  /\ attempt' \in 1 .. VerifyAttempts /\ try' \in 1 .. MaxTries /\ again' \in BOOLEAN
  /\ pc' \in {"idle", "enter"} /\ (pc' = "idle" <=> call' = Idle)
  /\ PartOK'
  /\ last' \in {Nothing} \cup [call : Calls, ok : {FALSE}]
                         \cup [call : Calls, ok : {TRUE}, val : Values]

LEMMA ReturnEnds ==
  ASSUME NEW r \in [call : Calls, ok : {FALSE}] \cup [call : Calls, ok : {TRUE}, val : Values],
         Return(r)
  PROVE  Ended /\ call' = Idle /\ last' = r
<1>1. VerifyAttempts \in Nat \ {0} /\ MaxTries \in Nat \ {0}
  BY LinkAssumption
<1>2. 1 \in 1 .. VerifyAttempts /\ 1 \in 1 .. MaxTries
  BY <1>1
<1> QED
  BY <1>2 DEF Return, Ended, PartOK

LEMMA FailedEnds ==
  ASSUME TypeOK, PartOK, call # Idle, Failed
  PROVE  Ended /\ (call' = Idle => last'.ok = FALSE /\ last' # Nothing)
<1>1. call \in Calls
  BY DEF TypeOK
<1>2. CASE Return([call |-> call, ok |-> FALSE])
  <2> DEFINE r == [call |-> call, ok |-> FALSE]
  <2>1. r \in [call : Calls, ok : {FALSE}] /\ r.ok = FALSE
    BY <1>1
  <2>2. Ended /\ last' = r
    BY <1>2, <2>1, ReturnEnds
  <2>3. r # Nothing
    BY DEF Nothing
  <2> QED
    BY <2>1, <2>2, <2>3
<1>3. CASE /\ call.kind = "verified" /\ attempt < VerifyAttempts
           /\ attempt' = attempt + 1 /\ part' = "write" /\ StartTry(1)
           /\ UNCHANGED <<call, last>>
  <2>1. 1 \in 1 .. MaxTries /\ attempt + 1 \in 1 .. VerifyAttempts
    BY <1>3, LinkAssumption DEF TypeOK
  <2> QED
    BY <1>3, <2>1 DEF StartTry, Ended, TypeOK, PartOK
<1> QED
  BY <1>2, <1>3 DEF Failed

LEMMA TimedOutEnds ==
  ASSUME TypeOK, PartOK, call # Idle, TimedOut
  PROVE  Ended /\ (call' = Idle => last'.ok = FALSE /\ last' # Nothing)
<1>1. CASE Failed
  BY <1>1, FailedEnds
<1>2. CASE try < MaxTries /\ StartTry(try + 1) /\ UNCHANGED <<call, part, attempt, last>>
  <2>1. try + 1 \in 1 .. MaxTries
    BY <1>2, LinkAssumption DEF TypeOK
  <2> QED
    BY <1>2, <2>1 DEF StartTry, Ended, TypeOK, PartOK
<1> QED
  BY <1>1, <1>2 DEF TimedOut

\* A success was answered by a read, unless it is a plain write.
LEMMA AnsweredEnds ==
  ASSUME TypeOK, PartOK, call # Idle, NEW v \in Values, Answered(v)
  PROVE  /\ Ended
         /\ call' = Idle /\ last'.ok /\ last'.call.kind # "write" =>
              /\ part = "read" /\ last'.val = v /\ last'.call = call
              /\ call.kind = "verified" => v = call.val
<1>1. call \in Calls
  BY DEF TypeOK
<1>2. CASE /\ call.kind = "verified" /\ part = "write"
           /\ part' = "read" /\ StartTry(1)
           /\ UNCHANGED <<call, attempt, last>>
  <2>1. 1 \in 1 .. MaxTries
    BY LinkAssumption
  <2> QED
    BY <1>2, <2>1 DEF StartTry, Ended, TypeOK, PartOK
<1>3. CASE (call.kind = "verified" => part = "read" /\ v = call.val) /\ Succeeded(v)
  <2> DEFINE r == [call |-> call, ok |-> TRUE, val |-> v]
  <2>1. r \in [call : Calls, ok : {TRUE}, val : Values] /\ r.call = call /\ r.val = v
    BY <1>1
  <2>2. Ended /\ last' = r
    BY <1>3, <2>1, ReturnEnds DEF Succeeded
  <2>3. call.kind # "write" => part = "read"
    BY <1>1, <1>3 DEF PartOK, Calls
  <2> QED
    BY <1>3, <2>1, <2>2, <2>3
<1>4. CASE Failed
  BY <1>4, FailedEnds
<1> QED
  BY <1>2, <1>3, <1>4 DEF Answered

-----------------------------------------------------------------------------
(***************************************************************************)
(* Sequences.                                                              *)
(***************************************************************************)
LEMMA AppendIs ==
  ASSUME NEW S, NEW q \in Seq(S), NEW e \in S
  PROVE  /\ Append(q, e) \in Seq(S) /\ Len(q) \in Nat /\ Len(Append(q, e)) = Len(q) + 1
         /\ \A i \in 1 .. Len(Append(q, e)) :
              \/ i \in 1 .. Len(q) /\ Append(q, e)[i] = q[i]
              \/ i = Len(q) + 1 /\ Append(q, e)[i] = e
  OBVIOUS

LEMMA TailIs ==
  ASSUME NEW S, NEW q \in Seq(S), q # <<>>
  PROVE  /\ Tail(q) \in Seq(S) /\ Len(q) \in Nat \ {0} /\ Len(Tail(q)) = Len(q) - 1
         /\ Head(q) = q[1] /\ Head(q) \in S
         /\ \A i \in 1 .. Len(Tail(q)) : i + 1 \in 1 .. Len(q) /\ Tail(q)[i] = q[i + 1]
  OBVIOUS

\* What Leave leaves is a later part of the stream.
LEMMA LeaveIs ==
  ASSUME stream \in Seq(Frames), stream # <<>>, Leave
  PROVE  /\ stream' \in Seq(Frames)
         /\ \A i \in 1 .. Len(stream') :
              \E k \in 1 .. Len(stream) : 1 < k /\ stream'[i] = stream[k]
<1>1. PICK n \in 1 .. Len(stream) : stream' = SubSeq(stream, n + 1, Len(stream))
  BY DEF Leave
<1>2. Len(stream) \in Nat /\ n \in Nat /\ n + 1 \in Int /\ Len(stream) \in Int /\ n >= 1
  OBVIOUS
<1>3. \A i \in (n + 1) .. Len(stream) : stream[i] \in Frames
  BY <1>2, ElementOfSeq
<1>4. /\ stream' \in Seq(Frames)
      /\ Len(stream') = IF n + 1 <= Len(stream) THEN Len(stream) - (n + 1) + 1 ELSE 0
      /\ \A i \in 1 .. Len(stream) - (n + 1) + 1 : stream'[i] = stream[n + 1 + i - 1]
  BY <1>1, <1>2, <1>3, SubSeqProperties
<1>5. ASSUME NEW i \in 1 .. Len(stream')
      PROVE  \E k \in 1 .. Len(stream) : 1 < k /\ stream'[i] = stream[k]
  <2>1. Len(stream') = Len(stream) - n /\ i \in 1 .. Len(stream) - (n + 1) + 1
    BY <1>2, <1>4
  <2>2. n + 1 + i - 1 \in 1 .. Len(stream) /\ 1 < n + 1 + i - 1
    BY <1>2, <2>1
  <2> QED
    BY <1>4, <2>1, <2>2
<1> QED
  BY <1>4, <1>5

Lined == [req : Requests, live : BOOLEAN]

\* A new connection owes nothing.
LEMMA DialIs ==
  ASSUME TypeOK, NEW c \in {"none", "up"}, Dial(c)
  PROVE  /\ conn' = c /\ serial' = site.configured /\ stream' = <<>> /\ stream' \in Seq(Frames)
         /\ line' \in Seq(Lined) /\ Len(line') = Len(line)
         /\ \A i \in 1 .. Len(line') : ~line'[i].live
         /\ line = <<>> => line' = <<>>
<1>1. line \in Seq(Lined)
  BY DEF TypeOK, Lined
<1>2. Len(line) \in Nat /\ DOMAIN line = 1 .. Len(line) /\ \A i \in 1 .. Len(line) : line[i] \in Lined
  BY <1>1, LenProperties, ElementOfSeq
<1>3. line' = [i \in 1 .. Len(line) |-> [line[i] EXCEPT !.live = FALSE]]
  BY <1>2 DEF Dial
<1>4. \A i \in 1 .. Len(line) : [line[i] EXCEPT !.live = FALSE] \in Lined
  BY <1>2 DEF Lined
<1>5. line' \in [1 .. Len(line) -> Lined]
  BY <1>3, <1>4
<1>6. line' \in Seq(Lined) /\ Len(line') = Len(line)
  BY <1>2, <1>5, SeqDef, LenProperties
<1>7. \A i \in 1 .. Len(line) : line'[i].live = FALSE
  BY <1>2, <1>3 DEF Lined
<1>8. line = <<>> => line' = <<>>
  BY <1>6, EmptySeq
<1> QED
  BY <1>6, <1>7, <1>8 DEF Dial

-----------------------------------------------------------------------------
(***************************************************************************)
(* The client.                                                             *)
(***************************************************************************)

\* A request that ends leaves nothing behind it on a connection that is up.
LEMMA EndInv ==
  ASSUME LinkInv, Ended, UNCHANGED <<site, regs>>,
         conn' \in {"none", "up", "dead"}, serial' \in BOOLEAN, empties' \in 0 .. 1,
         line' \in Seq(Lined), stream' \in Seq(Frames), faults' \in 0 .. MaxFaults,
         heard' \in {Nothing} \cup [asked : Requests, answered : Requests \cup Theirs],
         \A i \in 1 .. Len(stream') : Foreign(stream'[i]) => site.foreign # {},
         site.configured => serial',
         conn' = "up" => Quiet',
         ReplyMatchesRequest',
         call' = Idle /\ last'.ok /\ last'.call.kind # "write" =>
           /\ line' = <<>> /\ regs[last'.call.addr] = last'.val
           /\ last'.call.kind = "verified" => last'.val = last'.call.val
  PROVE  LinkInv'
<1>1. TypeOK'
  BY DEF LinkInv, TypeOK, Ended, Lined
<1>2. pc' \in {"idle", "enter"} /\ PartOK'
  BY DEF Ended
<1>3. SuccessIsTrue' /\ Settled'
  BY DEF SuccessIsTrue, Settled
<1> QED
  BY <1>1, <1>2, <1>3 DEF LinkInv

\* With the stream and the line as they were.
LEMMA GivenUpInv ==
  ASSUME LinkInv, Ended, call' = Idle => last'.ok = FALSE,
         UNCHANGED <<site, regs, conn, serial, line, stream, heard>>,
         empties' \in 0 .. 1, faults' \in 0 .. MaxFaults,
         conn = "up" => Quiet
  PROVE  LinkInv'
<1>1. Quiet' <=> Quiet
  BY DEF Quiet, Live
<1>2. ReplyMatchesRequest'
  BY DEF ReplyMatchesRequest, LinkInv
<1>3. /\ conn' \in {"none", "up", "dead"} /\ serial' \in BOOLEAN
      /\ line' \in Seq(Lined) /\ stream' \in Seq(Frames)
      /\ heard' \in {Nothing} \cup [asked : Requests, answered : Requests \cup Theirs]
  BY DEF LinkInv, TypeOK, Lined
<1>4. (\A i \in 1 .. Len(stream') : Foreign(stream'[i]) => site.foreign # {}) /\ (site.configured => serial')
  BY DEF LinkInv
<1> QED
  BY <1>1, <1>2, <1>3, <1>4, EndInv

LEMMA BeginInv ==
  ASSUME LinkInv, NEW c \in Calls, Begin(c)
  PROVE  LinkInv'
<1>1. /\ call' = c /\ part' = (IF c.kind = "read" THEN "read" ELSE "write") /\ pc' = "enter"
      /\ UNCHANGED <<site, regs, attempt, try, again, conn, serial, line, stream, empties, last,
                     heard, faults>>
      /\ c # Idle /\ pc = "idle"
  BY IdleIsNoCall DEF Begin
<1>2. TypeOK'
  BY <1>1 DEF LinkInv, TypeOK
<1>3. PartOK'
  BY <1>1 DEF PartOK
<1> QED
  BY <1>1, <1>2, <1>3
  DEF LinkInv, Quiet, Live, ReplyMatchesRequest, SuccessIsTrue, Settled

LEMMA FaultTyped == LinkInv /\ Fault => faults' \in 0 .. MaxFaults
  BY LinkAssumption DEF LinkInv, TypeOK, Fault

\* A fresh connection, for a request that goes on.
LEMMA DialUpInv ==
  ASSUME LinkInv, pc \in {"enter", "await"}, Dial("up"), pc' = "enter", again' \in BOOLEAN,
         UNCHANGED <<site, regs, call, part, attempt, try, empties, last, heard, faults>>
  PROVE  LinkInv'
<1>1. TypeOK /\ call # Idle
  BY DEF LinkInv, TypeOK
<1>2. /\ conn' = "up" /\ serial' = site.configured /\ stream' = <<>> /\ stream' \in Seq(Frames)
      /\ line' \in Seq(Lined) /\ \A i \in 1 .. Len(line') : ~line'[i].live
  BY <1>1, DialIs
<1>3. serial' \in BOOLEAN
  BY <1>1, <1>2, LinkAssumption DEF TypeOK
<1>4. TypeOK'
  BY <1>1, <1>2, <1>3 DEF TypeOK, Lined
<1>5. Quiet'
  BY <1>2 DEF Quiet, Live
<1> QED
  BY <1>1, <1>2, <1>4, <1>5 DEF LinkInv, PartOK, ReplyMatchesRequest, SuccessIsTrue, Settled

LEMMA DialFailsInv ==
  ASSUME LinkInv, pc \in {"enter", "await"}, Dial("none"), Fault, Failed,
         UNCHANGED <<site, regs, empties, heard>>
  PROVE  LinkInv'
<1>1. TypeOK /\ PartOK /\ call # Idle
  BY DEF LinkInv, TypeOK
<1>2. /\ conn' = "none" /\ serial' = site.configured /\ stream' = <<>> /\ stream' \in Seq(Frames)
      /\ line' \in Seq(Lined)
  BY <1>1, DialIs
<1>3. Ended /\ (call' = Idle => last'.ok = FALSE)
  BY <1>1, FailedEnds
<1>4. /\ serial' \in BOOLEAN /\ empties' \in 0 .. 1
      /\ heard' \in {Nothing} \cup [asked : Requests, answered : Requests \cup Theirs]
  BY <1>1, <1>2, LinkAssumption DEF TypeOK
<1>5. ReplyMatchesRequest'
  BY DEF ReplyMatchesRequest, LinkInv
<1>6. \A i \in 1 .. Len(stream') : Foreign(stream'[i]) => site.foreign # {}
  BY <1>2
<1> QED
  BY <1>2, <1>3, <1>4, <1>5, <1>6, FaultTyped, EndInv

LEMMA ConnectInv == LinkInv /\ Connect => LinkInv'
<1> SUFFICES ASSUME LinkInv, Connect PROVE LinkInv'
  OBVIOUS
<1>1. CASE Dial("up") /\ UNCHANGED <<control, last, faults>>
  BY <1>1, DialUpInv DEF Connect, control, LinkInv, TypeOK
<1>2. CASE Dial("none") /\ Fault /\ Failed
  BY <1>2, DialFailsInv DEF Connect
<1> QED
  BY <1>1, <1>2 DEF Connect

LEMMA ConnErrorInv == LinkInv /\ ConnError => LinkInv'
<1> SUFFICES ASSUME LinkInv, ConnError PROVE LinkInv'
  OBVIOUS
<1>1. pc \in {"enter", "await"} /\ conn = "dead" /\ UNCHANGED <<site, regs, empties, heard>>
  BY DEF ConnError, Broken
<1>2. CASE /\ Dial("up") /\ again' = FALSE /\ pc' = "enter"
           /\ UNCHANGED <<call, part, attempt, try, last, faults>>
  BY <1>1, <1>2, DialUpInv
<1>3. CASE Dial("none") /\ Fault /\ Failed
  BY <1>1, <1>3, DialFailsInv
<1>4. CASE Failed /\ UNCHANGED <<conn, serial, line, stream, faults>>
  <2>1. TypeOK /\ PartOK /\ call # Idle
    BY <1>1 DEF LinkInv, TypeOK
  <2>2. Ended /\ (call' = Idle => last'.ok = FALSE)
    BY <1>4, <2>1, FailedEnds
  <2>3. empties' \in 0 .. 1 /\ faults' \in 0 .. MaxFaults
    BY <1>1, <1>4, <2>1 DEF TypeOK
  <2> QED
    BY <1>1, <1>4, <2>2, <2>3, GivenUpInv
<1> QED
  BY <1>2, <1>3, <1>4 DEF ConnError

LEMMA ProbeFailsInv == LinkInv /\ ProbeFails => LinkInv'
<1> SUFFICES ASSUME LinkInv, ProbeFails PROVE LinkInv'
  OBVIOUS
<1>1. TypeOK /\ PartOK /\ call # Idle /\ conn = "dead"
  BY DEF LinkInv, TypeOK, ProbeFails
<1>2. Ended /\ (call' = Idle => last'.ok = FALSE)
  BY <1>1, FailedEnds DEF ProbeFails
<1>3. empties' \in 0 .. 1 /\ faults' \in 0 .. MaxFaults
  BY <1>1 DEF TypeOK, ProbeFails
<1> QED
  BY <1>1, <1>2, <1>3, GivenUpInv DEF ProbeFails

\* The stream is empty when there is nothing that a timeout could miss.
LEMMA TimeoutInv == LinkInv /\ Timeout => LinkInv'
<1> SUFFICES ASSUME LinkInv, Timeout PROVE LinkInv'
  OBVIOUS
<1>1. TypeOK /\ PartOK /\ call # Idle
  BY DEF LinkInv, TypeOK, Timeout
<1>2. Ended /\ (call' = Idle => last'.ok = FALSE)
  BY <1>1, TimedOutEnds DEF Timeout
<1>3. empties' \in 0 .. 1 /\ faults' \in 0 .. MaxFaults
  BY <1>1 DEF TypeOK, Timeout
<1>4. Quiet
  <2>1. line \in Seq(Lined) /\ DOMAIN line = 1 .. Len(line)
    BY <1>1, LenProperties DEF TypeOK, Lined
  <2> QED
    BY <2>1 DEF Timeout, Quiet, Live
<1> QED
  BY <1>2, <1>3, <1>4, GivenUpInv DEF Timeout

\* A probe is the only thing under way; there is nobody to share the dongle with.
LEMMA ProbeInv ==
  ASSUME LinkInv, Probe
  PROVE  LinkInv'
<1>1. /\ stream' = Append(stream, Empty) /\ pc' = "probe" /\ pc = "enter" /\ conn = "up" /\ ~serial
      /\ UNCHANGED <<site, regs, call, part, attempt, try, again, conn, serial, line, empties, last,
                     heard, faults>>
  BY DEF Probe
<1>2. TypeOK /\ stream \in Seq(Frames) /\ site.foreign = {} /\ Quiet
  BY <1>1, LinkAssumption DEF LinkInv, CodesTell, TypeOK
<1>3. stream = <<>>
  <2>1. \A i \in 1 .. Len(stream) : FALSE
    BY <1>2 DEF LinkInv, Quiet
  <2> QED
    BY <1>2, <2>1, EmptySeq
<1>4. stream' = <<Empty>> /\ stream' \in Seq(Frames)
  BY <1>1, <1>3, EmptyIs
<1>5. TypeOK'
  BY <1>1, <1>2, <1>4 DEF TypeOK
<1>6. \A i \in 1 .. Len(stream') : Foreign(stream'[i]) => site.foreign # {}
  BY <1>4, EmptyIs
<1>7. ~Live'
  BY <1>1, <1>2 DEF Quiet, Live
<1> QED
  BY <1>1, <1>4, <1>5, <1>6, <1>7
  DEF LinkInv, PartOK, ReplyMatchesRequest, SuccessIsTrue, Settled

LEMMA ReceiveSerialInv == LinkInv /\ ReceiveSerial => LinkInv'
<1> SUFFICES ASSUME LinkInv, ReceiveSerial PROVE LinkInv'
  OBVIOUS
<1>1. /\ pc = "probe" /\ serial' = TRUE /\ pc' = "enter" /\ stream = <<Empty>> /\ stream # <<>>
      /\ UNCHANGED <<site, regs, call, part, attempt, try, again, conn, line, empties, last,
                     heard, faults>>
  BY DEF ReceiveSerial, LinkInv
<1>2. TypeOK /\ stream \in Seq(Frames) /\ (conn = "up" => ~Live)
  BY <1>1 DEF LinkInv, TypeOK
<1>3. /\ stream' \in Seq(Frames)
      /\ \A i \in 1 .. Len(stream') : \E k \in 1 .. Len(stream) : 1 < k /\ stream'[i] = stream[k]
  BY <1>1, <1>2, LeaveIs DEF ReceiveSerial
<1>4. Len(stream) = 1
  BY <1>1
<1>5. \A i \in 1 .. Len(stream') : FALSE
  BY <1>3, <1>4
<1>6. TypeOK'
  BY <1>1, <1>2, <1>3 DEF TypeOK
<1>7. conn = "up" => Quiet'
  BY <1>1, <1>2, <1>5 DEF Quiet, Live
<1> QED
  BY <1>1, <1>5, <1>6, <1>7
  DEF LinkInv, PartOK, ReplyMatchesRequest, SuccessIsTrue, Settled

LEMMA SendInv == LinkInv /\ Send => LinkInv'
<1> SUFFICES ASSUME LinkInv, Send PROVE LinkInv'
  OBVIOUS
<1> DEFINE mine == [req |-> Request, live |-> TRUE]
<1>1. /\ pc = "enter" /\ conn = "up" /\ serial /\ pc' = "await" /\ empties' = 0
      /\ line' = Append(line, mine) /\ stream' = Append(stream, Empty)
      /\ UNCHANGED <<site, regs, call, part, attempt, try, again, conn, serial, last, heard, faults>>
  BY DEF Send
<1>2. /\ TypeOK /\ PartOK /\ Quiet /\ call \in Calls /\ call # Idle /\ part \in {"read", "write"}
      /\ stream \in Seq(Frames) /\ line \in Seq(Lined)
  BY <1>1 DEF LinkInv, TypeOK, Lined
<1>3. mine \in Lined /\ mine.req = Request /\ mine.live
  BY <1>2, RequestTyped DEF Lined
<1> HIDE DEF mine
<1>4. /\ line' \in Seq(Lined) /\ Len(line') = Len(line) + 1 /\ Len(line) \in Nat
      /\ \A i \in 1 .. Len(line') : (i \in 1 .. Len(line) /\ line'[i] = line[i])
                                    \/ (i = Len(line) + 1 /\ line'[i] = mine)
  BY <1>1, <1>2, <1>3, AppendIs
<1>5. /\ stream' \in Seq(Frames) /\ Len(stream') = Len(stream) + 1 /\ Len(stream) \in Nat
      /\ \A i \in 1 .. Len(stream') : (i \in 1 .. Len(stream) /\ stream'[i] = stream[i])
                                      \/ (i = Len(stream) + 1 /\ stream'[i] = Empty)
  BY <1>1, <1>2, EmptyIs, AppendIs
<1>6. TypeOK'
  <2>1. /\ conn = "up" /\ serial /\ pc' = "await" /\ empties' = 0
        /\ UNCHANGED <<site, regs, call, part, attempt, try, again, conn, serial, last, heard, faults>>
    BY <1>1
  <2>2. line' \in Seq([req : Requests, live : BOOLEAN]) /\ stream' \in Seq(Frames)
    BY <1>4, <1>5 DEF Lined
  <2>3. empties' \in 0 .. 1
    BY <2>1
  <2>4. (pc' = "idle" <=> call' = Idle) /\ (pc' \in {"probe", "await"} => conn' # "none")
        /\ (pc' = "await" => serial') /\ pc' \in {"idle", "enter", "probe", "await"}
    BY <1>2, <2>1
  <2> QED
    BY <1>2, <2>1, <2>2, <2>3, <2>4 DEF TypeOK
<1>7. Request' = Request
  BY <1>1 DEF Request
<1>8. \A i \in 1 .. Len(line') : line'[i].live => i = Len(line') /\ line'[i].req = Request'
  BY <1>2, <1>3, <1>4, <1>7 DEF Quiet, Live
<1>9. \A i \in 1 .. Len(stream') : ~Ours(stream'[i]) /\ (stream'[i] = Empty => i = Len(stream'))
  <2>1. \A f : Foreign(f) => ~Ours(f) /\ f # Empty
    BY DEF Foreign, Ours, Empty
  <2> QED
    BY <1>2, <1>5, <2>1, EmptyIs DEF Quiet
<1>10. OneEmpty' /\ TwoEmpty'
  BY <1>9 DEF OneEmpty, TwoEmpty
<1>11. Awaiting'
  BY <1>1, <1>8, <1>9, <1>10 DEF Awaiting
<1>12. \A i \in 1 .. Len(stream') : Foreign(stream'[i]) => site.foreign # {}
  BY <1>5, EmptyIs DEF LinkInv
<1> QED
  BY <1>1, <1>2, <1>6, <1>11, <1>12
  DEF LinkInv, PartOK, ReplyMatchesRequest, SuccessIsTrue, Settled

\* What is awaited and what is not.
LEMMA ExpectedIsMine ==
  ASSUME LinkInv, pc = "await", stream # <<>>
  PROVE  /\ TypeOK /\ PartOK /\ call # Idle /\ Awaiting
         /\ stream \in Seq(Frames) /\ Len(stream) \in Nat \ {0} /\ Head(stream) = stream[1]
         /\ Head(stream) \in Frames
         /\ Ours(Head(stream)) <=> Expected(Head(stream))
         /\ ~Ours(Head(stream)) => Head(stream) = Empty \/ Foreign(Head(stream))
<1>1. TypeOK /\ PartOK /\ call # Idle /\ call \in Calls /\ part \in {"read", "write"} /\ Awaiting
      /\ stream \in Seq(Frames)
  BY DEF LinkInv, TypeOK
<1>2. /\ Len(stream) \in Nat \ {0} /\ Head(stream) = stream[1] /\ Head(stream) \in Frames
      /\ 1 \in 1 .. Len(stream)
  BY <1>1, TailIs
<1>3. Request.func = part
  BY <1>1, RequestTyped
<1>4. Ours(Head(stream)) => Expected(Head(stream))
  BY <1>1, <1>2, <1>3 DEF Awaiting, Expected, Ours
<1>5. Expected(Head(stream)) => Ours(Head(stream))
  BY <1>1, TheirsAre DEF Expected, Ours, LinkInv
<1> QED
  BY <1>1, <1>2, <1>4, <1>5, KindsOfFrame

LEMMA SkipInv == LinkInv /\ Skip => LinkInv'
<1> SUFFICES ASSUME LinkInv, Skip PROVE LinkInv'
  OBVIOUS
<1>1. /\ pc = "await" /\ stream # <<>> /\ ~Expected(Head(stream)) /\ stream' = Tail(stream)
      /\ Head(stream) = Empty => empties + 1 < 2
      /\ empties' = (IF Head(stream) = Empty THEN empties + 1 ELSE empties)
      /\ UNCHANGED <<site, regs, call, part, attempt, try, again, pc, conn, serial, line, last,
                     heard, faults>>
  BY DEF Skip, control, EmptyLimit
<1>2. TypeOK /\ PartOK /\ Awaiting /\ stream \in Seq(Frames) /\ empties \in 0 .. 1
      /\ (Head(stream) = Empty \/ Foreign(Head(stream)))
  BY <1>1, ExpectedIsMine DEF TypeOK
<1>3. /\ stream' \in Seq(Frames) /\ Len(stream) \in Nat \ {0} /\ Len(stream') = Len(stream) - 1
      /\ Head(stream) = stream[1] /\ 1 \in 1 .. Len(stream)
      /\ \A i \in 1 .. Len(stream') : i + 1 \in 1 .. Len(stream) /\ stream'[i] = stream[i + 1]
  BY <1>1, <1>2, TailIs
<1>4. TypeOK'
  <2>1. empties' \in 0 .. 1
    BY <1>1, <1>2
  <2>2. UNCHANGED <<site, regs, call, part, attempt, try, again, pc, conn, serial, line, last,
                    heard, faults>>
    BY <1>1
  <2> QED
    BY <1>2, <1>3, <2>1, <2>2, ZenonT(30) DEF TypeOK
<1>5. Request' = Request /\ Live' = Live
  BY <1>1 DEF Request, Live
<1>6. Answer' => Answer
  BY <1>3 DEF Answer
<1>7. ASSUME NEW i \in 1 .. Len(stream'), Ours(stream'[i])
      PROVE  /\ line' = <<>> /\ stream'[i].to = Request'
             /\ stream'[i].kind = "reply" /\ part' = "read" => stream'[i].val = regs'[call'.addr]
             /\ \A j \in 1 .. Len(stream') : i < j => Foreign(stream'[j])
  <2>1. i + 1 \in 1 .. Len(stream) /\ Ours(stream[i + 1]) /\ stream'[i] = stream[i + 1]
    BY <1>3, <1>7
  <2>2. /\ line = <<>> /\ stream[i + 1].to = Request
        /\ stream[i + 1].kind = "reply" /\ part = "read" => stream[i + 1].val = regs[call.addr]
        /\ \A j \in 1 .. Len(stream) : i + 1 < j => Foreign(stream[j])
    BY <1>2, <2>1 DEF Awaiting
  <2>3. ASSUME NEW j \in 1 .. Len(stream'), i < j PROVE Foreign(stream'[j])
    <3>1. j + 1 \in 1 .. Len(stream) /\ stream'[j] = stream[j + 1] /\ i + 1 < j + 1
      BY <1>3, <2>3
    <3> QED
      BY <2>2, <3>1
  <2> QED
    BY <1>1, <1>5, <2>1, <2>2, <2>3
<1>8. /\ Live \/ Answer => IF empties' = 0 THEN OneEmpty' ELSE NoEmpty'
      /\ IF empties' = 0 THEN TwoEmpty' ELSE OneEmpty'
  <2>1. CASE Head(stream) = Empty
    <3>1. empties = 0 /\ empties' = 1 /\ stream[1] = Empty
      BY <1>1, <1>2, <1>3, <2>1
    <3>2. OneEmpty => NoEmpty'
      <4> SUFFICES ASSUME OneEmpty, NEW i \in 1 .. Len(stream'), stream'[i] = Empty PROVE FALSE
        BY DEF NoEmpty
      <4>1. i + 1 \in 1 .. Len(stream) /\ stream[i + 1] = Empty /\ i + 1 # 1
        BY <1>3
      <4> QED
        BY <1>3, <3>1, <4>1 DEF OneEmpty
    <3>3. TwoEmpty => OneEmpty'
      <4> SUFFICES ASSUME TwoEmpty, NEW i \in 1 .. Len(stream'), NEW j \in 1 .. Len(stream'),
                          stream'[i] = Empty, stream'[j] = Empty
                   PROVE  i = j
        BY DEF OneEmpty
      <4>1. /\ i + 1 \in 1 .. Len(stream) /\ stream[i + 1] = Empty /\ i + 1 # 1
            /\ j + 1 \in 1 .. Len(stream) /\ stream[j + 1] = Empty /\ j + 1 # 1
        BY <1>3
      <4>2. i + 1 = j + 1
        BY <1>3, <3>1, <4>1 DEF TwoEmpty
      <4> QED
        BY <4>2
    <3> QED
      BY <1>2, <3>1, <3>2, <3>3 DEF Awaiting
  <2>2. CASE Head(stream) # Empty
    <3>1. empties' = empties
      BY <1>1, <2>2
    <3>2. NoEmpty => NoEmpty'
      BY <1>3 DEF NoEmpty
    <3>3. OneEmpty => OneEmpty'
      <4> SUFFICES ASSUME OneEmpty, NEW i \in 1 .. Len(stream'), NEW j \in 1 .. Len(stream'),
                          stream'[i] = Empty, stream'[j] = Empty
                   PROVE  i = j
        BY DEF OneEmpty
      <4>1. i + 1 = j + 1
        BY <1>3 DEF OneEmpty
      <4> QED
        BY <4>1
    <3>4. TwoEmpty => TwoEmpty'
      <4> SUFFICES ASSUME TwoEmpty, NEW i \in 1 .. Len(stream'), NEW j \in 1 .. Len(stream'),
                          NEW k \in 1 .. Len(stream'),
                          stream'[i] = Empty, stream'[j] = Empty, stream'[k] = Empty
                   PROVE  i = j \/ j = k \/ i = k
        BY DEF TwoEmpty
      <4>1. /\ i + 1 \in 1 .. Len(stream) /\ stream[i + 1] = Empty
            /\ j + 1 \in 1 .. Len(stream) /\ stream[j + 1] = Empty
            /\ k + 1 \in 1 .. Len(stream) /\ stream[k + 1] = Empty
        BY <1>3
      <4>2. i + 1 = j + 1 \/ j + 1 = k + 1 \/ i + 1 = k + 1
        BY <4>1 DEF TwoEmpty
      <4> QED
        BY <4>2
    <3> QED
      BY <1>2, <3>1, <3>2, <3>3, <3>4 DEF Awaiting
  <2> QED
    BY <2>1, <2>2
<1>9. \A i \in 1 .. Len(line') : line'[i].live => i = Len(line') /\ line'[i].req = Request'
  BY <1>1, <1>2, <1>5 DEF Awaiting
<1>10. Awaiting'
  BY <1>5, <1>6, <1>7, <1>8, <1>9 DEF Awaiting
<1>11. \A i \in 1 .. Len(stream') : Foreign(stream'[i]) => site.foreign # {}
  BY <1>3 DEF LinkInv
<1> QED
  BY <1>1, <1>2, <1>4, <1>10, <1>11
  DEF LinkInv, PartOK, ReplyMatchesRequest, SuccessIsTrue, Settled

\* After the second empty frame, and after the answer, only other services' frames are left.
LEMMA LeftIsForeign ==
  ASSUME LinkInv, pc = "await", stream # <<>>, Leave, UNCHANGED <<line, conn>>,
         Expected(Head(stream)) \/ (Head(stream) = Empty /\ empties = 1)
  PROVE  Quiet' /\ stream' \in Seq(Frames)
         /\ \A i \in 1 .. Len(stream') : Foreign(stream'[i]) => site.foreign # {}
<1>1. /\ TypeOK /\ Awaiting /\ stream \in Seq(Frames) /\ Len(stream) \in Nat \ {0}
      /\ Head(stream) = stream[1] /\ 1 \in 1 .. Len(stream)
  BY ExpectedIsMine
<1>2. /\ stream' \in Seq(Frames)
      /\ \A i \in 1 .. Len(stream') : \E k \in 1 .. Len(stream) : 1 < k /\ stream'[i] = stream[k]
  BY <1>1, LeaveIs
<1>3. ~Live /\ \A k \in 1 .. Len(stream) : 1 < k => Foreign(stream[k])
  <2>1. CASE Expected(Head(stream))
    <3>1. Ours(stream[1])
      BY <1>1, <2>1, ExpectedIsMine
    <3>2. line = <<>> /\ \A k \in 1 .. Len(stream) : 1 < k => Foreign(stream[k])
      BY <1>1, <3>1 DEF Awaiting
    <3>3. Len(line) = 0
      BY <3>2
    <3> QED
      BY <3>2, <3>3 DEF Live
  <2>2. CASE Head(stream) = Empty /\ empties = 1
    <3>1. ~NoEmpty
      BY <1>1, <2>2 DEF NoEmpty
    <3>2. ~Live /\ ~Answer /\ OneEmpty
      BY <1>1, <2>2, <3>1 DEF Awaiting
    <3>3. ASSUME NEW k \in 1 .. Len(stream), 1 < k PROVE Foreign(stream[k])
      <4>1. stream[k] # Empty /\ ~Ours(stream[k])
        BY <1>1, <2>2, <3>2, <3>3 DEF OneEmpty, Answer
      <4>2. stream[k] \in Frames
        BY <1>1, ElementOfSeq
      <4> QED
        BY <4>1, <4>2, KindsOfFrame
    <3> QED
      BY <3>2, <3>3
  <2> QED
    BY <2>1, <2>2
<1>4. Quiet'
  BY <1>2, <1>3 DEF Quiet, Live
<1> QED
  BY <1>2, <1>4 DEF LinkInv

LEMMA NoDeviceInv == LinkInv /\ NoDevice => LinkInv'
<1> SUFFICES ASSUME LinkInv, NoDevice PROVE LinkInv'
  OBVIOUS
<1>1. /\ pc = "await" /\ stream # <<>> /\ Head(stream) = Empty /\ empties + 1 = 2 /\ Leave /\ Failed
      /\ empties' = 0 /\ UNCHANGED <<site, regs, conn, serial, line, heard, faults>>
  BY DEF NoDevice, EmptyLimit
<1>2. TypeOK /\ PartOK /\ call # Idle /\ empties = 1
  <2>1. TypeOK /\ PartOK /\ call # Idle
    BY <1>1, ExpectedIsMine
  <2>2. empties \in 0 .. 1
    BY <2>1 DEF TypeOK
  <2> QED
    BY <1>1, <2>1, <2>2
<1>3. Ended /\ (call' = Idle => last'.ok = FALSE)
  BY <1>1, <1>2, FailedEnds
<1>4. Quiet' /\ stream' \in Seq(Frames) /\ \A i \in 1 .. Len(stream') : Foreign(stream'[i]) => site.foreign # {}
  BY <1>1, <1>2, LeftIsForeign
<1>5. /\ conn' \in {"none", "up", "dead"} /\ serial' \in BOOLEAN /\ empties' \in 0 .. 1
      /\ line' \in Seq(Lined) /\ faults' \in 0 .. MaxFaults
      /\ heard' \in {Nothing} \cup [asked : Requests, answered : Requests \cup Theirs]
  BY <1>1, <1>2 DEF TypeOK, Lined
<1>6. ReplyMatchesRequest' /\ (site.configured => serial')
  BY <1>1 DEF ReplyMatchesRequest, LinkInv
<1> QED
  BY <1>1, <1>3, <1>4, <1>5, <1>6, EndInv

\* The reply that is taken is the request's own, and after it the line is empty.
LEMMA ReceiveInv == LinkInv /\ Receive => LinkInv'
<1> SUFFICES ASSUME LinkInv, Receive PROVE LinkInv'
  OBVIOUS
<1> DEFINE f == Head(stream)
<1>1. /\ pc = "await" /\ stream # <<>> /\ Expected(f) /\ Leave
      /\ heard' = [asked |-> Request, answered |-> f.to]
      /\ empties' = 0 /\ UNCHANGED <<site, regs, conn, serial, line, faults>>
      /\ (f.kind = "reply" /\ Answered(f.val)) \/ (f.kind = "refusal" /\ Failed)
  BY DEF Receive
<1>2. /\ TypeOK /\ PartOK /\ call # Idle /\ Awaiting /\ f \in Frames /\ Ours(f) /\ f = stream[1]
      /\ 1 \in 1 .. Len(stream) /\ call \in Calls /\ part \in {"read", "write"}
  <2>1. /\ TypeOK /\ PartOK /\ call # Idle /\ Awaiting /\ f \in Frames /\ Ours(f) /\ f = stream[1]
        /\ Len(stream) \in Nat \ {0}
    BY <1>1, ExpectedIsMine
  <2>2. call \in Calls /\ part \in {"read", "write"}
    BY <2>1 DEF TypeOK
  <2> QED
    BY <2>1, <2>2
<1>3. /\ line = <<>> /\ f.to = Request
      /\ f.kind = "reply" /\ part = "read" => f.val = regs[call.addr]
      /\ f.kind = "reply" => f.val \in Values
  BY <1>2, KindsOfFrame DEF Awaiting
<1>4. /\ Ended
      /\ call' = Idle /\ last'.ok /\ last'.call.kind # "write" =>
           /\ regs[last'.call.addr] = last'.val
           /\ last'.call.kind = "verified" => last'.val = last'.call.val
  <2>1. CASE f.kind = "reply" /\ Answered(f.val)
    <3>1. f.val \in Values
      BY <1>3, <2>1
    <3> HIDE DEF f
    <3> QED
      BY <1>2, <1>3, <2>1, <3>1, AnsweredEnds
  <2>2. CASE f.kind = "refusal" /\ Failed
    BY <1>2, <2>2, FailedEnds
  <2> QED
    BY <1>1, <2>1, <2>2
<1>5. Quiet' /\ stream' \in Seq(Frames) /\ \A i \in 1 .. Len(stream') : Foreign(stream'[i]) => site.foreign # {}
  BY <1>1, LeftIsForeign
<1>6. Request \in Requests
  BY <1>2, RequestTyped
<1>7. heard' \in [asked : Requests, answered : Requests \cup Theirs] /\ ReplyMatchesRequest'
  BY <1>1, <1>3, <1>6 DEF ReplyMatchesRequest
<1>8. /\ conn' \in {"none", "up", "dead"} /\ serial' \in BOOLEAN /\ empties' \in 0 .. 1
      /\ line' \in Seq(Lined) /\ faults' \in 0 .. MaxFaults /\ (site.configured => serial')
  BY <1>1, <1>2 DEF TypeOK, Lined, LinkInv
<1> HIDE DEF f
<1> QED
  BY <1>1, <1>3, <1>4, <1>5, <1>7, <1>8, EndInv

-----------------------------------------------------------------------------
(***************************************************************************)
(* The dongle and the inverter.                                            *)
(***************************************************************************)

LEMMA TypeKept ==
  ASSUME TypeOK, line' \in Seq(Lined), stream' \in Seq(Frames),
         regs' \in [Addrs -> Values], faults' \in 0 .. MaxFaults,
         UNCHANGED <<site, call, part, attempt, try, again, pc, conn, serial, empties, last, heard>>
  PROVE  TypeOK'
  BY ZenonT(30) DEF TypeOK, Lined

\* The head of the line leaves it, and what is said of it, if anything, goes to the
\* connection it came by: an answer, which is true if it is to a read, or an empty frame.
LEMMA LineMovesInv ==
  ASSUME LinkInv, line # <<>>, line' = Tail(line),
         NEW said \in BOOLEAN, NEW f \in Frames,
         said => Head(line).live /\ conn = "up" /\ stream' = Append(stream, f),
         ~said => stream' = stream,
         f = Empty \/ ( /\ Ours(f) /\ f.to = Head(line).req
                        /\ f.kind = "reply" /\ Head(line).req.func = "read" =>
                             f.val = regs'[Head(line).req.addr] ),
         regs' \in [Addrs -> Values], faults' \in 0 .. MaxFaults,
         UNCHANGED <<site, control, conn, serial, empties, last, heard>>
  PROVE  LinkInv'
<1> DEFINE r == Head(line)
<1>1. /\ TypeOK /\ PartOK /\ line \in Seq(Lined) /\ stream \in Seq(Frames) /\ empties \in 0 .. 1
      /\ UNCHANGED <<site, call, part, attempt, try, again, pc, conn, serial, empties, last, heard>>
  BY DEF LinkInv, TypeOK, Lined, control
<1>2. /\ line' \in Seq(Lined) /\ Len(line) \in Nat \ {0} /\ Len(line') = Len(line) - 1
      /\ r = line[1] /\ 1 \in 1 .. Len(line)
      /\ \A i \in 1 .. Len(line') : i + 1 \in 1 .. Len(line) /\ line'[i] = line[i + 1]
  BY <1>1, TailIs
<1>3. /\ Len(stream) \in Nat
      /\ said => /\ stream' \in Seq(Frames) /\ Len(stream') = Len(stream) + 1
                 /\ \A i \in 1 .. Len(stream') : (i \in 1 .. Len(stream) /\ stream'[i] = stream[i])
                                                 \/ (i = Len(stream) + 1 /\ stream'[i] = f)
                 /\ Len(stream) + 1 \in 1 .. Len(stream') /\ stream'[Len(stream) + 1] = f
                 /\ \A i \in 1 .. Len(stream) : i \in 1 .. Len(stream') /\ stream'[i] = stream[i]
      /\ ~said => stream' \in Seq(Frames)
  <2>1. Len(stream) \in Nat
    BY <1>1
  <2> DEFINE q == Append(stream, f)
  <2>2. /\ q \in Seq(Frames) /\ Len(q) = Len(stream) + 1
        /\ \A i \in 1 .. Len(q) : (i \in 1 .. Len(stream) /\ q[i] = stream[i])
                                  \/ (i = Len(stream) + 1 /\ q[i] = f)
    BY <1>1, AppendIs
  <2>3. said => stream' = q
    OBVIOUS
  <2> HIDE DEF q
  <2>4. \A i \in 1 .. Len(stream) : i \in 1 .. Len(q) /\ q[i] = stream[i]
    BY <2>1, <2>2
  <2>5. Len(stream) + 1 \in 1 .. Len(q) /\ q[Len(stream) + 1] = f
    BY <2>1, <2>2
  <2> QED
    BY <1>1, <2>1, <2>2, <2>3, <2>4, <2>5
<1>4. TypeOK'
  BY <1>1, <1>2, <1>3, TypeKept
<1>5. ~Foreign(f)
  BY EmptyIs DEF Foreign, Ours
<1>6. \A i \in 1 .. Len(stream') : Foreign(stream'[i]) => site.foreign # {}
  BY <1>3, <1>5 DEF LinkInv
<1>7. Live' => Live
  BY <1>2 DEF Live
<1>8. r.live => Live
  BY <1>2 DEF Live
<1>9. said => pc = "await"
  <2>1. pc \in {"idle", "enter", "probe", "await"}
    BY <1>1 DEF TypeOK
  <2> QED
    BY <1>8, <2>1 DEF LinkInv, Quiet
<1>10. pc \in {"idle", "enter"} /\ conn = "up" => Quiet'
  BY <1>7, <1>9 DEF LinkInv, Quiet
<1>11. pc = "probe" => ~serial /\ stream' = <<Empty>> /\ (conn = "up" => ~Live')
  BY <1>7, <1>9 DEF LinkInv
<1>12. SuccessIsTrue' /\ Settled' /\ PartOK' /\ ReplyMatchesRequest'
  BY <1>1 DEF LinkInv, SuccessIsTrue, Settled, PartOK, ReplyMatchesRequest
<1>13. ASSUME pc = "await" PROVE Awaiting'
  <2>1. Awaiting /\ call \in Calls /\ call # Idle /\ part \in {"read", "write"}
    BY <1>1, <1>13 DEF LinkInv, TypeOK
  <2>2. Request' = Request /\ Request.func = part /\ Request.addr = call.addr
    BY <1>1, <2>1, RequestTyped DEF Request
  <2>3. ~Answer
    BY <2>1 DEF Awaiting, Answer
  <2>4. ASSUME NEW i \in 1 .. Len(line'), line'[i].live
        PROVE  i = Len(line') /\ line'[i].req = Request'
    <3>1. i + 1 \in 1 .. Len(line) /\ line'[i] = line[i + 1]
      BY <1>2
    <3>2. i + 1 = Len(line) /\ line[i + 1].req = Request
      BY <2>1, <2>4, <3>1 DEF Awaiting
    <3>3. i = Len(line) - 1
      BY <1>2, <3>2
    <3> QED
      BY <1>2, <2>2, <3>1, <3>2, <3>3
  <2>5. r.live => Len(line) = 1 /\ r.req = Request
    BY <1>2, <2>1 DEF Awaiting
  <2>6. r.live => line' = <<>> /\ ~Live'
    BY <1>2, <2>5, EmptySeq DEF Live
  <2>7. CASE ~said
    <3>1. stream' = stream
      BY <2>7
    <3>2. ~Answer' /\ \A i \in 1 .. Len(stream') : ~Ours(stream'[i])
      BY <2>3, <3>1 DEF Answer
    <3>3. (OneEmpty' <=> OneEmpty) /\ (TwoEmpty' <=> TwoEmpty) /\ (NoEmpty' <=> NoEmpty)
      BY <3>1 DEF OneEmpty, TwoEmpty, NoEmpty
    <3> QED
      BY <1>1, <1>7, <2>1, <2>4, <3>2, <3>3 DEF Awaiting
  <2>8. CASE said
    <3>1. /\ r.live /\ Live /\ line' = <<>> /\ ~Live' /\ r.req = Request
          /\ IF empties = 0 THEN OneEmpty ELSE NoEmpty
      BY <1>8, <2>1, <2>5, <2>6, <2>8 DEF Awaiting
    <3>2. \A i \in 1 .. Len(stream') : Ours(stream'[i]) => i = Len(stream') /\ stream'[i] = f
      BY <1>3, <2>3, <2>8 DEF Answer
    <3>3. \A i \in 1 .. Len(stream') : Ours(stream'[i]) =>
            /\ line' = <<>> /\ stream'[i].to = Request'
            /\ stream'[i].kind = "reply" /\ part = "read" => stream'[i].val = regs'[call.addr]
            /\ \A j \in 1 .. Len(stream') : i < j => Foreign(stream'[j])
      <4>1. Ours(f) => f.to = Request /\ (f.kind = "reply" /\ part = "read" => f.val = regs'[call.addr])
        BY <2>2, <3>1, EmptyIs
      <4> SUFFICES ASSUME NEW i \in 1 .. Len(stream'), Ours(stream'[i])
                   PROVE  /\ stream'[i].to = Request
                          /\ stream'[i].kind = "reply" /\ part = "read" => stream'[i].val = regs'[call.addr]
                          /\ \A j \in 1 .. Len(stream') : ~(i < j)
        BY <2>2, <3>1
      <4>2. i = Len(stream') /\ stream'[i] = f
        BY <3>2
      <4>3. \A j \in 1 .. Len(stream') : ~(i < j)
        BY <4>2
      <4> QED
        BY <4>1, <4>2, <4>3
    <3>4. OneEmpty => TwoEmpty'
      <4> SUFFICES ASSUME OneEmpty, NEW i \in 1 .. Len(stream'), NEW j \in 1 .. Len(stream'),
                          NEW k \in 1 .. Len(stream'),
                          stream'[i] = Empty, stream'[j] = Empty, stream'[k] = Empty
                   PROVE  i = j \/ j = k \/ i = k
        BY DEF TwoEmpty
      <4>1. /\ i = Len(stream) + 1 \/ (i \in 1 .. Len(stream) /\ stream[i] = Empty)
            /\ j = Len(stream) + 1 \/ (j \in 1 .. Len(stream) /\ stream[j] = Empty)
            /\ k = Len(stream) + 1 \/ (k \in 1 .. Len(stream) /\ stream[k] = Empty)
        BY <1>3, <2>8
      <4> QED
        BY <4>1 DEF OneEmpty
    <3>5. NoEmpty => OneEmpty'
      BY <1>3, <2>8 DEF NoEmpty, OneEmpty
    <3>6. f # Empty => (OneEmpty => OneEmpty') /\ (NoEmpty => NoEmpty')
      BY SMTT(30), <1>3, <2>8 DEF OneEmpty, NoEmpty
    <3>7. Answer' => f # Empty
      BY <3>2, EmptyIs DEF Answer
    <3>8. /\ Live' \/ Answer' => IF empties = 0 THEN OneEmpty' ELSE NoEmpty'
          /\ IF empties = 0 THEN TwoEmpty' ELSE OneEmpty'
      BY <3>1, <3>4, <3>5, <3>6, <3>7
    <3> QED
      BY <1>1, <2>4, <3>3, <3>8 DEF Awaiting
  <2> QED
    BY <2>7, <2>8
<1> QED
  BY <1>1, <1>4, <1>6, <1>10, <1>11, <1>12, <1>13 DEF LinkInv

\* The three ways in which the head of the line leaves it.
LEMMA AnswersInv ==
  ASSUME LinkInv, line # <<>>, NEW f \in Frames, Answers(<<f>>),
         f = Empty \/ ( /\ Ours(f) /\ f.to = Head(line).req
                        /\ f.kind = "reply" /\ Head(line).req.func = "read" =>
                             f.val = regs'[Head(line).req.addr] ),
         regs' \in [Addrs -> Values], faults' \in 0 .. MaxFaults
  PROVE  LinkInv'
<1> DEFINE said == Head(line).live /\ conn = "up"
<1>1. /\ line' = Tail(line) /\ UNCHANGED <<site, control, conn, serial, empties, last, heard>>
      /\ stream' = (IF Head(line).live /\ conn = "up" THEN stream \o <<f>> ELSE stream)
  BY DEF Answers
<1>2. stream \o <<f>> = Append(stream, f)
  BY DEF LinkInv, TypeOK
<1>3. Head(line) \in Lined
  <2>1. line \in Seq(Lined)
    BY DEF LinkInv, TypeOK, Lined
  <2> QED
    BY <2>1, TailIs
<1>4. said \in BOOLEAN
  BY <1>3 DEF Lined
<1>5. (said => Head(line).live /\ conn = "up" /\ stream' = Append(stream, f)) /\ (~said => stream' = stream)
  BY <1>1, <1>2
<1> HIDE DEF said
<1> QED
  BY <1>1, <1>4, <1>5, LineMovesInv

LEMMA HeadIs ==
  ASSUME LinkInv, line # <<>>
  PROVE  /\ Head(line).req \in Requests /\ Applied(Head(line).req) \in [Addrs -> Values]
         /\ Head(line).req.addr \in Addrs /\ Head(line).req \notin Theirs
         /\ Head(line).req.func \in {"read", "write"}
         /\ Head(line).req.func = "write" => Head(line).req.val \in Values
<1> DEFINE r == Head(line).req
<1>1. r \in Requests
  <2>1. line \in Seq(Lined)
    BY DEF LinkInv, TypeOK, Lined
  <2>2. Head(line) \in Lined
    BY <2>1, TailIs
  <2> QED
    BY <2>2 DEF Lined
<1> HIDE DEF r
<1>2. /\ r.addr \in Addrs /\ r \notin Theirs /\ r.func \in {"read", "write"}
      /\ r.func = "write" => r.val \in Values
  <2>1. r \notin Theirs
    BY <1>1, TheirsAre DEF LinkInv
  <2> QED
    BY <1>1, <2>1 DEF Requests
<1>3. regs \in [Addrs -> Values]
  BY DEF LinkInv, TypeOK
<1>4. Applied(r) \in [Addrs -> Values]
  BY <1>2, <1>3 DEF Applied
<1> QED
  BY <1>1, <1>2, <1>4 DEF r

LEMMA AnswerFrames ==
  ASSUME NEW r \in Requests, NEW v \in Values
  PROVE  /\ Reply(r, v) \in Frames /\ Reply(r, v).kind = "reply" /\ Reply(r, v).to = r /\ Reply(r, v).val = v
         /\ Refusal(r) \in Frames /\ Refusal(r).kind = "refusal" /\ Refusal(r).to = r
  BY DEF Reply, Refusal, Frames

LEMMA FaultsTyped == LinkInv => faults \in 0 .. MaxFaults /\ regs \in [Addrs -> Values]
  BY DEF LinkInv, TypeOK

LEMMA ServeInv == LinkInv /\ Serve => LinkInv'
<1> SUFFICES ASSUME LinkInv, Serve PROVE LinkInv'
  OBVIOUS
<1> DEFINE r == Head(line).req
           v == Applied(r)[r.addr]
<1>1. line # <<>> /\ regs' = Applied(r) /\ Answers(<<Reply(r, v)>>) /\ faults' = faults
  BY DEF Serve
<1>2. r \in Requests /\ Applied(r) \in [Addrs -> Values] /\ r.addr \in Addrs /\ r \notin Theirs /\ v \in Values
  BY <1>1, HeadIs
<1>3. Reply(r, v) \in Frames /\ Ours(Reply(r, v)) /\ Reply(r, v).to = r /\ Reply(r, v).val = v
  BY <1>2, AnswerFrames DEF Ours
<1>4. regs' \in [Addrs -> Values] /\ faults' \in 0 .. MaxFaults /\ v = regs'[r.addr]
  BY <1>1, <1>2, FaultsTyped
<1> HIDE DEF v
<1> QED
  BY <1>1, <1>3, <1>4, AnswersInv

LEMMA RefuseInv == LinkInv /\ Refuse => LinkInv'
<1> SUFFICES ASSUME LinkInv, Refuse PROVE LinkInv'
  OBVIOUS
<1> DEFINE r == Head(line).req
<1>1. /\ line # <<>> /\ Fault /\ regs' = regs
      /\ Answers(<<Refusal(r)>>) \/ (r.func = "write" /\ Answers(<<Reply(r, r.val)>>))
  BY DEF Refuse
<1>2. r \in Requests /\ r \notin Theirs /\ (r.func = "write" => r.val \in Values)
  BY <1>1, HeadIs
<1>3. regs' \in [Addrs -> Values] /\ faults' \in 0 .. MaxFaults
  BY <1>1, FaultsTyped, FaultTyped
<1>4. CASE Answers(<<Refusal(r)>>)
  <2>1. PICK v \in Values : TRUE
    BY LinkAssumption
  <2>2. Refusal(r) \in Frames /\ Ours(Refusal(r)) /\ Refusal(r).to = r /\ Refusal(r).kind = "refusal"
    BY <1>2, <2>1, AnswerFrames DEF Ours
  <2> QED
    BY <1>1, <1>3, <1>4, <2>2, AnswersInv
<1>5. CASE r.func = "write" /\ Answers(<<Reply(r, r.val)>>)
  <2>1. /\ Reply(r, r.val) \in Frames /\ Ours(Reply(r, r.val)) /\ Reply(r, r.val).to = r
        /\ r.func # "read"
    BY <1>2, <1>5, AnswerFrames DEF Ours
  <2> QED
    BY <1>1, <1>3, <1>5, <2>1, AnswersInv
<1> QED
  BY <1>1, <1>4, <1>5

LEMMA LoseInv == LinkInv /\ Lose => LinkInv'
<1> SUFFICES ASSUME LinkInv, Lose PROVE LinkInv'
  OBVIOUS
<1>1. line # <<>> /\ Fault /\ regs' \in {regs, Applied(Head(line).req)}
  BY DEF Lose
<1>2. regs' \in [Addrs -> Values] /\ faults' \in 0 .. MaxFaults
  BY <1>1, HeadIs, FaultsTyped, FaultTyped
<1>3. CASE Answers(<<Empty>>)
  BY <1>1, <1>2, <1>3, EmptyIs, AnswersInv
<1>4. CASE Answers(<<>>)
  <2>1. stream \o <<>> = stream
    BY ConcatEmptySeq DEF LinkInv, TypeOK
  <2>2. /\ line' = Tail(line) /\ UNCHANGED <<site, control, conn, serial, empties, last, heard>>
        /\ stream' = stream
    BY <1>4, <2>1 DEF Answers
  <2> QED
    BY <1>1, <1>2, <2>2, EmptyIs, LineMovesInv
<1> QED
  BY <1>3, <1>4 DEF Lose

\* Frames of other services come in between where there are such services.
LEMMA InterleaveInv ==
  ASSUME LinkInv, InterleaveReply
  PROVE  LinkInv'
<1>1. PICK r \in Theirs, v \in Values :
        r.func \in site.foreign /\ stream' = Append(stream, Reply(r, v))
  BY DEF InterleaveReply
<1> DEFINE f == Reply(r, v)
<1>2. /\ Fault /\ site.foreign # {}
      /\ UNCHANGED <<site, regs, call, part, attempt, try, again, pc, conn, serial, line, empties, last, heard>>
  BY <1>1 DEF InterleaveReply, control
<1>3. TypeOK /\ PartOK /\ stream \in Seq(Frames) /\ serial
  <2>1. site \in Sites
    BY DEF LinkInv, TypeOK
  <2>2. site.configured
    BY <1>2, <2>1 DEF LinkInv, CodesTell
  <2> QED
    BY <2>2 DEF LinkInv, TypeOK
<1>4. f \in Frames /\ Foreign(f) /\ f # Empty /\ ~Ours(f)
  <2>1. f \in Frames /\ Foreign(f)
    BY DEF Reply, Frames, Foreign
  <2> QED
    BY <2>1, KindsOfFrame DEF Foreign, Ours
<1> HIDE DEF f
<1>5. /\ stream' \in Seq(Frames) /\ Len(stream) \in Nat /\ Len(stream') = Len(stream) + 1
      /\ \A i \in 1 .. Len(stream') : (i \in 1 .. Len(stream) /\ stream'[i] = stream[i])
                                      \/ (i = Len(stream) + 1 /\ stream'[i] = f)
  BY <1>1, <1>3, <1>4, AppendIs DEF f
<1>6. TypeOK'
  <2>1. faults' \in 0 .. MaxFaults /\ regs' \in [Addrs -> Values] /\ line' \in Seq(Lined)
    BY <1>2, <1>3, FaultTyped DEF TypeOK, Lined
  <2> QED
    BY <1>2, <1>3, <1>5, <2>1, TypeKept
<1>7. Quiet => Quiet'
  BY <1>2, <1>4, <1>5 DEF Quiet, Live
<1>8. Awaiting => Awaiting'
  <2> SUFFICES ASSUME Awaiting PROVE Awaiting'
    OBVIOUS
  <2>1. Request' = Request /\ Live' = Live
    BY <1>2 DEF Request, Live
  <2>2. \A i \in 1 .. Len(stream') : Ours(stream'[i]) \/ stream'[i] = Empty =>
          i \in 1 .. Len(stream) /\ stream'[i] = stream[i]
    BY <1>4, <1>5
  <2>3. Answer' => Answer
    BY <2>2 DEF Answer
  <2>4. (NoEmpty => NoEmpty') /\ (OneEmpty => OneEmpty')
    BY <2>2 DEF NoEmpty, OneEmpty
  <2>5. TwoEmpty => TwoEmpty'
    BY <2>2 DEF TwoEmpty
  <2>6. \A i \in 1 .. Len(line') : line'[i].live => i = Len(line') /\ line'[i].req = Request'
    BY <1>2, <2>1 DEF Awaiting
  <2>7. ASSUME NEW i \in 1 .. Len(stream'), Ours(stream'[i])
        PROVE  /\ line' = <<>> /\ stream'[i].to = Request'
               /\ stream'[i].kind = "reply" /\ part' = "read" => stream'[i].val = regs'[call'.addr]
               /\ \A j \in 1 .. Len(stream') : i < j => Foreign(stream'[j])
    <3>1. i \in 1 .. Len(stream) /\ stream'[i] = stream[i] /\ Ours(stream[i])
      BY <2>2, <2>7
    <3>2. /\ line = <<>> /\ stream[i].to = Request
          /\ stream[i].kind = "reply" /\ part = "read" => stream[i].val = regs[call.addr]
          /\ \A j \in 1 .. Len(stream) : i < j => Foreign(stream[j])
      BY <3>1 DEF Awaiting
    <3>3. \A j \in 1 .. Len(stream') : i < j => Foreign(stream'[j])
      BY <1>4, <1>5, <3>2
    <3> QED
      BY <1>2, <2>1, <3>1, <3>2, <3>3
  <2>8. /\ Live' \/ Answer' => IF empties' = 0 THEN OneEmpty' ELSE NoEmpty'
        /\ IF empties' = 0 THEN TwoEmpty' ELSE OneEmpty'
    BY <1>2, <2>1, <2>3, <2>4, <2>5 DEF Awaiting
  <2> QED
    BY <2>6, <2>7, <2>8 DEF Awaiting
<1>9. \A i \in 1 .. Len(stream') : Foreign(stream'[i]) => site.foreign # {}
  BY <1>2
<1>10. PartOK' /\ ReplyMatchesRequest' /\ SuccessIsTrue' /\ Settled'
  BY <1>2 DEF LinkInv, PartOK, ReplyMatchesRequest, SuccessIsTrue, Settled
<1>11. pc # "probe"
  BY <1>3 DEF LinkInv
<1> QED
  BY <1>2, <1>6, <1>7, <1>8, <1>9, <1>10, <1>11 DEF LinkInv

LEMMA DropInv == LinkInv /\ Drop => LinkInv'
<1> SUFFICES ASSUME LinkInv, Drop PROVE LinkInv'
  OBVIOUS
<1>1. /\ conn' = "dead" /\ Fault
      /\ UNCHANGED <<site, regs, call, part, attempt, try, again, pc, serial, line, stream, empties,
                     last, heard>>
  BY DEF Drop, control
<1>2. TypeOK'
  BY <1>1, FaultTyped DEF LinkInv, TypeOK
<1>3. Awaiting => Awaiting'
  BY <1>1 DEF Awaiting, Live, Answer, NoEmpty, OneEmpty, TwoEmpty, Request
<1> QED
  BY <1>1, <1>2, <1>3
  DEF LinkInv, PartOK, ReplyMatchesRequest, SuccessIsTrue, Settled

-----------------------------------------------------------------------------
LEMMA InitInv == CodesTell /\ Init => LinkInv
<1> SUFFICES ASSUME CodesTell, Init PROVE LinkInv
  OBVIOUS
<1>1. 1 \in 1 .. VerifyAttempts /\ 1 \in 1 .. MaxTries /\ 0 \in 0 .. MaxFaults
  BY LinkAssumption
<1>2. TypeOK
  BY <1>1, EmptySeq DEF Init, TypeOK
<1>3. Quiet
  BY DEF Init, Quiet, Live
<1> QED
  BY <1>2, <1>3 DEF Init, LinkInv, PartOK, ReplyMatchesRequest, SuccessIsTrue, Settled

LEMMA LinkInvInductive == LinkInv /\ [Next]_vars => LinkInv'
<1> SUFFICES ASSUME LinkInv, [Next]_vars PROVE LinkInv'
  OBVIOUS
<1>1. CASE UNCHANGED vars
  <2>1. UNCHANGED <<site, regs, call, part, attempt, try, again, pc, conn, serial, line, stream,
                    empties, last, heard, faults>>
    BY <1>1 DEF vars, control
  <2>2. Awaiting => Awaiting'
    BY <2>1 DEF Awaiting, Live, Answer, NoEmpty, OneEmpty, TwoEmpty, Request
  <2>3. TypeOK'
    BY ZenonT(30), <2>1 DEF LinkInv, TypeOK
  <2>4. PartOK' /\ Settled' /\ ReplyMatchesRequest' /\ SuccessIsTrue'
    BY <2>1 DEF LinkInv, PartOK, Settled, ReplyMatchesRequest, SuccessIsTrue
  <2>5. Live' = Live
    BY <2>1 DEF Live
  <2>6. Quiet => Quiet'
    BY <2>1, <2>5 DEF Quiet
  <2> QED
    BY <2>1, <2>2, <2>3, <2>4, <2>5, <2>6 DEF LinkInv
<1>2. CASE Client
  BY <1>2, BeginInv, ConnectInv, ProbeInv, ProbeFailsInv, SendInv, ConnErrorInv, TimeoutInv,
     ReceiveSerialInv, SkipInv, NoDeviceInv, ReceiveInv DEF Client
<1> QED
  BY <1>1, <1>2, ServeInv, RefuseInv, LoseInv, InterleaveInv, DropInv DEF Next

\* Every variable of the link stays in its type, a reply is taken by the request it is
\* for, and a read or a verified write that succeeds has told the truth, whatever is
\* lost, refused or tried again (client.go:280, charge_settings.go:271-273), where other
\* services of the dongle, if any, use other function codes and the serial is configured.
THEOREM LinkIsSound ==
  ASSUME CodesTell
  PROVE  Spec => []LinkSound
<1>1. LinkInv => LinkSound
  BY DEF LinkInv, LinkSound
<1> QED
  BY <1>1, InitInv, LinkInvInductive, PTL DEF Spec

-----------------------------------------------------------------------------
(***************************************************************************)
(* FrameReception.                                                         *)
(***************************************************************************)

\* What the loop of extractAllFrames takes from i to next.
Closed(data, i, next) ==
  IF data[next - 1] = endMarker THEN <<SubSeq(data, i, next - 1)>> ELSE <<>>

\* The loop at position i, f being the rest of it.
FoundAt(data, i, f) ==
  LET n == Len(data) IN
  IF i > n THEN <<>>
  ELSE IF data[i] # startMarker THEN f[i + 1]
  ELSE IF i = n THEN <<>>
  ELSE LET next == i + data[i + 1] + Overhead IN
       IF next > n + 1 THEN <<>>
       ELSE Closed(data, i, next) \o f[next]

Found(data) == CHOOSE f : f = [i \in 1 .. Len(data) + 1 |-> FoundAt(data, i, f)]

\* The program's function is this one.
LEMMA ExtractedIsFound ==
  ASSUME NEW data  PROVE  ExtractAllFrames(data) = Found(data)[1]
BY DEF ExtractAllFrames, Found, FoundAt, Closed

\* Its cases: the end, or nothing but a marker,
LEMMA FoundEnd ==
  ASSUME NEW data \in Seq(Nat), NEW i \in Nat \ {0}, NEW f,
         i > Len(data) \/ (i = Len(data) /\ data[i] = startMarker)
  PROVE  FoundAt(data, i, f) = <<>>
<1>1. Len(data) \in Nat
  BY LenProperties
<1> QED  BY <1>1 DEF FoundAt

\* ... a byte between frames,
LEMMA FoundSkips ==
  ASSUME NEW data \in Seq(Nat), NEW i \in 1 .. Len(data), NEW f, data[i] # startMarker
  PROVE  FoundAt(data, i, f) = f[i + 1]
<1>1. Len(data) \in Nat
  BY LenProperties
<1> QED  BY <1>1 DEF FoundAt

\* ... a frame that is not all there,
LEMMA FoundWaits ==
  ASSUME NEW data \in Seq(Nat), NEW i \in 1 .. Len(data), NEW f, data[i] = startMarker,
         i < Len(data), NEW next \in Nat, next = i + data[i + 1] + 3, next > Len(data) + 1
  PROVE  FoundAt(data, i, f) = <<>>
<1>1. Len(data) \in Nat
  BY LenProperties
<1>2. next = i + data[i + 1] + Overhead
  BY DEF Overhead, Header
<1> QED  BY <1>1, <1>2 DEF FoundAt

\* ... and one that is.
LEMMA FoundTakes ==
  ASSUME NEW data \in Seq(Nat), NEW i \in 1 .. Len(data), NEW f, data[i] = startMarker,
         i < Len(data), NEW next \in Nat, next = i + data[i + 1] + 3, ~ (next > Len(data) + 1)
  PROVE  FoundAt(data, i, f) = Closed(data, i, next) \o f[next]
<1>1. Len(data) \in Nat
  BY LenProperties
<1>2. next = i + data[i + 1] + Overhead
  BY DEF Overhead, Header
<1>3. ~ (i > Len(data)) /\ i # Len(data)
  BY <1>1
<1>4. FoundAt(data, i, f)
        = IF i + data[i + 1] + Overhead > Len(data) + 1 THEN <<>>
          ELSE Closed(data, i, i + data[i + 1] + Overhead) \o f[i + data[i + 1] + Overhead]
  BY <1>3 DEF FoundAt
<1> QED  BY <1>2, <1>4

\* Where the next turn of the loop is.
LEMMA FoundNext ==
  ASSUME NEW data \in Seq(Nat), NEW i \in 1 .. Len(data), i < Len(data)
  PROVE  \E next \in Nat : next = i + data[i + 1] + 3 /\ next > i + 2
<1>1. Len(data) \in Nat /\ i + 1 \in 1 .. Len(data)
  BY LenProperties
<1>2. data[i + 1] \in Nat
  BY <1>1, ElementOfSeq
<1>3. i + data[i + 1] + 3 \in Nat /\ i + data[i + 1] + 3 > i + 2
  BY <1>2
<1> QED  BY <1>3

\* A turn looks at what follows only.
LEMMA FoundLooksAhead ==
  ASSUME NEW data \in Seq(Nat), NEW i \in 1 .. Len(data) + 1, NEW f, NEW g,
         \A j \in i + 1 .. Len(data) + 1 : f[j] = g[j]
  PROVE  FoundAt(data, i, f) = FoundAt(data, i, g)
<1>1. Len(data) \in Nat
  BY LenProperties
<1>2. CASE i > Len(data) \/ (i = Len(data) /\ data[i] = startMarker)
  BY <1>2, FoundEnd
<1>3. CASE i <= Len(data) /\ data[i] # startMarker
  <2>1. i \in 1 .. Len(data) /\ f[i + 1] = g[i + 1]
    BY <1>1, <1>3
  <2> QED  BY <1>3, <2>1, FoundSkips
<1>4. CASE i < Len(data) /\ data[i] = startMarker
  <2>1. i \in 1 .. Len(data)
    BY <1>1, <1>4
  <2>2. PICK next \in Nat : next = i + data[i + 1] + 3 /\ next > i + 2
    BY <1>4, <2>1, FoundNext
  <2>3. CASE next > Len(data) + 1
    <3>1. FoundAt(data, i, f) = <<>>
      BY <1>4, <2>1, <2>2, <2>3, FoundWaits
    <3>2. FoundAt(data, i, g) = <<>>
      BY <1>4, <2>1, <2>2, <2>3, FoundWaits
    <3> QED  BY <3>1, <3>2
  <2>4. CASE ~ (next > Len(data) + 1)
    <3>1. FoundAt(data, i, f) = Closed(data, i, next) \o f[next]
      BY <1>4, <2>1, <2>2, <2>4, FoundTakes
    <3>2. FoundAt(data, i, g) = Closed(data, i, next) \o g[next]
      BY <1>4, <2>1, <2>2, <2>4, FoundTakes
    <3>3. f[next] = g[next]
      <4>1. next \in i + 1 .. Len(data) + 1
        BY <1>1, <2>2, <2>4, SMTT(30)
      <4> QED  BY <4>1
    <3> QED  BY <3>1, <3>2, <3>3
  <2> QED  BY <2>3, <2>4
<1> QED  BY <1>1, <1>2, <1>3, <1>4

\* The recursion has a solution.
LEMMA FoundExists ==
  ASSUME NEW data \in Seq(Nat)
  PROVE  Found(data) = [i \in 1 .. Len(data) + 1 |-> FoundAt(data, i, Found(data))]
<1> DEFINE L == Len(data)
           Solves(f, k) == f = [p \in (L + 1 - k)..(L + 1) |-> FoundAt(data, p, f)]
           Solved == {k \in Nat : k <= L => \E f : Solves(f, k)}
<1>1. L \in Nat
  BY LenProperties
<1>2. 0 \in Solved
  <2> DEFINE f == [p \in (L + 1 - 0)..(L + 1) |-> FoundAt(data, p, <<>>)]
  <2>1. \A p \in (L + 1 - 0)..(L + 1) : FoundAt(data, p, f) = FoundAt(data, p, <<>>)
    <3> TAKE p \in (L + 1 - 0)..(L + 1)
    <3> HIDE DEF f
    <3>1. p \in 1..(L + 1) /\ \A i \in (p + 1)..(L + 1) : f[i] = <<>>[i]
      BY <1>1
    <3> QED  BY <3>1, FoundLooksAhead
  <2>2. Solves(f, 0)
    BY <2>1
  <2> HIDE DEF f
  <2> QED  BY <2>2
<1>3. ASSUME NEW k \in Nat, k \in Solved  PROVE k + 1 \in Solved
  <2>1. SUFFICES ASSUME k + 1 <= L  PROVE \E f : Solves(f, k + 1)
    OBVIOUS
  <2>2. PICK f : Solves(f, k)
    BY <1>1, <1>3, <2>1
  <2> DEFINE lo == L - k
             g == [p \in lo..(L + 1) |-> IF p = lo THEN FoundAt(data, lo, f) ELSE f[p]]
  <2>3. lo \in 1..L /\ L + 1 - k = lo + 1 /\ L + 1 - (k + 1) = lo
    BY <1>1, <2>1
  <2>4. \A p \in lo..(L + 1) : FoundAt(data, p, g) = FoundAt(data, p, f)
    <3> TAKE p \in lo..(L + 1)
    <3>1. \A i \in (p + 1)..(L + 1) : g[i] = f[i]
      BY <1>1, <2>3
    <3>2. p \in 1..(L + 1)
      BY <1>1, <2>3
    <3> HIDE DEF g
    <3> QED  BY <3>1, <3>2, FoundLooksAhead
  <2>5. \A p \in lo..(L + 1) : g[p] = FoundAt(data, p, f)
    <3> TAKE p \in lo..(L + 1)
    <3>1. CASE p = lo
      BY <3>1
    <3>2. CASE p # lo
      <4>1. p \in (L + 1 - k)..(L + 1)
        BY <1>1, <2>3, <3>2
      <4>2. f[p] = FoundAt(data, p, f)
        BY <2>2, <4>1
      <4> QED  BY <3>2, <4>2
    <3> QED  BY <3>1, <3>2
  <2>6. g = [p \in lo..(L + 1) |-> FoundAt(data, p, g)]
    <3>1. \A p \in lo..(L + 1) : g[p] = FoundAt(data, p, g)
      BY <2>4, <2>5
    <3>2. g = [p \in lo..(L + 1) |-> g[p]]
      OBVIOUS
    <3> HIDE DEF g
    <3> QED  BY <3>1, <3>2
  <2> HIDE DEF g
  <2> QED  BY <2>3, <2>6
<1>4. Nat \subseteq Solved
  <2> HIDE DEF Solved
  <2> QED  BY <1>2, <1>3, AllNaturals
<1>5. PICK f : Solves(f, L)
  BY <1>1, <1>4
<1>6. f = [p \in 1..(L + 1) |-> FoundAt(data, p, f)]
  BY <1>1, <1>5
<1> QED  BY <1>6 DEF Found

\* It is the turn at each position.
LEMMA FoundOf ==
  ASSUME NEW data \in Seq(Nat), NEW i \in 1 .. Len(data) + 1
  PROVE  Found(data)[i] = FoundAt(data, i, Found(data))
<1> DEFINE F == Found(data)
<1>1. F = [k \in 1 .. Len(data) + 1 |-> FoundAt(data, k, F)]
  BY FoundExists
<1> HIDE DEF F
<1>2. F[i] = FoundAt(data, i, F)
  BY <1>1
<1> QED  BY <1>2 DEF F

-----------------------------------------------------------------------------
\* The bytes of frames, counted frame by frame.
Counts(b, frames) ==
  b[0] = 0 /\ \A k \in 1 .. Len(frames) : b[k] = b[k - 1] + Len(frames[k])

\* Advance is what any count comes to.
LEMMA AdvanceIs ==
  ASSUME NEW frames \in Seq(Seq(Nat)), NEW b, Counts(b, frames)
  PROVE  Advance(frames) = b[Len(frames)]
<1> DEFINE m == Len(frames)
           Turn(g, k) == IF k = 0 THEN 0 ELSE g[k - 1] + Len(frames[k])
           A == CHOOSE g : g = [k \in 0 .. m |-> Turn(g, k)]
<1>1. m \in Nat
  BY LenProperties
<1>2. Advance(frames) = A[m]
  BY DEF Advance
<1>3. \E g : g = [k \in 0 .. m |-> Turn(g, k)]
  <2> DEFINE h == [k \in 0 .. m |-> b[k]]
  <2>1. \A k \in 0 .. m : h[k] = Turn(h, k)
    <3>1. ASSUME NEW k \in 0 .. m  PROVE h[k] = Turn(h, k)
      <4>1. CASE k = 0
        BY <4>1 DEF Counts
      <4>2. CASE k # 0
        <5>1. k \in 1 .. m /\ k - 1 \in 0 .. m
          BY <1>1, <4>2
        <5> QED  BY <4>2, <5>1 DEF Counts
      <4> QED  BY <4>1, <4>2
    <3> QED  BY <3>1
  <2>2. h = [k \in 0 .. m |-> h[k]]
    OBVIOUS
  <2> HIDE DEF h, Turn
  <2>3. h = [k \in 0 .. m |-> Turn(h, k)]
    BY <2>1, <2>2
  <2> QED  BY <2>3
<1>4. A = [k \in 0 .. m |-> Turn(A, k)]
  BY <1>3
<1> HIDE DEF A
<1> DEFINE T == {k \in Nat : k <= m => A[k] = b[k]}
<1>5. 0 \in T
  BY <1>1, <1>4 DEF Counts
<1>6. ASSUME NEW k \in Nat, k \in T  PROVE k + 1 \in T
  <2>1. SUFFICES ASSUME k + 1 <= m  PROVE A[k + 1] = b[k + 1]
    OBVIOUS
  <2>2. k + 1 \in 1 .. m /\ k + 1 \in 0 .. m /\ k + 1 - 1 = k /\ k + 1 # 0
    BY <1>1, <2>1
  <2>3. A[k] = b[k]
    BY <1>1, <1>6, <2>1
  <2>4. A[k + 1] = A[k] + Len(frames[k + 1])
    BY <1>4, <2>2
  <2>5. b[k + 1] = b[k] + Len(frames[k + 1])
    BY <2>2 DEF Counts
  <2> QED  BY <2>3, <2>4, <2>5
<1>7. Nat \subseteq T
  <2> HIDE DEF T
  <2> QED  BY <1>5, <1>6, AllNaturals
<1> QED  BY <1>1, <1>2, <1>7

\* There is one.
LEMMA CountExists ==
  ASSUME NEW frames \in Seq(Seq(Nat))
  PROVE  \E b \in [0 .. Len(frames) -> Nat] : Counts(b, frames)
<1> DEFINE m == Len(frames)
           Upto(b, n) == b[0] = 0 /\ \A k \in 1 .. n : b[k] = b[k - 1] + Len(frames[k])
           T == {n \in Nat : n <= m => \E b \in [0 .. m -> Nat] : Upto(b, n)}
<1>1. m \in Nat /\ \A k \in 1 .. m : Len(frames[k]) \in Nat
  <2>1. m \in Nat /\ \A k \in 1 .. m : frames[k] \in Seq(Nat)
    BY LenProperties, ElementOfSeq
  <2> QED  BY <2>1, LenProperties
<1>2. 0 \in T
  <2> DEFINE b == [k \in 0 .. m |-> 0]
  <2>1. b \in [0 .. m -> Nat] /\ Upto(b, 0)
    BY <1>1
  <2> QED  BY <2>1
<1>3. ASSUME NEW n \in Nat, n \in T  PROVE n + 1 \in T
  <2>1. SUFFICES ASSUME n + 1 <= m  PROVE \E b \in [0 .. m -> Nat] : Upto(b, n + 1)
    <3> HIDE DEF Upto
    <3> QED  OBVIOUS
  <2>2. PICK b \in [0 .. m -> Nat] : Upto(b, n)
    <3> HIDE DEF Upto
    <3> QED  BY <1>1, <1>3, <2>1
  <2> DEFINE c == [b EXCEPT ![n + 1] = b[n] + Len(frames[n + 1])]
  <2>3. n \in 0 .. m /\ n + 1 \in 1 .. m
    BY <1>1, <2>1
  <2>4. c \in [0 .. m -> Nat]
    <3>1. b[n] \in Nat /\ Len(frames[n + 1]) \in Nat
      BY <1>1, <2>3
    <3>2. b[n] + Len(frames[n + 1]) \in Nat
      BY <3>1
    <3> QED  BY <3>2
  <2>5. c[0] = 0
    BY <2>2, <2>3
  <2>6. ASSUME NEW k \in 1 .. n + 1  PROVE c[k] = c[k - 1] + Len(frames[k])
    <3>1. k \in 0 .. m /\ k - 1 \in 0 .. m /\ k - 1 # n + 1
      BY <1>1, <2>1
    <3>2. c[k - 1] = b[k - 1]
      BY <3>1
    <3>3. CASE k = n + 1
      <4>1. k - 1 = n
        BY <3>3
      <4> QED  BY <3>1, <3>2, <3>3, <4>1
    <3>4. CASE k # n + 1
      <4>1. k \in 1 .. n
        BY <3>4
      <4>2. c[k] = b[k]
        BY <3>1, <3>4
      <4> QED  BY <2>2, <3>2, <4>1, <4>2
    <3> QED  BY <3>3, <3>4
  <2> HIDE DEF c
  <2>7. Upto(c, n + 1)
    BY <2>5, <2>6
  <2> QED  BY <2>4, <2>7
<1>4. Nat \subseteq T
  <2> HIDE DEF T
  <2> QED  BY <1>2, <1>3, AllNaturals
<1>5. m \in T
  BY <1>1, <1>4
<1> QED  BY <1>1, <1>5 DEF Counts

\* It is a number,
LEMMA AdvanceType ==
  ASSUME NEW frames \in Seq(Seq(Nat))  PROVE Advance(frames) \in Nat
<1>1. PICK b \in [0 .. Len(frames) -> Nat] : Counts(b, frames)
  BY CountExists
<1>2. Len(frames) \in 0 .. Len(frames)
  BY LenProperties
<1> QED  BY <1>1, <1>2, AdvanceIs

\* ... none for no frame,
LEMMA AdvanceEmpty == Advance(<<>>) = 0
<1> DEFINE b == [k \in 0 .. 0 |-> 0]
<1>1. PICK e : e = <<>> /\ e \in Seq(Seq(Nat)) /\ Len(e) = 0
  BY EmptySeq
<1>2. Counts(b, e) /\ b[Len(e)] = 0
  BY <1>1 DEF Counts
<1> HIDE DEF b
<1> QED  BY <1>1, <1>2, AdvanceIs

\* ... and the length of one.
LEMMA AdvanceOne ==
  ASSUME NEW f \in Seq(Nat)  PROVE Advance(<<f>>) = Len(f) /\ <<f>> \in Seq(Seq(Nat))
<1> DEFINE b == [k \in 0 .. 1 |-> IF k = 0 THEN 0 ELSE Len(f)]
<1>1. Counts(b, <<f>>) /\ b[Len(<<f>>)] = Len(f)
  BY LenProperties DEF Counts
<1>2. <<f>> \in Seq(Seq(Nat))
  OBVIOUS
<1> HIDE DEF b
<1> QED  BY <1>1, <1>2, AdvanceIs

\* The bytes of some frames and then others.
LEMMA AdvanceConcat ==
  ASSUME NEW s \in Seq(Seq(Nat)), NEW t \in Seq(Seq(Nat))
  PROVE  Advance(s \o t) = Advance(s) + Advance(t) /\ s \o t \in Seq(Seq(Nat))
<1>1. PICK n, m : n = Len(s) /\ m = Len(t) /\ n \in Nat /\ m \in Nat
  BY LenProperties
<1>2. PICK u : /\ u = s \o t /\ u \in Seq(Seq(Nat)) /\ Len(u) = n + m
               /\ \A k \in 1 .. n + m : u[k] = IF k <= n THEN s[k] ELSE t[k - n]
  <2>1. /\ s \o t \in Seq(Seq(Nat)) /\ Len(s \o t) = n + m
        /\ \A k \in 1 .. n + m : (s \o t)[k] = IF k <= n THEN s[k] ELSE t[k - n]
    BY <1>1, ConcatProperties
  <2> QED  BY <2>1
<1>3. PICK b \in [0 .. n -> Nat] : Counts(b, s)
  BY <1>1, CountExists
<1>4. PICK c \in [0 .. m -> Nat] : Counts(c, t)
  BY <1>1, CountExists
<1> DEFINE d == [k \in 0 .. n + m |-> IF k <= n THEN b[k] ELSE b[n] + c[k - n]]
<1>5. \A k \in 0 .. n : d[k] = b[k]
  BY <1>1
<1>6. \A k \in n .. n + m : d[k] = b[n] + c[k - n]
  <2>1. d[n] = b[n] + c[n - n]
    BY <1>1, <1>3, <1>4 DEF Counts
  <2>2. ASSUME NEW k \in n .. n + m, k # n  PROVE d[k] = b[n] + c[k - n]
    BY <1>1, <2>2
  <2> QED  BY <2>1, <2>2
<1> HIDE DEF d
<1>7. d[0] = 0
  BY <1>1, <1>3, <1>5 DEF Counts
<1>8. ASSUME NEW k \in 1 .. n + m  PROVE d[k] = d[k - 1] + Len(u[k])
  <2>1. CASE k <= n
    <3>1. k \in 1 .. n /\ k \in 0 .. n /\ k - 1 \in 0 .. n
      BY <1>1, <2>1
    <3>2. u[k] = s[k]
      BY <1>2, <2>1
    <3>3. b[k] = b[k - 1] + Len(s[k])
      BY <1>1, <1>3, <3>1 DEF Counts
    <3> QED  BY <1>5, <3>1, <3>2, <3>3
  <2>2. CASE ~ (k <= n)
    <3>1. /\ k - n \in 1 .. m /\ k \in n .. n + m /\ k - 1 \in n .. n + m
          /\ k - n \in 0 .. m /\ (k - n) - 1 \in 0 .. m /\ (k - 1) - n = (k - n) - 1 /\ n \in 0 .. n
      BY <1>1, <2>2
    <3>2. u[k] = t[k - n]
      BY <1>2, <2>2
    <3>3. c[k - n] = c[(k - n) - 1] + Len(t[k - n])
      BY <1>1, <1>4, <3>1 DEF Counts
    <3>4. d[k] = b[n] + c[k - n] /\ d[k - 1] = b[n] + c[(k - n) - 1]
      BY <1>6, <3>1
    <3>5. b[n] \in Nat /\ c[(k - n) - 1] \in Nat /\ c[k - n] \in Nat /\ Len(t[k - n]) \in Nat
      <4>1. t[k - n] \in Seq(Nat)
        BY <1>1, <3>1, ElementOfSeq
      <4> QED  BY <3>1, <4>1, LenProperties
    <3> QED  BY <3>2, <3>3, <3>4, <3>5
  <2> QED  BY <2>1, <2>2
<1>9. Counts(d, u)
  BY <1>2, <1>7, <1>8 DEF Counts
<1>10. Advance(u) = d[n + m]
  BY <1>2, <1>9, AdvanceIs
<1>11. d[n + m] = b[n] + c[m]
  <2>1. n + m \in n .. n + m /\ (n + m) - n = m
    BY <1>1
  <2> QED  BY <1>6, <2>1
<1>12. Advance(s) = b[n] /\ Advance(t) = c[m]
  BY <1>1, <1>3, <1>4, AdvanceIs
<1> QED  BY <1>2, <1>10, <1>11, <1>12

-----------------------------------------------------------------------------
\* What is closed is a frame of its bytes, or nothing.
LEMMA ClosedType ==
  ASSUME NEW data \in Seq(Nat), NEW i \in 1 .. Len(data), NEW next \in i + 3 .. Len(data) + 1
  PROVE  /\ Closed(data, i, next) \in Seq(Seq(Nat))
         /\ Advance(Closed(data, i, next)) <= next - i
<1>1. Len(data) \in Nat
  BY LenProperties
<1>2. PICK f : f = SubSeq(data, i, next - 1) /\ f \in Seq(Nat) /\ Len(f) = next - i
  <2>1. \A k \in i .. next - 1 : data[k] \in Nat
    <3>1. ASSUME NEW k \in i .. next - 1  PROVE data[k] \in Nat
      <4>1. k \in 1 .. Len(data)
        BY <1>1
      <4> QED  BY <4>1, ElementOfSeq
    <3> QED  BY <3>1
  <2>2. i \in Int /\ next - 1 \in Int /\ i <= next - 1
    BY <1>1
  <2>3. SubSeq(data, i, next - 1) \in Seq(Nat)
        /\ Len(SubSeq(data, i, next - 1)) = IF i <= next - 1 THEN (next - 1) - i + 1 ELSE 0
    BY <2>1, <2>2, SubSeqProperties
  <2>4. (next - 1) - i + 1 = next - i
    BY <1>1
  <2>5. Len(SubSeq(data, i, next - 1)) = next - i
    BY <2>2, <2>3, <2>4
  <2> QED  BY <2>3, <2>5
<1>3. CASE data[next - 1] = endMarker
  <2>1. Closed(data, i, next) = <<f>>
    BY <1>2, <1>3 DEF Closed
  <2>2. Advance(<<f>>) = Len(f) /\ <<f>> \in Seq(Seq(Nat))
    BY <1>2, AdvanceOne
  <2> QED  BY <1>1, <1>2, <2>1, <2>2
<1>4. CASE data[next - 1] # endMarker
  <2>1. Closed(data, i, next) = <<>>
    BY <1>4 DEF Closed
  <2>2. <<>> \in Seq(Seq(Nat))
    BY EmptySeq
  <2> QED  BY <1>1, <2>1, <2>2, AdvanceEmpty
<1> QED  BY <1>3, <1>4

\* Frames of at most n bytes.
Sized(g, n) == g \in Seq(Seq(Nat)) /\ Advance(g) <= n

\* No frame has none of them,
LEMMA SizedNone ==
  ASSUME NEW n \in Nat, NEW g, g = <<>>  PROVE Sized(g, n)
<1>1. g \in Seq(Seq(Nat)) /\ Advance(g) = 0
  BY EmptySeq, AdvanceEmpty
<1> QED  BY <1>1 DEF Sized

\* ... those of two sequences add up,
LEMMA SizedSum ==
  ASSUME NEW c, NEW g, NEW m \in Nat, NEW n \in Nat, Sized(c, m), Sized(g, n)
  PROVE  Sized(c \o g, m + n)
<1>1. c \in Seq(Seq(Nat)) /\ g \in Seq(Seq(Nat)) /\ Advance(c) <= m /\ Advance(g) <= n
  BY DEF Sized
<1>2. PICK a \in Nat, b \in Nat : a = Advance(c) /\ b = Advance(g)
  BY <1>1, AdvanceType
<1>3. a + b <= m + n
  BY <1>1, <1>2
<1>4. Advance(c \o g) = a + b /\ c \o g \in Seq(Seq(Nat))
  BY <1>1, <1>2, AdvanceConcat
<1> QED  BY <1>3, <1>4 DEF Sized

\* ... and a bound may be raised.
LEMMA SizedMore ==
  ASSUME NEW g, NEW m \in Nat, NEW n \in Nat, Sized(g, m), m <= n
  PROVE  Sized(g, n)
<1>1. g \in Seq(Seq(Nat)) /\ Advance(g) <= m
  BY DEF Sized
<1>2. Advance(g) \in Nat
  BY <1>1, AdvanceType
<1> QED  BY <1>1, <1>2 DEF Sized

\* The frames found are made of the bytes searched.
LEMMA ExtractType ==
  ASSUME NEW data \in Seq(Nat)
  PROVE  Sized(ExtractAllFrames(data), Len(data))
<1> DEFINE L == Len(data)
           F == Found(data)
           T == {i \in 1 .. L + 1 : Sized(F[i], L + 1 - i)}
<1>1. L \in Nat
  BY LenProperties
<1>2. \A i \in 1 .. L + 1 : F[i] = FoundAt(data, i, F)
  BY FoundOf
<1> HIDE DEF F
<1>3. L + 1 \in T
  <2>1. F[L + 1] = <<>> /\ L + 1 - (L + 1) \in Nat
    BY <1>1, <1>2, FoundEnd
  <2> QED  BY <1>1, <2>1, SizedNone
<1>4. ASSUME NEW i \in 1 .. L, \A j \in i + 1 .. L + 1 : j \in T  PROVE i \in T
  <2>1. F[i] = FoundAt(data, i, F) /\ i \in 1 .. L + 1 /\ L + 1 - i \in Nat
    BY <1>1, <1>2
  <2>2. SUFFICES Sized(F[i], L + 1 - i)
    BY <2>1
  <2>3. \A j \in i + 1 .. L + 1 : Sized(F[j], L + 1 - j)
    BY <1>4
  <2> HIDE DEF T
  <2>4. CASE i = L /\ data[i] = startMarker
    <3>1. F[i] = <<>>
      BY <1>1, <2>1, <2>4, FoundEnd
    <3> QED  BY <2>1, <3>1, SizedNone
  <2>5. CASE data[i] # startMarker
    <3>1. F[i] = F[i + 1]
      BY <2>1, <2>5, FoundSkips
    <3>2. i + 1 \in i + 1 .. L + 1 /\ L + 1 - (i + 1) \in Nat /\ L + 1 - (i + 1) <= L + 1 - i
      BY <1>1
    <3>3. Sized(F[i + 1], L + 1 - (i + 1))
      BY <2>3, <3>2
    <3> QED  BY <2>1, <3>1, <3>2, <3>3, SizedMore
  <2>6. CASE i < L /\ data[i] = startMarker
    <3>1. PICK next \in Nat : next = i + data[i + 1] + 3 /\ next > i + 2
      BY <2>6, FoundNext
    <3>2. CASE next > L + 1
      <4>1. F[i] = <<>>
        BY <2>1, <2>6, <3>1, <3>2, FoundWaits
      <4> QED  BY <2>1, <4>1, SizedNone
    <3>3. CASE ~ (next > L + 1)
      <4>1. F[i] = Closed(data, i, next) \o F[next]
        BY <2>1, <2>6, <3>1, <3>3, FoundTakes
      <4>2. /\ next \in i + 3 .. L + 1 /\ next \in i + 1 .. L + 1
            /\ next - i \in Nat /\ L + 1 - next \in Nat
            /\ (next - i) + (L + 1 - next) = L + 1 - i
        <5>1. next > i + 2 /\ i \in Nat /\ i >= 1
          BY <3>1
        <5> HIDE DEF L
        <5>2. next - i \in Nat /\ L + 1 - next \in Nat
          BY <1>1, <3>3, <5>1
        <5> QED  BY <1>1, <3>3, <5>1, <5>2
      <4>3. Sized(Closed(data, i, next), next - i)
        BY <4>2, ClosedType DEF Sized
      <4>4. Sized(F[next], L + 1 - next)
        BY <2>3, <4>2
      <4>5. Sized(Closed(data, i, next) \o F[next], (next - i) + (L + 1 - next))
        BY <4>2, <4>3, <4>4, SizedSum
      <4> QED  BY <4>1, <4>2, <4>5
    <3> QED  BY <3>2, <3>3
  <2> QED  BY <1>1, <2>4, <2>5, <2>6
<1>5. 1 .. L + 1 \subseteq T
  <2> HIDE DEF T
  <2> QED  BY <1>1, <1>3, <1>4, Downward
<1>6. 1 \in 1 .. L + 1 /\ L + 1 - 1 = L
  BY <1>1
<1>7. ExtractAllFrames(data) = F[1]
  BY ExtractedIsFound DEF F
<1>8. Sized(F[1], L + 1 - 1)
  BY <1>5, <1>6
<1> QED  BY <1>6, <1>7, <1>8

-----------------------------------------------------------------------------
\* A frame as it is on the wire.
LEMMA FrameShape ==
  ASSUME NEW f \in WireFrames
  PROVE  /\ f \in Seq(Nat) /\ Len(f) \in Nat /\ Len(f) >= 3
         /\ f[1] = startMarker /\ f[2] + 3 = Len(f) /\ f[Len(f)] = endMarker
         /\ Len(f) <= BufSize - BufSize \div 2
<1>1. PICK p \in Seq(Nat) : f = V5Frame(p)
  <2>1. <<>> \in Seq(Nat) /\ <<1, 1>> \in Seq(Nat)
    BY EmptySeq
  <2> QED  BY <2>1, ReceptionAssumption DEF WireFrames, Ack, Mine
<1>2. PICK n \in Nat : n = Len(p)
  BY LenProperties
<1>3. PICK h : h = <<startMarker, n>>
  OBVIOUS
<1>4. h \in Seq(Nat) /\ Len(h) = 2 /\ h[1] = startMarker /\ h[2] = n
  BY <1>3 DEF startMarker
<1>5. PICK e : e = <<endMarker>>
  OBVIOUS
<1>6. e \in Seq(Nat) /\ Len(e) = 1 /\ e[1] = endMarker
  BY <1>5 DEF endMarker
<1>7. PICK g : g = h \o p
  OBVIOUS
<1>8. g \in Seq(Nat) /\ Len(g) = 2 + n /\ g[1] = h[1] /\ g[2] = h[2]
  <2>1. /\ h \o p \in Seq(Nat) /\ Len(h \o p) = Len(h) + Len(p)
        /\ \A i \in 1 .. Len(h) + Len(p) :
             (h \o p)[i] = IF i <= Len(h) THEN h[i] ELSE p[i - Len(h)]
    BY <1>4, ConcatProperties
  <2> QED  BY <1>2, <1>4, <1>7, <2>1
<1>9. f = g \o e
  BY <1>1, <1>2, <1>3, <1>5, <1>7 DEF V5Frame
<1>10. f \in Seq(Nat) /\ Len(f) = 3 + n /\ f[1] = g[1] /\ f[2] = g[2] /\ f[3 + n] = e[1]
  <2>1. /\ g \o e \in Seq(Nat) /\ Len(g \o e) = Len(g) + Len(e)
        /\ \A i \in 1 .. Len(g) + Len(e) :
             (g \o e)[i] = IF i <= Len(g) THEN g[i] ELSE e[i - Len(g)]
    BY <1>6, <1>8, ConcatProperties
  <2>2. (3 + n) - (2 + n) = 1 /\ 3 + n \in 1 .. 3 + n /\ ~ (3 + n <= 2 + n)
    BY <1>2
  <2> QED  BY <1>2, <1>6, <1>8, <1>9, <2>1, <2>2
<1>11. Len(f) <= BufSize - BufSize \div 2
  BY ReceptionAssumption
<1> QED  BY <1>2, <1>4, <1>6, <1>8, <1>10, <1>11

\* The beginning of a frame, short of its end.
Begun(p) ==
  \E f \in WireFrames : Len(p) < Len(f) /\ \A i \in 1 .. Len(p) : p[i] = f[i]

\* Nothing is found in it.
LEMMA BegunHasNone ==
  ASSUME NEW p \in Seq(Nat), Begun(p)
  PROVE  ExtractAllFrames(p) = <<>>
<1>1. Len(p) \in Nat
  BY LenProperties
<1>2. PICK f \in WireFrames : Len(p) < Len(f) /\ \A i \in 1 .. Len(p) : p[i] = f[i]
  BY DEF Begun
<1>3. /\ Len(f) \in Nat /\ Len(f) >= 3
      /\ f[1] = startMarker /\ f[2] + 3 = Len(f) /\ f \in Seq(Nat)
  BY FrameShape
<1>4. ExtractAllFrames(p) = FoundAt(p, 1, Found(p))
  BY <1>1, ExtractedIsFound, FoundOf
<1>5. CASE Len(p) < 2
  BY <1>1, <1>2, <1>3, <1>4, <1>5, FoundEnd
<1>6. CASE Len(p) >= 2
  <2>1. 1 \in 1 .. Len(p) /\ 2 \in 1 .. Len(p) /\ 2 \in 1 .. Len(f) /\ 1 < Len(p)
    BY <1>1, <1>3, <1>6
  <2>2. p[1] = startMarker /\ p[1 + 1] = f[2] /\ f[2] \in Nat
    BY <1>2, <1>3, <2>1, ElementOfSeq, SMTT(30)
  <2>3. PICK next \in Nat : next = 1 + p[1 + 1] + 3
    BY <2>1, FoundNext
  <2>4. next = Len(f) + 1
    BY <1>3, <2>2, <2>3, SMTT(30)
  <2>5. next > Len(p) + 1
    BY <1>1, <1>2, <1>3, <2>4
  <2>6. FoundAt(p, 1, Found(p)) = <<>>
    BY <2>1, <2>2, <2>3, <2>5, FoundWaits
  <2> QED  BY <1>4, <2>6
<1> QED  BY <1>1, <1>5, <1>6

-----------------------------------------------------------------------------
\* t is d with n bytes before it.
Follows(t, d, n) ==
  /\ t \in Seq(Nat) /\ d \in Seq(Nat) /\ n \in Nat
  /\ Len(d) \in Nat /\ Len(t) = n + Len(d)
  /\ \A i \in 1 .. Len(d) : t[n + i] = d[i]

\* What is closed does not depend on what comes before.
LEMMA ClosedFollows ==
  ASSUME NEW t, NEW d, NEW n, Follows(t, d, n),
         NEW i \in 1 .. Len(d), NEW next \in i + 3 .. Len(d) + 1
  PROVE  Closed(t, n + i, n + next) = Closed(d, i, next)
<1>1. /\ t \in Seq(Nat) /\ d \in Seq(Nat) /\ n \in Nat
      /\ Len(d) \in Nat /\ Len(t) = n + Len(d)
      /\ \A k \in 1 .. Len(d) : t[n + k] = d[k]
  BY DEF Follows
<1>2. t[(n + next) - 1] = d[next - 1]
  <2>1. next - 1 \in 1 .. Len(d) /\ (n + next) - 1 = n + (next - 1)
    BY <1>1
  <2> QED  BY <1>1, <2>1
<1>3. SubSeq(t, n + i, (n + next) - 1) = SubSeq(d, i, next - 1)
  <2>1. PICK a, b, m : a = n + i /\ b = (n + next) - 1 /\ m = next - i
    OBVIOUS
  <2>2. /\ a \in Int /\ b \in Int /\ a <= b /\ b - a + 1 = m /\ m \in Nat
        /\ i \in Int /\ next - 1 \in Int /\ i <= next - 1 /\ (next - 1) - i + 1 = m
    BY <1>1, <2>1
  <2>3. \A k \in a .. b : t[k] \in Nat
    <3>1. ASSUME NEW k \in a .. b  PROVE t[k] \in Nat
      <4>1. k \in 1 .. Len(t)
        BY <1>1, <2>1
      <4> QED  BY <1>1, <4>1, ElementOfSeq
    <3> QED  BY <3>1
  <2>4. \A k \in i .. next - 1 : d[k] \in Nat
    <3>1. ASSUME NEW k \in i .. next - 1  PROVE d[k] \in Nat
      <4>1. k \in 1 .. Len(d)
        <5>1. i >= 1 /\ next <= Len(d) + 1
          BY <1>1
        <5>2. k \in Int /\ i <= k /\ k <= next - 1
          OBVIOUS
        <5> QED  BY <1>1, <5>1, <5>2
      <4> QED  BY <1>1, <4>1, ElementOfSeq
    <3> QED  BY <3>1
  <2>5. PICK u : u = SubSeq(t, a, b)
    OBVIOUS
  <2>6. u \in Seq(Nat) /\ Len(u) = m /\ \A k \in 1 .. m : u[k] = t[a + k - 1]
    <3>1. /\ SubSeq(t, a, b) \in Seq(Nat)
          /\ Len(SubSeq(t, a, b)) = IF a <= b THEN b - a + 1 ELSE 0
          /\ \A k \in 1 .. b - a + 1 : SubSeq(t, a, b)[k] = t[a + k - 1]
      BY <2>2, <2>3, SubSeqProperties
    <3> QED  BY <2>2, <2>5, <3>1
  <2>7. PICK v : v = SubSeq(d, i, next - 1)
    OBVIOUS
  <2>8. v \in Seq(Nat) /\ Len(v) = m /\ \A k \in 1 .. m : v[k] = d[i + k - 1]
    <3>1. /\ SubSeq(d, i, next - 1) \in Seq(Nat)
          /\ Len(SubSeq(d, i, next - 1)) = IF i <= next - 1 THEN (next - 1) - i + 1 ELSE 0
          /\ \A k \in 1 .. (next - 1) - i + 1 : SubSeq(d, i, next - 1)[k] = d[i + k - 1]
      BY <2>2, <2>4, SubSeqProperties
    <3> QED  BY <2>2, <2>7, <3>1
  <2>9. \A k \in 1 .. m : u[k] = v[k]
    <3>1. ASSUME NEW k \in 1 .. m  PROVE u[k] = v[k]
      <4>1. i + k - 1 \in 1 .. Len(d) /\ a + k - 1 = n + (i + k - 1)
        BY <1>1, <2>1
      <4> QED  BY <1>1, <2>6, <2>8, <4>1
    <3> QED  BY <3>1
  <2>10. u = v
    BY <2>6, <2>8, <2>9, SeqEqual
  <2> QED  BY <2>1, <2>5, <2>7, <2>10
<1> QED  BY <1>2, <1>3 DEF Closed

\* What is found at a place does not depend on what comes before.
LEMMA FoundFollows ==
  ASSUME NEW t, NEW d, NEW n, Follows(t, d, n), NEW i \in 1 .. Len(d) + 1
  PROVE  Found(t)[n + i] = Found(d)[i]
<1> DEFINE L == Len(d)
           F == Found(t)
           G == Found(d)
           T == {k \in 1 .. L + 1 : F[n + k] = G[k]}
<1>1. /\ t \in Seq(Nat) /\ d \in Seq(Nat) /\ n \in Nat
      /\ L \in Nat /\ Len(t) = n + L
      /\ \A k \in 1 .. L : t[n + k] = d[k]
  BY DEF Follows
<1>2. \A k \in 1 .. n + L + 1 : F[k] = FoundAt(t, k, F)
  BY <1>1, FoundOf
<1>3. \A k \in 1 .. L + 1 : G[k] = FoundAt(d, k, G)
  BY <1>1, FoundOf
<1> HIDE DEF F, G
<1>4. L + 1 \in T
  <2>1. L + 1 \in 1 .. L + 1 /\ n + (L + 1) \in 1 .. n + L + 1
        /\ n + (L + 1) \in Nat \ {0} /\ L + 1 \in Nat \ {0} /\ n + (L + 1) > Len(t) /\ L + 1 > L
    BY <1>1
  <2>2. G[L + 1] = <<>>
    BY <1>1, <1>3, <2>1, FoundEnd
  <2>3. F[n + (L + 1)] = <<>>
    BY <1>1, <1>2, <2>1, FoundEnd
  <2> QED  BY <2>1, <2>2, <2>3
<1>5. ASSUME NEW k \in 1 .. L, \A j \in k + 1 .. L + 1 : j \in T  PROVE k \in T
  <2>1. \A j \in k + 1 .. L + 1 : F[n + j] = G[j]
    BY <1>5
  <2> HIDE DEF T
  <2>2. PICK p : p = n + k
    OBVIOUS
  <2>3. /\ p \in 1 .. Len(t) /\ p \in 1 .. n + L + 1 /\ p \in Nat \ {0} /\ k \in 1 .. L + 1
        /\ (p = Len(t) <=> k = L) /\ (p < Len(t) <=> k < L)
    <3>1. PICK m \in Nat : m = L
      BY <1>1
    <3>2. n \in Nat /\ Len(t) = n + m /\ k \in 1 .. m
      BY <1>1, <3>1
    <3> HIDE DEF L
    <3> QED  BY <2>2, <3>1, <3>2
  <2>4. t[p] = d[k]
    BY <1>1, <2>2
  <2>5. F[p] = FoundAt(t, p, F) /\ G[k] = FoundAt(d, k, G)
    BY <1>2, <1>3, <2>3
  <2>6. SUFFICES F[p] = G[k]
    BY <2>2, <2>3 DEF T
  <2>7. CASE k = L /\ d[k] = startMarker
    <3>1. F[p] = <<>>
      BY <1>1, <2>3, <2>4, <2>5, <2>7, FoundEnd
    <3>2. G[k] = <<>>
      BY <1>1, <2>3, <2>5, <2>7, FoundEnd
    <3> QED  BY <3>1, <3>2
  <2>8. CASE d[k] # startMarker
    <3>1. F[p] = F[p + 1]
      BY <1>1, <2>3, <2>4, <2>5, <2>8, FoundSkips
    <3>2. G[k] = G[k + 1]
      BY <1>1, <2>3, <2>5, <2>8, FoundSkips
    <3>3. k + 1 \in k + 1 .. L + 1 /\ p + 1 = n + (k + 1)
      BY <1>1, <2>2
    <3>4. F[n + (k + 1)] = G[k + 1]
      BY <2>1, <3>3
    <3> QED  BY <3>1, <3>2, <3>3, <3>4
  <2>9. CASE k < L /\ d[k] = startMarker
    <3>1. PICK next \in Nat : next = k + d[k + 1] + 3 /\ next > k + 2
      BY <1>1, <2>9, FoundNext
    <3>2. PICK q \in Nat : q = p + t[p + 1] + 3 /\ q > p + 2
      BY <1>1, <2>3, <2>9, FoundNext
    <3>3. q = n + next
      <4>1. k + 1 \in 1 .. L /\ p + 1 = n + (k + 1)
        BY <1>1, <2>2, <2>9
      <4>2. t[p + 1] = d[k + 1] /\ d[k + 1] \in Nat
        <5>1. t[n + (k + 1)] = d[k + 1]
          BY <1>1, <4>1
        <5>2. d[k + 1] \in Nat
          BY <1>1, <4>1, ElementOfSeq
        <5> QED  BY <4>1, <5>1, <5>2
      <4>3. PICK size \in Nat : size = d[k + 1]
        BY <4>2
      <4>4. n \in Nat /\ p = n + k /\ next = k + size + 3 /\ q = p + size + 3
        BY <1>1, <2>2, <3>1, <3>2, <4>2, <4>3
      <4> QED  BY <4>4
    <3>4. CASE next > L + 1
      <4>1. q > Len(t) + 1
        BY <1>1, <3>3, <3>4
      <4>2. F[p] = <<>>
        BY <1>1, <2>3, <2>4, <2>5, <2>9, <3>2, <4>1, FoundWaits
      <4>3. G[k] = <<>>
        BY <1>1, <2>5, <2>9, <3>1, <3>4, FoundWaits
      <4> QED  BY <4>2, <4>3
    <3>5. CASE ~ (next > L + 1)
      <4>1. ~ (q > Len(t) + 1)
        BY <1>1, <3>3, <3>5
      <4>2. F[p] = Closed(t, p, q) \o F[q]
        BY <1>1, <2>3, <2>4, <2>5, <2>9, <3>2, <4>1, FoundTakes, ZenonT(30)
      <4>3. G[k] = Closed(d, k, next) \o G[next]
        BY <1>1, <2>5, <2>9, <3>1, <3>5, FoundTakes
      <4>4. next \in k + 3 .. L + 1 /\ next \in k + 1 .. L + 1
        <5>1. next > k + 2 /\ next \in Nat /\ k \in Nat
          BY <3>1
        <5> HIDE DEF L
        <5> QED  BY <1>1, <3>5, <5>1
      <4>5. F[q] = G[next]
        BY <2>1, <3>3, <4>4
      <4>6. Closed(t, p, q) = Closed(d, k, next)
        BY <2>2, <3>3, <4>4, ClosedFollows
      <4> QED  BY <4>2, <4>3, <4>5, <4>6
    <3> QED  BY <3>4, <3>5
  <2> QED  BY <1>1, <2>7, <2>8, <2>9, SMTT(30)
<1>6. 1 .. L + 1 \subseteq T
  <2> HIDE DEF T
  <2> QED  BY <1>1, <1>4, <1>5, Downward
<1>7. i \in T
  BY <1>6
<1> QED  BY <1>7 DEF F, G

\* A frame at the beginning is found, and then what is found after it.
LEMMA FrameFirst ==
  ASSUME NEW f \in WireFrames, NEW d \in Seq(Nat)
  PROVE  ExtractAllFrames(f \o d) = <<f>> \o ExtractAllFrames(d)
<1>1. PICK n \in Nat : /\ n = Len(f) /\ n >= 3 /\ f \in Seq(Nat)
                       /\ f[1] = startMarker /\ f[2] + 3 = n /\ f[n] = endMarker
  BY FrameShape
<1>2. PICK m \in Nat : m = Len(d)
  BY LenProperties
<1>3. PICK t : t = f \o d
  OBVIOUS
<1>4. /\ t \in Seq(Nat) /\ Len(t) = n + m
      /\ \A i \in 1 .. n : t[i] = f[i]
      /\ \A i \in 1 .. m : t[n + i] = d[i]
  <2>1. /\ f \o d \in Seq(Nat) /\ Len(f \o d) = Len(f) + Len(d)
        /\ \A i \in 1 .. Len(f) + Len(d) :
             (f \o d)[i] = IF i <= Len(f) THEN f[i] ELSE d[i - Len(f)]
    BY <1>1, ConcatProperties
  <2>2. \A i \in 1 .. n + m : t[i] = IF i <= n THEN f[i] ELSE d[i - n]
    BY <1>1, <1>2, <1>3, <2>1
  <2>3. ASSUME NEW i \in 1 .. n  PROVE t[i] = f[i]
    BY <1>1, <1>2, <2>2
  <2>4. ASSUME NEW i \in 1 .. m  PROVE t[n + i] = d[i]
    <3>1. n + i \in 1 .. n + m /\ ~ (n + i <= n) /\ (n + i) - n = i
      BY <1>1, <1>2
    <3> QED  BY <2>2, <3>1
  <2> QED  BY <1>1, <1>2, <1>3, <2>1, <2>3, <2>4
<1>5. Follows(t, d, n)
  BY <1>1, <1>2, <1>4 DEF Follows
<1>6. Found(t)[n + 1] = Found(d)[1]
  <2>1. 1 \in 1 .. Len(d) + 1
    BY <1>2
  <2> QED  BY <1>5, <2>1, FoundFollows
<1>7. Found(t)[1] = Closed(t, 1, n + 1) \o Found(t)[n + 1]
  <2>1. Found(t)[1] = FoundAt(t, 1, Found(t))
    <3>1. 1 \in 1 .. Len(t) + 1
      BY <1>1, <1>2, <1>4
    <3> QED  BY <1>4, <3>1, FoundOf
  <2>2. 1 \in 1 .. Len(t) /\ 1 < Len(t) /\ t[1] = startMarker /\ t[1 + 1] = f[2]
        /\ ~ (n + 1 > Len(t) + 1) /\ n + 1 \in Nat
    BY <1>1, <1>2, <1>4, SMTT(30)
  <2>3. n + 1 = 1 + t[1 + 1] + 3
    <3>1. f[2] \in Nat
      <4>1. 2 \in 1 .. Len(f)
        BY <1>1
      <4> QED  BY <1>1, <4>1, ElementOfSeq
    <3> QED  BY <1>1, <2>2, <3>1, SMTT(30)
  <2> QED  BY <1>4, <2>1, <2>2, <2>3, FoundTakes, ZenonT(30)
<1>8. Closed(t, 1, n + 1) = <<f>>
  <2>1. t[(n + 1) - 1] = endMarker
    BY <1>1, <1>4, SMTT(30)
  <2>2. SubSeq(t, 1, (n + 1) - 1) = f
    <3>1. SubSeq(t, 1, n) = SubSeq(f, 1, n)
      BY <1>1, <1>3, SubSeqOfConcat1
    <3>2. SubSeq(f, 1, n) = f
      BY <1>1, SubSeqFull
    <3>3. (n + 1) - 1 = n
      BY <1>1
    <3> QED  BY <3>1, <3>2, <3>3
  <2> QED  BY <2>1, <2>2 DEF Closed
<1>9. ExtractAllFrames(t) = Found(t)[1] /\ ExtractAllFrames(d) = Found(d)[1]
  BY ExtractedIsFound
<1> QED  BY <1>3, <1>6, <1>7, <1>8, <1>9

-----------------------------------------------------------------------------
\* Of the bytes d, whatever bytes come next, the frames of fs are found, and then
\* those of the bytes p that follow them.
Known(d, fs, p) ==
  /\ d \in Seq(Nat) /\ fs \in Seq(Seq(Nat)) /\ p \in Seq(Nat)
  /\ \A x \in Seq(Nat) : ExtractAllFrames(d \o x) = fs \o ExtractAllFrames(p \o x)
  /\ \E e \in Seq(Nat) : d = e \o p /\ Len(e) = Advance(fs)

\* Before the first byte there are none.
LEMMA KnownStart ==
  ASSUME NEW p \in Seq(Nat)  PROVE Known(p, <<>>, p)
<1>1. PICK none : none = <<>> /\ none \in Seq(Seq(Nat)) /\ none \in Seq(Nat)
  BY EmptySeq
<1>2. Advance(none) = 0 /\ Len(none) = 0
  BY <1>1, AdvanceEmpty
<1>3. ASSUME NEW x \in Seq(Nat)
      PROVE  ExtractAllFrames(p \o x) = none \o ExtractAllFrames(p \o x)
  <2>1. p \o x \in Seq(Nat)
    BY ConcatProperties
  <2>2. PICK g \in Seq(Seq(Nat)) : g = ExtractAllFrames(p \o x)
    BY <2>1, ExtractType DEF Sized
  <2>3. none \o g = g
    BY <1>1, ConcatEmptySeq
  <2> QED  BY <2>2, <2>3
<1>4. p = none \o p
  BY <1>1, ConcatEmptySeq
<1>5. Known(p, none, p)
  BY <1>1, <1>2, <1>3, <1>4 DEF Known
<1> QED  BY <1>1, <1>5

\* A sequence of one.
LEMMA JustOne ==
  ASSUME NEW S, NEW e \in S  PROVE \E c \in Seq(S) : c = <<e>>
<1>1. <<e>> \in Seq(S)
  OBVIOUS
<1> QED  BY <1>1

\* A byte and what comes after it.
LEMMA ByteThen ==
  ASSUME NEW s \in Seq(Nat), NEW b \in Nat, NEW x \in Seq(Nat), NEW y, y = <<b>> \o x
  PROVE  y \in Seq(Nat) /\ Append(s, b) \o x = s \o y
<1>1. PICK c \in Seq(Nat) : c = <<b>>
  BY JustOne
<1>2. Append(s, b) = s \o c
  BY <1>1, AppendIsConcat
<1>3. c \o x \in Seq(Nat)
  BY ConcatProperties
<1>4. (s \o c) \o x = s \o (c \o x)
  BY ConcatAssociative, SMTT(30)
<1> QED  BY <1>1, <1>2, <1>3, <1>4

\* Sequences in a row.
LEMMA BytesInARow ==
  ASSUME NEW s \in Seq(Nat), NEW t \in Seq(Nat), NEW u \in Seq(Nat)
  PROVE  (s \o t) \o u = s \o (t \o u)
BY ConcatAssociative, SMTT(30)

\* The same for frames.
LEMMA FramesInARow ==
  ASSUME NEW s \in Seq(Seq(Nat)), NEW t \in Seq(Seq(Nat)), NEW u \in Seq(Seq(Nat))
  PROVE  (s \o t) \o u = s \o (t \o u)
BY ConcatAssociative, SMTT(30)

\* One more byte, with others to come.
LEMMA KnownThen ==
  ASSUME NEW d, NEW fs, NEW p, Known(d, fs, p), NEW b \in Nat, NEW x \in Seq(Nat)
  PROVE  ExtractAllFrames(Append(d, b) \o x) = fs \o ExtractAllFrames(Append(p, b) \o x)
<1>1. d \in Seq(Nat) /\ p \in Seq(Nat)
  BY DEF Known
<1>2. PICK y : y = <<b>> \o x
  OBVIOUS
<1>3. y \in Seq(Nat) /\ Append(d, b) \o x = d \o y
  BY <1>1, <1>2, ByteThen
<1>4. Append(p, b) \o x = p \o y
  BY <1>1, <1>2, ByteThen, SMTT(30)
<1>5. ExtractAllFrames(d \o y) = fs \o ExtractAllFrames(p \o y)
  BY <1>3 DEF Known
<1> QED  BY <1>3, <1>4, <1>5

\* One more byte.
LEMMA KnownByte ==
  ASSUME NEW d, NEW fs, NEW p, Known(d, fs, p), NEW b \in Nat
  PROVE  Known(Append(d, b), fs, Append(p, b))
<1>1. d \in Seq(Nat) /\ fs \in Seq(Seq(Nat)) /\ p \in Seq(Nat)
  BY DEF Known
<1>2. Append(d, b) \in Seq(Nat) /\ Append(p, b) \in Seq(Nat)
  BY <1>1, AppendProperties
<1>3. \A x \in Seq(Nat) :
        ExtractAllFrames(Append(d, b) \o x) = fs \o ExtractAllFrames(Append(p, b) \o x)
  BY KnownThen, SMTT(30)
<1>4. PICK e \in Seq(Nat) : d = e \o p /\ Len(e) = Advance(fs)
  BY DEF Known
<1>5. Append(d, b) = e \o Append(p, b)
  <2>1. PICK c \in Seq(Nat) : c = <<b>>
    BY JustOne
  <2>2. Append(d, b) = d \o c /\ Append(p, b) = p \o c
    BY <1>1, <2>1, AppendIsConcat
  <2>3. (e \o p) \o c = e \o (p \o c)
    BY <1>1, BytesInARow
  <2> QED  BY <1>4, <2>2, <2>3
<1> QED  BY <1>1, <1>2, <1>3, <1>4, <1>5 DEF Known

\* A byte that ends a frame.
LEMMA KnownFrame ==
  ASSUME NEW d, NEW fs, NEW p, Known(d, fs, p), NEW b \in Nat,
         Append(p, b) \in WireFrames
  PROVE  Known(Append(d, b), Append(fs, Append(p, b)), <<>>)
<1>1. \A x \in Seq(Nat) :
        ExtractAllFrames(Append(d, b) \o x) = fs \o ExtractAllFrames(Append(p, b) \o x)
  BY KnownThen
<1>2. PICK f \in WireFrames : f = Append(p, b)
  OBVIOUS
<1>3. d \in Seq(Nat) /\ fs \in Seq(Seq(Nat)) /\ p \in Seq(Nat) /\ f \in Seq(Nat)
  BY FrameShape DEF Known
<1>4. PICK none : none = <<>> /\ none \in Seq(Nat) /\ Len(none) = 0
  BY EmptySeq
<1>5. PICK this \in Seq(Seq(Nat)) : this = <<f>> /\ Advance(this) = Len(f)
  BY <1>3, AdvanceOne
<1>6. PICK more \in Seq(Seq(Nat)) : more = Append(fs, f) /\ more = fs \o this
  <2>1. Append(fs, f) \in Seq(Seq(Nat)) /\ Append(fs, f) = fs \o this
    BY <1>3, <1>5, AppendProperties, AppendIsConcat
  <2> QED  BY <2>1
<1>7. PICK c : c = Append(d, b) /\ c \in Seq(Nat)
  BY <1>3, AppendProperties
<1>8. ASSUME NEW x \in Seq(Nat)
      PROVE  ExtractAllFrames(c \o x) = more \o ExtractAllFrames(none \o x)
  <2>2. ExtractAllFrames(c \o x) = fs \o ExtractAllFrames(f \o x)
    BY <1>1, <1>2, <1>7
  <2>4. ExtractAllFrames(f \o x) = this \o ExtractAllFrames(x)
    BY <1>5, FrameFirst
  <2>5. PICK g \in Seq(Seq(Nat)) : g = ExtractAllFrames(x)
    BY ExtractType DEF Sized
  <2>6. fs \o (this \o g) = (fs \o this) \o g
    BY <1>3, FramesInARow
  <2>7. none \o x = x
    BY <1>4, ConcatEmptySeq
  <2> QED  BY <1>6, <2>2, <2>4, <2>5, <2>6, <2>7
<1>9. PICK e \in Seq(Nat) : d = e \o p /\ Len(e) = Advance(fs)
  BY DEF Known
<1>10. Len(c) = Advance(more)
  <2>1. Len(c) = Len(d) + 1 /\ Len(f) = Len(p) + 1
    BY <1>2, <1>3, <1>7, AppendProperties
  <2>2. Len(d) = Len(e) + Len(p)
    BY <1>3, <1>9, ConcatProperties
  <2>3. Advance(more) = Advance(fs) + Advance(this)
    <3>1. Advance(fs \o this) = Advance(fs) + Advance(this)
      BY <1>3, AdvanceConcat
    <3> QED  BY <1>6, <3>1
  <2>4. Len(e) \in Nat /\ Len(p) \in Nat
    BY <1>3, LenProperties
  <2> QED  BY <1>5, <1>9, <2>1, <2>2, <2>3, <2>4, SMTT(30)
<1>11. c = c \o none
  BY <1>4, <1>7, ConcatEmptySeq
<1>12. Known(c, more, none)
  BY <1>4, <1>6, <1>7, <1>8, <1>10, <1>11 DEF Known
<1> QED  BY <1>2, <1>4, <1>6, <1>7, <1>12

\* When what follows has no frame yet, these are all, and it waits.
LEMMA KnownEnd ==
  ASSUME NEW d, NEW fs, NEW p, Known(d, fs, p), Begun(p)
  PROVE  /\ ExtractAllFrames(d) = fs
         /\ Len(d) = Advance(fs) + Len(p) /\ Advance(fs) \in Nat
         /\ \A k \in 1 .. Len(p) : p[k] = d[Advance(fs) + k]
<1>1. d \in Seq(Nat) /\ fs \in Seq(Seq(Nat)) /\ p \in Seq(Nat)
  BY DEF Known
<1>2. PICK none : none = <<>> /\ none \in Seq(Nat)
  BY EmptySeq
<1>3. ExtractAllFrames(d \o none) = fs \o ExtractAllFrames(p \o none)
  BY <1>2 DEF Known
<1>4. d \o none = d /\ p \o none = p /\ fs \o <<>> = fs
  BY <1>1, <1>2, ConcatEmptySeq
<1>5. ExtractAllFrames(p) = <<>>
  BY <1>1, BegunHasNone
<1>6. ExtractAllFrames(d) = fs
  BY <1>3, <1>4, <1>5
<1>7. PICK e \in Seq(Nat) : d = e \o p /\ Len(e) = Advance(fs)
  BY DEF Known
<1>8. /\ Len(e \o p) = Len(e) + Len(p)
      /\ \A i \in 1 .. Len(e) + Len(p) : (e \o p)[i] = IF i <= Len(e) THEN e[i] ELSE p[i - Len(e)]
  BY <1>1, ConcatProperties
<1>9. Len(e) \in Nat /\ Len(p) \in Nat
  BY <1>1, LenProperties
<1>10. ASSUME NEW k \in 1 .. Len(p)  PROVE p[k] = d[Advance(fs) + k]
  <2>1. Len(e) + k \in 1 .. Len(e) + Len(p) /\ ~ (Len(e) + k <= Len(e)) /\ (Len(e) + k) - Len(e) = k
    BY <1>9
  <2> QED  BY <1>7, <1>8, <2>1
<1> QED  BY <1>6, <1>7, <1>8, <1>9, <1>10

-----------------------------------------------------------------------------
\* What is on the wire: only the first frame may have been read in part.
OnWire(w) ==
  /\ w \in Seq(Seq(Nat))
  /\ \A i \in 1 .. Len(w) : w[i] # <<>>
  /\ \A i \in 2 .. Len(w) : w[i] \in WireFrames

\* p is what has been read of it.
Joined(p, w) == IF w = <<>> THEN p = <<>> ELSE p \o w[1] \in WireFrames

\* What has been read of the first frame has no end.
LEMMA JoinedIsBegun ==
  ASSUME NEW p \in Seq(Nat), NEW w, OnWire(w), Joined(p, w)
  PROVE  Begun(p)
<1>1. CASE w = <<>>
  <2>1. Ack \in WireFrames
    BY DEF WireFrames
  <2>2. Len(p) = 0 /\ Len(Ack) \in Nat /\ Len(Ack) >= 3
    BY <1>1, <2>1, EmptySeq, FrameShape DEF Joined
  <2> QED  BY <2>1, <2>2 DEF Begun
<1>2. CASE w # <<>>
  <2>1. w \in Seq(Seq(Nat)) /\ Len(w) \in Nat \ {0}
    BY <1>2, EmptySeq DEF OnWire
  <2>2. PICK h \in Seq(Nat) : h = w[1] /\ h # <<>>
    <3>1. 1 \in 1 .. Len(w)
      BY <2>1
    <3> QED  BY <2>1, <3>1, ElementOfSeq DEF OnWire
  <2>3. PICK f \in WireFrames : f = p \o h
    BY <1>2, <2>2 DEF Joined
  <2>4. Len(p) \in Nat /\ Len(h) \in Nat \ {0}
    BY <2>2, LenProperties, EmptySeq
  <2>5. /\ Len(p \o h) = Len(p) + Len(h)
        /\ \A i \in 1 .. Len(p) + Len(h) : (p \o h)[i] = IF i <= Len(p) THEN p[i] ELSE h[i - Len(p)]
    BY ConcatProperties
  <2>6. Len(p) < Len(f)
    BY <2>3, <2>4, <2>5
  <2>7. ASSUME NEW i \in 1 .. Len(p)  PROVE p[i] = f[i]
    <3>1. i \in 1 .. Len(p) + Len(h) /\ i <= Len(p)
      BY <2>4
    <3> QED  BY <2>3, <2>5, <3>1
  <2> QED  BY <2>6, <2>7 DEF Begun
<1> QED  BY <1>1, <1>2

\* The first frame has been read.
LEMMA WireTail ==
  ASSUME NEW w, OnWire(w), w # <<>>
  PROVE  /\ Head(w) \in Seq(Nat) /\ Head(w) # <<>> /\ w[1] = Head(w)
         /\ OnWire(Tail(w)) /\ \A i \in 1 .. Len(Tail(w)) : Tail(w)[i] \in WireFrames
<1>1. w \in Seq(Seq(Nat)) /\ Len(w) \in Nat \ {0}
  BY EmptySeq DEF OnWire
<1>2. Head(w) = w[1] /\ Head(w) \in Seq(Nat)
  BY <1>1, HeadTailProperties
<1>3. Head(w) # <<>>
  <2>1. 1 \in 1 .. Len(w)
    BY <1>1
  <2> QED  BY <1>2, <2>1 DEF OnWire
<1>4. PICK t \in Seq(Seq(Nat)) : /\ t = Tail(w) /\ Len(t) = Len(w) - 1
                                 /\ \A i \in 1 .. Len(t) : t[i] = w[i + 1]
  BY <1>1, HeadTailProperties
<1>5. ASSUME NEW i \in 1 .. Len(t)  PROVE t[i] \in WireFrames /\ t[i] # <<>>
  <2>1. i + 1 \in 2 .. Len(w) /\ i + 1 \in 1 .. Len(w)
    BY <1>1, <1>4
  <2> QED  BY <1>4, <2>1 DEF OnWire
<1>6. OnWire(t)
  <2>1. Len(t) \in Nat
    BY LenProperties
  <2>2. \A i \in 2 .. Len(t) : i \in 1 .. Len(t)
    BY <2>1
  <2> QED  BY <1>5, <2>2 DEF OnWire
<1> QED  BY <1>2, <1>3, <1>4, <1>5, <1>6

\* A byte of it has been read.
LEMMA WireLeft ==
  ASSUME NEW w, OnWire(w), w # <<>>, NEW left \in Seq(Nat), left # <<>>
  PROVE  /\ OnWire(<<left>> \o Tail(w))
         /\ <<left>> \o Tail(w) # <<>> /\ (<<left>> \o Tail(w))[1] = left
<1>1. PICK t \in Seq(Seq(Nat)) : t = Tail(w) /\ \A i \in 1 .. Len(t) : t[i] \in WireFrames
  BY WireTail DEF OnWire
<1>2. PICK n \in Nat : n = Len(t)
  BY LenProperties
<1>3. PICK c \in Seq(Seq(Nat)) : c = <<left>>
  BY JustOne
<1>4. Len(c) = 1 /\ c[1] = left
  BY <1>3
<1>5. PICK u \in Seq(Seq(Nat)) :
        /\ u = c \o t /\ Len(u) = 1 + n
        /\ \A i \in 1 .. 1 + n : u[i] = IF i <= 1 THEN c[i] ELSE t[i - 1]
  <2>1. /\ c \o t \in Seq(Seq(Nat)) /\ Len(c \o t) = Len(c) + Len(t)
        /\ \A i \in 1 .. Len(c) + Len(t) : (c \o t)[i] = IF i <= Len(c) THEN c[i] ELSE t[i - Len(c)]
    BY ConcatProperties
  <2> QED  BY <1>2, <1>4, <2>1, ZenonT(30)
<1>6. u[1] = left
  <2>1. 1 \in 1 .. 1 + n
    OBVIOUS
  <2>2. u[1] = c[1]
    BY <1>5, <2>1, SMTT(30)
  <2> QED  BY <1>4, <2>2
<1>7. ASSUME NEW i \in 2 .. Len(u)  PROVE u[i] \in WireFrames
  <2>1. i - 1 \in 1 .. n /\ i \in 1 .. 1 + n /\ ~ (i <= 1)
    BY <1>5
  <2> QED  BY <1>1, <1>2, <1>5, <2>1
<1>8. ASSUME NEW i \in 1 .. Len(u)  PROVE u[i] # <<>>
  <2>1. CASE i = 1
    BY <1>6, <2>1
  <2>2. CASE i # 1
    <3>1. i \in 2 .. Len(u)
      BY <2>2
    <3>2. u[i] \in WireFrames
      BY <1>7, <3>1
    <3>3. Len(u[i]) >= 3
      BY <3>2, FrameShape
    <3> QED  BY <3>3, EmptySeq
  <2> QED  BY <2>1, <2>2
<1>9. u # <<>>
  BY <1>5, EmptySeq
<1>10. OnWire(u)
  BY <1>7, <1>8 DEF OnWire
<1> QED  BY <1>1, <1>3, <1>5, <1>6, <1>9, <1>10

\* A byte from the first frame to what has been read of it.
LEMMA ByteMoves ==
  ASSUME NEW p \in Seq(Nat), NEW h \in Seq(Nat), h # <<>>
  PROVE  /\ Head(h) \in Nat /\ Tail(h) \in Seq(Nat) /\ Append(p, Head(h)) \in Seq(Nat)
         /\ Append(p, Head(h)) \o Tail(h) = p \o h
         /\ Tail(h) = <<>> => Append(p, Head(h)) = p \o h
<1>1. Head(h) \in Nat /\ Tail(h) \in Seq(Nat)
  BY HeadTailProperties
<1>2. PICK b \in Nat, t \in Seq(Nat) : b = Head(h) /\ t = Tail(h)
  BY <1>1
<1>3. h = <<b>> \o t
  <2>1. Len(h) \in Nat \ {0}
    BY EmptySeq
  <2>2. /\ Head(h) = h[1] /\ Len(Tail(h)) = Len(h) - 1
        /\ \A i \in 1 .. Len(Tail(h)) : Tail(h)[i] = h[i + 1]
    BY HeadTailProperties
  <2>3. PICK c \in Seq(Nat) : c = <<b>>
    BY JustOne
  <2>4. Len(c) = 1 /\ c[1] = b
    BY <2>3
  <2>5. PICK u \in Seq(Nat) :
          /\ u = c \o t /\ Len(u) = Len(c) + Len(t)
          /\ \A i \in 1 .. Len(c) + Len(t) : u[i] = IF i <= Len(c) THEN c[i] ELSE t[i - Len(c)]
    <3>1. /\ c \o t \in Seq(Nat) /\ Len(c \o t) = Len(c) + Len(t)
          /\ \A i \in 1 .. Len(c) + Len(t) :
               (c \o t)[i] = IF i <= Len(c) THEN c[i] ELSE t[i - Len(c)]
      BY ConcatProperties
    <3> QED  BY <3>1
  <2>6. Len(u) = Len(h)
    BY <1>2, <2>1, <2>2, <2>4, <2>5
  <2>7. ASSUME NEW i \in 1 .. Len(u)  PROVE u[i] = h[i]
    <3>1. CASE i = 1
      BY <1>2, <2>2, <2>4, <2>5, <3>1
    <3>2. CASE i # 1
      <4>1. i - 1 \in 1 .. Len(t) /\ ~ (i <= 1) /\ (i - 1) + 1 = i /\ i \in 1 .. Len(c) + Len(t)
        BY <1>2, <2>1, <2>2, <2>4, <2>6, <3>2
      <4>2. u[i] = t[i - 1]
        BY <2>4, <2>5, <4>1
      <4>3. t[i - 1] = h[i]
        BY <1>2, <2>2, <4>1
      <4> QED  BY <4>2, <4>3
    <3> QED  BY <3>1, <3>2
  <2>8. u = h
    BY <2>6, <2>7, SeqEqual
  <2> QED  BY <2>3, <2>5, <2>8
<1>4. Append(p, b) \o t = p \o h
  BY <1>3, ByteThen
<1>5. Append(p, b) \in Seq(Nat)
  BY AppendProperties
<1>6. t = <<>> => Append(p, b) \o t = Append(p, b)
  BY <1>5, ConcatEmptySeq
<1> QED  BY <1>2, <1>4, <1>5, <1>6

-----------------------------------------------------------------------------
\* The frames that have been read to their end, and what is read of the next one.
Parsed(s) ==
  \E fs \in Seq(Seq(Nat)) : s.whole = whole \o fs /\ Known(partial \o s.read, fs, s.partial)

\* After k bytes: s is what they leave, and what they are.
Sound(s, k) ==
  /\ s.read \in Seq(Nat) /\ Len(s.read) <= k
  /\ OnWire(s.wire) /\ s.partial \in Seq(Nat) /\ s.whole \in Seq(Seq(Nat))
  /\ ~ torn => Joined(s.partial, s.wire) /\ Parsed(s)

\* A byte more of what follows is a byte more in all.
LEMMA AppendMoves ==
  ASSUME NEW p \in Seq(Nat), NEW r \in Seq(Nat), NEW b \in Nat
  PROVE  p \o Append(r, b) = Append(p \o r, b)
<1>1. PICK c \in Seq(Nat) : c = <<b>>
  BY JustOne
<1>2. p \o r \in Seq(Nat)
  BY ConcatProperties
<1>3. (p \o r) \o c = p \o (r \o c)
  BY BytesInARow
<1>4. Append(r, b) = r \o c /\ Append(p \o r, b) = (p \o r) \o c
  BY <1>1, <1>2, AppendIsConcat
<1> QED  BY <1>3, <1>4

\* The same for frames.
LEMMA AppendMovesFrame ==
  ASSUME NEW p \in Seq(Seq(Nat)), NEW r \in Seq(Seq(Nat)), NEW f \in Seq(Nat)
  PROVE  p \o Append(r, f) = Append(p \o r, f)
<1>1. PICK c \in Seq(Seq(Nat)) : c = <<f>>
  BY JustOne
<1>2. p \o r \in Seq(Seq(Nat))
  BY ConcatProperties
<1>3. (p \o r) \o c = p \o (r \o c)
  BY FramesInARow
<1>4. Append(r, f) = r \o c /\ Append(p \o r, f) = (p \o r) \o c
  BY <1>1, <1>2, AppendIsConcat
<1> QED  BY <1>3, <1>4

\* One more byte.
LEMMA OneByteKeeps ==
  ASSUME NEW s, NEW k \in Nat, Sound(s, k),
         partial \in Seq(Nat), whole \in Seq(Seq(Nat))
  PROVE  Sound(OneByte(s), k + 1)
<1>1. CASE s.wire = <<>>
  <2>1. OneByte(s) = s
    BY <1>1 DEF OneByte
  <2>2. Len(s.read) \in Nat
    BY LenProperties DEF Sound
  <2>3. Len(s.read) <= k => Len(s.read) <= k + 1
    BY <2>2
  <2> QED  BY <2>1, <2>3 DEF Sound
<1>2. CASE s.wire # <<>>
  <2>1. PICK w, p, r : w = s.wire /\ p = s.partial /\ r = s.read
    OBVIOUS
  <2>2. /\ OnWire(w) /\ w # <<>> /\ p \in Seq(Nat) /\ s.whole \in Seq(Seq(Nat))
        /\ r \in Seq(Nat) /\ Len(r) <= k
    BY <1>2, <2>1 DEF Sound
  <2>3. PICK h \in Seq(Nat) : h = Head(w) /\ h # <<>> /\ w[1] = h
    BY <2>2, WireTail
  <2>4. PICK b \in Nat, left \in Seq(Nat) :
          /\ b = Head(h) /\ left = Tail(h)
          /\ Append(p, b) \o left = p \o h
          /\ left = <<>> => Append(p, b) = p \o h
    BY <2>2, <2>3, ByteMoves
  <2>5. PICK q \in Seq(Nat), more \in Seq(Nat) : q = Append(p, b) /\ more = Append(r, b)
    BY <2>2, AppendProperties
  <2>6. Len(more) <= k + 1
    <3>1. Len(more) = Len(r) + 1 /\ Len(r) \in Nat
      BY <2>2, <2>5, AppendProperties, LenProperties
    <3> QED  BY <2>2, <3>1
  <2>7. partial \o more = Append(partial \o r, b)
    BY <2>2, <2>5, AppendMoves, SMTT(30)
  <2>8. CASE left = <<>>
    <3>1. PICK t : /\ t = Tail(w) /\ OnWire(t) /\ \A i \in 1 .. Len(t) : t[i] \in WireFrames
      BY <2>2, WireTail
    <3>2. PICK o : o = OneByte(s)
      OBVIOUS
    <3>3. o.read = more /\ o.wire = t /\ o.partial = <<>> /\ o.whole = Append(s.whole, q)
      BY <1>2, <2>1, <2>3, <2>4, <2>5, <2>8, <3>1, <3>2 DEF OneByte
    <3>4. Append(s.whole, q) \in Seq(Seq(Nat)) /\ <<>> \in Seq(Nat)
      BY <2>2, AppendProperties, EmptySeq
    <3>5. ASSUME ~ torn
          PROVE  Joined(<<>>, t) /\ Parsed(o)
      <4>1. PICK fs \in Seq(Seq(Nat)) : s.whole = whole \o fs /\ Known(partial \o r, fs, p)
        BY <2>1, <3>5 DEF Sound, Parsed
      <4>2. q \in WireFrames
        BY <2>1, <2>2, <2>3, <2>4, <2>5, <2>8, <3>5 DEF Sound, Joined
      <4>3. Known(Append(partial \o r, b), Append(fs, Append(p, b)), <<>>)
        BY <2>5, <4>1, <4>2, KnownFrame
      <4>4. Known(partial \o more, Append(fs, q), <<>>)
        BY <2>5, <2>7, <4>3
      <4>5. Append(fs, q) \in Seq(Seq(Nat)) /\ Append(whole \o fs, q) = whole \o Append(fs, q)
        BY AppendMovesFrame, AppendProperties, ZenonT(30)
      <4>6. Joined(<<>>, t)
        <5>1. CASE t = <<>>
          BY <5>1 DEF Joined
        <5>2. CASE t # <<>>
          <6>1. t \in Seq(Seq(Nat)) /\ Len(t) \in Nat \ {0}
            BY <3>1, <5>2, EmptySeq DEF OnWire
          <6>2. 1 \in 1 .. Len(t)
            BY <6>1
          <6>3. t[1] \in WireFrames /\ t[1] \in Seq(Nat)
            BY <3>1, <6>1, <6>2, ElementOfSeq
          <6>4. <<>> \o t[1] = t[1]
            BY <6>3, ConcatEmptySeq
          <6> QED  BY <5>2, <6>3, <6>4 DEF Joined
        <5> QED  BY <5>1, <5>2
      <4> QED  BY <3>3, <4>1, <4>4, <4>5, <4>6 DEF Parsed
    <3>6. Sound(o, k + 1)
      BY <2>6, <3>1, <3>3, <3>4, <3>5 DEF Sound
    <3> QED  BY <3>2, <3>6
  <2>9. CASE left # <<>>
    <3>1. PICK t : t = <<left>> \o Tail(w) /\ OnWire(t) /\ t # <<>> /\ t[1] = left
      BY <2>2, <2>9, WireLeft
    <3>2. PICK o : o = OneByte(s)
      OBVIOUS
    <3>3. o.read = more /\ o.wire = t /\ o.partial = q /\ o.whole = s.whole
      BY <1>2, <2>1, <2>3, <2>4, <2>5, <2>9, <3>1, <3>2 DEF OneByte
    <3>4. ASSUME ~ torn
          PROVE  Joined(q, t) /\ Parsed(o)
      <4>1. PICK fs \in Seq(Seq(Nat)) : s.whole = whole \o fs /\ Known(partial \o r, fs, p)
        BY <2>1, <3>4 DEF Sound, Parsed
      <4>2. Known(Append(partial \o r, b), fs, Append(p, b))
        BY <4>1, KnownByte
      <4>3. Known(partial \o more, fs, q)
        BY <2>5, <2>7, <4>2
      <4>4. p \o h \in WireFrames
        BY <2>1, <2>2, <2>3, <3>4 DEF Sound, Joined
      <4>5. Joined(q, t)
        BY <2>4, <2>5, <3>1, <4>4 DEF Joined
      <4> QED  BY <3>3, <4>1, <4>3, <4>5 DEF Parsed
    <3>5. Sound(o, k + 1)
      BY <2>2, <2>6, <3>1, <3>3, <3>4 DEF Sound
    <3> QED  BY <3>2, <3>5
  <2> QED  BY <2>8, <2>9
<1> QED  BY <1>1, <1>2

\* What has been read of what is on the wire.
History ==
  /\ partial \in Seq(Nat) /\ whole \in Seq(Seq(Nat)) /\ OnWire(wire)
  /\ ~ torn => Joined(partial, wire)

\* Any number of bytes.
LEMMA TakenIsSound ==
  ASSUME NEW n \in Nat, History
  PROVE  Sound(Taken(n), n)
<1> DEFINE First == [read |-> <<>>, wire |-> wire, partial |-> partial, whole |-> whole]
           Turn(g, k) == IF k = 0 THEN First ELSE OneByte(g[k - 1])
           A == CHOOSE g : g = [k \in 0 .. n |-> Turn(g, k)]
<1>1. Taken(n) = A[n]
  BY DEF Taken
<1>2. \E g : g = [k \in 0 .. n |-> Turn(g, k)]
  <2> DEFINE Upto(g, m) == DOMAIN g = 0 .. n /\ \A k \in 0 .. m : g[k] = Turn(g, k)
             T == {m \in Nat : m <= n => \E g : Upto(g, m)}
  <2>1. 0 \in T
    <3> DEFINE g == [k \in 0 .. n |-> First]
    <3>1. Upto(g, 0)
      <4> HIDE DEF First
      <4> QED  OBVIOUS
    <3> HIDE DEF g, Upto
    <3> QED  BY <3>1
  <2>2. ASSUME NEW m \in Nat, m \in T  PROVE m + 1 \in T
    <3>1. SUFFICES ASSUME m + 1 <= n  PROVE \E g : Upto(g, m + 1)
      <4> HIDE DEF Upto
      <4> QED  OBVIOUS
    <3>2. PICK g : Upto(g, m)
      <4> HIDE DEF Upto
      <4> QED  BY <2>2, <3>1
    <3> HIDE DEF First
    <3> DEFINE h == [k \in 0 .. n |-> IF k = m + 1 THEN OneByte(g[m]) ELSE g[k]]
    <3>3. ASSUME NEW k \in 0 .. m + 1  PROVE h[k] = Turn(h, k)
      <4>1. k \in 0 .. n
        BY <3>1
      <4>2. CASE k = m + 1
        <5>1. k # 0 /\ k - 1 = m /\ m \in 0 .. n /\ m # m + 1
          BY <3>1, <4>2
        <5> QED  BY <4>1, <4>2, <5>1
      <4>3. CASE k # m + 1 /\ k # 0
        <5>1. k \in 0 .. m /\ k - 1 \in 0 .. n /\ k - 1 # m + 1
          BY <3>1, <4>3
        <5>2. g[k] = OneByte(g[k - 1])
          BY <3>2, <4>3, <5>1
        <5> QED  BY <4>1, <4>3, <5>1, <5>2
      <4>4. CASE k = 0
        <5>1. k \in 0 .. m /\ k # m + 1
          BY <4>4
        <5>2. g[k] = First
          BY <3>2, <4>4, <5>1
        <5> QED  BY <4>1, <4>4, <5>1, <5>2
      <4> QED  BY <4>2, <4>3, <4>4
    <3>4. DOMAIN h = 0 .. n
      OBVIOUS
    <3> HIDE DEF h, Turn
    <3>5. Upto(h, m + 1)
      BY <3>3, <3>4
    <3> HIDE DEF Upto
    <3> QED  BY <3>5
  <2>3. Nat \subseteq T
    <3> HIDE DEF T
    <3> QED  BY <2>1, <2>2, AllNaturals
  <2>4. PICK g : Upto(g, n)
    <3> HIDE DEF Upto
    <3>1. n \in T
      BY <2>3
    <3> QED  BY <3>1
  <2> DEFINE h == [k \in 0 .. n |-> g[k]]
  <2>5. \A k \in 0 .. n : h[k] = Turn(h, k)
    <3> HIDE DEF First
    <3>1. ASSUME NEW k \in 0 .. n  PROVE h[k] = Turn(h, k)
      <4>1. CASE k = 0
        BY <2>4, <4>1
      <4>2. CASE k # 0
        <5>1. k - 1 \in 0 .. n
          BY <4>2
        <5> QED  BY <2>4, <4>2, <5>1
      <4> QED  BY <4>1, <4>2
    <3> QED  BY <3>1
  <2>6. h = [k \in 0 .. n |-> h[k]]
    OBVIOUS
  <2> HIDE DEF h, Turn
  <2>7. h = [k \in 0 .. n |-> Turn(h, k)]
    BY <2>5, <2>6
  <2> QED  BY <2>7
<1>3. A = [k \in 0 .. n |-> Turn(A, k)]
  <2> HIDE DEF Turn
  <2> QED  BY <1>2
<1> HIDE DEF A
<1>4. Sound(First, 0)
  <2>1. <<>> \in Seq(Nat) /\ Len(<<>>) = 0 /\ <<>> \in Seq(Seq(Nat))
    BY EmptySeq
  <2>2. partial \o <<>> = partial /\ whole \o <<>> = whole
    BY ConcatEmptySeq DEF History
  <2>3. Known(partial, <<>>, partial)
    BY KnownStart DEF History
  <2>4. PICK f : f = First
    OBVIOUS
  <2>5. f.read = <<>> /\ f.wire = wire /\ f.partial = partial /\ f.whole = whole
    BY <2>4
  <2>6. Parsed(f)
    BY <2>1, <2>2, <2>3, <2>5 DEF Parsed
  <2> HIDE DEF First
  <2>7. Sound(f, 0)
    BY <2>1, <2>5, <2>6 DEF Sound, History
  <2> QED  BY <2>4, <2>7
<1> HIDE DEF First
<1> DEFINE T == {k \in Nat : k <= n => Sound(A[k], k)}
<1>5. 0 \in T
  <2>1. A[0] = First
    BY <1>3
  <2> QED  BY <1>4, <2>1
<1>6. ASSUME NEW k \in Nat, k \in T  PROVE k + 1 \in T
  <2>1. SUFFICES ASSUME k + 1 <= n  PROVE Sound(A[k + 1], k + 1)
    OBVIOUS
  <2>2. Sound(A[k], k)
    BY <1>6, <2>1
  <2>3. A[k + 1] = OneByte(A[k])
    <3>1. k + 1 \in 0 .. n /\ k + 1 # 0 /\ (k + 1) - 1 = k
      BY <2>1
    <3> QED  BY <1>3, <3>1
  <2>4. Sound(OneByte(A[k]), k + 1)
    BY <2>2, OneByteKeeps DEF History
  <2> QED  BY <2>3, <2>4
<1>7. Nat \subseteq T
  <2> HIDE DEF T
  <2> QED  BY <1>5, <1>6, AllNaturals
<1>8. Sound(A[n], n)
  BY <1>7
<1> QED  BY <1>1, <1>8

-----------------------------------------------------------------------------
\* Between two steps: what is known of the wire, the buffer and the history.
ReceptionInv ==
  /\ ReceptionSound /\ buf \in Seq(Nat) /\ History
  /\ mode = "probe" => judged = <<>>

ReceptionOutcomes == {"none", "reply", "noDevice", "noResponse", "readError"}

\* Half a buffer has room for the smallest frame.
LEMMA Sizes ==
  /\ BufSize \in Nat /\ ProbeSize \in Nat /\ MaxFrames \in Nat
  /\ BufSize \div 2 \in Nat /\ BufSize \div 2 <= BufSize /\ 3 <= BufSize - BufSize \div 2
<1>1. BufSize \in Nat /\ ProbeSize \in Nat /\ MaxFrames \in Nat
  BY ReceptionAssumption
<1>2. BufSize \div 2 \in Nat /\ BufSize \div 2 <= BufSize
  BY <1>1
<1>3. Ack \in WireFrames
  BY DEF WireFrames
<1>4. Len(Ack) \in Nat /\ 3 <= Len(Ack) /\ Len(Ack) <= BufSize - BufSize \div 2
  BY <1>3, FrameShape
<1> QED  BY <1>1, <1>2, <1>4

\* A frame begun is shorter than what a compacted buffer has room for.
LEMMA BegunIsShort ==
  ASSUME NEW p \in Seq(Nat), Begun(p)
  PROVE  Len(p) < BufSize - BufSize \div 2
<1>1. PICK f \in WireFrames : Len(p) < Len(f)
  BY DEF Begun
<1>2. Len(f) \in Nat /\ Len(f) <= BufSize - BufSize \div 2 /\ Len(p) \in Nat
  BY FrameShape, LenProperties
<1> QED  BY <1>1, <1>2, Sizes

\* A read fits.
LEMMA ReadFits ==
  ASSUME NEW size \in Nat, Len(buf) \in Nat, Len(buf) <= size, wire \in Seq(Seq(Nat)),
         NEW n \in Reads(size)
  PROVE  n \in Nat /\ Len(buf) + n <= size
<1>1. PICK come \in Nat : come = Advance(wire)
  BY AdvanceType
<1>2. PICK room \in Nat : room = size - Len(buf)
  <2>1. size - Len(buf) \in Nat
    OBVIOUS
  <2> QED  BY <2>1
<1>3. n \in IF room = 0 THEN {0} ELSE 1 .. (IF come < room THEN come ELSE room)
  BY <1>1, <1>2 DEF Reads
<1>4. n \in Nat /\ n <= room
  BY <1>3
<1> QED  BY <1>2, <1>4

\* The end of a sequence.
LEMMA RestIs ==
  ASSUME NEW t \in Seq(Nat), NEW c \in Nat, NEW p \in Seq(Nat), Len(t) = c + Len(p),
         \A k \in 1 .. Len(p) : p[k] = t[c + k]
  PROVE  SubSeq(t, c + 1, Len(t)) = p
<1>1. PICK m \in Nat : m = Len(p)
  BY LenProperties
<1>2. PICK n \in Nat : n = Len(t) /\ n = c + m
  BY <1>1
<1>3. PICK a \in Nat : a = c + 1
  OBVIOUS
<1>4. \A i \in a .. n : t[i] \in Nat
  <2>1. ASSUME NEW i \in a .. n  PROVE t[i] \in Nat
    <3>1. i \in 1 .. Len(t)
      BY <1>2, <1>3
    <3> QED  BY <3>1, ElementOfSeq
  <2> QED  BY <2>1
<1>5. /\ SubSeq(t, a, n) \in Seq(Nat)
      /\ Len(SubSeq(t, a, n)) = IF a <= n THEN n - a + 1 ELSE 0
      /\ \A i \in 1 .. n - a + 1 : SubSeq(t, a, n)[i] = t[a + i - 1]
  BY <1>4, SubSeqProperties
<1>6. PICK u \in Seq(Nat) : /\ u = SubSeq(t, a, n) /\ Len(u) = m
                            /\ \A i \in 1 .. m : u[i] = t[a + i - 1]
  <2>1. n - a + 1 = m /\ (~ (a <= n) => m = 0)
    BY <1>2, <1>3
  <2> QED  BY <1>5, <2>1
<1>7. ASSUME NEW i \in 1 .. m  PROVE u[i] = p[i]
  <2>1. a + i - 1 = c + i
    BY <1>3
  <2> QED  BY <1>1, <1>6, <2>1
<1>8. u = p
  BY <1>1, <1>6, <1>7, SeqEqual
<1> QED  BY <1>2, <1>3, <1>6, <1>8

\* The end of a sequence, by its bytes.
LEMMA RestHas ==
  ASSUME NEW t \in Seq(Nat), NEW c \in 0 .. Len(t)
  PROVE  /\ SubSeq(t, c + 1, Len(t)) \in Seq(Nat)
         /\ Len(t) = c + Len(SubSeq(t, c + 1, Len(t)))
         /\ \A k \in 1 .. Len(SubSeq(t, c + 1, Len(t))) : SubSeq(t, c + 1, Len(t))[k] = t[c + k]
<1>1. PICK n \in Nat : n = Len(t)
  BY LenProperties
<1>2. PICK a \in Nat : a = c + 1 /\ c \in Nat /\ c <= n
  BY <1>1
<1>3. \A i \in a .. n : t[i] \in Nat
  <2>1. ASSUME NEW i \in a .. n  PROVE t[i] \in Nat
    <3>1. i \in 1 .. Len(t)
      BY <1>1, <1>2
    <3> QED  BY <3>1, ElementOfSeq
  <2> QED  BY <2>1
<1>4. /\ SubSeq(t, a, n) \in Seq(Nat)
      /\ Len(SubSeq(t, a, n)) = IF a <= n THEN n - a + 1 ELSE 0
      /\ \A i \in 1 .. n - a + 1 : SubSeq(t, a, n)[i] = t[a + i - 1]
  BY <1>3, SubSeqProperties
<1>5. PICK u \in Seq(Nat) : u = SubSeq(t, a, n) /\ Len(u) = n - c
                            /\ \A i \in 1 .. n - c : u[i] = t[a + i - 1]
  <2>1. n - a + 1 = n - c /\ (~ (a <= n) => n - c = 0)
    BY <1>1, <1>2
  <2> QED  BY <1>4, <2>1
<1>6. n = c + Len(u)
  BY <1>1, <1>2, <1>5
<1>7. ASSUME NEW k \in 1 .. Len(u)  PROVE u[k] = t[c + k]
  <2>1. a + k - 1 = c + k
    BY <1>2
  <2> QED  BY <1>5, <2>1
<1> QED  BY <1>1, <1>2, <1>5, <1>6, <1>7

\* What is read comes after what waits.
LEMMA RestThen ==
  ASSUME NEW s \in Seq(Nat), NEW c \in 0 .. Len(s), NEW r \in Seq(Nat)
  PROVE  SubSeq(s \o r, c + 1, Len(s \o r)) = SubSeq(s, c + 1, Len(s)) \o r
<1>1. PICK p \in Seq(Nat) : /\ p = SubSeq(s, c + 1, Len(s)) /\ Len(s) = c + Len(p)
                            /\ \A k \in 1 .. Len(p) : p[k] = s[c + k]
  BY RestHas
<1>2. PICK n \in Nat, m \in Nat, l \in Nat : n = Len(s) /\ m = Len(r) /\ l = Len(p) /\ n = c + l
  BY <1>1, LenProperties
<1>3. PICK t \in Seq(Nat) :
        /\ t = s \o r /\ Len(t) = n + m
        /\ \A i \in 1 .. n + m : t[i] = IF i <= n THEN s[i] ELSE r[i - n]
  <2>1. /\ s \o r \in Seq(Nat) /\ Len(s \o r) = Len(s) + Len(r)
        /\ \A i \in 1 .. Len(s) + Len(r) : (s \o r)[i] = IF i <= Len(s) THEN s[i] ELSE r[i - Len(s)]
    BY ConcatProperties
  <2> QED  BY <1>2, <2>1, ZenonT(30)
<1>4. PICK u \in Seq(Nat) :
        /\ u = p \o r /\ Len(u) = l + m
        /\ \A i \in 1 .. l + m : u[i] = IF i <= l THEN p[i] ELSE r[i - l]
  <2>1. /\ p \o r \in Seq(Nat) /\ Len(p \o r) = Len(p) + Len(r)
        /\ \A i \in 1 .. Len(p) + Len(r) : (p \o r)[i] = IF i <= Len(p) THEN p[i] ELSE r[i - Len(p)]
    BY ConcatProperties
  <2> QED  BY <1>2, <2>1
<1>5. ASSUME NEW k \in 1 .. l + m  PROVE u[k] = t[c + k]
  <2>1. c \in Nat /\ c + k \in 1 .. n + m
    BY <1>2
  <2>2. CASE k <= l
    <3>1. c + k <= n /\ k \in 1 .. l
      BY <1>2, <2>2
    <3>2. u[k] = p[k] /\ t[c + k] = s[c + k]
      BY <1>3, <1>4, <2>1, <2>2, <3>1
    <3> QED  BY <1>1, <1>2, <3>1, <3>2
  <2>3. CASE ~ (k <= l)
    <3>1. ~ (c + k <= n) /\ (c + k) - n = k - l
      BY <1>2, <2>3
    <3>2. u[k] = r[k - l] /\ t[c + k] = r[(c + k) - n]
      BY <1>3, <1>4, <2>1, <2>3, <3>1
    <3> QED  BY <3>1, <3>2
  <2> QED  BY <2>2, <2>3
<1>6. Len(t) = c + Len(u) /\ c \in Nat
  BY <1>2, <1>3, <1>4
<1>7. SubSeq(t, c + 1, Len(t)) = u
  BY <1>4, <1>5, <1>6, RestIs
<1> QED  BY <1>1, <1>3, <1>4, <1>7

\* What is compacted keeps what waits.
LEMMA Compacted ==
  ASSUME NEW t \in Seq(Nat), NEW c \in 0 .. Len(t), NEW k, k = CompactFrameBuffer(t, c)
  PROVE  /\ k.buf \in Seq(Nat) /\ Len(k.buf) <= Len(t) /\ k.consumed \in 0 .. Len(k.buf)
         /\ SubSeq(k.buf, k.consumed + 1, Len(k.buf)) = SubSeq(t, c + 1, Len(t))
         /\ Len(t) - c < BufSize - BufSize \div 2 => Len(k.buf) < BufSize
<1>1. PICK p \in Seq(Nat) : p = SubSeq(t, c + 1, Len(t)) /\ Len(t) = c + Len(p)
  BY RestHas
<1>2. Len(p) \in Nat /\ c \in Nat /\ Len(t) \in Nat
  BY <1>1, LenProperties
<1>3. CASE c > BufSize \div 2
  <2>1. k.buf = p /\ k.consumed = 0
    BY <1>1, <1>3 DEF CompactFrameBuffer
  <2>2. SubSeq(p, 0 + 1, Len(p)) = p
    BY SubSeqFull
  <2>3. Len(t) - c < BufSize - BufSize \div 2 => Len(p) < BufSize
    BY <1>1, <1>2, Sizes
  <2> QED  BY <1>1, <1>2, <2>1, <2>2, <2>3
<1>4. CASE ~ (c > BufSize \div 2)
  <2>1. k.buf = t /\ k.consumed = c
    BY <1>4 DEF CompactFrameBuffer
  <2>2. Len(t) - c < BufSize - BufSize \div 2 => Len(t) < BufSize
    BY <1>2, <1>4, Sizes
  <2> QED  BY <1>2, <2>1, <2>2
<1> QED  BY <1>3, <1>4

-----------------------------------------------------------------------------
\* The first of some frames.
LEMMA FirstFrames ==
  ASSUME NEW fs \in Seq(Seq(Nat)), NEW m \in 0 .. Len(fs)
  PROVE  /\ SubSeq(fs, 1, m) \in Seq(Seq(Nat)) /\ Len(SubSeq(fs, 1, m)) = m
         /\ \A i \in 1 .. m : SubSeq(fs, 1, m)[i] = fs[i]
<1>1. Len(fs) \in Nat /\ m \in Nat
  BY LenProperties
<1>2. \A i \in 1 .. m : fs[i] \in Seq(Nat)
  <2>1. ASSUME NEW i \in 1 .. m  PROVE fs[i] \in Seq(Nat)
    <3>1. i \in 1 .. Len(fs)
      BY <1>1
    <3> QED  BY <3>1, ElementOfSeq
  <2> QED  BY <2>1
<1>3. /\ SubSeq(fs, 1, m) \in Seq(Seq(Nat))
      /\ Len(SubSeq(fs, 1, m)) = IF 1 <= m THEN m - 1 + 1 ELSE 0
      /\ \A i \in 1 .. m - 1 + 1 : SubSeq(fs, 1, m)[i] = fs[1 + i - 1]
  BY <1>1, <1>2, SubSeqProperties
<1>4. m - 1 + 1 = m /\ (~ (1 <= m) => m = 0) /\ \A i \in 1 .. m : 1 + i - 1 = i
  BY <1>1
<1> QED  BY <1>3, <1>4

\* A prefix, frame by frame.
LEMMA PrefixBy ==
  ASSUME NEW s \in Seq(Seq(Nat)), NEW t \in Seq(Seq(Nat)), Len(s) <= Len(t),
         \A i \in 1 .. Len(s) : s[i] = t[i]
  PROVE  IsPrefix(s, t)
<1>1. PICK n \in Nat, m \in Nat : n = Len(s) /\ m = Len(t) /\ n <= m
  BY LenProperties
<1>2. SubSeq(s, 1, n) = s
  BY <1>1, SubSeqFull
<1>3. n \in 0 .. Len(t)
  BY <1>1
<1>5. PICK u \in Seq(Seq(Nat)) : u = SubSeq(t, 1, n) /\ Len(u) = n /\ \A i \in 1 .. n : u[i] = t[i]
  BY <1>3, FirstFrames
<1>6. u = s
  BY <1>1, <1>5, SeqEqual
<1> QED  BY <1>1, <1>2, <1>5, <1>6 DEF IsPrefix

\* Of itself,
LEMMA PrefixSelf ==
  ASSUME NEW s \in Seq(Seq(Nat))  PROVE IsPrefix(s, s)
<1>1. Len(s) \in Nat
  BY LenProperties
<1> QED  BY <1>1, PrefixBy

\* ... nothing,
LEMMA PrefixNone ==
  ASSUME NEW s \in Seq(Seq(Nat))  PROVE IsPrefix(<<>>, s)
<1>1. PICK e \in Seq(Seq(Nat)) : e = <<>> /\ Len(e) = 0
  BY EmptySeq
<1>2. Len(s) \in Nat
  BY LenProperties
<1>3. Len(e) <= Len(s) /\ \A i \in 1 .. Len(e) : e[i] = s[i]
  <2>1. Len(e) = 0
    BY <1>1
  <2> QED  BY <1>2, <2>1
<1>4. IsPrefix(e, s)
  BY <1>3, PrefixBy
<1> QED  BY <1>1, <1>4

\* The first of some frames, and others before them.
LEMMA PrefixOfMore ==
  ASSUME NEW j \in Seq(Seq(Nat)), NEW fs \in Seq(Seq(Nat)), NEW m \in 0 .. Len(fs)
  PROVE  IsPrefix(j \o SubSeq(fs, 1, m), j \o fs) /\ j \o SubSeq(fs, 1, m) \in Seq(Seq(Nat))
<1>1. PICK g \in Seq(Seq(Nat)) : /\ g = SubSeq(fs, 1, m) /\ Len(g) = m
                                 /\ \A i \in 1 .. m : g[i] = fs[i]
  BY FirstFrames
<1>2. PICK a \in Nat, b \in Nat : a = Len(j) /\ b = Len(fs) /\ m \in Nat /\ m <= b
  BY LenProperties
<1>3. PICK s \in Seq(Seq(Nat)) :
        /\ s = j \o g /\ Len(s) = a + m
        /\ \A i \in 1 .. a + m : s[i] = IF i <= a THEN j[i] ELSE g[i - a]
  <2>1. /\ j \o g \in Seq(Seq(Nat)) /\ Len(j \o g) = Len(j) + Len(g)
        /\ \A i \in 1 .. Len(j) + Len(g) : (j \o g)[i] = IF i <= Len(j) THEN j[i] ELSE g[i - Len(j)]
    BY ConcatProperties
  <2> QED  BY <1>1, <1>2, <2>1, ZenonT(30)
<1>4. PICK t \in Seq(Seq(Nat)) :
        /\ t = j \o fs /\ Len(t) = a + b
        /\ \A i \in 1 .. a + b : t[i] = IF i <= a THEN j[i] ELSE fs[i - a]
  <2>1. /\ j \o fs \in Seq(Seq(Nat)) /\ Len(j \o fs) = Len(j) + Len(fs)
        /\ \A i \in 1 .. Len(j) + Len(fs) :
             (j \o fs)[i] = IF i <= Len(j) THEN j[i] ELSE fs[i - Len(j)]
    BY ConcatProperties
  <2> QED  BY <1>2, <2>1
<1>5. ASSUME NEW i \in 1 .. Len(s)  PROVE s[i] = t[i]
  <2>1. i \in 1 .. a + m /\ i \in 1 .. a + b
    BY <1>2, <1>3
  <2>2. CASE i <= a
    BY <1>3, <1>4, <2>1, <2>2
  <2>3. CASE ~ (i <= a)
    <3>1. i - a \in 1 .. m
      BY <1>2, <2>1, <2>3
    <3> QED  BY <1>1, <1>3, <1>4, <2>1, <2>3, <3>1
  <2> QED  BY <2>2, <2>3
<1>6. Len(s) <= Len(t)
  BY <1>2, <1>3, <1>4
<1>7. IsPrefix(s, t)
  BY <1>5, <1>6, PrefixBy
<1> QED  BY <1>1, <1>3, <1>4, <1>7

-----------------------------------------------------------------------------
\* The frames with no reply among the first k.
Acks(fs, k) == {i \in 1 .. k : fs[i] = Ack}

\* Counted one more frame at a time.
LEMMA AcksCount ==
  ASSUME NEW fs \in Seq(Seq(Nat)), NEW k \in 0 .. Len(fs)
  PROVE  /\ IsFiniteSet(Acks(fs, k)) /\ Cardinality(Acks(fs, k)) \in Nat
         /\ Empties(SubSeq(fs, 1, k)) = Cardinality(Acks(fs, k))
<1>1. Len(fs) \in Nat /\ k \in Nat
  BY LenProperties
<1>2. IsFiniteSet(Acks(fs, k))
  <2>1. IsFiniteSet(1 .. k) /\ Acks(fs, k) \subseteq 1 .. k
    BY <1>1, FS_Interval DEF Acks
  <2> QED  BY <2>1, FS_Subset
<1>3. PICK g \in Seq(Seq(Nat)) : /\ g = SubSeq(fs, 1, k) /\ Len(g) = k
                                 /\ \A i \in 1 .. k : g[i] = fs[i]
  BY FirstFrames
<1>4. DOMAIN g = 1 .. k
  BY <1>3, LenProperties
<1>5. {i \in DOMAIN g : g[i] = Ack} = Acks(fs, k)
  BY <1>3, <1>4 DEF Acks
<1>6. Empties(g) = Cardinality(Acks(fs, k))
  BY <1>5 DEF Empties
<1> QED  BY <1>2, <1>3, <1>6, FS_CardinalityType

\* Frames that do not end the call leave it with at most one without a reply.
LEMMA FewEmpties ==
  ASSUME NEW fs \in Seq(Seq(Nat)), emptyFrames \in 0 .. 1,
         \A k \in 1 .. Len(fs) : ~ Ends(SubSeq(fs, 1, k))
  PROVE  emptyFrames + Empties(fs) \in 0 .. 1
<1> DEFINE C(k) == Cardinality(Acks(fs, k))
           T == {k \in Nat : k <= Len(fs) => emptyFrames + C(k) <= 1}
<1>1. Len(fs) \in Nat
  BY LenProperties
<1>2. \A k \in 0 .. Len(fs) : C(k) \in Nat
  BY AcksCount
<1>3. 0 \in T
  <2>1. Acks(fs, 0) = {}
    BY DEF Acks
  <2>2. C(0) = 0
    BY <2>1, FS_EmptySet
  <2> HIDE DEF C
  <2> QED  BY <2>2
<1>4. ASSUME NEW k \in Nat, k \in T  PROVE k + 1 \in T
  <2>1. SUFFICES ASSUME k + 1 <= Len(fs)  PROVE emptyFrames + C(k + 1) <= 1
    <3> HIDE DEF C
    <3> QED  OBVIOUS
  <2>2. k \in 0 .. Len(fs) /\ k + 1 \in 0 .. Len(fs) /\ k + 1 \in 1 .. Len(fs)
    BY <1>1, <2>1
  <2>3. emptyFrames + C(k) <= 1 /\ C(k) \in Nat
    <3> HIDE DEF C
    <3> QED  BY <1>2, <1>4, <2>1, <2>2
  <2>4. CASE fs[k + 1] # Ack
    <3>1. Acks(fs, k + 1) = Acks(fs, k)
      BY <2>4 DEF Acks
    <3> QED  BY <2>3, <3>1
  <2>5. CASE fs[k + 1] = Ack
    <3>1. Acks(fs, k + 1) = Acks(fs, k) \cup {k + 1} /\ k + 1 \notin Acks(fs, k)
      BY <2>5 DEF Acks
    <3>2. C(k + 1) = C(k) + 1
      BY <2>2, <3>1, AcksCount, FS_AddElement
    <3>3. PICK g \in Seq(Seq(Nat)) :
            /\ g = SubSeq(fs, 1, k + 1) /\ Len(g) = k + 1
            /\ \A i \in 1 .. k + 1 : g[i] = fs[i]
      BY <2>2, FirstFrames
    <3>4. Last(g) = Ack /\ g # <<>>
      <4>1. g[k + 1] = fs[k + 1]
        <5>1. k + 1 \in 1 .. k + 1
          OBVIOUS
        <5> QED  BY <3>3, <5>1
      <4>2. g # <<>>
        <5>1. Len(g) # 0
          BY <3>3
        <5> QED  BY <5>1, EmptySeq
      <4> QED  BY <2>5, <3>3, <4>1, <4>2 DEF Last
    <3>5. ~ Ends(g)
      BY <2>2, <3>3
    <3>6. Empties(g) = C(k + 1)
      BY <2>2, <3>3, AcksCount
    <3>7. emptyFrames + C(k + 1) # 2
      BY <3>4, <3>5, <3>6 DEF Ends
    <3> HIDE DEF C
    <3> QED  BY <2>3, <3>2, <3>7
  <2> QED  BY <2>4, <2>5
<1>5. Nat \subseteq T
  <2> HIDE DEF T
  <2> QED  BY <1>3, <1>4, AllNaturals
<1>6. Len(fs) \in 0 .. Len(fs)
  BY <1>1
<1>7. Empties(fs) = C(Len(fs))
  <2>1. SubSeq(fs, 1, Len(fs)) = fs
    BY SubSeqFull
  <2> QED  BY <1>6, <2>1, AcksCount
<1>8. emptyFrames + C(Len(fs)) <= 1
  <2> HIDE DEF C
  <2> QED  BY <1>1, <1>5
<1>9. C(Len(fs)) \in Nat
  BY <1>2, <1>6
<1> HIDE DEF C
<1>10. emptyFrames + C(Len(fs)) \in 0 .. 1
  BY <1>8, <1>9
<1> QED  BY <1>7, <1>10

-----------------------------------------------------------------------------
\* A client begins with nothing read.
LEMMA ReceptionStart ==
  ASSUME ReceptionInit  PROVE ReceptionInv
<1>1. /\ wire = <<>> /\ partial = <<>> /\ whole = <<>> /\ judged = <<>> /\ buf = <<>>
      /\ delivered = 0 /\ consumed = 0 /\ emptyFrames = 0 /\ mode = "idle" /\ outcome = "none"
      /\ torn = FALSE /\ connSerial \in BOOLEAN
  BY DEF ReceptionInit
<1>2. <<>> \in Seq(Nat) /\ <<>> \in Seq(Seq(Nat)) /\ Len(<<>>) = 0
  BY EmptySeq
<1>3. OnWire(wire)
  BY <1>1, <1>2 DEF OnWire
<1>4. Joined(partial, wire)
  BY <1>1 DEF Joined
<1>5. History
  BY <1>1, <1>2, <1>3, <1>4 DEF History
<1>6. ReceptionTypeOK
  <2>1. Len(buf) = 0 /\ Len(buf) <= BufSize /\ 0 \in 0 .. Len(buf)
    BY <1>1, <1>2, Sizes
  <2>2. /\ wire \in Seq(Seq(Nat)) /\ partial \in Seq(Nat)
        /\ whole \in Seq(Seq(Nat)) /\ judged \in Seq(Seq(Nat))
    BY <1>1, <1>2
  <2>3. 0 \in 0 .. MaxFrames /\ 0 \in 0 .. 1
    BY Sizes
  <2>4. delivered \in 0 .. MaxFrames /\ emptyFrames \in 0 .. 1 /\ torn \in BOOLEAN
        /\ mode = "idle" /\ outcome = "none" /\ consumed = 0 /\ connSerial \in BOOLEAN
    BY <1>1, <2>3, Zenon
  <2> QED  BY <2>1, <2>2, <2>3, <2>4 DEF ReceptionTypeOK
<1>7. IsPrefix(judged, whole)
  BY <1>1, <1>2, PrefixSelf
<1>8. ReceptionSound
  BY <1>1, <1>6, <1>7 DEF ReceptionSound
<1> QED  BY <1>1, <1>2, <1>5, <1>8 DEF ReceptionInv

\* A frame comes.
LEMMA DeliverKeeps ==
  ASSUME ReceptionInv, NEW f \in WireFrames, Deliver(f)
  PROVE  ReceptionInv'
<1>1. /\ delivered < MaxFrames /\ delivered' = delivered + 1 /\ wire' = Append(wire, f)
      /\ UNCHANGED <<connSerial, mode, buf, consumed, emptyFrames, outcome,
                     torn, partial, whole, judged>>
  BY DEF Deliver, readHistory
<1>2. ReceptionTypeOK /\ History /\ OnWire(wire) /\ wire \in Seq(Seq(Nat))
  BY DEF ReceptionInv, ReceptionSound, History, OnWire
<1>3. f \in Seq(Nat) /\ f # <<>>
  <2>1. f \in Seq(Nat) /\ Len(f) >= 3
    BY FrameShape
  <2> QED  BY <2>1, EmptySeq
<1>4. PICK n \in Nat : n = Len(wire)
  BY <1>2, LenProperties
<1>5. PICK w \in Seq(Seq(Nat)) :
        /\ w = wire' /\ Len(w) = n + 1 /\ w[n + 1] = f /\ \A i \in 1 .. n : w[i] = wire[i]
  <2>1. /\ Append(wire, f) \in Seq(Seq(Nat)) /\ Len(Append(wire, f)) = Len(wire) + 1
        /\ \A i \in 1 .. Len(wire) : Append(wire, f)[i] = wire[i]
        /\ Append(wire, f)[Len(wire) + 1] = f
    BY <1>2, <1>3, AppendProperties
  <2> QED  BY <1>1, <1>4, <2>1
<1>6. OnWire(w)
  <2>1. ASSUME NEW i \in 1 .. Len(w)
        PROVE  w[i] # <<>> /\ (i \in 2 .. Len(w) => w[i] \in WireFrames)
    <3>1. CASE i = n + 1
      BY <1>3, <1>5, <3>1
    <3>2. CASE i # n + 1
      <4>1. i \in 1 .. n /\ (i \in 2 .. Len(w) => i \in 2 .. n)
        BY <1>5, <3>2
      <4> QED  BY <1>2, <1>4, <1>5, <4>1 DEF OnWire
    <3> QED  BY <3>1, <3>2
  <2>2. \A i \in 2 .. Len(w) : i \in 1 .. Len(w)
    BY <1>5
  <2> QED  BY <2>1, <2>2 DEF OnWire
<1>7. w # <<>>
  <2>1. Len(w) # 0
    BY <1>5
  <2> QED  BY <2>1, EmptySeq
<1>8. ASSUME ~ torn  PROVE Joined(partial, w)
  <2>1. Joined(partial, wire)
    BY <1>2, <1>8 DEF History
  <2>2. CASE wire = <<>>
    <3>1. n = 0 /\ partial = <<>>
      BY <1>4, <2>1, <2>2, EmptySeq DEF Joined
    <3>2. w[1] = f /\ <<>> \o f = f
      BY <1>3, <1>5, <3>1, ConcatEmptySeq
    <3> QED  BY <1>7, <3>1, <3>2 DEF Joined
  <2>3. CASE wire # <<>>
    <3>1. 1 \in 1 .. n
      BY <1>2, <1>4, <2>3, EmptySeq
    <3>2. w[1] = wire[1]
      BY <1>5, <3>1
    <3> QED  BY <1>7, <2>1, <2>3, <3>2 DEF Joined
  <2> QED  BY <2>2, <2>3
<1>9. History'
  BY <1>1, <1>2, <1>5, <1>6, <1>8 DEF History
<1>10. delivered' \in 0 .. MaxFrames
  BY <1>1, <1>2, Sizes DEF ReceptionTypeOK
<1>11. ReceptionTypeOK'
  BY <1>1, <1>2, <1>5, <1>10 DEF ReceptionTypeOK
<1>12. ReceptionSound'
  BY <1>1, <1>11 DEF ReceptionInv, ReceptionSound
<1> QED  BY <1>1, <1>9, <1>12 DEF ReceptionInv

\* A new buffer.
LEMMA NewBufferKeeps ==
  ASSUME NEW where \in {"probe", "receive"}, NewBuffer(where), OnWire(wire'),
         delivered' \in 0 .. MaxFrames, connSerial' \in BOOLEAN, outcome' \in ReceptionOutcomes
  PROVE  ReceptionInv'
<1>1. /\ mode' = where /\ buf' = <<>> /\ consumed' = 0 /\ emptyFrames' = 0
      /\ torn' = (wire' # <<>> /\ wire'[1] \notin WireFrames)
      /\ partial' = <<>> /\ whole' = <<>> /\ judged' = <<>>
  BY DEF NewBuffer
<1>2. <<>> \in Seq(Nat) /\ <<>> \in Seq(Seq(Nat)) /\ Len(<<>>) = 0
  BY EmptySeq
<1>3. PICK w : w = wire' /\ OnWire(w) /\ w \in Seq(Seq(Nat))
  BY DEF OnWire
<1>4. ASSUME ~ torn'  PROVE Joined(<<>>, w)
  <2>1. CASE w = <<>>
    BY <2>1 DEF Joined
  <2>2. CASE w # <<>>
    <3>1. w[1] \in WireFrames
      BY <1>1, <1>3, <1>4, <2>2
    <3>2. <<>> \o w[1] = w[1]
      BY <3>1, FrameShape, ConcatEmptySeq
    <3> QED  BY <2>2, <3>1, <3>2 DEF Joined
  <2> QED  BY <2>1, <2>2
<1>5. History'
  BY <1>1, <1>2, <1>3, <1>4 DEF History
<1>6. torn' \in BOOLEAN
  BY <1>1
<1>7. Len(buf') = 0 /\ Len(buf') <= ProbeSize /\ Len(buf') <= BufSize /\ Len(buf') < BufSize
  BY <1>1, <1>2, Sizes
<1>8. ReceptionTypeOK'
  BY <1>1, <1>2, <1>3, <1>6, <1>7 DEF ReceptionTypeOK, ReceptionOutcomes
<1>9. SubSeq(buf', consumed' + 1, Len(buf')) = <<>>
  BY <1>1, <1>7, SubSeqEmpty
<1>10. ReceptionSound'
  BY <1>1, <1>7, <1>8, <1>9 DEF ReceptionSound
<1> QED  BY <1>1, <1>2, <1>5, <1>10 DEF ReceptionInv

\* A call begins.
LEMMA SendRequestKeeps ==
  ASSUME ReceptionInv, SendRequest  PROVE ReceptionInv'
<1>1. /\ UNCHANGED <<wire, delivered, connSerial>> /\ outcome' = "none"
      /\ NewBuffer(IF connSerial THEN "receive" ELSE "probe")
  BY DEF SendRequest
<1>2. OnWire(wire')
  BY <1>1 DEF ReceptionInv, History
<1>3. delivered' \in 0 .. MaxFrames /\ connSerial' \in BOOLEAN /\ outcome' \in ReceptionOutcomes
  BY <1>1 DEF ReceptionInv, ReceptionSound, ReceptionTypeOK, ReceptionOutcomes
<1>4. PICK where \in {"probe", "receive"} : NewBuffer(where)
  BY <1>1
<1> QED  BY <1>2, <1>3, <1>4, NewBufferKeeps

\* A call ends with no other frame unwrapped.
LEMMA EndKeeps ==
  ASSUME ReceptionInv, NEW how \in ReceptionOutcomes, EndCall(how), mode # "idle",
         UNCHANGED <<wire, delivered, connSerial, readHistory>>
  PROVE  ReceptionInv'
<1>1. /\ mode' = "idle" /\ outcome' = how /\ buf' = <<>> /\ consumed' = 0 /\ emptyFrames' = 0
      /\ UNCHANGED <<wire, delivered, connSerial, torn, partial, whole, judged>>
  BY DEF EndCall, readHistory
<1>2. ReceptionTypeOK /\ History /\ ReceptionSound
  BY DEF ReceptionInv, ReceptionSound
<1>3. <<>> \in Seq(Nat) /\ Len(<<>>) = 0 /\ whole \in Seq(Seq(Nat))
  BY <1>2, EmptySeq DEF History
<1>4. ReceptionTypeOK'
  BY <1>1, <1>2, <1>3, Sizes DEF ReceptionTypeOK, ReceptionOutcomes
<1>5. ASSUME ~ torn  PROVE IsPrefix(judged, whole)
  <2>1. CASE mode = "probe"
    BY <1>3, <2>1, PrefixNone DEF ReceptionInv
  <2>2. CASE mode = "receive"
    BY <1>2, <1>3, <1>5, <2>2, PrefixSelf DEF ReceptionSound
  <2> QED  BY <1>2, <2>1, <2>2 DEF ReceptionTypeOK
<1>6. ReceptionSound'
  BY <1>1, <1>4, <1>5 DEF ReceptionSound
<1>7. History'
  BY <1>1, <1>2 DEF History
<1> QED  BY <1>1, <1>3, <1>6, <1>7 DEF ReceptionInv

\* What a read adds to a buffer with room for it.
LEMMA ReadAdds ==
  ASSUME ReceptionInv, NEW size \in Nat, Len(buf) <= size, NEW n \in Reads(size)
  PROVE  /\ n \in Nat /\ Sound(Taken(n), n)
         /\ buf \o Taken(n).read \in Seq(Nat) /\ Len(buf \o Taken(n).read) <= size
<1>1. History /\ buf \in Seq(Nat) /\ wire \in Seq(Seq(Nat)) /\ Len(buf) \in Nat
  <2>1. History /\ buf \in Seq(Nat) /\ wire \in Seq(Seq(Nat))
    BY DEF ReceptionInv, ReceptionSound, ReceptionTypeOK
  <2> QED  BY <2>1, LenProperties
<1>2. n \in Nat /\ Len(buf) + n <= size
  BY <1>1, ReadFits
<1>3. Sound(Taken(n), n)
  BY <1>1, <1>2, TakenIsSound
<1>4. PICK r \in Seq(Nat) : r = Taken(n).read /\ Len(r) <= n
  BY <1>3 DEF Sound
<1>5. buf \o r \in Seq(Nat) /\ Len(buf \o r) = Len(buf) + Len(r) /\ Len(r) \in Nat
  BY <1>1, ConcatProperties, LenProperties
<1>6. Len(buf \o r) <= size
  BY <1>1, <1>2, <1>4, <1>5
<1> QED  BY <1>2, <1>3, <1>4, <1>5, <1>6

\* A read of the probe.
LEMMA ProbeSerialKeeps ==
  ASSUME ReceptionInv, NEW n, ProbeSerial(n)  PROVE ReceptionInv'
<1>1. ReceptionTypeOK /\ History /\ buf \in Seq(Nat)
  BY DEF ReceptionInv, ReceptionSound
<1>2. /\ mode = "probe" /\ n \in Reads(ProbeSize) /\ wire' = Taken(n).wire
      /\ UNCHANGED <<delivered, outcome>>
  BY DEF ProbeSerial
<1>3. ProbeSize \in Nat /\ Len(buf) <= ProbeSize
  BY <1>1, <1>2, Sizes DEF ReceptionTypeOK
<1>4. PICK s : s = Taken(n)
  OBVIOUS
<1>5. PICK new \in Seq(Nat) : new = buf \o s.read /\ Len(new) <= ProbeSize
  BY <1>2, <1>3, <1>4, ReadAdds
<1>6. Sound(s, n) /\ wire' = s.wire
  BY <1>2, <1>3, <1>4, ReadAdds
<1>7. OnWire(wire') /\ delivered' \in 0 .. MaxFrames /\ outcome' \in ReceptionOutcomes
  BY <1>1, <1>2, <1>6 DEF Sound, ReceptionTypeOK, ReceptionOutcomes
<1>8. CASE ExtractAllFrames(new) = <<>>
  <2>1. /\ buf' = new /\ partial' = s.partial /\ whole' = s.whole
        /\ UNCHANGED <<connSerial, mode, consumed, emptyFrames, torn, judged>>
    BY <1>4, <1>5, <1>8 DEF ProbeSerial
  <2>2. History'
    BY <1>6, <2>1 DEF History, Sound
  <2>3. consumed' \in 0 .. Len(buf')
    <3>1. Len(buf) \in Nat /\ Len(s.read) \in Nat /\ Len(buf \o s.read) = Len(buf) + Len(s.read)
      BY <1>1, <1>6, LenProperties, ConcatProperties DEF Sound
    <3>2. consumed \in 0 .. Len(buf)
      BY <1>1 DEF ReceptionTypeOK
    <3> QED  BY <1>5, <2>1, <3>1, <3>2
  <2>4. ReceptionTypeOK'
    <3>1. wire' \in Seq(Seq(Nat)) /\ partial' \in Seq(Nat) /\ whole' \in Seq(Seq(Nat))
      BY <1>7, <2>2 DEF History, OnWire
    <3>2. mode' = "probe" /\ Len(buf') <= ProbeSize
      BY <1>2, <1>5, <2>1
    <3> QED  BY <1>1, <1>2, <2>1, <2>3, <3>1, <3>2 DEF ReceptionTypeOK
  <2>5. ReceptionSound'
    BY <1>2, <2>1, <2>4 DEF ReceptionSound
  <2>6. judged' = <<>>
    BY <1>2, <2>1 DEF ReceptionInv
  <2> QED  BY <2>1, <2>2, <2>5, <2>6 DEF ReceptionInv
<1>9. CASE ExtractAllFrames(new) # <<>>
  <2>1. connSerial' = TRUE /\ NewBuffer("receive")
    BY <1>4, <1>5, <1>9 DEF ProbeSerial
  <2> QED  BY <1>7, <2>1, NewBufferKeeps
<1> QED  BY <1>8, <1>9

\* The frames that end in new are what has been read whole, and the rest is short.
Cleaned(s, new, fs) ==
  /\ s.whole = whole \o fs
  /\ SubSeq(new, consumed + Advance(fs) + 1, Len(new)) = s.partial
  /\ Len(new) - (consumed + Advance(fs)) < BufSize - BufSize \div 2

\* What a clean buffer and a read make: the frames that end in it, and the rest.
LEMMA CleanRead ==
  ASSUME ReceptionInv, ~ torn, mode = "receive", NEW s, NEW n \in Nat, Sound(s, n),
         NEW new \in Seq(Nat), new = buf \o s.read
  PROVE  Cleaned(s, new, ExtractAllFrames(SubSeq(new, consumed + 1, Len(new))))
<1> DEFINE data == SubSeq(new, consumed + 1, Len(new))
           fs   == ExtractAllFrames(data)
<1> HIDE DEF data, fs
<1>1. /\ buf \in Seq(Nat) /\ History /\ consumed \in 0 .. Len(buf)
      /\ SubSeq(buf, consumed + 1, Len(buf)) = partial
  BY DEF ReceptionInv, ReceptionSound, ReceptionTypeOK
<1>2. PICK r \in Seq(Nat), p \in Seq(Nat) : r = s.read /\ p = s.partial /\ Joined(p, s.wire)
  BY DEF Sound
<1>3. PICK g \in Seq(Seq(Nat)) : s.whole = whole \o g /\ Known(partial \o r, g, p)
  BY <1>2 DEF Sound, Parsed
<1>4. data = partial \o r
  BY <1>1, <1>2, RestThen DEF data
<1>5. Begun(p)
  BY <1>2, JoinedIsBegun DEF Sound
<1>6. /\ fs = g /\ Len(data) = Advance(fs) + Len(p) /\ Advance(fs) \in Nat
      /\ \A k \in 1 .. Len(p) : p[k] = data[Advance(fs) + k]
  <2>1. /\ ExtractAllFrames(partial \o r) = g
        /\ Len(partial \o r) = Advance(g) + Len(p) /\ Advance(g) \in Nat
        /\ \A k \in 1 .. Len(p) : p[k] = (partial \o r)[Advance(g) + k]
    BY <1>3, <1>5, KnownEnd
  <2> QED  BY <1>4, <2>1 DEF fs
<1>7. consumed \in 0 .. Len(new)
  <2>1. Len(buf) \in Nat /\ Len(r) \in Nat /\ Len(buf \o r) = Len(buf) + Len(r)
    BY <1>1, LenProperties, ConcatProperties
  <2> QED  BY <1>1, <1>2, <2>1
<1>8. Len(new) = consumed + Len(data) /\ \A k \in 1 .. Len(data) : data[k] = new[consumed + k]
  BY <1>7, RestHas DEF data
<1>9. PICK a \in Nat : a = Advance(fs)
  BY <1>6
<1>10. PICK c \in Nat : c = consumed
  BY <1>7
<1>11. PICK l \in Nat : l = Len(p)
  BY LenProperties
<1>12. Len(data) = a + l /\ Len(new) = (c + a) + l
  <2>1. Len(data) = a + l
    BY <1>6, <1>9, <1>11
  <2>2. Len(new) = c + Len(data)
    BY <1>8, <1>10
  <2>3. c + (a + l) = (c + a) + l
    OBVIOUS
  <2> QED  BY <2>1, <2>2, <2>3, Zenon
<1>13. ASSUME NEW k \in 1 .. l  PROVE p[k] = new[(c + a) + k]
  <2>1. a + k \in 1 .. (a + l) /\ c + (a + k) = (c + a) + k
    OBVIOUS
  <2>2. a + k \in 1 .. Len(data)
    BY <1>12, <2>1
  <2>3. p[k] = data[a + k]
    BY <1>6, <1>9, <1>11
  <2>4. data[a + k] = new[c + (a + k)]
    BY <1>8, <1>10, <2>2
  <2> QED  BY <2>1, <2>3, <2>4
<1>14. PICK b \in Nat : b = c + a
  OBVIOUS
<1>15. SubSeq(new, b + 1, Len(new)) = p
  <2>1. Len(new) = b + Len(p) /\ \A k \in 1 .. Len(p) : p[k] = new[b + k]
    BY <1>11, <1>12, <1>13, <1>14
  <2> QED  BY <2>1, RestIs
<1>16. l < BufSize - BufSize \div 2
  BY <1>5, <1>11, BegunIsShort
<1>17. Len(new) - b = l
  BY <1>12, <1>14
<1>18. Cleaned(s, new, fs)
  BY <1>2, <1>3, <1>6, <1>9, <1>10, <1>14, <1>15, <1>16, <1>17 DEF Cleaned
<1> QED  BY <1>18 DEF data, fs

\* A turn of the loop.
LEMMA ReceiveFramesKeeps ==
  ASSUME ReceptionInv, NEW n, ReceiveFrames(n)  PROVE ReceptionInv'
<1>1. ReceptionTypeOK /\ History /\ buf \in Seq(Nat) /\ ReceptionSound
  BY DEF ReceptionInv, ReceptionSound
<1>2. /\ mode = "receive" /\ n \in Reads(BufSize)
      /\ UNCHANGED <<delivered, connSerial, torn>>
  BY DEF ReceiveFrames
<1>3. BufSize \in Nat /\ Len(buf) <= BufSize
  BY <1>1, <1>2, Sizes DEF ReceptionTypeOK
<1>4. PICK s : s = Taken(n)
  OBVIOUS
<1>5. PICK new \in Seq(Nat) : new = buf \o s.read /\ Len(new) <= BufSize
  BY <1>2, <1>3, <1>4, ReadAdds
<1>6. n \in Nat /\ Sound(s, n) /\ wire' = s.wire /\ partial' = s.partial /\ whole' = s.whole
  BY <1>2, <1>3, <1>4, ReadAdds DEF ReceiveFrames
<1>7. consumed \in 0 .. Len(new) /\ consumed \in Nat /\ Len(new) \in Nat
  <2>1. Len(buf) \in Nat /\ Len(s.read) \in Nat /\ Len(buf \o s.read) = Len(buf) + Len(s.read)
    BY <1>1, <1>6, LenProperties, ConcatProperties DEF Sound
  <2>2. consumed \in 0 .. Len(buf)
    BY <1>1 DEF ReceptionTypeOK
  <2> QED  BY <1>5, <2>1, <2>2
<1>8. PICK data \in Seq(Nat) : data = SubSeq(new, consumed + 1, Len(new))
                               /\ Len(new) = consumed + Len(data)
  BY <1>7, RestHas
<1>9. PICK fs \in Seq(Seq(Nat)) : fs = ExtractAllFrames(data) /\ Advance(fs) <= Len(data)
  BY ExtractType DEF Sized
<1>10. PICK ending : ending = {k \in DOMAIN fs : Ends(SubSeq(fs, 1, k))}
  OBVIOUS
<1>11. DOMAIN fs = 1 .. Len(fs) /\ Len(fs) \in Nat
  BY LenProperties
<1>12. ASSUME ~ torn
       PROVE  /\ judged = whole /\ whole' = whole \o fs
              /\ SubSeq(new, consumed + Advance(fs) + 1, Len(new)) = partial'
              /\ Len(new) - (consumed + Advance(fs)) < BufSize - BufSize \div 2
  <2>1. judged = whole
    BY <1>1, <1>2, <1>12 DEF ReceptionSound
  <2>2. Cleaned(s, new, ExtractAllFrames(SubSeq(new, consumed + 1, Len(new))))
    BY <1>2, <1>5, <1>6, <1>12, CleanRead
  <2>3. Cleaned(s, new, fs)
    BY <1>8, <1>9, <2>2, Zenon
  <2> QED  BY <1>6, <2>1, <2>3 DEF Cleaned
<1>13. History'
  BY <1>2, <1>6 DEF History, Sound
<1>14. /\ wire' \in Seq(Seq(Nat)) /\ partial' \in Seq(Nat) /\ whole' \in Seq(Seq(Nat))
       /\ delivered' \in 0 .. MaxFrames /\ connSerial' \in BOOLEAN /\ torn' \in BOOLEAN
  BY <1>1, <1>2, <1>13 DEF History, OnWire, ReceptionTypeOK
<1>15. judged \in Seq(Seq(Nat)) /\ whole \in Seq(Seq(Nat)) /\ emptyFrames \in 0 .. 1
       /\ outcome \in ReceptionOutcomes
  BY <1>1 DEF ReceptionTypeOK, ReceptionOutcomes
<1>16. CASE ending # {}
  <2>1. PICK final \in ending : final = Min(ending)
    <3>1. ending \subseteq Nat
      BY <1>10, <1>11
    <3>2. \E i \in ending : \A j \in ending : i <= j
      BY <1>16, <3>1, LeastNatural
    <3> QED  BY <3>2 DEF Min
  <2>2. PICK how \in ReceptionOutcomes : EndCall(how)
    <3>1. EndCall(IF fs[final] = Mine THEN "reply" ELSE "noDevice")
      BY <1>4, <1>5, <1>8, <1>9, <1>10, <1>16, <2>1 DEF ReceiveFrames
    <3> QED  BY <3>1 DEF ReceptionOutcomes
  <2>3. judged' = judged \o SubSeq(fs, 1, final)
    BY <1>4, <1>5, <1>8, <1>9, <1>10, <1>16, <2>1 DEF ReceiveFrames
  <2>4. final \in 0 .. Len(fs)
    BY <1>10, <1>11
  <2>5. judged' \in Seq(Seq(Nat))
    BY <1>15, <2>3, <2>4, PrefixOfMore
  <2>6. mode' = "idle" /\ outcome' = how /\ buf' = <<>> /\ consumed' = 0 /\ emptyFrames' = 0
    BY <2>2 DEF EndCall
  <2>7. <<>> \in Seq(Nat) /\ Len(<<>>) = 0
    BY EmptySeq
  <2>8. ReceptionTypeOK'
    <3>1. Len(buf') = 0 /\ Len(buf') <= BufSize
      BY <1>3, <2>6, <2>7
    <3> QED  BY <1>14, <2>5, <2>6, <3>1 DEF ReceptionTypeOK, ReceptionOutcomes
  <2>9. ~ torn' => IsPrefix(judged', whole')
    BY <1>2, <1>12, <1>15, <2>3, <2>4, PrefixOfMore
  <2>10. ReceptionSound'
    BY <2>6, <2>8, <2>9 DEF ReceptionSound
  <2> QED  BY <1>13, <2>6, <2>7, <2>10 DEF ReceptionInv
<1>17. CASE ending = {}
  <2>1. PICK c \in Nat : c = consumed + Advance(fs) /\ c \in 0 .. Len(new)
    <3>1. Advance(fs) \in Nat
      BY AdvanceType
    <3>2. consumed + Advance(fs) \in Nat /\ consumed + Advance(fs) <= Len(new)
      BY <1>7, <1>8, <1>9, <3>1
    <3> QED  BY <1>7, <3>2
  <2>2. PICK packed : packed = CompactFrameBuffer(new, c)
    OBVIOUS
  <2>3. /\ buf' = packed.buf /\ consumed' = packed.consumed
        /\ judged' = judged \o fs /\ emptyFrames' = emptyFrames + Empties(fs)
        /\ UNCHANGED <<mode, outcome>>
    BY <1>4, <1>5, <1>8, <1>9, <1>10, <1>17, <2>1, <2>2 DEF ReceiveFrames
  <2>4. /\ buf' \in Seq(Nat) /\ Len(buf') <= Len(new) /\ consumed' \in 0 .. Len(buf')
        /\ SubSeq(buf', consumed' + 1, Len(buf')) = SubSeq(new, c + 1, Len(new))
        /\ Len(new) - c < BufSize - BufSize \div 2 => Len(buf') < BufSize
    BY <2>1, <2>2, <2>3, Compacted
  <2>5. emptyFrames' \in 0 .. 1
    <3>1. \A k \in 1 .. Len(fs) : ~ Ends(SubSeq(fs, 1, k))
      BY <1>10, <1>11, <1>17
    <3> QED  BY <1>15, <2>3, <3>1, FewEmpties
  <2>6. judged' \in Seq(Seq(Nat))
    BY <1>15, <2>3, ConcatProperties
  <2>7. ReceptionTypeOK'
    <3>1. Len(buf') <= BufSize
      <4>1. Len(buf') \in Nat
        BY <2>4, LenProperties
      <4> QED  BY <1>3, <1>5, <1>7, <2>4, <4>1, SMTT(30)
    <3>2. mode' = "receive" /\ outcome' \in ReceptionOutcomes
      BY <1>2, <1>15, <2>3
    <3> QED  BY <1>14, <2>4, <2>5, <2>6, <3>1, <3>2 DEF ReceptionTypeOK, ReceptionOutcomes
  <2>8. ASSUME ~ torn'
        PROVE  judged' = whole' /\ SubSeq(buf', consumed' + 1, Len(buf')) = partial'
               /\ Len(buf') < BufSize
    BY <1>2, <1>12, <2>1, <2>3, <2>4, <2>8
  <2>9. ReceptionSound'
    BY <1>2, <2>3, <2>7, <2>8 DEF ReceptionSound
  <2> QED  BY <1>2, <1>13, <2>3, <2>4, <2>9 DEF ReceptionInv
<1> QED  BY <1>16, <1>17

\* However the frames are cut into reads, a call whose first byte begins a frame
\* unwraps each of them once and in order, and its buffer never fills: for any
\* payloads, and any sizes of which half a buffer has room for a frame
\* (client.go:289-341, 343-350, 485-507).
THEOREM ReceptionSoundHolds == ReceptionSpec => []ReceptionSound
<1>1. ReceptionInit => ReceptionInv
  BY ReceptionStart
<1>2. ReceptionInv /\ [ReceptionNext]_receiveVars => ReceptionInv'
  <2>1. SUFFICES ASSUME ReceptionInv, [ReceptionNext]_receiveVars  PROVE ReceptionInv'
    OBVIOUS
  <2>2. ASSUME NEW f \in WireFrames, Deliver(f)  PROVE ReceptionInv'
    BY <2>1, <2>2, DeliverKeeps
  <2>3. CASE SendRequest
    BY <2>1, <2>3, SendRequestKeeps
  <2>4. ASSUME NEW n \in 0 .. BufSize, ProbeSerial(n)  PROVE ReceptionInv'
    BY <2>1, <2>4, ProbeSerialKeeps
  <2>5. ASSUME NEW n \in 0 .. BufSize, ReceiveFrames(n)  PROVE ReceptionInv'
    BY <2>1, <2>5, ReceiveFramesKeeps
  <2>6. CASE ReadTimesOut
    <3>1. PICK how \in ReceptionOutcomes : EndCall(how)
      BY <2>6 DEF ReadTimesOut, ReceptionOutcomes
    <3>2. mode # "idle" /\ UNCHANGED <<wire, delivered, connSerial, readHistory>>
      BY <2>6 DEF ReadTimesOut
    <3> QED  BY <2>1, <3>1, <3>2, EndKeeps
  <2>7. CASE DeadlinePasses
    <3>1. PICK how \in ReceptionOutcomes : EndCall(how)
      BY <2>7 DEF DeadlinePasses, ReceptionOutcomes
    <3>2. mode # "idle" /\ UNCHANGED <<wire, delivered, connSerial, readHistory>>
      BY <2>7 DEF DeadlinePasses
    <3> QED  BY <2>1, <3>1, <3>2, EndKeeps
  <2>8. CASE UNCHANGED receiveVars
    <3>1. UNCHANGED <<wire, delivered, connSerial, mode, buf, consumed, emptyFrames, outcome,
                      torn, partial, whole, judged>>
      BY <2>8 DEF receiveVars, readHistory
    <3>2. History'
      BY <2>1, <3>1 DEF ReceptionInv, History
    <3>3. ReceptionSound'
      BY <2>1, <3>1 DEF ReceptionInv, ReceptionSound, ReceptionTypeOK
    <3> QED  BY <2>1, <3>1, <3>2, <3>3 DEF ReceptionInv
  <2> QED  BY <2>1, <2>2, <2>3, <2>4, <2>5, <2>6, <2>7, <2>8 DEF ReceptionNext
<1>3. ReceptionInv => ReceptionSound
  BY DEF ReceptionInv
<1> QED  BY <1>1, <1>2, <1>3, PTL DEF ReceptionSpec
=============================================================================
