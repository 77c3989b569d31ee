---------------------------- MODULE RegisterLink ----------------------------
(***************************************************************************)
(* One inverter behind a Solarman dongle: reads, writes and verified       *)
(* writes of registers (inverter/charge_settings.go,                       *)
(* WriteUnitRegisterVerified; inverter/system.go,                          *)
(* WriteRegisterMasterVerified), each a loop over the retries of           *)
(* modbus.Session, each of those a request of solarman.Client that         *)
(* reconnects once.  The hub's run loop makes the calls one at a time; the *)
(* look-ups that describe a verified write that failed are reads after it. *)
(*                                                                         *)
(* The dongle is external.  It acknowledges a request at once, passes it   *)
(* on to the inverter in the order of arrival and sends what the inverter  *)
(* says, or a second frame without data when it says nothing.  A request   *)
(* with serial 0 is acknowledged and not passed on                         *)
(* (docs/solarman_v5_protocol.md:40).  A request outlives the connection   *)
(* it came by; its reply does not.  A reply comes before the client gives  *)
(* its request up, or never: the dongle waits 5 seconds for the inverter   *)
(* and the client 10 for the dongle.                                       *)
(***************************************************************************)
EXTENDS Naturals, Sequences

CONSTANTS
  Addrs,
  Values,
  MaxTries,          \* tries of Session.retryOpts, 4 in the code
  VerifyAttempts,    \* verifiedWriteAttempts and masterVerifyAttempts, 3 in the code
  Sites,             \* sites the client may be started at
  MaxFaults          \* bound on what goes wrong on the link

\* Function codes of requests.
Codes == {"read", "write", "other"}

ASSUME LinkAssumption ==
  /\ MaxTries \in Nat \ {0} /\ VerifyAttempts \in Nat \ {0} /\ MaxFaults \in Nat
  /\ Sites \subseteq [configured : BOOLEAN, foreign : SUBSET Codes]
  /\ Values # {} /\ Addrs # {}

VARIABLES
  site,      \* configured: Client.serial # 0, the dongle's serial is in the configuration;
             \* foreign: function codes of other services' frames, which come by it too
  regs,      \* the inverter's registers
  call,      \* the call in progress, or Idle
  part,      \* the request it is at, "read" or "write"
  attempt,   \* of the verified write
  try,       \* of the session
  again,     \* whether sendRequest has its one reconnection left
  pc,        \* where sendRequest is: at its start, or awaiting a frame
  conn,      \* Client.conn: none is nil; a dead one is not
  serial,    \* Client.connSerial # 0
  line,      \* requests at the dongle, live when their connection is the current one
  stream,    \* frames the client has not read
  empties,   \* emptyFrames of sendAndReceive
  last,      \* history: how the last call ended
  heard,     \* history: the last reply taken, and the request it was taken for
  faults

control == <<call, part, attempt, try, again, pc>>
vars    == <<site, regs, control, conn, serial, line, stream, empties, last, heard, faults>>

Idle  == [kind |-> "idle"]
Calls == [kind : {"read"}, addr : Addrs] \cup
         [kind : {"write", "verified"}, addr : Addrs, val : Values]

Requests == [func : {"read"}, addr : Addrs] \cup
            [func : {"write"}, addr : Addrs, val : Values]
Request  == IF part = "read" THEN [func |-> part, addr |-> call.addr]
                             ELSE [func |-> part, addr |-> call.addr, val |-> call.val]

\* What other services that share the dongle ask of the inverter, or of another device.
Theirs == [func : UNION {s.foreign : s \in Sites}]

Empty      == [kind |-> "empty"]
Reply(r, v) == [kind |-> "reply", to |-> r, val |-> v]
Refusal(r) == [kind |-> "refusal", to |-> r]
Frames == {Empty} \cup [kind : {"reply"}, to : Requests \cup Theirs, val : Values]
                  \cup [kind : {"refusal"}, to : Requests]

Nothing == [kind |-> "nothing"]

TypeOK ==
  /\ site \in Sites
  /\ regs \in [Addrs -> Values]
  /\ call \in Calls \cup {Idle}
  /\ part \in {"read", "write"}
  /\ attempt \in 1 .. VerifyAttempts /\ try \in 1 .. MaxTries
  /\ again \in BOOLEAN
  /\ pc \in {"idle", "enter", "probe", "await"}
  /\ pc = "idle" <=> call = Idle
  /\ conn \in {"none", "up", "dead"} /\ serial \in BOOLEAN
  /\ pc \in {"probe", "await"} => conn # "none"
  /\ pc = "await" => serial
  /\ line \in Seq([req : Requests, live : BOOLEAN])
  /\ stream \in Seq(Frames)
  /\ empties \in 0 .. 1
  /\ last \in {Nothing} \cup [call : Calls, ok : {FALSE}] \cup [call : Calls, ok : {TRUE}, val : Values]
  /\ heard \in {Nothing} \cup [asked : Requests, answered : Requests \cup Theirs]
  /\ faults \in 0 .. MaxFaults

\* System.Connect has connected every unit and read from it before the first call.
Init ==
  /\ site \in Sites
  /\ regs \in [Addrs -> Values]
  /\ call = Idle /\ part = "read" /\ attempt = 1 /\ try = 1 /\ again = TRUE /\ pc = "idle"
  /\ conn = "up" /\ serial = TRUE
  /\ line = <<>> /\ stream = <<>> /\ empties = 0
  /\ last = Nothing /\ heard = Nothing
  /\ faults = 0

Fault == faults < MaxFaults /\ faults' = faults + 1

-----------------------------------------------------------------------------
(***************************************************************************)
(* How a request ends, for the loops around it.                            *)
(***************************************************************************)

StartTry(n) == try' = n /\ again' = TRUE /\ pc' = "enter"

Return(result) ==
  /\ last' = result
  /\ call' = Idle /\ pc' = "idle" /\ part' = "read"
  /\ attempt' = 1 /\ try' = 1 /\ again' = TRUE

Succeeded(v) == Return([call |-> call, ok |-> TRUE, val |-> v])

\* A verified write is attempted again, unless its context ends meanwhile.
Failed ==
  \/ Return([call |-> call, ok |-> FALSE])
  \/ /\ call.kind = "verified" /\ attempt < VerifyAttempts
     /\ attempt' = attempt + 1 /\ part' = "write" /\ StartTry(1)
     /\ UNCHANGED <<call, last>>

\* Only a timeout is tried again by the session, and not when the context ends.
TimedOut ==
  \/ Failed
  \/ try < MaxTries /\ StartTry(try + 1) /\ UNCHANGED <<call, part, attempt, last>>

\* Mutant: the value that is read back is not compared.
AnsweredUncompared(v) ==
  \/ /\ call.kind = "verified" /\ part = "write"
     /\ part' = "read" /\ StartTry(1)
     /\ UNCHANGED <<call, attempt, last>>
  \/ /\ call.kind # "verified" \/ part = "read"
     /\ Succeeded(v)

\* A reply without an exception, of value v.
Answered(v) ==
  \/ /\ call.kind = "verified" /\ part = "write"
     /\ part' = "read" /\ StartTry(1)
     /\ UNCHANGED <<call, attempt, last>>
  \/ /\ call.kind = "verified" => part = "read" /\ v = call.val
     /\ Succeeded(v)
  \/ /\ call.kind = "verified" /\ part = "read" /\ v # call.val
     /\ Failed

-----------------------------------------------------------------------------
(***************************************************************************)
(* The client.                                                             *)
(***************************************************************************)

Begin(c) ==
  /\ pc = "idle"
  /\ call' = c /\ part' = IF c.kind = "read" THEN "read" ELSE "write"
  /\ pc' = "enter"
  /\ UNCHANGED <<site, regs, attempt, try, again, conn, serial, line, stream, empties, last, heard, faults>>

\* reconnect: whatever was under way on the old connection stays there.
Dial(c) ==
  /\ conn' = c /\ serial' = site.configured
  /\ stream' = <<>>
  /\ line' = [i \in DOMAIN line |-> [line[i] EXCEPT !.live = FALSE]]

\* A client without a connection makes one first.
Connect ==
  /\ pc = "enter" /\ conn = "none"
  /\ \/ Dial("up") /\ UNCHANGED <<control, last, faults>>
     \/ Dial("none") /\ Fault /\ Failed
  /\ UNCHANGED <<site, regs, empties, heard>>

\* probeSerial, with serial 0 in its frame.
Probe ==
  /\ pc = "enter" /\ conn = "up" /\ ~serial
  /\ stream' = Append(stream, Empty)
  /\ pc' = "probe"
  /\ UNCHANGED <<site, regs, call, part, attempt, try, again, conn, serial, line, empties, last, heard, faults>>

\* Its failure is returned as it is: only sendAndReceive is followed by a look at
\* whether the connection is broken.
ProbeFails ==
  /\ ~serial /\ conn = "dead" /\ pc \in {"enter", "probe"}
  /\ Failed
  /\ UNCHANGED <<site, regs, conn, serial, line, stream, empties, heard, faults>>

Send ==
  /\ pc = "enter" /\ conn = "up" /\ serial
  /\ line' = Append(line, [req |-> Request, live |-> TRUE])
  /\ stream' = Append(stream, Empty)
  /\ empties' = 0 /\ pc' = "await"
  /\ UNCHANGED <<site, regs, call, part, attempt, try, again, conn, serial, last, heard, faults>>

Broken == conn = "dead" /\ (pc = "await" \/ (pc = "enter" /\ serial))

\* Mutant: a broken connection is reported and kept.
ConnErrorKept ==
  /\ Broken
  /\ Failed
  /\ UNCHANGED <<site, regs, conn, serial, line, stream, empties, heard, faults>>

ConnError ==
  /\ Broken
  /\ \/ /\ again
        /\ \/ /\ Dial("up")
              /\ again' = FALSE /\ pc' = "enter"
              /\ UNCHANGED <<call, part, attempt, try, last, faults>>
           \/ Dial("none") /\ Fault /\ Failed
     \/ /\ ~again
        /\ Failed
        /\ UNCHANGED <<conn, serial, line, stream, faults>>
  /\ UNCHANGED <<site, regs, empties, heard>>

\* The read deadline.  A dongle that is never late has answered by then or never
\* will: its own timeout is 5 seconds, the client's 10.
Timeout ==
  /\ pc \in {"probe", "await"} /\ conn = "up"
  /\ stream = <<>> /\ \A i \in DOMAIN line : ~line[i].live
  /\ TimedOut
  /\ UNCHANGED <<site, regs, conn, serial, line, stream, empties, heard, faults>>

\* The buffer a chunk of the stream was read into does not outlive the request.
Leave == \E n \in 1 .. Len(stream) : stream' = SubSeq(stream, n + 1, Len(stream))

ReceiveSerial ==
  /\ pc = "probe" /\ stream # <<>>
  /\ serial' = TRUE /\ pc' = "enter"
  /\ Leave
  /\ UNCHANGED <<site, regs, call, part, attempt, try, again, conn, line, empties, last, heard, faults>>

\* A frame whose function code is that of the request; neither the sequence
\* number nor the slave is looked at, and the reply to a read has no address.
Expected(f) == f.kind \in {"reply", "refusal"} /\ f.to.func = part

\* A request is acknowledged by one frame without data; a second one says that
\* the device did not respond.
EmptyLimit == 2

Skip ==
  /\ pc = "await" /\ stream # <<>>
  /\ ~Expected(Head(stream))
  /\ Head(stream) = Empty => empties + 1 < EmptyLimit
  /\ empties' = IF Head(stream) = Empty THEN empties + 1 ELSE empties
  /\ stream' = Tail(stream)
  /\ UNCHANGED <<site, regs, control, conn, serial, line, last, heard, faults>>

NoDevice ==
  /\ pc = "await" /\ stream # <<>> /\ Head(stream) = Empty
  /\ empties + 1 = EmptyLimit
  /\ Leave
  /\ Failed
  /\ empties' = 0
  /\ UNCHANGED <<site, regs, conn, serial, line, heard, faults>>

Receive ==
  /\ pc = "await" /\ stream # <<>> /\ Expected(Head(stream))
  /\ heard' = [asked |-> Request, answered |-> Head(stream).to]
  /\ \/ Head(stream).kind = "reply" /\ Answered(Head(stream).val)
     \/ Head(stream).kind = "refusal" /\ Failed
  /\ Leave
  /\ empties' = 0
  /\ UNCHANGED <<site, regs, conn, serial, line, faults>>

-----------------------------------------------------------------------------
(***************************************************************************)
(* The dongle and the inverter.                                            *)
(***************************************************************************)

Answers(f) ==
  /\ line # <<>>
  /\ line' = Tail(line)
  /\ stream' = IF Head(line).live /\ conn = "up" THEN stream \o f ELSE stream
  /\ UNCHANGED <<site, control, conn, serial, empties, last, heard>>

Applied(r) == IF r.func = "write" THEN [regs EXCEPT ![r.addr] = r.val] ELSE regs

Serve ==
  /\ line # <<>>
  /\ LET r == Head(line).req IN
       /\ regs' = Applied(r)
       /\ Answers(<<Reply(r, Applied(r)[r.addr])>>)
  /\ UNCHANGED faults

\* A register that is locked: refused, or acknowledged and not changed.
Refuse ==
  /\ line # <<>> /\ Fault
  /\ LET r == Head(line).req IN
       \/ Answers(<<Refusal(r)>>)
       \/ r.func = "write" /\ Answers(<<Reply(r, r.val)>>)
  /\ UNCHANGED regs

\* A request or its reply that is lost between dongle and inverter, or in the
\* dongle.
Lose ==
  /\ line # <<>> /\ Fault
  /\ regs' \in {regs, Applied(Head(line).req)}
  /\ Answers(<<Empty>>) \/ Answers(<<>>)

InterleaveReply ==
  /\ conn = "up" /\ Fault
  /\ \E r \in Theirs, v \in Values :
       r.func \in site.foreign /\ stream' = Append(stream, Reply(r, v))
  /\ UNCHANGED <<site, regs, control, conn, serial, line, empties, last, heard>>

Drop ==
  /\ conn = "up" /\ Fault
  /\ conn' = "dead"
  /\ UNCHANGED <<site, regs, control, serial, line, stream, empties, last, heard>>

-----------------------------------------------------------------------------
Client ==
  \/ \E c \in Calls : Begin(c)
  \/ Connect \/ Probe \/ ProbeFails \/ Send \/ ConnError
  \/ Timeout \/ ReceiveSerial \/ Skip \/ NoDevice \/ Receive

Next == Client \/ Serve \/ Refuse \/ Lose \/ InterleaveReply \/ Drop

Spec == Init /\ [][Next]_vars

\* The hub polls for ever; what does not fail is answered.
LiveSpec == Spec /\ WF_vars(Client) /\ WF_vars(Serve)

-----------------------------------------------------------------------------
(***************************************************************************)
(* Properties.                                                             *)
(***************************************************************************)

\* "Read frames until we get one with valid MODBUS data matching our request"
\* (client.go:280): the reply a request is given is a reply to it.  It is not when another
\* service of the dongle uses the same function codes.
ReplyMatchesRequest == heard # Nothing => heard.answered = heard.asked

\* A read that succeeds has returned what is in the register and a verified write
\* has put its value there, whatever was lost, refused, ignored or tried again on
\* the way, and whatever is still under way from calls that failed
\* (charge_settings.go:271-273, system.go:199-205).
SuccessIsTrue ==
  (call = Idle /\ last # Nothing /\ last.ok /\ last.call.kind # "write") =>
      /\ regs[last.call.addr] = last.val
      /\ last.call.kind = "verified" => last.val = last.call.val

\* When the link works again so do calls: "Auto-reconnect dropped dongle TCP
\* connections instead of staying permanently disconnected" (ha-addon/CHANGELOG.md:62).
\* A client that must probe for the serial may never come back: a probe that fails
\* on a broken connection does not reconnect (client.go:202).
Recovers == []<>(site.configured => last # Nothing /\ last.ok)

\* What a caller may rely on where the function codes tell other services' replies from
\* ours: a reply is its own, and a success is one.
LinkSound == TypeOK /\ ReplyMatchesRequest /\ SuccessIsTrue
=============================================================================
