--------------------------- MODULE FrameReception ---------------------------
(***************************************************************************)
(* How the client of the dongle finds frames in the bytes of its           *)
(* connection (interfaces/solarman/client.go, sendAndReceive, probeSerial, *)
(* extractAllFrames): a read returns some of the bytes that have come,     *)
(* whatever the frames they belong to, each call begins with a buffer of   *)
(* its own, and what the last call left in its buffer is gone.             *)
(*                                                                         *)
(* A frame is a marker, the length of its payload, the payload and a       *)
(* marker: the other fields of its header and its checksum are left out,   *)
(* and bytes that only look like a frame fail the checksum.                *)
(***************************************************************************)
EXTENDS Naturals, FiniteSetsExt, SequencesExt

CONSTANTS
  ForeignPayloads,   \* payloads for other services that share the dongle
  BufSize,           \* of sendAndReceive
  ProbeSize,         \* of probeSerial
  MaxFrames          \* bound on the frames that come

startMarker == 9
endMarker   == 8
Header      == 2     \* bytes before the payload
Overhead    == Header + 1

V5Frame(payload) == <<startMarker, Len(payload)>> \o payload \o <<endMarker>>

Ack  == V5Frame(<<>>)          \* no room for a MODBUS frame: errNoInnerData
Mine == V5Frame(<<1, 1>>)      \* of the function asked for
WireFrames == {Ack, Mine} \cup {V5Frame(p) : p \in ForeignPayloads}

\* A frame with a reply has at most 283 bytes, and the buffer 4096.
ASSUME ReceptionAssumption ==
  /\ {BufSize, ProbeSize, MaxFrames} \subseteq Nat /\ ForeignPayloads \subseteq Seq(Nat)
  /\ \A f \in WireFrames : Len(f) <= BufSize - BufSize \div 2

VARIABLES
  wire,              \* the bytes that have come and are not read, frame by frame
  delivered,
  connSerial,        \* whether it is known
  mode,              \* idle, probe or receive
  buf, consumed,     \* buf[:total]
  emptyFrames,
  outcome,           \* of the last call
  torn,              \* history: the buffer began within a frame
  partial,           \* history: what has been read of the first frame since then
  whole,             \* history: what has been read to its end since then
  judged             \* history: the frames unwrapped since then

readHistory == <<torn, partial, whole, judged>>
receiveVars == <<wire, delivered, connSerial, mode, buf, consumed, emptyFrames, outcome, readHistory>>

ReceptionTypeOK ==
  /\ wire \in Seq(Seq(Nat)) /\ delivered \in 0 .. MaxFrames /\ connSerial \in BOOLEAN
  /\ mode \in {"idle", "probe", "receive"}
  /\ Len(buf) <= (IF mode = "probe" THEN ProbeSize ELSE BufSize) /\ consumed \in 0 .. Len(buf)
  /\ emptyFrames \in 0 .. 1
  /\ outcome \in {"none", "reply", "noDevice", "noResponse", "readError"}
  /\ torn \in BOOLEAN /\ partial \in Seq(Nat) /\ {whole, judged} \subseteq Seq(Seq(Nat))

ReceptionInit ==
  /\ wire = <<>> /\ delivered = 0 /\ connSerial \in BOOLEAN
  /\ mode = "idle" /\ buf = <<>> /\ consumed = 0 /\ emptyFrames = 0 /\ outcome = "none"
  /\ torn = FALSE /\ partial = <<>> /\ whole = <<>> /\ judged = <<>>

-----------------------------------------------------------------------------
\* The frames in data; the bytes between them are in none.
ExtractAllFrames(data) ==
  LET n == Len(data)
      From[i \in 1 .. n + 1] ==
        IF i > n THEN <<>>
        ELSE IF data[i] # startMarker THEN From[i + 1]
        ELSE IF i = n THEN <<>>
        ELSE LET next == i + data[i + 1] + Overhead IN
             IF next > n + 1 THEN <<>>
             ELSE (IF data[next - 1] = endMarker THEN <<SubSeq(data, i, next - 1)>> ELSE <<>>)
                    \o From[next]
  IN From[1]

\* The bytes of these frames.
Advance(frames) ==
  LET bytes[k \in 0 .. Len(frames)] ==
        IF k = 0 THEN 0 ELSE bytes[k - 1] + Len(frames[k])
  IN  bytes[Len(frames)]

\* Mutant: the bytes are moved, the count is not begun again.
KeepsCount(b, c) ==
  IF c > BufSize \div 2 THEN [buf |-> SubSeq(b, c + 1, Len(b)), consumed |-> c]
  ELSE [buf |-> b, consumed |-> c]

CompactFrameBuffer(b, c) ==
  IF c > BufSize \div 2 THEN [buf |-> SubSeq(b, c + 1, Len(b)), consumed |-> 0]
  ELSE [buf |-> b, consumed |-> c]

\* One byte is read: of a frame of which it is the last one nothing is left.
OneByte(s) ==
  IF s.wire = <<>> THEN s
  ELSE LET byte    == Head(Head(s.wire))
           left    == Tail(Head(s.wire))
           sofar   == Append(s.partial, byte)
       IN  [read |-> Append(s.read, byte),
            wire |-> IF left = <<>> THEN Tail(s.wire) ELSE <<left>> \o Tail(s.wire),
            partial |-> IF left = <<>> THEN <<>> ELSE sofar,
            whole |-> IF left = <<>> THEN Append(s.whole, sofar) ELSE s.whole]

\* The first n bytes on the wire, and what becomes of it and the history.
Taken(n) ==
  LET taken[k \in 0 .. n] ==
        IF k = 0 THEN [read |-> <<>>, wire |-> wire, partial |-> partial, whole |-> whole]
        ELSE OneByte(taken[k - 1])
  IN  taken[n]

\* The sizes of a read into the rest of a buffer; with no room left it reads
\* nothing, at once.
Reads(size) ==
  LET room == size - Len(buf)
      come == Advance(wire)
  IN  IF room = 0 THEN {0} ELSE 1 .. (IF come < room THEN come ELSE room)

-----------------------------------------------------------------------------
\* From the inverter, or another service's traffic.
Deliver(f) ==
  /\ delivered < MaxFrames /\ delivered' = delivered + 1
  /\ wire' = Append(wire, f)
  /\ UNCHANGED <<connSerial, mode, buf, consumed, emptyFrames, outcome, readHistory>>

NewBuffer(where) ==
  /\ mode' = where /\ buf' = <<>> /\ consumed' = 0 /\ emptyFrames' = 0
  /\ torn' = (wire' # <<>> /\ wire'[1] \notin WireFrames)
  /\ partial' = <<>> /\ whole' = <<>> /\ judged' = <<>>

\* The request is written; without a serial a first one asks for it.
SendRequest ==
  /\ mode = "idle"
  /\ UNCHANGED <<wire, delivered, connSerial>>
  /\ NewBuffer(IF connSerial THEN "receive" ELSE "probe")
  /\ outcome' = "none"

\* Any frame has the serial: the request itself is sent, and its answer read
\* into a buffer of its own.
ProbeSerial(n) ==
  /\ mode = "probe" /\ n \in Reads(ProbeSize)
  /\ wire' = Taken(n).wire
  /\ LET new == buf \o Taken(n).read IN
     IF ExtractAllFrames(new) = <<>>
     THEN /\ buf' = new /\ partial' = Taken(n).partial /\ whole' = Taken(n).whole
          /\ UNCHANGED <<connSerial, mode, consumed, emptyFrames, torn, judged>>
     ELSE connSerial' = TRUE /\ NewBuffer("receive")
  /\ UNCHANGED <<delivered, outcome>>

Empties(frames) == Cardinality({k \in DOMAIN frames : frames[k] = Ack})

\* Whether the last of these frames ends the call.
Ends(frames) ==
  frames # <<>> /\ \/ Last(frames) = Mine
                   \/ Last(frames) = Ack /\ emptyFrames + Empties(frames) = 2

EndCall(how) == mode' = "idle" /\ outcome' = how /\ buf' = <<>> /\ consumed' = 0 /\ emptyFrames' = 0

\* One turn of the loop: the frames are unwrapped in order, up to one that ends
\* the call; another service's and an invalid one are skipped.
ReceiveFrames(n) ==
  /\ mode = "receive" /\ n \in Reads(BufSize)
  /\ wire' = Taken(n).wire /\ partial' = Taken(n).partial /\ whole' = Taken(n).whole
  /\ LET new    == buf \o Taken(n).read
         frames == ExtractAllFrames(SubSeq(new, consumed + 1, Len(new)))
         ending == {k \in DOMAIN frames : Ends(SubSeq(frames, 1, k))}
         packed == CompactFrameBuffer(new, consumed + Advance(frames))
     IN IF ending # {}
        THEN LET last == Min(ending) IN
             /\ EndCall(IF frames[last] = Mine THEN "reply" ELSE "noDevice")
             /\ judged' = judged \o SubSeq(frames, 1, last)
        ELSE /\ buf' = packed.buf /\ consumed' = packed.consumed
             /\ judged' = judged \o frames /\ emptyFrames' = emptyFrames + Empties(frames)
             /\ UNCHANGED <<mode, outcome>>
  /\ UNCHANGED <<delivered, connSerial, torn>>

\* The deadline passes in a read, which then fails if it has room, or between two.
ReadTimesOut ==
  /\ mode # "idle" /\ 0 \notin Reads(IF mode = "probe" THEN ProbeSize ELSE BufSize)
  /\ EndCall(IF mode = "receive" /\ Len(buf) > consumed THEN "noResponse" ELSE "readError")
  /\ UNCHANGED <<wire, delivered, connSerial, readHistory>>

DeadlinePasses ==
  /\ mode # "idle" /\ EndCall("noResponse")
  /\ UNCHANGED <<wire, delivered, connSerial, readHistory>>

ReceptionNext ==
  \/ \E f \in WireFrames : Deliver(f)
  \/ SendRequest
  \/ \E n \in 0 .. BufSize : ProbeSerial(n) \/ ReceiveFrames(n)
  \/ ReadTimesOut \/ DeadlinePasses

ReceptionSpec == ReceptionInit /\ [][ReceptionNext]_receiveVars

-----------------------------------------------------------------------------
(***************************************************************************)
(* Properties.                                                             *)
(***************************************************************************)

\* A call whose first byte begins a frame unwraps every frame that comes, once and in
\* order, however they are cut into reads and whatever their payloads contain; what waits
\* in the buffer is the beginning of the next one, so that the buffer never fills
\* (client.go:289-341, 343-350, 485-507).
ReceptionSound ==
  /\ ReceptionTypeOK
  /\ ~torn /\ mode = "receive" =>
       /\ judged = whole /\ SubSeq(buf, consumed + 1, Len(buf)) = partial
       /\ Len(buf) < BufSize
  /\ ~torn /\ mode = "idle" => IsPrefix(judged, whole)
=============================================================================
