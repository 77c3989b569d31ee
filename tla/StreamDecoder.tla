--------------------------- MODULE StreamDecoder ---------------------------
(***************************************************************************)
(* Frames out of the serial stream (bms/interpack/stream.go).  FeedAll     *)
(* looks for a header, waits for the rest of the frame it announces, takes *)
(* the frame if its checksum is right and else goes on one byte later.     *)
(* The serial port cuts the stream into chunks as it likes.                *)
(*                                                                         *)
(* A telemetry frame has a header of 10 bytes, the first of which is an    *)
(* address, and is 126 bytes long; a settings frame has one of 8 and is    *)
(* 144, 146 or 218 bytes long.  Here headers are 3 and 2 bytes, frames 4   *)
(* and 6, and a byte takes the values that tell frames from noise; as in   *)
(* the code a telemetry frame fits into a settings frame that is not yet   *)
(* complete.                                                               *)
(***************************************************************************)
EXTENDS Integers, SequencesExt

CONSTANTS
  MaxByte,          \* bytes are 0..MaxByte, among them the codes below
  MaxLength,        \* bound: bytes that arrive
  MaxChunk          \* bound: bytes of a chunk

Bytes == 0..MaxByte

TelemetryCode == 1  \* the header of a telemetry frame: address, 1, 0
SettingsCode  == 2  \* the header of a settings frame: address, 2

TelemetrySize == 4
SettingsSize  == 6
Kept          == 2  \* one less than the longer header; 9 in the code

ASSUME StreamAssumption ==
  /\ MaxByte \in Nat /\ MaxByte >= SettingsCode
  /\ MaxLength \in Nat /\ MaxChunk \in Nat \ {0}

VARIABLES
  buffer,           \* Decoder.buffer
  frames,           \* every frame returned so far
  stream            \* history: every byte that arrived

decoderVars == <<buffer, frames, stream>>

DecoderTypeOK ==
  /\ buffer \in Seq(Bytes) /\ stream \in Seq(Bytes)
  /\ Len(stream) <= MaxLength
  /\ \A i \in DOMAIN frames : frames[i] \in Seq(Bytes) /\ Len(frames[i]) \in {TelemetrySize, SettingsSize}

-----------------------------------------------------------------------------
TelemetryAt(s, i) == i + 2 <= Len(s) /\ s[i + 1] = TelemetryCode /\ s[i + 2] = 0
SettingsAt(s, i)  == i + 1 <= Len(s) /\ s[i + 1] = SettingsCode
HeaderAt(s, i)    == TelemetryAt(s, i) \/ SettingsAt(s, i)
SizeAt(s, i)      == IF TelemetryAt(s, i) THEN TelemetrySize ELSE SettingsSize

\* The last byte stands for the checksum and the ranges a frame's values must have.
Checks(f) == Last(f) = FoldLeft(+, 0, Front(f)) % (MaxByte + 1)

FrameAt(s, i) == SubSeq(s, i, i + SizeAt(s, i) - 1)

IsFrame(s, i) ==
  /\ HeaderAt(s, i)
  /\ i + SizeAt(s, i) - 1 <= Len(s)
  /\ Checks(FrameAt(s, i))

KeptTail(s, i) == SubSeq(s, IF Len(s) - Kept >= i THEN Len(s) - Kept + 1 ELSE i, Len(s))

\* Mutant: a frame that does not check is skipped as a whole.
AfterBadWhole(s, i) == i + SizeAt(s, i)

AfterBad(s, i) == i + 1

\* The loop of FeedAll over what is in the buffer, from position p: the frames
\* it returns and the bytes it keeps.
Drained(s) ==
  LET drain[p \in 1..(Len(s) + 1)] ==
        LET headers == {i \in p..Len(s) : HeaderAt(s, i)}
            i       == CHOOSE i \in headers : \A j \in headers : i <= j
        IN  IF headers = {}
              THEN [out |-> <<>>, rest |-> KeptTail(s, p)]
            ELSE IF i + SizeAt(s, i) - 1 > Len(s)
              THEN [out |-> <<>>, rest |-> SubSeq(s, i, Len(s))]
            ELSE IF Checks(FrameAt(s, i))
              THEN LET next == drain[i + SizeAt(s, i)]
                   IN  [next EXCEPT !.out = <<FrameAt(s, i)>> \o @]
            ELSE drain[AfterBad(s, i)]
  IN  drain[1]

DecoderInit == buffer = <<>> /\ frames = <<>> /\ stream = <<>>

FeedAll(chunk) ==
  LET d == Drained(buffer \o chunk)
  IN  /\ buffer' = d.rest
      /\ frames' = frames \o d.out
      /\ stream' = stream \o chunk

Chunks == UNION {[1..n -> Bytes] : n \in 0..MaxChunk}

DecoderNext == \E chunk \in Chunks : Len(stream \o chunk) <= MaxLength /\ FeedAll(chunk)

DecoderSpec == DecoderInit /\ [][DecoderNext]_decoderVars

-----------------------------------------------------------------------------
(***************************************************************************)
(* Properties.                                                             *)
(***************************************************************************)

\* The frames a stream holds: from the left, without overlap.
FramesIn(s) ==
  LET from[i \in 1..(Len(s) + 1)] ==
        IF i > Len(s) THEN <<>>
        ELSE IF IsFrame(s, i) THEN <<FrameAt(s, i)>> \o from[i + SizeAt(s, i)]
        ELSE from[i + 1]
  IN  from[1]

\* "Decoder accepts arbitrary serial chunks ... Invalid bytes are skipped so
\* later valid frames can be read" (stream.go:3-5): however the stream was cut,
\* what was returned and what the buffer still holds are its frames, none lost,
\* none twice, in their order.
NothingLost == frames \o FramesIn(buffer) = FramesIn(stream)

\* "Retained buffer memory after Feed or FeedAll returns is naturally bounded to
\* at most a partial frame" (stream.go:5-6).
PartialFrameKept ==
  /\ Len(buffer) < SettingsSize
  /\ Len(buffer) > Kept => HeaderAt(buffer, 1) /\ Len(buffer) < SizeAt(buffer, 1)

\* What the monitor relies on: every frame once, from a buffer that stays small.
DecoderSound == DecoderTypeOK /\ NothingLost /\ PartialFrameKept
=============================================================================
