---------------------------- MODULE EngineTrace ----------------------------
(***************************************************************************)
(* Engine with a history of the readings a session was decided on, kept    *)
(* independently of the engine's own timers, so that what the timers are   *)
(* for can be stated about the readings themselves.                        *)
(***************************************************************************)
EXTENDS Engine

VARIABLE samples  \* the readings evaluated since the last Start

traceVars == <<vars, samples>>

\* Whether a reading counts towards the time a stage asks for.
Qualifies(in, s) == IF s = 3 THEN TailQualifies(in) ELSE NearTarget(in, s)

Sample(s, now, in) == [stage |-> s, at |-> now, good |-> Qualifies(in, s)]

Samples == [stage : 1 .. 3, at : Instants, good : BOOLEAN]

TraceInit == Init /\ samples = {}

\* A reading is evaluated for the stage the session is in, and for the next
\* one as well when it is the reading that advances the session.
TraceStart(now, in) ==
  /\ StartAccepted(now, in)
  /\ samples' = {Sample(1, now, in)}

TraceUpdate(now, in) ==
  /\ UpdateEvaluated(now, in)
  /\ samples' = samples \cup {Sample(s, now, in) : s \in {stage, stage'}}

TraceRejected ==
  /\ \E now \in Instants, in \in Inputs : StartRejected(now, in) \/ UpdateRejected(now, in)
  /\ samples' = {}

TraceOther ==
  /\ \/ \E now \in Instants : UpdateBackwards(now) \/ UpdateTimedOut(now)
     \/ Stop \/ Abort \/ Reset
  /\ samples' = {}

TraceNext ==
  \/ \E now \in Instants, in \in Inputs : TraceStart(now, in) \/ TraceUpdate(now, in)
  \/ TraceRejected
  \/ TraceOther

TraceSpec == TraceInit /\ [][TraceNext]_traceVars

-----------------------------------------------------------------------------
\* A run of good readings of stage s, unbroken to the last reading of that
\* stage, from the instant from to the instant to.
UnbrokenRun(s, from, to) ==
  /\ [stage |-> s, at |-> from, good |-> TRUE] \in samples
  /\ [stage |-> s, at |-> to, good |-> TRUE] \in samples
  /\ \A r \in samples : r.stage = s /\ r.at > from => r.good

\* "It advances after at least 30 minutes at each measured voltage": every
\* stage a session has left ended with an unbroken run of readings in the
\* stage's band that lasted the whole dwell; one reading outside it, at any
\* point, costs the full dwell again (engine.go:166-187, 199-221).
EveryStageHeld ==
  state \in {"running", "completed"} =>
    \A s \in 1 .. stage - 1 :
      \E from, to \in Instants :
        to - from >= MinStageDuration /\ UnbrokenRun(s, from, to)

\* A session completes only on an unbroken run of readings that meet all four
\* tail conditions at once for the whole qualification (engine.go:233-256).
CompletionHeld ==
  state = "completed" =>
    \E from, to \in Instants :
      to - from >= TailQualificationDuration /\ UnbrokenRun(3, from, to)

\* Both: no stage is left and no session completes on a shorter run than its own.
StagesHeld == EveryStageHeld /\ CompletionHeld
=============================================================================
