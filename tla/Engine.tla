------------------------------- MODULE Engine -------------------------------
(***************************************************************************)
(* The conditioning decision engine (conditioning/engine.go): a session of *)
(* three constant-voltage stages driven by calls that carry an instant and *)
(* an input.  The engine owns no clock and no goroutine, so a behaviour is *)
(* a sequence of calls; the caller chooses every instant, and nothing      *)
(* makes the instants of two calls increase.                               *)
(***************************************************************************)
EXTENDS SafetyGates

CONSTANTS
  Inputs,                     \* the inputs a caller may pass
  Instants,                   \* the instants a caller may pass
  MinStageDuration, TailQualificationDuration, OverallTimeout

ASSUME InputsTyped     == Inputs \subseteq Input
ASSUME InstantsTyped   == Instants \subseteq Nat \ {0}
ASSUME DurationsTyped  == /\ MinStageDuration \in Nat \ {0}
                          /\ TailQualificationDuration \in Nat \ {0}
                          /\ OverallTimeout \in Nat \ {0}

VARIABLES
  state, stage, target,
  startedAt,        \* instants, 0 for the zero time.Time
  stageStartedAt,
  dwellStartedAt,
  tailStartedAt,
  lastUpdated

timers == <<startedAt, stageStartedAt, dwellStartedAt, tailStartedAt, lastUpdated>>
vars   == <<state, stage, target, timers>>

Schedule == INSTANCE ChargeSchedule

TypeOK ==
  /\ Schedule!TypeOK
  /\ startedAt \in Instants \cup {0}
  /\ stageStartedAt \in Instants \cup {0}
  /\ dwellStartedAt \in Instants \cup {0}
  /\ tailStartedAt \in Instants \cup {0}
  /\ lastUpdated \in Instants \cup {0}

Init ==
  /\ Schedule!Init
  /\ startedAt = 0 /\ stageStartedAt = 0
  /\ dwellStartedAt = 0 /\ tailStartedAt = 0
  /\ lastUpdated = 0

-----------------------------------------------------------------------------
\* The part of the engine the stage loop of evaluate works on.
Run == [stage : 1 .. 3, stageStartedAt : Nat, dwell : Nat, tail : Nat, done : BOOLEAN]

\* Mutant: a bad sample does not stop the timer.
TimerSticky(started, good, now) == IF started # 0 THEN started ELSE IF good THEN now ELSE 0

\* A qualification timer: running since its first good sample, off otherwise.
Timer(started, good, now) == IF ~good THEN 0 ELSE IF started = 0 THEN now ELSE started

\* Mutant: a timer expires one instant early.
ExpiredEarly(started, good, now, duration) ==
  good /\ now - Timer(started, good, now) + 1 >= duration

Expired(started, good, now, duration) == good /\ now - Timer(started, good, now) >= duration

AdvancesFrom(r, now, in) ==
  /\ r.stage < 3
  /\ Expired(r.dwell, NearTarget(in, r.stage), now, MinStageDuration)
  /\ SpreadWithin(in, MaxStageAdvanceSpreadMillivolts)

\* One turn of the loop in evaluate: advance and go round again, or settle in
\* the stage.  Advancing from stage 2 clears the tail timer as well.
Turn(r, now, in) ==
  IF AdvancesFrom(r, now, in)
  THEN [r EXCEPT !.stage = @ + 1, !.stageStartedAt = now, !.dwell = 0,
                 !.tail = IF r.stage = 2 THEN 0 ELSE @]
  ELSE IF r.stage < 3
  THEN [r EXCEPT !.dwell = Timer(@, NearTarget(in, r.stage), now)]
  ELSE [r EXCEPT !.tail = Timer(@, TailQualifies(in), now),
                 !.done = Expired(r.tail, TailQualifies(in), now, TailQualificationDuration)]

\* The loop of evaluate.  A stage is left at most once per turn and the third
\* stage never, so three turns are all it can take.
Loop(r, now, in) ==
  LET first  == Turn(r, now, in)
      second == Turn(first, now, in)
  IN  IF first.stage = r.stage THEN first
      ELSE IF second.stage = first.stage THEN second
      ELSE Turn(second, now, in)

\* Mutant: a fault leaves the target voltage of its stage in the status.
FailOpen ==
  /\ state' = "faulted"
  /\ dwellStartedAt' = 0 /\ tailStartedAt' = 0
  /\ UNCHANGED target

FailClosed ==
  /\ state' = "faulted" /\ target' = 0
  /\ dwellStartedAt' = 0 /\ tailStartedAt' = 0

\* Mutant: the status names the stage after the current one.
SettleAhead(r) ==
  /\ stage' = r.stage
  /\ stageStartedAt' = r.stageStartedAt
  /\ dwellStartedAt' = r.dwell
  /\ tailStartedAt' = r.tail
  /\ state' = IF r.done THEN "completed" ELSE "running"
  /\ target' = IF r.done THEN 0 ELSE r.stage + 1

\* The end of evaluate: the loop's outcome becomes the engine's.
Settle(r) ==
  /\ stage' = r.stage
  /\ stageStartedAt' = r.stageStartedAt
  /\ dwellStartedAt' = r.dwell
  /\ tailStartedAt' = r.tail
  /\ state' = IF r.done THEN "completed" ELSE "running"
  /\ target' = IF r.done THEN 0 ELSE r.stage

Fresh(now) == [stage |-> 1, stageStartedAt |-> now, dwell |-> 0, tail |-> 0, done |-> FALSE]
Current    == [stage |-> stage, stageStartedAt |-> stageStartedAt,
               dwell |-> dwellStartedAt, tail |-> tailStartedAt, done |-> FALSE]

-----------------------------------------------------------------------------
\* Start is idempotent while a session runs and a fresh session otherwise.
StartAccepted(now, in) ==
  /\ state # "running"
  /\ ValidInput(in)
  /\ startedAt' = now /\ lastUpdated' = now
  /\ Settle(Loop(Fresh(now), now, in))

StartRejected(now, in) ==
  /\ state # "running"
  /\ ~ValidInput(in)
  /\ startedAt' = now /\ lastUpdated' = now
  /\ stage' = 1 /\ stageStartedAt' = now
  /\ FailClosed

\* Update, one action per way out; it changes nothing unless a session runs.
UpdateBackwards(now) ==
  /\ state = "running"
  /\ now < lastUpdated
  /\ FailClosed
  /\ UNCHANGED <<stage, startedAt, stageStartedAt, lastUpdated>>

UpdateTimedOut(now) ==
  /\ state = "running"
  /\ now >= lastUpdated
  /\ now - startedAt >= OverallTimeout
  /\ lastUpdated' = now
  /\ state' = "timed_out" /\ target' = 0
  /\ UNCHANGED <<stage, startedAt, stageStartedAt, dwellStartedAt, tailStartedAt>>

InSession(now) ==
  /\ state = "running"
  /\ now >= lastUpdated
  /\ now - startedAt < OverallTimeout

UpdateRejected(now, in) ==
  /\ InSession(now)
  /\ ~ValidInput(in)
  /\ lastUpdated' = now
  /\ FailClosed
  /\ UNCHANGED <<stage, startedAt, stageStartedAt>>

UpdateEvaluated(now, in) ==
  /\ InSession(now)
  /\ ValidInput(in)
  /\ lastUpdated' = now
  /\ Settle(Loop(Current, now, in))
  /\ UNCHANGED startedAt

Stop ==
  /\ Schedule!Stop
  /\ UNCHANGED timers

Abort ==
  /\ Schedule!Abort
  /\ UNCHANGED timers

Reset ==
  /\ Schedule!Reset
  /\ startedAt' = 0 /\ stageStartedAt' = 0
  /\ dwellStartedAt' = 0 /\ tailStartedAt' = 0
  /\ lastUpdated' = 0

Next ==
  \/ \E now \in Instants, in \in Inputs :
       \/ StartAccepted(now, in)
       \/ StartRejected(now, in)
       \/ UpdateRejected(now, in)
       \/ UpdateEvaluated(now, in)
  \/ \E now \in Instants : UpdateBackwards(now) \/ UpdateTimedOut(now)
  \/ Stop \/ Abort \/ Reset

Spec == Init /\ [][Next]_vars

-----------------------------------------------------------------------------
(***************************************************************************)
(* Properties.                                                             *)
(***************************************************************************)

\* The instants of a running session are in the order the session produced
\* them, timers never run ahead of the last accepted call, and the session
\* is younger than the overall timeout: a session older than that is no
\* longer running, whatever instants the caller passed (engine.go:84-98).
SessionClock ==
  state = "running" =>
    /\ startedAt <= stageStartedAt /\ stageStartedAt <= lastUpdated
    /\ dwellStartedAt # 0 => stageStartedAt <= dwellStartedAt /\ dwellStartedAt <= lastUpdated
    /\ tailStartedAt # 0 => stageStartedAt <= tailStartedAt /\ tailStartedAt <= lastUpdated
    /\ lastUpdated - startedAt < OverallTimeout

\* No sequence of inputs and instants reaches stage k in less than k - 1
\* dwells, and none completes in less than two dwells and a tail: falls out of
\* the band, restarts and repeated instants never make a timer look older
\* than the stage it times (engine.go:182-187, 215-221, 243-250).
SessionNeverShort ==
  /\ state \in {"running", "completed"} =>
       stageStartedAt - startedAt >= (stage - 1) * MinStageDuration
  /\ state = "completed" =>
       /\ lastUpdated - stageStartedAt >= TailQualificationDuration
       /\ stage = 3

\* The engine implements the life cycle its caller relies on: stages in order
\* and one at a time, 0 V in every state but running, and a session that has
\* ended stays ended until the next Start or Reset.
ImplementsSchedule == Schedule!Spec

\* "If measured bank voltage falls away from the stage target by more than 0.10V [...],
\* the dwell/tail timer immediately resets to zero" (doc.go:68-69), and by no less: a valid
\* reading within the tolerance never costs a stage the dwell it has (engine.go:167-174).
ResetOnlyBeyondBand ==
  [][\A now \in Instants, in \in Inputs :
       /\ UpdateEvaluated(now, in) /\ stage \in {1, 2} /\ stage' = stage
       /\ Distance(in.inverter.volts, stage) <= StageVoltageTolerance
       /\ dwellStartedAt # 0
       => dwellStartedAt' # 0]_vars
=============================================================================
