---------------------------- MODULE EngineProofs ----------------------------
(***************************************************************************)
(* Theorems about Engine, for every set of inputs, every choice of         *)
(* instants and every length of the dwell, the tail and the session.       *)
(***************************************************************************)
EXTENDS EngineTrace, FiniteSetTheorems, TLAPS

\* The loop's record of a session that is in order at instant now: timers are
\* no older than the stage, and the tail timer is only used in stage 3.
Ordered(r, now) ==
  /\ r.stageStartedAt <= now
  /\ r.dwell # 0 => r.stageStartedAt <= r.dwell /\ r.dwell <= now
  /\ r.tail # 0 => r.stageStartedAt <= r.tail /\ r.tail <= now
  /\ r.stage < 3 => r.tail = 0

\* What a turn or a whole loop may make of it: the session stays in its stage,
\* or has spent a dwell there and is one stage further.
Outcome(r, q, now) ==
  /\ q \in Run
  /\ Ordered(q, now)
  /\ \/ q.stage = r.stage /\ q.stageStartedAt = r.stageStartedAt
     \/ /\ q.stage = r.stage + 1 /\ q.stageStartedAt = now
        /\ now - r.stageStartedAt >= MinStageDuration
        /\ ~q.done
  /\ q.done => q.stage = 3 /\ now - q.stageStartedAt >= TailQualificationDuration

\* A turn keeps a session in order (engine.go:164-281, one pass).
LEMMA TurnOutcome ==
  ASSUME NEW r \in Run, NEW now \in Nat \ {0}, NEW in, ~r.done, Ordered(r, now)
  PROVE  Outcome(r, Turn(r, now, in), now)
<1> DEFINE q == Turn(r, now, in)
<1> USE DurationsTyped
<1>1. CASE AdvancesFrom(r, now, in)
  <2>1. r.stage < 3 /\ now - r.stageStartedAt >= MinStageDuration
    BY <1>1 DEF AdvancesFrom, Expired, Timer, Run, Ordered
  <2>2. q = [r EXCEPT !.stage = r.stage + 1, !.stageStartedAt = now, !.dwell = 0,
                      !.tail = IF r.stage = 2 THEN 0 ELSE r.tail]
    BY <1>1 DEF Turn
  <2>3. r.tail = 0
    BY <2>1 DEF Ordered
  <2>4. q = [r EXCEPT !.stage = r.stage + 1, !.stageStartedAt = now, !.dwell = 0, !.tail = 0]
    BY <2>2, <2>3
  <2>5. q = [stage |-> r.stage + 1, stageStartedAt |-> now, dwell |-> 0, tail |-> 0, done |-> r.done]
    BY <2>4 DEF Run
  <2>6. r.stage + 1 \in 1 .. 3 /\ r.done \in BOOLEAN
    BY <2>1 DEF Run
  <2>7. q \in Run /\ q.stage = r.stage + 1 /\ q.stageStartedAt = now /\ q.dwell = 0
        /\ q.tail = 0 /\ q.done = r.done
    BY <2>5, <2>6 DEF Run
  <2> QED
    BY <2>1, <2>7 DEF Outcome, Ordered
<1>2. CASE ~AdvancesFrom(r, now, in) /\ r.stage < 3
  <2>1. q = [r EXCEPT !.dwell = Timer(r.dwell, NearTarget(in, r.stage), now)]
    BY <1>2 DEF Turn
  <2>2. /\ Timer(r.dwell, NearTarget(in, r.stage), now) \in Nat
        /\ Timer(r.dwell, NearTarget(in, r.stage), now) # 0 =>
             /\ r.stageStartedAt <= Timer(r.dwell, NearTarget(in, r.stage), now)
             /\ Timer(r.dwell, NearTarget(in, r.stage), now) <= now
    BY DEF Timer, Run, Ordered
  <2>3. q \in Run /\ q.stage = r.stage /\ q.stageStartedAt = r.stageStartedAt
        /\ q.dwell = Timer(r.dwell, NearTarget(in, r.stage), now)
        /\ q.tail = r.tail /\ q.done = FALSE
    BY <2>1, <2>2 DEF Run
  <2> QED
    BY <2>2, <2>3 DEF Outcome, Ordered
<1>3. CASE ~AdvancesFrom(r, now, in) /\ ~(r.stage < 3)
  <2> DEFINE good == TailQualifies(in)
  <2>1. q = [r EXCEPT !.tail = Timer(r.tail, good, now),
                      !.done = Expired(r.tail, good, now, TailQualificationDuration)]
    BY <1>3 DEF Turn
  <2>2. /\ Timer(r.tail, good, now) \in Nat
        /\ Timer(r.tail, good, now) # 0 =>
             /\ r.stageStartedAt <= Timer(r.tail, good, now)
             /\ Timer(r.tail, good, now) <= now
    BY DEF Timer, Run, Ordered
  <2>3. Expired(r.tail, good, now, TailQualificationDuration) \in BOOLEAN
    BY DEF Expired
  <2>4. Expired(r.tail, good, now, TailQualificationDuration) =>
          now - r.stageStartedAt >= TailQualificationDuration
    BY DEF Expired, Timer, Run, Ordered
  <2>5. q \in Run /\ q.stage = r.stage /\ q.stageStartedAt = r.stageStartedAt
        /\ q.dwell = r.dwell /\ q.tail = Timer(r.tail, good, now)
        /\ q.done = Expired(r.tail, good, now, TailQualificationDuration)
    BY <2>1, <2>2, <2>3 DEF Run
  <2> QED
    BY <1>3, <2>2, <2>4, <2>5 DEF Outcome, Ordered, Run
<1> QED
  BY <1>1, <1>2, <1>3

\* A stage cannot be left by the reading that entered it, so the loop goes
\* round at most twice and never crosses two stages (engine.go:183-187).
LEMMA NoSecondAdvance ==
  ASSUME NEW r \in Run, NEW now \in Nat \ {0}, NEW in, r.dwell = 0
  PROVE  ~AdvancesFrom(r, now, in)
BY DurationsTyped DEF AdvancesFrom, Expired, Timer, Run

\* What the loop of evaluate hands back, whatever reading it was given.
LEMMA LoopOutcome ==
  ASSUME NEW r \in Run, NEW now \in Nat \ {0}, NEW in, ~r.done, Ordered(r, now)
  PROVE  Outcome(r, Loop(r, now, in), now)
<1> DEFINE first == Turn(r, now, in)
           second == Turn(first, now, in)
<1>1. Outcome(r, first, now)
  BY TurnOutcome
<1>2. CASE first.stage = r.stage
  BY <1>1, <1>2 DEF Loop
<1>3. CASE first.stage # r.stage
  <2>1. AdvancesFrom(r, now, in)
    BY <1>3 DEF Turn, Run
  <2>2. first.dwell = 0 /\ first.done = FALSE /\ first \in Run
    BY <1>1, <2>1 DEF Turn, Run, Outcome
  <2>3. ~AdvancesFrom(first, now, in)
    BY <2>2, NoSecondAdvance
  <2>4. second.stage = first.stage
    BY <2>2, <2>3 DEF Turn, Run
  <2>5. Loop(r, now, in) = second
    BY <1>3, <2>4 DEF Loop
  <2>6. Outcome(first, second, now)
    BY <1>1, <2>2, TurnOutcome DEF Outcome
  <2>7. ~second.done
    BY <2>2, <2>3, <1>1, <1>3, DurationsTyped DEF Turn, Run, Outcome, Ordered, Expired, Timer
  <2> QED
    BY <1>1, <1>3, <2>4, <2>5, <2>6, <2>7 DEF Outcome, Run
<1> QED
  BY <1>2, <1>3
-----------------------------------------------------------------------------
\* The inductive invariant: the clock and length invariants, and what the
\* engine's fields have to do with one another for these to be preserved.
Fields ==
  /\ state = "running" =>
       /\ stage \in 1 .. 3 /\ target = stage
       /\ startedAt \in Instants /\ stageStartedAt \in Instants
  /\ state # "running" => target = 0
  /\ state = "running" /\ stage < 3 => tailStartedAt = 0

IInv == TypeOK /\ Fields /\ SessionClock /\ SessionNeverShort

\* The session the engine's fields describe is one the loop keeps in order.
LEMMA CurrentOrdered ==
  ASSUME IInv, state = "running", NEW now \in Instants, now >= lastUpdated
  PROVE  Current \in Run /\ Ordered(Current, now) /\ ~Current.done
<1>1. stage \in 1 .. 3 /\ stageStartedAt \in Nat /\ dwellStartedAt \in Nat /\ tailStartedAt \in Nat
  BY InstantsTyped DEF IInv, Fields, TypeOK
<1>2. Current \in Run /\ ~Current.done
  BY <1>1 DEF Current, Run
<1>3. lastUpdated \in Nat /\ now \in Nat
  BY InstantsTyped DEF IInv, TypeOK
<1>4. Ordered(Current, now)
  BY <1>1, <1>3 DEF Current, Ordered, IInv, Fields, SessionClock
<1> QED
  BY <1>2, <1>4

\* The loop never invents an instant.
LEMMA LoopInstants ==
  ASSUME NEW r \in Run, NEW now \in Instants, NEW in,
         r.stageStartedAt \in Instants \cup {0}, r.dwell \in Instants \cup {0},
         r.tail \in Instants \cup {0}
  PROVE  LET q == Loop(r, now, in)
         IN  /\ q.stageStartedAt \in Instants \cup {0}
             /\ q.dwell \in Instants \cup {0}
             /\ q.tail \in Instants \cup {0}
<1> DEFINE Stamped(x) == /\ DOMAIN x = {"stage", "stageStartedAt", "dwell", "tail", "done"}
                         /\ x.stageStartedAt \in Instants \cup {0}
                         /\ x.dwell \in Instants \cup {0}
                         /\ x.tail \in Instants \cup {0}
<1>1. ASSUME NEW x, Stamped(x) PROVE Stamped(Turn(x, now, in))
  BY <1>1 DEF Turn, Timer
<1>2. Stamped(r)
  BY DEF Run
<1>3. Stamped(Turn(r, now, in))
  BY <1>1, <1>2
<1>4. Stamped(Turn(Turn(r, now, in), now, in))
  BY <1>1, <1>3
<1>5. Stamped(Turn(Turn(Turn(r, now, in), now, in), now, in))
  BY <1>1, <1>4
<1> HIDE DEF Stamped
<1>6. Stamped(Loop(r, now, in))
  BY <1>3, <1>4, <1>5 DEF Loop
<1> QED
  BY <1>6 DEF Stamped
-----------------------------------------------------------------------------
\* A session that began at from has spent a dwell in each stage before s.
Dwelled(from, at, s) == at - from >= (s - 1) * MinStageDuration

\* evaluate on a valid input keeps the invariant, for a session that began at
\* from and whose loop record is r.
LEMMA SettleKeepsIInv ==
  ASSUME NEW r \in Run, NEW now \in Instants, NEW in, ~r.done, Ordered(r, now),
         r.stageStartedAt \in Instants, r.dwell \in Instants \cup {0},
         r.tail \in Instants \cup {0},
         startedAt' \in Instants, startedAt' <= r.stageStartedAt,
         now - startedAt' < OverallTimeout,
         Dwelled(startedAt', r.stageStartedAt, r.stage),
         lastUpdated' = now,
         Settle(Loop(r, now, in))
  PROVE  IInv'
<1> DEFINE q == Loop(r, now, in)
<1> USE InstantsTyped, DurationsTyped
<1>1. Outcome(r, q, now)
  BY LoopOutcome
<1>2. q.stageStartedAt \in Instants \cup {0} /\ q.dwell \in Instants \cup {0} /\ q.tail \in Instants \cup {0}
  BY LoopInstants
<1> HIDE DEF q
<1>3. /\ stage' = q.stage /\ stageStartedAt' = q.stageStartedAt
      /\ dwellStartedAt' = q.dwell /\ tailStartedAt' = q.tail
      /\ state' = IF q.done THEN "completed" ELSE "running"
      /\ target' = IF q.done THEN 0 ELSE q.stage
  BY DEF Settle, q
<1>4. q \in Run /\ Ordered(q, now)
  BY <1>1 DEF Outcome
<1>5. q.stage \in 1 .. 3 /\ q.stageStartedAt \in Nat /\ q.dwell \in Nat /\ q.tail \in Nat /\ q.done \in BOOLEAN
  BY <1>4 DEF Run
<1>5a. q.stageStartedAt \in Instants
  BY <1>1 DEF Outcome
<1>6. TypeOK'
  BY <1>2, <1>3, <1>5 DEF TypeOK, Schedule!TypeOK, Schedule!States, Schedule!Terminal
<1>7. Fields'
  BY <1>3, <1>4, <1>5, <1>5a DEF Fields, Ordered
<1>8. r.stage \in 1 .. 3 /\ r.stageStartedAt \in Nat
  BY DEF Run
<1>9. q.stageStartedAt >= r.stageStartedAt /\ q.stageStartedAt <= now
  BY <1>1, <1>4, <1>5, <1>8 DEF Outcome, Ordered
<1>10. SessionClock'
  <2>1. startedAt' \in Nat /\ now \in Nat
    OBVIOUS
  <2>2. /\ startedAt' <= q.stageStartedAt /\ q.stageStartedAt <= now
        /\ q.dwell # 0 => q.stageStartedAt <= q.dwell /\ q.dwell <= now
        /\ q.tail # 0 => q.stageStartedAt <= q.tail /\ q.tail <= now
        /\ now - startedAt' < OverallTimeout
    <3>1. startedAt' <= q.stageStartedAt
      BY <2>1, <1>5, <1>8, <1>9
    <3> QED
      BY <3>1, <1>4, <1>9 DEF Ordered
  <2> QED
    BY <2>2, <1>3 DEF SessionClock
<1>11. Dwelled(startedAt', q.stageStartedAt, q.stage)
  <2>1. CASE q.stage = r.stage /\ q.stageStartedAt = r.stageStartedAt
    BY <2>1
  <2>2. CASE /\ q.stage = r.stage + 1 /\ q.stageStartedAt = now
             /\ now - r.stageStartedAt >= MinStageDuration
    <3>1. (q.stage - 1) * MinStageDuration = (r.stage - 1) * MinStageDuration + MinStageDuration
      BY <2>2, <1>8
    <3>2. r.stageStartedAt - startedAt' >= (r.stage - 1) * MinStageDuration
      BY DEF Dwelled
    <3>3. (r.stage - 1) * MinStageDuration \in Nat /\ startedAt' \in Nat /\ now \in Nat
      BY <1>8
    <3>4. now - startedAt' >= (r.stage - 1) * MinStageDuration + MinStageDuration
      BY <2>2, <3>2, <3>3, <1>8
    <3> QED
      BY <2>2, <3>1, <3>4 DEF Dwelled
  <2> QED
    BY <1>1, <2>1, <2>2 DEF Outcome
<1>12. SessionNeverShort'
  <2>1. stageStartedAt' - startedAt' >= (stage' - 1) * MinStageDuration
    BY <1>3, <1>11 DEF Dwelled
  <2>2. q.done => q.stage = 3 /\ now - q.stageStartedAt >= TailQualificationDuration
    BY <1>1 DEF Outcome
  <2>3. state' = "completed" => stage' = 3 /\ lastUpdated' - stageStartedAt' >= TailQualificationDuration
    BY <1>3, <2>2
  <2> QED
    BY <2>1, <2>3 DEF SessionNeverShort
<1> QED
  BY <1>6, <1>7, <1>10, <1>12 DEF IInv

\* The initial state, and every call, keeps the invariant.
LEMMA InitIInv == Init => IInv
BY DEF Init, IInv, TypeOK, Fields, SessionClock, SessionNeverShort,
       Schedule!Init, Schedule!TypeOK, Schedule!States, Schedule!Terminal

LEMMA StepIInv == IInv /\ [Next]_vars => IInv'
<1> SUFFICES ASSUME IInv, [Next]_vars PROVE IInv'
  OBVIOUS
<1> USE InstantsTyped, DurationsTyped
<1>t. /\ startedAt \in Nat /\ stageStartedAt \in Nat /\ dwellStartedAt \in Nat
      /\ tailStartedAt \in Nat /\ lastUpdated \in Nat
  BY DEF IInv, TypeOK
<1>1. ASSUME NEW now \in Instants, NEW in \in Inputs, StartAccepted(now, in)
      PROVE  IInv'
  <2>1. /\ Fresh(now) \in Run /\ ~Fresh(now).done /\ Ordered(Fresh(now), now)
        /\ Fresh(now).stageStartedAt = now /\ Fresh(now).dwell = 0
        /\ Fresh(now).tail = 0 /\ Fresh(now).stage = 1
    BY DEF Fresh, Run, Ordered
  <2>2. startedAt' = now /\ lastUpdated' = now /\ Settle(Loop(Fresh(now), now, in))
    BY <1>1 DEF StartAccepted
  <2>3. Dwelled(now, now, 1)
    BY DEF Dwelled
  <2> HIDE DEF Fresh
  <2> QED
    BY <2>1, <2>2, <2>3, SettleKeepsIInv
<1>2. ASSUME NEW now \in Instants, NEW in \in Inputs, StartRejected(now, in)
      PROVE  IInv'
  BY <1>2, <1>t DEF StartRejected, FailClosed, IInv, TypeOK, Fields, SessionClock, SessionNeverShort,
                Schedule!TypeOK, Schedule!States, Schedule!Terminal
<1>3. ASSUME NEW now \in Instants, NEW in \in Inputs, UpdateEvaluated(now, in)
      PROVE  IInv'
  <2>1. state = "running" /\ now >= lastUpdated /\ now - startedAt < OverallTimeout
    BY <1>3 DEF UpdateEvaluated, InSession
  <2>2. Current \in Run /\ Ordered(Current, now) /\ ~Current.done
    BY <2>1, CurrentOrdered
  <2>3. /\ Current.stage = stage /\ Current.stageStartedAt = stageStartedAt
        /\ Current.dwell = dwellStartedAt /\ Current.tail = tailStartedAt
    BY DEF Current
  <2>4. /\ stageStartedAt \in Instants /\ startedAt \in Instants
        /\ startedAt <= stageStartedAt
        /\ Dwelled(startedAt, stageStartedAt, stage)
        /\ dwellStartedAt \in Instants \cup {0} /\ tailStartedAt \in Instants \cup {0}
    BY <2>1 DEF IInv, TypeOK, Fields, SessionClock, SessionNeverShort, Dwelled
  <2>5. startedAt' = startedAt /\ lastUpdated' = now /\ Settle(Loop(Current, now, in))
    BY <1>3 DEF UpdateEvaluated
  <2> HIDE DEF Current
  <2> QED
    BY <2>1, <2>2, <2>3, <2>4, <2>5, SettleKeepsIInv
<1>4. ASSUME NEW now \in Instants, NEW in \in Inputs, UpdateRejected(now, in)
      PROVE  IInv'
  BY <1>4, <1>t DEF UpdateRejected, InSession, FailClosed, IInv, TypeOK, Fields, SessionClock,
                SessionNeverShort, Schedule!TypeOK, Schedule!States, Schedule!Terminal
<1>5. ASSUME NEW now \in Instants, UpdateBackwards(now)
      PROVE  IInv'
  BY <1>5, <1>t DEF UpdateBackwards, FailClosed, IInv, TypeOK, Fields, SessionClock,
                SessionNeverShort, Schedule!TypeOK, Schedule!States, Schedule!Terminal
<1>6. ASSUME NEW now \in Instants, UpdateTimedOut(now)
      PROVE  IInv'
  BY <1>6, <1>t DEF UpdateTimedOut, IInv, TypeOK, Fields, SessionClock,
                SessionNeverShort, Schedule!TypeOK, Schedule!States, Schedule!Terminal
<1>7. CASE Stop
  BY <1>7, <1>t DEF Stop, Schedule!Stop, Schedule!End, timers, IInv, TypeOK, Fields, SessionClock,
                SessionNeverShort, Schedule!TypeOK, Schedule!States, Schedule!Terminal
<1>8. CASE Abort
  BY <1>8, <1>t DEF Abort, Schedule!Abort, Schedule!End, timers, IInv, TypeOK, Fields, SessionClock,
                SessionNeverShort, Schedule!TypeOK, Schedule!States, Schedule!Terminal
<1>9. CASE Reset
  BY <1>9, <1>t DEF Reset, Schedule!Reset, IInv, TypeOK, Fields, SessionClock,
                SessionNeverShort, Schedule!TypeOK, Schedule!States, Schedule!Terminal
<1>10. CASE UNCHANGED vars
  BY <1>10 DEF vars, timers, IInv, TypeOK, Fields, SessionClock, SessionNeverShort, Schedule!TypeOK
<1> QED
  BY <1>1, <1>2, <1>3, <1>4, <1>5, <1>6, <1>7, <1>8, <1>9, <1>10 DEF Next
-----------------------------------------------------------------------------
\* Every field keeps its type, for every choice of calls.
THEOREM TypeCorrect == Spec => []TypeOK
<1>1. IInv => TypeOK
  BY DEF IInv
<1> QED
  BY <1>1, InitIInv, StepIInv, PTL DEF Spec

\* A running session's instants are in order and it is younger than the overall
\* timeout, for every clock a caller may present (engine.go:84-98).
THEOREM SessionClockHolds == Spec => []SessionClock
<1>1. IInv => SessionClock
  BY DEF IInv
<1> QED
  BY <1>1, InitIInv, StepIInv, PTL DEF Spec

\* Stage k is never reached before k - 1 dwells have passed, and no session
\* completes in less than two dwells and a tail (engine.go:182-250).
THEOREM SessionNeverShortHolds == Spec => []SessionNeverShort
<1>1. IInv => SessionNeverShort
  BY DEF IInv
<1> QED
  BY <1>1, InitIInv, StepIInv, PTL DEF Spec

-----------------------------------------------------------------------------
\* evaluate on a running session holds the stage, advances by one, or completes
\* in the third stage.
LEMMA EvaluatedRefines ==
  ASSUME IInv, NEW now \in Instants, NEW in, UpdateEvaluated(now, in)
  PROVE  [Schedule!Next]_(Schedule!schedule)
<1> DEFINE q == Loop(Current, now, in)
<1>1. state = "running" /\ now >= lastUpdated /\ Settle(q)
  BY DEF UpdateEvaluated, InSession
<1>2. Current \in Run /\ Ordered(Current, now) /\ ~Current.done /\ Current.stage = stage
  BY <1>1, CurrentOrdered DEF Current
<1>3. Outcome(Current, q, now)
  BY <1>2, InstantsTyped, LoopOutcome
<1>4. /\ stage' = q.stage
      /\ state' = IF q.done THEN "completed" ELSE "running"
      /\ target' = IF q.done THEN 0 ELSE q.stage
  BY <1>1 DEF Settle
<1>5. stage \in 1 .. 3 /\ target = stage
  BY <1>1 DEF IInv, Fields
<1> HIDE DEF q
<1>6. CASE q.stage = stage /\ ~q.done
  BY <1>1, <1>4, <1>5, <1>6 DEF Schedule!schedule
<1>7. CASE q.done
  <2>1. q.stage = stage /\ stage = 3
    BY <1>2, <1>3, <1>5, <1>7 DEF Outcome
  <2> QED
    BY <1>1, <1>4, <1>7, <2>1 DEF Schedule!Next, Schedule!Complete, Schedule!End
<1>8. CASE q.stage = stage + 1 /\ ~q.done
  <2>1. stage < 3
    BY <1>3, <1>5, <1>8 DEF Outcome, Run
  <2> QED
    BY <1>1, <1>4, <1>8, <2>1 DEF Schedule!Next, Schedule!Advance
<1> QED
  BY <1>2, <1>3, <1>6, <1>7, <1>8 DEF Outcome

\* The engine implements the schedule its caller relies on: every call maps to
\* one step of ChargeSchedule or to none.
THEOREM EngineImplementsSchedule == Spec => ImplementsSchedule
<1>1. Init => Schedule!Init
  BY DEF Init
<1>2. IInv /\ [Next]_vars => [Schedule!Next]_(Schedule!schedule)
  <2> SUFFICES ASSUME IInv, [Next]_vars PROVE [Schedule!Next]_(Schedule!schedule)
    OBVIOUS
  <2> USE DEF Schedule!Next
  <2>1. ASSUME NEW now \in Instants, NEW in \in Inputs, StartAccepted(now, in)
        PROVE  Schedule!Begin
    <3>1. /\ Fresh(now) \in Run /\ ~Fresh(now).done /\ Ordered(Fresh(now), now)
          /\ Fresh(now).dwell = 0 /\ Fresh(now).stage = 1
      BY InstantsTyped DEF Fresh, Run, Ordered
    <3>2. ~AdvancesFrom(Fresh(now), now, in)
      BY <3>1, InstantsTyped, NoSecondAdvance
    <3> HIDE DEF Fresh
    <3>3. Turn(Fresh(now), now, in).stage = 1 /\ ~Turn(Fresh(now), now, in).done
      BY <3>1, <3>2 DEF Turn, Run
    <3>4. Settle(Turn(Fresh(now), now, in))
      BY <2>1, <3>1, <3>3 DEF StartAccepted, Loop
    <3> QED
      BY <2>1, <3>3, <3>4 DEF StartAccepted, Settle, Schedule!Begin
  <2>2. ASSUME NEW now \in Instants, NEW in \in Inputs, StartRejected(now, in)
        PROVE  Schedule!Refuse
    BY <2>2 DEF StartRejected, FailClosed, Schedule!Refuse
  <2>3. ASSUME NEW now \in Instants, NEW in \in Inputs, UpdateRejected(now, in)
        PROVE  Schedule!Fault
    BY <2>3 DEF UpdateRejected, InSession, FailClosed, Schedule!Fault, Schedule!End
  <2>4. ASSUME NEW now \in Instants, UpdateBackwards(now)
        PROVE  Schedule!Fault
    BY <2>4 DEF UpdateBackwards, FailClosed, Schedule!Fault, Schedule!End
  <2>5. ASSUME NEW now \in Instants, UpdateTimedOut(now)
        PROVE  Schedule!TimeOut
    BY <2>5 DEF UpdateTimedOut, Schedule!TimeOut, Schedule!End
  <2>6. CASE Stop \/ Abort \/ Reset
    BY <2>6 DEF Stop, Abort, Reset
  <2>7. CASE UNCHANGED vars
    BY <2>7 DEF vars, Schedule!schedule
  <2> QED
    BY <2>1, <2>2, <2>3, <2>4, <2>5, <2>6, <2>7, EvaluatedRefines DEF Next
<1> QED
  BY <1>1, <1>2, InitIInv, StepIInv, PTL DEF Spec, ImplementsSchedule, Schedule!Spec

-----------------------------------------------------------------------------
(***************************************************************************)
(* What the timers say of the readings themselves (EngineTrace).           *)
(***************************************************************************)

\* The timer of the stage a session is in.
Qualifying(r) == IF r.stage = 3 THEN r.tail ELSE r.dwell
Elapsing      == IF stage = 3 THEN tailStartedAt ELSE dwellStartedAt

Good(s, at) == [stage |-> s, at |-> at, good |-> TRUE]

\* All readings of stage s in S since the instant from have been good.
Since(s, from, S) ==
  /\ Good(s, from) \in S
  /\ \A x \in S : x.stage = s /\ x.at > from => x.good

Seen(S, s, now) == S \subseteq Samples /\ \A x \in S : x.stage <= s /\ x.at <= now

Left(S, s) ==
  \E from, to \in Instants :
    to - from >= MinStageDuration /\ Since(s, from, S) /\ Good(s, to) \in S

\* The readings of a session that lasts or has completed: none is later than the
\* engine's clock or of a stage to come, every stage behind it was held, and while
\* its timer runs so is the one it is in.
History ==
  state \in {"running", "completed"} =>
    /\ Seen(samples, stage, lastUpdated)
    /\ \A s \in 1 .. stage - 1 : Left(samples, s)
    /\ Elapsing # 0 => Since(stage, Elapsing, samples)
    /\ CompletionHeld

\* A loop moves the timer of the stage it ends in by the reading, and leaves a
\* stage, or the session, only when that timer has expired.
LEMMA LoopTimes ==
  ASSUME NEW r \in Run, NEW now \in Nat \ {0}, NEW in, ~r.done, Ordered(r, now)
  PROVE  LET q == Loop(r, now, in)
             good(s) == Qualifies(in, s)
         IN  \/ /\ q.stage = r.stage
                /\ Qualifying(q) = Timer(Qualifying(r), good(r.stage), now)
                /\ q.done => /\ r.stage = 3
                             /\ Expired(Qualifying(r), good(3), now, TailQualificationDuration)
             \/ /\ q.stage = r.stage + 1 /\ ~q.done
                /\ Expired(Qualifying(r), good(r.stage), now, MinStageDuration)
                /\ Qualifying(q) = Timer(0, good(q.stage), now)
<1> DEFINE first == Turn(r, now, in)
           second == Turn(first, now, in)
<1>1. ASSUME NEW x \in Run, ~AdvancesFrom(x, now, in), ~x.done
      PROVE  /\ Turn(x, now, in).stage = x.stage
             /\ Qualifying(Turn(x, now, in)) = Timer(Qualifying(x), Qualifies(in, x.stage), now)
             /\ Turn(x, now, in).done =>
                  /\ x.stage = 3
                  /\ Expired(Qualifying(x), Qualifies(in, 3), now, TailQualificationDuration)
  <2>1. CASE x.stage < 3
    <3>1. Turn(x, now, in) = [x EXCEPT !.dwell = Timer(x.dwell, NearTarget(in, x.stage), now)]
      BY <1>1, <2>1 DEF Turn
    <3> QED
      BY <1>1, <2>1, <3>1 DEF Qualifying, Qualifies, Run
  <2>2. CASE ~(x.stage < 3)
    <3>1. Turn(x, now, in) = [x EXCEPT !.tail = Timer(x.tail, TailQualifies(in), now),
                                       !.done = Expired(x.tail, TailQualifies(in), now,
                                                        TailQualificationDuration)]
      BY <1>1, <2>2 DEF Turn
    <3>2. x.stage = 3
      BY <2>2 DEF Run
    <3> QED
      BY <3>1, <3>2 DEF Qualifying, Qualifies, Run
  <2> QED
    BY <2>1, <2>2
<1>2. CASE ~AdvancesFrom(r, now, in)
  <2>1. first.stage = r.stage /\ Loop(r, now, in) = first
    BY <1>1, <1>2 DEF Loop
  <2> QED
    BY <1>1, <1>2, <2>1
<1>3. CASE AdvancesFrom(r, now, in)
  <2>1. first = [r EXCEPT !.stage = r.stage + 1, !.stageStartedAt = now, !.dwell = 0,
                          !.tail = IF r.stage = 2 THEN 0 ELSE r.tail]
    BY <1>3 DEF Turn
  <2>2. r.stage < 3 /\ r.tail = 0 /\ Expired(r.dwell, NearTarget(in, r.stage), now, MinStageDuration)
    BY <1>3 DEF AdvancesFrom, Ordered
  <2>3. first = [r EXCEPT !.stage = r.stage + 1, !.stageStartedAt = now, !.dwell = 0, !.tail = 0]
    BY <2>1, <2>2
  <2> HIDE DEF first
  <2>a. first = [stage |-> r.stage + 1, stageStartedAt |-> now, dwell |-> 0, tail |-> 0, done |-> r.done]
    BY <2>3 DEF Run
  <2>b. r.stage + 1 \in 1 .. 3 /\ r.done \in BOOLEAN
    BY <2>2 DEF Run
  <2>4. /\ first \in Run /\ first.stage = r.stage + 1 /\ first.dwell = 0 /\ first.tail = 0
        /\ ~first.done
    BY <2>a, <2>b DEF Run
  <2>5. ~AdvancesFrom(first, now, in)
    BY <2>4, NoSecondAdvance
  <2>6. /\ second.stage = first.stage
        /\ Qualifying(second) = Timer(Qualifying(first), Qualifies(in, first.stage), now)
        /\ second.done => Expired(Qualifying(first), Qualifies(in, 3), now, TailQualificationDuration)
    BY <1>1, <2>4, <2>5
  <2>7. first.stage # r.stage
    BY <2>4 DEF Run
  <2>8. Loop(r, now, in) = second
    BY <2>6, <2>7 DEF Loop, first
  <2>9. Qualifying(first) = 0 /\ Qualifying(r) = r.dwell
    BY <2>2, <2>4 DEF Qualifying
  <2>10. ~second.done
    BY <2>6, <2>9, DurationsTyped DEF Expired, Timer
  <2>11. Expired(Qualifying(r), Qualifies(in, r.stage), now, MinStageDuration)
    BY <2>2, <2>9 DEF Qualifies
  <2> HIDE DEF second
  <2> QED
    BY <2>4, <2>6, <2>8, <2>9, <2>10, <2>11
<1> QED
  BY <1>2, <1>3

\* A timer that runs began with a good reading and has seen no other since.
LEMMA TimerSince ==
  ASSUME NEW S, NEW now \in Nat, \A x \in S : x.at \in Nat /\ x.at <= now,
         NEW s, NEW good \in BOOLEAN, NEW t \in Nat, t # 0 => Since(s, t, S),
         NEW T, S \subseteq T, [stage |-> s, at |-> now, good |-> good] \in T,
         \A x \in T : x \in S \/ x = [stage |-> s, at |-> now, good |-> good] \/ x.stage # s,
         NEW u, u = Timer(t, good, now), u # 0
  PROVE  Since(s, u, T)
<1>0. good
  BY DEF Timer
<1>1. CASE t = 0
  <2>1. u = now /\ Good(s, now) \in T
    BY <1>0, <1>1 DEF Timer, Good
  <2>2. ASSUME NEW x \in T, x.stage = s, x.at > now PROVE FALSE
    BY <2>2
  <2> QED
    BY <2>1, <2>2 DEF Since
<1>2. CASE t # 0
  <2>1. u = t /\ Good(s, t) \in T
    BY <1>0, <1>2 DEF Timer, Good, Since
  <2>2. ASSUME NEW x \in T, x.stage = s, x.at > t PROVE x.good
    BY <1>0, <1>2, <2>2 DEF Since
  <2> QED
    BY <2>1, <2>2 DEF Since
<1> QED
  BY <1>1, <1>2

\* evaluate on a valid input keeps the history, of the readings S that were seen before
\* it in the session whose loop record is r.
LEMMA SettleKeepsHistory ==
  ASSUME NEW r \in Run, NEW now \in Instants, NEW in, ~r.done, Ordered(r, now),
         r.dwell \in Instants \cup {0}, r.tail \in Instants \cup {0},
         NEW S, Seen(S, r.stage, now), \A s \in 1 .. r.stage - 1 : Left(S, s),
         Qualifying(r) # 0 => Since(r.stage, Qualifying(r), S),
         Settle(Loop(r, now, in)), lastUpdated' = now,
         samples' = S \cup {Sample(s, now, in) : s \in {r.stage, stage'}}
  PROVE  History'
<1> DEFINE q == Loop(r, now, in)
           good(s) == Qualifies(in, s)
<1> USE InstantsTyped, DurationsTyped
<1>0. PICK T : T = samples'
  OBVIOUS
<1>1. Outcome(r, q, now)
  BY LoopOutcome
<1>2. \/ /\ q.stage = r.stage
         /\ Qualifying(q) = Timer(Qualifying(r), good(r.stage), now)
         /\ q.done => /\ r.stage = 3
                      /\ Expired(Qualifying(r), good(3), now, TailQualificationDuration)
      \/ /\ q.stage = r.stage + 1 /\ ~q.done
         /\ Expired(Qualifying(r), good(r.stage), now, MinStageDuration)
         /\ Qualifying(q) = Timer(0, good(q.stage), now)
  BY LoopTimes
<1>3. /\ stage' = q.stage /\ dwellStartedAt' = q.dwell /\ tailStartedAt' = q.tail
      /\ state' = IF q.done THEN "completed" ELSE "running"
  BY DEF Settle
<1>4. q.stage \in 1 .. 3 /\ q.done \in BOOLEAN /\ r.stage \in 1 .. 3
  BY <1>1 DEF Outcome, Run
<1>5. Elapsing' = Qualifying(q)
  BY <1>3 DEF Elapsing, Qualifying
<1> HIDE DEF q
<1>6. \A s : good(s) \in BOOLEAN
  BY DEF Qualifies, NearTarget, TailQualifies
<1>7. \A s : Sample(s, now, in) = [stage |-> s, at |-> now, good |-> good(s)]
  BY DEF Sample
<1> HIDE DEF good
<1>8. Qualifying(r) \in Instants \cup {0} /\ Qualifying(r) \in Nat /\ now \in Nat
  BY DEF Qualifying, Run
<1>9. \A x \in S : x \in Samples /\ x.at \in Nat /\ x.at <= now /\ x.stage <= r.stage
  BY DEF Seen, Samples
<1>10. /\ S \subseteq T
       /\ [stage |-> r.stage, at |-> now, good |-> good(r.stage)] \in T
       /\ [stage |-> q.stage, at |-> now, good |-> good(q.stage)] \in T
       /\ \A x \in T : \/ x \in S
                      \/ x = [stage |-> r.stage, at |-> now, good |-> good(r.stage)]
                      \/ x = [stage |-> q.stage, at |-> now, good |-> good(q.stage)]
  BY <1>0, <1>3, <1>7
<1>11. Seen(T, q.stage, now)
  <2>1. r.stage <= q.stage
    BY <1>2, <1>4
  <2>2. ASSUME NEW x \in T PROVE x \in Samples /\ x.stage <= q.stage /\ x.at <= now
    <3>1. CASE x \in S
      BY <3>1, <2>1, <1>4, <1>9 DEF Samples
    <3>2. CASE x = [stage |-> r.stage, at |-> now, good |-> good(r.stage)]
      BY <3>2, <2>1, <1>4, <1>6 DEF Samples
    <3>3. CASE x = [stage |-> q.stage, at |-> now, good |-> good(q.stage)]
      BY <3>3, <1>4, <1>6 DEF Samples
    <3> QED
      BY <3>1, <3>2, <3>3, <1>10
  <2> QED
    BY <2>2 DEF Seen
\* The run of the stage the reading was taken in.
<1>12. /\ Timer(Qualifying(r), good(r.stage), now) # 0 =>
            Since(r.stage, Timer(Qualifying(r), good(r.stage), now), T)
       /\ good(r.stage) => Good(r.stage, now) \in T
  <2>1. PICK s : s = r.stage
    OBVIOUS
  <2> DEFINE g == good(s)
             t == Qualifying(r)
  <2>2. t \in Nat /\ now \in Nat /\ g \in BOOLEAN
    BY <1>6, <1>8
  <2>3. t # 0 => Since(s, t, S)
    BY <2>1
  <2>4. S \subseteq T /\ [stage |-> s, at |-> now, good |-> g] \in T
    BY <2>1, <1>10
  <2>5. \A x \in S : x.at \in Nat /\ x.at <= now
    BY <1>9
  <2>6. \A x \in T : x \in S \/ x = [stage |-> s, at |-> now, good |-> g] \/ x.stage # s
    BY <2>1, <1>10
  <2> HIDE DEF g, t
  <2>7. ASSUME NEW u, u = Timer(t, g, now), u # 0 PROVE Since(s, u, T)
    BY <2>2, <2>3, <2>4, <2>5, <2>6, <2>7, TimerSince
  <2>8. g => Good(s, now) \in T
    BY <2>4 DEF Good
  <2> QED
    BY <2>1, <2>7, <2>8 DEF g, t
<1>13. ASSUME NEW d \in Nat \ {0}, Expired(Qualifying(r), good(r.stage), now, d)
       PROVE  \E from, to \in Instants :
                to - from >= d /\ Since(r.stage, from, T) /\ Good(r.stage, to) \in T
  <2> DEFINE from == Timer(Qualifying(r), good(r.stage), now)
  <2>1. good(r.stage) /\ now - from >= d
    BY <1>13 DEF Expired
  <2>2. from \in Instants /\ from # 0
    BY <2>1, <1>8 DEF Timer
  <2> HIDE DEF from
  <2>3. Since(r.stage, from, T) /\ Good(r.stage, now) \in T
    BY <2>1, <2>2, <1>12 DEF from
  <2> QED
    BY <2>1, <2>2, <2>3
<1>14. ASSUME NEW s \in 1 .. r.stage - 1 PROVE Left(T, s)
  <2>1. PICK from, to \in Instants :
          to - from >= MinStageDuration /\ Since(s, from, S) /\ Good(s, to) \in S
    BY DEF Left
  <2>2. s < r.stage /\ s < q.stage
    BY <1>2, <1>4
  <2>3. Since(s, from, T)
    BY <2>1, <2>2, <1>10 DEF Since
  <2> QED
    BY <2>1, <2>3, <1>10 DEF Left
<1>15. \A s \in 1 .. q.stage - 1 : Left(T, s)
  <2>1. CASE q.stage = r.stage
    BY <2>1, <1>14
  <2>2. CASE q.stage = r.stage + 1 /\ Expired(Qualifying(r), good(r.stage), now, MinStageDuration)
    <3>1. Left(T, r.stage)
      BY <2>2, <1>13 DEF Left
    <3> QED
      BY <3>1, <2>2, <1>4, <1>14
  <2> QED
    BY <2>1, <2>2, <1>2
<1>16. Qualifying(q) # 0 => Since(q.stage, Qualifying(q), T)
  <2>1. CASE q.stage = r.stage /\ Qualifying(q) = Timer(Qualifying(r), good(r.stage), now)
    BY <2>1, <1>12
  <2>2. CASE q.stage = r.stage + 1 /\ Qualifying(q) = Timer(0, good(q.stage), now)
    <3>1. PICK s : s = q.stage
      OBVIOUS
    <3> DEFINE g == good(s)
    <3>2. now \in Nat /\ g \in BOOLEAN /\ [stage |-> s, at |-> now, good |-> g] \in T
      BY <3>1, <1>6, <1>8, <1>10
    <3>3. \A x \in T : x = [stage |-> s, at |-> now, good |-> g] \/ x.stage # s
      BY <3>1, <2>2, <1>4, <1>9, <1>10 DEF Samples
    <3> HIDE DEF g
    <3>4. ASSUME NEW u, u = Timer(0, g, now), u # 0 PROVE Since(s, u, T)
      <4>1. g /\ u = now
        BY <3>4 DEF Timer
      <4>2. Good(s, now) \in T
        BY <4>1, <3>2 DEF Good
      <4>3. ASSUME NEW x \in T, x.stage = s, x.at > now PROVE FALSE
        BY <4>3, <3>2, <3>3
      <4> QED
        BY <4>1, <4>2, <4>3 DEF Since
    <3>5. Timer(0, good(s), now) # 0 => Since(s, Timer(0, good(s), now), T)
      BY <3>4 DEF g
    <3> QED
      BY <2>2, <3>1, <3>5
  <2> QED
    BY <2>1, <2>2, <1>2
<1>17. q.done => \E from, to \in Instants :
                   to - from >= TailQualificationDuration /\ Since(3, from, T) /\ Good(3, to) \in T
  BY <1>2, <1>13
<1>18. CompletionHeld'
  <2>1. state' = "completed" => q.done
    BY <1>3, <1>4
  <2> QED
    BY <2>1, <1>0, <1>17 DEF CompletionHeld, UnbrokenRun, Since, Good
<1> QED
  BY <1>0, <1>3, <1>5, <1>11, <1>15, <1>16, <1>18 DEF History

\* The first reading of a session finds no timer and no readings.
LEMMA StartKeepsHistory ==
  ASSUME NEW now \in Instants, NEW in \in Inputs, TraceStart(now, in)
  PROVE  History'
<1> USE InstantsTyped
<1>1. /\ Fresh(now) \in Run /\ ~Fresh(now).done /\ Ordered(Fresh(now), now)
      /\ Fresh(now).dwell = 0 /\ Fresh(now).tail = 0 /\ Fresh(now).stage = 1
  BY DEF Fresh, Run, Ordered
<1>2. ~AdvancesFrom(Fresh(now), now, in)
  BY <1>1, NoSecondAdvance
<1>3. Settle(Loop(Fresh(now), now, in)) /\ lastUpdated' = now /\ samples' = {Sample(1, now, in)}
  BY DEF TraceStart, StartAccepted
<1> HIDE DEF Fresh
<1>4. Turn(Fresh(now), now, in).stage = 1
  BY <1>1, <1>2 DEF Turn, Run
<1>5. stage' = 1
  BY <1>1, <1>3, <1>4 DEF Loop, Settle
<1>6. samples' = {} \cup {Sample(s, now, in) : s \in {Fresh(now).stage, stage'}}
  BY <1>1, <1>3, <1>5
<1>7. Seen({}, Fresh(now).stage, now) /\ Qualifying(Fresh(now)) = 0
      /\ \A s \in 1 .. Fresh(now).stage - 1 : Left({}, s)
  BY <1>1 DEF Seen, Qualifying
<1> QED
  BY <1>1, <1>3, <1>6, <1>7, SettleKeepsHistory

LEMMA UpdateKeepsHistory ==
  ASSUME IInv, History, NEW now \in Instants, NEW in \in Inputs, TraceUpdate(now, in)
  PROVE  History'
<1> USE InstantsTyped
<1>1. /\ state = "running" /\ now >= lastUpdated
      /\ Settle(Loop(Current, now, in)) /\ lastUpdated' = now
      /\ samples' = samples \cup {Sample(s, now, in) : s \in {stage, stage'}}
  BY DEF TraceUpdate, UpdateEvaluated, InSession
<1>2. Current \in Run /\ Ordered(Current, now) /\ ~Current.done
  BY <1>1, CurrentOrdered
<1>3. /\ Current.stage = stage /\ Current.dwell = dwellStartedAt /\ Current.tail = tailStartedAt
      /\ Qualifying(Current) = Elapsing
  BY DEF Current, Qualifying, Elapsing
<1>4. dwellStartedAt \in Instants \cup {0} /\ tailStartedAt \in Instants \cup {0}
      /\ lastUpdated \in Nat
  BY DEF IInv, TypeOK
<1>5. Seen(samples, stage, now)
  <2>1. Seen(samples, stage, lastUpdated)
    BY <1>1 DEF History
  <2>2. ASSUME NEW x \in samples PROVE x.at <= now
    <3>1. x \in Samples /\ x.at <= lastUpdated
      BY <2>1 DEF Seen
    <3>2. x.at \in Nat
      BY <3>1 DEF Samples
    <3> QED
      BY <3>1, <3>2, <1>1, <1>4
  <2> QED
    BY <2>1, <2>2 DEF Seen
<1> HIDE DEF Current
<1> QED
  BY <1>1, <1>2, <1>3, <1>4, <1>5, SettleKeepsHistory DEF History

TraceInv == IInv /\ History

LEMMA StepTraceInv == TraceInv /\ [TraceNext]_traceVars => TraceInv'
<1> SUFFICES ASSUME TraceInv, [TraceNext]_traceVars PROVE TraceInv'
  OBVIOUS
<1>1. ASSUME NEW now \in Instants, NEW in \in Inputs, TraceStart(now, in)
      PROVE  TraceInv'
  <2>1. [Next]_vars
    BY <1>1 DEF TraceStart, Next
  <2> QED
    BY <1>1, <2>1, StepIInv, StartKeepsHistory DEF TraceInv
<1>2. ASSUME NEW now \in Instants, NEW in \in Inputs, TraceUpdate(now, in)
      PROVE  TraceInv'
  <2>1. [Next]_vars
    BY <1>2 DEF TraceUpdate, Next
  <2> QED
    BY <1>2, <2>1, StepIInv, UpdateKeepsHistory DEF TraceInv
<1>3. CASE TraceRejected
  <2>1. [Next]_vars
    BY <1>3 DEF TraceRejected, Next
  <2>2. state' = "faulted"
    BY <1>3 DEF TraceRejected, StartRejected, UpdateRejected, FailClosed
  <2> QED
    BY <2>1, <2>2, StepIInv DEF TraceInv, History
<1>4. CASE TraceOther
  <2>1. [Next]_vars
    BY <1>4 DEF TraceOther, Next
  <2>2. state' \in {"faulted", "timed_out", "stopped", "idle"}
    BY <1>4 DEF TraceOther, UpdateBackwards, UpdateTimedOut, Stop, Abort, Reset, FailClosed,
                Schedule!Stop, Schedule!Abort, Schedule!Reset, Schedule!End
  <2> QED
    BY <2>1, <2>2, StepIInv DEF TraceInv, History
<1>5. CASE UNCHANGED traceVars
  <2>1. [Next]_vars /\ History'
    BY <1>5 DEF traceVars, vars, timers, TraceInv, History, Elapsing, CompletionHeld, UnbrokenRun
  <2> QED
    BY <2>1, StepIInv DEF TraceInv
<1> QED
  BY <1>1, <1>2, <1>3, <1>4, <1>5 DEF TraceNext

\* Every stage a session has left, and every completion, stands on an unbroken run of
\* good readings as long as the contract asks for, whatever instants and inputs the
\* engine is called with (engine.go:166-256).
THEOREM StagesHeldHolds == TraceSpec => []StagesHeld
<1>1. TraceInit => TraceInv
  BY InitIInv DEF TraceInit, TraceInv, History, Init, Schedule!Init
<1>2. TraceInv => StagesHeld
  BY DEF TraceInv, History, StagesHeld, EveryStageHeld, CompletionHeld, Left, UnbrokenRun, Since, Good
<1> QED
  BY <1>1, <1>2, StepTraceInv, PTL DEF TraceSpec

-----------------------------------------------------------------------------
\* The pack gates never look for a missing address: they compare a count and
\* reject strangers and repeats.  That is enough: an input that passes has one
\* pack at every address of the contract (engine.go:330-353).
THEOREM EveryAddressReports ==
  ASSUME NEW in \in Input, ValidInput(in)
  PROVE  {in.packs[i].addr : i \in DOMAIN in.packs} = ExpectedAddresses
<1> DEFINE S == DOMAIN in.packs
           f == [i \in S |-> in.packs[i].addr]
<1>1. in.packs \in Seq(Pack)
  BY DEF Input
<1>2. S = 1 .. Len(in.packs) /\ Len(in.packs) \in Nat
  BY <1>1
<1>3. IsFiniteSet(S) /\ Cardinality(S) = Cardinality(ExpectedAddresses)
  BY <1>2, FS_Interval DEF ValidInput
<1>4. f \in [S -> ExpectedAddresses]
  BY DEF ValidInput, ValidPack
<1>5. f \in Injection(S, ExpectedAddresses)
  BY <1>4 DEF ValidInput, DistinctPacks, Injection, IsInjective
<1>6. f \in Surjection(S, ExpectedAddresses)
  BY <1>3, <1>5, FS_Injection, AddressesFinite
<1> QED
  BY <1>4, <1>6 DEF Surjection
=============================================================================
