------------------------------ MODULE TickClock ------------------------------
(***************************************************************************)
(* The instants a session is decided on (runConditioningTicks of           *)
(* cmd/serve.go, Tick of serve/conditioning.go).  The ticker's channel     *)
(* holds one tick: while a Tick is busy with the inverters the next one    *)
(* waits there, and is then decided at the instant it was due, on readings *)
(* which went on arriving meanwhile.                                       *)
(*                                                                         *)
(* Time advances in units; whatever is ready to run runs before it does.   *)
(* An operation of the service lasts MaxOp at the most: the 90 seconds of  *)
(* a Tick's context, the two minutes of a Start's.                         *)
(***************************************************************************)
EXTENDS Integers

CONSTANTS
  Packs,            \* the monitored packs
  Period,           \* between two ticks, 5 s in the code
  MaxAge,           \* a reading's: DefaultMaxInverterAge, DefaultMaxTelemetryAge
  MaxOp,            \* an operation that holds opMu lasts no longer
  Horizon,          \* bound: the last instant
  NoTick

ASSUME TickAssumption ==
  /\ {Period, MaxAge, MaxOp} \subseteq Nat \ {0} /\ Horizon \in Nat
  /\ NoTick \notin Nat

VARIABLES
  clock,
  due,              \* when the ticker fires next
  tick,             \* the tick in its channel
  taken,            \* the tick that waits for opMu, in Tick
  session,          \* running is ConditioningService.active, pending is recovery
  holder,           \* what the holder of opMu does
  appliedAt,        \* ConditioningService.appliedAt
  lastUpdated,      \* Engine.lastUpdated
  observed,         \* Hub.latest: its Time, and whether it has no error
  heard             \* when each pack last reported

ticker   == <<due, tick>>
service  == <<session, appliedAt, lastUpdated>>
readings == <<observed, heard>>
tickVars == <<clock, ticker, taken, holder, service, readings>>

\* loop: whether it is the tick loop that holds opMu; busy: whether the hub has
\* claimed the callback of the operation.
Free == [is |-> "none", loop |-> FALSE, busy |-> FALSE, since |-> 0]

Queued(kind, byLoop) == [is |-> kind, loop |-> byLoop, busy |-> FALSE, since |-> clock]

TickTypeOK ==
  /\ clock \in Nat /\ due \in Nat
  /\ tick \in Nat \cup {NoTick} /\ taken \in Nat \cup {NoTick}
  /\ session \in {"none", "running", "pending"}
  /\ holder \in [is : {"none", "start", "apply", "check", "stage", "restore"},
            loop : BOOLEAN, busy : BOOLEAN, since : Nat]
  /\ appliedAt \in Nat /\ lastUpdated \in Nat
  /\ observed \in [at : Nat, good : BOOLEAN]
  /\ heard \in [Packs -> Nat]

TickInit ==
  /\ clock = 0 /\ due = Period
  /\ tick = NoTick /\ taken = NoTick
  /\ session \in {"none", "pending"} /\ holder = Free
  /\ appliedAt = 0 /\ lastUpdated = 0
  /\ observed = [at |-> 0, good |-> TRUE]
  /\ heard = [p \in Packs |-> 0]

-----------------------------------------------------------------------------
(***************************************************************************)
(* Time and readings.                                                      *)
(***************************************************************************)
LoopBusy == taken # NoTick \/ holder.loop

\* Nothing is left to run at this instant: no tick for an idle loop, no free
\* lock for a waiting Tick, no operation at its end.
Settled ==
  /\ tick # NoTick => LoopBusy
  /\ IF holder = Free THEN taken = NoTick ELSE clock - holder.since < MaxOp

\* A tick that finds the last one still in the channel is dropped.
Advance ==
  /\ Settled /\ clock < Horizon
  /\ clock' = clock + 1
  /\ IF due = clock + 1
     THEN due' = due + Period /\ tick' = IF tick = NoTick THEN due ELSE tick
     ELSE UNCHANGED ticker
  /\ UNCHANGED <<taken, holder, service, readings>>

\* The hub polls between the callbacks it runs, never in one.
HubPolls ==
  /\ ~holder.busy
  /\ \E good \in BOOLEAN : observed' = [at |-> clock, good |-> good]
  /\ UNCHANGED <<clock, ticker, taken, holder, service, heard>>

Report(p) ==
  /\ heard' = [heard EXCEPT ![p] = clock]
  /\ UNCHANGED <<clock, ticker, taken, holder, service, observed>>

Young(at, now) == now - at \in 0 .. MaxAge

\* Mutant: the age of a pack's telemetry is not asked for.
InverterGate(now) == observed.good /\ Young(observed.at, now)

\* The gates that ask for the age of a reading.
GatesPass(now) == observed.good /\ Young(observed.at, now) /\ \A p \in Packs : Young(heard[p], now)

-----------------------------------------------------------------------------
(***************************************************************************)
(* Start, Stop and the retried restoration, at any time.                   *)
(***************************************************************************)
Claim ==
  /\ holder # Free /\ ~holder.busy
  /\ holder' = [holder EXCEPT !.busy = TRUE]
  /\ UNCHANGED <<clock, ticker, taken, service, readings>>

Start ==
  /\ holder = Free /\ session = "none"
  /\ holder' = Queued("start", FALSE)
  /\ UNCHANGED <<clock, ticker, taken, service, readings>>

\* Decided in the callback, at the present.
Preflight ==
  /\ holder.is = "start" /\ holder.busy
  /\ \/ /\ GatesPass(clock)
        /\ holder' = [holder EXCEPT !.is = "apply"] /\ lastUpdated' = clock
     \/ holder' = Free /\ UNCHANGED lastUpdated
  /\ UNCHANGED <<clock, ticker, taken, session, appliedAt, readings>>

\* The first profile is written, or it is not and may or may not be undone.
Applied ==
  /\ holder.is = "apply"
  /\ holder' = Free
  /\ \/ session' = "running" /\ appliedAt' = clock
     \/ session' \in {"none", "pending"} /\ UNCHANGED appliedAt
  /\ UNCHANGED <<clock, ticker, taken, lastUpdated, readings>>

Stop ==
  /\ holder = Free /\ session = "running"
  /\ holder' = Queued("restore", FALSE) /\ session' = "pending"
  /\ UNCHANGED <<clock, ticker, taken, appliedAt, lastUpdated, readings>>

\* By Stop or by the tick loop, which asks for no instant.
Recover ==
  /\ holder = Free /\ session = "pending"
  /\ holder' = Queued("restore", FALSE)
  /\ UNCHANGED <<clock, ticker, taken, service, readings>>

Restored ==
  /\ holder.is = "restore" /\ holder.busy
  /\ holder' = Free
  /\ session' \in {"none", "pending"}
  /\ UNCHANGED <<clock, ticker, taken, appliedAt, lastUpdated, readings>>

-----------------------------------------------------------------------------
(***************************************************************************)
(* The tick loop.                                                          *)
(***************************************************************************)

\* The loop looks at Status before it calls Tick, which then waits for opMu.
Take ==
  /\ ~LoopBusy /\ tick # NoTick
  /\ taken' = IF session = "running" THEN tick ELSE NoTick
  /\ tick' = NoTick
  /\ UNCHANGED <<clock, due, holder, service, readings>>

\* Tick has opMu.
Decides == holder = Free /\ taken # NoTick /\ taken' = NoTick

TickOfNoSession ==
  /\ Decides /\ session # "running"
  /\ UNCHANGED <<clock, ticker, holder, service, readings>>

Observed == observed.at > appliedAt

\* Mutant: it waits for a snapshot for ever.
NeverExpired(now) == FALSE

\* No snapshot came in the time an inverter's may have.
Expired(now) == now - appliedAt >= MaxAge

\* Until there is a snapshot taken after the last write nothing is decided.
TickWaits ==
  /\ Decides /\ session = "running" /\ ~Observed /\ ~Expired(taken)
  /\ UNCHANGED <<clock, ticker, holder, service, readings>>

Refused(now) == now < lastUpdated \/ ~GatesPass(now)

TickFaults ==
  /\ Decides /\ session = "running"
  /\ IF Observed THEN Refused(taken) ELSE Expired(taken)
  /\ session' = "pending" /\ holder' = Queued("restore", TRUE)
  /\ UNCHANGED <<clock, ticker, appliedAt, lastUpdated, readings>>

TickAccepts ==
  /\ Decides /\ session = "running" /\ Observed /\ ~Refused(taken)
  /\ lastUpdated' = taken /\ holder' = Queued("check", TRUE)
  /\ UNCHANGED <<clock, ticker, session, appliedAt, readings>>

\* The registers are as they should be, and the stage stays or is to be written;
\* or they are not.
Checked ==
  /\ holder.is = "check" /\ holder.busy
  /\ \/ holder' \in {Free, [holder EXCEPT !.is = "stage", !.busy = FALSE]} /\ UNCHANGED session
     \/ holder' = Queued("restore", TRUE) /\ session' = "pending"
  /\ UNCHANGED <<clock, ticker, taken, appliedAt, lastUpdated, readings>>

StageWritten ==
  /\ holder.is = "stage" /\ holder.busy
  /\ \/ holder' = Free /\ appliedAt' = clock /\ UNCHANGED session
     \/ holder' = Queued("restore", TRUE) /\ session' = "pending" /\ UNCHANGED appliedAt
  /\ UNCHANGED <<clock, ticker, taken, lastUpdated, readings>>

TickNext ==
  \/ Advance \/ HubPolls \/ \E p \in Packs : Report(p)
  \/ Claim \/ Start \/ Preflight \/ Applied \/ Stop \/ Recover \/ Restored
  \/ Take \/ TickOfNoSession \/ TickWaits \/ TickFaults \/ TickAccepts
  \/ Checked \/ StageWritten

TickSpec == TickInit /\ [][TickNext]_tickVars

-----------------------------------------------------------------------------
(***************************************************************************)
(* Properties.                                                             *)
(***************************************************************************)
\* One unit less for a Tick that begins late and one for a ticker that is not due.
Notice == 2 * (MaxAge + MaxOp) + Period - 2

\* "Stale telemetry ... stops the cycle" (README.md:67): however slow the inverters, however
\* many ticks are lost, a session does not outlive the silence of a pack or of
\* the hub by more than Notice.  Half of it is what the wait for a snapshot
\* after a write adds, in which no reading is looked at (conditioning.go:203-210).
SilenceNoticed ==
  session = "running" =>
    clock - observed.at <= Notice /\ \A p \in Packs : clock - heard[p] <= Notice

\* Some reading is too old now.
StaleNow == ~GatesPass(clock) \/ clock - observed.at >= MaxAge

\* What stops a session that did nothing else wrong is stale telemetry
\* (README.md:67, conditioning/doc.go:40-44).
OnlyStaleStops == [][TickFaults => StaleNow]_tickVars
==============================================================================
