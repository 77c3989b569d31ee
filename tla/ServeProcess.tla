---------------------------- MODULE ServeProcess ----------------------------
(***************************************************************************)
(* The process (runServe of cmd/serve.go): main from the start to the      *)
(* exit, with the tick loop and the requests to start and stop a session,  *)
(* which come over HTTP or MQTT and run in goroutines of their own.  ctx   *)
(* is done when a signal comes; hubCtx is not before main stops the hub.   *)
(*                                                                         *)
(* ConditioningService is reduced to opMu, active and recovery.  The       *)
(* configuration has an MQTT broker and conditioning.                      *)
(***************************************************************************)
EXTENDS Integers

CONSTANTS
  MaxRequests,      \* bound: how many requests arrive, the first is request 1
  MainThread, TickLoop,
  Unlocked

Requests == 1 .. MaxRequests
NoRequest == [at |-> "none", what |-> "OFF", mqtt |-> FALSE, retained |-> FALSE]

ASSUME ServeAssumption ==
  /\ MaxRequests \in Nat \ {0}
  /\ {MainThread, TickLoop, Unlocked} \cap Nat = {}

VARIABLES
  phase,            \* where main stands
  told,             \* ctx is done
  ticks,            \* the tick loop, and what it has chosen to do
  broker,           \* whether the MQTT client has been connected
  opMu,             \* who holds it
  session,          \* active and recovery of ConditioningService
  request           \* the requests, with the goroutines that serve them

procVars == <<phase, told, ticks, broker, opMu, session, request>>

NoSession == [active |-> FALSE, recovery |-> FALSE]
Active    == [active |-> TRUE,  recovery |-> FALSE]
Pending   == [active |-> FALSE, recovery |-> TRUE]

ServeTypeOK ==
  /\ phase \in {"starting", "recovering", "ticking", "connecting", "serving",
                "cancelled", "restoring", "stopping", "exited"}
  /\ told \in BOOLEAN /\ broker \in BOOLEAN
  /\ ticks \in {"off", "idle", "tick", "recover"}
  /\ opMu \in Requests \cup {Unlocked, MainThread, TickLoop}
  /\ session \in [active : BOOLEAN, recovery : BOOLEAN]
  /\ request \in [Requests -> [at : {"none", "new", "busy", "done", "ignored"}, what : {"ON", "OFF"},
                               mqtt : BOOLEAN, retained : BOOLEAN]]

AtRest ==
  /\ told = FALSE /\ ticks = "off" /\ broker = FALSE
  /\ opMu = Unlocked /\ session \in {NoSession, Pending}
  /\ request = [r \in Requests |-> NoRequest]

ServeInit == AtRest /\ phase = "starting"

HubRuns == phase \notin {"starting", "exited"}

\* What Start, Stop, Recover and Tick may leave of the session they find.  Recover
\* looks at the journal, not at active.
Started   == IF session = NoSession THEN {Active, NoSession, Pending} ELSE {session}
Stopped   == IF session = NoSession THEN {session} ELSE {NoSession, Pending}
Recovered == IF session = NoSession THEN {session}
             ELSE [active : {session.active}, recovery : BOOLEAN]
Ticked    == IF session.active THEN {session, NoSession, Pending} ELSE {session}

Lock(t) == opMu = Unlocked /\ opMu' = t

Operate(t, outcomes) ==
  /\ opMu = t /\ opMu' = Unlocked
  /\ session' \in outcomes

-----------------------------------------------------------------------------
(***************************************************************************)
(* main.                                                                   *)
(***************************************************************************)
Proceed(from, to) == phase = from /\ phase' = to

Signal ==
  /\ ~told /\ phase # "exited" /\ told' = TRUE
  /\ UNCHANGED <<phase, ticks, broker, opMu, session, request>>

\* A connection to an inverter fails, or the initialisation, which is under ctx.
InitFails ==
  /\ Proceed("starting", "exited")
  /\ UNCHANGED <<told, ticks, broker, opMu, session, request>>

SystemInit ==
  /\ Proceed("starting", "recovering")
  /\ UNCHANGED <<told, ticks, broker, opMu, session, request>>

RecoverBegins ==
  /\ phase = "recovering" /\ Lock(MainThread)
  /\ UNCHANGED <<phase, told, ticks, broker, session, request>>

RecoverReturns ==
  /\ Proceed("recovering", "ticking") /\ Operate(MainThread, Recovered)
  /\ UNCHANGED <<told, ticks, broker, request>>

StartTicks ==
  /\ Proceed("ticking", "connecting") /\ ticks' = "idle"
  /\ UNCHANGED <<told, broker, opMu, session, request>>

\* The library tries for as long as it takes.
BrokerAccepts ==
  /\ phase = "connecting" /\ ~broker /\ broker' = TRUE
  /\ UNCHANGED <<phase, told, ticks, opMu, session, request>>

\* NewMQTTPublisher waits for the first connection, under no context.
TokenComplete ==
  /\ Proceed("connecting", "serving") /\ broker
  /\ UNCHANGED <<told, ticks, broker, opMu, session, request>>

\* The token has an error, as for an address that names no broker: main returns at
\* once, whatever the ticks and the requests are at, and stops no session.
PublisherFails ==
  /\ Proceed("connecting", "exited") /\ ~broker
  /\ UNCHANGED <<told, ticks, broker, opMu, session, request>>

CancelTicks ==
  /\ Proceed("serving", "cancelled") /\ told
  /\ ticks' = IF ticks = "idle" THEN "off" ELSE ticks
  /\ UNCHANGED <<told, broker, opMu, session, request>>

\* Mutant: main asks Status whether there is anything to stop.
StopIfActive ==
  IF session.active
  THEN phase' = "restoring" /\ Lock(MainThread)
  ELSE phase' = "stopping" /\ UNCHANGED opMu

StopLocks == phase' = "restoring" /\ Lock(MainThread)

StopBegins ==
  /\ phase = "cancelled" /\ StopLocks
  /\ UNCHANGED <<told, ticks, broker, session, request>>

\* Mutant: the restoration is tried until it succeeds.
UntilRestored ==
  /\ Operate(MainThread, Stopped)
  /\ phase' = IF session' = NoSession THEN "stopping" ELSE "cancelled"

\* What could not be restored is in the journal, for the next process.
StopOnce == phase' = "stopping" /\ Operate(MainThread, Stopped)

StopReturns ==
  /\ phase = "restoring" /\ StopOnce
  /\ UNCHANGED <<told, ticks, broker, request>>

Exit ==
  /\ Proceed("stopping", "exited")
  /\ UNCHANGED <<told, ticks, broker, opMu, session, request>>

MainNext ==
  \/ InitFails \/ SystemInit \/ RecoverBegins \/ RecoverReturns \/ StartTicks
  \/ TokenComplete \/ CancelTicks \/ StopBegins \/ StopReturns \/ Exit

-----------------------------------------------------------------------------
(***************************************************************************)
(* The tick loop, which looks at Status before it locks.                   *)
(***************************************************************************)
TickLooks ==
  /\ ticks = "idle" /\ session # NoSession
  /\ ticks' = IF session.active THEN "tick" ELSE "recover"
  /\ UNCHANGED <<phase, told, broker, opMu, session, request>>

TickBegins ==
  /\ ticks \in {"tick", "recover"} /\ Lock(TickLoop)
  /\ UNCHANGED <<phase, told, ticks, broker, session, request>>

TickReturns ==
  /\ Operate(TickLoop, IF ticks = "tick" THEN Ticked ELSE Recovered)
  /\ ticks' = IF phase \in {"cancelled", "restoring", "stopping"} THEN "off" ELSE "idle"
  /\ UNCHANGED <<phase, told, broker, request>>

-----------------------------------------------------------------------------
(***************************************************************************)
(* Requests.                                                               *)
(***************************************************************************)

\* Over MQTT or HTTP.  The end of ctx shuts neither at once.
Arrives(what, mqtt, old) ==
  /\ mqtt => broker
  /\ \E r \in Requests :
       /\ request[r].at = "none" /\ \A q \in 1 .. (r - 1) : request[q].at # "none"
       /\ request' = [request EXCEPT ![r] =
            [at |-> "new", what |-> what, mqtt |-> mqtt, retained |-> old]]
  /\ UNCHANGED <<phase, told, ticks, broker, opMu, session>>

\* A retained command must never restart charging after a reconnection, and before
\* SetConditioning there is nobody to tell.
Ignored(r) == request[r].mqtt /\ (request[r].retained \/ phase = "connecting")

RequestIgnored(r) ==
  /\ request[r].at = "new" /\ Ignored(r)
  /\ request' = [request EXCEPT ![r].at = "ignored"]
  /\ UNCHANGED <<phase, told, ticks, broker, opMu, session>>

RequestBegins(r) ==
  /\ request[r].at = "new" /\ ~Ignored(r)
  /\ request' = [request EXCEPT ![r].at = "busy"] /\ Lock(r)
  /\ UNCHANGED <<phase, told, ticks, broker, session>>

\* Without a run loop a call waits until its context expires.
RequestReturns(r) ==
  /\ request[r].at = "busy" /\ request' = [request EXCEPT ![r].at = "done"]
  /\ Operate(r, IF ~HubRuns THEN {session} ELSE IF request[r].what = "ON" THEN Started ELSE Stopped)
  /\ UNCHANGED <<phase, told, ticks, broker>>

ServeNext ==
  \/ Signal \/ BrokerAccepts \/ PublisherFails \/ MainNext
  \/ phase # "exited" /\ ( \/ TickLooks \/ TickBegins \/ TickReturns
                           \/ \E what \in {"ON", "OFF"} :
                                \/ Arrives(what, FALSE, FALSE)
                                \/ \E old \in BOOLEAN : Arrives(what, TRUE, old)
                           \/ \E r \in Requests :
                                RequestIgnored(r) \/ RequestBegins(r) \/ RequestReturns(r) )

ServeSpec == ServeInit /\ [][ServeNext]_procVars

\* Goroutines go on, operations end, opMu starves nobody; the broker can be reached.
ServeFairness ==
  /\ SF_procVars(MainNext)
  /\ WF_procVars(TickReturns) /\ \A r \in Requests : WF_procVars(RequestReturns(r))
  /\ WF_procVars(BrokerAccepts)

ServeFairSpec == ServeSpec /\ ServeFairness

-----------------------------------------------------------------------------
(***************************************************************************)
(* Properties.                                                             *)
(***************************************************************************)
\* When main comes to its end otherwise than by an error of NewMQTTPublisher, no session is
\* active when it has seen to it, and nobody is at work on one: a Start that holds opMu is
\* waited for, and before the hub runs none can be made (serve.go:179-192).
Ending == {"stopping", "exited"}
ExitRestores ==
  [][phase' \in Ending /\ phase \notin Ending /\ ~PublisherFails
       => ~session'.active /\ (phase' = "stopping" => opMu' = Unlocked)]_procVars

\* A process that is told to end does, whatever main, the ticks and the requests are at
\* and whether or not it can restore -- if the broker has ever been reached: for its
\* first connection main waits under no context (mqtt.go:272).
ExitsWhenTold == told ~> phase = "exited"

\* A cycle is stopped by its switch (README.md:55) and "manual stop ... triggers
\* restoration" (ha-addon/DOCS.md:52): when all requests came over MQTT and are served,
\* and the last was OFF, no session is active.
OffStops ==
  /\ \A r \in Requests : request[r].at = "done" /\ request[r].mqtt
  /\ request[MaxRequests].what = "OFF"
  => ~session.active
==============================================================================
