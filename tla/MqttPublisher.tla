---------------------------- MODULE MqttPublisher ----------------------------
(***************************************************************************)
(* The MQTT side (serve/mqtt.go): what the broker retains about the        *)
(* controller.  Discovery, availability and states are published by one    *)
(* goroutine for each connection, by main while it wires the publisher, by *)
(* Run, and by one goroutine for each command.                             *)
(*                                                                         *)
(* The broker and the client library are external: what is published while *)
(* the connection is lost is lost too; what the library keeps of it and    *)
(* repeats, OnConnect publishes again.                                     *)
(***************************************************************************)
EXTENDS Integers, FiniteSets

CONSTANTS
  MqttCommands,     \* the commands that are delivered, with their goroutines
  Main, Run,        \* the other goroutines that publish states
  MaxLosses,        \* bound: how often the connection is lost
  MaxVersion,       \* bound: how often what is published changes
  NoState

Publishers  == MqttCommands \cup {Main, Run}
Connections == 1 .. (MaxLosses + 1)
Topics      == {"control", "switch"}

ASSUME PublisherAssumption ==
  /\ Main \notin MqttCommands /\ Run \notin MqttCommands /\ Main # Run
  /\ MaxLosses \in Nat /\ MaxVersion \in Nat /\ NoState \notin Nat

VARIABLES
  link,             \* broken is a loss that the broker has not noticed
  greeting,         \* the goroutine of OnConnect of each connection
  listening,
  retainedCommand,  \* whether somebody has left a command on its topic
  announced,        \* the entities whose discovery is retained
  availability,     \* retained, like shown
  shown,            \* the state topics of the settings and of the conditioning switch
  truth,            \* what Hub.Settings and Status say, by version
  reading,          \* what a publisher of states has read and not yet published
  cmd,              \* what the goroutine of a command does, and the topic it concerns
  wiring,           \* how far main is
  attached,         \* MQTTPublisher.conditioning is set
  run,              \* MQTTPublisher.Run
  stopping          \* the context of Run is done

connection == <<link, greeting, listening, retainedCommand>>
retained   == <<announced, availability, shown>>
publisher  == <<reading, cmd, wiring, attached, run>>
mqttVars   == <<connection, retained, publisher, truth, stopping>>

PublisherTypeOK ==
  /\ link \in {"off", "up", "broken", "down", "closed"}
  /\ greeting \in [Connections -> {"none", "announce", "subscribe", "online", "done"}]
  /\ listening \in BOOLEAN /\ retainedCommand \in BOOLEAN
  /\ announced \subseteq {"sensors", "controls", "conditioning"}
  /\ availability \in {"none", "online", "offline"}
  /\ shown \in [Topics -> 0 .. MaxVersion \cup {NoState}]
  /\ truth \in [Topics -> 0 .. MaxVersion]
  /\ reading \in [Publishers -> [topic : Topics, version : 0 .. MaxVersion] \cup {NoState}]
  /\ cmd \in [MqttCommands -> [at : {"none", "new", "show", "done"}, topic : Topics]]
  /\ wiring \in {"connect", "declare", "tell", "done", "gone"}
  /\ attached \in BOOLEAN /\ stopping \in BOOLEAN
  /\ run \in {"off", "on", "offline", "left"}

Untouched ==
  /\ link = "off" /\ greeting = [n \in Connections |-> "none"]
  /\ listening = FALSE /\ retainedCommand \in BOOLEAN
  /\ announced = {} /\ availability = "offline"
  /\ shown = [t \in Topics |-> NoState] /\ truth = [t \in Topics |-> 0]
  /\ reading = [a \in Publishers |-> NoState]
  /\ cmd \in [MqttCommands -> [at : {"none"}, topic : Topics]]
  /\ attached = FALSE /\ run = "off"

PublisherInit == Untouched /\ wiring = "connect" /\ stopping = FALSE

Alive == wiring # "gone"

-----------------------------------------------------------------------------
(***************************************************************************)
(* The connection and the broker.                                          *)
(***************************************************************************)
Made == Cardinality({n \in Connections : greeting[n] # "none"})

\* The library tries until Disconnect.  A connection that takes over from one the
\* broker still believes in makes it publish the will.
Connect ==
  /\ Alive /\ run # "left" /\ link \in {"off", "broken", "down"}
  /\ link' = "up" /\ listening' = FALSE
  /\ greeting' = [greeting EXCEPT ![Made + 1] = "announce"]
  /\ availability' = IF link = "broken" THEN "offline" ELSE availability
  /\ UNCHANGED <<retainedCommand, announced, shown, publisher, truth, stopping>>

\* The network fails, or the broker starts again without what it retained.
Lose ==
  /\ link = "up" /\ Made <= MaxLosses
  /\ \/ link' = "broken" /\ UNCHANGED retained
     \/ link' = "down" /\ announced' = {} /\ availability' = "none"
        /\ shown' = [t \in Topics |-> NoState]
  /\ UNCHANGED <<greeting, listening, retainedCommand, publisher, truth, stopping>>

\* The connection of a process that is gone is closed without a Disconnect.
BrokerNotices ==
  /\ link = "broken" \/ (link = "up" /\ ~Alive)
  /\ link' = "down" /\ availability' = "offline"
  /\ UNCHANGED <<greeting, listening, retainedCommand, announced, shown, publisher, truth, stopping>>

Published(old, new) == IF link = "up" THEN new ELSE old

\* The switch and the sensors of conditioning once there is a controller.
Discovered == {"sensors", "controls"} \cup IF attached THEN {"conditioning"} ELSE {}

Announce(n) ==
  /\ greeting[n] = "announce"
  /\ greeting' = [greeting EXCEPT ![n] = "subscribe"]
  /\ announced' = Published(announced, announced \cup Discovered)
  /\ UNCHANGED <<link, listening, retainedCommand, availability, shown, publisher, truth, stopping>>

Deliver(c) == cmd[c].at = "none" /\ cmd' = [cmd EXCEPT ![c].at = "new"]

\* With a subscription comes what is retained on its topics; a command to the switch of
\* conditioning is ignored then, and the state published all the same.
DeliverRetained(c) ==
  /\ cmd[c].at = "none"
  /\ cmd' = [cmd EXCEPT ![c].at = IF cmd[c].topic = "switch" THEN "show" ELSE "new"]

SubscribeControls(n) ==
  /\ greeting[n] = "subscribe"
  /\ greeting' = [greeting EXCEPT ![n] = "online"]
  /\ listening' = Published(listening, TRUE)
  /\ \/ link = "up" /\ retainedCommand /\ \E c \in MqttCommands : DeliverRetained(c)
     \/ UNCHANGED cmd
  /\ UNCHANGED <<link, retainedCommand, retained, reading, wiring, attached, run, truth, stopping>>

Online(n) ==
  /\ greeting[n] = "online"
  /\ greeting' = [greeting EXCEPT ![n] = "done"]
  /\ availability' = Published(availability, "online")
  /\ UNCHANGED <<link, listening, retainedCommand, announced, shown, publisher, truth, stopping>>

-----------------------------------------------------------------------------
(***************************************************************************)
(* States: read, and then published.                                       *)
(***************************************************************************)
HasState(topic) == IF topic = "control" THEN truth[topic] # 0 ELSE attached

Look(a, topic) ==
  reading' = [reading EXCEPT ![a] =
    IF HasState(topic) THEN [topic |-> topic, version |-> truth[topic]] ELSE NoState]

Show(a) ==
  /\ reading[a] # NoState
  /\ shown' = Published(shown, [shown EXCEPT ![reading[a].topic] = reading[a].version])
  /\ reading' = [reading EXCEPT ![a] = NoState]
  /\ UNCHANGED <<connection, announced, availability, cmd, attached, truth, stopping>>

Change(topic) ==
  /\ truth[topic] < MaxVersion
  /\ truth' = [truth EXCEPT ![topic] = @ + 1]

\* By the tick loop, a refresh, the web interface.
ChangeElsewhere ==
  /\ Alive /\ \E topic \in Topics : Change(topic)
  /\ UNCHANGED <<connection, retained, publisher, stopping>>

Press ==
  /\ link = "up" /\ listening /\ \E c \in MqttCommands : Deliver(c)
  /\ UNCHANGED <<connection, retained, reading, wiring, attached, run, truth, stopping>>

\* Done or in vain; in vain a control command publishes nothing.
CommandRuns(c) ==
  /\ cmd[c].at = "new"
  /\ \/ cmd' = [cmd EXCEPT ![c].at = "show"] /\ (Change(cmd[c].topic) \/ UNCHANGED truth)
     \/ cmd[c].topic = "control" /\ cmd' = [cmd EXCEPT ![c].at = "done"] /\ UNCHANGED truth
  /\ UNCHANGED <<connection, retained, reading, wiring, attached, run, stopping>>

CommandLooks(c) ==
  /\ cmd[c].at = "show" /\ cmd' = [cmd EXCEPT ![c].at = "done"]
  /\ Look(c, cmd[c].topic)
  /\ UNCHANGED <<connection, retained, wiring, attached, run, truth, stopping>>

CommandShows(c) == Show(c) /\ UNCHANGED <<wiring, run>>

\* Mutant: Run has no ticker.
SnapshotsOnly(topic) == topic = "control" /\ Look(Run, topic)

\* A snapshot has come, or the ticker of five seconds fires.
RunReads(topic) == Look(Run, topic)

RunLooks(topic) ==
  /\ run = "on" /\ reading[Run] = NoState
  /\ RunReads(topic)
  /\ UNCHANGED <<connection, retained, cmd, wiring, attached, run, truth, stopping>>

RunShows == Show(Run) /\ UNCHANGED <<wiring, run>>

\* Mutant: Run closes the connection and says nothing.
LeavesSilently ==
  /\ run = "on" /\ reading[Run] = NoState /\ stopping
  /\ run' = "offline"
  /\ UNCHANGED <<connection, retained, reading, cmd, wiring, attached, truth, stopping>>

\* Its context is done.
RunLeaves ==
  /\ run = "on" /\ reading[Run] = NoState /\ stopping
  /\ run' = "offline" /\ availability' = Published(availability, "offline")
  /\ UNCHANGED <<connection, announced, shown, reading, cmd, wiring, attached, truth, stopping>>

\* A connection closed in order publishes no will.
Disconnect ==
  /\ run = "offline" /\ run' = "left"
  /\ link' = IF link = "broken" THEN link ELSE "closed"
  /\ UNCHANGED <<greeting, listening, retainedCommand, retained, reading, cmd, wiring, attached,
                 truth, stopping>>

-----------------------------------------------------------------------------
(***************************************************************************)
(* main wires the publisher.                                               *)
(***************************************************************************)
Wire(from, to) == wiring = from /\ wiring' = to

\* NewMQTTPublisher returns when its first connection is made.
Attach ==
  /\ Wire("connect", "declare") /\ Made > 0 /\ attached' = TRUE
  /\ UNCHANGED <<connection, retained, reading, cmd, run, truth, stopping>>

DeclareConditioning ==
  /\ Wire("declare", "tell") /\ Look(Main, "switch")
  /\ announced' = Published(announced, announced \cup {"conditioning"})
  /\ UNCHANGED <<connection, availability, shown, cmd, attached, run, truth, stopping>>

MainShows == Show(Main) /\ Wire("tell", "done") /\ run' = "on"

Stop ==
  /\ Alive /\ ~stopping /\ stopping' = TRUE
  /\ UNCHANGED <<connection, retained, publisher, truth>>

\* main waits neither for Run nor for anyone else.
Gone ==
  /\ stopping /\ Wire("done", "gone")
  /\ UNCHANGED <<connection, retained, reading, cmd, attached, run, truth, stopping>>

PublisherNext ==
  \/ Connect \/ Lose \/ BrokerNotices \/ ChangeElsewhere \/ Stop
  \/ Alive /\ ( \/ Press \/ RunShows \/ RunLeaves \/ Disconnect
                \/ Attach \/ DeclareConditioning \/ MainShows \/ Gone
                \/ \E n \in Connections : Announce(n) \/ SubscribeControls(n) \/ Online(n)
                \/ \E c \in MqttCommands : CommandRuns(c) \/ CommandLooks(c) \/ CommandShows(c)
                \/ \E topic \in Topics : RunLooks(topic) )

PublisherSpec == PublisherInit /\ [][PublisherNext]_mqttVars

-----------------------------------------------------------------------------
(***************************************************************************)
(* Fairness.  A goroutine that can go on does, snapshots and ticks keep    *)
(* coming and select is random among them, the broker can be reached again *)
(* and notices what it has lost.                                           *)
(***************************************************************************)
PublisherFairness ==
  /\ WF_mqttVars(Connect) /\ WF_mqttVars(BrokerNotices)
  /\ \A n \in Connections : WF_mqttVars(Alive /\ (Announce(n) \/ SubscribeControls(n) \/ Online(n)))
  /\ \A c \in MqttCommands : WF_mqttVars(Alive /\ (CommandRuns(c) \/ CommandLooks(c) \/ CommandShows(c)))
  /\ \A topic \in Topics : SF_mqttVars(Alive /\ RunLooks(topic))
  /\ WF_mqttVars(Alive /\ RunShows) /\ WF_mqttVars(Alive /\ Disconnect)
  /\ WF_mqttVars(Alive /\ (Attach \/ DeclareConditioning \/ MainShows))

PublisherFairSpec == PublisherSpec /\ PublisherFairness

-----------------------------------------------------------------------------
(***************************************************************************)
(* Properties.                                                             *)
(***************************************************************************)
CaughtUp ==
  /\ link = "up" /\ listening /\ availability = "online"
  /\ announced = {"sensors", "controls", "conditioning"}
  /\ \A topic \in Topics : HasState(topic) => shown[topic] = truth[topic]

\* Whatever connections are lost, whatever the broker forgets and whichever publications
\* overtake each other, it comes to show what is so, and to deliver commands
\* (mqtt.go:255-260 and 287-302).
BrokerCatchesUp == <>[](CaughtUp \/ stopping)

\* The entities of a process that is gone do not stay available, by Run's "offline" or by
\* the will; unless OnConnect is still at work when Run says so.
Overlap == run = "offline" /\ \E n \in Connections : greeting[n] \notin {"none", "done"}
GoneIsOffline == []~Overlap => (~Alive ~> availability # "online")
==============================================================================
