---------------------------- MODULE PackMonitor ----------------------------
(***************************************************************************)
(* The loop that polls the battery bus (bms/interpack/monitor.go,          *)
(* monitorPort and Run): telemetry of addresses 1 and 0 in turn, which     *)
(* nobody else asks for, and settings of every pack in what time is left,  *)
(* on a bus where the packs' own master speaks when it likes.              *)
(*                                                                         *)
(* Time passes in the read of the port only, in ticks of its timeout       *)
(* (50 ms).  A read that returns nothing has taken one; as this is more    *)
(* than quietDuration, the bus counts as quiet exactly when the last read  *)
(* returned nothing.  Timers count down, to 0 when they are due.           *)
(***************************************************************************)
EXTENDS Naturals, SequencesExt

CONSTANTS
  Candidates,        \* DefaultCandidateAddresses, in order
  Others,            \* other addresses a frame may come from
  ProbeTimeout, ProbeGap, PollInterval, SettingsInterval,  \* in ticks
  InitialQuiet, InitialSettings,
  MaxProbeRetry, MaxSettingsRetry,
  MaxDisconnects     \* bound on the losses of the port

ASSUME MonitorAssumption ==
  /\ {ProbeTimeout, ProbeGap, PollInterval, SettingsInterval} \subseteq Nat \ {0}
  /\ {InitialQuiet, InitialSettings, MaxProbeRetry, MaxSettingsRetry, MaxDisconnects} \subseteq Nat

\* The candidates are a list without repetition, of addresses of one byte.
ASSUME AddressAssumption ==
  /\ Candidates \in Seq(Nat) /\ IsInjective(Candidates)
  /\ Others \subseteq Nat /\ IsFiniteSet(Others)

VARIABLES
  probeState,
  turn,              \* where the loop is: refill, step (its switch) or read
  telemetryDue,      \* to nextTelemetryCycle
  settingsDue,       \* to nextSettingsCycle
  gap,               \* to gapUntil
  waited,            \* since probeSentAt
  quiet,
  polled,            \* telemetryPolled
  replied,           \* addr1Replied, addr0Replied, settingsReplied
  retries,           \* addr0Retries, settingsRetries
  queue, task,       \* settingsQueue, currentTask
  observed,          \* observedAddresses
  disconnects,
  sent,              \* history: what the last request asked for
  open,              \* history: it is unanswered and younger than probeTimeout
  tries              \* history: requests for the task since it was chosen

timers  == <<telemetryDue, settingsDue, gap, waited>>
tasks   == <<queue, task, observed>>
history == <<sent, open, tries>>
monitorVars == <<probeState, turn, timers, quiet, polled, replied, retries, tasks, disconnects, history>>

Packs  == ToSet(Candidates) \cup Others
Blocks == <<"balance", "protection">>
Tasks  == [pack : Packs, block : ToSet(Blocks)]
NoTask == [block |-> "none"]

\* enqueueSettingsForAddress, for each address in turn.
TasksFor(addresses) ==
  FlattenSeq([i \in DOMAIN addresses |->
                [j \in DOMAIN Blocks |-> [pack |-> addresses[i], block |-> Blocks[j]]]])

States == {"idle", "one", "awaitOne", "gap", "zero", "awaitZero",
           "settingsGap", "settingsTx", "settingsWait", "closed"}

MonitorTypeOK ==
  /\ probeState \in States /\ turn \in {"refill", "step", "read"}
  /\ telemetryDue \in Nat /\ settingsDue \in Nat /\ gap \in 0 .. ProbeGap
  /\ waited \in 0 .. ProbeTimeout
  /\ quiet \in BOOLEAN /\ polled \in BOOLEAN
  /\ replied \in [{"one", "zero", "settings"} -> BOOLEAN]
  /\ retries \in [zero : 0 .. MaxProbeRetry, settings : 0 .. MaxSettingsRetry]
  /\ queue \in Seq(Tasks) /\ task \in Tasks \cup {NoTask}
  /\ observed \subseteq Packs
  /\ disconnects \in 0 .. MaxDisconnects
  /\ sent \in {"none", "one", "zero", "settings"}
  /\ open \in BOOLEAN /\ tries \in 0 .. MaxSettingsRetry + 1

\* The first lines of monitorPort, on every connection.
Opened ==
  [probeState |-> "idle", turn |-> "refill", telemetryDue |-> InitialQuiet,
   settingsDue |-> InitialSettings, queue |-> TasksFor(Candidates)]

MonitorInit ==
  /\ probeState = Opened.probeState /\ turn = Opened.turn
  /\ telemetryDue = Opened.telemetryDue /\ settingsDue = Opened.settingsDue
  /\ queue = Opened.queue /\ task = NoTask /\ observed = {}
  /\ gap = 0 /\ waited = 0 /\ quiet = TRUE /\ polled = FALSE
  /\ replied = [k \in {"one", "zero", "settings"} |-> FALSE]
  /\ retries = [zero |-> 0, settings |-> 0]
  /\ disconnects = 0
  /\ sent = "none" /\ open = FALSE /\ tries = 0

-----------------------------------------------------------------------------
\* The settings are asked for again when the interval is over and nothing is
\* left to ask; the map of observed addresses has no order.
Refill ==
  /\ turn = "refill" /\ probeState # "closed"
  /\ turn' = "step"
  /\ \/ /\ settingsDue = 0 /\ queue = <<>>
        /\ \E others \in SetToSeqs(observed \ ToSet(Candidates)) :
             queue' = TasksFor(Candidates \o others)
        /\ settingsDue' = SettingsInterval
     \/ ~(settingsDue = 0 /\ queue = <<>>) /\ UNCHANGED <<queue, settingsDue>>
  /\ UNCHANGED <<probeState, telemetryDue, gap, waited, quiet, polled, replied, retries, task,
                 observed, disconnects, history>>

-----------------------------------------------------------------------------
(***************************************************************************)
(* The switch: one action per way out of a state.                          *)
(***************************************************************************)

At(s)        == turn = "step" /\ probeState = s
GoTo(s)      == probeState' = s /\ turn' = "read"
TelemetryDue == telemetryDue = 0
ProbeOver     == waited >= ProbeTimeout

Ask(what) ==
  /\ sent' = what /\ open' = TRUE /\ waited' = 0

\* Mutant: telemetry takes precedence over a settings reply too.
BeginCycleAnytime ==
  /\ TelemetryDue
  /\ At("idle") \/ At("settingsGap") \/ At("settingsTx") \/ At("settingsWait")
  /\ GoTo("one")
  /\ replied' = [replied EXCEPT !["one"] = FALSE]
  /\ UNCHANGED <<timers, quiet, polled, retries, tasks, disconnects, history>>

\* A telemetry cycle begins, also where settings would be asked for.
BeginCycle ==
  /\ TelemetryDue
  /\ At("idle") \/ At("settingsGap") \/ At("settingsTx")
  /\ GoTo("one")
  /\ replied' = [replied EXCEPT !["one"] = FALSE]
  /\ UNCHANGED <<timers, quiet, polled, retries, tasks, disconnects, history>>

ResumeSettings ==
  /\ At("idle") /\ ~TelemetryDue /\ polled /\ queue # <<>> /\ gap = 0
  /\ GoTo("settingsGap")
  /\ UNCHANGED <<timers, quiet, polled, replied, retries, tasks, disconnects, history>>

PollOne ==
  /\ At("one") /\ quiet
  /\ Ask("one") /\ GoTo("awaitOne")
  /\ UNCHANGED <<telemetryDue, settingsDue, gap, quiet, polled, replied, retries, tasks,
                 disconnects, tries>>

\* Mutant: a cycle ends with an address 1 that does not answer.
OneDoneEnds ==
  /\ At("awaitOne") /\ (replied["one"] \/ ProbeOver)
  /\ gap' = ProbeGap /\ GoTo(IF replied["one"] THEN "gap" ELSE "settingsGap")
  /\ telemetryDue' = IF replied["one"] THEN telemetryDue ELSE PollInterval
  /\ UNCHANGED <<settingsDue, waited, quiet, polled, replied, retries, tasks,
                 disconnects, history>>

OneDone ==
  /\ At("awaitOne") /\ (replied["one"] \/ ProbeOver)
  /\ gap' = ProbeGap /\ GoTo("gap")
  /\ UNCHANGED <<telemetryDue, settingsDue, waited, quiet, polled, replied, retries, tasks,
                 disconnects, history>>

TurnToZero ==
  /\ At("gap") /\ gap = 0
  /\ GoTo("zero")
  /\ replied' = [replied EXCEPT !["zero"] = FALSE]
  /\ retries' = [retries EXCEPT !.zero = 0]
  /\ UNCHANGED <<timers, quiet, polled, tasks, disconnects, history>>

PollZero ==
  /\ At("zero") /\ quiet
  /\ Ask("zero") /\ GoTo("awaitZero")
  /\ UNCHANGED <<telemetryDue, settingsDue, gap, quiet, polled, replied, retries, tasks,
                 disconnects, tries>>

RetryZero ==
  /\ At("awaitZero") /\ ~replied["zero"] /\ ProbeOver
  /\ retries.zero < MaxProbeRetry
  /\ retries' = [retries EXCEPT !.zero = @ + 1]
  /\ GoTo("zero")
  /\ UNCHANGED <<timers, quiet, polled, replied, tasks, disconnects, history>>

ZeroDone ==
  /\ At("awaitZero")
  /\ replied["zero"] \/ (ProbeOver /\ retries.zero = MaxProbeRetry)
  /\ polled' = TRUE /\ telemetryDue' = PollInterval /\ gap' = ProbeGap
  /\ GoTo("settingsGap")
  /\ UNCHANGED <<settingsDue, waited, quiet, replied, retries, tasks, disconnects, history>>

\* Mutant: the retries of the last task are not forgotten.
ChooseTaskKeepsRetries ==
  /\ At("settingsGap") /\ ~TelemetryDue /\ gap = 0 /\ queue # <<>>
  /\ task' = Head(queue) /\ tries' = 0
  /\ replied' = [replied EXCEPT !["settings"] = FALSE]
  /\ GoTo("settingsTx")
  /\ UNCHANGED <<timers, quiet, polled, retries, queue, observed, disconnects, sent, open>>

ChooseTask ==
  /\ At("settingsGap") /\ ~TelemetryDue /\ gap = 0 /\ queue # <<>>
  /\ task' = Head(queue) /\ tries' = 0
  /\ retries' = [retries EXCEPT !.settings = 0]
  /\ replied' = [replied EXCEPT !["settings"] = FALSE]
  /\ GoTo("settingsTx")
  /\ UNCHANGED <<timers, quiet, polled, queue, observed, disconnects, sent, open>>

NoTaskLeft ==
  /\ At("settingsGap") /\ ~TelemetryDue /\ gap = 0 /\ queue = <<>>
  /\ GoTo("idle")
  /\ UNCHANGED <<timers, quiet, polled, replied, retries, tasks, disconnects, history>>

AskSettings ==
  /\ At("settingsTx") /\ ~TelemetryDue /\ quiet
  /\ Ask("settings") /\ tries' = tries + 1
  /\ GoTo("settingsWait")
  /\ UNCHANGED <<telemetryDue, settingsDue, gap, quiet, polled, replied, retries, tasks, disconnects>>

RetrySettings ==
  /\ At("settingsWait") /\ ~replied["settings"] /\ ProbeOver
  /\ retries.settings < MaxSettingsRetry
  /\ retries' = [retries EXCEPT !.settings = @ + 1]
  /\ GoTo("settingsTx")
  /\ UNCHANGED <<timers, quiet, polled, replied, tasks, disconnects, history>>

\* Answered, or dropped after its retries.
TaskDone ==
  /\ At("settingsWait")
  /\ replied["settings"] \/ (ProbeOver /\ retries.settings = MaxSettingsRetry)
  /\ queue' = Tail(queue) /\ gap' = ProbeGap
  /\ GoTo("settingsGap")
  /\ UNCHANGED <<telemetryDue, settingsDue, waited, quiet, polled, replied, retries, task,
                 observed, disconnects, history>>

Moves ==
  \/ TelemetryDue /\ probeState \in {"idle", "settingsGap", "settingsTx"}
  \/ probeState = "idle" /\ polled /\ queue # <<>> /\ gap = 0
  \/ probeState \in {"one", "zero", "settingsTx"} /\ quiet
  \/ probeState = "awaitOne" /\ (replied["one"] \/ ProbeOver)
  \/ probeState = "awaitZero" /\ (replied["zero"] \/ ProbeOver)
  \/ probeState = "settingsWait" /\ (replied["settings"] \/ ProbeOver)
  \/ probeState \in {"gap", "settingsGap"} /\ gap = 0

Hold ==
  /\ turn = "step" /\ probeState # "closed" /\ ~Moves
  /\ turn' = "read"
  /\ UNCHANGED <<probeState, timers, quiet, polled, replied, retries, tasks, disconnects, history>>

-----------------------------------------------------------------------------
(***************************************************************************)
(* The read.  Several frames in one read are as several reads that take no *)
(* time.                                                                   *)
(***************************************************************************)

Down(n, d) == IF n > d THEN n - d ELSE 0

\* Mutant: the time a reply is waited for begins again with every byte.
ElapseAgain(d) ==
  /\ telemetryDue' = Down(telemetryDue, d) /\ settingsDue' = Down(settingsDue, d)
  /\ gap' = Down(gap, d)
  /\ waited' = IF d > 0 /\ waited + d <= ProbeTimeout THEN waited + d ELSE 0

Elapse(d) ==
  /\ telemetryDue' = Down(telemetryDue, d) /\ settingsDue' = Down(settingsDue, d)
  /\ gap' = Down(gap, d)
  /\ waited' = IF waited + d < ProbeTimeout THEN waited + d ELSE ProbeTimeout

Reading == turn = "read" /\ probeState # "closed" /\ turn' = "refill"

ReadNothing ==
  /\ Reading
  /\ Elapse(1)
  /\ quiet' = TRUE
  /\ open' = (open /\ waited' < ProbeTimeout)
  /\ UNCHANGED <<probeState, polled, replied, retries, tasks, disconnects, sent, tries>>

\* Bytes that end a frame, or noise: what settles the request that was waited
\* for, if anything.
ReadSome(d, answered) ==
  /\ Reading
  /\ Elapse(d)
  /\ quiet' = FALSE
  /\ replied' = [k \in DOMAIN replied |-> replied[k] \/ k \in answered]
  /\ open' = (open /\ waited' < ProbeTimeout /\ answered = {})
  /\ UNCHANGED <<probeState, polled, retries, task, disconnects, sent, tries>>

ReadNoise ==
  /\ \E d \in 0 .. 1 : ReadSome(d, {})
  /\ UNCHANGED <<queue, observed>>

Awaited(what) == [one |-> "awaitOne", zero |-> "awaitZero", settings |-> "settingsWait"][what]

\* Mutant: every frame of a pack that is not a candidate has its tasks queued.
HearTelemetryAgain(p) ==
  /\ \E d \in 0 .. 1 :
       ReadSome(d, {k \in {"one", "zero"} : probeState = Awaited(k) /\ p = (IF k = "one" THEN 1 ELSE 0)})
  /\ observed' = observed \cup {p}
  /\ queue' = IF p \in ToSet(Candidates) THEN queue ELSE queue \o TasksFor(<<p>>)

HearTelemetry(p) ==
  /\ \E d \in 0 .. 1 :
       ReadSome(d, {k \in {"one", "zero"} : probeState = Awaited(k) /\ p = (IF k = "one" THEN 1 ELSE 0)})
  /\ observed' = observed \cup {p}
  /\ queue' = IF p \in observed \/ p \in ToSet(Candidates) THEN queue
              ELSE queue \o TasksFor(<<p>>)

HearSettings(t) ==
  /\ \E d \in 0 .. 1 :
       ReadSome(d, {k \in {"settings"} : probeState = Awaited(k) /\ t = task})
  /\ UNCHANGED <<queue, observed>>

\* A read or a write that fails ends monitorPort; Run opens the port again.
Disconnect ==
  /\ probeState # "closed" /\ turn # "refill"
  /\ disconnects < MaxDisconnects
  /\ disconnects' = disconnects + 1
  /\ probeState' = "closed" /\ turn' = "refill"
  /\ open' = FALSE
  /\ UNCHANGED <<timers, quiet, polled, replied, retries, tasks, sent, tries>>

Open ==
  /\ probeState = "closed"
  /\ probeState' = Opened.probeState /\ turn' = Opened.turn
  /\ telemetryDue' = Opened.telemetryDue /\ settingsDue' = Opened.settingsDue
  /\ queue' = Opened.queue /\ task' = NoTask /\ observed' = {}
  /\ gap' = 0 /\ waited' = 0 /\ quiet' = TRUE /\ polled' = FALSE
  /\ replied' = [k \in DOMAIN replied |-> FALSE]
  /\ retries' = [zero |-> 0, settings |-> 0]
  /\ sent' = "none" /\ open' = FALSE /\ tries' = 0
  /\ UNCHANGED disconnects

-----------------------------------------------------------------------------
SwitchStep ==
  \/ BeginCycle \/ ResumeSettings
  \/ PollOne \/ OneDone \/ TurnToZero \/ PollZero \/ RetryZero \/ ZeroDone
  \/ ChooseTask \/ NoTaskLeft \/ AskSettings \/ RetrySettings \/ TaskDone
  \/ Hold

Read ==
  \/ ReadNothing \/ ReadNoise
  \/ \E p \in Packs : HearTelemetry(p)
  \/ \E t \in Tasks : HearSettings(t)

MonitorNext == Refill \/ SwitchStep \/ Read \/ Disconnect \/ Open

MonitorSpec == MonitorInit /\ [][MonitorNext]_monitorVars

Loop == Refill \/ SwitchStep \/ Read \/ Open

\* The loop goes on, the port is opened again, and the bus is silent for the
\* length of a read now and then.
MonitorLiveSpec == MonitorSpec /\ WF_monitorVars(Loop) /\ SF_monitorVars(ReadNothing)

-----------------------------------------------------------------------------
(***************************************************************************)
(* Properties.                                                             *)
(***************************************************************************)

\* No task waits twice, and the one that is being asked for is the first
\* (TaskDone takes the first away, monitor.go:287-302).
QueueSound ==
  /\ MonitorTypeOK
  /\ IsInjective(queue)
  /\ probeState \in {"settingsTx", "settingsWait"} => queue # <<>> /\ task = Head(queue)

\* A request goes out only when the one before it has been answered or has had its time
\* (probeTimeout), so that the monitor never talks over its own reply; after address 1
\* comes address 0: a telemetry cycle is not interrupted by the settings (monitor.go:190-245);
\* and a task is dropped only answered, or asked 1 + maxSettingsRetry times without an
\* answer since it was chosen (monitor.go:292-301).
RequestsTakeTurns ==
  [][ /\ PollOne \/ PollZero \/ AskSettings => ~open
      /\ probeState # "closed" /\ sent = "one" /\ sent' # sent => sent' = "zero"
      /\ probeState = "settingsWait" /\ queue' # queue /\ Len(queue') < Len(queue) =>
           replied["settings"] \/ tries = MaxSettingsRetry + 1 ]_monitorVars
=============================================================================
