# Verification of srne-solar-controller

This directory holds TLA+ models of the controller, the TLC configurations that
check them on small instances, and proofs that TLAPS checks for every instance.
PROJECT.json names every component, run, theorem and hazard, and maps every
definition to the lines it models; this file explains how they fit together.
Paths of the code are relative to `src/`.

    tlc -workers 2 -config MCEngineTrace.cfg MCEngineTrace      # one run
    tlapm EngineProofs.tla                                      # one module of proofs

## 1. The system

The controller polls one or two parallel SRNE hybrid inverters over MODBUS
(through Solarman V5 WiFi dongles), listens to the serial bus between the packs
of a battery bank, and serves both to a web interface, MQTT and Home Assistant.
Its most delicate function is *battery conditioning*: it borrows the inverters'
charge settings, drives the bank through three constant-voltage stages, and
gives the settings back.

### Components

| component | state | operations | talks to |
|---|---|---|---|
| engine, `conditioning/` | state, stage, target, five instants | Start, Update, Stop, Abort, Reset | called by the service; no clock, no goroutine |
| conditioning service, `serve/conditioning.go` | active, recovery, appliedTarget, appliedAt under `mu`; one operation at a time under `opMu` | Start, Tick, Stop, Recover, Status | engine, journal, hub (reservation, callbacks on the run loop), BMS store |
| journal, `serve/conditioning_journal.go` | one file | save, load, clear | the disk |
| hub, `serve/hub.go` | latest, settings, subscribers, queues, reservation, remembered charge limit | Run (polls, refreshes, requests one at a time), WriteSetting, WithConditioning, ReadFaults, Subscribe | inverter system; every client |
| process, `cmd/serve.go` | the ticker's channel, contexts | start-up with or without a journal, tick loop, shutdown on a signal | everything |
| inverter system, `inverter/` | per unit: last snapshot, failures in a row | Connect, Snapshot, ReadSettings, WriteSetting, verified writes | a MODBUS session per unit |
| MODBUS session, `modbus/` | register cache | reads and writes with retries, Lookup | a transport |
| Solarman transport, `interfaces/solarman/` | connection, learnt serial, sequence number, the buffer of a call | SendModbus with one reconnection, extraction of frames | a dongle over TCP |
| BMS monitor, `bms/interpack/monitor.go`, `stream.go`, `frame.go` | polling state, timers, settings queue, stream buffer | a loop of refill, step and read; reconnection | the serial bus, the store |
| BMS store, `bms/interpack/store.go` | last report and settings of each address | Record, RecordSettings, Snapshot, GetSettings | monitor writes, service and web read |
| controls, `serve/controls.go` | – (the hub remembers the limit) | the entities, charge_from_mains among them | hub |
| web, `serve/web.go`, `sse.go` | subscriptions | pages, events, commands | hub, service, store |
| MQTT publisher, `serve/mqtt.go` | the connection, what the broker retains | OnConnect, publication of states, a goroutine for each command | hub, service, a broker |
| configuration, command line, mock inverter, Home Assistant integration | – | – | – |

The goroutines: the hub's run loop; the tick loop of conditioning; the BMS
monitor; one goroutine for each HTTP request, event stream and MQTT command.
They meet in the hub's channels, in `opMu` and `mu` of the service, in `mu` of
the hub and in the store's lock.

### What is hard, and what makes it correct

* **Conditioning.** Sixteen verified register writes to two inverters, any of
  which may fail with or without effect, a process that may die between any two,
  a tick loop that decides on a status it has read before it holds `opMu`, and
  clients that press Start and Stop meanwhile. Correct means: no unit can draw
  current on a half-written profile; the owner's settings are always in the
  registers or in the journal; nobody else writes while they are in the journal;
  a restoration is over only when it is, and is over in the end.
* **Engine.** Three timers restarted by readings, on instants that may repeat or
  go backwards. Correct means that no stage is left and no session completes
  without an unbroken run of good readings as long as the contract asks for.
* **Hub.** Callers whose contexts expire at any moment, an unbuffered claim
  between two selects, a reservation taken while writes are queued. Correct
  means that an answer is true, a callback that has been given up never runs,
  and nobody waits for ever.
* **Link.** Retries within retries over a link that loses requests, replies and
  connections, and frames cut at any byte. Correct means that a reported success
  is one and that a frame is lost or counted twice nowhere.
* **Monitor and store.** A shared bus on which one may speak only into silence,
  replies that come late, frames cut at any byte, a packs' address that may be
  two packs'. Correct means: one request at a time, no frame lost, no report
  taken for fresher or more certain than it is, and telemetry for ever.
* **Process and broker.** A signal at any moment of a Start, a Tick or a command;
  a ticker whose channel keeps one tick while an operation lasts; states published
  by several goroutines to a broker that may be out of reach or may forget.
  Correct means: the process ends when it is told to, and then with no session
  active; a session does not outlive the silence of what it is decided on; the
  broker comes to show what is so, and a process that is gone as gone.
* **Snapshots, settings, sums.** Fall-backs to old readings, a cache in front of
  a read-modify-write, two tables that must agree, sums over units. Correct
  means that what is shown is what is there, and that its age is told.

PROJECT.json lists each hazard at its line with the properties that cover it.

## 2. The modules

| module | models | state and actions in the code |
|---|---|---|
| `SafetyGates` | `validateInverterTelemetry`, `validateInput`, the thresholds | predicates over an input whose timestamps are ages |
| `Engine` | `conditioning/engine.go` | a behaviour is a sequence of calls with any instants and inputs; `Turn` and `Loop` are the loop of `evaluate` |
| `ChargeSchedule` | the abstract life cycle of a session | what `Engine` implements and `ChargeTransaction` drives |
| `EngineTrace` | `Engine` with the readings it has seen as history | states what the timers are for without looking at them |
| `ChargeTransaction` | `serve/conditioning.go`, the journal, reservation and run loop, start-up and tick loop | `job` and `pc` are the operation under `opMu`; one action per register write of a unit, per journal operation, per wait |
| `SettingsLoan` | the abstract promise about the settings: Edit, Borrow, Use, GiveBack | implemented by `ChargeTransaction` with `lent <- journal # NoJournal` |
| `HubRequests` | `WriteSetting`, `WithConditioning`, the run loop's select, `handleWrite`, `handleConditioning` | `at` is where a caller's goroutine stands, `loop` where the run loop does: a write is checked against the reservation in one step and begun in another |
| `SnapshotFanout` | the end of `poll`, `Subscribe`, `handleSSE` | offer, make room, offer again as three steps |
| `MainsToggle` | the charge_from_mains switch, `SaveMainsChargeCurrent` and its kin | a command chooses its value when it begins and is written later |
| `RegisterLink` | verified writes, `retryOpts`, `solarman.Client` | a request as a program counter inside three nested loops; the dongle is external, and `foreign` of a site are the function codes of the other services that share it |
| `PackMonitor` | `monitorPort` and `Run` | `turn` is the position in the loop, one action per way out of a state of the switch |
| `StreamDecoder` | `FeedAll` | the loop as a recursive function over the buffer |
| `PackStore` | `store.go` | Record, RecordSettings; `Snapshot(now)` is an operator |
| `FrameReception` | `extractAllFrames`, the loops of `sendAndReceive` and `probeSerial` | one action per read; the frames in a buffer and the bytes on the wire as recursive functions |
| `TickClock` | the ticker of `cmd/serve.go` and the instants it hands to `Tick` | `queue` is the ticker's channel; an operation lasts, polls and reports go on meanwhile |
| `ServeProcess` | `main` from start-up to exit, the tick loop, the commands of clients | one program counter per goroutine, `opMu` with its queue, the contexts |
| `MqttPublisher` | `serve/mqtt.go` with its client library and the broker | what each topic retains, what is on its way, which goroutine publishes next |
| `UnitSnapshots` | `System.Snapshot`, `poll`, `refreshSettings` | polls, refreshes, writes, outages of each unit |
| `PackedWrites` | packed `WriteSetting`, the session's cache | look-up, merge, one action per unit written; `ChangedElsewhere` is the panel or another service, at any moment |
| `SettingCodec` | `settings_write.go` against `settings.go` and the scales of `register.go` | the two tables and the functions between text and word |
| `RegisterTables` | `register/addr.go`, `register/groups.go`, the tables of the readers | groups as records of addresses; which of them each operation reads and looks up |
| `BulkRead` | `bulkRead` and the look-ups behind it | spans by a fold, one action per request; two operations through the session's cache, a change and an invalidation between them |
| `Aggregation` | the fields of `read.go` and `aggregate.go` | a poll of one to three units |

`MC…` modules give the constants their values. Four of them put components that
share no variable into one run and let one of them move at a time (`moving`),
which loses nothing: their steps commute and no property sees two. They are
`MCBusAndLimit` (`PackMonitor`, `ChargeTransaction`), `MCLinks` (`RegisterLink`,
`FrameReception`), `MCReadings` (`StreamDecoder`, `PackStore`, `SettingCodec`,
`BulkRead`, `Aggregation`, `TickClock`, `PackedWrites`, `MainsToggle`) and
`MCService` (`UnitSnapshots`, `SnapshotFanout`, `MqttPublisher`, `ServeProcess`).

Composition: `EngineTrace` extends `Engine`, which extends `SafetyGates`;
`ChargeTransaction` drives an instance of `ChargeSchedule`, so that the engine's
refinement of it is what joins the two levels. `HubRequests` models in full the
queueing that `ChargeTransaction` reduces to `HubClaims` and `HubRefuses`:
callbacks run one at a time, awaited and under the reservation
(`CallbackIsAwaited`), or not at all, and no owner's write runs once one has
(`CallbacksUndisturbed`). The write of an owner that was past its check when the
reservation was made is in both: in `ChargeTransaction` it goes on, unit after
unit, before the capture. `RegisterLink` models in full the verified write that
`ChargeTransaction` takes for a step with three outcomes: done, failed with effect,
failed without; `LinkSound` says that "done" is true, where no other service of the
dongle uses our function codes. `PackedWrites` takes its writes in the same way. `RegisterLink` in turn takes the frames of a
call as whole, in order and once; `ReceptionSound` of `FrameReception` says so.
`ServeProcess` reduces each operation of the service to its locks and the flag
`active`, whose registers `ChargeTransaction` follows; `TickClock` follows the
instants that `Engine` takes as any.

## 3. What TLC checks

Every property of every run is one that a plausible slip in the code violates:
PROJECT.json names such a slip for each, as an operator beside the one it
replaces, commented "Mutant".

| run | question | bounds |
|---|---|---|
| `engine` | Is every stage left, and every session completed, on an unbroken run of good readings of the required length (`StagesHeld`), and never sooner than the dwells add up to (`SessionNeverShort`)? Is the life cycle the one of `ChargeSchedule` (`ImplementsSchedule`)? | instants 1..8, dwell and tail 2, timeout 7: a session fits with one restart of a timer, and the timeout can race its end; 44 inputs, one defect per gate and both sides of every threshold; two packs |
| `band_edge` | Does a timer restart only when the voltage leaves the band (`ResetOnlyBeyondBand`)? It does not; see Findings. | as `engine` |
| `bus_and_limit` | On a disk that may lose a journal, feign one or hide one, is the write path reserved whenever there is a journal that the process has not overlooked (`JournalReserved`), is no half-written profile ever live (`NoSurge`), do engine, service and registers agree between operations (`SessionAgrees`)? On the serial bus: one request at a time and no task dropped without a reason (`RequestsTakeTurns`), the queue sound (`QueueSound`), addresses 0 and 1 polled for ever (`PolledForever`)? | 2 units, 2 owner's limits, 2 failed calls or crashes anywhere: a failure and a failure of its handling. Two candidates and one other pack, one retry of each kind, one loss of the port; timers of 1 to 14 ticks in the order of the code's, so that the settings queue is emptied before it is filled again |
| `loan` | On a disk that keeps and shows what was synced, are the owner's values in the registers or in the journal (`RecordCoversDeviation`), is a restoration over only when it is (`RestoredMeansRestored`), is the whole a loan (`ImplementsLoan`), and is every journal cleared in the end (`JournalCleared`)? | 2 units, 1 failure or crash |
| `reservation` | Is "the reservation … retained for the whole session" (`serve/conditioning.go:90`)? It is not; see Findings. | 2 units, no failure |
| `hub_requests` | Are answers true (`AnswersAreTrue`), callbacks awaited (`CallbackIsAwaited`), and is no write performed from the first callback of a reservation to its release (`CallbacksUndisturbed`); does every call return and the loop stop (`EveryCallReturns`, `StopsWhenTold`)? | one write, two callbacks, queues of one, so that a sender can find its queue full |
| `links` | Is a reply the reply to the request, is a reported read or verified write true (`LinkSound`), and does a client recover when the link does (`Recovers`)? Is every frame of a call found once, whole and in order (`ReceptionSound`)? | two registers of two values, two tries within two attempts, two faults; a dongle with a configured serial that is shared with services of other function codes, and one whose serial is learnt. Four frames of three to five bytes cut anywhere, buffers of 12 and 8 bytes so that they fill, a foreign payload that holds both marker bytes |
| `readings` | Is every frame of every stream found however it is cut (`DecoderSound`)? Are packs confirmed by two reports, shown fresh while they report, their settings fresh only if both blocks are (`SnapshotSound`)? Is every named setting shown as it was asked for (`CodecSound`) and its register changed by nothing else (`OnlyTheEdit`)? Does every reading fetch what it looks up, in requests that are safe, and take from the cache only what this operation read (`ReadInWhole`)? Does the aggregate hide no fault and add up (`SystemShowsUnits`)? Does a session end soon after what it is decided on falls silent (`SilenceNoticed`)? Is the cache coherent but for what was changed unheard (`CacheCoherent`), is the other byte preserved by a command that merged from what the master held (`OthersPreserved`), are the units alike after a success that nobody disturbed (`SuccessSynchronizes`)? Does the mains switch restore what was once read (`ToggleSound`)? | every stream of up to ten bytes over three letters in chunks of up to three; four reports of two addresses and two packs; every field of the table, texts on and off every range; the program's own tables and groups of three registers at every distance around the limits, two operations, one transient failure, units with all or none of the optional registers; one to three units of eight kinds; one pack, a period of 1, an age of 1, operations of up to 2, over 8 ticks, which holds the bound of `SilenceNoticed` (5) and its violation; three units and two fields of two values; two commands at a time, three limits of which one rounds to 0 and one to another ampere |
| `stale_setting` | Are all settings read by `ReadSettings` (`AllSettingsRead`, `inverter/settings.go:137`)? One is not; see Findings. | the program's tables, two operations |
| `late_tick` | Does a session whose readings are good and fresh go on (`OnlyStaleStops`)? Not always; see Findings. | one pack, period 2, age 3, operations of up to 3, 12 ticks |
| `service` | Is stale data marked (`StaleWhenOld`), do the settings catch up (`SettingsCatchUp`)? Do slow subscribers get the newest snapshot, in order (`FanoutSound`)? Does the process exit when told (`ExitsWhenTold`), with no session active unless its publisher could not be made (`ExitRestores`)? Does the broker come to show what is so (`BrokerCatchesUp`), and a process that is gone as offline (`GoneIsOffline`)? | three units, three failures to staleness, three outages; two subscribers, five polls into channels of two, so that the room made for a snapshot can be taken before it is used; two requests of clients and a signal at any moment; one command, two versions of the state, one lost connection, a broker that may forget |
| `command_order` | Is a session stopped when the last command was OFF (`OffStops`)? Not always; see Findings. | two commands |

Some properties are conjunctions of named parts: `FanoutSound` of
`NewestDelivered` and `InOrder`, `ToggleSound` of `OnMeansOn` and
`RestoresARead`, `SnapshotSound` of `ConfirmedByTwo`, `FreshWhileReporting` and
`BothBlocksFresh`, `ReadInWhole` of `MandatoryFetched`, `RequestsAreSafe` and
`ReadNow`.

Every transition of the code that a bound cuts short is still taken below it: a
retry is tried and exhausted, a queue is filled, a timer expires and is
restarted, a fault falls on the handling of a fault. Two units are what the code
supports in conditioning; the theorems are for any number.

CHECK_DEADLOCK is off only where the program may stop: `hub_requests`, in which
the run loop stops and all calls have returned; `service` and `command_order`, in
which the process ends; `readings` and `stale_setting`, in which nothing follows a
computation.

### Fairness

* `loan`: the process is started again after a crash, the run loop and the tick
  loop go on, `opMu` starves nobody (`sync.Mutex` hands over after 1 ms), `select`
  chooses among ready channels at random, and a session that lasts meets a tick
  that ends it (the overall timeout). Failures are bounded in number; that they
  end is the assumption of `JournalCleared`.
* `hub_requests`: goroutines that can run do, polls and requests end, `select` is
  random, senders on a full channel wait in line. Contexts need not expire.
* `links`: the client goes on and the dongle serves what it does not
  lose; the number of faults is bounded.
* `bus_and_limit`: the loop of the monitor goes on, the port is opened again, and
  the bus is silent for the length of one read now and then (strong fairness of
  the read that returns nothing); without that the code rightly never speaks.
* `service`: the hub's tickers fire and outages end; the goroutines go on and
  operations end; `opMu` starves nobody; a lost connection is made again; `select`
  chooses at random, so that a loop that looks again and again sees what is ready
  (strong fairness).

## 4. What is proved

TLAPS proves the following for every value of the constants, from the
assumptions named in the modules (`ASSUME`, evaluated by TLC in every run).

* **`EngineProofs`** – `TypeCorrect`, `SessionClockHolds`, `SessionNeverShortHolds`,
  `EngineImplementsSchedule`, `StagesHeldHolds`, `EveryAddressReports`. The
  invariant `IInv` adds to the properties `Fields`: the tail timer runs in stage 3
  only, a session that has begun has its instants set. The heart is `TurnOutcome`:
  one turn of the loop leaves the stage or spends a dwell and advances by one,
  `LoopOutcome`: so does the loop as a whole, since a timer begun in this call has
  lasted for no time (`NoSecondAdvance`). It needs durations above 0
  (`DurationsTyped`): with a dwell of 0 one call may advance twice.
  `EveryAddressReports` is a pigeon-hole argument: a valid input has as many packs
  as there are addresses, all of them expected and distinct, so that every address
  reports.
* **`ChargeTransactionProofs`** – `TransactionTypeCorrect`, `JournalReservedHolds`
  (of every journal but one that Start has overlooked), from `Control`: where each
  operation can stand (`Located`), who is reserved against whom (`Guarded`), and
  what the engine and the flags know of each other (`Session`). `JournalReserved`
  alone is not inductive: that nothing releases the write path needs that `pc =
  "release"` implies that the journal is gone, which needs to know where each job
  can be. The same module, of the registers: `NoSurgeHolds`, `SessionAgreesHolds`,
  from `Registers`: at each point of each sequence, what the units before and after
  the current one hold (`Sequenced`), and what they hold when no sequence is in
  progress (`Profiles`, `Held`). With `~LossyDisk`, `RecordCoversDeviationHolds`,
  `RestoredMeansRestoredHolds` and `TransactionImplementsLoan`, from `Recorded`: the
  journal is the owner's registers while it exists.
* **`HubProofs`**, the requests – `HubTypeCorrect`, `CallbackIsAwaitedHolds`,
  `AnswersAreTrueHolds`, `CallbacksUndisturbedHolds`, from `RequestInv`: a call is
  in one place only – with its caller, in its queue, with the run loop or answered –
  and each place says how often it has been run. A callback runs when the run loop
  has nothing else in hand, and what it takes in hand afterwards it checks. What the
  hub shows and hands out: `PackedTypeCorrect`, `SuccessSynchronizesHolds`,
  `CacheCoherentHolds`, `OthersPreservedHolds`, from `WriteInv` (the units before
  the current one carry the command's value) and `CacheInv` (the cache is coherent
  but for what is unheard, and a command that began with nothing unheard merged from
  what the master holds until somebody else changes it). `SnapshotTypeCorrect`,
  `StaleWhenOldHolds`, from `SnapshotInv`: the failures counted are the age of the
  data. `SubscribersServed`, for any number of subscribers and any capacity, from
  `Line` (what is in a channel is in order and not younger than the last poll),
  `Serving` and `Has` (where the hub stands in its three attempts, the newest
  snapshot is on its way). `SwitchRestores`, from `Remembers`: the limit remembered
  is one that was read. The process: `ServeTypeCorrect` and `ServeExitRestores`:
  when `main` comes to its end, otherwise than by an error of `NewMQTTPublisher`, no
  session is active and nobody is at work on one, for any number of requests. The
  invariant adds `NoneBefore`: until the hub runs, no request makes a session
  active; that is why the exits of a start-up that fails before that need not stop
  one. The exit on a signal comes after a Stop that has held `opMu`.
* **`ReadingsProofs`** – `SnapshotSoundHolds` of `PackStore`, for any addresses,
  ages and reports. The property speaks of the reports that came; `StoreInv` says
  what of them the store has kept: the last report of an address and the one before
  it that confirmed it (`PackKnown`), the last of each block (`BlockKnown`).
  `CodecSoundHolds` and `OnlyTheEditHolds` of `SettingCodec`, for every word and
  text and any voltages of a system that are multiples of 6 V, as 12, 24 and 48 V
  are (`CodecAssumption`); with others a shown voltage has no end of decimals.
  `CodecInv` is proved reader by reader: what each makes of a word, and what the
  writer of the same field makes of what was shown. A value that two arms of a
  `CASE` claimed was found by such an attempt. `TickTypeCorrect` and
  `TickNoticesSilence` of `TickClock`, for every period, age and length of
  operations: a session does not outlive the silence of a pack or of the hub by more
  than `Notice`, two age limits, two operations and one period less two ticks.
  `ClockInv` follows a tick from the moment it is due (`NextTickComes`) through the
  channel (`InTime`, `Turns`) to the decision (`DecidedOn`), and says how late it
  may be (`LateBy`) and when the session is decided on at the latest (`Caught`).
* **`BusProofs`** – `MonitorTypeCorrect`, `QueueSoundHolds` and
  `RequestsTakeTurnsHolds` of `PackMonitor`, for any timers and retries and any
  list of candidates without repetition (`AddressAssumption`). `MonitorInv` adds to
  the properties that the task under way is the head of the queue and that every
  queued address is a candidate or was heard (`QueueInv`), and in which states a
  request is open and how often it was tried (`RequestInv`).
  `DecoderSoundHolds` of `StreamDecoder`, for streams and chunks of any length over
  any bytes. That the frames of the stream so far are those that were returned and
  those of the buffer is not inductive: the buffer's may change when more bytes
  come. What is, is that they agree whatever bytes come next (`DecoderInv`), which
  `DrainSplits` shows of every place of the buffer, from its end to its beginning.
* **`UnitReadProofs`** – `SystemShowsUnitsHolds` of `Aggregation`, for any number of
  units and any contents of their registers (`InstallationsAssumption`). Sums and
  extremes are folds over a set of units, which unfold to recursive functions on its
  subsets; `SubsetInduction` shows that the unit taken first does not matter, and
  from that what a sum is made of. `ReadInWholeHolds` of `BulkRead`, for any tables
  whose groups ascend and hold what their readers look up (`OperationsAssumption`,
  which TLC evaluates on the program's own). `AllSpanned` shows, register by
  register, that the requests of a group cover it and no optional register shares
  one; `BulkInv`, that what a part has fetched is in the cache and of this
  operation.
* **`LinkProofs`** – `LinkIsSound`, for any registers, values, sites, numbers of
  tries and faults, under the hypothesis `CodesTell`: the other services of a dongle
  use function codes of their own, and there are none where the serial must be asked
  for. Without it the claim is false (section 5). `LinkInv` is about the
  frames under way: while a request is awaited the only one that carries data is its
  reply (`Awaiting`), otherwise there is none (`Quiet`), and nothing is left in the
  line when a read has succeeded (`Settled`). `ReceptionSoundHolds` of
  `FrameReception`, for any payloads of other services and any reads. `ReceptionInv`
  relates the wire, what has been read of its first frame and the buffer; `Known`
  says of a buffer that its frames are found whatever bytes come next, one byte at a
  time (`KnownByte`, `KnownFrame`). Frames that announce more than they carry are
  not among those of a call that begins at a frame, and no frame is longer than half
  a buffer (`ReceptionAssumption`): a reply has at most 283 bytes and the buffer
  4096. A longer one would fill the buffer, and the call would end at its deadline.

Recursive functions are CHOOSE expressions that the provers see through. Each proof
about one shows that its equation has a solution, by `AllNaturals` of module
`Induction`, and what every solution gives, by a least counterexample
(`LeastNatural`, `Downward` from the end of a sequence). The induction theorems of
the library take an operator as a parameter and cannot be used.

`StagesHeld` is not inductive and does not mention the timers. `TraceInv` adds to
`IInv` that the timer of the current stage, when it runs, is the instant since
which all readings of the stage have been good, the first among them
(`History`, `Since`); `TimerSince` shows that one reading keeps it so, and
`LoopTimes` what the loop may do with the timer in one call.

The type invariants are proved where there are theorems and not listed in a run.

Model-checked only: everything temporal under fairness (`JournalCleared`,
`EveryCallReturns`, `StopsWhenTold`, `Recovers`, `PolledForever`,
`SettingsCatchUp`, `BrokerCatchesUp`, `GoneIsOffline`, `ExitsWhenTold`), which is
out of the prover's reach. Every invariant and every other action property of a
passing run is a theorem.

## 5. Findings

**The reservation is not always retained** (run `reservation`,
`cmd/serve.go:204`, `serve/conditioning.go:90`). `Start` says that "the
reservation is retained for the whole session". The tick loop reads the status
without `opMu` and calls `Recover` later. If a restoration is pending when it
reads, and clients finish it with Stop and begin a new session with Start before
it calls, `Recover` restores the new session's journal, clears it and releases
the reservation, while the service remains active. `JournalReserved`, `NoSurge`
and `RecordCoversDeviation` hold all the same: the registers are the owner's
again, and the next tick sees the drift and ends the session with a fault.

**The edge of the band hangs on the last bit** (run `band_edge`,
`conditioning/engine.go:167`). `conditioning/types.go:32-33` and
`conditioning/doc.go:68-69` promise a tolerance of 0.10 V around the target, and a
restart for more. `math.Abs(v - target) <= 0.10` is computed in `float64` on
readings in steps of 0.1 V: of the six readings on an edge 54.3 V and 54.7 V are
accepted, while 54.5 V, 54.9 V, 55.1 V and 55.3 V restart the timer.

**A late tick faults a healthy session** (run `late_tick`, `cmd/serve.go:203`).
While one Tick is busy the next one waits in the ticker's channel, and is decided
at the instant it was due. A poll or a report made in between is younger than
that; its age is negative, and the gates refuse it. `README.md:67` lists what stops
a cycle, stale readings among it, and not this. The registers are restored.

**OFF may come before ON** (run `command_order`, `serve/mqtt.go:628`). Each command
runs in a goroutine of its own. If OFF takes `opMu` first it finds nothing to
stop, and the cycle begins after the owner has ended it, against `README.md:55`
and `ha-addon/DOCS.md:52`.

**One setting is read once** (run `stale_setting`, `inverter/settings.go:274`). The
register of the charge source selection is in no group, so that it is only ever
looked up. The first look-up puts it into the session's cache
(`modbus/client.go:76`), and every later reading shows that value until a setting
is written, whatever has been changed at the panel; `inverter/settings.go:137`
says "ReadSettings reads all settings from the first unit".

Met while modelling, and left as the code has it:

* `serve/conditioning.go:145` – when the save of the journal fails after the file has
  been linked, Start asks `os.Stat` whether there is a journal to recover. If that
  fails too, it takes it that there is none, and the deferred call releases the
  reservation, although "The caller must release the reservation after verified
  restore" (`serve/hub.go:98`). What the owner sets from then on is overwritten with
  the journal's values by the next restoration. `JournalReserved` is about every other
  journal (`overlooked`); no register has been written by then, so that `NoSurge` and
  `SessionAgrees` hold of this one, too.
* `interfaces/solarman/client.go:321` – `docs/solarman_v5_protocol.md:61` warns that
  other services may poll the same dongle and asks for a filter by slave ID;
  `client.go:280` reads on until a frame is "matching our request". What is compared
  is the checksum and the function code. The reply to another service that reads
  holding registers, of other addresses or of another slave, is taken for ours, and
  ours, which comes next, for the reply to the next read: `LinkSound` fails at once
  with `foreign = {"read"}` in `Sites`. It is stated, checked and proved for services
  that use other function codes.
* `inverter/settings_write.go:240` – a packed write merges into what the session of
  the first unit remembers of the register. Neither a write whose reply was lost
  (`modbus/client.go:107`) nor a change at the panel or by another service is known
  there, and the other byte is written back to what it was, although "the rest are
  preserved" (`settings_write.go:17-18`). The settings are read again by their ticker
  and after each successful write, which ends the exposure. `OthersPreserved` says that
  nothing else is lost: its exception is a command that began with such a change
  unheard, or met one (`sure`).
* `serve/controls.go:86` – `README.md:48` says that the switch "Remembers previous
  charger priority and restores it on OFF"; what the hub remembers is the charge
  limit, which ON restores.
* `cmd/serve.go:79` – `ha-addon/CHANGELOG.md:13` says that the active cycle is
  persisted "and survives add-on restarts"; the profile does, the cycle is ended by
  the restoration at the next start.
* `serve/mqtt.go:638` – a command for a control that is retained at the broker is
  executed again at every reconnection; one for the conditioning switch is not.
* `cmd/serve.go:186` – a Start that waits for `opMu` behind the Stop of `main` may
  still act before the process is gone; what it writes is in the journal, and the
  next process restores it.
* `cmd/serve.go:169` – an error of `NewMQTTPublisher`, as for an address that names
  no broker, leaves `main` without a Stop, while hub, ticks and web server run. A
  session begun over HTTP meanwhile stays as it is, and its journal is restored by
  the next process; `ExitRestores` leaves this exit out (`PublisherFails`).
* `serve/hub.go:344` – an owner's write that is past its check when Start makes the
  reservation is performed under it, before the capture (`HubRequests`).
* `serve/mqtt.go:290` – when OnConnect is still at work while Run leaves, its
  "online" may reach the broker last and stay; `GoneIsOffline` leaves this out.
* `serve/mqtt.go:272` – `main` waits for its first connection under no context; it
  does not end on a signal while no broker can be reached. `ExitsWhenTold` assumes
  one that can.
* `interfaces/solarman/client.go:334` – `advance` counts the bytes of the frames
  extracted and not those skipped before them. A call that begins within a frame,
  where the last one gave up, may miss a frame or count one acknowledgement twice,
  against the comment at 281-284. Bytes left over at the deadline turn a timeout,
  which is tried again, into an error, which is not; so does a full buffer, for
  which Read returns 0.
* `interfaces/solarman/client.go:321` – a reply of its own later than the client's
  deadline would be taken for the reply to the next request as well. The dongle's
  deadline is half of the client's, so the model has no reply that late. A frame of
  another service while the serial is being learnt ends the probe, and the frame that
  answers the probe is then taken for the reply to the next request.
* `interfaces/solarman/client.go:202` – a client that learns its serial does not
  reconnect when the connection breaks before it has; `Recovers` is about a
  configured serial.
* `serve/hub.go:188` – the remembered charge limit is rounded to the ampere; OFF,
  a number set meanwhile and ON restore the older limit; a limit of half an
  ampere is remembered as 0.
* A write that has been reported as failed may still take effect
  (`RegisterLink`), until the next call that succeeds.
* `inverter/system.go:131` – before a unit's first reading, the zero snapshot is
  aggregated as a reading.
* `inverter/read.go:80` – an optional register that stops answering keeps its
  last value for as long as no setting is written.
* `serve/hub.go:380` – the settings are read by their own ticker; a recovery of
  the inverters does not bring it forward.
* `inverter/settings_write.go:108` – when the system voltage cannot be read, 48 V
  is assumed for a 12 V based voltage; on a 24 V system the value is wrong by two.
* `inverter/settings_write.go:34` – `uint16` of a number out of range is what the
  processor makes of it, and of "NaN" it is 0 on the common ones; a packed value
  above 255 is cut.
* `inverter/aggregate.go:180` – the machine state is the greatest of the units';
  its name is empty when all are in state 0. Of two fault codes in one slot the
  first is shown.

## 6. What is not modelled

* The formats: V5 and MODBUS frames, checksums, JSON, HTML, discovery messages.
  A checksum is a predicate; a frame is what it says.
* The mock inverter, the one-shot commands, the configuration file, the Home
  Assistant integration: no state, or no part of the deployed program.
* `Connect`'s discovery of units, `ProbeSlaveID`, `ScanFrames`: run once, at
  start-up or by hand. `ScanFrames` has the loop of `sendAndReceive`.
* The routes and pages of the web interface, the tables of entities, the contents
  of MQTT's discovery messages: no state of their own.
* `ConditioningService.Status` as clients see it; the tick loop's reading of it is
  in `ChargeTransaction`.
* Real time: an age is a number of polls or ticks, and the instants that
  `Engine` is called with are any. `TickClock` has a clock of whole ticks.
* In `ChargeTransaction`, the four voltages and the equalization switch of a
  profile are one field with a value for "part of the way"; the telemetry that
  makes the engine advance or fault is left open, so that it may at any time.

## 7. Plan

Done, in this order: engine and its schedule; the transaction and its loan; the
hub's requests; link, monitor, store and decoder; snapshots and packed writes;
codec, bulk reads and aggregation; the instants of ticks; the order of MQTT
commands and the states it republishes; the process from start to exit; the tables
of registers and what the readers take from the cache; the frames of the Solarman
connection; the proofs above.

Left, to extend the model:

1. `ConditioningService.Status` and what clients are shown of a session;
2. `Connect`'s discovery of the units, and the reading of packed temperatures
   and products in the aggregate.

What is proved of a component is proved of each alone. What would join them is
left: that `HubRequests` implements the two steps that `ChargeTransaction` takes for
it, and `RegisterLink` the verified write that it takes for one step.
