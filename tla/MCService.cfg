CONSTANTS
  Nothing = Nothing
  N = 3
  MaxStaleSnapshots = 3
  Settings = {"s1", "s2"}
  MaxOutages = 3
  c1 = c1
  a = a
  b = b
  Clients <- MCClients
  ChanCap = 2
  LastSnapshot = 5
  MqttCommands <- MCMqttCommands
  Main = Main
  Run = Run
  MaxLosses = 1
  MaxVersion = 1
  NoState = NoState
  MaxRequests = 2
  MainThread = MainThread
  TickLoop = TickLoop
  Unlocked = Unlocked

SPECIFICATION ServiceSpec

INVARIANTS
  StaleWhenOld
  FanoutSound

PROPERTIES
  SettingsCatchUp
  BrokerCatchesUp
  GoneIsOffline
  ExitRestores
  ExitsWhenTold

\* The process ends.
CHECK_DEADLOCK FALSE
