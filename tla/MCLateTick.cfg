CONSTANTS
  p1 = p1
  Packs <- MCPacks
  Period = 2
  MaxAge = 3
  MaxOp = 3
  Horizon = 12
  NoTick = NoTick

SPECIFICATION TickSpec

PROPERTIES
  OnlyStaleStops
