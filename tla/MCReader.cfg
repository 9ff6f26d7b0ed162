\* The times of the code in ticks of half a second; two devices of two
\* interfaces each; descriptors of three items.
SPECIFICATION Spec
CONSTANTS
  MsPerTick = 500
  WatchdogMs = 8000
  RecvTimeoutMs = 10000
  Devices = 2
  Interfaces = 2
  MaxOpens = 4
  Items <- ShortAndLongItems
  MaxItems = 3
INVARIANTS
  BoardIsHeardInTime
  ClaimsMatchList
  HandlesMatchList
  UsageIsFound
PROPERTY
  MotorRunIsBounded
