SPECIFICATION Spec
CONSTANTS
  TxTimeout = 1
  CountMod = 2
  MaxBusEvents = 2
  MaxSessions = 0
INVARIANTS
  ZeroWhenNotConfigured
