SPECIFICATION FairSpec
CONSTANTS
  TxTimeout = 2
  CountMod = 2
  MaxBusEvents = 2
  MaxSessions = 0
PROPERTIES
  SendReturns
