SPECIFICATION Spec
CONSTANTS
  TxTimeout = 1
  CountMod = 3
  MaxBusEvents = 2
  MaxSessions = 1
INVARIANTS
  LinkTypeOK
  OnlyTxEndpoint
  LossIsNoticed
  LossIsCounted
