\* A counter of three bits.  Packets, descriptors and lengths on both sides of
\* the multiples of 32.
SPECIFICATION FairSpec
CONSTANTS
  MAX = 8
  Tops <- TopsSmall
  Compares <- ComparesSmall
  ENDPOINT0_SIZE = 32
  Descriptors = {4, 32, 41, 64}
  WLengths = {0, 1, 31, 32, 41, 64, 65, 255, 256}
INVARIANTS
  SettledIsRegular
  OverrunIsLow
  CallbackIsWhole
  DataIsExact
  NeverBothWait
PROPERTIES
  DutyTakesEffect
  HandlerReturns
