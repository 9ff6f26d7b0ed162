\* The bytes and the period of the code.
SPECIFICATION FairSpec
CONSTANTS
  Base = 256
  EventPeriod = 250
INVARIANT CountsMilliseconds
