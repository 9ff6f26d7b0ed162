\* Bytes of two values: the counter wraps after 16 ticks.
SPECIFICATION FairSpec
CONSTANTS
  Base = 2
  EventPeriod = 3
INVARIANTS
  TimeTypeOK
  Sections
PROPERTIES
  ImplementsClock
  Heartbeat
