\* The arithmetic of pwm.c at its boundaries; every message of two bytes before
\* its checksum, and so every entry of the table.  For the inputs a unit of time
\* is 5 ms, and the caller is away for up to 125 ms: 20 ms of delay, 5 ms of
\* driver_get_state and a send that times out.
SPECIFICATION MCSpec
CONSTANTS
  Duties <- MCDuties
  Periods <- MCPeriods
  MsgSize = 4
  Values <- Byte
  Buttons = {bt0, bt1}
  Switches = {sw0}
  AdcValues = {0, 1}
  Position <- PositionsApart
  DebounceMs = 4
  SampleMs = 1
  BounceMs = 3
  PollMs = 25
  HoldMs = 38
INVARIANTS
  PeriodIsReported
  FinestClock
  CompareBelowTop
  IsCcitt
  PotsAreTheirOwn
PROPERTIES
  NoFlicker
  PressIsSeen
