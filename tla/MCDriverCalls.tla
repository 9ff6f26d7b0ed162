--------------------------- MODULE MCDriverCalls ----------------------------
(***************************************************************************)
(* What the procedures call: driver.c and pwm.c with the duties and        *)
(* periods at which their arithmetic changes, the checksum of protocol.c,  *)
(* and input.c with adc.c.  The three share no state, so each is explored  *)
(* on its own: one takes steps while the others are as after a reset.      *)
(***************************************************************************)
EXTENDS DriverCalls, Protocol, Input

\* Both ends, the middle, and duties around a power of two.
MCDuties == {0, 1, 64, 511, 512, 1022, 1023}

\* No period, both sides of every period at which set_period changes the clock, both
\* sides of 8 (the longest period whose product with a full duty fits in 16
\* bits), the bounds of the procedures (1, 5, 100, 1000), the default and the
\* maximum.
MCPeriods ==
  {0, 1, 2, 5, 8, 9, 63, 64, 65, 99, 100, 101, 999, 1000,
   PWM_DEFAULT_PERIOD, 8191, 8192, 8193, 65535, 65536, 65537, 524287, 524288, 524289,
   2097151, 2097152, 2097153, PWM_PERIOD_MAX - 1, PWM_PERIOD_MAX}

PositionsApart == [i \in {0, 1} |-> i]

MCInit == Init /\ CrcInit /\ InputInit

InputAlone == Init /\ CrcInit /\ UNCHANGED <<driverVars, crcVars>>

MCNext ==
  \/ CrcInit /\ InputInit /\ Next /\ UNCHANGED <<crcVars, inputVars>>
  \/ Init /\ InputInit /\ CrcNext /\ UNCHANGED <<driverVars, inputVars>>
  \/ InputAlone /\ InputNext

MCVars == <<driverVars, crcVars, inputVars>>

\* Of the inputs: time passes, the processor runs, and the caller of input_update
\* keeps reading all groups.
MCSpec ==
  /\ MCInit /\ [][MCNext]_MCVars
  /\ WF_MCVars(InputAlone /\ Tick) /\ WF_MCVars(InputAlone /\ InputUpdate)
  /\ SF_MCVars(InputAlone /\ Update /\ flags' = Groups)
=============================================================================
