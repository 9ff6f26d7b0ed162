---------------------------- MODULE DriverCalls ----------------------------
(***************************************************************************)
(* The driver on its own: initialised as main does, then enabled with any  *)
(* of the chosen duties and periods, and disabled, in any order.           *)
(***************************************************************************)
EXTENDS Driver

CONSTANTS
  Duties,   \* duties passed to driver_enable
  Periods   \* periods, in microseconds, passed to driver_enable; 0 keeps the
            \* one in force

ASSUME DutiesAssumption == \A d \in Duties : d \in DutyValues
ASSUME PeriodsAssumption == \A p \in Periods : p \in PeriodValues

Init == DriverReset

Next ==
  \/ ~Initialised /\ DriverInit
  \/ /\ Initialised
     /\ \E duty \in Duties, period \in Periods : DriverEnable(duty, period)
  \/ Initialised /\ DriverDisable

Spec == Init /\ [][Next]_driverVars
=============================================================================
