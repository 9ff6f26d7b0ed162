------------------------------- MODULE Driver -------------------------------
(***************************************************************************)
(* firmware/src/driver.c on top of pwm.c: the L298N H-bridge, with its two *)
(* direction inputs on port B and its enable input on the PWM channel, and *)
(* the duty and period the program last asked for, which it reports to the *)
(* host.                                                                   *)
(*                                                                         *)
(* The operations are used by Tester, which runs the program, and by       *)
(* DriverCalls, which runs them on their own to check the arithmetic.      *)
(***************************************************************************)
EXTENDS Pwm

VARIABLES
  in1, in2,       \* bits 0 and 1 of PORTB
  g_pwm_duty,
  g_pwm_period    \* driver.c's copy, a uint32_t of microseconds

driverVars == <<pwmVars, in1, in2, g_pwm_duty, g_pwm_period>>

-----------------------------------------------------------------------------
\* The values after a reset of the processor, before driver_init.
DriverReset ==
  /\ PwmReset
  /\ in1 = 0 /\ in2 = 0
  /\ g_pwm_duty = 0 /\ g_pwm_period = 0

\* driver_init
DriverInit ==
  /\ PwmInit
  /\ in1' = 0 /\ in2' = 0
  /\ g_pwm_duty' = 0
  /\ g_pwm_period' = PWM_DEFAULT_PERIOD

\* driver_set_direction writes one port bit after the other; the bridge sees
\* the state in between, so each write is a step.
SetIn1(level) == in1' = level /\ UNCHANGED <<pwmVars, in2, g_pwm_duty, g_pwm_period>>
SetIn2(level) == in2' = level /\ UNCHANGED <<pwmVars, in1, g_pwm_duty, g_pwm_period>>

\* driver_enable
DriverEnable(duty, period) ==
  /\ g_pwm_duty' = duty
  /\ g_pwm_period' = period
  /\ PwmEnable(duty, period)
  /\ UNCHANGED <<in1, in2>>

\* MUTANT of DriverDisable: forgets to clear the duty.
DriverDisableKeepDuty ==
  /\ PwmDisable
  /\ UNCHANGED <<in1, in2, g_pwm_duty, g_pwm_period>>

\* driver_disable
DriverDisable ==
  /\ PwmDisable
  /\ g_pwm_duty' = 0
  /\ UNCHANGED <<in1, in2, g_pwm_period>>

\* The fields of driver_s that driver_get_state fills in a message m.
DriverGetState(m) ==
  [m EXCEPT !.in1 = in1, !.in2 = in2,
            !.en = g_pwm_duty, !.pwm_duty = g_pwm_duty,
            !.pwm_period = g_pwm_period]

\* driver_init has run: it selects a clock, and no operation deselects it.
Initialised == cs > 0

-----------------------------------------------------------------------------
DriverTypeOK ==
  /\ PwmTypeOK
  /\ in1 \in {0, 1} /\ in2 \in {0, 1}
  /\ g_pwm_duty \in DutyValues
  /\ g_pwm_period \in PeriodValues

\* pwm.c (TOP and clock of timer 3) and driver.c (the period it reports)
\* keep the period twice.  The counter period that the timer runs with is the
\* reported one, up to less than one tick of the selected clock.  A period
\* of 0, before driver_init or asked for from driver_enable, reports none.
PeriodIsReported ==
  g_pwm_period > 0 =>
    /\ icr * Prescaler[cs] <= Cycles(g_pwm_period)
    /\ Cycles(g_pwm_period) < (icr + 1) * Prescaler[cs]

\* set_period picks the finest clock that can hold the period: the TOP value
\* is at least an eighth of the resolution unless the clock is undivided, so
\* no resolution of the duty is given away.  Each coarser clock divides by at
\* most eight times the one before.
FinestClock == cs > 1 => icr >= TIMER3_RESOLUTION \div 8

\* The compare value never passes TOP, whatever the 16-bit product in
\* pwm_enable loses, so the output is never stuck at 100% by accident.
CompareBelowTop == ocr <= icr

\* What the debug reader prints of a message (tools/debug-reader main.c:102):
\* pwm_duty / 1023 is the duty of the output.  In the timer the duty is
\* ocr / icr, so ocr must be icr * duty / 1024 rounded down.
DutyIsProportional ==
  com = 1 => /\ ocr * 1024 <= icr * g_pwm_duty
             /\ icr * g_pwm_duty < (ocr + 1) * 1024
=============================================================================
