-------------------------------- MODULE Pwm --------------------------------
(***************************************************************************)
(* firmware/src/pwm.c: timer 3 drives the enable input of the H-bridge     *)
(* with a phase and frequency correct PWM on pin C4 (channel C).           *)
(*                                                                         *)
(* The state is the part of the timer the program depends on.  The static  *)
(* g_pwm_period and the register ICR3 are always written together (the     *)
(* last statement of set_period), so one variable, icr, stands for both.   *)
(* Pin C4 itself is not a variable: hw_init and pwm_disable only ever      *)
(* write 0 to PORTC4, so the pin is low unless the channel is connected.   *)
(*                                                                         *)
(* The operations are operators over the variables, used by Driver and     *)
(* Tester.  Interrupt handlers touch none of these variables, so one       *)
(* operation is one step of the main thread.                               *)
(***************************************************************************)
EXTENDS Integers

VARIABLES
  com,    \* bit COM3C1 of TCCR3A: the channel is connected to the pin
  clk,    \* clock select bits of TCCR3B: 0 stops the timer
  cs,     \* g_cs_bits, the clock select that set_period computed
  icr,    \* ICR3 and g_pwm_period: the TOP value of the counter
  ocr,    \* OCR3C, the compare value: ocr / icr is the duty cycle
  timsk,  \* TIMSK3: ICIE3 and TOIE3, which are set and cleared together
  cb      \* g_interrupt_cb

pwmVars == <<com, clk, cs, icr, ocr, timsk, cb>>

-----------------------------------------------------------------------------
(* The arithmetic.  uint16_t and int are both 16 bits wide on this AVR.    *)

UINT16 == 65536
TIMER3_RESOLUTION == 65536

PWM_DEFAULT_PERIOD == 1000000
PWM_PERIOD_MAX == 4194240
PWM_DUTY_MAX == 1023

DutyValues == 0 .. PWM_DUTY_MAX
PeriodValues == 0 .. PWM_PERIOD_MAX

NoCallback == 0      \* NULL
LedCallback == 1     \* &pwm_interrupt_cb, the only callback of the program

ClockSelects == 1 .. 5

\* The division of the 16 MHz clock that each clock select stands for.
Prescaler == [c \in ClockSelects |-> CASE c = 1 -> 1
                                       [] c = 2 -> 8
                                       [] c = 3 -> 64
                                       [] c = 4 -> 256
                                       [] c = 5 -> 1024]

\* Timer cycles in a period of that many microseconds: F_CPU / 2000000 is 8,
\* because the counter runs up and down once in a period.
Cycles(period) == 8 * period

\* The clock selects with which that many cycles stay below the resolution.
Fitting(cycles) ==
  {c \in ClockSelects : cycles < TIMER3_RESOLUTION * Prescaler[c]}

\* MUTANT of CsBits: the tests in the opposite order, coarsest clock first.
CsBitsCoarsest(cycles) ==
  IF Fitting(cycles) = {}
  THEN 5
  ELSE CHOOSE c \in Fitting(cycles) : \A d \in Fitting(cycles) : c >= d

\* The tests of set_period go from the finest clock to the coarsest, which
\* is also the one taken when the period is too long for every clock.
CsBits(cycles) ==
  IF Fitting(cycles) = {}
  THEN 5
  ELSE CHOOSE c \in Fitting(cycles) : \A d \in Fitting(cycles) : c <= d

\* MUTANT of TopValue: counts from 0 to TOP, as a fast PWM would.
TopValueFast(cycles) ==
  IF Fitting(cycles) = {}
  THEN TIMER3_RESOLUTION - 1
  ELSE cycles \div Prescaler[CsBits(cycles)] - 1

TopValue(cycles) ==
  IF Fitting(cycles) = {}
  THEN TIMER3_RESOLUTION - 1
  ELSE cycles \div Prescaler[CsBits(cycles)]

\* duty_cycle *= duty; duty_cycle >>= 10, both in a uint16_t.
DutyCycle(top, duty) == ((top * duty) % UINT16) \div 1024

-----------------------------------------------------------------------------
(* The operations.                                                         *)

SetPeriod(period) ==
  /\ cs' = CsBits(Cycles(period))
  /\ icr' = TopValue(Cycles(period))

\* The registers after a reset of the processor, and the zeroed statics.
PwmReset ==
  /\ com = 0 /\ clk = 0 /\ cs = 0 /\ icr = 0
  /\ ocr = 0 /\ timsk = 0 /\ cb = NoCallback

\* pwm_init
PwmInit ==
  /\ com' = 0 /\ clk' = 0 /\ timsk' = 0 /\ cb' = NoCallback
  /\ SetPeriod(PWM_DEFAULT_PERIOD)
  /\ UNCHANGED ocr

\* MUTANT of PwmEnable: computes the duty before it sets the period.
PwmEnableEarlyDuty(duty, period) ==
  /\ IF period > 0 THEN SetPeriod(period) ELSE UNCHANGED <<cs, icr>>
  /\ com' = 1
  /\ ocr' = DutyCycle(icr, duty)
  /\ clk' = cs'
  /\ UNCHANGED <<timsk, cb>>

\* pwm_enable: a period of 0 keeps the one that was set before.
PwmEnable(duty, period) ==
  /\ IF period > 0 THEN SetPeriod(period) ELSE UNCHANGED <<cs, icr>>
  /\ com' = 1
  /\ ocr' = DutyCycle(icr', duty)
  /\ clk' = cs'
  /\ UNCHANGED <<timsk, cb>>

\* MUTANT of PwmDisable: forgets to mask the timer interrupts.
PwmDisableUnmasked ==
  /\ com' = 0 /\ clk' = 0
  /\ UNCHANGED <<cs, icr, ocr, timsk, cb>>

\* pwm_disable
PwmDisable ==
  /\ com' = 0 /\ clk' = 0 /\ timsk' = 0
  /\ UNCHANGED <<cs, icr, ocr, cb>>

\* pwm_set_interrupt_callback: the timer interrupts are masked while the
\* pointer changes, and unmasked only for a callback that is not NULL.
PwmSetInterruptCallback(callback) ==
  /\ cb' = callback
  /\ timsk' = IF callback = NoCallback THEN 0 ELSE 1
  /\ UNCHANGED <<com, clk, cs, icr, ocr>>

-----------------------------------------------------------------------------
\* The output is a PWM signal, not the constant 0 of the port bit.
Powered == com = 1 /\ clk # 0

PwmTypeOK ==
  /\ com \in {0, 1} /\ timsk \in {0, 1}
  /\ clk \in 0 .. 5 /\ cs \in 0 .. 5
  /\ icr \in Nat /\ icr < UINT16
  /\ ocr \in 0 .. 63
  /\ cb \in {NoCallback, LedCallback}
=============================================================================
