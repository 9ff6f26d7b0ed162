------------------------------- MODULE Timer3 -------------------------------
(***************************************************************************)
(* firmware/src/pwm.c register by register, while the counter of timer 3   *)
(* runs and its interrupts come.  Pwm has the arithmetic and takes each    *)
(* function as one step; here a step is one access to a register or to     *)
(* one byte of the callback pointer, and the counter has a place.          *)
(*                                                                         *)
(* The counter (external) is that of phase and frequency correct mode with *)
(* ICR3 as TOP: it runs from BOTTOM to TOP and back.  OCR3C is buffered,   *)
(* the compare unit takes it over at BOTTOM.  ICR3 is not buffered: a      *)
(* counter that stands above a smaller TOP does not meet it and runs on to *)
(* MAX.  With WGM33 clear nothing is buffered and MAX is the top.          *)
(*                                                                         *)
(* Clock selects differ in speed only, so clk is 1 for each of them.       *)
(***************************************************************************)
EXTENDS Integers

CONSTANTS
  MAX,        \* largest value of the counter: 0xFFFF
  Tops,       \* values of ICR3 that set_period writes
  Compares    \* values of OCR3C that pwm_enable writes: 0 .. 63

ASSUME MaxAssumption == MAX \in Nat
ASSUME TopsAssumption == Tops \subseteq 1 .. MAX
ASSUME ComparesAssumption == Compares \subseteq Nat

VARIABLES
  wgm,      \* bit WGM33 of TCCR3B: phase and frequency correct mode
  clk,      \* clock select bits of TCCR3B: 0 stops the counter
  com,      \* bit COM3C1 of TCCR3A: the compare unit drives the pin
  icr,      \* ICR3, and g_pwm_period
  ocr,      \* OCR3C as it was written
  timsk,    \* TIMSK3: ICIE3 and TOIE3
  ie,       \* bit I of SREG
  cb,       \* g_interrupt_cb, as its low and high byte
  cnt,      \* TCNT3
  up,       \* whether the counter counts up
  compare,  \* the value that the compare unit compares with
  oc,       \* its output latch, the level of the pin while com is set
  pc,       \* next step of the main thread
  settled,  \* history: the counter has passed BOTTOM since pwm_enable
  called    \* history: what the interrupt handler called last

registers == <<wgm, clk, com, icr, ocr>>
masks == <<timsk, ie>>
counter == <<cnt, up, compare, oc>>
timer3Vars == <<registers, masks, cb, counter, pc, settled, called>>

-----------------------------------------------------------------------------
\* Function pointers by their two bytes; &pwm_interrupt_cb is the only one.
NULL == <<0, 0>>
LedCallback == <<1, 1>>

Goto(from, to) == pc = from /\ pc' = to

\* After a reset, before pwm_init.
Timer3Init ==
  /\ wgm = 0 /\ clk = 0 /\ com = 0 /\ icr = 0 /\ ocr = 0
  /\ timsk = 0 /\ ie = 1 /\ cb = NULL
  /\ cnt = 0 /\ up = TRUE /\ compare = 0 /\ oc = 0
  /\ pc = "boot" /\ settled = FALSE /\ called = NULL

\* MUTANT of Stop: clears TCCR3B, as one would to stop a timer.
StopAll == clk' = 0 /\ wgm' = 0

\* stop
Stop == clk' = 0 /\ wgm' = 1

\* MUTANT of Resume: forgets g_cs_bits.
ResumeWithoutClock == clk' = 0 /\ wgm' = 1

\* resume
Resume == clk' = 1 /\ wgm' = 1

\* pwm_init.  The timer stands and its interrupts are masked, so that nobody
\* can tell its steps apart.
PwmInit ==
  /\ Goto("boot", "idle")
  /\ Stop
  /\ com' = 0 /\ timsk' = 0 /\ cb' = NULL
  /\ icr' \in Tops
  /\ UNCHANGED <<ocr, ie, counter, settled, called>>

-----------------------------------------------------------------------------
(* pwm_enable.                                                             *)

\* MUTANT of EnableStop: leaves the timer running.
EnableRunning ==
  /\ Goto("idle", "period")
  /\ UNCHANGED <<registers, settled, masks, cb, counter, called>>

EnableStop ==
  /\ Goto("idle", "period")
  /\ Stop
  /\ settled' = FALSE
  /\ UNCHANGED <<com, icr, ocr, masks, cb, counter, called>>

\* A period of 0 keeps the one that was set before.
EnablePeriod ==
  /\ Goto("period", "com")
  /\ icr' \in Tops \union {icr}
  /\ UNCHANGED <<wgm, clk, com, ocr, masks, cb, counter, settled, called>>

EnableCom ==
  /\ Goto("com", "duty")
  /\ com' = 1
  /\ UNCHANGED <<wgm, clk, icr, ocr, masks, cb, counter, settled, called>>

\* The compare value is below TOP (CompareBelowTop of Driver).
EnableDuty ==
  /\ Goto("duty", "resume")
  /\ \E duty_cycle \in Compares :
       /\ duty_cycle < icr
       /\ ocr' = duty_cycle
       /\ compare' = IF wgm = 1 THEN compare ELSE duty_cycle
  /\ UNCHANGED <<wgm, clk, com, icr, masks, cb, cnt, up, oc, settled, called>>

EnableResume ==
  /\ Goto("resume", "idle")
  /\ Resume
  /\ UNCHANGED <<com, icr, ocr, masks, cb, counter, settled, called>>

-----------------------------------------------------------------------------
(* pwm_disable.                                                            *)

DisableCom ==
  /\ Goto("idle", "stop")
  /\ com' = 0
  /\ UNCHANGED <<wgm, clk, icr, ocr, masks, cb, counter, settled, called>>

DisableStop ==
  /\ Goto("stop", "mask")
  /\ Stop
  /\ UNCHANGED <<com, icr, ocr, masks, cb, counter, settled, called>>

DisableMask ==
  /\ Goto("mask", "idle")
  /\ timsk' = 0
  /\ UNCHANGED <<registers, ie, cb, counter, settled, called>>

-----------------------------------------------------------------------------
(* pwm_set_interrupt_callback.  Which callback is being set is known by    *)
(* the byte that is written first.                                         *)

\* MUTANT of CallbackMask: leaves the interrupts of the timer and of the
\* processor as they are.
CallbackUnmasked ==
  /\ Goto("idle", "low")
  /\ UNCHANGED <<registers, masks, cb, counter, settled, called>>

\* Masks the interrupts of the timer, then those of the processor.
CallbackMask ==
  /\ Goto("idle", "low")
  /\ timsk' = 0 /\ ie' = 0
  /\ UNCHANGED <<registers, cb, counter, settled, called>>

CallbackLow ==
  /\ Goto("low", "high")
  /\ \E new \in {NULL, LedCallback} : cb' = <<new[1], cb[2]>>
  /\ UNCHANGED <<registers, masks, counter, settled, called>>

CallbackHigh ==
  /\ Goto("high", "sei")
  /\ cb' = <<cb[1], IF cb[1] = NULL[1] THEN NULL[2] ELSE LedCallback[2]>>
  /\ UNCHANGED <<registers, masks, counter, settled, called>>

\* Only a callback that is not NULL gets its interrupts unmasked.
CallbackUnmask ==
  /\ Goto("sei", "idle")
  /\ ie' = 1
  /\ timsk' = IF cb = NULL THEN 0 ELSE 1
  /\ UNCHANGED <<registers, cb, counter, settled, called>>

-----------------------------------------------------------------------------
(* The counter (external) and its interrupts.                              *)

Direction == IF wgm = 0 \/ (cnt = 0 /\ cnt # icr) THEN TRUE
             ELSE IF cnt = icr THEN FALSE ELSE up

Next_cnt == IF Direction THEN IF cnt = MAX THEN 0 ELSE cnt + 1 ELSE cnt - 1

\* The pin is cleared on a match while counting up and set on one while
\* counting down; a compare value of BOTTOM keeps it low.
Latch(n, c, direction) ==
  IF c = 0 THEN 0 ELSE IF n # c THEN oc ELSE IF direction THEN 0 ELSE 1

Count ==
  /\ clk # 0
  /\ up' = Direction
  /\ cnt' = Next_cnt
  /\ compare' = IF cnt' = 0 THEN ocr ELSE compare
  /\ oc' = Latch(cnt', compare', Direction)
  /\ settled' = (settled \/ cnt' = 0)
  /\ UNCHANGED <<registers, masks, cb, pc, called>>

\* TIMER3_CAPT_vect and TIMER3_OVF_vect.  A flag may have waited since long
\* before the mask was opened.
Interrupt ==
  /\ timsk = 1 /\ ie = 1
  /\ called' = cb
  /\ UNCHANGED <<registers, masks, cb, counter, pc, settled>>

-----------------------------------------------------------------------------
PwmCalls ==
  \/ PwmInit
  \/ EnableStop \/ EnablePeriod \/ EnableCom \/ EnableDuty \/ EnableResume
  \/ DisableCom \/ DisableStop \/ DisableMask
  \/ CallbackMask \/ CallbackLow \/ CallbackHigh \/ CallbackUnmask

Timer3Next == PwmCalls \/ Count \/ Interrupt

Timer3Spec == Timer3Init /\ [][Timer3Next]_timer3Vars

\* A running timer counts, and the main thread does not stop inside a call.
PwmReturns == pc # "idle" /\ PwmCalls

-----------------------------------------------------------------------------
Timer3TypeOK ==
  /\ wgm \in {0, 1} /\ clk \in {0, 1} /\ com \in {0, 1}
  /\ icr \in Tops \union {0} /\ (pc # "boot" => icr \in Tops)
  /\ ocr \in Compares \union {0}
  /\ timsk \in {0, 1} /\ ie \in {0, 1}
  /\ cb \in {0, 1} \X {0, 1} /\ called \in {0, 1} \X {0, 1}
  /\ cnt \in 0 .. MAX /\ up \in BOOLEAN
  /\ compare \in Compares \union {0} /\ oc \in {0, 1}
  /\ settled \in BOOLEAN

\* The transient after pwm_enable, while the counter may stand above the new
\* TOP and the compare unit still has the value of the run before, ends when
\* the counter passes BOTTOM: from then on the counter stays below TOP and the
\* pulse is the one of the duty asked for, whatever the main thread calls next.
SettledIsRegular ==
  settled => cnt <= icr /\ compare = ocr

\* A counter that missed its TOP and runs on to MAX does so with the output
\* low: the motor never gets more than the pulse of this run or of the last.
OverrunIsLow == oc = 1 => cnt <= compare

\* The handlers run on a callback pointer of which both bytes belong
\* together, at whatever step of pwm_set_interrupt_callback they come.
CallbackIsWhole == called \in {NULL, LedCallback}

\* After pwm_enable the compare value that it wrote comes into effect, unless
\* the output is switched off or set anew before.
Enabling == pc \in {"period", "com", "duty", "resume"}

DutyTakesEffect == com = 1 /\ ~Enabling ~> compare = ocr \/ com = 0 \/ Enabling
=============================================================================
