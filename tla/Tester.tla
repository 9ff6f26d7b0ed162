------------------------------- MODULE Tester -------------------------------
(***************************************************************************)
(* The program: main.c and the three test procedures (procedure_0.c to     *)
(* procedure_2.c), run by the main thread over the driver, together with   *)
(* the timer 3 interrupts, the watchdog, the millisecond counter and the   *)
(* operator at the buttons and pots.                                       *)
(*                                                                         *)
(* pc names the next step of the main thread.  A step ends where another   *)
(* actor could see or change something: an output of the bridge, the LED,  *)
(* the interrupt mask, the clock, the buttons.  driver_set_direction is a  *)
(* subroutine of two steps, with its arguments and its caller in call.     *)
(*                                                                         *)
(* Left to other parts of the project: the counters and the checksum that  *)
(* msg_send adds and its result, which no procedure looks at; the length   *)
(* of the delays, hence the delay_interval and the eight seconds of the    *)
(* watchdog, which may fire here at any point.                             *)
(***************************************************************************)
EXTENDS Driver

CONSTANTS
  AdcValues,  \* the readings the pots can give
  MaxMs       \* bound: the millisecond counter stops here

ADC_VALUE_MAX == 1023

ASSUME AdcAssumption == AdcValues \subseteq 0 .. ADC_VALUE_MAX
ASSUME MaxMsAssumption == MaxMs \in Nat

VARIABLES
  pc,          \* next step of the main thread
  call,        \* arguments and return point of driver_set_direction
  duty,        \* local pwm_duty of the running procedure
  period,      \* local pwm_period
  toggle_dir,  \* local of procedure 1
  msg,         \* tx_msg, the message under construction
  sent,        \* the message last passed to msg_send
  led,         \* the LED port bit
  pressed,     \* the buttons the operator holds down
  now,         \* g_counter_ms, which wraps after 49.7 days: not followed that far
  onAt, offAt  \* history: when the output was last switched on and off

local == <<duty, period, toggle_dir>>
env == <<pressed, now>>
history == <<onAt, offAt>>
vars == <<driverVars, pc, call, local, msg, sent, led, env, history>>

-----------------------------------------------------------------------------
Buttons == {"bt0", "bt1", "bt2"}
Idle == 255          \* running_proc in the main loop

NoCall == [in1 |-> 0, in2 |-> 0, ret |-> "none"]

\* MUTANT of MapI32: scales to the number of output values.
MapI32OneMore(x, in_min, in_max, out_min, out_max) ==
  ((x - in_min) * (out_max - out_min + 1)) \div (in_max - in_min) + out_min

\* map_i32.  x lies between in_min and in_max, so C's division, which rounds
\* towards zero, and \div agree, and no product leaves 32 bits.
MapI32(x, in_min, in_max, out_min, out_max) ==
  ((x - in_min) * (out_max - out_min)) \div (in_max - in_min) + out_min

DutyOf(pt1) == MapI32(pt1, 0, ADC_VALUE_MAX, 0, PWM_DUTY_MAX)

\* MUTANT of PeriodOf: the scale starts at 0, as the one of the duty.
PeriodOfFromZero(pt0, out_max) == MapI32(pt0, 0, ADC_VALUE_MAX, 0, out_max)

PeriodOf(pt0, out_max) == MapI32(pt0, 0, ADC_VALUE_MAX, 1, out_max)

\* msg_init: everything is zeroed, the procedure number is set afterwards.
NewMsg(proc) ==
  [running_proc |-> proc, bt |-> {}, start_time |-> 0, end_time |-> 0,
   in1 |-> 0, in2 |-> 0, en |-> 0, pwm_duty |-> 0, pwm_period |-> 0]

Pressed(button) == button \in msg.bt
Toggle(bit) == 1 - bit

At(label) == pc = label
GoTo(label) == pc' = label /\ UNCHANGED call

\* Calls driver_set_direction(a, b), which returns to the step ret.
CallSetDirection(a, b, ret) ==
  /\ pc' = "set_in1"
  /\ call' = [in1 |-> a, in2 |-> b, ret |-> ret]

Send(m) == msg' = m /\ sent' = m

SwitchOn(d, p) == DriverEnable(d, p) /\ onAt' = now /\ UNCHANGED offAt
SwitchOff == /\ DriverDisable
             /\ offAt' = IF com = 1 THEN now ELSE offAt
             /\ UNCHANGED onAt

-----------------------------------------------------------------------------
(* The state after a reset: registers and statics are zero.                *)

Init ==
  /\ DriverReset
  /\ pc = "boot" /\ call = NoCall
  /\ duty = 0 /\ period = 0 /\ toggle_dir = 0
  /\ msg = NewMsg(0) /\ sent = NewMsg(0)
  /\ led = 0
  /\ pressed = {} /\ now = 0
  /\ onAt = 0 /\ offAt = 0

\* Initialisation of the hardware, up to transport_init.
Boot ==
  /\ At("boot")
  /\ DriverInit
  /\ led' = 0
  /\ GoTo("wait_for_transport")
  /\ UNCHANGED <<local, msg, sent, env, history>>

\* wait_for_transport: blink until the host has configured the USB device.
WaitForTransport ==
  /\ At("wait_for_transport")
  /\ \/ led' = Toggle(led) /\ GoTo("wait_for_transport") /\ UNCHANGED msg
     \/ led' = 0 /\ GoTo("main") /\ msg' = NewMsg(Idle)
  /\ UNCHANGED <<driverVars, local, sent, env, history>>

\* The top of the main loop: the buttons decide which procedure runs, the
\* lowest first.  Of the two reads of a debounced button only the one that
\* gives the result counts, so a sample is the state at one instant.
MainLoop ==
  /\ At("main")
  /\ msg' = [msg EXCEPT !.bt = pressed]
  /\ GoTo(IF "bt0" \in pressed THEN "p0_enter"
          ELSE IF "bt1" \in pressed THEN "p1_enter"
          ELSE IF "bt2" \in pressed THEN "p2_enter"
          ELSE "main_idle")
  /\ UNCHANGED <<driverVars, local, sent, led, env, history>>

\* The rest of the main loop, with or without the periodic message.
MainIdle ==
  /\ At("main_idle")
  /\ GoTo("main")
  /\ \/ /\ msg' = [msg EXCEPT !.running_proc = Idle]
        /\ UNCHANGED <<sent, led>>
     \/ /\ led' = Toggle(led)
        /\ Send(DriverGetState([msg EXCEPT !.running_proc = Idle,
                                           !.start_time = now,
                                           !.end_time = now]))
  /\ UNCHANGED <<driverVars, local, env, history>>

\* driver_set_direction, for all its callers.
DriverSetIn1 ==
  /\ At("set_in1")
  /\ SetIn1(call.in1)
  /\ GoTo("set_in2")
  /\ UNCHANGED <<local, msg, sent, led, env, history>>

DriverSetIn2 ==
  /\ At("set_in2")
  /\ SetIn2(call.in2)
  /\ pc' = call.ret /\ call' = NoCall
  /\ UNCHANGED <<local, msg, sent, led, env, history>>

-----------------------------------------------------------------------------
(* procedure_0_run: alternate the direction until a button is pressed.     *)

P0Enter ==
  /\ At("p0_enter")
  /\ led' = 1
  /\ msg' = NewMsg(0)
  /\ GoTo("p0_input")
  /\ UNCHANGED <<driverVars, local, sent, env, history>>

\* One pass of the loop that follows the pots while bt0 is held.
P0Input ==
  /\ At("p0_input")
  /\ \E pt1 \in AdcValues :
       /\ duty' = DutyOf(pt1)
       /\ Send([DriverGetState([msg EXCEPT !.bt = pressed])
                  EXCEPT !.pwm_duty = duty'])
  /\ GoTo(IF "bt0" \in pressed THEN "p0_input" ELSE "p0_start")
  /\ UNCHANGED <<driverVars, period, toggle_dir, led, env, history>>

P0Start ==
  /\ At("p0_start")
  /\ msg' = [msg EXCEPT !.start_time = now]
  /\ CallSetDirection(0, 1, "p0_enable")
  /\ UNCHANGED <<driverVars, local, sent, led, env, history>>

\* The period is fixed to 5 microseconds.
P0Enable ==
  /\ At("p0_enable")
  /\ SwitchOn(duty, 5)
  /\ GoTo("p0_run")
  /\ UNCHANGED <<local, msg, sent, led, env>>

\* MUTANT of P0Run: toggles only one of the two direction inputs.
P0RunHalfToggle ==
  /\ At("p0_run")
  /\ Send(DriverGetState([msg EXCEPT !.bt = pressed]))
  /\ led' = Toggle(led)
  /\ CallSetDirection(Toggle(in1), in2, "p0_check")
  /\ UNCHANGED <<driverVars, local, env, history>>

\* One pass of the run loop, which ends with driver_toggle_direction.
P0Run ==
  /\ At("p0_run")
  /\ Send(DriverGetState([msg EXCEPT !.bt = pressed]))
  /\ led' = Toggle(led)
  /\ CallSetDirection(Toggle(in1), Toggle(in2), "p0_check")
  /\ UNCHANGED <<driverVars, local, env, history>>

\* MUTANT of P0Check: stops only when both buttons are pressed.
P0CheckBoth ==
  /\ At("p0_check")
  /\ GoTo(IF ~Pressed("bt1") \/ ~Pressed("bt2") THEN "p0_run" ELSE "p0_stop")
  /\ UNCHANGED <<driverVars, local, msg, sent, led, env, history>>

P0Check ==
  /\ At("p0_check")
  /\ GoTo(IF ~Pressed("bt1") /\ ~Pressed("bt2") THEN "p0_run" ELSE "p0_stop")
  /\ UNCHANGED <<driverVars, local, msg, sent, led, env, history>>

P0Stop ==
  /\ At("p0_stop")
  /\ SwitchOff
  /\ CallSetDirection(0, 0, "p0_end")
  /\ UNCHANGED <<local, msg, sent, led, env>>

\* MUTANT of Finish: sends without a fresh driver_get_state.
FinishStale ==
  /\ Send([msg EXCEPT !.end_time = now])
  /\ led' = 0
  /\ GoTo("main_idle")
  /\ UNCHANGED <<driverVars, local, env, history>>

\* MUTANT of Finish: the LED is left as the run and the interrupts had it.
FinishLit ==
  /\ Send(DriverGetState([msg EXCEPT !.end_time = now]))
  /\ GoTo("main_idle")
  /\ UNCHANGED <<driverVars, local, led, env, history>>

\* The last steps of every procedure: final message, LED off, return.
Finish ==
  /\ Send(DriverGetState([msg EXCEPT !.end_time = now]))
  /\ led' = 0
  /\ GoTo("main_idle")
  /\ UNCHANGED <<driverVars, local, env, history>>

P0End == At("p0_end") /\ Finish

-----------------------------------------------------------------------------
(* procedure_1_run: while bt1 is held, run as long as bt2 is held too.     *)

P1Enter ==
  /\ At("p1_enter")
  /\ led' = 1
  /\ toggle_dir' = 0
  /\ msg' = [NewMsg(1) EXCEPT !.start_time = now]
  /\ GoTo("p1_input")
  /\ UNCHANGED <<driverVars, duty, period, sent, env, history>>

\* MUTANT of P1Input: maps the pot again after the message has gone out.
P1InputReread ==
  /\ At("p1_input")
  /\ \E pt0, pt1, again \in AdcValues :
       /\ duty' = DutyOf(again)
       /\ period' = PeriodOf(pt0, 100)
       /\ Send([DriverGetState([msg EXCEPT !.bt = pressed])
                  EXCEPT !.pwm_duty = DutyOf(pt1), !.pwm_period = period'])
  /\ toggle_dir' = IF "bt0" \in pressed THEN Toggle(toggle_dir) ELSE toggle_dir
  /\ IF "bt2" \in pressed
     THEN CallSetDirection(1, 0, "p1_start")
     ELSE GoTo("p1_check")
  /\ UNCHANGED <<driverVars, led, env, history>>

\* The pass of the outer loop up to the decision to run.
P1Input ==
  /\ At("p1_input")
  /\ \E pt0, pt1 \in AdcValues :
       /\ duty' = DutyOf(pt1)
       /\ period' = PeriodOf(pt0, 100)
       /\ Send([DriverGetState([msg EXCEPT !.bt = pressed])
                  EXCEPT !.pwm_duty = duty', !.pwm_period = period'])
  /\ toggle_dir' = IF "bt0" \in pressed THEN Toggle(toggle_dir) ELSE toggle_dir
  /\ IF "bt2" \in pressed
     THEN CallSetDirection(1, 0, "p1_start")
     ELSE GoTo("p1_check")
  /\ UNCHANGED <<driverVars, led, env, history>>

P1Start ==
  /\ At("p1_start")
  /\ msg' = [msg EXCEPT !.start_time = now]
  /\ IF toggle_dir # 0
     THEN CallSetDirection(Toggle(in1), Toggle(in2), "p1_enable")
     ELSE GoTo("p1_enable")
  /\ UNCHANGED <<driverVars, local, sent, led, env, history>>

P1Enable ==
  /\ At("p1_enable")
  /\ SwitchOn(duty, period)
  /\ GoTo("p1_run")
  /\ UNCHANGED <<local, msg, sent, led, env>>

\* MUTANT of P1Run: goes on while either button is held.
P1RunEither ==
  /\ At("p1_run")
  /\ led' = Toggle(led)
  /\ sent' = DriverGetState(msg)
  /\ msg' = [sent' EXCEPT !.bt = pressed]
  /\ GoTo(IF {"bt1", "bt2"} \intersect pressed # {} THEN "p1_run" ELSE "p1_stop")
  /\ UNCHANGED <<driverVars, local, env, history>>

\* One pass of the run loop: the message goes out before the buttons are read.
P1Run ==
  /\ At("p1_run")
  /\ led' = Toggle(led)
  /\ sent' = DriverGetState(msg)
  /\ msg' = [sent' EXCEPT !.bt = pressed]
  /\ GoTo(IF {"bt1", "bt2"} \subseteq pressed THEN "p1_run" ELSE "p1_stop")
  /\ UNCHANGED <<driverVars, local, env, history>>

P1Stop ==
  /\ At("p1_stop")
  /\ led' = 1
  /\ SwitchOff
  /\ CallSetDirection(0, 0, "p1_stopped")
  /\ UNCHANGED <<local, msg, sent, env>>

\* This message still shows the driver as the run loop last saw it.
P1Stopped ==
  /\ At("p1_stopped")
  /\ Send([msg EXCEPT !.end_time = now])
  /\ GoTo("p1_check")
  /\ UNCHANGED <<driverVars, local, led, env, history>>

P1Check ==
  /\ At("p1_check")
  /\ GoTo(IF Pressed("bt1") THEN "p1_input" ELSE "p1_exit")
  /\ UNCHANGED <<driverVars, local, msg, sent, led, env, history>>

P1Exit ==
  /\ At("p1_exit")
  /\ SwitchOff
  /\ CallSetDirection(0, 0, "p1_end")
  /\ UNCHANGED <<local, msg, sent, led, env>>

P1End == At("p1_end") /\ Finish

-----------------------------------------------------------------------------
(* procedure_2_run: while bt2 is held, run as long as bt0 is held too; a   *)
(* run is started with bt1, and the timer interrupts show it on the LED.   *)

P2Enter ==
  /\ At("p2_enter")
  /\ led' = 0
  /\ msg' = [NewMsg(2) EXCEPT !.start_time = now]
  /\ GoTo("p2_input")
  /\ UNCHANGED <<driverVars, local, sent, env, history>>

P2Input ==
  /\ At("p2_input")
  /\ \E pt0, pt1 \in AdcValues :
       /\ duty' = DutyOf(pt1)
       /\ period' = PeriodOf(pt0, 1000)
       /\ Send([DriverGetState([msg EXCEPT !.bt = pressed])
                  EXCEPT !.pwm_duty = duty', !.pwm_period = period'])
  /\ IF "bt1" \in pressed
     THEN CallSetDirection(1, 0, "p2_start")
     ELSE GoTo("p2_check")
  /\ UNCHANGED <<driverVars, toggle_dir, led, env, history>>

P2Start ==
  /\ At("p2_start")
  /\ msg' = [msg EXCEPT !.start_time = now]
  /\ GoTo("p2_enable")
  /\ UNCHANGED <<driverVars, local, sent, led, env, history>>

P2Enable ==
  /\ At("p2_enable")
  /\ SwitchOn(duty, period)
  /\ GoTo("p2_arm")
  /\ UNCHANGED <<local, msg, sent, led, env>>

\* MUTANT of P2Arm: the start is stamped after the output is on.
P2ArmStamps ==
  /\ At("p2_arm")
  /\ PwmSetInterruptCallback(LedCallback)
  /\ msg' = [msg EXCEPT !.start_time = now]
  /\ GoTo("p2_run")
  /\ UNCHANGED <<in1, in2, g_pwm_duty, g_pwm_period>>
  /\ UNCHANGED <<local, sent, led, env, history>>

P2Arm ==
  /\ At("p2_arm")
  /\ PwmSetInterruptCallback(LedCallback)
  /\ GoTo("p2_run")
  /\ UNCHANGED <<in1, in2, g_pwm_duty, g_pwm_period>>
  /\ UNCHANGED <<local, msg, sent, led, env, history>>

P2Run ==
  /\ At("p2_run")
  /\ sent' = DriverGetState(msg)
  /\ msg' = [sent' EXCEPT !.bt = pressed]
  /\ GoTo(IF {"bt0", "bt2"} \subseteq pressed THEN "p2_run" ELSE "p2_led_off")
  /\ UNCHANGED <<driverVars, local, led, env, history>>

\* The interrupts are still armed: one may switch the LED on again.
P2LedOff ==
  /\ At("p2_led_off")
  /\ led' = 0
  /\ GoTo("p2_stop")
  /\ UNCHANGED <<driverVars, local, msg, sent, env, history>>

P2Stop ==
  /\ At("p2_stop")
  /\ SwitchOff
  /\ CallSetDirection(0, 0, "p2_stopped")
  /\ UNCHANGED <<local, msg, sent, led, env>>

P2Stopped ==
  /\ At("p2_stopped")
  /\ Send([msg EXCEPT !.end_time = now])
  /\ GoTo("p2_check")
  /\ UNCHANGED <<driverVars, local, led, env, history>>

\* MUTANT of P2Check: the outer loop does not look at its button.
P2CheckForever ==
  /\ At("p2_check")
  /\ GoTo("p2_input")
  /\ UNCHANGED <<driverVars, local, msg, sent, led, env, history>>

P2Check ==
  /\ At("p2_check")
  /\ GoTo(IF Pressed("bt2") THEN "p2_input" ELSE "p2_exit")
  /\ UNCHANGED <<driverVars, local, msg, sent, led, env, history>>

P2Exit ==
  /\ At("p2_exit")
  /\ SwitchOff
  /\ CallSetDirection(0, 0, "p2_disarm")
  /\ UNCHANGED <<local, msg, sent, led, env>>

P2Disarm ==
  /\ At("p2_disarm")
  /\ PwmSetInterruptCallback(NoCallback)
  /\ GoTo("p2_end")
  /\ UNCHANGED <<in1, in2, g_pwm_duty, g_pwm_period>>
  /\ UNCHANGED <<local, msg, sent, led, env, history>>

P2End == At("p2_end") /\ Finish

-----------------------------------------------------------------------------
(* The other actors.                                                       *)

\* TIMER3_CAPT_vect (top) and TIMER3_OVF_vect (bottom), with the callback of
\* procedure 2.  The flags in TIFR3 are set whenever the timer has run and are
\* never cleared by the program, so the mask alone decides.
Timer3Interrupt ==
  /\ timsk = 1
  /\ \E top \in {0, 1} :
       led' = IF cb = NoCallback THEN led ELSE IF top = 0 THEN 1 ELSE 0
  /\ UNCHANGED <<driverVars, pc, call, local, msg, sent, env, history>>

\* TIMER0_COMPA_vect, as far as the timestamps go.  The wrap of the 32 bits is
\* left out (Time has it): the stamps of a run across it are out of order, and
\* the host has to subtract them modulo 2^32.
Tick ==
  /\ now < MaxMs
  /\ now' = now + 1
  /\ UNCHANGED <<driverVars, pc, call, local, msg, sent, led, pressed, history>>

\* The operator presses or releases a button.
Press ==
  /\ \E b \in Buttons :
       pressed' = IF b \in pressed THEN pressed \ {b} ELSE pressed \union {b}
  /\ UNCHANGED <<driverVars, pc, call, local, msg, sent, led, now, history>>

\* The watchdog, fed only at the top of the main loop, resets the processor.
WatchdogReset ==
  /\ ~At("boot")
  /\ com' = 0 /\ clk' = 0 /\ cs' = 0 /\ icr' = 0
  /\ ocr' = 0 /\ timsk' = 0 /\ cb' = NoCallback
  /\ in1' = 0 /\ in2' = 0 /\ g_pwm_duty' = 0 /\ g_pwm_period' = 0
  /\ pc' = "boot" /\ call' = NoCall
  /\ duty' = 0 /\ period' = 0 /\ toggle_dir' = 0
  /\ msg' = NewMsg(0) /\ sent' = NewMsg(0)
  /\ led' = 0 /\ now' = 0 /\ onAt' = 0 /\ offAt' = 0
  /\ UNCHANGED pressed

-----------------------------------------------------------------------------
Procedure0 == \/ P0Enter \/ P0Input \/ P0Start \/ P0Enable \/ P0Run
              \/ P0Check \/ P0Stop \/ P0End

Procedure1 == \/ P1Enter \/ P1Input \/ P1Start \/ P1Enable \/ P1Run
              \/ P1Stop \/ P1Stopped \/ P1Check \/ P1Exit \/ P1End

Procedure2 == \/ P2Enter \/ P2Input \/ P2Start \/ P2Enable \/ P2Arm \/ P2Run
              \/ P2LedOff \/ P2Stop \/ P2Stopped \/ P2Check \/ P2Exit
              \/ P2Disarm \/ P2End

MainThread == \/ Boot \/ WaitForTransport \/ MainLoop \/ MainIdle
              \/ DriverSetIn1 \/ DriverSetIn2
              \/ Procedure0 \/ Procedure1 \/ Procedure2

Next == MainThread \/ Timer3Interrupt \/ Tick \/ Press \/ WatchdogReset

Spec == Init /\ [][Next]_vars

\* The processor runs: the main thread always takes its next step.  Nothing
\* is assumed of the operator, the timers or the watchdog.
FairSpec == Spec /\ WF_vars(MainThread)
=============================================================================
