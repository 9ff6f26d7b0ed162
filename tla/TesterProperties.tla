-------------------------- MODULE TesterProperties --------------------------
(***************************************************************************)
(* What the tester must and must never do with the motor, the reports to   *)
(* the host and the interrupts.                                            *)
(***************************************************************************)
EXTENDS Tester

\* The step of the procedure the main thread is in, seen through a call of
\* driver_set_direction.
InCall == pc \in {"set_in1", "set_in2"}
Where == IF InCall THEN call.ret ELSE pc

P0Steps == {"p0_enter", "p0_input", "p0_start", "p0_enable", "p0_run",
            "p0_check", "p0_stop", "p0_end"}
P1Steps == {"p1_enter", "p1_input", "p1_start", "p1_enable", "p1_run",
            "p1_stop", "p1_stopped", "p1_check", "p1_exit", "p1_end"}
P2Steps == {"p2_enter", "p2_input", "p2_start", "p2_enable", "p2_arm",
            "p2_run", "p2_led_off", "p2_stop", "p2_stopped", "p2_check",
            "p2_exit", "p2_disarm", "p2_end"}
MainSteps == {"boot", "wait_for_transport", "main", "main_idle"}
Steps == MainSteps \union P0Steps \union P1Steps \union P2Steps

\* The steps at which the output is on.
OnSteps == {"p0_run", "p0_check", "p0_stop", "p1_run", "p1_stop",
            "p2_arm", "p2_run", "p2_led_off", "p2_stop"}

\* The steps at which the direction inputs are set, with the output off.
AimedSteps == {"p0_enable", "p1_start", "p1_enable", "p2_start", "p2_enable"}

\* Nothing drives the bridge and no timer interrupt is armed.
Quiet == /\ com = 0 /\ clk = 0 /\ timsk = 0
         /\ in1 = 0 /\ in2 = 0
         /\ g_pwm_duty = 0

\* A procedure has returned and main has not yet marked it as over.
Returned == pc = "main_idle" /\ msg.running_proc # Idle

-----------------------------------------------------------------------------
Messages ==
  [running_proc : {0, 1, 2, Idle}, bt : SUBSET Buttons,
   start_time : Nat, end_time : Nat, in1 : {0, 1}, in2 : {0, 1},
   en : DutyValues, pwm_duty : DutyValues, pwm_period : PeriodValues]

ProgramTypeOK ==
  /\ pc \in Steps \union {"set_in1", "set_in2"}
  /\ call \in [in1 : {0, 1}, in2 : {0, 1}, ret : Steps \union {"none"}]
  /\ duty \in DutyValues
  /\ period \in Nat /\ period <= 1000
  /\ toggle_dir \in {0, 1}
  /\ led \in {0, 1}
  /\ pressed \in SUBSET Buttons
  /\ now \in 0 .. MaxMs /\ onAt \in 0 .. MaxMs /\ offAt \in 0 .. MaxMs

TypeOK == DriverTypeOK /\ ProgramTypeOK /\ msg \in Messages /\ sent \in Messages

\* Outside the runs of a procedure, and while main waits or polls, the whole
\* driver is at rest: every way out of a run, through either exit of the
\* nested loops, has stopped the timer, masked its interrupts, parked both
\* direction inputs and cleared the duty that is reported.
QuietBetweenRuns ==
  /\ Powered => Where \in OnSteps
  /\ ~InCall /\ pc \notin OnSteps \union AimedSteps => Quiet

\* The timer interrupts are armed only inside a run of procedure 2 and with
\* its callback in place, and the callback is gone when procedure 2 is left.
\* So the interrupt handler never writes the LED while main or another
\* procedure toggles it, which is a read, a change and a write of PORTD.
ArmedOnlyInRun ==
  /\ timsk = 1 => /\ cb = LedCallback
                  /\ Where \in {"p2_run", "p2_led_off", "p2_stop"}
  /\ cb = LedCallback => Where \in P2Steps \ {"p2_enter", "p2_end"}

\* The period that the running procedure has chosen.
ChosenPeriod == IF Where \in P0Steps THEN 5 ELSE period

\* A run has the settings of its own procedure: the clock, TOP and compare
\* value are those of the duty and period it has chosen, which driver.c also
\* reports.  A period of 0 would keep the clock and TOP of an earlier run.
SettingsAreApplied ==
  Powered => /\ g_pwm_duty = duty
             /\ g_pwm_period = ChosenPeriod
             /\ cs = CsBits(Cycles(ChosenPeriod))
             /\ icr = TopValue(Cycles(ChosenPeriod))
             /\ ocr = DutyCycle(icr, duty)

\* The last message of a procedure tells the host that the driver is off, and
\* its time span does not cut the last run in two: that run lies inside the
\* span, or before it when the procedure has not run the motor at all (as long
\* as g_counter_ms does not wrap in the meantime).
FinalReport ==
  Returned =>
    /\ sent = msg
    /\ sent.in1 = 0 /\ sent.in2 = 0 /\ sent.en = 0
    /\ sent.start_time <= sent.end_time
    /\ \/ sent.start_time <= onAt /\ onAt <= offAt /\ offAt <= sent.end_time
       \/ offAt <= sent.start_time /\ onAt <= offAt

\* When a procedure returns the LED is off, also after procedure 2, whose
\* interrupts may have switched it on behind the main thread's back.
DarkOnReturn == Returned => led = 0

Start ==
  ~Powered /\ Powered' =>
    /\ sent.running_proc = msg.running_proc /\ sent.running_proc # Idle
    /\ sent.pwm_duty = g_pwm_duty'
    /\ sent.running_proc # 0 => sent.pwm_period = g_pwm_period'
    /\ sent.running_proc = 0 => "bt0" \notin sent.bt
    /\ sent.running_proc = 1 => "bt2" \in sent.bt
    /\ sent.running_proc = 2 => "bt1" \in sent.bt

\* The motor only starts from the message that announced it: the last message
\* to the host shows the duty and the period that are now applied, from the
\* running procedure, with the button that asks for the run.  Procedure 0 has
\* bt0 let go, and announces no period: its message carries the one of the run
\* before (procedure_0.c never fills in pwm_period).
StartsAsAnnounced == [][Start]_vars

-----------------------------------------------------------------------------
(* What holds at each step of the main thread, strong enough to follow from  *)
(* itself one step earlier.  TesterProofs rests on it.                     *)

\* The steps a call of driver_set_direction returns to when it parks the
\* inputs, and when it sets them for a run.
Parking == {"p0_end", "p1_stopped", "p1_end", "p2_stopped", "p2_disarm"}
Aiming == {"p0_enable", "p1_start", "p1_enable", "p2_start"}

\* Only procedure 0 turns an output that is on, and then to the opposite.
CallIsSound ==
  InCall =>
    /\ call.ret \in Parking \union Aiming \union {"p0_check"}
    /\ IF call.ret \in Parking
       THEN call.in1 = 0 /\ call.in2 = 0
       ELSE call.in1 # call.in2
    /\ pc = "set_in2" => in1 = call.in1
    /\ call.ret = "p0_check" =>
         in2 # call.in2 /\ (pc = "set_in1" => in1 # call.in1)

OutputFollowsStep ==
  IF Where \in OnSteps
  THEN com = 1 /\ clk # 0
  ELSE com = 0 /\ clk = 0 /\ g_pwm_duty = 0

DirectionFollowsStep ==
  ~InCall => IF pc \in OnSteps \union AimedSteps
             THEN in1 # in2
             ELSE in1 = 0 /\ in2 = 0

MessageFollowsStep ==
  /\ Where \in P0Steps \ {"p0_enter"} => msg.running_proc = 0
  /\ Where \in P1Steps \ {"p1_enter"} => msg.running_proc = 1
  /\ Where \in P2Steps \ {"p2_enter"} => msg.running_proc = 2
  /\ Where \in {"main", "p0_enter", "p1_enter", "p2_enter"} =>
       msg.running_proc = Idle

PeriodIsReady ==
  Where \in {"p1_start", "p1_enable", "p2_start", "p2_enable"} => period > 0

\* The settings and the buttons of the run that is about to start were sent.
RunIsAnnounced ==
  /\ Where \in AimedSteps \union {"p0_start"} =>
       sent.running_proc = msg.running_proc /\ sent.pwm_duty = duty
  /\ Where \in {"p1_start", "p1_enable", "p2_start", "p2_enable"} =>
       sent.pwm_period = period
  /\ Where \in {"p0_start", "p0_enable"} => "bt0" \notin sent.bt
  /\ Where \in {"p1_start", "p1_enable"} => "bt2" \in sent.bt
  /\ Where \in {"p2_start", "p2_enable"} => "bt1" \in sent.bt

Discipline ==
  /\ CallIsSound /\ OutputFollowsStep /\ DirectionFollowsStep
  /\ ArmedOnlyInRun /\ SettingsAreApplied
  /\ MessageFollowsStep /\ PeriodIsReady /\ RunIsAnnounced

\* The stamps of the current procedure and of the last run, and how they lie
\* to each other while the output is on and while it is off, short of a wrap of
\* g_counter_ms.
Timeline ==
  /\ msg.start_time <= now /\ onAt <= now /\ offAt <= now
  /\ Where \in OnSteps => offAt <= onAt /\ msg.start_time <= onAt
  /\ Where \notin OnSteps =>
       /\ onAt <= offAt
       /\ msg.running_proc # Idle =>
            msg.start_time <= onAt \/ offAt <= msg.start_time

-----------------------------------------------------------------------------
(* The output of the bridge as HBridge sees it.                            *)

Output ==
  CASE ~Powered -> "coast"
    [] Powered /\ in1 = 1 /\ in2 = 0 -> "forward"
    [] Powered /\ in1 = 0 /\ in2 = 1 -> "reverse"
    [] Powered /\ in1 = 1 /\ in2 = 1 -> "brake_to_forward"
    [] Powered /\ in1 = 0 /\ in2 = 0 -> "brake_to_reverse"

Bridge == INSTANCE HBridge WITH output <- Output

\* The program implements HBridge: the motor is started in a direction, is
\* reversed through a brake only, and no brake lasts.
ImplementsHBridge == Bridge!Spec

-----------------------------------------------------------------------------
(* How long it takes, in steps of the main thread.                         *)

Braking == Output \in {"brake_to_forward", "brake_to_reverse"}

\* The main thread has one step to take while the output brakes, the second
\* port write of driver_set_direction, and it ends the brake (driver.c).
BrakeIsBrief == [][Braking /\ MainThread => ~Braking']_vars

\* Steps inside a call of driver_set_direction come before its return.
CallSteps == CASE pc = "set_in1" -> 2 [] pc = "set_in2" -> 1 [] OTHER -> 0

\* The operator asks for the end of the run: by a press in procedure 0, by
\* letting go in the others.
StopAsked ==
  \/ Where \in P0Steps /\ {"bt1", "bt2"} \intersect pressed # {}
  \/ Where \in P1Steps /\ ~({"bt1", "bt2"} \subseteq pressed)
  \/ Where \in P2Steps /\ ~({"bt0", "bt2"} \subseteq pressed)

\* The steps up to driver_disable.  If the buttons were last read before the
\* press, p0_check goes round once more.
StopsIn ==
  [ p0_stop |-> 1, p0_check |-> 2, p0_run |-> 5,
    p1_stop |-> 1, p1_run |-> 2,
    p2_stop |-> 1, p2_led_off |-> 2, p2_run |-> 3, p2_arm |-> 4 ][Where]
  + CallSteps
  + IF Where = "p0_check" /\ {"bt1", "bt2"} \intersect msg.bt = {} THEN 4 ELSE 0

Stopping ==
  Powered /\ StopAsked =>
    /\ StopsIn \in 1 .. 8
    /\ Powered' => StopsIn' <= StopsIn /\ (MainThread => StopsIn' < StopsIn)

\* As long as the operator asks for it the motor comes nearer to its stop with
\* every step of the main thread, and is off after eight at the latest, also
\* when the buttons were last read before (the run loops of the procedures).
StopsSoon == [][Stopping]_vars

\* Inside the outer loop of procedure 1 or 2.
Away == Where \in (P1Steps \union P2Steps) \ {"p1_enter", "p2_enter"}

\* The steps from each step up to the return.
ReturnSteps ==
  [ p1_end |-> 1, p1_exit |-> 4, p1_check |-> 5, p1_input |-> 6,
    p1_stopped |-> 8, p1_stop |-> 11, p1_run |-> 12, p1_enable |-> 13,
    p1_start |-> 16,
    p2_end |-> 1, p2_disarm |-> 2, p2_exit |-> 5, p2_check |-> 6,
    p2_input |-> 7, p2_stopped |-> 9, p2_stop |-> 12, p2_led_off |-> 13,
    p2_run |-> 14, p2_arm |-> 15, p2_enable |-> 16, p2_start |-> 17 ]

\* The buttons were last read before the release, so the outer loop goes round
\* once more.
GoesRound == \/ Where = "p1_check" /\ Pressed("bt1")
             \/ Where = "p2_check" /\ Pressed("bt2")

ReturnsIn == ReturnSteps[Where] + CallSteps + IF GoesRound THEN 2 ELSE 0

Returning ==
  Away /\ pressed = {} =>
    /\ ReturnsIn \in 1 .. 19
    /\ Away' => ReturnsIn' <= ReturnsIn /\ (MainThread => ReturnsIn' < ReturnsIn)

\* With no button pressed, procedures 1 and 2 come nearer to their return with
\* every step of the main thread, wherever they are, and it takes them 19 at
\* the most.
ReturnsSoon == [][Returning]_vars

-----------------------------------------------------------------------------
(* Liveness, under FairSpec.                                               *)

Running(proc) == Powered /\ msg.running_proc = proc

\* In procedures 1 and 2 the motor stops when one of the two buttons of the
\* run is let go, unless the operator presses it again in time.
ReleaseStops ==
  /\ (Running(1) /\ ~({"bt1", "bt2"} \subseteq pressed))
       ~> (~Running(1) \/ {"bt1", "bt2"} \subseteq pressed)
  /\ (Running(2) /\ ~({"bt0", "bt2"} \subseteq pressed))
       ~> (~Running(2) \/ {"bt0", "bt2"} \subseteq pressed)

\* In procedure 0 either stop button, held down, stops the motor.
ButtonStops ==
  \A b \in {"bt1", "bt2"} :
    (Running(0) /\ b \in pressed) ~> (~Running(0) \/ b \notin pressed)

\* With no button pressed, procedures 1 and 2 return to the main loop, the
\* only place where the watchdog is fed.
ReleaseReturns ==
  (msg.running_proc \in {1, 2} /\ pressed = {})
    ~> (msg.running_proc \notin {1, 2} \/ pressed # {})
=============================================================================
