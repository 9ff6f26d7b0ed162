------------------------------- MODULE Board -------------------------------
(***************************************************************************)
(* The board in time: main.c and the three procedures with the lengths of  *)
(* their delays, the watchdog, and the reports that wait for the host.     *)
(*                                                                         *)
(* Time is counted in ticks of MsPerTick milliseconds.  A delay of d ms    *)
(* sees d / MsPerTick of them, rounded down or up.  A tick is longer than  *)
(* the period of the timer event, so that every tick raises it: 250 counts *)
(* of 1004 us are 251 ms (Time).  What the driver, the inputs and the      *)
(* messages are is in Tester; here a step lasts from one delay to the      *)
(* next.                                                                   *)
(***************************************************************************)
EXTENDS Integers

CONSTANTS
  MsPerTick,   \* length of a tick
  WatchdogMs   \* WDTO_8S: 8000

TIME_EVENT_PERIOD_MS == 250

ASSUME BoardAssumption ==
  /\ MsPerTick \in Nat /\ MsPerTick > TIME_EVENT_PERIOD_MS
  /\ WatchdogMs \in Nat \ {0}

VARIABLES
  pc,      \* next step of the main thread
  left,    \* ticks until it is taken
  hung,    \* the processor waits for the host, and for nothing else
  usb,     \* configured by the host
  bank,    \* reports in the transmit endpoint
  event,   \* g_timer_reached
  wdt      \* ticks since the watchdog was fed

processor == <<pc, left, hung>>
transport == <<usb, bank>>
boardVars == <<processor, transport, event, wdt>>

-----------------------------------------------------------------------------
Buttons == {"bt0", "bt1", "bt2"}

INPUT_DEBOUNCE_TIME_MS == 20
ADC_DEFAULT_SAMPLE_TIME_MS == 5

\* input_update, at the longest: two debounced groups, two pots.
InputMs == 2 * INPUT_DEBOUNCE_TIME_MS + 2 * ADC_DEFAULT_SAMPLE_TIME_MS

StateMs == ADC_DEFAULT_SAMPLE_TIME_MS   \* driver_get_state
SendMs == 100                           \* TRANSPORT_TX_TIMEOUT
ReportMs == StateMs + SendMs            \* both, at the longest

IntervalMs == 1023  \* delay_interval is the reading of a pot
Banks == 2

WatchdogTicks == WatchdogMs \div MsPerTick

\* The ticks that a wait between min and max milliseconds may see.
Spans(min, max) == (min \div MsPerTick) .. ((max + MsPerTick - 1) \div MsPerTick)

BoardInit ==
  /\ pc = "poll" /\ left \in Spans(1000, 1000) /\ hung = FALSE
  /\ usb = FALSE /\ bank = 0 /\ event = FALSE
  /\ wdt = 0

Running == left = 0 /\ ~hung

Goto(step, min, max) ==
  /\ pc' = step /\ left' \in Spans(min, max)
  /\ UNCHANGED hung

\* n calls of msg_send.  The longest wait is in Goto.
Send(n) ==
  /\ bank' = IF ~usb THEN bank ELSE IF bank + n <= Banks THEN bank + n ELSE Banks
  /\ UNCHANGED usb

-----------------------------------------------------------------------------
(* main.c                                                                  *)

\* wait_for_transport
Poll ==
  /\ pc = "poll" /\ Running
  /\ IF usb THEN Goto("main", 1000, 1000) ELSE Goto("poll", 50, 50)
  /\ UNCHANGED <<transport, event, wdt>>

\* From wdt_reset to the choice of a procedure.
MainTop ==
  /\ pc = "main" /\ Running
  /\ wdt' = 0
  /\ \E step \in {"read0", "read1", "read2", "tail"} : Goto(step, 0, InputMs)
  /\ UNCHANGED <<transport, event>>

\* MUTANT of MainTail: takes the event and forgets the report.
MainTailQuiet ==
  /\ pc = "tail" /\ Running
  /\ Goto("main", 0, ReportMs)
  /\ event' = FALSE
  /\ UNCHANGED <<transport, wdt>>

\* The periodic report.
MainTail ==
  /\ pc = "tail" /\ Running
  /\ Goto("main", 0, ReportMs)
  /\ event' = FALSE
  /\ IF event THEN Send(1) ELSE UNCHANGED transport
  /\ UNCHANGED wdt

-----------------------------------------------------------------------------
(* The procedures.  The buttons a loop reads may be any, so it may go on   *)
(* or end.                                                                 *)

Work(from, steps, min, max, reports) ==
  /\ pc = from /\ Running
  /\ \E step \in steps : Goto(step, min, max)
  /\ Send(reports) /\ UNCHANGED event

\* procedure_0_run: read inputs while pressed
Read0 == Work("read0", {"read0", "wait0"}, 20, 20 + InputMs + ReportMs, 1) /\ UNCHANGED wdt
Wait0 == Work("wait0", {"start0"}, 500, 500, 0) /\ UNCHANGED wdt
Start0 == Work("start0", {"run0"}, 0, 0, 0) /\ UNCHANGED wdt

\* MUTANT of Run0: feeds the watchdog, as the main loop does.
Run0Feeding ==
  /\ Work("run0", {"run0", "stop0"}, 0, IntervalMs + InputMs + ReportMs, 1)
  /\ wdt' = 0

Run0 == Work("run0", {"run0", "stop0"}, 0, IntervalMs + InputMs + ReportMs, 1) /\ UNCHANGED wdt

\* The motor is switched off.
Stop0 == Work("stop0", {"tail"}, 1000, 1000 + ReportMs, 1) /\ UNCHANGED wdt

\* procedure_1_run: its run loop has no delay of its own
Read1 ==
  /\ \/ Work("read1", {"read1", "end"}, 20, 20 + InputMs + ReportMs, 1)
     \/ Work("read1", {"run1"}, 0, InputMs + ReportMs, 1)
  /\ UNCHANGED wdt
Run1 == Work("run1", {"run1", "stop1"}, 0, InputMs + ReportMs, 1) /\ UNCHANGED wdt
Stop1 == Work("stop1", {"read1", "end"}, 20, 20 + SendMs, 1) /\ UNCHANGED wdt

\* procedure_2_run.  With a short PWM period the timer interrupts of its run come
\* faster than their handler is done, and leave the main thread one instruction
\* between two of them.  The delays then last many times longer, so that only the
\* watchdog bounds a pass.
Read2 ==
  /\ \/ Work("read2", {"read2", "end"}, 20, 20 + InputMs + ReportMs, 1)
     \/ Work("read2", {"run2"}, 0, InputMs + ReportMs, 1)
  /\ UNCHANGED wdt
Run2 == Work("run2", {"run2", "stop2"}, 20, WatchdogMs, 1) /\ UNCHANGED wdt
Stop2 == Work("stop2", {"read2", "end"}, 120, 120 + SendMs, 1) /\ UNCHANGED wdt

\* The end of procedures 1 and 2.
End == Work("end", {"tail"}, 1000, 1000 + ReportMs, 1) /\ UNCHANGED wdt

Procedures ==
  \/ Read0 \/ Wait0 \/ Start0 \/ Run0 \/ Stop0
  \/ Read1 \/ Run1 \/ Stop1
  \/ Read2 \/ Run2 \/ Stop2 \/ End

-----------------------------------------------------------------------------
(* Around the processor (external).                                        *)

\* The host configures the device; it may give it up again.
Configure ==
  /\ ~usb /\ ~hung
  /\ usb' = TRUE
  /\ UNCHANGED <<processor, bank, event, wdt>>

GiveUp ==
  /\ usb
  /\ usb' = FALSE /\ bank' = 0
  /\ UNCHANGED <<processor, event, wdt>>

\* The control request handler, or a send on a suspended bus, waits for a
\* host that does not go on.
Hang ==
  /\ ~hung
  /\ hung' = TRUE
  /\ UNCHANGED <<pc, left, transport, event, wdt>>

\* Time passes while the processor waits, and ends with the watchdog.
Tick ==
  /\ left > 0 \/ hung
  /\ wdt < WatchdogTicks
  /\ left' = IF left > 0 THEN left - 1 ELSE 0
  /\ event' = TRUE
  /\ wdt' = wdt + 1
  /\ UNCHANGED <<pc, hung, transport>>

WatchdogReset ==
  /\ wdt = WatchdogTicks
  /\ pc' = "poll" /\ left' \in Spans(1000, 1000) /\ hung' = FALSE
  /\ usb' = FALSE /\ bank' = 0 /\ event' = FALSE
  /\ wdt' = 0

MainThread == Poll \/ MainTop \/ MainTail \/ Procedures

-----------------------------------------------------------------------------
\* From driver_enable to driver_disable.
MotorOn == pc \in {"run0", "stop0", "run1", "stop1", "run2", "stop2"}

\* Nothing puts the watchdog off while the motor is on, whatever the operator,
\* the host or an endless wait does: a run of the motor never outlasts
\* WatchdogMs (procedure_0.c:66-82, procedure_1.c:81-91, procedure_2.c:83-93
\* contain no wdt_reset, in any call they make).
MotorRunIsBounded == [][MotorOn /\ MotorOn' => wdt' >= wdt]_boardVars

=============================================================================
