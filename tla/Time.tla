-------------------------------- MODULE Time --------------------------------
(***************************************************************************)
(* firmware/src/time.c: the millisecond counter and the periodic event,    *)
(* written by the compare interrupt of timer 0 and read by the main thread *)
(* of an 8-bit processor, one byte at a time, with the interrupts off.     *)
(*                                                                         *)
(* The main thread calls time_get_ms and time_get_and_clear_event in any   *)
(* order; a step of it is what happens between two points where the        *)
(* interrupt could come in.  Other interrupts and critical sections only   *)
(* delay this one, which needs no action: it comes when it comes.          *)
(***************************************************************************)
EXTENDS Naturals

CONSTANTS
  Base,         \* values of one byte: 256
  EventPeriod   \* TIME_EVENT_PERIOD_MS: 250

ASSUME BaseAssumption == Base \in Nat /\ Base > 1
ASSUME EventPeriodAssumption == EventPeriod \in Nat /\ EventPeriod > 0

VARIABLES
  pc,               \* next step of the main thread
  ie,               \* the global interrupt enable, bit I of SREG
  ocf,              \* OCF0A: a compare match waits for its interrupt
  g_counter_ms,     \* a uint32_t, as its bytes, the least significant first
  g_timer_counter,
  g_timer_reached,
  regs,             \* the registers a call has loaded
  timestamp,        \* what time_get_ms last returned
  status            \* what time_get_and_clear_event last returned

statics == <<g_counter_ms, g_timer_counter, g_timer_reached>>
vars == <<pc, ie, ocf, statics, regs, timestamp, status>>

-----------------------------------------------------------------------------
Bytes == 0 .. Base - 1
Words == [1 .. 4 -> Bytes]
Zero == [i \in 1 .. 4 |-> 0]

\* The number that four bytes stand for.
Digit(d, n) == d + Base * n
Value(w) == Digit(w[1], Digit(w[2], Digit(w[3], w[4])))

\* Adding one: a byte takes part if all the bytes below it carry.
Increment(w) ==
  [i \in 1 .. 4 |->
     IF \A j \in 1 .. 4 : j < i => w[j] = Base - 1
     THEN IF w[i] = Base - 1 THEN 0 ELSE w[i] + 1
     ELSE w[i]]

Loads == {"load_1", "load_2", "load_3", "load_4"}

-----------------------------------------------------------------------------
\* time_init, with the interrupts off from its first statement to its last.
Init ==
  /\ pc = "idle" /\ ie = 1 /\ ocf = 0
  /\ g_counter_ms = Zero /\ g_timer_counter = 0 /\ g_timer_reached = 0
  /\ regs = Zero /\ timestamp = Zero /\ status = 0

\* The counter of timer 0 reaches OCR0A.  A match that finds the flag still
\* set is lost.
Match ==
  /\ ocf' = 1
  /\ UNCHANGED <<pc, ie, statics, regs, timestamp, status>>

\* MUTANT of CompareInterrupt: compares before it counts.
CompareInterruptLate ==
  /\ ie = 1 /\ ocf = 1
  /\ ocf' = 0
  /\ g_counter_ms' = Increment(g_counter_ms)
  /\ IF g_timer_counter = EventPeriod
     THEN g_timer_counter' = 0 /\ g_timer_reached' = 1
     ELSE g_timer_counter' = g_timer_counter + 1 /\ UNCHANGED g_timer_reached
  /\ UNCHANGED <<pc, ie, regs, timestamp, status>>

\* TIMER0_COMPA_vect
CompareInterrupt ==
  /\ ie = 1 /\ ocf = 1
  /\ ocf' = 0
  /\ g_counter_ms' = Increment(g_counter_ms)
  /\ IF g_timer_counter + 1 = EventPeriod
     THEN g_timer_counter' = 0 /\ g_timer_reached' = 1
     ELSE g_timer_counter' = g_timer_counter + 1 /\ UNCHANGED g_timer_reached
  /\ UNCHANGED <<pc, ie, regs, timestamp, status>>

-----------------------------------------------------------------------------
(* time_get_ms *)

\* MUTANT of GetMs: reads the counter with the interrupts on.
GetMsUnprotected ==
  /\ pc = "idle" /\ pc' = "load_1"
  /\ UNCHANGED <<ie, ocf, statics, regs, timestamp, status>>

GetMs ==
  /\ pc = "idle" /\ pc' = "load_1"
  /\ ie' = 0
  /\ UNCHANGED <<ocf, statics, regs, timestamp, status>>

Load(i, from, to) ==
  /\ pc = from /\ pc' = to
  /\ regs' = [regs EXCEPT ![i] = g_counter_ms[i]]
  /\ UNCHANGED <<ie, ocf, statics, timestamp, status>>

GetMsLoad == \/ Load(1, "load_1", "load_2")
             \/ Load(2, "load_2", "load_3")
             \/ Load(3, "load_3", "load_4")
             \/ Load(4, "load_4", "loaded")

GetMsReturn ==
  /\ pc = "loaded" /\ pc' = "idle"
  /\ ie' = 1
  /\ timestamp' = regs
  /\ UNCHANGED <<ocf, statics, regs, status>>

-----------------------------------------------------------------------------
(* time_get_and_clear_event *)

\* MUTANT of TakeEvent: polls the event with the interrupts on.
TakeEventUnprotected ==
  /\ pc = "idle" /\ pc' = "take"
  /\ UNCHANGED <<ie, ocf, statics, regs, timestamp, status>>

TakeEvent ==
  /\ pc = "idle" /\ pc' = "take"
  /\ ie' = 0
  /\ UNCHANGED <<ocf, statics, regs, timestamp, status>>

TakeStatus ==
  /\ pc = "take" /\ pc' = "clear"
  /\ regs' = [regs EXCEPT ![1] = g_timer_reached]
  /\ UNCHANGED <<ie, ocf, statics, timestamp, status>>

TakeClear ==
  /\ pc = "clear" /\ pc' = "taken"
  /\ g_timer_reached' = 0
  /\ UNCHANGED <<ie, ocf, g_counter_ms, g_timer_counter>>
  /\ UNCHANGED <<regs, timestamp, status>>

\* MUTANT of TakeReturn: returns the flag instead of the copy of it.
TakeReturnFlag ==
  /\ pc = "taken" /\ pc' = "idle"
  /\ ie' = 1
  /\ status' = g_timer_reached
  /\ UNCHANGED <<ocf, statics, regs, timestamp>>

TakeReturn ==
  /\ pc = "taken" /\ pc' = "idle"
  /\ ie' = 1
  /\ status' = regs[1]
  /\ UNCHANGED <<ocf, statics, regs, timestamp>>

-----------------------------------------------------------------------------
MainThread == \/ GetMs \/ GetMsLoad \/ GetMsReturn
              \/ TakeEvent \/ TakeStatus \/ TakeClear \/ TakeReturn

Next == Match \/ CompareInterrupt \/ MainThread

Spec == Init /\ [][Next]_vars

\* The main loop polls the event again and again, timer 0 counts on, and a
\* pending interrupt is taken once interrupts keep being enabled.
FairSpec == /\ Spec
            /\ WF_vars(Match)
            /\ SF_vars(CompareInterrupt)
            /\ WF_vars(MainThread) /\ SF_vars(TakeEvent)

-----------------------------------------------------------------------------
TimeTypeOK ==
  /\ pc \in Loads \union {"idle", "loaded", "take", "clear", "taken"}
  /\ ie \in {0, 1} /\ ocf \in {0, 1}
  /\ g_counter_ms \in Words
  /\ g_timer_counter \in 0 .. EventPeriod - 1
  /\ g_timer_reached \in {0, 1}
  /\ regs \in Words /\ timestamp \in Words
  /\ status \in {0, 1}

\* Interrupts are off exactly inside the two calls, and what the call has
\* loaded so far is what the counter or the event flag holds.
Sections ==
  /\ ie = 1 <=> pc = "idle"
  /\ pc \in {"load_2", "load_3", "load_4", "loaded"} => regs[1] = g_counter_ms[1]
  /\ pc \in {"load_3", "load_4", "loaded"} => regs[2] = g_counter_ms[2]
  /\ pc \in {"load_4", "loaded"} => regs[3] = g_counter_ms[3]
  /\ pc = "loaded" => regs[4] = g_counter_ms[4]
  /\ pc = "clear" => regs[1] = g_timer_reached
  /\ pc = "taken" => regs[1] \in {0, 1} /\ g_timer_reached = 0

-----------------------------------------------------------------------------
\* A call takes effect at one instant although it takes several steps: the
\* time stamp with the return, the poll with the clearing of the flag.
Abstract ==
  INSTANCE Clock WITH
    Modulus <- Base * Base * Base * Base,
    ms <- Value(g_counter_ms),
    phase <- g_timer_counter,
    event <- g_timer_reached,
    stamp <- Value(timestamp),
    answer <- IF pc = "taken" THEN regs[1] ELSE status

\* time.c implements Clock: a time stamp is never torn by the interrupt, and
\* an event is taken once, or merged with a later one, and never lost.
ImplementsClock == Abstract!Spec

\* Timer 0 counts the 16 MHz clock divided by 64 from 0 up to OCR0A, so a
\* match comes every OCR0A + 1 counts of 4 microseconds.
OCR0A == 250
TickMicroseconds == (OCR0A + 1) * 4

\* The comment in time_init calls timer 0 a 1 KHz counter: as many
\* milliseconds have passed at a tick as the counter says.
CountsMilliseconds ==
  (Value(g_counter_ms) * TickMicroseconds) \div 1000 = Value(g_counter_ms)

\* The periodic message never stops: the main loop finds the event set again
\* and again.
Heartbeat == []<>(status = 1)
=============================================================================
