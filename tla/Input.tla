------------------------------- MODULE Input -------------------------------
(***************************************************************************)
(* firmware/src/input.c and adc.c: input_update, with the two samples of   *)
(* the contacts and the two conversions of each pot, while the operator    *)
(* moves them.                                                             *)
(*                                                                         *)
(* A contact that is pressed or let go bounces for a while (external).     *)
(* The first conversion of the ADC after a change of its channel may give  *)
(* anything, because the sampling capacitor still has the charge of the    *)
(* channel before (external).  A pin that reads 0 is an active contact;    *)
(* sets of contacts are active-high, as input.c returns them.              *)
(***************************************************************************)
EXTENDS Integers

CONSTANTS
  Buttons, Switches,  \* the contacts of the two groups
  AdcValues,          \* what a conversion may give
  Position,           \* of the pots, by channel
  DebounceMs,         \* INPUT_DEBOUNCE_TIME_MS: 20
  SampleMs,           \* ADC_DEFAULT_SAMPLE_TIME_MS: 5
  BounceMs,           \* how long a contact bounces
  PollMs,             \* how long the caller stays away at most
  HoldMs              \* how long the operator leaves all contacts alone

ASSUME InputAssumption ==
  /\ Buttons \intersect Switches = {}
  /\ {DebounceMs, SampleMs, BounceMs, HoldMs} \subseteq Nat
  /\ PollMs \in Nat \ {0}
  /\ Position \in [{0, 1} -> AdcValues]

VARIABLES
  \* the operator
  held,      \* the contacts held down
  before,    \* those held before the last change
  age,       \* milliseconds since that change, up to HoldMs
  \* the processor
  ADMUX,     \* channel of the ADC
  stable,    \* milliseconds since the channel was selected, up to SampleMs
  ipc, flags, \* next step and argument of input_update
  wait,      \* milliseconds left of a delay
  input      \* the structure that is updated

operator == <<held, before, age>>
adc == <<ADMUX, stable>>
inputVars == <<operator, adc, ipc, flags, wait, input>>

-----------------------------------------------------------------------------
Pots == {0, 1}
Groups == {"button", "switch", "pot"}

InputInit ==
  /\ held = {} /\ before = {} /\ age = HoldMs
  /\ ADMUX = 0 /\ stable = 0
  /\ ipc = "idle" /\ flags = {} /\ wait = 0
  /\ input = [contacts |-> {}, pt |-> [i \in Pots |-> 0]]

\* What the pins of a group may show.
Pins(group) ==
  {held \intersect group} \union
  IF age < BounceMs THEN {before \intersect group} ELSE {}

Report(group, set) ==
  input' = [input EXCEPT !.contacts = (@ \ group) \union set]

\* A step of the processor: instructions take no time, delays do.
InputGoto(from, to) == ipc = from /\ wait = 0 /\ ipc' = to

\* The call returns; the caller does other things before it calls again.
Leave(from) == InputGoto(from, "idle") /\ wait' \in 1 .. PollMs

\* The program calls only with INPUT_ALL or with INPUT_GROUP_BUTTON.
Update ==
  /\ InputGoto("idle", "buttons")
  /\ flags' \in {Groups, {"button"}}
  /\ UNCHANGED <<operator, adc, wait, input>>

Skip(name, from, to) ==
  /\ name \notin flags
  /\ InputGoto(from, to)
  /\ UNCHANGED <<operator, adc, flags, wait, input>>

\* MUTANT of FirstSample: takes the first sample for the result.
FirstSampleOnly(name, group, from, delayed, to) ==
  /\ name \in flags
  /\ \E set \in Pins(group) : InputGoto(from, to) /\ Report(group, set)
  /\ UNCHANGED <<operator, adc, flags, wait>>

\* MUTANT of FirstSample: waits until no contact is active.
FirstSampleWaits(name, group, from, delayed, to) ==
  /\ name \in flags
  /\ \E set \in Pins(group) :
       IF set # {}
       THEN InputGoto(from, from) /\ wait' = DebounceMs /\ UNCHANGED input
       ELSE InputGoto(from, to) /\ Report(group, {}) /\ UNCHANGED wait
  /\ UNCHANGED <<operator, adc, flags>>

\* The first sample of a group is the last if no contact is active.
FirstSample(name, group, from, delayed, to) ==
  /\ name \in flags
  /\ \E set \in Pins(group) :
       IF set # {}
       THEN InputGoto(from, delayed) /\ wait' = DebounceMs /\ UNCHANGED input
       ELSE InputGoto(from, to) /\ Report(group, {}) /\ UNCHANGED wait
  /\ UNCHANGED <<operator, adc, flags>>

SecondSample(group, from, to) ==
  /\ InputGoto(from, to)
  /\ \E set \in Pins(group) : Report(group, set)
  /\ UNCHANGED <<operator, adc, flags, wait>>

\* read_buttons; no call leaves the buttons out.
ReadButtons ==
  \/ FirstSample("button", Buttons, "buttons", "buttons2", "switches")
  \/ SecondSample(Buttons, "buttons2", "switches")

\* read_switches
ReadSwitches ==
  \/ Skip("switch", "switches", "pt0")
  \/ FirstSample("switch", Switches, "switches", "switches2", "pt0")
  \/ SecondSample(Switches, "switches2", "pt0")

\* adc_read: selects the channel, converts, and waits for the result.
AdcRead(i) ==
  /\ ADMUX' = i
  /\ stable' = IF ADMUX = i THEN stable ELSE 0
  /\ \E v \in IF stable' = SampleMs THEN {Position[i]} ELSE AdcValues :
       input' = [input EXCEPT !.pt[i] = v]

\* MUTANT of ReadPot: reads each pot once.
ReadPotOnce(i, first, second, to) ==
  /\ "pot" \in flags
  /\ IF to = "idle" THEN Leave(first) ELSE InputGoto(first, to) /\ UNCHANGED wait
  /\ AdcRead(i)
  /\ UNCHANGED <<operator, flags>>

\* The first conversion selects the channel, the second one counts.
ReadPot(i, first, second, to) ==
  /\ "pot" \in flags
  /\ \/ InputGoto(first, second) /\ wait' = SampleMs
     \/ IF to = "idle" THEN Leave(second) ELSE InputGoto(second, to) /\ UNCHANGED wait
  /\ AdcRead(i)
  /\ UNCHANGED <<operator, flags>>

ReadPots ==
  \/ /\ "pot" \notin flags
     /\ Leave("pt0")
     /\ UNCHANGED <<operator, adc, flags, input>>
  \/ ReadPot(0, "pt0", "pt0_again", "pt1")
  \/ ReadPot(1, "pt1", "pt1_again", "idle")

-----------------------------------------------------------------------------
(* The operator and the time (external).                                   *)

Move ==
  /\ age = HoldMs
  /\ \E c \in Buttons \union Switches :
       held' = IF c \in held THEN held \ {c} ELSE held \union {c}
  /\ before' = held
  /\ age' = 0
  /\ UNCHANGED <<adc, ipc, flags, wait, input>>

Up(t, bound) == IF t < bound THEN t + 1 ELSE t

Tick ==
  /\ wait > 0 /\ wait' = wait - 1
  /\ age' = Up(age, HoldMs) /\ stable' = Up(stable, SampleMs)
  /\ UNCHANGED <<held, before, ADMUX, ipc, flags, input>>

-----------------------------------------------------------------------------
InputUpdate == ReadButtons \/ ReadSwitches \/ ReadPots

InputNext == Update \/ InputUpdate \/ Move \/ Tick

InputSpec == InputInit /\ [][InputNext]_inputVars

-----------------------------------------------------------------------------
\* One press is one press: as soon as the buttons are reported as they are
\* held, they stay so until the operator moves another contact, although the
\* last one may still bounce and an active reading is repeated only once.
NoFlicker ==
  [][input.contacts \intersect Buttons = held \intersect Buttons
       /\ UNCHANGED held =>
     input'.contacts \intersect Buttons = held \intersect Buttons]_inputVars

\* After a call that reads the pots each one has the value of its own pot,
\* while the pots stand still, also when the conversion before was one of the
\* other pot.
PotsAreTheirOwn ==
  ipc = "idle" /\ "pot" \in flags => input.pt = Position

\* A contact that stays held is reported while the caller keeps reading.
PressIsSeen ==
  \A c \in Buttons \union Switches :
    c \in held ~> c \in input.contacts \/ c \notin held
=============================================================================
