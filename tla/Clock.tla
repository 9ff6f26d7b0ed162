------------------------------- MODULE Clock -------------------------------
(***************************************************************************)
(* What time.c promises its callers: a counter of ticks that is read whole *)
(* at one instant, and an event that is raised every EventPeriod ticks and *)
(* is taken at most once.                                                  *)
(***************************************************************************)
EXTENDS Naturals

CONSTANTS Modulus, EventPeriod

VARIABLES
  ms,      \* the counter
  phase,   \* ticks since the last event was raised
  event,   \* an event has been raised and not taken
  stamp,   \* what the last read of the counter returned
  answer   \* what the last poll for the event returned

Init == ms = 0 /\ phase = 0 /\ event = 0 /\ stamp = 0 /\ answer = 0

Tick ==
  /\ ms' = IF ms = Modulus - 1 THEN 0 ELSE ms + 1
  /\ IF phase = EventPeriod - 1
     THEN phase' = 0 /\ event' = 1
     ELSE phase' = phase + 1 /\ UNCHANGED event
  /\ UNCHANGED <<stamp, answer>>

Read == stamp' = ms /\ UNCHANGED <<ms, phase, event, answer>>

Poll == answer' = event /\ event' = 0 /\ UNCHANGED <<ms, phase, stamp>>

Next == Tick \/ Read \/ Poll

Spec == Init /\ [][Next]_<<ms, phase, event, stamp, answer>>
=============================================================================
