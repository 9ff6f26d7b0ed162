--------------------------- MODULE MCPeripherals ---------------------------
(***************************************************************************)
(* Two parts of the firmware that work against a peripheral of their own:  *)
(* pwm.c with timer 3 and usb_rawhid.c with endpoint 0.  They share no     *)
(* state, so each is explored on its own: a part takes steps while the     *)
(* other is as after a reset.                                              *)
(***************************************************************************)
EXTENDS Timer3, Control

\* Two values of TOP on either side of the larger compare value, so that a
\* compare value of the run before can lie above the new TOP.
TopsSmall == {2, 5}
ComparesSmall == {0, 1, 3}

vars == <<timer3Vars, controlVars>>

TimerAlone == ControlInit /\ UNCHANGED controlVars
ControlAlone == Timer3Init /\ UNCHANGED timer3Vars

Init == Timer3Init /\ ControlInit

Next ==
  \/ TimerAlone /\ Timer3Next
  \/ ControlAlone /\ ControlNext

Spec == Init /\ [][Next]_vars

\* A running timer counts, and the main thread does not stop inside a call of
\* pwm.c.  The processor runs the handler of the control requests, and the
\* host goes on with the transfer it has begun.
FairSpec ==
  /\ Spec
  /\ WF_vars(TimerAlone /\ Count) /\ WF_vars(TimerAlone /\ PwmReturns)
  /\ WF_vars(ControlAlone /\ Handler) /\ WF_vars(ControlAlone /\ Continue)
=============================================================================
