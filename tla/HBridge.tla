------------------------------ MODULE HBridge ------------------------------
(***************************************************************************)
(* What the tester promises about the output of the H-bridge, whatever the *)
(* buttons, the pots, the interrupts and the watchdog do.                  *)
(*                                                                         *)
(* The bridge coasts while its enable input is low.  Enabled, it drives    *)
(* the motor forward (in1 = 1, in2 = 0) or in reverse (0, 1), and brakes   *)
(* when both inputs are equal.  The output is switched on in a direction,  *)
(* never braking; the direction is only turned through a brake, which is   *)
(* left in the opposite direction; and the output may be cut at any time.  *)
(***************************************************************************)
VARIABLE output

Outputs == {"coast", "forward", "reverse", "brake_to_forward", "brake_to_reverse"}

Init == output = "coast"

Change(from, to) == output = from /\ output' = to

Start == Change("coast", "forward") \/ Change("coast", "reverse")

Brake == \/ Change("forward", "brake_to_reverse")
         \/ Change("reverse", "brake_to_forward")

Turn == \/ Change("brake_to_reverse", "reverse")
        \/ Change("brake_to_forward", "forward")

Cut == output # "coast" /\ output' = "coast"

Next == Start \/ Brake \/ Turn \/ Cut

\* A brake does not last: it is a short circuit of the motor.
Spec == Init /\ [][Next]_output /\ WF_output(Turn)

SafetySpec == Init /\ [][Next]_output
=============================================================================
