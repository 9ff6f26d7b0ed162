------------------------------ MODULE MCTester ------------------------------
(***************************************************************************)
(* Tester with a few pot readings.                                         *)
(***************************************************************************)
EXTENDS TesterProperties

\* The ends of a pot: duties 0 and 1023, the shortest and longest periods.
PotEnds == {0, 1023}

\* One position, where only the order of events matters.
PotMiddle == {512}
=============================================================================
