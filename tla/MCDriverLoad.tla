----------------------------- MODULE MCDriverLoad -----------------------------
(* Instances of DriverLoad for TLC.                                         *)
EXTENDS DriverLoad

CONSTANTS a1, a2
TwoApps == {a1, a2}
TwoBlocks == {1, 2}
=============================================================================
