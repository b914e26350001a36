------------------------------ MODULE MCNnaDriver ------------------------------
(* Instances of NnaDriver for TLC.                                          *)
EXTENDS NnaDriver

CONSTANTS p1, p2, p3
Two == {p1, p2}
Three == {p1, p2, p3}
Everything == {"CONV", "CONV_SUBGRAPH", "MCPY", "POOL", "REGWR"}
Locked == {"CONV", "CONV_SUBGRAPH", "MCPY", "POOL"}
=============================================================================
