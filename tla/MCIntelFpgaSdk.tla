---------------------------- MODULE MCIntelFpgaSdk ----------------------------
(* An instance of IntelFpgaSdk for TLC.                                     *)
EXTENDS IntelFpgaSdk

CONSTANTS t1, t2, t3
ThreeThreads == {t1, t2, t3}
=============================================================================
