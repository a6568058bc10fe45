----------------------------- MODULE MCWorldStop -----------------------------
(* The boot core and two more: one of them refused by the firmware, or both *)
(* present.                                                                *)
EXTENDS WorldStop, TLC

CONSTANTS c0, c1, c2, noCpu

MCPair == {c0, c1}
MCThree == {c0, c1, c2}
=============================================================================
