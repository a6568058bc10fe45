----------------------------- MODULE MCUartLane -----------------------------
(* A lane of four ticks' timeout.  The code takes a quarter of the timeout  *)
(* for the walk's budget and for a stopped guest, and three timeouts for    *)
(* the ceiling.  Here these are two, two and five ticks: the order of the   *)
(* constants is the code's (UartLaneAssumption), their proportions are not. *)
(* A budget of two ticks leaves the guard room before the last second.      *)
EXTENDS UartLane
=============================================================================
