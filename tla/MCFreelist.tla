----------------------------- MODULE MCFreelist -----------------------------
(* Four slots, so that a range can cover the head, two neighbours behind it  *)
(* and the end of the chain; two generations, so that the counter runs out.  *)
EXTENDS Freelist
=============================================================================
