------------------------------ MODULE MCProcess ------------------------------
(* Two cores, PID 1 and two more records. *)
EXTENDS Process, TLC

CONSTANTS c0, c1, p1, p2, p3

MCCPU == {c0, c1}
MCProc == {p1, p2, p3}
MCPeerOnly == {{c1}}

Records == Permutations({p2, p3})
=============================================================================
