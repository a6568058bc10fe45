------------------------------ MODULE MCPipe ------------------------------
(* One pool record.  Three processes and a buffer of one byte, so that     *)
(* two can sleep while a third wakes them and a write can be longer than   *)
(* the buffer; or two processes, two byte values and a buffer of three,    *)
(* for the contents across a wrap, and a second allocation of the record,  *)
(* for the reuse of its address.                                           *)
EXTENDS Pipe, TLC

CONSTANTS p1, p2, p3, a1, x, y

MCProc == {p1, p2, p3}
MCPair == {p1, p2}
MCPipes == {a1}
MCByte == {x, y}
MCOneByte == {x}
Processes == Permutations(MCProc)
Pair == Permutations(MCPair)
PairAndBytes == Pair \cup Permutations(MCByte)
=============================================================================
