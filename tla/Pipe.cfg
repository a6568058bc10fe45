CONSTANTS
  p1 = p1
  p2 = p2
  p3 = p3
  a1 = a1
  x = x
  y = y
  Proc <- MCPair
  Pipes <- MCPipes
  Byte <- MCByte
  NoPipe = NoPipe
  Zero = Zero
  PIPE_BUFFER_BYTES = 3
  MaxCount = 2
  LastGeneration = 2
  Faults = TRUE
SPECIFICATION Spec
INVARIANTS
  TypeOK
  NoLostWake
  EndOpenWhileHeld
PROPERTY StreamSpec
SYMMETRY PairAndBytes
CHECK_DEADLOCK FALSE
