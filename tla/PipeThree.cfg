CONSTANTS
  p1 = p1
  p2 = p2
  p3 = p3
  a1 = a1
  x = x
  y = y
  Proc <- MCProc
  Pipes <- MCPipes
  Byte <- MCOneByte
  NoPipe = NoPipe
  Zero = Zero
  PIPE_BUFFER_BYTES = 1
  MaxCount = 2
  LastGeneration = 1
  Faults = FALSE
SPECIFICATION Spec
INVARIANTS
  TypeOK
  NoLostWake
  EndOpenWhileHeld
SYMMETRY Processes
CHECK_DEADLOCK FALSE
