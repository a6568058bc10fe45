SPECIFICATION Spec
CONSTANTS
  s1 = s1
  s2 = s2
  Slot <- MCSlot
  BlockCount = 1
  BucketCount = 2
  CacheSlots = 2
  RunBlocks = 1
  MaxWrites = 2
INVARIANTS
  FreshRead
  CopyCurrent
SYMMETRY Slots
