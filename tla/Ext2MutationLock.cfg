SPECIFICATION Spec
CONSTANTS
    c0 = c0
    c1 = c1
    c2 = c2
    CPU <- MCCPU
    NoCPU = NoCPU
INVARIANTS
    CountExact
    ReadersExcluded
PROPERTIES
    MutatorAdmitted
    RWSpec
