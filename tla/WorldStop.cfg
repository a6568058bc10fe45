SPECIFICATION Spec
CONSTANTS
    c0 = c0
    c1 = c1
    c2 = c2
    noCpu = noCpu
    CPU <- MCThree
    Boot = c0
    Present <- MCPair
    NoCPU = noCpu
    Kinds = {"quiet", "debug"}
    Spins = 2
    LastGeneration = 2
CHECK_DEADLOCK FALSE
INVARIANTS
    TypeOK
    OneClaimant
    MachineStopped
PROPERTIES
    HeldReleased
