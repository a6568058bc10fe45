SPECIFICATION Spec
CONSTANTS
    c0 = c0
    c1 = c1
    p1 = p1
    p2 = p2
    p3 = p3
    CPU <- MCCPU
    Boot = c0
    Proc <- MCProc
    Root = p1
    NoCPU = NoCPU
    NoProc = NoProc
    AnyChild = AnyChild
    Ignoring = {}
    Masks <- MCPeerOnly
    Targets = {p1}
    PeerUnsafe = TRUE
    Rollover = {}
INVARIANTS
    StackExclusive
    NoFailStop
    OneRunner
    NoLostWait
    NoZombieForgotten
    WakeHasChild
    PinHonoured
SYMMETRY Records
CHECK_DEADLOCK FALSE
