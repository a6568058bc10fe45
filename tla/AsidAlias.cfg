SPECIFICATION Spec
CONSTANTS
    c1 = c1
    c2 = c2
    r1 = r1
    r2 = r2
    r3 = r3
    Cores = {c1, c2}
    Roots = {r1, r2, r3}
    Init1 = r1
    Boot = Boot
    Dead = Dead
    None = None
    AsidLast = 3
    MaxGeneration = 2
SYMMETRY Symmetry
CHECK_DEADLOCK FALSE
INVARIANT NoAlias
