SPECIFICATION Spec
CONSTANTS
    r1 = r1
    r2 = r2
    r3 = r3
    r4 = r4
    r5 = r5
    v1 = v1
    p1 = p1
    zero = zero
    Roots = {r1, r2, r3, r4, r5}
    Vas = {v1}
    Pages = {p1}
    Values = {zero}
    Zero = zero
    Unmapped = Unmapped
    Gone = Gone
    NoPage = NoPage
    NoRoot = NoRoot
    NoVa = NoVa
SYMMETRY Symmetry
CHECK_DEADLOCK FALSE
INVARIANT RetainNeverRefused
