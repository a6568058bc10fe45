SPECIFICATION Spec
CONSTANTS
    r1 = r1
    r2 = r2
    r3 = r3
    v1 = v1
    v2 = v2
    p1 = p1
    p2 = p2
    p3 = p3
    zero = zero
    one = one
    Roots = {r1, r2, r3}
    Vas = {v1, v2}
    Pages = {p1, p2, p3}
    Values = {zero, one}
    Zero = zero
    Unmapped = Unmapped
    Gone = Gone
    NoPage = NoPage
    NoRoot = NoRoot
    NoVa = NoVa
SYMMETRY Symmetry
CHECK_DEADLOCK FALSE
INVARIANTS
    CountExact
    WriterAlone
    TranslationsHeld
    RetainWithinBound
PROPERTY PrivateMemory
