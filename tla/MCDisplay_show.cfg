SPECIFICATION Spec
CONSTANTS
    c1 = c1
    c2 = c2
    None = None
    Alloc = 3
    Counts = {2, 3}
    Configs = {c1, c2}
    Successive = FALSE
INVARIANTS TypeOK ScannedIsStable
PROPERTIES ShowsInOrder GetReturns
