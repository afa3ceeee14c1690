SPECIFICATION Spec
CONSTANTS
    k1 = k1
    k2 = k2
    s1 = s1
    s2 = s2
    Key = {k1, k2}
    Cluster = {s1, s2}
    Call = {c1, c2}
    Counter = {n1, n2}
    Config = {g1, g2, g3}
    None = None
    Cds <- MCCds
INVARIANTS CleanedUp
CHECK_DEADLOCK FALSE
