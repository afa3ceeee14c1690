SPECIFICATION SafetySpec
CONSTANTS
    Name = {A, B}
    Handle = {1, 2}
    NoChild = NoChild
    Rpc = {r1, r2}
    Ptr = {p1, p2, p3, p4}
    MaxResolver = 2
INVARIANTS TypeOK OneChannel ConfigNotAhead
CHECK_DEADLOCK FALSE
